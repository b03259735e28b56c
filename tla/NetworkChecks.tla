---------------------------- MODULE NetworkChecks ---------------------------
(***************************************************************************)
(* What the built-in plugins report of what the network shows and of this  *)
(* machine's own client: plugins/builtin/algorithm_classes.py,             *)
(* protocol_features.py, host_key_sizes.py, auth_methods.py,               *)
(* preauth_capacity.py, sshfp_records.py, known_hosts_record.py and        *)
(* client_audit.py. A finding is its identifier. The order of an algorithm *)
(* list is not kept, so neither is the check of its first name.            *)
(***************************************************************************)
EXTENDS Assessment, ConfigChecks

AlgorithmFindings(policy, facts, class) ==
    LET found == Categories(policy, facts, class)
        bad == found \cap {"weak", "insecure"}
    IN {c \o "-" \o class : c \in bad \cup (found \cap {"unknown"})}
       \cup (IF found \cap Scored # {} /\ bad = {} /\ "recommended" \notin found
             THEN {"no-recommended-" \o class} ELSE {})

\* Mutant: a server without strict key exchange is not told of the rest.
ProtocolFindingsElse(policy, facts) ==
    IF ~StrictKex(facts) /\ policy.requireStrict THEN {"no-strict-kex"}
    ELSE IF PostQuantumStatus(policy, facts) = "not_ready" THEN {"no-post-quantum-kex"} ELSE {}

\* _protocol_findings; policy.requireTag is what one algorithm of a class has
\* to have, aead for the ciphers.
ProtocolFindings(policy, facts) ==
    (IF ~StrictKex(facts) /\ policy.requireStrict THEN {"no-strict-kex"} ELSE {})
    \cup (CASE PostQuantumStatus(policy, facts) = "not_ready" -> {"no-post-quantum-kex"}
            [] PostQuantumStatus(policy, facts) = "ready" -> {"post-quantum-ready"}
            [] OTHER -> {})
    \cup {"no-" \o policy.requireTag[class] : class \in
            {c \in DOMAIN policy.requireTag \cap DOMAIN facts.offers :
                ~\E n \in facts.offers[c] : policy.requireTag[c] \in Lookup(policy, c, n).tags}}
    \cup (IF \E class \in DOMAIN facts.offers :
                policy.weights[class] > 0 /\ ClassScore(policy, facts, class) = None
          THEN {"unscored-classes"} ELSE {})

\* _host_key_findings: sizes of the keys that were read, groups of all.
HostKeyFindings(policy, facts) ==
    LET sized == {k \in facts.keys : ~k.error /\ k.bits > 0}
    IN (IF \E k \in sized : BelowMinimum(policy, k.family, k.bits) THEN {"host-key-too-small"} ELSE {})
       \cup (IF \E k \in sized : BelowRecommended(policy, k.family, k.bits) THEN {"host-key-small"} ELSE {})
       \cup (IF \E k \in facts.keys : k.group # None /\ k.group < policy.dh.min
             THEN {"weak-dh-group"} ELSE {})
       \cup (IF facts.keys # {} /\ \A k \in facts.keys : k.error THEN {"host-key-unavailable"} ELSE {})

\* _auth_method_findings; the method "none" stands for a session that was
\* granted without credentials.
AuthJudged(policy, auth) ==
    (IF auth.methods \cap {"password", "keyboard-interactive"} # {}
     THEN {"password-authentication-enabled"} ELSE {})
    \cup (IF auth.methods # {} /\ "publickey" \notin auth.methods
          THEN {"no-publickey-authentication"} ELSE {})
    \cup (IF "hostbased" \in auth.methods THEN {"hostbased-authentication-enabled"} ELSE {})
    \cup (IF \E n \in auth.signatures : Category(policy, "host_key", n) \in {"weak", "insecure"}
          THEN {"weak-client-signature-algorithms"} ELSE {})

AuthFindings(policy, auth) ==
    CASE auth.state = "not_asked" -> {}
      [] auth.state = "error" -> {"auth-methods-unavailable"}
      [] auth.state = "read" /\ "none" \in auth.methods -> {"auth-none-accepted"}
      [] auth.state = "read" /\ "none" \notin auth.methods ->
            IF AuthJudged(policy, auth) = {} /\ auth.methods # {} THEN {"auth-methods"}
            ELSE AuthJudged(policy, auth)

CapacityFindings(facts) ==
    (IF facts.startups = "few" THEN {"low-max-startups"} ELSE {})
    \cup (IF facts.grace = "long" THEN {"long-login-grace"} ELSE {})

\* sshfp_records.py; without records there is nothing else to say.
SshfpFindings(sshfp, validated) ==
    IF sshfp.state # "checked" THEN {}
    ELSE IF ~sshfp.found THEN {"no-sshfp-records"}
    ELSE (IF sshfp.without # {} THEN {"host-key-without-sshfp"} ELSE {})
         \cup (IF sshfp.stale THEN {"stale-sshfp-record"} ELSE {})
         \cup (IF sshfp.matched # {} /\ ~validated THEN {"sshfp-without-dnssec"} ELSE {})

KnownHostsFindings(comparison) ==
    (IF comparison.revoked # {} THEN {"revoked-host-key"} ELSE {})
    \cup (IF comparison.changed # {} THEN {"host-key-changed"} ELSE {})

\* _client_config_findings: its directives, and its own algorithm lists judged
\* as the server's are.
ClientFindings(policy, client) ==
    CASE client.state = "not_asked" -> {}
      [] client.state = "error" -> {"client-config-unavailable"}
      [] client.state = "read" ->
            DirectiveFindings(policy.clientChecks, client.values)
            \cup (IF \E class \in DOMAIN client.offers : \E n \in client.offers[class] :
                        Category(policy, class, n) \in {"weak", "insecure"}
                  THEN {"client-weak-algorithms"} ELSE {})
            \cup (IF ConfigValue(client.values, "verifyhostkeydns") \in {"yes", "true"}
                  THEN {"client-verify-host-key-dns"} ELSE {})

NetworkFindings(policy, facts, comparison) ==
    (UNION {AlgorithmFindings(policy, facts, class) : class \in DOMAIN facts.offers})
    \cup ProtocolFindings(policy, facts)
    \cup HostKeyFindings(policy, facts)
    \cup AuthFindings(policy, facts.auth)
    \cup CapacityFindings(facts)
    \cup SshfpFindings(facts.sshfp, facts.validated)
    \cup KnownHostsFindings(comparison)
    \cup ClientFindings(policy, facts.client)
=============================================================================
