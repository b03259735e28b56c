---------------------------- MODULE ConfigChecks ----------------------------
(***************************************************************************)
(* What is reported of an audited configuration: the built-in plugins      *)
(* server_directives.py and server_accounts.py over what SshdConfig reads. *)
(* The policy's sshd_config_checks are [id, directive, ok, alternatives],  *)
(* ok being the values that meet the expectation, Absent among them or     *)
(* not. A key line is [id, family, bits, faults], its faults some of       *)
(* KeyFaults.                                                              *)
(***************************************************************************)
EXTENDS Policy, SshdConfig

KeyFaults == {"unreadable", "unrestricted", "weak", "expired", "never-expires"}

Absent == "absent"

ConfigValue(values, directive) ==
    IF directive \in DOMAIN values THEN values[directive] ELSE Absent

\* check: a directive that fails is excused by any alternative that is set.
DirectiveFindings(checks, values) ==
    {c.id : c \in {x \in checks :
        /\ ConfigValue(values, x.directive) \notin x.ok
        /\ \A other \in x.alternatives : other \notin DOMAIN values}}

\* What a context gives that the global configuration does not, when only the
\* global value is sound.
Weakens(policy, config, context) ==
    \E c \in policy.checks :
        /\ c.directive \in DOMAIN context.values
        /\ ConfigValue(config.values, c.directive) \in c.ok
        /\ context.values[c.directive] \notin c.ok

MatchBlockFindings(policy, config) ==
    LET resolved == {c \in config.matched : IsResolved(c)}
        weakened == \E c \in resolved : Weakens(policy, config, c)
    IN (IF weakened THEN {"config-match-block-weakens"}
        ELSE IF resolved # {} THEN {"config-match-blocks-checked"} ELSE {})
       \cup (IF config.matched # resolved \/ (config.matched = {} /\ config.blocks # {})
             THEN {"config-match-blocks"} ELSE {})

\* _authorized_key_findings: the sweep has the audited account in it, so when
\* there was one its own section is not looked at.
KeyLines(config) ==
    IF config.accounts # <<>>
    THEN UNION {{a.keys[i] : i \in DOMAIN a.keys} :
                   a \in {config.accounts[n] : n \in DOMAIN config.accounts}}
    ELSE {config.own[i] : i \in DOMAIN config.own}

KeyFindings(policy, config) ==
    LET usable == {k \in KeyLines(config) : "unreadable" \notin k.faults}
    IN (IF usable # KeyLines(config) THEN {"unreadable"} ELSE {})
       \cup (UNION {k.faults : k \in usable})
       \cup (IF \E k \in usable : BelowMinimum(policy, k.family, k.bits) THEN {"undersized"} ELSE {})

SweepFindings(config) ==
    (IF config.unreadable # {} THEN {"config-accounts-unreadable"} ELSE {})
    \cup (IF \E i \in DOMAIN config.accounts : config.accounts[i].sharers # {}
          THEN {"config-shared-authorized-keys"} ELSE {})

PrivateKeyFindings(config) ==
    (IF \E k \in config.userKeys : k.stored = "no" THEN {"config-unencrypted-user-key"} ELSE {})
    \cup (IF \E k \in config.userKeys : k.stored = "unknown" THEN {"config-user-key-unreadable"} ELSE {})

ConfigFindings(policy, config) ==
    CASE config.state = "not_asked" -> {}
      [] config.state = "error" -> {"config-audit-unavailable"}
      [] config.state = "read" ->
            DirectiveFindings(policy.checks, config.values) \cup MatchBlockFindings(policy, config)
            \cup KeyFindings(policy, config) \cup SweepFindings(config) \cup PrivateKeyFindings(config)
=============================================================================
