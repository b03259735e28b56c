---------------------------- MODULE MCTargetScan ----------------------------
(* A small policy with one entry of each sort the shipped one has, rules of *)
(* each shape its vulnerabilities have, and the servers that tell them apart. *)
EXTENDS TargetScan

Entry(category, tags, bits) ==
    [category |-> category, tags |-> tags, bits |-> bits, suggest |-> category = "recommended"]

Rule(id, severity, c) == [id |-> id, severity |-> severity, detection |-> c]
Present(class, names, tags) == <<[is |-> "present", class |-> class, names |-> names, tags |-> tags]>>
OldVersion == <<[is |-> "version", product |-> "OpenSSH",
                 windows |-> {<< <<0, 0>>, <<9, 6>> >>}]>>

\* A detection after n other conditions, and combinations of detections.
Moved(d, n) ==
    [i \in DOMAIN d |->
        CASE d[i].is \in {"all", "any"} -> [d[i] EXCEPT !.of = [k \in DOMAIN @ |-> @[k] + n]]
          [] d[i].is = "not" -> [d[i] EXCEPT !.of = @ + n]
          [] OTHER -> d[i]]
Both(is, d, e) ==
    d \o Moved(e, Len(d)) \o <<[is |-> is, of |-> <<Len(d), Len(d) + Len(e)>>]>>
Not(d) == Append(d, [is |-> "not", of |-> Len(d)])

MCRules ==
    {Rule("present", "high", Present("cipher", {}, {"cbc"})),
     Rule("version", "critical", OldVersion),
     Rule("logjam", "high", Both("any", Present("kex", {"sha1"}, {}),
                                 <<[is |-> "host_key", family |-> "rsa", below |-> 1025]>>)),
     Rule("terrapin", "high",
          Both("all", Not(Present("kex", {"strict"}, {})),
                      Both("any", Present("cipher", {"chacha"}, {}), Present("cipher", {}, {"cbc"})))),
     Rule("version_config", "medium",
          Both("all", OldVersion,
               <<[is |-> "config", directive |-> "login", compare |-> "in", values |-> {"bad"}]>>)),
     Rule("config", "high", <<[is |-> "config", directive |-> "gone", compare |-> "absent"]>>),
     Rule("version_auth", "medium",
          Both("all", OldVersion, <<[is |-> "auth_method", methods |-> {"password"}]>>)),
     Rule("not_asked", "low",
          Both("all", <<[is |-> "always", value |-> TRUE]>>,
               Not(<<[is |-> "extension", names |-> {"ping"}]>>))),
     Rule("extension", "low", <<[is |-> "extension", names |-> {"ping"}]>>),
     Rule("protocol", "critical", <<[is |-> "protocol", versions |-> {"1.99"}]>>),
     Rule("broken", "critical", Not(<<[is |-> "malformed"]>>))}

\* As those of the shipped policy do.
ASSUME MCRulesAssumption == \A rule \in MCRules : NeedsVersion(rule.detection)

Open == [allow |-> {}, disallow |-> {"sha1"}, unlessStrict |-> {}]
Closed == [allow |-> {"gcm", "cbc"}, disallow |-> {}, unlessStrict |-> {}]
Profile(kind, rules, strength, keyBits, forbids) ==
    [kind |-> kind, rules |-> rules, minStrength |-> strength, minKeyBits |-> keyBits,
     strict |-> FALSE, postQuantum |-> kind = "quantum", forbids |-> forbids]

MCInForce ==
    [sizes |-> Profile("standard", [kex |-> Open], 112, [rsa |-> 2048], {}),
     house |-> Profile("local", <<>>, None, <<>>, {"weak", "insecure"}),
     closed |-> Profile("quantum", [cipher |-> Closed], None, <<>>, {})]

MCPolicy ==
    [entries |->
        [kex |-> [pq |-> Entry("recommended", {"post-quantum"}, 192),
                  ecdh |-> Entry("recommended", {}, 128),
                  group |-> Entry("acceptable", {}, None),
                  kyber |-> Entry("acceptable", {"post-quantum"}, 128),
                  sha1 |-> Entry("insecure", {}, 80),
                  strict |-> Entry("informational", {"protocol-marker"}, None)],
         host_key |-> [ed25519 |-> Entry("recommended", {}, 128),
                       rsa |-> Entry("recommended", {}, None),
                       rsa2 |-> Entry("insecure", {"sha1"}, None),
                       cert |-> [Entry("recommended", {"certificate"}, 128) EXCEPT !.suggest = FALSE]],
         cipher |-> [gcm |-> Entry("recommended", {"aead"}, 256),
                     chacha |-> [Entry("acceptable", {}, 256) EXCEPT !.suggest = TRUE]],
         compression |-> [none |-> Entry("recommended", {}, None),
                          zlib |-> Entry("acceptable", {}, None)]],
     patterns |->
        [kex |-> <<>>, host_key |-> <<>>, compression |-> <<>>,
         cipher |-> <<[names |-> {"cbc"}, entry |-> Entry("weak", {"cbc"}, 128)]>>],
     scores |-> [recommended |-> 100, acceptable |-> 75, weak |-> 35, insecure |-> 0],
     weights |-> [kex |-> 25, host_key |-> 25, cipher |-> 20, compression |-> 10],
     points |-> [missing_strict_kex |-> -10, no_post_quantum_kex |-> -5,
                 host_key_below_minimum |-> -25, host_key_below_recommended |-> -5,
                 dh_group_below_minimum |-> -15],
     grades |-> <<[grade |-> "A+", min |-> 100,
                   requires |-> {"strict_kex", "post_quantum", "host_keys_ok"}],
                  [grade |-> "A", min |-> 90, requires |-> {}],
                  [grade |-> "B", min |-> 80, requires |-> {}],
                  [grade |-> "C", min |-> 65, requires |-> {}],
                  [grade |-> "D", min |-> 50, requires |-> {}],
                  [grade |-> "F", min |-> 0, requires |-> {}]>>,
     caps |-> <<[when |-> "any_insecure_algorithm", max |-> "F"],
                [when |-> "any_weak_algorithm", max |-> "C"],
                [when |-> "host_key_below_minimum", max |-> "D"],
                [when |-> "any_high_vulnerability", max |-> "C"],
                [when |-> "any_measured_critical_vulnerability", max |-> "F"],
                [when |-> "any_critical_vulnerability_the_changelog_did_not_clear", max |-> "F"]>>,
     sizes |-> [rsa |-> [min |-> 2048, rec |-> 3072]],
     dh |-> [min |-> 2048, rec |-> 3072],
     modulus |-> <<[bits |-> 3072, strength |-> 128], [bits |-> 2048, strength |-> 112],
                   [bits |-> 1024, strength |-> 80]>>,
     levels |-> <<[id |-> "high", min |-> 128], [id |-> "legacy", min |-> 0]>>,
     requireStrict |-> TRUE, requireTag |-> [cipher |-> "aead", mac |-> "etm"],
     clientChecks |-> {[id |-> "client-strict", directive |-> "strict", ok |-> {"yes"}, alternatives |-> {}]},
     checks |-> {[id |-> "config-root", directive |-> "root", ok |-> {"no"}, alternatives |-> {}],
                 [id |-> "config-keys", directive |-> "keys", ok |-> {"sshd"}, alternatives |-> {"command"}]},
     profiles |-> MCInForce,
     editions |-> [x \in {"sizes@2024"} |-> MCInForce.sizes],
     rules |-> MCRules]

\* As does the shipped policy.
ASSUME MCLadderAssumption == LadderAgrees(MCPolicy)
ASSUME MCStrengthsAssumption == StrengthsAreNumbers(MCPolicy)
ASSUME MCAdviceAssumption ==
    AdviceIsSound(MCPolicy) /\ \A rule \in MCRules : HoldsForNothingGone(rule.detection)

Key(algorithm, family, bits, print, group) ==
    [algorithm |-> algorithm, family |-> family, bits |-> bits, print |-> print, group |-> group,
     slot |-> family, cert |-> FALSE]

Ed == Key("ed25519", "ed25519", 256, "e", None)

Line(marker, key) ==
    [readable |-> TRUE, marker |-> marker, form |-> "plain", type |-> "rsa", key |-> key,
     hosts |-> {[names |-> {"a"}, port |-> 22, negated |-> FALSE]}]

\* A machine with nothing on it to report but what its changelog names.
Machine(named) ==
    [sshd |-> TRUE, contexts |-> TRUE, directives |-> << <<"login", "bad">>, <<"root", "no">> >>,
     blocks |-> <<>>, groups |-> [g |-> [members |-> <<"c">>, primary |-> <<>>]],
     own |-> "root", nobody |-> TRUE, accounts |-> <<>>,
     templates |-> <<[u \in {"root", "b", "c", "nobody"} |-> "/keys"]>>, files |-> <<>>, private |-> <<>>,
     package |-> [read |-> TRUE, names |-> SetToSeq(named)]]

\* A host two zones below the root, at time 4 with signatures that live for 2.
Domain(rolls, walks) ==
    [host |-> <<"org", "a", "host">>, zone |-> <<"org", "a">>, rolls |-> rolls, life |-> 2, now |-> 4,
     walks |-> walks]

Sshfp(hash, print, family) == [hash |-> hash, print |-> print, family |-> family]

\* The truth about one server: what it offers, its RSA key, the version it
\* shows and what is in its configuration and its files.
Server(kex, cipher, compression, bits, group, version, named) ==
    [offers |-> [kex |-> kex, cipher |-> cipher, compression |-> compression,
                 host_key |-> {"ed25519", "rsa"}],
     banner |-> [protocol |-> "2.0", product |-> "OpenSSH", version |-> version],
     hostKeys |-> <<Key("rsa", "rsa", bits, "r", group), Ed>>,
     drivable |-> TRUE, address |-> FALSE, name |-> "a", port |-> 22,
     methods |-> {"password"}, extensions |-> {}, signatures |-> {"rsa"},
     machine |-> Machine(named), breaks |-> {}, dns |-> Domain(<<>>, {<<>>}),
     answers |-> {<<>>}, knownHosts |-> <<>>]

Kexes == {{"pq", "strict"}, {"pq", "ecdh", "strict"}, {"kyber", "ecdh"}, {"ecdh", "group", "strict"},
          {"group"}, {"ecdh", "sha1", "strict"}, {"pq", "vendor", "strict"}}
Ciphers == {{"gcm"}, {"gcm", "chacha"}, {"gcm", "cbc"}, {"vendor"}, {"cbc"}}

MCServers ==
    {Server(kex, cipher, {"none"}, 3072, None, <<9, 7>>, {}) : kex \in Kexes, cipher \in Ciphers}
    \cup {Server(kex, cipher, {"none"}, bits, None, <<9, 7>>, {}) :
        kex \in {{"pq", "strict"}, {"kyber", "ecdh"}, {"group"}}, cipher \in Ciphers, bits \in {1024, 2048}}
    \cup {Server(kex, cipher, {"none", "zlib"}, 3072, None, <<9, 5>>, named) :
        kex \in Kexes, cipher \in Ciphers, named \in {{}, {"version", "present"}}}

Options(probes) ==
    [probes |-> probes, jump |-> FALSE, retries |-> 0, maxProbes |-> 2,
     skipCertificates |-> FALSE, profiles |-> {}, ssh |-> TRUE,
     client |-> [state |-> "", values |-> [strict |-> "no"], offers |-> [cipher |-> {"cbc", "gcm"}]],
     credentials |-> [mode |-> "key", source |-> "none"]]

\* The shapes of server that the set above leaves out.
Good == Server({"pq", "strict"}, {"gcm"}, {"none"}, 3072, None, <<9, 7>>, {})
Having(keys) ==
    [Good EXCEPT !.hostKeys = keys, !.offers.host_key = {keys[i].algorithm : i \in DOMAIN keys}]
Odd ==
    {[Good EXCEPT !.drivable = FALSE],
     Server({"group"}, {"gcm"}, {"none"}, 1536, 1024, <<9, 7>>, {}),
     [Good EXCEPT !.address = TRUE, !.answers = {<<Sshfp("sha256", "r", "rsa")>>}],
     [Good EXCEPT !.banner = [protocol |-> "1.99", product |-> "Other", version |-> Unversioned]],
     [Good EXCEPT !.banner.version = Unversioned],
     Having(<<Key("rsa", "rsa", 3072, "r", 1024), Key("rsa2", "rsa", 3072, "r", 1024),
              [Key("cert", "ed25519", 256, "c", 1024) EXCEPT !.cert = TRUE], [Ed EXCEPT !.group = 1024]>>),
     Having(<<Key("rsa", "rsa", 3072, "r", None),
              [Key("rsa2", "rsa", 3072, "r", None) EXCEPT !.slot = "rsa2"]>>),
     [Good EXCEPT !.offers = [kex |-> {"vendor"}, cipher |-> {"vendor"}, compression |-> {"vendor"},
                              host_key |-> {}], !.hostKeys = <<>>]}

\* A recorded key, before and after a line that says otherwise.
Recorders ==
    {[Good EXCEPT !.knownHosts = lines] :
        lines \in {<<a, b>> : a, b \in {Line("revoked", "r"), Line("", "r"), Line("", "old"),
            [Line("revoked", "r") EXCEPT !.hosts = {[names |-> {"a"}, port |-> 2222, negated |-> FALSE]}],
            [Line("", "r") EXCEPT !.form = "bad"]}}}

\* Machines to audit: the Match blocks that name a connection in one way or
\* another, and the ways in which accounts keep their keys.
Block(line, form, criteria, root) ==
    [line |-> line, form |-> form, criteria |-> criteria, sets |-> [name \in {"root"} |-> root]]
User == [by |-> "user", names |-> <<"b", "c">>]
Group == [by |-> "group", names |-> <<"g">>]
Address == [by |-> "address", names |-> <<"10.0.0.0">>]

BlockLists ==
    {<<Block("one", form, criteria, "yes")>> :
        form \in {"plain", "negated", "all"}, criteria \in {<<User>>, <<Group>>, <<Address, User>>}}
    \cup {<<Block("one", "plain", <<User>>, a), Block("two", "plain", <<Group>>, b)>> :
             a, b \in {"yes", "no"}}
    \cup {<<Block("one", "plain", <<[by |-> by, names |-> <<"x">>]>>, "yes")>> :
             by \in {"host", "localport", "rdomain"}}

PerUser == <<[u \in {"root", "b", "c", "nobody"} |-> u]>>
KeyLine == [id |-> "k", family |-> "rsa", bits |-> 1024, faults |-> {"unrestricted"}]
BadLine == [id |-> "bad", family |-> "rsa", bits |-> 3072, faults |-> {"unreadable"}]
Keys(seen, readable, keys) == [seen |-> seen, readable |-> readable, keys |-> keys]
Audited == Machine({"version"})
Sweeps ==
    {[Audited EXCEPT !.accounts = <<[user |-> "root", login |-> TRUE, home |-> TRUE],
                                    [user |-> "b", login |-> TRUE, home |-> TRUE],
                                    [user |-> "c", login |-> login, home |-> TRUE]>>,
                     !.templates = templates, !.files = files,
                     !.private = <<[user |-> "b", path |-> "id", stored |-> stored]>>] :
        login \in BOOLEAN, stored \in {"no"}, templates \in {PerUser, Audited.templates},
        files \in {[root |-> Keys(TRUE, TRUE, <<KeyLine>>), b |-> Keys(TRUE, FALSE, <<KeyLine>>),
                    c |-> Keys(FALSE, TRUE, <<KeyLine>>)],
                   [p \in {"/keys"} |-> Keys(TRUE, TRUE, <<KeyLine, BadLine>>)]}}

Machines ==
    {[Audited EXCEPT !.blocks = b] : b \in BlockLists}
    \cup {[Audited EXCEPT !.blocks = <<Block("one", "plain", <<User>>, "yes")>>, !.contexts = FALSE],
          [Audited EXCEPT !.sshd = FALSE], [Audited EXCEPT !.package.read = FALSE],
          [Audited EXCEPT !.blocks = <<Block("one", "plain", <<Address>>, "yes")>>, !.nobody = FALSE]}
    \cup Sweeps

\* What a name server may answer with: nothing, the record of the key that is
\* served, one that only a client without SHA-256 would use, one of an old key,
\* and one of the wrong family before or after the right one.
RsaRecord == Sshfp("sha256", "r", "rsa")
Answered ==
    {<<>>, <<RsaRecord>>, <<Sshfp("sha1", "r", "rsa")>>, <<RsaRecord, Sshfp("sha256", "old", "rsa")>>,
     <<RsaRecord, Sshfp("sha256", "r", "dsa")>>, <<Sshfp("sha256", "r", "dsa"), RsaRecord>>}

\* Resolvers: any two of the answers may be old, lost or out of another view.
Queries == {[name |-> <<>>, type |-> "DNSKEY"], [name |-> <<"org", "a", "host">>, type |-> "SSHFP"]}
           \cup {[name |-> zone, type |-> type] : zone \in {<<"org">>, <<"org", "a">>}, type \in {"DS", "DNSKEY"}}
Hows(query) ==
    {[view |-> "public", at |-> at] : at \in {1, 2, 3, 5}} \cup {[view |-> "none", at |-> 4]}
    \cup (IF query \in {[name |-> <<"org", "a">>, type |-> "DNSKEY"], [name |-> <<"org", "a", "host">>, type |-> "SSHFP"]}
          THEN {[view |-> "inner", at |-> 4]} ELSE {})
    \cup (IF query.type = "SSHFP" THEN {[view |-> "alias", at |-> 4]} ELSE {})
Walks(p, q) ==
    {<<>>} \cup {w \in [{p, q} -> Hows(p) \cup Hows(q)] : w[p] \in Hows(p) /\ w[q] \in Hows(q)}
Named ==
    {[server |-> [Good EXCEPT !.dns = Domain(rolls, Walks(p, q))], options |-> Options({"sshfp"})] :
        p, q \in Queries, rolls \in [{<<"org">>, <<"org", "a">>} -> {2, 4}]}
    \cup {[server |-> [Good EXCEPT !.answers = Answered], options |-> Options({"keys", "sshfp"})]}

Auditors ==
    {[server |-> [Good EXCEPT !.machine = m, !.breaks = {1, 5, 9, 14}], options |-> Options({"config"})] :
        m \in Machines}
    \cup {[server |-> [Good EXCEPT !.machine = Audited],
           options |-> [Options({"config"}) EXCEPT !.ssh = ssh, !.credentials = c]] :
        ssh \in BOOLEAN, c \in [mode : {"key", "password"}, source : {"none", "unreadable", "good"}]}

AllProbes == {"keys", "auth", "sshfp", "known_hosts", "startups", "grace", "client", "config"}

MCCases ==
    {[server |-> s, options |-> Options({"keys", "auth", "config"})] : s \in MCServers}
    \cup {[server |-> s, options |-> [Options(probes) EXCEPT !.retries = 1, !.profiles = {"sizes@2024", "house", "gone"}]] :
             s \in Odd, probes \in {AllProbes \ {"startups", "grace"}, {"keys", "startups", "grace", "client"}}}
    \cup {[server |-> Good, options |-> Options(AllProbes)]}
    \cup {[server |-> s, options |-> Options({"keys", "known_hosts"})] : s \in Recorders}
    \cup {[server |-> s, options |-> [Options({"keys", "startups"}) EXCEPT !.jump = TRUE, !.skipCertificates = TRUE]] : s \in Odd}
    \cup Auditors \cup Named

\* As what a server shows does.
ASSUME MCKeysAssumption == \A c \in MCCases : ShowsItsKeys(c.server) /\ SpeaksSsh(c.server)

MCPlugins ==
    {[id |-> "check", kind |-> "check", needs |-> {"auth_methods"}, severity |-> "critical"],
     [id |-> "vuln", kind |-> "vulnerability", needs |-> {"host_keys"}, severity |-> "critical"]}
=============================================================================
