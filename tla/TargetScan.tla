----------------------------- MODULE TargetScan -----------------------------
(***************************************************************************)
(* The scan of one target (scan_target and _scan_over in scanner.py): the  *)
(* probes in the order they are made, each of which may fail, and then the *)
(* analysis of whatever was collected (analyse in analysis.py, with        *)
(* assessment.py, vulnerabilities.py, compliance.py and plugins/runner.py).*)
(*                                                                         *)
(* A case is a server and the options it is scanned with. The server is    *)
(* the truth; facts is what the probes have read of it. What a plugin says *)
(* is a choice: it is code of somebody else's.                             *)
(***************************************************************************)
EXTENDS Detection, Compliance, KnownHosts, NetworkChecks, Dnssec

CONSTANTS
    ThePolicy,  \* the loaded policy
    Cases,      \* the [server, options] of the scans
    Plugins,    \* [id, kind, needs, severity]
    Says        \* what a plugin may return: a subset of AllSays

AllSays == {"nothing", "detected", "undetermined", "raises"}

ASSUME TargetScanAssumption ==
    /\ Says \subseteq AllSays
    /\ \A rule \in ThePolicy.rules : IsDetection(rule.detection)
    /\ \A p \in Plugins : p.kind \in {"vulnerability", "check"}
    /\ \A p, q \in Plugins : p.id = q.id => p = q
    /\ \A c \in Cases :
          /\ c.options.retries \in Nat /\ c.options.maxProbes \in Nat \ {0}
          /\ IsSeq(c.server.knownHosts) /\ IsSeq(c.server.hostKeys)
          /\ DOMAIN c.server.banner = {"protocol", "product", "version"}
          /\ IsFiniteSet(DOMAIN c.server.offers) /\ DOMAIN c.server.offers \subseteq DOMAIN ThePolicy.weights
          /\ IsDomain(c.server.dns)
          /\ IsMachine(c.server.machine)

VARIABLES
    case,      \* the server and the options
    pc,        \* the step of _scan_over
    attempts,  \* connections that failed
    toProbe,   \* places of the host key algorithms still to be asked for
    facts,     \* what has been read
    local,     \* the comparison with known_hosts, or the empty record
    tunnel,    \* "none", "open", "closed"
    said,      \* what each plugin returned
    result     \* status, and what analyse() fills in

vars == <<case, pc, attempts, toProbe, facts, local, tunnel, said, result>>

server == case.server
options == case.options

NoAuth == [state |-> "not_asked", methods |-> {}, extensions |-> {}, signatures |-> {}]
NoSshfp == [state |-> "not_asked", found |-> FALSE, matched |-> {}, without |-> {}, stale |-> FALSE]
NoClient == [state |-> "not_asked", values |-> <<>>, offers |-> <<>>]
NoFacts == [offers |-> <<>>, banner |-> <<>>, keys |-> {}, auth |-> NoAuth, config |-> NoConfig,
            sshfp |-> NoSshfp, validated |-> FALSE, walk |-> <<>>, startups |-> "not_asked",
            grace |-> "not_asked", client |-> NoClient]
NoComparison == [found |-> 0, revoked |-> {}, matched |-> {}, changed |-> {}]

Unfinished ==
    [status |-> "error", verdict |-> "error", grade |-> "none", score |-> None, matches |-> {},
     findings |-> {}, compliance |-> <<>>, strength |-> "unknown", compression |-> "unknown",
     advice |-> {}, incomplete |-> {}]

Init ==
    /\ case \in Cases
    /\ pc = IF case.options.jump THEN "tunnel" ELSE "connect"
    /\ attempts = 0
    /\ toProbe = {}
    /\ facts = NoFacts
    /\ local = NoComparison
    /\ tunnel = "none"
    /\ said = <<>>
    /\ result = Unfinished

-----------------------------------------------------------------------------
(* The probes                                                              *)

\* The steps of _scan_over, each taken when the options ask for it. Through a
\* bastion the limit of its session would be measured, so that is not done.
Steps == <<"connect", "keys", "auth", "sshfp", "known_hosts", "startups", "grace", "client",
           "config", "analyse">>

Wanted(step) ==
    \/ step \in {"connect", "analyse"}
    \/ step \in options.probes /\ ~(step = "startups" /\ options.jump)

After(step) ==
    LET at == CHOOSE i \in DOMAIN Steps : Steps[i] = step
    IN Steps[Min({i \in DOMAIN Steps : i > at /\ Wanted(Steps[i])})]

\* The finally of scan_target.
CloseTunnel == tunnel' = IF tunnel = "open" THEN "closed" ELSE tunnel

OpenTunnel ==
    /\ pc = "tunnel"
    /\ \/ tunnel' = "open" /\ pc' = "connect"
       \/ UNCHANGED tunnel /\ pc' = "done"
    /\ UNCHANGED <<case, attempts, toProbe, facts, local, said, result>>

\* _host_key_algorithms_to_probe: one algorithm for each family, every
\* certificate, and no more than the options allow.
Probed(names) ==
    LET first(i) == \A j \in 1..i - 1 : names[j].cert \/ names[j].slot # names[i].slot
        places == {i \in DOMAIN names : IF names[i].cert THEN ~options.skipCertificates ELSE first(i)}
    IN {i \in places : Cardinality({j \in places : j < i}) < options.maxProbes}

\* select_kex_for_probe finds a method the scanner can drive.
Drivable == server.drivable

Connect ==
    /\ pc = "connect"
    /\ pc' = After("connect")
    /\ facts' = [facts EXCEPT !.offers = server.offers, !.banner = server.banner]
    /\ toProbe' = IF Drivable THEN Probed(server.hostKeys) ELSE {}
    /\ result' = [result EXCEPT !.status = "ok"]
    /\ UNCHANGED <<case, attempts, local, tunnel, said>>

\* A failed connection is tried again, and the last failure ends the scan.
ConnectFails ==
    /\ pc = "connect"
    /\ attempts' = attempts + 1
    /\ IF attempts' <= options.retries THEN UNCHANGED <<pc, tunnel>>
       ELSE pc' = "done" /\ CloseTunnel
    /\ UNCHANGED <<case, toProbe, facts, local, said, result>>

\* A key that could not be read is kept as an error.
Unread(k) == [algorithm |-> k.algorithm, family |-> "", bits |-> 0, group |-> None,
              print |-> "", type |-> "", error |-> TRUE]

Read(k) == [algorithm |-> k.algorithm, family |-> k.family, bits |-> k.bits, group |-> k.group,
            print |-> k.print, type |-> k.family, error |-> FALSE]

\* fetch_host_key for the next algorithm; a key seen before is not kept again.
FetchKey ==
    /\ pc = "keys"
    /\ toProbe # {}
    /\ toProbe' = toProbe \ {Min(toProbe)}
    /\ LET k == server.hostKeys[Min(toProbe)]
           seen == \E h \in facts.keys : ~h.error /\ h.print = k.print
       IN \E kept \in {{Unread(k)}, IF seen THEN {} ELSE {Read(k)}} :
             facts' = [facts EXCEPT !.keys = @ \cup kept]
    /\ UNCHANGED <<case, pc, attempts, local, tunnel, said, result>>

\* A server none of whose methods can be driven has one key, in error.
KeysDone ==
    /\ pc = "keys"
    /\ toProbe = {}
    /\ pc' = After("keys")
    /\ facts' = IF Drivable \/ server.hostKeys = <<>> THEN facts
                ELSE [facts EXCEPT !.keys = {Unread(Head(server.hostKeys))}]
    /\ UNCHANGED <<case, attempts, toProbe, local, tunnel, said, result>>

\* _collect_auth_methods
AskAuth ==
    /\ pc = "auth"
    /\ pc' = After("auth")
    /\ \E state \in IF Drivable /\ server.hostKeys # <<>> THEN {"read", "error"} ELSE {"error"} :
          facts' = [facts EXCEPT !.auth =
             IF state = "read" THEN [state |-> "read", methods |-> server.methods,
                                     extensions |-> server.extensions,
                                     signatures |-> server.signatures]
             ELSE [NoAuth EXCEPT !.state = "error"]]
    /\ UNCHANGED <<case, attempts, toProbe, local, tunnel, said, result>>

\* FAMILY_TO_SSHFP: the families of keys a record can name.
SshfpFamilies == {"rsa", "dsa", "ecdsa", "ed25519", "ed448"}

\* _check_sshfp: of a list of records [hash, print, family] those with a SHA-256
\* fingerprint count, and of several with one fingerprint the last. One of
\* another family than the key's will not do.
ComparedWith(records) ==
    LET sha256 == {i \in DOMAIN records : records[i].hash = "sha256"}
        published == {records[i] : i \in
            {j \in sha256 : \A k \in sha256 : records[k].print = records[j].print => k <= j}}
        keys == {k \in facts.keys : ~k.error}
        matched == {k \in keys : \E r \in published :
                       r.print = k.print /\ (k.family \in SshfpFamilies => r.family = k.family)}
    IN [state |-> "checked", found |-> records # <<>>, matched |-> matched,
        without |-> keys \ matched,
        stale |-> \E r \in published : r.print \notin {k.print : k \in matched}]

\* lookup_sshfp: the records are what some name server answers to a plain
\* query, out of whatever view or cache it has, and nobody verifies them; that
\* they are called validated is what the walk to the root then finds out about
\* the name. The two answers are never compared. An address has no name to
\* publish under.
CheckSshfp ==
    /\ pc = "sshfp"
    /\ pc' = After("sshfp")
    /\ \/ facts' = [facts EXCEPT !.sshfp.state = "error"]
       \/ /\ ~server.address
          /\ \E records \in server.answers, walk \in server.dns.walks :
                facts' = [facts EXCEPT !.sshfp = ComparedWith(records), !.walk = walk,
                             !.validated = Validated(server.dns, walk)]
    /\ UNCHANGED <<case, attempts, toProbe, local, tunnel, said, result>>

\* _check_known_hosts
Presented == {[type |-> k.type, key |-> k.print] : k \in {h \in facts.keys : ~h.error}}

CheckKnownHosts ==
    /\ pc = "known_hosts"
    /\ pc' = After("known_hosts")
    /\ local' = Compare(LookupHosts(Load(server.knownHosts), server.name, server.port), Presented)
    /\ UNCHANGED <<case, attempts, toProbe, facts, tunnel, said, result>>

\* measure_max_startups: no socket left is not an SSHError, and goes through
\* scan_target to the coordinator.
MeasureStartups ==
    /\ pc = "startups"
    /\ \/ /\ pc' = After("startups")
          /\ \E outcome \in {"few", "many"} : facts' = [facts EXCEPT !.startups = outcome]
          /\ UNCHANGED <<tunnel, result>>
       \/ /\ pc' = "raised"
          /\ CloseTunnel
          /\ result' = Unfinished
          /\ UNCHANGED facts
    /\ UNCHANGED <<case, attempts, toProbe, local, said>>

\* measure_login_grace: a server that cannot be reached any more and one that
\* still holds the connection both give nothing.
MeasureGrace ==
    /\ pc = "grace"
    /\ pc' = After("grace")
    /\ \E outcome \in {"short", "long", "nothing"} : facts' = [facts EXCEPT !.grace = outcome]
    /\ UNCHANGED <<case, attempts, toProbe, local, tunnel, said, result>>

\* fetch_client_config and fetch_effective_config report a failure in what
\* they return.
AuditClient ==
    /\ pc = "client"
    /\ pc' = After("client")
    /\ \E client \in {[options.client EXCEPT !.state = state] : state \in {"read", "error"}} :
          facts' = [facts EXCEPT !.client = client]
    /\ UNCHANGED <<case, attempts, toProbe, local, tunnel, said, result>>

\* The link may break while the transcript is on its way, after one of the
\* server's breaks lines, or ssh may not finish at all.
AuditConfig ==
    /\ pc = "config"
    /\ pc' = After("config")
    /\ LET transcript == Transcript(server.machine)
           came == {transcript} \cup {SubSeq(transcript, 1, n) : n \in server.breaks \cap DOMAIN transcript}
           read == IF NotTried(options.credentials, options.ssh) THEN {}
                   ELSE {ReadSections(lines) : lines \in came}
       IN \E config \in read \cup {FailedConfig} : facts' = [facts EXCEPT !.config = config]
    /\ UNCHANGED <<case, attempts, toProbe, local, tunnel, said, result>>

-----------------------------------------------------------------------------
(* The analysis                                                            *)

\* _AVAILABILITY: host keys that could not be read are host keys.
Available(need) ==
    CASE need = "host_keys" -> facts.keys # {}
      [] need = "auth_methods" -> facts.auth.state = "read"
      [] need = "config" -> facts.config.state = "read"
      [] need = "client_config" -> facts.client.state = "read"
      [] need = "sshfp" -> facts.sshfp.state # "not_asked"
      [] need = "known_hosts" -> "known_hosts" \in options.probes
      [] need = "login_grace" -> facts.grace \in {"short", "long"}

MissingFor(plugin) == {need \in plugin.needs : ~Available(need)}

PluginMatch(plugin, severity, undetermined, needs) ==
    [Match(plugin.id, severity, Answer(FALSE), undetermined) EXCEPT !.needs = needs]

\* Mutant: what a check detects is a match too.
PluginMatchesOfChecks(answers) ==
    {PluginMatch(p, IF answers[p] = "detected" THEN p.severity ELSE "info", FALSE, {}) :
             p \in {q \in Plugins : MissingFor(q) = {} /\ answers[q] \in {"detected", "raises"}}}

\* run: what each plugin adds to the matches, and to the findings. One that
\* raised is reported where its results would have gone.
PluginMatches(answers) ==
    {PluginMatch(p, "info", TRUE, MissingFor(p)) : p \in {q \in Plugins : MissingFor(q) # {}}}
    \cup {PluginMatch(p, "info", TRUE, {"more"}) :
             p \in {q \in Plugins : MissingFor(q) = {} /\ answers[q] = "undetermined"}}
    \cup {PluginMatch(p, IF answers[p] = "detected" THEN p.severity ELSE "info", FALSE, {}) :
             p \in {q \in Plugins : /\ MissingFor(q) = {} /\ q.kind = "vulnerability"
                                    /\ answers[q] \in {"detected", "raises"}}}

PluginFindings(answers) ==
    {[id |-> p.id, severity |-> IF answers[p] = "detected" THEN p.severity ELSE "info"] :
        p \in {q \in Plugins : /\ MissingFor(q) = {} /\ q.kind = "check"
                               /\ answers[q] \in {"detected", "raises"}}}

\* What analyse() concludes from the facts and the matches. When nothing that
\* is offered can be classified there is no grade.
Concluded(matches, findings) ==
    LET graded == TotalWeight(ThePolicy, facts) # 0
    IN [status |-> "ok",
        matches |-> matches,
        findings |-> VulnerabilityFindings(matches) \cup findings
                        \cup {[id |-> id, severity |-> "built-in"] :
                                 id \in ConfigFindings(ThePolicy, facts.config)
                                        \cup NetworkFindings(ThePolicy, facts, local)},
        compliance |-> EvaluateProfiles(ThePolicy, facts, options.profiles),
        score |-> IF graded THEN FinalScore(ThePolicy, facts) ELSE None,
        grade |-> IF graded THEN Grade(ThePolicy, facts, matches) ELSE "none",
        verdict |-> IF graded THEN Verdict(ThePolicy, facts, matches) ELSE "unknown",
        strength |-> StrengthLevel(ThePolicy, EffectiveStrength(ThePolicy, facts)),
        compression |-> CompressionStatus(ThePolicy, facts),
        advice |-> Recommendations(ThePolicy, facts),
        incomplete |-> {r \in Recommendations(ThePolicy, facts) : Incomplete(facts, matches, r)}]

\* analyse: the rules and the changelog, then the plugins, then the verdict on
\* all of it. The only thing that is chosen is what the plugins say.
Analyse ==
    /\ pc = "analyse"
    /\ pc' = "done"
    /\ CloseTunnel
    /\ \E answers \in [Plugins -> Says] :
          /\ said' = answers
          /\ result' = Concluded(ApplyChangelog(facts, Matches(ThePolicy, facts))
                                     \cup PluginMatches(answers),
                                 PluginFindings(answers))
    /\ UNCHANGED <<case, attempts, toProbe, facts, local>>

Finished == pc \in {"done", "raised"} /\ UNCHANGED vars

Next ==
    \/ OpenTunnel \/ Connect \/ ConnectFails \/ FetchKey \/ KeysDone \/ AskAuth
    \/ CheckSshfp \/ CheckKnownHosts \/ MeasureStartups \/ MeasureGrace
    \/ AuditClient \/ AuditConfig \/ Analyse \/ Finished

Spec == Init /\ [][Next]_vars

-----------------------------------------------------------------------------
(* Properties                                                              *)

Analysed == pc = "done" /\ result.status = "ok"

\* A rule that is not listed is one whose answer was known to be no: whatever
\* a probe failed to read or was not asked to, and wherever a combination of
\* conditions stopped, what could not be answered is listed as affected or as
\* undetermined (the docstring of vulnerabilities.py). Rules about a host key
\* that could not be read, or a version that could not, are the exception: both
\* are passed over.
NotSilent ==
    Analysed =>
        \A rule \in ThePolicy.rules :
            \/ \E m \in result.matches : m.id = rule.id
            \/ \E i \in DOMAIN rule.detection : PassedOver(facts, rule.detection[i])
            \/ Truth(ThePolicy, facts, rule.detection) = "no"

\* What the package changelog clears was matched on the version and nothing
\* else: a server that hid its version would not have been found affected. A
\* changelog cannot un-offer an algorithm (_apply_changelog).
ClearedOnVersionOnly ==
    Analysed =>
        \A m \in {x \in result.matches : x.patched} :
            \E rule \in ThePolicy.rules :
                /\ m.id = rule.id
                /\ Evaluate(ThePolicy, facts, rule.detection).hit
                /\ ~Evaluate(ThePolicy, [facts EXCEPT !.banner.version = Unversioned], rule.detection).hit

\* The word and the letter at the top of the report agree: secure is an A or
\* better, insecure is an F, an F is never called better than weak, and the
\* top grade goes with weak only when all that is serious is in the changelog
\* (_verdict_for, _apply_grade_caps).
WordAndGradeAgree ==
    Analysed =>
        /\ result.verdict = "secure" => result.grade \in {"A+", "A"}
        /\ result.verdict = "insecure" => result.grade = "F"
        /\ result.grade = "F" => result.verdict \in {"weak", "insecure"}
        /\ result.grade = "A+" /\ result.verdict = "weak" =>
              \A m \in result.matches : m.severity \in {"critical", "high"} => m.patched
        /\ (result.grade = "none") = (result.verdict = "unknown")

\* What the server really is, had every probe answered.
TheTruth ==
    [facts EXCEPT !.keys = {Read(server.hostKeys[i]) : i \in DOMAIN server.hostKeys}]

AllKeysRead ==
    /\ \A k \in facts.keys : ~k.error
    /\ \A i \in DOMAIN server.hostKeys :
          \E k \in facts.keys : k.print = server.hostKeys[i].print \/ k.algorithm = server.hostKeys[i].algorithm

\* A conformance pass is proof: when each key was read, the server conforms
\* even if every name that the policy has never heard of is whatever the
\* profile forbids (evaluate_profiles, _unverified).
Forbidden(profile, class, name) ==
    \/ Category(ThePolicy, class, name) = "unknown" /\ class \in DOMAIN profile.rules
          /\ profile.rules[class].allow = {}
          /\ profile.rules[class].disallow \cup profile.rules[class].unlessStrict # {}
    \/ Category(ThePolicy, class, name) \in profile.forbids \cup {"unknown"} /\ profile.kind = "local"

Conforms(profile) ==
    /\ ~Violated(ThePolicy, profile, TheTruth)
    /\ \A class \in DOMAIN server.offers : \A n \in server.offers[class] : ~Forbidden(profile, class, n)

PassProves(selector) ==
    result.compliance[selector] = "pass" =>
        LET profile == ProfileFor(ThePolicy, selector, options.profiles)
        IN /\ Conforms(profile)
           /\ DOMAIN profile.minKeyBits # {} => \E k \in facts.keys : Inspected(k)

PassIsProof ==
    Analysed /\ AllKeysRead => \A selector \in DOMAIN result.compliance : PassProves(selector)

\* What is known of a host before its keys are read: an algorithm is of one key,
\* a fingerprint too, and only RSA and DSA keys are used by several algorithms,
\* because any other key names its algorithm. The group of the connection does
\* not depend on the name the key was asked for by.
ShowsItsKeys(host) ==
    \A i, j \in DOMAIN host.hostKeys :
        LET k == host.hostKeys[i]
            l == host.hostKeys[j]
        IN k.algorithm = l.algorithm \/ k.print = l.print =>
              /\ k.family = l.family /\ k.bits = l.bits /\ k.group = l.group
              /\ k.family \in {"rsa", "dsa"} \/ k.algorithm = l.algorithm

\* The report explains itself: whatever takes points off, caps the grade or
\* makes the word at the top worse has a finding or a match to show for it. The
\* grade is computed in assessment.py and the findings in the plugins, so that
\* "neither can move the other" (host_key_flags), and so they can disagree.
Reported == {f.id : f \in {x \in result.findings : x.severity = "built-in"}}

PenaltyFinding ==
    [missing_strict_kex |-> "no-strict-kex", no_post_quantum_kex |-> "no-post-quantum-kex",
     host_key_below_minimum |-> "host-key-too-small", host_key_below_recommended |-> "host-key-small",
     dh_group_below_minimum |-> "weak-dh-group"]

Offenders(category) == {category \o "-" \o class : class \in DOMAIN facts.offers}

ReportExplains ==
    Analysed /\ result.grade # "none" =>
        LET serious == \E m \in result.matches : m.severity \in {"critical", "high"} /\ ~m.undetermined
        IN /\ \A flag \in Flags(ThePolicy, facts) : PenaltyFinding[flag] \in Reported
           /\ result.verdict = "insecure" => Reported \cap Offenders("insecure") # {}
           /\ result.verdict = "weak" =>
                 serious \/ Reported \cap (Offenders("weak") \cup {"host-key-too-small", "weak-dh-group"}) # {}
           /\ result.grade = "F" /\ ~serious =>
                 Reported \cap (Offenders("insecure") \cup Offenders("weak") \cup Range(PenaltyFinding)) # {}

\* A name is called validated only when the walk brought a set of SSHFP records
\* that the zone of the host published, and each answer the proof rests on comes
\* from the zones the root delegates to and is no older than a signature lives:
\* whatever a resolver had in its cache, or another view of the zone or an alias
\* answered the walk with, is called not proven (the docstring of
\* validate_records). It does not say that the records that were compared with
\* the keys are of that set: they came by a query that nothing verifies
\* (lookup_sshfp), and the flag is set beside them whatever they are.
Links(zone) ==
    {[name |-> SubSeq(zone, 1, n), type |-> "DNSKEY"] : n \in 0..Len(zone)}
    \cup {[name |-> SubSeq(zone, 1, n), type |-> "DS"] : n \in 1..Len(zone)}
    \cup {[name |-> server.dns.host, type |-> "SSHFP"]}

ChainIsGenuine ==
    facts.validated =>
        \A query \in Links(server.dns.zone) \cap DOMAIN facts.walk :
            /\ facts.walk[query].view = "public"
            /\ facts.walk[query].at \in (server.dns.now - server.dns.life)..server.dns.now

\* Once the transcript came to its end, what the audit was able to look at is in
\* the report: each account that can log in and whose file of keys the audit
\* can see is among the accounts of that file or is listed as not read, and a
\* Match block that relaxes a sound directive for the connection its criteria
\* name is reported, or is left to a human (the comments of REMOTE_SCRIPT).
CameWhole == facts.config.state = "read" /\ facts.config = ReadSections(Transcript(server.machine))

AccountedFor(user, path) ==
    \/ user \in facts.config.unreadable
    \/ \E i \in DOMAIN facts.config.accounts :
          /\ facts.config.accounts[i].path = path
          /\ user \in {facts.config.accounts[i].user} \cup facts.config.accounts[i].sharers

RelaxedFor(machine, connection) ==
    Weakens(ThePolicy, facts.config, [values |-> Values(Given(machine, connection))])

AuditIsHonest ==
    LET machine == server.machine
    IN Analysed /\ CameWhole =>
        /\ \A i \in DOMAIN machine.accounts, j \in DOMAIN machine.templates :
              LET account == machine.accounts[i]
                  path == machine.templates[j][account.user]
              IN account.login /\ account.home /\ path \in DOMAIN machine.files /\ machine.files[path].seen =>
                    AccountedFor(account.user, path)
        /\ \A i \in DOMAIN machine.blocks :
              LET connection == Context(machine, machine.blocks[i])
              IN Applies(machine, machine.blocks[i], connection) /\ RelaxedFor(machine, connection) =>
                    Reported \cap {"config-match-block-weakens", "config-match-blocks"} # {}

\* An account that was never checked is not counted as clean: each that can log
\* in and has a file of keys is listed, with its keys or as not read (the
\* comment in REMOTE_SCRIPT, and server_accounts.py).
NoAccountCountedAsClean ==
    LET machine == server.machine
    IN Analysed /\ CameWhole =>
        \A i \in DOMAIN machine.accounts, j \in DOMAIN machine.templates :
            LET account == machine.accounts[i]
                path == machine.templates[j][account.user]
            IN account.login /\ account.home /\ path \in DOMAIN machine.files =>
                  AccountedFor(account.user, path)

\* What a check reports, or fails to, never moves the score, the grade or the
\* verdict (plugins/runner.py).
ChecksNeverGrade ==
    Analysed /\ result.grade # "none" =>
        LET others == ApplyChangelog(facts, Matches(ThePolicy, facts)) \cup
                      {m \in PluginMatches(said) : ~\E p \in Plugins : p.id = m.id /\ p.kind = "check"}
        IN /\ result.grade = Grade(ThePolicy, facts, others)
           /\ result.verdict = Verdict(ThePolicy, facts, others)

\* Applying the lines that are called safe to apply locks nobody out and never
\* makes the same scan come out worse: every class keeps an algorithm the
\* server has, and neither the score nor the grade goes down
\* (_build_recommendations).
AdviceNeverHurts ==
    Analysed /\ result.grade # "none" =>
        LET after == Applied(ThePolicy, facts)
            matches == ApplyChangelog(after, Matches(ThePolicy, after))
        IN /\ \A r \in result.advice : r.now => r.value \subseteq facts.offers[r.class]
           /\ FinalScore(ThePolicy, after) >= result.score
           /\ Place(ThePolicy, Grade(ThePolicy, after, matches)) <= Place(ThePolicy, result.grade)

\* What a rule has to meet for advice never to make it hold: what it asks not to
\* be there, or negates, is the same before and after, which is so of what is no
\* algorithm or is one that stays. A condition that may raise only goes with
\* conditions that stay.
HoldsForNothingGone(detection) ==
    \E same \in SUBSET DOMAIN detection :
        /\ \A i \in DOMAIN detection :
              LET c == detection[i]
                  combined == c.is \in {"all", "any"}
                  listed == c.is \in {"present", "absent"}
              IN /\ listed => c.class \in DOMAIN ThePolicy.weights
                 /\ i \in same => /\ combined => \A k \in DOMAIN c.of : c.of[k] \in same
                                  /\ c.is = "not" => c.of \in same
                                  /\ listed => c.tags = {} /\ \A n \in c.names : Stays(ThePolicy, c.class, n)
                 /\ i \notin same => combined \/ c.is = "present"
        /\ Len(detection) \in same \/ \A i \in DOMAIN detection : detection[i].is # "malformed"

\* What every server does: it has a list for each class, and can go without
\* compression (RFC 4253 requires it).
SpeaksSsh(host) ==
    /\ DOMAIN host.offers = DOMAIN ThePolicy.weights
    /\ "zlib" \in host.offers.compression => "none" \in host.offers.compression

\* A key that is recorded as revoked and presented is reported, unless a later
\* line has the same key without the mark (_check_known_hosts).
RevokedIsReported ==
    "known_hosts" \in options.probes /\ Analysed =>
        LET lines == LookupHosts(Load(server.knownHosts), server.name, server.port)
        IN \A i \in DOMAIN lines :
              (lines[i].marker = "revoked" /\ lines[i].key \in {p.key : p \in Presented}) =>
                  \/ lines[i].key \in local.revoked
                  \/ \E j \in DOMAIN lines : /\ j > i /\ lines[j].key = lines[i].key
                                                /\ lines[j].marker # "revoked"
=============================================================================
