----------------------------- MODULE Detection -----------------------------
(***************************************************************************)
(* Detection rules and what is made of them (vulnerabilities.py, and the   *)
(* changelog and the findings of analysis.py). A condition is a record     *)
(* whose field "is" names its kind. A detection is a tree of conditions,   *)
(* written as the sequence of its nodes in which the parts of each come    *)
(* before it and the whole is the last; the field "of" of a combination    *)
(* has the places of its parts, that of a negation the place of its part.  *)
(* The facts of a scan are a record:                                       *)
(*   offers    class -> the algorithms offered, both directions merged     *)
(*   banner    [protocol, product, version]; a version is <<release,       *)
(*             portable>>, and Unversioned when there is none to parse     *)
(*   keys      the host keys: [algorithm, family, bits, group, print,      *)
(*             error]                                                      *)
(*   auth      [state, methods, extensions], state "read" or not           *)
(*   config    [state, values, changelog], state "read" or not; values is  *)
(*             a function from the directives that have one, changelog the *)
(*             package changelog: [read, names]                            *)
(***************************************************************************)
EXTENDS Policy

Unversioned == <<>>

\* _version_lt: without a portable suffix it is the same release.
VersionLess(a, b) ==
    IF a[1] # b[1] THEN a[1] < b[1] ELSE a[2] # 0 /\ b[2] # 0 /\ a[2] < b[2]

VersionInRange(version, introduced, fixed) ==
    /\ version # Unversioned
    /\ ~VersionLess(version, introduced)
    /\ fixed = Unversioned \/ VersionLess(version, fixed)

Inspected(key) == ~key.error /\ key.bits > 0

-----------------------------------------------------------------------------
(* One condition. An answer keeps what _Context gathered on the way, and   *)
(* whether a malformed condition raised.                                   *)

Answer(hit) == [hit |-> hit, evidence |-> {}, version |-> FALSE, missing |-> {}, raised |-> FALSE]

Shows(evidence) == [Answer(evidence # {}) EXCEPT !.evidence = evidence]

Lacks(what) == [Answer(FALSE) EXCEPT !.missing = {what}]

MatchingAlgorithms(policy, facts, c) ==
    {name \in facts.offers[c.class] :
        name \in c.names \/ c.tags \cap Lookup(policy, c.class, name).tags # {}}

VersionMatches(facts, c) ==
    /\ facts.banner.product = c.product
    /\ \E w \in c.windows : VersionInRange(facts.banner.version, w[1], w[2])

\* A host key that could not be read is passed over, without a word.
HostKeyMatches(facts, c) ==
    \E k \in facts.keys : Inspected(k) /\ k.family = c.family /\ k.bits < c.below

\* A directive without a value is one this sshd does not have; a directive
\* that has one is the evidence.
ConfigMatches(facts, c) ==
    IF c.directive \notin DOMAIN facts.config.values THEN Answer(c.compare = "absent")
    ELSE LET value == facts.config.values[c.directive]
             holds == CASE c.compare = "in" -> value \in c.values
                        [] c.compare = "not_in" -> value \notin c.values
                        [] c.compare = "present" -> TRUE
                        [] c.compare = "absent" -> FALSE
         IN Shows(IF holds THEN {c.directive} ELSE {})

\* Mutant: a rule that asks for what was not collected is simply false.
LeafSilent(policy, facts, c) ==
    CASE c.is = "present" -> Shows(MatchingAlgorithms(policy, facts, c))
      [] c.is = "absent" -> Answer(MatchingAlgorithms(policy, facts, c) = {})
      [] c.is = "version" -> IF VersionMatches(facts, c)
                             THEN [Shows({"version"}) EXCEPT !.version = TRUE] ELSE Answer(FALSE)
      [] c.is = "host_key" -> Shows(IF HostKeyMatches(facts, c) THEN {"host_key"} ELSE {})
      [] c.is = "auth_method" -> Shows(c.methods \cap facts.auth.methods)
      [] OTHER -> Answer(c.is = "always")

Leaf(policy, facts, c) ==
    CASE c.is = "present" -> Shows(MatchingAlgorithms(policy, facts, c))
      [] c.is = "absent" -> Answer(MatchingAlgorithms(policy, facts, c) = {})
      [] c.is = "version" -> IF VersionMatches(facts, c)
                             THEN [Shows({"version"}) EXCEPT !.version = TRUE] ELSE Answer(FALSE)
      [] c.is = "host_key" -> Shows(IF HostKeyMatches(facts, c) THEN {"host_key"} ELSE {})
      [] c.is = "protocol" -> Shows(c.versions \cap {facts.banner.protocol})
      [] c.is = "auth_method" -> IF facts.auth.state # "read" \/ facts.auth.methods = {}
                                 THEN Lacks("auth_methods")
                                 ELSE Shows(c.methods \cap facts.auth.methods)
      [] c.is = "extension" -> IF facts.auth.state # "read" THEN Lacks("auth_methods")
                               ELSE Shows(c.names \cap facts.auth.extensions)
      [] c.is = "config" -> IF facts.config.state # "read" THEN Lacks("config")
                            ELSE ConfigMatches(facts, c)
      [] c.is = "always" -> Answer(c.value)
      [] c.is = "malformed" -> [Answer(FALSE) EXCEPT !.raised = TRUE]

-----------------------------------------------------------------------------
(* A whole detection                                                       *)

Kinds == {"always", "all", "any", "not", "present", "absent", "version", "host_key", "protocol",
          "auth_method", "extension", "config", "malformed"}

\* What the loader lets pass (parse_condition): every part of a condition stands
\* before it, and nothing is combined from no parts.
IsDetection(detection) ==
    /\ detection # <<>> /\ detection \in Seq(Range(detection))
    /\ \A i \in DOMAIN detection :
          LET c == detection[i]
          IN /\ c.is \in Kinds
             /\ c.is = "always" => c.value \in BOOLEAN
             /\ c.is \in {"all", "any"} => c.of # <<>> /\ c.of \in Seq(1..i - 1)
             /\ c.is = "not" => c.of \in 1..i - 1

\* "all" stops at the first condition that does not hold, "any" at the first
\* that does, and what the conditions before it gathered stays.
Combined(is, answers) ==
    LET stops == {i \in DOMAIN answers : answers[i].raised \/ answers[i].hit = (is = "any")}
        last == IF stops = {} THEN Len(answers) ELSE Min(stops)
    IN [hit |-> answers[last].hit,
        raised |-> answers[last].raised,
        version |-> \E i \in 1..last : answers[i].version,
        evidence |-> UNION {answers[i].evidence : i \in 1..last},
        missing |-> UNION {answers[i].missing : i \in 1..last}]

\* _negated keeps everything but the evidence.
Negated(a) == [a EXCEPT !.hit = ~a.hit /\ ~a.raised, !.evidence = {}]

\* _evaluate, for each condition of a detection.
Answers(policy, facts, detection) ==
    LET answers[i \in DOMAIN detection] ==
            LET c == detection[i]
            IN CASE c.is \in {"all", "any"} ->
                      Combined(c.is, [k \in DOMAIN c.of |-> answers[c.of[k]]])
                 [] c.is = "not" -> Negated(answers[c.of])
                 [] OTHER -> Leaf(policy, facts, c)
    IN answers

Evaluate(policy, facts, detection) == Answers(policy, facts, detection)[Len(detection)]

-----------------------------------------------------------------------------
(* A match, and the list that evaluate() returns.                          *)

Match(id, severity, a, undetermined) ==
    [id |-> id, severity |-> severity, evidence |-> a.evidence, version |-> a.version,
     undetermined |-> undetermined, patched |-> FALSE, needs |-> a.missing]

\* Affected, or not settled, or not listed; a rule that raises is listed at
\* informational severity.
MatchesOf(policy, facts, rule) ==
    LET a == Evaluate(policy, facts, rule.detection)
    IN CASE a.raised -> {Match(rule.id, "info", Answer(FALSE), FALSE)}
         [] ~a.raised /\ a.hit -> {Match(rule.id, rule.severity, [a EXCEPT !.missing = {}], FALSE)}
         [] ~a.raised /\ ~a.hit /\ a.missing # {} ->
              {Match(rule.id, "info", [Answer(FALSE) EXCEPT !.missing = a.missing], TRUE)}
         [] OTHER -> {}

Matches(policy, facts) == UNION {MatchesOf(policy, facts, rule) : rule \in policy.rules}

\* Mutant: whatever the changelog names is marked, however it was found.
PatchesAll(facts, m) ==
    [m EXCEPT !.patched = facts.config.state = "read" /\ m.id \in facts.config.changelog.names]

\* _apply_changelog: only what was matched on the version is marked.
Patches(facts, m) ==
    [m EXCEPT !.patched = /\ facts.config.state = "read"
                          /\ m.version /\ ~m.undetermined
                          /\ m.id \in facts.config.changelog.names]

ApplyChangelog(facts, matches) == {Patches(facts, m) : m \in matches}

\* _vulnerability_findings: one each, and one for all that is not settled.
VulnerabilityFindings(matches) ==
    {[id |-> m.id, severity |-> IF m.patched THEN "info" ELSE m.severity] :
        m \in {n \in matches : ~n.undetermined}}
    \cup IF \E m \in matches : m.undetermined
         THEN {[id |-> "undetermined", severity |-> "info"]} ELSE {}

-----------------------------------------------------------------------------
(* What a rule's answer would be if what is not known stayed open.         *)

Settled(b) == IF b THEN "yes" ELSE "no"

\* A host key that was not read may be any; the keys that were read are the
\* server's.
KeysUnread(facts) == facts.keys = {} \/ \E k \in facts.keys : k.error

\* What the rules do not notice: host keys that were not read, and the version
\* of the product they ask about when the banner has none that parses.
PassedOver(facts, c) ==
    \/ c.is = "host_key" /\ KeysUnread(facts)
    \/ c.is = "version" /\ facts.banner.product = c.product /\ facts.banner.version = Unversioned

TruthOfLeaf(policy, facts, c) ==
    LET known == Leaf(policy, facts, c).hit
    IN CASE c.is \in {"auth_method", "extension"} /\ facts.auth.state # "read" -> "open"
         [] c.is = "config" /\ facts.config.state # "read" -> "open"
         [] ~known /\ PassedOver(facts, c) -> "open"
         [] c.is = "malformed" -> "open"
         [] OTHER -> Settled(known)

TruthOfBoth(is, of) ==
    LET decisive == Settled(is = "any")
    IN IF decisive \in of THEN decisive
       ELSE IF "open" \in of THEN "open" ELSE Settled(is = "all")

Truths(policy, facts, detection) ==
    LET truths[i \in DOMAIN detection] ==
            LET c == detection[i]
            IN CASE c.is \in {"all", "any"} ->
                      TruthOfBoth(c.is, {truths[c.of[k]] : k \in DOMAIN c.of})
                 [] c.is = "not" -> IF truths[c.of] = "open" THEN "open" ELSE Settled(truths[c.of] = "no")
                 [] OTHER -> TruthOfLeaf(policy, facts, c)
    IN truths

Truth(policy, facts, detection) == Truths(policy, facts, detection)[Len(detection)]

\* Cannot hold without the version that it asks about: the conditions that need
\* it are those on the version, an "any" of nothing else and an "all" with one.
NeedsVersion(detection) ==
    (\E i \in DOMAIN detection : detection[i].is = "version") =>
        \E needing \in SUBSET DOMAIN detection :
            /\ Len(detection) \in needing
            /\ \A i \in needing :
                  LET c == detection[i]
                  IN \/ c.is = "version"
                     \/ c.is = "any" /\ \A k \in DOMAIN c.of : c.of[k] \in needing
                     \/ c.is = "all" /\ \E k \in DOMAIN c.of : c.of[k] \in needing
=============================================================================
