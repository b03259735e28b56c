----------------------------- MODULE Assessment -----------------------------
(***************************************************************************)
(* What the observations are worth under a policy: the classification, the *)
(* score, the grade, the verdict and the advice (assessment.py and the     *)
(* second half of analyse() in analysis.py). The facts of a scan and the   *)
(* policy are the records of Detection and Policy.                         *)
(***************************************************************************)
EXTENDS Policy

Categories(policy, facts, class) ==
    {Category(policy, class, name) : name \in facts.offers[class]}

ScoredNames(policy, facts, class) ==
    {name \in facts.offers[class] : Category(policy, class, name) \in Scored}

\* ClassAssessment.score: the class is worth what its worst algorithm is.
ClassScore(policy, facts, class) ==
    LET scored == ScoredNames(policy, facts, class)
    IN IF scored = {} THEN None
       ELSE Min({policy.scores[Category(policy, class, name)] : name \in scored})

WorstCategory(policy, facts) ==
    LET all == (UNION {Categories(policy, facts, class) : class \in DOMAIN facts.offers}) \cap Scored
    IN IF all = {} THEN "none" ELSE Worst(all)

StrictKex(facts) == "strict" \in facts.offers.kex

PostQuantumStatus(policy, facts) ==
    LET scored == ScoredNames(policy, facts, "kex")
        quantum == {n \in scored : "post-quantum" \in Lookup(policy, "kex", n).tags}
    IN CASE scored = {} -> "unknown"
         [] scored # {} /\ quantum = {} -> "not_ready"
         [] scored # {} /\ quantum = scored -> "enforced"
         [] OTHER -> "ready"

CompressionStatus(policy, facts) ==
    LET compressing == facts.offers.compression \ {"none"}
    IN CASE facts.offers.compression = {} -> "unknown"
         [] facts.offers.compression = {"none"} -> "disabled"
         [] \E n \in compressing : "post-auth" \notin Lookup(policy, "compression", n).tags -> "pre-auth"
         [] OTHER -> "post-auth"

\* host_key_flags; a key without a size has bits 0 here, None in the code.
KeysRead(facts) == {k \in facts.keys : ~k.error}

KeyBelowMinimum(policy, facts) ==
    \E k \in KeysRead(facts) : k.bits > 0 /\ BelowMinimum(policy, k.family, k.bits)

KeyBelowRecommended(policy, facts) ==
    \E k \in KeysRead(facts) : k.bits > 0 /\ BelowRecommended(policy, k.family, k.bits)

WeakGroup(policy, facts) ==
    \E k \in KeysRead(facts) : k.group # None /\ k.group < policy.dh.min

-----------------------------------------------------------------------------
(* The score                                                               *)

\* Python's round(): to the nearest, a tie to the even.
Round(n, d) ==
    LET q == n \div d
        r == 2 * (n % d)
    IN IF r > d \/ (r = d /\ q % 2 = 1) THEN q + 1 ELSE q

Weighed(policy, facts) ==
    {class \in DOMAIN facts.offers :
        ClassScore(policy, facts, class) # None /\ policy.weights[class] > 0}

TotalWeight(policy, facts) == SumFunction([class \in Weighed(policy, facts) |-> policy.weights[class]])

Flags(policy, facts) ==
    {flag \in DOMAIN policy.points :
        CASE flag = "missing_strict_kex" -> ~StrictKex(facts) /\ policy.requireStrict
          [] flag = "no_post_quantum_kex" -> PostQuantumStatus(policy, facts) = "not_ready"
          [] flag = "host_key_below_minimum" -> KeyBelowMinimum(policy, facts)
          [] flag = "host_key_below_recommended" -> KeyBelowRecommended(policy, facts)
          [] flag = "dh_group_below_minimum" -> WeakGroup(policy, facts)
          [] OTHER -> FALSE}

Worth(policy, facts) ==
    SumFunction([class \in Weighed(policy, facts) |->
                    policy.weights[class] * ClassScore(policy, facts, class)])

Points(policy, facts) == SumFunction([flag \in Flags(policy, facts) |-> policy.points[flag]])

FinalScore(policy, facts) ==
    Max({0, Min({100, Round(Worth(policy, facts), TotalWeight(policy, facts)) + Points(policy, facts)})})

-----------------------------------------------------------------------------
(* The grade and the verdict                                               *)

\* A key nobody could read does not earn the top grade.
Capabilities(policy, facts) ==
    (IF StrictKex(facts) THEN {"strict_kex"} ELSE {})
    \cup (IF PostQuantumStatus(policy, facts) \in {"ready", "enforced"} THEN {"post_quantum"} ELSE {})
    \cup IF /\ \E k \in facts.keys : ~k.error /\ k.bits > 0
            /\ ~KeyBelowMinimum(policy, facts) /\ ~KeyBelowRecommended(policy, facts)
         THEN {"host_keys_ok"} ELSE {}

\* _confirmed: established, and not named by the package changelog.
Confirmed(matches, severities, measuredOnly) ==
    \E m \in matches :
        /\ m.severity \in severities
        /\ ~m.undetermined /\ ~m.patched
        /\ ~(measuredOnly /\ m.version)

\* GRADE_CAP_CONDITIONS: the loader refuses a cap for anything else.
Whens ==
    {"any_insecure_algorithm", "any_weak_algorithm", "host_key_below_minimum",
     "any_critical_vulnerability", "any_high_vulnerability", "any_measured_critical_vulnerability",
     "any_critical_vulnerability_the_changelog_did_not_clear"}

CapApplies(policy, facts, matches, when) ==
    LET worst == WorstCategory(policy, facts)
    IN CASE when = "any_insecure_algorithm" -> worst = "insecure"
         [] when = "any_weak_algorithm" -> worst \in {"weak", "insecure"}
         [] when = "host_key_below_minimum" -> KeyBelowMinimum(policy, facts)
         [] when = "any_critical_vulnerability" -> Confirmed(matches, {"critical"}, FALSE)
         [] when = "any_high_vulnerability" -> Confirmed(matches, {"critical", "high"}, FALSE)
         [] when = "any_measured_critical_vulnerability" -> Confirmed(matches, {"critical"}, TRUE)
         [] when = "any_critical_vulnerability_the_changelog_did_not_clear" ->
              /\ facts.config.state = "read" /\ facts.config.changelog.read
              /\ Confirmed(matches, {"critical"}, FALSE)

CapsThatApply(policy, facts, matches) ==
    {cap \in Range(policy.caps) : CapApplies(policy, facts, matches, cap.when)}

\* _apply_grade_caps: each cap in turn, in the order of the file.
Capped(policy, grade, applying) ==
    LET capped[i \in 0..Len(policy.caps)] ==
            IF i = 0 THEN grade
            ELSE IF policy.caps[i] \in applying THEN CapGrade(policy, capped[i - 1], policy.caps[i].max)
            ELSE capped[i - 1]
    IN capped[Len(policy.caps)]

Grade(policy, facts, matches) ==
    Capped(policy, GradeFor(policy, FinalScore(policy, facts), Capabilities(policy, facts)),
           CapsThatApply(policy, facts, matches))

\* Mutant: the verdict only looks at the algorithms.
VerdictOfAlgorithms(policy, facts, matches) ==
    LET worst == WorstCategory(policy, facts)
    IN CASE worst = "insecure" -> "insecure"
         [] worst = "weak" -> "weak"
         [] worst = "recommended" /\ (StrictKex(facts) \/ ~policy.requireStrict) -> "secure"
         [] OTHER -> "acceptable"

\* _verdict_for. A match counts here whatever the changelog says of it.
Verdict(policy, facts, matches) ==
    LET worst == WorstCategory(policy, facts)
        serious == \E m \in matches : m.severity \in {"critical", "high"} /\ ~m.undetermined
    IN CASE worst = "insecure" -> "insecure"
         [] \/ worst = "weak"
            \/ worst # "insecure" /\ (KeyBelowMinimum(policy, facts) \/ WeakGroup(policy, facts) \/ serious)
              -> "weak"
         [] /\ worst = "recommended" /\ ~serious
            /\ ~KeyBelowMinimum(policy, facts) /\ ~WeakGroup(policy, facts)
            /\ ~KeyBelowRecommended(policy, facts)
            /\ StrictKex(facts) \/ ~policy.requireStrict
              -> "secure"
         [] OTHER -> "acceptable"

\* What a policy has to meet for its letters and its words to agree: what
\* nothing but the flags of a secure server takes off leaves an A, what no flag
\* that goes with a better word than weak takes off stays above F, and the caps
\* keep from F and from the top what is not there by the score.
Cost(policy, flag) == IF flag \in DOMAIN policy.points THEN policy.points[flag] ELSE 0

Earns(policy, score, good) ==
    \E i \in DOMAIN policy.grades :
        /\ policy.grades[i].min <= score /\ policy.grades[i].requires = {}
        /\ \A j \in 1..i : policy.grades[j].grade \in good

IsScale(policy) ==
    /\ \A category \in Scored : policy.scores[category] \in 0..100
    /\ policy.scores["acceptable"] <= policy.scores["recommended"]
    /\ \A class \in DOMAIN policy.weights : policy.weights[class] \in Int
    /\ \A flag \in DOMAIN policy.points : policy.points[flag] \in Int /\ policy.points[flag] <= 0
    /\ policy.grades # <<>> /\ policy.grades \in Seq(Range(policy.grades))
    /\ policy.caps \in Seq(Range(policy.caps))
    /\ \A i \in DOMAIN policy.grades : policy.grades[i].min \in Int /\ policy.grades[i].grade # "none"
    /\ \A cap \in Range(policy.caps) :
          cap.when \in Whens /\ \E i \in DOMAIN policy.grades : policy.grades[i].grade = cap.max

LadderAgrees(policy) ==
    LET grades == policy.grades
        caps(when) == {cap \in Range(policy.caps) : cap.when = when}
        everyCost == Cost(policy, "missing_strict_kex") + Cost(policy, "no_post_quantum_kex")
                     + Cost(policy, "host_key_below_recommended")
    IN /\ IsScale(policy)
       /\ Earns(policy, policy.scores["recommended"] + Cost(policy, "no_post_quantum_kex"), {"A+", "A"})
       /\ Earns(policy, policy.scores["acceptable"] + everyCost,
                {grades[i].grade : i \in DOMAIN grades} \ {"F"})
       /\ \A i \in DOMAIN grades : /\ grades[i].grade = "F" <=> i = Len(grades)
                                   /\ grades[i].grade = "A+" <=> i = 1
       /\ \E cap \in caps("any_insecure_algorithm") : cap.max = "F"
       /\ \A when \in {"any_weak_algorithm", "host_key_below_minimum", "any_high_vulnerability"} :
             \E cap \in caps(when) : cap.max # "A+"
       /\ grades[1].min > 0 /\ grades[1].min > 100 + Cost(policy, "dh_group_below_minimum")

-----------------------------------------------------------------------------
(* The advice                                                              *)

\* A class is left alone when everything in it is recommended already, and
\* compression has a directive of its own.
Advised(policy, facts, class) ==
    /\ class # "compression"
    /\ ScoredNames(policy, facts, class) # {}
    /\ Categories(policy, facts, class) \cap Scored # {"recommended"}
    /\ Suggested(policy, class) # {}

\* Mutant: all that the policy suggests, supported here or not.
AdviceUnchecked(policy, facts, class) ==
    [class |-> class, value |-> Suggested(policy, class), now |-> TRUE, copied |-> class = "host_key"]

\* _build_recommendations: what the policy suggests and the server has; when
\* it has none of it the line waits for an upgrade, and says so. The line for
\* the host keys is given a second time, for the keys of clients.
Advice(policy, facts, class) ==
    LET here == Suggested(policy, class) \cap facts.offers[class]
    IN [class |-> class, value |-> IF here # {} THEN here ELSE Suggested(policy, class),
        now |-> here # {}, copied |-> class = "host_key"]

Recommendations(policy, facts) ==
    {Advice(policy, facts, class) : class \in {c \in DOMAIN facts.offers : Advised(policy, facts, c)}}
    \cup IF "zlib" \in facts.offers.compression
         THEN {[class |-> "compression", value |-> {"none"}, now |-> TRUE, copied |-> FALSE]} ELSE {}

\* The algorithms that the findings name as evidence; a suggested line that
\* still has one of them says that it does not close every finding.
Implicated(facts, matches) ==
    (UNION {facts.offers[class] : class \in DOMAIN facts.offers})
    \cap UNION {m.evidence : m \in {n \in matches : ~n.undetermined}}

Incomplete(facts, matches, r) == r.value \cap Implicated(facts, matches) # {}

\* The server after the lines that can be applied now have been applied. What
\* sshd announces in an algorithm list beside the algorithms stays.
Applied(policy, facts) ==
    LET now == {r \in Recommendations(policy, facts) : r.now}
        kept(class) == facts.offers[class] \ (ScoredNames(policy, facts, class)
            \cup {n \in facts.offers[class] : Category(policy, class, n) = "unknown"})
    IN [facts EXCEPT !.offers = [class \in DOMAIN facts.offers |->
           IF \E r \in now : r.class = class
           THEN kept(class) \cup (CHOOSE r \in now : r.class = class).value
           ELSE facts.offers[class]]]

\* A name that no advice takes away.
Stays(policy, class, name) == Category(policy, class, name) \notin Scored \cup {"unknown"}

\* What a policy has to meet for its advice to be worth taking: it suggests what
\* it scores, and of the key exchanges only what it recommends, nothing is worth
\* more than that, and what a key exchange that is no longer the worst of its
\* class gains is more than a post-quantum one that goes with it is worth,
\* whichever classes count.
AdviceIsSound(policy) ==
    LET worth == policy.scores["recommended"] - policy.scores["acceptable"]
        penalty == -Cost(policy, "no_post_quantum_kex")
        counting == {class \in DOMAIN policy.weights : policy.weights[class] > 0}
    IN /\ IsScale(policy)
       /\ {"kex", "compression"} \subseteq DOMAIN policy.weights /\ "kex" \in counting
       /\ \A class \in DOMAIN policy.weights : \A name \in Suggested(policy, class) :
             Category(policy, class, name) \in (IF class = "kex" THEN {"recommended"} ELSE Scored)
       /\ Category(policy, "compression", "none") \in Scored
       /\ Stays(policy, "kex", "strict")
       /\ \A category \in Scored \ {"recommended"} : policy.scores[category] <= policy.scores["acceptable"]
       /\ \A classes \in SUBSET counting :
             "kex" \in classes =>
                policy.weights["kex"] * worth
                   >= (penalty + 1) * SumFunction([class \in classes |-> policy.weights[class]])
       /\ \A i, j \in DOMAIN policy.grades : policy.grades[i].grade = policy.grades[j].grade => i = j
       /\ \A i \in DOMAIN policy.grades :
             "post_quantum" \in policy.grades[i].requires =>
                policy.grades[i].min >= policy.scores["recommended"]
=============================================================================
