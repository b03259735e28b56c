----------------------------- MODULE PolicyFile -----------------------------
(***************************************************************************)
(* How a policy file is found, read and checked (load_policy and what it   *)
(* calls in policy.py). A document is a record of what the loader looks at:*)
(*   exists      whether there is a file                                    *)
(*   text        "good", "invalid" (not JSON, or not to be opened) or      *)
(*               "other": JSON, but not an object, or not text at all      *)
(*   major, categories, classes   the schema's first number, the           *)
(*               categories defined, the algorithm classes                 *)
(*   judged      the categories given to algorithms and patterns           *)
(*   weights     class -> weight                                           *)
(*   grades, caps  sequences of [grade, min] and [when, max]               *)
(*   expects     the kinds of expectation in the checks of directives      *)
(*   detections  "good" or "bad", for each vulnerability with a detection  *)
(*   vulnerabilities, advisories   their identifiers                       *)
(*   profiles    the inline profiles, id -> profile                        *)
(*   directory   the directory beside it, id -> (edition -> profile); the  *)
(*               empty function when there is none                         *)
(*   notNumbers  the parts in which int() meets something else             *)
(* and a profile is [text, named, classes, forbids, current, content].     *)
(* An edition called "Bad" is one whose file name is not a selector.       *)
(***************************************************************************)
EXTENDS Integers, Sequences, SequencesExt

AllCategories ==
    {"recommended", "acceptable", "weak", "insecure", "informational", "unknown"}

Classes == {"kex", "host_key", "cipher", "mac", "compression"}

Expectations == {"equals", "in", "not_in", "at_most", "at_least", "required"}

CapConditions ==
    {"any_insecure_algorithm", "any_weak_algorithm", "host_key_below_minimum",
     "any_critical_vulnerability", "any_high_vulnerability",
     "any_measured_critical_vulnerability",
     "any_critical_vulnerability_the_changelog_did_not_clear"}

\* The parts of a document in the order _build_policy takes them.
Parts ==
    <<"schema", "categories", "classes", "weights", "modifiers", "grades", "caps",
      "requirements", "checks", "vulnerabilities", "strength", "directory", "profiles">>

-----------------------------------------------------------------------------
(* Profiles and their editions                                             *)

\* _parse_profile
ProfileRefused(profile) ==
    \/ profile.text # "good"
    \/ ~profile.named
    \/ ~(profile.classes \subseteq Classes)
    \/ ~(profile.forbids \subseteq AllCategories)

Declared(editions) == {e \in DOMAIN editions : editions[e].current}

\* _mark_the_edition_in_force: one edition is in force whatever it says; of
\* several exactly one has to say so.
FolderRefused(editions) ==
    \/ \E e \in DOMAIN editions : e = "Bad" \/ ProfileRefused(editions[e])
    \/ Cardinality(DOMAIN editions) > 1 /\ Cardinality(Declared(editions)) # 1

InForce(editions) ==
    IF Cardinality(DOMAIN editions) = 1 THEN CHOOSE e \in DOMAIN editions : TRUE
    ELSE CHOOSE e \in Declared(editions) : TRUE

\* A selector is <<id>> or <<id, edition>>. _load_profile_directory: what each
\* edition is, and what the bare identifier of a standard means.
EditionsOf(directory) ==
    LET selectors == UNION {{<<id, e>> : e \in DOMAIN directory[id]} : id \in DOMAIN directory}
    IN [s \in selectors |-> directory[s[1]][s[2]].content]

StandardsOf(directory) ==
    LET ids == {id \in DOMAIN directory : DOMAIN directory[id] # {}}
    IN [s \in {<<id>> : id \in ids} |-> directory[s[1]][InForce(directory[s[1]])].content]

-----------------------------------------------------------------------------
(* The document                                                            *)

\* What makes a part of the document a PolicyError.
PartRefused(document, part) ==
    CASE part = "schema" -> document.major # 1
      [] part = "categories" -> document.categories # AllCategories
      [] part = "classes" -> ~(Classes \subseteq document.classes)
                             \/ ~(document.judged \subseteq AllCategories)
      [] part = "weights" -> FoldFunction(LAMBDA w, sum : w + sum, 0, document.weights) <= 0
      [] part = "grades" -> document.grades = <<>>
      [] part = "caps" ->
           \E i \in DOMAIN document.caps :
              \/ \A j \in DOMAIN document.grades : document.grades[j].grade # document.caps[i].max
              \/ document.caps[i].when \notin CapConditions
      [] part = "checks" -> ~(document.expects \subseteq Expectations)
      [] part = "vulnerabilities" -> "bad" \in document.detections
      [] part = "directory" -> \E id \in DOMAIN document.directory :
                                  FolderRefused(document.directory[id])
      [] part = "profiles" -> \E id \in DOMAIN document.profiles :
                                  ProfileRefused(document.profiles[id])
      [] OTHER -> FALSE

\* _read_structured and _build_policy: the first part that will not do ends
\* it, in a PolicyError, or in a ValueError that nobody catches when what is
\* wrong is something that int() or dict() cannot take.
Reading(document) ==
    LET broken == {i \in DOMAIN Parts : PartRefused(document, Parts[i])
                                        \/ Parts[i] \in document.notNumbers}
    IN CASE document.text = "invalid" -> "refused"
         [] document.text = "other" -> "raises"
         [] document.text = "good" /\ broken = {} -> "loaded"
         [] OTHER -> IF PartRefused(document, Parts[Min(broken)]) THEN "refused" ELSE "raises"

Over(first, second) == [x \in DOMAIN first \cup DOMAIN second |->
                           IF x \in DOMAIN first THEN first[x] ELSE second[x]]

\* _build_policy: an inline profile takes the bare identifier of a standard and
\* leaves its editions; an advisory becomes a vulnerability unless there is one
\* of its name.
Built(document) ==
    LET inline == [s \in {<<id>> : id \in DOMAIN document.profiles} |->
                      document.profiles[s[1]].content]
    IN [profiles |-> Over(inline, StandardsOf(document.directory)),
        editions |-> Over(EditionsOf(document.directory), inline),
        rules |-> document.vulnerabilities \cup document.advisories]

-----------------------------------------------------------------------------
(* Where it is looked for                                                  *)

\* Mutant: a candidate that cannot be read is passed over.
ChosenReadable(config, candidates) ==
    IF config.given THEN config.document
    ELSE LET usable == {i \in DOMAIN candidates :
                           candidates[i].exists /\ Reading(candidates[i]) = "loaded"}
         IN candidates[IF usable = {} THEN Len(candidates) ELSE Min(usable)]

\* load_policy: the file that was named, or the first of the candidate paths
\* that exists; the shipped one is the last of them.
Chosen(config, candidates) ==
    IF config.given THEN config.document
    ELSE LET existing == {i \in DOMAIN candidates : candidates[i].exists}
         IN candidates[IF existing = {} THEN Len(candidates) ELSE Min(existing)]

LoadPolicy(config, candidates) ==
    LET document == Chosen(config, candidates)
        outcome == IF document.exists THEN Reading(document) ELSE "refused"
    IN [outcome |-> outcome, from |-> document,
        policy |-> IF outcome = "loaded" THEN Built(document)
                   ELSE [profiles |-> <<>>, editions |-> <<>>, rules |-> {}]]

\* resolve_profile
Known(policy, selector) == selector \in DOMAIN policy.editions \cup DOMAIN policy.profiles
=============================================================================
