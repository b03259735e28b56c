------------------------------- MODULE Policy -------------------------------
(***************************************************************************)
(* What the rest of the scanner asks of a loaded policy file (policy.py).  *)
(* A policy is a record:                                                   *)
(*   entries[class]   a function from algorithm names to entries           *)
(*   patterns[class]  a sequence of [names, entry]; a glob is the set of   *)
(*                    names it matches                                     *)
(*   scores, weights, points   category -> score, class -> weight,         *)
(*                    modifier -> points                                   *)
(*   grades           [grade, min, requires], sorted best first            *)
(*   caps             [when, max] in the order of the file                 *)
(*   sizes, dh        family -> [min, rec], and the same for the DH group  *)
(*   modulus, levels  [bits, strength] and [id, min], largest first        *)
(*   profiles, editions   the editions in force, and all of them           *)
(*   rules            the vulnerabilities with a detection                 *)
(* An entry is [category, tags, bits, suggest].                            *)
(***************************************************************************)
EXTENDS Integers, Sequences, SequencesExt

\* Python's None where a number is expected.
None == -1

\* CATEGORY_ORDER: the categories that count, best first.
CategoryOrder == <<"recommended", "acceptable", "weak", "insecure">>

Scored == {CategoryOrder[i] : i \in DOMAIN CategoryOrder}

Rank(category) == CHOOSE i \in DOMAIN CategoryOrder : CategoryOrder[i] = category

Worst(categories) == CategoryOrder[Max({Rank(c) : c \in categories})]

UnknownEntry == [category |-> "unknown", tags |-> {}, bits |-> None, suggest |-> FALSE]

\* The exact entry, or the first pattern that matches, or unknown. What a
\* pattern says of the strength, and whether to suggest it, is not carried.
Lookup(policy, class, name) ==
    LET entries == policy.entries[class]
        globs == {i \in DOMAIN policy.patterns[class] :
                     name \in policy.patterns[class][i].names}
    IN IF name \in DOMAIN entries THEN entries[name]
       ELSE IF globs = {} THEN UnknownEntry
       ELSE [policy.patterns[class][Min(globs)].entry EXCEPT !.bits = None, !.suggest = FALSE]

Category(policy, class, name) == Lookup(policy, class, name).category

Suggested(policy, class) ==
    {n \in DOMAIN policy.entries[class] : policy.entries[class][n].suggest}

\* Both tables are read from the largest down; a modulus below the table has
\* no strength, a strength below the bands is in the last band.
StrengthForModulus(policy, bits) ==
    LET rows == {i \in DOMAIN policy.modulus : bits >= policy.modulus[i].bits}
    IN IF bits = None THEN None
       ELSE IF rows = {} THEN 0 ELSE policy.modulus[Min(rows)].strength

StrengthLevel(policy, bits) ==
    LET rows == {i \in DOMAIN policy.levels : bits >= policy.levels[i].min}
    IN IF bits = None \/ policy.levels = <<>> THEN "unknown"
       ELSE policy.levels[IF rows = {} THEN Len(policy.levels) ELSE Min(rows)].id

\* The best grade whose score is reached and whose requirements are met.
GradeFor(policy, score, capabilities) ==
    LET earned == {i \in DOMAIN policy.grades :
                      score >= policy.grades[i].min /\ policy.grades[i].requires \subseteq capabilities}
    IN policy.grades[IF earned = {} THEN Len(policy.grades) ELSE Min(earned)].grade

\* The place of a grade on the ladder, 1 the best.
Place(policy, grade) == Min({i \in DOMAIN policy.grades : policy.grades[i].grade = grade})

CapGrade(policy, grade, cap) ==
    IF Place(policy, grade) >= Place(policy, cap) THEN grade ELSE cap

\* The requirement for a family, or none.
BelowMinimum(policy, family, bits) ==
    family \in DOMAIN policy.sizes /\ bits < policy.sizes[family].min

BelowRecommended(policy, family, bits) ==
    family \in DOMAIN policy.sizes /\ ~BelowMinimum(policy, family, bits)
    /\ bits < policy.sizes[family].rec

\* A selector names an edition, or else the edition in force of a standard.
Resolvable(policy, selector) == selector \in DOMAIN policy.editions \cup DOMAIN policy.profiles

ResolveProfile(policy, selector) ==
    IF selector \in DOMAIN policy.editions THEN policy.editions[selector]
    ELSE policy.profiles[selector]
=============================================================================
