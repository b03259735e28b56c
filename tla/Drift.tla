------------------------------- MODULE Drift -------------------------------
(***************************************************************************)
(* The comparison of a scan with an earlier one (compare.py). A result is  *)
(* [grade, score, findings, algorithms, keys]: the identifiers of its      *)
(* findings, the <<class, name>> pairs it offers, and the fingerprint of   *)
(* each host key algorithm whose key was read; score is -1 for a server    *)
(* that could not be scanned. A report maps addresses to results.          *)
(***************************************************************************)
EXTENDS Integers, FiniteSets

NoScore == -1

\* compare, for a target that is in both.
NewFindings(before, after) == after.findings \ before.findings
ResolvedFindings(before, after) == before.findings \ after.findings
Added(before, after) == after.algorithms \ before.algorithms
Removed(before, after) == before.algorithms \ after.algorithms

HostKeysChanged(before, after) ==
    {a \in DOMAIN before.keys \cap DOMAIN after.keys : before.keys[a] # after.keys[a]}

Changed(before, after) ==
    \/ NewFindings(before, after) \cup ResolvedFindings(before, after) # {}
    \/ Added(before, after) \cup Removed(before, after) # {}
    \/ HostKeysChanged(before, after) # {}
    \/ before.grade # after.grade

\* TargetDrift.regressed: by the score, and by the findings only when one of
\* the two has no score.
Regressed(before, after) ==
    IF before.score = NoScore \/ after.score = NoScore THEN NewFindings(before, after) # {}
    ELSE after.score < before.score

Status(baseline, report, address) ==
    CASE address \notin DOMAIN baseline -> "new"
      [] address \notin DOMAIN report -> "gone"
      [] OTHER -> IF Changed(baseline[address], report[address]) THEN "changed" ELSE "unchanged"

Compare(baseline, report) ==
    [address \in DOMAIN baseline \cup DOMAIN report |->
        [status |-> Status(baseline, report, address),
         regressed |-> /\ address \in DOMAIN baseline \cap DOMAIN report
                       /\ Regressed(baseline[address], report[address])]]

Regressions(comparison) == {a \in DOMAIN comparison : comparison[a].regressed}
=============================================================================
