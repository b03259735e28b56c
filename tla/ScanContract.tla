---------------------------- MODULE ScanContract ----------------------------
(***************************************************************************)
(* What scan() promises whoever calls it (ssh_crypto_checker/scanner.py):  *)
(* it calls on_finish at most once per target, it returns a report only    *)
(* after it has called it for every one of them, and it ends, be it with a *)
(* report, with an exception, or with something that is not an Exception.  *)
(* ScanPool implements this; ScanJobs relies on it for Job.done.           *)
(***************************************************************************)
EXTENDS Naturals

CONSTANT Total  \* len(targets)

VARIABLES
    phase,      \* "scanning", then how scan() ended
    delivered   \* calls of on_finish that returned

vars == <<phase, delivered>>

Endings == {"returned", "raised", "exited"}

Init ==
    /\ phase = "scanning"
    /\ delivered = 0

Deliver ==
    /\ phase = "scanning"
    /\ delivered < Total
    /\ delivered' = delivered + 1
    /\ UNCHANGED phase

Return ==
    /\ phase = "scanning"
    /\ delivered = Total
    /\ phase' = "returned"
    /\ UNCHANGED delivered

Fail(ending) ==
    /\ phase = "scanning"
    /\ phase' = ending
    /\ UNCHANGED delivered

Next == Deliver \/ Return \/ \E ending \in Endings \ {"returned"} : Fail(ending)

Safe == Init /\ [][Next]_vars

Spec == Safe /\ WF_vars(Next)
=============================================================================
