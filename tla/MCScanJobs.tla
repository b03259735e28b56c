----------------------------- MODULE MCScanJobs -----------------------------
(* ScanJobs for TLC. Job ids are random tokens and clients are anonymous:   *)
(* both sets of model values are interchangeable.                           *)
EXTENDS ScanJobs, TLC

Symmetry == Permutations(Jobs) \cup Permutations(Clients)
=============================================================================
