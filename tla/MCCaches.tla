------------------------------ MODULE MCCaches ------------------------------
(* The two caches of the process for TLC. They share no variable, so that a *)
(* step of one reads nothing that a step of the other writes: the states in *)
(* which one of them is in use and the other stands still are all that an   *)
(* invariant of either can tell apart. The workers run the same code.       *)
EXTENDS ResolveCache, SshfpCache, TLC

Symmetry == Permutations(Threads)

CachesInit == Init /\ SshfpInit

AddressesRest == Init /\ UNCHANGED vars
RecordsRest == SshfpInit /\ UNCHANGED sshfpVars

CachesNext ==
    \/ Tick /\ RecordsRest
    \/ ResolverFailsOrRecovers /\ RecordsRest
    \/ \E t \in Threads :
          \/ Call(t) /\ RecordsRest
          \/ Hit(t) /\ RecordsRest
          \/ Miss(t) /\ RecordsRest
          \/ Ask(t) /\ RecordsRest
          \/ Store(t) /\ RecordsRest
    \/ \E c \in Checks :
          \/ SshfpHit(c) /\ AddressesRest
          \/ SshfpMiss(c) /\ AddressesRest
          \/ \E ok \in BOOLEAN : Answer(c, ok) /\ AddressesRest
          \/ SshfpStore(c) /\ AddressesRest
    \/ \E h \in Hosts : Publish(h) /\ AddressesRest

CachesSpec == CachesInit /\ [][CachesNext]_<<vars, sshfpVars>>
=============================================================================
