--------------------------- MODULE ScanPoolProofs ---------------------------
(***************************************************************************)
(* scan() keeps its contract, calls on_finish once per stored result and   *)
(* leaves no thread behind, for any number of targets, any concurrency and *)
(* any set of faults, and a report it returns has every target's own       *)
(* result in its place.                                                    *)
(***************************************************************************)
EXTENDS ScanPool, FiniteSetTheorems, SequenceTheorems, TLAPS

CoordType ==
    /\ coord \in {"submitting", "collecting", "notifying", "leaving", "fleet"} \cup Endings
    /\ next \in 1..N + 1
    /\ DOMAIN results = Targets
    /\ current \in Targets \cup {NoTarget}
    /\ notified \in Seq(Targets)
    /\ ending \in {"none", "raised", "exited"}

\* Where the coordinator stands says how the with block was left, whether a
\* result waits for on_finish, and when every target has its result.
Stages ==
    /\ coord \in {"submitting", "collecting", "notifying", "fleet"} => ending = "none"
    /\ IF coord = "notifying" THEN current \in Stored ELSE current = NoTarget
    /\ coord \in {"leaving", "fleet"} /\ ending = "none" => Stored = Targets

\* Until something fails, on_finish was called for exactly the stored results
\* but the one that waits for it.
Counted ==
    ending = "none" => Len(notified) = Cardinality(Stored \ {current})

CoordInv == CoordType /\ Stages /\ Counted

-----------------------------------------------------------------------------
\* What the last turn of the as_completed loop relies on: a stored result that
\* still waits is one more than were delivered, and no more than there are
\* targets (scan()).
LEMMA StoredCounts ==
    ASSUME CoordType
    PROVE  /\ Cardinality(Targets) = N
           /\ Cardinality(Stored) \in Nat
           /\ Cardinality(Stored) <= N
           /\ \A i \in Stored : Cardinality(Stored \ {i}) = Cardinality(Stored) - 1
           /\ Stored \ {NoTarget} = Stored
<1>1. IsFiniteSet(Targets) /\ Cardinality(Targets) = N
  BY PoolAssumption, FS_Interval DEF Targets
<1>2. Stored \in SUBSET Targets
  BY DEF Stored
<1>3. IsFiniteSet(Stored) /\ Cardinality(Stored) <= N
  BY <1>1, <1>2, FS_Subset
<1>4. Cardinality(Stored) \in Nat
  BY <1>3, FS_CardinalityType
<1>5. \A i \in Stored : Cardinality(Stored \ {i}) = Cardinality(Stored) - 1
  BY <1>3, FS_RemoveElement
<1>6. NoTarget \notin Stored
  BY <1>2, PoolAssumption DEF Targets, NoTarget
<1> QED BY <1>1, <1>3, <1>4, <1>5, <1>6

\* Storing a result adds its target to the stored ones (results[index]).
LEMMA StoreOne ==
    ASSUME CoordType, NEW i \in Targets, results[i] = NoResult,
           results' = [results EXCEPT ![i] = ResultOf(i)]
    PROVE  /\ DOMAIN results' = Targets
           /\ Stored' = Stored \cup {i}
           /\ i \notin Stored
<1>1. i # 0
  BY PoolAssumption DEF Targets
<1>2. ResultOf(i) # NoResult
  <2>1. ResultOf(i).target = i
    BY DEF ResultOf
  <2>2. NoResult.target = 0
    BY DEF NoResult, NoTarget
  <2> QED BY <1>1, <2>1, <2>2
<1>3. DOMAIN results = Targets
  BY DEF CoordType
<1>4. \A j \in Targets : results'[j] = IF j = i THEN ResultOf(i) ELSE results[j]
  BY <1>3
<1>5. DOMAIN results' = Targets
  BY <1>3
<1> HIDE DEF ResultOf, NoResult
<1> QED BY <1>2, <1>4, <1>5 DEF Stored, Targets

-----------------------------------------------------------------------------
(* The coordinator's invariant, one action at a time                       *)

LEMMA CoordInit ==
    ASSUME Init
    PROVE  CoordInv
<1>1. Stored = {}
  BY DEF Init, Stored
<1>2. Cardinality(Stored \ {current}) = 0
  BY <1>1, FS_EmptySet
<1>3. notified \in Seq(Targets) /\ Len(notified) = 0
  BY DEF Init
<1>4. CoordType
  BY <1>3, PoolAssumption DEF Init, CoordType
<1>5. Stages
  BY DEF Init, Stages
<1> QED BY <1>2, <1>3, <1>4, <1>5 DEF CoordInv, Counted

\* Storing a result and going to on_finish with it.
LEMMA CollectKeeps ==
    ASSUME CoordInv, NEW i \in Targets, Collect(i)
    PROVE  CoordInv'
<1>1. CoordType /\ Stages /\ Counted
  BY DEF CoordInv
<1>2. DOMAIN results' = Targets /\ Stored' = Stored \cup {i} /\ i \notin Stored
  BY <1>1, StoreOne DEF Collect
<1>3. CoordType'
  BY <1>1, <1>2 DEF CoordType, Collect
<1>4. Stages'
  BY <1>1, <1>2 DEF Stages, Collect
<1>5. current = NoTarget /\ current' = i /\ UNCHANGED <<notified, ending>>
  BY <1>1 DEF Stages, Collect
<1>6. Stored' \ {current'} = Stored \ {current}
  BY <1>1, <1>2, <1>5, StoredCounts
<1>7. Counted'
  BY <1>1, <1>5, <1>6 DEF Counted
<1> QED BY <1>3, <1>4, <1>7 DEF CoordInv

\* A call of on_finish that returns delivers the one result that waited.
LEMMA NotifyDelivers ==
    ASSUME CoordInv, Notify
    PROVE  /\ Len(notified) \in Nat
           /\ Len(notified) < N
           /\ Len(notified') = Len(notified) + 1
           /\ notified' \in Seq(Targets)
           /\ Len(notified') = Cardinality(Stored)
<1>1. CoordType /\ current \in Stored /\ ending = "none"
  BY DEF CoordInv, Stages, Notify
<1>2. Len(notified) = Cardinality(Stored) - 1
  BY <1>1, StoredCounts DEF CoordInv, Counted
<1>3. /\ notified \in Seq(Targets)
      /\ current \in Targets
      /\ notified' = Append(notified, current)
  BY <1>1 DEF CoordType, Stored, Notify
<1>4. notified' \in Seq(Targets) /\ Len(notified') = Len(notified) + 1
  BY <1>3, AppendProperties
<1>5. Len(notified) \in Nat
  BY <1>3, LenProperties
<1> QED BY <1>1, <1>2, <1>4, <1>5, StoredCounts, PoolAssumption

LEMMA NotifyKeeps ==
    ASSUME CoordInv, Notify
    PROVE  CoordInv'
<1>1. CoordType /\ Stages /\ ending = "none"
  BY DEF CoordInv, Stages, Notify
<1>2. Stored' = Stored /\ current' = NoTarget /\ ending' = "none"
  BY <1>1 DEF Notify, Stored
<1>3. CoordType'
  BY <1>1, NotifyDelivers DEF CoordType, Notify
<1>4. Stages'
  BY <1>1, <1>2 DEF Stages, Notify, Stored
<1>5. Len(notified') = Cardinality(Stored' \ {current'})
  BY <1>1, <1>2, NotifyDelivers, StoredCounts
<1> QED BY <1>3, <1>4, <1>5 DEF CoordInv, Counted

LEMMA CoordKeeps ==
    ASSUME CoordInv, [Next]_vars
    PROVE  CoordInv'
<1> USE PoolAssumption
<1>0. CoordType /\ Stages /\ Counted
  BY DEF CoordInv
<1>a. ASSUME UNCHANGED <<results, current, notified>>, ending' = ending \/ ending' # "none"
      PROVE  Stored' = Stored /\ Counted'
  BY <1>0, <1>a DEF Counted, Stored
<1>b. ASSUME UNCHANGED <<coord, next, results, current, notified, ending>>
      PROVE  CoordInv'
  <2>1. Stored' = Stored /\ Counted'
    BY <1>a, <1>b
  <2> QED BY <1>0, <1>b, <2>1 DEF CoordInv, CoordType, Stages
<1>1. CASE Submit
  <2>1. Stored' = Stored /\ Counted'
    BY <1>1, <1>a DEF Submit
  <2> QED BY <1>0, <1>1, <2>1 DEF CoordInv, CoordType, Stages, Submit
<1>2. CASE SubmitFails
  <2>1. Stored' = Stored /\ Counted'
    BY <1>2, <1>a DEF SubmitFails
  <2> QED BY <1>0, <1>2, <2>1 DEF CoordInv, CoordType, Stages, SubmitFails
<1>3. ASSUME NEW i \in Targets, Collect(i) PROVE CoordInv'
  BY <1>3, CollectKeeps
<1>4. ASSUME NEW i \in Targets, CollectExits(i) PROVE CoordInv'
  <2>1. Stored' = Stored /\ Counted'
    BY <1>4, <1>a DEF CollectExits
  <2> QED BY <1>0, <1>4, <2>1 DEF CoordInv, CoordType, Stages, CollectExits
<1>5. CASE Notify
  BY <1>5, NotifyKeeps
<1>6. CASE NotifyRaises
  <2>1. Counted' /\ Stages'
    BY <1>0, <1>6 DEF Counted, Stages, NotifyRaises
  <2> QED BY <1>0, <1>6, <2>1 DEF CoordInv, CoordType, NotifyRaises
<1>7. CASE Interrupt
  <2>1. Counted' /\ Stages'
    BY <1>0, <1>7 DEF Counted, Stages, Interrupt
  <2> QED BY <1>0, <1>7, <2>1 DEF CoordInv, CoordType, Interrupt
<1>8. CASE Leave
  <2>1. Stored' = Stored /\ Counted'
    BY <1>8, <1>a DEF Leave
  <2> QED BY <1>0, <1>8, <2>1 DEF CoordInv, CoordType, Stages, Leave, Endings
<1>9. CASE FleetChecks \/ FleetRaises \/ FleetExits
  <2>1. /\ coord = "fleet" /\ coord' \in Endings
        /\ UNCHANGED <<next, results, current, notified, ending>>
    BY <1>9 DEF FleetChecks, FleetRaises, FleetExits, Endings
  <2>2. Stored' = Stored /\ Counted'
    BY <2>1, <1>a
  <2> QED BY <1>0, <2>1, <2>2 DEF CoordInv, CoordType, Stages, Endings
<1>10. ASSUME NEW w \in Workers, WorkerStep(w) PROVE CoordInv'
  BY <1>10, <1>b DEF WorkerStep, TakeWork, TargetEnds
<1>11. CASE UNCHANGED vars
  BY <1>11, <1>b DEF vars
<1> QED BY <1>1, <1>2, <1>3, <1>4, <1>5, <1>6, <1>7, <1>8, <1>9, <1>10, <1>11
        DEF Next, CoordStep

-----------------------------------------------------------------------------
(* The invariants of the runs                                              *)

\* No target is given to on_finish twice, for it is taken from the list only
\* in the step that stores its result.
Delivered ==
    /\ NotifiedOnce
    /\ coord = "notifying" => \A k \in DOMAIN notified : notified[k] # current

LEMMA DeliveredKeeps ==
    ASSUME CoordInv, Delivered, [Next]_vars
    PROVE  Delivered'
<1>0. CoordType /\ Stages /\ notified \in Seq(Targets)
  BY DEF CoordInv, CoordType
<1>a. ASSUME UNCHANGED <<results, notified>>, coord' # "notifying" \/ UNCHANGED <<coord, current>>
      PROVE  Delivered'
  BY <1>a DEF Delivered, NotifiedOnce, IsInjective
<1>1. ASSUME NEW i \in Targets, Collect(i) PROVE Delivered'
  <2>1. i \notin Stored /\ Stored' = Stored \cup {i} /\ DOMAIN results' = Targets
    BY <1>0, <1>1, StoreOne DEF Collect
  <2>2. notified' = notified /\ current' = i
    BY <1>1 DEF Collect
  <2>3. \A k \in DOMAIN notified : notified[k] \in Stored
    BY <1>0, LenProperties DEF Delivered, NotifiedOnce, Stored
  <2>4. \A k \in DOMAIN notified' : results'[notified'[k]] # NoResult
    BY <2>1, <2>2, <2>3 DEF Stored
  <2>5. \A k \in DOMAIN notified' : notified'[k] # current'
    BY <2>1, <2>2, <2>3
  <2> QED BY <2>2, <2>4, <2>5 DEF Delivered, NotifiedOnce, IsInjective
<1>2. CASE Notify
  <2>1. /\ current \in Stored /\ current \in Targets
        /\ notified' = Append(notified, current) /\ results' = results
        /\ coord' # "notifying"
    BY <1>0, <1>2 DEF Stages, Stored, Notify
  <2>2. /\ Len(notified) \in Nat
        /\ DOMAIN notified = 1..Len(notified)
        /\ DOMAIN notified' = 1..Len(notified) + 1
        /\ \A k \in 1..Len(notified) : notified'[k] = notified[k]
        /\ notified'[Len(notified) + 1] = current
    BY <1>0, <2>1, AppendProperties, LenProperties
  <2>3. \A k \in DOMAIN notified : notified[k] # current
    BY <1>2 DEF Delivered, Notify
  <2>4. \A j, k \in DOMAIN notified : notified[j] = notified[k] => j = k
    BY DEF Delivered, NotifiedOnce, IsInjective
  <2>5. \A j, k \in DOMAIN notified' : notified'[j] = notified'[k] => j = k
    BY <2>2, <2>3, <2>4
  <2>6. \A k \in DOMAIN notified' : results'[notified'[k]] # NoResult
    BY <2>1, <2>2 DEF Delivered, NotifiedOnce, Stored
  <2> QED BY <2>1, <2>5, <2>6 DEF Delivered, NotifiedOnce, IsInjective
<1>3. CASE Submit \/ SubmitFails \/ NotifyRaises \/ Interrupt \/ Leave
           \/ FleetChecks \/ FleetRaises \/ FleetExits
  BY <1>0, <1>3, <1>a DEF CoordType, Submit, SubmitFails, NotifyRaises, Interrupt, Leave,
     FleetChecks, FleetRaises, FleetExits
<1>4. ASSUME NEW i \in Targets, CollectExits(i) PROVE Delivered'
  BY <1>4, <1>a DEF CollectExits
<1>5. ASSUME NEW w \in Workers, WorkerStep(w) PROVE Delivered'
  BY <1>5, <1>a DEF WorkerStep, TakeWork, TargetEnds
<1>6. CASE UNCHANGED vars
  BY <1>6, <1>a DEF vars
<1> QED BY <1>1, <1>2, <1>3, <1>4, <1>5, <1>6 DEF Next, CoordStep

\* The coordinator's invariant holds of every scan.
THEOREM CoordinatorInvariant == Spec => []CoordInv
<1>1. Init => CoordInv
  BY CoordInit
<1>2. CoordInv /\ [Next]_vars => CoordInv'
  BY CoordKeeps
<1> QED BY <1>1, <1>2, PTL DEF Spec

\* on_finish is called at most once per target and only for a stored result,
\* for any number of targets and any faults (scan()).
THEOREM OncePerTarget == Spec => []NotifiedOnce
<1>1. Init => Delivered
  BY DEF Init, Delivered, NotifiedOnce, IsInjective
<1>2. CoordInv /\ Delivered /\ [Next]_vars => Delivered'
  BY DeliveredKeeps
<1>3. Delivered => NotifiedOnce
  BY DEF Delivered
<1> QED BY <1>1, <1>2, <1>3, CoordinatorInvariant, PTL DEF Spec

\* From the end of the with block on, no worker scans and none will start.
Joined ==
    /\ threads \in 0..MaxWorkers
    /\ coord \in Endings \cup {"fleet"} =>
        /\ \A w \in Workers : worker[w] = NoTarget
        /\ threads > 0 => pending = <<>>

LEMMA JoinedKeeps ==
    ASSUME Joined, [Next]_vars
    PROVE  Joined'
<1> USE DEF Joined
<1>0. MaxWorkers \in Nat
  BY PoolAssumption DEF MaxWorkers
<1>1. CASE Submit
  BY <1>0, <1>1 DEF Submit, Endings
<1>2. CASE SubmitFails \/ Notify \/ NotifyRaises \/ Interrupt
  BY <1>2 DEF SubmitFails, Notify, NotifyRaises, Interrupt, Endings
<1>3. ASSUME NEW i \in Targets, Collect(i) \/ CollectExits(i) PROVE Joined'
  BY <1>3 DEF Collect, CollectExits, Endings
<1>4. CASE Leave
  BY <1>4 DEF Leave
<1>5. CASE FleetChecks \/ FleetRaises \/ FleetExits
  BY <1>5 DEF FleetChecks, FleetRaises, FleetExits
<1>6. ASSUME NEW w \in Workers, WorkerStep(w) PROVE Joined'
  <2>1. CASE TakeWork(w)
    <3>1. threads > 0 /\ pending # <<>>
      BY <1>0, <2>1 DEF TakeWork, Workers
    <3> QED BY <2>1, <3>1 DEF TakeWork
  <2>2. ASSUME NEW how, TargetEnds(w, how) PROVE Joined'
    BY <2>2 DEF TargetEnds
  <2> QED BY <1>6, <2>1, <2>2 DEF WorkerStep
<1>7. CASE UNCHANGED vars
  BY <1>7 DEF vars
<1> QED BY <1>1, <1>2, <1>3, <1>4, <1>5, <1>6, <1>7 DEF Next, CoordStep

\* On whichever path scan() ends, its threads have ended before (scan()).
THEOREM NoThreadLeft == Spec => []ThreadsJoined
<1>1. Init => Joined
  BY PoolAssumption DEF Init, Joined, MaxWorkers, Endings
<1>2. Joined /\ [Next]_vars => Joined'
  BY JoinedKeeps
<1>3. Joined => ThreadsJoined
  BY DEF Joined, ThreadsJoined
<1> QED BY <1>1, <1>2, <1>3, PTL DEF Spec

-----------------------------------------------------------------------------
(* scan() implements its contract                                          *)

LEMMA ContractInit ==
    ASSUME Init
    PROVE  Contract!Init
<1>1. Len(notified) = 0
  BY DEF Init
<1> QED BY <1>1 DEF Init, Contract!Init, Endings

LEMMA ContractStep ==
    ASSUME CoordInv, [Next]_vars
    PROVE  [Contract!Next]_(Contract!vars)
<1> DEFINE phase == IF coord \in Endings THEN coord ELSE "scanning"
           Stutter == UNCHANGED <<phase, Len(notified)>>
<1>0. CoordType /\ Stages /\ Counted
  BY DEF CoordInv
<1>a. Stutter => [Contract!Next]_(Contract!vars)
  BY DEF Contract!vars
<1>1. CASE Notify
  <2>1. /\ coord \notin Endings /\ coord' \notin Endings
        /\ Len(notified) < N /\ Len(notified') = Len(notified) + 1
    BY <1>1, NotifyDelivers DEF Notify, Endings
  <2>2. Contract!Deliver
    BY <2>1 DEF Contract!Deliver
  <2> QED BY <2>2 DEF Contract!Next
<1>2. CASE FleetChecks
  <2>1. coord = "fleet" /\ coord' = "returned" /\ notified' = notified
    BY <1>2 DEF FleetChecks
  <2>2. Stored = Targets /\ ending = "none" /\ current = NoTarget
    BY <1>0, <2>1 DEF Stages
  <2>3. Len(notified) = N
    BY <1>0, <2>2, StoredCounts DEF Counted
  <2>4. Contract!Return
    BY <2>1, <2>3 DEF Contract!Return, Endings
  <2> QED BY <2>4 DEF Contract!Next
<1>3. ASSUME NEW e \in {"raised", "exited"}, coord \notin Endings, coord' = e, notified' = notified
      PROVE  [Contract!Next]_(Contract!vars)
  <2>1. Contract!Fail(e)
    BY <1>3 DEF Contract!Fail, Endings
  <2>2. e \in Contract!Endings \ {"returned"}
    BY DEF Contract!Endings
  <2> QED BY <2>1, <2>2 DEF Contract!Next
<1>4. CASE FleetRaises \/ FleetExits
  BY <1>3, <1>4 DEF FleetRaises, FleetExits, Endings
<1>5. CASE Leave
  <2>1. coord = "leaving" /\ notified' = notified /\ coord' \in {"fleet", "raised", "exited"}
    BY <1>0, <1>5 DEF Leave, CoordType
  <2>2. CASE coord' = "fleet"
    BY <1>a, <2>1, <2>2 DEF Endings
  <2> QED BY <1>3, <2>1, <2>2 DEF Endings
<1>6. CASE Submit \/ SubmitFails \/ NotifyRaises \/ Interrupt
  BY <1>6, <1>a DEF Submit, SubmitFails, NotifyRaises, Interrupt, Endings
<1>7. ASSUME NEW i \in Targets, Collect(i) \/ CollectExits(i)
      PROVE  [Contract!Next]_(Contract!vars)
  BY <1>7, <1>a DEF Collect, CollectExits, Endings
<1>8. ASSUME NEW w \in Workers, WorkerStep(w)
      PROVE  [Contract!Next]_(Contract!vars)
  BY <1>8, <1>a DEF WorkerStep, TakeWork, TargetEnds
<1>9. CASE UNCHANGED vars
  BY <1>9, <1>a DEF vars
<1> QED BY <1>1, <1>2, <1>4, <1>5, <1>6, <1>7, <1>8, <1>9 DEF Next, CoordStep

\* Every scan keeps the safety half of its contract: a report is returned only
\* after on_finish has returned for every target, which is what Job.done and
\* the progress line stand on (scan()).
THEOREM KeepsContract == Spec => Contract!Safe
<1>1. Init => Contract!Init
  BY ContractInit
<1>2. CoordInv /\ [Next]_vars => [Contract!Next]_(Contract!vars)
  BY ContractStep
<1> QED BY <1>1, <1>2, CoordinatorInvariant, PTL DEF Spec, Contract!Safe

-----------------------------------------------------------------------------
(* What a report contains                                                  *)

Unstarted(i) == i < next /\ outcome[i] = "none"

\* A target is queued once, is then with one worker, and has its outcome once it
\* is with none: so what future.result() gave for it does not change any more.
WorkOnce ==
    /\ threads \in 0..MaxWorkers
    /\ futures \subseteq Targets
    /\ outcome \in [Targets -> {"none", "ok", "exception", "exit"}]
    /\ worker \in [Workers -> Targets \cup {NoTarget}]
    /\ pending \in Seq(Targets) /\ IsInjective(pending)
    /\ \A k \in DOMAIN pending : /\ Unstarted(pending[k])
                                 /\ \A w \in Workers : worker[w] # pending[k]
    /\ \A w \in Workers : worker[w] # NoTarget => Unstarted(worker[w])
    /\ \A v, w \in Workers : worker[v] # NoTarget /\ worker[v] = worker[w] => v = w
    /\ \A i \in Targets : outcome[i] # "none" => i < next

\* Every result in the list is the one of its target, and the report is the list.
ResultsOwn ==
    /\ \A i \in Stored : outcome[i] # "none" /\ results[i] = ResultOf(i)
    /\ coord = "returned" => report = [i \in Targets |-> ResultOf(i)]
    /\ report # <<>> => report = [i \in Targets |-> ResultOf(i)] /\ coord = "returned"

WorkInv == CoordInv /\ Joined /\ WorkOnce /\ ResultsOwn

\* Appending the next target, and taking the first of the queue, leave no target
\* in it twice (the executor's queue).
LEMMA QueuedOnce ==
    ASSUME NEW queue \in Seq(Targets), IsInjective(queue), NEW i \in Targets,
           \A k \in DOMAIN queue : queue[k] # i
    PROVE  /\ Append(queue, i) \in Seq(Targets)
           /\ IsInjective(Append(queue, i))
           /\ \A k \in DOMAIN Append(queue, i) :
                 \/ Append(queue, i)[k] = i
                 \/ \E m \in DOMAIN queue : Append(queue, i)[k] = queue[m]
<1> DEFINE longer == Append(queue, i)
<1>1. Len(queue) \in Nat /\ DOMAIN queue = 1..Len(queue)
  BY LenProperties
<1>2. /\ longer \in Seq(Targets) /\ Len(longer) = Len(queue) + 1
      /\ \A k \in 1..Len(queue) : longer[k] = queue[k]
      /\ longer[Len(queue) + 1] = i
  BY AppendProperties
<1> HIDE DEF longer
<1>3. DOMAIN longer = 1..Len(queue) + 1
  BY <1>2, LenProperties
<1>4. \A k \in DOMAIN longer : k \in DOMAIN queue \/ k = Len(queue) + 1
  BY <1>1, <1>3
<1>5. IsInjective(longer)
  BY <1>1, <1>2, <1>4 DEF IsInjective
<1>6. \A k \in DOMAIN longer : longer[k] = i \/ \E m \in DOMAIN queue : longer[k] = queue[m]
  BY <1>1, <1>2, <1>4
<1> QED BY <1>2, <1>5, <1>6 DEF longer

LEMMA DequeuedOnce ==
    ASSUME NEW queue \in Seq(Targets), IsInjective(queue), queue # <<>>
    PROVE  /\ Tail(queue) \in Seq(Targets)
           /\ IsInjective(Tail(queue))
           /\ \E h \in DOMAIN queue : Head(queue) = queue[h]
           /\ \A k \in DOMAIN Tail(queue) :
                 /\ Tail(queue)[k] # Head(queue)
                 /\ \E m \in DOMAIN queue : Tail(queue)[k] = queue[m]
<1> DEFINE rest == Tail(queue)
<1>1. /\ Len(queue) \in Nat /\ DOMAIN queue = 1..Len(queue) /\ Len(queue) > 0
      /\ Head(queue) = queue[1]
      /\ rest \in Seq(Targets) /\ Len(rest) = Len(queue) - 1
      /\ \A k \in 1..Len(rest) : rest[k] = queue[k + 1]
  BY LenProperties, EmptySeq, HeadTailProperties
<1> HIDE DEF rest
<1>2. DOMAIN rest = 1..Len(rest)
  BY <1>1, LenProperties
<1>3. 1 \in DOMAIN queue /\ \A k \in DOMAIN rest : k + 1 \in DOMAIN queue /\ k + 1 # 1
  BY <1>1, <1>2
<1>4. \A k, m \in DOMAIN rest : k + 1 = m + 1 => k = m
  BY <1>1, <1>2
<1>5. IsInjective(rest)
  BY <1>1, <1>2, <1>3, <1>4 DEF IsInjective
<1>6. \A k \in DOMAIN rest : rest[k] # Head(queue) /\ \E m \in DOMAIN queue : rest[k] = queue[m]
  BY <1>1, <1>2, <1>3 DEF IsInjective
<1> QED BY <1>1, <1>3, <1>5, <1>6 DEF rest

LEMMA WorkKeeps ==
    ASSUME CoordInv, Joined, WorkOnce, [Next]_vars
    PROVE  WorkOnce'
<1> USE PoolAssumption
<1>0. /\ next \in 1..N + 1 /\ pending \in Seq(Targets)
      /\ \A k \in DOMAIN pending : pending[k] \in Targets
      /\ MaxWorkers \in Nat /\ Targets \subseteq Nat
  BY ElementOfSeq, LenProperties DEF CoordInv, CoordType, WorkOnce, MaxWorkers, Targets
<1>a. ASSUME UNCHANGED <<next, futures, pending, threads, worker, outcome>>
      PROVE  WorkOnce'
  BY <1>a DEF WorkOnce, Unstarted
<1>b. ASSUME next <= N, next' = next + 1, pending' = Append(pending, next),
             UNCHANGED <<worker, outcome>>, futures' \subseteq futures \cup {next},
             threads' \in 0..MaxWorkers
      PROVE  WorkOnce'
  <2>1. next \in Targets /\ \A i \in Targets : Unstarted(i) => i # next
    BY <1>0, <1>b DEF Targets, Unstarted
  <2>2. \A k \in DOMAIN pending : pending[k] # next
    BY <1>0, <2>1 DEF WorkOnce
  <2>3. /\ pending' \in Seq(Targets) /\ IsInjective(pending')
        /\ \A k \in DOMAIN pending' :
              pending'[k] = next \/ \E m \in DOMAIN pending : pending'[k] = pending[m]
    BY <1>0, <1>b, <2>1, <2>2, QueuedOnce DEF WorkOnce
  <2>4. \A i \in Targets : i < next => i < next'
    BY <1>0, <1>b
  <2>5. outcome[next] = "none" /\ next < next' /\ \A w \in Workers : worker[w] # next
    BY <1>0, <1>b, <2>1 DEF WorkOnce, Unstarted, NoTarget
  <2>6. /\ outcome' \in [Targets -> {"none", "ok", "exception", "exit"}]
        /\ worker' \in [Workers -> Targets \cup {NoTarget}]
        /\ futures' \subseteq Targets /\ threads' \in 0..MaxWorkers
    BY <1>b, <2>1 DEF WorkOnce
  <2>7. \A k \in DOMAIN pending' : Unstarted(pending[k])' /\ \A w \in Workers : worker'[w] # pending'[k]
    <3> TAKE k \in DOMAIN pending'
    <3>1. CASE pending'[k] = next
      BY <1>b, <2>5, <3>1 DEF Unstarted
    <3>2. ASSUME NEW m \in DOMAIN pending, pending'[k] = pending[m]
          PROVE  Unstarted(pending[k])' /\ \A w \in Workers : worker'[w] # pending'[k]
      <4>1. /\ pending[m] < next /\ outcome[pending[m]] = "none" /\ pending[m] \in Targets
            /\ \A w \in Workers : worker[w] # pending[m]
        BY <1>0 DEF WorkOnce, Unstarted
      <4> HIDE DEF WorkOnce
      <4> QED BY <1>b, <2>4, <3>2, <4>1 DEF Unstarted
    <3> QED BY <2>3, <3>1, <3>2
  <2>8. \A w \in Workers : worker'[w] # NoTarget => Unstarted(worker[w])'
    BY <1>0, <1>b, <2>4 DEF WorkOnce, Unstarted
  <2>9. \A v, w \in Workers : worker'[v] # NoTarget /\ worker'[v] = worker'[w] => v = w
    BY <1>b DEF WorkOnce
  <2>10. \A i \in Targets : outcome'[i] # "none" => i < next'
    BY <1>b, <2>4 DEF WorkOnce
  <2> QED BY <2>3, <2>6, <2>7, <2>8, <2>9, <2>10 DEF WorkOnce
<1>1. CASE Submit
  <2>1. threads' \in 0..MaxWorkers
    BY <1>0, <1>1 DEF Submit, WorkOnce
  <2> QED BY <1>1, <1>b, <2>1 DEF Submit
<1>2. CASE SubmitFails
  BY <1>2, <1>b DEF SubmitFails, WorkOnce
<1>3. CASE \/ \E i \in Targets : Collect(i) \/ CollectExits(i)
           \/ Notify \/ NotifyRaises \/ Interrupt \/ Leave
           \/ FleetChecks \/ FleetRaises \/ FleetExits \/ UNCHANGED vars
  BY <1>3, <1>a DEF Collect, CollectExits, Notify, NotifyRaises, Interrupt, Leave, FleetChecks,
                    FleetRaises, FleetExits, vars
<1>4. ASSUME NEW w \in Workers, TakeWork(w) PROVE WorkOnce'
  <2>1. /\ worker[w] = NoTarget /\ pending # <<>>
        /\ worker' = [worker EXCEPT ![w] = Head(pending)] /\ pending' = Tail(pending)
        /\ UNCHANGED <<next, futures, threads, outcome>>
    BY <1>4 DEF TakeWork
  <2>2. /\ pending' \in Seq(Targets) /\ IsInjective(pending')
        /\ \E h \in DOMAIN pending : Head(pending) = pending[h]
        /\ \A k \in DOMAIN pending' : /\ pending'[k] # Head(pending)
                                      /\ \E m \in DOMAIN pending : pending'[k] = pending[m]
    BY <1>0, <2>1, DequeuedOnce DEF WorkOnce
  <2>3. /\ Head(pending) \in Targets /\ Unstarted(Head(pending))
        /\ \A v \in Workers : worker[v] # Head(pending)
    BY <1>0, <2>2 DEF WorkOnce
  <2>4. \A v \in Workers : worker'[v] = IF v = w THEN Head(pending) ELSE worker[v]
    BY <2>1 DEF WorkOnce
  <2>5. worker' \in [Workers -> Targets \cup {NoTarget}]
    BY <2>1, <2>3 DEF WorkOnce
  <2>6. \A i : Unstarted(i) => Unstarted(i)'
    BY <2>1 DEF Unstarted
  <2>7. \A k \in DOMAIN pending' : Unstarted(pending[k])' /\ \A v \in Workers : worker'[v] # pending'[k]
    BY <2>2, <2>4, <2>6 DEF WorkOnce
  <2>8. \A v \in Workers : worker'[v] # NoTarget => Unstarted(worker[v])'
    BY <2>3, <2>4, <2>6 DEF WorkOnce
  <2>9. \A u, v \in Workers : worker'[u] # NoTarget /\ worker'[u] = worker'[v] => u = v
    BY <2>3, <2>4 DEF WorkOnce
  <2> QED BY <2>1, <2>2, <2>5, <2>7, <2>8, <2>9 DEF WorkOnce
<1>5. ASSUME NEW w \in Workers, NEW how \in {"ok", "exception", "exit"}, TargetEnds(w, how)
      PROVE  WorkOnce'
  <2>1. /\ worker[w] # NoTarget /\ worker[w] \in Targets /\ Unstarted(worker[w])
        /\ outcome' = [outcome EXCEPT ![worker[w]] = how]
        /\ worker' = [worker EXCEPT ![w] = NoTarget]
        /\ UNCHANGED <<next, futures, pending, threads>>
    BY <1>5 DEF TargetEnds, WorkOnce
  <2>2. /\ outcome' \in [Targets -> {"none", "ok", "exception", "exit"}]
        /\ worker' \in [Workers -> Targets \cup {NoTarget}]
    BY <2>1 DEF WorkOnce
  <2>3. \A v \in Workers : worker'[v] = IF v = w THEN NoTarget ELSE worker[v]
    BY <2>1 DEF WorkOnce
  <2>4. \A i \in Targets : i # worker[w] /\ Unstarted(i) => Unstarted(i)'
    BY <2>1 DEF Unstarted, WorkOnce
  <2>5. NoTarget \notin Targets
    BY DEF NoTarget, Targets
  <2>6. \A k \in DOMAIN pending' : Unstarted(pending[k])' /\ \A v \in Workers : worker'[v] # pending'[k]
    BY <1>0, <2>1, <2>3, <2>4, <2>5 DEF WorkOnce
  <2>7. \A v \in Workers : worker'[v] # NoTarget => Unstarted(worker[v])'
    BY <2>1, <2>3, <2>4 DEF WorkOnce
  <2>8. \A u, v \in Workers : worker'[u] # NoTarget /\ worker'[u] = worker'[v] => u = v
    BY <2>3 DEF WorkOnce
  <2>9. \A i \in Targets : outcome'[i] # "none" => i < next'
    BY <2>1 DEF WorkOnce, Unstarted
  <2> QED BY <2>1, <2>2, <2>6, <2>7, <2>8, <2>9 DEF WorkOnce
<1> QED BY <1>1, <1>2, <1>3, <1>4, <1>5 DEF Next, CoordStep, WorkerStep

\* With every result there, the report is the list, in its order (the list of
\* results that are not None, at the end of scan()).
LEMMA AllStored ==
    ASSUME Stored = Targets
    PROVE  /\ Cardinality(Stored) = N
           /\ \A k \in Targets : StoredAt(k) = k
<1> USE PoolAssumption
<1>1. Cardinality(Stored) = N
  BY FS_Interval DEF Targets
<1>2. ASSUME NEW k \in Targets PROVE StoredAt(k) = k
  <2>1. ASSUME NEW i \in Stored
        PROVE  Cardinality({j \in Stored : j < i}) = i - 1
    <3>1. i \in Nat /\ i >= 1 /\ i <= N /\ {j \in Stored : j < i} = 1..i - 1
      BY DEF Targets
    <3>2. Cardinality(1..i - 1) = i - 1
      BY <3>1, FS_Interval
    <3> QED BY <3>1, <3>2
  <2>2. k \in Stored /\ Cardinality({j \in Stored : j < k}) = k - 1
    BY <2>1
  <2>3. \A i \in Stored : Cardinality({j \in Stored : j < i}) = k - 1 => i = k
    BY <2>1 DEF Targets
  <2> QED BY <2>2, <2>3 DEF StoredAt
<1> QED BY <1>1, <1>2

LEMMA ResultsKeep ==
    ASSUME WorkInv, [Next]_vars
    PROVE  ResultsOwn'
<1> USE PoolAssumption
<1>0. CoordType /\ Stages /\ Joined /\ WorkOnce /\ ResultsOwn
  BY DEF WorkInv, CoordInv
<1>a. ASSUME UNCHANGED <<results, outcome, report>>, coord' # "returned", coord # "returned"
      PROVE  ResultsOwn'
  <2>1. Stored' = Stored /\ \A i \in Targets : ResultOf(i)' = ResultOf(i)
    BY <1>a DEF Stored, ResultOf
  <2> QED BY <1>0, <1>a, <2>1 DEF ResultsOwn, Stored
<1>1. CASE Submit \/ SubmitFails \/ Notify \/ NotifyRaises \/ Interrupt \/ FleetRaises \/ FleetExits
           \/ \E i \in Targets : CollectExits(i)
  BY <1>1, <1>a DEF Submit, SubmitFails, Notify, NotifyRaises, Interrupt, FleetRaises, FleetExits,
                    CollectExits
<1>2. CASE Leave
  <2>1. coord = "leaving" /\ coord' \in {"fleet", "raised", "exited"}
    BY <1>0, <1>2 DEF Leave, CoordType
  <2> QED BY <1>2, <1>a, <2>1 DEF Leave
<1>3. ASSUME NEW i \in Targets, Collect(i) PROVE ResultsOwn'
  <2>1. Stored' = Stored \cup {i} /\ \A j \in Targets : ResultOf(j)' = ResultOf(j)
    BY <1>0, <1>3, StoreOne DEF Collect, ResultOf
  <2>2. results' = [results EXCEPT ![i] = ResultOf(i)] /\ UNCHANGED <<outcome, report>>
    BY <1>3 DEF Collect
  <2>3. outcome[i] # "none" /\ coord = "collecting" /\ coord' = "notifying"
    BY <1>3 DEF Collect, Complete
  <2>4. report = <<>>
    BY <1>0, <2>3 DEF ResultsOwn
  <2>5. \A j \in Stored' : outcome'[j] # "none" /\ results'[j] = ResultOf(j)'
    BY <1>0, <2>1, <2>2, <2>3 DEF ResultsOwn, CoordType, Stored
  <2> QED BY <2>2, <2>3, <2>4, <2>5 DEF ResultsOwn
<1>4. CASE FleetChecks
  <2>1. /\ report' = [k \in 1..Cardinality(Stored) |-> results[StoredAt(k)]]
        /\ coord = "fleet" /\ coord' = "returned" /\ UNCHANGED <<results, outcome, ending>>
    BY <1>4 DEF FleetChecks
  <2>2. Stored = Targets
    BY <1>0, <2>1 DEF Stages
  <2>3. report' = [k \in Targets |-> ResultOf(k)]
    <3>1. 1..Cardinality(Stored) = Targets /\ \A k \in Targets : results[StoredAt(k)] = ResultOf(k)
      BY <1>0, <2>2, AllStored DEF ResultsOwn, Targets
    <3> QED BY <2>1, <3>1
  <2>4. Stored' = Stored /\ \A j \in Targets : ResultOf(j)' = ResultOf(j)
    BY <2>1 DEF Stored, ResultOf
  <2> QED BY <1>0, <2>1, <2>3, <2>4 DEF ResultsOwn, Stored
<1>5. ASSUME NEW w \in Workers, TakeWork(w) PROVE ResultsOwn'
  <2>1. Stored' = Stored /\ \A i \in Targets : ResultOf(i)' = ResultOf(i)
    BY <1>5 DEF TakeWork, Stored, ResultOf
  <2> QED BY <1>0, <1>5, <2>1 DEF TakeWork, ResultsOwn, Stored
<1>6. ASSUME NEW w \in Workers, NEW how \in {"ok", "exception", "exit"}, TargetEnds(w, how)
      PROVE  ResultsOwn'
  <2>1. coord \notin Endings \cup {"fleet"}
    BY <1>0, <1>6 DEF Joined, TargetEnds
  <2>2. /\ UNCHANGED <<results, report, coord>>
        /\ outcome' = [outcome EXCEPT ![worker[w]] = how]
        /\ outcome[worker[w]] = "none"
    BY <1>0, <1>6 DEF TargetEnds, WorkOnce, Unstarted
  <2>3. Stored' = Stored /\ \A i \in Stored : i # worker[w]
    BY <1>0, <2>2 DEF Stored, ResultsOwn
  <2>4. \A i \in Stored : outcome'[i] = outcome[i] /\ ResultOf(i)' = ResultOf(i)
    BY <1>0, <2>2, <2>3 DEF ResultOf, WorkOnce, Stored
  <2>5. report = <<>>
    BY <1>0, <2>1 DEF ResultsOwn, Endings
  <2> QED BY <1>0, <2>1, <2>2, <2>3, <2>4, <2>5 DEF ResultsOwn, Endings
<1>7. CASE UNCHANGED vars
  <2>1. Stored' = Stored /\ \A i \in Targets : ResultOf(i)' = ResultOf(i)
    BY <1>7 DEF vars, Stored, ResultOf
  <2> QED BY <1>0, <1>7, <2>1 DEF vars, ResultsOwn, Stored
<1> QED BY <1>1, <1>2, <1>3, <1>4, <1>5, <1>6, <1>7 DEF Next, CoordStep, WorkerStep

\* A report that is returned has one result per target, in the order of the
\* inventory and made from that target's own scan, in whatever order the workers
\* finished and however many of them raised (results[index] in scan()).
THEOREM ReportIsComplete == Spec => []ReportComplete
<1>1. Init => WorkInv
  <2> SUFFICES ASSUME Init PROVE WorkInv
    OBVIOUS
  <2>1. Joined
    BY PoolAssumption DEF Init, Joined, MaxWorkers, Endings
  <2>2. WorkOnce
    BY <2>1 DEF Init, WorkOnce, Joined, IsInjective
  <2>3. ResultsOwn
    BY DEF Init, ResultsOwn, Stored
  <2> QED BY <2>1, <2>2, <2>3, CoordInit DEF WorkInv
<1>2. WorkInv /\ [Next]_vars => WorkInv'
  BY CoordKeeps, JoinedKeeps, WorkKeeps, ResultsKeep DEF WorkInv
<1>3. WorkInv => ReportComplete
  BY DEF WorkInv, ResultsOwn, ReportComplete
<1> QED BY <1>1, <1>2, <1>3, PTL DEF Spec
=============================================================================
