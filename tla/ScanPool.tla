------------------------------ MODULE ScanPool ------------------------------
(***************************************************************************)
(* scan() of ssh_crypto_checker/scanner.py: one coordinator, the caller's  *)
(* thread, and a ThreadPoolExecutor of at most min(concurrency, targets)   *)
(* workers that each run scan_target. The coordinator submits the targets  *)
(* in order, collects the futures in whatever order they complete, stores  *)
(* each result under the index of its target, calls on_finish, waits for   *)
(* the executor to shut down (the end of the with block, on every path),   *)
(* runs the fleet checks and returns the report.                           *)
(*                                                                         *)
(* The executor is the standard library's: its queue is first in first     *)
(* out, a worker starts on a submit that finds none idle, a future keeps   *)
(* whatever its call raised, BaseException included, and shutdown waits    *)
(* until the started workers have emptied the queue.                       *)
(***************************************************************************)
EXTENDS Integers, Sequences, FiniteSets, SequencesExt

CONSTANTS
    N,            \* len(targets)
    Concurrency,  \* ScanOptions.concurrency
    Faults        \* what may go wrong in some scan, see AllFaults

\* "exception": scan_target raises an Exception; "exit": it raises something
\* else, a plugin's sys.exit(); "callback": on_finish raises; "thread": a worker
\* thread cannot be started; "plugin": what a fleet plugin returned raises when
\* it is turned into findings; "interrupt": the caller's thread is interrupted.
AllFaults == {"exception", "exit", "callback", "thread", "plugin", "interrupt"}

ASSUME PoolAssumption ==
    /\ N \in Nat \ {0}
    /\ Concurrency \in Nat \ {0}
    /\ Faults \subseteq AllFaults

Targets == 1..N

\* workers = min(options.concurrency, len(targets))
MaxWorkers == IF Concurrency < N THEN Concurrency ELSE N
Workers == 1..MaxWorkers

NoTarget == 0
NoResult == [target |-> NoTarget, by |-> "nobody"]

VARIABLES
    faults,    \* what may go wrong in this scan
    coord,     \* where the coordinator is
    next,      \* the index of the next target to submit
    futures,   \* the targets whose future is in the dictionary
    pending,   \* the executor's queue
    threads,   \* how many of Workers have been started
    worker,    \* the target each worker is scanning
    outcome,   \* how scan_target ended for each target
    results,   \* the list results, indexed by target
    current,   \* the target whose result is about to be given to on_finish
    notified,  \* the targets on_finish was called for, in order
    ending,    \* how the with block was left
    report     \* report.results

vars == <<faults, coord, next, futures, pending, threads, worker, outcome, results,
          current, notified, ending, report>>

Endings == {"returned", "raised", "exited"}

\* results[i] is what scan_target returned for i, or the ERROR result the
\* coordinator makes of an exception.
ResultOf(i) ==
    [target |-> i,
     by |-> IF outcome[i] = "ok" THEN "scan_target" ELSE "internal error"]

TypeOK ==
    /\ faults \subseteq Faults
    /\ coord \in {"submitting", "collecting", "notifying", "leaving", "fleet"} \cup Endings
    /\ next \in 1..N + 1
    /\ futures \subseteq Targets
    /\ pending \in Seq(Targets)
    /\ threads \in 0..MaxWorkers
    /\ worker \in [Workers -> Targets \cup {NoTarget}]
    /\ outcome \in [Targets -> {"none", "ok", "exception", "exit"}]
    /\ results \in [Targets -> {NoResult} \cup
                       [target : Targets, by : {"scan_target", "internal error"}]]
    /\ current \in Targets \cup {NoTarget}
    /\ notified \in Seq(Targets)
    /\ ending \in {"none", "raised", "exited"}
    /\ report \in Seq([target : Targets, by : {"scan_target", "internal error"}])

Init ==
    /\ faults \in SUBSET Faults
    /\ coord = "submitting"
    /\ next = 1
    /\ futures = {}
    /\ pending = <<>>
    /\ threads = 0
    /\ worker = [w \in Workers |-> NoTarget]
    /\ outcome = [i \in Targets |-> "none"]
    /\ results = [i \in Targets |-> NoResult]
    /\ current = NoTarget
    /\ notified = <<>>
    /\ ending = "none"
    /\ report = <<>>

-----------------------------------------------------------------------------
(* The coordinator                                                         *)

\* executor.submit: the target is queued, and a worker is started unless one
\* is idle or all of them exist.
Submit ==
    /\ coord = "submitting"
    /\ next <= N
    /\ pending' = Append(pending, next)
    /\ futures' = futures \cup {next}
    /\ \/ /\ threads < MaxWorkers
          /\ threads' = threads + 1
       \/ /\ \/ threads = MaxWorkers
             \/ \E w \in 1..threads : worker[w] = NoTarget
          /\ UNCHANGED threads
    /\ next' = next + 1
    /\ coord' = IF next = N THEN "collecting" ELSE "submitting"
    /\ UNCHANGED <<worker, outcome, results, current, notified, ending, report>>

\* The worker's thread cannot be started: submit raises with the target queued
\* and no future for it, and the with block is left.
SubmitFails ==
    /\ "thread" \in faults
    /\ coord = "submitting"
    /\ next <= N
    /\ threads < MaxWorkers
    /\ pending' = Append(pending, next)
    /\ next' = next + 1
    /\ coord' = "leaving"
    /\ ending' = "raised"
    /\ UNCHANGED <<futures, threads, worker, outcome, results, current,
                   notified, report>>

Complete == {i \in futures : outcome[i] # "none"}

\* Mutant: the completed futures are asked for again each time round, and one
\* that was collected before may be served again.
CollectAgain(i) ==
    /\ coord = "collecting"
    /\ i \in Complete
    /\ outcome[i] # "exit"
    /\ results' = [results EXCEPT ![i] = ResultOf(i)]
    /\ current' = i
    /\ coord' = "notifying"
    /\ UNCHANGED <<next, futures, pending, threads, worker, outcome, notified,
                   ending, report>>

\* as_completed yields a future and future.result() returns, or raises an
\* Exception, which becomes a result too.
Collect(i) ==
    /\ coord = "collecting"
    /\ i \in Complete
    /\ results[i] = NoResult
    /\ outcome[i] # "exit"
    /\ results' = [results EXCEPT ![i] = ResultOf(i)]
    /\ current' = i
    /\ coord' = "notifying"
    /\ UNCHANGED <<next, futures, pending, threads, worker, outcome, notified,
                   ending, report>>

\* future.result() raises something the except clause does not catch.
CollectExits(i) ==
    /\ coord = "collecting"
    /\ i \in Complete
    /\ outcome[i] = "exit"
    /\ coord' = "leaving"
    /\ ending' = "exited"
    /\ UNCHANGED <<next, futures, pending, threads, worker, outcome, results,
                   current, notified, report>>

\* Mutant: the loop ends with the last but one target.
NotifyStopsEarly ==
    /\ coord = "notifying"
    /\ notified' = Append(notified, current)
    /\ current' = NoTarget
    /\ coord' = IF Len(notified') + 1 >= N THEN "leaving" ELSE "collecting"
    /\ UNCHANGED <<next, futures, pending, threads, worker, outcome, results,
                   ending, report>>

\* on_finish(result), and back to the head of the as_completed loop, which
\* ends when every future has been yielded.
Notify ==
    /\ coord = "notifying"
    /\ notified' = Append(notified, current)
    /\ current' = NoTarget
    /\ coord' = IF \A i \in Targets : results[i] # NoResult
                THEN "leaving" ELSE "collecting"
    /\ UNCHANGED <<next, futures, pending, threads, worker, outcome, results,
                   ending, report>>

\* on_finish raises: the progress line could not be written.
NotifyRaises ==
    /\ "callback" \in faults
    /\ coord = "notifying"
    /\ current' = NoTarget
    /\ coord' = "leaving"
    /\ ending' = "raised"
    /\ UNCHANGED <<next, futures, pending, threads, worker, outcome, results,
                   notified, report>>

\* A KeyboardInterrupt of the main thread, at any point of the body of the with
\* block; a second one, while the executor is joined, is left out.
Interrupt ==
    /\ "interrupt" \in faults
    /\ coord \in {"submitting", "collecting", "notifying"}
    /\ coord' = "leaving"
    /\ ending' = "exited"
    /\ current' = NoTarget
    /\ UNCHANGED <<next, futures, pending, threads, worker, outcome, results,
                   notified, report>>

\* Mutant: the executor is not joined before scan() goes on.
LeaveWithoutJoin ==
    /\ coord = "leaving"
    /\ coord' = IF ending = "none" THEN "fleet" ELSE ending
    /\ UNCHANGED <<next, futures, pending, threads, worker, outcome, results,
                   current, notified, ending, report>>

\* The end of the with block: shutdown(wait=True) joins every started worker,
\* and those leave only when the queue is empty.
Leave ==
    /\ coord = "leaving"
    /\ threads > 0 => pending = <<>>
    /\ \A w \in Workers : worker[w] = NoTarget
    /\ coord' = IF ending = "none" THEN "fleet" ELSE ending
    /\ UNCHANGED <<next, futures, pending, threads, worker, outcome, results,
                   current, notified, ending, report>>

\* [result for result in results if result is not None], in the order of the
\* list: the result with this many stored before it.
Stored == {i \in Targets : results[i] # NoResult}
StoredAt(k) == CHOOSE i \in Stored : Cardinality({j \in Stored : j < i}) = k - 1

\* _run_fleet_checks with a run_fleet that returns (an Exception of a plugin's
\* check() is a finding), then the summary.
FleetChecks ==
    /\ coord = "fleet"
    /\ report' = [k \in 1..Cardinality(Stored) |-> results[StoredAt(k)]]
    /\ coord' = "returned"
    /\ UNCHANGED <<next, futures, pending, threads, worker, outcome, results,
                   current, notified, ending>>

\* What run_fleet does with the outcomes of a plugin is outside its try.
FleetRaises ==
    /\ "plugin" \in faults
    /\ coord = "fleet"
    /\ coord' = "raised"
    /\ UNCHANGED <<next, futures, pending, threads, worker, outcome, results,
                   current, notified, ending, report>>

FleetExits ==
    /\ "exit" \in faults
    /\ coord = "fleet"
    /\ coord' = "exited"
    /\ UNCHANGED <<next, futures, pending, threads, worker, outcome, results,
                   current, notified, ending, report>>

-----------------------------------------------------------------------------
(* The workers                                                             *)

TakeWork(w) ==
    /\ w <= threads
    /\ worker[w] = NoTarget
    /\ pending # <<>>
    /\ worker' = [worker EXCEPT ![w] = Head(pending)]
    /\ pending' = Tail(pending)
    /\ UNCHANGED <<coord, next, futures, threads, outcome, results, current,
                   notified, ending, report>>

\* Mutant: a worker reports an exception as if the interpreter were to exit.
EndsAsExit(w, how) ==
    /\ worker[w] # NoTarget
    /\ outcome' = [outcome EXCEPT ![worker[w]] = IF how = "ok" THEN "ok" ELSE "exit"]
    /\ worker' = [worker EXCEPT ![w] = NoTarget]
    /\ UNCHANGED <<coord, next, futures, pending, threads, results, current,
                   notified, ending, report>>

\* scan_target returns ("ok": a result, of a reachable server or not) or raises.
TargetEnds(w, how) ==
    /\ worker[w] # NoTarget
    /\ outcome' = [outcome EXCEPT ![worker[w]] = how]
    /\ worker' = [worker EXCEPT ![w] = NoTarget]
    /\ UNCHANGED <<coord, next, futures, pending, threads, results, current,
                   notified, ending, report>>

-----------------------------------------------------------------------------
CoordStep ==
    /\ UNCHANGED faults
    /\ \/ Submit \/ SubmitFails
       \/ \E i \in Targets : Collect(i) \/ CollectExits(i)
       \/ Notify \/ NotifyRaises
       \/ Interrupt
       \/ Leave
       \/ FleetChecks \/ FleetRaises \/ FleetExits

WorkerStep(w) ==
    /\ UNCHANGED faults
    /\ \/ TakeWork(w)
       \/ \E how \in {"ok"} \cup (faults \cap {"exception", "exit"}) : TargetEnds(w, how)

Next == CoordStep \/ \E w \in Workers : WorkerStep(w)

\* Threads of the process, and a scan_target whose every wait has a timeout.
Spec ==
    /\ Init
    /\ [][Next]_vars
    /\ WF_vars(CoordStep)
    /\ \A w \in Workers : WF_vars(WorkerStep(w))

-----------------------------------------------------------------------------
(* What scan() promises                                                    *)

\* A report that is returned has one result per target, in the order of the
\* inventory and made from that target's own scan, whatever order the workers
\* finished in and however many of them raised (results[index], scan()).
ReportComplete ==
    coord = "returned" => report = [i \in Targets |-> ResultOf(i)]

\* on_finish is called once per target, and only for a result that is stored:
\* the progress a client sees never runs ahead of the report (scan()).
NotifiedOnce ==
    /\ IsInjective(notified)
    /\ \A k \in DOMAIN notified : results[notified[k]] # NoResult

\* When scan() ends, on whichever path, none of its threads is still talking
\* to a server or will start to: what the slot of a web job stands for (scan()).
ThreadsJoined ==
    coord \in Endings =>
        /\ \A w \in Workers : worker[w] = NoTarget
        /\ threads > 0 => pending = <<>>

\* scan() implements its contract: see ScanContract.
Contract ==
    INSTANCE ScanContract WITH
        Total <- N,
        phase <- IF coord \in Endings THEN coord ELSE "scanning",
        delivered <- Len(notified)

Promise == Contract!Spec

\* Whatever Exceptions scan_target raises, on however many targets, scan() comes
\* to its report: a defect costs the target it happened on and nothing else (the
\* except clause of scan()).
EveryScanReturns ==
    faults \subseteq {"exception"} => <>(coord = "returned")
=============================================================================
