------------------------------ MODULE ScanJobs ------------------------------
(***************************************************************************)
(* The job table of the web front end (ssh_crypto_checker/web/server.py):  *)
(* class Job, class _State, _start_scan with its runner thread, and the    *)
(* two GET routes that read a job while the runner is still writing it.    *)
(*                                                                         *)
(* Three kinds of threads run at once:                                     *)
(*   - one handler thread per POST /api/scan, post[j], which checks the    *)
(*     request, claims a scan slot, files the job and starts the runner;   *)
(*   - one runner thread per started job, runner[j], which runs scan();    *)
(*   - one handler thread per GET, get[c], which holds a reference to the  *)
(*     job it looked up, so an eviction does not take the job from it.     *)
(* Every step is one critical section of _State.lock or Job._lock, or one  *)
(* read or write of an attribute no lock protects.                         *)
(***************************************************************************)
EXTENDS Integers, Sequences, FiniteSets, SequencesExt

CONSTANTS
    Jobs,         \* the POST requests; the job one of them creates has its name
    Clients,      \* the threads that serve GET /api/scan/<id>[/report]
    MaxRunning,   \* MAX_RUNNING_JOBS
    MaxJobs,      \* MAX_JOBS
    Total,        \* Job.total: the number of targets of a request
    ScanOutcomes, \* how scan() may end: "report", "exception", "exit"
    NoJob         \* the job of a GET that looked nothing up

ASSUME JobsAssumption ==
    /\ IsFiniteSet(Jobs)
    /\ MaxRunning \in Nat \ {0}
    /\ MaxJobs \in Nat \ {0}
    /\ Total \in Nat \ {0}
    /\ ScanOutcomes \subseteq {"report", "exception", "exit"}
    /\ NoJob \notin Jobs

VARIABLES
    running,  \* _State.running: scan slots in use
    jobs,     \* _State.jobs: the keys of the OrderedDict, oldest first
    post,     \* where the handler of each POST is
    runner,   \* where the runner thread of each job is
    status,   \* Job.status
    done,     \* Job.done
    report,   \* whether Job.report is set
    error,    \* whether Job.error holds the text of the failure
    get,      \* where each GET handler is
    target,   \* the job each GET handler holds a reference to
    seen,     \* the last answer each client received
    finished  \* finished[c]: the jobs client c was told are done

vars == <<running, jobs, post, runner, status, done, report, error,
          get, target, seen, finished>>

jobVars == <<status, done, report, error>>
getVars == <<get, target, seen, finished>>

PostSteps == {"new", "checked", "reserved", "added", "started", "unwinding",
              "removing", "accepted", "refused", "busy"}
RunnerSteps == {"none", "scanning", "reported", "raised", "failed",
                "finishing", "ended"}
GetSteps == {"idle", "reading", "error?", "summary?", "checking", "rendering"}

\* What a GET answers: an HTTP code and, for a status, its payload.
Answer(code, summary) ==
    [code |-> code, status |-> "none", done |-> 0, error |-> "none",
     summary |-> summary]
NoAnswer == Answer(0, FALSE)
Answers == [code : {0, 200, 404, 409}, status : {"none", "running", "done", "error"},
            done : 0..Total, error : {"none", "empty", "text"}, summary : BOOLEAN]

TypeOK ==
    /\ running \in 0..MaxRunning
    /\ jobs \in Seq(Jobs)
    /\ post \in [Jobs -> PostSteps]
    /\ runner \in [Jobs -> RunnerSteps]
    /\ status \in [Jobs -> {"running", "done", "error"}]
    /\ done \in [Jobs -> 0..Total]
    /\ report \in [Jobs -> BOOLEAN]
    /\ error \in [Jobs -> BOOLEAN]
    /\ get \in [Clients -> GetSteps]
    /\ target \in [Clients -> Jobs \cup {NoJob}]
    /\ seen \in [Clients -> Answers]
    /\ finished \in [Clients -> SUBSET Jobs]

Init ==
    /\ running = 0
    /\ jobs = <<>>
    /\ post = [j \in Jobs |-> "new"]
    /\ runner = [j \in Jobs |-> "none"]
    /\ status = [j \in Jobs |-> "running"]
    /\ done = [j \in Jobs |-> 0]
    /\ report = [j \in Jobs |-> FALSE]
    /\ error = [j \in Jobs |-> FALSE]
    /\ get = [c \in Clients |-> "idle"]
    /\ target = [c \in Clients |-> NoJob]
    /\ seen = [c \in Clients |-> NoAnswer]
    /\ finished = [c \in Clients |-> {}]

-----------------------------------------------------------------------------
(* POST /api/scan: do_POST and _start_scan                                 *)

\* do_POST, _parse_request and _start_scan up to ScanOptions: a bad request
\* is answered 400, 401 or 413 here, before it has touched any shared state.
CheckRequest(j) ==
    /\ post[j] = "new"
    /\ post' = [post EXCEPT ![j] = "checked"]
    /\ UNCHANGED <<running, jobs, runner, jobVars, getVars>>

RefuseRequest(j) ==
    /\ post[j] = "new"
    /\ post' = [post EXCEPT ![j] = "refused"]
    /\ UNCHANGED <<running, jobs, runner, jobVars, getVars>>

\* Mutant: the ceiling compared with > instead of >=.
ReserveOneTooMany(j) ==
    /\ post[j] = "checked"
    /\ running <= MaxRunning
    /\ running' = running + 1
    /\ post' = [post EXCEPT ![j] = "reserved"]
    /\ UNCHANGED <<jobs, runner, jobVars, getVars>>

\* _State.reserve: the comparison and the increment are one critical section.
Reserve(j) ==
    /\ post[j] = "checked"
    /\ running < MaxRunning
    /\ running' = running + 1
    /\ post' = [post EXCEPT ![j] = "reserved"]
    /\ UNCHANGED <<jobs, runner, jobVars, getVars>>

\* _State.reserve refuses: TooBusyError becomes a 503.
ReserveRefused(j) ==
    /\ post[j] = "checked"
    /\ running >= MaxRunning
    /\ post' = [post EXCEPT ![j] = "busy"]
    /\ UNCHANGED <<running, jobs, runner, jobVars, getVars>>

\* The OrderedDict after popitem(last=False) as long as it is over the limit.
Evict(table) ==
    IF Len(table) > MaxJobs
    THEN SubSeq(table, Len(table) - MaxJobs + 1, Len(table))
    ELSE table

\* _State.add: the new job goes in last, the oldest entries go out.
Add(j) ==
    /\ post[j] = "reserved"
    /\ jobs' = Evict(Append(jobs, j))
    /\ post' = [post EXCEPT ![j] = "added"]
    /\ UNCHANGED <<running, runner, jobVars, getVars>>

\* threading.Thread(target=_run).start() succeeds.
StartRunner(j) ==
    /\ post[j] = "added"
    /\ post' = [post EXCEPT ![j] = "started"]
    /\ runner' = [runner EXCEPT ![j] = "scanning"]
    /\ UNCHANGED <<running, jobs, jobVars, getVars>>

\* start() raises for want of threads or memory: the except clause is entered.
StartFails(j) ==
    /\ post[j] = "added"
    /\ post' = [post EXCEPT ![j] = "unwinding"]
    /\ UNCHANGED <<running, jobs, runner, jobVars, getVars>>

\* Mutant: the except clause forgets the slot it had claimed.
UnwindWithoutRelease(j) ==
    /\ post[j] = "unwinding"
    /\ post' = [post EXCEPT ![j] = "removing"]
    /\ UNCHANGED <<running, jobs, runner, jobVars, getVars>>

\* _State.release in the except clause of _start_scan.
UnwindRelease(j) ==
    /\ post[j] = "unwinding"
    /\ running' = IF running > 0 THEN running - 1 ELSE 0
    /\ post' = [post EXCEPT ![j] = "removing"]
    /\ UNCHANGED <<jobs, runner, jobVars, getVars>>

\* Mutant: the except clause leaves the job in the table.
UnwindWithoutRemove(j) ==
    /\ post[j] = "removing"
    /\ post' = [post EXCEPT ![j] = "busy"]
    /\ UNCHANGED <<running, jobs, runner, jobVars, getVars>>

\* _State.remove (the job may be evicted already), then the 503.
UnwindRemove(j) ==
    /\ post[j] = "removing"
    /\ \/ \E i \in DOMAIN jobs : jobs[i] = j /\ jobs' = RemoveAt(jobs, i)
       \/ ~Contains(jobs, j) /\ UNCHANGED jobs
    /\ post' = [post EXCEPT ![j] = "busy"]
    /\ UNCHANGED <<running, runner, jobVars, getVars>>

\* The 202 with the id: from here on a client can ask for the job.
Accept(j) ==
    /\ post[j] = "started"
    /\ post' = [post EXCEPT ![j] = "accepted"]
    /\ UNCHANGED <<running, jobs, runner, jobVars, getVars>>

-----------------------------------------------------------------------------
(* The runner thread: _run inside _start_scan                              *)

\* on_finish=_tick: Job.tick under Job._lock, from inside scan().
Tick(j) ==
    /\ runner[j] = "scanning"
    /\ done[j] < Total
    /\ done' = [done EXCEPT ![j] = @ + 1]
    /\ UNCHANGED <<running, jobs, post, runner, status, report, error, getVars>>

\* Mutant: the status is written before the report it announces.
AnnounceBeforeReport(j) ==
    /\ "report" \in ScanOutcomes
    /\ runner[j] = "scanning"
    /\ done[j] = Total
    /\ status' = [status EXCEPT ![j] = "done"]
    /\ runner' = [runner EXCEPT ![j] = "reported"]
    /\ UNCHANGED <<running, jobs, post, done, report, error, getVars>>

\* job.report = scan(...): scan() has called on_finish for every target.
ScanReturns(j) ==
    /\ "report" \in ScanOutcomes
    /\ runner[j] = "scanning"
    /\ done[j] = Total
    /\ report' = [report EXCEPT ![j] = TRUE]
    /\ runner' = [runner EXCEPT ![j] = "reported"]
    /\ UNCHANGED <<running, jobs, post, status, done, error, getVars>>

\* job.status = "done".
MarkDone(j) ==
    /\ runner[j] = "reported"
    /\ status' = [status EXCEPT ![j] = "done"]
    /\ runner' = [runner EXCEPT ![j] = "finishing"]
    /\ UNCHANGED <<running, jobs, post, done, report, error, getVars>>

\* scan() raises an Exception, with any number of targets finished.
ScanRaises(j) ==
    /\ "exception" \in ScanOutcomes
    /\ runner[j] = "scanning"
    /\ runner' = [runner EXCEPT ![j] = "raised"]
    /\ UNCHANGED <<running, jobs, post, jobVars, getVars>>

\* Mutant: the except clause keeps the text and leaves the status alone.
KeepStatus(j) ==
    /\ runner[j] = "raised"
    /\ runner' = [runner EXCEPT ![j] = "failed"]
    /\ UNCHANGED <<running, jobs, post, jobVars, getVars>>

\* job.status = "error", and only then the text.
MarkError(j) ==
    /\ runner[j] = "raised"
    /\ status' = [status EXCEPT ![j] = "error"]
    /\ runner' = [runner EXCEPT ![j] = "failed"]
    /\ UNCHANGED <<running, jobs, post, done, report, error, getVars>>

RecordError(j) ==
    /\ runner[j] = "failed"
    /\ error' = [error EXCEPT ![j] = TRUE]
    /\ runner' = [runner EXCEPT ![j] = "finishing"]
    /\ UNCHANGED <<running, jobs, post, status, done, report, getVars>>

\* scan() raises something that is not an Exception (a SystemExit): only the
\* finally clause runs.
ScanExits(j) ==
    /\ "exit" \in ScanOutcomes
    /\ runner[j] = "scanning"
    /\ runner' = [runner EXCEPT ![j] = "finishing"]
    /\ UNCHANGED <<running, jobs, post, jobVars, getVars>>

\* _State.release in the finally clause of _run.
RunnerRelease(j) ==
    /\ runner[j] = "finishing"
    /\ running' = IF running > 0 THEN running - 1 ELSE 0
    /\ runner' = [runner EXCEPT ![j] = "ended"]
    /\ UNCHANGED <<jobs, post, jobVars, getVars>>

-----------------------------------------------------------------------------
(* GET /api/scan/<id> and GET /api/scan/<id>/report: do_GET                *)

Reply(c, answer) ==
    /\ get' = [get EXCEPT ![c] = "idle"]
    /\ seen' = [seen EXCEPT ![c] = answer]

\* The client knows an id once its POST was answered 202.
KnownIds == {j \in Jobs : post[j] = "accepted"}

\* state.get returns None: 404, whichever of the two routes asked.
LookupMisses(c, j) ==
    /\ get[c] = "idle"
    /\ j \in KnownIds
    /\ ~Contains(jobs, j)
    /\ target' = [target EXCEPT ![c] = j]
    /\ Reply(c, Answer(404, FALSE))
    /\ UNCHANGED <<running, jobs, post, runner, jobVars, finished>>

\* state.get returns the job: step is "reading" for the status route and
\* "checking" for the report route.
LookupHits(c, j, step) ==
    /\ get[c] = "idle"
    /\ j \in KnownIds
    /\ Contains(jobs, j)
    /\ target' = [target EXCEPT ![c] = j]
    /\ get' = [get EXCEPT ![c] = step]
    /\ UNCHANGED <<running, jobs, post, runner, jobVars, seen, finished>>

\* Job.as_status holds no lock. It reads status and done ...
ReadStatus(c) ==
    /\ get[c] = "reading"
    /\ get' = [get EXCEPT ![c] = "error?"]
    /\ seen' = [seen EXCEPT ![c] =
                   [Answer(200, FALSE) EXCEPT !.status = status[target[c]],
                                              !.done = done[target[c]]]]
    /\ UNCHANGED <<running, jobs, post, runner, jobVars, target, finished>>

\* ... reads status again to decide whether there is an error to add ...
ReadError(c) ==
    /\ get[c] = "error?"
    /\ get' = [get EXCEPT ![c] = "summary?"]
    /\ seen' = [seen EXCEPT ![c].error =
                   IF status[target[c]] # "error" THEN "none"
                   ELSE IF error[target[c]] THEN "text" ELSE "empty"]
    /\ UNCHANGED <<running, jobs, post, runner, jobVars, target, finished>>

\* ... and adds the summary when there is a report by now.
ReadSummary(c) ==
    /\ get[c] = "summary?"
    /\ get' = [get EXCEPT ![c] = "idle"]
    /\ seen' = [seen EXCEPT ![c].summary = report[target[c]]]
    /\ finished' = IF seen[c].status = "done"
                   THEN [finished EXCEPT ![c] = @ \cup {target[c]}]
                   ELSE finished
    /\ UNCHANGED <<running, jobs, post, runner, jobVars, target>>

\* The report route: 409 as long as there is no report ...
ReportMissing(c) ==
    /\ get[c] = "checking"
    /\ ~report[target[c]]
    /\ Reply(c, Answer(409, FALSE))
    /\ UNCHANGED <<running, jobs, post, runner, jobVars, target, finished>>

\* ... and _render_job, which answers with the report, otherwise.
ReportReady(c) ==
    /\ get[c] = "checking"
    /\ report[target[c]]
    /\ get' = [get EXCEPT ![c] = "rendering"]
    /\ UNCHANGED <<running, jobs, post, runner, jobVars, target, seen, finished>>

Render(c) ==
    /\ get[c] = "rendering"
    /\ Reply(c, Answer(200, TRUE))
    /\ UNCHANGED <<running, jobs, post, runner, jobVars, target, finished>>

-----------------------------------------------------------------------------
PostStep(j) ==
    \/ CheckRequest(j) \/ RefuseRequest(j)
    \/ Reserve(j) \/ ReserveRefused(j)
    \/ Add(j)
    \/ StartRunner(j) \/ StartFails(j)
    \/ UnwindRelease(j) \/ UnwindRemove(j)
    \/ Accept(j)

RunnerStep(j) ==
    \/ Tick(j)
    \/ ScanReturns(j) \/ MarkDone(j)
    \/ ScanRaises(j) \/ MarkError(j) \/ RecordError(j)
    \/ ScanExits(j)
    \/ RunnerRelease(j)

GetStep(c) ==
    \/ \E j \in Jobs :
        \/ LookupMisses(c, j)
        \/ LookupHits(c, j, "reading")
        \/ LookupHits(c, j, "checking")
    \/ ReadStatus(c) \/ ReadError(c) \/ ReadSummary(c)
    \/ ReportMissing(c) \/ ReportReady(c) \/ Render(c)

Next ==
    \/ \E j \in Jobs : PostStep(j) \/ RunnerStep(j)
    \/ \E c \in Clients : GetStep(c)

\* A handler that has begun to serve a POST and a runner that has a scan to
\* run are threads of the process: the scheduler runs each of them again and
\* again, and scan() itself ends because every wait in it has a timeout.
\* Nothing makes a client send a request.
Spec ==
    /\ Init
    /\ [][Next]_vars
    /\ \A j \in Jobs : /\ WF_vars(post[j] # "new" /\ PostStep(j))
                       /\ WF_vars(RunnerStep(j))

-----------------------------------------------------------------------------
(* What the job table promises                                             *)

\* The jobs whose POST handler or runner has a scan slot to give back.
Holders ==
    {j \in Jobs :
        \/ post[j] \in {"reserved", "added", "unwinding"}
        \/ runner[j] \in {"scanning", "reported", "raised", "failed", "finishing"}}

\* Every scan slot in use is owed by exactly one thread that will release it,
\* whatever fails between reserve() and the runner's finally clause: a slot is
\* neither leaked nor released twice, and its owner is the POST handler until
\* start() has returned and the runner from then on (_State.reserve,
\* _State.release, _start_scan, _run).
SlotsAccounted ==
    /\ running = Cardinality(Holders)
    /\ \A j \in Jobs : runner[j] # "none" => post[j] \in {"started", "accepted"}

\* scan() has ended the thread of j behind the back of the except clause: it
\* leaves neither a report nor an error.
Abandoned(j) == runner[j] \in {"finishing", "ended"} /\ ~report[j] /\ ~error[j]

\* A job a client can poll and that says "running" has a thread that still
\* works on it: no failure of Thread.start() and no Exception of scan() leaves
\* an entry that will say "running" for ever (_start_scan, _run, _State.remove).
NoGhostJob ==
    \A i \in DOMAIN jobs :
        LET j == jobs[i] IN
        status[j] = "running" =>
            \/ post[j] \in {"added", "unwinding", "removing"}
            \/ runner[j] \in {"scanning", "reported", "raised"}
            \/ Abandoned(j)

\* An answer that says "done" carries the summary and counts every target,
\* although as_status reads each attribute without a lock.
DoneIsComplete ==
    \A c \in Clients :
        get[c] = "idle" /\ seen[c].status = "done" =>
            seen[c].summary /\ seen[c].done = Total

\* A client that was once told a job is done is never told that there is no
\* report yet (409): it may only lose the job to an eviction (404).
DoneThenNoConflict ==
    \A c \in Clients :
        get[c] = "idle" /\ seen[c].code = 409 => target[c] \notin finished[c]

\* When no more requests come, every scan slot comes back: the service does not
\* wedge, however the scans ended and whichever threads failed to start.
SlotsComeBack == <>[](running = 0)

\* A job whose POST was answered 202 ends: a client that polls it sees "done" or
\* "error" in the end, unless scan() ended with something that is not an
\* Exception (_run).
AcceptedEnds ==
    \A j \in Jobs :
        post[j] = "accepted" ~> status[j] \in {"done", "error"} \/ Abandoned(j)
=============================================================================
