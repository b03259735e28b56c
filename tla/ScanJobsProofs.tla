--------------------------- MODULE ScanJobsProofs ---------------------------
(***************************************************************************)
(* What ScanJobs keeps for any number of requests, clients, targets, scan  *)
(* slots and table entries. TypeOK is inductive on its own; SlotsAccounted *)
(* is inductive given TypeOK: its second conjunct says that a runner       *)
(* exists only after its handler is past every release, which is why no    *)
(* slot has two owners. What clients are told (NoGhostJob, DoneIsComplete, *)
(* DoneThenNoConflict) rests on JobsInv: how far the runner has come says  *)
(* what its job holds, and the attributes it writes are never taken back.  *)
(***************************************************************************)
EXTENDS ScanJobs, FiniteSetTheorems, SequenceTheorems, TLAPS

\* Trimming the oldest entries leaves a table of jobs (_State.add).
LEMMA EvictType ==
    ASSUME NEW table \in Seq(Jobs)
    PROVE  Evict(table) \in Seq(Jobs)
<1> USE JobsAssumption
<1>1. CASE Len(table) > MaxJobs
  <2>1. /\ Len(table) - MaxJobs + 1 \in 1..Len(table) + 1
        /\ Len(table) \in 0..Len(table)
    BY <1>1, LenProperties
  <2>2. SubSeq(table, Len(table) - MaxJobs + 1, Len(table)) \in Seq(Jobs)
    BY <2>1, <1>1, SubSeqProperties
  <2> QED BY <1>1, <2>2 DEF Evict
<1>2. CASE ~(Len(table) > MaxJobs)
  BY <1>2 DEF Evict
<1> QED BY <1>1, <1>2

\* Taking one entry out leaves a table of jobs (_State.remove).
LEMMA RemoveAtType ==
    ASSUME NEW table \in Seq(Jobs), NEW i \in DOMAIN table
    PROVE  RemoveAt(table, i) \in Seq(Jobs)
<1>1. /\ i \in 1..Len(table)
      /\ Len(table) \in Nat
  BY LenProperties
<1>2. SubSeq(table, 1, i - 1) \in Seq(Jobs)
  BY <1>1, SubSeqProperties
<1>3. SubSeq(table, i + 1, Len(table)) \in Seq(Jobs)
  BY <1>1, SubSeqProperties
<1> QED BY <1>2, <1>3, ConcatProperties DEF RemoveAt

-----------------------------------------------------------------------------
\* The answers of do_GET and of as_status, piece by piece.
LEMMA AnswerType ==
    ASSUME NEW code \in {0, 200, 404, 409}, NEW b \in BOOLEAN
    PROVE  Answer(code, b) \in Answers
<1>1. 0 \in 0..Total
  BY JobsAssumption
<1> QED BY <1>1, Zenon DEF Answer, Answers

LEMMA AnswerStatus ==
    ASSUME NEW s \in {"running", "done", "error"}, NEW n \in 0..Total
    PROVE  [Answer(200, FALSE) EXCEPT !.status = s, !.done = n] \in Answers
BY DEF Answer, Answers

LEMMA AnswerError ==
    ASSUME NEW answer \in Answers, NEW text \in {"none", "empty", "text"}
    PROVE  [answer EXCEPT !.error = text] \in Answers
BY DEF Answers

LEMMA AnswerSummary ==
    ASSUME NEW answer \in Answers, NEW b \in BOOLEAN
    PROVE  [answer EXCEPT !.summary = b] \in Answers
BY DEF Answers

LEMMA InitType == Init => TypeOK
<1>1. NoAnswer \in Answers
  BY AnswerType, Zenon DEF NoAnswer
<1> QED
  BY <1>1, JobsAssumption DEF Init, TypeOK, PostSteps, RunnerSteps, GetSteps

LEMMA PostType ==
    ASSUME TypeOK, NEW j \in Jobs, PostStep(j)
    PROVE  TypeOK'
<1> USE JobsAssumption DEF TypeOK, PostSteps, jobVars, getVars
<1>1. CASE CheckRequest(j)
  BY <1>1 DEF CheckRequest
<1>2. CASE RefuseRequest(j)
  BY <1>2 DEF RefuseRequest
<1>3. CASE Reserve(j)
  BY <1>3 DEF Reserve
<1>4. CASE ReserveRefused(j)
  BY <1>4 DEF ReserveRefused
<1>5. CASE Add(j)
  <2>1. Append(jobs, j) \in Seq(Jobs)
    BY AppendProperties
  <2>2. jobs' \in Seq(Jobs)
    BY <1>5, <2>1, EvictType DEF Add
  <2> QED BY <1>5, <2>2 DEF Add
<1>6. CASE StartRunner(j)
  BY <1>6 DEF StartRunner, RunnerSteps
<1>7. CASE StartFails(j)
  BY <1>7 DEF StartFails
<1>8. CASE UnwindRelease(j)
  BY <1>8 DEF UnwindRelease
<1>9. CASE UnwindRemove(j)
  <2>1. jobs' \in Seq(Jobs)
    BY <1>9, RemoveAtType DEF UnwindRemove
  <2> QED BY <1>9, <2>1 DEF UnwindRemove
<1>10. CASE Accept(j)
  BY <1>10 DEF Accept
<1> QED
  BY <1>1, <1>2, <1>3, <1>4, <1>5, <1>6, <1>7, <1>8, <1>9, <1>10 DEF PostStep

LEMMA RunnerType ==
    ASSUME TypeOK, NEW j \in Jobs, RunnerStep(j)
    PROVE  TypeOK'
<1> USE JobsAssumption DEF TypeOK, RunnerSteps, jobVars, getVars
<1>1. CASE Tick(j)
  BY <1>1 DEF Tick
<1>2. CASE ScanReturns(j)
  BY <1>2 DEF ScanReturns
<1>3. CASE MarkDone(j)
  BY <1>3 DEF MarkDone
<1>4. CASE ScanRaises(j)
  BY <1>4 DEF ScanRaises
<1>5. CASE MarkError(j)
  BY <1>5 DEF MarkError
<1>6. CASE RecordError(j)
  BY <1>6 DEF RecordError
<1>7. CASE ScanExits(j)
  BY <1>7 DEF ScanExits
<1>8. CASE RunnerRelease(j)
  BY <1>8 DEF RunnerRelease
<1> QED
  BY <1>1, <1>2, <1>3, <1>4, <1>5, <1>6, <1>7, <1>8 DEF RunnerStep

\* A GET that holds a reference reads an attribute of a job of the table: the
\* one place where the target of an idle client, NoJob, must not be read.
GetReady == \A c \in Clients : get[c] # "idle" => target[c] \in Jobs

LEMMA GetType ==
    ASSUME TypeOK, GetReady, NEW c \in Clients, GetStep(c)
    PROVE  TypeOK' /\ GetReady'
<1> USE JobsAssumption DEF TypeOK, GetReady, GetSteps, jobVars
<1>0. /\ Answer(404, FALSE) \in Answers
      /\ Answer(409, FALSE) \in Answers
      /\ Answer(200, TRUE) \in Answers
  <2>1. /\ {200, 404, 409} \subseteq {0, 200, 404, 409}
        /\ {TRUE, FALSE} \subseteq BOOLEAN
    OBVIOUS
  <2> HIDE DEF TypeOK, GetReady
  <2>2. Answer(404, FALSE) \in Answers
    BY <2>1, AnswerType, Zenon
  <2>3. Answer(409, FALSE) \in Answers
    BY <2>1, AnswerType, Zenon
  <2>4. Answer(200, TRUE) \in Answers
    BY <2>1, AnswerType, Zenon
  <2> QED BY <2>2, <2>3, <2>4
<1>1. ASSUME NEW j \in Jobs, LookupMisses(c, j)
      PROVE  TypeOK' /\ GetReady'
  BY <1>1, <1>0 DEF LookupMisses, Reply
<1>2. ASSUME NEW j \in Jobs, NEW step \in {"reading", "checking"},
             LookupHits(c, j, step)
      PROVE  TypeOK' /\ GetReady'
  BY <1>2 DEF LookupHits
<1>3. CASE ReadStatus(c)
  <2> DEFINE new == [Answer(200, FALSE) EXCEPT !.status = status[target[c]],
                                               !.done = done[target[c]]]
  <2>1. /\ target[c] \in Jobs
        /\ status[target[c]] \in {"running", "done", "error"}
        /\ done[target[c]] \in 0..Total
    BY <1>3 DEF ReadStatus
  <2>2. new \in Answers
    BY <2>1, AnswerStatus, Zenon
  <2>3. seen' = [seen EXCEPT ![c] = new]
    BY <1>3, Zenon DEF ReadStatus
  <2> HIDE DEF new
  <2> QED BY <1>3, <2>2, <2>3 DEF ReadStatus
<1>4. CASE ReadError(c)
  <2> DEFINE text == IF status[target[c]] # "error" THEN "none"
                     ELSE IF error[target[c]] THEN "text" ELSE "empty"
             new == [seen[c] EXCEPT !.error = text]
  <2>1. seen[c] \in Answers /\ text \in {"none", "empty", "text"}
    OBVIOUS
  <2>2. new \in Answers
    <3> HIDE DEF text, TypeOK
    <3> QED BY <2>1, AnswerError, Zenon
  <2>3. seen' = [seen EXCEPT ![c] = new]
    BY <1>4 DEF ReadError
  <2>4. /\ get[c] = "error?"
        /\ get' = [get EXCEPT ![c] = "summary?"]
        /\ UNCHANGED <<running, jobs, post, runner, jobVars, target, finished>>
    BY <1>4, Zenon DEF ReadError
  <2> HIDE DEF new
  <2> QED BY <2>2, <2>3, <2>4
<1>5. CASE ReadSummary(c)
  <2> DEFINE new == [seen[c] EXCEPT !.summary = report[target[c]]]
  <2>1. /\ target[c] \in Jobs
        /\ report[target[c]] \in BOOLEAN
        /\ seen[c] \in Answers
    BY <1>5 DEF ReadSummary
  <2>2. new \in Answers
    BY <2>1, AnswerSummary, Zenon
  <2>3. seen' = [seen EXCEPT ![c] = new]
    BY <1>5 DEF ReadSummary
  <2>4. /\ get' = [get EXCEPT ![c] = "idle"]
        /\ \/ finished' = [finished EXCEPT ![c] = @ \cup {target[c]}]
           \/ finished' = finished
        /\ UNCHANGED <<running, jobs, post, runner, jobVars, target>>
    BY <1>5, Zenon DEF ReadSummary
  <2> HIDE DEF new
  <2> QED BY <2>1, <2>2, <2>3, <2>4
<1>6. CASE ReportMissing(c)
  BY <1>6, <1>0 DEF ReportMissing, Reply
<1>7. CASE ReportReady(c)
  BY <1>7 DEF ReportReady
<1>8. CASE Render(c)
  BY <1>8, <1>0 DEF Render, Reply
<1> QED
  BY <1>1, <1>2, <1>3, <1>4, <1>5, <1>6, <1>7, <1>8 DEF GetStep

\* Every state of the job table has the types that TypeOK declares: the slot
\* counter stays within 0..MaxRunning and no answer mixes attributes of two
\* kinds (ssh_crypto_checker/web/server.py, _State and Job).
THEOREM TypeCorrect == Spec => []TypeOK
<1>1. Init => TypeOK /\ GetReady
  BY InitType DEF Init, GetReady
<1>2. TypeOK /\ GetReady /\ [Next]_vars => TypeOK' /\ GetReady'
  <2> SUFFICES ASSUME TypeOK, GetReady, [Next]_vars
               PROVE  TypeOK' /\ GetReady'
    OBVIOUS
  <2>1. ASSUME NEW j \in Jobs, PostStep(j)
        PROVE  TypeOK' /\ GetReady'
    BY <2>1, PostType
       DEF PostStep, CheckRequest, RefuseRequest, Reserve, ReserveRefused, Add,
           StartRunner, StartFails, UnwindRelease, UnwindRemove, Accept,
           GetReady, getVars
  <2>2. ASSUME NEW j \in Jobs, RunnerStep(j)
        PROVE  TypeOK' /\ GetReady'
    BY <2>2, RunnerType
       DEF RunnerStep, Tick, ScanReturns, MarkDone, ScanRaises, MarkError,
           RecordError, ScanExits, RunnerRelease, GetReady, getVars
  <2>3. CASE UNCHANGED vars
    BY <2>3 DEF vars, jobVars, getVars, TypeOK, GetReady
  <2> QED BY <2>1, <2>2, <2>3, GetType DEF Next
<1> QED BY <1>1, <1>2, PTL DEF Spec

-----------------------------------------------------------------------------
\* The three ways a step can touch the slots: it leaves counter and owners
\* alone, it takes a slot for a job that owned none, or it gives one back.
LEMMA SlotsKept ==
    ASSUME SlotsAccounted, running' = running, Holders' = Holders
    PROVE  running' = Cardinality(Holders')
BY DEF SlotsAccounted

LEMMA SlotTaken ==
    ASSUME SlotsAccounted, running' = running + 1,
           NEW j \in Jobs, j \notin Holders, Holders' = Holders \cup {j}
    PROVE  running' = Cardinality(Holders')
<1>1. IsFiniteSet(Holders)
  BY JobsAssumption, FS_Subset DEF Holders
<1>2. Cardinality(Holders \cup {j}) = Cardinality(Holders) + 1
  BY <1>1, FS_AddElement
<1> QED BY <1>2 DEF SlotsAccounted

LEMMA SlotReturned ==
    ASSUME SlotsAccounted, running' = IF running > 0 THEN running - 1 ELSE 0,
           NEW j \in Jobs, j \in Holders, Holders' = Holders \ {j}
    PROVE  running' = Cardinality(Holders')
<1>1. IsFiniteSet(Holders)
  BY JobsAssumption, FS_Subset DEF Holders
<1>2. /\ Cardinality(Holders \ {j}) = Cardinality(Holders) - 1
      /\ Cardinality(Holders) \in Nat
      /\ Cardinality(Holders \ {j}) \in Nat
  BY <1>1, FS_RemoveElement, FS_CardinalityType, FS_Subset
<1> QED BY <1>2 DEF SlotsAccounted

\* Owning a slot is a matter of post and runner alone.
LEMMA HoldersKept ==
    ASSUME post' = post, runner' = runner
    PROVE  Holders' = Holders
BY DEF Holders

LEMMA PostSlots ==
    ASSUME TypeOK, SlotsAccounted, NEW j \in Jobs, PostStep(j)
    PROVE  SlotsAccounted'
<1> DEFINE Handover ==
      \A k \in Jobs : runner[k] # "none" => post[k] \in {"started", "accepted"}
<1>0. Handover /\ post \in [Jobs -> PostSteps] /\ runner \in [Jobs -> RunnerSteps]
  BY DEF SlotsAccounted, TypeOK
<1>1. Handover'
  BY <1>0 DEF PostStep, CheckRequest, RefuseRequest, Reserve, ReserveRefused,
              Add, StartRunner, StartFails, UnwindRelease, UnwindRemove, Accept
<1>2. CASE CheckRequest(j) \/ RefuseRequest(j) \/ ReserveRefused(j)
           \/ Add(j) \/ StartFails(j) \/ UnwindRemove(j) \/ Accept(j)
  <2>1. Holders' = Holders /\ running' = running
    BY <1>0, <1>2
       DEF CheckRequest, RefuseRequest, ReserveRefused, Add, StartFails,
           UnwindRemove, Accept, Holders
  <2> QED BY <2>1, <1>1, SlotsKept DEF SlotsAccounted
<1>3. CASE Reserve(j)
  <2>1. /\ j \notin Holders
        /\ Holders' = Holders \cup {j}
        /\ running' = running + 1
    BY <1>0, <1>3 DEF Reserve, Holders
  <2> QED BY <2>1, <1>1, SlotTaken DEF SlotsAccounted
<1>4. CASE StartRunner(j)
  <2>1. Holders' = Holders /\ running' = running
    BY <1>0, <1>4 DEF StartRunner, Holders
  <2> QED BY <2>1, <1>1, SlotsKept DEF SlotsAccounted
<1>5. CASE UnwindRelease(j)
  <2>1. /\ j \in Holders
        /\ Holders' = Holders \ {j}
        /\ running' = IF running > 0 THEN running - 1 ELSE 0
    BY <1>0, <1>5 DEF UnwindRelease, Holders
  <2> QED BY <2>1, <1>1, SlotReturned DEF SlotsAccounted
<1> QED BY <1>2, <1>3, <1>4, <1>5 DEF PostStep

LEMMA RunnerSlots ==
    ASSUME TypeOK, SlotsAccounted, NEW j \in Jobs, RunnerStep(j)
    PROVE  SlotsAccounted'
<1> DEFINE Handover ==
      \A k \in Jobs : runner[k] # "none" => post[k] \in {"started", "accepted"}
<1>0. Handover /\ post \in [Jobs -> PostSteps] /\ runner \in [Jobs -> RunnerSteps]
  BY DEF SlotsAccounted, TypeOK
<1>1. Handover'
  BY <1>0 DEF RunnerStep, Tick, ScanReturns, MarkDone, ScanRaises, MarkError,
              RecordError, ScanExits, RunnerRelease
<1>2. CASE \/ Tick(j) \/ ScanReturns(j) \/ MarkDone(j) \/ ScanRaises(j)
           \/ MarkError(j) \/ RecordError(j) \/ ScanExits(j)
  <2>1. Holders' = Holders /\ running' = running
    BY <1>0, <1>2
       DEF Tick, ScanReturns, MarkDone, ScanRaises, MarkError, RecordError,
           ScanExits, Holders
  <2> QED BY <2>1, <1>1, SlotsKept DEF SlotsAccounted
<1>3. CASE RunnerRelease(j)
  <2>1. /\ j \in Holders
        /\ Holders' = Holders \ {j}
        /\ running' = IF running > 0 THEN running - 1 ELSE 0
    BY <1>0, <1>3 DEF RunnerRelease, Holders
  <2> QED BY <2>1, <1>1, SlotReturned DEF SlotsAccounted
<1> QED BY <1>2, <1>3 DEF RunnerStep

\* The slot counter always equals the number of threads that still have a slot
\* to give back, so no slot leaks and none is released twice, whatever fails
\* between reserve() and the finally clause of the runner (_State.reserve,
\* _State.release, _start_scan and _run in web/server.py).
THEOREM SlotsSafe == Spec => []SlotsAccounted
<1>1. Init => SlotsAccounted
  <2> SUFFICES ASSUME Init PROVE SlotsAccounted
    OBVIOUS
  <2>1. Holders = {}
    BY DEF Init, Holders
  <2> QED BY <2>1, FS_EmptySet DEF Init, SlotsAccounted
<1>2. TypeOK /\ SlotsAccounted /\ [Next]_vars => SlotsAccounted'
  <2> SUFFICES ASSUME TypeOK, SlotsAccounted, [Next]_vars
               PROVE  SlotsAccounted'
    OBVIOUS
  <2>1. ASSUME NEW c \in Clients, GetStep(c)
        PROVE  running' = running /\ post' = post /\ runner' = runner
    BY <2>1 DEF GetStep, LookupMisses, LookupHits, ReadStatus, ReadError,
                ReadSummary, ReportMissing, ReportReady, Render
  <2>2. CASE running' = running /\ post' = post /\ runner' = runner
    BY <2>2, HoldersKept DEF SlotsAccounted
  <2> QED BY <2>1, <2>2, PostSlots, RunnerSlots DEF Next, vars
<1> QED BY <1>1, <1>2, TypeCorrect, PTL DEF Spec

-----------------------------------------------------------------------------
(* What a client is told                                                   *)

\* How far a runner has come says what its job holds: the report is there
\* before the status says so, the status before the text of the error (_run).
RunnerTells ==
    \A j \in Jobs :
        /\ runner[j] # "none" <=> post[j] \in {"started", "accepted"}
        /\ runner[j] \in {"none", "scanning"} => status[j] = "running" /\ ~report[j] /\ ~error[j]
        /\ runner[j] = "reported" => status[j] = "running" /\ report[j] /\ done[j] = Total
        /\ runner[j] = "raised" => status[j] = "running"
        /\ runner[j] = "failed" => status[j] = "error"
        /\ runner[j] \in {"finishing", "ended"} /\ status[j] = "running" => ~report[j] /\ ~error[j]
        /\ status[j] = "done" => /\ report[j] /\ done[j] = Total
                                 /\ runner[j] \in {"finishing", "ended"}

\* A job is in the table once, from add() to the end of remove() or for good.
TableTells ==
    /\ IsInjective(jobs)
    /\ \A i \in DOMAIN jobs :
          post[jobs[i]] \in {"added", "unwinding", "removing", "started", "accepted"}

\* An answer that is being put together says "done" only of a job that has its
\* report, and so does every client that was told so; a report stays.
AnswerTells ==
    \A c \in Clients :
        /\ get[c] \in {"error?", "summary?"} =>
              /\ seen[c].code = 200
              /\ seen[c].status = "done" => seen[c].done = Total /\ report[target[c]]
        /\ \A j \in finished[c] : report[j]

JobsInv ==
    TypeOK /\ GetReady /\ RunnerTells /\ TableTells /\ AnswerTells /\ DoneIsComplete /\ DoneThenNoConflict

\* Trimming the table keeps what is in it, and no job twice (_State.add).
LEMMA EvictKeeps ==
    ASSUME NEW table \in Seq(Jobs), IsInjective(table)
    PROVE  /\ IsInjective(Evict(table))
           /\ \A i \in DOMAIN Evict(table) : \E k \in DOMAIN table : Evict(table)[i] = table[k]
<1> DEFINE first == Len(table) - MaxJobs + 1
           kept == SubSeq(table, first, Len(table))
<1>0. Len(table) \in Nat /\ DOMAIN table = 1..Len(table) /\ MaxJobs \in Nat \ {0}
  BY LenProperties, JobsAssumption
<1>1. CASE Len(table) > MaxJobs
  <2>1. first \in Int /\ Len(table) \in Int /\ \A i \in first..Len(table) : i \in 1..Len(table)
    BY <1>0, <1>1
  <2>2. \A i \in first..Len(table) : table[i] \in Jobs
    BY <2>1, ElementOfSeq
  <2> HIDE DEF first
  <2>3. /\ kept \in Seq(Jobs)
        /\ Len(kept) = IF first <= Len(table) THEN Len(table) - first + 1 ELSE 0
        /\ \A i \in 1..Len(table) - first + 1 : kept[i] = table[first + i - 1]
    BY <2>1, <2>2, SubSeqProperties
  <2>4. DOMAIN kept = 1..Len(kept)
    BY <2>3, LenProperties
  <2> USE DEF first
  <2>5. DOMAIN kept = 1..MaxJobs /\ \A i \in DOMAIN kept : first + i - 1 \in DOMAIN table
    BY <1>0, <1>1, <2>3, <2>4
  <2>6. \A i \in DOMAIN kept : kept[i] = table[first + i - 1]
    BY <1>0, <2>3, <2>5
  <2>7. Evict(table) = kept
    BY <1>1 DEF Evict
  <2>8. \A i, k \in DOMAIN kept : first + i - 1 = first + k - 1 => i = k
    BY <1>0, <2>5
  <2>9. IsInjective(kept)
    <3> HIDE DEF kept, first
    <3> QED BY <2>5, <2>6, <2>8 DEF IsInjective
  <2> HIDE DEF kept, first
  <2> QED BY <2>5, <2>6, <2>7, <2>9
<1>2. CASE ~(Len(table) > MaxJobs)
  BY <1>2 DEF Evict
<1> QED BY <1>1, <1>2

\* Taking an entry out keeps the others, and no job twice (_State.remove).
LEMMA RemoveAtKeeps ==
    ASSUME NEW table \in Seq(Jobs), IsInjective(table), NEW i \in DOMAIN table
    PROVE  /\ IsInjective(RemoveAt(table, i))
           /\ \A k \in DOMAIN RemoveAt(table, i) :
                 \E m \in DOMAIN table \ {i} : RemoveAt(table, i)[k] = table[m]
<1> DEFINE n == Len(table)
           front == SubSeq(table, 1, i - 1)
           back == SubSeq(table, i + 1, n)
           rest == front \o back
           from(k) == IF k < i THEN k ELSE k + 1
<1>0. n \in Nat /\ DOMAIN table = 1..n /\ i \in 1..n /\ \A k \in 1..n : table[k] \in Jobs
  BY LenProperties, ElementOfSeq
<1> HIDE DEF n
<1>1. /\ front \in Seq(Jobs) /\ Len(front) = i - 1
      /\ \A k \in 1..i - 1 : front[k] = table[k]
  BY <1>0, SubSeqProperties
<1>2. /\ back \in Seq(Jobs) /\ Len(back) = n - i
      /\ \A k \in 1..n - i : back[k] = table[i + k]
  <2>1. \A k \in i + 1..n : table[k] \in Jobs
    BY <1>0
  <2>2. /\ back \in Seq(Jobs) /\ Len(back) = IF i + 1 <= n THEN n - (i + 1) + 1 ELSE 0
        /\ \A k \in 1..n - (i + 1) + 1 : back[k] = table[(i + 1) + k - 1]
    BY <1>0, <2>1, SubSeqProperties
  <2> HIDE DEF back
  <2>3. Len(back) = n - i
    BY <1>0, <2>2
  <2>4. ASSUME NEW k \in 1..n - i PROVE back[k] = table[i + k]
    <3>1. k \in 1..n - (i + 1) + 1 /\ (i + 1) + k - 1 = i + k
      BY <1>0
    <3> QED BY <2>2, <3>1
  <2> QED BY <2>2, <2>3, <2>4
<1> HIDE DEF front, back
<1>3. /\ rest \in Seq(Jobs) /\ Len(rest) = n - 1
      /\ \A k \in 1..n - 1 : rest[k] = IF k <= i - 1 THEN front[k] ELSE back[k - (i - 1)]
  <2>1. /\ rest \in Seq(Jobs) /\ Len(rest) = Len(front) + Len(back)
        /\ \A k \in 1..Len(front) + Len(back) :
              rest[k] = IF k <= Len(front) THEN front[k] ELSE back[k - Len(front)]
    BY <1>1, <1>2, ConcatProperties
  <2>2. Len(front) + Len(back) = n - 1
    BY <1>0, <1>1, <1>2
  <2> HIDE DEF rest
  <2> QED BY <1>1, <2>1, <2>2
<1>4. DOMAIN rest = 1..n - 1
  BY <1>3, LenProperties
<1> HIDE DEF rest
<1>5. \A k \in DOMAIN rest : from(k) \in DOMAIN table \ {i} /\ rest[k] = table[from(k)]
  <2> TAKE k \in DOMAIN rest
  <2>1. k \in 1..n - 1
    BY <1>4
  <2>2. CASE k < i
    <3>1. k \in 1..i - 1 /\ k \in 1..n /\ k # i /\ k <= i - 1
      BY <1>0, <2>1, <2>2
    <3> QED BY <1>0, <1>1, <1>3, <2>1, <2>2, <3>1
  <2>3. CASE ~(k < i)
    <3>1. /\ ~(k <= i - 1) /\ k - (i - 1) \in 1..n - i
          /\ i + (k - (i - 1)) = k + 1 /\ k + 1 \in 1..n /\ k + 1 # i
      BY <1>0, <2>1, <2>3
    <3>2. rest[k] = back[k - (i - 1)]
      BY <1>3, <2>1, <3>1
    <3>3. back[k - (i - 1)] = table[k + 1]
      BY <1>2, <3>1
    <3> QED BY <1>0, <2>3, <3>1, <3>2, <3>3
  <2> QED BY <2>2, <2>3
<1>6. \A k, m \in DOMAIN rest : from(k) = from(m) => k = m
  BY <1>0, <1>4
<1>7. RemoveAt(table, i) = rest
  BY DEF RemoveAt, rest, front, back, n
<1> HIDE DEF from
<1>8. IsInjective(rest)
  BY <1>5, <1>6 DEF IsInjective
<1> QED BY <1>5, <1>7, <1>8

LEMMA AddKeeps ==
    ASSUME NEW table \in Seq(Jobs), IsInjective(table),
           NEW j \in Jobs, \A i \in DOMAIN table : table[i] # j
    PROVE  /\ Append(table, j) \in Seq(Jobs)
           /\ IsInjective(Append(table, j))
           /\ \A i \in DOMAIN Append(table, j) :
                 \/ Append(table, j)[i] = j
                 \/ \E k \in DOMAIN table : Append(table, j)[i] = table[k]
<1> DEFINE longer == Append(table, j)
<1>1. Len(table) \in Nat /\ DOMAIN table = 1..Len(table)
  BY LenProperties
<1>2. /\ longer \in Seq(Jobs) /\ Len(longer) = Len(table) + 1
      /\ \A i \in 1..Len(table) : longer[i] = table[i]
      /\ longer[Len(table) + 1] = j
  BY AppendProperties
<1> HIDE DEF longer
<1>3. DOMAIN longer = 1..Len(table) + 1
  BY <1>2, LenProperties
<1>4. \A i \in DOMAIN longer : i \in DOMAIN table \/ i = Len(table) + 1
  BY <1>1, <1>3
<1>5. IsInjective(longer)
  BY <1>1, <1>2, <1>4 DEF IsInjective
<1>6. \A i \in DOMAIN longer : longer[i] = j \/ \E k \in DOMAIN table : longer[i] = table[k]
  BY <1>1, <1>2, <1>4
<1> QED BY <1>2, <1>5, <1>6 DEF longer

\* The handler of a POST leaves what clients are told of the other jobs alone.
LEMMA PostTells ==
    ASSUME TypeOK, RunnerTells, TableTells, NEW j \in Jobs, PostStep(j)
    PROVE  RunnerTells' /\ TableTells'
<1> DEFINE InTable(k) ==
      post[k] \in {"added", "unwinding", "removing", "started", "accepted"}
<1>0. /\ post \in [Jobs -> PostSteps] /\ runner \in [Jobs -> RunnerSteps]
      /\ jobs \in Seq(Jobs) /\ \A i \in DOMAIN jobs : jobs[i] \in Jobs
  BY ElementOfSeq, LenProperties DEF TypeOK
<1>1. RunnerTells'
  BY <1>0 DEF RunnerTells, PostStep, CheckRequest, RefuseRequest, Reserve, ReserveRefused, Add,
              StartRunner, StartFails, UnwindRelease, UnwindRemove, Accept, jobVars
<1>2. CASE \/ CheckRequest(j) \/ RefuseRequest(j) \/ Reserve(j) \/ ReserveRefused(j)
           \/ StartRunner(j) \/ StartFails(j) \/ UnwindRelease(j) \/ Accept(j)
  <2>1. jobs' = jobs /\ \A k \in Jobs : InTable(k) => InTable(k)'
    BY <1>0, <1>2 DEF CheckRequest, RefuseRequest, Reserve, ReserveRefused, StartRunner, StartFails,
                      UnwindRelease, Accept
  <2> QED BY <1>0, <1>1, <2>1 DEF TableTells
<1>3. CASE Add(j)
  <2>1. \A i \in DOMAIN jobs : jobs[i] # j
    BY <1>3 DEF Add, TableTells
  <2>2. /\ Append(jobs, j) \in Seq(Jobs) /\ IsInjective(Append(jobs, j))
        /\ \A i \in DOMAIN Append(jobs, j) :
              \/ Append(jobs, j)[i] = j
              \/ \E k \in DOMAIN jobs : Append(jobs, j)[i] = jobs[k]
    BY <1>0, <2>1, AddKeeps DEF TableTells
  <2>3. /\ IsInjective(jobs')
        /\ \A i \in DOMAIN jobs' : \E k \in DOMAIN Append(jobs, j) : jobs'[i] = Append(jobs, j)[k]
    <3>1. jobs' = Evict(Append(jobs, j))
      BY <1>3 DEF Add
    <3> QED BY <2>2, <3>1, EvictKeeps
  <2>4. \A i \in DOMAIN jobs' : jobs'[i] = j \/ \E k \in DOMAIN jobs : jobs'[i] = jobs[k]
    BY <2>2, <2>3
  <2>5. post' = [post EXCEPT ![j] = "added"]
    BY <1>3 DEF Add
  <2> QED BY <1>0, <1>1, <2>3, <2>4, <2>5 DEF TableTells
<1>4. CASE UnwindRemove(j)
  <2>1. post' = [post EXCEPT ![j] = "busy"]
    BY <1>4 DEF UnwindRemove
  <2>2. ASSUME NEW i \in DOMAIN jobs, jobs[i] = j, jobs' = RemoveAt(jobs, i)
        PROVE  TableTells'
    <3>1. /\ IsInjective(jobs')
          /\ \A k \in DOMAIN jobs' : \E m \in DOMAIN jobs \ {i} : jobs'[k] = jobs[m]
      BY <1>0, <2>2, RemoveAtKeeps DEF TableTells
    <3>2. \A m \in DOMAIN jobs \ {i} : jobs[m] # j
      BY <2>2 DEF TableTells, IsInjective
    <3> QED BY <1>0, <2>1, <3>1, <3>2 DEF TableTells
  <2>3. ASSUME ~Contains(jobs, j), jobs' = jobs
        PROVE  TableTells'
    <3>1. \A i \in DOMAIN jobs : jobs[i] # j
      BY <1>0, <2>3, LenProperties DEF Contains
    <3> QED BY <1>0, <2>1, <2>3, <3>1 DEF TableTells
  <2> QED BY <1>1, <1>4, <2>2, <2>3 DEF UnwindRemove
<1> QED BY <1>1, <1>2, <1>3, <1>4 DEF PostStep

\* The runner writes the report first, the status after it (_run).
LEMMA RunnerStepTells ==
    ASSUME TypeOK, RunnerTells, NEW j \in Jobs, RunnerStep(j)
    PROVE  RunnerTells'
<1> USE DEF RunnerTells, TypeOK
<1>1. CASE Tick(j)
  BY <1>1 DEF Tick
<1>2. CASE ScanReturns(j)
  BY <1>2 DEF ScanReturns
<1>3. CASE MarkDone(j)
  BY <1>3 DEF MarkDone
<1>4. CASE ScanRaises(j)
  BY <1>4 DEF ScanRaises, jobVars
<1>5. CASE MarkError(j)
  BY <1>5 DEF MarkError
<1>6. CASE RecordError(j)
  BY <1>6 DEF RecordError
<1>7. CASE ScanExits(j)
  BY <1>7 DEF ScanExits, jobVars
<1>8. CASE RunnerRelease(j)
  BY <1>8 DEF RunnerRelease, jobVars
<1> QED
  BY <1>1, <1>2, <1>3, <1>4, <1>5, <1>6, <1>7, <1>8 DEF RunnerStep

\* A runner takes nothing back: what a GET has read of a finished job stays true,
\* and so does what a client was told (Job, as_status).
LEMMA RunnerKeepsAnswers ==
    ASSUME TypeOK, RunnerTells, AnswerTells, DoneIsComplete, DoneThenNoConflict,
           NEW j \in Jobs, RunnerStep(j), GetReady
    PROVE  AnswerTells' /\ DoneIsComplete' /\ DoneThenNoConflict'
<1>1. UNCHANGED getVars
  BY DEF RunnerStep, Tick, ScanReturns, MarkDone, ScanRaises, MarkError, RecordError, ScanExits,
         RunnerRelease
<1>2. \A k \in Jobs : report[k] => report'[k]
  BY DEF RunnerStep, Tick, ScanReturns, MarkDone, ScanRaises, MarkError, RecordError, ScanExits,
         RunnerRelease, TypeOK, jobVars
<1>3. \A c \in Clients : finished[c] \subseteq Jobs
  BY DEF TypeOK
<1>4. AnswerTells'
  <2> SUFFICES ASSUME NEW c \in Clients
               PROVE  /\ get'[c] \in {"error?", "summary?"} =>
                            /\ seen'[c].code = 200
                            /\ seen'[c].status = "done" =>
                                  seen'[c].done = Total /\ report'[target'[c]]
                      /\ \A k \in finished'[c] : report'[k]
    BY DEF AnswerTells
  <2>1. get[c] # "idle" => target[c] \in Jobs
    BY DEF GetReady
  <2> QED BY <1>1, <1>2, <1>3, <2>1 DEF AnswerTells, getVars
<1> QED BY <1>1, <1>4 DEF DoneIsComplete, DoneThenNoConflict, getVars

LEMMA PostKeepsAnswers ==
    ASSUME AnswerTells, DoneIsComplete, DoneThenNoConflict, NEW j \in Jobs, PostStep(j)
    PROVE  AnswerTells' /\ DoneIsComplete' /\ DoneThenNoConflict'
<1>1. UNCHANGED <<jobVars, getVars>>
  BY DEF PostStep, CheckRequest, RefuseRequest, Reserve, ReserveRefused, Add, StartRunner,
         StartFails, UnwindRelease, UnwindRemove, Accept
<1> QED BY <1>1 DEF AnswerTells, DoneIsComplete, DoneThenNoConflict, jobVars, getVars

\* Each read of a GET keeps to what the attributes say together, although the
\* runner may move between two of them (do_GET, as_status, _render_job).
LEMMA GetKeepsAnswers ==
    ASSUME TypeOK, GetReady, RunnerTells, AnswerTells, DoneIsComplete, DoneThenNoConflict,
           NEW c \in Clients, GetStep(c)
    PROVE  AnswerTells' /\ DoneIsComplete' /\ DoneThenNoConflict'
<1> USE DEF TypeOK, GetReady, AnswerTells, DoneIsComplete, DoneThenNoConflict, jobVars
<1>1. ASSUME NEW j \in Jobs, LookupMisses(c, j)
      PROVE  AnswerTells' /\ DoneIsComplete' /\ DoneThenNoConflict'
  BY <1>1 DEF LookupMisses, Reply, Answer
<1>2. ASSUME NEW j \in Jobs, NEW step \in {"reading", "checking"}, LookupHits(c, j, step)
      PROVE  AnswerTells' /\ DoneIsComplete' /\ DoneThenNoConflict'
  BY <1>2 DEF LookupHits
<1>3. CASE ReadStatus(c)
  <2>1. status[target[c]] = "done" => report[target[c]] /\ done[target[c]] = Total
    BY <1>3 DEF ReadStatus, RunnerTells
  <2>2. /\ seen' = [seen EXCEPT ![c] = seen'[c]]
        /\ seen'[c].code = 200
        /\ seen'[c].status = status[target[c]]
        /\ seen'[c].done = done[target[c]]
    BY <1>3 DEF ReadStatus, Answer
  <2>3. /\ get' = [get EXCEPT ![c] = "error?"]
        /\ report' = report /\ target' = target /\ finished' = finished
    BY <1>3 DEF ReadStatus
  <2> QED BY <2>1, <2>2, <2>3
<1>4. CASE ReadError(c)
  <2>1. /\ seen' = [seen EXCEPT ![c] = seen'[c]]
        /\ seen'[c].code = seen[c].code
        /\ seen'[c].status = seen[c].status
        /\ seen'[c].done = seen[c].done
    BY <1>4 DEF ReadError, Answers
  <2>2. /\ get[c] = "error?" /\ get' = [get EXCEPT ![c] = "summary?"]
        /\ report' = report /\ target' = target /\ finished' = finished
    BY <1>4 DEF ReadError
  <2> QED BY <2>1, <2>2
<1>5. CASE ReadSummary(c)
  <2>1. /\ seen' = [seen EXCEPT ![c] = seen'[c]]
        /\ seen'[c].code = seen[c].code
        /\ seen'[c].status = seen[c].status
        /\ seen'[c].done = seen[c].done
        /\ seen'[c].summary = report[target[c]]
    BY <1>5 DEF ReadSummary, Answers
  <2>2. /\ get[c] = "summary?" /\ get' = [get EXCEPT ![c] = "idle"]
        /\ report' = report /\ target' = target
    BY <1>5 DEF ReadSummary
  <2>3. finished' = IF seen[c].status = "done"
                    THEN [finished EXCEPT ![c] = @ \cup {target[c]}] ELSE finished
    BY <1>5 DEF ReadSummary
  <2> QED BY <2>1, <2>2, <2>3
<1>6. CASE ReportMissing(c)
  BY <1>6 DEF ReportMissing, Reply, Answer
<1>7. CASE ReportReady(c)
  BY <1>7 DEF ReportReady
<1>8. CASE Render(c)
  BY <1>8 DEF Render, Reply, Answer
<1> QED
  BY <1>1, <1>2, <1>3, <1>4, <1>5, <1>6, <1>7, <1>8 DEF GetStep

LEMMA JobsInvHolds == Spec => []JobsInv
<1>1. Init => JobsInv
  <2> SUFFICES ASSUME Init PROVE JobsInv
    OBVIOUS
  <2>1. DOMAIN jobs = {}
    BY DEF Init
  <2>2. TypeOK
    BY InitType
  <2>3. RunnerTells /\ TableTells /\ GetReady
    BY <2>1 DEF Init, RunnerTells, TableTells, GetReady, IsInjective
  <2>4. AnswerTells /\ DoneIsComplete /\ DoneThenNoConflict
    BY DEF Init, AnswerTells, DoneIsComplete, DoneThenNoConflict, NoAnswer, Answer
  <2> QED BY <2>2, <2>3, <2>4 DEF JobsInv
<1>2. JobsInv /\ [Next]_vars => JobsInv'
  <2> SUFFICES ASSUME JobsInv, [Next]_vars PROVE JobsInv'
    OBVIOUS
  <2> USE DEF JobsInv
  <2>1. ASSUME NEW j \in Jobs, PostStep(j) PROVE JobsInv'
    <3>1. GetReady'
      BY <2>1 DEF PostStep, CheckRequest, RefuseRequest, Reserve, ReserveRefused, Add, StartRunner,
                  StartFails, UnwindRelease, UnwindRemove, Accept, GetReady, getVars
    <3> QED BY <2>1, <3>1, PostType, PostTells, PostKeepsAnswers
  <2>2. ASSUME NEW j \in Jobs, RunnerStep(j) PROVE JobsInv'
    <3>1. UNCHANGED <<jobs, post, getVars>>
      BY <2>2 DEF RunnerStep, Tick, ScanReturns, MarkDone, ScanRaises, MarkError, RecordError,
                  ScanExits, RunnerRelease
    <3>2. GetReady' /\ TableTells'
      BY <3>1 DEF GetReady, TableTells, getVars
    <3> QED BY <2>2, <3>2, RunnerType, RunnerStepTells, RunnerKeepsAnswers
  <2>3. ASSUME NEW c \in Clients, GetStep(c) PROVE JobsInv'
    <3>1. UNCHANGED <<jobs, post, runner, jobVars>>
      BY <2>3 DEF GetStep, LookupMisses, LookupHits, ReadStatus, ReadError, ReadSummary,
                  ReportMissing, ReportReady, Render
    <3>2. RunnerTells' /\ TableTells'
      BY <3>1 DEF RunnerTells, TableTells, jobVars
    <3> QED BY <2>3, <3>2, GetType, GetKeepsAnswers
  <2>4. CASE UNCHANGED vars
    BY <2>4 DEF vars, jobVars, getVars, TypeOK, GetReady, RunnerTells, TableTells, AnswerTells,
                DoneIsComplete, DoneThenNoConflict
  <2> QED BY <2>1, <2>2, <2>3, <2>4 DEF Next
<1> QED BY <1>1, <1>2, PTL DEF Spec

\* A job a client can find and that says "running" has a thread that still
\* works on it, or scan() ended with something that is not an Exception: neither
\* a failure of Thread.start() nor an Exception of scan() leaves an entry that
\* says "running" for ever (_start_scan, _run and _State.remove).
THEOREM NoGhosts == Spec => []NoGhostJob
<1>1. JobsInv => NoGhostJob
  <2> SUFFICES ASSUME JobsInv, NEW i \in DOMAIN jobs, status[jobs[i]] = "running"
               PROVE  \/ post[jobs[i]] \in {"added", "unwinding", "removing"}
                      \/ runner[jobs[i]] \in {"scanning", "reported", "raised"}
                      \/ Abandoned(jobs[i])
    BY DEF NoGhostJob
  <2>1. jobs[i] \in Jobs
    BY ElementOfSeq, LenProperties DEF JobsInv, TypeOK
  <2> QED BY <2>1 DEF JobsInv, TypeOK, RunnerTells, TableTells, Abandoned, RunnerSteps
<1> QED BY <1>1, JobsInvHolds, PTL

\* An answer that says "done" carries the summary and counts every target,
\* although as_status reads the attributes of the job without a lock: _run writes
\* the report before the status, and on_finish has counted all targets by then.
THEOREM DoneAnswersComplete == Spec => []DoneIsComplete
<1>1. JobsInv => DoneIsComplete
  BY DEF JobsInv
<1> QED BY <1>1, JobsInvHolds, PTL

\* A client that was once told that a job is done is never answered that there
\* is no report yet (409): the report of a job is never taken back (do_GET,
\* as_status, _run).
THEOREM NoConflictAfterDone == Spec => []DoneThenNoConflict
<1>1. JobsInv => DoneThenNoConflict
  BY DEF JobsInv
<1> QED BY <1>1, JobsInvHolds, PTL

=============================================================================
