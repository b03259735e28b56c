------------------------------ MODULE History -------------------------------
(***************************************************************************)
(* The history file (ssh_crypto_checker/history.py), the baseline that     *)
(* --compare takes from it (compare.py) and the order in which cli.main    *)
(* uses the two once the scan is over. Each run is a process of its own;   *)
(* several may share the file, and any of them may be cut short while it   *)
(* appends: the disk is full, or the process is killed.                    *)
(*                                                                         *)
(* The file is the sequence of what was written to it: the text of a whole *)
(* report, the beginning of one, and line feeds. A beginning may end in    *)
(* the middle of a character, for the reports are written in UTF-8 and not *)
(* in ASCII. Only the score of a report matters here, because a lower one  *)
(* is what a regression is.                                                *)
(***************************************************************************)
EXTENDS Integers, Sequences, FiniteSets, FiniteSetsExt

CONSTANTS
    Runs,       \* the processes
    Recording,  \* those given --history FILE
    Gating,     \* those given --compare FILE --fail-on-regression
    Wide,      \* those whose report has a character of several bytes
    Split,     \* those where it is one that splitlines() ends a line at
    MaxScore,
    Failures   \* whether a write may fail

VARIABLES
    file,      \* what the history file holds
    score,     \* the score of the report each run has made
    pc,        \* where each run is in main()
    baseline,  \* the run whose report each run was compared with
    expected,  \* the last report that another run had on record then (history)
    exit,      \* the exit code of each run
    recorded   \* the runs whose append returned (history)

vars == <<file, score, pc, baseline, expected, exit, recorded>>

Scores == 0..MaxScore
NoRun == [none |-> TRUE]

ASSUME HistoryAssumption ==
    /\ IsFiniteSet(Runs) /\ NoRun \notin Runs
    /\ Recording \subseteq Runs /\ Gating \subseteq Runs
    /\ Split \subseteq Wide /\ Wide \subseteq Runs
    /\ MaxScore \in Nat
    /\ Failures \in BOOLEAN

NewLine == [kind |-> "newline"]
Body(r) == [kind |-> "body", run |-> r]
Piece(r) == [kind |-> "piece", run |-> r]
Torn(r) == [kind |-> "torn", run |-> r]
Tokens == {NewLine} \cup UNION {{Body(r), Piece(r), Torn(r)} : r \in Runs}

TypeOK ==
    /\ file \in Seq(Tokens)
    /\ score \in [Runs -> Scores]
    /\ pc \in [Runs -> {"scanning", "scanned", "recorded", "compared", "ended"}]
    /\ baseline \in [Runs -> Runs \cup {NoRun}]
    /\ expected \in [Runs -> Runs \cup {NoRun}]
    /\ exit \in [Runs -> {"none", "ok", "findings", "usage", "killed", "traceback"}]
    /\ recorded \subseteq Recording

Init ==
    /\ file = <<>>
    /\ score \in [Runs -> Scores]
    /\ pc = [r \in Runs |-> "scanning"]
    /\ baseline = [r \in Runs |-> NoRun]
    /\ expected = [r \in Runs |-> NoRun]
    /\ exit = [r \in Runs |-> "none"]
    /\ recorded = {}

-----------------------------------------------------------------------------
(* history.read, history.latest and compare.load_baseline                  *)

\* Whether read_text(encoding="utf-8") can read it: what follows a character
\* that was cut in two is the end of the file or ASCII, never the rest of it.
Decodable(text) == \A i \in DOMAIN text : text[i].kind # "torn"

\* The lines that parse: a whole report between two line feeds or the ends of
\* the file. One glued to anything else is "Extra data", and one with U+2028 or
\* U+0085 in it, which JSON leaves as they are, is two lines; both are skipped.
Readable(text) ==
    {i \in DOMAIN text :
        /\ Decodable(text)
        /\ text[i].kind = "body" /\ text[i].run \notin Split
        /\ i > 1 => text[i - 1] = NewLine
        /\ i < Len(text) => text[i + 1] = NewLine}

\* A file that is one report is parsed as a whole, before it is taken for lines.
Sole(text) ==
    {i \in DOMAIN text : i = 1 /\ text[1].kind = "body" /\ \A j \in DOMAIN text \ {1} : text[j] = NewLine}

Loadable(text) == Readable(text) \cup Sole(text)

\* Mutant: the first report of the file instead of the last.
Oldest(text) ==
    IF Loadable(text) = {} THEN NoRun ELSE text[Min(Loadable(text))].run

Latest(text) ==
    IF Loadable(text) = {} THEN NoRun ELSE text[Max(Loadable(text))].run

\* The last report on record that is not the run's own.
LatestOfOthers(r) ==
    LET others == {i \in Loadable(file) : file[i].run # r} IN
    IF others = {} THEN NoRun ELSE file[Max(others)].run

-----------------------------------------------------------------------------
(* cli.main, from the end of scan() on                                     *)

ScanEnds(r) ==
    /\ pc[r] = "scanning"
    /\ pc' = [pc EXCEPT ![r] = "scanned"]
    /\ UNCHANGED <<file, score, baseline, expected, exit, recorded>>

\* Mutant: the file is written anew, without what it held.
Overwrite(r) ==
    /\ pc[r] = "scanned"
    /\ r \in Recording
    /\ file' = <<Body(r), NewLine>>
    /\ recorded' = recorded \cup {r}
    /\ pc' = [pc EXCEPT ![r] = "recorded"]
    /\ UNCHANGED <<score, baseline, expected, exit>>

\* history.append: opened in append mode, the line is written as one piece.
AppendReport(r) ==
    /\ pc[r] = "scanned"
    /\ r \in Recording
    /\ file' = file \o <<Body(r), NewLine>>
    /\ recorded' = recorded \cup {r}
    /\ pc' = [pc EXCEPT ![r] = "recorded"]
    /\ UNCHANGED <<score, baseline, expected, exit>>

\* The write fails, before its first byte or after any but the last: OSError
\* becomes a HistoryError and exit code 2, or the process is killed.
AppendCutShort(r) ==
    /\ Failures
    /\ pc[r] = "scanned"
    /\ r \in Recording
    /\ \E text \in {<<>>, <<Piece(r)>>, <<Body(r)>>} \cup (IF r \in Wide THEN {<<Torn(r)>>} ELSE {}) :
          file' = file \o text
    /\ \E code \in {"usage", "killed"} : exit' = [exit EXCEPT ![r] = code]
    /\ pc' = [pc EXCEPT ![r] = "ended"]
    /\ UNCHANGED <<score, baseline, expected, recorded>>

\* A report that UTF-8 cannot encode, for the command line it names was not in
\* UTF-8: nothing is written, and the UnicodeEncodeError is no OSError.
AppendRaises(r) ==
    /\ Failures
    /\ pc[r] = "scanned"
    /\ r \in Recording
    /\ exit' = [exit EXCEPT ![r] = "traceback"]
    /\ pc' = [pc EXCEPT ![r] = "ended"]
    /\ UNCHANGED <<file, score, baseline, expected, recorded>>

SkipHistory(r) ==
    /\ pc[r] = "scanned"
    /\ r \notin Recording
    /\ pc' = [pc EXCEPT ![r] = "recorded"]
    /\ UNCHANGED <<file, score, baseline, expected, exit, recorded>>

\* load_baseline: the file is one report, or latest() finds one in it ...
Compare(r) ==
    /\ pc[r] = "recorded"
    /\ r \in Gating
    /\ Latest(file) # NoRun
    /\ baseline' = [baseline EXCEPT ![r] = Latest(file)]
    /\ expected' = [expected EXCEPT ![r] = LatestOfOthers(r)]
    /\ pc' = [pc EXCEPT ![r] = "compared"]
    /\ UNCHANGED <<file, score, exit, recorded>>

\* ... or there is no file, or no report in it: BaselineError, exit code 2.
NoBaseline(r) ==
    /\ pc[r] = "recorded"
    /\ r \in Gating
    /\ Decodable(file) /\ Latest(file) = NoRun
    /\ exit' = [exit EXCEPT ![r] = "usage"]
    /\ pc' = [pc EXCEPT ![r] = "ended"]
    /\ UNCHANGED <<file, score, baseline, expected, recorded>>

\* ... or it cannot be decoded: a UnicodeDecodeError, which nothing catches.
BaselineRaises(r) ==
    /\ pc[r] = "recorded"
    /\ r \in Gating
    /\ ~Decodable(file)
    /\ exit' = [exit EXCEPT ![r] = "traceback"]
    /\ pc' = [pc EXCEPT ![r] = "ended"]
    /\ UNCHANGED <<file, score, baseline, expected, recorded>>

SkipCompare(r) ==
    /\ pc[r] = "recorded"
    /\ r \notin Gating
    /\ pc' = [pc EXCEPT ![r] = "compared"]
    /\ UNCHANGED <<file, score, baseline, expected, exit, recorded>>

\* TargetDrift.regressed of the one target.
Regressed(r) == baseline[r] # NoRun /\ score[r] < score[baseline[r]]

\* The report is written out, and the exit code says whether it got worse.
Finish(r) ==
    /\ pc[r] = "compared"
    /\ exit' = [exit EXCEPT ![r] = IF r \in Gating /\ Regressed(r)
                                   THEN "findings" ELSE "ok"]
    /\ pc' = [pc EXCEPT ![r] = "ended"]
    /\ UNCHANGED <<file, score, baseline, expected, recorded>>

Run(r) ==
    \/ ScanEnds(r)
    \/ AppendReport(r) \/ AppendCutShort(r) \/ AppendRaises(r) \/ SkipHistory(r)
    \/ Compare(r) \/ NoBaseline(r) \/ BaselineRaises(r) \/ SkipCompare(r)
    \/ Finish(r)

Next == \E r \in Runs : Run(r)

Spec == Init /\ [][Next]_vars

-----------------------------------------------------------------------------
OnRecord == {file[i].run : i \in Readable(file)}

CutShort == {r \in Recording : exit[r] \in {"usage", "killed"} /\ r \notin recorded}

\* As long as no write was cut inside a character, each that was cut short
\* costs at most one of the reports that were recorded whole, whichever
\* processes wrote at the same time, those with a line separator of Unicode in
\* them aside; and only such a write makes the file one that cannot be decoded,
\* which costs them all (history.read, history.append).
LossBounded ==
    /\ Decodable(file) => Cardinality((recorded \ Split) \ OnRecord) <= Cardinality(CutShort)
    /\ ~Decodable(file) => CutShort \cap Wide # {}

\* "A history is written over months, and one truncated write should not make
\* the rest unreadable" (history.read): where more reports were recorded whole
\* than writes were cut short, some report can be read.
StillReadable == Cardinality(recorded) > Cardinality(CutShort) => OnRecord # {}

\* A run that was told to fail on a regression and did not has a report at
\* least as good as the last one another run had put on record
\* (load_baseline, compare, main).
GateHonest ==
    \A r \in Gating :
        exit[r] = "ok" /\ expected[r] # NoRun => score[r] >= score[expected[r]]
=============================================================================
