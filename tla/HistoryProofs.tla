--------------------------- MODULE HistoryProofs ----------------------------
(***************************************************************************)
(* What the history file keeps for any number of runs that share it. While *)
(* the file can be decoded, a report is lost only to the text right before *)
(* it, which some write that was cut short has left: that text precedes    *)
(* one report alone, so there are no more lost reports than writes cut     *)
(* short. What cannot be decoded was left by a write that was cut short    *)
(* too, of a report that is not in ASCII. And a run that does not          *)
(* record is compared with the last report of the others, for the file     *)
(* then holds none of its own.                                             *)
(***************************************************************************)
EXTENDS History, SequenceTheorems, FiniteSetTheorems, TLAPS

Codes == {"none", "ok", "findings", "usage", "killed", "traceback"}
Places == {"scanning", "scanned", "recorded", "compared", "ended"}

\* Each run has written at most one text, after its scan; what stands before
\* anything but a line feed was cut short, and so was a text that ends inside a
\* character; and a report that was recorded has its line feed. Where a run is says what it has done with the file.
Texts ==
    /\ file \in Seq(Tokens)
    /\ \A i, j \in DOMAIN file :
          file[i] # NewLine /\ file[j] # NewLine /\ file[i].run = file[j].run => i = j
    /\ \A i \in DOMAIN file : file[i] # NewLine =>
          file[i].run \in Recording /\ pc[file[i].run] \notin {"scanning", "scanned"}
    /\ \A i \in DOMAIN file :
          file[i] # NewLine /\ (i + 1 \in DOMAIN file => file[i + 1] # NewLine)
          => file[i].run \in CutShort
    /\ \A i \in DOMAIN file : file[i].kind = "torn" => file[i].run \in CutShort \cap Wide
    /\ \A r \in recorded : \E i \in DOMAIN file :
          file[i] = Body(r) /\ i + 1 \in DOMAIN file /\ file[i + 1] = NewLine

Steps ==
    /\ pc \in [Runs -> Places] /\ exit \in [Runs -> Codes]
    /\ score \in [Runs -> Scores] /\ recorded \subseteq Recording
    /\ baseline \in [Runs -> Runs \cup {NoRun}]
    /\ expected \in [Runs -> Runs \cup {NoRun}]
    /\ \A r \in Runs : exit[r] # "none" => pc[r] = "ended"
    /\ \A r \in recorded : pc[r] \notin {"scanning", "scanned"}
    /\ \A r \in Recording : pc[r] \in {"recorded", "compared"} => r \in recorded

FileInv == Texts /\ Steps

-----------------------------------------------------------------------------
\* A set of naturals has a least element, and one with a bound a greatest.
LEMMA Least ==
    ASSUME NEW T \in SUBSET Nat, T # {}
    PROVE  \E x \in T : \A y \in T : x <= y
<1> DEFINE less == {ss \in Nat \X Nat : ss[1] < ss[2]}
<1>1. IsWellFoundedOn(less, Nat)
  BY NatLessThanWellFounded DEF OpToRel
<1>2. PICK x \in T : \A y \in T : ~(<<y, x>> \in less)
  <2> HIDE DEF less
  <2> QED BY <1>1, WFMin, Zenon
<1>3. \A y \in T : ~(y < x)
  BY <1>2
<1> QED BY <1>3

LEMMA MaxOfPositions ==
    ASSUME NEW n \in Nat, NEW S \in SUBSET (1..n), S # {}
    PROVE  Max(S) \in S /\ \A y \in S : Max(S) >= y
<1> DEFINE down == {n - i : i \in S}
<1>1. down \in SUBSET Nat /\ down # {}
  <2>1. \A i \in S : i \in 1..n /\ n - i \in Nat
    OBVIOUS
  <2>2. PICK i \in S : TRUE
    OBVIOUS
  <2>3. n - i \in down
    OBVIOUS
  <2> QED BY <2>1, <2>3
<1>2. PICK x \in down : \A y \in down : x <= y
  BY <1>1, Least
<1>3. PICK m \in S : x = n - m
  BY <1>2
<1>4. \A y \in S : m >= y
  BY <1>2, <1>3
<1> QED BY <1>4 DEF Max

\* What the latest report of a text is: one of its reports, or none.
LEMMA LatestIsRun ==
    ASSUME FileInv, NEW S \in SUBSET Loadable(file)
    PROVE  (IF S = {} THEN NoRun ELSE file[Max(S)].run) \in Runs \cup {NoRun}
<1>1. CASE S = {}
  BY <1>1
<1>2. CASE S # {}
  <2>1. Len(file) \in Nat /\ DOMAIN file = 1..Len(file)
    BY LenProperties DEF FileInv, Texts
  <2>2. S \in SUBSET (1..Len(file))
    BY <2>1 DEF Loadable, Readable, Sole
  <2>3. Max(S) \in S
    BY <1>2, <2>1, <2>2, MaxOfPositions
  <2>4. file[Max(S)] # NewLine /\ Max(S) \in DOMAIN file
    BY <2>3 DEF Loadable, Readable, Sole, NewLine
  <2> QED BY <1>2, <2>4, HistoryAssumption DEF FileInv, Texts
<1> QED BY <1>1, <1>2

\* A text appended at the end, whole or cut short.
LEMMA Appended ==
    ASSUME NEW old \in Seq(Tokens), NEW text \in Seq(Tokens), NEW new, new = old \o text
    PROVE  /\ Len(old) \in Nat /\ DOMAIN old = 1..Len(old)
           /\ new \in Seq(Tokens) /\ Len(text) \in Nat
           /\ DOMAIN new = 1..Len(old) + Len(text)
           /\ \A i \in DOMAIN old : i \in DOMAIN new /\ new[i] = old[i]
           /\ \A k \in 1..Len(text) : Len(old) + k \in DOMAIN new /\ new[Len(old) + k] = text[k]
<1>1. Len(old) \in Nat /\ DOMAIN old = 1..Len(old) /\ Len(text) \in Nat
  BY LenProperties
<1>2. /\ new \in Seq(Tokens) /\ Len(new) = Len(old) + Len(text)
      /\ \A i \in 1..Len(old) + Len(text) :
            new[i] = IF i <= Len(old) THEN old[i] ELSE text[i - Len(old)]
  BY ConcatProperties
<1>3. DOMAIN new = 1..Len(old) + Len(text)
  BY <1>2, LenProperties
<1>4. \A i \in DOMAIN old : i \in DOMAIN new /\ new[i] = old[i]
  BY <1>1, <1>2, <1>3
<1>5. ASSUME NEW k \in 1..Len(text)
      PROVE  Len(old) + k \in DOMAIN new /\ new[Len(old) + k] = text[k]
  <2>1. /\ Len(old) + k \in 1..Len(old) + Len(text) /\ ~(Len(old) + k <= Len(old))
        /\ (Len(old) + k) - Len(old) = k
    BY <1>1
  <2> QED BY <1>2, <1>3, <2>1
<1> QED BY <1>1, <1>2, <1>3, <1>4, <1>5

LEMMA TokenKinds ==
    ASSUME NEW r \in Runs
    PROVE  /\ NewLine \in Tokens /\ NewLine.kind = "newline"
           /\ Body(r).kind = "body" /\ Body(r).run = r /\ Body(r) # NewLine
           /\ \A text \in {Body(r), Piece(r), Torn(r)} :
                 text \in Tokens /\ text # NewLine /\ text.run = r
           /\ Piece(r).kind = "piece"
<1>1. /\ Body(r).kind = "body" /\ Piece(r).kind = "piece" /\ Torn(r).kind = "torn"
      /\ NewLine.kind = "newline"
      /\ Body(r).run = r /\ Piece(r).run = r /\ Torn(r).run = r
  BY DEF Body, Piece, Torn, NewLine
<1>2. NewLine \in Tokens /\ \A text \in {Body(r), Piece(r), Torn(r)} : text \in Tokens
  BY DEF Tokens
<1>3. \A text \in {Body(r), Piece(r), Torn(r)} : text # NewLine
  BY <1>1
<1> QED BY <1>1, <1>2, <1>3

\* A report written whole: only what stood at the end of the file before it can
\* spoil it, and that was cut short already.
LEMMA AppendKeeps ==
    ASSUME FileInv, NEW r \in Runs, AppendReport(r)
    PROVE  FileInv'
<1> DEFINE n == Len(file)
<1>0. /\ pc[r] = "scanned" /\ r \in Recording
      /\ file' = file \o <<Body(r), NewLine>>
      /\ recorded' = recorded \cup {r}
      /\ pc' = [pc EXCEPT ![r] = "recorded"]
      /\ UNCHANGED <<score, baseline, expected, exit>>
  BY DEF AppendReport
<1>1. Texts /\ Steps
  BY DEF FileInv
<1>2. /\ <<Body(r), NewLine>> \in Seq(Tokens) /\ Len(<<Body(r), NewLine>>) = 2
      /\ <<Body(r), NewLine>>[1] = Body(r) /\ <<Body(r), NewLine>>[2] = NewLine
  BY TokenKinds
<1>3. /\ n \in Nat /\ DOMAIN file = 1..n /\ file' \in Seq(Tokens)
      /\ DOMAIN file' = 1..n + 2
      /\ \A i \in DOMAIN file : i \in DOMAIN file' /\ file'[i] = file[i]
      /\ n + 1 \in DOMAIN file' /\ file'[n + 1] = Body(r)
      /\ n + 2 \in DOMAIN file' /\ file'[n + 2] = NewLine
  <2> DEFINE text == <<Body(r), NewLine>>
  <2>1. file \in Seq(Tokens)
    BY <1>1 DEF Texts
  <2>2. /\ n \in Nat /\ DOMAIN file = 1..n /\ file' \in Seq(Tokens)
        /\ DOMAIN file' = 1..n + Len(text)
        /\ \A i \in DOMAIN file : i \in DOMAIN file' /\ file'[i] = file[i]
        /\ \A k \in 1..Len(text) : n + k \in DOMAIN file' /\ file'[n + k] = text[k]
    <3> HIDE DEF text
    <3>1. text \in Seq(Tokens) /\ file' = file \o text
      BY <1>0, <1>2 DEF text
    <3> QED BY <2>1, <3>1, Appended
  <2>3. Len(text) = 2 /\ 1 \in 1..Len(text) /\ 2 \in 1..Len(text)
    BY <1>2
  <2> HIDE DEF n
  <2> QED BY <1>2, <2>2, <2>3
<1> HIDE DEF n
<1>4. \A i \in DOMAIN file' : i \in DOMAIN file \/ i = n + 1 \/ i = n + 2
  BY <1>3
<1>5. /\ Body(r) # NewLine /\ Body(r).run = r
      /\ \A i \in DOMAIN file : file[i] # NewLine => file[i].run # r /\ file[i].run \in Runs
  BY <1>0, <1>1, TokenKinds, HistoryAssumption DEF Texts
<1>6. \A u \in CutShort : u \in CutShort'
  BY <1>0, <1>1 DEF CutShort, Steps
<1>7. \A i, j \in DOMAIN file' :
         file'[i] # NewLine /\ file'[j] # NewLine /\ file'[i].run = file'[j].run => i = j
  BY <1>1, <1>3, <1>4, <1>5 DEF Texts
<1>8. \A i \in DOMAIN file' : file'[i] # NewLine =>
         file'[i].run \in Recording /\ pc'[file'[i].run] \notin {"scanning", "scanned"}
  BY <1>0, <1>1, <1>3, <1>4, <1>5, HistoryAssumption DEF Texts, Steps
<1>9. \A i \in DOMAIN file' :
         file'[i] # NewLine /\ (i + 1 \in DOMAIN file' => file'[i + 1] # NewLine)
         => file'[i].run \in CutShort'
  <2> SUFFICES ASSUME NEW i \in DOMAIN file', file'[i] # NewLine,
                      i + 1 \in DOMAIN file' => file'[i + 1] # NewLine
               PROVE  file'[i].run \in CutShort'
    OBVIOUS
  <2>1. i \in DOMAIN file
    <3>1. (n + 1) + 1 = n + 2
      BY <1>3
    <3> QED BY <1>3, <1>4, <3>1
  <2>2. i + 1 \in DOMAIN file => file[i + 1] # NewLine
    BY <1>3
  <2> QED BY <1>1, <1>3, <1>6, <2>1, <2>2 DEF Texts
<1>10. \A u \in recorded' : \E i \in DOMAIN file' :
          file'[i] = Body(u) /\ i + 1 \in DOMAIN file' /\ file'[i + 1] = NewLine
  <2> SUFFICES ASSUME NEW u \in recorded'
               PROVE  \E i \in DOMAIN file' :
                         file'[i] = Body(u) /\ i + 1 \in DOMAIN file' /\ file'[i + 1] = NewLine
    OBVIOUS
  <2>1. CASE u = r
    <3>1. (n + 1) + 1 = n + 2
      BY <1>3
    <3> QED BY <1>3, <2>1, <3>1
  <2>2. CASE u # r
    BY <1>0, <1>1, <1>3, <2>2 DEF Texts
  <2> QED BY <2>1, <2>2
<1>11. \A i \in DOMAIN file' : file'[i].kind = "torn" => file'[i].run \in CutShort' \cap Wide
  <2>1. Body(r).kind # "torn" /\ NewLine.kind # "torn"
    BY TokenKinds
  <2> QED BY <1>1, <1>3, <1>4, <1>6, <2>1 DEF Texts
<1>12. Texts'
  BY <1>3, <1>7, <1>8, <1>9, <1>10, <1>11 DEF Texts
<1>13. Steps'
  BY <1>0, <1>1, HistoryAssumption DEF Steps, Places
<1> QED BY <1>12, <1>13 DEF FileInv

\* A write that fails before its first byte leaves nothing.
LEMMA FailureKeeps ==
    ASSUME FileInv, NEW r \in Runs, pc[r] = "scanned",
           NEW code \in Codes \ {"none"}, file' = file,
           exit' = [exit EXCEPT ![r] = code], pc' = [pc EXCEPT ![r] = "ended"],
           UNCHANGED <<score, baseline, expected, recorded>>
    PROVE  FileInv'
<1>0. Texts /\ Steps /\ Recording \subseteq Runs
  BY HistoryAssumption DEF FileInv
<1>1. \A u \in CutShort : u \in CutShort'
  BY <1>0 DEF CutShort, Steps
<1>2. \A u \in Runs : pc[u] \notin {"scanning", "scanned"} => pc'[u] \notin {"scanning", "scanned"}
  BY <1>0 DEF Steps
<1>3. Texts'
  BY <1>0, <1>1, <1>2 DEF Texts
<1>4. Steps'
  BY <1>0 DEF Steps, Places, Codes
<1> QED BY <1>3, <1>4 DEF FileInv

\* A write that is cut short leaves one text, and its run among those cut short.
LEMMA CutShortKeeps ==
    ASSUME FileInv, NEW r \in Runs, NEW piece \in {Piece(r), Body(r), Torn(r)},
           piece.kind = "torn" => r \in Wide, NEW code \in {"usage", "killed"},
           NEW text, text = <<piece>>,
           pc[r] = "scanned", r \in Recording, file' = file \o text,
           exit' = [exit EXCEPT ![r] = code], pc' = [pc EXCEPT ![r] = "ended"],
           UNCHANGED <<score, baseline, expected, recorded>>
    PROVE  FileInv'
<1> DEFINE n == Len(file)
<1>0. /\ pc[r] = "scanned" /\ r \in Recording
      /\ file' = file \o text
      /\ exit' = [exit EXCEPT ![r] = code]
      /\ pc' = [pc EXCEPT ![r] = "ended"]
      /\ UNCHANGED <<score, baseline, expected, recorded>>
  OBVIOUS
<1>1. Texts /\ Steps
  BY DEF FileInv
<1>2. piece \in Tokens /\ piece # NewLine /\ piece.run = r
  BY TokenKinds
<1>3. /\ n \in Nat /\ DOMAIN file = 1..n /\ file' \in Seq(Tokens)
      /\ DOMAIN file' = 1..n + 1
      /\ \A i \in DOMAIN file : i \in DOMAIN file' /\ file'[i] = file[i]
      /\ n + 1 \in DOMAIN file' /\ file'[n + 1] = piece
  <2>1. file \in Seq(Tokens)
    BY <1>1 DEF Texts
  <2>2. text \in Seq(Tokens) /\ Len(text) = 1 /\ text[1] = piece
    BY <1>2
  <2>3. /\ n \in Nat /\ DOMAIN file = 1..n /\ file' \in Seq(Tokens)
        /\ DOMAIN file' = 1..n + Len(text)
        /\ \A i \in DOMAIN file : i \in DOMAIN file' /\ file'[i] = file[i]
        /\ \A k \in 1..Len(text) : n + k \in DOMAIN file' /\ file'[n + k] = text[k]
    BY <1>0, <2>1, <2>2, Appended
  <2>4. 1 \in 1..Len(text)
    BY <2>2
  <2> HIDE DEF n
  <2> QED BY <2>2, <2>3, <2>4
<1> HIDE DEF n
<1>4. \A i \in DOMAIN file' : i \in DOMAIN file \/ i = n + 1
  BY <1>3
<1>5. \A i \in DOMAIN file : file[i] # NewLine => file[i].run # r /\ file[i].run \in Runs
  BY <1>0, <1>1, HistoryAssumption DEF Texts
<1>6. r \in CutShort' /\ \A u \in CutShort : u \in CutShort'
  <2>1. r \notin recorded /\ exit'[r] = code
    BY <1>0, <1>1 DEF Steps
  <2> QED BY <1>0, <1>1, <2>1 DEF CutShort, Steps
<1>7. \A i, j \in DOMAIN file' :
         file'[i] # NewLine /\ file'[j] # NewLine /\ file'[i].run = file'[j].run => i = j
  BY <1>1, <1>2, <1>3, <1>4, <1>5 DEF Texts
<1>8. \A i \in DOMAIN file' : file'[i] # NewLine =>
         file'[i].run \in Recording /\ pc'[file'[i].run] \notin {"scanning", "scanned"}
  BY <1>0, <1>1, <1>2, <1>3, <1>4, <1>5, HistoryAssumption DEF Texts, Steps
<1>9. \A i \in DOMAIN file' :
         file'[i] # NewLine /\ (i + 1 \in DOMAIN file' => file'[i + 1] # NewLine)
         => file'[i].run \in CutShort'
  <2> SUFFICES ASSUME NEW i \in DOMAIN file', file'[i] # NewLine,
                      i + 1 \in DOMAIN file' => file'[i + 1] # NewLine
               PROVE  file'[i].run \in CutShort'
    OBVIOUS
  <2>1. CASE i \in DOMAIN file
    <3>1. i + 1 \in DOMAIN file => file[i + 1] # NewLine
      BY <1>3
    <3> QED BY <1>1, <1>3, <1>6, <2>1, <3>1 DEF Texts
  <2>2. CASE i = n + 1
    BY <1>2, <1>3, <1>6, <2>2
  <2> QED BY <1>4, <2>1, <2>2
<1>10. \A u \in recorded' : \E i \in DOMAIN file' :
          file'[i] = Body(u) /\ i + 1 \in DOMAIN file' /\ file'[i + 1] = NewLine
  BY <1>0, <1>1, <1>3 DEF Texts
<1>11. \A i \in DOMAIN file' : file'[i].kind = "torn" => file'[i].run \in CutShort' \cap Wide
  BY <1>1, <1>2, <1>3, <1>4, <1>6 DEF Texts
<1>12. Texts'
  BY <1>3, <1>7, <1>8, <1>9, <1>10, <1>11 DEF Texts
<1>13. Steps'
  BY <1>0, <1>1, HistoryAssumption DEF Steps, Places, Codes
<1> QED BY <1>12, <1>13 DEF FileInv

LEMMA WriteFailsKeeps ==
    ASSUME FileInv, NEW r \in Runs, AppendCutShort(r) \/ AppendRaises(r)
    PROVE  FileInv'
<1>1. CASE AppendRaises(r)
  BY <1>1, FailureKeeps DEF AppendRaises, Codes
<1>2. CASE AppendCutShort(r)
  <2>1. PICK text \in {<<>>, <<Piece(r)>>, <<Body(r)>>} \cup (IF r \in Wide THEN {<<Torn(r)>>} ELSE {}),
             code \in {"usage", "killed"} :
           /\ pc[r] = "scanned" /\ r \in Recording
           /\ file' = file \o text
           /\ exit' = [exit EXCEPT ![r] = code]
           /\ pc' = [pc EXCEPT ![r] = "ended"]
           /\ UNCHANGED <<score, baseline, expected, recorded>>
    BY <1>2 DEF AppendCutShort
  <2>2. CASE text = <<>>
    <3>1. file' = file
      BY <2>1, <2>2, ConcatEmptySeq DEF FileInv, Texts
    <3> QED BY <2>1, <3>1, FailureKeeps DEF Codes
  <2>3. CASE text # <<>>
    <3>1. Piece(r).kind # "torn" /\ Body(r).kind # "torn"
      BY TokenKinds
    <3>2. CASE text = <<Piece(r)>>
      BY <2>1, <3>1, <3>2, CutShortKeeps
    <3>3. CASE text = <<Body(r)>>
      BY <2>1, <3>1, <3>3, CutShortKeeps
    <3>4. CASE text = <<Torn(r)>> /\ r \in Wide
      BY <2>1, <3>4, CutShortKeeps
    <3> QED BY <2>1, <2>3, <3>2, <3>3, <3>4
  <2> QED BY <2>2, <2>3
<1> QED BY <1>1, <1>2

\* The other steps of a run leave the file alone.
LEMMA OthersKeep ==
    ASSUME FileInv, NEW r \in Runs,
           \/ ScanEnds(r) \/ SkipHistory(r) \/ Compare(r) \/ NoBaseline(r) \/ BaselineRaises(r)
           \/ SkipCompare(r) \/ Finish(r)
    PROVE  FileInv'
<1>0. Texts /\ Steps
  BY DEF FileInv
<1>1. /\ file' = file /\ recorded' = recorded /\ score' = score
      /\ \A u \in Runs : pc[u] \notin {"scanning", "scanned"} => pc'[u] \notin {"scanning", "scanned"}
      /\ \A u \in Runs : exit[u] # "none" => exit'[u] = exit[u]
  BY <1>0 DEF ScanEnds, SkipHistory, Compare, NoBaseline, BaselineRaises, SkipCompare, Finish, Steps
<1>2. \A u \in CutShort : u \in CutShort'
  BY <1>1, HistoryAssumption DEF CutShort
<1>3. Texts'
  BY <1>0, <1>1, <1>2, HistoryAssumption DEF Texts
<1>4. Steps'
  <2>1. CASE ScanEnds(r) \/ SkipHistory(r) \/ SkipCompare(r)
    BY <1>0, <2>1, HistoryAssumption DEF Steps, Places, ScanEnds, SkipHistory, SkipCompare
  <2>2. CASE Compare(r)
    <3>1. Latest(file) \in Runs \cup {NoRun}
      BY LatestIsRun DEF Latest
    <3>2. LatestOfOthers(r) \in Runs \cup {NoRun}
      <4> DEFINE others == {i \in Loadable(file) : file[i].run # r}
      <4>1. others \in SUBSET Loadable(file)
        OBVIOUS
      <4>2. LatestOfOthers(r) = IF others = {} THEN NoRun ELSE file[Max(others)].run
        BY DEF LatestOfOthers
      <4> HIDE DEF others
      <4> QED BY <4>1, <4>2, LatestIsRun
    <3> QED BY <1>0, <2>2, <3>1, <3>2, HistoryAssumption DEF Steps, Places, Compare
  <2>3. CASE NoBaseline(r) \/ BaselineRaises(r) \/ Finish(r)
    BY <1>0, <2>3, HistoryAssumption DEF Steps, Places, Codes, NoBaseline, BaselineRaises, Finish
  <2> QED BY <2>1, <2>2, <2>3
<1> QED BY <1>3, <1>4 DEF FileInv

LEMMA FileInvHolds == Spec => []FileInv
<1>1. Init => FileInv
  <2> SUFFICES ASSUME Init PROVE FileInv
    OBVIOUS
  <2>1. file \in Seq(Tokens) /\ DOMAIN file = {} /\ recorded = {}
    BY DEF Init
  <2>2. Texts
    BY <2>1 DEF Texts
  <2>3. Steps
    BY HistoryAssumption DEF Init, Steps, Places, Codes
  <2> QED BY <2>2, <2>3 DEF FileInv
<1>2. FileInv /\ [Next]_vars => FileInv'
  <2> SUFFICES ASSUME FileInv, [Next]_vars PROVE FileInv'
    OBVIOUS
  <2>1. CASE UNCHANGED vars
    BY <2>1 DEF vars, FileInv, Texts, Steps, CutShort
  <2> QED BY <2>1, AppendKeeps, WriteFailsKeeps, OthersKeep DEF Next, Run
<1> QED BY <1>1, <1>2, PTL DEF Spec

\* As long as no write was cut inside a character, each that was cut short
\* costs at most one of the reports that were recorded whole, whichever
\* processes wrote at the same time, those with a line separator of Unicode in
\* them aside; and only such a write makes the file one that cannot be decoded
\* (history.read, history.append). What that costs is shown by the run
\* History_cut_short.
THEOREM LossIsBounded == Spec => []LossBounded
<1> DEFINE Lost == (recorded \ Split) \ OnRecord
           place(r) == CHOOSE i \in DOMAIN file :
                          file[i] = Body(r) /\ i + 1 \in DOMAIN file /\ file[i + 1] = NewLine
           spoiler == [r \in Lost |-> file[place(r) - 1].run]
<1>1. ASSUME FileInv, ~Decodable(file)
      PROVE  CutShort \cap Wide # {}
  BY <1>1 DEF FileInv, Texts, Decodable
<1>2. ASSUME FileInv, Decodable(file)
      PROVE  Cardinality(Lost) <= Cardinality(CutShort)
  <2>0. /\ Texts /\ Steps /\ Len(file) \in Nat /\ DOMAIN file = 1..Len(file)
    BY <1>2, LenProperties DEF FileInv, Texts
  <2>1. ASSUME NEW r \in Lost
        PROVE  /\ place(r) \in DOMAIN file /\ file[place(r)] = Body(r)
               /\ place(r) - 1 \in DOMAIN file /\ file[place(r) - 1] # NewLine
               /\ file[place(r) - 1].run \in CutShort
    <3>1. /\ place(r) \in DOMAIN file /\ file[place(r)] = Body(r)
          /\ place(r) + 1 \in DOMAIN file /\ file[place(r) + 1] = NewLine
      BY <2>0 DEF Texts
    <3> HIDE DEF place
    <3>2. r \in Runs /\ Body(r).kind = "body" /\ Body(r).run = r /\ Body(r) # NewLine
      BY <2>0, TokenKinds, HistoryAssumption DEF Steps, Body
    <3>3. place(r) \notin Readable(file)
      BY <3>1, <3>2 DEF OnRecord
    <3>4. place(r) > 1 /\ file[place(r) - 1] # NewLine
      BY <1>2, <2>0, <3>1, <3>2, <3>3 DEF Readable
    <3>5. place(r) - 1 \in DOMAIN file /\ (place(r) - 1) + 1 = place(r)
      BY <2>0, <3>1, <3>4
    <3> QED BY <2>0, <3>1, <3>2, <3>4, <3>5 DEF Texts
  <2> HIDE DEF place
  <2>2. spoiler \in [Lost -> CutShort]
    BY <2>1
  <2>3. ASSUME NEW q \in Lost, NEW r \in Lost, spoiler[q] = spoiler[r]
        PROVE  q = r
    <3>1. place(q) - 1 = place(r) - 1
      BY <2>0, <2>1, <2>3 DEF Texts
    <3>2. place(q) = place(r)
      BY <2>0, <2>1, <3>1
    <3>3. Body(q) = Body(r) /\ Body(q).run = q /\ Body(r).run = r
      BY <2>1, <3>2 DEF Body
    <3> QED BY <3>3
  <2>4. spoiler \in Injection(Lost, CutShort)
    <3> HIDE DEF spoiler, Lost
    <3> QED BY <2>2, <2>3 DEF Injection, IsInjective
  <2>5. IsFiniteSet(CutShort)
    BY HistoryAssumption, FS_Subset DEF CutShort
  <2> HIDE DEF spoiler, Lost
  <2> QED BY <2>4, <2>5, FS_Injection
<1>3. FileInv => LossBounded
  BY <1>1, <1>2 DEF LossBounded
<1> QED BY <1>3, FileInvHolds, PTL

-----------------------------------------------------------------------------
\* Where no run both records and gates, one that gates has nothing in the file,
\* so what it is compared with is the last report of the others.
Gated ==
    \A r \in Gating :
        /\ pc[r] \in {"compared", "ended"} => baseline[r] = expected[r]
        /\ pc[r] \notin {"compared", "ended"} => baseline[r] = NoRun /\ expected[r] = NoRun
        /\ exit[r] = "ok" /\ expected[r] # NoRun => score[r] >= score[expected[r]]

LEMMA LatestIsOfOthers ==
    ASSUME FileInv, Gating \cap Recording = {}, NEW r \in Gating
    PROVE  LatestOfOthers(r) = Latest(file)
<1>1. \A i \in Loadable(file) : file[i] # NewLine /\ file[i].run \in Recording
  BY DEF FileInv, Texts, Loadable, Readable, Sole, NewLine
<1>2. {i \in Loadable(file) : file[i].run # r} = Loadable(file)
  BY <1>1
<1> QED BY <1>2 DEF LatestOfOthers, Latest

LEMMA GatedKept ==
    ASSUME FileInv, Gated, Gating \cap Recording = {}, NEW r \in Runs, Run(r)
    PROVE  Gated'
<1>1. Steps /\ NoRun \notin Runs /\ Gating \subseteq Runs
  BY HistoryAssumption DEF FileInv
<1>2. CASE Compare(r)
  <2>1. LatestOfOthers(r) = Latest(file)
    BY <1>2, LatestIsOfOthers DEF Compare
  <2> QED BY <1>1, <1>2, <2>1 DEF Compare, Gated, Steps
<1>3. CASE Finish(r)
  <2>1. CASE r \in Gating
    <3>1. exit'[r] = "ok" /\ expected[r] # NoRun => score[r] >= score[expected[r]]
      <4> SUFFICES ASSUME exit'[r] = "ok", expected[r] # NoRun
                   PROVE  score[r] >= score[expected[r]]
        OBVIOUS
      <4>1. ~(score[r] < score[expected[r]])
        BY <1>1, <1>3, <2>1 DEF Finish, Gated, Steps, Regressed
      <4>2. score[r] \in Int /\ score[expected[r]] \in Int
        BY <1>1 DEF Steps, Scores
      <4> QED BY <4>1, <4>2
    <3> QED BY <1>1, <1>3, <2>1, <3>1 DEF Finish, Gated, Steps
  <2>2. CASE r \notin Gating
    BY <1>1, <1>3, <2>2 DEF Finish, Gated, Steps
  <2> QED BY <2>1, <2>2
<1>4. CASE NoBaseline(r) \/ BaselineRaises(r)
  BY <1>1, <1>4 DEF NoBaseline, BaselineRaises, Gated, Steps
<1>5. CASE ScanEnds(r) \/ SkipHistory(r) \/ AppendReport(r)
  BY <1>1, <1>5 DEF ScanEnds, SkipHistory, AppendReport, Gated, Steps
<1>6. CASE AppendCutShort(r) \/ AppendRaises(r)
  BY <1>1, <1>6 DEF AppendCutShort, AppendRaises, Gated, Steps
<1>7. CASE SkipCompare(r)
  BY <1>1, <1>7 DEF SkipCompare, Gated, Steps
<1> QED BY <1>2, <1>3, <1>4, <1>5, <1>6, <1>7 DEF Run

\* Where no run both records and gates, one that passes its gate has a report at
\* least as good as the last one that another run had put on record
\* (load_baseline, compare, main). A run that does both compares its report with
\* itself: see the run History_same_file.
THEOREM GateIsHonest ==
    ASSUME Gating \cap Recording = {}
    PROVE  Spec => []GateHonest
<1>1. Init => Gated
  BY HistoryAssumption DEF Init, Gated
<1>2. FileInv /\ Gated /\ [Next]_vars => Gated'
  <2> SUFFICES ASSUME FileInv, Gated, [Next]_vars PROVE Gated'
    OBVIOUS
  <2>1. CASE UNCHANGED vars
    BY <2>1 DEF vars, Gated
  <2> QED BY <2>1, GatedKept DEF Next
<1>3. Gated => GateHonest
  BY DEF Gated, GateHonest
<1> QED BY <1>1, <1>2, <1>3, FileInvHolds, PTL DEF Spec
=============================================================================
