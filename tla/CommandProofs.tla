--------------------------- MODULE CommandProofs ----------------------------
(***************************************************************************)
(* What a run of the command line means, for any set of arguments, files   *)
(* and results of scans: an exit code 0 is earned by every server and      *)
(* every gate, what was asked for is delivered or the run ends in 2 or in  *)
(* a traceback, an export is whole, the policy is the one that was asked   *)
(* for, the shipped plugins stay, and every server that was named is       *)
(* scanned once. The lists are made by loops that keep some of what they pass and  *)
(* put lists one after the other: the lemmas about Kept and FlattenSeq     *)
(* come first.                                                             *)
(***************************************************************************)
EXTENDS Command, SequenceTheorems, FiniteSetTheorems, TLAPS

-----------------------------------------------------------------------------
(* What a loop keeps of a sequence                                         *)

\* A set of naturals has a least element.
LEMMA Least ==
    ASSUME NEW T \in SUBSET Nat, T # {}
    PROVE  \E x \in T : \A y \in T : x <= y
<1> DEFINE less == {ss \in Nat \X Nat : ss[1] < ss[2]}
<1>1. IsWellFoundedOn(less, Nat)
  BY NatLessThanWellFounded DEF OpToRel
<1>2. PICK x \in T : \A y \in T : ~(<<y, x>> \in less)
  <2> HIDE DEF less
  <2> QED BY <1>1, WFMin, Zenon
<1>3. \A y \in T : ~(y < x)
  BY <1>2
<1> QED BY <1>3

\* Among places, the k-th exists for every k up to their number, each place is
\* the k-th for one k, and the k-th are in order.
LEMMA Places ==
    ASSUME NEW n \in Nat, NEW places \in SUBSET (1..n)
    PROVE  /\ Cardinality(places) \in Nat
           /\ \A k \in 1..Cardinality(places) : PlaceOf(places, k) \in places
           /\ \A k, m \in 1..Cardinality(places) :
                 PlaceOf(places, k) = PlaceOf(places, m) => k = m
           /\ \A i \in places : \E k \in 1..Cardinality(places) : PlaceOf(places, k) = i
           /\ \A k, m \in 1..Cardinality(places) :
                 k < m => PlaceOf(places, k) < PlaceOf(places, m)
<1> DEFINE below(i) == {j \in places : j < i}
           c == Cardinality(places)
           rank == [i \in places |-> Cardinality(below(i)) + 1]
<1>1. IsFiniteSet(places) /\ c \in Nat
  <2>1. IsFiniteSet(1..n)
    BY FS_Interval
  <2>2. IsFiniteSet(places)
    BY <2>1, FS_Subset
  <2> QED BY <2>2, FS_CardinalityType
<1>2. ASSUME NEW i \in places
      PROVE  /\ IsFiniteSet(below(i)) /\ Cardinality(below(i)) \in Nat
             /\ Cardinality(below(i)) < c
  <2>1. IsFiniteSet(below(i)) /\ Cardinality(below(i)) \in Nat /\ Cardinality(below(i)) <= c
    BY <1>1, FS_Subset, FS_CardinalityType
  <2>2. i \notin below(i)
    OBVIOUS
  <2>3. Cardinality(below(i)) # c
    BY <1>1, <2>2, FS_Subset
  <2> QED BY <1>1, <2>1, <2>3
<1>3. ASSUME NEW i \in places, NEW j \in places, i < j
      PROVE  Cardinality(below(i)) < Cardinality(below(j))
  <2>1. below(i) \in SUBSET below(j)
    <3> SUFFICES ASSUME NEW x \in places, x < i PROVE x < j
      OBVIOUS
    <3>1. x \in Nat /\ i \in Nat /\ j \in Nat
      OBVIOUS
    <3> QED BY <1>3, <3>1
  <2>2. i \in below(j) /\ i \notin below(i)
    BY <1>3
  <2>3. /\ Cardinality(below(i)) <= Cardinality(below(j))
        /\ Cardinality(below(i)) # Cardinality(below(j))
    BY <1>2, <2>1, <2>2, FS_Subset
  <2> QED BY <1>2, <2>3
<1>4. \A i, j \in places : Cardinality(below(i)) = Cardinality(below(j)) => i = j
  <2> TAKE i \in places, j \in places
  <2>1. i \in Nat /\ j \in Nat
    OBVIOUS
  <2>2. i < j => Cardinality(below(i)) < Cardinality(below(j))
    BY <1>3
  <2>3. j < i => Cardinality(below(j)) < Cardinality(below(i))
    BY <1>3
  <2>4. Cardinality(below(i)) \in Nat /\ Cardinality(below(j)) \in Nat
    BY <1>2
  <2> HIDE DEF below
  <2> QED BY <2>1, <2>2, <2>3, <2>4
<1>5. rank \in Surjection(places, 1..c)
  <2>1. \A i \in places : rank[i] \in 1..c
    <3> TAKE i \in places
    <3>1. Cardinality(below(i)) \in Nat /\ Cardinality(below(i)) < c
      BY <1>2
    <3> HIDE DEF below
    <3> QED BY <1>1, <3>1
  <2>2. \A i, j \in places : rank[i] = rank[j] => i = j
    <3> TAKE i \in places, j \in places
    <3>1. Cardinality(below(i)) \in Nat /\ Cardinality(below(j)) \in Nat
      BY <1>2
    <3>2. Cardinality(below(i)) = Cardinality(below(j)) => i = j
      BY <1>4
    <3> HIDE DEF below
    <3> QED BY <3>1, <3>2
  <2>3. rank \in Injection(places, 1..c)
    BY <2>1, <2>2 DEF Injection, IsInjective
  <2>4. IsFiniteSet(1..c) /\ Cardinality(1..c) = c
    BY <1>1, FS_Interval
  <2> QED BY <2>3, <2>4, FS_Injection
<1>6. \A k \in 1..c : \E i \in places : Cardinality(below(i)) = k - 1
  <2> TAKE k \in 1..c
  <2>1. PICK i \in places : rank[i] = k
    BY <1>5 DEF Surjection
  <2>2. Cardinality(below(i)) + 1 = k /\ Cardinality(below(i)) \in Nat
    BY <1>2, <2>1
  <2> QED BY <2>2
<1>7. \A k \in 1..c : /\ PlaceOf(places, k) \in places
                      /\ Cardinality(below(PlaceOf(places, k))) = k - 1
  BY <1>6 DEF PlaceOf
<1>8. \A i \in places : \E k \in 1..c : PlaceOf(places, k) = i
  <2> TAKE i \in places
  <2>1. Cardinality(below(i)) \in Nat /\ Cardinality(below(i)) < c
    BY <1>2
  <2> DEFINE k == Cardinality(below(i)) + 1
  <2>2. k \in 1..c /\ k - 1 = Cardinality(below(i))
    BY <1>1, <2>1
  <2>3. PlaceOf(places, k) \in places /\ Cardinality(below(PlaceOf(places, k))) = k - 1
    BY <1>7, <2>2
  <2>4. PlaceOf(places, k) = i
    BY <1>4, <2>2, <2>3
  <2> QED BY <2>2, <2>4
<1>9. \A k, m \in 1..c : PlaceOf(places, k) = PlaceOf(places, m) => k = m
  <2> TAKE k \in 1..c, m \in 1..c
  <2>1. PlaceOf(places, k) = PlaceOf(places, m) => k - 1 = m - 1
    BY <1>7
  <2> QED BY <1>1, <2>1
<1>10. \A k, m \in 1..c : k < m => PlaceOf(places, k) < PlaceOf(places, m)
  <2> TAKE k \in 1..c, m \in 1..c
  <2> DEFINE p == PlaceOf(places, k)
             q == PlaceOf(places, m)
  <2>1. /\ p \in places /\ q \in places
        /\ Cardinality(below(p)) = k - 1 /\ Cardinality(below(q)) = m - 1
    BY <1>7
  <2>2. q < p => Cardinality(below(q)) < Cardinality(below(p))
    BY <1>3, <2>1
  <2> HIDE DEF below, p, q
  <2>3. p \in Nat /\ q \in Nat /\ (p = q => k - 1 = m - 1)
    BY <2>1
  <2>4. k < m => p < q
    BY <1>1, <2>1, <2>2, <2>3
  <2> QED BY <2>4 DEF p, q
<1> QED BY <1>1, <1>7, <1>8, <1>9, <1>10

LEMMA KeptIs ==
    ASSUME NEW S, NEW seq \in Seq(S), NEW places \in SUBSET DOMAIN seq
    PROVE  /\ Kept(seq, places) \in Seq(S)
           /\ DOMAIN Kept(seq, places) = 1..Cardinality(places)
           /\ \A k \in DOMAIN Kept(seq, places) :
                 /\ PlaceOf(places, k) \in places
                 /\ Kept(seq, places)[k] = seq[PlaceOf(places, k)]
           /\ \A k, m \in DOMAIN Kept(seq, places) :
                 PlaceOf(places, k) = PlaceOf(places, m) => k = m
           /\ \A i \in places : \E k \in DOMAIN Kept(seq, places) :
                 PlaceOf(places, k) = i /\ Kept(seq, places)[k] = seq[i]
           /\ \A k, m \in DOMAIN Kept(seq, places) :
                 k < m => PlaceOf(places, k) < PlaceOf(places, m)
<1>1. Len(seq) \in Nat /\ places \in SUBSET (1..Len(seq)) /\ \A i \in places : seq[i] \in S
  BY LenProperties, ElementOfSeq
<1>2. /\ Cardinality(places) \in Nat
      /\ \A k \in 1..Cardinality(places) : PlaceOf(places, k) \in places
      /\ \A k, m \in 1..Cardinality(places) : PlaceOf(places, k) = PlaceOf(places, m) => k = m
      /\ \A i \in places : \E k \in 1..Cardinality(places) : PlaceOf(places, k) = i
      /\ \A k, m \in 1..Cardinality(places) : k < m => PlaceOf(places, k) < PlaceOf(places, m)
  BY <1>1, Places
<1>3. Kept(seq, places) = [k \in 1..Cardinality(places) |-> seq[PlaceOf(places, k)]]
  BY DEF Kept
<1>4. \A k \in 1..Cardinality(places) : seq[PlaceOf(places, k)] \in S
  BY <1>1, <1>2
<1>5. Kept(seq, places) \in Seq(S)
  BY <1>2, <1>3, <1>4, IsASeq
<1> QED BY <1>2, <1>3, <1>5

\* The parts of a list of lists, one after the other. The recursive function is
\* there for every length, by the shortest length for which it would not be.
LEMMA Flattening ==
    ASSUME NEW S, NEW parts \in Seq(Seq(S)), parts # <<>>
    PROVE  \E joined : /\ FlattenSeq(parts) = joined[Len(parts)]
                       /\ joined[1] = parts[1]
                       /\ \A i \in 2..Len(parts) : joined[i] = joined[i - 1] \o parts[i]
                       /\ \A i \in 1..Len(parts) : joined[i] \in Seq(S)
<1> DEFINE n == Len(parts)
           joins(g, m) == g = [i \in 1..m |-> IF i = 1 THEN parts[i] ELSE g[i - 1] \o parts[i]]
           failing == {m \in 0..n : ~\E g : joins(g, m)}
           f == CHOOSE g : joins(g, n)
           wrong == {i \in 1..n : f[i] \notin Seq(S)}
<1>1. n \in Nat /\ DOMAIN parts = 1..n /\ \A i \in 1..n : parts[i] \in Seq(S)
  BY LenProperties, ElementOfSeq
<1>2. failing \subseteq 0..n /\ wrong \subseteq 1..n
  OBVIOUS
<1> HIDE DEF n, joins
<1>3. failing = {}
  <2> SUFFICES ASSUME failing # {} PROVE FALSE
    OBVIOUS
  <2>1. PICK m \in failing : \A y \in failing : m <= y
    <3> HIDE DEF failing
    <3>1. failing \in SUBSET Nat
      BY <1>1, <1>2
    <3> QED BY <3>1, Least
  <2>2. m \in 0..n /\ ~\E g : joins(g, m)
    BY <2>1
  <2>3. m # 0
    <3>1. joins(<<>>, 0)
      BY DEF joins
    <3> QED BY <2>2, <3>1
  <2>4. m \in Nat /\ m - 1 \in 0..n /\ ~(m <= m - 1)
    <3> HIDE DEF failing
    <3> QED BY <1>1, <2>2, <2>3
  <2>5. \E g : joins(g, m - 1)
    BY <2>1, <2>4
  <2>6. PICK g : joins(g, m - 1)
    BY <2>5
  <2> DEFINE h == [i \in 1..m |-> IF i = 1 THEN parts[i] ELSE g[i - 1] \o parts[i]]
  <2>7. \A i \in 1..m : i # 1 => i - 1 \in 1..m - 1 /\ i - 1 \in 1..m
    <3> HIDE DEF failing
    <3> QED BY <2>4
  <2>8. \A i \in 1..m - 1 : h[i] = g[i]
    <3> HIDE DEF failing
    <3>1. \A i \in 1..m - 1 : i \in 1..m
      BY <2>4
    <3> QED BY <2>6, <3>1 DEF joins
  <2>9. joins(h, m)
    <3> HIDE DEF failing
    <3>1. \A i \in 1..m : i # 1 => h[i - 1] = g[i - 1]
      <4> HIDE DEF h
      <4> QED BY <2>7, <2>8
    <3> QED BY <3>1 DEF joins
  <2> HIDE DEF h
  <2> QED BY <2>2, <2>9
<1>4. joins(f, n)
  <2>1. n \in 0..n /\ n \notin failing
    <3> HIDE DEF failing
    <3> QED BY <1>1, <1>3
  <2>2. \E g : joins(g, n)
    BY <2>1
  <2> QED BY <2>2
<1>5. \A i \in 1..n : f[i] = IF i = 1 THEN parts[i] ELSE f[i - 1] \o parts[i]
  <2> HIDE DEF f
  <2> QED BY <1>4 DEF joins
<1> HIDE DEF f
<1>6. wrong = {}
  <2> SUFFICES ASSUME wrong # {} PROVE FALSE
    OBVIOUS
  <2>1. PICK m \in wrong : \A y \in wrong : m <= y
    <3> HIDE DEF wrong
    <3>1. wrong \in SUBSET Nat
      BY <1>1, <1>2
    <3> QED BY <3>1, Least
  <2>2. m \in 1..n /\ f[m] = IF m = 1 THEN parts[m] ELSE f[m - 1] \o parts[m]
    BY <1>5, <2>1
  <2>3. m # 1
    BY <1>1, <2>1, <2>2
  <2>4. m \in Nat /\ m - 1 \in 1..n /\ ~(m <= m - 1)
    <3> HIDE DEF wrong
    <3> QED BY <1>1, <2>2, <2>3
  <2>5. f[m - 1] \in Seq(S) /\ parts[m] \in Seq(S)
    BY <1>1, <2>1, <2>2, <2>4
  <2>6. f[m - 1] \o parts[m] \in Seq(S)
    BY <2>5, ConcatProperties
  <2> QED BY <2>1, <2>2, <2>3, <2>6
<1>7. FlattenSeq(parts) = IF n = 0 THEN parts ELSE f[n]
  BY DEF FlattenSeq, n, f, joins
<1>8. n # 0
  BY EmptySeq DEF n
<1>9. f[1] = parts[1] /\ \A i \in 2..n : f[i] = f[i - 1] \o parts[i]
  <2>1. 1 \in 1..n /\ \A i \in 2..n : i \in 1..n /\ i # 1
    BY <1>1, <1>8
  <2> QED BY <1>5, <2>1
<1>10. \A i \in 1..n : f[i] \in Seq(S)
  BY <1>6
<1>11. FlattenSeq(parts) = f[n]
  BY <1>7, <1>8
<1> HIDE DEF wrong
<1> QED BY <1>9, <1>10, <1>11 DEF n

\* It is a list, and begins with its first part.
LEMMA Flattened ==
    ASSUME NEW S, NEW parts \in Seq(Seq(S))
    PROVE  /\ FlattenSeq(parts) \in Seq(S)
           /\ parts # <<>> =>
                 /\ Len(parts[1]) <= Len(FlattenSeq(parts))
                 /\ \A k \in 1..Len(parts[1]) : FlattenSeq(parts)[k] = parts[1][k]
<1> DEFINE n == Len(parts)
<1>1. n \in Nat /\ DOMAIN parts = 1..n /\ \A i \in 1..n : parts[i] \in Seq(S)
  BY LenProperties, ElementOfSeq
<1>2. CASE parts = <<>>
  <2>1. FlattenSeq(parts) = parts
    BY <1>2 DEF FlattenSeq
  <2>2. <<>> \in Seq(S)
    BY EmptySeq
  <2> QED BY <1>2, <2>1, <2>2
<1>3. CASE parts # <<>>
  <2>1. PICK joined :
           /\ FlattenSeq(parts) = joined[n] /\ joined[1] = parts[1]
           /\ \A i \in 2..n : joined[i] = joined[i - 1] \o parts[i]
           /\ \A i \in 1..n : joined[i] \in Seq(S)
    BY <1>3, Flattening
  <2>2. n # 0
    BY <1>3, EmptySeq
  <2> DEFINE begins(list) == /\ Len(parts[1]) <= Len(list)
                             /\ \A k \in 1..Len(parts[1]) : list[k] = parts[1][k]
             wrong == {i \in 1..n : ~begins(joined[i])}
  <2>3. 1 \in 1..n /\ Len(parts[1]) \in Nat
    <3>1. 1 \in 1..n
      BY <1>1, <2>2
    <3>2. parts[1] \in Seq(S)
      BY <1>1, <3>1
    <3> QED BY <3>1, <3>2, LenProperties
  <2> HIDE DEF n
  <2>4. wrong = {}
    <3> SUFFICES ASSUME wrong # {} PROVE FALSE
      OBVIOUS
    <3>0. wrong \subseteq 1..n
      OBVIOUS
    <3>1. PICK m \in wrong : \A y \in wrong : m <= y
      <4> HIDE DEF wrong
      <4>1. wrong \in SUBSET Nat
        BY <1>1, <3>0
      <4> QED BY <4>1, Least
    <3>2. m \in 1..n /\ ~begins(joined[m])
      BY <3>1
    <3>3. m # 1
      <4>1. begins(parts[1])
        BY <2>3
      <4> HIDE DEF begins
      <4> QED BY <2>1, <3>2, <4>1
    <3>4. m \in Nat /\ m \in 2..n /\ m - 1 \in 1..n /\ ~(m <= m - 1)
      <4> HIDE DEF wrong, begins
      <4> QED BY <1>1, <3>2, <3>3
    <3>5. begins(joined[m - 1])
      <4> HIDE DEF begins
      <4> QED BY <3>1, <3>4
    <3> DEFINE before == joined[m - 1]
               last == parts[m]
    <3>6. before \in Seq(S) /\ last \in Seq(S) /\ joined[m] = before \o last
      BY <1>1, <2>1, <3>2, <3>4
    <3> HIDE DEF before, last, wrong
    <3>7. /\ Len(before) \in Nat /\ Len(last) \in Nat
          /\ Len(joined[m]) = Len(before) + Len(last)
          /\ \A k \in 1..Len(before) + Len(last) :
                joined[m][k] = IF k <= Len(before) THEN before[k] ELSE last[k - Len(before)]
      BY <3>6, ConcatProperties, LenProperties
    <3>8. begins(before)
      BY <3>5 DEF before
    <3>9. begins(joined[m])
      <4>1. Len(parts[1]) <= Len(before)
        BY <3>8
      <4>2. Len(parts[1]) <= Len(joined[m])
        BY <2>3, <3>7, <4>1
      <4>3. ASSUME NEW k \in 1..Len(parts[1]) PROVE joined[m][k] = parts[1][k]
        <5>1. k \in 1..Len(before) + Len(last) /\ k <= Len(before)
          BY <2>3, <3>7, <4>1
        <5>2. before[k] = parts[1][k]
          BY <3>8
        <5> QED BY <3>7, <5>1, <5>2
      <4> QED BY <4>2, <4>3
    <3> QED BY <3>2, <3>9
  <2>5. n \in 1..n
    BY <1>1, <2>2
  <2>6. begins(joined[n])
    <3> HIDE DEF begins
    <3> QED BY <2>4, <2>5
  <2> QED BY <2>1, <2>5, <2>6
<1> QED BY <1>2, <1>3

-----------------------------------------------------------------------------
(* The list of targets                                                     *)

\* A file gives a list of servers that its lines name.
LEMMA OfFile ==
    ASSUME NEW file, IsSequence(file.lines), NEW default, NEW defaults
    PROVE  LET ts == FileTargets(file, default, defaults)
           IN  /\ ts \in Seq(Range(ts))
               /\ \A t \in Range(ts) : \E i \in DOMAIN file.lines : t.host = file.lines[i].spec.host
<1> DEFINE places == {i \in DOMAIN file.lines : Taken(file.lines[i], default)}
           good == Kept(file.lines, places)
           ts == FileTargets(file, default, defaults)
<1>1. /\ good \in Seq(Range(file.lines))
      /\ \A k \in DOMAIN good :
            /\ PlaceOf(places, k) \in places
            /\ good[k] = file.lines[PlaceOf(places, k)]
  <2>1. file.lines \in Seq(Range(file.lines)) /\ places \in SUBSET DOMAIN file.lines
    BY DEF IsSequence
  <2> HIDE DEF places
  <2> QED BY <2>1, KeptIs
<1>2. ts = [k \in DOMAIN good |-> LineTarget(good[k], default, defaults)]
  BY DEF FileTargets
<1>3. \A k \in DOMAIN good : ts[k].host = good[k].spec.host
  <2> HIDE DEF good, ts
  <2>1. \A k \in DOMAIN good : ts[k] = LineTarget(good[k], default, defaults)
    BY <1>2
  <2>2. \A l : LineTarget(l, default, defaults).host = l.spec.host
    BY DEF LineTarget, AsTarget
  <2> QED BY <2>1, <2>2
<1>4. \A k \in DOMAIN good : \E i \in DOMAIN file.lines : good[k] = file.lines[i]
  BY <1>1
<1> HIDE DEF good, ts
<1>5. ts \in Seq(Range(ts))
  <2>1. Len(good) \in Nat /\ DOMAIN good = 1..Len(good)
    BY <1>1, LenProperties
  <2>2. DOMAIN ts = 1..Len(good) /\ \A k \in 1..Len(good) : ts[k] \in Range(ts)
    BY <1>2, <2>1 DEF Range
  <2>3. ts = [k \in 1..Len(good) |-> ts[k]]
    BY <1>2, <2>1
  <2> QED BY <2>1, <2>2, <2>3, IsASeq
<1>6. \A t \in Range(ts) : \E i \in DOMAIN file.lines : t.host = file.lines[i].spec.host
  <2>1. \A t \in Range(ts) : \E k \in DOMAIN good : t = ts[k]
    BY <1>2 DEF Range
  <2> QED BY <1>3, <1>4, <2>1
<1> QED BY <1>5, <1>6 DEF ts

\* No two targets have the same address: the list that is built has each server
\* once, by its name in lower case, and one name has one lower case (seen in
\* build_targets).
LEMMA EachServerOnce ==
    ASSUME NEW a, NEW w, WellFormed(a, w)
    PROVE  LET ts == BuildTargets(a.specs, w.inventories, a.port, a.credentials)
           IN  /\ ts \in Seq(Range(ts))
               /\ \A i, k \in DOMAIN ts : Address(ts[i]) = Address(ts[k]) => i = k
<1> DEFINE good == Kept(a.specs, {i \in DOMAIN a.specs : Parses(a.specs[i], a.port)})
           named == [k \in DOMAIN good |-> AsTarget(good[k], a.port, a.credentials, "")]
           lists == [f \in DOMAIN w.inventories |-> FileTargets(w.inventories[f], a.port, a.credentials)]
           S == Range(named) \cup UNION {Range(lists[f]) : f \in DOMAIN w.inventories}
           all == named \o FlattenSeq(lists)
           places == {i \in DOMAIN all : \A j \in 1..i - 1 : ~SameServer(all[j], all[i])}
           ts == Kept(all, places)
<1>1. named \in Seq(S) /\ \A t \in Range(named) : \E s \in Range(a.specs) : t.host = s.host
  <2>1. good \in Seq(Range(a.specs))
    <3> DEFINE P == {i \in DOMAIN a.specs : Parses(a.specs[i], a.port)}
    <3>1. a.specs \in Seq(Range(a.specs)) /\ P \in SUBSET DOMAIN a.specs
      BY DEF WellFormed, IsSequence
    <3> HIDE DEF P
    <3>2. Kept(a.specs, P) \in Seq(Range(a.specs))
      BY <3>1, KeptIs
    <3> QED BY <3>2 DEF P
  <2> HIDE DEF good
  <2>2. Len(good) \in Nat /\ DOMAIN good = 1..Len(good) /\ \A k \in DOMAIN good : good[k] \in Range(a.specs)
    BY <2>1, LenProperties, ElementOfSeq
  <2>3. \A k \in DOMAIN good : named[k].host = good[k].host
    BY DEF AsTarget
  <2>4. \A k \in DOMAIN good : named[k] \in Range(named)
    BY DEF Range
  <2>5. \A t \in Range(named) : \E k \in DOMAIN good : t = named[k]
    BY DEF Range
  <2>6. named = [k \in 1..Len(good) |-> named[k]]
    BY <2>2
  <2>7. \A k \in 1..Len(good) : named[k] \in S
    BY <2>2, <2>4
  <2> HIDE DEF S, named
  <2>8. named \in Seq(S)
    BY <2>2, <2>6, <2>7, IsASeq
  <2> QED BY <2>2, <2>3, <2>5, <2>8
<1>2. FlattenSeq(lists) \in Seq(S)
  <2>1. \A f \in DOMAIN w.inventories : lists[f] \in Seq(Range(lists[f]))
    BY OfFile DEF WellFormed
  <2>2. \A f \in DOMAIN w.inventories : lists[f] \in Seq(S)
    <3> TAKE f \in DOMAIN w.inventories
    <3>1. Range(lists[f]) \subseteq S
      OBVIOUS
    <3> HIDE DEF S, lists
    <3> QED BY <2>1, <3>1, SeqMonotonic
  <2>3. Len(w.inventories) \in Nat /\ DOMAIN w.inventories = 1..Len(w.inventories)
    BY LenProperties DEF WellFormed, IsSequence
  <2>4. lists \in Seq(Seq(S))
    <3>1. lists = [f \in 1..Len(w.inventories) |-> lists[f]]
      BY <2>3
    <3> HIDE DEF lists, S
    <3> QED BY <2>2, <2>3, <3>1, IsASeq
  <2> HIDE DEF lists, S
  <2> QED BY <2>4, Flattened
<1>3. \A t \in S : \E s \in Specs(a, w) : t.host = s.host
  <2>1. \A t \in Range(named) : \E s \in Specs(a, w) : t.host = s.host
    BY <1>1 DEF Specs
  <2>2. ASSUME NEW f \in DOMAIN w.inventories, NEW t \in Range(lists[f])
        PROVE  \E s \in Specs(a, w) : t.host = s.host
    <3>1. PICK i \in DOMAIN w.inventories[f].lines : t.host = w.inventories[f].lines[i].spec.host
      BY <2>2, OfFile DEF WellFormed
    <3> QED BY <3>1 DEF Specs
  <2> HIDE DEF named, lists
  <2> QED BY <2>1, <2>2
<1> HIDE DEF S
<1>4. all \in Seq(S) /\ DOMAIN all = 1..Len(all) /\ Len(all) \in Nat /\ \A i \in DOMAIN all : all[i] \in S
  <2>1. all \in Seq(S)
    <3> HIDE DEF named, lists
    <3> QED BY <1>1, <1>2, ConcatProperties
  <2> HIDE DEF all
  <2> QED BY <2>1, LenProperties, ElementOfSeq
<1>5. BuildTargets(a.specs, w.inventories, a.port, a.credentials) = ts
  BY DEF BuildTargets, Unique
<1> HIDE DEF all
<1>6. /\ ts \in Seq(S)
      /\ \A k \in DOMAIN ts : PlaceOf(places, k) \in places /\ ts[k] = all[PlaceOf(places, k)]
      /\ \A k, m \in DOMAIN ts : PlaceOf(places, k) = PlaceOf(places, m) => k = m
  <2>1. places \in SUBSET DOMAIN all
    OBVIOUS
  <2> HIDE DEF places
  <2> QED BY <1>4, <2>1, KeptIs
<1>7. ASSUME NEW p \in places, NEW q \in places, Address(all[p]) = Address(all[q]), p < q
      PROVE  FALSE
  <2>1. p \in 1..q - 1 /\ p \in DOMAIN all /\ q \in DOMAIN all
    BY <1>4, <1>7
  <2>2. ~SameServer(all[p], all[q])
    BY <2>1
  <2>3. all[p].host.name = all[q].host.name /\ all[p].port = all[q].port
    BY <1>7 DEF Address
  <2>4. all[p].host.lower = all[q].host.lower
    <3>1. PICK s \in Specs(a, w) : all[p].host = s.host
      BY <1>3, <1>4, <2>1
    <3>2. PICK t \in Specs(a, w) : all[q].host = t.host
      BY <1>3, <1>4, <2>1
    <3> QED BY <2>3, <3>1, <3>2 DEF WellFormed
  <2> QED BY <2>2, <2>3, <2>4 DEF SameServer
<1>8. ASSUME NEW i \in DOMAIN ts, NEW k \in DOMAIN ts, Address(ts[i]) = Address(ts[k])
      PROVE  i = k
  <2>1. /\ PlaceOf(places, i) \in places /\ PlaceOf(places, k) \in places
        /\ ts[i] = all[PlaceOf(places, i)] /\ ts[k] = all[PlaceOf(places, k)]
    BY <1>6
  <2>2. ~(PlaceOf(places, i) < PlaceOf(places, k)) /\ ~(PlaceOf(places, k) < PlaceOf(places, i))
    BY <1>7, <1>8, <2>1
  <2>3. PlaceOf(places, i) \in Nat /\ PlaceOf(places, k) \in Nat
    BY <1>4, <2>1
  <2>4. PlaceOf(places, i) = PlaceOf(places, k)
    BY <2>2, <2>3
  <2> QED BY <1>6, <2>4
<1>9. ts \in Seq(Range(ts))
  <2> HIDE DEF ts
  <2> QED BY <1>6, SeqOfRange
<1> QED BY <1>5, <1>8, <1>9

-----------------------------------------------------------------------------
(* The targets are the servers that were named                             *)

\* The targets are what the lines that are taken give, in the order of the
\* lines: at says which line each comes from.
From(at, ts, lines, default, defaults) ==
    /\ at \in [DOMAIN ts -> DOMAIN lines]
    /\ \A k, m \in DOMAIN ts : k < m => at[k] < at[m]
    /\ \A k \in DOMAIN ts :
          Taken(lines[at[k]], default) /\ ts[k] = LineTarget(lines[at[k]], default, defaults)
    /\ \A i \in DOMAIN lines : Taken(lines[i], default) => \E k \in DOMAIN ts : at[k] = i

Gives(lines, ts, default, defaults) == \E at : From(at, ts, lines, default, defaults)

\* What is kept of a list gives its targets in the order of the list.
LEMMA KeptGives ==
    ASSUME NEW R, NEW seq \in Seq(R), NEW places \in SUBSET DOMAIN seq,
           NEW lines, DOMAIN lines = DOMAIN seq, NEW default, NEW defaults,
           \A i \in DOMAIN lines : i \in places <=> Taken(lines[i], default),
           NEW ts, DOMAIN ts = DOMAIN Kept(seq, places),
           \A k \in DOMAIN ts : ts[k] = LineTarget(lines[PlaceOf(places, k)], default, defaults)
    PROVE  Gives(lines, ts, default, defaults)
<1> DEFINE at == [k \in DOMAIN ts |-> PlaceOf(places, k)]
<1>1. /\ \A k \in DOMAIN ts : PlaceOf(places, k) \in places
      /\ \A i \in places : \E k \in DOMAIN ts : PlaceOf(places, k) = i
      /\ \A k, m \in DOMAIN ts : k < m => PlaceOf(places, k) < PlaceOf(places, m)
  BY KeptIs
<1>2. From(at, ts, lines, default, defaults)
  BY <1>1 DEF From
<1> HIDE DEF at
<1> QED BY <1>2 DEF Gives

\* A file gives the targets of its lines (read_target_file).
LEMMA FileGives ==
    ASSUME NEW file, IsSequence(file.lines), NEW default, NEW defaults
    PROVE  Gives(file.lines, FileTargets(file, default, defaults), default, defaults)
<1> DEFINE lines == file.lines
           places == {i \in DOMAIN lines : Taken(lines[i], default)}
           good == Kept(lines, places)
           ts == FileTargets(file, default, defaults)
<1>1. ts = [k \in DOMAIN good |-> LineTarget(good[k], default, defaults)]
  BY DEF FileTargets
<1>2. lines \in Seq(Range(lines)) /\ places \in SUBSET DOMAIN lines
  BY DEF IsSequence
<1>3. \A i \in DOMAIN lines : i \in places <=> Taken(lines[i], default)
  OBVIOUS
<1> HIDE DEF places, lines, ts
<1>4. \A k \in DOMAIN good : good[k] = lines[PlaceOf(places, k)]
  <2> DEFINE R == Range(lines)
  <2> HIDE DEF R
  <2>1. lines \in Seq(R)
    BY <1>2 DEF R
  <2> QED BY <1>2, <2>1, KeptIs
<1>5. DOMAIN ts = DOMAIN good
  BY <1>1
<1>6. \A k \in DOMAIN ts : ts[k] = LineTarget(lines[PlaceOf(places, k)], default, defaults)
  BY <1>1, <1>4
<1>7. Gives(lines, ts, default, defaults)
  <2> DEFINE R == Range(lines)
  <2> HIDE DEF R
  <2>1. lines \in Seq(R)
    BY <1>2 DEF R
  <2> QED BY <1>2, <1>3, <1>5, <1>6, <2>1, KeptGives
<1> QED BY <1>7 DEF lines, ts

\* A specification on the command line is a line that sets nothing.
SpecLine(spec) == [spec |-> spec, options |-> <<>>, unknown |-> FALSE]

LEMMA SpecIsLine ==
    ASSUME NEW spec, NEW default, NEW defaults,
           defaults = [field \in DOMAIN defaults |-> defaults[field]]
    PROVE  /\ Taken(SpecLine(spec), default) <=> Parses(spec, default)
           /\ LineTarget(SpecLine(spec), default, defaults) = AsTarget(spec, default, defaults, "")
<1> DEFINE line == SpecLine(spec)
<1>1. line.spec = spec /\ line.options = <<>> /\ ~line.unknown
  BY DEF SpecLine
<1>2. DOMAIN line.options = {}
  <2>1. DOMAIN <<>> = {}
    OBVIOUS
  <2> QED BY <1>1, <2>1
<1> HIDE DEF line
<1>3. DefaultPort(line, default) = default
  BY <1>2 DEF DefaultPort
<1>4. Inherited(line.options, defaults) = defaults
  <2>1. Inherited(line.options, defaults) = [field \in DOMAIN defaults |-> defaults[field]]
    BY <1>2 DEF Inherited
  <2> QED BY <2>1
<1>5. Taken(line, default) <=> Parses(spec, default)
  BY <1>1, <1>2, <1>3 DEF Taken
<1>6. LineTarget(line, default, defaults) = AsTarget(spec, default, defaults, "")
  BY <1>1, <1>2, <1>3, <1>4 DEF LineTarget
<1> QED BY <1>5, <1>6 DEF line

LEMMA SpecsGive ==
    ASSUME NEW specs, IsSequence(specs), NEW default, NEW defaults,
           defaults = [field \in DOMAIN defaults |-> defaults[field]]
    PROVE  LET good == Kept(specs, {i \in DOMAIN specs : Parses(specs[i], default)})
           IN  Gives([i \in 1..Len(specs) |-> SpecLine(specs[i])],
                     [i \in DOMAIN good |-> AsTarget(good[i], default, defaults, "")],
                     default, defaults)
<1> DEFINE R == Range(specs)
           places == {i \in DOMAIN specs : Parses(specs[i], default)}
           good == Kept(specs, places)
           lines == [i \in 1..Len(specs) |-> SpecLine(specs[i])]
           ts == [i \in DOMAIN good |-> AsTarget(good[i], default, defaults, "")]
<1>1. specs \in Seq(R) /\ places \in SUBSET DOMAIN specs
  BY DEF IsSequence
<1>2. \A i \in DOMAIN specs : i \in places <=> Parses(specs[i], default)
  OBVIOUS
<1> HIDE DEF R, places
<1>3. DOMAIN specs = 1..Len(specs) /\ DOMAIN lines = DOMAIN specs
  BY <1>1, LenProperties
<1>4. \A i \in DOMAIN specs : lines[i] = SpecLine(specs[i])
  BY <1>3
<1>5. DOMAIN ts = DOMAIN good
  OBVIOUS
<1>6. \A k \in DOMAIN good : /\ PlaceOf(places, k) \in places
                             /\ good[k] = specs[PlaceOf(places, k)]
  BY <1>1, KeptIs
<1>7. \A k \in DOMAIN ts : ts[k] = AsTarget(specs[PlaceOf(places, k)], default, defaults, "")
  BY <1>6
<1> HIDE DEF ts, lines, good
<1>8. \A i \in DOMAIN lines : i \in places <=> Taken(lines[i], default)
  BY <1>2, <1>3, <1>4, SpecIsLine
<1>9. \A k \in DOMAIN ts : ts[k] = LineTarget(lines[PlaceOf(places, k)], default, defaults)
  <2> TAKE k \in DOMAIN ts
  <2>1. PlaceOf(places, k) \in DOMAIN specs
    BY <1>1, <1>5, <1>6
  <2>2. lines[PlaceOf(places, k)] = SpecLine(specs[PlaceOf(places, k)])
    BY <1>4, <2>1
  <2>3. LineTarget(SpecLine(specs[PlaceOf(places, k)]), default, defaults)
            = AsTarget(specs[PlaceOf(places, k)], default, defaults, "")
    BY SpecIsLine
  <2> QED BY <1>7, <2>2, <2>3
<1>10. DOMAIN ts = DOMAIN Kept(specs, places)
  BY <1>5 DEF good
<1>11. Gives(lines, ts, default, defaults)
  BY <1>1, <1>3, <1>8, <1>9, <1>10, KeptGives
<1> QED BY <1>11 DEF lines, ts, good, places

\* Two lists one after the other give the targets of both.
LEMMA BothGive ==
    ASSUME NEW R, NEW S, NEW l1 \in Seq(R), NEW l2 \in Seq(R), NEW t1 \in Seq(S), NEW t2 \in Seq(S),
           NEW default, NEW defaults,
           Gives(l1, t1, default, defaults), Gives(l2, t2, default, defaults)
    PROVE  Gives(l1 \o l2, t1 \o t2, default, defaults)
<1>1. PICK f : From(f, t1, l1, default, defaults)
  BY DEF Gives
<1>2. PICK g : From(g, t2, l2, default, defaults)
  BY DEF Gives
<1> DEFINE n == Len(l1)
           p == Len(t1)
           lines == l1 \o l2
           ts == t1 \o t2
           at == [k \in DOMAIN ts |-> IF k <= p THEN f[k] ELSE n + g[k - p]]
           T(i) == Taken(lines[i], default)
           L(i) == LineTarget(lines[i], default, defaults)
<1>3. /\ n \in Nat /\ Len(l2) \in Nat /\ DOMAIN l1 = 1..n /\ DOMAIN l2 = 1..Len(l2)
      /\ p \in Nat /\ Len(t2) \in Nat /\ DOMAIN t1 = 1..p /\ DOMAIN t2 = 1..Len(t2)
  BY LenProperties
<1>4. /\ DOMAIN lines = 1..n + Len(l2)
      /\ \A i \in DOMAIN lines : lines[i] = IF i <= n THEN l1[i] ELSE l2[i - n]
  <2>1. lines \in Seq(R) /\ Len(lines) = n + Len(l2)
    BY ConcatProperties
  <2>2. DOMAIN lines = 1..n + Len(l2)
    BY <2>1, LenProperties
  <2> QED BY <2>2, ConcatProperties
<1>5. /\ DOMAIN ts = 1..p + Len(t2)
      /\ \A k \in DOMAIN ts : ts[k] = IF k <= p THEN t1[k] ELSE t2[k - p]
  <2>1. ts \in Seq(S) /\ Len(ts) = p + Len(t2)
    BY ConcatProperties
  <2>2. DOMAIN ts = 1..p + Len(t2)
    BY <2>1, LenProperties
  <2> QED BY <2>2, ConcatProperties
<1> HIDE DEF n, p, lines, ts
<1>6. \A k \in DOMAIN ts : k <= p => at[k] = f[k] /\ f[k] \in 1..n /\ k \in 1..p
  <2> TAKE k \in DOMAIN ts
  <2> SUFFICES ASSUME k <= p PROVE at[k] = f[k] /\ f[k] \in 1..n /\ k \in 1..p
    OBVIOUS
  <2>1. k \in 1..p
    BY <1>3, <1>5
  <2> QED BY <1>1, <1>3, <2>1 DEF From
<1>7. \A k \in DOMAIN ts : ~(k <= p) =>
          at[k] = n + g[k - p] /\ g[k - p] \in 1..Len(l2) /\ k - p \in 1..Len(t2)
  <2> TAKE k \in DOMAIN ts
  <2> SUFFICES ASSUME ~(k <= p)
               PROVE  at[k] = n + g[k - p] /\ g[k - p] \in 1..Len(l2) /\ k - p \in 1..Len(t2)
    OBVIOUS
  <2>1. k - p \in 1..Len(t2)
    BY <1>3, <1>5
  <2> QED BY <1>2, <1>3, <2>1 DEF From
<1>8. at \in [DOMAIN ts -> DOMAIN lines]
  <2> SUFFICES ASSUME NEW k \in DOMAIN ts PROVE at[k] \in DOMAIN lines
    BY DEF at
  <2> HIDE DEF at
  <2> QED BY <1>3, <1>4, <1>6, <1>7
<1> HIDE DEF at
<1>9. \A k, m \in DOMAIN ts : k < m => at[k] < at[m]
  <2> TAKE k \in DOMAIN ts, m \in DOMAIN ts
  <2> SUFFICES ASSUME k < m PROVE at[k] < at[m]
    OBVIOUS
  <2>1. k \in Int /\ m \in Int
    BY <1>5
  <2>2. CASE m <= p
    <3>1. k <= p
      BY <1>3, <2>1, <2>2
    <3>2. f[k] < f[m]
      BY <1>1, <1>3, <1>6, <2>2, <3>1 DEF From
    <3> QED BY <1>6, <2>2, <3>1, <3>2
  <2>3. CASE k <= p /\ ~(m <= p)
    BY <1>3, <1>6, <1>7, <2>3
  <2>4. CASE ~(k <= p) /\ ~(m <= p)
    <3>1. k - p < m - p /\ k - p \in DOMAIN t2 /\ m - p \in DOMAIN t2
      BY <1>3, <1>7, <2>1, <2>4
    <3>2. g[k - p] < g[m - p]
      BY <1>2, <3>1 DEF From
    <3> QED BY <1>3, <1>7, <2>4, <3>2
  <2>5. ~(k <= p) => ~(m <= p)
    BY <1>3, <2>1
  <2> QED BY <2>2, <2>3, <2>4, <2>5
<1>10. \A k \in DOMAIN ts : T(at[k]) /\ ts[k] = L(at[k])
  <2> TAKE k \in DOMAIN ts
  <2>1. CASE k <= p
    <3>1. at[k] = f[k] /\ f[k] \in 1..n /\ k \in DOMAIN t1
      BY <1>3, <1>6, <2>1
    <3>2. lines[f[k]] = l1[f[k]] /\ ts[k] = t1[k]
      <4>1. f[k] \in DOMAIN lines /\ f[k] <= n
        BY <1>3, <1>4, <3>1
      <4> QED BY <1>4, <1>5, <2>1, <4>1
    <3>3. Taken(l1[f[k]], default) /\ t1[k] = LineTarget(l1[f[k]], default, defaults)
      BY <1>1, <3>1 DEF From
    <3> QED BY <3>1, <3>2, <3>3
  <2>2. CASE ~(k <= p)
    <3> DEFINE i == g[k - p]
    <3>1. at[k] = n + i /\ i \in 1..Len(l2) /\ k - p \in DOMAIN t2
      BY <1>3, <1>7, <2>2
    <3>2. Taken(l2[i], default) /\ t2[k - p] = LineTarget(l2[i], default, defaults)
      BY <1>2, <3>1 DEF From
    <3> HIDE DEF i
    <3>3. lines[n + i] = l2[i] /\ ts[k] = t2[k - p]
      <4>1. n + i \in DOMAIN lines /\ ~(n + i <= n) /\ (n + i) - n = i
        BY <1>3, <1>4, <3>1
      <4> QED BY <1>4, <1>5, <2>2, <4>1
    <3> QED BY <3>1, <3>2, <3>3
  <2> QED BY <2>1, <2>2
<1>11. ASSUME NEW i \in DOMAIN lines, T(i) PROVE \E k \in DOMAIN ts : at[k] = i
  <2>1. CASE i <= n
    <3>1. i \in DOMAIN l1 /\ Taken(l1[i], default)
      BY <1>3, <1>4, <1>11, <2>1
    <3>2. PICK k \in DOMAIN t1 : f[k] = i
      BY <1>1, <3>1 DEF From
    <3>3. k \in DOMAIN ts /\ k <= p
      BY <1>3, <1>5, <3>2
    <3> QED BY <1>6, <3>2, <3>3
  <2>2. CASE ~(i <= n)
    <3>1. i - n \in DOMAIN l2 /\ Taken(l2[i - n], default) /\ i \in Int
      BY <1>3, <1>4, <1>11, <2>2
    <3>2. PICK k \in DOMAIN t2 : g[k] = i - n
      BY <1>2, <3>1 DEF From
    <3>3. k + p \in DOMAIN ts /\ ~(k + p <= p) /\ (k + p) - p = k
      BY <1>3, <1>5, <3>2
    <3>4. at[k + p] = n + (i - n)
      BY <1>7, <3>2, <3>3
    <3>5. at[k + p] = i
      BY <1>3, <3>1, <3>4
    <3> QED BY <3>3, <3>5
  <2> QED BY <2>1, <2>2
<1>12. From(at, ts, lines, default, defaults)
  BY <1>8, <1>9, <1>10, <1>11 DEF From
<1> QED BY <1>12 DEF Gives, lines, ts

\* And so do any number of lists.
LEMMA AllGive ==
    ASSUME NEW R, NEW S, NEW lists \in Seq(Seq(R)), NEW parts \in Seq(Seq(S)),
           Len(parts) = Len(lists), NEW default, NEW defaults,
           \A f \in 1..Len(lists) : Gives(lists[f], parts[f], default, defaults)
    PROVE  Gives(FlattenSeq(lists), FlattenSeq(parts), default, defaults)
<1> DEFINE n == Len(lists)
<1>1. /\ n \in Nat /\ Len(parts) = n
      /\ \A f \in 1..n : lists[f] \in Seq(R) /\ parts[f] \in Seq(S)
  BY LenProperties, ElementOfSeq
<1>2. CASE n = 0
  <2>1. lists = <<>> /\ parts = <<>>
    BY <1>1, <1>2, EmptySeq
  <2>2. FlattenSeq(lists) = <<>> /\ FlattenSeq(parts) = <<>>
    BY <2>1 DEF FlattenSeq
  <2>3. DOMAIN <<>> = {}
    OBVIOUS
  <2>4. From(<<>>, <<>>, <<>>, default, defaults)
    BY <2>3 DEF From
  <2>5. Gives(<<>>, <<>>, default, defaults)
    BY <2>4 DEF Gives
  <2> QED BY <2>2, <2>5
<1>3. CASE n # 0
  <2>1. lists # <<>> /\ parts # <<>>
    BY <1>1, <1>3, EmptySeq
  <2>2. PICK ls : /\ FlattenSeq(lists) = ls[n] /\ ls[1] = lists[1]
                  /\ \A i \in 2..n : ls[i] = ls[i - 1] \o lists[i]
                  /\ \A i \in 1..n : ls[i] \in Seq(R)
    BY <2>1, Flattening
  <2>3. PICK ps : /\ FlattenSeq(parts) = ps[n] /\ ps[1] = parts[1]
                  /\ \A i \in 2..n : ps[i] = ps[i - 1] \o parts[i]
                  /\ \A i \in 1..n : ps[i] \in Seq(S)
    <3>1. \E joined : /\ FlattenSeq(parts) = joined[Len(parts)]
                      /\ joined[1] = parts[1]
                      /\ \A i \in 2..Len(parts) : joined[i] = joined[i - 1] \o parts[i]
                      /\ \A i \in 1..Len(parts) : joined[i] \in Seq(S)
      BY <2>1, Flattening
    <3> HIDE DEF n
    <3> QED BY <1>1, <3>1
  <2> DEFINE wrong == {i \in 1..n : ~Gives(ls[i], ps[i], default, defaults)}
  <2> HIDE DEF n
  <2>4. wrong = {}
    <3> SUFFICES ASSUME wrong # {} PROVE FALSE
      OBVIOUS
    <3>0. wrong \in SUBSET Nat
      BY <1>1
    <3>1. PICK m \in wrong : \A y \in wrong : m <= y
      <4> HIDE DEF wrong
      <4> QED BY <3>0, Least
    <3>2. m \in 1..n /\ ~Gives(ls[m], ps[m], default, defaults)
      BY <3>1
    <3>3. m # 1
      BY <1>1, <2>2, <2>3, <3>2 DEF n
    <3>4. m \in 2..n /\ m - 1 \in 1..n /\ ~(m <= m - 1)
      <4> HIDE DEF wrong
      <4> QED BY <1>1, <3>2, <3>3
    <3>5. Gives(ls[m - 1], ps[m - 1], default, defaults)
      BY <3>1, <3>4
    <3>6. /\ ls[m - 1] \in Seq(R) /\ lists[m] \in Seq(R) /\ ls[m] = ls[m - 1] \o lists[m]
          /\ ps[m - 1] \in Seq(S) /\ parts[m] \in Seq(S) /\ ps[m] = ps[m - 1] \o parts[m]
      BY <1>1, <2>2, <2>3, <3>2, <3>4
    <3>7. Gives(lists[m], parts[m], default, defaults)
      BY <3>2 DEF n
    <3> HIDE DEF wrong
    <3>8. Gives(ls[m - 1] \o lists[m], ps[m - 1] \o parts[m], default, defaults)
      BY <3>5, <3>6, <3>7, BothGive
    <3> QED BY <3>2, <3>6, <3>8
  <2>5. n \in 1..n
    BY <1>1, <1>3
  <2>6. Gives(ls[n], ps[n], default, defaults)
    BY <2>4, <2>5
  <2> QED BY <2>2, <2>3, <2>6
<1> QED BY <1>2, <1>3

\* Of the targets that some lines give, the first of each server: every server
\* is there, once, as the first line that names it says (seen in build_targets).
LEMMA FirstOfEachServer ==
    ASSUME NEW S, NEW all \in Seq(S), NEW lines, DOMAIN lines \subseteq Nat,
           NEW default, NEW defaults, Gives(lines, all, default, defaults)
    PROVE  LET ts == Unique(all)
               taken == {i \in DOMAIN lines : Taken(lines[i], default)}
               server(i) == LineTarget(lines[i], default, defaults)
               first(t) == CHOOSE i \in taken :
                              /\ SameServer(server(i), t)
                              /\ \A j \in taken : j < i => ~SameServer(server(j), t)
           IN  /\ \A i \in taken : \E k \in DOMAIN ts : SameServer(ts[k], server(i))
               /\ \A k \in DOMAIN ts : ts[k] = server(first(ts[k]))
               /\ \A k, m \in DOMAIN ts : SameServer(ts[k], ts[m]) => k = m
<1> DEFINE places == {i \in DOMAIN all : \A j \in 1..i - 1 : ~SameServer(all[j], all[i])}
           ts == Unique(all)
           taken == {i \in DOMAIN lines : Taken(lines[i], default)}
           server(i) == LineTarget(lines[i], default, defaults)
           first(t) == CHOOSE i \in taken :
                          /\ SameServer(server(i), t)
                          /\ \A j \in taken : j < i => ~SameServer(server(j), t)
<1>1. PICK at : From(at, all, lines, default, defaults)
  BY DEF Gives
<1>2. DOMAIN all = 1..Len(all) /\ Len(all) \in Nat /\ DOMAIN all \subseteq Nat
  BY LenProperties
<1>3. /\ \A k \in DOMAIN ts : PlaceOf(places, k) \in places /\ ts[k] = all[PlaceOf(places, k)]
      /\ \A k, m \in DOMAIN ts : PlaceOf(places, k) = PlaceOf(places, m) => k = m
      /\ \A i \in places : \E k \in DOMAIN ts : ts[k] = all[i]
  <2>1. places \in SUBSET DOMAIN all /\ ts = Kept(all, places)
    BY DEF Unique
  <2> HIDE DEF places, ts
  <2>2. /\ \A k \in DOMAIN Kept(all, places) :
              PlaceOf(places, k) \in places /\ Kept(all, places)[k] = all[PlaceOf(places, k)]
        /\ \A k, m \in DOMAIN Kept(all, places) : PlaceOf(places, k) = PlaceOf(places, m) => k = m
        /\ \A i \in places : \E k \in DOMAIN Kept(all, places) :
              PlaceOf(places, k) = i /\ Kept(all, places)[k] = all[i]
    BY <2>1, KeptIs
  <2> QED BY <2>1, <2>2
<1>4. \A p \in places : p \in DOMAIN all /\ p \in Nat /\ \A j \in DOMAIN all : j < p => ~SameServer(all[j], all[p])
  <2> TAKE p \in places
  <2>1. p \in DOMAIN all /\ \A j \in 1..p - 1 : ~SameServer(all[j], all[p])
    OBVIOUS
  <2>2. \A j \in DOMAIN all : j < p => j \in 1..p - 1
    BY <1>2, <2>1
  <2> QED BY <1>2, <2>1, <2>2
<1>5. ASSUME NEW q \in DOMAIN all PROVE \E p \in places : SameServer(all[p], all[q])
  <2> DEFINE same == {j \in DOMAIN all : SameServer(all[j], all[q])}
  <2>1. same \in SUBSET Nat /\ same # {}
    BY <1>2, <1>5 DEF SameServer
  <2>2. PICK p \in same : \A j \in same : p <= j
    <3> HIDE DEF same
    <3> QED BY <2>1, Least
  <2>3. p \in DOMAIN all /\ p \in Nat /\ SameServer(all[p], all[q])
    BY <1>2, <2>2
  <2>4. ASSUME NEW j \in 1..p - 1 PROVE ~SameServer(all[j], all[p])
    <3>1. j \in DOMAIN all /\ ~(p <= j)
      BY <1>2, <2>3
    <3>2. j \notin same
      <4> HIDE DEF same
      <4> QED BY <2>2, <3>1
    <3> QED BY <2>3, <3>1, <3>2 DEF SameServer
  <2> QED BY <2>3, <2>4
<1> HIDE DEF places, ts
<1>6. ASSUME NEW i \in taken PROVE \E k \in DOMAIN ts : SameServer(ts[k], server(i))
  <2>1. PICK q \in DOMAIN all : at[q] = i
    BY <1>1 DEF From
  <2>2. all[q] = server(i)
    BY <1>1, <2>1 DEF From
  <2>3. PICK p \in places : SameServer(all[p], all[q])
    BY <1>5
  <2> QED BY <1>3, <2>2, <2>3
<1>7. ASSUME NEW k \in DOMAIN ts PROVE ts[k] = server(first(ts[k]))
  <2> DEFINE p == PlaceOf(places, k)
             t == ts[k]
             f == at[p]
             is(i) == SameServer(server(i), t) /\ \A j \in taken : j < i => ~SameServer(server(j), t)
  <2>1. p \in DOMAIN all /\ p \in Nat /\ t = all[p]
        /\ \A j \in DOMAIN all : j < p => ~SameServer(all[j], all[p])
    BY <1>3, <1>4
  <2> HIDE DEF p, t
  <2>2. f \in taken /\ server(f) = t
    BY <1>1, <2>1 DEF From
  <2>3. ASSUME NEW j \in taken, j < f PROVE ~SameServer(server(j), t)
    <3>1. PICK q \in DOMAIN all : at[q] = j
      BY <1>1 DEF From
    <3>2. all[q] = server(j)
      BY <1>1, <3>1 DEF From
    <3>3. q < p
      <4>1. q \in Nat /\ p \in Nat /\ j \in Nat /\ f \in Nat
        BY <1>2, <2>1, <2>2
      <4>2. p < q => f < j
        BY <1>1, <2>1, <3>1 DEF From
      <4>3. p = q => f = j
        BY <3>1
      <4> HIDE DEF f
      <4> QED BY <2>3, <4>1, <4>2, <4>3
    <3> QED BY <2>1, <3>2, <3>3
  <2>4. is(f)
    BY <2>2, <2>3 DEF SameServer
  <2>5. ASSUME NEW i \in taken, is(i) PROVE i = f
    <3>1. ~(i < f) /\ ~(f < i)
      BY <2>2, <2>4, <2>5
    <3>2. i \in Nat /\ f \in Nat
      BY <2>2
    <3> HIDE DEF f
    <3> QED BY <3>1, <3>2
  <2> HIDE DEF f
  <2>6. first(t) = CHOOSE i \in taken : is(i)
    OBVIOUS
  <2>7. first(t) \in taken /\ is(first(t))
    <3> HIDE DEF is, taken
    <3> QED BY <2>2, <2>4, <2>6
  <2>8. first(t) = f
    <3> HIDE DEF is, taken
    <3> QED BY <2>5, <2>7
  <2> QED BY <2>2, <2>8 DEF t
<1>8. ASSUME NEW k \in DOMAIN ts, NEW m \in DOMAIN ts, SameServer(ts[k], ts[m])
      PROVE  k = m
  <2> DEFINE p == PlaceOf(places, k)
             q == PlaceOf(places, m)
  <2>1. p \in places /\ q \in places /\ ts[k] = all[p] /\ ts[m] = all[q] /\ (p = q => k = m)
    BY <1>3
  <2> HIDE DEF p, q
  <2>2. ~(p < q)
    BY <1>4, <1>8, <2>1
  <2>3. ~(q < p)
    <3>1. SameServer(all[q], all[p])
      BY <1>8, <2>1 DEF SameServer
    <3> QED BY <1>4, <2>1, <3>1
  <2>4. p = q
    BY <1>4, <2>1, <2>2, <2>3
  <2> QED BY <2>1, <2>4
<1> HIDE DEF taken
<1> QED BY <1>6, <1>7, <1>8 DEF taken, ts

-----------------------------------------------------------------------------
(* The plugins that are loaded                                             *)

\* Of a directory that is used, the files that nobody else may write and that
\* load.
Usable(d) == {f \in Range(d.files) : ~f.underscore /\ ~FileRefused(d, f) /\ Loads(f)}

LEMMA OfDirectory ==
    ASSUME NEW d, IsSequence(d.files)
    PROVE  /\ FilesOf(d) \in Seq(Usable(d))
           /\ d.exists /\ d.builtin =>
                 \A f \in Usable(d) : \E k \in DOMAIN FilesOf(d) : FilesOf(d)[k] = f
<1> DEFINE files == d.files
           places == {i \in DOMAIN files :
                        LET f == files[i] IN ~f.underscore /\ ~FileRefused(d, f) /\ Loads(f)}
           skipped == ~d.exists \/ (~d.builtin /\ d.open)
<1>1. FilesOf(d) = IF skipped THEN <<>> ELSE Kept(files, places)
  BY DEF FilesOf
<1>2. /\ files \in Seq(Range(files)) /\ places \in SUBSET DOMAIN files
      /\ \A i \in places : files[i] \in Usable(d)
      /\ \A f \in Usable(d) : \E i \in places : files[i] = f
  BY DEF IsSequence, Usable, Range
<1> HIDE DEF files, places
<1>3. /\ Kept(files, places) \in Seq(Range(files))
      /\ \A k \in DOMAIN Kept(files, places) :
            /\ PlaceOf(places, k) \in places
            /\ Kept(files, places)[k] = files[PlaceOf(places, k)]
      /\ \A i \in places : \E k \in DOMAIN Kept(files, places) : Kept(files, places)[k] = files[i]
  <2>1. files \in Seq(Range(files)) /\ places \in SUBSET DOMAIN files
    BY <1>2
  <2> DEFINE R == Range(files)
  <2> HIDE DEF R
  <2>2. files \in Seq(R)
    BY <2>1 DEF R
  <2>3. /\ Kept(files, places) \in Seq(R)
        /\ \A k \in DOMAIN Kept(files, places) :
              /\ PlaceOf(places, k) \in places
              /\ Kept(files, places)[k] = files[PlaceOf(places, k)]
        /\ \A i \in places : \E k \in DOMAIN Kept(files, places) : Kept(files, places)[k] = files[i]
    BY <2>1, <2>2, KeptIs
  <2> QED BY <2>3 DEF R
<1>4. Kept(files, places) \in Seq(Usable(d))
  <2> DEFINE kept == Kept(files, places)
  <2>1. Len(kept) \in Nat /\ DOMAIN kept = 1..Len(kept) /\ kept \in [1..Len(kept) -> Range(files)]
    BY <1>3, LenProperties
  <2>2. \A k \in 1..Len(kept) : kept[k] \in Usable(d)
    BY <1>2, <1>3, <2>1
  <2> HIDE DEF kept
  <2>3. kept = [k \in 1..Len(kept) |-> kept[k]]
    BY <2>1
  <2>4. kept \in Seq(Usable(d))
    BY <2>1, <2>2, <2>3, IsASeq
  <2> QED BY <2>4 DEF kept
<1>5. FilesOf(d) \in Seq(Usable(d))
  <2>1. <<>> \in Seq(Usable(d))
    BY EmptySeq
  <2> QED BY <1>1, <1>4, <2>1
<1>6. ASSUME d.exists, d.builtin, NEW f \in Usable(d)
      PROVE  \E k \in DOMAIN FilesOf(d) : FilesOf(d)[k] = f
  <2>1. FilesOf(d) = Kept(files, places)
    BY <1>1, <1>6
  <2>2. PICK i \in places : files[i] = f
    BY <1>2
  <2> QED BY <1>3, <2>1, <2>2
<1> QED BY <1>5, <1>6

LEMMA LoadsKeepOwn ==
    ASSUME NEW builtin, NEW others, IsSequence(others), IsSequence(builtin.files),
           builtin.exists, builtin.builtin,
           \A d \in Range(others) : IsSequence(d.files) /\ (d.builtin => d = builtin)
    PROVE  LET ps == LoadPlugins(builtin, others)
           IN  /\ \A f \in Usable(builtin) : \E k \in DOMAIN ps : ps[k].id = f.id /\ ps[k] \in Usable(builtin)
               /\ \A k \in DOMAIN ps : ps[k] \in Usable(builtin) \/ ~ps[k].open
               /\ \A i, j \in DOMAIN ps : ps[i].id = ps[j].id => i = j
<1> DEFINE D == {builtin} \cup Range(others)
           S == UNION {Usable(d) : d \in D}
           directories == <<builtin>> \o others
           parts == [i \in DOMAIN directories |-> FilesOf(directories[i])]
           all == FlattenSeq(parts)
           places == {i \in DOMAIN all : \A j \in 1..i - 1 : all[j].id # all[i].id}
           ps == Kept(all, places)
<1>1. LoadPlugins(builtin, others) = ps
  BY DEF LoadPlugins, FirstOfEach
<1>2. /\ directories \in Seq(D) /\ Len(directories) \in Nat /\ DOMAIN directories = 1..Len(directories)
      /\ \A i \in DOMAIN directories : directories[i] \in D
      /\ 1 \in DOMAIN directories /\ directories[1] = builtin
  <2>1. others \in Seq(D) /\ <<builtin>> \in Seq(D)
    <3>1. Range(others) \subseteq D /\ builtin \in D
      OBVIOUS
    <3>2. others \in Seq(Range(others))
      BY DEF IsSequence
    <3> HIDE DEF D
    <3>3. others \in Seq(D)
      BY <3>1, <3>2, SeqMonotonic
    <3> QED BY <3>1, <3>3
  <2>2. Len(others) \in Nat /\ Len(<<builtin>>) = 1 /\ <<builtin>>[1] = builtin
    BY <2>1, LenProperties
  <2> HIDE DEF D
  <2>3. /\ directories \in Seq(D) /\ Len(directories) = 1 + Len(others)
        /\ directories[1] = builtin
    BY <2>1, <2>2, ConcatProperties
  <2> HIDE DEF directories
  <2>4. Len(directories) \in Nat /\ DOMAIN directories = 1..Len(directories)
    BY <2>3, LenProperties
  <2>5. 1 \in DOMAIN directories
    BY <2>2, <2>3, <2>4
  <2>6. \A i \in DOMAIN directories : directories[i] \in D
    BY <2>3, <2>4, ElementOfSeq
  <2> QED BY <2>3, <2>4, <2>5, <2>6
<1>3. \A d \in D : FilesOf(d) \in Seq(S)
  <2> TAKE d \in D
  <2>1. FilesOf(d) \in Seq(Usable(d))
    BY OfDirectory
  <2>2. Usable(d) \subseteq S
    OBVIOUS
  <2> HIDE DEF S
  <2> QED BY <2>1, <2>2, SeqMonotonic
<1> HIDE DEF directories, S
<1>4. parts \in Seq(Seq(S)) /\ parts # <<>> /\ parts[1] = FilesOf(builtin)
  <2>1. parts = [i \in 1..Len(directories) |-> parts[i]]
    BY <1>2
  <2>2. \A i \in 1..Len(directories) : parts[i] \in Seq(S)
    BY <1>2, <1>3
  <2>3. DOMAIN parts = 1..Len(directories) /\ 1 \in DOMAIN parts /\ parts[1] = FilesOf(builtin)
    BY <1>2
  <2>4. parts # <<>>
    BY <2>3
  <2> HIDE DEF parts
  <2> QED BY <1>2, <2>1, <2>2, <2>3, <2>4, IsASeq
<1> HIDE DEF parts
<1>5. /\ all \in Seq(S) /\ Len(all) \in Nat /\ DOMAIN all = 1..Len(all)
      /\ \A i \in DOMAIN all : all[i] \in S
      /\ Len(parts[1]) <= Len(all)
      /\ \A k \in 1..Len(parts[1]) : all[k] = parts[1][k]
  <2>1. /\ all \in Seq(S) /\ Len(parts[1]) <= Len(all)
        /\ \A k \in 1..Len(parts[1]) : all[k] = parts[1][k]
    BY <1>4, Flattened
  <2> HIDE DEF all
  <2> QED BY <2>1, LenProperties, ElementOfSeq
<1>6. /\ Len(parts[1]) \in Nat /\ DOMAIN parts[1] = 1..Len(parts[1])
      /\ \A k \in DOMAIN parts[1] : parts[1][k] \in Usable(builtin)
      /\ \A f \in Usable(builtin) : \E k \in DOMAIN parts[1] : parts[1][k] = f
  <2>1. parts[1] \in Seq(Usable(builtin))
    BY <1>4, OfDirectory
  <2>2. \A f \in Usable(builtin) : \E k \in DOMAIN parts[1] : parts[1][k] = f
    BY <1>4, OfDirectory
  <2> QED BY <2>1, <2>2, LenProperties, ElementOfSeq
<1> HIDE DEF all
<1>7. /\ \A k \in DOMAIN ps : PlaceOf(places, k) \in places /\ ps[k] = all[PlaceOf(places, k)]
      /\ \A k, m \in DOMAIN ps : PlaceOf(places, k) = PlaceOf(places, m) => k = m
      /\ \A i \in places : \E k \in DOMAIN ps : ps[k] = all[i]
  <2>1. places \in SUBSET DOMAIN all
    OBVIOUS
  <2> HIDE DEF places
  <2> QED BY <1>5, <2>1, KeptIs
<1>8. ASSUME NEW f \in Usable(builtin)
      PROVE  \E k \in DOMAIN ps : ps[k].id = f.id /\ ps[k] \in Usable(builtin)
  <2>1. PICK m \in DOMAIN parts[1] : parts[1][m] = f
    BY <1>6
  <2> DEFINE T == {i \in DOMAIN all : all[i].id = f.id}
  <2>2. m \in DOMAIN all /\ all[m] = f
    BY <1>5, <1>6, <2>1
  <2>3. PICK p \in T : \A i \in T : p <= i
    <3>1. T \in SUBSET Nat /\ T # {}
      BY <1>5, <2>2
    <3> HIDE DEF T
    <3> QED BY <3>1, Least
  <2>4. p \in DOMAIN all /\ all[p].id = f.id /\ p <= m
    BY <2>2, <2>3
  <2>5. p \in DOMAIN parts[1]
    BY <1>5, <1>6, <2>1, <2>4
  <2>6. all[p] \in Usable(builtin)
    BY <1>5, <1>6, <2>5
  <2>7. p \in places
    <3>1. ASSUME NEW j \in 1..p - 1 PROVE all[j].id # all[p].id
      <4>1. j \in DOMAIN all /\ ~(p <= j)
        BY <1>5, <2>4
      <4> QED BY <2>3, <2>4, <4>1
    <3> QED BY <2>4, <3>1
  <2>8. PICK k \in DOMAIN ps : ps[k] = all[p]
    BY <1>7, <2>7
  <2> QED BY <2>4, <2>6, <2>8
<1>9. ASSUME NEW k \in DOMAIN ps PROVE ps[k] \in Usable(builtin) \/ ~ps[k].open
  <2>1. ps[k] \in S
    BY <1>5, <1>7
  <2>2. PICK d \in D : ps[k] \in Usable(d)
    BY <2>1 DEF S
  <2>3. CASE d.builtin
    BY <2>2, <2>3
  <2>4. CASE ~d.builtin
    BY <2>2, <2>4 DEF Usable, FileRefused
  <2> QED BY <2>3, <2>4
<1>10. ASSUME NEW i \in DOMAIN ps, NEW j \in DOMAIN ps, ps[i].id = ps[j].id PROVE i = j
  <2> DEFINE p == PlaceOf(places, i)
             q == PlaceOf(places, j)
  <2>1. p \in places /\ q \in places /\ all[p].id = all[q].id
    BY <1>7, <1>10
  <2>2. p \in Nat /\ q \in Nat /\ p >= 1 /\ q >= 1
    BY <1>5, <2>1
  <2>3. p \notin 1..q - 1 /\ q \notin 1..p - 1
    BY <2>1
  <2> HIDE DEF p, q
  <2>4. p = q
    BY <2>2, <2>3
  <2> QED BY <1>7, <2>4 DEF p, q
<1> HIDE DEF ps
<1> QED BY <1>1, <1>8, <1>9, <1>10

-----------------------------------------------------------------------------
(* The invariant                                                           *)

BeforeScan ==
    {"start", "export", "exporting", "load", "wizard", "listing", "plugins", "targets",
     "options", "scan"}
AfterScan == {"history", "compare", "render", "reread", "gates"}

\* What kind of run it is says where it may be.
Stages ==
    /\ WellFormed(args, world)
    /\ pc \in BeforeScan \cup AfterScan \cup {"done"}
    /\ pc \in BeforeScan => report = <<>>
    /\ args.export /\ ~args.help => pc \in {"start", "export", "exporting", "done"}

\* Nothing is written before the history is done with, but for an export. A
\* format that was asked for is written or still to come, and what was to be
\* recorded is recorded from then on.
Unwritten == (BeforeScan \ {"exporting"}) \cup {"history"}
Delivering ==
    /\ pc \in Unwritten => written = {}
    /\ pc = "render" => /\ toWrite \in Seq(Range(args.formats))
                        /\ Range(args.formats) \subseteq written \cup Range(toWrite)
    /\ pc \in {"reread", "gates"} => Range(args.formats) \subseteq written
    /\ pc \in {"compare", "render", "reread", "gates"} => (args.history => recorded)
    /\ DeliveredOrSaid

\* A file of the export is there as it was shipped or still to come.
ExportFiles == {PolicyCopy} \cup Range(world.shipped)
Exporting ==
    /\ pc = "exporting" =>
          /\ toWrite \in Seq(ExportFiles)
          /\ \A f \in ExportFiles :
                \/ f \in DOMAIN world.exported /\ world.exported[f] = "shipped"
                \/ f \in Range(toWrite)
    /\ ExportIsWhole

\* A report is the results of the scans, measured against what was selected.
Distinct == \A i, k \in DOMAIN targets : Address(targets[i]) = Address(targets[k]) => i = k
Measured ==
    /\ DOMAIN report = DOMAIN targets
    /\ \A i \in DOMAIN targets :
          /\ report[i].found \in Results
          /\ report[i].found.ok => DOMAIN report[i].compliance = Selected
Earning ==
    /\ pc \in {"options", "scan"} \cup AfterScan => Distinct
    /\ pc \in AfterScan => Measured
    /\ pc \in {"render", "reread", "gates"} /\ args.compare =>
          drift = Compare(world.baseline.results, ByAddress)
    /\ ZeroIsEarned

CommandInv == Stages /\ Delivering /\ Exporting /\ Earning /\ PolicyAsAsked /\ OwnPluginsStay /\ TargetsKept

-----------------------------------------------------------------------------
(* What kind of run it is                                                  *)

\* A run ends, or goes to the next step.
LEMMA Going ==
    /\ \A code : Exits(code) => pc' = "done" /\ exit' = code
    /\ \A step : GoesTo(step) => pc' = step /\ exit' = exit
BY DEF Exits, GoesTo

LEMMA Failing == Fails => pc' = "done" /\ exit' \in {"usage", "traceback"}
BY DEF Fails, Exits

\* The command that the wizard makes is one that could have been typed.
LEMMA WizardIsWellFormed ==
    ASSUME WellFormed(args, world), NEW chosen, NEW required, NEW severity \in {"never", "high"},
           NEW line, line = WizardLine(chosen, severity, required)
    PROVE  /\ WellFormed(line, world)
           /\ line.export = args.export /\ line.help = args.help /\ line.config = args.config
<1> DEFINE profiles == IF chosen # {} /\ chosen # DOMAIN loaded.policy.profiles THEN chosen ELSE {}
<1>1. line = [args EXCEPT !.wizard = FALSE, !.specs = world.answers, !.formats = <<"console">>,
                          !.profiles = profiles, !.required = required, !.failOn = severity]
  BY DEF WizardLine
<1> HIDE DEF profiles
<1>2. /\ DOMAIN line = DOMAIN args
      /\ line.specs = world.answers /\ line.formats = <<"console">> /\ line.failOn = severity
      /\ line.export = args.export /\ line.help = args.help /\ line.config = args.config
      /\ line.credentials = args.credentials
  BY <1>1 DEF WellFormed
<1>3. line.failOn \in Severities \cup {"never"}
  BY <1>1, <1>2 DEF Severities, SeverityOrder
<1>4. IsSequence(line.formats) /\ IsSequence(line.specs)
  BY <1>2 DEF WellFormed, IsSequence, Range
<1>5. Specs(line, world) \subseteq Specs(args, world) /\ PolicyFiles(line, world) = PolicyFiles(args, world)
  BY <1>2 DEF Specs, PolicyFiles
<1>6. line.credentials = [field \in DOMAIN line.credentials |-> line.credentials[field]]
  <2>1. args.credentials = [field \in DOMAIN args.credentials |-> args.credentials[field]]
    BY DEF WellFormed
  <2> QED BY <1>2, <2>1
<1> QED BY <1>2, <1>3, <1>4, <1>5, <1>6 DEF WellFormed

\* An export changes nothing but the directory that it writes to.
LEMMA ExportKeepsWorld ==
    ASSUME WellFormed(args, world), NEW exported, NEW w, w = [world EXCEPT !.exported = exported]
    PROVE  /\ WellFormed(args, w)
           /\ w.exported = exported /\ w.shipped = world.shipped
           /\ w.candidates = world.candidates /\ w.baseline = world.baseline
           /\ w.builtin = world.builtin
<1>1. /\ DOMAIN w = DOMAIN world /\ w.exported = exported /\ w.shipped = world.shipped
      /\ w.candidates = world.candidates /\ w.baseline = world.baseline
      /\ w.answers = world.answers /\ w.inventories = world.inventories
      /\ w.builtin = world.builtin /\ w.pluginDirectories = world.pluginDirectories
  BY DEF WellFormed
<1>2. Specs(args, w) = Specs(args, world) /\ PolicyFiles(args, w) = PolicyFiles(args, world)
  BY <1>1 DEF Specs, PolicyFiles
<1> QED BY <1>1, <1>2 DEF WellFormed

\* What load_policy ends in.
LEMMA Outcomes ==
    LoadPolicy(args.config, world.candidates).outcome \in {"refused", "raises", "loaded"}
<1>1. \A d : Reading(d) \in {"refused", "raises", "loaded"}
  <2> TAKE d
  <2> DEFINE broken == {i \in DOMAIN Parts : PartRefused(d, Parts[i]) \/ Parts[i] \in d.notNumbers}
  <2> HIDE DEF broken
  <2> QED BY DEF Reading, broken
<1> QED BY <1>1 DEF LoadPolicy

LEMMA StagesHold == Stages /\ [Next]_vars => Stages'
<1> SUFFICES ASSUME Stages, [Next]_vars PROVE Stages'
  OBVIOUS
<1>0. WellFormed(args, world)
  BY DEF Stages
<1>1. CASE UNCHANGED vars
  BY <1>1 DEF vars, Stages, BeforeScan, AfterScan
<1>2. CASE Start
  BY <1>2, Going DEF Start, Stages, BeforeScan, AfterScan, inputs, outputs
<1>3. CASE PlanExport
  BY <1>3, Going DEF PlanExport, Stages, BeforeScan, AfterScan, inputs, outputs
<1>4. CASE Export
  <2>1. WellFormed(args, world)'
    BY <1>0, <1>4, ExportKeepsWorld DEF Export
  <2> QED BY <2>1, <1>4, Going DEF Export, Stages, BeforeScan, AfterScan
<1>5. CASE ReadPolicy
  <2>1. loaded'.outcome \in {"refused", "raises", "loaded"}
    BY <1>5, Outcomes DEF ReadPolicy
  <2>2. pc = "load" /\ pc' \in {"wizard", "listing", "plugins", "done"} /\ UNCHANGED <<inputs, report>>
    BY <1>5, <2>1, Going DEF ReadPolicy
  <2> QED BY <2>2 DEF Stages, BeforeScan, AfterScan, inputs
<1>6. CASE RunWizard
  <2>1. /\ WellFormed(args, world)'
        /\ args'.export = args.export /\ args'.help = args.help
    BY <1>0, <1>6, WizardIsWellFormed DEF RunWizard
  <2>2. pc = "wizard" /\ pc' \in {"start", "done"} /\ report' = report
    BY <1>6, Going DEF RunWizard
  <2> QED BY <2>1, <2>2 DEF Stages, BeforeScan, AfterScan
<1>7. CASE List \/ ReadPlugins \/ ReadTargets \/ CheckOptions
  BY <1>7, Going DEF List, ReadPlugins, ReadTargets, CheckOptions, Stages, BeforeScan, AfterScan,
                     inputs, outputs
<1>8. CASE Scan \/ Record \/ CompareWithBaseline \/ Render \/ ReadBack \/ Gates
  <2>1. pc \in {"scan"} \cup AfterScan /\ pc' \in AfterScan \cup {"done"} /\ UNCHANGED inputs
    BY <1>8, Going, Failing
       DEF Scan, Record, CompareWithBaseline, Render, PrintComparison, ReadBack, Gates, AfterScan
  <2> QED BY <2>1 DEF Stages, BeforeScan, AfterScan, inputs
<1>9. CASE Finished
  BY <1>1, <1>9 DEF Finished
<1> QED BY <1>1, <1>2, <1>3, <1>4, <1>5, <1>6, <1>7, <1>8, <1>9 DEF Next

\* Before the scan there is nothing to report, and only the scan comes after.
LEMMA Beforehand ==
    ASSUME Stages, [Next]_vars, pc \in BeforeScan \ {"scan"}
    PROVE  /\ report = <<>> /\ report' = <<>>
           /\ pc' \in BeforeScan \cup {"done"}
<1>0. report = <<>>
  BY DEF Stages
<1>1. CASE UNCHANGED vars
  BY <1>0, <1>1 DEF vars
<1>2. CASE Start \/ PlanExport \/ Export
  BY <1>0, <1>2, Going DEF Start, PlanExport, Export, BeforeScan, outputs
<1>3. CASE ReadPolicy
  <2>1. loaded'.outcome \in {"refused", "raises", "loaded"}
    BY <1>3, Outcomes DEF ReadPolicy
  <2> QED BY <1>0, <1>3, <2>1, Going DEF ReadPolicy, BeforeScan
<1>4. CASE RunWizard \/ List \/ ReadPlugins \/ ReadTargets \/ CheckOptions
  BY <1>0, <1>4, Going DEF RunWizard, List, ReadPlugins, ReadTargets, CheckOptions, BeforeScan
<1>5. ~(Scan \/ Record \/ CompareWithBaseline \/ Render \/ ReadBack \/ Gates \/ Finished)
  BY DEF Scan, Record, CompareWithBaseline, Render, ReadBack, Gates, Finished, BeforeScan
<1> QED BY <1>1, <1>2, <1>3, <1>4, <1>5 DEF Next

-----------------------------------------------------------------------------
(* What was asked for is delivered                                         *)

\* What is written is taken off what is to be written.
LEMMA Taking ==
    ASSUME NEW S, NEW list \in Seq(S), list # <<>>
    PROVE  /\ Tail(list) \in Seq(S)
           /\ Range(list) \subseteq {Head(list)} \cup Range(Tail(list))
<1>1. /\ Tail(list) \in Seq(S) /\ Len(Tail(list)) = Len(list) - 1
      /\ \A i \in 1..Len(Tail(list)) : Tail(list)[i] = list[i + 1]
      /\ Head(list) = list[1]
  BY HeadTailProperties
<1>2. Len(list) \in Nat /\ DOMAIN list = 1..Len(list) /\ DOMAIN Tail(list) = 1..Len(list) - 1
  BY <1>1, LenProperties
<1>3. ASSUME NEW i \in DOMAIN list, i # 1 PROVE list[i] \in Range(Tail(list))
  <2>1. i - 1 \in DOMAIN Tail(list) /\ i = (i - 1) + 1
    BY <1>2, <1>3
  <2>2. Tail(list)[i - 1] = list[i]
    BY <1>1, <1>2, <2>1
  <2> QED BY <2>1, <2>2 DEF Range
<1> QED BY <1>1, <1>3 DEF Range

\* Nothing that a run has not reported can be missing from it.
LEMMA Unreported ==
    ASSUME report = <<>> PROVE DeliveredOrSaid /\ ZeroIsEarned
BY DEF DeliveredOrSaid, ZeroIsEarned, Scanned

\* What writes before the scan is an export, and nothing comes after it.
LEMMA WrittenLater ==
    ASSUME [Next]_vars, pc \in BeforeScan \ {"scan"}, pc' \in Unwritten
    PROVE  pc \in Unwritten /\ written' = written
<1>1. CASE UNCHANGED vars
  BY <1>1 DEF vars
<1>2. CASE Export
  BY <1>2, Going DEF Export, Unwritten, BeforeScan
<1>3. CASE \/ Start \/ PlanExport \/ ReadPolicy \/ RunWizard \/ List \/ ReadPlugins \/ ReadTargets
           \/ CheckOptions
  BY <1>3 DEF Start, PlanExport, ReadPolicy, RunWizard, List, ReadPlugins, ReadTargets, CheckOptions,
              outputs, Unwritten, BeforeScan
<1>4. ~(Scan \/ Record \/ CompareWithBaseline \/ Render \/ ReadBack \/ Gates \/ Finished)
  BY DEF Scan, Record, CompareWithBaseline, Render, ReadBack, Gates, Finished, BeforeScan
<1> QED BY <1>1, <1>2, <1>3, <1>4 DEF Next

LEMMA DeliveringHolds == Stages /\ Delivering /\ [Next]_vars => Delivering'
<1> SUFFICES ASSUME Stages, Delivering, [Next]_vars PROVE Delivering'
  OBVIOUS
<1>0. WellFormed(args, world)
  BY DEF Stages
<1>1. CASE UNCHANGED vars
  BY <1>1 DEF vars, Delivering, DeliveredOrSaid, Scanned
<1>2. CASE pc \in BeforeScan \ {"scan"}
  <2>1. report' = <<>> /\ pc' \in BeforeScan \cup {"done"}
    BY <1>2, Beforehand
  <2>2. pc' \notin {"compare", "render", "reread", "gates"}
    BY <2>1 DEF BeforeScan
  <2>3. DeliveredOrSaid'
    BY <2>1 DEF DeliveredOrSaid, Scanned
  <2>4. pc' \in Unwritten => written' = {}
    BY <1>2, <2>1, WrittenLater DEF Delivering
  <2> QED BY <2>2, <2>3, <2>4 DEF Delivering
<1>3. CASE Scan
  <2>1. /\ pc' = "history" /\ pc \in Unwritten /\ written' = written
    BY <1>3, Going DEF Scan, outputs, Unwritten, BeforeScan
  <2>2. written' = {}
    BY <2>1 DEF Delivering
  <2> QED BY <2>1, <2>2 DEF Delivering, DeliveredOrSaid, Scanned
<1>4. CASE Record
  <2>0. pc \in Unwritten /\ written' = {} /\ pc' \notin Unwritten
    BY <1>4, Going, Failing DEF Record, Delivering, Unwritten, BeforeScan
  <2>1. \/ pc' = "compare" /\ (args'.history => recorded')
        \/ pc' = "done" /\ exit' \in {"usage", "traceback"}
    <3>1. CASE GoesTo("compare") /\ recorded' = args.history
      <4>1. args' = args
        BY <1>4 DEF Record, inputs
      <4>2. args'.history => recorded'
        BY <3>1, <4>1, Zenon
      <4>3. pc' = "compare"
        BY <3>1, Going
      <4> QED BY <4>2, <4>3, Zenon
    <3>2. CASE Fails
      BY <3>2, Failing
    <3> QED BY <1>4, <3>1, <3>2 DEF Record
  <2> QED BY <2>0, <2>1 DEF Delivering, DeliveredOrSaid, Scanned
<1>5. CASE CompareWithBaseline
  <2>0. /\ pc' \notin Unwritten /\ UNCHANGED <<args, recorded>> /\ (args.history => recorded)
        /\ \/ pc' = "render" /\ toWrite' = args.formats
           \/ pc' = "done" /\ exit' \in {"usage", "traceback"}
    BY <1>5, Going DEF CompareWithBaseline, inputs, Delivering, Unwritten, BeforeScan
  <2>1. CASE pc' = "render" /\ toWrite' = args.formats
    <3>1. args.formats \in Seq(Range(args.formats))
      BY <1>0 DEF WellFormed, IsSequence
    <3> QED BY <2>0, <2>1, <3>1 DEF Delivering, DeliveredOrSaid, Scanned
  <2>2. CASE pc' = "done" /\ exit' \in {"usage", "traceback"}
    BY <2>0, <2>2 DEF Delivering, DeliveredOrSaid, Scanned
  <2> QED BY <2>0, <2>1, <2>2
<1>6. CASE Render
  <2>0. /\ pc = "render" /\ UNCHANGED <<args, recorded>> /\ (args.history => recorded)
        /\ toWrite \in Seq(Range(args.formats))
        /\ Range(args.formats) \subseteq written \cup Range(toWrite)
    BY <1>6 DEF Render, inputs, Delivering
  <2>a. pc' \notin Unwritten
    BY <1>6, <2>0, Going, Failing DEF Render, PrintComparison, Unwritten, BeforeScan
  <2>1. CASE toWrite = <<>>
    <3>1. Range(toWrite) = {}
      BY <2>1 DEF Range
    <3>2. /\ pc' = "reread" \/ (pc' = "done" /\ exit' = "traceback")
          /\ written' = written
      BY <1>6, <2>1, Going DEF Render, PrintComparison
    <3> QED BY <2>0, <2>a, <3>1, <3>2 DEF Delivering, DeliveredOrSaid, Scanned
  <2>2. CASE toWrite # <<>> /\ pc' = "done" /\ exit' \in {"usage", "traceback"}
    BY <2>0, <2>a, <2>2 DEF Delivering, DeliveredOrSaid, Scanned
  <2>3. CASE /\ toWrite # <<>> /\ toWrite' = Tail(toWrite) /\ pc' = pc
             /\ written' = written \cup {Head(toWrite)}
    <3>1. /\ toWrite' \in Seq(Range(args.formats))
          /\ Range(toWrite) \subseteq {Head(toWrite)} \cup Range(toWrite')
      BY <2>0, <2>3, Taking
    <3>2. Range(args'.formats) \subseteq written' \cup Range(toWrite')
      BY <2>0, <2>3, <3>1
    <3> QED BY <2>0, <2>a, <2>3, <3>1, <3>2 DEF Delivering, DeliveredOrSaid, Scanned
  <2> QED BY <1>6, <2>1, <2>2, <2>3, Failing DEF Render
<1>7. CASE ReadBack \/ Gates
  <2>1. /\ pc \in {"reread", "gates"} /\ pc' \in {"gates", "done"}
        /\ UNCHANGED <<args, recorded, written>>
    <3>1. CASE ReadBack
      BY <3>1, Going, Failing DEF ReadBack, inputs, outputs
    <3>2. CASE Gates
      BY <3>2, Going DEF Gates, inputs, outputs
    <3> QED BY <1>7, <3>1, <3>2
  <2>3. pc' \notin Unwritten
    BY <2>1 DEF Unwritten, BeforeScan
  <2>2. Range(args'.formats) \subseteq written' /\ (args'.history => recorded')
    BY <2>1 DEF Delivering
  <2> QED BY <2>1, <2>2, <2>3 DEF Delivering, DeliveredOrSaid, Scanned, Range
<1>8. CASE Finished
  BY <1>1, <1>8 DEF Finished
<1> QED
  <2>1. pc \in (BeforeScan \ {"scan"}) \cup {"scan"} \cup AfterScan \cup {"done"}
    BY DEF Stages
  <2> QED BY <1>1, <1>2, <1>3, <1>4, <1>5, <1>6, <1>7, <1>8, <2>1
       DEF Next, Start, PlanExport, Export, ReadPolicy, RunWizard, List, ReadPlugins, ReadTargets,
           CheckOptions, BeforeScan

-----------------------------------------------------------------------------
(* An export is whole                                                      *)

LEMMA ExportingHolds == Stages /\ Exporting /\ [Next]_vars => Exporting'
<1> SUFFICES ASSUME Stages, Exporting, [Next]_vars PROVE Exporting'
  OBVIOUS
<1>0. WellFormed(args, world) /\ world.shipped \in Seq(Range(world.shipped))
  BY DEF Stages, WellFormed, IsSequence
<1>a. ASSUME UNCHANGED <<args, world, pc, exit, toWrite>> PROVE Exporting'
  BY <1>a DEF Exporting, ExportFiles, ExportIsWhole
<1>b. ASSUME ~(args'.export /\ ~args'.help), pc' # "exporting" PROVE Exporting'
  BY <1>b DEF Exporting, ExportIsWhole
<1>c. ASSUME pc' # "exporting", ~(pc' = "done" /\ exit' = "ok") PROVE Exporting'
  BY <1>c DEF Exporting, ExportIsWhole
<1>1. CASE UNCHANGED vars
  BY <1>1, <1>a DEF vars
<1>2. CASE Start
  <2>1. args' = args /\ pc' # "exporting"
    BY <1>2, Going DEF Start, inputs
  <2>2. CASE args.export /\ ~args.help
    <3>1. pc' = "export" \/ exit' = "usage"
      BY <1>2, <2>2, Going DEF Start
    <3> QED BY <1>c, <2>1, <3>1
  <2> QED BY <1>b, <2>1, <2>2
<1>3. CASE PlanExport
  <2>1. CASE Exits("usage")
    BY <1>c, <2>1, Going
  <2>2. CASE pc' = "exporting" /\ PolicyCopy \notin DOMAIN world.exported /\ ~Edited
             /\ toWrite' = <<PolicyCopy>> \o Missing
    <3> DEFINE places == {i \in DOMAIN world.shipped : world.shipped[i] \notin DOMAIN world.exported}
    <3>1. Missing = Kept(world.shipped, places)
      BY DEF Missing
    <3>2. /\ Missing \in Seq(Range(world.shipped))
          /\ \A i \in places : \E k \in DOMAIN Missing : Missing[k] = world.shipped[i]
      <4>1. places \in SUBSET DOMAIN world.shipped
        OBVIOUS
      <4> HIDE DEF places
      <4> QED BY <1>0, <3>1, <4>1, KeptIs
    <3> DEFINE S == ExportFiles
    <3>3. Missing \in Seq(S) /\ <<PolicyCopy>> \in Seq(S)
      <4>1. Range(world.shipped) \subseteq S /\ PolicyCopy \in S
        BY DEF ExportFiles
      <4> HIDE DEF S
      <4>2. Missing \in Seq(S)
        BY <3>2, <4>1, SeqMonotonic
      <4> QED BY <4>1, <4>2
    <3>4. /\ toWrite' \in Seq(S)
          /\ Range(toWrite') = Range(<<PolicyCopy>>) \cup Range(Missing)
      <4> HIDE DEF S
      <4> QED BY <2>2, <3>3, ConcatProperties, RangeConcatenation
    <3>5. ASSUME NEW i \in DOMAIN world.shipped
          PROVE  \/ world.shipped[i] \in DOMAIN world.exported /\ world.exported[world.shipped[i]] = "shipped"
                 \/ world.shipped[i] \in Range(toWrite')
      <4>1. CASE i \in places
        BY <3>2, <3>4, <4>1 DEF Range
      <4>2. CASE i \notin places
        BY <2>2, <4>2 DEF Edited
      <4> QED BY <4>1, <4>2
    <3>6. PolicyCopy \in Range(toWrite')
      BY <3>4 DEF Range
    <3>7. world' = world
      BY <1>3 DEF PlanExport, inputs
    <3>8. Exporting!1'
      BY <3>4, <3>5, <3>6, <3>7 DEF ExportFiles, Range
    <3> QED BY <2>2, <3>8 DEF Exporting, ExportIsWhole
  <2> QED BY <1>3, <2>1, <2>2, Going DEF PlanExport
<1>4. CASE Export
  <2>0. /\ pc = "exporting" /\ toWrite \in Seq(ExportFiles) /\ args' = args
        /\ \A f \in ExportFiles :
              \/ f \in DOMAIN world.exported /\ world.exported[f] = "shipped"
              \/ f \in Range(toWrite)
    BY <1>4 DEF Export, Exporting
  <2>1. CASE toWrite = <<>> /\ world' = world
    <3>1. \A f \in ExportFiles : f \in DOMAIN world.exported /\ world.exported[f] = "shipped"
      BY <2>0, <2>1 DEF Range
    <3>2. ExportIsWhole'
      BY <2>1, <3>1 DEF ExportIsWhole, ExportFiles, Range
    <3>3. pc' = "done"
      BY <1>4, <2>1, Going DEF Export
    <3> QED BY <3>2, <3>3 DEF Exporting
  <2>2. CASE Exits("usage")
    BY <1>c, <2>2, Going
  <2>3. CASE /\ toWrite # <<>> /\ toWrite' = Tail(toWrite) /\ pc' = pc
             /\ world' = [world EXCEPT !.exported = Over([f \in {Head(toWrite)} |-> "shipped"], @)]
    <3>1. /\ toWrite' \in Seq(ExportFiles)
          /\ Range(toWrite) \subseteq {Head(toWrite)} \cup Range(toWrite')
      BY <2>0, <2>3, Taking
    <3> DEFINE there == Over([f \in {Head(toWrite)} |-> "shipped"], world.exported)
    <3>2. world' = [world EXCEPT !.exported = there]
      BY <2>3
    <3>3. world'.exported = there /\ world'.shipped = world.shipped
      <4> HIDE DEF there
      <4> QED BY <1>0, <3>2, ExportKeepsWorld
    <3>4. /\ Head(toWrite) \in DOMAIN there /\ there[Head(toWrite)] = "shipped"
          /\ \A f \in DOMAIN world.exported : f \in DOMAIN there
          /\ \A f \in DOMAIN world.exported : world.exported[f] = "shipped" => there[f] = "shipped"
      <4> DEFINE one == [f \in {Head(toWrite)} |-> "shipped"]
      <4>1. DOMAIN one = {Head(toWrite)} /\ one[Head(toWrite)] = "shipped"
        OBVIOUS
      <4>2. there = Over(one, world.exported)
        OBVIOUS
      <4> HIDE DEF one, there
      <4> QED BY <4>1, <4>2 DEF Over
    <3>5. ExportFiles' = ExportFiles
      BY <3>3 DEF ExportFiles
    <3>6. ASSUME NEW f \in ExportFiles
          PROVE  \/ f \in DOMAIN world'.exported /\ world'.exported[f] = "shipped"
                 \/ f \in Range(toWrite')
      <4> HIDE DEF there
      <4>1. CASE f \in DOMAIN world.exported /\ world.exported[f] = "shipped"
        BY <3>3, <3>4, <4>1
      <4>2. CASE f \in Range(toWrite)
        BY <3>1, <3>3, <3>4, <4>2
      <4> QED BY <2>0, <4>1, <4>2
    <3> QED BY <2>0, <2>3, <3>1, <3>5, <3>6 DEF Exporting, ExportIsWhole
  <2> QED BY <1>4, <2>1, <2>2, <2>3 DEF Export
<1>5. CASE ReadPolicy \/ RunWizard \/ List \/ ReadPlugins \/ ReadTargets \/ CheckOptions
           \/ Scan \/ Record \/ CompareWithBaseline \/ Render \/ ReadBack \/ Gates
  <2>1. pc \notin {"start", "export", "exporting", "done"}
    BY <1>5 DEF ReadPolicy, RunWizard, List, ReadPlugins, ReadTargets, CheckOptions, Scan, Record,
                CompareWithBaseline, Render, ReadBack, Gates
  <2>2. ~(args.export /\ ~args.help)
    BY <2>1 DEF Stages
  <2>3. CASE RunWizard
    <3>1. args'.export = args.export /\ args'.help = args.help
      BY <1>0, <2>3, WizardIsWellFormed DEF RunWizard
    <3>2. pc' \in {"done", "start"}
      BY <2>3, Going DEF RunWizard
    <3> QED BY <1>b, <2>2, <3>1, <3>2
  <2>4. CASE ~RunWizard
    <3>1. args' = args
      BY <1>5, <2>4 DEF ReadPolicy, List, ReadPlugins, ReadTargets, CheckOptions, Scan, Record,
                CompareWithBaseline, Render, ReadBack, Gates, inputs
    <3>2. pc' # "exporting"
      <4>1. CASE ReadPolicy
        <5>1. loaded'.outcome \in {"refused", "raises", "loaded"}
          BY <4>1, Outcomes DEF ReadPolicy
        <5>2. pc' \in {"wizard", "listing", "plugins", "done"}
          BY <4>1, <5>1, Going DEF ReadPolicy
        <5> QED BY <5>2
      <4>2. CASE List \/ ReadPlugins \/ ReadTargets \/ CheckOptions
        <5>1. pc' \in {"listing", "targets", "options", "scan", "done"}
          BY <4>2, Going DEF List, ReadPlugins, ReadTargets, CheckOptions
        <5> QED BY <5>1
      <4>3. CASE Scan \/ Record \/ CompareWithBaseline \/ Render \/ ReadBack \/ Gates
        <5>1. pc' \in {"history", "compare", "render", "reread", "gates", "done"}
          BY <4>3, Going, Failing
             DEF Scan, Record, CompareWithBaseline, Render, PrintComparison, ReadBack, Gates
        <5> QED BY <5>1
      <4> QED BY <1>5, <2>4, <4>1, <4>2, <4>3
    <3> QED BY <1>b, <2>2, <3>1, <3>2
  <2> QED BY <2>3, <2>4
<1>6. CASE Finished
  BY <1>1, <1>6 DEF Finished
<1> QED BY <1>1, <1>2, <1>3, <1>4, <1>5, <1>6 DEF Next

-----------------------------------------------------------------------------
(* An exit code 0 is earned                                                *)

\* The severities are ranked, so what is not at or above one is below it.
LEMMA Ranks ==
    \A x \in Severities : SeverityRank(x) \in 1..5
<1> SUFFICES ASSUME NEW i \in DOMAIN SeverityOrder PROVE SeverityRank(SeverityOrder[i]) \in 1..5
  BY DEF Severities
<1>1. DOMAIN SeverityOrder = 1..5
  BY DEF SeverityOrder
<1>2. \E k \in DOMAIN SeverityOrder : SeverityOrder[k] = SeverityOrder[i]
  OBVIOUS
<1>3. SeverityRank(SeverityOrder[i]) \in DOMAIN SeverityOrder
  <2> HIDE DEF SeverityOrder
  <2> QED BY <1>2 DEF SeverityRank
<1> QED BY <1>1, <1>3

\* Each server is looked up in the report under its own address.
LEMMA OwnResult ==
    ASSUME Distinct, NEW i \in DOMAIN targets
    PROVE  /\ Address(targets[i]) \in DOMAIN ByAddress
           /\ ByAddress[Address(targets[i])] =
                 [report[i].found EXCEPT !.findings = {x.id : x \in report[i].found.findings}]
<1> DEFINE a == Address(targets[i])
           own == CHOOSE k \in DOMAIN targets : Address(targets[k]) = a
<1>1. own \in DOMAIN targets /\ Address(targets[own]) = a
  OBVIOUS
<1>2. own = i
  BY <1>1 DEF Distinct
<1>3. a \in {Address(targets[k]) : k \in DOMAIN targets}
  OBVIOUS
<1>4. ByAddress[a] = [report[own].found EXCEPT !.findings = {x.id : x \in report[own].found.findings}]
  BY <1>3 DEF ByAddress
<1> HIDE DEF own
<1> QED BY <1>2, <1>3, <1>4 DEF ByAddress

\* A server without a regression is no worse than it was (TargetDrift.regressed).
LEMMA NoRegression ==
    ASSUME WellFormed(args, world), Distinct, Measured, NEW i \in DOMAIN targets,
           drift = Compare(world.baseline.results, ByAddress), Regressions(drift) = {},
           report[i].found.ok
    PROVE  NotWorse(i)
<1> DEFINE a == Address(targets[i])
           before == world.baseline.results[a]
           after == report[i].found
<1> SUFFICES ASSUME a \in DOMAIN world.baseline.results
             PROVE  IF before.score = NoScore THEN {x.id : x \in after.findings} \subseteq before.findings
                    ELSE after.score >= before.score
  BY DEF NotWorse
<1>1. a \in DOMAIN ByAddress /\ ByAddress[a] = [after EXCEPT !.findings = {x.id : x \in after.findings}]
  BY OwnResult
<1>2. /\ {"ok", "score", "findings"} \subseteq DOMAIN after
      /\ after.score \in Int /\ after.score # NoScore
  BY CommandAssumption DEF Measured
<1>3. ByAddress[a].score = after.score /\ ByAddress[a].findings = {x.id : x \in after.findings}
  BY <1>1, <1>2
<1>4. before.score \in Int
  BY DEF WellFormed
<1>5. ~Regressed(before, ByAddress[a])
  <2>1. a \in DOMAIN drift /\ (drift[a].regressed <=> Regressed(before, ByAddress[a]))
    <3> DEFINE now == ByAddress
               there == world.baseline.results
    <3> HIDE DEF now
    <3>1. drift = [x \in DOMAIN there \cup DOMAIN now |->
                     [status |-> Status(there, now, x),
                      regressed |-> x \in DOMAIN there \cap DOMAIN now /\ Regressed(there[x], now[x])]]
      BY DEF now, Compare
    <3>2. a \in DOMAIN there \cap DOMAIN now
      BY <1>1 DEF now
    <3> HIDE DEF there
    <3>3. a \in DOMAIN drift /\ (drift[a].regressed <=> Regressed(there[a], now[a]))
      <4> HIDE DEF a
      <4>1. a \in DOMAIN drift
        BY <3>1, <3>2
      <4>2. drift[a] = [status |-> Status(there, now, a),
                        regressed |-> a \in DOMAIN there \cap DOMAIN now /\ Regressed(there[a], now[a])]
        BY <3>1, <3>2
      <4>3. drift[a].regressed = (a \in DOMAIN there \cap DOMAIN now /\ Regressed(there[a], now[a]))
        BY <4>2
      <4> QED BY <3>2, <4>1, <4>3
    <3> QED BY <3>3 DEF now, there
  <2>2. ~drift[a].regressed
    BY <2>1 DEF Regressions
  <2> QED BY <2>1, <2>2
<1> HIDE DEF a, before, after
<1>6. CASE before.score = NoScore
  <2>1. NewFindings(before, ByAddress[a]) = {}
    BY <1>5, <1>6 DEF Regressed
  <2> QED BY <1>3, <1>6, <2>1 DEF NewFindings
<1>7. CASE before.score # NoScore
  <2>1. ~(ByAddress[a].score < before.score)
    BY <1>2, <1>3, <1>5, <1>7 DEF Regressed
  <2>2. after.score >= before.score
    BY <1>2, <1>3, <1>4, <2>1
  <2> QED BY <1>7, <2>2
<1> QED BY <1>6, <1>7

\* The gates let 0 through for a report that passes each of them.
LEMMA GatesEarn ==
    ASSUME WellFormed(args, world), Earning, Gates
    PROVE  ZeroIsEarned'
<1>0. /\ pc = "gates" /\ Distinct /\ Measured
      /\ args.compare => drift = Compare(world.baseline.results, ByAddress)
  BY DEF Gates, Earning, AfterScan
<1>1. UNCHANGED <<args, world, loaded, targets, report, drift>>
  BY DEF Gates, inputs, outputs
<1> SUFFICES ASSUME exit' = "ok"
             PROVE  \A i \in DOMAIN targets :
                       /\ report[i].found.ok
                       /\ \A s \in args.required : Evaluated(s) =>
                             s \in DOMAIN report[i].compliance /\ report[i].compliance[s] = "pass"
                       /\ args.failOn # "never" =>
                             \A f \in report[i].found.findings :
                                 SeverityRank(f.severity) > SeverityRank(args.failOn)
                       /\ args.compare /\ args.regression => NotWorse(i)
  BY <1>1 DEF ZeroIsEarned, Evaluated, NotWorse, Address
<1>2. /\ ~(args.compare /\ args.regression /\ Regressions(drift) # {})
      /\ ~ProfileNotMet /\ ~ThresholdExceeded
      /\ \A i \in DOMAIN report : report[i].found.ok
  <2>1. exit' = IF (args.compare /\ args.regression /\ Regressions(drift) # {})
                   \/ ProfileNotMet \/ ThresholdExceeded THEN "findings"
                ELSE IF \E i \in DOMAIN report : ~report[i].found.ok THEN "scan error" ELSE "ok"
    BY Zenon DEF Gates, Exits
  <2> QED BY <2>1
<1>3. SUFFICES ASSUME NEW i \in DOMAIN targets
               PROVE  /\ report[i].found.ok
                      /\ \A s \in args.required : Evaluated(s) =>
                            s \in DOMAIN report[i].compliance /\ report[i].compliance[s] = "pass"
                      /\ args.failOn # "never" =>
                            \A f \in report[i].found.findings :
                                SeverityRank(f.severity) > SeverityRank(args.failOn)
                      /\ args.compare /\ args.regression => NotWorse(i)
  OBVIOUS
<1>4. /\ i \in DOMAIN report /\ report[i].found.ok /\ report[i].found \in Results
      /\ DOMAIN report[i].compliance = Selected
  BY <1>0, <1>2 DEF Measured
<1>5. ASSUME NEW s \in args.required, Evaluated(s)
      PROVE  s \in DOMAIN report[i].compliance /\ report[i].compliance[s] = "pass"
  <2>1. s \in Selected
    BY <1>5 DEF Evaluated, Selected
  <2> QED BY <1>2, <1>4, <2>1 DEF ProfileNotMet
<1>6. ASSUME args.failOn # "never", NEW f \in report[i].found.findings
      PROVE  SeverityRank(f.severity) > SeverityRank(args.failOn)
  <2>1. ~(SeverityRank(f.severity) <= SeverityRank(args.failOn))
    BY <1>2, <1>4, <1>6 DEF ThresholdExceeded
  <2>2. f.severity \in Severities /\ args.failOn \in Severities
    BY <1>4, <1>6, CommandAssumption DEF WellFormed
  <2>3. SeverityRank(f.severity) \in 1..5 /\ SeverityRank(args.failOn) \in 1..5
    BY <2>2, Ranks
  <2> QED BY <2>1, <2>3
<1>7. args.compare /\ args.regression => NotWorse(i)
  BY <1>0, <1>2, <1>4, NoRegression
<1> QED BY <1>4, <1>5, <1>6, <1>7

\* Steps that leave the scan and its measures as they are.
LEMMA EarningKept ==
    ASSUME Earning, pc \in {"options", "scan"} \cup AfterScan,
           UNCHANGED <<args, world, loaded, targets, report>>
    PROVE  /\ Distinct' /\ (pc \in AfterScan => Measured')
           /\ (drift' = drift => ByAddress' = ByAddress)
<1>1. Distinct /\ (pc \in AfterScan => Measured)
  BY DEF Earning
<1>2. Selected' = Selected /\ ByAddress' = ByAddress
  BY DEF Selected, ByAddress, Address
<1> QED BY <1>1, <1>2 DEF Distinct, Measured, Address

LEMMA EarningHolds == Stages /\ Earning /\ [Next]_vars => Earning'
<1> SUFFICES ASSUME Stages, Earning, [Next]_vars PROVE Earning'
  OBVIOUS
<1>0. WellFormed(args, world)
  BY DEF Stages
<1>a. ASSUME ~(pc' = "done" /\ exit' = "ok") PROVE ZeroIsEarned'
  BY <1>a DEF ZeroIsEarned, Scanned
<1>1. CASE UNCHANGED vars
  <2>1. /\ Distinct' = Distinct /\ Measured' = Measured /\ ByAddress' = ByAddress
        /\ ZeroIsEarned' = ZeroIsEarned
    BY <1>1 DEF vars, Distinct, Measured, Selected, ByAddress, Address, ZeroIsEarned, Scanned,
                Evaluated, NotWorse
  <2> QED BY <1>1, <2>1 DEF vars, Earning
<1>2. CASE pc \in BeforeScan \ {"scan"}
  <2>1. ZeroIsEarned' /\ pc' \notin AfterScan
    BY <1>2, Beforehand DEF ZeroIsEarned, Scanned, BeforeScan, AfterScan
  <2>2. CASE ReadTargets
    <3>1. targets' = BuildTargets(args.specs, world.inventories, args.port, args.credentials)
      BY <2>2 DEF ReadTargets
    <3>2. Distinct'
      BY <1>0, <3>1, EachServerOnce DEF Distinct, Address
    <3> QED BY <2>1, <3>2 DEF Earning, AfterScan
  <2>3. CASE CheckOptions
    <3>1. pc = "options" /\ targets' = targets
      BY <2>3 DEF CheckOptions
    <3>2. Distinct'
      BY <3>1 DEF Earning, Distinct, Address
    <3> QED BY <2>1, <3>2 DEF Earning, AfterScan
  <2>4. CASE ReadPolicy
    <3>1. loaded'.outcome \in {"refused", "raises", "loaded"}
      BY <2>4, Outcomes DEF ReadPolicy
    <3>2. pc' \in {"wizard", "listing", "plugins", "done"}
      BY <2>4, <3>1, Going DEF ReadPolicy
    <3> QED BY <2>1, <3>2 DEF Earning, AfterScan
  <2>5. CASE Start \/ PlanExport \/ Export
    <3>1. pc' \in {"export", "load", "exporting", "done"}
      BY <2>5, Going DEF Start, PlanExport, Export
    <3> QED BY <2>1, <3>1 DEF Earning, AfterScan
  <2>6. CASE RunWizard \/ List \/ ReadPlugins
    <3>1. pc' \in {"start", "listing", "targets", "done"}
      BY <2>6, Going DEF RunWizard, List, ReadPlugins
    <3> QED BY <2>1, <3>1 DEF Earning, AfterScan
  <2>7. ~(Scan \/ Record \/ CompareWithBaseline \/ Render \/ ReadBack \/ Gates \/ Finished)
    BY <1>2 DEF Scan, Record, CompareWithBaseline, Render, ReadBack, Gates, Finished, BeforeScan
  <2> QED BY <1>1, <2>2, <2>3, <2>4, <2>5, <2>6, <2>7 DEF Next
<1>3. CASE Scan
  <2>1. /\ pc = "scan" /\ pc' = "history"
        /\ UNCHANGED <<args, world, loaded, targets, drift>>
    BY <1>3, Going DEF Scan, inputs, outputs
  <2>2. PICK found \in [DOMAIN targets -> Results],
             statuses \in [DOMAIN targets -> [Selected -> Statuses]] :
          report' = [i \in DOMAIN targets |->
                        [target |-> targets[i], found |-> found[i],
                         compliance |-> IF found[i].ok THEN statuses[i] ELSE <<>>]]
    BY <1>3, Zenon DEF Scan
  <2>3. Selected' = Selected
    BY <2>1 DEF Selected
  <2>4. Measured'
    <3> HIDE DEF Selected
    <3>1. \A i \in DOMAIN targets : DOMAIN statuses[i] = Selected /\ found[i] \in Results
      BY <2>2
    <3>2. DOMAIN report' = DOMAIN targets'
      BY <2>1, <2>2
    <3>3. ASSUME NEW i \in DOMAIN targets
          PROVE  /\ report'[i].found = found[i]
                 /\ found[i].ok => report'[i].compliance = statuses[i]
      BY <2>2
    <3> QED BY <2>1, <2>3, <3>1, <3>2, <3>3 DEF Measured
  <2>5. Distinct'
    BY <2>1 DEF Earning, Distinct, Address
  <2>6. ZeroIsEarned'
    BY <1>a, <2>1
  <2> QED BY <2>1, <2>4, <2>5, <2>6 DEF Earning
<1>4. CASE Record \/ Render \/ ReadBack
  <2>1. /\ UNCHANGED <<args, world, loaded, targets, report, drift>>
        /\ pc \in AfterScan
        /\ \/ /\ pc' \in AfterScan
              /\ pc' \in {"render", "reread", "gates"} => pc \in {"render", "reread"}
           \/ pc' = "done" /\ exit' \in {"usage", "traceback"}
    BY <1>4, Going, Failing DEF Record, Render, PrintComparison, ReadBack, AfterScan, inputs, outputs
  <2>2. Distinct' /\ Measured' /\ ByAddress' = ByAddress
    BY <2>1, EarningKept
  <2>3. ZeroIsEarned'
    <3>1. ~(pc' = "done" /\ exit' = "ok")
      BY <2>1 DEF AfterScan
    <3> QED BY <1>a, <3>1
  <2> QED BY <2>1, <2>2, <2>3 DEF Earning, AfterScan
<1>5. CASE CompareWithBaseline
  <2>1. /\ UNCHANGED <<args, world, loaded, targets, report>> /\ pc = "compare" /\ pc \in AfterScan
        /\ \/ pc' = "render" /\ (args.compare => drift' = Compare(world.baseline.results, ByAddress))
           \/ pc' = "done" /\ exit' \in {"usage", "traceback"}
    BY <1>5, Going DEF CompareWithBaseline, AfterScan, inputs
  <2>2. ByAddress' = ByAddress
    BY <2>1 DEF ByAddress, Address
  <2>3. Distinct' /\ Measured'
    BY <2>1, EarningKept
  <2>4. ZeroIsEarned'
    BY <1>a, <2>1
  <2> QED BY <2>1, <2>2, <2>3, <2>4 DEF Earning, AfterScan
<1>6. CASE Gates
  <2>1. pc' = "done" /\ ZeroIsEarned'
    BY <1>0, <1>6, GatesEarn, Going DEF Gates
  <2> QED BY <2>1 DEF Earning, AfterScan
<1>7. CASE Finished
  BY <1>1, <1>7 DEF Finished
<1> QED
  <2>1. pc \in (BeforeScan \ {"scan"}) \cup {"scan"} \cup AfterScan \cup {"done"}
    BY DEF Stages
  <2> QED BY <1>1, <1>2, <1>3, <1>4, <1>5, <1>6, <1>7, <2>1
       DEF Next, Start, PlanExport, Export, ReadPolicy, RunWizard, List, ReadPlugins, ReadTargets,
           CheckOptions, BeforeScan

-----------------------------------------------------------------------------
(* The policy is the one that was asked for                                *)

\* The file that is named, or the first that exists (load_policy).
LEMMA ChosenFirst ==
    ASSUME WellFormed(args, world), NEW document,
           document = Chosen(args.config, world.candidates)
    PROVE  /\ document \in PolicyFiles(args, world)
           /\ args.config.given => document = args.config.document
           /\ ~args.config.given =>
                 \A i \in DOMAIN world.candidates :
                    (\A j \in 1..i : world.candidates[j] # document) => ~world.candidates[i].exists
<1> DEFINE c == world.candidates
           existing == {i \in DOMAIN c : c[i].exists}
<1>1. c \in Seq(Range(c)) /\ c # <<>>
  BY DEF WellFormed, IsSequence
<1>2. Len(c) \in Nat /\ DOMAIN c = 1..Len(c) /\ Len(c) # 0
  BY <1>1, LenProperties, EmptySeq
<1>3. CASE args.config.given
  BY <1>3 DEF Chosen, PolicyFiles
<1>4. CASE ~args.config.given /\ existing = {}
  <2>1. document = c[Len(c)] /\ Len(c) \in DOMAIN c
    BY <1>2, <1>4 DEF Chosen
  <2>2. document \in PolicyFiles(args, world)
    BY <2>1 DEF PolicyFiles, Range
  <2> QED BY <1>4, <2>2
<1>5. CASE ~args.config.given /\ existing # {}
  <2>1. existing \in SUBSET Nat
    BY <1>2
  <2>2. \E x \in existing : \A y \in existing : x <= y
    BY <1>5, <2>1, Least
  <2>3. Min(existing) \in existing /\ \A y \in existing : Min(existing) <= y
    BY <2>2 DEF Min
  <2>4. document = c[Min(existing)]
    BY <1>5 DEF Chosen
  <2>5. document \in PolicyFiles(args, world)
    BY <2>3, <2>4 DEF PolicyFiles, Range
  <2>6. ASSUME NEW i \in DOMAIN c, \A j \in 1..i : c[j] # document
        PROVE  ~c[i].exists
    <3>1. SUFFICES ASSUME i \in existing PROVE FALSE
      OBVIOUS
    <3>2. Min(existing) \in 1..i
      BY <1>2, <2>3, <3>1
    <3> QED BY <2>4, <2>6, <3>2
  <2> QED BY <1>5, <2>5, <2>6
<1> QED BY <1>3, <1>4, <1>5

\* Of a directory that is not refused, the edition in force is the only one or
\* the only one that says so (_mark_the_edition_in_force).
LEMMA OneInForce ==
    ASSUME NEW editions, IsFiniteSet(DOMAIN editions), DOMAIN editions # {}, ~FolderRefused(editions)
    PROVE  /\ InForce(editions) \in DOMAIN editions
           /\ \A d \in DOMAIN editions \ {InForce(editions)} : ~editions[d].current
<1> DEFINE D == DOMAIN editions
           said == Declared(editions)
<1>1. Cardinality(D) \in Nat /\ Cardinality(D) # 0
  BY FS_CardinalityType, FS_EmptySet
<1>2. said \in SUBSET D /\ \A d \in D \ said : ~editions[d].current
  BY DEF Declared
<1>3. CASE Cardinality(D) = 1
  <2>1. PICK e : D = {e}
    BY <1>3, FS_Singleton
  <2>2. InForce(editions) \in D
    BY <1>3, <2>1 DEF InForce
  <2> QED BY <2>1, <2>2
<1>4. CASE Cardinality(D) # 1
  <2>1. Cardinality(D) > 1
    BY <1>1, <1>4
  <2>2. Cardinality(said) = 1
    BY <2>1 DEF FolderRefused
  <2>3. IsFiniteSet(said)
    BY <1>2, FS_Subset
  <2>4. PICK e : said = {e}
    BY <2>2, <2>3, FS_Singleton
  <2>5. InForce(editions) = CHOOSE x \in said : TRUE
    BY <1>4 DEF InForce
  <2>6. InForce(editions) = e
    BY <2>4, <2>5
  <2> QED BY <1>2, <2>4, <2>6
<1> QED BY <1>3, <1>4

\* A document that is loaded has no directory that is refused.
LEMMA NoneRefused ==
    ASSUME NEW document, Reading(document) = "loaded"
    PROVE  \A id \in DOMAIN document.directory : ~FolderRefused(document.directory[id])
<1> DEFINE broken == {i \in DOMAIN Parts : PartRefused(document, Parts[i]) \/ Parts[i] \in document.notNumbers}
<1>1. broken = {}
  <2> HIDE DEF broken
  <2>1. Reading(document) =
          CASE document.text = "invalid" -> "refused"
            [] document.text = "other" -> "raises"
            [] document.text = "good" /\ broken = {} -> "loaded"
            [] OTHER -> IF PartRefused(document, Parts[Min(broken)]) THEN "refused" ELSE "raises"
    BY DEF Reading, broken
  <2> QED BY <2>1
<1>2. 12 \in DOMAIN Parts /\ Parts[12] = "directory"
  BY DEF Parts
<1>3. ~PartRefused(document, "directory")
  <2> HIDE DEF Parts
  <2> QED BY <1>1, <1>2
<1> QED BY <1>3 DEF PartRefused

LEMMA LoadsWhatWasAsked ==
    ASSUME Stages, ReadPolicy
    PROVE  PolicyAsAsked'
<1>0. WellFormed(args, world) /\ UNCHANGED <<args, world>>
  BY DEF Stages, ReadPolicy, inputs
<1> DEFINE document == Chosen(args.config, world.candidates)
           inline == [s \in {<<id>> : id \in DOMAIN document.profiles} |-> document.profiles[s[1]].content]
           standards == StandardsOf(document.directory)
<1> SUFFICES ASSUME loaded'.outcome = "loaded" PROVE PolicyAsAsked'
  BY DEF PolicyAsAsked
<1>1. loaded' = LoadPolicy(args.config, world.candidates)
  BY DEF ReadPolicy
<1>2. /\ loaded'.from = document /\ Reading(document) = "loaded"
      /\ loaded'.policy = Built(document)
  <2>1. loaded'.outcome = IF document.exists THEN Reading(document) ELSE "refused"
    BY <1>1 DEF LoadPolicy
  <2>2. document.exists /\ Reading(document) = "loaded"
    BY <2>1
  <2> HIDE DEF document
  <2> QED BY <1>1, <2>1, <2>2 DEF LoadPolicy, document
<1>3. loaded'.policy.profiles = Over(inline, standards)
  <2> HIDE DEF document
  <2> QED BY <1>2 DEF Built
<1>4. ASSUME NEW s \in DOMAIN loaded'.policy.profiles
      PROVE  \/ s[1] \in DOMAIN document.profiles
             \/ \E e \in DOMAIN document.directory[s[1]] :
                   /\ document.directory[s[1]][e].content = loaded'.policy.profiles[s]
                   /\ \A d \in DOMAIN document.directory[s[1]] \ {e} : ~document.directory[s[1]][d].current
  <2>0. document \in PolicyFiles(args, world)
    BY <1>0, ChosenFirst
  <2>1. \A id \in DOMAIN document.directory : IsFiniteSet(DOMAIN document.directory[id])
    BY <1>0, <2>0 DEF WellFormed
  <2>2. \A id \in DOMAIN document.directory : ~FolderRefused(document.directory[id])
    BY <1>2, NoneRefused
  <2> HIDE DEF document
  <2>3. CASE s \in DOMAIN inline
    BY <2>3
  <2>4. CASE s \notin DOMAIN inline
    <3> HIDE DEF inline
    <3>1. s \in DOMAIN standards /\ loaded'.policy.profiles[s] = standards[s]
      BY <1>3, <1>4, <2>4 DEF Over
    <3>2. PICK id \in DOMAIN document.directory : DOMAIN document.directory[id] # {} /\ s = <<id>>
      BY <3>1 DEF StandardsOf
    <3> DEFINE editions == document.directory[id]
    <3>3. s[1] = id /\ standards[s] = editions[InForce(editions)].content
      BY <3>1, <3>2 DEF StandardsOf
    <3>4. /\ InForce(editions) \in DOMAIN editions
          /\ \A d \in DOMAIN editions \ {InForce(editions)} : ~editions[d].current
      BY <2>1, <2>2, <3>2, OneInForce
    <3> QED BY <3>1, <3>3, <3>4
  <2> QED BY <2>3, <2>4
<1>5. /\ args.config.given => document = args.config.document
      /\ ~args.config.given =>
            \A i \in DOMAIN world.candidates :
               (\A j \in 1..i : world.candidates[j] # document) => ~world.candidates[i].exists
  BY <1>0, ChosenFirst
<1> HIDE DEF document
<1> QED BY <1>0, <1>2, <1>4, <1>5 DEF PolicyAsAsked

LEMMA PolicyHolds == Stages /\ PolicyAsAsked /\ [Next]_vars => PolicyAsAsked'
<1> SUFFICES ASSUME Stages, PolicyAsAsked, [Next]_vars PROVE PolicyAsAsked'
  OBVIOUS
<1>0. WellFormed(args, world)
  BY DEF Stages
<1>1. CASE ReadPolicy
  BY <1>1, LoadsWhatWasAsked
<1>2. CASE ~ReadPolicy
  <2>1. loaded' = loaded
    BY <1>2 DEF Next, Start, PlanExport, Export, RunWizard, List, ReadPlugins, ReadTargets, CheckOptions,
                Scan, Record, CompareWithBaseline, Render, ReadBack, Gates, Finished, vars
  <2>2. args'.config = args.config
    <3>1. CASE RunWizard
      BY <1>0, <3>1, WizardIsWellFormed DEF RunWizard
    <3>2. CASE ~RunWizard
      BY <1>2, <3>2 DEF Next, Start, PlanExport, Export, List, ReadPlugins, ReadTargets, CheckOptions,
                Scan, Record, CompareWithBaseline, Render, ReadBack, Gates, Finished, vars, inputs
    <3> QED BY <3>1, <3>2
  <2>3. world'.candidates = world.candidates
    <3>1. CASE Export
      BY <1>0, <3>1, ExportKeepsWorld DEF Export
    <3>2. CASE ~Export
      BY <1>2, <3>2 DEF Next, Start, PlanExport, RunWizard, List, ReadPlugins, ReadTargets, CheckOptions,
                Scan, Record, CompareWithBaseline, Render, ReadBack, Gates, Finished, vars, inputs
    <3> QED BY <3>1, <3>2
  <2> QED BY <2>1, <2>2, <2>3 DEF PolicyAsAsked
<1> QED BY <1>1, <1>2

-----------------------------------------------------------------------------
(* The shipped plugins stay                                                *)

LEMMA LoadsOwn ==
    ASSUME Stages, ReadPlugins
    PROVE  OwnPluginsStay'
<1> DEFINE own == {f \in {world.builtin.files[i] : i \in DOMAIN world.builtin.files} :
                      ~f.underscore /\ Loads(f)}
           ps == LoadPlugins(world.builtin, world.pluginDirectories)
<1>1. WellFormed(args, world) /\ world' = world /\ plugins' = ps
  BY DEF Stages, ReadPlugins, inputs
<1>2. Usable(world.builtin) = own
  BY <1>1 DEF Usable, FileRefused, WellFormed, Range
<1>3. /\ \A f \in own : \E k \in DOMAIN ps : ps[k].id = f.id /\ ps[k] \in own
      /\ \A k \in DOMAIN ps : ps[k] \in own \/ ~ps[k].open
      /\ \A i, j \in DOMAIN ps : ps[i].id = ps[j].id => i = j
  <2>1. /\ IsSequence(world.pluginDirectories) /\ IsSequence(world.builtin.files)
        /\ world.builtin.exists /\ world.builtin.builtin
        /\ \A d \in Range(world.pluginDirectories) :
              IsSequence(d.files) /\ (d.builtin => d = world.builtin)
    BY <1>1 DEF WellFormed
  <2> HIDE DEF own
  <2> QED BY <1>2, <2>1, LoadsKeepOwn
<1> HIDE DEF ps
<1>4. /\ \A f \in own : f \in Range(ps) \/ \E g \in own : g.id = f.id /\ g \in Range(ps)
      /\ \A p \in Range(ps) \ own : ~p.open
  <2> HIDE DEF own
  <2> QED BY <1>3 DEF Range
<1> QED BY <1>1, <1>3, <1>4 DEF OwnPluginsStay, Range

LEMMA PluginsHold == Stages /\ OwnPluginsStay /\ [Next]_vars => OwnPluginsStay'
<1> SUFFICES ASSUME Stages, OwnPluginsStay, [Next]_vars PROVE OwnPluginsStay'
  OBVIOUS
<1>1. CASE ReadPlugins
  BY <1>1, LoadsOwn
<1>2. CASE ~ReadPlugins
  <2>1. plugins' = plugins
    BY <1>2 DEF Next, Start, PlanExport, Export, ReadPolicy, RunWizard, List, ReadTargets, CheckOptions,
                Scan, Record, CompareWithBaseline, Render, ReadBack, Gates, Finished, vars
  <2>2. world'.builtin = world.builtin
    <3>1. CASE Export
      BY <3>1, ExportKeepsWorld DEF Export, Stages
    <3>2. CASE ~Export
      BY <1>2, <3>2 DEF Next, Start, PlanExport, ReadPolicy, RunWizard, List, ReadTargets, CheckOptions,
                Scan, Record, CompareWithBaseline, Render, ReadBack, Gates, Finished, vars, inputs
    <3> QED BY <3>1, <3>2
  <2> QED BY <2>1, <2>2 DEF OwnPluginsStay
<1> QED BY <1>1, <1>2

-----------------------------------------------------------------------------
(* Every server that was named is scanned                                  *)

LEMMA ReadsWhatWasNamed ==
    ASSUME Stages, ReadTargets
    PROVE  TargetsKept'
<1> DEFINE port == args.port
           credentials == args.credentials
           files == world.inventories
           good == Kept(args.specs, {i \in DOMAIN args.specs : Parses(args.specs[i], port)})
           named == [i \in DOMAIN good |-> AsTarget(good[i], port, credentials, "")]
           parts == [f \in DOMAIN files |-> FileTargets(files[f], port, credentials)]
           specs == [i \in 1..Len(args.specs) |-> SpecLine(args.specs[i])]
           lists == [f \in DOMAIN files |-> files[f].lines]
           R == Range(specs) \cup UNION {Range(lists[f]) : f \in DOMAIN files}
           S == Range(named) \cup UNION {Range(parts[f]) : f \in DOMAIN files}
           all == named \o FlattenSeq(parts)
<1>1. /\ IsSequence(args.specs) /\ IsSequence(files)
      /\ \A f \in DOMAIN files : IsSequence(files[f].lines)
      /\ credentials = [field \in DOMAIN credentials |-> credentials[field]]
  BY DEF Stages, WellFormed
<1>2. /\ Len(args.specs) \in Nat
      /\ Len(files) \in Nat /\ DOMAIN files = 1..Len(files)
      /\ Len(good) \in Nat /\ DOMAIN good = 1..Len(good)
  <2> DEFINE P == {i \in DOMAIN args.specs : Parses(args.specs[i], port)}
  <2>1. args.specs \in Seq(Range(args.specs)) /\ P \in SUBSET DOMAIN args.specs
    BY <1>1 DEF IsSequence
  <2>2. Len(args.specs) \in Nat
    BY <2>1, LenProperties
  <2>3. Len(files) \in Nat /\ DOMAIN files = 1..Len(files)
    BY <1>1, LenProperties DEF IsSequence
  <2> HIDE DEF P
  <2>4. Kept(args.specs, P) \in Seq(Range(args.specs))
    BY <2>1, KeptIs
  <2>5. Len(Kept(args.specs, P)) \in Nat /\ DOMAIN Kept(args.specs, P) = 1..Len(Kept(args.specs, P))
    BY <2>4, LenProperties
  <2> QED BY <2>2, <2>3, <2>5 DEF P
<1>3. named \in Seq(S) /\ specs \in Seq(R)
  <2>1. named = [i \in 1..Len(good) |-> named[i]] /\ \A i \in 1..Len(good) : named[i] \in S
    BY <1>2 DEF Range
  <2>2. \A i \in 1..Len(args.specs) : specs[i] \in R
    BY DEF Range
  <2> HIDE DEF S, named, R, good
  <2>3. named \in Seq(S)
    BY <1>2, <2>1, IsASeq
  <2>4. specs \in Seq(R)
    <3>1. specs = [i \in 1..Len(args.specs) |-> specs[i]]
      OBVIOUS
    <3> HIDE DEF specs
    <3> QED BY <1>2, <2>2, <3>1, IsASeq
  <2> QED BY <2>3, <2>4
<1>4. /\ parts \in Seq(Seq(S)) /\ Len(parts) = Len(files)
      /\ lists \in Seq(Seq(R)) /\ Len(lists) = Len(files)
  <2>1. ASSUME NEW f \in DOMAIN files
        PROVE  parts[f] \in Seq(S) /\ lists[f] \in Seq(R)
    <3>1. parts[f] \in Seq(Range(parts[f]))
      BY <1>1, OfFile
    <3>2. lists[f] \in Seq(Range(lists[f]))
      BY <1>1 DEF IsSequence
    <3>3. Range(parts[f]) \subseteq S /\ Range(lists[f]) \subseteq R
      OBVIOUS
    <3> HIDE DEF parts, lists, S, R
    <3> QED BY <3>1, <3>2, <3>3, SeqMonotonic
  <2>2. /\ parts = [f \in 1..Len(files) |-> parts[f]]
        /\ lists = [f \in 1..Len(files) |-> lists[f]]
    BY <1>2
  <2> HIDE DEF parts, lists, S, R
  <2>3. parts \in Seq(Seq(S)) /\ lists \in Seq(Seq(R))
    <3>1. \A f \in 1..Len(files) : parts[f] \in Seq(S) /\ lists[f] \in Seq(R)
      BY <1>2, <2>1
    <3> DEFINE n == Len(files)
    <3> HIDE DEF n
    <3>2. n \in Nat /\ \A f \in 1..n : parts[f] \in Seq(S) /\ lists[f] \in Seq(R)
      BY <1>2, <3>1 DEF n
    <3>3. [f \in 1..n |-> parts[f]] \in Seq(Seq(S))
      BY <3>2, IsASeq
    <3>4. [f \in 1..n |-> lists[f]] \in Seq(Seq(R))
      BY <3>2, IsASeq
    <3> QED BY <2>2, <3>3, <3>4 DEF n
  <2>4. DOMAIN parts = 1..Len(files) /\ DOMAIN lists = 1..Len(files)
    BY <2>2
  <2> QED BY <1>2, <2>3, <2>4, LenProperties
<1>5. Gives(specs, named, port, credentials)
  BY <1>1, SpecsGive
<1>6. \A f \in DOMAIN files : Gives(lists[f], parts[f], port, credentials)
  BY <1>1, FileGives
<1>7. specs \o FlattenSeq(lists) = Named /\ targets' = Unique(all)
  BY DEF Named, SpecLine, ReadTargets, BuildTargets
<1>8. /\ pc' \in {"options", "done"} /\ args' = args /\ world' = world /\ Named' = Named
  BY DEF ReadTargets, GoesTo, Exits, inputs, Named
<1> HIDE DEF R, S, specs, lists, named, parts, good
<1>9. Gives(FlattenSeq(lists), FlattenSeq(parts), port, credentials)
  BY <1>2, <1>4, <1>6, AllGive
<1>10. FlattenSeq(lists) \in Seq(R) /\ FlattenSeq(parts) \in Seq(S)
  BY <1>4, Flattened
<1>11. Gives(Named, all, port, credentials)
  BY <1>3, <1>5, <1>7, <1>9, <1>10, BothGive
<1>12. all \in Seq(S) /\ DOMAIN Named \subseteq Nat
  <2>1. specs \o FlattenSeq(lists) \in Seq(R)
    BY <1>3, <1>10, ConcatProperties
  <2>2. DOMAIN Named = 1..Len(Named) /\ Len(Named) \in Nat
    BY <1>7, <2>1, LenProperties
  <2> QED BY <1>3, <1>10, <2>2, ConcatProperties
<1> HIDE DEF all
<1> DEFINE ts == Unique(all)
           taken == {i \in DOMAIN Named : Taken(Named[i], port)}
           server(i) == LineTarget(Named[i], port, credentials)
           first(t) == CHOOSE i \in taken :
                          /\ SameServer(server(i), t)
                          /\ \A j \in taken : j < i => ~SameServer(server(j), t)
<1>13. /\ \A i \in taken : \E k \in DOMAIN ts : SameServer(ts[k], server(i))
       /\ \A k \in DOMAIN ts : ts[k] = server(first(ts[k]))
       /\ \A k, m \in DOMAIN ts : SameServer(ts[k], ts[m]) => k = m
  BY <1>11, <1>12, FirstOfEachServer
<1> QED BY <1>7, <1>8, <1>13 DEF TargetsKept

LEMMA TargetsHold == Stages /\ TargetsKept /\ [Next]_vars => TargetsKept'
<1> SUFFICES ASSUME Stages, TargetsKept, [Next]_vars PROVE TargetsKept'
  OBVIOUS
<1>1. CASE ReadTargets
  BY <1>1, ReadsWhatWasNamed
<1>2. CASE UNCHANGED <<pc, args, world, targets>> \/ CheckOptions
  <2> SUFFICES ASSUME pc' \in {"options", "scan"} PROVE TargetsKept'
    BY DEF TargetsKept
  <2>1. args' = args /\ world' = world /\ targets' = targets /\ pc \in {"options", "scan"}
    BY <1>2 DEF CheckOptions, inputs
  <2>2. Named' = Named
    BY <2>1 DEF Named
  <2> DEFINE taken == {i \in DOMAIN Named : Taken(Named[i], args.port)}
             server(i) == LineTarget(Named[i], args.port, args.credentials)
             first(t) == CHOOSE i \in taken :
                            /\ SameServer(server(i), t)
                            /\ \A j \in taken : j < i => ~SameServer(server(j), t)
  <2>3. /\ \A i \in taken : \E k \in DOMAIN targets : SameServer(targets[k], server(i))
        /\ \A k \in DOMAIN targets : targets[k] = server(first(targets[k]))
        /\ \A k, m \in DOMAIN targets : SameServer(targets[k], targets[m]) => k = m
    BY <2>1 DEF TargetsKept
  <2> QED BY <2>1, <2>2, <2>3 DEF TargetsKept
<1>3. CASE Start \/ PlanExport \/ Export \/ ReadPolicy \/ RunWizard \/ List \/ ReadPlugins
  <2>1. CASE Start
    BY <2>1, Going DEF Start, TargetsKept
  <2>2. CASE PlanExport \/ Export
    BY <2>2, Going DEF PlanExport, Export, TargetsKept
  <2>3. CASE ReadPolicy
    <3>1. loaded'.outcome \in {"refused", "raises", "loaded"}
      BY <2>3, Outcomes DEF ReadPolicy
    <3>2. pc' \in {"wizard", "listing", "plugins", "done"}
      BY <2>3, <3>1, Going DEF ReadPolicy
    <3> QED BY <3>2 DEF TargetsKept
  <2>4. CASE RunWizard \/ List \/ ReadPlugins
    BY <2>4, Going DEF RunWizard, List, ReadPlugins, TargetsKept
  <2> QED BY <1>3, <2>1, <2>2, <2>3, <2>4
<1>4. CASE Scan \/ Record \/ CompareWithBaseline \/ Render \/ ReadBack \/ Gates
  <2>1. pc' \notin {"options", "scan"}
    <3>1. CASE Scan \/ CompareWithBaseline \/ Gates
      BY <3>1 DEF Scan, CompareWithBaseline, Gates, GoesTo, Exits
    <3>3. CASE Record
      BY <3>3, Going, Failing DEF Record
    <3>2. CASE Render \/ ReadBack
      BY <3>2, Going, Failing DEF Render, PrintComparison, ReadBack
    <3> QED BY <1>4, <3>1, <3>2, <3>3
  <2> QED BY <2>1 DEF TargetsKept
<1>5. Finished => UNCHANGED <<pc, args, world, targets>>
  BY DEF Finished, vars
<1>6. UNCHANGED vars => UNCHANGED <<pc, args, world, targets>>
  BY DEF vars
<1> QED BY <1>1, <1>2, <1>3, <1>4, <1>5, <1>6 DEF Next

-----------------------------------------------------------------------------
(* The theorems                                                            *)

LEMMA CommandStarts == Init => CommandInv
<1> SUFFICES ASSUME Init PROVE CommandInv
  OBVIOUS
<1>1. pc = "start" /\ report = <<>> /\ loaded = Nothing /\ exit = "none"
  BY DEF Init
<1>2. WellFormed(args, world)
  BY CommandAssumption DEF Init
<1>3. Stages
  BY <1>1, <1>2 DEF Stages, BeforeScan
<1>4. Delivering /\ Earning
  <2>1. written = {}
    BY DEF Init
  <2> QED BY <1>1, <2>1, Unreported DEF Delivering, Earning, AfterScan
<1>5. Exporting
  BY <1>1 DEF Exporting, ExportIsWhole
<1>6. PolicyAsAsked
  BY <1>1 DEF PolicyAsAsked, Nothing
<1>7. OwnPluginsStay
  BY DEF Init, OwnPluginsStay
<1>8. TargetsKept
  BY <1>1 DEF TargetsKept
<1> QED BY <1>3, <1>4, <1>5, <1>6, <1>7, <1>8 DEF CommandInv

LEMMA CommandHolds == Spec => []CommandInv
<1>1. CommandInv /\ [Next]_vars => CommandInv'
  BY StagesHold, DeliveringHolds, ExportingHolds, EarningHolds, PolicyHolds, PluginsHold, TargetsHold DEF CommandInv
<1> QED BY <1>1, CommandStarts, PTL DEF Spec

\* Exit code 0 after a scan means that every server was scanned, that none has
\* a finding at or above --fail-on, that each meets every profile that was
\* required and evaluated, and that none is worse than in the baseline: for any
\* targets, profiles and results, and although the comparison looks servers up
\* by their address (the end of main in cli.py).
THEOREM ZeroIsAlwaysEarned == Spec => []ZeroIsEarned
<1>1. CommandInv => ZeroIsEarned
  BY DEF CommandInv, Earning
<1> QED BY <1>1, CommandHolds, PTL

\* A run whose exit code a gate or the summary decided after a scan has written
\* every format that it was asked for and, with --history, has recorded its
\* report, and no run, however it ends, has written a report that it was to
\* record and did not: for any number of formats, wherever reading or writing
\* fails, and whether or not the failure is one that main catches.
THEOREM AllIsDelivered == Spec => []DeliveredOrSaid
<1>1. CommandInv => DeliveredOrSaid
  BY DEF CommandInv, Delivering
<1> QED BY <1>1, CommandHolds, PTL

\* An export that exits with 0 leaves the policy and each standard as it was
\* shipped, whatever was in the directory (_export_policy).
THEOREM ExportsAreWhole == Spec => []ExportIsWhole
<1>1. CommandInv => ExportIsWhole
  BY DEF CommandInv, Exporting
<1> QED BY <1>1, CommandHolds, PTL

\* The policy in force is the file that was named or the first that exists, and
\* the bare name of a standard means an edition that alone claims it, or what is
\* inline, for any candidates and directories (load_policy).
THEOREM PolicyIsAsAsked == Spec => []PolicyAsAsked
<1>1. CommandInv => PolicyAsAsked
  BY DEF CommandInv
<1> QED BY <1>1, CommandHolds, PTL

\* Every shipped plugin that loads is run in its shipped form, or another shipped
\* one under its name; nothing outside the package that others may write is run;
\* and no two report under one name: for any directories and files (load_plugins).
THEOREM OwnPluginsAlwaysStay == Spec => []OwnPluginsStay
<1>1. CommandInv => OwnPluginsStay
  BY DEF CommandInv
<1> QED BY <1>1, CommandHolds, PTL

\* Every server that a specification or a line names is scanned, once, on the
\* port and with the credentials of the first that names it, and nothing else
\* is: for any specifications, files, lines and defaults (build_targets).
THEOREM TargetsAreKept == Spec => []TargetsKept
<1>1. CommandInv => TargetsKept
  BY DEF CommandInv
<1> QED BY <1>1, CommandHolds, PTL
=============================================================================
