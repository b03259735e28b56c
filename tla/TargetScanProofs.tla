-------------------------- MODULE TargetScanProofs --------------------------
(***************************************************************************)
(* What the report of one scan says, for any policy, server, options and   *)
(* plugins: a rule that is not listed was answered with no, what the       *)
(* changelog clears rested on the version, what a check says grades        *)
(* nothing, the words and the grade of a report agree and have a finding   *)
(* to show for them, a revoked key is reported, a name that is called      *)
(* validated was proven up to the root, what an audit saw is told, a pass  *)
(* is proof, and advice that is applied hurts nobody.                      *)
(* Detections, the walk to the root of the name servers and the lines of   *)
(* a transcript are worked out by recursion: the lemmas that say what      *)
(* these functions are come before the theorems that rest on them.         *)
(***************************************************************************)
EXTENDS TargetScan, SequenceTheorems, FiniteSetTheorems, TLAPS

-----------------------------------------------------------------------------
(* Counting                                                                *)

\* A set of naturals has a least element.
LEMMA Least ==
    ASSUME NEW T \in SUBSET Nat, T # {}
    PROVE  \E x \in T : \A y \in T : x <= y
<1> DEFINE less == {ss \in Nat \X Nat : ss[1] < ss[2]}
<1>1. IsWellFoundedOn(less, Nat)
  BY NatLessThanWellFounded DEF OpToRel
<1>2. PICK x \in T : \A y \in T : ~(<<y, x>> \in less)
  <2> HIDE DEF less
  <2> QED BY <1>1, WFMin, Zenon
<1>3. \A y \in T : ~(y < x)
  BY <1>2
<1> QED BY <1>3

\* The library's Min is that element.
LEMMA MinIs ==
    ASSUME NEW T \in SUBSET Nat, T # {}
    PROVE  Min(T) \in T /\ \A y \in T : Min(T) <= y
<1>1. \E x \in T : \A y \in T : x <= y
  BY Least
<1> QED BY <1>1 DEF Min

\* What holds of a number when it holds of the smaller ones holds of each.
LEMMA CountingUp ==
    ASSUME NEW n \in Nat, NEW good,
           \A m \in 0..n : (\A k \in 0..n : k < m => k \in good) => m \in good
    PROVE  \A m \in 0..n : m \in good
<1> DEFINE bad == {m \in 0..n : m \notin good}
<1> SUFFICES ASSUME bad # {} PROVE FALSE
  OBVIOUS
<1>1. PICK m \in bad : \A y \in bad : m <= y
  <2>1. bad \in SUBSET Nat
    OBVIOUS
  <2> HIDE DEF bad
  <2> QED BY <2>1, Least
<1>2. \A k \in 0..n : k < m => k \in good
  BY <1>1
<1> QED BY <1>1, <1>2

-----------------------------------------------------------------------------
(* Sums                                                                    *)

\* What holds of no elements, and of some when it holds of them without the one
\* that is taken first, holds of all.
LEMMA TakingOneByOne ==
    ASSUME NEW D, IsFiniteSet(D), NEW good, {} \in good,
           \A s \in SUBSET D : s # {} /\ s \ {CHOOSE x \in s : TRUE} \in good => s \in good
    PROVE  \A s \in SUBSET D : s \in good
<1> DEFINE n == Cardinality(D)
           small == {m \in 0..n : \A s \in SUBSET D : Cardinality(s) = m => s \in good}
<1>1. n \in Nat /\ \A s \in SUBSET D : IsFiniteSet(s) /\ Cardinality(s) \in 0..n
  <2>1. n \in Nat
    BY FS_CardinalityType
  <2>2. \A s \in SUBSET D : IsFiniteSet(s) /\ Cardinality(s) <= n
    BY FS_Subset
  <2>3. \A s \in SUBSET D : Cardinality(s) \in Nat
    BY <2>2, FS_CardinalityType
  <2> HIDE DEF n
  <2> QED BY <2>1, <2>2, <2>3
<1>2. ASSUME NEW m \in 0..n, \A k \in 0..n : k < m => k \in small
      PROVE  m \in small
  <2> SUFFICES ASSUME NEW s \in SUBSET D, Cardinality(s) = m PROVE s \in good
    OBVIOUS
  <2>1. CASE s = {}
    BY <2>1
  <2>2. CASE s # {}
    <3> DEFINE x == CHOOSE x \in s : TRUE
    <3>1. x \in s
      BY <2>2
    <3>2. Cardinality(s \ {x}) = m - 1
      BY <1>1, <3>1, FS_RemoveElement
    <3>3. m - 1 \in 0..n /\ m - 1 < m
      <4>1. Cardinality(s \ {x}) \in 0..n
        BY <1>1
      <4> HIDE DEF n
      <4> QED BY <1>1, <3>2, <4>1
    <3>4. s \ {x} \in good
      BY <1>2, <3>2, <3>3
    <3> QED BY <2>2, <3>4
  <2> QED BY <2>1, <2>2
<1> HIDE DEF small, n
<1>3. \A m \in 0..n : m \in small
  BY <1>1, <1>2, CountingUp
<1> QED BY <1>1, <1>3 DEF small

\* The library's sum is the recursive one over the subsets.
SumAt(f, sum, s) ==
    LET x == CHOOSE x \in s : TRUE IN IF s = {} THEN 0 ELSE f[x] + sum[s \ {x}]

LEMMA SumIs ==
    ASSUME NEW f, IsFiniteSet(DOMAIN f)
    PROVE  \E sum : /\ SumFunction(f) = sum[DOMAIN f]
                    /\ \A s \in SUBSET DOMAIN f : sum[s] = SumAt(f, sum, s)
<1> DEFINE D == DOMAIN f
           n == Cardinality(D)
           upTo(m) == {s \in SUBSET D : Cardinality(s) <= m}
           good == {m \in 0..n : \E g : g = [s \in upTo(m) |-> SumAt(f, g, s)]}
<1>1. n \in Nat /\ \A s \in SUBSET D : IsFiniteSet(s) /\ Cardinality(s) \in 0..n
  <2>1. n \in Nat
    BY FS_CardinalityType
  <2>2. \A s \in SUBSET D : IsFiniteSet(s) /\ Cardinality(s) <= n
    BY FS_Subset
  <2>3. \A s \in SUBSET D : Cardinality(s) \in Nat
    BY <2>2, FS_CardinalityType
  <2> HIDE DEF n, D
  <2> QED BY <2>1, <2>2, <2>3
<1>2. ASSUME NEW s \in SUBSET D, s # {}
      PROVE  Cardinality(s \ {CHOOSE x \in s : TRUE}) = Cardinality(s) - 1
  <2> HIDE DEF D
  <2>1. (CHOOSE x \in s : TRUE) \in s
    BY <1>2
  <2> QED BY <1>1, <2>1, FS_RemoveElement
<1>3. ASSUME NEW s \in SUBSET D, Cardinality(s) = 0 PROVE s = {}
  <2> HIDE DEF D
  <2> QED BY <1>1, <1>3, FS_EmptySet
<1> HIDE DEF n, D
<1>4. ASSUME NEW m \in 0..n, \A k \in 0..n : k < m => k \in good
      PROVE  m \in good
  <2>1. CASE m = 0
    <3> DEFINE h == [s \in upTo(0) |-> 0]
    <3>1. \A s \in upTo(0) : s = {}
      BY <1>1, <1>3
    <3>2. \A s \in upTo(0) : SumAt(f, h, s) = 0
      BY <3>1 DEF SumAt
    <3>3. h = [s \in upTo(0) |-> SumAt(f, h, s)]
      <4> HIDE DEF upTo
      <4> QED BY <3>2
    <3> HIDE DEF h, upTo
    <3> QED BY <2>1, <3>3
  <2>2. CASE m # 0
    <3>1. m - 1 \in 0..n /\ m - 1 < m
      BY <1>1, <2>2
    <3>2. PICK g : g = [s \in upTo(m - 1) |-> SumAt(f, g, s)]
      BY <1>4, <3>1
    <3> DEFINE h == [s \in upTo(m) |-> SumAt(f, g, s)]
    <3>3. \A s \in upTo(m - 1) : s \in upTo(m)
      BY <1>1, <3>1
    <3>4. \A s \in upTo(m - 1) : h[s] = g[s]
      <4> HIDE DEF upTo
      <4> QED BY <3>2, <3>3
    <3>5. ASSUME NEW s \in upTo(m), s # {} PROVE s \ {CHOOSE x \in s : TRUE} \in upTo(m - 1)
      <4>1. s \in SUBSET D /\ Cardinality(s) <= m
        OBVIOUS
      <4>2. Cardinality(s \ {CHOOSE x \in s : TRUE}) = Cardinality(s) - 1
        BY <1>2, <3>5, <4>1
      <4> HIDE DEF good
      <4> QED BY <1>1, <4>1, <4>2
    <3>6. \A s \in upTo(m) : SumAt(f, h, s) = SumAt(f, g, s)
      <4> HIDE DEF h, upTo
      <4> QED BY <3>4, <3>5 DEF SumAt
    <3>7. h = [s \in upTo(m) |-> SumAt(f, h, s)]
      <4> HIDE DEF upTo
      <4> QED BY <3>6
    <3> HIDE DEF h, upTo
    <3> QED BY <3>7
  <2> QED BY <2>1, <2>2
<1>5. n \in good
  <2> HIDE DEF good
  <2>1. \A m \in 0..n : m \in good
    BY <1>1, <1>4, CountingUp
  <2> QED BY <1>1, <2>1
<1>6. upTo(n) = SUBSET D
  BY <1>1
<1>7. \E g : g = [s \in SUBSET D |-> SumAt(f, g, s)]
  <2> HIDE DEF upTo
  <2> QED BY <1>5, <1>6
<1> DEFINE sum == CHOOSE g : g = [s \in SUBSET D |-> SumAt(f, g, s)]
<1>8. sum = [s \in SUBSET D |-> SumAt(f, sum, s)]
  BY <1>7
<1>9. SumFunction(f) = sum[D]
  BY DEF SumFunction, SumFunctionOnSet, FoldFunctionOnSet, MapThenFoldSet, SumAt, D
<1> HIDE DEF sum
<1>10. \A s \in SUBSET D : sum[s] = SumAt(f, sum, s)
  BY <1>8
<1> QED BY <1>9, <1>10 DEF D

\* Two sums whose terms are bound to each other are so too.
LEMMA SumsCompare ==
    ASSUME NEW f, NEW g, IsFiniteSet(DOMAIN f), DOMAIN g = DOMAIN f, NEW a \in Int,
           \A x \in DOMAIN f : f[x] \in Int /\ g[x] \in Int
    PROVE  /\ SumFunction(f) \in Int /\ SumFunction(g) \in Int
           /\ (\A x \in DOMAIN f : f[x] >= a * g[x]) => SumFunction(f) >= a * SumFunction(g)
           /\ (\A x \in DOMAIN f : f[x] <= a * g[x]) => SumFunction(f) <= a * SumFunction(g)
<1> DEFINE D == DOMAIN f
<1>1. PICK p : SumFunction(f) = p[D] /\ \A s \in SUBSET D : p[s] = SumAt(f, p, s)
  BY SumIs
<1>2. PICK q : SumFunction(g) = q[D] /\ \A s \in SUBSET D : q[s] = SumAt(g, q, s)
  BY SumIs
<1> DEFINE above == \A x \in D : f[x] >= a * g[x]
           below == \A x \in D : f[x] <= a * g[x]
           good == {s \in SUBSET D : /\ p[s] \in Int /\ q[s] \in Int
                                     /\ above => p[s] >= a * q[s]
                                     /\ below => p[s] <= a * q[s]}
<1>3. {} \in good
  <2>1. p[{}] = 0 /\ q[{}] = 0
    BY <1>1, <1>2 DEF SumAt
  <2> QED BY <2>1
<1>4. ASSUME NEW s \in SUBSET D, s # {}, s \ {CHOOSE x \in s : TRUE} \in good PROVE s \in good
  <2> DEFINE x == CHOOSE x \in s : TRUE
             r == s \ {x}
  <2>1. x \in s /\ x \in D
    BY <1>4
  <2>2. p[s] = f[x] + p[r] /\ q[s] = g[x] + q[r]
    BY <1>1, <1>2, <1>4 DEF SumAt
  <2>3. /\ p[r] \in Int /\ q[r] \in Int
        /\ above => p[r] >= a * q[r]
        /\ below => p[r] <= a * q[r]
    BY <1>4
  <2>4. f[x] \in Int /\ g[x] \in Int
    BY <2>1
  <2>5. above => f[x] >= a * g[x]
    BY <2>1
  <2>6. below => f[x] <= a * g[x]
    BY <2>1
  <2>7. a * (g[x] + q[r]) = a * g[x] + a * q[r]
    <3> HIDE DEF r, x
    <3> QED BY <2>3, <2>4
  <2>8. p[s] \in Int /\ q[s] \in Int
    <3> HIDE DEF r, x
    <3> QED BY <2>2, <2>3, <2>4
  <2>9. a * g[x] \in Int /\ a * q[r] \in Int
    <3> HIDE DEF r, x
    <3> QED BY <2>3, <2>4
  <2>10. above => p[s] >= a * q[s]
    <3> HIDE DEF r, x, above
    <3> QED BY <2>2, <2>3, <2>4, <2>5, <2>7, <2>9
  <2>11. below => p[s] <= a * q[s]
    <3> HIDE DEF r, x, below
    <3> QED BY <2>2, <2>3, <2>4, <2>6, <2>7, <2>9
  <2> QED BY <2>8, <2>10, <2>11
<1>5. D \in good
  <2> HIDE DEF good, D
  <2>1. IsFiniteSet(D)
    BY DEF D
  <2>2. \A s \in SUBSET D : s \in good
    BY <1>3, <1>4, <2>1, TakingOneByOne
  <2> QED BY <2>2
<1> QED BY <1>1, <1>2, <1>5

\* A sum of what is taken off is no more than any of it.
LEMMA SumOfCosts ==
    ASSUME NEW f, IsFiniteSet(DOMAIN f), \A x \in DOMAIN f : f[x] \in Int /\ f[x] <= 0
    PROVE  /\ SumFunction(f) \in Int /\ SumFunction(f) <= 0
           /\ \A y \in DOMAIN f : SumFunction(f) <= f[y]
<1> DEFINE D == DOMAIN f
<1>1. PICK p : SumFunction(f) = p[D] /\ \A s \in SUBSET D : p[s] = SumAt(f, p, s)
  BY SumIs
<1> DEFINE good == {s \in SUBSET D : p[s] \in Int /\ p[s] <= 0 /\ \A y \in s : p[s] <= f[y]}
<1>2. {} \in good
  <2>1. p[{}] = 0
    BY <1>1 DEF SumAt
  <2> QED BY <2>1
<1>3. ASSUME NEW s \in SUBSET D, s # {}, s \ {CHOOSE x \in s : TRUE} \in good PROVE s \in good
  <2> DEFINE x == CHOOSE x \in s : TRUE
             r == s \ {x}
  <2>1. x \in s /\ f[x] \in Int /\ f[x] <= 0
    BY <1>3
  <2>2. p[s] = f[x] + p[r]
    BY <1>1, <1>3 DEF SumAt
  <2>3. p[r] \in Int /\ p[r] <= 0 /\ \A y \in r : p[r] <= f[y]
    BY <1>3
  <2>4. ASSUME NEW y \in s PROVE p[s] <= f[y]
    <3>1. CASE y = x
      <4> HIDE DEF x, r
      <4> QED BY <2>1, <2>2, <2>3, <3>1
    <3>2. CASE y # x
      <4>1. y \in r /\ f[y] \in Int
        BY <3>2
      <4> HIDE DEF x, r
      <4> QED BY <2>1, <2>2, <2>3, <4>1
    <3> QED BY <3>1, <3>2
  <2>5. p[s] \in Int /\ p[s] <= 0
    <3> HIDE DEF x, r
    <3> QED BY <2>1, <2>2, <2>3
  <2> QED BY <2>4, <2>5
<1>4. D \in good
  <2> HIDE DEF good, D
  <2>1. IsFiniteSet(D)
    BY DEF D
  <2>2. \A s \in SUBSET D : s \in good
    BY <1>2, <1>3, <2>1, TakingOneByOne
  <2> QED BY <2>2
<1> QED BY <1>1, <1>4

\* A sum over no more than three.
LEMMA SumOfThree ==
    ASSUME NEW f, NEW a, NEW b, NEW c, a # b, a # c, b # c, DOMAIN f \subseteq {a, b, c},
           \A x \in DOMAIN f : f[x] \in Int
    PROVE  SumFunction(f) = (IF a \in DOMAIN f THEN f[a] ELSE 0) + (IF b \in DOMAIN f THEN f[b] ELSE 0)
                            + (IF c \in DOMAIN f THEN f[c] ELSE 0)
<1> DEFINE D == DOMAIN f
           part(x, s) == IF x \in s THEN f[x] ELSE 0
<1>1. IsFiniteSet(D)
  <2>1. IsFiniteSet({a, b, c})
    <3>1. IsFiniteSet({a}) /\ IsFiniteSet({a} \cup {b})
      BY FS_Singleton, FS_AddElement
    <3>2. IsFiniteSet(({a} \cup {b}) \cup {c}) /\ ({a} \cup {b}) \cup {c} = {a, b, c}
      BY <3>1, FS_AddElement
    <3> QED BY <3>2
  <2> QED BY <2>1, FS_Subset
<1>2. PICK p : SumFunction(f) = p[D] /\ \A s \in SUBSET D : p[s] = SumAt(f, p, s)
  BY <1>1, SumIs
<1> DEFINE good == {s \in SUBSET D : p[s] = part(a, s) + part(b, s) + part(c, s)}
<1>3. {} \in good
  <2>1. p[{}] = 0
    BY <1>2 DEF SumAt
  <2> QED BY <2>1
<1>4. ASSUME NEW s \in SUBSET D, s # {}, s \ {CHOOSE x \in s : TRUE} \in good PROVE s \in good
  <2> DEFINE x == CHOOSE x \in s : TRUE
             r == s \ {x}
  <2>1. x \in s /\ x \in {a, b, c}
    BY <1>4
  <2>2. p[s] = f[x] + p[r]
    BY <1>2, <1>4 DEF SumAt
  <2>3. p[r] = part(a, r) + part(b, r) + part(c, r)
    BY <1>4
  <2>4. \A y : y \in s => f[y] \in Int
    OBVIOUS
  <2>5. \A y : y \in r <=> y \in s /\ y # x
    OBVIOUS
  <2>6. p[s] = part(a, s) + part(b, s) + part(c, s)
    <3> HIDE DEF x, r, D
    <3>1. CASE x = a
      BY <2>1, <2>2, <2>3, <2>4, <2>5, <3>1
    <3>2. CASE x = b
      BY <2>1, <2>2, <2>3, <2>4, <2>5, <3>2
    <3>3. CASE x = c
      BY <2>1, <2>2, <2>3, <2>4, <2>5, <3>3
    <3> QED BY <2>1, <3>1, <3>2, <3>3
  <2> QED BY <2>6
<1>5. D \in good
  <2> HIDE DEF good, D
  <2>1. \A s \in SUBSET D : s \in good
    BY <1>1, <1>3, <1>4, TakingOneByOne
  <2> QED BY <2>1
<1> QED BY <1>2, <1>5

-----------------------------------------------------------------------------
(* The answers to the conditions of a detection                            *)

LEMMA DetectionIs ==
    ASSUME NEW detection, IsDetection(detection)
    PROVE  /\ Len(detection) \in Nat \ {0} /\ DOMAIN detection = 1..Len(detection)
           /\ \A i \in 1..Len(detection) : detection[i].is \in {"all", "any"} =>
                 LET of == detection[i].of
                 IN /\ Len(of) \in Nat \ {0} /\ DOMAIN of = 1..Len(of)
                    /\ \A k \in 1..Len(of) : of[k] \in 1..i - 1
<1>1. detection \in Seq(Range(detection)) /\ detection # <<>>
  BY DEF IsDetection
<1>2. Len(detection) \in Nat /\ DOMAIN detection = 1..Len(detection)
  BY <1>1, LenProperties
<1>3. Len(detection) # 0
  BY <1>1, EmptySeq
<1>4. ASSUME NEW i \in 1..Len(detection), detection[i].is \in {"all", "any"}
      PROVE  LET of == detection[i].of
             IN /\ Len(of) \in Nat \ {0} /\ DOMAIN of = 1..Len(of)
                /\ \A k \in 1..Len(of) : of[k] \in 1..i - 1
  <2>1. detection[i].of # <<>> /\ detection[i].of \in Seq(1..i - 1)
    BY <1>2, <1>4 DEF IsDetection
  <2> QED BY <2>1, LenProperties, EmptySeq, ElementOfSeq
<1> QED BY <1>2, <1>3, <1>4

\* The answer to the i-th condition, given the answers to those before it.
AnswerAt(policy, seen, detection, answers, i) ==
    LET c == detection[i]
    IN CASE c.is \in {"all", "any"} -> Combined(c.is, [k \in DOMAIN c.of |-> answers[c.of[k]]])
         [] c.is = "not" -> Negated(answers[c.of])
         [] OTHER -> Leaf(policy, seen, c)

LEMMA AnswerLooksBack ==
    ASSUME NEW policy, NEW seen, NEW detection, IsDetection(detection), NEW g, NEW h,
           NEW i \in 1..Len(detection), \A k \in 1..i - 1 : g[k] = h[k]
    PROVE  AnswerAt(policy, seen, detection, g, i) = AnswerAt(policy, seen, detection, h, i)
<1> DEFINE c == detection[i]
<1>1. CASE c.is \in {"all", "any"}
  <2>1. DOMAIN c.of = 1..Len(c.of) /\ \A k \in 1..Len(c.of) : c.of[k] \in 1..i - 1
    BY <1>1, DetectionIs
  <2>2. [k \in DOMAIN c.of |-> g[c.of[k]]] = [k \in DOMAIN c.of |-> h[c.of[k]]]
    BY <2>1
  <2> QED BY <1>1, <2>2 DEF AnswerAt
<1>2. CASE c.is = "not"
  <2>1. c.of \in 1..i - 1
    BY <1>2, DetectionIs DEF IsDetection
  <2> QED BY <1>2, <2>1 DEF AnswerAt
<1>3. CASE c.is \notin {"all", "any", "not"}
  BY <1>3 DEF AnswerAt
<1> QED BY <1>1, <1>2, <1>3

LEMMA AnswersAre ==
    ASSUME NEW policy, NEW seen, NEW detection, IsDetection(detection)
    PROVE  \A i \in 1..Len(detection) :
              Answers(policy, seen, detection)[i] =
                 AnswerAt(policy, seen, detection, Answers(policy, seen, detection), i)
<1> DEFINE n == Len(detection)
           At(g, i) == AnswerAt(policy, seen, detection, g, i)
           good == {m \in 0..n : \E g : g = [i \in 1..m |-> At(g, i)]}
<1>1. n \in Nat /\ DOMAIN detection = 1..n
  BY DetectionIs
<1>2. ASSUME NEW m \in 0..n, \A k \in 0..n : k < m => k \in good
      PROVE  m \in good
  <2>1. CASE m = 0
    <3>1. <<>> = [i \in 1..0 |-> At(<<>>, i)]
      <4> HIDE DEF At
      <4> QED OBVIOUS
    <3> QED BY <2>1, <3>1
  <2>2. CASE m # 0
    <3>1. m - 1 \in 0..n /\ m - 1 < m
      BY <1>1, <2>2
    <3>2. PICK g : g = [i \in 1..m - 1 |-> At(g, i)]
      BY <1>2, <3>1
    <3> DEFINE h == [i \in 1..m |-> At(g, i)]
    <3>3. \A i \in 1..m - 1 : h[i] = g[i]
      <4> HIDE DEF At
      <4>1. \A i \in 1..m - 1 : i \in 1..m
        BY <3>1
      <4> QED BY <3>2, <4>1
    <3>4. \A i \in 1..m : At(h, i) = At(g, i)
      <4> TAKE i \in 1..m
      <4>1. i \in 1..n /\ \A k \in 1..i - 1 : k \in 1..m - 1
        BY <1>1
      <4> HIDE DEF h
      <4> QED BY <3>3, <4>1, AnswerLooksBack
    <3>5. h = [i \in 1..m |-> At(h, i)]
      <4> HIDE DEF At
      <4> QED BY <3>4
    <3> HIDE DEF h, At
    <3> QED BY <3>5
  <2> QED BY <2>1, <2>2
<1>3. n \in good
  <2> HIDE DEF good
  <2>1. \A m \in 0..n : m \in good
    <3> HIDE DEF n
    <3> QED BY <1>1, <1>2, CountingUp
  <2> QED BY <1>1, <2>1
<1>4. \E g : g = [i \in DOMAIN detection |-> At(g, i)]
  BY <1>1, <1>3
<1>5. Answers(policy, seen, detection) = CHOOSE g : g = [i \in DOMAIN detection |-> At(g, i)]
  BY DEF Answers, AnswerAt
<1> DEFINE answers == Answers(policy, seen, detection)
<1>6. answers = [i \in DOMAIN detection |-> At(answers, i)]
  <2> HIDE DEF At
  <2> QED BY <1>4, <1>5
<1> HIDE DEF answers
<1>7. \A i \in 1..n : answers[i] = At(answers, i)
  <2> HIDE DEF At
  <2> QED BY <1>1, <1>6
<1> QED BY <1>7 DEF answers

\* A combination has the answer of the part it stops at, and what the parts up
\* to that one lack.
StopsAt(is, n, parts, last) ==
    /\ Combined(is, parts).hit = parts[last].hit
    /\ Combined(is, parts).raised = parts[last].raised
    /\ Combined(is, parts).version <=> \E k \in 1..last : parts[k].version
    /\ \A x : x \in Combined(is, parts).missing <=> \E k \in 1..last : x \in parts[k].missing
    /\ \A k \in 1..last - 1 : ~parts[k].raised /\ parts[k].hit = (is = "all")
    /\ parts[last].raised \/ parts[last].hit = (is = "any") \/ last = n

LEMMA CombinedIs ==
    ASSUME NEW is \in {"all", "any"}, NEW n \in Nat \ {0}, NEW parts,
           DOMAIN parts = 1..n, Len(parts) = n, \A k \in 1..n : parts[k].hit \in BOOLEAN
    PROVE  \E last \in 1..n : StopsAt(is, n, parts, last)
<1> DEFINE stops == {k \in DOMAIN parts : parts[k].raised \/ parts[k].hit = (is = "any")}
           last == IF stops = {} THEN Len(parts) ELSE Min(stops)
<1>1. /\ last \in 1..n
      /\ \A k \in 1..last - 1 : k \in 1..n /\ k \notin stops
      /\ last \in stops \/ last = n
  <2>1. CASE stops = {}
    BY <2>1
  <2>2. CASE stops # {}
    <3>1. stops \in SUBSET Nat /\ stops \in SUBSET (1..n)
      OBVIOUS
    <3>2. Min(stops) \in stops /\ \A k \in stops : Min(stops) <= k
      <4> HIDE DEF stops
      <4> QED BY <2>2, <3>1, MinIs
    <3>3. last = Min(stops)
      BY <2>2
    <3> HIDE DEF stops, last
    <3>4. last \in 1..n
      BY <3>1, <3>2, <3>3
    <3>5. \A k \in 1..last - 1 : k \in 1..n /\ ~(last <= k)
      BY <3>4
    <3> QED BY <3>2, <3>3, <3>4, <3>5
  <2> QED BY <2>1, <2>2
<1>2. \A k \in 1..n : k \notin stops => ~parts[k].raised /\ parts[k].hit = (is = "all")
  OBVIOUS
<1>3. last \in stops => parts[last].raised \/ parts[last].hit = (is = "any")
  <2> HIDE DEF last
  <2> QED OBVIOUS
<1>4. Combined(is, parts) = [hit |-> parts[last].hit,
                             raised |-> parts[last].raised,
                             version |-> \E k \in 1..last : parts[k].version,
                             evidence |-> UNION {parts[k].evidence : k \in 1..last},
                             missing |-> UNION {parts[k].missing : k \in 1..last}]
  BY DEF Combined
<1> HIDE DEF stops, last
<1>5. /\ Combined(is, parts).hit = parts[last].hit
      /\ Combined(is, parts).raised = parts[last].raised
      /\ Combined(is, parts).version <=> \E k \in 1..last : parts[k].version
  BY <1>4
<1>6. \A x : x \in Combined(is, parts).missing <=> \E k \in 1..last : x \in parts[k].missing
  BY <1>4
<1> QED BY <1>1, <1>2, <1>3, <1>5, <1>6 DEF StopsAt

\* The parts of a combination are a list.
LEMMA PartsAre ==
    ASSUME NEW detection, IsDetection(detection), NEW answers, NEW i \in 1..Len(detection),
           detection[i].is \in {"all", "any"}
    PROVE  LET of == detection[i].of
               parts == [k \in DOMAIN of |-> answers[of[k]]]
           IN /\ DOMAIN parts = 1..Len(of) /\ Len(parts) = Len(of)
              /\ \A k \in 1..Len(of) : parts[k] = answers[of[k]]
<1> DEFINE of == detection[i].of
           parts == [k \in DOMAIN of |-> answers[of[k]]]
<1>1. DOMAIN of = 1..Len(of) /\ Len(of) \in Nat
  BY DetectionIs
<1>2. parts = [k \in 1..Len(of) |-> answers[of[k]]]
  BY <1>1
<1>3. \A k \in 1..Len(of) : answers[of[k]] \in {answers[of[m]] : m \in 1..Len(of)}
  OBVIOUS
<1>4. parts \in Seq({answers[of[k]] : k \in 1..Len(of)})
  <2> HIDE DEF of, parts
  <2> QED BY <1>1, <1>2, <1>3, IsASeq
<1>5. Len(parts) \in Nat /\ DOMAIN parts = 1..Len(parts)
  <2> HIDE DEF parts
  <2> QED BY <1>4, LenProperties
<1>6. Len(parts) = Len(of)
  <2>1. 1..Len(parts) = 1..Len(of)
    BY <1>2, <1>5
  <2>2. Len(of) \in Nat \ {0}
    BY DetectionIs
  <2> HIDE DEF of, parts
  <2>3. Len(of) \in 1..Len(of)
    BY <2>2
  <2>4. Len(of) \in 1..Len(parts)
    BY <2>1, <2>3
  <2>5. Len(parts) \in 1..Len(parts)
    BY <1>5, <2>2, <2>4
  <2>6. Len(parts) \in 1..Len(of)
    BY <2>1, <2>5
  <2> QED BY <1>5, <2>2, <2>4, <2>6
<1> QED BY <1>2, <1>6

\* A combination in a detection: what it takes from which of its parts.
LEMMA CombinationIs ==
    ASSUME NEW policy, NEW seen, NEW detection, IsDetection(detection),
           NEW i \in 1..Len(detection), detection[i].is \in {"all", "any"},
           \A k \in 1..i - 1 : Answers(policy, seen, detection)[k].hit \in BOOLEAN
    PROVE  LET answers == Answers(policy, seen, detection)
               of == detection[i].of
           IN \E last \in 1..Len(of) :
                 /\ answers[i].hit = answers[of[last]].hit
                 /\ answers[i].raised = answers[of[last]].raised
                 /\ answers[i].version <=> \E k \in 1..last : answers[of[k]].version
                 /\ \A x : x \in answers[i].missing <=> \E k \in 1..last : x \in answers[of[k]].missing
                 /\ \A k \in 1..last - 1 : /\ ~answers[of[k]].raised
                                           /\ answers[of[k]].hit = (detection[i].is = "all")
                 /\ \/ answers[of[last]].raised
                    \/ answers[of[last]].hit = (detection[i].is = "any")
                    \/ last = Len(of)
<1> DEFINE answers == Answers(policy, seen, detection)
           of == detection[i].of
           parts == [k \in DOMAIN of |-> answers[of[k]]]
<1>1. /\ Len(of) \in Nat \ {0} /\ \A k \in 1..Len(of) : of[k] \in 1..i - 1
  BY DetectionIs
<1>2. /\ DOMAIN parts = 1..Len(of) /\ Len(parts) = Len(of)
      /\ \A k \in 1..Len(of) : parts[k] = answers[of[k]]
  BY PartsAre
<1>3. answers[i] = Combined(detection[i].is, parts)
  BY AnswersAre DEF AnswerAt
<1>4. \A k \in 1..Len(of) : parts[k].hit \in BOOLEAN
  BY <1>1, <1>2
<1> HIDE DEF answers, parts, of
<1>5. PICK last \in 1..Len(of) :
         /\ answers[i].hit = parts[last].hit
         /\ answers[i].raised = parts[last].raised
         /\ answers[i].version <=> \E k \in 1..last : parts[k].version
         /\ \A x : x \in answers[i].missing <=> \E k \in 1..last : x \in parts[k].missing
         /\ \A k \in 1..last - 1 : ~parts[k].raised /\ parts[k].hit = (detection[i].is = "all")
         /\ parts[last].raised \/ parts[last].hit = (detection[i].is = "any") \/ last = Len(of)
  <2> DEFINE is == detection[i].is
             n == Len(of)
  <2>1. is \in {"all", "any"} /\ n \in Nat \ {0} /\ DOMAIN parts = 1..n /\ Len(parts) = n
        /\ \A k \in 1..n : parts[k].hit \in BOOLEAN
    BY <1>1, <1>2, <1>4
  <2>2. answers[i] = Combined(is, parts)
    BY <1>3
  <2> HIDE DEF is, n
  <2>3. \E last \in 1..n : StopsAt(is, n, parts, last)
    BY <2>1, CombinedIs
  <2> QED BY <2>2, <2>3 DEF StopsAt, is, n
<1>6. \A k \in 1..last : k \in 1..Len(of) /\ parts[k] = answers[of[k]]
  BY <1>1, <1>2
<1>7. answers[i].version <=> (\E k \in 1..last : answers[of[k]].version)
  BY <1>5, <1>6
<1>8. \A x : x \in answers[i].missing <=> \E k \in 1..last : x \in answers[of[k]].missing
  BY <1>5, <1>6
<1>9. \A k \in 1..last - 1 : ~answers[of[k]].raised /\ answers[of[k]].hit = (detection[i].is = "all")
  <2>1. \A k \in 1..last - 1 : k \in 1..last
    BY <1>1
  <2> QED BY <1>5, <1>6, <2>1
<1>10. parts[last] = answers[of[last]]
  BY <1>2
<1>11. /\ answers[i].hit = answers[of[last]].hit
       /\ answers[i].raised = answers[of[last]].raised
       /\ \/ answers[of[last]].raised
          \/ answers[of[last]].hit = (detection[i].is = "any")
          \/ last = Len(of)
  BY <1>5, <1>10
<1> QED BY <1>7, <1>8, <1>9, <1>11 DEF answers, of

\* A condition of its own: nothing that raised has hit, and the version is
\* what a condition on the version was matched on.
LEMMA LeafIs ==
    ASSUME NEW policy, NEW seen, NEW c, c.is \in Kinds \ {"all", "any", "not"},
           c.is = "always" => c.value \in BOOLEAN
    PROVE  LET a == Leaf(policy, seen, c)
           IN /\ a.hit \in BOOLEAN /\ a.raised \in BOOLEAN
              /\ a.raised => ~a.hit /\ c.is = "malformed"
              /\ a.version => c.is = "version"
<1>1. CASE c.is = "malformed"
  BY <1>1 DEF Leaf, Answer
<1>2. CASE c.is \in {"present", "host_key", "protocol"}
  BY <1>2 DEF Leaf, Shows, Answer
<1>3. CASE c.is \in {"always", "absent"}
  BY <1>3 DEF Leaf, Answer
<1>4. CASE c.is = "version"
  BY <1>4 DEF Leaf, Shows, Answer
<1>5. CASE c.is \in {"auth_method", "extension"}
  BY <1>5 DEF Leaf, Lacks, Shows, Answer
<1>6. CASE c.is = "config"
  <2> DEFINE plain(a) == a.hit \in BOOLEAN /\ a.raised = FALSE /\ a.version = FALSE
  <2>1. \A e : plain(Shows(e))
    BY DEF Shows, Answer
  <2>2. \A b \in BOOLEAN : plain(Answer(b))
    BY DEF Answer
  <2>3. plain(Lacks("config"))
    BY DEF Lacks, Answer
  <2>4. Leaf(policy, seen, c) = IF seen.config.state # "read" THEN Lacks("config")
                                 ELSE ConfigMatches(seen, c)
    BY <1>6 DEF Leaf
  <2>5. \/ \E b \in BOOLEAN : ConfigMatches(seen, c) = Answer(b)
        \/ \E e : ConfigMatches(seen, c) = Shows(e)
    BY DEF ConfigMatches
  <2>6. plain(ConfigMatches(seen, c))
    <3> HIDE DEF plain
    <3> QED BY <2>1, <2>2, <2>5
  <2>7. plain(Leaf(policy, seen, c))
    <3> HIDE DEF plain
    <3> QED BY <2>3, <2>4, <2>6
  <2> QED BY <2>7
<1> QED BY <1>1, <1>2, <1>3, <1>4, <1>5, <1>6 DEF Kinds

\* What is true of each condition: what raised has not hit.
LEMMA AnswersAreTyped ==
    ASSUME NEW policy, NEW seen, NEW detection, IsDetection(detection)
    PROVE  \A i \in 1..Len(detection) :
              LET a == Answers(policy, seen, detection)[i]
              IN /\ a.hit \in BOOLEAN /\ a.raised \in BOOLEAN
                 /\ a.raised => ~a.hit
<1> DEFINE n == Len(detection)
           answers == Answers(policy, seen, detection)
           typed(a) == /\ a.hit \in BOOLEAN /\ a.raised \in BOOLEAN
                       /\ a.raised => ~a.hit
           good == {m \in 0..n : m = 0 \/ typed(answers[m])}
<1>1. n \in Nat
  BY DetectionIs
<1>2. ASSUME NEW i \in 1..n, \A k \in 1..i - 1 : typed(answers[k])
      PROVE  typed(answers[i])
  <2> DEFINE c == detection[i]
  <2>1. answers[i] = AnswerAt(policy, seen, detection, answers, i)
    BY AnswersAre
  <2>2. c.is \in Kinds /\ (c.is = "always" => c.value \in BOOLEAN)
        /\ (c.is = "not" => c.of \in 1..i - 1)
    BY DetectionIs DEF IsDetection
  <2>3. CASE c.is \in {"all", "any"}
    <3>1. /\ Len(c.of) \in Nat \ {0} /\ \A k \in 1..Len(c.of) : c.of[k] \in 1..i - 1
      BY <2>3, DetectionIs
    <3>2. \A k \in 1..i - 1 : answers[k].hit \in BOOLEAN
      BY <1>2
    <3>3. PICK last \in 1..Len(c.of) :
             /\ answers[i].hit = answers[c.of[last]].hit
             /\ answers[i].raised = answers[c.of[last]].raised
      BY <2>3, <3>2, CombinationIs
    <3>4. typed(answers[c.of[last]])
      <4>1. c.of[last] \in 1..i - 1
        BY <3>1
      <4> HIDE DEF typed, answers
      <4> QED BY <1>2, <4>1
    <3> HIDE DEF answers, c
    <3> QED BY <3>3, <3>4
  <2>4. CASE c.is = "not"
    <3>1. answers[i] = Negated(answers[c.of])
      BY <2>1, <2>4 DEF AnswerAt
    <3>2. typed(answers[c.of])
      BY <1>2, <2>2, <2>4
    <3> HIDE DEF answers
    <3>3. /\ answers[i].hit = (~answers[c.of].hit /\ ~answers[c.of].raised)
          /\ answers[i].raised = answers[c.of].raised
      BY <3>1 DEF Negated
    <3> QED BY <3>2, <3>3
  <2>5. CASE c.is \notin {"all", "any", "not"}
    <3>1. answers[i] = Leaf(policy, seen, c)
      BY <2>1, <2>5 DEF AnswerAt
    <3> HIDE DEF answers
    <3> QED BY <2>2, <2>5, <3>1, LeafIs
  <2> QED BY <2>3, <2>4, <2>5
<1>3. \A m \in 0..n : m \in good
  <2>1. ASSUME NEW m \in 0..n, \A k \in 0..n : k < m => k \in good
        PROVE  m \in good
    <3>1. \A k \in 1..m - 1 : k \in 0..n /\ k < m /\ k # 0
      BY <1>1
    <3> HIDE DEF answers, typed
    <3>2. \A k \in 1..m - 1 : typed(answers[k])
      BY <2>1, <3>1
    <3>3. m # 0 => m \in 1..n
      BY <1>1
    <3> QED BY <1>2, <3>2, <3>3
  <2> HIDE DEF good, n
  <2> QED BY <1>1, <2>1, CountingUp
<1> QED BY <1>1, <1>3

-----------------------------------------------------------------------------
(* What is known of a rule                                                 *)

TruthAt(policy, seen, detection, truths, i) ==
    LET c == detection[i]
    IN CASE c.is \in {"all", "any"} -> TruthOfBoth(c.is, {truths[c.of[k]] : k \in DOMAIN c.of})
         [] c.is = "not" -> IF truths[c.of] = "open" THEN "open" ELSE Settled(truths[c.of] = "no")
         [] OTHER -> TruthOfLeaf(policy, seen, c)

LEMMA TruthLooksBack ==
    ASSUME NEW policy, NEW seen, NEW detection, IsDetection(detection), NEW g, NEW h,
           NEW i \in 1..Len(detection), \A k \in 1..i - 1 : g[k] = h[k]
    PROVE  TruthAt(policy, seen, detection, g, i) = TruthAt(policy, seen, detection, h, i)
<1> DEFINE c == detection[i]
<1>1. CASE c.is \in {"all", "any"}
  <2>1. DOMAIN c.of = 1..Len(c.of) /\ \A k \in 1..Len(c.of) : c.of[k] \in 1..i - 1
    BY <1>1, DetectionIs
  <2>2. {g[c.of[k]] : k \in DOMAIN c.of} = {h[c.of[k]] : k \in DOMAIN c.of}
    BY <2>1
  <2> QED BY <1>1, <2>2 DEF TruthAt
<1>2. CASE c.is = "not"
  <2>1. c.of \in 1..i - 1
    BY <1>2, DetectionIs DEF IsDetection
  <2> QED BY <1>2, <2>1 DEF TruthAt
<1>3. CASE c.is \notin {"all", "any", "not"}
  BY <1>3 DEF TruthAt
<1> QED BY <1>1, <1>2, <1>3

LEMMA TruthsAre ==
    ASSUME NEW policy, NEW seen, NEW detection, IsDetection(detection)
    PROVE  \A i \in 1..Len(detection) :
              Truths(policy, seen, detection)[i] =
                 TruthAt(policy, seen, detection, Truths(policy, seen, detection), i)
<1> DEFINE n == Len(detection)
           At(g, i) == TruthAt(policy, seen, detection, g, i)
           good == {m \in 0..n : \E g : g = [i \in 1..m |-> At(g, i)]}
<1>1. n \in Nat /\ DOMAIN detection = 1..n
  BY DetectionIs
<1>2. ASSUME NEW m \in 0..n, \A k \in 0..n : k < m => k \in good
      PROVE  m \in good
  <2>1. CASE m = 0
    <3>1. <<>> = [i \in 1..0 |-> At(<<>>, i)]
      <4> HIDE DEF At
      <4> QED OBVIOUS
    <3> QED BY <2>1, <3>1
  <2>2. CASE m # 0
    <3>1. m - 1 \in 0..n /\ m - 1 < m
      BY <1>1, <2>2
    <3>2. PICK g : g = [i \in 1..m - 1 |-> At(g, i)]
      BY <1>2, <3>1
    <3> DEFINE h == [i \in 1..m |-> At(g, i)]
    <3>3. \A i \in 1..m - 1 : h[i] = g[i]
      <4> HIDE DEF At
      <4>1. \A i \in 1..m - 1 : i \in 1..m
        BY <3>1
      <4> QED BY <3>2, <4>1
    <3>4. \A i \in 1..m : At(h, i) = At(g, i)
      <4> TAKE i \in 1..m
      <4>1. i \in 1..n /\ \A k \in 1..i - 1 : k \in 1..m - 1
        BY <1>1
      <4> HIDE DEF h
      <4> QED BY <3>3, <4>1, TruthLooksBack
    <3>5. h = [i \in 1..m |-> At(h, i)]
      <4> HIDE DEF At
      <4> QED BY <3>4
    <3> HIDE DEF h, At
    <3> QED BY <3>5
  <2> QED BY <2>1, <2>2
<1>3. n \in good
  <2> HIDE DEF good
  <2>1. \A m \in 0..n : m \in good
    <3> HIDE DEF n
    <3> QED BY <1>1, <1>2, CountingUp
  <2> QED BY <1>1, <2>1
<1>4. \E g : g = [i \in DOMAIN detection |-> At(g, i)]
  BY <1>1, <1>3
<1>5. Truths(policy, seen, detection) = CHOOSE g : g = [i \in DOMAIN detection |-> At(g, i)]
  BY DEF Truths, TruthAt
<1> DEFINE truths == Truths(policy, seen, detection)
<1>6. truths = [i \in DOMAIN detection |-> At(truths, i)]
  <2> HIDE DEF At
  <2> QED BY <1>4, <1>5
<1> HIDE DEF truths
<1>7. \A i \in 1..n : truths[i] = At(truths, i)
  <2> HIDE DEF At
  <2> QED BY <1>1, <1>6
<1> QED BY <1>7 DEF truths

\* A condition of its own that lacks nothing is settled, but for a host key
\* that nobody read.
LEMMA LeafIsSettled ==
    ASSUME NEW policy, NEW seen, NEW c, c.is \in Kinds \ {"all", "any", "not"},
           c.is = "always" => c.value \in BOOLEAN,
           ~PassedOver(seen, c),
           ~Leaf(policy, seen, c).raised, Leaf(policy, seen, c).missing = {}
    PROVE  TruthOfLeaf(policy, seen, c) = Settled(Leaf(policy, seen, c).hit)
<1>1. ~(c.is = "malformed")
  BY DEF Leaf, Answer
<1>2. CASE c.is \in {"auth_method", "extension"}
  <2>1. seen.auth.state = "read"
    BY <1>2 DEF Leaf, Lacks, Answer
  <2> QED BY <1>2, <2>1 DEF TruthOfLeaf
<1>3. CASE c.is = "config"
  <2>1. seen.config.state = "read"
    BY <1>3 DEF Leaf, Lacks, Answer
  <2> QED BY <1>3, <2>1 DEF TruthOfLeaf
<1>4. CASE c.is \notin {"auth_method", "extension", "config"}
  BY <1>1, <1>4 DEF TruthOfLeaf
<1> QED BY <1>2, <1>3, <1>4

\* So is any condition: where a combination stopped, the parts before settle it.
LEMMA AnswersAreSettled ==
    ASSUME NEW policy, NEW seen, NEW detection, IsDetection(detection),
           \A i \in DOMAIN detection : ~PassedOver(seen, detection[i])
    PROVE  \A i \in 1..Len(detection) :
              LET a == Answers(policy, seen, detection)[i]
              IN ~a.raised /\ a.missing = {} =>
                    Truths(policy, seen, detection)[i] = Settled(a.hit)
<1> DEFINE n == Len(detection)
           answers == Answers(policy, seen, detection)
           truths == Truths(policy, seen, detection)
           sound(i) == ~answers[i].raised /\ answers[i].missing = {} =>
                          truths[i] = Settled(answers[i].hit)
           good == {m \in 0..n : m = 0 \/ sound(m)}
<1>1. n \in Nat /\ DOMAIN detection = 1..n
  BY DetectionIs
<1>2. ASSUME NEW i \in 1..n, \A k \in 1..i - 1 : sound(k),
             ~answers[i].raised, answers[i].missing = {}
      PROVE  truths[i] = Settled(answers[i].hit)
  <2> DEFINE c == detection[i]
  <2>1. answers[i] = AnswerAt(policy, seen, detection, answers, i)
    BY AnswersAre
  <2>2. truths[i] = TruthAt(policy, seen, detection, truths, i)
    BY TruthsAre
  <2>3. c.is \in Kinds /\ (c.is = "always" => c.value \in BOOLEAN)
        /\ (c.is = "not" => c.of \in 1..i - 1)
    BY DetectionIs DEF IsDetection
  <2>4. CASE c.is \in {"all", "any"}
    <3> DEFINE of == c.of
               known == {truths[of[k]] : k \in DOMAIN of}
    <3>1. Len(of) \in Nat \ {0} /\ DOMAIN of = 1..Len(of) /\ \A k \in 1..Len(of) : of[k] \in 1..i - 1
      BY <2>4, DetectionIs
    <3>2. \A k \in 1..n : answers[k].hit \in BOOLEAN
      BY AnswersAreTyped
    <3>3. PICK last \in 1..Len(of) :
             /\ answers[i].hit = answers[of[last]].hit
             /\ answers[i].raised = answers[of[last]].raised
             /\ answers[i].version <=> \E k \in 1..last : answers[of[k]].version
             /\ \A x : x \in answers[i].missing <=> \E k \in 1..last : x \in answers[of[k]].missing
             /\ \A k \in 1..last - 1 : ~answers[of[k]].raised /\ answers[of[k]].hit = (c.is = "all")
             /\ \/ answers[of[last]].raised
                \/ answers[of[last]].hit = (c.is = "any")
                \/ last = Len(of)
      <4>1. \A k \in 1..i - 1 : answers[k].hit \in BOOLEAN
        BY <1>1, <3>2
      <4>2. detection[i].is \in {"all", "any"}
        BY <2>4
      <4> HIDE DEF truths, sound
      <4> QED BY <4>1, <4>2, CombinationIs
    <3>4. truths[i] = TruthOfBoth(c.is, known)
      BY <2>2, <2>4 DEF TruthAt
    <3> HIDE DEF answers, truths, sound, of
    <3>5. \A k \in 1..last : answers[of[k]].missing = {}
      BY <1>2, <3>3
    <3>6. \A k \in 1..last : k \in 1..Len(of) /\ of[k] \in 1..i - 1 /\ (k # last => k \in 1..last - 1)
      BY <3>1
    <3>7. \A k \in 1..last : ~answers[of[k]].raised
      BY <1>2, <3>3, <3>6
    <3>8. \A k \in 1..last : truths[of[k]] = Settled(answers[of[k]].hit)
      BY <1>2, <3>5, <3>6, <3>7 DEF sound
    <3>9. truths[of[last]] \in known /\ truths[of[last]] = Settled(answers[i].hit)
      <4>1. last \in DOMAIN of /\ last \in 1..last
        BY <3>1
      <4>2. truths[of[last]] \in known
        BY <4>1
      <4> HIDE DEF known
      <4> QED BY <3>3, <3>8, <4>1, <4>2
    <3>10. CASE answers[i].hit = (c.is = "any")
      BY <2>4, <3>4, <3>9, <3>10 DEF TruthOfBoth
    <3>11. CASE answers[i].hit # (c.is = "any")
      <4>1. last = Len(of)
        BY <1>2, <3>3, <3>11
      <4>2. answers[i].hit = (c.is = "all")
        <5>1. answers[i].hit \in BOOLEAN
          BY <1>1, <3>2
        <5> QED BY <2>4, <3>11, <5>1
      <4>3. \A k \in 1..Len(of) : truths[of[k]] = Settled(c.is = "all")
        <5> SUFFICES ASSUME NEW k \in 1..Len(of) PROVE truths[of[k]] = Settled(c.is = "all")
          OBVIOUS
        <5>1. k \in 1..last
          BY <4>1
        <5>2. k # last => answers[of[k]].hit = (c.is = "all")
          BY <3>3, <3>6, <5>1
        <5>3. k = last => answers[of[k]].hit = (c.is = "all")
          BY <3>3, <4>2
        <5>4. answers[of[k]].hit = (c.is = "all")
          BY <5>2, <5>3
        <5> QED BY <3>8, <5>1, <5>4
      <4>4. \A t \in known : t = Settled(c.is = "all")
        BY <3>1, <4>3
      <4>5. Settled(c.is = "any") \notin known /\ "open" \notin known
        <5> HIDE DEF known
        <5> QED BY <2>4, <4>4 DEF Settled
      <4> HIDE DEF known
      <4> QED BY <3>4, <4>2, <4>5 DEF TruthOfBoth
    <3> QED BY <3>10, <3>11
  <2>5. CASE c.is = "not"
    <3>1. answers[i] = Negated(answers[c.of])
      BY <2>1, <2>5 DEF AnswerAt
    <3>2. truths[i] = IF truths[c.of] = "open" THEN "open" ELSE Settled(truths[c.of] = "no")
      BY <2>2, <2>5 DEF TruthAt
    <3>3. sound(c.of) /\ answers[c.of].hit \in BOOLEAN
      <4>1. c.of \in 1..i - 1 /\ c.of \in 1..n
        BY <1>1, <2>3, <2>5
      <4>2. answers[c.of].hit \in BOOLEAN
        BY <4>1, AnswersAreTyped
      <4> QED BY <1>2, <4>1, <4>2
    <3> HIDE DEF answers, truths
    <3>4. /\ answers[i].hit = (~answers[c.of].hit /\ ~answers[c.of].raised)
          /\ answers[i].raised = answers[c.of].raised
          /\ answers[i].missing = answers[c.of].missing
      BY <3>1 DEF Negated
    <3>5. truths[c.of] = Settled(answers[c.of].hit)
      BY <1>2, <3>3, <3>4
    <3> QED BY <1>2, <3>2, <3>3, <3>4, <3>5 DEF Settled
  <2>6. CASE c.is \notin {"all", "any", "not"}
    <3>1. answers[i] = Leaf(policy, seen, c)
      BY <2>1, <2>6 DEF AnswerAt
    <3>2. truths[i] = TruthOfLeaf(policy, seen, c)
      BY <2>2, <2>6 DEF TruthAt
    <3>3. ~PassedOver(seen, c)
      BY <1>1
    <3> HIDE DEF answers, truths
    <3> QED BY <1>2, <2>3, <2>6, <3>1, <3>2, <3>3, LeafIsSettled
  <2> QED BY <2>4, <2>5, <2>6
<1>3. \A m \in 0..n : m \in good
  <2>1. ASSUME NEW m \in 0..n, \A k \in 0..n : k < m => k \in good
        PROVE  m \in good
    <3>1. \A k \in 1..m - 1 : k \in 0..n /\ k < m /\ k # 0
      BY <1>1
    <3>2. \A k \in 1..m - 1 : sound(k)
      <4> HIDE DEF sound
      <4> QED BY <2>1, <3>1
    <3>3. m # 0 => m \in 1..n
      BY <1>1
    <3>4. m # 0 => sound(m)
      <4> HIDE DEF answers, truths
      <4> QED BY <1>2, <3>2, <3>3
    <3> HIDE DEF sound
    <3> QED BY <3>4
  <2> HIDE DEF good, n
  <2> QED BY <1>1, <2>1, CountingUp
<1> HIDE DEF answers, truths
<1>4. \A i \in 1..n : sound(i)
  <2> HIDE DEF sound
  <2>1. \A i \in 1..n : i \in 0..n /\ i # 0
    BY <1>1
  <2> QED BY <1>3, <2>1
<1> QED BY <1>4 DEF answers, truths

-----------------------------------------------------------------------------
(* The order of the probes                                                 *)

Early == {"connect", "keys", "auth", "sshfp"}
Late == {"startups", "grace", "client", "config", "analyse"}

LEMMA StepsAre ==
    /\ DOMAIN Steps = 1..10
    /\ Steps[1] = "connect" /\ Steps[2] = "keys" /\ Steps[3] = "auth" /\ Steps[4] = "sshfp"
    /\ Steps[5] = "known_hosts" /\ Steps[6] = "startups" /\ Steps[7] = "grace"
    /\ Steps[8] = "client" /\ Steps[9] = "config" /\ Steps[10] = "analyse"
    /\ \A i, j \in 1..10 : Steps[i] = Steps[j] => i = j
BY DEF Steps

\* The step that follows is the first later one that is wanted.
LEMMA AfterIs ==
    ASSUME NEW k \in 1..9
    PROVE  \E m \in 2..10 :
              /\ After(Steps[k]) = Steps[m] /\ k < m
              /\ \A j \in 2..10 : k < j /\ j < m => ~Wanted(Steps[j])
<1> DEFINE at == CHOOSE i \in DOMAIN Steps : Steps[i] = Steps[k]
           later == {i \in DOMAIN Steps : i > k /\ Wanted(Steps[i])}
<1>1. at = k
  <2>1. k \in DOMAIN Steps
    BY StepsAre
  <2> HIDE DEF at
  <2>2. at \in DOMAIN Steps /\ Steps[at] = Steps[k]
    BY <2>1 DEF at
  <2> QED BY <2>2, StepsAre
<1>2. later \in SUBSET Nat /\ later \in SUBSET (2..10)
  BY StepsAre
<1>3. 10 \in later
  BY StepsAre DEF Wanted
<1>4. Min(later) \in later /\ \A j \in later : Min(later) <= j
  <2> HIDE DEF later
  <2> QED BY <1>2, <1>3, MinIs
<1>5. After(Steps[k]) = Steps[Min(later)]
  BY <1>1 DEF After
<1>6. \A j \in 2..10 : k < j /\ j < Min(later) => j \notin later
  <2> HIDE DEF later
  <2>1. Min(later) \in 2..10
    BY <1>2, <1>4
  <2> QED BY <1>4, <2>1
<1>7. \A j \in 2..10 : k < j /\ j < Min(later) => ~Wanted(Steps[j])
  <2>1. \A j \in 2..10 : j > k /\ Wanted(Steps[j]) => j \in later
    BY StepsAre
  <2> HIDE DEF later
  <2> QED BY <1>6, <2>1
<1>8. Min(later) \in 2..10 /\ k < Min(later)
  <2>1. \A j \in later : k < j
    BY StepsAre
  <2> HIDE DEF later
  <2> QED BY <1>2, <1>4, <2>1
<1> QED BY <1>5, <1>7, <1>8

\* known_hosts is compared with after the keys were read, when it is asked for.
LEMMA AfterEarly ==
    ASSUME NEW s \in Early
    PROVE  /\ After(s) \in (Early \ {"connect"}) \cup {"known_hosts"} \cup Late
           /\ "known_hosts" \in options.probes => After(s) \notin Late
<1>1. PICK k \in 1..4 : s = Steps[k]
  BY StepsAre DEF Early
<1>2. PICK m \in 2..10 : /\ After(Steps[k]) = Steps[m] /\ k < m
                         /\ \A j \in 2..10 : k < j /\ j < m => ~Wanted(Steps[j])
  BY AfterIs
<1>3. m > 5 => ~Wanted("known_hosts")
  BY <1>2, StepsAre
<1>4. "known_hosts" \in options.probes => m \in 2..5
  BY <1>3 DEF Wanted
<1>5. m \in 2..5 => Steps[m] \notin Late
  BY StepsAre DEF Late
<1>6. Steps[m] \in (Early \ {"connect"}) \cup {"known_hosts"} \cup Late
  BY StepsAre DEF Early, Late
<1> QED BY <1>1, <1>2, <1>4, <1>5, <1>6

LEMMA AfterLate ==
    ASSUME NEW s \in {"known_hosts"} \cup (Late \ {"analyse"})
    PROVE  After(s) \in Late
<1>1. PICK k \in 5..9 : s = Steps[k]
  BY StepsAre DEF Late
<1>2. PICK m \in 2..10 : After(Steps[k]) = Steps[m] /\ k < m
  BY AfterIs
<1>3. m \in 6..10
  BY <1>2
<1> QED BY <1>1, <1>2, <1>3, StepsAre DEF Late

-----------------------------------------------------------------------------
(* What every state of a scan satisfies                                    *)

\* The facts always have the same fields.
FactsAre ==
    DOMAIN facts = {"offers", "banner", "keys", "auth", "config", "sshfp", "validated", "walk",
                    "startups", "grace", "client"}

InOrder == case \in Cases /\ pc \in Early \cup {"tunnel", "known_hosts", "done", "raised"} \cup Late

\* A scan that reached no analysis has nothing to report, and one that did
\* reports what it concludes from what was read.
ResultFollows ==
    /\ pc \in {"tunnel", "connect"} => result.status = "error"
    /\ Analysed =>
          /\ said \in [Plugins -> Says]
          /\ result = Concluded(ApplyChangelog(facts, Matches(ThePolicy, facts)) \cup PluginMatches(said),
                                PluginFindings(said))

\* Once the keys were compared with known_hosts, they stay as they were.
ComparisonStands ==
    "known_hosts" \in options.probes /\ (pc \in Late \/ Analysed) =>
        local = Compare(LookupHosts(Load(server.knownHosts), server.name, server.port), Presented)

WalkStands ==
    facts.validated => facts.walk \in server.dns.walks /\ Validated(server.dns, facts.walk)

\* What was read of the server when it was connected to stays.
ServerStands == pc \in (Early \ {"connect"}) \cup {"known_hosts"} \cup Late \/ Analysed =>
    facts.banner = server.banner /\ facts.offers = server.offers

ScanInv ==
    FactsAre /\ InOrder /\ ResultFollows /\ ComparisonStands /\ WalkStands /\ ServerStands

LEMMA ScanStarts == Init => ScanInv
<1> SUFFICES ASSUME Init PROVE ScanInv
  OBVIOUS
<1>1. FactsAre
  BY DEF Init, NoFacts, FactsAre
<1>2. InOrder /\ pc \in {"tunnel", "connect"}
  BY DEF Init, InOrder, Early
<1>3. ResultFollows
  BY <1>2 DEF Init, Unfinished, ResultFollows, Analysed
<1>4. ComparisonStands
  BY <1>2 DEF ComparisonStands, Analysed, Late
<1>5. WalkStands
  BY DEF Init, NoFacts, WalkStands
<1>6. ServerStands
  BY <1>2 DEF Init, Unfinished, ServerStands, Analysed, Early, Late
<1> QED BY <1>1, <1>2, <1>3, <1>4, <1>5, <1>6 DEF ScanInv

\* The fields that a step does not name keep their values.
LEMMA FactsStay ==
    ASSUME FactsAre, [Next]_vars
    PROVE  /\ FactsAre'
           /\ pc \notin {"connect", "keys"} => facts'.keys = facts.keys
           /\ pc # "sshfp" => facts'.validated = facts.validated /\ facts'.walk = facts.walk
           /\ pc # "connect" => facts'.banner = facts.banner /\ facts'.offers = facts.offers
           /\ case' = case
<1>1. CASE OpenTunnel
  BY <1>1 DEF OpenTunnel, FactsAre
<1>2. CASE Connect
  BY <1>2 DEF Connect, FactsAre
<1>3. CASE ConnectFails
  BY <1>3 DEF ConnectFails, FactsAre
<1>4. CASE FetchKey
  BY <1>4 DEF FetchKey, FactsAre
<1>5. CASE KeysDone
  BY <1>5 DEF KeysDone, FactsAre
<1>6. CASE AskAuth
  BY <1>6 DEF AskAuth, FactsAre
<1>7. CASE CheckSshfp
  BY <1>7 DEF CheckSshfp, FactsAre
<1>8. CASE CheckKnownHosts
  BY <1>8 DEF CheckKnownHosts, FactsAre
<1>9. CASE MeasureStartups
  BY <1>9 DEF MeasureStartups, FactsAre
<1>10. CASE MeasureGrace
  BY <1>10 DEF MeasureGrace, FactsAre
<1>11. CASE AuditClient
  BY <1>11 DEF AuditClient, FactsAre
<1>12. CASE AuditConfig
  BY <1>12 DEF AuditConfig, FactsAre
<1>13. CASE Analyse
  BY <1>13 DEF Analyse, FactsAre
<1>14. CASE Finished \/ UNCHANGED vars
  BY <1>14 DEF Finished, vars, FactsAre
<1> QED BY <1>1, <1>2, <1>3, <1>4, <1>5, <1>6, <1>7, <1>8, <1>9, <1>10, <1>11, <1>12, <1>13, <1>14 DEF Next

\* Where each step leads: the probes go on in their order, and only the analysis
\* comes to an end with a result.
LEMMA StepsLead ==
    ASSUME InOrder, [Next]_vars
    PROVE  /\ InOrder'
           /\ \/ UNCHANGED vars
              \/ Analyse
              \/ pc = "tunnel" /\ pc' \in {"connect", "done"} /\ result' = result
              \/ pc = "connect" /\ pc' \in {"connect", "done"} /\ result' = result
              \/ pc' = "raised"
              \/ /\ pc \in Early /\ pc' \in (Early \ {"connect"}) \cup {"known_hosts"} \cup Late
                 /\ "known_hosts" \in options.probes => pc' \notin Late
              \/ CheckKnownHosts /\ pc' \in Late
              \/ pc \in Late /\ pc' \in Late /\ local' = local
<1> USE DEF InOrder
<1>1. CASE OpenTunnel
  BY <1>1 DEF OpenTunnel, Early
<1>2. CASE Connect
  <2>1. pc \in Early /\ pc' = After(pc)
    BY <1>2 DEF Connect, Early
  <2> QED BY <1>2, <2>1, AfterEarly DEF Connect
<1>3. CASE ConnectFails
  BY <1>3 DEF ConnectFails, Early
<1>4. CASE FetchKey
  BY <1>4 DEF FetchKey, Early, Late
<1>5. CASE KeysDone
  <2>1. pc \in Early /\ pc' = After(pc)
    BY <1>5 DEF KeysDone, Early
  <2> QED BY <1>5, <2>1, AfterEarly DEF KeysDone
<1>6. CASE AskAuth
  <2>1. pc \in Early /\ pc' = After(pc)
    BY <1>6 DEF AskAuth, Early
  <2> QED BY <1>6, <2>1, AfterEarly DEF AskAuth
<1>7. CASE CheckSshfp
  <2>1. pc \in Early /\ pc' = After(pc)
    BY <1>7 DEF CheckSshfp, Early
  <2> QED BY <1>7, <2>1, AfterEarly DEF CheckSshfp
<1>8. CASE CheckKnownHosts
  <2>1. pc' = After("known_hosts") /\ case' = case
    BY <1>8 DEF CheckKnownHosts
  <2> QED BY <1>8, <2>1, AfterLate
<1>9. CASE MeasureStartups
  <2>1. pc \in Late \ {"analyse"} /\ local' = local /\ case' = case
        /\ (pc' = After(pc) \/ pc' = "raised")
    BY <1>9 DEF MeasureStartups, Late
  <2> QED BY <2>1, AfterLate
<1>10. CASE MeasureGrace
  <2>1. pc \in Late \ {"analyse"} /\ pc' = After(pc) /\ local' = local /\ case' = case
    BY <1>10 DEF MeasureGrace, Late
  <2> QED BY <2>1, AfterLate
<1>11. CASE AuditClient
  <2>1. pc \in Late \ {"analyse"} /\ pc' = After(pc) /\ local' = local /\ case' = case
    BY <1>11 DEF AuditClient, Late
  <2> QED BY <2>1, AfterLate
<1>12. CASE AuditConfig
  <2>1. pc \in Late \ {"analyse"} /\ pc' = After(pc) /\ local' = local /\ case' = case
    BY <1>12 DEF AuditConfig, Late
  <2> QED BY <2>1, AfterLate
<1>13. CASE Analyse
  BY <1>13 DEF Analyse
<1>14. CASE Finished \/ UNCHANGED vars
  BY <1>14 DEF Finished, vars
<1> QED BY <1>1, <1>2, <1>3, <1>4, <1>5, <1>6, <1>7, <1>8, <1>9, <1>10, <1>11, <1>12, <1>13, <1>14 DEF Next

\* What is concluded depends on what was read, and on nothing else.
LEMMA Concluding ==
    ASSUME case' = case, facts' = facts, local' = local
    PROVE  (Concluded(ApplyChangelog(facts, Matches(ThePolicy, facts)) \cup PluginMatches(said),
                      PluginFindings(said)))'
              = Concluded(ApplyChangelog(facts, Matches(ThePolicy, facts)) \cup PluginMatches(said'),
                          PluginFindings(said'))
<1>1. \A p : (MissingFor(p))' = MissingFor(p)
  <2> TAKE p
  <2>1. \A need : (Available(need))' = Available(need)
    BY DEF Available, options
  <2> QED BY <2>1 DEF MissingFor
<1>2. (PluginMatches(said))' = PluginMatches(said')
  <2> HIDE DEF MissingFor
  <2> QED BY <1>1 DEF PluginMatches
<1>3. (PluginFindings(said))' = PluginFindings(said')
  BY <1>1 DEF PluginFindings
<1>4. options' = options
  BY DEF options
<1> QED BY <1>2, <1>3, <1>4 DEF Concluded

LEMMA ResultHolds == ScanInv /\ [Next]_vars => ResultFollows'
<1> SUFFICES ASSUME ScanInv, [Next]_vars PROVE ResultFollows'
  OBVIOUS
<1> USE DEF ResultFollows, Analysed
<1>1. CASE UNCHANGED vars
  BY <1>1, Concluding DEF ScanInv, vars
<1>2. CASE Analyse
  BY <1>2, Concluding DEF Analyse
<1>3. CASE pc \in {"tunnel", "connect"} /\ pc' \in {"connect", "done"} /\ result' = result
  BY <1>3 DEF ScanInv
<1>4. CASE pc' \notin {"tunnel", "connect", "done"}
  BY <1>4
<1>5. InOrder
  BY DEF ScanInv
<1> QED BY <1>1, <1>2, <1>3, <1>4, <1>5, StepsLead DEF Early, Late

LEMMA ComparisonHolds == ScanInv /\ [Next]_vars => ComparisonStands'
<1> SUFFICES ASSUME ScanInv, [Next]_vars, "known_hosts" \in options'.probes,
                    pc' \in Late \/ Analysed'
             PROVE  local' = Compare(LookupHosts(Load(server'.knownHosts), server'.name, server'.port),
                                     Presented')
  BY DEF ComparisonStands
<1>1. /\ case' = case
      /\ pc \notin {"connect", "keys"} => facts'.keys = facts.keys
  BY FactsStay DEF ScanInv
<1>2. "known_hosts" \in options.probes /\ server' = server
  BY <1>1 DEF options, server
<1>3. pc \notin {"connect", "keys"} => Presented' = Presented
  BY <1>1 DEF Presented
<1>4. CASE (pc \in Late \/ Analysed) /\ local' = local
  <2>1. pc \notin {"connect", "keys"}
    BY <1>4 DEF Late, Analysed
  <2> QED BY <1>2, <1>3, <1>4, <2>1 DEF ScanInv, ComparisonStands
<1>5. CASE CheckKnownHosts
  <2>1. pc = "known_hosts"
    BY <1>5 DEF CheckKnownHosts
  <2> QED BY <1>2, <1>3, <1>5, <2>1 DEF CheckKnownHosts
<1>6. CASE UNCHANGED vars
  BY <1>4, <1>6 DEF vars, Analysed
<1>7. CASE Analyse
  BY <1>4, <1>7 DEF Analyse, Late
<1>8. CASE pc \in {"tunnel", "connect"} /\ pc' \in {"connect", "done"} /\ result' = result
  BY <1>8 DEF ScanInv, ResultFollows, Analysed, Late
<1>9. CASE pc' = "raised"
  BY <1>9 DEF Analysed, Late
<1>10. CASE pc' \in (Early \ {"connect"}) \cup {"known_hosts"}
  BY <1>10 DEF Analysed, Late, Early
<1>11. InOrder
  BY DEF ScanInv
<1> QED BY <1>2, <1>4, <1>5, <1>6, <1>7, <1>8, <1>9, <1>10, <1>11, StepsLead

LEMMA WalkHolds == ScanInv /\ [Next]_vars => WalkStands'
<1> SUFFICES ASSUME ScanInv, [Next]_vars PROVE WalkStands'
  OBVIOUS
<1>1. case' = case /\ (pc # "sshfp" => facts'.validated = facts.validated /\ facts'.walk = facts.walk)
  BY FactsStay DEF ScanInv
<1>2. server' = server
  BY <1>1 DEF server
<1>3. CASE facts'.validated = facts.validated /\ facts'.walk = facts.walk
  BY <1>2, <1>3 DEF ScanInv, WalkStands
<1>4. CASE CheckSshfp
  BY <1>2, <1>3, <1>4 DEF CheckSshfp, ScanInv, FactsAre, WalkStands
<1>5. pc = "sshfp" => CheckSshfp \/ UNCHANGED vars
  BY DEF Next, OpenTunnel, Connect, ConnectFails, FetchKey, KeysDone, AskAuth, CheckKnownHosts,
         MeasureStartups, MeasureGrace, AuditClient, AuditConfig, Analyse, Finished
<1>6. UNCHANGED vars => facts'.validated = facts.validated /\ facts'.walk = facts.walk
  BY DEF vars
<1> QED BY <1>1, <1>3, <1>4, <1>5, <1>6

LEMMA ServerHolds == ScanInv /\ [Next]_vars => ServerStands'
<1> SUFFICES ASSUME ScanInv, [Next]_vars PROVE ServerStands'
  OBVIOUS
<1>1. case' = case /\ (pc # "connect" => facts'.banner = facts.banner /\ facts'.offers = facts.offers)
  BY FactsStay DEF ScanInv
<1>2. server' = server
  BY <1>1 DEF server
<1>3. CASE Connect
  BY <1>2, <1>3 DEF Connect, ScanInv, FactsAre, ServerStands
<1>4. pc = "connect" => Connect \/ ConnectFails \/ UNCHANGED vars
  BY DEF Next, OpenTunnel, FetchKey, KeysDone, AskAuth, CheckSshfp, CheckKnownHosts, MeasureStartups,
         MeasureGrace, AuditClient, AuditConfig, Analyse, Finished
<1>5. CASE pc \in {"tunnel", "connect"} /\ pc' \in {"connect", "done"} /\ result' = result
  BY <1>5 DEF ScanInv, ResultFollows, ServerStands, Analysed, Early, Late
<1>6. CASE ConnectFails
  BY <1>5, <1>6 DEF ConnectFails
<1>7. CASE UNCHANGED vars
  BY <1>7 DEF vars, ScanInv, ServerStands, Analysed, server
<1>8. CASE pc' = "raised"
  BY <1>8 DEF ServerStands, Analysed, Early, Late
<1>9. CASE pc \in (Early \ {"connect"}) \cup {"known_hosts"} \cup Late
  BY <1>1, <1>2, <1>9 DEF ScanInv, ServerStands, Early, Late
<1>10. CASE Analyse
  BY <1>9, <1>10 DEF Analyse, Late
<1>11. CASE CheckKnownHosts
  BY <1>9, <1>11 DEF CheckKnownHosts
<1>12. InOrder
  BY DEF ScanInv
<1> QED BY <1>3, <1>4, <1>5, <1>6, <1>7, <1>8, <1>9, <1>10, <1>11, <1>12, StepsLead DEF Early, Late

LEMMA ScanHolds == Spec => []ScanInv
<1>1. Init => ScanInv
  BY ScanStarts
<1>2. ScanInv /\ [Next]_vars => ScanInv'
  BY FactsStay, StepsLead, ResultHolds, ComparisonHolds, WalkHolds, ServerHolds DEF ScanInv
<1> QED BY <1>1, <1>2, PTL DEF Spec

-----------------------------------------------------------------------------
(* No rule is silent                                                       *)

LEMMA LastIs ==
    ASSUME NEW policy, NEW seen, NEW detection, IsDetection(detection)
    PROVE  LET n == Len(detection)
           IN /\ n \in 1..n
              /\ Evaluate(policy, seen, detection) = Answers(policy, seen, detection)[n]
              /\ Truth(policy, seen, detection) = Truths(policy, seen, detection)[n]
<1>1. Len(detection) \in Nat \ {0}
  BY DetectionIs
<1> QED BY <1>1 DEF Evaluate, Truth

\* What a match of a rule has, and when it rests on the version.
LEMMA MatchesAre ==
    ASSUME NEW policy, NEW seen, NEW rule, NEW m \in MatchesOf(policy, seen, rule)
    PROVE  /\ DOMAIN m = {"id", "severity", "evidence", "version", "undetermined", "patched", "needs"}
           /\ m.id = rule.id /\ ~m.patched
           /\ m.version => /\ Evaluate(policy, seen, rule.detection).hit
                           /\ Evaluate(policy, seen, rule.detection).version
<1> DEFINE a == Evaluate(policy, seen, rule.detection)
<1>1. CASE a.raised
  <2>1. m = Match(rule.id, "info", Answer(FALSE), FALSE)
    BY <1>1 DEF MatchesOf
  <2> QED BY <2>1 DEF Match, Answer
<1>2. CASE ~a.raised /\ a.hit
  <2>1. m = Match(rule.id, rule.severity, [a EXCEPT !.missing = {}], FALSE)
    BY <1>2 DEF MatchesOf
  <2>2. [a EXCEPT !.missing = {}].version = a.version
    OBVIOUS
  <2> HIDE DEF a
  <2> QED BY <1>2, <2>1, <2>2 DEF Match, a
<1>3. CASE ~a.raised /\ ~a.hit /\ a.missing # {}
  <2>1. m = Match(rule.id, "info", [Answer(FALSE) EXCEPT !.missing = a.missing], TRUE)
    BY <1>3 DEF MatchesOf
  <2> QED BY <2>1 DEF Match, Answer
<1>4. CASE ~a.raised /\ ~a.hit /\ a.missing = {}
  BY <1>4 DEF MatchesOf
<1> QED BY <1>1, <1>2, <1>3, <1>4

\* A rule is listed unless its answer is known to be no.
LEMMA RuleIsListed ==
    ASSUME NEW policy, NEW seen, NEW rule, IsDetection(rule.detection),
           \A i \in DOMAIN rule.detection : ~PassedOver(seen, rule.detection[i]),
           Truth(policy, seen, rule.detection) # "no"
    PROVE  \E m \in MatchesOf(policy, seen, rule) : m.id = rule.id
<1> DEFINE n == Len(rule.detection)
           a == Evaluate(policy, seen, rule.detection)
<1>1. n \in 1..n /\ a = Answers(policy, seen, rule.detection)[n]
      /\ Truth(policy, seen, rule.detection) = Truths(policy, seen, rule.detection)[n]
  BY LastIs
<1>2. a.hit \in BOOLEAN /\ a.raised \in BOOLEAN
  BY <1>1, AnswersAreTyped
<1>3. ~a.raised /\ a.missing = {} => Truth(policy, seen, rule.detection) = Settled(a.hit)
  BY <1>1, AnswersAreSettled
<1>5. CASE a.raised
  <2>1. MatchesOf(policy, seen, rule) = {Match(rule.id, "info", Answer(FALSE), FALSE)}
    BY <1>5 DEF MatchesOf
  <2> QED BY <2>1 DEF Match
<1>6. CASE ~a.raised /\ a.hit
  <2>1. MatchesOf(policy, seen, rule) =
           {Match(rule.id, rule.severity, [a EXCEPT !.missing = {}], FALSE)}
    BY <1>6 DEF MatchesOf
  <2> QED BY <2>1 DEF Match
<1>7. CASE ~a.raised /\ ~a.hit /\ a.missing # {}
  <2>1. MatchesOf(policy, seen, rule) =
           {Match(rule.id, "info", [Answer(FALSE) EXCEPT !.missing = a.missing], TRUE)}
    BY <1>7 DEF MatchesOf
  <2> QED BY <2>1 DEF Match
<1>8. CASE ~a.raised /\ ~a.hit /\ a.missing = {}
  BY <1>3, <1>8 DEF Settled
<1> QED BY <1>5, <1>6, <1>7, <1>8

LEMMA NoRuleIsSilent == ScanInv => NotSilent
<1> SUFFICES ASSUME ScanInv, Analysed, NEW rule \in ThePolicy.rules,
                    \A i \in DOMAIN rule.detection : ~PassedOver(facts, rule.detection[i]),
                    Truth(ThePolicy, facts, rule.detection) # "no"
             PROVE  \E m \in result.matches : m.id = rule.id
  BY DEF NotSilent
<1>1. IsDetection(rule.detection)
  BY TargetScanAssumption
<1>2. PICK m \in MatchesOf(ThePolicy, facts, rule) : m.id = rule.id
  BY <1>1, RuleIsListed
<1>3. m \in Matches(ThePolicy, facts)
  BY <1>2 DEF Matches
<1>4. m \in UNION {MatchesOf(ThePolicy, facts, r) : r \in ThePolicy.rules}
  BY <1>2
<1>5. Patches(facts, m) \in ApplyChangelog(facts, Matches(ThePolicy, facts))
  BY <1>3 DEF ApplyChangelog
<1>6. "id" \in DOMAIN m
  BY <1>2, MatchesAre
<1>7. Patches(facts, m).id = rule.id
  BY <1>2, <1>6 DEF Patches
<1>8. ApplyChangelog(facts, Matches(ThePolicy, facts)) \subseteq result.matches
  BY DEF ScanInv, ResultFollows, Concluded
<1> QED BY <1>5, <1>7, <1>8

\* A rule that is not listed is one whose answer was known to be no, whatever a
\* probe failed to read or was not asked to (evaluate and _evaluate in
\* vulnerabilities.py): the parts of a combination that were looked at before it
\* stopped settle it, or what they lack is listed.
THEOREM NothingIsSilent == Spec => []NotSilent
<1> QED BY ScanHolds, NoRuleIsSilent, PTL

-----------------------------------------------------------------------------
(* What the changelog clears                                               *)

\* What was matched on the version was asked about it.
LEMMA VersionWasAsked ==
    ASSUME NEW policy, NEW seen, NEW detection, IsDetection(detection),
           \A i \in DOMAIN detection : detection[i].is # "version"
    PROVE  \A i \in 1..Len(detection) : ~Answers(policy, seen, detection)[i].version
<1> DEFINE n == Len(detection)
           answers == Answers(policy, seen, detection)
           good == {m \in 0..n : m = 0 \/ ~answers[m].version}
<1>1. n \in Nat /\ DOMAIN detection = 1..n
  BY DetectionIs
<1>2. ASSUME NEW i \in 1..n, \A k \in 1..i - 1 : ~answers[k].version
      PROVE  ~answers[i].version
  <2> DEFINE c == detection[i]
  <2>1. answers[i] = AnswerAt(policy, seen, detection, answers, i)
    BY AnswersAre
  <2>2. c.is \in Kinds /\ (c.is = "always" => c.value \in BOOLEAN)
        /\ (c.is = "not" => c.of \in 1..i - 1)
    BY DetectionIs DEF IsDetection
  <2>3. CASE c.is \in {"all", "any"}
    <3>1. Len(c.of) \in Nat \ {0} /\ \A k \in 1..Len(c.of) : c.of[k] \in 1..i - 1
      BY <2>3, DetectionIs
    <3>2. \A k \in 1..i - 1 : answers[k].hit \in BOOLEAN
      <4>1. \A k \in 1..i - 1 : k \in 1..n
        BY <1>1
      <4> QED BY <4>1, AnswersAreTyped
    <3>3. PICK last \in 1..Len(c.of) :
             answers[i].version <=> \E k \in 1..last : answers[c.of[k]].version
      <4>1. detection[i].is \in {"all", "any"}
        BY <2>3
      <4> QED BY <3>2, <4>1, CombinationIs
    <3>4. \A k \in 1..last : k \in 1..Len(c.of)
      BY <3>1
    <3> HIDE DEF answers, c
    <3> QED BY <1>2, <3>1, <3>3, <3>4
  <2>4. CASE c.is = "not"
    <3>1. answers[i] = Negated(answers[c.of])
      BY <2>1, <2>4 DEF AnswerAt
    <3> HIDE DEF answers
    <3>2. answers[i].version = answers[c.of].version
      BY <3>1 DEF Negated
    <3> QED BY <1>2, <2>2, <2>4, <3>2
  <2>5. CASE c.is \notin {"all", "any", "not"}
    <3>1. answers[i] = Leaf(policy, seen, c)
      BY <2>1, <2>5 DEF AnswerAt
    <3>2. c.is # "version"
      BY <1>1
    <3> HIDE DEF answers
    <3> QED BY <2>2, <2>5, <3>1, <3>2, LeafIs
  <2> QED BY <2>3, <2>4, <2>5
<1> HIDE DEF answers
<1>3. \A m \in 0..n : m \in good
  <2>1. ASSUME NEW m \in 0..n, \A k \in 0..n : k < m => k \in good
        PROVE  m \in good
    <3>1. \A k \in 1..m - 1 : k \in 0..n /\ k < m /\ k # 0
      BY <1>1
    <3>2. m # 0 => m \in 1..n
      BY <1>1
    <3> QED BY <1>2, <2>1, <3>1, <3>2
  <2> HIDE DEF good, n
  <2> QED BY <1>1, <2>1, CountingUp
<1> QED BY <1>1, <1>3 DEF answers

\* Without the version, what needs it does not hold.
LEMMA NoVersionNoHit ==
    ASSUME NEW policy, NEW seen, seen.banner.version = Unversioned,
           NEW detection, IsDetection(detection), NEW needing \in SUBSET (1..Len(detection)),
           \A i \in needing :
              LET c == detection[i]
              IN \/ c.is = "version"
                 \/ c.is = "any" /\ \A k \in DOMAIN c.of : c.of[k] \in needing
                 \/ c.is = "all" /\ \E k \in DOMAIN c.of : c.of[k] \in needing
    PROVE  \A i \in needing : ~Answers(policy, seen, detection)[i].hit
<1> DEFINE n == Len(detection)
           answers == Answers(policy, seen, detection)
           good == {m \in 0..n : m \in needing => ~answers[m].hit}
<1>1. n \in Nat
  BY DetectionIs
<1>2. ASSUME NEW i \in needing, \A k \in 1..i - 1 : k \in needing => ~answers[k].hit
      PROVE  ~answers[i].hit
  <2> DEFINE c == detection[i]
  <2>1. CASE c.is = "version"
    <3>0. answers[i] = AnswerAt(policy, seen, detection, answers, i)
      BY AnswersAre
    <3>1. answers[i] = Leaf(policy, seen, c)
      BY <2>1, <3>0 DEF AnswerAt
    <3>2. ~VersionMatches(seen, c)
      BY DEF VersionMatches, VersionInRange
    <3> HIDE DEF answers
    <3> QED BY <2>1, <3>1, <3>2 DEF Leaf, Answer
  <2>2. CASE c.is \in {"all", "any"}
    <3>1. /\ Len(c.of) \in Nat \ {0} /\ DOMAIN c.of = 1..Len(c.of)
          /\ \A k \in 1..Len(c.of) : c.of[k] \in 1..i - 1
      BY <2>2, DetectionIs
    <3>2. \A k \in 1..n : /\ answers[k].hit \in BOOLEAN
                          /\ answers[k].raised => ~answers[k].hit
      BY AnswersAreTyped
    <3>3. \A k \in 1..i - 1 : k \in 1..n
      BY <1>1
    <3>4. PICK last \in 1..Len(c.of) :
             /\ answers[i].hit = answers[c.of[last]].hit
             /\ \A k \in 1..last - 1 : answers[c.of[k]].hit = (c.is = "all")
             /\ answers[c.of[last]].raised \/ answers[c.of[last]].hit = (c.is = "any") \/ last = Len(c.of)
      <4>1. \A k \in 1..i - 1 : answers[k].hit \in BOOLEAN
        BY <3>2, <3>3
      <4>2. detection[i].is \in {"all", "any"}
        BY <2>2
      <4> QED BY <4>1, <4>2, CombinationIs
    <3>5. CASE c.is = "any"
      <4>1. c.of[last] \in needing /\ c.of[last] \in 1..i - 1
        BY <3>1, <3>5
      <4> HIDE DEF answers
      <4> QED BY <1>2, <3>4, <4>1
    <3>6. CASE c.is = "all"
      <4>1. PICK k \in 1..Len(c.of) : c.of[k] \in needing
        BY <3>1, <3>6
      <4> HIDE DEF answers
      <4>2. ~answers[c.of[k]].hit
        BY <1>2, <3>1, <4>1
      <4>3. ~(k \in 1..last - 1)
        BY <3>4, <3>6, <4>2
      <4>4. k = last \/ last # Len(c.of)
        BY <3>1, <4>3
      <4>5. c.of[last] \in 1..n
        BY <3>1, <3>3
      <4> QED BY <3>2, <3>4, <3>6, <4>2, <4>4, <4>5
    <3> QED BY <2>2, <3>5, <3>6
  <2> QED BY <2>1, <2>2
<1> HIDE DEF answers
<1>3. \A m \in 0..n : m \in good
  <2>1. ASSUME NEW m \in 0..n, \A k \in 0..n : k < m => k \in good
        PROVE  m \in good
    <3>1. \A k \in 1..m - 1 : k \in 0..n /\ k < m
      BY <1>1
    <3> QED BY <1>2, <2>1, <3>1
  <2> HIDE DEF good, n
  <2> QED BY <1>1, <2>1, CountingUp
<1> QED BY <1>1, <1>3 DEF answers

LEMMA ClearedByVersion ==
    (\A rule \in ThePolicy.rules : NeedsVersion(rule.detection)) /\ ScanInv => ClearedOnVersionOnly
<1> DEFINE hidden == [facts EXCEPT !.banner.version = Unversioned]
           own == ApplyChangelog(facts, Matches(ThePolicy, facts))
<1> SUFFICES ASSUME \A rule \in ThePolicy.rules : NeedsVersion(rule.detection),
                    ScanInv, Analysed, NEW m \in result.matches, m.patched
             PROVE  \E rule \in ThePolicy.rules :
                       /\ m.id = rule.id
                       /\ Evaluate(ThePolicy, facts, rule.detection).hit
                       /\ ~Evaluate(ThePolicy, hidden, rule.detection).hit
  BY DEF ClearedOnVersionOnly
<1>1. hidden.banner.version = Unversioned
  <2>1. case \in Cases /\ facts.banner = server.banner
    BY DEF ScanInv, InOrder, ServerStands
  <2>2. "version" \in DOMAIN facts.banner
    BY <2>1, TargetScanAssumption DEF server
  <2>3. "banner" \in DOMAIN facts
    BY DEF ScanInv, FactsAre
  <2> QED BY <2>2, <2>3
<1>2. result.matches = own \cup PluginMatches(said)
  <2> HIDE DEF own
  <2> QED BY DEF ScanInv, ResultFollows, Concluded, own
<1>3. m \in own
  <2>1. \A x \in PluginMatches(said) : ~x.patched
    <3> TAKE x \in PluginMatches(said)
    <3>1. \E p, severity, undetermined, needs : x = PluginMatch(p, severity, undetermined, needs)
      BY DEF PluginMatches
    <3> QED BY <3>1 DEF PluginMatch, Match, Answer
  <2> QED BY <1>2, <2>1
<1>4. PICK rule \in ThePolicy.rules : \E x \in MatchesOf(ThePolicy, facts, rule) : m = Patches(facts, x)
  BY <1>3 DEF ApplyChangelog, Matches
<1> PICK x \in MatchesOf(ThePolicy, facts, rule) : m = Patches(facts, x)
  BY <1>4
<1>5. m.id = rule.id /\ x.version
  <2>1. DOMAIN x = {"id", "severity", "evidence", "version", "undetermined", "patched", "needs"}
        /\ x.id = rule.id
    BY MatchesAre
  <2> QED BY <1>4, <2>1 DEF Patches
<1>6. /\ Evaluate(ThePolicy, facts, rule.detection).hit
      /\ Evaluate(ThePolicy, facts, rule.detection).version
  BY <1>5, MatchesAre
<1>7. IsDetection(rule.detection) /\ NeedsVersion(rule.detection)
  BY TargetScanAssumption
<1>8. \E i \in DOMAIN rule.detection : rule.detection[i].is = "version"
  BY <1>6, <1>7, LastIs, VersionWasAsked
<1>9. ~Evaluate(ThePolicy, hidden, rule.detection).hit
  <2> DEFINE d == rule.detection
  <2>1. DOMAIN d = 1..Len(d)
    BY <1>7, DetectionIs
  <2>2. PICK needing \in SUBSET DOMAIN d :
           /\ Len(d) \in needing
           /\ \A i \in needing :
                 LET c == d[i]
                 IN \/ c.is = "version"
                    \/ c.is = "any" /\ \A k \in DOMAIN c.of : c.of[k] \in needing
                    \/ c.is = "all" /\ \E k \in DOMAIN c.of : c.of[k] \in needing
    BY <1>7, <1>8 DEF NeedsVersion
  <2> HIDE DEF hidden, d
  <2>3. IsDetection(d)
    BY <1>7 DEF d
  <2>4. \A i \in needing : ~Answers(ThePolicy, hidden, d)[i].hit
    BY <1>1, <2>1, <2>2, <2>3, NoVersionNoHit
  <2>5. Evaluate(ThePolicy, hidden, d) = Answers(ThePolicy, hidden, d)[Len(d)]
    BY DEF Evaluate
  <2> QED BY <2>2, <2>4, <2>5 DEF d
<1> QED BY <1>5, <1>6, <1>9

\* What the package changelog clears is a finding that a server hiding its
\* version would not have had (_apply_changelog in analysis.py), for a policy
\* whose rules cannot hold without the version once they ask about it, as those
\* of the shipped policy cannot: a changelog cannot un-offer an algorithm.
THEOREM ClearedIsVersioned ==
    ASSUME \A rule \in ThePolicy.rules : NeedsVersion(rule.detection)
    PROVE  Spec => []ClearedOnVersionOnly
<1>1. ScanInv => ClearedOnVersionOnly
  BY ClearedByVersion
<1> QED BY <1>1, ScanHolds, PTL

-----------------------------------------------------------------------------
(* Categories, score and grade                                             *)

LEMMA RanksAre ==
    /\ Scored = {"recommended", "acceptable", "weak", "insecure"}
    /\ Rank("recommended") = 1 /\ Rank("acceptable") = 2 /\ Rank("weak") = 3 /\ Rank("insecure") = 4
    /\ \A category \in Scored : CategoryOrder[Rank(category)] = category
<1>1. DOMAIN CategoryOrder = 1..4
  BY DEF CategoryOrder
<1>2. /\ CategoryOrder[1] = "recommended" /\ CategoryOrder[2] = "acceptable"
      /\ CategoryOrder[3] = "weak" /\ CategoryOrder[4] = "insecure"
  BY DEF CategoryOrder
<1>3. Scored = {"recommended", "acceptable", "weak", "insecure"}
  BY <1>1, <1>2 DEF Scored
<1>4. Rank("recommended") = 1
  BY <1>1, <1>2 DEF Rank
<1>5. Rank("acceptable") = 2
  BY <1>1, <1>2 DEF Rank
<1>6. Rank("weak") = 3
  BY <1>1, <1>2 DEF Rank
<1>7. Rank("insecure") = 4
  BY <1>1, <1>2 DEF Rank
<1> QED BY <1>2, <1>3, <1>4, <1>5, <1>6, <1>7

LEMMA WorstIs ==
    ASSUME NEW categories \in SUBSET Scored, categories # {}
    PROVE  /\ Worst(categories) \in categories
           /\ \A c \in categories : Rank(c) <= Rank(Worst(categories))
<1> DEFINE ranks == {Rank(c) : c \in categories}
<1>1. ranks \in SUBSET (1..4) /\ ranks # {}
  BY RanksAre
<1>2. Max(ranks) \in ranks /\ \A r \in ranks : r <= Max(ranks)
  <2> HIDE DEF ranks
  <2>1. \E m \in ranks : \A r \in ranks : m >= r
    <3>1. CASE 4 \in ranks
      BY <1>1, <3>1
    <3>2. CASE 4 \notin ranks /\ 3 \in ranks
      BY <1>1, <3>2
    <3>3. CASE 4 \notin ranks /\ 3 \notin ranks /\ 2 \in ranks
      BY <1>1, <3>3
    <3>4. CASE 4 \notin ranks /\ 3 \notin ranks /\ 2 \notin ranks
      <4>1. \A r \in ranks : r = 1
        BY <1>1, <3>4
      <4>2. \A r, s \in ranks : r >= s
        BY <4>1
      <4> QED BY <1>1, <4>2
    <3> QED BY <3>1, <3>2, <3>3, <3>4
  <2>2. Max(ranks) \in ranks /\ \A r \in ranks : Max(ranks) >= r
    BY <2>1 DEF Max
  <2> QED BY <1>1, <2>2
<1>3. PICK c \in categories : Max(ranks) = Rank(c)
  BY <1>2
<1>4. Worst(categories) = c
  BY <1>3, RanksAre DEF Worst
<1> QED BY <1>2, <1>3, <1>4

\* The categories of what is offered and counts, and the worst of them.
Offered(policy, seen) ==
    (UNION {Categories(policy, seen, class) : class \in DOMAIN seen.offers}) \cap Scored

LEMMA OfferedIs ==
    ASSUME NEW policy, NEW seen
    PROVE  /\ Offered(policy, seen) \subseteq Scored
           /\ \A class \in DOMAIN seen.offers : \A name \in ScoredNames(policy, seen, class) :
                 Category(policy, class, name) \in Offered(policy, seen)
           /\ \A c \in Offered(policy, seen) : \E class \in DOMAIN seen.offers :
                 \E name \in ScoredNames(policy, seen, class) : c = Category(policy, class, name)
<1> DEFINE sets == {Categories(policy, seen, class) : class \in DOMAIN seen.offers}
<1>1. Offered(policy, seen) = (UNION sets) \cap Scored
  BY DEF Offered
<1>2. \A c : c \in UNION sets <=> \E class \in DOMAIN seen.offers : c \in Categories(policy, seen, class)
  OBVIOUS
<1> HIDE DEF sets
<1>3. \A c : c \in Offered(policy, seen) <=>
               c \in Scored /\ \E class \in DOMAIN seen.offers : c \in Categories(policy, seen, class)
  BY <1>1, <1>2
<1>4. \A class, name : /\ name \in ScoredNames(policy, seen, class) <=>
                              name \in seen.offers[class] /\ Category(policy, class, name) \in Scored
  BY DEF ScoredNames
<1>5. \A class, c : c \in Categories(policy, seen, class) <=>
                       \E name \in seen.offers[class] : c = Category(policy, class, name)
  BY DEF Categories
<1> HIDE DEF Offered
<1> QED BY <1>3, <1>4, <1>5

LEMMA WorstOfferedIs ==
    ASSUME NEW policy, NEW seen
    PROVE  /\ Offered(policy, seen) = {} => WorstCategory(policy, seen) = "none"
           /\ Offered(policy, seen) # {} =>
                 /\ WorstCategory(policy, seen) \in Offered(policy, seen)
                 /\ \A c \in Offered(policy, seen) : Rank(c) <= Rank(WorstCategory(policy, seen))
<1> DEFINE all == Offered(policy, seen)
<1>1. all \in SUBSET Scored
  BY OfferedIs
<1>2. WorstCategory(policy, seen) = IF all = {} THEN "none" ELSE Worst(all)
  BY DEF WorstCategory, Offered
<1> HIDE DEF all
<1> QED BY <1>1, <1>2, WorstIs DEF all

\* A class that counts is worth what one of its categories is.
LEMMA ClassScoreIs ==
    ASSUME NEW policy, NEW seen, IsScale(policy), NEW class \in Weighed(policy, seen)
    PROVE  \E c \in Offered(policy, seen) : ClassScore(policy, seen, class) = policy.scores[c]
<1> DEFINE scored == ScoredNames(policy, seen, class)
           worth == {policy.scores[Category(policy, class, name)] : name \in scored}
<1>1. class \in DOMAIN seen.offers /\ ClassScore(policy, seen, class) # None
  BY DEF Weighed
<1>2. scored # {} /\ ClassScore(policy, seen, class) = Min(worth)
  BY <1>1 DEF ClassScore
<1>3. \A name \in scored : /\ Category(policy, class, name) \in Offered(policy, seen)
                           /\ policy.scores[Category(policy, class, name)] \in Nat
  <2> TAKE name \in scored
  <2>1. Category(policy, class, name) \in Offered(policy, seen) /\ Category(policy, class, name) \in Scored
    BY <1>1, OfferedIs
  <2>2. policy.scores[Category(policy, class, name)] \in 0..100
    BY <2>1 DEF IsScale
  <2> QED BY <2>1, <2>2
<1>4. worth \in SUBSET Nat /\ worth # {}
  BY <1>2, <1>3
<1>5. Min(worth) \in worth
  <2> HIDE DEF worth
  <2> QED BY <1>4, MinIs
<1> QED BY <1>2, <1>3, <1>5

LEMMA RoundIs ==
    ASSUME NEW n \in Int, NEW d \in Nat \ {0}, NEW a \in Int
    PROVE  /\ Round(n, d) \in Int
           /\ n >= a * d => Round(n, d) >= a
           /\ n <= a * d => Round(n, d) <= a
<1> DEFINE q == n \div d
           r == n % d
<1>1. q \in Int /\ r \in Int /\ 0 <= r /\ r < d
  OBVIOUS
<1>2. n >= a * d => q >= a
  OBVIOUS
<1>3. n <= a * d => q < a \/ (q = a /\ r = 0)
  OBVIOUS
<1>4. Round(n, d) = IF 2 * r > d \/ (2 * r = d /\ q % 2 = 1) THEN q + 1 ELSE q
  BY DEF Round
<1> HIDE DEF q, r
<1>5. Round(n, d) \in {q, q + 1}
  BY <1>4
<1>6. r = 0 => Round(n, d) = q
  BY <1>1, <1>4
<1> QED BY <1>1, <1>2, <1>3, <1>5, <1>6

\* What is offered, as a scan reads it under a policy.
IsOffer(policy, seen) ==
    IsFiniteSet(DOMAIN seen.offers) /\ DOMAIN seen.offers \subseteq DOMAIN policy.weights

LEMMA TotalIs ==
    ASSUME NEW policy, NEW seen, IsScale(policy), IsOffer(policy, seen)
    PROVE  /\ TotalWeight(policy, seen) \in Nat
           /\ TotalWeight(policy, seen) # 0 => Offered(policy, seen) # {}
<1> DEFINE f == [class \in Weighed(policy, seen) |-> policy.weights[class]]
           zero == [class \in Weighed(policy, seen) |-> 0]
<1>1. IsFiniteSet(Weighed(policy, seen))
  BY FS_Subset DEF Weighed, IsOffer
<1>2. \A class \in Weighed(policy, seen) : policy.weights[class] \in Nat
  BY DEF Weighed, IsOffer, IsScale
<1>3. \A x \in DOMAIN f : f[x] \in Int /\ f[x] >= 0 * f[x]
  BY <1>2
<1>4. TotalWeight(policy, seen) = SumFunction(f)
  BY DEF TotalWeight
<1>5. IsFiniteSet(DOMAIN f)
  BY <1>1
<1>6. SumFunction(f) \in Int /\ SumFunction(f) >= 0 * SumFunction(f)
  <2> HIDE DEF f
  <2> QED BY <1>3, <1>5, SumsCompare
<1>7. Weighed(policy, seen) = {} => SumFunction(f) = 0
  <2> SUFFICES ASSUME Weighed(policy, seen) = {} PROVE SumFunction(f) = 0
    OBVIOUS
  <2>1. DOMAIN f = {}
    OBVIOUS
  <2> HIDE DEF f
  <2>2. PICK sum : SumFunction(f) = sum[DOMAIN f] /\ \A s \in SUBSET DOMAIN f : sum[s] = SumAt(f, sum, s)
    BY <1>5, SumIs
  <2> QED BY <2>1, <2>2 DEF SumAt
<1>8. Weighed(policy, seen) # {} => Offered(policy, seen) # {}
  BY ClassScoreIs
<1> HIDE DEF f
<1> QED BY <1>4, <1>6, <1>7, <1>8

\* Before anything is taken off, the score is that of the categories offered.
LEMMA BaseScoreIs ==
    ASSUME NEW policy, NEW seen, IsScale(policy), IsOffer(policy, seen),
           TotalWeight(policy, seen) # 0, NEW a \in Int
    PROVE  LET base == Round(Worth(policy, seen), TotalWeight(policy, seen))
           IN /\ base \in Int
              /\ (\A c \in Offered(policy, seen) : policy.scores[c] >= a) => base >= a
              /\ (\A c \in Offered(policy, seen) : policy.scores[c] <= a) => base <= a
<1> DEFINE classes == Weighed(policy, seen)
           g == [class \in classes |-> policy.weights[class]]
           f == [class \in classes |-> policy.weights[class] * ClassScore(policy, seen, class)]
<1>1. IsFiniteSet(classes)
  BY FS_Subset DEF Weighed, IsOffer
<1>2. ASSUME NEW class \in classes
      PROVE  /\ g[class] \in Nat /\ f[class] \in Int
             /\ (\A c \in Offered(policy, seen) : policy.scores[c] >= a) => f[class] >= a * g[class]
             /\ (\A c \in Offered(policy, seen) : policy.scores[c] <= a) => f[class] <= a * g[class]
  <2>1. policy.weights[class] \in Nat
    BY DEF Weighed, IsOffer, IsScale
  <2>2. PICK c \in Offered(policy, seen) : ClassScore(policy, seen, class) = policy.scores[c]
    BY ClassScoreIs
  <2>3. policy.scores[c] \in Nat
    <3>1. c \in Scored
      BY OfferedIs
    <3>2. policy.scores[c] \in 0..100
      BY <3>1 DEF IsScale
    <3> QED BY <3>2
  <2>4. g[class] = policy.weights[class] /\ f[class] = policy.weights[class] * policy.scores[c]
    BY <2>2
  <2> HIDE DEF classes, f, g
  <2>5. \A w, s \in Nat : /\ w * s \in Int
                          /\ s >= a => w * s >= a * w
                          /\ s <= a => w * s <= a * w
    OBVIOUS
  <2> QED BY <2>1, <2>3, <2>4, <2>5
<1>3. DOMAIN f = classes /\ DOMAIN g = classes
  OBVIOUS
<1>4. Worth(policy, seen) = SumFunction(f) /\ TotalWeight(policy, seen) = SumFunction(g)
  BY DEF Worth, TotalWeight
<1> HIDE DEF f, g, classes
<1>5. /\ SumFunction(f) \in Int
      /\ (\A c \in Offered(policy, seen) : policy.scores[c] >= a) => SumFunction(f) >= a * SumFunction(g)
      /\ (\A c \in Offered(policy, seen) : policy.scores[c] <= a) => SumFunction(f) <= a * SumFunction(g)
  <2>1. \A x \in DOMAIN f : f[x] \in Int /\ g[x] \in Int
    BY <1>2, <1>3
  <2> QED BY <1>1, <1>2, <1>3, <2>1, SumsCompare
<1>6. SumFunction(g) \in Nat \ {0}
  BY <1>4, TotalIs
<1> QED BY <1>4, <1>5, <1>6, RoundIs

\* The flags, and what they cost.
LEMMA PointsAre ==
    ASSUME NEW policy, NEW seen, IsScale(policy)
    PROVE  /\ Points(policy, seen) \in Int /\ Points(policy, seen) <= 0
           /\ \A flag \in Flags(policy, seen) :
                 Cost(policy, flag) \in Int /\ Points(policy, seen) <= Cost(policy, flag)
           /\ \A a, b, c : a # b /\ a # c /\ b # c /\ Flags(policy, seen) \subseteq {a, b, c} =>
                 Points(policy, seen) =
                    (IF a \in Flags(policy, seen) THEN Cost(policy, a) ELSE 0)
                    + (IF b \in Flags(policy, seen) THEN Cost(policy, b) ELSE 0)
                    + (IF c \in Flags(policy, seen) THEN Cost(policy, c) ELSE 0)
<1> DEFINE flags == Flags(policy, seen)
           f == [flag \in flags |-> policy.points[flag]]
<1>1. flags \subseteq DOMAIN policy.points
      /\ flags \subseteq {"missing_strict_kex", "no_post_quantum_kex", "host_key_below_minimum",
                          "host_key_below_recommended", "dh_group_below_minimum"}
  BY DEF Flags
<1>2. IsFiniteSet({"missing_strict_kex", "no_post_quantum_kex", "host_key_below_minimum",
                   "host_key_below_recommended", "dh_group_below_minimum"})
  <2>1. IsFiniteSet({"missing_strict_kex"})
    BY FS_Singleton
  <2>2. IsFiniteSet({"missing_strict_kex"} \cup {"no_post_quantum_kex"})
    BY <2>1, FS_AddElement
  <2>3. IsFiniteSet(({"missing_strict_kex"} \cup {"no_post_quantum_kex"}) \cup {"host_key_below_minimum"})
    BY <2>2, FS_AddElement
  <2>4. IsFiniteSet((({"missing_strict_kex"} \cup {"no_post_quantum_kex"}) \cup {"host_key_below_minimum"})
                    \cup {"host_key_below_recommended"})
    BY <2>3, FS_AddElement
  <2>5. IsFiniteSet(((({"missing_strict_kex"} \cup {"no_post_quantum_kex"}) \cup {"host_key_below_minimum"})
                     \cup {"host_key_below_recommended"}) \cup {"dh_group_below_minimum"})
    BY <2>4, FS_AddElement
  <2>6. ((({"missing_strict_kex"} \cup {"no_post_quantum_kex"}) \cup {"host_key_below_minimum"})
         \cup {"host_key_below_recommended"}) \cup {"dh_group_below_minimum"}
        = {"missing_strict_kex", "no_post_quantum_kex", "host_key_below_minimum",
           "host_key_below_recommended", "dh_group_below_minimum"}
    OBVIOUS
  <2> QED BY <2>5, <2>6
<1>3. IsFiniteSet(flags)
  <2> HIDE DEF flags
  <2> QED BY <1>1, <1>2, FS_Subset
<1>4. Points(policy, seen) = SumFunction(f) /\ DOMAIN f = flags
  BY DEF Points
<1>5. \A flag \in flags : f[flag] = Cost(policy, flag) /\ f[flag] \in Int /\ f[flag] <= 0
  <2> HIDE DEF flags
  <2> QED BY <1>1 DEF Cost, IsScale
<1> HIDE DEF f, flags
<1>6. /\ SumFunction(f) \in Int /\ SumFunction(f) <= 0
      /\ \A flag \in flags : SumFunction(f) <= f[flag]
  BY <1>3, <1>4, <1>5, SumOfCosts
<1>7. ASSUME NEW a, NEW b, NEW c, a # b, a # c, b # c, flags \subseteq {a, b, c}
      PROVE  SumFunction(f) = (IF a \in flags THEN Cost(policy, a) ELSE 0)
                              + (IF b \in flags THEN Cost(policy, b) ELSE 0)
                              + (IF c \in flags THEN Cost(policy, c) ELSE 0)
  <2>1. SumFunction(f) = (IF a \in DOMAIN f THEN f[a] ELSE 0) + (IF b \in DOMAIN f THEN f[b] ELSE 0)
                         + (IF c \in DOMAIN f THEN f[c] ELSE 0)
    BY <1>4, <1>5, <1>7, SumOfThree
  <2> QED BY <1>4, <1>5, <2>1
<1>8. /\ Points(policy, seen) \in Int /\ Points(policy, seen) <= 0
      /\ \A flag \in flags : Cost(policy, flag) \in Int /\ Points(policy, seen) <= Cost(policy, flag)
  BY <1>4, <1>5, <1>6
<1>9. \A a, b, c : a # b /\ a # c /\ b # c /\ flags \subseteq {a, b, c} =>
         Points(policy, seen) = (IF a \in flags THEN Cost(policy, a) ELSE 0)
                                + (IF b \in flags THEN Cost(policy, b) ELSE 0)
                                + (IF c \in flags THEN Cost(policy, c) ELSE 0)
  BY <1>4, <1>7
<1> QED BY <1>8, <1>9 DEF flags

\* The score keeps within its bounds, and is otherwise what it adds up to.
LEMMA FinalScoreIs ==
    ASSUME NEW policy, NEW seen, IsScale(policy), IsOffer(policy, seen),
           TotalWeight(policy, seen) # 0
    PROVE  LET sum == Round(Worth(policy, seen), TotalWeight(policy, seen)) + Points(policy, seen)
           IN /\ sum \in Int /\ FinalScore(policy, seen) \in 0..100
              /\ \A a \in Int : a <= 100 /\ sum >= a => FinalScore(policy, seen) >= a
              /\ FinalScore(policy, seen) <= sum \/ FinalScore(policy, seen) = 0
<1> DEFINE base == Round(Worth(policy, seen), TotalWeight(policy, seen))
           sum == base + Points(policy, seen)
<1>1. base \in Int /\ Points(policy, seen) \in Int
  BY BaseScoreIs, PointsAre
<1>2. FinalScore(policy, seen) = Max({0, Min({100, sum})})
  BY DEF FinalScore
<1>3. sum \in Int
  BY <1>1
<1> HIDE DEF sum, base
<1>4. /\ Min({100, sum}) \in {100, sum}
      /\ Min({100, sum}) <= 100 /\ Min({100, sum}) <= sum
  <2>1. \E m \in {100, sum} : \A y \in {100, sum} : m <= y
    BY <1>3
  <2> QED BY <2>1 DEF Min
<1> DEFINE least == Min({100, sum})
<1> HIDE DEF least
<1>5. /\ Max({0, least}) \in {0, least}
      /\ Max({0, least}) >= 0 /\ Max({0, least}) >= least
  <2>1. \E m \in {0, least} : \A y \in {0, least} : m >= y
    BY <1>3, <1>4 DEF least
  <2> QED BY <2>1 DEF Max
<1>6. /\ Max({0, least}) \in 0..100
      /\ \A a \in Int : a <= 100 /\ sum >= a => Max({0, least}) >= a
      /\ Max({0, least}) <= sum \/ Max({0, least}) = 0
  BY <1>3, <1>4, <1>5 DEF least
<1> QED BY <1>2, <1>3, <1>6 DEF least, sum, base

Names(policy) == {policy.grades[i].grade : i \in DOMAIN policy.grades}

LEMMA LadderIs ==
    ASSUME NEW policy, IsScale(policy)
    PROVE  /\ Len(policy.grades) \in Nat \ {0} /\ DOMAIN policy.grades = 1..Len(policy.grades)
           /\ \A grade \in Names(policy) : /\ Place(policy, grade) \in 1..Len(policy.grades)
                                           /\ policy.grades[Place(policy, grade)].grade = grade
<1>1. Len(policy.grades) \in Nat \ {0} /\ DOMAIN policy.grades = 1..Len(policy.grades)
  BY LenProperties, EmptySeq DEF IsScale
<1>2. ASSUME NEW grade \in Names(policy)
      PROVE  /\ Place(policy, grade) \in 1..Len(policy.grades)
             /\ policy.grades[Place(policy, grade)].grade = grade
  <2> DEFINE places == {i \in DOMAIN policy.grades : policy.grades[i].grade = grade}
  <2>1. places \in SUBSET Nat /\ places # {}
    BY <1>1 DEF Names
  <2>2. Min(places) \in places
    <3> HIDE DEF places
    <3> QED BY <2>1, MinIs
  <2> QED BY <1>1, <2>2 DEF Place
<1> QED BY <1>1, <1>2

\* What reaches a rung that asks for nothing else gets that grade or a better.
LEMMA EarnedIs ==
    ASSUME NEW policy, IsScale(policy), NEW s \in Int, NEW good, Earns(policy, s, good),
           NEW score \in Int, score >= s, NEW capabilities
    PROVE  GradeFor(policy, score, capabilities) \in good
<1> DEFINE earned == {i \in DOMAIN policy.grades :
                        score >= policy.grades[i].min /\ policy.grades[i].requires \subseteq capabilities}
<1>1. PICK i \in DOMAIN policy.grades :
         /\ policy.grades[i].min <= s /\ policy.grades[i].requires = {}
         /\ \A j \in 1..i : policy.grades[j].grade \in good
  BY DEF Earns
<1>2. i \in earned
  BY <1>1 DEF IsScale
<1>3. earned \in SUBSET Nat /\ DOMAIN policy.grades = 1..Len(policy.grades)
  BY LadderIs
<1>4. Min(earned) \in earned /\ Min(earned) <= i
  <2> HIDE DEF earned
  <2> QED BY <1>2, <1>3, MinIs
<1>5. Min(earned) \in 1..i
  <2>1. Min(earned) \in DOMAIN policy.grades
    BY <1>4
  <2> HIDE DEF earned
  <2> QED BY <1>3, <1>4, <2>1, LadderIs
<1>6. GradeFor(policy, score, capabilities) = policy.grades[Min(earned)].grade
  BY <1>2 DEF GradeFor
<1> HIDE DEF earned
<1> QED BY <1>1, <1>5, <1>6

\* What is earned at all is on the ladder, and what it asks for is there.
LEMMA GradeForIs ==
    ASSUME NEW policy, IsScale(policy), NEW score \in Int, NEW capabilities
    PROVE  \E i \in 1..Len(policy.grades) :
              /\ GradeFor(policy, score, capabilities) = policy.grades[i].grade
              /\ \/ i = Len(policy.grades)
                 \/ score >= policy.grades[i].min /\ policy.grades[i].requires \subseteq capabilities
<1> DEFINE earned == {i \in DOMAIN policy.grades :
                        score >= policy.grades[i].min /\ policy.grades[i].requires \subseteq capabilities}
<1>1. earned \in SUBSET Nat /\ DOMAIN policy.grades = 1..Len(policy.grades)
      /\ Len(policy.grades) \in 1..Len(policy.grades)
  BY LadderIs
<1>2. earned # {} => Min(earned) \in earned
  <2> HIDE DEF earned
  <2> QED BY <1>1, MinIs
<1>3. GradeFor(policy, score, capabilities) =
         policy.grades[IF earned = {} THEN Len(policy.grades) ELSE Min(earned)].grade
  BY DEF GradeFor
<1>4. CASE earned = {}
  <2> HIDE DEF earned
  <2> QED BY <1>1, <1>3, <1>4
<1>5. CASE earned # {}
  <2>1. /\ Min(earned) \in 1..Len(policy.grades) /\ score >= policy.grades[Min(earned)].min
        /\ policy.grades[Min(earned)].requires \subseteq capabilities
    BY <1>1, <1>2, <1>5
  <2> HIDE DEF earned
  <2> QED BY <1>3, <1>5, <2>1
<1> QED BY <1>4, <1>5

\* The caps, one after the other.
CapAt(policy, grade, applying, capped, i) ==
    IF i = 0 THEN grade
    ELSE IF policy.caps[i] \in applying THEN CapGrade(policy, capped[i - 1], policy.caps[i].max)
    ELSE capped[i - 1]

LEMMA CapsAre ==
    ASSUME NEW policy, IsScale(policy), NEW grade, NEW applying
    PROVE  \E capped : /\ Capped(policy, grade, applying) = capped[Len(policy.caps)]
                       /\ \A i \in 0..Len(policy.caps) :
                             capped[i] = CapAt(policy, grade, applying, capped, i)
<1> DEFINE n == Len(policy.caps)
           At(g, i) == CapAt(policy, grade, applying, g, i)
           good == {m \in 0..n : \E g : g = [i \in 0..m |-> At(g, i)]}
<1>1. n \in Nat
  BY LenProperties DEF IsScale
<1>2. ASSUME NEW m \in 0..n, \A k \in 0..n : k < m => k \in good
      PROVE  m \in good
  <2>1. CASE m = 0
    <3> DEFINE h == [i \in 0..m |-> grade]
    <3>1. \A i \in 0..m : At(h, i) = grade
      BY <2>1 DEF CapAt
    <3>2. h = [i \in 0..m |-> At(h, i)]
      <4> HIDE DEF At
      <4> QED BY <3>1
    <3> HIDE DEF h, At
    <3> QED BY <3>2
  <2>2. CASE m # 0
    <3>1. m - 1 \in 0..n /\ m - 1 < m
      BY <1>1, <2>2
    <3>2. PICK g : g = [i \in 0..m - 1 |-> At(g, i)]
      BY <1>2, <3>1
    <3> DEFINE h == [i \in 0..m |-> At(g, i)]
    <3>3. \A i \in 0..m - 1 : h[i] = g[i]
      <4> HIDE DEF At
      <4>1. \A i \in 0..m - 1 : i \in 0..m
        BY <3>1
      <4> QED BY <3>2, <4>1
    <3>4. \A i \in 0..m : At(h, i) = At(g, i)
      <4> TAKE i \in 0..m
      <4>1. i # 0 => i - 1 \in 0..m - 1
        BY <1>1
      <4> HIDE DEF h
      <4> QED BY <3>3, <4>1 DEF CapAt
    <3>5. h = [i \in 0..m |-> At(h, i)]
      <4> HIDE DEF At
      <4> QED BY <3>4
    <3> HIDE DEF h, At
    <3> QED BY <3>5
  <2> QED BY <2>1, <2>2
<1>3. n \in good
  <2> HIDE DEF good
  <2>1. \A m \in 0..n : m \in good
    <3> HIDE DEF n
    <3> QED BY <1>1, <1>2, CountingUp
  <2> QED BY <1>1, <2>1
<1>4. \E g : g = [i \in 0..n |-> At(g, i)]
  BY <1>3
<1> DEFINE capped == CHOOSE g : g = [i \in 0..n |-> At(g, i)]
<1>5. capped = [i \in 0..n |-> At(capped, i)]
  <2> HIDE DEF At, n
  <2> QED BY <1>4
<1>6. Capped(policy, grade, applying) = capped[n]
  BY DEF Capped, CapAt
<1> HIDE DEF capped
<1>7. \A i \in 0..n : capped[i] = At(capped, i)
  <2> HIDE DEF At, n
  <2> QED BY <1>5
<1> QED BY <1>6, <1>7

\* The caps leave what none of them is for, and otherwise only go down.
LEMMA CappedIs ==
    ASSUME NEW policy, IsScale(policy), NEW grade \in Names(policy),
           NEW applying \in SUBSET Range(policy.caps)
    PROVE  /\ applying = {} => Capped(policy, grade, applying) = grade
           /\ Capped(policy, grade, applying) \in Names(policy)
           /\ Place(policy, Capped(policy, grade, applying)) >= Place(policy, grade)
           /\ \A cap \in applying :
                 Place(policy, Capped(policy, grade, applying)) >= Place(policy, cap.max)
<1> DEFINE n == Len(policy.caps)
<1>1. n \in Nat /\ DOMAIN policy.caps = 1..n
  BY LenProperties DEF IsScale
<1>2. PICK capped : /\ Capped(policy, grade, applying) = capped[n]
                    /\ \A i \in 0..n : capped[i] = CapAt(policy, grade, applying, capped, i)
  BY CapsAre
<1> DEFINE good == {m \in 0..n :
                      /\ applying = {} => capped[m] = grade
                      /\ capped[m] \in Names(policy)
                      /\ Place(policy, capped[m]) >= Place(policy, grade)
                      /\ \A k \in 1..m : policy.caps[k] \in applying =>
                            Place(policy, capped[m]) >= Place(policy, policy.caps[k].max)}
<1>3. \A g \in Names(policy) : Place(policy, g) \in Nat
  BY LadderIs
<1>4. \A k \in 1..n : policy.caps[k].max \in Names(policy)
  BY <1>1 DEF IsScale, Names, Range
<1>5. ASSUME NEW m \in 0..n, \A k \in 0..n : k < m => k \in good
      PROVE  m \in good
  <2>1. CASE m = 0
    <3>1. capped[m] = grade
      BY <1>2, <2>1 DEF CapAt
    <3> QED BY <1>3, <2>1, <3>1
  <2>2. CASE m # 0
    <3> DEFINE cap == policy.caps[m]
    <3>1. m - 1 \in 0..n /\ m - 1 < m /\ m \in 1..n
      BY <1>1, <2>2
    <3>2. /\ applying = {} => capped[m - 1] = grade
          /\ capped[m - 1] \in Names(policy)
          /\ Place(policy, capped[m - 1]) >= Place(policy, grade)
          /\ \A k \in 1..m - 1 : policy.caps[k] \in applying =>
                Place(policy, capped[m - 1]) >= Place(policy, policy.caps[k].max)
      BY <1>5, <3>1
    <3>3. capped[m] = IF cap \in applying THEN CapGrade(policy, capped[m - 1], cap.max)
                      ELSE capped[m - 1]
      BY <1>2, <2>2 DEF CapAt
    <3>4. cap.max \in Names(policy)
      BY <1>4, <3>1
    <3>5. capped[m] \in Names(policy) /\ Place(policy, capped[m]) >= Place(policy, capped[m - 1])
          /\ (cap \in applying => Place(policy, capped[m]) >= Place(policy, cap.max))
      <4>1. CASE cap \notin applying
        BY <1>3, <3>2, <3>3, <4>1
      <4>2. CASE cap \in applying /\ Place(policy, capped[m - 1]) >= Place(policy, cap.max)
        BY <1>3, <3>2, <3>3, <4>2 DEF CapGrade
      <4>3. CASE cap \in applying /\ ~(Place(policy, capped[m - 1]) >= Place(policy, cap.max))
        BY <1>3, <3>2, <3>3, <3>4, <4>3 DEF CapGrade
      <4> QED BY <4>1, <4>2, <4>3
    <3>6. ASSUME NEW k \in 1..m, policy.caps[k] \in applying
          PROVE  Place(policy, capped[m]) >= Place(policy, policy.caps[k].max)
      <4>1. k = m \/ k \in 1..m - 1
        BY <3>1
      <4>2. k \in 1..n
        BY <1>1, <3>1
      <4> HIDE DEF good
      <4>3. CASE k = m
        BY <3>5, <3>6, <4>3
      <4>4. CASE k \in 1..m - 1
        <5>1. /\ Place(policy, capped[m]) \in Int /\ Place(policy, capped[m - 1]) \in Int
              /\ Place(policy, policy.caps[k].max) \in Int
          BY <1>3, <1>4, <3>2, <3>5, <4>2
        <5>2. Place(policy, capped[m - 1]) >= Place(policy, policy.caps[k].max)
          BY <3>2, <3>6, <4>4
        <5> QED BY <3>5, <5>1, <5>2
      <4> QED BY <4>1, <4>3, <4>4
    <3>7. Place(policy, capped[m]) >= Place(policy, grade)
      <4> HIDE DEF good
      <4> QED BY <1>3, <3>2, <3>5
    <3>8. applying = {} => capped[m] = grade
      BY <3>2, <3>3
    <3> QED BY <3>5, <3>6, <3>7, <3>8
  <2> QED BY <2>1, <2>2
<1>6. n \in good
  <2> HIDE DEF good
  <2>1. \A m \in 0..n : m \in good
    <3> HIDE DEF n
    <3> QED BY <1>1, <1>5, CountingUp
  <2> QED BY <1>1, <2>1
<1>7. \A cap \in applying : \E k \in 1..n : policy.caps[k] = cap
  BY <1>1 DEF Range
<1> QED BY <1>2, <1>6, <1>7

\* A flag is up for what it is named for.
LEMMA FlagsAre ==
    ASSUME NEW policy, NEW seen
    PROVE  /\ Flags(policy, seen) \subseteq
                 {"missing_strict_kex", "no_post_quantum_kex", "host_key_below_minimum",
                  "host_key_below_recommended", "dh_group_below_minimum"}
           /\ "missing_strict_kex" \in Flags(policy, seen) => ~StrictKex(seen) /\ policy.requireStrict
           /\ "no_post_quantum_kex" \in Flags(policy, seen) => PostQuantumStatus(policy, seen) = "not_ready"
           /\ "host_key_below_minimum" \in Flags(policy, seen) => KeyBelowMinimum(policy, seen)
           /\ "host_key_below_recommended" \in Flags(policy, seen) => KeyBelowRecommended(policy, seen)
           /\ "dh_group_below_minimum" \in Flags(policy, seen) => WeakGroup(policy, seen)
           /\ "dh_group_below_minimum" \in DOMAIN policy.points /\ WeakGroup(policy, seen) =>
                 "dh_group_below_minimum" \in Flags(policy, seen)
BY DEF Flags

\* What the flags take off is no more than each of three costs.
LEMMA FlagsCost ==
    ASSUME NEW policy, NEW seen, IsScale(policy), NEW a, NEW b, NEW c, a # b, a # c, b # c,
           Flags(policy, seen) \subseteq {a, b, c}
    PROVE  /\ Cost(policy, a) \in Int /\ Cost(policy, b) \in Int /\ Cost(policy, c) \in Int
           /\ Cost(policy, a) <= 0 /\ Cost(policy, b) <= 0 /\ Cost(policy, c) <= 0
           /\ Points(policy, seen) >= Cost(policy, a) + Cost(policy, b) + Cost(policy, c)
<1>1. \A flag : Cost(policy, flag) \in Int /\ Cost(policy, flag) <= 0
  BY DEF Cost, IsScale
<1>2. Points(policy, seen) = (IF a \in Flags(policy, seen) THEN Cost(policy, a) ELSE 0)
                             + (IF b \in Flags(policy, seen) THEN Cost(policy, b) ELSE 0)
                             + (IF c \in Flags(policy, seen) THEN Cost(policy, c) ELSE 0)
  BY PointsAre
<1> QED BY <1>1, <1>2

\* No cap is for a server without weak algorithms, keys and serious matches.
LEMMA NoCapIs ==
    ASSUME NEW policy, NEW seen, NEW matches, IsScale(policy),
           WorstCategory(policy, seen) \notin {"weak", "insecure"}, ~KeyBelowMinimum(policy, seen),
           ~\E m \in matches : m.severity \in {"critical", "high"} /\ ~m.undetermined
    PROVE  CapsThatApply(policy, seen, matches) = {}
<1>1. \A severities, measured :
         severities \subseteq {"critical", "high"} => ~Confirmed(matches, severities, measured)
  BY DEF Confirmed
<1>2. /\ ~Confirmed(matches, {"critical"}, FALSE) /\ ~Confirmed(matches, {"critical"}, TRUE)
      /\ ~Confirmed(matches, {"critical", "high"}, FALSE)
  BY <1>1
<1>3. \A when \in Whens : ~CapApplies(policy, seen, matches, when)
  BY <1>2 DEF Whens, CapApplies
<1>4. \A cap \in Range(policy.caps) : cap.when \in Whens
  BY DEF IsScale
<1> QED BY <1>3, <1>4 DEF CapsThatApply

LEMMA GradeIs ==
    ASSUME NEW policy, NEW seen, NEW matches, IsScale(policy), IsOffer(policy, seen),
           TotalWeight(policy, seen) # 0
    PROVE  LET earned == GradeFor(policy, FinalScore(policy, seen), Capabilities(policy, seen))
               applying == CapsThatApply(policy, seen, matches)
               grade == Grade(policy, seen, matches)
           IN /\ earned \in Names(policy) /\ grade \in Names(policy)
              /\ applying = {} => grade = earned
              /\ Place(policy, grade) >= Place(policy, earned)
              /\ \A cap \in applying : Place(policy, grade) >= Place(policy, cap.max)
<1> DEFINE earned == GradeFor(policy, FinalScore(policy, seen), Capabilities(policy, seen))
           applying == CapsThatApply(policy, seen, matches)
<1>1. FinalScore(policy, seen) \in Int
  BY FinalScoreIs
<1>2. earned \in Names(policy)
  <2> DEFINE score == FinalScore(policy, seen)
             capabilities == Capabilities(policy, seen)
  <2>1. score \in Int
    BY <1>1
  <2> HIDE DEF score, capabilities
  <2>2. \E i \in 1..Len(policy.grades) : GradeFor(policy, score, capabilities) = policy.grades[i].grade
    BY <2>1, GradeForIs
  <2>3. DOMAIN policy.grades = 1..Len(policy.grades)
    BY LadderIs
  <2>4. GradeFor(policy, score, capabilities) \in Names(policy)
    BY <2>2, <2>3 DEF Names
  <2> QED BY <2>4 DEF score, capabilities
<1>3. applying \in SUBSET Range(policy.caps)
  BY DEF CapsThatApply
<1>4. Grade(policy, seen, matches) = Capped(policy, earned, applying)
  BY DEF Grade
<1> HIDE DEF earned, applying
<1>5. /\ applying = {} => Capped(policy, earned, applying) = earned
      /\ Capped(policy, earned, applying) \in Names(policy)
      /\ Place(policy, Capped(policy, earned, applying)) >= Place(policy, earned)
      /\ \A cap \in applying : Place(policy, Capped(policy, earned, applying)) >= Place(policy, cap.max)
  BY <1>2, <1>3, CappedIs
<1> QED BY <1>2, <1>4, <1>5 DEF earned, applying

\* What is offered is good enough for a rung, and nothing caps it.
LEMMA GradeIsEarned ==
    ASSUME NEW policy, NEW seen, NEW matches, IsScale(policy), IsOffer(policy, seen),
           TotalWeight(policy, seen) # 0, CapsThatApply(policy, seen, matches) = {},
           NEW a \in Int, \A c \in Offered(policy, seen) : policy.scores[c] >= a,
           NEW s \in Int, s <= 100, s <= a + Points(policy, seen), NEW good, Earns(policy, s, good)
    PROVE  Grade(policy, seen, matches) \in good
<1> DEFINE base == Round(Worth(policy, seen), TotalWeight(policy, seen))
<1>1. base \in Int /\ base >= a
  BY BaseScoreIs
<1>2. Points(policy, seen) \in Int
  BY PointsAre
<1>3. /\ FinalScore(policy, seen) \in 0..100
      /\ \A b \in Int : b <= 100 /\ base + Points(policy, seen) >= b => FinalScore(policy, seen) >= b
  BY FinalScoreIs
<1> HIDE DEF base
<1>4. FinalScore(policy, seen) \in Int /\ FinalScore(policy, seen) >= s
  BY <1>1, <1>2, <1>3
<1>5. GradeFor(policy, FinalScore(policy, seen), Capabilities(policy, seen)) \in good
  BY <1>4, EarnedIs
<1> QED BY <1>5, GradeIs

\* What stands behind each word of the verdict.
LEMMA VerdictIs ==
    ASSUME NEW policy, NEW seen, NEW matches
    PROVE  LET worst == WorstCategory(policy, seen)
               verdict == Verdict(policy, seen, matches)
               serious == \E m \in matches : m.severity \in {"critical", "high"} /\ ~m.undetermined
               behind == KeyBelowMinimum(policy, seen) \/ WeakGroup(policy, seen) \/ serious
           IN /\ verdict \in {"insecure", "weak", "secure", "acceptable"}
              /\ verdict = "insecure" <=> worst = "insecure"
              /\ verdict = "weak" <=> worst # "insecure" /\ (worst = "weak" \/ behind)
              /\ verdict = "secure" => /\ worst = "recommended" /\ ~KeyBelowRecommended(policy, seen)
                                       /\ StrictKex(seen) \/ ~policy.requireStrict
<1> DEFINE serious == \E m \in matches : m.severity \in {"critical", "high"} /\ ~m.undetermined
<1>1. Verdict(policy, seen, matches) =
         CASE WorstCategory(policy, seen) = "insecure" -> "insecure"
           [] \/ WorstCategory(policy, seen) = "weak"
              \/ /\ WorstCategory(policy, seen) # "insecure"
                 /\ KeyBelowMinimum(policy, seen) \/ WeakGroup(policy, seen) \/ serious
                -> "weak"
           [] /\ WorstCategory(policy, seen) = "recommended" /\ ~serious
              /\ ~KeyBelowMinimum(policy, seen) /\ ~WeakGroup(policy, seen)
              /\ ~KeyBelowRecommended(policy, seen)
              /\ StrictKex(seen) \/ ~policy.requireStrict
                -> "secure"
           [] OTHER -> "acceptable"
  BY DEF Verdict
<1> HIDE DEF serious
<1> DEFINE worst == WorstCategory(policy, seen)
           low == KeyBelowMinimum(policy, seen)
           group == WeakGroup(policy, seen)
           sound == /\ ~KeyBelowRecommended(policy, seen)
                    /\ StrictKex(seen) \/ ~policy.requireStrict
<1>2. Verdict(policy, seen, matches) =
         CASE worst = "insecure" -> "insecure"
           [] worst = "weak" \/ (worst # "insecure" /\ (low \/ group \/ serious)) -> "weak"
           [] worst = "recommended" /\ ~serious /\ ~low /\ ~group /\ sound -> "secure"
           [] OTHER -> "acceptable"
  BY <1>1
<1>3. /\ Verdict(policy, seen, matches) \in {"insecure", "weak", "secure", "acceptable"}
      /\ Verdict(policy, seen, matches) = "insecure" <=> worst = "insecure"
      /\ Verdict(policy, seen, matches) = "weak"
            <=> worst # "insecure" /\ (worst = "weak" \/ (low \/ group \/ serious))
      /\ Verdict(policy, seen, matches) = "secure" => worst = "recommended" /\ sound
  <2> HIDE DEF worst, low, group, sound
  <2> QED BY <1>2
<1> QED BY <1>3 DEF serious

LEMMA OffersAre ==
    ASSUME NEW policy, NEW seen, IsScale(policy), IsOffer(policy, seen), TotalWeight(policy, seen) # 0
    PROVE  /\ WorstCategory(policy, seen) \in Scored
           /\ WorstCategory(policy, seen) = "recommended" =>
                 \A c \in Offered(policy, seen) : policy.scores[c] >= policy.scores["recommended"]
           /\ WorstCategory(policy, seen) \in {"recommended", "acceptable"} =>
                 \A c \in Offered(policy, seen) : policy.scores[c] >= policy.scores["acceptable"]
<1>1. /\ WorstCategory(policy, seen) \in Offered(policy, seen) /\ Offered(policy, seen) \subseteq Scored
      /\ \A c \in Offered(policy, seen) : Rank(c) <= Rank(WorstCategory(policy, seen))
  BY TotalIs, WorstOfferedIs, OfferedIs
<1>2. WorstCategory(policy, seen) = "recommended" => \A c \in Offered(policy, seen) : c = "recommended"
  BY <1>1, RanksAre
<1>3. WorstCategory(policy, seen) \in {"recommended", "acceptable"} =>
         \A c \in Offered(policy, seen) : c \in {"recommended", "acceptable"}
  BY <1>1, RanksAre
<1>4. policy.scores["recommended"] \in 0..100 /\ policy.scores["acceptable"] \in 0..100
      /\ policy.scores["acceptable"] <= policy.scores["recommended"]
  BY RanksAre DEF IsScale
<1> QED BY <1>1, <1>2, <1>3, <1>4

\* A secure server has an A or an A+.
LEMMA SecureIsGraded ==
    ASSUME NEW policy, NEW seen, NEW matches, LadderAgrees(policy), IsOffer(policy, seen),
           TotalWeight(policy, seen) # 0, Verdict(policy, seen, matches) = "secure"
    PROVE  Grade(policy, seen, matches) \in {"A+", "A"}
<1> DEFINE a == policy.scores["recommended"]
           s == a + Cost(policy, "no_post_quantum_kex")
<1>1. IsScale(policy) /\ Earns(policy, s, {"A+", "A"})
  BY DEF LadderAgrees
<1>2. /\ WorstCategory(policy, seen) = "recommended" /\ ~KeyBelowRecommended(policy, seen)
      /\ StrictKex(seen) \/ ~policy.requireStrict
      /\ ~KeyBelowMinimum(policy, seen) /\ ~WeakGroup(policy, seen)
      /\ ~\E m \in matches : m.severity \in {"critical", "high"} /\ ~m.undetermined
  BY VerdictIs
<1>3. CapsThatApply(policy, seen, matches) = {}
  BY <1>1, <1>2, NoCapIs
<1>4. Flags(policy, seen) \subseteq {"no_post_quantum_kex", "none", "nothing"}
  BY <1>2, FlagsAre
<1>5. Points(policy, seen) \in Int /\ Cost(policy, "no_post_quantum_kex") \in Int
      /\ Cost(policy, "no_post_quantum_kex") <= 0 /\ Points(policy, seen) >= Cost(policy, "no_post_quantum_kex")
  <2>1. Points(policy, seen) =
           (IF "no_post_quantum_kex" \in Flags(policy, seen) THEN Cost(policy, "no_post_quantum_kex") ELSE 0)
           + (IF "none" \in Flags(policy, seen) THEN Cost(policy, "none") ELSE 0)
           + (IF "nothing" \in Flags(policy, seen) THEN Cost(policy, "nothing") ELSE 0)
    BY <1>1, <1>4, PointsAre
  <2>2. "none" \notin Flags(policy, seen) /\ "nothing" \notin Flags(policy, seen)
    BY FlagsAre
  <2>3. Cost(policy, "no_post_quantum_kex") \in Int /\ Cost(policy, "no_post_quantum_kex") <= 0
    BY <1>1, <1>4, FlagsCost
  <2> QED BY <2>1, <2>2, <2>3
<1>6. a \in Int /\ a <= 100
  <2>1. a \in 0..100
    BY <1>1, RanksAre DEF IsScale
  <2> QED BY <2>1
<1>7. \A c \in Offered(policy, seen) : policy.scores[c] >= a
  BY <1>1, <1>2, OffersAre
<1>8. s \in Int /\ s <= 100 /\ s <= a + Points(policy, seen)
  <2> HIDE DEF a
  <2> QED BY <1>5, <1>6
<1> HIDE DEF a, s
<1> QED BY <1>1, <1>3, <1>6, <1>7, <1>8, GradeIsEarned

\* A server that is called better than weak is above F.
LEMMA BetterIsGraded ==
    ASSUME NEW policy, NEW seen, NEW matches, LadderAgrees(policy), IsOffer(policy, seen),
           TotalWeight(policy, seen) # 0, Verdict(policy, seen, matches) \notin {"weak", "insecure"}
    PROVE  Grade(policy, seen, matches) # "F"
<1> DEFINE a == policy.scores["acceptable"]
           cost == Cost(policy, "missing_strict_kex") + Cost(policy, "no_post_quantum_kex")
                   + Cost(policy, "host_key_below_recommended")
           s == a + cost
           good == {policy.grades[i].grade : i \in DOMAIN policy.grades} \ {"F"}
<1>1. IsScale(policy) /\ Earns(policy, s, good)
  BY DEF LadderAgrees
<1>2. /\ WorstCategory(policy, seen) \notin {"weak", "insecure"}
      /\ ~KeyBelowMinimum(policy, seen) /\ ~WeakGroup(policy, seen)
      /\ ~\E m \in matches : m.severity \in {"critical", "high"} /\ ~m.undetermined
  BY VerdictIs
<1>3. CapsThatApply(policy, seen, matches) = {}
  BY <1>1, <1>2, NoCapIs
<1>4. Flags(policy, seen) \subseteq
         {"missing_strict_kex", "no_post_quantum_kex", "host_key_below_recommended"}
  BY <1>2, FlagsAre
<1>5. Points(policy, seen) \in Int /\ cost \in Int /\ cost <= 0 /\ Points(policy, seen) >= cost
  <2>1. Points(policy, seen) \in Int
    BY <1>1, PointsAre
  <2> QED BY <1>1, <1>4, <2>1, FlagsCost
<1>6. a \in Int /\ a <= 100
  <2>1. a \in 0..100
    BY <1>1, RanksAre DEF IsScale
  <2> QED BY <2>1
<1>7. \A c \in Offered(policy, seen) : policy.scores[c] >= a
  <2>1. WorstCategory(policy, seen) \in {"recommended", "acceptable"}
    BY <1>1, <1>2, OffersAre, RanksAre
  <2> QED BY <1>1, <2>1, OffersAre
<1>8. s \in Int /\ s <= 100 /\ s <= a + Points(policy, seen)
  <2> HIDE DEF a, cost
  <2> QED BY <1>5, <1>6
<1>9. "F" \notin good
  OBVIOUS
<1> HIDE DEF a, s, cost, good
<1>10. Grade(policy, seen, matches) \in good
  BY <1>1, <1>3, <1>6, <1>7, <1>8, GradeIsEarned
<1> QED BY <1>9, <1>10

\* An insecure server has an F.
LEMMA InsecureIsGraded ==
    ASSUME NEW policy, NEW seen, NEW matches, LadderAgrees(policy), IsOffer(policy, seen),
           TotalWeight(policy, seen) # 0, Verdict(policy, seen, matches) = "insecure"
    PROVE  Grade(policy, seen, matches) = "F"
<1> DEFINE grade == Grade(policy, seen, matches)
           n == Len(policy.grades)
<1>1. /\ IsScale(policy)
      /\ \A i \in DOMAIN policy.grades : policy.grades[i].grade = "F" <=> i = n
  BY DEF LadderAgrees
<1>2. PICK cap \in Range(policy.caps) : cap.when = "any_insecure_algorithm" /\ cap.max = "F"
  BY DEF LadderAgrees
<1>3. WorstCategory(policy, seen) = "insecure"
  BY VerdictIs
<1>4. CapApplies(policy, seen, matches, "any_insecure_algorithm")
  BY <1>3 DEF CapApplies
<1>5. cap \in CapsThatApply(policy, seen, matches)
  BY <1>2, <1>4 DEF CapsThatApply
<1>6. grade \in Names(policy) /\ Place(policy, grade) >= Place(policy, "F")
  BY <1>1, <1>2, <1>5, GradeIs
<1>7. /\ n \in Nat \ {0} /\ DOMAIN policy.grades = 1..n
      /\ \A g \in Names(policy) : Place(policy, g) \in 1..n /\ policy.grades[Place(policy, g)].grade = g
  BY <1>1, LadderIs
<1> HIDE DEF grade, n
<1>8. "F" \in Names(policy)
  BY <1>1, <1>7 DEF Names
<1>9. Place(policy, "F") = n
  BY <1>1, <1>7, <1>8
<1>10. Place(policy, grade) = n
  BY <1>6, <1>7, <1>9
<1>11. grade = "F"
  BY <1>1, <1>6, <1>7, <1>10
<1> QED BY <1>11 DEF grade

\* The top grade keeps from weak all but what the changelog clears.
LEMMA TopIsGraded ==
    ASSUME NEW policy, NEW seen, NEW matches, LadderAgrees(policy), IsOffer(policy, seen),
           TotalWeight(policy, seen) # 0, Grade(policy, seen, matches) = "A+",
           NEW m \in matches, m.severity \in {"critical", "high"}, ~m.undetermined
    PROVE  m.patched
<1> DEFINE when == "any_high_vulnerability"
<1>1. IsScale(policy) /\ \A i \in DOMAIN policy.grades : policy.grades[i].grade = "A+" <=> i = 1
  BY DEF LadderAgrees
<1>2. PICK cap \in Range(policy.caps) : cap.when = "any_high_vulnerability" /\ cap.max # "A+"
  BY DEF LadderAgrees
<1>3. SUFFICES ASSUME ~m.patched PROVE FALSE
  OBVIOUS
<1>4. Confirmed(matches, {"critical", "high"}, FALSE)
  BY <1>3 DEF Confirmed
<1>5. cap \in CapsThatApply(policy, seen, matches)
  BY <1>2, <1>4 DEF CapsThatApply, CapApplies
<1>6. "A+" \in Names(policy) /\ Place(policy, "A+") >= Place(policy, cap.max)
  BY <1>1, <1>5, GradeIs
<1>7. cap.max \in Names(policy)
  BY <1>1, <1>2 DEF IsScale, Names
<1>8. /\ DOMAIN policy.grades = 1..Len(policy.grades) /\ Len(policy.grades) \in Nat \ {0}
      /\ \A g \in Names(policy) : /\ Place(policy, g) \in 1..Len(policy.grades)
                                    /\ policy.grades[Place(policy, g)].grade = g
  BY <1>1, LadderIs
<1>9. Place(policy, "A+") = 1
  BY <1>1, <1>6, <1>8
<1>10. Place(policy, cap.max) = 1
  BY <1>6, <1>7, <1>8, <1>9
<1> QED BY <1>2, <1>6, <1>7, <1>8, <1>9, <1>10

-----------------------------------------------------------------------------
(* What grades                                                             *)

\* Only what is settled counts, for the caps and for the verdict.
LEMMA SettledMatchesGrade ==
    ASSUME NEW policy, NEW seen, NEW matches, NEW others, others \subseteq matches,
           \A m \in matches \ others : m.undetermined
    PROVE  /\ Grade(policy, seen, matches) = Grade(policy, seen, others)
           /\ Verdict(policy, seen, matches) = Verdict(policy, seen, others)
<1>1. \A severities, measured :
         Confirmed(matches, severities, measured) = Confirmed(others, severities, measured)
  BY DEF Confirmed
<1>2. \A when : CapApplies(policy, seen, matches, when) = CapApplies(policy, seen, others, when)
  BY <1>1 DEF CapApplies
<1>3. CapsThatApply(policy, seen, matches) = CapsThatApply(policy, seen, others)
  BY <1>2 DEF CapsThatApply
<1>4. (\E m \in matches : m.severity \in {"critical", "high"} /\ ~m.undetermined)
         <=> (\E m \in others : m.severity \in {"critical", "high"} /\ ~m.undetermined)
  OBVIOUS
<1>5. Grade(policy, seen, matches) = Grade(policy, seen, others)
  BY <1>3 DEF Grade
<1>6. Verdict(policy, seen, matches) = Verdict(policy, seen, others)
  BY <1>4 DEF Verdict
<1> QED BY <1>5, <1>6

LEMMA ChecksAreNoGrade == ScanInv => ChecksNeverGrade
<1> DEFINE own == ApplyChangelog(facts, Matches(ThePolicy, facts))
           checked(m) == \E p \in Plugins : p.id = m.id /\ p.kind = "check"
           all == own \cup PluginMatches(said)
           others == own \cup {m \in PluginMatches(said) : ~checked(m)}
<1> SUFFICES ASSUME ScanInv, Analysed, result.grade # "none"
             PROVE  /\ result.grade = Grade(ThePolicy, facts, others)
                    /\ result.verdict = Verdict(ThePolicy, facts, others)
  BY DEF ChecksNeverGrade
<1>1. result = Concluded(all, PluginFindings(said))
  BY DEF ScanInv, ResultFollows
<1>2. /\ result.grade = Grade(ThePolicy, facts, all)
      /\ result.verdict = Verdict(ThePolicy, facts, all)
  <2> HIDE DEF all
  <2> QED BY <1>1 DEF Concluded
<1>3. ASSUME NEW m \in PluginMatches(said), checked(m)
      PROVE  m.undetermined
  <2>1. PICK q \in Plugins : q.id = m.id /\ q.kind = "check"
    BY <1>3
  <2>2. PICK p \in Plugins :
           \/ \E needs : m = PluginMatch(p, "info", TRUE, needs)
           \/ p.kind = "vulnerability" /\ \E severity : m = PluginMatch(p, severity, FALSE, {})
    BY DEF PluginMatches
  <2>3. CASE \E needs : m = PluginMatch(p, "info", TRUE, needs)
    BY <2>3 DEF PluginMatch, Match, Answer
  <2>4. CASE p.kind = "vulnerability" /\ \E severity : m = PluginMatch(p, severity, FALSE, {})
    <3>1. m.id = p.id
      BY <2>4 DEF PluginMatch, Match, Answer
    <3>2. p = q
      BY <2>1, <3>1, TargetScanAssumption
    <3> QED BY <2>1, <2>4, <3>2
  <2> QED BY <2>2, <2>3, <2>4
<1>4. others \subseteq all /\ \A m \in all \ others : m.undetermined
  <2> HIDE DEF checked
  <2> QED BY <1>3
<1> HIDE DEF all, others
<1> QED BY <1>2, <1>4, SettledMatchesGrade

\* What a check reports never moves the grade or the verdict (run in
\* plugins/runner.py, _confirmed in assessment.py): a plugin has one identifier,
\* and of a check only what is not settled is among the matches.
THEOREM ChecksGradeNothing == Spec => []ChecksNeverGrade
<1> QED BY ScanHolds, ChecksAreNoGrade, PTL

-----------------------------------------------------------------------------
(* The word, the letter and what is reported                               *)

\* What is not settled is of no consequence.
LEMMA UnsettledAre ==
    ASSUME ScanInv, Analysed, NEW m \in result.matches, m.undetermined
    PROVE  m.severity = "info"
<1>1. m \in ApplyChangelog(facts, Matches(ThePolicy, facts)) \/ m \in PluginMatches(said)
  BY DEF ScanInv, ResultFollows, Concluded
<1>2. CASE m \in ApplyChangelog(facts, Matches(ThePolicy, facts))
  <2>1. PICK found \in Matches(ThePolicy, facts) : m = Patches(facts, found)
    BY <1>2 DEF ApplyChangelog
  <2>2. PICK rule \in ThePolicy.rules : found \in MatchesOf(ThePolicy, facts, rule)
    BY <2>1 DEF Matches
  <2>3. DOMAIN found = {"id", "severity", "evidence", "version", "undetermined", "patched", "needs"}
    BY <2>2, MatchesAre
  <2>4. m.severity = found.severity /\ m.undetermined = found.undetermined
    BY <2>1, <2>3 DEF Patches
  <2> DEFINE a == Evaluate(ThePolicy, facts, rule.detection)
  <2>5. CASE a.raised
    <3>1. found = Match(rule.id, "info", Answer(FALSE), FALSE)
      BY <2>2, <2>5 DEF MatchesOf
    <3> QED BY <2>4, <3>1 DEF Match
  <2>6. CASE ~a.raised /\ a.hit
    <3>1. found = Match(rule.id, rule.severity, [a EXCEPT !.missing = {}], FALSE)
      BY <2>2, <2>6 DEF MatchesOf
    <3>2. ~found.undetermined
      BY <3>1 DEF Match
    <3> QED BY <2>4, <3>2
  <2>7. CASE ~a.raised /\ ~a.hit /\ a.missing # {}
    <3>1. found = Match(rule.id, "info", [Answer(FALSE) EXCEPT !.missing = a.missing], TRUE)
      BY <2>2, <2>7 DEF MatchesOf
    <3> QED BY <2>4, <3>1 DEF Match
  <2>8. CASE ~a.raised /\ ~a.hit /\ a.missing = {}
    BY <2>2, <2>8 DEF MatchesOf
  <2> QED BY <2>5, <2>6, <2>7, <2>8
<1>3. CASE m \in PluginMatches(said)
  <2>1. PICK p \in Plugins : \/ \E needs : m = PluginMatch(p, "info", TRUE, needs)
                             \/ \E severity : m = PluginMatch(p, severity, FALSE, {})
    BY <1>3 DEF PluginMatches
  <2> QED BY <2>1 DEF PluginMatch, Match, Answer
<1> QED BY <1>1, <1>2, <1>3

\* What a scan that came to its analysis concludes.
LEMMA ConclusionIs ==
    ASSUME ScanInv, Analysed
    PROVE  LET graded == TotalWeight(ThePolicy, facts) # 0
           IN /\ IsOffer(ThePolicy, facts)
              /\ result.grade = IF graded THEN Grade(ThePolicy, facts, result.matches) ELSE "none"
              /\ result.verdict = IF graded THEN Verdict(ThePolicy, facts, result.matches) ELSE "unknown"
<1>1. PICK matches, findings : result = Concluded(matches, findings)
  BY DEF ScanInv, ResultFollows
<1>2. facts.offers = server.offers /\ case \in Cases
  BY DEF ScanInv, ServerStands, InOrder
<1>3. IsOffer(ThePolicy, facts)
  BY <1>2, TargetScanAssumption DEF IsOffer, server
<1>4. /\ result.matches = matches
      /\ result.grade = IF TotalWeight(ThePolicy, facts) # 0
                        THEN Grade(ThePolicy, facts, matches) ELSE "none"
      /\ result.verdict = IF TotalWeight(ThePolicy, facts) # 0
                          THEN Verdict(ThePolicy, facts, matches) ELSE "unknown"
  BY <1>1 DEF Concluded
<1> QED BY <1>3, <1>4

LEMMA WordsAreGrades ==
    ASSUME LadderAgrees(ThePolicy), ScanInv PROVE WordAndGradeAgree
<1> SUFFICES ASSUME Analysed
             PROVE  /\ result.verdict = "secure" => result.grade \in {"A+", "A"}
                    /\ result.verdict = "insecure" => result.grade = "F"
                    /\ result.grade = "F" => result.verdict \in {"weak", "insecure"}
                    /\ result.grade = "A+" /\ result.verdict = "weak" =>
                          \A m \in result.matches : m.severity \in {"critical", "high"} => m.patched
                    /\ (result.grade = "none") = (result.verdict = "unknown")
  BY DEF WordAndGradeAgree
<1>1. IsScale(ThePolicy) /\ IsOffer(ThePolicy, facts)
  BY ConclusionIs DEF LadderAgrees
<1>2. CASE TotalWeight(ThePolicy, facts) = 0
  <2>1. result.grade = "none" /\ result.verdict = "unknown"
    BY <1>2, ConclusionIs
  <2> QED BY <2>1
<1>3. CASE TotalWeight(ThePolicy, facts) # 0
  <2>1. /\ result.grade = Grade(ThePolicy, facts, result.matches)
        /\ result.verdict = Verdict(ThePolicy, facts, result.matches)
    BY <1>3, ConclusionIs
  <2>2. result.verdict = "secure" => result.grade \in {"A+", "A"}
    BY <1>1, <1>3, <2>1, SecureIsGraded
  <2>3. result.verdict = "insecure" => result.grade = "F"
    BY <1>1, <1>3, <2>1, InsecureIsGraded
  <2>4. result.grade = "F" => result.verdict \in {"weak", "insecure"}
    BY <1>1, <1>3, <2>1, BetterIsGraded
  <2>5. ASSUME result.grade = "A+", NEW m \in result.matches, m.severity \in {"critical", "high"}
        PROVE  m.patched
    <3>1. ~m.undetermined
      BY <2>5, UnsettledAre
    <3> QED BY <1>1, <1>3, <2>1, <2>5, <3>1, TopIsGraded
  <2>6. result.grade # "none" /\ result.verdict # "unknown"
    <3>1. Grade(ThePolicy, facts, result.matches) \in Names(ThePolicy)
      BY <1>1, <1>3, GradeIs
    <3>2. result.grade # "none"
      BY <1>1, <2>1, <3>1 DEF Names, IsScale
    <3> QED BY <2>1, <3>2, VerdictIs
  <2> QED BY <2>2, <2>3, <2>4, <2>5, <2>6
<1> QED BY <1>2, <1>3

\* The word and the letter at the top of a report agree (_verdict_for and
\* _apply_grade_caps in assessment.py), under every policy whose ladder and caps
\* agree with its scores, as those of the shipped one do.
THEOREM WordsAndGradesAgree ==
    ASSUME LadderAgrees(ThePolicy) PROVE Spec => []WordAndGradeAgree
<1>1. ScanInv => WordAndGradeAgree
  BY WordsAreGrades
<1> QED BY <1>1, ScanHolds, PTL

LEMMA FindingsAreReported ==
    ASSUME ScanInv, Analysed,
           NEW id \in ConfigFindings(ThePolicy, facts.config) \cup NetworkFindings(ThePolicy, facts, local)
    PROVE  id \in Reported
<1>1. PICK matches, findings : result = Concluded(matches, findings)
  BY DEF ScanInv, ResultFollows
<1> DEFINE ids == ConfigFindings(ThePolicy, facts.config) \cup NetworkFindings(ThePolicy, facts, local)
           f == [id |-> id, severity |-> "built-in"]
<1>2. result.findings = VulnerabilityFindings(matches) \cup findings
                           \cup {[id |-> i, severity |-> "built-in"] : i \in ids}
  BY <1>1 DEF Concluded
<1>3. id \in ids
  OBVIOUS
<1> HIDE DEF ids
<1>4. f \in result.findings /\ f.severity = "built-in" /\ f.id = id
  BY <1>2, <1>3
<1> HIDE DEF f
<1> QED BY <1>4 DEF Reported

LEMMA NetworkFindingsAre ==
    ASSUME NEW policy, NEW seen, NEW comparison
    PROVE  /\ \A class \in DOMAIN seen.offers :
                 AlgorithmFindings(policy, seen, class) \subseteq NetworkFindings(policy, seen, comparison)
           /\ ProtocolFindings(policy, seen) \subseteq NetworkFindings(policy, seen, comparison)
           /\ HostKeyFindings(policy, seen) \subseteq NetworkFindings(policy, seen, comparison)
<1> DEFINE algorithms == UNION {AlgorithmFindings(policy, seen, class) : class \in DOMAIN seen.offers}
<1>1. \A class \in DOMAIN seen.offers : AlgorithmFindings(policy, seen, class) \subseteq algorithms
  OBVIOUS
<1>2. NetworkFindings(policy, seen, comparison) =
         algorithms \cup ProtocolFindings(policy, seen) \cup HostKeyFindings(policy, seen)
         \cup AuthFindings(policy, seen.auth) \cup CapacityFindings(seen)
         \cup SshfpFindings(seen.sshfp, seen.validated) \cup KnownHostsFindings(comparison)
         \cup ClientFindings(policy, seen.client)
  BY DEF NetworkFindings
<1> HIDE DEF algorithms
<1> QED BY <1>1, <1>2

\* What makes the keys or the groups weak has a finding of its own.
LEMMA KeysAreShown ==
    ASSUME NEW policy, NEW seen
    PROVE  /\ KeyBelowMinimum(policy, seen) => "host-key-too-small" \in HostKeyFindings(policy, seen)
           /\ KeyBelowRecommended(policy, seen) => "host-key-small" \in HostKeyFindings(policy, seen)
           /\ WeakGroup(policy, seen) => "weak-dh-group" \in HostKeyFindings(policy, seen)
<1>1. KeyBelowMinimum(policy, seen) => "host-key-too-small" \in HostKeyFindings(policy, seen)
  BY DEF KeyBelowMinimum, KeysRead, HostKeyFindings
<1>2. KeyBelowRecommended(policy, seen) => "host-key-small" \in HostKeyFindings(policy, seen)
  BY DEF KeyBelowRecommended, KeysRead, HostKeyFindings
<1>3. WeakGroup(policy, seen) => "weak-dh-group" \in HostKeyFindings(policy, seen)
  BY DEF WeakGroup, KeysRead, HostKeyFindings
<1> QED BY <1>1, <1>2, <1>3

\* Whatever takes points off has a finding.
LEMMA FlagsAreShown ==
    ASSUME NEW policy, NEW seen, NEW comparison, NEW flag \in Flags(policy, seen)
    PROVE  PenaltyFinding[flag] \in NetworkFindings(policy, seen, comparison)
<1>1. CASE flag = "missing_strict_kex"
  <2>1. "no-strict-kex" \in ProtocolFindings(policy, seen)
    BY <1>1, FlagsAre DEF ProtocolFindings
  <2> QED BY <1>1, <2>1, NetworkFindingsAre DEF PenaltyFinding
<1>2. CASE flag = "no_post_quantum_kex"
  <2>1. PostQuantumStatus(policy, seen) = "not_ready"
    BY <1>2, FlagsAre
  <2>2. "no-post-quantum-kex" \in ProtocolFindings(policy, seen)
    BY <2>1 DEF ProtocolFindings
  <2> QED BY <1>2, <2>2, NetworkFindingsAre DEF PenaltyFinding
<1>3. CASE flag = "host_key_below_minimum"
  BY <1>3, FlagsAre, KeysAreShown, NetworkFindingsAre DEF PenaltyFinding
<1>4. CASE flag = "host_key_below_recommended"
  BY <1>4, FlagsAre, KeysAreShown, NetworkFindingsAre DEF PenaltyFinding
<1>5. CASE flag = "dh_group_below_minimum"
  BY <1>5, FlagsAre, KeysAreShown, NetworkFindingsAre DEF PenaltyFinding
<1> QED BY <1>1, <1>2, <1>3, <1>4, <1>5, FlagsAre

\* The worst of what is offered has a finding when it is weak or insecure.
LEMMA WorstIsShown ==
    ASSUME NEW policy, NEW seen, NEW comparison, WorstCategory(policy, seen) \in {"weak", "insecure"}
    PROVE  \E class \in DOMAIN seen.offers :
              WorstCategory(policy, seen) \o "-" \o class \in NetworkFindings(policy, seen, comparison)
<1> DEFINE worst == WorstCategory(policy, seen)
<1>1. worst \in Offered(policy, seen)
  BY WorstOfferedIs
<1>2. PICK class \in DOMAIN seen.offers :
         \E name \in ScoredNames(policy, seen, class) : worst = Category(policy, class, name)
  BY <1>1, OfferedIs
<1>3. worst \in Categories(policy, seen, class)
  BY <1>2 DEF ScoredNames, Categories
<1>4. worst \in {"weak", "insecure"}
  OBVIOUS
<1> HIDE DEF worst
<1>5. worst \o "-" \o class \in AlgorithmFindings(policy, seen, class)
  BY <1>3, <1>4 DEF AlgorithmFindings
<1>6. worst \o "-" \o class \in NetworkFindings(policy, seen, comparison)
  BY <1>5, NetworkFindingsAre
<1> QED BY <1>6 DEF worst

LEMMA VerdictIsExplained ==
    ASSUME LadderAgrees(ThePolicy), ScanInv PROVE ReportExplains
<1> DEFINE serious == \E m \in result.matches : m.severity \in {"critical", "high"} /\ ~m.undetermined
<1> SUFFICES ASSUME Analysed, result.grade # "none"
             PROVE  /\ \A flag \in Flags(ThePolicy, facts) : PenaltyFinding[flag] \in Reported
                    /\ result.verdict = "insecure" => Reported \cap Offenders("insecure") # {}
                    /\ result.verdict = "weak" =>
                          serious \/ Reported \cap (Offenders("weak") \cup {"host-key-too-small", "weak-dh-group"}) # {}
                    /\ result.grade = "F" /\ ~serious =>
                          Reported \cap (Offenders("insecure") \cup Offenders("weak") \cup Range(PenaltyFinding)) # {}
  BY DEF ReportExplains
<1>1. /\ TotalWeight(ThePolicy, facts) # 0 /\ IsOffer(ThePolicy, facts)
      /\ result.grade = Grade(ThePolicy, facts, result.matches)
      /\ result.verdict = Verdict(ThePolicy, facts, result.matches)
  BY ConclusionIs
<1> DEFINE low == KeyBelowMinimum(ThePolicy, facts)
           group == WeakGroup(ThePolicy, facts)
           worst == WorstCategory(ThePolicy, facts)
<1>2. /\ result.verdict = "insecure" => worst = "insecure"
      /\ result.verdict = "weak" => worst = "weak" \/ low \/ group \/ serious
  BY <1>1, VerdictIs
<1>3. result.grade = "F" => result.verdict \in {"weak", "insecure"}
  BY <1>1, BetterIsGraded
<1>4. \A flag \in Flags(ThePolicy, facts) : PenaltyFinding[flag] \in Reported
  BY FlagsAreShown, FindingsAreReported
<1>5. /\ low => "host-key-too-small" \in Reported
      /\ group => "weak-dh-group" \in Reported
  BY KeysAreShown, NetworkFindingsAre, FindingsAreReported
<1>6. worst \in {"weak", "insecure"} =>
         \E class \in DOMAIN facts.offers : worst \o "-" \o class \in Reported
  BY WorstIsShown, FindingsAreReported
<1>7. {"host-key-too-small", "weak-dh-group"} \subseteq Range(PenaltyFinding)
  BY DEF Range, PenaltyFinding
<1> HIDE DEF serious, low, group, worst
<1>8. worst \in {"weak", "insecure"} => Reported \cap Offenders(worst) # {}
  BY <1>6 DEF Offenders
<1>9. result.verdict = "insecure" => Reported \cap Offenders("insecure") # {}
  BY <1>2, <1>8
<1>10. result.verdict = "weak" =>
          serious \/ Reported \cap (Offenders("weak") \cup {"host-key-too-small", "weak-dh-group"}) # {}
  BY <1>2, <1>5, <1>8
<1>11. result.grade = "F" /\ ~serious =>
          Reported \cap (Offenders("insecure") \cup Offenders("weak") \cup Range(PenaltyFinding)) # {}
  BY <1>3, <1>7, <1>9, <1>10
<1> QED BY <1>4, <1>9, <1>10, <1>11

\* What takes points off, what makes the verdict worse and what makes an F is in
\* the report (host_key_flags and compute_score in assessment.py, and the
\* plugins that report the same): the F by way of the verdict, which is weak or
\* insecure with it.
THEOREM ReportExplainsItself ==
    ASSUME LadderAgrees(ThePolicy) PROVE Spec => []ReportExplains
<1>1. ScanInv => ReportExplains
  BY VerdictIsExplained
<1> QED BY <1>1, ScanHolds, PTL

-----------------------------------------------------------------------------
(* What known_hosts says of the keys                                       *)

LEMMA KeptIsOfLength ==
    ASSUME NEW seq, NEW n \in Nat, NEW places \in SUBSET (1..n)
    PROVE  /\ Cardinality(places) \in Nat
           /\ DOMAIN Kept(seq, places) = 1..Cardinality(places)
<1>1. IsFiniteSet(places)
  <2>1. IsFiniteSet(1..n)
    BY FS_Interval
  <2> QED BY <2>1, FS_Subset
<1>2. Cardinality(places) \in Nat
  BY <1>1, FS_CardinalityType
<1> QED BY <1>2 DEF Kept

\* Of the lines with one key there is a last.
LEMMA LastOfKey ==
    ASSUME NEW lines, NEW n \in Nat, DOMAIN lines = 1..n, NEW i \in 1..n
    PROVE  \E m \in 1..n : /\ i <= m /\ lines[m].key = lines[i].key
                           /\ \A k \in 1..n : k > m => lines[k].key # lines[m].key
<1> DEFINE back == {d \in 0..n - i : lines[n - d].key = lines[i].key}
<1>1. n - i \in back /\ back \in SUBSET Nat
  <2>1. n - (n - i) = i
    OBVIOUS
  <2> QED BY <2>1
<1>2. PICK d \in back : \A e \in back : d <= e
  <2> HIDE DEF back
  <2> QED BY <1>1, Least
<1>3. n - d \in 1..n /\ i <= n - d /\ lines[n - d].key = lines[i].key
  OBVIOUS
<1>4. ASSUME NEW k \in 1..n, k > n - d, lines[k].key = lines[n - d].key
      PROVE  FALSE
  <2>1. n - k \in 0..n - i /\ n - (n - k) = k /\ n - k < d
    BY <1>3, <1>4
  <2>2. n - k \in back /\ d \in Nat
    BY <1>3, <1>4, <2>1
  <2>3. n - k \in Nat /\ d <= n - k
    <3> HIDE DEF back
    <3> QED BY <1>1, <1>2, <2>2
  <2> QED BY <2>1, <2>2, <2>3
<1> QED BY <1>3, <1>4

LEMMA RevokedKeysAreReported == ScanInv => RevokedIsReported
<1> DEFINE loaded == Load(server.knownHosts)
           lines == LookupHosts(loaded, server.name, server.port)
           keys == {p.key : p \in Presented}
<1> SUFFICES ASSUME ScanInv, "known_hosts" \in options.probes, Analysed, NEW i \in DOMAIN lines,
                    lines[i].marker = "revoked", lines[i].key \in keys,
                    ~\E j \in DOMAIN lines : /\ j > i /\ lines[j].key = lines[i].key
                                             /\ lines[j].marker # "revoked"
             PROVE  lines[i].key \in local.revoked
  BY DEF RevokedIsReported
<1>1. local = Compare(lines, Presented)
  BY DEF ScanInv, ComparisonStands
<1>2. \E n \in Nat : DOMAIN loaded = 1..n
  <2>1. case \in Cases
    BY DEF ScanInv, InOrder
  <2>2. server.knownHosts \in Seq(Range(server.knownHosts))
    BY <2>1, TargetScanAssumption DEF server, IsSeq
  <2>3. Len(server.knownHosts) \in Nat /\ DOMAIN server.knownHosts = 1..Len(server.knownHosts)
    BY <2>2, LenProperties
  <2> QED BY <2>3, KeptIsOfLength DEF Load
<1>3. PICK n \in Nat : DOMAIN lines = 1..n
  <2>1. PICK m \in Nat : DOMAIN loaded = 1..m
    BY <1>2
  <2> HIDE DEF loaded
  <2> QED BY <2>1, KeptIsOfLength DEF LookupHosts
<1> HIDE DEF lines
<1>4. PICK m \in 1..n : /\ i <= m /\ lines[m].key = lines[i].key
                        /\ \A k \in 1..n : k > m => lines[k].key # lines[m].key
  BY <1>3, LastOfKey
<1>5. lines[m].marker = "revoked"
  <2>1. CASE m = i
    BY <2>1
  <2>2. CASE m # i
    BY <1>3, <1>4, <2>2
  <2> QED BY <2>1, <2>2
<1>6. lines[m] \in Recorded(lines)
  BY <1>3, <1>4 DEF Recorded
<1>7. local.revoked = {l.key : l \in {r \in Recorded(lines) : r.marker = "revoked" /\ r.key \in keys}}
  BY <1>1 DEF Compare
<1> QED BY <1>4, <1>5, <1>6, <1>7

\* A key that is recorded as revoked for this host and presented is reported,
\* unless a later line has it without the mark (_check_known_hosts in scanner.py
\* and recorded in known_hosts.py): of two lines with one key the later counts,
\* and the keys are not read again after they were compared.
THEOREM RevokedKeysReported == Spec => []RevokedIsReported
<1> QED BY ScanHolds, RevokedKeysAreReported, PTL

-----------------------------------------------------------------------------
(* What a validated walk rests on                                          *)

\* How the answer to a query came.
HowOf(domain, walk, name, type) ==
    LET query == [name |-> name, type |-> type]
    IN IF query \in DOMAIN walk THEN walk[query] ELSE [view |-> "public", at |-> domain.now]

\* Nothing is what a query brings, or an answer with one signature.
LEMMA HowItCame ==
    ASSUME NEW domain, IsDomain(domain), NEW walk \in domain.walks, NEW name, NEW type
    PROVE  /\ Ask(domain, walk, name, type) =
                 Published(domain, [name |-> name, type |-> type], HowOf(domain, walk, name, type))
           /\ HowOf(domain, walk, name, type).at \in Nat
           /\ HowOf(domain, walk, name, type).view \in {"public", "none", "inner", "alias"}
           /\ HowOf(domain, walk, name, type).view = "inner" =>
                 type = "SSHFP" \/ (name = domain.zone /\ type = "DNSKEY")
           /\ HowOf(domain, walk, name, type).view = "alias" => type = "SSHFP"
<1> DEFINE query == [name |-> name, type |-> type]
<1>1. Ask(domain, walk, name, type) = Published(domain, query, HowOf(domain, walk, name, type))
  BY DEF Ask, HowOf
<1>2. CASE query \in DOMAIN walk
  <2>1. HowOf(domain, walk, name, type) = walk[query]
    BY <1>2 DEF HowOf
  <2>2. /\ walk[query].at \in Nat
        /\ walk[query].view \in {"public", "none", "inner", "alias"}
        /\ walk[query].view = "inner" =>
              query.type = "SSHFP" \/ query = [name |-> domain.zone, type |-> "DNSKEY"]
        /\ walk[query].view = "alias" => query.type = "SSHFP"
    BY <1>2 DEF IsDomain
  <2>3. query.type = type /\ query.name = name
    OBVIOUS
  <2>4. query = [name |-> domain.zone, type |-> "DNSKEY"] => name = domain.zone /\ type = "DNSKEY"
    BY <2>3
  <2> HIDE DEF query
  <2> QED BY <1>1, <2>1, <2>2, <2>3, <2>4 DEF query
<1>3. CASE query \notin DOMAIN walk
  <2>1. HowOf(domain, walk, name, type) = [view |-> "public", at |-> domain.now]
    BY <1>3 DEF HowOf
  <2>2. domain.now \in Nat
    BY DEF IsDomain
  <2> QED BY <1>1, <2>1, <2>2
<1> QED BY <1>2, <1>3

\* DS records that came are those of the zone, signed by its parent.
LEMMA DelegationIs ==
    ASSUME NEW domain, IsDomain(domain), NEW walk \in domain.walks, NEW zone,
           Ask(domain, walk, zone, "DS").signatures # <<>>
    PROVE  /\ Ask(domain, walk, zone, "DS").signer = Parent(zone)
           /\ \E n \in {1, 2} : Ask(domain, walk, zone, "DS").set = {<<zone, n>>}
           /\ HowOf(domain, walk, zone, "DS").view = "public"
           /\ InForce(Head(Ask(domain, walk, zone, "DS").signatures), domain.now) =>
                 HowOf(domain, walk, zone, "DS").at \in (domain.now - domain.life)..domain.now
<1> DEFINE how == HowOf(domain, walk, zone, "DS")
           answer == Ask(domain, walk, zone, "DS")
           query == [name |-> zone, type |-> "DS"]
<1>1. /\ answer = Published(domain, query, how) /\ how.at \in Nat
      /\ how.view \in {"public", "none"}
  BY HowItCame
<1>2. domain.now \in Nat /\ domain.life \in Nat
  BY DEF IsDomain
<1> HIDE DEF how, answer
<1>3. how.view # "none"
  BY <1>1 DEF Published, Nothing, answer
<1>4. answer = Signed(domain, Parent(zone), SigningKey(domain, Parent(zone), how.at), zone,
                      {SigningKey(domain, zone, how.at)}, how.at)
  BY <1>1, <1>3 DEF Published
<1>5. /\ answer.signer = Parent(zone) /\ answer.set = {SigningKey(domain, zone, how.at)}
      /\ Head(answer.signatures).from = how.at
      /\ Head(answer.signatures).until = how.at + domain.life
  BY <1>4 DEF Signed
<1>6. \E n \in {1, 2} : SigningKey(domain, zone, how.at) = <<zone, n>>
  BY DEF SigningKey
<1> QED BY <1>1, <1>2, <1>3, <1>5, <1>6 DEF InForce, how, answer

\* Keys that some anchor vouches for are those the zone publishes: an anchor is
\* never a key of the inner view.
LEMMA KeysAreGenuine ==
    ASSUME NEW domain, IsDomain(domain), NEW walk \in domain.walks, NEW zone, NEW anchors,
           InnerKey(zone) \notin anchors,
           AuthenticatedKeys(Ask(domain, walk, zone, "DNSKEY"), anchors, domain.now) # {}
    PROVE  /\ HowOf(domain, walk, zone, "DNSKEY").view = "public"
           /\ HowOf(domain, walk, zone, "DNSKEY").at \in (domain.now - domain.life)..domain.now
           /\ InnerKey(zone) \notin AuthenticatedKeys(Ask(domain, walk, zone, "DNSKEY"), anchors, domain.now)
<1> DEFINE how == HowOf(domain, walk, zone, "DNSKEY")
           answer == Ask(domain, walk, zone, "DNSKEY")
           query == [name |-> zone, type |-> "DNSKEY"]
<1>1. /\ answer = Published(domain, query, how) /\ how.at \in Nat
      /\ how.view \in {"public", "none", "inner"}
      /\ how.view = "inner" => zone = domain.zone
  BY HowItCame
<1>2. domain.now \in Nat /\ domain.life \in Nat
  BY DEF IsDomain
<1> HIDE DEF how, answer
<1>3. PICK i \in DOMAIN answer.signatures :
         /\ answer.signatures[i].key \in anchors
         /\ InForce(answer.signatures[i], domain.now)
  BY DEF AuthenticatedKeys, answer
<1>4. how.view # "none"
  <2> SUFFICES ASSUME how.view = "none" PROVE FALSE
    OBVIOUS
  <2>1. answer.signatures = <<>>
    BY <1>1 DEF Published, Nothing
  <2> QED BY <1>3, <2>1
<1> DEFINE inner == how.view = "inner"
           key == IF inner THEN InnerKey(zone) ELSE SigningKey(domain, zone, how.at)
<1>5. answer = Signed(domain, zone, key, zone,
                      IF inner THEN {InnerKey(zone)} ELSE KeysAt(domain, zone, how.at), how.at)
  BY <1>1, <1>4 DEF Published
<1> HIDE DEF key
<1>6. /\ answer.signatures = <<[key |-> key, from |-> how.at, until |-> how.at + domain.life]>>
      /\ answer.set = IF inner THEN {InnerKey(zone)} ELSE KeysAt(domain, zone, how.at)
  BY <1>5 DEF Signed
<1>7. i = 1
  BY <1>3, <1>6
<1>8. answer.signatures[i].key = key /\ answer.signatures[i].from = how.at
      /\ answer.signatures[i].until = how.at + domain.life
  BY <1>6, <1>7
<1>9. ~inner
  BY <1>3, <1>8 DEF key
<1>10. InnerKey(zone) \notin answer.set
  <2>1. \A k \in KeysAt(domain, zone, how.at) : \E n \in {1, 2} : k = <<zone, n>>
    BY DEF KeysAt
  <2> QED BY <1>6, <1>9, <2>1 DEF InnerKey
<1> QED BY <1>1, <1>2, <1>3, <1>4, <1>8, <1>9, <1>10 DEF InForce, AuthenticatedKeys, how, answer

\* The walk up.
UpAt(domain, walk, zone, up, i) ==
    IF i = 0 THEN zone
    ELSE IF up[i - 1] = Root THEN Root ELSE Ask(domain, walk, up[i - 1], "DS").signer

LEMMA UpwardsAre ==
    ASSUME NEW domain, NEW walk, NEW zone
    PROVE  \A i \in 0..MaxZones - 1 :
              Upwards(domain, walk, zone)[i] = UpAt(domain, walk, zone, Upwards(domain, walk, zone), i)
<1> DEFINE n == MaxZones - 1
           At(g, i) == UpAt(domain, walk, zone, g, i)
           good == {m \in 0..n : \E g : g = [i \in 0..m |-> At(g, i)]}
<1>1. n \in Nat
  BY DEF MaxZones
<1>2. ASSUME NEW m \in 0..n, \A k \in 0..n : k < m => k \in good
      PROVE  m \in good
  <2>1. CASE m = 0
    <3> DEFINE h == [i \in 0..m |-> zone]
    <3>1. \A i \in 0..m : At(h, i) = zone
      BY <2>1 DEF UpAt
    <3>2. h = [i \in 0..m |-> At(h, i)]
      <4> HIDE DEF At
      <4> QED BY <3>1
    <3> HIDE DEF h, At
    <3> QED BY <3>2
  <2>2. CASE m # 0
    <3>1. m - 1 \in 0..n /\ m - 1 < m
      BY <1>1, <2>2
    <3>2. PICK g : g = [i \in 0..m - 1 |-> At(g, i)]
      BY <1>2, <3>1
    <3> DEFINE h == [i \in 0..m |-> At(g, i)]
    <3>3. \A i \in 0..m - 1 : h[i] = g[i]
      <4> HIDE DEF At
      <4>1. \A i \in 0..m - 1 : i \in 0..m
        BY <3>1
      <4> QED BY <3>2, <4>1
    <3>4. \A i \in 0..m : At(h, i) = At(g, i)
      <4> TAKE i \in 0..m
      <4>1. i # 0 => i - 1 \in 0..m - 1
        BY <1>1
      <4> HIDE DEF h
      <4> QED BY <3>3, <4>1 DEF UpAt
    <3>5. h = [i \in 0..m |-> At(h, i)]
      <4> HIDE DEF At
      <4> QED BY <3>4
    <3> HIDE DEF h, At
    <3> QED BY <3>5
  <2> QED BY <2>1, <2>2
<1>3. n \in good
  <2> HIDE DEF good
  <2>1. \A m \in 0..n : m \in good
    <3> HIDE DEF n
    <3> QED BY <1>1, <1>2, CountingUp
  <2> QED BY <1>1, <2>1
<1>4. PICK g : g = [i \in 0..n |-> At(g, i)]
  BY <1>3
<1>5. Upwards(domain, walk, zone) = CHOOSE f : f = [i \in 0..n |-> At(f, i)]
  BY DEF Upwards, UpAt
<1>6. Upwards(domain, walk, zone) = [i \in 0..n |-> At(Upwards(domain, walk, zone), i)]
  <2> HIDE DEF At, n
  <2> QED BY <1>4, <1>5
<1> HIDE DEF At
<1> QED BY <1>6 DEF At

\* The walk down.
DownAt(domain, walk, up, depth, keys, k) ==
    IF k = 0 THEN AuthenticatedKeys(Ask(domain, walk, Root, "DNSKEY"), RootAnchors, domain.now)
    ELSE KeysBelow(domain, walk, up[depth - k], keys[k - 1])

LEMMA DownwardsAre ==
    ASSUME NEW domain, NEW walk, NEW up, NEW depth \in Nat
    PROVE  \A k \in 0..depth :
              Downwards(domain, walk, up, depth)[k] =
                 DownAt(domain, walk, up, depth, Downwards(domain, walk, up, depth), k)
<1> DEFINE At(g, i) == DownAt(domain, walk, up, depth, g, i)
           good == {m \in 0..depth : \E g : g = [i \in 0..m |-> At(g, i)]}
<1>2. ASSUME NEW m \in 0..depth, \A k \in 0..depth : k < m => k \in good
      PROVE  m \in good
  <2>1. CASE m = 0
    <3> DEFINE first == AuthenticatedKeys(Ask(domain, walk, Root, "DNSKEY"), RootAnchors, domain.now)
               h == [i \in 0..m |-> first]
    <3>1. \A i \in 0..m : At(h, i) = first
      <4> TAKE i \in 0..m
      <4>1. i = 0
        BY <2>1
      <4> QED BY <4>1 DEF DownAt
    <3>2. h = [i \in 0..m |-> At(h, i)]
      <4> HIDE DEF At, first
      <4> QED BY <3>1
    <3> HIDE DEF h, At
    <3> QED BY <3>2
  <2>2. CASE m # 0
    <3>1. m - 1 \in 0..depth /\ m - 1 < m
      BY <2>2
    <3>2. PICK g : g = [i \in 0..m - 1 |-> At(g, i)]
      BY <1>2, <3>1
    <3> DEFINE h == [i \in 0..m |-> At(g, i)]
    <3>3. \A i \in 0..m - 1 : h[i] = g[i]
      <4> HIDE DEF At
      <4>1. \A i \in 0..m - 1 : i \in 0..m
        BY <3>1
      <4> QED BY <3>2, <4>1
    <3>4. \A i \in 0..m : At(h, i) = At(g, i)
      <4> TAKE i \in 0..m
      <4>1. i # 0 => i - 1 \in 0..m - 1
        OBVIOUS
      <4> HIDE DEF h
      <4> QED BY <3>3, <4>1 DEF DownAt
    <3>5. h = [i \in 0..m |-> At(h, i)]
      <4> HIDE DEF At
      <4> QED BY <3>4
    <3> HIDE DEF h, At
    <3> QED BY <3>5
  <2> QED BY <2>1, <2>2
<1>3. depth \in good
  <2> HIDE DEF good
  <2>1. \A m \in 0..depth : m \in good
    BY <1>2, CountingUp
  <2> QED BY <2>1
<1>4. PICK g : g = [i \in 0..depth |-> At(g, i)]
  BY <1>3
<1>5. Downwards(domain, walk, up, depth) = CHOOSE f : f = [i \in 0..depth |-> At(f, i)]
  BY DEF Downwards, DownAt
<1>6. Downwards(domain, walk, up, depth) =
         [i \in 0..depth |-> At(Downwards(domain, walk, up, depth), i)]
  <2> HIDE DEF At
  <2> QED BY <1>4, <1>5
<1> HIDE DEF At
<1> QED BY <1>6 DEF At

\* What an answer came as when it is proof of what the public zone says.
Fresh(domain, how) ==
    how.view = "public" /\ how.at \in (domain.now - domain.life)..domain.now

\* The zones the walk came by are those that hold the zone, the root last, and
\* the answers of each of them were fresh.
LEMMA KeysRestOn ==
    ASSUME NEW domain, IsDomain(domain), NEW walk \in domain.walks,
           ZoneKeys(domain, walk, domain.zone) # {}
    PROVE  /\ \A n \in 1..Len(domain.zone) :
                 Fresh(domain, HowOf(domain, walk, SubSeq(domain.zone, 1, n), "DS"))
           /\ \A n \in 0..Len(domain.zone) :
                 Fresh(domain, HowOf(domain, walk, SubSeq(domain.zone, 1, n), "DNSKEY"))
           /\ InnerKey(domain.zone) \notin ZoneKeys(domain, walk, domain.zone)
<1> DEFINE zone == domain.zone
           up == Upwards(domain, walk, zone)
           reached == {i \in 0..MaxZones - 1 : up[i] = Root}
           depth == Min(reached)
           keys == Downwards(domain, walk, up, depth)
           DS(z) == Ask(domain, walk, z, "DS")
           len == Len(zone)
<1>1. zone \in Seq(STRING) /\ len \in Nat
  BY DEF IsDomain
<1>2. reached # {} /\ ZoneKeys(domain, walk, zone) = keys[depth]
  BY DEF ZoneKeys
<1>3. /\ depth \in 0..MaxZones - 1 /\ up[depth] = Root
      /\ \A i \in 0..depth - 1 : up[i] # Root
  <2>1. reached \in SUBSET Nat
    BY DEF MaxZones
  <2>2. depth \in reached /\ \A i \in reached : depth <= i
    <3> HIDE DEF reached
    <3> QED BY <1>2, <2>1, MinIs
  <2> HIDE DEF depth, up
  <2> QED BY <2>2 DEF MaxZones
<1>4. depth \in Nat /\ MaxZones - 1 \in Nat
  BY <1>3 DEF MaxZones
<1>5. up[0] = zone /\ \A i \in 1..depth : up[i] = DS(up[i - 1]).signer
  <2>1. \A i \in 0..MaxZones - 1 : up[i] = UpAt(domain, walk, zone, up, i)
    BY UpwardsAre
  <2> HIDE DEF up, depth
  <2>2. up[0] = zone
    BY <1>4, <2>1 DEF UpAt
  <2>3. ASSUME NEW i \in 1..depth PROVE up[i] = DS(up[i - 1]).signer
    <3>1. i \in 0..MaxZones - 1 /\ i # 0 /\ i - 1 \in 0..depth - 1
      BY <1>3, <1>4
    <3> QED BY <1>3, <2>1, <3>1 DEF UpAt
  <2> QED BY <2>2, <2>3
<1>6. /\ keys[0] = AuthenticatedKeys(Ask(domain, walk, Root, "DNSKEY"), RootAnchors, domain.now)
      /\ \A k \in 1..depth : keys[k] = KeysBelow(domain, walk, up[depth - k], keys[k - 1])
  <2>1. \A k \in 0..depth : keys[k] = DownAt(domain, walk, up, depth, keys, k)
    <3> HIDE DEF up, depth
    <3> QED BY <1>4, DownwardsAre
  <2> HIDE DEF up, depth, keys
  <2> QED BY <1>4, <2>1 DEF DownAt
<1> HIDE DEF up, reached, depth, keys, DS
<1>7. \A k \in 0..depth : keys[k] # {}
  <2> DEFINE good == {m \in 0..depth : keys[depth - m] # {}}
  <2>1. ASSUME NEW m \in 0..depth, \A k \in 0..depth : k < m => k \in good
        PROVE  m \in good
    <3>1. CASE m = 0
      BY <1>2, <1>4, <3>1
    <3>2. CASE m # 0
      <4>1. m - 1 \in 0..depth /\ m - 1 < m /\ depth - (m - 1) \in 1..depth
            /\ (depth - (m - 1)) - 1 = depth - m
        BY <1>4, <3>2
      <4>2. keys[depth - (m - 1)] # {}
        BY <2>1, <4>1
      <4>3. keys[depth - (m - 1)] = KeysBelow(domain, walk, up[depth - (depth - (m - 1))], keys[depth - m])
        BY <1>6, <4>1
      <4>4. keys[depth - m] # {}
        BY <4>2, <4>3 DEF KeysBelow, Verifies
      <4> QED BY <4>4
    <3> QED BY <3>1, <3>2
  <2> HIDE DEF good
  <2>2. \A m \in 0..depth : m \in good
    BY <1>4, <2>1, CountingUp
  <2>3. ASSUME NEW k \in 0..depth PROVE keys[k] # {}
    <3>1. depth - k \in 0..depth /\ depth - (depth - k) = k
      BY <1>4
    <3> QED BY <2>2, <3>1 DEF good
  <2> QED BY <2>3
\* Of each zone above the first, the DS records and the keys.
<1>8. ASSUME NEW i \in 0..depth - 1
      PROVE  /\ Verifies(DS(up[i]), keys[depth - i - 1], domain.now)
             /\ keys[depth - i] = AuthenticatedKeys(Ask(domain, walk, up[i], "DNSKEY"), DS(up[i]).set, domain.now)
  <2>1. depth - i \in 1..depth /\ depth - (depth - i) = i /\ depth - i \in 0..depth
    BY <1>4
  <2>2. keys[depth - i] = KeysBelow(domain, walk, up[i], keys[depth - i - 1])
    BY <1>6, <2>1
  <2> QED BY <1>7, <2>1, <2>2 DEF KeysBelow, DS
<1>9. ASSUME NEW i \in 0..depth - 1
      PROVE  /\ DS(up[i]).signer = Parent(up[i])
             /\ \E n \in {1, 2} : DS(up[i]).set = {<<up[i], n>>}
             /\ Fresh(domain, HowOf(domain, walk, up[i], "DS"))
  <2>1. /\ DS(up[i]).signatures # <<>>
        /\ InForce(Head(DS(up[i]).signatures), domain.now)
    BY <1>8 DEF Verifies
  <2> QED BY <2>1, DelegationIs DEF DS, Fresh
<1>10. ASSUME NEW i \in 0..depth
       PROVE  /\ Fresh(domain, HowOf(domain, walk, up[i], "DNSKEY"))
              /\ InnerKey(up[i]) \notin keys[depth - i]
  <2>1. CASE i = depth
    <3>1. InnerKey(Root) \notin RootAnchors
      BY DEF InnerKey, RootAnchors
    <3>2. keys[0] # {} /\ depth - i = 0 /\ up[i] = Root
      BY <1>3, <1>4, <1>7, <2>1
    <3> QED BY <1>6, <3>1, <3>2, KeysAreGenuine DEF Fresh
  <2>2. CASE i # depth
    <3>1. i \in 0..depth - 1 /\ depth - i \in 0..depth
      BY <1>4, <2>2
    <3>2. InnerKey(up[i]) \notin DS(up[i]).set
      BY <1>9, <3>1 DEF InnerKey
    <3>3. AuthenticatedKeys(Ask(domain, walk, up[i], "DNSKEY"), DS(up[i]).set, domain.now) # {}
      BY <1>7, <1>8, <3>1
    <3> QED BY <1>8, <3>1, <3>2, <3>3, KeysAreGenuine DEF Fresh
  <2> QED BY <2>1, <2>2
\* Each is the zone without its last labels.
<1>11. \A i \in 0..depth : i <= len /\ up[i] = SubSeq(zone, 1, len - i)
  <2> DEFINE good == {m \in 0..depth : m <= len /\ up[m] = SubSeq(zone, 1, len - m)}
  <2>1. ASSUME NEW m \in 0..depth, \A k \in 0..depth : k < m => k \in good
        PROVE  m \in good
    <3>1. CASE m = 0
      BY <1>1, <1>5, <3>1
    <3>2. CASE m # 0
      <4>1. m - 1 \in 0..depth - 1 /\ m - 1 \in 0..depth /\ m \in 1..depth /\ m - 1 < m
        BY <1>4, <3>2
      <4>2. m - 1 <= len /\ up[m - 1] = SubSeq(zone, 1, len - (m - 1))
        BY <2>1, <4>1
      <4>3. up[m - 1] # <<>>
        BY <1>3, <4>1 DEF Root
      <4>4. m <= len
        <5>1. m - 1 # len
          BY <1>1, <4>2, <4>3
        <5> QED BY <1>1, <1>4, <4>2, <5>1
      <4>5. up[m] = Parent(up[m - 1])
        BY <1>5, <1>9, <4>1
      <4>6. Parent(SubSeq(zone, 1, len - (m - 1))) = SubSeq(zone, 1, len - m)
        <5> DEFINE longer == SubSeq(zone, 1, len - (m - 1))
        <5>1. len - (m - 1) \in 1..len
          BY <1>1, <1>4, <4>1, <4>4
        <5> HIDE DEF len
        <5>2. longer \in Seq(STRING) /\ Len(longer) = len - (m - 1)
              /\ \A j \in 1..len - (m - 1) : longer[j] = zone[j]
          <6>1. \A j \in 1..len - (m - 1) : zone[j] \in STRING
            BY <1>1, <5>1 DEF len
          <6>2. /\ longer \in Seq(STRING)
                /\ Len(longer) = len - (m - 1) - 1 + 1
                /\ \A j \in 1..len - (m - 1) - 1 + 1 : longer[j] = zone[1 + j - 1]
            BY <1>1, <5>1, <6>1, SubSeqProperties
          <6> HIDE DEF longer
          <6> QED BY <5>1, <6>2
        <5> HIDE DEF longer
        <5> QED BY <1>1, <5>1, <5>2 DEF Parent, len
      <4> QED BY <4>2, <4>4, <4>5, <4>6
    <3> QED BY <3>1, <3>2
  <2> HIDE DEF good
  <2>2. \A m \in 0..depth : m \in good
    BY <1>4, <2>1, CountingUp
  <2> QED BY <2>2 DEF good
<1>12. depth = len
  <2>1. depth <= len /\ SubSeq(zone, 1, len - depth) = <<>>
    BY <1>3, <1>4, <1>11 DEF Root
  <2>2. Len(SubSeq(zone, 1, len - depth)) = len - depth
    BY <1>1, <1>4, <2>1
  <2>3. len - depth = 0
    BY <2>1, <2>2
  <2> QED BY <1>1, <1>4, <2>3
<1>13. ASSUME NEW n \in 0..len PROVE len - n \in 0..depth /\ up[len - n] = SubSeq(zone, 1, n)
  <2>1. len - n \in 0..depth /\ len - (len - n) = n
    BY <1>1, <1>12
  <2> QED BY <1>11, <2>1
<1>14. ASSUME NEW n \in 1..len PROVE Fresh(domain, HowOf(domain, walk, SubSeq(zone, 1, n), "DS"))
  <2>1. n \in 0..len /\ len - n \in 0..depth - 1
    BY <1>1, <1>12
  <2> QED BY <1>9, <1>13, <2>1
<1>15. ASSUME NEW n \in 0..len PROVE Fresh(domain, HowOf(domain, walk, SubSeq(zone, 1, n), "DNSKEY"))
  BY <1>10, <1>13
<1>16. InnerKey(zone) \notin ZoneKeys(domain, walk, zone)
  <2>1. 0 \in 0..depth /\ depth - 0 = depth
    BY <1>4
  <2> QED BY <1>2, <1>5, <1>10, <2>1
<1> QED BY <1>14, <1>15, <1>16

\* A set of records that verifies was published by the zone.
LEMMA ValidatedChainsAre ==
    ASSUME NEW domain, IsDomain(domain), NEW walk \in domain.walks, Validated(domain, walk)
    PROVE  /\ ZoneKeys(domain, walk, domain.zone) # {}
           /\ Fresh(domain, HowOf(domain, walk, domain.host, "SSHFP"))
<1> DEFINE how == HowOf(domain, walk, domain.host, "SSHFP")
           answer == Ask(domain, walk, domain.host, "SSHFP")
           query == [name |-> domain.host, type |-> "SSHFP"]
<1>1. /\ answer = Published(domain, query, how) /\ how.at \in Nat
      /\ how.view \in {"public", "none", "inner", "alias"}
  BY HowItCame
<1>2. domain.now \in Nat /\ domain.life \in Nat /\ domain.host # AliasOf(domain)
  BY DEF IsDomain
<1>3. /\ answer.signatures # <<>> /\ answer.owner = domain.host
      /\ Verifies(answer, ZoneKeys(domain, walk, answer.signer), domain.now)
  BY DEF Validated
<1> HIDE DEF how, answer
<1>4. how.view # "none"
  BY <1>1, <1>3 DEF Published, Nothing
<1>5. how.view # "alias"
  <2> SUFFICES ASSUME how.view = "alias" PROVE FALSE
    OBVIOUS
  <2>1. answer.owner = AliasOf(domain)
    BY <1>1 DEF Published, Signed
  <2> QED BY <1>2, <1>3, <2>1
<1> DEFINE key == IF how.view = "inner" THEN InnerKey(domain.zone)
                  ELSE SigningKey(domain, domain.zone, how.at)
<1>6. answer = Signed(domain, domain.zone, key, domain.host, {how.view}, how.at)
  BY <1>1, <1>4, <1>5 DEF Published
<1> HIDE DEF key
<1>7. /\ answer.signer = domain.zone /\ Head(answer.signatures).key = key
      /\ Head(answer.signatures).from = how.at
      /\ Head(answer.signatures).until = how.at + domain.life
  BY <1>6 DEF Signed
<1>8. key \in ZoneKeys(domain, walk, domain.zone)
  BY <1>3, <1>7 DEF Verifies
<1>9. how.view # "inner"
  BY <1>8, KeysRestOn DEF key
<1>10. InForce(Head(answer.signatures), domain.now)
  BY <1>3 DEF Verifies
<1> QED BY <1>1, <1>2, <1>4, <1>5, <1>7, <1>8, <1>9, <1>10 DEF InForce, Fresh, how

LEMMA WalkIsGenuine == ScanInv => ChainIsGenuine
<1> DEFINE domain == server.dns
           walk == facts.walk
<1> SUFFICES ASSUME ScanInv, facts.validated, NEW query \in Links(domain.zone) \cap DOMAIN walk
             PROVE  Fresh(domain, walk[query])
  BY DEF ChainIsGenuine, Fresh
<1>1. walk \in domain.walks /\ Validated(domain, walk)
  BY DEF ScanInv, WalkStands
<1>2. IsDomain(domain)
  <2>1. case \in Cases
    BY DEF ScanInv, InOrder
  <2> QED BY <2>1, TargetScanAssumption DEF server
<1> HIDE DEF domain, walk
<1>3. ASSUME NEW name, NEW type, query = [name |-> name, type |-> type]
      PROVE  walk[query] = HowOf(domain, walk, name, type)
  BY <1>3 DEF HowOf
<1>4. ZoneKeys(domain, walk, domain.zone) # {}
  BY <1>1, <1>2, ValidatedChainsAre
<1>5. CASE \E n \in 0..Len(domain.zone) : query = [name |-> SubSeq(domain.zone, 1, n), type |-> "DNSKEY"]
  <2>1. PICK n \in 0..Len(domain.zone) : query = [name |-> SubSeq(domain.zone, 1, n), type |-> "DNSKEY"]
    BY <1>5
  <2>2. Fresh(domain, HowOf(domain, walk, SubSeq(domain.zone, 1, n), "DNSKEY"))
    BY <1>1, <1>2, <1>4, KeysRestOn
  <2> QED BY <1>3, <2>1, <2>2
<1>6. CASE \E n \in 1..Len(domain.zone) : query = [name |-> SubSeq(domain.zone, 1, n), type |-> "DS"]
  <2>1. PICK n \in 1..Len(domain.zone) : query = [name |-> SubSeq(domain.zone, 1, n), type |-> "DS"]
    BY <1>6
  <2>2. Fresh(domain, HowOf(domain, walk, SubSeq(domain.zone, 1, n), "DS"))
    BY <1>1, <1>2, <1>4, KeysRestOn
  <2> QED BY <1>3, <2>1, <2>2
<1>7. CASE query = [name |-> domain.host, type |-> "SSHFP"]
  <2>1. Fresh(domain, HowOf(domain, walk, domain.host, "SSHFP"))
    BY <1>1, <1>2, ValidatedChainsAre
  <2> QED BY <1>3, <1>7, <2>1
<1> QED BY <1>5, <1>6, <1>7 DEF Links, domain

\* The flag of DNSSEC is set only after a walk that brought the records of the
\* host's own zone, on answers of the zones that the root delegates to, none of
\* them older than a signature lives (validate_records in dnssec.py): along the
\* walk up every signer is the parent, along the walk down a zone without a key
\* that its parent vouches for leaves the zones below it none, and the keys of
\* an inner view are vouched for by nobody. Of the records that are compared
\* with the keys it says nothing.
THEOREM ValidatedChainsAreGenuine == Spec => []ChainIsGenuine
<1> QED BY ScanHolds, WalkIsGenuine, PTL
-----------------------------------------------------------------------------
(* Lists, and what is read of the transcript of an audit                   *)

LEMMA ListIs ==
    ASSUME NEW s, IsSeq(s)
    PROVE  Len(s) \in Nat /\ DOMAIN s = 1..Len(s) /\ s = [i \in 1..Len(s) |-> s[i]]
<1>1. s \in Seq(Range(s))
  BY DEF IsSeq
<1> QED BY <1>1, LenProperties

LEMMA IsAList ==
    ASSUME NEW n \in Nat, NEW s, s = [i \in 1..n |-> s[i]]
    PROVE  IsSeq(s) /\ Len(s) = n
<1>1. \A i \in 1..n : s[i] \in Range(s)
  BY DEF Range
<1>2. s \in [1..n -> Range(s)]
  BY <1>1
<1>3. s \in Seq(Range(s)) /\ Len(s) = n
  BY <1>2
<1> QED BY <1>3 DEF IsSeq

LEMMA InSeqIsAList ==
    ASSUME NEW S, NEW s \in Seq(S)
    PROVE  IsSeq(s)
<1>1. Len(s) \in Nat /\ s = [i \in 1..Len(s) |-> s[i]]
  BY LenProperties
<1> QED BY <1>1, IsAList

\* One list after another.
LEMMA JoinIs ==
    ASSUME NEW a, NEW b, IsSeq(a), IsSeq(b)
    PROVE  /\ IsSeq(a \o b)
           /\ Len(a \o b) = Len(a) + Len(b)
           /\ \A i \in 1..Len(a) : (a \o b)[i] = a[i]
           /\ \A k \in 1..Len(b) : (a \o b)[Len(a) + k] = b[k]
           /\ \A p \in 1..Len(a \o b) : p \in 1..Len(a) \/ \E k \in 1..Len(b) : p = Len(a) + k
<1> DEFINE S == Range(a) \cup Range(b)
<1>1. a \in Seq(S) /\ b \in Seq(S)
  BY SeqMonotonic DEF IsSeq
<1> HIDE DEF S
<1>2. /\ a \o b \in Seq(S)
      /\ Len(a \o b) = Len(a) + Len(b)
      /\ \A i \in 1..Len(a) + Len(b) : (a \o b)[i] = IF i <= Len(a) THEN a[i] ELSE b[i - Len(a)]
  BY <1>1, ConcatProperties
<1>3. IsSeq(a \o b)
  BY <1>2, InSeqIsAList
<1>4. Len(a) \in Nat /\ Len(b) \in Nat
  BY ListIs
<1>5. \A k \in 1..Len(b) : /\ Len(a) + k \in 1..Len(a) + Len(b) /\ ~(Len(a) + k <= Len(a))
                           /\ (Len(a) + k) - Len(a) = k
  BY <1>4
<1>6. \A i \in 1..Len(a) : i \in 1..Len(a) + Len(b) /\ i <= Len(a)
  BY <1>4
<1>7. \A p \in 1..Len(a) + Len(b) : p \in 1..Len(a) \/ (p - Len(a) \in 1..Len(b) /\ p = Len(a) + (p - Len(a)))
  BY <1>4
<1> QED BY <1>2, <1>3, <1>5, <1>6, <1>7

\* What it is for the first m of some lists to come one after the other: each
\* is there, and what follows it is the start of another or nothing.
Laid(flat, parts, m) ==
    /\ IsSeq(flat)
    /\ \A p \in 1..Len(flat) : \E i \in 1..m : \E k \in 1..Len(parts[i]) : flat[p] = parts[i][k]
    /\ \A i \in 1..m : \E o \in Nat :
          /\ o + Len(parts[i]) <= Len(flat)
          /\ \A k \in 1..Len(parts[i]) : flat[o + k] = parts[i][k]
          /\ \/ o + Len(parts[i]) = Len(flat)
             \/ \E j \in 1..m : 1 \in 1..Len(parts[j]) /\ flat[o + Len(parts[i]) + 1] = parts[j][1]

LEMMA LaidOneMore ==
    ASSUME NEW n \in Nat, NEW m \in 1..n, NEW parts, \A i \in 1..n : IsSeq(parts[i]),
           NEW flat, Laid(flat, parts, m - 1)
    PROVE  Laid(flat \o parts[m], parts, m)
<1> DEFINE long == flat \o parts[m]
           last == parts[m]
<1>1. /\ \A i \in 1..m - 1 : i \in 1..m /\ i \in 1..n
      /\ \A i \in 1..m : i = m \/ i \in 1..m - 1
  OBVIOUS
<1>2. IsSeq(flat) /\ IsSeq(last)
  BY DEF Laid
<1>3. Len(flat) \in Nat /\ Len(last) \in Nat /\ \A i \in 1..m : Len(parts[i]) \in Nat
  BY <1>2, ListIs
<1>4. /\ IsSeq(long)
      /\ Len(long) = Len(flat) + Len(last)
      /\ \A i \in 1..Len(flat) : long[i] = flat[i]
      /\ \A k \in 1..Len(last) : long[Len(flat) + k] = last[k]
      /\ \A p \in 1..Len(long) : p \in 1..Len(flat) \/ \E k \in 1..Len(last) : p = Len(flat) + k
  BY <1>2, JoinIs
<1> HIDE DEF long
<1>5. ASSUME NEW p \in 1..Len(long)
      PROVE  \E i \in 1..m : \E k \in 1..Len(parts[i]) : long[p] = parts[i][k]
  <2>1. CASE p \in 1..Len(flat)
    <3>1. PICK i \in 1..m - 1 : \E k \in 1..Len(parts[i]) : flat[p] = parts[i][k]
      BY <2>1 DEF Laid
    <3> QED BY <1>1, <1>4, <2>1, <3>1
  <2>2. CASE \E k \in 1..Len(last) : p = Len(flat) + k
    BY <1>4, <2>2
  <2> QED BY <1>4, <2>1, <2>2
<1>6. ASSUME NEW i \in 1..m
      PROVE  \E o \in Nat :
                /\ o + Len(parts[i]) <= Len(long)
                /\ \A k \in 1..Len(parts[i]) : long[o + k] = parts[i][k]
                /\ \/ o + Len(parts[i]) = Len(long)
                   \/ \E j \in 1..m : 1 \in 1..Len(parts[j]) /\ long[o + Len(parts[i]) + 1] = parts[j][1]
  <2>1. CASE i = m
    <3>1. Len(flat) + Len(parts[i]) = Len(long) /\ \A k \in 1..Len(parts[i]) : long[Len(flat) + k] = parts[i][k]
      BY <1>4, <2>1
    <3>2. Len(flat) + Len(parts[i]) <= Len(long)
      BY <1>3, <3>1
    <3> QED BY <1>3, <3>1, <3>2
  <2>2. CASE i \in 1..m - 1
    <3>1. PICK o \in Nat :
             /\ o + Len(parts[i]) <= Len(flat)
             /\ \A k \in 1..Len(parts[i]) : flat[o + k] = parts[i][k]
             /\ \/ o + Len(parts[i]) = Len(flat)
                \/ \E j \in 1..m - 1 : 1 \in 1..Len(parts[j]) /\ flat[o + Len(parts[i]) + 1] = parts[j][1]
      BY <2>2 DEF Laid
    <3>2. \A k \in 1..Len(parts[i]) : o + k \in 1..Len(flat)
      BY <1>3, <3>1
    <3>3. \A k \in 1..Len(parts[i]) : long[o + k] = parts[i][k]
      BY <1>4, <3>1, <3>2
    <3>4. o + Len(parts[i]) <= Len(long)
      BY <1>3, <1>4, <3>1
    <3>5. CASE o + Len(parts[i]) = Len(flat)
      <4>1. CASE Len(last) = 0
        <5>1. o + Len(parts[i]) = Len(long)
          BY <1>3, <1>4, <3>5, <4>1
        <5> QED BY <3>3, <3>4, <5>1
      <4>2. CASE Len(last) # 0
        <5>1. 1 \in 1..Len(last)
          BY <1>3, <4>2
        <5>2. long[o + Len(parts[i]) + 1] = parts[m][1]
          BY <1>4, <3>5, <5>1
        <5>3. m \in 1..m
          OBVIOUS
        <5> QED BY <3>3, <3>4, <5>1, <5>2, <5>3
      <4> QED BY <4>1, <4>2
    <3>6. CASE o + Len(parts[i]) # Len(flat)
      <4>1. PICK j \in 1..m - 1 : 1 \in 1..Len(parts[j]) /\ flat[o + Len(parts[i]) + 1] = parts[j][1]
        BY <3>1, <3>6
      <4>2. o + Len(parts[i]) + 1 \in 1..Len(flat)
        BY <1>3, <3>1, <3>6
      <4>3. long[o + Len(parts[i]) + 1] = parts[j][1] /\ j \in 1..m
        BY <1>1, <1>4, <4>1, <4>2
      <4> QED BY <3>3, <3>4, <4>1, <4>3
    <3> QED BY <3>5, <3>6
  <2> QED BY <1>1, <2>1, <2>2
<1>7. Laid(long, parts, m)
  BY <1>4, <1>5, <1>6 DEF Laid
<1> QED BY <1>7 DEF long

\* So it is with the lists of a list of lists. The recursive function is there
\* for every length, as it is for a length when it is for the one before.
LEMMA FlatIsLaid ==
    ASSUME NEW parts, IsSeq(parts), \A i \in 1..Len(parts) : IsSeq(parts[i])
    PROVE  Laid(FlattenSeq(parts), parts, Len(parts))
<1> DEFINE n == Len(parts)
           joins(g, m) == g = [i \in 1..m |-> IF i = 1 THEN parts[i] ELSE g[i - 1] \o parts[i]]
           f == CHOOSE g : joins(g, n)
           there == {m \in 0..n : \E g : joins(g, m)}
           good == {m \in 0..n : m = 0 \/ Laid(f[m], parts, m)}
<1>1. n \in Nat
  BY ListIs
<1>2. FlattenSeq(parts) = IF n = 0 THEN parts ELSE f[n]
  BY ListIs DEF FlattenSeq
<1> HIDE DEF n
<1>3. ASSUME NEW m \in 0..n, \A k \in 0..n : k < m => k \in there
      PROVE  m \in there
  <2>1. CASE m = 0
    <3>1. joins(<<>>, 0)
      OBVIOUS
    <3> HIDE DEF joins
    <3> QED BY <2>1, <3>1
  <2>2. CASE m # 0
    <3>1. m - 1 \in 0..n /\ m - 1 < m
      BY <1>1, <2>2
    <3>2. PICK g : joins(g, m - 1)
      <4> HIDE DEF joins
      <4> QED BY <1>3, <3>1
    <3> DEFINE h == [i \in 1..m |-> IF i = 1 THEN parts[i] ELSE g[i - 1] \o parts[i]]
    <3>3. \A i \in 1..m - 1 : h[i] = g[i]
      <4>1. \A i \in 1..m - 1 : i \in 1..m
        BY <3>1
      <4> QED BY <3>2, <4>1
    <3>4. \A i \in 1..m : i # 1 => h[i - 1] = g[i - 1]
      <4>1. \A i \in 1..m : i # 1 => i - 1 \in 1..m - 1
        BY <3>1
      <4> HIDE DEF h
      <4> QED BY <3>3, <4>1
    <3>5. joins(h, m)
      BY <3>4
    <3> HIDE DEF h, joins
    <3> QED BY <3>5
  <2> QED BY <2>1, <2>2
<1>4. \A m \in 0..n : m \in there
  <2> HIDE DEF there
  <2> QED BY <1>1, <1>3, CountingUp
<1>5. joins(f, n)
  <2>1. \E g : joins(g, n)
    <3> HIDE DEF joins
    <3> QED BY <1>1, <1>4
  <2> HIDE DEF joins
  <2> QED BY <2>1
<1>6. \A i \in 1..n : f[i] = IF i = 1 THEN parts[i] ELSE f[i - 1] \o parts[i]
  <2> HIDE DEF f
  <2> QED BY <1>5
<1> HIDE DEF f, joins, there
<1>7. ASSUME NEW m \in 0..n, \A k \in 0..n : k < m => k \in good
      PROVE  m \in good
  <2>1. CASE m = 0
    BY <2>1
  <2>2. CASE m # 0
    <3>1. m \in 1..n /\ m - 1 \in 0..n /\ m - 1 < m
      BY <1>1, <2>2
    <3>2. \A i \in 1..n : IsSeq(parts[i])
      BY DEF n
    <3>3. \E before : Laid(before, parts, m - 1) /\ f[m] = before \o parts[m]
      <4>1. CASE m = 1
        <5>1. IsSeq(<<>>) /\ Len(<<>>) = 0
          <6>1. <<>> = [i \in 1..0 |-> (<<>>)[i]]
            OBVIOUS
          <6> QED BY <6>1, IsAList
        <5>2. Laid(<<>>, parts, 0)
          BY <5>1 DEF Laid
        <5>3. parts[1] = <<>> \o parts[1]
          <6>1. parts[1] \in Seq(Range(parts[1]))
            BY <3>1, <3>2, <4>1 DEF IsSeq
          <6> QED BY <6>1, ConcatEmptySeq
        <5>4. f[1] = parts[1]
          BY <1>6, <3>1, <4>1
        <5>5. m - 1 = 0 /\ f[m] = <<>> \o parts[m]
          BY <4>1, <5>3, <5>4
        <5> QED BY <5>2, <5>5
      <4>2. CASE m # 1
        <5>1. f[m] = f[m - 1] \o parts[m]
          BY <1>6, <3>1, <4>2
        <5>2. Laid(f[m - 1], parts, m - 1)
          <6>1. m - 1 # 0 /\ m - 1 \in good
            BY <1>7, <3>1, <4>2
          <6> QED BY <6>1
        <5> QED BY <5>1, <5>2
      <4> QED BY <4>1, <4>2
    <3>4. Laid(f[m], parts, m)
      BY <1>1, <3>1, <3>2, <3>3, LaidOneMore
    <3> QED BY <3>1, <3>4
  <2> QED BY <2>1, <2>2
<1>8. \A m \in 0..n : m \in good
  <2> HIDE DEF good
  <2> QED BY <1>1, <1>7, CountingUp
<1>9. n # 0 => Laid(f[n], parts, n)
  BY <1>1, <1>8
<1>10. n = 0 => Laid(parts, parts, n)
  BY DEF Laid, n
<1> QED BY <1>2, <1>9, <1>10 DEF n

\* What is left when the sections that are read are cut at the marks.
Headed(lines, names) ==
    /\ IsSeq(lines)
    /\ \A p \in 1..Len(lines) :
          lines[p][1] = "section" => \E name \in names : lines[p] = <<"section", name>>

Unmarked(lines) == IsSeq(lines) /\ \A p \in 1..Len(lines) : lines[p][1] # "section"

LEMMA MaxIs ==
    ASSUME NEW n \in Nat, NEW T \in SUBSET (1..n), T # {}
    PROVE  Max(T) \in T /\ \A y \in T : y <= Max(T)
<1> DEFINE back == {d \in 0..n : n - d \in T}
<1>1. back \in SUBSET Nat /\ back # {}
  <2>1. PICK x \in T : TRUE
    OBVIOUS
  <2>2. n - x \in 0..n /\ n - (n - x) = x
    OBVIOUS
  <2>3. n - x \in back
    BY <2>1, <2>2
  <2>4. \A d \in 0..n : d \in Nat
    OBVIOUS
  <2> QED BY <2>3, <2>4
<1>2. PICK d \in back : \A e \in back : d <= e
  <2> HIDE DEF back
  <2> QED BY <1>1, Least
<1>3. n - d \in T /\ \A y \in T : y <= n - d
  <2>1. n - d \in T /\ d \in Nat
    OBVIOUS
  <2>2. ASSUME NEW y \in T PROVE y <= n - d
    <3>1. y \in 1..n /\ n - y \in 0..n /\ n - (n - y) = y
      OBVIOUS
    <3>2. n - y \in back
      BY <3>1
    <3>3. d <= n - y
      <4> HIDE DEF back
      <4> QED BY <1>2, <3>2
    <3> QED BY <2>1, <3>1, <3>3
  <2> QED BY <2>1, <2>2
<1>4. \E x \in T : \A y \in T : x >= y
  <2>1. \A y \in T : y \in Nat
    OBVIOUS
  <2> QED BY <1>3, <2>1
<1>5. Max(T) \in T /\ \A y \in T : Max(T) >= y
  BY <1>4 DEF Max
<1> QED BY <1>5

\* A section more: it is read as it was printed, and the others are what they
\* were.
Adds(lines, names, other, more) ==
    /\ Headed(lines \o Section(other, more), names \cup {other})
    /\ SectionOf(lines \o Section(other, more), other) = more
    /\ \A name \in names :
          SectionOf(lines \o Section(other, more), name) = SectionOf(lines, name)

LEMMA SectionAdded ==
    ASSUME NEW lines, NEW names, NEW other, NEW more,
           Headed(lines, names), other \notin names, Unmarked(more)
    PROVE  Adds(lines, names, other, more)
<1> DEFINE section == Section(other, more)
           long == lines \o section
           mark == <<"section", other>>
           n == Len(lines)
           Heads(s, name) == {i \in DOMAIN s : s[i] = <<"section", name>>}
           Following(s, i) == {j \in DOMAIN s : j > i /\ s[j][1] = "section"}
<1>1. IsSeq(section) /\ Len(section) = Len(more) + 1 /\ section[1] = mark
      /\ \A k \in 1..Len(more) : section[1 + k] = more[k]
  <2>1. IsSeq(<<mark>>) /\ Len(<<mark>>) = 1 /\ (<<mark>>)[1] = mark
    <3>1. <<mark>> \in Seq({mark})
      OBVIOUS
    <3> QED BY <3>1, InSeqIsAList
  <2>2. IsSeq(more) /\ Len(more) \in Nat
    BY ListIs DEF Unmarked
  <2>3. section = <<mark>> \o more
    BY DEF Section
  <2>4. /\ IsSeq(<<mark>> \o more)
        /\ Len(<<mark>> \o more) = Len(<<mark>>) + Len(more)
        /\ \A i \in 1..Len(<<mark>>) : (<<mark>> \o more)[i] = (<<mark>>)[i]
        /\ \A k \in 1..Len(more) : (<<mark>> \o more)[Len(<<mark>>) + k] = more[k]
    <3> HIDE DEF mark
    <3> QED BY <2>1, <2>2, JoinIs
  <2> HIDE DEF section, mark
  <2> QED BY <2>1, <2>2, <2>3, <2>4
<1> HIDE DEF section
<1>2. n \in Nat /\ Len(more) \in Nat /\ DOMAIN lines = 1..n
  BY ListIs DEF Headed, Unmarked
<1>3. /\ IsSeq(long) /\ Len(long) = n + 1 + Len(more)
      /\ \A i \in 1..n : long[i] = lines[i]
      /\ long[n + 1] = mark
      /\ \A k \in 1..Len(more) : long[n + 1 + k] = more[k]
      /\ \A p \in 1..Len(long) : p \in 1..n \/ p = n + 1 \/ \E k \in 1..Len(more) : p = n + 1 + k
  <2>1. /\ IsSeq(long) /\ Len(long) = n + Len(section)
        /\ \A i \in 1..n : long[i] = lines[i]
        /\ \A k \in 1..Len(section) : long[n + k] = section[k]
    <3>1. IsSeq(lines) /\ IsSeq(section)
      BY <1>1 DEF Headed
    <3> QED BY <3>1, JoinIs
  <2>2. 1 \in 1..Len(section) /\ \A k \in 1..Len(more) : 1 + k \in 1..Len(section) /\ n + (1 + k) = n + 1 + k
    BY <1>1, <1>2
  <2>3. \A p \in 1..(n + 1 + Len(more)) : p \in 1..n \/ p = n + 1
                                            \/ (p - (n + 1) \in 1..Len(more) /\ p = n + 1 + (p - (n + 1)))
    BY <1>2
  <2> HIDE DEF long, mark, n
  <2>4. Len(long) = n + 1 + Len(more)
    BY <1>1, <1>2, <2>1
  <2> QED BY <1>1, <2>1, <2>2, <2>3, <2>4
<1>4. DOMAIN long = 1..Len(long)
  BY <1>3, ListIs
<1>5. \A k \in 1..Len(more) : more[k][1] # "section"
  BY DEF Unmarked
<1>6. \A p \in 1..n : lines[p][1] = "section" => \E name \in names : lines[p] = <<"section", name>>
  BY DEF Headed
<1> HIDE DEF long
<1>7. Headed(long, names \cup {other})
  <2>1. ASSUME NEW p \in 1..Len(long), long[p][1] = "section"
        PROVE  \E name \in names \cup {other} : long[p] = <<"section", name>>
    <3>1. CASE p \in 1..n
      BY <1>3, <1>6, <2>1, <3>1
    <3>2. CASE p = n + 1
      BY <1>3, <3>2
    <3>3. CASE \E k \in 1..Len(more) : p = n + 1 + k
      BY <1>3, <1>5, <2>1, <3>3
    <3> QED BY <1>3, <3>1, <3>2, <3>3
  <2> QED BY <1>3, <2>1 DEF Headed
<1>8. SectionOf(long, other) = more
  <2>1. Heads(long, other) = {n + 1}
    <3>1. ASSUME NEW p \in 1..Len(long), long[p] = <<"section", other>>
          PROVE  p = n + 1
      <4>1. long[p][1] = "section" /\ long[p][2] = other
        BY <3>1
      <4>2. CASE p \in 1..n
        <5>1. PICK name \in names : lines[p] = <<"section", name>>
          BY <1>3, <1>6, <4>1, <4>2
        <5>2. lines[p][2] = name
          BY <5>1
        <5> QED BY <1>3, <4>1, <4>2, <5>2
      <4>3. CASE \E k \in 1..Len(more) : p = n + 1 + k
        BY <1>3, <1>5, <4>1, <4>3
      <4> QED BY <1>3, <4>2, <4>3
    <3>2. n + 1 \in 1..Len(long)
      BY <1>2, <1>3
    <3> QED BY <1>3, <1>4, <3>1, <3>2
  <2>2. Max({n + 1}) = n + 1
    BY <1>2 DEF Max
  <2>3. Following(long, n + 1) = {}
    <3>1. ASSUME NEW p \in 1..Len(long), p > n + 1
          PROVE  long[p][1] # "section"
      <4>1. PICK k \in 1..Len(more) : p = n + 1 + k
        BY <1>2, <1>3, <3>1
      <4> QED BY <1>3, <1>5, <4>1
    <3> QED BY <1>4, <3>1
  <2>4. SectionOf(long, other) = SubSeq(long, (n + 1) + 1, Len(long))
    <3>1. SectionOf(long, other) =
             IF Heads(long, other) = {} THEN <<>>
             ELSE SubSeq(long, Max(Heads(long, other)) + 1,
                         IF Following(long, Max(Heads(long, other))) = {} THEN Len(long)
                         ELSE Min(Following(long, Max(Heads(long, other)))) - 1)
      BY DEF SectionOf
    <3> HIDE DEF Heads, Following
    <3> QED BY <2>1, <2>2, <2>3, <3>1
  <2> DEFINE read == SubSeq(long, (n + 1) + 1, Len(long))
  <2>5. /\ read \in Seq(Range(long)) /\ Len(read) = Len(more)
        /\ \A k \in 1..Len(more) : read[k] = more[k]
    <3>1. \A j \in (n + 1) + 1..Len(long) : long[j] \in Range(long)
      <4>1. \A j \in (n + 1) + 1..Len(long) : j \in DOMAIN long
        BY <1>2, <1>4
      <4> QED BY <4>1 DEF Range
    <3>2. (n + 1) + 1 \in Int /\ Len(long) \in Int
      BY <1>2, <1>3
    <3>3. /\ read \in Seq(Range(long))
          /\ Len(read) = IF (n + 1) + 1 <= Len(long) THEN Len(long) - ((n + 1) + 1) + 1 ELSE 0
          /\ \A k \in 1..Len(long) - ((n + 1) + 1) + 1 : read[k] = long[(n + 1) + 1 + k - 1]
      BY <3>1, <3>2, SubSeqProperties
    <3>4. \A k \in 1..Len(more) : k \in 1..Len(long) - ((n + 1) + 1) + 1 /\ (n + 1) + 1 + k - 1 = n + 1 + k
      BY <1>2, <1>3
    <3> HIDE DEF read
    <3>5. Len(read) = Len(more)
      BY <1>2, <1>3, <3>3
    <3> QED BY <1>3, <3>3, <3>4, <3>5
  <2> HIDE DEF read
  <2>6. IsSeq(read) /\ IsSeq(more)
    BY <2>5, InSeqIsAList DEF Unmarked
  <2>7. read = [k \in 1..Len(read) |-> read[k]] /\ more = [k \in 1..Len(more) |-> more[k]]
    BY <2>6, ListIs
  <2>8. read = more
    BY <2>5, <2>7
  <2> QED BY <2>4, <2>8 DEF read
<1>9. ASSUME NEW name \in names
      PROVE  SectionOf(long, name) = SectionOf(lines, name)
  <2> DEFINE heads == Heads(lines, name)
             i == Max(heads)
             old == Following(lines, i)
             new == Following(long, i)
  <2>1. Heads(long, name) = heads
    <3>1. ASSUME NEW p \in 1..Len(long), long[p] = <<"section", name>>
          PROVE  p \in 1..n
      <4>1. long[p][1] = "section" /\ long[p][2] = name
        BY <3>1
      <4>2. p # n + 1
        <5>1. mark[2] = other
          OBVIOUS
        <5> HIDE DEF mark
        <5> QED BY <1>3, <4>1, <5>1
      <4>3. CASE \E k \in 1..Len(more) : p = n + 1 + k
        BY <1>3, <1>5, <4>1, <4>3
      <4> QED BY <1>3, <4>2, <4>3
    <3>2. \A p \in 1..n : p \in 1..Len(long)
      BY <1>2, <1>3
    <3> HIDE DEF n
    <3> QED BY <1>2, <1>3, <1>4, <3>1, <3>2
  <2>2. SectionOf(long, name) =
           IF Heads(long, name) = {} THEN <<>>
           ELSE SubSeq(long, Max(Heads(long, name)) + 1,
                       IF Following(long, Max(Heads(long, name))) = {} THEN Len(long)
                       ELSE Min(Following(long, Max(Heads(long, name)))) - 1)
    BY DEF SectionOf
  <2>3. SectionOf(lines, name) =
           IF heads = {} THEN <<>>
           ELSE SubSeq(lines, i + 1, IF old = {} THEN n ELSE Min(old) - 1)
    BY DEF SectionOf
  <2>4. CASE heads = {}
    <3> HIDE DEF heads, Heads
    <3> QED BY <2>1, <2>2, <2>3, <2>4
  <2>5. CASE heads # {}
    <3>1. heads \in SUBSET (1..n)
      BY <1>2
    <3>2. i \in 1..n
      <4>1. i \in heads
        <5> HIDE DEF heads, n
        <5> QED BY <1>2, <2>5, <3>1, MaxIs
      <4> HIDE DEF i
      <4> QED BY <1>2, <4>1
    <3> HIDE DEF i, heads
    <3>3. \A p : p \in new <=> (p \in old \/ p = n + 1)
      <4>1. ASSUME NEW p \in new PROVE p \in old \/ p = n + 1
        <5>1. p \in 1..Len(long) /\ p > i /\ long[p][1] = "section"
          BY <1>4
        <5>2. CASE p \in 1..n
          BY <1>2, <1>3, <5>1, <5>2
        <5>3. CASE \E k \in 1..Len(more) : p = n + 1 + k
          <6>1. PICK k \in 1..Len(more) : p = n + 1 + k
            BY <5>3
          <6> HIDE DEF new, old, n
          <6> QED BY <1>3, <1>5, <5>1, <6>1
        <5> HIDE DEF new, old
        <5> QED BY <1>3, <5>1, <5>2, <5>3
      <4>2. ASSUME NEW p \in old PROVE p \in new
        <5>1. p \in 1..n /\ p > i /\ lines[p][1] = "section" /\ p \in 1..Len(long)
          BY <1>2, <1>3
        <5> QED BY <1>3, <1>4, <5>1
      <4>3. n + 1 \in new
        <5>1. n + 1 \in 1..Len(long) /\ n + 1 > i /\ long[n + 1][1] = "section"
          BY <1>2, <1>3, <3>2
        <5> QED BY <1>4, <5>1
      <4> HIDE DEF new, old
      <4> QED BY <4>1, <4>2, <4>3
    <3>4. old \in SUBSET (1..n)
      BY <1>2
    <3>5. new \in SUBSET (1..n + 1) /\ new \in SUBSET Nat /\ new # {}
      <4> HIDE DEF new, old, n
      <4>1. \A p \in new : p \in 1..n + 1 /\ p \in Nat
        <5>1. \A p \in 1..n : p \in 1..n + 1 /\ p \in Nat
          BY <1>2
        <5>2. n + 1 \in 1..n + 1 /\ n + 1 \in Nat
          BY <1>2
        <5>3. \A p \in old : p \in 1..n
          BY <3>4
        <5> QED BY <3>3, <5>1, <5>2, <5>3
      <4>2. n + 1 \in new
        BY <3>3
      <4> QED BY <4>1, <4>2
    <3>6. Min(new) - 1 = IF old = {} THEN n ELSE Min(old) - 1
      <4> HIDE DEF new, old
      <4>1. Min(new) \in new /\ \A y \in new : Min(new) <= y
        BY <3>5, MinIs
      <4>2. CASE old = {}
        BY <1>2, <3>3, <4>1, <4>2
      <4>3. CASE old # {}
        <5>1. Min(old) \in old /\ \A y \in old : Min(old) <= y
          <6>1. old \in SUBSET Nat
            BY <1>2, <3>4
          <6> QED BY <4>3, <6>1, MinIs
        <5>2. Min(old) \in 1..n /\ Min(old) \in new
          BY <3>3, <3>4, <5>1
        <5>3. Min(new) <= Min(old) /\ Min(new) \in old
          BY <1>2, <3>3, <4>1, <5>2
        <5>4. Min(old) <= Min(new) /\ Min(new) \in 1..n
          BY <3>4, <5>1, <5>3
        <5>5. Min(new) = Min(old)
          BY <5>2, <5>3, <5>4
        <5> QED BY <4>3, <5>5
      <4> QED BY <4>2, <4>3
    <3>7. Min(new) - 1 \in 0..n
      <4> HIDE DEF new
      <4>1. Min(new) \in new /\ \A y \in new : Min(new) <= y
        BY <3>5, MinIs
      <4>2. Min(new) \in 1..n + 1
        BY <3>5, <4>1
      <4> QED BY <1>2, <4>2
    <3> DEFINE end == Min(new) - 1
    <3>8. SectionOf(long, name) = SubSeq(long, i + 1, end)
      <4>1. Max(Heads(long, name)) = i
        BY <2>1 DEF i
      <4> HIDE DEF Heads
      <4>2. Following(long, i) # {} /\ Heads(long, name) # {}
        BY <2>1, <2>5, <3>5
      <4> HIDE DEF Following
      <4> QED BY <2>2, <4>1, <4>2
    <3>9. SectionOf(lines, name) = SubSeq(lines, i + 1, end)
      <4> HIDE DEF old, new, n
      <4>1. (IF old = {} THEN n ELSE Min(old) - 1) = end
        BY <3>6
      <4> HIDE DEF end
      <4> QED BY <2>3, <2>5, <4>1
    <3> HIDE DEF end, old, new
    <3>10. end \in 0..n
      BY <3>7 DEF end
    <3>11. \A j \in i + 1..end : j \in 1..n /\ j \in 1..Len(long) /\ long[j] = lines[j]
      BY <1>2, <1>3, <3>2, <3>10
    <3>12. /\ SubSeq(lines, i + 1, end) \in Seq(Range(lines))
           /\ Len(SubSeq(lines, i + 1, end)) = IF i + 1 <= end THEN end - (i + 1) + 1 ELSE 0
           /\ \A k \in 1..end - (i + 1) + 1 : SubSeq(lines, i + 1, end)[k] = lines[i + 1 + k - 1]
      <4>1. \A j \in i + 1..end : lines[j] \in Range(lines)
        BY <1>2, <3>11 DEF Range
      <4>2. i + 1 \in Int /\ end \in Int
        BY <1>2, <3>2, <3>10
      <4> QED BY <4>1, <4>2, SubSeqProperties
    <3>13. /\ SubSeq(long, i + 1, end) \in Seq(Range(long))
           /\ Len(SubSeq(long, i + 1, end)) = IF i + 1 <= end THEN end - (i + 1) + 1 ELSE 0
           /\ \A k \in 1..end - (i + 1) + 1 : SubSeq(long, i + 1, end)[k] = long[i + 1 + k - 1]
      <4>1. \A j \in i + 1..end : long[j] \in Range(long)
        BY <1>4, <3>11 DEF Range
      <4>2. i + 1 \in Int /\ end \in Int
        BY <1>2, <3>2, <3>10
      <4> QED BY <4>1, <4>2, SubSeqProperties
    <3> DEFINE l == Len(SubSeq(lines, i + 1, end))
    <3>14. /\ SubSeq(lines, i + 1, end) = [k \in 1..l |-> SubSeq(lines, i + 1, end)[k]]
           /\ SubSeq(long, i + 1, end) = [k \in 1..l |-> SubSeq(long, i + 1, end)[k]]
      <4>1. IsSeq(SubSeq(lines, i + 1, end)) /\ IsSeq(SubSeq(long, i + 1, end))
        BY <3>12, <3>13, InSeqIsAList
      <4>2. Len(SubSeq(long, i + 1, end)) = Len(SubSeq(lines, i + 1, end))
        BY <3>12, <3>13
      <4> QED BY <4>1, <4>2, ListIs
    <3>15. \A k \in 1..l : SubSeq(lines, i + 1, end)[k] = SubSeq(long, i + 1, end)[k]
      <4>1. \A k \in 1..l : k \in 1..end - (i + 1) + 1 /\ i + 1 + k - 1 \in i + 1..end
        BY <1>2, <3>2, <3>10, <3>12
      <4> HIDE DEF l
      <4> QED BY <3>11, <3>12, <3>13, <4>1
    <3> QED BY <3>8, <3>9, <3>14, <3>15
  <2> QED BY <2>4, <2>5
<1> QED BY <1>7, <1>8, <1>9 DEF long, section, Adds

LEMMA IsUnmarked ==
    ASSUME NEW n \in Nat, NEW s, s = [i \in 1..n |-> s[i]], \A i \in 1..n : s[i][1] # "section"
    PROVE  Unmarked(s) /\ Len(s) = n
<1>1. IsSeq(s) /\ Len(s) = n
  BY IsAList
<1> QED BY <1>1 DEF Unmarked

LEMMA UnmarkedJoin ==
    ASSUME NEW a, NEW b, Unmarked(a), Unmarked(b)
    PROVE  Unmarked(a \o b)
<1>1. IsSeq(a) /\ IsSeq(b)
  BY DEF Unmarked
<1> DEFINE ab == a \o b
<1>2. /\ IsSeq(ab)
      /\ \A i \in 1..Len(a) : ab[i] = a[i]
      /\ \A k \in 1..Len(b) : ab[Len(a) + k] = b[k]
      /\ \A p \in 1..Len(ab) : p \in 1..Len(a) \/ \E k \in 1..Len(b) : p = Len(a) + k
  BY <1>1, JoinIs
<1> HIDE DEF ab
<1>3. ASSUME NEW p \in 1..Len(ab) PROVE ab[p][1] # "section"
  <2>1. CASE p \in 1..Len(a)
    BY <1>2, <2>1 DEF Unmarked
  <2>2. CASE \E k \in 1..Len(b) : p = Len(a) + k
    <3>1. PICK k \in 1..Len(b) : p = Len(a) + k
      BY <2>2
    <3>2. ab[p] = b[k] /\ b[k][1] # "section"
      BY <1>2, <3>1 DEF Unmarked
    <3> QED BY <3>2
  <2> QED BY <1>2, <2>1, <2>2
<1>4. Unmarked(ab)
  BY <1>2, <1>3 DEF Unmarked
<1> QED BY <1>4 DEF ab

LEMMA UnmarkedFlat ==
    ASSUME NEW parts, IsSeq(parts), \A i \in 1..Len(parts) : Unmarked(parts[i])
    PROVE  Unmarked(FlattenSeq(parts)) /\ Laid(FlattenSeq(parts), parts, Len(parts))
<1>1. Laid(FlattenSeq(parts), parts, Len(parts))
  BY FlatIsLaid DEF Unmarked
<1>2. \A i \in 1..Len(parts) : \A k \in 1..Len(parts[i]) : parts[i][k][1] # "section"
  BY DEF Unmarked
<1> DEFINE flat == FlattenSeq(parts)
<1> HIDE DEF flat
<1>3. ASSUME NEW p \in 1..Len(flat) PROVE flat[p][1] # "section"
  <2>1. PICK i \in 1..Len(parts) : \E k \in 1..Len(parts[i]) : flat[p] = parts[i][k]
    BY <1>1 DEF Laid, flat
  <2> QED BY <1>2, <2>1
<1>4. Unmarked(flat)
  BY <1>1, <1>3 DEF Laid, Unmarked, flat
<1> QED BY <1>1, <1>4 DEF flat

\* What is printed of one Match block.
LEMMA ResolvedLinesAre ==
    ASSUME NEW machine, NEW block, IsMachine(machine)
    PROVE  LET part == ResolvedLines(machine, block)
               given == Given(machine, Context(machine, block))
               n == Len(machine.directives)
           IN /\ Unmarked(part) /\ 1 \in 1..Len(part)
              /\ part[1][1] \in {"CONTEXT", "MANUAL"}
              /\ \A k \in 2..Len(part) : part[k][1] \notin {"CONTEXT", "MANUAL"}
              /\ \/ Len(part) = 2 /\ part[2][1] = "REASON"
                 \/ /\ Len(part) = 2 + n /\ part[2][1] = "CRITERIA"
                    /\ \A k \in 1..n : part[2 + k] = <<"SET", given[k][1], given[k][2]>>
              /\ n \in Nat /\ DOMAIN given = 1..n
<1> DEFINE context == Context(machine, block)
           given == Given(machine, context)
           n == Len(machine.directives)
           part == ResolvedLines(machine, block)
           manual == << <<"MANUAL", block.line>>, <<"REASON">> >>
           front == << <<"CONTEXT", context>>, <<"CRITERIA", block.line>> >>
           sets == [k \in 1..n |-> <<"SET", given[k][1], given[k][2]>>]
<1>1. n \in Nat /\ DOMAIN machine.directives = 1..n
  BY ListIs DEF IsMachine
<1>2. DOMAIN given = 1..n
  <2> HIDE DEF context, n
  <2> QED BY <1>1 DEF Given
<1>3. part = manual \/ part = front \o sets
  <2> HIDE DEF given
  <2>1. part = IF block.form # "plain" \/ ~Claimed(machine, block).possible \/ ~machine.contexts
               THEN manual ELSE front \o [i \in DOMAIN given |-> <<"SET", given[i][1], given[i][2]>>]
    BY DEF ResolvedLines, given
  <2> HIDE DEF front, manual, n
  <2> QED BY <1>2, <2>1
<1> HIDE DEF given, context, n, part
<1>4. CASE part = manual
  <2>1. manual \in Seq({<<"MANUAL", block.line>>, <<"REASON">>}) /\ Len(manual) = 2
    OBVIOUS
  <2>2. IsSeq(manual)
    <3> HIDE DEF manual
    <3> QED BY <2>1, InSeqIsAList
  <2>3. manual[1][1] = "MANUAL" /\ manual[2][1] = "REASON"
    OBVIOUS
  <2> HIDE DEF manual
  <2>4. Unmarked(part)
    <3>1. \A p \in 1..2 : p = 1 \/ p = 2
      OBVIOUS
    <3> QED BY <1>4, <2>1, <2>2, <2>3, <3>1 DEF Unmarked
  <2>5. 1 \in 1..Len(part) /\ \A k \in 2..Len(part) : k = 2
    BY <1>4, <2>1
  <2>6. part[1][1] \in {"CONTEXT", "MANUAL"} /\ Len(part) = 2 /\ part[2][1] = "REASON"
        /\ \A k \in 2..Len(part) : part[k][1] \notin {"CONTEXT", "MANUAL"}
    BY <1>4, <2>1, <2>3, <2>5
  <2> QED BY <1>1, <1>2, <2>4, <2>5, <2>6 DEF part, given, context, n
<1>5. CASE part = front \o sets
  <2>1. front \in Seq({<<"CONTEXT", context>>, <<"CRITERIA", block.line>>}) /\ Len(front) = 2
    OBVIOUS
  <2>2. IsSeq(front)
    <3> HIDE DEF front
    <3> QED BY <2>1, InSeqIsAList
  <2>3. front[1][1] = "CONTEXT" /\ front[2][1] = "CRITERIA"
    OBVIOUS
  <2>4. Unmarked(front)
    <3>1. \A p \in 1..2 : p = 1 \/ p = 2
      OBVIOUS
    <3> HIDE DEF front
    <3> QED BY <2>1, <2>2, <2>3, <3>1 DEF Unmarked
  <2>5. /\ \A k \in 1..n : sets[k] = <<"SET", given[k][1], given[k][2]>> /\ sets[k][1] = "SET"
        /\ sets = [k \in 1..n |-> sets[k]]
    OBVIOUS
  <2> HIDE DEF front, sets
  <2>6. Unmarked(sets) /\ Len(sets) = n
    BY <1>1, <2>5, IsUnmarked
  <2>7. Unmarked(part)
    BY <1>5, <2>4, <2>6, UnmarkedJoin
  <2>8. /\ Len(front \o sets) = Len(front) + Len(sets)
        /\ \A i \in 1..Len(front) : (front \o sets)[i] = front[i]
        /\ \A k \in 1..Len(sets) : (front \o sets)[Len(front) + k] = sets[k]
    BY <2>2, <2>6, JoinIs DEF Unmarked
  <2>9. Len(part) = 2 + n /\ part[1] = front[1] /\ part[2] = front[2]
        /\ \A k \in 1..n : part[2 + k] = sets[k]
    BY <1>5, <2>1, <2>6, <2>8
  <2>10. \A k \in 2..Len(part) : k = 2 \/ (k - 2 \in 1..n /\ k = 2 + (k - 2))
    BY <1>1, <2>9
  <2>11. \A k \in 2..Len(part) : part[k][1] \notin {"CONTEXT", "MANUAL"}
    BY <2>3, <2>5, <2>9, <2>10
  <2>12. 1 \in 1..Len(part) /\ part[1][1] \in {"CONTEXT", "MANUAL"} /\ part[2][1] = "CRITERIA"
    BY <1>1, <2>3, <2>9
  <2> QED BY <1>1, <1>2, <2>5, <2>7, <2>9, <2>11, <2>12 DEF part, given, context, n
<1> QED BY <1>3, <1>4, <1>5

\* What is printed of one account and one path.
LEMMA AccountLinesAre ==
    ASSUME NEW machine, NEW account, NEW template, IsMachine(machine)
    PROVE  LET lines == AccountLines(machine, account, template)
               path == template[account.user]
           IN /\ Unmarked(lines)
              /\ account.login /\ account.home /\ path \in DOMAIN machine.files /\ machine.files[path].seen =>
                    /\ 1 \in 1..Len(lines)
                    /\ lines[1] \in {<<"ACCOUNT", account.user, path>>, <<"UNREADABLE", account.user>>}
<1> DEFINE lines == AccountLines(machine, account, template)
           path == template[account.user]
           keys == machine.files[path].keys
           n == Len(keys)
           head == << <<"ACCOUNT", account.user, path>> >>
           own == [i \in 1..n |-> <<"KEY", keys[i]>>]
           left == << <<"UNREADABLE", account.user>> >>
           looked == account.login /\ account.home /\ path \in DOMAIN machine.files /\ machine.files[path].seen
<1>1. looked => n \in Nat /\ DOMAIN keys = 1..n
  BY ListIs DEF IsMachine
<1>2. \/ lines = <<>> /\ ~looked
      \/ looked /\ lines = head \o own
      \/ looked /\ lines = left
  <2>1. lines = IF ~looked THEN <<>>
                ELSE IF machine.files[path].readable /\ keys # <<>>
                     THEN head \o [i \in DOMAIN keys |-> <<"KEY", keys[i]>>] ELSE left
    BY DEF AccountLines
  <2> HIDE DEF lines, looked, head, left, n, keys
  <2> QED BY <1>1, <2>1
<1> HIDE DEF lines, looked
<1>3. CASE lines = <<>> /\ ~looked
  <2>1. Unmarked(<<>>)
    <3>1. <<>> = [i \in 1..0 |-> (<<>>)[i]]
      OBVIOUS
    <3>2. IsSeq(<<>>) /\ Len(<<>>) = 0
      BY <3>1, IsAList
    <3> QED BY <3>2 DEF Unmarked
  <2> QED BY <1>3, <2>1 DEF lines, looked
<1>4. CASE looked /\ lines = head \o own
  <2>1. head \in Seq({<<"ACCOUNT", account.user, path>>}) /\ Len(head) = 1
        /\ head[1] = <<"ACCOUNT", account.user, path>> /\ head[1][1] = "ACCOUNT"
    OBVIOUS
  <2>2. own = [i \in 1..n |-> own[i]] /\ \A i \in 1..n : own[i][1] = "KEY"
    OBVIOUS
  <2> HIDE DEF head, own, n
  <2>3. IsSeq(head)
    BY <2>1, InSeqIsAList
  <2>4. Unmarked(head)
    BY <2>1, <2>3 DEF Unmarked
  <2>5. Unmarked(own) /\ Len(own) = n
    BY <1>1, <1>4, <2>2, IsUnmarked
  <2>6. Unmarked(lines)
    BY <1>4, <2>4, <2>5, UnmarkedJoin
  <2>7. Len(lines) = 1 + n /\ lines[1] = head[1]
    <3>1. /\ Len(head \o own) = Len(head) + Len(own)
          /\ \A i \in 1..Len(head) : (head \o own)[i] = head[i]
      BY <2>3, <2>5, JoinIs DEF Unmarked
    <3> QED BY <1>4, <2>1, <2>5, <3>1
  <2>8. 1 \in 1..Len(lines)
    BY <1>1, <1>4, <2>7
  <2> QED BY <2>1, <2>6, <2>7, <2>8 DEF lines
<1>5. CASE looked /\ lines = left
  <2>1. left \in Seq({<<"UNREADABLE", account.user>>}) /\ Len(left) = 1
        /\ left[1] = <<"UNREADABLE", account.user>> /\ left[1][1] = "UNREADABLE"
    OBVIOUS
  <2> HIDE DEF left
  <2>2. IsSeq(left)
    BY <2>1, InSeqIsAList
  <2>3. Unmarked(left)
    BY <2>1, <2>2 DEF Unmarked
  <2>4. 1 \in 1..Len(lines) /\ lines[1] = <<"UNREADABLE", account.user>> /\ Unmarked(lines)
    BY <1>5, <2>1, <2>3
  <2> QED BY <2>4 DEF lines
<1> QED BY <1>2, <1>3, <1>4, <1>5

LEMMA SweepLinesAre ==
    ASSUME NEW machine, IsMachine(machine)
    PROVE  LET lines == SweepLines(machine)
           IN /\ Unmarked(lines)
              /\ \A i \in DOMAIN machine.accounts, j \in DOMAIN machine.templates :
                    LET account == machine.accounts[i]
                        path == machine.templates[j][account.user]
                    IN account.login /\ account.home /\ path \in DOMAIN machine.files /\ machine.files[path].seen =>
                          \E p \in 1..Len(lines) :
                             lines[p] \in {<<"ACCOUNT", account.user, path>>, <<"UNREADABLE", account.user>>}
<1> DEFINE accounts == machine.accounts
           templates == machine.templates
           row(i) == [j \in DOMAIN templates |-> AccountLines(machine, accounts[i], templates[j])]
           rows == [i \in DOMAIN accounts |-> FlattenSeq(row(i))]
           lines == SweepLines(machine)
           path(i, j) == templates[j][accounts[i].user]
           looked(i, j) == /\ accounts[i].login /\ accounts[i].home /\ path(i, j) \in DOMAIN machine.files
                           /\ machine.files[path(i, j)].seen
           told(i, j) == {<<"ACCOUNT", accounts[i].user, path(i, j)>>, <<"UNREADABLE", accounts[i].user>>}
<1>1. /\ Len(accounts) \in Nat /\ DOMAIN accounts = 1..Len(accounts)
      /\ Len(templates) \in Nat /\ DOMAIN templates = 1..Len(templates)
  BY ListIs DEF IsMachine
<1>2. ASSUME NEW i \in DOMAIN accounts
      PROVE  /\ Unmarked(rows[i])
             /\ \A j \in DOMAIN templates : looked(i, j) =>
                   \E p \in 1..Len(rows[i]) : rows[i][p] \in told(i, j)
  <2> DEFINE r == row(i)
  <2>1. r = [j \in 1..Len(templates) |-> r[j]]
    BY <1>1
  <2>2. IsSeq(r) /\ Len(r) = Len(templates)
    <3> HIDE DEF r, templates
    <3> QED BY <1>1, <2>1, IsAList
  <2>3. \A j \in DOMAIN templates :
           Unmarked(r[j]) /\ (looked(i, j) => 1 \in 1..Len(r[j]) /\ r[j][1] \in told(i, j))
    BY AccountLinesAre
  <2>4. rows[i] = FlattenSeq(r)
    OBVIOUS
  <2> HIDE DEF r, rows, told, looked
  <2>5. Unmarked(rows[i]) /\ Laid(rows[i], r, Len(templates))
    BY <1>1, <2>2, <2>3, <2>4, UnmarkedFlat
  <2>6. ASSUME NEW j \in DOMAIN templates, looked(i, j)
        PROVE  \E p \in 1..Len(rows[i]) : rows[i][p] \in told(i, j)
    <3>1. 1 \in 1..Len(r[j]) /\ r[j][1] \in told(i, j) /\ IsSeq(r[j]) /\ j \in 1..Len(templates)
      BY <1>1, <2>3, <2>6 DEF Unmarked
    <3>2. PICK o \in Nat : /\ o + Len(r[j]) <= Len(rows[i])
                           /\ \A k \in 1..Len(r[j]) : rows[i][o + k] = r[j][k]
      BY <2>5, <3>1 DEF Laid
    <3>3. Len(r[j]) \in Nat /\ Len(rows[i]) \in Nat
      BY <2>5, <3>1, ListIs DEF Unmarked
    <3>4. o + 1 \in 1..Len(rows[i])
      BY <3>1, <3>2, <3>3
    <3> QED BY <3>1, <3>2, <3>4
  <2> QED BY <2>5, <2>6
<1>3. rows = [i \in 1..Len(accounts) |-> rows[i]]
  BY <1>1
<1>4. lines = FlattenSeq(rows)
  BY DEF SweepLines
<1> HIDE DEF rows, told, looked, lines
<1>5. IsSeq(rows) /\ Len(rows) = Len(accounts)
  BY <1>1, <1>3, IsAList
<1>6. Unmarked(lines) /\ Laid(lines, rows, Len(accounts))
  BY <1>1, <1>2, <1>4, <1>5, UnmarkedFlat
<1>7. ASSUME NEW i \in DOMAIN accounts, NEW j \in DOMAIN templates, looked(i, j)
      PROVE  \E p \in 1..Len(lines) : lines[p] \in told(i, j)
  <2>1. PICK q \in 1..Len(rows[i]) : rows[i][q] \in told(i, j)
    BY <1>2, <1>7
  <2>2. i \in 1..Len(accounts)
    BY <1>1
  <2>3. PICK o \in Nat : /\ o + Len(rows[i]) <= Len(lines)
                         /\ \A k \in 1..Len(rows[i]) : lines[o + k] = rows[i][k]
    BY <1>6, <2>2 DEF Laid
  <2>4. Len(rows[i]) \in Nat /\ Len(lines) \in Nat
    BY <1>2, <1>6, ListIs DEF Unmarked
  <2>5. o + q \in 1..Len(lines)
    BY <2>3, <2>4
  <2> QED BY <2>1, <2>3, <2>5
<1>8. \A i \in DOMAIN accounts, j \in DOMAIN templates :
         looked(i, j) => \E p \in 1..Len(lines) : lines[p] \in told(i, j)
  BY <1>7
<1> QED BY <1>6, <1>8 DEF lines, looked, told

\* What is printed of all Match blocks, one after the other.
Resolved(machine) ==
    FlattenSeq([i \in DOMAIN machine.blocks |-> ResolvedLines(machine, machine.blocks[i])])

LEMMA ResolvedAre ==
    ASSUME NEW machine, IsMachine(machine)
    PROVE  /\ Unmarked(Resolved(machine))
           /\ Len(machine.blocks) \in Nat /\ DOMAIN machine.blocks = 1..Len(machine.blocks)
           /\ Laid(Resolved(machine), [i \in DOMAIN machine.blocks |-> ResolvedLines(machine, machine.blocks[i])],
                   Len(machine.blocks))
<1> DEFINE n == Len(machine.blocks)
           parts == [i \in DOMAIN machine.blocks |-> ResolvedLines(machine, machine.blocks[i])]
<1>1. n \in Nat /\ DOMAIN machine.blocks = 1..n
  BY ListIs DEF IsMachine
<1>2. parts = [i \in 1..n |-> parts[i]]
  BY <1>1
<1>3. \A i \in DOMAIN machine.blocks : Unmarked(parts[i])
  BY ResolvedLinesAre
<1>4. Resolved(machine) = FlattenSeq(parts)
  BY DEF Resolved
<1> HIDE DEF parts, n
<1>5. IsSeq(parts) /\ Len(parts) = n
  BY <1>1, <1>2, IsAList
<1> QED BY <1>1, <1>3, <1>4, <1>5, UnmarkedFlat DEF parts, n

LEMMA OtherLinesAre ==
    ASSUME NEW machine, IsMachine(machine)
    PROVE  /\ Unmarked(machine.directives) /\ Unmarked(<< <<Unknown>> >>) /\ Unmarked(<<>>)
           /\ Unmarked([i \in DOMAIN machine.blocks |-> <<machine.blocks[i].line>>])
           /\ Unmarked(OwnLines(machine)) /\ Unmarked(ChangelogLines(machine))
           /\ Unmarked(UserKeyLines(machine))
<1>1. Unmarked(machine.directives)
  <2>1. IsSeq(machine.directives)
    BY DEF IsMachine
  <2>2. DOMAIN machine.directives = 1..Len(machine.directives)
    BY <2>1, ListIs
  <2> QED BY <2>1, <2>2 DEF IsMachine, Unmarked
<1>2. \A line : line[1] # "section" => Unmarked(<<line>>)
  <2> TAKE line
  <2> HAVE line[1] # "section"
  <2> DEFINE s == <<line>>
  <2>1. s \in Seq({line}) /\ Len(s) = 1 /\ s[1] = line
    OBVIOUS
  <2> HIDE DEF s
  <2>2. IsSeq(s)
    BY <2>1, InSeqIsAList
  <2>3. Unmarked(s)
    BY <2>1, <2>2 DEF Unmarked
  <2> QED BY <2>3 DEF s
<1>3. Unmarked(<<>>)
  <2>1. <<>> = [i \in 1..0 |-> (<<>>)[i]]
    OBVIOUS
  <2>2. IsSeq(<<>>) /\ Len(<<>>) = 0
    BY <2>1, IsAList
  <2> QED BY <2>2 DEF Unmarked
<1>4. Unmarked(<< <<Unknown>> >>)
  <2>1. (<<Unknown>>)[1] # "section"
    BY DEF Unknown
  <2> QED BY <1>2, <2>1
<1>5. Unmarked([i \in DOMAIN machine.blocks |-> <<machine.blocks[i].line>>])
  <2> DEFINE s == [i \in DOMAIN machine.blocks |-> <<machine.blocks[i].line>>]
             n == Len(machine.blocks)
  <2>1. n \in Nat /\ DOMAIN machine.blocks = 1..n
    BY ListIs DEF IsMachine
  <2>2. s = [i \in 1..n |-> s[i]] /\ \A i \in 1..n : s[i][1] # "section"
    BY <2>1 DEF IsMachine
  <2> HIDE DEF s, n
  <2>3. Unmarked(s)
    BY <2>1, <2>2, IsUnmarked
  <2> QED BY <2>3 DEF s
<1>6. Unmarked(OwnLines(machine))
  <2> DEFINE path(j) == machine.templates[j][machine.own]
             keys(j) == machine.files[path(j)].keys
             n == Len(machine.templates)
             part(j) == IF path(j) \in DOMAIN machine.files /\ machine.files[path(j)].readable
                        THEN [i \in DOMAIN keys(j) |-> <<"KEY", keys(j)[i]>>] ELSE <<>>
             parts == [j \in DOMAIN machine.templates |-> part(j)]
  <2>1. n \in Nat /\ DOMAIN machine.templates = 1..n
    BY ListIs DEF IsMachine
  <2>2. \A j : Unmarked(part(j))
    <3> TAKE j
    <3>1. CASE path(j) \in DOMAIN machine.files /\ machine.files[path(j)].readable
      <4> DEFINE s == [i \in DOMAIN keys(j) |-> <<"KEY", keys(j)[i]>>]
                 m == Len(keys(j))
      <4>1. m \in Nat /\ DOMAIN keys(j) = 1..m
        BY <3>1, ListIs DEF IsMachine
      <4>2. s = [i \in 1..m |-> s[i]] /\ \A i \in 1..m : s[i][1] # "section"
        <5> HIDE DEF keys, m
        <5> QED BY <4>1
      <4>3. part(j) = s
        BY <3>1
      <4> HIDE DEF s, m, part
      <4> QED BY <4>1, <4>2, <4>3, IsUnmarked
    <3>2. CASE ~(path(j) \in DOMAIN machine.files /\ machine.files[path(j)].readable)
      BY <1>3, <3>2
    <3> QED BY <3>1, <3>2
  <2>3. OwnLines(machine) = FlattenSeq(parts)
    BY DEF OwnLines
  <2> HIDE DEF part, n
  <2>4. parts = [j \in 1..n |-> parts[j]] /\ \A j \in 1..n : Unmarked(parts[j])
    BY <2>1, <2>2
  <2> HIDE DEF parts
  <2>5. IsSeq(parts) /\ Len(parts) = n
    BY <2>1, <2>4, IsAList
  <2> QED BY <2>3, <2>4, <2>5, UnmarkedFlat
<1>7. Unmarked(ChangelogLines(machine))
  <2> DEFINE names == machine.package.names
             m == Len(names)
             s == [i \in DOMAIN names |-> <<"CVE", names[i]>>]
  <2>1. m \in Nat /\ DOMAIN names = 1..m
    BY ListIs DEF IsMachine
  <2>2. s = [i \in 1..m |-> s[i]] /\ \A i \in 1..m : s[i][1] # "section"
    <3> HIDE DEF m, names
    <3> QED BY <2>1
  <2>3. ChangelogLines(machine) = << <<"SOURCE">> >> \o s \/ ChangelogLines(machine) = << <<"NONE">> >>
    BY DEF ChangelogLines
  <2>4. (<<"SOURCE">>)[1] # "section" /\ (<<"NONE">>)[1] # "section"
    OBVIOUS
  <2> HIDE DEF s, m
  <2>5. Unmarked(s) /\ Unmarked(<< <<"SOURCE">> >>) /\ Unmarked(<< <<"NONE">> >>)
    BY <1>2, <2>1, <2>2, <2>4, IsUnmarked
  <2> QED BY <2>3, <2>5, UnmarkedJoin
<1>8. Unmarked(UserKeyLines(machine))
  <2> DEFINE n == Len(machine.private)
             part(k) == << <<"KEYFILE", k.user, k.path>>, <<"ENCRYPTED", k.user, k.path, k.stored>> >>
             parts == [i \in DOMAIN machine.private |-> part(machine.private[i])]
  <2>1. n \in Nat /\ DOMAIN machine.private = 1..n
    BY ListIs DEF IsMachine
  <2>2. \A k : Unmarked(part(k))
    <3> TAKE k
    <3> DEFINE s == part(k)
    <3>1. /\ s \in Seq({<<"KEYFILE", k.user, k.path>>, <<"ENCRYPTED", k.user, k.path, k.stored>>})
          /\ Len(s) = 2 /\ s[1][1] = "KEYFILE" /\ s[2][1] = "ENCRYPTED"
      OBVIOUS
    <3>2. \A p \in 1..2 : p = 1 \/ p = 2
      OBVIOUS
    <3> HIDE DEF s
    <3>3. IsSeq(s)
      BY <3>1, InSeqIsAList
    <3>4. Unmarked(s)
      BY <3>1, <3>2, <3>3 DEF Unmarked
    <3> QED BY <3>4 DEF s
  <2>3. UserKeyLines(machine) = FlattenSeq(parts)
    BY DEF UserKeyLines
  <2> HIDE DEF part, n
  <2>4. parts = [j \in 1..n |-> parts[j]] /\ \A j \in 1..n : Unmarked(parts[j])
    BY <2>1, <2>2
  <2> HIDE DEF parts
  <2>5. IsSeq(parts) /\ Len(parts) = n
    BY <2>1, <2>4, IsAList
  <2> QED BY <2>3, <2>4, <2>5, UnmarkedFlat
<1> QED BY <1>1, <1>3, <1>4, <1>5, <1>6, <1>7, <1>8

\* The script's transcript is read as it was printed: no section is taken for
\* another, or for a part of the one before.
LEMMA TranscriptIs ==
    ASSUME NEW machine, IsMachine(machine)
    PROVE  /\ SectionOf(Transcript(machine), "MATCH-RESOLVED") = Resolved(machine)
           /\ SectionOf(Transcript(machine), "ACCOUNTS") = SweepLines(machine)
<1> DEFINE global == IF machine.sshd THEN machine.directives ELSE << <<Unknown>> >>
           blocks == [i \in DOMAIN machine.blocks |-> <<machine.blocks[i].line>>]
           t1 == Section("SSHD-T", global)
           t2 == t1 \o Section("MATCH-BLOCKS", blocks)
           t3 == t2 \o Section("AUTHORIZED-KEYS", OwnLines(machine))
           t4 == t3 \o Section("MATCH-RESOLVED", Resolved(machine))
           t5 == t4 \o Section("CHANGELOG", ChangelogLines(machine))
           t6 == t5 \o Section("ACCOUNTS", SweepLines(machine))
           t7 == t6 \o Section("USER-KEYS", UserKeyLines(machine))
           t8 == t7 \o Section("END", <<>>)
<1>1. /\ Unmarked(global) /\ Unmarked(blocks) /\ Unmarked(OwnLines(machine)) /\ Unmarked(Resolved(machine))
      /\ Unmarked(ChangelogLines(machine)) /\ Unmarked(SweepLines(machine))
      /\ Unmarked(UserKeyLines(machine)) /\ Unmarked(<<>>)
  <2>1. Unmarked(SweepLines(machine))
    BY SweepLinesAre
  <2> QED BY <2>1, OtherLinesAre, ResolvedAre
<1>2. Transcript(machine) = t8
  BY DEF Transcript, Resolved
<1> HIDE DEF global, blocks
<1>3. Headed(t1, {"SSHD-T"})
  <2>1. Headed(<<>>, {})
    BY <1>1 DEF Unmarked, Headed
  <2>2. t1 = <<>> \o t1
    <3>1. t1 \in Seq(Range(t1))
      <4>1. IsSeq(<< <<"section", "SSHD-T">> >>)
        <5>1. << <<"section", "SSHD-T">> >> \in Seq({<<"section", "SSHD-T">>})
          OBVIOUS
        <5> QED BY <5>1, InSeqIsAList
      <4>2. IsSeq(global)
        BY <1>1 DEF Unmarked
      <4>3. t1 = << <<"section", "SSHD-T">> >> \o global
        BY DEF Section
      <4> HIDE DEF t1
      <4>4. IsSeq(t1)
        BY <4>1, <4>2, <4>3, JoinIs
      <4> QED BY <4>4 DEF IsSeq
    <3> HIDE DEF t1
    <3> QED BY <3>1, ConcatEmptySeq
  <2>3. Headed(<<>> \o Section("SSHD-T", global), {} \cup {"SSHD-T"})
    <3>1. Adds(<<>>, {}, "SSHD-T", global)
      BY <1>1, <2>1, SectionAdded
    <3> QED BY <3>1 DEF Adds
  <2>4. {} \cup {"SSHD-T"} = {"SSHD-T"}
    OBVIOUS
  <2> QED BY <2>2, <2>3, <2>4
<1> HIDE DEF t1
<1> DEFINE n2 == {"SSHD-T"} \cup {"MATCH-BLOCKS"}
           n3 == n2 \cup {"AUTHORIZED-KEYS"}
           n4 == n3 \cup {"MATCH-RESOLVED"}
           n5 == n4 \cup {"CHANGELOG"}
           n6 == n5 \cup {"ACCOUNTS"}
           n7 == n6 \cup {"USER-KEYS"}
<1>4. Headed(t2, n2)
  <2>1. "MATCH-BLOCKS" \notin {"SSHD-T"}
    OBVIOUS
  <2>2. Adds(t1, {"SSHD-T"}, "MATCH-BLOCKS", blocks)
    BY <1>1, <1>3, <2>1, SectionAdded
  <2> QED BY <2>2 DEF Adds
<1>5. "AUTHORIZED-KEYS" \notin n2 /\ "MATCH-RESOLVED" \notin n3 /\ "CHANGELOG" \notin n4
      /\ "ACCOUNTS" \notin n5 /\ "USER-KEYS" \notin n6 /\ "END" \notin n7
      /\ "MATCH-RESOLVED" \in n4 /\ "MATCH-RESOLVED" \in n5 /\ "MATCH-RESOLVED" \in n6 /\ "MATCH-RESOLVED" \in n7
      /\ "ACCOUNTS" \in n6 /\ "ACCOUNTS" \in n7
  OBVIOUS
<1> HIDE DEF t2, n2
<1>6. Headed(t3, n3)
  <2>1. Adds(t2, n2, "AUTHORIZED-KEYS", OwnLines(machine))
    BY <1>1, <1>4, <1>5, SectionAdded
  <2> QED BY <2>1 DEF Adds
<1> HIDE DEF t3, n3
<1>7. Headed(t4, n4) /\ SectionOf(t4, "MATCH-RESOLVED") = Resolved(machine)
  <2>1. Adds(t3, n3, "MATCH-RESOLVED", Resolved(machine))
    BY <1>1, <1>5, <1>6, SectionAdded
  <2> HIDE DEF t4, n4
  <2>2. Headed(t4, n4) /\ SectionOf(t4, "MATCH-RESOLVED") = Resolved(machine)
        /\ \A name \in n3 : SectionOf(t4, name) = SectionOf(t3, name)
    BY <2>1 DEF Adds, t4, n4
  <2> QED BY <1>5, <1>6, <2>2
<1> HIDE DEF t4, n4
<1>8. Headed(t5, n5) /\ SectionOf(t5, "MATCH-RESOLVED") = Resolved(machine)
  <2>1. Adds(t4, n4, "CHANGELOG", ChangelogLines(machine))
    BY <1>1, <1>5, <1>7, SectionAdded
  <2> HIDE DEF t5, n5
  <2>2. Headed(t5, n5) /\ SectionOf(t5, "CHANGELOG") = ChangelogLines(machine)
        /\ \A name \in n4 : SectionOf(t5, name) = SectionOf(t4, name)
    BY <2>1 DEF Adds, t5, n5
  <2> QED BY <1>5, <1>7, <2>2
<1> HIDE DEF t5, n5
<1>9. /\ Headed(t6, n6) /\ SectionOf(t6, "MATCH-RESOLVED") = Resolved(machine)
      /\ SectionOf(t6, "ACCOUNTS") = SweepLines(machine)
  <2>1. Adds(t5, n5, "ACCOUNTS", SweepLines(machine))
    BY <1>1, <1>5, <1>8, SectionAdded
  <2> HIDE DEF t6, n6
  <2>2. Headed(t6, n6) /\ SectionOf(t6, "ACCOUNTS") = SweepLines(machine)
        /\ \A name \in n5 : SectionOf(t6, name) = SectionOf(t5, name)
    BY <2>1 DEF Adds, t6, n6
  <2> QED BY <1>5, <1>8, <2>2
<1> HIDE DEF t6, n6
<1>10. /\ Headed(t7, n7) /\ SectionOf(t7, "MATCH-RESOLVED") = Resolved(machine)
       /\ SectionOf(t7, "ACCOUNTS") = SweepLines(machine)
  <2>1. Adds(t6, n6, "USER-KEYS", UserKeyLines(machine))
    BY <1>1, <1>5, <1>9, SectionAdded
  <2> HIDE DEF t7, n7
  <2>2. Headed(t7, n7) /\ SectionOf(t7, "USER-KEYS") = UserKeyLines(machine)
        /\ \A name \in n6 : SectionOf(t7, name) = SectionOf(t6, name)
    BY <2>1 DEF Adds, t7, n7
  <2> QED BY <1>5, <1>9, <2>2
<1> HIDE DEF t7, n7
<1>11. /\ SectionOf(t8, "MATCH-RESOLVED") = Resolved(machine)
       /\ SectionOf(t8, "ACCOUNTS") = SweepLines(machine)
  <2>1. Adds(t7, n7, "END", <<>>)
    BY <1>1, <1>5, <1>10, SectionAdded
  <2> HIDE DEF t8
  <2>2. \A name \in n7 : SectionOf(t8, name) = SectionOf(t7, name)
    BY <2>1 DEF Adds, t8
  <2> QED BY <1>5, <1>10, <2>2
<1> HIDE DEF t8
<1> QED BY <1>2, <1>11

\* moved holds the n pairs of pairs, o places further down.
Moved(n, o, pairs, moved) ==
    /\ n \in Nat /\ o \in Nat /\ DOMAIN pairs = 1..n
    /\ \A j : j \in DOMAIN moved <=> \E k \in 1..n : j = o + k
    /\ \A k \in 1..n : moved[o + k][1] = pairs[k][1] /\ moved[o + k][2] = pairs[k][2]

\* The values of a section are those of the pairs it was printed from.
LEMMA ValuesMoved ==
    ASSUME NEW n, NEW o, NEW pairs, NEW moved, Moved(n, o, pairs, moved)
    PROVE  Values(moved) = Values(pairs)
<1>0. /\ n \in Nat /\ o \in Nat /\ DOMAIN pairs = 1..n
      /\ \A j : j \in DOMAIN moved <=> \E k \in 1..n : j = o + k
      /\ \A k \in 1..n : moved[o + k][1] = pairs[k][1] /\ moved[o + k][2] = pairs[k][2]
  BY DEF Moved
<1> USE <1>0
<1> DEFINE Places(p, name) == {i \in DOMAIN p : p[i][1] = name}
           names == {pairs[i][1] : i \in DOMAIN pairs}
           others == {moved[i][1] : i \in DOMAIN moved}
<1>1. names = others
  <2>1. \A x \in names : x \in others
    <3> TAKE x \in names
    <3>1. PICK k \in 1..n : x = pairs[k][1]
      OBVIOUS
    <3>2. o + k \in DOMAIN moved /\ moved[o + k][1] = x
      BY <3>1
    <3> QED BY <3>2
  <2>2. \A x \in others : x \in names
    <3> TAKE x \in others
    <3>1. PICK j \in DOMAIN moved : x = moved[j][1]
      OBVIOUS
    <3>2. PICK k \in 1..n : j = o + k
      BY <3>1
    <3>3. pairs[k][1] = x /\ k \in DOMAIN pairs
      BY <3>1, <3>2
    <3> QED BY <3>3
  <2> QED BY <2>1, <2>2
<1>2. ASSUME NEW name \in names
      PROVE  moved[Min(Places(moved, name))][2] = pairs[Min(Places(pairs, name))][2]
  <2> DEFINE old == Places(pairs, name)
             new == Places(moved, name)
  <2>1. PICK k \in 1..n : pairs[k][1] = name
    OBVIOUS
  <2>2. old \in SUBSET Nat /\ old # {} /\ \A i \in old : i \in 1..n
    <3>1. k \in old
      BY <2>1
    <3> QED BY <3>1
  <2>3. \A i \in old : o + i \in new
    <3> TAKE i \in old
    <3>1. i \in 1..n /\ pairs[i][1] = name
      OBVIOUS
    <3>2. o + i \in DOMAIN moved /\ moved[o + i][1] = name
      BY <3>1
    <3> QED BY <3>2
  <2>4. \A j \in new : \E i \in old : j = o + i
    <3> TAKE j \in new
    <3>1. j \in DOMAIN moved /\ moved[j][1] = name
      OBVIOUS
    <3>2. PICK i \in 1..n : j = o + i
      BY <3>1
    <3>3. i \in old
      BY <3>1, <3>2
    <3> QED BY <3>2, <3>3
  <2> HIDE DEF old, new
  <2>5. Min(old) \in old /\ \A y \in old : Min(old) <= y
    BY <2>2, MinIs
  <2>6. new \in SUBSET Nat /\ new # {}
    <3>1. \A j \in new : j \in Nat
      BY <2>2, <2>4
    <3> QED BY <2>3, <2>5, <3>1
  <2>7. Min(new) \in new /\ \A y \in new : Min(new) <= y
    BY <2>6, MinIs
  <2>8. PICK i \in old : Min(new) = o + i
    BY <2>4, <2>7
  <2>9. o + i <= o + Min(old) /\ Min(old) <= i /\ i \in Nat /\ Min(old) \in Nat
    BY <2>2, <2>3, <2>5, <2>7, <2>8
  <2>10. Min(new) = o + Min(old) /\ Min(old) \in 1..n
    <3> DEFINE first == Min(old)
    <3>1. first \in 1..n
      BY <2>2, <2>5
    <3>2. o + i <= o + first /\ first <= i /\ i \in Nat /\ first \in Nat
      BY <2>9
    <3> HIDE DEF first
    <3>3. i = first
      BY <3>2
    <3> QED BY <2>8, <3>1, <3>3 DEF first
  <2>11. moved[Min(new)][2] = pairs[Min(old)][2]
    BY <2>10
  <2> QED BY <2>11 DEF old, new
<1>3. Values(pairs) = [name \in names |-> pairs[Min(Places(pairs, name))][2]]
  BY DEF Values
<1>4. Values(moved) = [name \in others |-> moved[Min(Places(moved, name))][2]]
  BY DEF Values
<1> HIDE DEF names, others, Places
<1> QED BY <1>1, <1>2, <1>3, <1>4

\* An account is with the others, and nobody who was there is lost.
Entries(kept) ==
    IsSeq(kept) /\ \A k \in 1..Len(kept) : {"user", "path", "sharers"} \subseteq DOMAIN kept[k]

Listed(kept, path, user) ==
    \E k \in 1..Len(kept) : kept[k].path = path /\ user \in {kept[k].user} \cup kept[k].sharers

LEMMA JoinedIs ==
    ASSUME NEW kept, Entries(kept), NEW a, {"user", "path", "sharers"} \subseteq DOMAIN a
    PROVE  /\ Entries(Joined(kept, a))
           /\ Listed(Joined(kept, a), a.path, a.user)
           /\ \A path, user : Listed(kept, path, user) => Listed(Joined(kept, a), path, user)
<1> DEFINE n == Len(kept)
           same == {i \in DOMAIN kept : kept[i].path = a.path}
           m == Min(same)
           joined == Joined(kept, a)
           old == kept[m]
           entry == [old EXCEPT !.sharers = @ \cup {a.user}]
<1>1. n \in Nat /\ DOMAIN kept = 1..n /\ kept \in Seq(Range(kept))
  BY ListIs DEF Entries, IsSeq
<1>2. joined = IF same = {} THEN Append(kept, a) ELSE [kept EXCEPT ![m].sharers = @ \cup {a.user}]
  BY DEF Joined
<1>3. CASE same = {}
  <2> DEFINE S == Range(kept) \cup {a}
  <2>1. kept \in Seq(S) /\ a \in S
    BY <1>1, SeqMonotonic
  <2> HIDE DEF S, same, joined
  <2>2. joined = Append(kept, a)
    BY <1>2, <1>3
  <2>3. joined \in Seq(S) /\ Len(joined) = n + 1 /\ \A i \in 1..n : joined[i] = kept[i]
    BY <2>1, <2>2, AppendProperties
  <2>4. joined[n + 1] = a
    BY <2>1, <2>2, AppendProperties
  <2>5. IsSeq(joined)
    BY <2>3, InSeqIsAList
  <2>6. \A k \in 1..Len(joined) : k \in 1..n \/ k = n + 1
    BY <1>1, <2>3
  <2>7. n + 1 \in 1..Len(joined) /\ \A k \in 1..n : k \in 1..Len(joined)
    BY <1>1, <2>3
  <2> HIDE DEF n
  <2>8. Entries(joined)
    BY <2>3, <2>4, <2>5, <2>6 DEF Entries, n
  <2>9. Listed(joined, a.path, a.user)
    BY <2>4, <2>7 DEF Listed
  <2>10. \A path, user : Listed(kept, path, user) => Listed(joined, path, user)
    BY <2>3, <2>7 DEF Listed, n
  <2> QED BY <2>8, <2>9, <2>10 DEF joined
<1>4. CASE same # {}
  <2>1. m \in 1..n /\ kept[m].path = a.path
    <3>1. same \in SUBSET Nat
      BY <1>1
    <3>2. m \in same
      <4> HIDE DEF same
      <4> QED BY <1>4, <3>1, MinIs
    <3> HIDE DEF m
    <3> QED BY <1>1, <3>2
  <2>2. joined = [kept EXCEPT ![m] = entry]
    BY <1>2, <1>4
  <2> HIDE DEF m, same, joined
  <2>3. {"user", "path", "sharers"} \subseteq DOMAIN old
    BY <2>1 DEF Entries
  <2> HIDE DEF old
  <2>4. /\ {"user", "path", "sharers"} \subseteq DOMAIN entry
        /\ entry.user = old.user /\ entry.path = old.path /\ entry.sharers = old.sharers \cup {a.user}
    BY <2>3
  <2> HIDE DEF entry, n
  <2>5. joined = [i \in 1..n |-> IF i = m THEN entry ELSE kept[i]]
    BY <1>1, <2>2
  <2>6. joined = [i \in 1..n |-> joined[i]]
    BY <2>5
  <2>7. IsSeq(joined) /\ Len(joined) = n
    BY <1>1, <2>6, IsAList
  <2>8. joined[m] = entry /\ \A i \in 1..n : i # m => joined[i] = kept[i]
    BY <2>1, <2>5
  <2>9. Entries(joined)
    <3>1. \A k \in 1..n : {"user", "path", "sharers"} \subseteq DOMAIN kept[k]
      BY DEF Entries, n
    <3> QED BY <2>4, <2>7, <2>8, <3>1 DEF Entries
  <2>10. Listed(joined, a.path, a.user)
    <3>1. joined[m].path = a.path /\ a.user \in joined[m].sharers
      BY <2>1, <2>4, <2>8 DEF old
    <3> QED BY <2>1, <2>7, <3>1 DEF Listed
  <2>11. ASSUME NEW path, NEW user, Listed(kept, path, user)
         PROVE  Listed(joined, path, user)
    <3>1. PICK k \in 1..n : kept[k].path = path /\ user \in {kept[k].user} \cup kept[k].sharers
      BY <2>11 DEF Listed, n
    <3>2. joined[k].path = path /\ user \in {joined[k].user} \cup joined[k].sharers
      <4>1. CASE k = m
        BY <2>4, <2>8, <3>1, <4>1 DEF old
      <4>2. CASE k # m
        BY <2>8, <3>1, <4>2
      <4> QED BY <4>1, <4>2
    <3> QED BY <2>7, <3>2 DEF Listed
  <2> QED BY <2>9, <2>10, <2>11 DEF joined
<1> QED BY <1>3, <1>4

\* Each account that has a line is with those of its file.
LEMMA AccountsAre ==
    ASSUME NEW lines, IsSeq(lines), NEW p \in 1..Len(lines), lines[p][1] = "ACCOUNT"
    PROVE  /\ Listed(Accounts(lines), lines[p][3], lines[p][2])
           /\ DOMAIN Accounts(lines) = 1..Len(Accounts(lines))
<1> DEFINE n == Len(lines)
           until(i) == Min({j \in DOMAIN lines : j > i /\ lines[j][1] # "KEY"} \cup {Len(lines) + 1})
           entry(i) == [user |-> lines[i][2], path |-> lines[i][3], sharers |-> {},
                        keys |-> [k \in 1..(until(i) - i - 1) |-> lines[i + k][2]]]
           Step(g, i) == IF i = 0 THEN <<>>
                         ELSE IF lines[i][1] # "ACCOUNT" THEN g[i - 1]
                         ELSE Joined(g[i - 1], entry(i))
           f == CHOOSE g : g = [i \in 0..n |-> Step(g, i)]
           there == {m \in 0..n : \E g : g = [i \in 0..m |-> Step(g, i)]}
           good == {m \in 0..n : /\ Entries(f[m])
                                 /\ \A q \in 1..m : lines[q][1] = "ACCOUNT" =>
                                       Listed(f[m], lines[q][3], lines[q][2])}
<1>1. n \in Nat
  BY ListIs
<1>2. Accounts(lines) = f[n]
  BY DEF Accounts
<1>3. \A i : entry(i).user = lines[i][2] /\ entry(i).path = lines[i][3]
             /\ {"user", "path", "sharers"} \subseteq DOMAIN entry(i)
  OBVIOUS
<1> HIDE DEF n, entry
<1>4. ASSUME NEW m \in 0..n, \A k \in 0..n : k < m => k \in there
      PROVE  m \in there
  <2>1. CASE m = 0
    <3> DEFINE g == [i \in 0..0 |-> <<>>]
    <3>1. g = [i \in 0..0 |-> Step(g, i)]
      <4>1. \A i \in 0..0 : Step(g, i) = <<>>
        OBVIOUS
      <4> QED BY <4>1
    <3> HIDE DEF g, Step
    <3> QED BY <2>1, <3>1
  <2>2. CASE m # 0
    <3>1. m - 1 \in 0..n /\ m - 1 < m /\ \A i \in 0..m - 1 : i \in 0..m
      BY <1>1, <2>2
    <3>2. PICK g : g = [i \in 0..m - 1 |-> Step(g, i)]
      BY <1>4, <3>1
    <3> DEFINE h == [i \in 0..m |-> Step(g, i)]
    <3>3. \A i \in 0..m - 1 : h[i] = g[i]
      <4> HIDE DEF Step
      <4> QED BY <3>1, <3>2
    <3>4. \A i \in 0..m : Step(h, i) = Step(g, i)
      <4> TAKE i \in 0..m
      <4>1. i # 0 => i - 1 \in 0..m - 1
        BY <1>1
      <4> HIDE DEF h
      <4> QED BY <3>3, <4>1
    <3>5. h = [i \in 0..m |-> Step(h, i)]
      <4> HIDE DEF Step
      <4> QED BY <3>4
    <3> HIDE DEF h, Step
    <3> QED BY <3>5
  <2> QED BY <2>1, <2>2
<1>5. \A m \in 0..n : m \in there
  <2> HIDE DEF there
  <2> QED BY <1>1, <1>4, CountingUp
<1>6. f = [i \in 0..n |-> Step(f, i)]
  <2>1. \E g : g = [i \in 0..n |-> Step(g, i)]
    <3> HIDE DEF Step
    <3> QED BY <1>1, <1>5
  <2> HIDE DEF Step
  <2> QED BY <2>1
<1>7. \A i \in 0..n : f[i] = Step(f, i)
  <2> HIDE DEF f, Step
  <2> QED BY <1>6
<1> HIDE DEF f, there
<1>8. ASSUME NEW m \in 0..n, \A k \in 0..n : k < m => k \in good
      PROVE  m \in good
  <2>1. CASE m = 0
    <3>1. f[0] = <<>>
      BY <1>7, <2>1
    <3>2. Entries(<<>>)
      <4>1. <<>> = [i \in 1..0 |-> (<<>>)[i]]
        OBVIOUS
      <4>2. IsSeq(<<>>) /\ Len(<<>>) = 0
        BY <4>1, IsAList
      <4> QED BY <4>2 DEF Entries
    <3> QED BY <2>1, <3>1, <3>2
  <2>2. CASE m # 0
    <3>1. m - 1 \in 0..n /\ m - 1 < m /\ \A q \in 1..m : q = m \/ q \in 1..m - 1
      BY <1>1, <2>2
    <3>2. m - 1 \in good
      BY <1>8, <3>1
    <3>3. /\ Entries(f[m - 1])
          /\ \A q \in 1..m - 1 : lines[q][1] = "ACCOUNT" => Listed(f[m - 1], lines[q][3], lines[q][2])
      BY <3>2
    <3>4. CASE lines[m][1] # "ACCOUNT"
      <4>1. f[m] = f[m - 1]
        BY <1>7, <2>2, <3>4
      <4> QED BY <3>1, <3>3, <3>4, <4>1
    <3>5. CASE lines[m][1] = "ACCOUNT"
      <4>1. f[m] = Joined(f[m - 1], entry(m))
        BY <1>7, <2>2, <3>5
      <4>2. /\ Entries(f[m]) /\ Listed(f[m], entry(m).path, entry(m).user)
            /\ \A path, user : Listed(f[m - 1], path, user) => Listed(f[m], path, user)
        BY <1>3, <3>3, <4>1, JoinedIs
      <4> QED BY <1>3, <3>1, <3>3, <4>2
    <3> QED BY <3>4, <3>5
  <2> QED BY <2>1, <2>2
<1>9. n \in good
  <2>1. \A m \in 0..n : m \in good
    <3> HIDE DEF good
    <3> QED BY <1>1, <1>8, CountingUp
  <2> HIDE DEF good
  <2> QED BY <1>1, <2>1
<1>10. Entries(f[n]) /\ Listed(f[n], lines[p][3], lines[p][2])
  BY <1>9 DEF n
<1>11. DOMAIN f[n] = 1..Len(f[n])
  BY <1>10, ListIs DEF Entries
<1> QED BY <1>2, <1>10, <1>11

\* Each block has its own context: it is said that it was not asked for, or its
\* values are those of the connection.
LEMMA ContextsAre ==
    ASSUME NEW machine, IsMachine(machine), NEW b \in DOMAIN machine.blocks
    PROVE  \E c \in MatchContexts(Resolved(machine)) :
              \/ c.failed
              \/ c.values = Values(Given(machine, Context(machine, machine.blocks[b])))
<1> DEFINE lines == Resolved(machine)
           last == Len(lines)
           blocks == Len(machine.blocks)
           parts == [i \in DOMAIN machine.blocks |-> ResolvedLines(machine, machine.blocks[i])]
           part == parts[b]
           len == Len(part)
           given == Given(machine, Context(machine, machine.blocks[b]))
           n == Len(machine.directives)
           marks == {"CONTEXT", "MANUAL"}
           starts == {i \in DOMAIN lines : lines[i][1] \in {"CONTEXT", "MANUAL"}}
           Of(i, tag) == {j \in DOMAIN lines : /\ j > i /\ lines[j][1] = tag
                                               /\ \A k \in starts : ~(i < k /\ k <= j)}
           context(i) == [criteria |-> IF lines[i][1] = "MANUAL" THEN lines[i][2]
                             ELSE IF Of(i, "CRITERIA") = {} THEN "" ELSE lines[Max(Of(i, "CRITERIA"))][2],
                          values |-> Values([j \in Of(i, "SET") |-> <<lines[j][2], lines[j][3]>>]),
                          failed |-> Of(i, "REASON") # {}]
<1>1. MatchContexts(lines) = {context(i) : i \in starts}
  BY DEF MatchContexts
<1>2. /\ IsSeq(lines) /\ Laid(lines, parts, blocks)
      /\ blocks \in Nat /\ DOMAIN machine.blocks = 1..blocks
  BY ResolvedAre DEF Unmarked
<1>3. \A i \in 1..blocks : /\ 1 \in 1..Len(parts[i]) => parts[i][1][1] \in marks
                           /\ IsSeq(parts[i])
  BY <1>2, ResolvedLinesAre DEF Unmarked
<1>4. /\ IsSeq(part) /\ 1 \in 1..len /\ part[1][1] \in marks
      /\ \A k \in 2..len : part[k][1] \notin marks
      /\ \/ len = 2 /\ part[2][1] = "REASON"
         \/ /\ len = 2 + n /\ part[2][1] = "CRITERIA"
            /\ \A k \in 1..n : part[2 + k] = <<"SET", given[k][1], given[k][2]>>
      /\ n \in Nat /\ DOMAIN given = 1..n
  BY ResolvedLinesAre DEF Unmarked
<1> HIDE DEF lines, blocks, given, n
<1>5. last \in Nat /\ DOMAIN lines = 1..last /\ len \in Nat
  <2> HIDE DEF part
  <2> QED BY <1>2, <1>4, ListIs
<1> HIDE DEF parts
<1>6. PICK o \in Nat :
         /\ o + len <= last
         /\ \A k \in 1..len : lines[o + k] = part[k]
         /\ \/ o + len = last
            \/ \E j \in 1..blocks : 1 \in 1..Len(parts[j]) /\ lines[o + len + 1] = parts[j][1]
  <2>1. b \in 1..blocks
    BY <1>2
  <2> QED BY <1>2, <2>1 DEF Laid
<1> HIDE DEF part, len, last
<1> DEFINE s == o + 1
<1>7. o + len # last => o + len + 1 \in starts
  <2> SUFFICES ASSUME o + len # last PROVE o + len + 1 \in starts
    OBVIOUS
  <2>1. PICK j \in 1..blocks : 1 \in 1..Len(parts[j]) /\ lines[o + len + 1] = parts[j][1]
    BY <1>6
  <2>2. lines[o + len + 1][1] \in marks
    BY <1>3, <2>1
  <2>3. o + len + 1 \in 1..last
    BY <1>5, <1>6
  <2> QED BY <1>5, <2>2, <2>3
<1>8. s \in starts
  <2>1. s \in 1..last /\ lines[s] = part[1]
    BY <1>4, <1>5, <1>6
  <2> QED BY <1>4, <1>5, <2>1
<1>9. ASSUME NEW k \in 2..len
      PROVE  o + k \in 1..last /\ o + k > s /\ o + k \notin starts /\ lines[o + k] = part[k]
  <2>1. k \in 1..len /\ o + k \in 1..last /\ o + k > s
    BY <1>5, <1>6
  <2>2. lines[o + k] = part[k] /\ part[k][1] \notin marks
    BY <1>4, <1>6, <2>1
  <2> QED BY <2>1, <2>2
<1>10. ASSUME NEW j \in 1..last, j > s
       PROVE  (\A k \in starts : ~(s < k /\ k <= j)) <=> j <= o + len
  <2>1. ASSUME j <= o + len, NEW k \in starts, s < k, k <= j
        PROVE  FALSE
    <3>1. k \in 1..last
      BY <1>5
    <3> HIDE DEF starts
    <3>2. k - o \in 2..len /\ o + (k - o) = k
      BY <1>5, <2>1, <3>1
    <3> QED BY <1>9, <2>1, <3>2
  <2>2. ASSUME ~(j <= o + len)
        PROVE  \E k \in starts : s < k /\ k <= j
    <3>1. o + len # last /\ s < o + len + 1 /\ o + len + 1 <= j
      BY <1>4, <1>5, <1>6, <2>2
    <3> QED BY <1>7, <3>1
  <2> HIDE DEF starts
  <2> QED BY <2>1, <2>2
<1>11. \A tag : \A j : j \in Of(s, tag) <=> \E k \in 2..len : j = o + k /\ part[k][1] = tag
  <2> TAKE tag
  <2>1. ASSUME NEW j \in Of(s, tag)
        PROVE  \E k \in 2..len : j = o + k /\ part[k][1] = tag
    <3>1. j \in 1..last /\ j > s /\ lines[j][1] = tag /\ \A k \in starts : ~(s < k /\ k <= j)
      BY <1>5
    <3>2. j <= o + len
      BY <1>10, <3>1
    <3>3. j - o \in 2..len /\ j = o + (j - o)
      BY <1>5, <3>1, <3>2
    <3> HIDE DEF starts
    <3> QED BY <1>9, <3>1, <3>3
  <2>2. ASSUME NEW k \in 2..len, part[k][1] = tag
        PROVE  o + k \in Of(s, tag)
    <3>1. o + k \in 1..last /\ o + k > s /\ lines[o + k][1] = tag
      BY <1>9, <2>2
    <3>2. o + k <= o + len
      BY <1>5
    <3>3. \A m \in starts : ~(s < m /\ m <= o + k)
      BY <1>10, <3>1, <3>2
    <3> HIDE DEF starts
    <3> QED BY <1>5, <3>1, <3>3
  <2> HIDE DEF Of
  <2> QED BY <2>1, <2>2
<1> HIDE DEF Of, starts
<1>12. context(s) \in MatchContexts(lines)
  BY <1>1, <1>8
<1>13. CASE len = 2 /\ part[2][1] = "REASON"
  <2>1. o + 2 \in Of(s, "REASON")
    BY <1>11, <1>13
  <2>2. context(s).failed
    BY <2>1
  <2> QED BY <1>12, <2>2 DEF lines
<1>14. CASE len = 2 + n /\ part[2][1] = "CRITERIA"
            /\ \A k \in 1..n : part[2 + k] = <<"SET", given[k][1], given[k][2]>>
  <2> DEFINE moved == [j \in Of(s, "SET") |-> <<lines[j][2], lines[j][3]>>]
  <2>1. \A j : j \in Of(s, "SET") <=> \E k \in 1..n : j = (o + 2) + k
    <3>1. \A k \in 1..n : 2 + k \in 2..len /\ part[2 + k][1] = "SET" /\ o + (2 + k) = (o + 2) + k
      <4> TAKE k \in 1..n
      <4>1. 2 + k \in 2..len /\ o + (2 + k) = (o + 2) + k
        BY <1>4, <1>14
      <4>2. part[2 + k] = <<"SET", given[k][1], given[k][2]>>
        BY <1>14
      <4>3. part[2 + k][1] = "SET"
        BY <4>2
      <4> QED BY <4>1, <4>3
    <3>2. \A k \in 2..len : part[k][1] = "SET" => k - 2 \in 1..n /\ o + k = (o + 2) + (k - 2)
      BY <1>4, <1>14
    <3> QED BY <1>11, <3>1, <3>2
  <2>2. \A k \in 1..n : lines[(o + 2) + k] = <<"SET", given[k][1], given[k][2]>>
    <3> TAKE k \in 1..n
    <3>1. 2 + k \in 2..len /\ o + (2 + k) = (o + 2) + k
      BY <1>4, <1>14
    <3>2. lines[o + (2 + k)] = part[2 + k]
      BY <1>9, <3>1
    <3> QED BY <1>14, <3>1, <3>2
  <2>3. /\ \A j : j \in DOMAIN moved <=> \E k \in 1..n : j = (o + 2) + k
        /\ \A k \in 1..n : moved[(o + 2) + k][1] = given[k][1] /\ moved[(o + 2) + k][2] = given[k][2]
    BY <2>1, <2>2
  <2> DEFINE front == o + 2
  <2>4. front \in Nat
    OBVIOUS
  <2>5. /\ \A j : j \in DOMAIN moved <=> \E k \in 1..n : j = front + k
        /\ \A k \in 1..n : moved[front + k][1] = given[k][1] /\ moved[front + k][2] = given[k][2]
    BY <2>3
  <2> HIDE DEF moved, front
  <2>6. n \in Nat /\ DOMAIN given = 1..n
    BY <1>4
  <2>7. Values(moved) = Values(given)
    <3>1. Moved(n, front, given, moved)
      BY <2>4, <2>5, <2>6 DEF Moved
    <3> QED BY <3>1, ValuesMoved
  <2>8. context(s).values = Values(given)
    BY <2>7 DEF moved
  <2> QED BY <1>12, <2>8 DEF lines, given
<1> QED BY <1>4, <1>13, <1>14


\* What an audit says of a machine, when its transcript came to the end.
LEMMA AuditSays ==
    ASSUME ScanInv, Analysed, CameWhole
    PROVE  LET machine == server.machine
           IN /\ IsMachine(machine)
              /\ facts.config.accounts = Accounts(SweepLines(machine))
              /\ facts.config.unreadable = Unreadable(SweepLines(machine))
              /\ facts.config.matched = MatchContexts(Resolved(machine))
<1> DEFINE machine == server.machine
           lines == Transcript(machine)
<1>1. IsMachine(machine)
  <2>1. case \in Cases
    BY DEF ScanInv, InOrder
  <2> QED BY <2>1, TargetScanAssumption DEF server
<1> HIDE DEF machine
<1>2. /\ SectionOf(lines, "MATCH-RESOLVED") = Resolved(machine)
      /\ SectionOf(lines, "ACCOUNTS") = SweepLines(machine)
  BY <1>1, TranscriptIs
<1>3. facts.config.state = "read" /\ facts.config = ReadSections(lines)
  BY DEF CameWhole, machine
<1> HIDE DEF lines
<1>4. FailedConfig.state = "error"
  BY DEF FailedConfig, NoConfig
<1>5. ReadSections(lines) # FailedConfig
  BY <1>3, <1>4
<1>6. /\ facts.config.matched = MatchContexts(SectionOf(lines, "MATCH-RESOLVED"))
      /\ facts.config.accounts = Accounts(SectionOf(lines, "ACCOUNTS"))
      /\ facts.config.unreadable = Unreadable(SectionOf(lines, "ACCOUNTS"))
  BY <1>3, <1>5 DEF ReadSections
<1> QED BY <1>1, <1>2, <1>6 DEF machine

\* What is read of the lines has the user, with that file or as not read.
Told(lines, path, user) ==
    \/ user \in Unreadable(lines)
    \/ \E k \in DOMAIN Accounts(lines) :
          /\ Accounts(lines)[k].path = path
          /\ user \in {Accounts(lines)[k].user} \cup Accounts(lines)[k].sharers

\* A line about an account is not lost when the sweep is read.
LEMMA SweepIsRead ==
    ASSUME NEW lines, IsSeq(lines), NEW user, NEW path, NEW p \in 1..Len(lines),
           lines[p] \in {<<"ACCOUNT", user, path>>, <<"UNREADABLE", user>>}
    PROVE  Told(lines, path, user)
<1>1. CASE lines[p] = <<"ACCOUNT", user, path>>
  <2>1. lines[p][1] = "ACCOUNT" /\ lines[p][2] = user /\ lines[p][3] = path
    BY <1>1
  <2>2. Listed(Accounts(lines), path, user) /\ DOMAIN Accounts(lines) = 1..Len(Accounts(lines))
    BY <2>1, AccountsAre
  <2> QED BY <2>2 DEF Listed, Told
<1>2. CASE lines[p] = <<"UNREADABLE", user>>
  <2>1. DOMAIN lines = 1..Len(lines)
    BY ListIs
  <2>2. p \in DOMAIN lines /\ lines[p][1] = "UNREADABLE" /\ lines[p][2] = user
    BY <1>2, <2>1
  <2> QED BY <2>2 DEF Unreadable, Told
<1> QED BY <1>1, <1>2

\* Who has a file of keys that the audit can see is listed, or counted as not
\* read.
LEMMA SweptAre ==
    ASSUME ScanInv, Analysed, CameWhole,
           NEW i \in DOMAIN server.machine.accounts, NEW j \in DOMAIN server.machine.templates,
           NEW user, user = server.machine.accounts[i].user,
           NEW path, path = server.machine.templates[j][user],
           server.machine.accounts[i].login, server.machine.accounts[i].home,
           path \in DOMAIN server.machine.files, server.machine.files[path].seen
    PROVE  AccountedFor(user, path)
<1> DEFINE machine == server.machine
           lines == SweepLines(machine)
<1>1. /\ IsMachine(machine)
      /\ facts.config.accounts = Accounts(lines)
      /\ facts.config.unreadable = Unreadable(lines)
  BY AuditSays
<1> HIDE DEF lines
<1>2. Unmarked(lines) /\ \E p \in 1..Len(lines) :
         lines[p] \in {<<"ACCOUNT", user, path>>, <<"UNREADABLE", user>>}
  BY <1>1, SweepLinesAre DEF lines
<1>3. Told(lines, path, user)
  <2>1. PICK p \in 1..Len(lines) : lines[p] \in {<<"ACCOUNT", user, path>>, <<"UNREADABLE", user>>}
    BY <1>2
  <2>2. IsSeq(lines)
    BY <1>2 DEF Unmarked
  <2> QED BY <2>1, <2>2, SweepIsRead
<1> QED BY <1>1, <1>3 DEF AccountedFor, Told

\* A block whose values weaken the global ones, or were not asked for, is there
\* for a reader to see.
LEMMA BlocksAreReported ==
    ASSUME ScanInv, Analysed, CameWhole, NEW b \in DOMAIN server.machine.blocks,
           RelaxedFor(server.machine, Context(server.machine, server.machine.blocks[b]))
    PROVE  Reported \cap {"config-match-block-weakens", "config-match-blocks"} # {}
<1> DEFINE machine == server.machine
           given == Given(machine, Context(machine, machine.blocks[b]))
           config == facts.config
           asked == {c \in config.matched : IsResolved(c)}
<1>1. IsMachine(machine) /\ config.matched = MatchContexts(Resolved(machine))
  BY AuditSays
<1>2. PICK c \in config.matched : c.failed \/ c.values = Values(given)
  BY <1>1, ContextsAre
<1>3. Weakens(ThePolicy, config, [values |-> Values(given)])
  BY DEF RelaxedFor
<1>4. config.state = "read"
  BY DEF CameWhole
<1> HIDE DEF machine, given, config
<1>5. CASE ~IsResolved(c)
  <2>1. config.matched # asked
    BY <1>2, <1>5
  <2>2. "config-match-blocks" \in MatchBlockFindings(ThePolicy, config)
    BY <2>1 DEF MatchBlockFindings
  <2>3. "config-match-blocks" \in ConfigFindings(ThePolicy, config)
    BY <1>4, <2>2 DEF ConfigFindings
  <2> QED BY <2>3, FindingsAreReported DEF config
<1>6. CASE IsResolved(c)
  <2>1. c.values = Values(given)
    BY <1>2, <1>6 DEF IsResolved
  <2>2. Weakens(ThePolicy, config, c)
    BY <1>3, <2>1 DEF Weakens
  <2>3. \E x \in asked : Weakens(ThePolicy, config, x)
    BY <1>2, <1>6, <2>2
  <2>4. "config-match-block-weakens" \in MatchBlockFindings(ThePolicy, config)
    BY <2>3 DEF MatchBlockFindings
  <2>5. "config-match-block-weakens" \in ConfigFindings(ThePolicy, config)
    BY <1>4, <2>4 DEF ConfigFindings
  <2> QED BY <2>5, FindingsAreReported DEF config
<1> QED BY <1>5, <1>6

\* What the audit could look at is in the report (REMOTE_SCRIPT, _parse_sections,
\* _parse_match_contexts and _parse_accounts in sshd_config.py, and the plugins
\* that report it): for every machine whose transcript came whole, an account
\* that can log in and whose file of keys can be seen is listed with that file,
\* first or among those who share it, or is counted as not read; and a Match
\* block that relaxes what is sound elsewhere is reported or left to a human.
THEOREM AuditTellsTheTruth == Spec => []AuditIsHonest
<1>1. ScanInv => AuditIsHonest
  BY SweptAre, BlocksAreReported DEF AuditIsHonest
<1> QED BY <1>1, ScanHolds, PTL

-----------------------------------------------------------------------------
(* What a profile that passes says of the keys                             *)

\* The keys that were read are keys of the server.
KeysStand ==
    /\ toProbe \subseteq DOMAIN server.hostKeys
    /\ \A k \in facts.keys : k.error \/ \E i \in DOMAIN server.hostKeys : k = Read(server.hostKeys[i])

LEMMA HostKeysAreAList ==
    ASSUME InOrder
    PROVE  IsSeq(server.hostKeys) /\ DOMAIN server.hostKeys \in SUBSET Nat
<1>1. case \in Cases
  BY DEF InOrder
<1>2. IsSeq(server.hostKeys)
  BY <1>1, TargetScanAssumption DEF server
<1>3. Len(server.hostKeys) \in Nat /\ DOMAIN server.hostKeys = 1..Len(server.hostKeys)
  BY <1>2, ListIs
<1> QED BY <1>2, <1>3

LEMMA KeysHold == ScanInv /\ KeysStand /\ [Next]_vars => KeysStand'
<1> SUFFICES ASSUME ScanInv, KeysStand, [Next]_vars PROVE KeysStand'
  OBVIOUS
<1>1. /\ FactsAre /\ InOrder /\ case' = case
      /\ pc \notin {"connect", "keys"} => facts'.keys = facts.keys
  BY FactsStay DEF ScanInv
<1>2. server' = server
  BY <1>1 DEF server
<1>3. CASE Connect
  <2>1. facts'.keys = facts.keys
    BY <1>1, <1>3 DEF Connect, FactsAre
  <2>2. toProbe' \subseteq DOMAIN server.hostKeys
    BY <1>3 DEF Connect, Probed
  <2> QED BY <1>2, <2>1, <2>2 DEF KeysStand
<1>4. CASE FetchKey
  <2> DEFINE place == Min(toProbe)
             k == server.hostKeys[place]
  <2>1. toProbe \in SUBSET Nat /\ toProbe # {}
    BY <1>1, <1>4, HostKeysAreAList DEF FetchKey, KeysStand
  <2>2. place \in toProbe
    BY <2>1, MinIs
  <2>3. place \in DOMAIN server.hostKeys
    BY <2>2 DEF KeysStand
  <2> HIDE DEF place
  <2>4. PICK kept \in {{Unread(k)}, {}, {Read(k)}} : facts'.keys = facts.keys \cup kept
    BY <1>1, <1>4 DEF FetchKey, FactsAre, place
  <2>5. \A h \in kept : h.error \/ \E i \in DOMAIN server.hostKeys : h = Read(server.hostKeys[i])
    <3>1. Unread(k).error
      BY DEF Unread
    <3> QED BY <2>3, <2>4, <3>1
  <2>6. toProbe' \subseteq toProbe
    BY <1>4 DEF FetchKey
  <2> QED BY <1>2, <2>4, <2>5, <2>6 DEF KeysStand
<1>5. CASE KeysDone
  <2>1. facts'.keys = facts.keys \/ facts'.keys = {Unread(Head(server.hostKeys))}
    BY <1>1, <1>5 DEF KeysDone, FactsAre
  <2>2. Unread(Head(server.hostKeys)).error
    BY DEF Unread
  <2>3. toProbe' = toProbe
    BY <1>5 DEF KeysDone
  <2> QED BY <1>2, <2>1, <2>2, <2>3 DEF KeysStand
<1>6. pc \in {"connect", "keys"} => Connect \/ FetchKey \/ KeysDone \/ facts' = facts
  BY DEF Next, OpenTunnel, ConnectFails, AskAuth, CheckSshfp, CheckKnownHosts, MeasureStartups,
         MeasureGrace, AuditClient, AuditConfig, Analyse, Finished, vars
<1>7. Connect \/ FetchKey \/ KeysDone \/ toProbe' = toProbe
  BY DEF Next, OpenTunnel, ConnectFails, AskAuth, CheckSshfp, CheckKnownHosts, MeasureStartups,
         MeasureGrace, AuditClient, AuditConfig, Analyse, Finished, vars
<1>8. CASE toProbe' = toProbe /\ facts'.keys = facts.keys
  BY <1>2, <1>8 DEF KeysStand
<1> QED BY <1>1, <1>3, <1>4, <1>5, <1>6, <1>7, <1>8

LEMMA KeysAlwaysStand == Spec => []KeysStand
<1>1. Init => KeysStand
  BY DEF Init, NoFacts, KeysStand
<1> QED BY <1>1, ScanHolds, KeysHold, PTL DEF Spec

\* A strength is a number of bits, or there is none.
LEMMA StrengthsAre ==
    ASSUME NEW policy, StrengthsAreNumbers(policy), NEW class \in DOMAIN policy.entries, NEW name
    PROVE  Lookup(policy, class, name).bits \in Nat \cup {None}
<1> DEFINE entries == policy.entries[class]
           patterns == policy.patterns[class]
           globs == {i \in DOMAIN patterns : name \in patterns[i].names}
<1>1. /\ \A n \in DOMAIN entries : entries[n].bits \in Nat \cup {None}
      /\ DOMAIN patterns \subseteq Nat /\ \A i \in DOMAIN patterns : "bits" \in DOMAIN patterns[i].entry
  BY DEF StrengthsAreNumbers
<1>2. UnknownEntry.bits = None
  BY DEF UnknownEntry
<1>3. ASSUME globs # {}
      PROVE  [patterns[Min(globs)].entry EXCEPT !.bits = None, !.suggest = FALSE].bits = None
  <2>1. globs \in SUBSET Nat
    BY <1>1
  <2>2. Min(globs) \in globs
    <3> HIDE DEF globs
    <3> QED BY <1>3, <2>1, MinIs
  <2> DEFINE entry == patterns[Min(globs)].entry
  <2>3. "bits" \in DOMAIN entry
    BY <1>1, <2>2
  <2> HIDE DEF entry
  <2>4. [entry EXCEPT !.bits = None, !.suggest = FALSE].bits = None
    BY <2>3
  <2> QED BY <2>4 DEF entry
<1>4. Lookup(policy, class, name) =
         IF name \in DOMAIN entries THEN entries[name]
         ELSE IF globs = {} THEN UnknownEntry
         ELSE [patterns[Min(globs)].entry EXCEPT !.bits = None, !.suggest = FALSE]
  BY DEF Lookup
<1> HIDE DEF entries, patterns, globs
<1> QED BY <1>1, <1>2, <1>3, <1>4

LEMMA ModulusStrengthIs ==
    ASSUME NEW policy, StrengthsAreNumbers(policy), NEW bits
    PROVE  StrengthForModulus(policy, bits) \in Nat \cup {None}
<1> DEFINE rows == {i \in DOMAIN policy.modulus : bits >= policy.modulus[i].bits}
<1>1. rows \in SUBSET Nat /\ \A i \in rows : policy.modulus[i].strength \in Nat
  BY DEF StrengthsAreNumbers
<1>2. StrengthForModulus(policy, bits) =
         IF bits = None THEN None ELSE IF rows = {} THEN 0 ELSE policy.modulus[Min(rows)].strength
  BY DEF StrengthForModulus
<1> HIDE DEF rows
<1>3. rows # {} => policy.modulus[Min(rows)].strength \in Nat
  BY <1>1, MinIs
<1> QED BY <1>2, <1>3

\* Two keys that no profile tells apart.
Alike(k, h) ==
    /\ k.error = h.error /\ k.bits = h.bits /\ k.family = h.family /\ k.group = h.group
    /\ k.family \in {"rsa", "dsa"} \/ k.algorithm = h.algorithm

\* What was read of a server has a key like each of its own.
Covers(seen, truth) ==
    /\ truth.offers = seen.offers
    /\ \A k \in truth.keys : \E h \in seen.keys : Alike(k, h)

LEMMA AlikeIsAsStrong ==
    ASSUME NEW policy, NEW k, NEW h, Alike(k, h)
    PROVE  KeyStrength(policy, k) = KeyStrength(policy, h)
<1>1. CASE k.family \in {"rsa", "dsa"}
  BY <1>1 DEF Alike, KeyStrength
<1>2. CASE k.algorithm = h.algorithm
  BY <1>2 DEF Alike, KeyStrength
<1> QED BY <1>1, <1>2 DEF Alike

\* Nothing about the server is weaker than everything that was read of it.
LEMMA CoversStrengths ==
    ASSUME NEW policy, NEW seen, NEW truth, Covers(seen, truth), NEW class
    PROVE  Strengths(policy, truth, class) \subseteq Strengths(policy, seen, class)
<1>1. ScoredNames(policy, truth, class) = ScoredNames(policy, seen, class)
  BY DEF ScoredNames, Covers
<1>2. \A k \in truth.keys : \E h \in seen.keys :
         KeyStrength(policy, k) = KeyStrength(policy, h) /\ k.group = h.group
  BY AlikeIsAsStrong DEF Covers, Alike
<1>3. {KeyStrength(policy, k) : k \in truth.keys} \subseteq {KeyStrength(policy, k) : k \in seen.keys}
  BY <1>2
<1>4. {StrengthForModulus(policy, k.group) : k \in truth.keys}
         \subseteq {StrengthForModulus(policy, k.group) : k \in seen.keys}
  BY <1>2
<1> DEFINE names == {Lookup(policy, class, n).bits : n \in ScoredNames(policy, seen, class)}
<1>5. names = {Lookup(policy, class, n).bits : n \in ScoredNames(policy, truth, class)}
  BY <1>1
<1> HIDE DEF names
<1>6. /\ Strengths(policy, truth, class) =
            (names \cup (IF class = "host_key" THEN {KeyStrength(policy, k) : k \in truth.keys} ELSE {})
             \cup (IF class = "kex" THEN {StrengthForModulus(policy, k.group) : k \in truth.keys} ELSE {}))
            \ {None}
      /\ Strengths(policy, seen, class) =
            (names \cup (IF class = "host_key" THEN {KeyStrength(policy, k) : k \in seen.keys} ELSE {})
             \cup (IF class = "kex" THEN {StrengthForModulus(policy, k.group) : k \in seen.keys} ELSE {}))
            \ {None}
  BY <1>5 DEF Strengths, names
<1>7. CASE class = "host_key"
  BY <1>3, <1>6, <1>7
<1>8. CASE class = "kex"
  BY <1>4, <1>6, <1>8
<1>9. CASE class \notin {"host_key", "kex"}
  BY <1>6, <1>9
<1> QED BY <1>7, <1>8, <1>9

LEMMA StrengthsAreNat ==
    ASSUME NEW policy, StrengthsAreNumbers(policy), NEW seen, NEW class \in DOMAIN policy.entries
    PROVE  Strengths(policy, seen, class) \subseteq Nat
<1>1. \A name : Lookup(policy, class, name).bits \in Nat \cup {None}
  BY StrengthsAre
<1>2. \A bits : StrengthForModulus(policy, bits) \in Nat \cup {None}
  BY ModulusStrengthIs
<1>3. ASSUME class = "host_key"
      PROVE  \A k : KeyStrength(policy, k) \in Nat \cup {None}
  <2> TAKE k
  <2> DEFINE bits == Lookup(policy, "host_key", k.algorithm).bits
  <2>1. bits \in Nat \cup {None}
    BY <1>1, <1>3
  <2>2. KeyStrength(policy, k) \in {None, bits, StrengthForModulus(policy, k.bits)}
    BY DEF KeyStrength
  <2> HIDE DEF bits
  <2> QED BY <1>2, <2>1, <2>2
<1> SUFFICES ASSUME NEW s \in Strengths(policy, seen, class) PROVE s \in Nat
  OBVIOUS
<1>4. s # None
  BY DEF Strengths
<1>5. \/ \E n : s = Lookup(policy, class, n).bits
      \/ class = "host_key" /\ \E k : s = KeyStrength(policy, k)
      \/ \E k : s = StrengthForModulus(policy, k.group)
  BY DEF Strengths
<1>6. s \in Nat \cup {None}
  BY <1>1, <1>2, <1>3, <1>5
<1> QED BY <1>4, <1>6

\* What is too weak in truth is too weak by what was read.
LEMMA TooWeakIsSeen ==
    ASSUME NEW policy, StrengthsAreNumbers(policy), NEW seen, NEW truth, Covers(seen, truth),
           DOMAIN seen.offers \subseteq DOMAIN policy.entries,
           NEW profile, profile.minStrength \in Nat \cup {None}, TooWeak(policy, profile, truth)
    PROVE  TooWeak(policy, profile, seen)
<1> DEFINE all(known) == UNION {Strengths(policy, known, class) : class \in DOMAIN known.offers}
           shown == all(seen)
           own == all(truth)
<1>1. own \subseteq shown
  BY CoversStrengths DEF Covers
<1>2. shown \in SUBSET Nat
  BY StrengthsAreNat
<1>3. /\ EffectiveStrength(policy, seen) = IF shown = {} THEN None ELSE Min(shown)
      /\ EffectiveStrength(policy, truth) = IF own = {} THEN None ELSE Min(own)
  BY DEF EffectiveStrength
<1>4. profile.minStrength \in Nat /\ own # {} /\ Min(own) < profile.minStrength
  <2> HIDE DEF own
  <2> QED BY <1>3 DEF TooWeak
<1> HIDE DEF own, shown
<1>5. own \in SUBSET Nat /\ shown # {}
  BY <1>1, <1>2, <1>4
<1>6. Min(own) \in own
  BY <1>4, <1>5, MinIs
<1>7. Min(shown) \in shown /\ \A y \in shown : Min(shown) <= y
  BY <1>2, <1>5, MinIs
<1>8. Min(shown) \in Nat /\ Min(own) \in Nat /\ Min(shown) <= Min(own)
  BY <1>1, <1>2, <1>5, <1>6, <1>7
<1>9. Min(shown) < profile.minStrength /\ Min(shown) # None
  BY <1>4, <1>8 DEF None
<1> QED BY <1>3, <1>4, <1>5, <1>9 DEF TooWeak, None

LEMMA SmallKeysAreSeen ==
    ASSUME NEW seen, NEW truth, Covers(seen, truth), NEW profile, KeyViolations(profile, truth) # {}
    PROVE  KeyViolations(profile, seen) # {}
<1>1. PICK k \in truth.keys :
         ~k.error /\ k.bits > 0 /\ k.family \in DOMAIN profile.minKeyBits
         /\ k.bits < profile.minKeyBits[k.family]
  BY DEF KeyViolations
<1>2. PICK h \in seen.keys : Alike(k, h)
  BY DEF Covers
<1>3. h \in {g \in seen.keys : /\ ~g.error /\ g.bits > 0 /\ g.family \in DOMAIN profile.minKeyBits
                               /\ g.bits < profile.minKeyBits[g.family]}
  BY <1>1, <1>2 DEF Alike
<1> QED BY <1>3 DEF KeyViolations

\* What the algorithms break is the same whatever keys were read.
LEMMA OffersSettle ==
    ASSUME NEW policy, NEW profile, NEW seen, NEW truth, truth.offers = seen.offers
    PROVE  /\ LocalViolations(policy, profile, truth) = LocalViolations(policy, profile, seen)
           /\ ClassViolations(policy, profile, truth) = ClassViolations(policy, profile, seen)
           /\ LacksProperty(policy, profile, truth) <=> LacksProperty(policy, profile, seen)
<1>1. LocalViolations(policy, profile, truth) = LocalViolations(policy, profile, seen)
  BY DEF LocalViolations, Categories
<1>2. ClassViolations(policy, profile, truth) = ClassViolations(policy, profile, seen)
  BY DEF ClassViolations, StrictKex
<1>3. LacksProperty(policy, profile, truth) <=> LacksProperty(policy, profile, seen)
  BY DEF LacksProperty, StrictKex, PostQuantumStatus, ScoredNames
<1> QED BY <1>1, <1>2, <1>3

\* What is violated in truth is violated by what was read.
LEMMA ViolationsAreSeen ==
    ASSUME NEW policy, StrengthsAreNumbers(policy), NEW seen, NEW truth, Covers(seen, truth),
           DOMAIN seen.offers \subseteq DOMAIN policy.entries,
           NEW profile, profile.minStrength \in Nat \cup {None}, Violated(policy, profile, truth)
    PROVE  Violated(policy, profile, seen)
<1>1. /\ LocalViolations(policy, profile, truth) = LocalViolations(policy, profile, seen)
      /\ ClassViolations(policy, profile, truth) = ClassViolations(policy, profile, seen)
      /\ LacksProperty(policy, profile, truth) <=> LacksProperty(policy, profile, seen)
  BY OffersSettle DEF Covers
<1>2. TooWeak(policy, profile, truth) => TooWeak(policy, profile, seen)
  BY TooWeakIsSeen
<1>3. KeyViolations(profile, truth) # {} => KeyViolations(profile, seen) # {}
  BY SmallKeysAreSeen
<1> QED BY <1>1, <1>2, <1>3 DEF Violated

\* When each key was read, or one that is used under its name, the keys that
\* were read are like those of the server.
LEMMA KeysCover ==
    ASSUME FactsAre, KeysStand, AllKeysRead, ShowsItsKeys(server)
    PROVE  Covers(facts, TheTruth)
<1>1. /\ TheTruth.offers = facts.offers
      /\ TheTruth.keys = {Read(server.hostKeys[i]) : i \in DOMAIN server.hostKeys}
  BY DEF TheTruth, FactsAre
<1>2. ASSUME NEW i \in DOMAIN server.hostKeys
      PROVE  \E h \in facts.keys : Alike(Read(server.hostKeys[i]), h)
  <2>1. PICK h \in facts.keys :
           h.print = server.hostKeys[i].print \/ h.algorithm = server.hostKeys[i].algorithm
    BY DEF AllKeysRead
  <2>2. ~h.error
    BY DEF AllKeysRead
  <2>3. PICK j \in DOMAIN server.hostKeys : h = Read(server.hostKeys[j])
    BY <2>2 DEF KeysStand
  <2> DEFINE k == server.hostKeys[i]
             l == server.hostKeys[j]
  <2>4. k.algorithm = l.algorithm \/ k.print = l.print
    BY <2>1, <2>3 DEF Read
  <2>5. /\ k.family = l.family /\ k.bits = l.bits /\ k.group = l.group
        /\ k.family \in {"rsa", "dsa"} \/ k.algorithm = l.algorithm
    BY <2>4 DEF ShowsItsKeys
  <2>6. Alike(Read(k), Read(l))
    <3> HIDE DEF k, l
    <3> QED BY <2>5 DEF Alike, Read
  <2> QED BY <2>3, <2>6
<1> QED BY <1>1, <1>2 DEF Covers

\* A profile that is neither broken nor left open is conformed to.
LEMMA PassIsConformance ==
    ASSUME FactsAre, facts.offers = server.offers, Covers(facts, TheTruth),
           StrengthsAreNumbers(ThePolicy), DOMAIN facts.offers \subseteq DOMAIN ThePolicy.entries,
           NEW profile, profile.minStrength \in Nat \cup {None},
           Status(ThePolicy, profile, facts) = "pass"
    PROVE  /\ Conforms(profile)
           /\ DOMAIN profile.minKeyBits # {} => \E k \in facts.keys : Inspected(k)
<1>1. ~Violated(ThePolicy, profile, facts) /\ ~Unverified(ThePolicy, profile, facts)
  BY DEF Status
<1>2. ~Violated(ThePolicy, profile, TheTruth)
  BY <1>1, ViolationsAreSeen
<1>3. DOMAIN profile.minKeyBits # {} => \E k \in facts.keys : Inspected(k)
  BY <1>1 DEF Unverified, Inspected
<1>4. ASSUME NEW class \in DOMAIN facts.offers, NEW n \in facts.offers[class]
      PROVE  ~Forbidden(profile, class, n)
  <2>1. Category(ThePolicy, class, n) \in Categories(ThePolicy, facts, class)
    BY DEF Categories
  <2>2. CASE Category(ThePolicy, class, n) = "unknown"
    <3>1. HasUnknown(ThePolicy, facts, class)
      BY <2>1, <2>2 DEF HasUnknown
    <3>2. /\ profile.kind # "local"
          /\ ~(/\ class \in DOMAIN profile.rules /\ profile.rules[class].allow = {}
               /\ profile.rules[class].disallow \cup profile.rules[class].unlessStrict # {})
      BY <1>1, <3>1 DEF Unverified
    <3> QED BY <3>2 DEF Forbidden
  <2>3. CASE Category(ThePolicy, class, n) \in profile.forbids /\ profile.kind = "local"
    <3>1. LocalViolations(ThePolicy, profile, facts) # {}
      BY <2>1, <2>3 DEF LocalViolations
    <3> QED BY <1>1, <2>3, <3>1 DEF Violated
  <2> QED BY <2>2, <2>3 DEF Forbidden
<1> QED BY <1>2, <1>3, <1>4 DEF Conforms

LEMMA PassesProve ==
    ASSUME ScanInv, KeysStand, StrengthsAreNumbers(ThePolicy), \A c \in Cases : ShowsItsKeys(c.server)
    PROVE  PassIsProof
<1> SUFFICES ASSUME Analysed, AllKeysRead, NEW selector \in DOMAIN result.compliance,
                    result.compliance[selector] = "pass"
             PROVE  LET profile == ProfileFor(ThePolicy, selector, options.profiles)
                    IN /\ Conforms(profile)
                       /\ DOMAIN profile.minKeyBits # {} => \E k \in facts.keys : Inspected(k)
  BY DEF PassIsProof, PassProves
<1>1. /\ FactsAre /\ case \in Cases /\ facts.offers = server.offers
      /\ result.compliance = EvaluateProfiles(ThePolicy, facts, options.profiles)
  BY DEF ScanInv, InOrder, ServerStands, ResultFollows, Concluded
<1>2. ShowsItsKeys(server)
  BY <1>1 DEF server
<1>3. Covers(facts, TheTruth)
  BY <1>1, <1>2, KeysCover
<1>4. DOMAIN facts.offers \subseteq DOMAIN ThePolicy.entries
  <2>1. DOMAIN case.server.offers \subseteq DOMAIN ThePolicy.weights
    BY <1>1, TargetScanAssumption
  <2>2. DOMAIN ThePolicy.weights \subseteq DOMAIN ThePolicy.entries
    BY DEF StrengthsAreNumbers
  <2> QED BY <1>1, <2>1, <2>2 DEF server
<1> DEFINE profile == ProfileFor(ThePolicy, selector, options.profiles)
<1>5. selector \in Selected(ThePolicy, options.profiles) /\ Status(ThePolicy, profile, facts) = "pass"
  BY <1>1 DEF EvaluateProfiles
<1>6. profile \in Range(ThePolicy.profiles) \cup Range(ThePolicy.editions)
  BY <1>5 DEF Selected, Resolvable, ProfileFor, ResolveProfile, Range
<1>7. profile.minStrength \in Nat \cup {None}
  BY <1>6 DEF StrengthsAreNumbers
<1> HIDE DEF profile
<1>8. /\ Conforms(profile)
      /\ DOMAIN profile.minKeyBits # {} => \E k \in facts.keys : Inspected(k)
  BY <1>1, <1>3, <1>4, <1>5, <1>7, PassIsConformance
<1> QED BY <1>8 DEF profile

\* A conformance pass is proof: when each key was read, the server conforms,
\* with all its keys, and would if every name that the policy has never heard
\* of were what the profile forbids; and a profile that asks for sizes saw one
\* (evaluate_profiles and _unverified in compliance.py). The strengths of the
\* policy have to be numbers, and the server to show what its keys are.
THEOREM PassesAreProofs ==
    ASSUME StrengthsAreNumbers(ThePolicy), \A c \in Cases : ShowsItsKeys(c.server)
    PROVE  Spec => []PassIsProof
<1>1. ScanInv /\ KeysStand => PassIsProof
  BY PassesProve
<1> QED BY <1>1, ScanHolds, KeysAlwaysStand, PTL

-----------------------------------------------------------------------------
(* What becomes of a rule when the advice is followed                      *)

\* A server with less on offer: a class that something was taken from still has
\* something that counts, and what stays is there; a key exchange that something
\* was taken from had what is not recommended, and has it no more.
Lessened(policy, seen, after) ==
    /\ after.banner = seen.banner /\ after.keys = seen.keys
    /\ after.auth = seen.auth /\ after.config = seen.config
    /\ DOMAIN after.offers = DOMAIN seen.offers
    /\ \A class \in DOMAIN seen.offers :
          /\ after.offers[class] \subseteq seen.offers[class]
          /\ \A name \in seen.offers[class] : Stays(policy, class, name) => name \in after.offers[class]
          /\ after.offers[class] # seen.offers[class] =>
                /\ ScoredNames(policy, after, class) # {}
                /\ class = "kex" =>
                      /\ \A name \in ScoredNames(policy, after, class) :
                            Category(policy, class, name) = "recommended"
                      /\ \E name \in ScoredNames(policy, seen, class) :
                            Category(policy, class, name) # "recommended"

\* Once it needs the version, what holds rests on it.
LEMMA HitHasVersion ==
    ASSUME NEW policy, NEW seen,
           NEW detection, IsDetection(detection), NEW needing \in SUBSET (1..Len(detection)),
           \A i \in needing :
              LET c == detection[i]
              IN \/ c.is = "version"
                 \/ c.is = "any" /\ \A k \in DOMAIN c.of : c.of[k] \in needing
                 \/ c.is = "all" /\ \E k \in DOMAIN c.of : c.of[k] \in needing
    PROVE  \A i \in needing : Answers(policy, seen, detection)[i].hit => Answers(policy, seen, detection)[i].version
<1> DEFINE n == Len(detection)
           answers == Answers(policy, seen, detection)
           good == {m \in 0..n : m \in needing => (answers[m].hit => answers[m].version)}
<1>1. n \in Nat
  BY DetectionIs
<1>2. ASSUME NEW i \in needing, \A k \in 1..i - 1 : k \in needing => (answers[k].hit => answers[k].version),
             answers[i].hit
      PROVE  answers[i].version
  <2> DEFINE c == detection[i]
  <2>1. CASE c.is = "version"
    <3>0. answers[i] = AnswerAt(policy, seen, detection, answers, i)
      BY AnswersAre
    <3>1. answers[i] = Leaf(policy, seen, c)
      BY <2>1, <3>0 DEF AnswerAt
    <3>2. Leaf(policy, seen, c) = IF VersionMatches(seen, c)
                                  THEN [Shows({"version"}) EXCEPT !.version = TRUE] ELSE Answer(FALSE)
      BY <2>1 DEF Leaf
    <3> HIDE DEF answers
    <3> QED BY <1>2, <3>1, <3>2 DEF Shows, Answer
  <2>2. CASE c.is \in {"all", "any"}
    <3>1. /\ Len(c.of) \in Nat \ {0} /\ DOMAIN c.of = 1..Len(c.of)
          /\ \A k \in 1..Len(c.of) : c.of[k] \in 1..i - 1
      BY <2>2, DetectionIs
    <3>2. \A k \in 1..n : /\ answers[k].hit \in BOOLEAN
                          /\ answers[k].raised => ~answers[k].hit
      BY AnswersAreTyped
    <3>3. \A k \in 1..i - 1 : k \in 1..n
      BY <1>1
    <3>4. PICK last \in 1..Len(c.of) :
             /\ answers[i].hit = answers[c.of[last]].hit
             /\ answers[i].raised = answers[c.of[last]].raised
             /\ answers[i].version <=> \E k \in 1..last : answers[c.of[k]].version
             /\ \A x : x \in answers[i].missing <=> \E k \in 1..last : x \in answers[c.of[k]].missing
             /\ \A k \in 1..last - 1 : ~answers[c.of[k]].raised /\ answers[c.of[k]].hit = (c.is = "all")
             /\ \/ answers[c.of[last]].raised
                \/ answers[c.of[last]].hit = (c.is = "any")
                \/ last = Len(c.of)
      <4>1. \A k \in 1..i - 1 : answers[k].hit \in BOOLEAN
        BY <3>2, <3>3
      <4>2. i \in 1..n /\ detection[i].is \in {"all", "any"}
        BY <2>2
      <4> QED BY <4>1, <4>2, CombinationIs
    <3>5. CASE c.is = "any"
      <4>1. c.of[last] \in needing /\ c.of[last] \in 1..i - 1
        BY <3>1, <3>5
      <4>2. last \in 1..last
        BY <3>1
      <4> HIDE DEF answers
      <4> QED BY <1>2, <3>4, <4>1, <4>2
    <3>6. CASE c.is = "all"
      <4>1. PICK k \in 1..Len(c.of) : c.of[k] \in needing
        BY <3>1, <3>6
      <4> HIDE DEF answers
      <4>2. c.of[last] \in 1..n /\ answers[c.of[last]].hit /\ ~answers[c.of[last]].raised
        BY <1>2, <3>1, <3>2, <3>3, <3>4
      <4>3. last = Len(c.of)
        BY <3>4, <3>6, <4>2
      <4>4. k \in 1..last /\ (k = last \/ k \in 1..last - 1)
        BY <3>1, <4>3
      <4>5. answers[c.of[k]].hit
        BY <3>4, <3>6, <4>2, <4>4
      <4> QED BY <1>2, <3>1, <3>4, <4>1, <4>4, <4>5
    <3> QED BY <2>2, <3>5, <3>6
  <2> QED BY <2>1, <2>2
<1> HIDE DEF answers
<1>3. \A m \in 0..n : m \in good
  <2>1. ASSUME NEW m \in 0..n, \A k \in 0..n : k < m => k \in good
        PROVE  m \in good
    <3>1. \A k \in 1..m - 1 : k \in 0..n /\ k < m
      BY <1>1
    <3> QED BY <1>2, <2>1, <3>1
  <2> HIDE DEF good, n
  <2> QED BY <1>1, <2>1, CountingUp
<1> QED BY <1>1, <1>3 DEF answers

\* A rule that needs the version rests on it whenever it holds, and no other does.
LEMMA VersionIsOfTheRule ==
    ASSUME NEW policy, NEW seen, NEW detection, IsDetection(detection), NeedsVersion(detection),
           Evaluate(policy, seen, detection).hit
    PROVE  Evaluate(policy, seen, detection).version
              <=> \E i \in DOMAIN detection : detection[i].is = "version"
<1> DEFINE n == Len(detection)
           answers == Answers(policy, seen, detection)
<1>1. n \in 1..n /\ Evaluate(policy, seen, detection) = answers[n]
  BY LastIs
<1>2. DOMAIN detection = 1..n
  BY DetectionIs
<1>3. CASE \A i \in DOMAIN detection : detection[i].is # "version"
  <2>1. ~answers[n].version
    BY <1>1, <1>3, VersionWasAsked
  <2> HIDE DEF answers
  <2> QED BY <1>1, <1>3, <2>1
<1>4. CASE \E i \in DOMAIN detection : detection[i].is = "version"
  <2>1. PICK needing \in SUBSET DOMAIN detection :
           /\ n \in needing
           /\ \A i \in needing :
                 LET c == detection[i]
                 IN \/ c.is = "version"
                    \/ c.is = "any" /\ \A k \in DOMAIN c.of : c.of[k] \in needing
                    \/ c.is = "all" /\ \E k \in DOMAIN c.of : c.of[k] \in needing
    BY <1>4 DEF NeedsVersion
  <2>2. \A i \in needing : answers[i].hit => answers[i].version
    BY <1>2, <2>1, HitHasVersion
  <2> HIDE DEF answers
  <2> QED BY <1>1, <1>4, <2>1, <2>2
<1> QED BY <1>3, <1>4

\* Of the conditions of a detection: those that are the same before and after.
Unmoved(policy, detection, same) ==
    \A i \in DOMAIN detection :
        LET c == detection[i]
            combined == c.is \in {"all", "any"}
            listed == c.is \in {"present", "absent"}
        IN /\ listed => c.class \in DOMAIN policy.weights
           /\ i \in same => /\ combined => \A k \in DOMAIN c.of : c.of[k] \in same
                            /\ c.is = "not" => c.of \in same
                            /\ listed => c.tags = {} /\ \A n \in c.names : Stays(policy, c.class, n)
           /\ i \notin same => combined \/ c.is = "present"

LEMMA LeafStays ==
    ASSUME NEW policy, NEW seen, NEW after, Lessened(policy, seen, after),
           NEW c, c.is \in Kinds \ {"all", "any", "not"},
           c.is \in {"present", "absent"} =>
              /\ c.class \in DOMAIN seen.offers
              /\ c.tags = {} /\ \A n \in c.names : Stays(policy, c.class, n)
    PROVE  Leaf(policy, after, c) = Leaf(policy, seen, c)
<1>1. /\ after.banner = seen.banner /\ after.keys = seen.keys
      /\ after.auth = seen.auth /\ after.config = seen.config
  BY DEF Lessened
<1>2. CASE c.is \in {"present", "absent"}
  <2>1. /\ after.offers[c.class] \subseteq seen.offers[c.class]
        /\ \A n \in c.names : n \in seen.offers[c.class] => n \in after.offers[c.class]
    BY <1>2 DEF Lessened
  <2>2. MatchingAlgorithms(policy, after, c) = MatchingAlgorithms(policy, seen, c)
    BY <1>2, <2>1 DEF MatchingAlgorithms
  <2> QED BY <1>2, <2>2 DEF Leaf
<1>3. CASE c.is \in {"version", "host_key", "protocol"}
  <2>1. VersionMatches(after, c) = VersionMatches(seen, c)
    BY <1>1 DEF VersionMatches
  <2>2. HostKeyMatches(after, c) = HostKeyMatches(seen, c)
    BY <1>1 DEF HostKeyMatches
  <2> QED BY <1>1, <1>3, <2>1, <2>2 DEF Leaf
<1>4. CASE c.is \in {"auth_method", "extension"}
  BY <1>1, <1>4 DEF Leaf
<1>5. CASE c.is = "config"
  <2>1. ConfigMatches(after, c) = ConfigMatches(seen, c)
    BY <1>1 DEF ConfigMatches
  <2> QED BY <1>1, <1>5, <2>1 DEF Leaf
<1>6. CASE c.is \in {"always", "malformed"}
  BY <1>6 DEF Leaf
<1> QED BY <1>2, <1>3, <1>4, <1>5, <1>6 DEF Kinds

\* What does not move has the same answer.
LEMMA AnswersStay ==
    ASSUME NEW policy, NEW seen, NEW after, Lessened(policy, seen, after),
           DOMAIN policy.weights \subseteq DOMAIN seen.offers,
           NEW detection, IsDetection(detection),
           NEW same \in SUBSET DOMAIN detection, Unmoved(policy, detection, same)
    PROVE  \A i \in same : Answers(policy, after, detection)[i] = Answers(policy, seen, detection)[i]
<1> DEFINE n == Len(detection)
           old == Answers(policy, seen, detection)
           new == Answers(policy, after, detection)
           good == {m \in 0..n : m \in same => new[m] = old[m]}
<1>1. n \in Nat /\ DOMAIN detection = 1..n
  BY DetectionIs
<1>2. ASSUME NEW i \in same, \A k \in 1..i - 1 : k \in same => new[k] = old[k]
      PROVE  new[i] = old[i]
  <2> DEFINE c == detection[i]
  <2>0. i \in 1..n
    BY <1>1
  <2>1. /\ new[i] = AnswerAt(policy, after, detection, new, i)
        /\ old[i] = AnswerAt(policy, seen, detection, old, i)
    BY <2>0, AnswersAre
  <2>2. /\ c.is \in {"present", "absent"} =>
              /\ c.class \in DOMAIN policy.weights
              /\ c.tags = {} /\ \A name \in c.names : Stays(policy, c.class, name)
        /\ c.is \in {"all", "any"} => \A k \in DOMAIN c.of : c.of[k] \in same
        /\ c.is = "not" => c.of \in same
    BY DEF Unmoved
  <2>3. c.is \in Kinds /\ (c.is = "not" => c.of \in 1..i - 1)
    BY <2>0, <1>1 DEF IsDetection
  <2>4. CASE c.is \in {"all", "any"}
    <3>1. \A k \in DOMAIN c.of : c.of[k] \in 1..i - 1 /\ c.of[k] \in same
      BY <2>0, <2>2, <2>4, DetectionIs
    <3> HIDE DEF new, old
    <3>2. [k \in DOMAIN c.of |-> new[c.of[k]]] = [k \in DOMAIN c.of |-> old[c.of[k]]]
      BY <1>2, <3>1
    <3> QED BY <2>1, <2>4, <3>2 DEF AnswerAt
  <2>5. CASE c.is = "not"
    <3> HIDE DEF new, old
    <3>1. new[c.of] = old[c.of]
      BY <1>2, <2>2, <2>3, <2>5
    <3> QED BY <2>1, <2>5, <3>1 DEF AnswerAt
  <2>6. CASE c.is \notin {"all", "any", "not"}
    <3>1. new[i] = Leaf(policy, after, c) /\ old[i] = Leaf(policy, seen, c)
      BY <2>1, <2>6 DEF AnswerAt
    <3>2. Leaf(policy, after, c) = Leaf(policy, seen, c)
      BY <2>2, <2>3, <2>6, LeafStays
    <3> HIDE DEF new, old
    <3> QED BY <3>1, <3>2
  <2> QED BY <2>4, <2>5, <2>6
<1> HIDE DEF new, old
<1>3. \A m \in 0..n : m \in good
  <2>1. ASSUME NEW m \in 0..n, \A k \in 0..n : k < m => k \in good
        PROVE  m \in good
    <3>1. \A k \in 1..m - 1 : k \in 0..n /\ k < m
      BY <1>1
    <3> QED BY <1>2, <2>1, <3>1
  <2> HIDE DEF good, n
  <2> QED BY <1>1, <2>1, CountingUp
<1> QED BY <1>1, <1>3 DEF new, old

\* Where nothing can raise, nothing does.
LEMMA NothingRaises ==
    ASSUME NEW policy, NEW seen, NEW detection, IsDetection(detection),
           \A i \in DOMAIN detection : detection[i].is # "malformed"
    PROVE  \A i \in 1..Len(detection) : ~Answers(policy, seen, detection)[i].raised
<1> DEFINE n == Len(detection)
           answers == Answers(policy, seen, detection)
           good == {m \in 0..n : m # 0 => ~answers[m].raised}
<1>1. n \in Nat /\ DOMAIN detection = 1..n
  BY DetectionIs
<1>2. ASSUME NEW i \in 1..n, \A k \in 1..i - 1 : ~answers[k].raised
      PROVE  ~answers[i].raised
  <2> DEFINE c == detection[i]
  <2>1. answers[i] = AnswerAt(policy, seen, detection, answers, i)
    BY AnswersAre
  <2>2. c.is \in Kinds /\ (c.is = "always" => c.value \in BOOLEAN)
        /\ (c.is = "not" => c.of \in 1..i - 1) /\ c.is # "malformed"
    BY <1>1 DEF IsDetection
  <2>3. CASE c.is \in {"all", "any"}
    <3>1. \A k \in 1..i - 1 : answers[k].hit \in BOOLEAN
      <4>1. \A k \in 1..i - 1 : k \in 1..n
        BY <1>1
      <4> QED BY <4>1, AnswersAreTyped
    <3>2. PICK last \in 1..Len(c.of) : answers[i].raised = answers[c.of[last]].raised
      BY <2>3, <3>1, CombinationIs
    <3>3. c.of[last] \in 1..i - 1
      BY <2>3, DetectionIs
    <3> HIDE DEF answers
    <3> QED BY <1>2, <3>2, <3>3
  <2>4. CASE c.is = "not"
    <3>1. answers[i] = Negated(answers[c.of])
      BY <2>1, <2>4 DEF AnswerAt
    <3> HIDE DEF answers
    <3>2. answers[i].raised = answers[c.of].raised
      BY <3>1 DEF Negated
    <3> QED BY <1>2, <2>2, <2>4, <3>2
  <2>5. CASE c.is \notin {"all", "any", "not"}
    <3>1. answers[i] = Leaf(policy, seen, c)
      BY <2>1, <2>5 DEF AnswerAt
    <3> HIDE DEF answers
    <3> QED BY <2>2, <2>5, <3>1, LeafIs
  <2> QED BY <2>3, <2>4, <2>5
<1> HIDE DEF answers
<1>3. \A m \in 0..n : m \in good
  <2>1. ASSUME NEW m \in 0..n, \A k \in 0..n : k < m => k \in good
        PROVE  m \in good
    <3>1. \A k \in 1..m - 1 : k \in 0..n /\ k < m /\ k # 0
      BY <1>1
    <3>2. m # 0 => m \in 1..n
      BY <1>1
    <3> QED BY <1>2, <2>1, <3>1, <3>2
  <2> HIDE DEF good, n
  <2> QED BY <1>1, <2>1, CountingUp
<1> QED BY <1>1, <1>3 DEF answers

\* Of a combination nothing raises of which, the answer is that of its parts.
LEMMA CombinationHits ==
    ASSUME NEW policy, NEW seen, NEW detection, IsDetection(detection),
           \A i \in DOMAIN detection : detection[i].is # "malformed",
           NEW i \in 1..Len(detection), detection[i].is \in {"all", "any"}
    PROVE  LET answers == Answers(policy, seen, detection)
               of == detection[i].of
           IN /\ detection[i].is = "any" =>
                    (answers[i].hit <=> \E k \in 1..Len(of) : answers[of[k]].hit)
              /\ detection[i].is = "all" =>
                    (answers[i].hit <=> \A k \in 1..Len(of) : answers[of[k]].hit)
<1> DEFINE n == Len(detection)
           answers == Answers(policy, seen, detection)
           of == detection[i].of
<1>1. /\ Len(of) \in Nat \ {0} /\ \A k \in 1..Len(of) : of[k] \in 1..i - 1
  BY DetectionIs
<1>2. \A k \in 1..i - 1 : k \in 1..n
  BY DetectionIs
<1>3. \A k \in 1..i - 1 : answers[k].hit \in BOOLEAN /\ ~answers[k].raised
  BY <1>2, AnswersAreTyped, NothingRaises
<1>4. PICK last \in 1..Len(of) :
         /\ answers[i].hit = answers[of[last]].hit
         /\ \A k \in 1..last - 1 : answers[of[k]].hit = (detection[i].is = "all")
         /\ \/ answers[of[last]].raised
            \/ answers[of[last]].hit = (detection[i].is = "any")
            \/ last = Len(of)
  <2>1. \A k \in 1..i - 1 : answers[k].hit \in BOOLEAN
    BY <1>3
  <2> QED BY <2>1, CombinationIs
<1> HIDE DEF answers, of
<1>5. answers[of[last]].hit \in BOOLEAN /\ ~answers[of[last]].raised
  BY <1>1, <1>3
<1>6. \A k \in 1..Len(of) : k = last \/ k \in 1..last - 1 \/ k > last
  BY <1>1
<1>7. CASE detection[i].is = "any"
  <2>1. answers[of[last]].hit \/ last = Len(of)
    BY <1>4, <1>5, <1>7
  <2>2. ASSUME NEW k \in 1..Len(of), answers[of[k]].hit PROVE answers[of[last]].hit
    <3>1. k \in 1..last - 1 => ~answers[of[k]].hit
      BY <1>4, <1>7
    <3>2. k > last => answers[of[last]].hit
      BY <1>1, <2>1
    <3> QED BY <1>6, <2>2, <3>1, <3>2
  <2>3. answers[i].hit <=> \E k \in 1..Len(of) : answers[of[k]].hit
    BY <1>4, <2>2
  <2> QED BY <1>7, <2>3 DEF answers, of
<1>8. CASE detection[i].is = "all"
  <2>1. ~answers[of[last]].hit \/ last = Len(of)
    BY <1>4, <1>5, <1>8
  <2>2. ASSUME NEW k \in 1..Len(of), answers[of[last]].hit PROVE answers[of[k]].hit
    <3>1. k \in 1..last - 1 => answers[of[k]].hit
      BY <1>4, <1>8
    <3>2. ~(k > last)
      BY <1>1, <2>1, <2>2
    <3> QED BY <1>6, <2>2, <3>1, <3>2
  <2>3. answers[i].hit <=> \A k \in 1..Len(of) : answers[of[k]].hit
    BY <1>4, <2>2
  <2> QED BY <1>8, <2>3 DEF answers, of
<1> QED BY <1>7, <1>8

\* What holds with less on offer held before.
LEMMA HitsStay ==
    ASSUME NEW policy, NEW seen, NEW after, Lessened(policy, seen, after),
           DOMAIN policy.weights \subseteq DOMAIN seen.offers,
           NEW detection, IsDetection(detection),
           \A i \in DOMAIN detection : detection[i].is # "malformed",
           NEW same \in SUBSET DOMAIN detection, Unmoved(policy, detection, same)
    PROVE  \A i \in 1..Len(detection) :
              Answers(policy, after, detection)[i].hit => Answers(policy, seen, detection)[i].hit
<1> DEFINE n == Len(detection)
           old == Answers(policy, seen, detection)
           new == Answers(policy, after, detection)
           good == {m \in 0..n : m # 0 => (new[m].hit => old[m].hit)}
<1>1. n \in Nat /\ DOMAIN detection = 1..n
  BY DetectionIs
<1>2. ASSUME NEW i \in 1..n, \A k \in 1..i - 1 : new[k].hit => old[k].hit, new[i].hit
      PROVE  old[i].hit
  <2> DEFINE c == detection[i]
  <2>1. CASE i \in same
    <3>1. new[i] = old[i]
      BY <2>1, AnswersStay
    <3> HIDE DEF new, old
    <3> QED BY <1>2, <3>1
  <2>2. CASE i \notin same /\ c.is \in {"all", "any"}
    <3>1. \A k \in 1..Len(c.of) : c.of[k] \in 1..i - 1
      BY <2>2, DetectionIs
    <3>2. \A k \in 1..Len(c.of) : new[c.of[k]].hit => old[c.of[k]].hit
      <4> HIDE DEF new, old
      <4> QED BY <1>2, <3>1
    <3>3. /\ c.is = "any" => (new[i].hit <=> \E k \in 1..Len(c.of) : new[c.of[k]].hit)
          /\ c.is = "all" => (new[i].hit <=> \A k \in 1..Len(c.of) : new[c.of[k]].hit)
      BY <2>2, CombinationHits
    <3>4. /\ c.is = "any" => (old[i].hit <=> \E k \in 1..Len(c.of) : old[c.of[k]].hit)
          /\ c.is = "all" => (old[i].hit <=> \A k \in 1..Len(c.of) : old[c.of[k]].hit)
      BY <2>2, CombinationHits
    <3> HIDE DEF new, old, c
    <3> QED BY <1>2, <2>2, <3>2, <3>3, <3>4
  <2>3. CASE i \notin same /\ c.is = "present"
    <3>1. /\ new[i] = Leaf(policy, after, c)
          /\ old[i] = Leaf(policy, seen, c)
      <4>1. /\ new[i] = AnswerAt(policy, after, detection, new, i)
            /\ old[i] = AnswerAt(policy, seen, detection, old, i)
        BY AnswersAre
      <4> QED BY <2>3, <4>1 DEF AnswerAt
    <3>2. c.class \in DOMAIN seen.offers
      BY <1>1, <2>3 DEF Unmoved
    <3>3. MatchingAlgorithms(policy, after, c) \subseteq MatchingAlgorithms(policy, seen, c)
      BY <3>2 DEF MatchingAlgorithms, Lessened
    <3>4. /\ Leaf(policy, after, c).hit = (MatchingAlgorithms(policy, after, c) # {})
          /\ Leaf(policy, seen, c).hit = (MatchingAlgorithms(policy, seen, c) # {})
      BY <2>3 DEF Leaf, Shows, Answer
    <3> HIDE DEF new, old
    <3> QED BY <1>2, <3>1, <3>3, <3>4
  <2> QED BY <1>1, <2>1, <2>2, <2>3 DEF Unmoved
<1> HIDE DEF new, old
<1>3. \A m \in 0..n : m \in good
  <2>1. ASSUME NEW m \in 0..n, \A k \in 0..n : k < m => k \in good
        PROVE  m \in good
    <3>1. \A k \in 1..m - 1 : k \in 0..n /\ k < m /\ k # 0
      BY <1>1
    <3>2. m # 0 => m \in 1..n
      BY <1>1
    <3> QED BY <1>2, <2>1, <3>1, <3>2
  <2> HIDE DEF good, n
  <2> QED BY <1>1, <2>1, CountingUp
<1> QED BY <1>1, <1>3 DEF new, old

\* The servers the theorem is about, and the rules.
LEMMA RuleStays ==
    ASSUME NEW seen, NEW after, Lessened(ThePolicy, seen, after),
           DOMAIN ThePolicy.weights \subseteq DOMAIN seen.offers,
           NEW detection, IsDetection(detection), HoldsForNothingGone(detection)
    PROVE  LET new == Evaluate(ThePolicy, after, detection)
               old == Evaluate(ThePolicy, seen, detection)
           IN ~new.raised /\ new.hit => ~old.raised /\ old.hit
<1> DEFINE n == Len(detection)
           new == Evaluate(ThePolicy, after, detection)
           old == Evaluate(ThePolicy, seen, detection)
<1>1. PICK same \in SUBSET DOMAIN detection :
         /\ Unmoved(ThePolicy, detection, same)
         /\ n \in same \/ \A i \in DOMAIN detection : detection[i].is # "malformed"
  BY DEF HoldsForNothingGone, Unmoved
<1>2. /\ n \in 1..n
      /\ new = Answers(ThePolicy, after, detection)[n]
      /\ old = Answers(ThePolicy, seen, detection)[n]
  BY LastIs
<1>3. CASE n \in same
  <2>1. new = old
    BY <1>1, <1>2, <1>3, AnswersStay
  <2> QED BY <2>1
<1>4. CASE \A i \in DOMAIN detection : detection[i].is # "malformed"
  <2>1. new.hit => old.hit
    BY <1>1, <1>2, <1>4, HitsStay
  <2>2. ~old.raised
    BY <1>2, <1>4, NothingRaises
  <2> QED BY <2>1, <2>2
<1> QED BY <1>1, <1>3, <1>4

\* What is serious after the advice was so before, and as much is known of it.
LEMMA SeriousStays ==
    ASSUME NEW seen, NEW after, Lessened(ThePolicy, seen, after),
           DOMAIN ThePolicy.weights \subseteq DOMAIN seen.offers,
           \A rule \in ThePolicy.rules : NeedsVersion(rule.detection) /\ HoldsForNothingGone(rule.detection),
           NEW severities \in SUBSET {"critical", "high"}, NEW measured,
           Confirmed(ApplyChangelog(after, Matches(ThePolicy, after)), severities, measured)
    PROVE  Confirmed(ApplyChangelog(seen, Matches(ThePolicy, seen)), severities, measured)
<1>1. PICK m \in ApplyChangelog(after, Matches(ThePolicy, after)) :
         /\ m.severity \in severities /\ ~m.undetermined /\ ~m.patched /\ ~(measured /\ m.version)
  BY DEF Confirmed
<1>2. PICK found \in Matches(ThePolicy, after) : m = Patches(after, found)
  BY <1>1 DEF ApplyChangelog
<1>3. PICK rule \in ThePolicy.rules : found \in MatchesOf(ThePolicy, after, rule)
  BY <1>2 DEF Matches
<1> DEFINE new == Evaluate(ThePolicy, after, rule.detection)
           old == Evaluate(ThePolicy, seen, rule.detection)
           before == Match(rule.id, rule.severity, [old EXCEPT !.missing = {}], FALSE)
<1>4. /\ m.severity = found.severity /\ m.undetermined = found.undetermined /\ m.version = found.version
      /\ m.patched <=> after.config.state = "read" /\ found.version /\ ~found.undetermined
                       /\ found.id \in after.config.changelog.names
  <2>1. DOMAIN found = {"id", "severity", "evidence", "version", "undetermined", "patched", "needs"}
    BY <1>3, MatchesAre
  <2> QED BY <1>2, <2>1 DEF Patches
<1>5. found.severity # "info"
  BY <1>1, <1>4
<1>6. /\ ~new.raised /\ new.hit
      /\ found.id = rule.id /\ found.severity = rule.severity /\ found.version = new.version
  <2>1. CASE new.raised
    <3>1. found = Match(rule.id, "info", Answer(FALSE), FALSE)
      BY <1>3, <2>1 DEF MatchesOf
    <3> QED BY <1>5, <3>1 DEF Match
  <2>2. CASE ~new.raised /\ new.hit
    <3>1. found = Match(rule.id, rule.severity, [new EXCEPT !.missing = {}], FALSE)
      BY <1>3, <2>2 DEF MatchesOf
    <3>2. [new EXCEPT !.missing = {}].version = new.version
      OBVIOUS
    <3> HIDE DEF new
    <3> QED BY <2>2, <3>1, <3>2 DEF Match
  <2>3. CASE ~new.raised /\ ~new.hit /\ new.missing # {}
    <3>1. found = Match(rule.id, "info", [Answer(FALSE) EXCEPT !.missing = new.missing], TRUE)
      BY <1>3, <2>3 DEF MatchesOf
    <3> QED BY <1>5, <3>1 DEF Match
  <2>4. CASE ~new.raised /\ ~new.hit /\ new.missing = {}
    BY <1>3, <2>4 DEF MatchesOf
  <2> HIDE DEF new
  <2> QED BY <2>1, <2>2, <2>3, <2>4
<1>7. IsDetection(rule.detection) /\ NeedsVersion(rule.detection) /\ HoldsForNothingGone(rule.detection)
  BY TargetScanAssumption
<1>8. ~old.raised /\ old.hit
  BY <1>6, <1>7, RuleStays
<1>9. new.version <=> old.version
  <2>1. new.version <=> \E i \in DOMAIN rule.detection : rule.detection[i].is = "version"
    BY <1>6, <1>7, VersionIsOfTheRule
  <2>2. old.version <=> \E i \in DOMAIN rule.detection : rule.detection[i].is = "version"
    BY <1>7, <1>8, VersionIsOfTheRule
  <2> HIDE DEF new, old
  <2> QED BY <2>1, <2>2
<1>10. /\ before \in Matches(ThePolicy, seen)
       /\ before.id = rule.id /\ before.severity = rule.severity /\ before.undetermined = FALSE
       /\ before.version = old.version
       /\ DOMAIN before = {"id", "severity", "evidence", "version", "undetermined", "patched", "needs"}
  <2>1. MatchesOf(ThePolicy, seen, rule) = {before}
    BY <1>8 DEF MatchesOf
  <2>2. [old EXCEPT !.missing = {}].version = old.version
    OBVIOUS
  <2>3. before \in Matches(ThePolicy, seen)
    <3> HIDE DEF before
    <3> QED BY <2>1 DEF Matches
  <2> HIDE DEF old
  <2> QED BY <2>2, <2>3 DEF Match
<1> HIDE DEF new, old, before
<1> DEFINE was == Patches(seen, before)
<1>11. was \in ApplyChangelog(seen, Matches(ThePolicy, seen))
  BY <1>10 DEF ApplyChangelog
<1>12. /\ was.severity = rule.severity /\ was.undetermined = FALSE /\ was.version = old.version
       /\ was.patched <=> seen.config.state = "read" /\ old.version /\ rule.id \in seen.config.changelog.names
  BY <1>10 DEF Patches
<1> HIDE DEF was
<1>13. seen.config = after.config
  BY DEF Lessened
<1>14. /\ was.severity \in severities /\ ~was.undetermined
       /\ ~was.patched /\ ~(measured /\ was.version)
  BY <1>1, <1>4, <1>6, <1>9, <1>12, <1>13
<1> QED BY <1>11, <1>14 DEF Confirmed

-----------------------------------------------------------------------------
(* What applying the advice leaves                                         *)

\* A line that can be applied now is of what the server has and the policy
\* scores; one for the key exchange is of what is recommended.
LEMMA AdviceIs ==
    ASSUME NEW policy, AdviceIsSound(policy), NEW seen, DOMAIN seen.offers = DOMAIN policy.weights,
           "zlib" \in seen.offers.compression => "none" \in seen.offers.compression,
           NEW r \in Recommendations(policy, seen), r.now
    PROVE  /\ r.class \in DOMAIN seen.offers
           /\ r.value \subseteq seen.offers[r.class] /\ r.value # {}
           /\ \A name \in r.value : Category(policy, r.class, name) \in Scored
           /\ r.class = "kex" =>
                 /\ \A name \in r.value : Category(policy, "kex", name) = "recommended"
                 /\ \E name \in ScoredNames(policy, seen, "kex") : Category(policy, "kex", name) # "recommended"
<1>1. CASE \E class \in DOMAIN seen.offers : Advised(policy, seen, class) /\ r = Advice(policy, seen, class)
  <2>1. PICK class \in DOMAIN seen.offers : Advised(policy, seen, class) /\ r = Advice(policy, seen, class)
    BY <1>1
  <2> DEFINE here == Suggested(policy, class) \cap seen.offers[class]
  <2>2. here # {} /\ r.class = class /\ r.value = here
    BY <2>1 DEF Advice
  <2>3. \A name \in here : /\ Category(policy, class, name) \in Scored
                           /\ class = "kex" => Category(policy, class, name) = "recommended"
    BY RanksAre DEF AdviceIsSound
  <2>4. \E name \in ScoredNames(policy, seen, class) : Category(policy, class, name) # "recommended"
    <3>1. PICK name \in ScoredNames(policy, seen, class) : TRUE
      BY <2>1 DEF Advised
    <3>2. \A other \in seen.offers[class] : Category(policy, class, other) \in Categories(policy, seen, class)
      BY DEF Categories
    <3>3. \A category \in Categories(policy, seen, class) :
             \E other \in seen.offers[class] : category = Category(policy, class, other)
      BY DEF Categories
    <3>4. PICK category \in Categories(policy, seen, class) \cap Scored : category # "recommended"
      <4>1. Category(policy, class, name) \in Categories(policy, seen, class) \cap Scored
        BY <3>1, <3>2 DEF ScoredNames
      <4> QED BY <2>1, <4>1 DEF Advised
    <3> QED BY <3>3, <3>4 DEF ScoredNames
  <2>5. here \subseteq seen.offers[class]
    OBVIOUS
  <2> HIDE DEF here
  <2>6. r.class = class /\ r.value = here
    BY <2>2
  <2>7. class \in DOMAIN seen.offers /\ here # {}
    BY <2>2
  <2>8. \A name \in r.value : Category(policy, r.class, name) \in Scored
    BY <2>3, <2>6
  <2>9. class = "kex" => \A name \in r.value : Category(policy, "kex", name) = "recommended"
    BY <2>3, <2>6
  <2> QED BY <2>4, <2>5, <2>6, <2>7, <2>8, <2>9
<1>2. CASE "zlib" \in seen.offers.compression /\ r = [class |-> "compression", value |-> {"none"}, now |-> TRUE, copied |-> FALSE]
  <2>1. Category(policy, "compression", "none") \in Scored /\ "compression" \in DOMAIN seen.offers
    BY DEF AdviceIsSound
  <2> QED BY <1>2, <2>1
<1> QED BY <1>1, <1>2 DEF Recommendations

\* Applying what can be applied leaves less on offer.
LEMMA AppliedIs ==
    ASSUME NEW policy, AdviceIsSound(policy), NEW seen, DOMAIN seen.offers = DOMAIN policy.weights,
           "zlib" \in seen.offers.compression => "none" \in seen.offers.compression,
           DOMAIN seen = DOMAIN NoFacts
    PROVE  Lessened(policy, seen, Applied(policy, seen))
<1> DEFINE after == Applied(policy, seen)
           now == {r \in Recommendations(policy, seen) : r.now}
           line(class) == CHOOSE r \in now : r.class = class
           kept(class) == seen.offers[class] \ (ScoredNames(policy, seen, class)
               \cup {n \in seen.offers[class] : Category(policy, class, n) = "unknown"})
           offers == [class \in DOMAIN seen.offers |->
                        IF \E r \in now : r.class = class THEN kept(class) \cup line(class).value
                        ELSE seen.offers[class]]
<1>1. after = [seen EXCEPT !.offers = offers]
  BY DEF Applied
<1>2. DOMAIN NoFacts = {"offers", "banner", "keys", "auth", "config", "sshfp", "validated", "walk",
                        "startups", "grace", "client"}
  BY DEF NoFacts
<1>3. /\ after.offers = offers /\ after.banner = seen.banner /\ after.keys = seen.keys
      /\ after.auth = seen.auth /\ after.config = seen.config
  <2> HIDE DEF offers
  <2> QED BY <1>1, <1>2
<1>4. DOMAIN offers = DOMAIN seen.offers
  OBVIOUS
<1>5. ASSUME NEW class \in DOMAIN seen.offers
      PROVE  /\ offers[class] \subseteq seen.offers[class]
             /\ \A name \in seen.offers[class] : Stays(policy, class, name) => name \in offers[class]
             /\ offers[class] # seen.offers[class] =>
                   /\ ScoredNames(policy, after, class) # {}
                   /\ class = "kex" =>
                         /\ \A name \in ScoredNames(policy, after, class) :
                               Category(policy, class, name) = "recommended"
                         /\ \E name \in ScoredNames(policy, seen, class) :
                               Category(policy, class, name) # "recommended"
  <2>1. CASE ~\E r \in now : r.class = class
    <3>1. offers[class] = seen.offers[class]
      BY <2>1
    <3> HIDE DEF offers
    <3> QED BY <3>1
  <2>2. CASE \E r \in now : r.class = class
    <3> DEFINE r == line(class)
    <3>1. r \in now /\ r.class = class
      BY <2>2
    <3>2. /\ r.value \subseteq seen.offers[class] /\ r.value # {}
          /\ \A name \in r.value : Category(policy, class, name) \in Scored
          /\ class = "kex" =>
                /\ \A name \in r.value : Category(policy, class, name) = "recommended"
                /\ \E name \in ScoredNames(policy, seen, "kex") : Category(policy, "kex", name) # "recommended"
      <4>1. r \in Recommendations(policy, seen) /\ r.now
        BY <3>1
      <4> HIDE DEF line, now
      <4> QED BY <3>1, <4>1, AdviceIs
    <3>3. offers[class] = kept(class) \cup r.value
      BY <2>2
    <3> HIDE DEF line, offers, now, after
    <3>4. \A name : name \in kept(class) <=> /\ name \in seen.offers[class]
                                             /\ Stays(policy, class, name)
      BY DEF ScoredNames, Stays
    <3>5. \A name : name \in ScoredNames(policy, after, class) <=>
                       name \in offers[class] /\ Category(policy, class, name) \in Scored
      BY <1>3 DEF ScoredNames
    <3> HIDE DEF kept
    <3>6. \A name : name \in ScoredNames(policy, after, class) <=> name \in r.value
      BY <3>2, <3>3, <3>4, <3>5 DEF Stays
    <3> QED BY <3>2, <3>3, <3>4, <3>6
  <2> QED BY <2>1, <2>2
<1> HIDE DEF offers
<1> QED BY <1>3, <1>4, <1>5 DEF Lessened

-----------------------------------------------------------------------------
(* What the advice is worth                                                *)

\* Two sums of which one is nowhere less differ by what they do in one place.
LEMMA SumsDiffer ==
    ASSUME NEW f, NEW g, IsFiniteSet(DOMAIN f), DOMAIN g = DOMAIN f,
           \A x \in DOMAIN f : f[x] \in Int /\ g[x] \in Int /\ f[x] <= g[x]
    PROVE  /\ SumFunction(f) \in Int /\ SumFunction(g) \in Int /\ SumFunction(f) <= SumFunction(g)
           /\ \A y \in DOMAIN f : SumFunction(g) >= SumFunction(f) + (g[y] - f[y])
<1> DEFINE D == DOMAIN f
<1>1. PICK p : SumFunction(f) = p[D] /\ \A s \in SUBSET D : p[s] = SumAt(f, p, s)
  BY SumIs
<1>2. PICK q : SumFunction(g) = q[D] /\ \A s \in SUBSET D : q[s] = SumAt(g, q, s)
  BY SumIs
<1> DEFINE good == {s \in SUBSET D : /\ p[s] \in Int /\ q[s] \in Int /\ p[s] <= q[s]
                                     /\ \A y \in s : q[s] >= p[s] + (g[y] - f[y])}
<1>3. {} \in good
  <2>1. p[{}] = 0 /\ q[{}] = 0
    BY <1>1, <1>2 DEF SumAt
  <2> QED BY <2>1
<1>4. ASSUME NEW s \in SUBSET D, s # {}, s \ {CHOOSE x \in s : TRUE} \in good PROVE s \in good
  <2> DEFINE x == CHOOSE x \in s : TRUE
             r == s \ {x}
  <2>1. x \in s /\ x \in D
    BY <1>4
  <2>2. p[s] = f[x] + p[r] /\ q[s] = g[x] + q[r]
    BY <1>1, <1>2, <1>4 DEF SumAt
  <2>3. /\ p[r] \in Int /\ q[r] \in Int /\ p[r] <= q[r]
        /\ \A y \in r : q[r] >= p[r] + (g[y] - f[y])
    BY <1>4
  <2>4. f[x] \in Int /\ g[x] \in Int /\ f[x] <= g[x]
    BY <2>1
  <2>5. ASSUME NEW y \in s PROVE q[s] >= p[s] + (g[y] - f[y])
    <3>1. f[y] \in Int /\ g[y] \in Int
      OBVIOUS
    <3>2. CASE y = x
      <4> HIDE DEF x, r
      <4> QED BY <2>2, <2>3, <2>4, <3>2
    <3>3. CASE y # x
      <4>1. y \in r
        BY <3>3
      <4> HIDE DEF x, r
      <4> QED BY <2>2, <2>3, <2>4, <3>1, <4>1
    <3> QED BY <3>2, <3>3
  <2>6. p[s] \in Int /\ q[s] \in Int /\ p[s] <= q[s]
    <3> HIDE DEF x, r
    <3> QED BY <2>2, <2>3, <2>4
  <2> QED BY <2>5, <2>6
<1>5. D \in good
  <2> HIDE DEF good, D
  <2>1. IsFiniteSet(D)
    BY DEF D
  <2>2. \A s \in SUBSET D : s \in good
    BY <1>3, <1>4, <2>1, TakingOneByOne
  <2> QED BY <2>2
<1> QED BY <1>1, <1>2, <1>5

\* A sum over no more than five.
LEMMA SumOfFive ==
    ASSUME NEW f, NEW a, NEW b, NEW c, NEW d, NEW e,
           a # b, a # c, a # d, a # e, b # c, b # d, b # e, c # d, c # e, d # e,
           IsFiniteSet(DOMAIN f), DOMAIN f \subseteq {a, b, c, d, e},
           \A x \in DOMAIN f : f[x] \in Int
    PROVE  SumFunction(f) = (IF a \in DOMAIN f THEN f[a] ELSE 0) + (IF b \in DOMAIN f THEN f[b] ELSE 0)
                            + (IF c \in DOMAIN f THEN f[c] ELSE 0) + (IF d \in DOMAIN f THEN f[d] ELSE 0)
                            + (IF e \in DOMAIN f THEN f[e] ELSE 0)
<1> DEFINE D == DOMAIN f
           part(x, s) == IF x \in s THEN f[x] ELSE 0
           all(s) == part(a, s) + part(b, s) + part(c, s) + part(d, s) + part(e, s)
<1>1. PICK p : SumFunction(f) = p[D] /\ \A s \in SUBSET D : p[s] = SumAt(f, p, s)
  BY SumIs
<1> DEFINE good == {s \in SUBSET D : p[s] = all(s)}
<1>2. {} \in good
  <2>1. p[{}] = 0
    BY <1>1 DEF SumAt
  <2> QED BY <2>1
<1>3. ASSUME NEW s \in SUBSET D, s # {}, s \ {CHOOSE x \in s : TRUE} \in good PROVE s \in good
  <2> DEFINE x == CHOOSE x \in s : TRUE
             r == s \ {x}
  <2>1. x \in s /\ x \in {a, b, c, d, e}
    BY <1>3
  <2>2. p[s] = f[x] + p[r]
    BY <1>1, <1>3 DEF SumAt
  <2>3. p[r] = all(r)
    BY <1>3
  <2>4. \A y : y \in s => f[y] \in Int
    OBVIOUS
  <2>5. \A y : y \in r <=> y \in s /\ y # x
    OBVIOUS
  <2>6. \A y : part(y, s) \in Int /\ part(y, r) \in Int
               /\ (part(y, s) = IF y = x THEN f[x] ELSE part(y, r)) /\ (y = x => part(y, r) = 0)
    <3> HIDE DEF x, r, D
    <3> QED BY <2>1, <2>4, <2>5
  <2>7. all(s) = f[x] + all(r)
    <3>1. f[x] \in Int
      BY <2>1, <2>4
    <3> HIDE DEF x, r, D, part
    <3>2. CASE x = a
      BY <2>6, <3>1, <3>2
    <3>3. CASE x = b
      BY <2>6, <3>1, <3>3
    <3>4. CASE x = c
      BY <2>6, <3>1, <3>4
    <3>5. CASE x = d
      BY <2>6, <3>1, <3>5
    <3>6. CASE x = e
      BY <2>6, <3>1, <3>6
    <3> QED BY <2>1, <3>2, <3>3, <3>4, <3>5, <3>6
  <2> HIDE DEF all
  <2> QED BY <2>2, <2>3, <2>7
<1>4. D \in good
  <2> HIDE DEF good, D
  <2>1. IsFiniteSet(D)
    BY DEF D
  <2>2. \A s \in SUBSET D : s \in good
    BY <1>2, <1>3, <2>1, TakingOneByOne
  <2> QED BY <2>2
<1> QED BY <1>1, <1>4

\* What is more by n times the whole rounds to n - 1 more at least.
LEMMA RoundsUp ==
    ASSUME NEW n \in Int, NEW m \in Int, NEW d \in Nat \ {0}
    PROVE  /\ m >= n => Round(m, d) >= Round(n, d)
           /\ \A k \in Nat : m >= n + (k + 1) * d => Round(m, d) >= Round(n, d) + k
<1> DEFINE q(x) == x \div d
           r(x) == x % d
<1>1. ASSUME NEW x \in Int
      PROVE  /\ q(x) \in Int /\ r(x) \in Int /\ 0 <= r(x) /\ r(x) < d /\ x = q(x) * d + r(x)
             /\ \A a \in Int : x >= a * d => q(x) >= a
             /\ Round(x, d) = IF 2 * r(x) > d \/ (2 * r(x) = d /\ q(x) % 2 = 1) THEN q(x) + 1 ELSE q(x)
  <2>1. /\ q(x) \in Int /\ r(x) \in Int /\ 0 <= r(x) /\ r(x) < d /\ x = q(x) * d + r(x)
    OBVIOUS
  <2>2. \A a \in Int : x >= a * d => q(x) >= a
    OBVIOUS
  <2>3. Round(x, d) = IF 2 * r(x) > d \/ (2 * r(x) = d /\ q(x) % 2 = 1) THEN q(x) + 1 ELSE q(x)
    BY DEF Round
  <2> QED BY <2>1, <2>2, <2>3
<1> HIDE DEF q, r
<1>2. /\ q(m) \in Int /\ q(n) \in Int /\ r(m) \in Int /\ r(n) \in Int
      /\ Round(m, d) = IF 2 * r(m) > d \/ (2 * r(m) = d /\ q(m) % 2 = 1) THEN q(m) + 1 ELSE q(m)
      /\ Round(n, d) = IF 2 * r(n) > d \/ (2 * r(n) = d /\ q(n) % 2 = 1) THEN q(n) + 1 ELSE q(n)
  BY <1>1
<1>5. Round(m, d) \in {q(m), q(m) + 1} /\ Round(n, d) \in {q(n), q(n) + 1}
  BY <1>2
<1>3. ASSUME m >= n PROVE Round(m, d) >= Round(n, d)
  <2>1. m >= q(n) * d /\ q(n) * d \in Int
    BY <1>1, <1>3
  <2>2. q(m) >= q(n)
    BY <1>1, <2>1
  <2>3. CASE q(m) > q(n)
    BY <1>2, <1>5, <2>3
  <2>4. CASE q(m) = q(n)
    <3>1. r(m) >= r(n)
      <4> DEFINE t == q(n) * d
      <4>1. m = t + r(m) /\ n = t + r(n) /\ t \in Int
        BY <1>1, <2>1, <2>4
      <4> HIDE DEF t
      <4> QED BY <1>1, <1>3, <4>1
    <3> QED BY <1>2, <2>4, <3>1
  <2> QED BY <1>2, <2>2, <2>3, <2>4
<1>4. ASSUME NEW k \in Nat, m >= n + (k + 1) * d PROVE Round(m, d) >= Round(n, d) + k
  <2>1. (q(n) + (k + 1)) * d = q(n) * d + (k + 1) * d /\ q(n) * d \in Int /\ (k + 1) * d \in Int
    BY <1>1
  <2>2. m >= (q(n) + (k + 1)) * d
    BY <1>1, <1>4, <2>1
  <2>3. q(m) >= q(n) + (k + 1)
    BY <1>1, <2>2
  <2> QED BY <1>2, <1>5, <2>3
<1> QED BY <1>3, <1>4

\* A class is worth what its worst algorithm is.
LEMMA ClassIsWorth ==
    ASSUME NEW policy, NEW seen, IsScale(policy), NEW class
    PROVE  /\ ScoredNames(policy, seen, class) = {} => ClassScore(policy, seen, class) = None
           /\ ScoredNames(policy, seen, class) # {} =>
                 /\ ClassScore(policy, seen, class) \in 0..100 /\ ClassScore(policy, seen, class) # None
                 /\ \E name \in ScoredNames(policy, seen, class) :
                       ClassScore(policy, seen, class) = policy.scores[Category(policy, class, name)]
                 /\ \A name \in ScoredNames(policy, seen, class) :
                       ClassScore(policy, seen, class) <= policy.scores[Category(policy, class, name)]
<1> DEFINE scored == ScoredNames(policy, seen, class)
           worth == {policy.scores[Category(policy, class, name)] : name \in scored}
<1>1. ClassScore(policy, seen, class) = IF scored = {} THEN None ELSE Min(worth)
  BY DEF ClassScore
<1>2. \A name \in scored : policy.scores[Category(policy, class, name)] \in 0..100
  BY DEF ScoredNames, IsScale
<1>3. worth \in SUBSET (0..100) /\ worth \in SUBSET Nat /\ (scored # {} => worth # {})
  BY <1>2
<1>4. scored # {} => Min(worth) \in worth /\ \A w \in worth : Min(worth) <= w
  <2> HIDE DEF worth, scored
  <2> QED BY <1>3, MinIs
<1>5. CASE scored = {}
  BY <1>1, <1>5
<1>6. CASE scored # {}
  <2>1. \A name \in scored : policy.scores[Category(policy, class, name)] \in worth
    OBVIOUS
  <2>2. \A w \in worth : \E name \in scored : w = policy.scores[Category(policy, class, name)]
    OBVIOUS
  <2>3. Min(worth) # None
    <3> HIDE DEF worth, scored
    <3> QED BY <1>3, <1>4, <1>6 DEF None
  <2> HIDE DEF worth
  <2> QED BY <1>1, <1>3, <1>4, <1>6, <2>1, <2>2, <2>3
<1> QED BY <1>5, <1>6

\* Nothing is worth more than what is recommended, and what is not is worth no
\* more than what is acceptable.
LEMMA RecommendedIsBest ==
    ASSUME NEW policy, AdviceIsSound(policy)
    PROVE  /\ policy.scores["recommended"] \in 0..100 /\ policy.scores["acceptable"] \in 0..100
           /\ \A category \in Scored : /\ policy.scores[category] \in 0..100
                                       /\ policy.scores[category] <= policy.scores["recommended"]
                                       /\ category # "recommended" =>
                                             policy.scores[category] <= policy.scores["acceptable"]
<1>1. /\ policy.scores["recommended"] \in 0..100 /\ policy.scores["acceptable"] \in 0..100
      /\ policy.scores["acceptable"] <= policy.scores["recommended"]
      /\ \A category \in Scored : policy.scores[category] \in 0..100
  BY RanksAre DEF AdviceIsSound, IsScale
<1>2. ASSUME NEW category \in Scored
      PROVE  /\ policy.scores[category] <= policy.scores["recommended"]
             /\ category # "recommended" => policy.scores[category] <= policy.scores["acceptable"]
  <2>1. policy.scores[category] \in 0..100
    BY <1>1
  <2>2. CASE category = "recommended"
    BY <1>1, <2>2
  <2>3. CASE category # "recommended"
    <3>1. policy.scores[category] <= policy.scores["acceptable"]
      BY <2>3 DEF AdviceIsSound
    <3>2. \A x, y, z \in 0..100 : x <= y /\ y <= z => x <= z
      OBVIOUS
    <3> QED BY <1>1, <2>1, <2>3, <3>1, <3>2
  <2> QED BY <2>2, <2>3
<1> QED BY <1>1, <1>2

\* No class is worth less with less on offer, and a key exchange that changed
\* is worth what is recommended, and was worth no more than what is acceptable.
LEMMA ClassesGoUp ==
    ASSUME NEW policy, AdviceIsSound(policy), NEW seen, NEW after, Lessened(policy, seen, after),
           NEW class \in DOMAIN seen.offers
    PROVE  /\ ClassScore(policy, after, class) = None <=> ClassScore(policy, seen, class) = None
           /\ ClassScore(policy, seen, class) # None =>
                 /\ ClassScore(policy, seen, class) \in 0..100 /\ ClassScore(policy, after, class) \in 0..100
                 /\ ClassScore(policy, seen, class) <= ClassScore(policy, after, class)
           /\ class = "kex" /\ after.offers.kex # seen.offers.kex =>
                 /\ ClassScore(policy, seen, "kex") # None
                 /\ ClassScore(policy, seen, "kex") <= policy.scores["acceptable"]
                 /\ ClassScore(policy, after, "kex") = policy.scores["recommended"]
<1>1. IsScale(policy)
  BY DEF AdviceIsSound
<1>2. /\ policy.scores["recommended"] \in 0..100 /\ policy.scores["acceptable"] \in 0..100
      /\ \A category \in Scored : /\ policy.scores[category] \in 0..100
                                  /\ policy.scores[category] <= policy.scores["recommended"]
                                  /\ category # "recommended" =>
                                        policy.scores[category] <= policy.scores["acceptable"]
  BY RecommendedIsBest
<1>3. CASE after.offers[class] = seen.offers[class]
  <2>1. ScoredNames(policy, after, class) = ScoredNames(policy, seen, class)
    BY <1>3 DEF ScoredNames
  <2>2. ClassScore(policy, after, class) = ClassScore(policy, seen, class)
    BY <2>1 DEF ClassScore
  <2>3. ClassScore(policy, seen, class) # None => ClassScore(policy, seen, class) \in 0..100
    BY <1>1, ClassIsWorth
  <2> QED BY <1>3, <2>2, <2>3
<1>4. CASE after.offers[class] # seen.offers[class]
  <2>1. /\ ScoredNames(policy, after, class) # {}
        /\ class = "kex" =>
              /\ \A name \in ScoredNames(policy, after, class) : Category(policy, class, name) = "recommended"
              /\ \E name \in ScoredNames(policy, seen, class) : Category(policy, class, name) # "recommended"
        /\ after.offers[class] \subseteq seen.offers[class]
    BY <1>4 DEF Lessened
  <2>2. /\ ScoredNames(policy, after, class) \subseteq ScoredNames(policy, seen, class)
        /\ ScoredNames(policy, seen, class) # {}
    BY <2>1 DEF ScoredNames
  <2>3. /\ ClassScore(policy, after, class) \in 0..100 /\ ClassScore(policy, after, class) # None
        /\ \E name \in ScoredNames(policy, after, class) :
              ClassScore(policy, after, class) = policy.scores[Category(policy, class, name)]
    BY <1>1, <2>1, ClassIsWorth
  <2>4. \A name \in ScoredNames(policy, seen, class) : Category(policy, class, name) \in Scored
    BY DEF ScoredNames
  <2>5. /\ ClassScore(policy, seen, class) \in 0..100 /\ ClassScore(policy, seen, class) # None
        /\ \E name \in ScoredNames(policy, seen, class) :
              ClassScore(policy, seen, class) = policy.scores[Category(policy, class, name)]
        /\ \A name \in ScoredNames(policy, seen, class) :
              ClassScore(policy, seen, class) <= policy.scores[Category(policy, class, name)]
    BY <1>1, <2>2, ClassIsWorth
  <2>6. /\ ClassScore(policy, seen, class) <= ClassScore(policy, after, class)
        /\ class = "kex" => ClassScore(policy, after, class) = policy.scores["recommended"]
    BY <2>1, <2>2, <2>3, <2>5
  <2>7. class = "kex" => ClassScore(policy, seen, class) <= policy.scores["acceptable"]
    <3> SUFFICES ASSUME class = "kex" PROVE ClassScore(policy, seen, class) <= policy.scores["acceptable"]
      OBVIOUS
    <3>1. PICK name \in ScoredNames(policy, seen, class) : Category(policy, class, name) # "recommended"
      BY <2>1
    <3>2. /\ Category(policy, class, name) \in Scored
          /\ ClassScore(policy, seen, class) <= policy.scores[Category(policy, class, name)]
      BY <2>4, <2>5
    <3> DEFINE category == Category(policy, class, name)
               score == ClassScore(policy, seen, class)
    <3>3. /\ policy.scores[category] \in 0..100
          /\ policy.scores[category] <= policy.scores["acceptable"]
      BY <1>2, <3>1, <3>2
    <3>4. score \in 0..100 /\ score <= policy.scores[category]
      BY <2>5, <3>2
    <3> HIDE DEF category, score
    <3>5. score <= policy.scores["acceptable"]
      <4>1. \A x, y, z \in 0..100 : x <= y /\ y <= z => x <= z
        OBVIOUS
      <4> QED BY <1>2, <3>3, <3>4, <4>1
    <3> QED BY <3>5 DEF score
  <2> QED BY <1>2, <2>3, <2>5, <2>6, <2>7
<1> QED BY <1>3, <1>4

\* The classes that count are the same, so is what they weigh, and they are
\* worth no less. A key exchange that changed was short of what is recommended
\* by more points than the flag for post-quantum methods costs.
LEMMA WorthGoesUp ==
    ASSUME NEW policy, AdviceIsSound(policy), NEW seen, NEW after, Lessened(policy, seen, after),
           IsOffer(policy, seen), DOMAIN seen.offers = DOMAIN policy.weights
    PROVE  LET total == TotalWeight(policy, seen)
               penalty == -Cost(policy, "no_post_quantum_kex")
           IN /\ TotalWeight(policy, after) = total
              /\ Worth(policy, seen) \in Int /\ Worth(policy, after) \in Int
              /\ Worth(policy, after) >= Worth(policy, seen)
              /\ after.offers.kex # seen.offers.kex =>
                    /\ Worth(policy, after) >= Worth(policy, seen) + (penalty + 1) * total
                    /\ Worth(policy, seen) <= policy.scores["recommended"] * total - (penalty + 1) * total
                    /\ total # 0
<1> DEFINE classes == Weighed(policy, seen)
           total == TotalWeight(policy, seen)
           penalty == -Cost(policy, "no_post_quantum_kex")
           gain == policy.scores["recommended"] - policy.scores["acceptable"]
           w == [class \in classes |-> policy.weights[class]]
           f == [class \in classes |-> policy.weights[class] * ClassScore(policy, seen, class)]
           g == [class \in classes |-> policy.weights[class] * ClassScore(policy, after, class)]
           h == [class \in classes |-> policy.scores["recommended"] * policy.weights[class]]
<1>1. IsScale(policy) /\ DOMAIN after.offers = DOMAIN seen.offers /\ "kex" \in DOMAIN seen.offers
      /\ policy.weights["kex"] > 0
  BY DEF AdviceIsSound, Lessened
<1>2. Weighed(policy, after) = classes
  <2>1. \A class \in DOMAIN seen.offers :
           ClassScore(policy, after, class) = None <=> ClassScore(policy, seen, class) = None
    BY ClassesGoUp
  <2> QED BY <1>1, <2>1 DEF Weighed
<1>3. IsFiniteSet(classes)
  BY FS_Subset DEF Weighed, IsOffer
<1>4. /\ total = SumFunction(w) /\ TotalWeight(policy, after) = SumFunction(w)
      /\ Worth(policy, seen) = SumFunction(f) /\ Worth(policy, after) = SumFunction(g)
  BY <1>2 DEF Worth, TotalWeight
<1>5. policy.scores["recommended"] \in 0..100 /\ policy.scores["acceptable"] \in 0..100
  BY <1>1, RanksAre DEF IsScale
<1>6. ASSUME NEW class \in classes
      PROVE  /\ policy.weights[class] \in Nat
             /\ ClassScore(policy, seen, class) \in 0..100 /\ ClassScore(policy, after, class) \in 0..100
             /\ ClassScore(policy, seen, class) <= ClassScore(policy, after, class)
             /\ ClassScore(policy, seen, class) <= policy.scores["recommended"]
  <2>1. policy.weights[class] \in Nat /\ class \in DOMAIN seen.offers
        /\ ClassScore(policy, seen, class) # None
    BY <1>1 DEF Weighed, IsOffer, IsScale
  <2>2. \E c \in Offered(policy, seen) : ClassScore(policy, seen, class) = policy.scores[c]
    BY <1>1, ClassScoreIs
  <2>3. \A c \in Offered(policy, seen) : policy.scores[c] <= policy.scores["recommended"]
    BY RecommendedIsBest, OfferedIs
  <2> QED BY <2>1, <2>2, <2>3, ClassesGoUp
<1>7. DOMAIN f = classes /\ DOMAIN g = classes /\ DOMAIN h = classes /\ DOMAIN w = classes
  OBVIOUS
<1>8. \A a, b, c \in Nat : a * b \in Int /\ (b <= c => a * b <= a * c)
  OBVIOUS
<1>9. ASSUME NEW x \in classes
      PROVE  /\ f[x] \in Int /\ g[x] \in Int /\ h[x] \in Int /\ w[x] \in Int
             /\ f[x] <= g[x] /\ f[x] <= h[x]
             /\ h[x] = policy.scores["recommended"] * w[x]
  <2>1. /\ f[x] = policy.weights[x] * ClassScore(policy, seen, x)
        /\ g[x] = policy.weights[x] * ClassScore(policy, after, x)
        /\ w[x] = policy.weights[x]
        /\ h[x] = policy.scores["recommended"] * policy.weights[x]
    OBVIOUS
  <2> DEFINE a == policy.weights[x]
             b == ClassScore(policy, seen, x)
             c == ClassScore(policy, after, x)
             d == policy.scores["recommended"]
  <2>2. a \in Nat /\ b \in Nat /\ c \in Nat /\ d \in Nat /\ b <= c /\ b <= d
    BY <1>5, <1>6
  <2>3. f[x] = a * b /\ g[x] = a * c /\ w[x] = a /\ h[x] = d * a
    BY <2>1
  <2>4. d * a = a * d
    BY <2>2
  <2> HIDE DEF a, b, c, f, g, h, w, classes
  <2>5. a * b \in Int /\ a * c \in Int /\ a * d \in Int /\ a * b <= a * c /\ a * b <= a * d
    <3> HIDE DEF d
    <3> QED BY <1>8, <2>2
  <2> QED BY <2>2, <2>3, <2>4, <2>5
<1> HIDE DEF f, g, h, w
<1>10. /\ SumFunction(f) \in Int /\ SumFunction(g) \in Int /\ SumFunction(f) <= SumFunction(g)
       /\ \A y \in classes : SumFunction(g) >= SumFunction(f) + (g[y] - f[y])
  <2> HIDE DEF classes
  <2> QED BY <1>3, <1>7, <1>9, SumsDiffer
<1>11. /\ SumFunction(h) \in Int
       /\ \A y \in classes : SumFunction(h) >= SumFunction(f) + (h[y] - f[y])
  <2> HIDE DEF classes
  <2> QED BY <1>3, <1>7, <1>9, SumsDiffer
<1>12. SumFunction(w) \in Int /\ SumFunction(h) = policy.scores["recommended"] * SumFunction(w)
  <2> DEFINE rec == policy.scores["recommended"]
  <2>1. rec \in Int
    BY <1>5
  <2>2. \A x \in classes : h[x] >= rec * w[x] /\ h[x] <= rec * w[x]
    BY <1>9
  <2> HIDE DEF classes, rec
  <2>3. /\ SumFunction(h) \in Int /\ SumFunction(w) \in Int
        /\ SumFunction(h) >= rec * SumFunction(w)
        /\ SumFunction(h) <= rec * SumFunction(w)
    BY <1>3, <1>7, <1>9, <2>1, <2>2, SumsCompare
  <2>4. rec * SumFunction(w) \in Int
    BY <2>1, <2>3
  <2> QED BY <2>3, <2>4 DEF rec
<1>13. penalty \in Int
  BY <1>1 DEF Cost, IsScale
<1>14. ASSUME after.offers.kex # seen.offers.kex
       PROVE  /\ SumFunction(g) >= SumFunction(f) + (penalty + 1) * SumFunction(w)
              /\ SumFunction(f) <= SumFunction(h) - (penalty + 1) * SumFunction(w)
              /\ total # 0
  <2>1. /\ ClassScore(policy, seen, "kex") # None
        /\ ClassScore(policy, seen, "kex") <= policy.scores["acceptable"]
        /\ ClassScore(policy, after, "kex") = policy.scores["recommended"]
    BY <1>1, <1>14, ClassesGoUp
  <2>2. "kex" \in classes
    BY <1>1, <2>1 DEF Weighed
  <2>3. policy.weights["kex"] * gain >= (penalty + 1) * SumFunction(w)
    <3>1. classes \subseteq {class \in DOMAIN policy.weights : policy.weights[class] > 0}
      BY DEF Weighed, IsOffer
    <3> HIDE DEF classes
    <3> QED BY <2>2, <3>1 DEF AdviceIsSound, w
  <2> DEFINE a == policy.weights["kex"]
             b == ClassScore(policy, seen, "kex")
             rec == policy.scores["recommended"]
             acc == policy.scores["acceptable"]
  <2>4. a \in Nat /\ b \in Nat /\ rec \in Nat /\ acc \in Nat /\ b <= acc
    BY <1>5, <1>6, <2>1, <2>2
  <2>5. f["kex"] = a * b /\ g["kex"] = a * rec /\ h["kex"] = rec * a
    BY <2>1, <2>2 DEF f, g, h
  <2>6. rec * a = a * rec /\ a * rec - a * b >= a * (rec - acc) /\ a * (rec - acc) \in Int
        /\ a * rec \in Int /\ a * b \in Int
    <3> HIDE DEF a, b, rec, acc
    <3>1. a * (rec - acc) = a * rec - a * acc /\ a * b <= a * acc /\ rec * a = a * rec
          /\ a * rec \in Int /\ a * b \in Int /\ a * acc \in Int
      BY <2>4
    <3> QED BY <3>1
  <2>7. /\ SumFunction(g) >= SumFunction(f) + (g["kex"] - f["kex"])
        /\ SumFunction(h) >= SumFunction(f) + (h["kex"] - f["kex"])
    BY <1>10, <1>11, <2>2
  <2>8. a * (rec - acc) >= (penalty + 1) * SumFunction(w)
    BY <2>3
  <2>9. (penalty + 1) * SumFunction(w) \in Int
    <3> HIDE DEF penalty
    <3> QED BY <1>12, <1>13
  <2>10. total # 0
    <3>1. \A x \in classes : w[x] >= 0 * w[x]
      BY <1>6 DEF w
    <3>2. w["kex"] = a /\ a > 0
      BY <1>1, <2>2 DEF w
    <3> DEFINE zero == [class \in classes |-> 0]
    <3>3. DOMAIN zero = classes /\ \A x \in classes : zero[x] = 0
      OBVIOUS
    <3> HIDE DEF zero, classes, a, b, rec, acc, total
    <3>4. /\ SumFunction(zero) \in Int
          /\ SumFunction(w) >= SumFunction(zero) + (w["kex"] - zero["kex"])
      <4>1. \A x \in DOMAIN zero : zero[x] \in Int /\ w[x] \in Int /\ zero[x] <= w[x]
        BY <1>9, <3>1, <3>3
      <4> QED BY <1>3, <1>7, <2>2, <3>3, <4>1, SumsDiffer
    <3>5. SumFunction(zero) >= 0
      <4>1. \A x \in DOMAIN zero : /\ zero[x] \in Int /\ zero[x] \in Int
                                   /\ zero[x] >= 0 * zero[x]
        BY <3>3
      <4>2. SumFunction(zero) >= 0 * SumFunction(zero)
        BY <1>3, <3>3, <4>1, SumsCompare
      <4> QED BY <3>4, <4>2
    <3> QED BY <1>4, <1>12, <2>2, <2>4, <3>2, <3>3, <3>4, <3>5
  <2> HIDE DEF a, b, rec, acc, penalty, total
  <2> QED BY <1>10, <1>11, <2>5, <2>6, <2>7, <2>8, <2>9, <2>10
<1> HIDE DEF classes
<1> QED BY <1>4, <1>10, <1>12, <1>14

\* What is not asked of the algorithms is the same with less on offer, and what
\* is asked of the key exchange is if that did not change.
LEMMA RestStays ==
    ASSUME NEW policy, AdviceIsSound(policy), NEW seen, NEW after, Lessened(policy, seen, after),
           DOMAIN seen.offers = DOMAIN policy.weights
    PROVE  /\ KeyBelowMinimum(policy, after) <=> KeyBelowMinimum(policy, seen)
           /\ KeyBelowRecommended(policy, after) <=> KeyBelowRecommended(policy, seen)
           /\ WeakGroup(policy, after) <=> WeakGroup(policy, seen)
           /\ StrictKex(after) <=> StrictKex(seen)
           /\ after.offers.kex = seen.offers.kex =>
                 PostQuantumStatus(policy, after) = PostQuantumStatus(policy, seen)
<1>1. after.keys = seen.keys
  BY DEF Lessened
<1>2. KeysRead(after) = KeysRead(seen)
  BY <1>1 DEF KeysRead
<1>3. /\ KeyBelowMinimum(policy, after) <=> KeyBelowMinimum(policy, seen)
      /\ KeyBelowRecommended(policy, after) <=> KeyBelowRecommended(policy, seen)
      /\ WeakGroup(policy, after) <=> WeakGroup(policy, seen)
  BY <1>2 DEF KeyBelowMinimum, KeyBelowRecommended, WeakGroup
<1>4. StrictKex(after) <=> StrictKex(seen)
  <2>1. "kex" \in DOMAIN seen.offers /\ Stays(policy, "kex", "strict")
    BY DEF AdviceIsSound
  <2>2. /\ after.offers["kex"] \subseteq seen.offers["kex"]
        /\ "strict" \in seen.offers["kex"] => "strict" \in after.offers["kex"]
    BY <2>1 DEF Lessened
  <2> QED BY <2>2 DEF StrictKex
<1>5. ASSUME after.offers.kex = seen.offers.kex
      PROVE  PostQuantumStatus(policy, after) = PostQuantumStatus(policy, seen)
  <2>1. ScoredNames(policy, after, "kex") = ScoredNames(policy, seen, "kex")
    BY <1>5 DEF ScoredNames
  <2> QED BY <2>1 DEF PostQuantumStatus
<1> QED BY <1>3, <1>4, <1>5

\* The points are the costs of the five flags.
LEMMA PointsAdd ==
    ASSUME NEW policy, NEW seen, IsScale(policy)
    PROVE  LET cost(flag) == IF flag \in Flags(policy, seen) THEN Cost(policy, flag) ELSE 0
           IN Points(policy, seen) =
                 cost("missing_strict_kex") + cost("no_post_quantum_kex") + cost("host_key_below_minimum")
                 + cost("host_key_below_recommended") + cost("dh_group_below_minimum")
<1> DEFINE flags == Flags(policy, seen)
           f == [flag \in flags |-> policy.points[flag]]
           five == {"missing_strict_kex", "no_post_quantum_kex", "host_key_below_minimum",
                    "host_key_below_recommended", "dh_group_below_minimum"}
<1>1. flags \subseteq DOMAIN policy.points /\ flags \subseteq five
  BY DEF Flags
<1>2. IsFiniteSet(five)
  <2>1. IsFiniteSet({"missing_strict_kex"})
    BY FS_Singleton
  <2>2. IsFiniteSet({"missing_strict_kex"} \cup {"no_post_quantum_kex"})
    BY <2>1, FS_AddElement
  <2>3. IsFiniteSet(({"missing_strict_kex"} \cup {"no_post_quantum_kex"}) \cup {"host_key_below_minimum"})
    BY <2>2, FS_AddElement
  <2>4. IsFiniteSet((({"missing_strict_kex"} \cup {"no_post_quantum_kex"}) \cup {"host_key_below_minimum"})
                    \cup {"host_key_below_recommended"})
    BY <2>3, FS_AddElement
  <2>5. IsFiniteSet(((({"missing_strict_kex"} \cup {"no_post_quantum_kex"}) \cup {"host_key_below_minimum"})
                     \cup {"host_key_below_recommended"}) \cup {"dh_group_below_minimum"})
    BY <2>4, FS_AddElement
  <2>6. ((({"missing_strict_kex"} \cup {"no_post_quantum_kex"}) \cup {"host_key_below_minimum"})
         \cup {"host_key_below_recommended"}) \cup {"dh_group_below_minimum"} = five
    OBVIOUS
  <2> QED BY <2>5, <2>6
<1>3. Points(policy, seen) = SumFunction(f) /\ DOMAIN f = flags
  BY DEF Points
<1>4. \A flag \in flags : f[flag] = Cost(policy, flag) /\ f[flag] \in Int
  <2> HIDE DEF flags
  <2> QED BY <1>1 DEF Cost, IsScale
<1> HIDE DEF f
<1>5. SumFunction(f) = (IF "missing_strict_kex" \in DOMAIN f THEN f["missing_strict_kex"] ELSE 0)
                       + (IF "no_post_quantum_kex" \in DOMAIN f THEN f["no_post_quantum_kex"] ELSE 0)
                       + (IF "host_key_below_minimum" \in DOMAIN f THEN f["host_key_below_minimum"] ELSE 0)
                       + (IF "host_key_below_recommended" \in DOMAIN f THEN f["host_key_below_recommended"] ELSE 0)
                       + (IF "dh_group_below_minimum" \in DOMAIN f THEN f["dh_group_below_minimum"] ELSE 0)
  <2>1. IsFiniteSet(DOMAIN f)
    <3> HIDE DEF five, flags
    <3> QED BY <1>1, <1>2, <1>3, FS_Subset
  <2>2. /\ DOMAIN f \subseteq five
        /\ \A x \in DOMAIN f : f[x] \in Int
    BY <1>1, <1>3, <1>4
  <2> HIDE DEF flags
  <2> QED BY <2>1, <2>2, SumOfFive
<1> QED BY <1>3, <1>4, <1>5

\* With less on offer the points are the same, or less by the flag for
\* post-quantum methods, which takes a change of the key exchange.
LEMMA PointsStay ==
    ASSUME NEW policy, AdviceIsSound(policy), NEW seen, NEW after, Lessened(policy, seen, after),
           DOMAIN seen.offers = DOMAIN policy.weights
    PROVE  /\ Points(policy, after) \in Int /\ Points(policy, seen) \in Int
           /\ Points(policy, after) >= Points(policy, seen) + Cost(policy, "no_post_quantum_kex")
           /\ after.offers.kex = seen.offers.kex => Points(policy, after) = Points(policy, seen)
           /\ Points(policy, seen) <= 0
           /\ Cost(policy, "no_post_quantum_kex") \in Int /\ Cost(policy, "no_post_quantum_kex") <= 0
<1> DEFINE old == Flags(policy, seen)
           new == Flags(policy, after)
           others == {"missing_strict_kex", "host_key_below_minimum", "host_key_below_recommended",
                      "dh_group_below_minimum"}
<1>1. IsScale(policy)
  BY DEF AdviceIsSound
<1>2. \A flag \in others : flag \in new <=> flag \in old
  <2>1. "missing_strict_kex" \in new <=> "missing_strict_kex" \in old
    BY RestStays DEF Flags
  <2>2. "host_key_below_minimum" \in new <=> "host_key_below_minimum" \in old
    BY RestStays DEF Flags
  <2>3. "host_key_below_recommended" \in new <=> "host_key_below_recommended" \in old
    BY RestStays DEF Flags
  <2>4. "dh_group_below_minimum" \in new <=> "dh_group_below_minimum" \in old
    BY RestStays DEF Flags
  <2> HIDE DEF new, old
  <2> QED BY <2>1, <2>2, <2>3, <2>4
<1>3. after.offers.kex = seen.offers.kex => ("no_post_quantum_kex" \in new <=> "no_post_quantum_kex" \in old)
  BY RestStays DEF Flags
<1>4. \A flag : Cost(policy, flag) \in Int /\ Cost(policy, flag) <= 0
  BY <1>1 DEF Cost, IsScale
<1> DEFINE cost(flag, flags) == IF flag \in flags THEN Cost(policy, flag) ELSE 0
           rest(flags) == cost("missing_strict_kex", flags) + cost("host_key_below_minimum", flags)
                          + cost("host_key_below_recommended", flags) + cost("dh_group_below_minimum", flags)
<1>5. \A flags, flag : cost(flag, flags) \in Int /\ cost(flag, flags) <= 0
  BY <1>4
<1>6. /\ Points(policy, after) = cost("missing_strict_kex", new) + cost("no_post_quantum_kex", new)
             + cost("host_key_below_minimum", new) + cost("host_key_below_recommended", new)
             + cost("dh_group_below_minimum", new)
      /\ Points(policy, seen) = cost("missing_strict_kex", old) + cost("no_post_quantum_kex", old)
             + cost("host_key_below_minimum", old) + cost("host_key_below_recommended", old)
             + cost("dh_group_below_minimum", old)
  BY <1>1, PointsAdd
<1>7. \A flag \in others : cost(flag, new) = cost(flag, old)
  <2> HIDE DEF new, old, others
  <2> QED BY <1>2
<1>8. rest(new) = rest(old)
  <2> HIDE DEF new, old, cost
  <2> QED BY <1>7
<1>9. rest(new) \in Int /\ rest(old) \in Int /\ rest(old) <= 0
  <2> HIDE DEF new, old, cost
  <2> QED BY <1>5
<1>10. /\ Points(policy, after) = rest(new) + cost("no_post_quantum_kex", new)
       /\ Points(policy, seen) = rest(old) + cost("no_post_quantum_kex", old)
  <2> HIDE DEF new, old, cost
  <2> QED BY <1>5, <1>6
<1>11. /\ cost("no_post_quantum_kex", new) >= Cost(policy, "no_post_quantum_kex")
       /\ after.offers.kex = seen.offers.kex =>
             cost("no_post_quantum_kex", new) = cost("no_post_quantum_kex", old)
  <2> HIDE DEF new, old
  <2> QED BY <1>3, <1>4
<1> HIDE DEF new, old, cost, rest
<1> QED BY <1>4, <1>5, <1>8, <1>9, <1>10, <1>11

\* The score goes no lower, and one that a change of the key exchange could
\* raise was short of what is recommended.
LEMMA ScoreGoesUp ==
    ASSUME NEW policy, AdviceIsSound(policy), NEW seen, NEW after, Lessened(policy, seen, after),
           IsOffer(policy, seen), DOMAIN seen.offers = DOMAIN policy.weights,
           TotalWeight(policy, seen) # 0
    PROVE  /\ FinalScore(policy, seen) \in 0..100 /\ FinalScore(policy, after) \in 0..100
           /\ FinalScore(policy, after) >= FinalScore(policy, seen)
           /\ after.offers.kex # seen.offers.kex => FinalScore(policy, seen) < policy.scores["recommended"]
<1> DEFINE total == TotalWeight(policy, seen)
           rec == policy.scores["recommended"]
           penalty == -Cost(policy, "no_post_quantum_kex")
           worth == Worth(policy, seen)
           more == Worth(policy, after)
           old == Round(worth, total)
           new == Round(more, total)
           points == Points(policy, seen)
           fewer == Points(policy, after)
<1>1. IsScale(policy) /\ IsOffer(policy, after)
  BY DEF AdviceIsSound, Lessened, IsOffer
<1>2. /\ TotalWeight(policy, after) = total
      /\ worth \in Int /\ more \in Int /\ more >= worth
      /\ after.offers.kex # seen.offers.kex =>
            /\ more >= worth + (penalty + 1) * total
            /\ worth <= rec * total - (penalty + 1) * total
  BY WorthGoesUp
<1>3. total \in Nat \ {0}
  BY <1>1, TotalIs
<1>4. /\ points \in Int /\ fewer \in Int /\ points <= 0 /\ penalty \in Nat /\ fewer >= points - penalty
      /\ after.offers.kex = seen.offers.kex => fewer = points
  <2>1. /\ fewer \in Int /\ points \in Int /\ points <= 0
        /\ fewer >= points + Cost(policy, "no_post_quantum_kex")
        /\ after.offers.kex = seen.offers.kex => fewer = points
        /\ Cost(policy, "no_post_quantum_kex") \in Int /\ Cost(policy, "no_post_quantum_kex") <= 0
    BY PointsStay
  <2> HIDE DEF points, fewer
  <2> QED BY <2>1
<1>5. rec \in 0..100
  BY RecommendedIsBest
<1>6. /\ old + points \in Int /\ FinalScore(policy, seen) \in 0..100
      /\ FinalScore(policy, seen) <= old + points \/ FinalScore(policy, seen) = 0
  BY <1>1, FinalScoreIs
<1>7. /\ new + fewer \in Int /\ FinalScore(policy, after) \in 0..100
      /\ \A a \in Int : a <= 100 /\ new + fewer >= a => FinalScore(policy, after) >= a
  BY <1>1, <1>2, FinalScoreIs
<1>8. old >= 0
  <2>1. \A c \in Offered(policy, seen) : policy.scores[c] >= 0
    <3>1. \A c \in Offered(policy, seen) : policy.scores[c] \in 0..100
      BY <1>1, OfferedIs DEF IsScale
    <3> QED BY <3>1
  <2> QED BY <1>1, <2>1, BaseScoreIs
<1> HIDE DEF total, worth, more, points, fewer, penalty, rec
<1>9. old \in Int /\ new \in Int
  BY <1>2, <1>3, RoundIs
<1>10. /\ new >= old
       /\ after.offers.kex # seen.offers.kex => new >= old + penalty
  <2>1. /\ more >= worth => new >= old
        /\ \A k \in Nat : more >= worth + (k + 1) * total => new >= old + k
    BY <1>2, <1>3, RoundsUp
  <2> HIDE DEF old, new
  <2> QED BY <1>2, <1>4, <2>1
<1>11. after.offers.kex # seen.offers.kex => old <= rec - (penalty + 1) /\ rec > 0
  <2> SUFFICES ASSUME after.offers.kex # seen.offers.kex PROVE old <= rec - (penalty + 1) /\ rec > 0
    OBVIOUS
  <2>1. (rec - (penalty + 1)) * total = rec * total - (penalty + 1) * total
    BY <1>3, <1>4, <1>5
  <2>2. rec - (penalty + 1) \in Int
    BY <1>4, <1>5
  <2>3. worth <= (rec - (penalty + 1)) * total
    BY <1>2, <2>1
  <2>4. old <= rec - (penalty + 1)
    BY <1>2, <1>3, <2>2, <2>3, RoundIs
  <2>5. rec > 0
    BY <1>4, <1>5, <1>9, <1>8, <2>4
  <2> QED BY <2>4, <2>5
<1> HIDE DEF old, new
<1>12. new + fewer >= old + points
  <2>1. CASE after.offers.kex = seen.offers.kex
    BY <1>4, <1>9, <1>10, <2>1
  <2>2. CASE after.offers.kex # seen.offers.kex
    BY <1>4, <1>9, <1>10, <2>2
  <2> QED BY <2>1, <2>2
<1>13. FinalScore(policy, after) >= FinalScore(policy, seen)
  <2>1. CASE FinalScore(policy, seen) <= old + points
    <3>1. new + fewer >= FinalScore(policy, seen)
      BY <1>6, <1>7, <1>12, <2>1
    <3> QED BY <1>6, <1>7, <3>1
  <2>2. CASE FinalScore(policy, seen) = 0
    BY <1>7, <2>2
  <2> QED BY <1>6, <2>1, <2>2
<1>14. after.offers.kex # seen.offers.kex => FinalScore(policy, seen) < rec
  BY <1>4, <1>5, <1>6, <1>9, <1>11
<1> QED BY <1>6, <1>7, <1>13, <1>14 DEF rec

\* What is capped is the grade itself or what a cap that applies is for.
LEMMA CappedIsOneOf ==
    ASSUME NEW policy, IsScale(policy), NEW grade, NEW applying
    PROVE  \/ Capped(policy, grade, applying) = grade
           \/ \E cap \in applying : Capped(policy, grade, applying) = cap.max
<1> DEFINE n == Len(policy.caps)
<1>1. n \in Nat
  BY LenProperties DEF IsScale
<1>2. PICK capped : /\ Capped(policy, grade, applying) = capped[n]
                    /\ \A i \in 0..n : capped[i] = CapAt(policy, grade, applying, capped, i)
  BY CapsAre
<1> DEFINE good == {m \in 0..n : capped[m] = grade \/ \E cap \in applying : capped[m] = cap.max}
<1>3. ASSUME NEW m \in 0..n, \A k \in 0..n : k < m => k \in good
      PROVE  m \in good
  <2>1. CASE m = 0
    <3>1. capped[m] = grade
      BY <1>2, <2>1 DEF CapAt
    <3> QED BY <3>1
  <2>2. CASE m # 0
    <3>1. m - 1 \in 0..n /\ m - 1 < m
      BY <1>1, <2>2
    <3>2. capped[m - 1] = grade \/ \E cap \in applying : capped[m - 1] = cap.max
      BY <1>3, <3>1
    <3>3. \/ capped[m] = capped[m - 1]
          \/ policy.caps[m] \in applying /\ capped[m] = policy.caps[m].max
      BY <1>2, <2>2 DEF CapAt, CapGrade
    <3> QED BY <3>2, <3>3
  <2> QED BY <2>1, <2>2
<1>4. n \in good
  <2> HIDE DEF good
  <2>1. \A m \in 0..n : m \in good
    <3> HIDE DEF n
    <3> QED BY <1>1, <1>3, CountingUp
  <2> QED BY <1>1, <2>1
<1> QED BY <1>2, <1>4

\* A grade has one place.
LEMMA PlaceIs ==
    ASSUME NEW policy, AdviceIsSound(policy), NEW i \in 1..Len(policy.grades)
    PROVE  Place(policy, policy.grades[i].grade) = i
<1>1. IsScale(policy) /\ DOMAIN policy.grades = 1..Len(policy.grades)
  BY LadderIs DEF AdviceIsSound
<1> DEFINE grade == policy.grades[i].grade
<1>2. grade \in Names(policy)
  BY <1>1 DEF Names
<1>3. /\ Place(policy, grade) \in 1..Len(policy.grades)
      /\ policy.grades[Place(policy, grade)].grade = grade
  <2> HIDE DEF grade
  <2> QED BY <1>1, <1>2, LadderIs
<1> QED BY <1>1, <1>3 DEF AdviceIsSound

\* A better score that meets as much earns no worse a grade.
LEMMA EarnsAsMuch ==
    ASSUME NEW policy, AdviceIsSound(policy), NEW score \in Int, NEW better \in Int, score <= better,
           NEW capabilities, NEW others,
           \A i \in DOMAIN policy.grades :
              score >= policy.grades[i].min /\ policy.grades[i].requires \subseteq capabilities =>
                 policy.grades[i].requires \subseteq others
    PROVE  /\ Place(policy, GradeFor(policy, better, others))
                 <= Place(policy, GradeFor(policy, score, capabilities))
           /\ GradeFor(policy, better, others) \in Names(policy)
<1> DEFINE n == Len(policy.grades)
           old == {i \in DOMAIN policy.grades :
                     score >= policy.grades[i].min /\ policy.grades[i].requires \subseteq capabilities}
           new == {i \in DOMAIN policy.grades :
                     better >= policy.grades[i].min /\ policy.grades[i].requires \subseteq others}
           first(earned) == IF earned = {} THEN n ELSE Min(earned)
<1>1. IsScale(policy) /\ n \in 1..n /\ DOMAIN policy.grades = 1..n
  BY LadderIs DEF AdviceIsSound
<1>2. \A i \in DOMAIN policy.grades : policy.grades[i].min \in Int
  BY <1>1 DEF IsScale
<1>3. old \subseteq new
  BY <1>2
<1>4. old \in SUBSET (1..n) /\ new \in SUBSET (1..n)
  BY <1>1
<1>5. /\ GradeFor(policy, score, capabilities) = policy.grades[first(old)].grade
      /\ GradeFor(policy, better, others) = policy.grades[first(new)].grade
  BY DEF GradeFor
<1> HIDE DEF old, new, n
<1>6. \A s \in SUBSET (1..n) : s # {} => Min(s) \in s /\ \A x \in s : Min(s) <= x
  <2> TAKE s \in SUBSET (1..n)
  <2>1. s \in SUBSET Nat
    BY <1>1
  <2> QED BY <2>1, MinIs
<1>7. \A s \in SUBSET (1..n) : first(s) \in 1..n
  BY <1>1, <1>6
<1>8. first(new) <= first(old)
  <2>1. CASE old = {}
    BY <1>1, <1>4, <1>7, <2>1
  <2>2. CASE old # {}
    <3>1. Min(old) \in new /\ new # {}
      BY <1>3, <1>4, <1>6, <2>2
    <3> QED BY <1>4, <1>6, <2>2, <3>1
  <2> QED BY <2>1, <2>2
<1>9. first(old) \in 1..n /\ first(new) \in 1..n
  BY <1>4, <1>7
<1> HIDE DEF first
<1>10. /\ Place(policy, policy.grades[first(old)].grade) = first(old)
       /\ Place(policy, policy.grades[first(new)].grade) = first(new)
  BY <1>9, PlaceIs DEF n
<1>11. policy.grades[first(new)].grade \in Names(policy)
  BY <1>1, <1>9 DEF Names
<1> QED BY <1>5, <1>8, <1>10, <1>11

\* What a grade asks for is there as before, or it asked for more than the score.
LEMMA CapabilitiesStay ==
    ASSUME NEW policy, AdviceIsSound(policy), NEW seen, NEW after, Lessened(policy, seen, after),
           IsOffer(policy, seen), DOMAIN seen.offers = DOMAIN policy.weights,
           TotalWeight(policy, seen) # 0,
           NEW i \in DOMAIN policy.grades, FinalScore(policy, seen) >= policy.grades[i].min,
           policy.grades[i].requires \subseteq Capabilities(policy, seen)
    PROVE  policy.grades[i].requires \subseteq Capabilities(policy, after)
<1>1. /\ "strict_kex" \in Capabilities(policy, seen) => "strict_kex" \in Capabilities(policy, after)
      /\ "host_keys_ok" \in Capabilities(policy, seen) => "host_keys_ok" \in Capabilities(policy, after)
      /\ after.offers.kex = seen.offers.kex =>
            ("post_quantum" \in Capabilities(policy, seen) => "post_quantum" \in Capabilities(policy, after))
      /\ Capabilities(policy, seen) \subseteq {"strict_kex", "post_quantum", "host_keys_ok"}
  <2>1. after.keys = seen.keys
    BY DEF Lessened
  <2> QED BY <2>1, RestStays DEF Capabilities
<1>2. CASE after.offers.kex = seen.offers.kex
  BY <1>1, <1>2
<1>3. CASE after.offers.kex # seen.offers.kex
  <2>1. FinalScore(policy, seen) < policy.scores["recommended"] /\ FinalScore(policy, seen) \in 0..100
        /\ policy.scores["recommended"] \in 0..100
    BY <1>3, ScoreGoesUp, RecommendedIsBest
  <2>2. policy.grades[i].min \in Int
    BY DEF AdviceIsSound, IsScale
  <2>3. "post_quantum" \in policy.grades[i].requires =>
           policy.grades[i].min >= policy.scores["recommended"]
    BY DEF AdviceIsSound
  <2>4. "post_quantum" \notin policy.grades[i].requires
    <3> DEFINE min == policy.grades[i].min
               score == FinalScore(policy, seen)
               rec == policy.scores["recommended"]
    <3>1. min \in Int /\ score \in 0..100 /\ rec \in 0..100 /\ score < rec /\ score >= min
      BY <2>1, <2>2
    <3> HIDE DEF min, score, rec
    <3>2. ~(min >= rec)
      BY <3>1
    <3> QED BY <2>3, <3>2 DEF min, rec
  <2> QED BY <1>1, <2>4
<1> QED BY <1>2, <1>3

\* No cap applies that did not.
LEMMA CapsStay ==
    ASSUME NEW policy, AdviceIsSound(policy), NEW seen, NEW after, Lessened(policy, seen, after),
           DOMAIN seen.offers = DOMAIN policy.weights, NEW matches, NEW others,
           \A severities \in SUBSET {"critical", "high"} : \A measured \in BOOLEAN :
              Confirmed(others, severities, measured) => Confirmed(matches, severities, measured)
    PROVE  CapsThatApply(policy, after, others) \subseteq CapsThatApply(policy, seen, matches)
<1>1. IsScale(policy)
  BY DEF AdviceIsSound
<1>2. Offered(policy, after) \subseteq Offered(policy, seen)
  <2>1. \A class \in DOMAIN seen.offers : ScoredNames(policy, after, class) \subseteq ScoredNames(policy, seen, class)
    BY DEF Lessened, ScoredNames
  <2>2. DOMAIN after.offers = DOMAIN seen.offers
    BY DEF Lessened
  <2> QED BY <2>1, <2>2, OfferedIs
<1>3. /\ WorstCategory(policy, after) = "insecure" => WorstCategory(policy, seen) = "insecure"
      /\ WorstCategory(policy, after) \in {"weak", "insecure"} =>
            WorstCategory(policy, seen) \in {"weak", "insecure"}
  <2> SUFFICES ASSUME WorstCategory(policy, after) \in {"weak", "insecure"}
               PROVE  /\ WorstCategory(policy, after) = "insecure" => WorstCategory(policy, seen) = "insecure"
                      /\ WorstCategory(policy, seen) \in {"weak", "insecure"}
    OBVIOUS
  <2>1. WorstCategory(policy, after) \in Offered(policy, after)
    <3>1. Offered(policy, after) # {}
      BY WorstOfferedIs
    <3> QED BY <3>1, WorstOfferedIs
  <2>2. WorstCategory(policy, after) \in Offered(policy, seen)
    BY <1>2, <2>1
  <2>3. /\ WorstCategory(policy, seen) \in Offered(policy, seen)
        /\ \A c \in Offered(policy, seen) : Rank(c) <= Rank(WorstCategory(policy, seen))
    BY <2>2, WorstOfferedIs
  <2>4. WorstCategory(policy, seen) \in Scored
    BY <2>3, OfferedIs
  <2>5. Rank(WorstCategory(policy, after)) <= Rank(WorstCategory(policy, seen))
    BY <2>2, <2>3
  <2> QED BY <2>4, <2>5, RanksAre
<1>4. /\ Confirmed(others, {"critical"}, FALSE) => Confirmed(matches, {"critical"}, FALSE)
      /\ Confirmed(others, {"critical"}, TRUE) => Confirmed(matches, {"critical"}, TRUE)
      /\ Confirmed(others, {"critical", "high"}, FALSE) => Confirmed(matches, {"critical", "high"}, FALSE)
  BY Zenon
<1>5. KeyBelowMinimum(policy, after) <=> KeyBelowMinimum(policy, seen)
  BY RestStays
<1>6. after.config = seen.config
  BY DEF Lessened
<1>7. ASSUME NEW when \in Whens, CapApplies(policy, after, others, when)
      PROVE  CapApplies(policy, seen, matches, when)
  BY <1>3, <1>4, <1>5, <1>6, <1>7 DEF CapApplies, Whens
<1>8. \A cap \in Range(policy.caps) : cap.when \in Whens
  BY <1>1 DEF IsScale
<1> QED BY <1>7, <1>8 DEF CapsThatApply

\* So the grade is no worse.
LEMMA GradeGoesUp ==
    ASSUME NEW policy, AdviceIsSound(policy), NEW seen, NEW after, Lessened(policy, seen, after),
           IsOffer(policy, seen), DOMAIN seen.offers = DOMAIN policy.weights,
           TotalWeight(policy, seen) # 0, NEW matches, NEW others,
           \A severities \in SUBSET {"critical", "high"} : \A measured \in BOOLEAN :
              Confirmed(others, severities, measured) => Confirmed(matches, severities, measured)
    PROVE  Place(policy, Grade(policy, after, others)) <= Place(policy, Grade(policy, seen, matches))
<1> DEFINE old == GradeFor(policy, FinalScore(policy, seen), Capabilities(policy, seen))
           new == GradeFor(policy, FinalScore(policy, after), Capabilities(policy, after))
           grade == Grade(policy, seen, matches)
<1>1. IsScale(policy)
  BY DEF AdviceIsSound
<1>2. /\ Place(policy, new) <= Place(policy, old) /\ new \in Names(policy)
  <2>1. /\ FinalScore(policy, seen) \in Int /\ FinalScore(policy, after) \in Int
        /\ FinalScore(policy, seen) <= FinalScore(policy, after)
    BY ScoreGoesUp
  <2>2. \A i \in DOMAIN policy.grades :
           FinalScore(policy, seen) >= policy.grades[i].min
              /\ policy.grades[i].requires \subseteq Capabilities(policy, seen) =>
           policy.grades[i].requires \subseteq Capabilities(policy, after)
    BY CapabilitiesStay
  <2> QED BY <2>1, <2>2, EarnsAsMuch
<1>3. /\ old \in Names(policy) /\ grade \in Names(policy)
      /\ Place(policy, grade) >= Place(policy, old)
      /\ \A cap \in CapsThatApply(policy, seen, matches) : Place(policy, grade) >= Place(policy, cap.max)
  BY <1>1, GradeIs
<1>4. CapsThatApply(policy, after, others) \subseteq CapsThatApply(policy, seen, matches)
  BY CapsStay
<1>5. \/ Grade(policy, after, others) = new
      \/ \E cap \in CapsThatApply(policy, after, others) : Grade(policy, after, others) = cap.max
  BY <1>1, CappedIsOneOf DEF Grade
<1> HIDE DEF old, new, grade
<1>6. Place(policy, old) \in Int /\ Place(policy, new) \in Int /\ Place(policy, grade) \in Int
  BY <1>1, <1>2, <1>3, LadderIs
<1>7. CASE Grade(policy, after, others) = new
  <2>1. Place(policy, Grade(policy, after, others)) <= Place(policy, grade)
    BY <1>2, <1>3, <1>6, <1>7
  <2> QED BY <2>1 DEF grade
<1>8. CASE \E cap \in CapsThatApply(policy, after, others) : Grade(policy, after, others) = cap.max
  <2>1. PICK cap \in CapsThatApply(policy, after, others) : Grade(policy, after, others) = cap.max
    BY <1>8
  <2>2. Place(policy, grade) >= Place(policy, cap.max)
    BY <1>3, <1>4, <2>1
  <2>3. cap.max \in Names(policy)
    BY <1>1, <2>1 DEF CapsThatApply, IsScale, Names
  <2>4. Place(policy, cap.max) \in Int
    BY <1>1, <2>3, LadderIs
  <2>5. Place(policy, Grade(policy, after, others)) <= Place(policy, grade)
    BY <1>6, <2>1, <2>2, <2>4
  <2> QED BY <2>5 DEF grade
<1> QED BY <1>5, <1>7, <1>8

-----------------------------------------------------------------------------
(* Advice hurts nobody                                                     *)

\* What has been read of a server is always the same record.

FactsAreWhole == DOMAIN facts = DOMAIN NoFacts

LEMMA FactsAreARecord == Spec => []FactsAreWhole
<1>1. Init => FactsAreWhole
  BY DEF Init, FactsAreWhole
<1>2. FactsAreWhole /\ [Next]_vars => FactsAreWhole'
  <2> SUFFICES ASSUME DOMAIN facts = DOMAIN NoFacts, [Next]_vars PROVE DOMAIN facts' = DOMAIN facts
    BY DEF FactsAreWhole
  <2>1. CASE facts' = facts
    BY <2>1
  <2>2. CASE Connect
    BY <2>2 DEF Connect
  <2>3. CASE FetchKey
    <3>1. PICK kept : facts' = [facts EXCEPT !.keys = @ \cup kept]
      BY <2>3 DEF FetchKey
    <3> QED BY <3>1
  <2>4. CASE KeysDone
    BY <2>4 DEF KeysDone
  <2>5. CASE AskAuth
    BY <2>5 DEF AskAuth
  <2>6. CASE CheckSshfp
    BY <2>6 DEF CheckSshfp
  <2>7. CASE MeasureStartups
    BY <2>7 DEF MeasureStartups
  <2>8. CASE MeasureGrace
    BY <2>8 DEF MeasureGrace
  <2>9. CASE AuditClient
    BY <2>9 DEF AuditClient
  <2>10. CASE AuditConfig
    <3>1. PICK config : facts' = [facts EXCEPT !.config = config]
      BY <2>10 DEF AuditConfig
    <3> QED BY <3>1
  <2>11. UNCHANGED vars \/ OpenTunnel \/ ConnectFails \/ CheckKnownHosts \/ Analyse \/ Finished =>
            facts' = facts
    BY DEF vars, OpenTunnel, ConnectFails, CheckKnownHosts, Analyse, Finished
  <2> QED BY <2>1, <2>2, <2>3, <2>4, <2>5, <2>6, <2>7, <2>8, <2>9, <2>10, <2>11 DEF Next
<1> QED BY <1>1, <1>2, PTL DEF Spec

LEMMA AppliedAdviceIsNoWorse ==
    ASSUME AdviceIsSound(ThePolicy),
           \A rule \in ThePolicy.rules : NeedsVersion(rule.detection) /\ HoldsForNothingGone(rule.detection),
           \A c \in Cases : SpeaksSsh(c.server),
           ScanInv, FactsAreWhole
    PROVE  AdviceNeverHurts
<1> DEFINE after == Applied(ThePolicy, facts)
           own == ApplyChangelog(facts, Matches(ThePolicy, facts))
           others == ApplyChangelog(after, Matches(ThePolicy, after))
<1> SUFFICES ASSUME Analysed, result.grade # "none"
             PROVE  /\ \A r \in result.advice : r.now => r.value \subseteq facts.offers[r.class]
                    /\ FinalScore(ThePolicy, after) >= result.score
                    /\ Place(ThePolicy, Grade(ThePolicy, after, others)) <= Place(ThePolicy, result.grade)
  BY DEF AdviceNeverHurts
<1>1. PICK matches, findings : result = Concluded(matches, findings) /\ own \subseteq matches
  BY DEF ScanInv, ResultFollows
<1>2. /\ result.grade = (IF TotalWeight(ThePolicy, facts) # 0
                         THEN Grade(ThePolicy, facts, matches) ELSE "none")
      /\ result.score = (IF TotalWeight(ThePolicy, facts) # 0 THEN FinalScore(ThePolicy, facts) ELSE None)
      /\ result.advice = Recommendations(ThePolicy, facts)
  <2> HIDE DEF own
  <2> QED BY <1>1 DEF Concluded
<1>3. /\ TotalWeight(ThePolicy, facts) # 0
      /\ result.grade = Grade(ThePolicy, facts, matches) /\ result.score = FinalScore(ThePolicy, facts)
  BY <1>2
<1>4. facts.offers = server.offers /\ case \in Cases
  BY DEF ScanInv, ServerStands, InOrder
<1>5. /\ IsOffer(ThePolicy, facts) /\ DOMAIN facts.offers = DOMAIN ThePolicy.weights
      /\ "zlib" \in facts.offers.compression => "none" \in facts.offers.compression
  <2>1. IsOffer(ThePolicy, facts)
    BY ConclusionIs
  <2>2. SpeaksSsh(server)
    BY <1>4 DEF server
  <2> QED BY <1>4, <2>1, <2>2 DEF SpeaksSsh
<1>6. Lessened(ThePolicy, facts, after)
  BY <1>5, AppliedIs DEF FactsAreWhole
<1> HIDE DEF after
<1>7. \A r \in result.advice : r.now => r.value \subseteq facts.offers[r.class]
  BY <1>2, <1>5, AdviceIs
<1>8. FinalScore(ThePolicy, after) >= result.score
  BY <1>3, <1>5, <1>6, ScoreGoesUp
<1>9. ASSUME NEW severities \in SUBSET {"critical", "high"}, NEW measured \in BOOLEAN,
             Confirmed(others, severities, measured)
      PROVE  Confirmed(matches, severities, measured)
  <2>1. Confirmed(own, severities, measured)
    BY <1>5, <1>6, <1>9, SeriousStays
  <2> HIDE DEF own
  <2> QED BY <1>1, <2>1 DEF Confirmed
<1> HIDE DEF own, others
<1>10. Place(ThePolicy, Grade(ThePolicy, after, others)) <= Place(ThePolicy, Grade(ThePolicy, facts, matches))
  BY <1>3, <1>5, <1>6, <1>9, GradeGoesUp
<1> QED BY <1>3, <1>7, <1>8, <1>10

\* Applying the lines that are called safe to apply leaves every class with an
\* algorithm the server has, and neither the score nor the grade goes down
\* (_build_recommendations in assessment.py): under every policy that suggests
\* what it scores, and of the key exchanges what it recommends, that values a
\* better key exchange above what a post-quantum one that goes with it is worth,
\* and whose rules ask for nothing to be gone that the advice takes away, and for
\* every server that can go without compression.
THEOREM AdviceHurtsNobody ==
    ASSUME AdviceIsSound(ThePolicy),
           \A rule \in ThePolicy.rules : NeedsVersion(rule.detection) /\ HoldsForNothingGone(rule.detection),
           \A c \in Cases : SpeaksSsh(c.server)
    PROVE  Spec => []AdviceNeverHurts
<1>1. ScanInv /\ FactsAreWhole => AdviceNeverHurts
  BY AppliedAdviceIsNoWorse
<1> QED BY <1>1, ScanHolds, FactsAreARecord, PTL
=============================================================================
