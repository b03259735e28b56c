----------------------------- MODULE CacheProofs -----------------------------
(***************************************************************************)
(* What the two caches of the process keep, for any number of workers that *)
(* share them.                                                             *)
(*                                                                         *)
(* The address cache, for any lifetime of an entry and any clock:          *)
(* BoundedStaleness rests on now being read before the resolver is asked,  *)
(* so that an entry never outlives what it says by more than its lifetime; *)
(* OutageSurvived on every look-up being either under way when a success   *)
(* is stored, or begun once it had expired.                                *)
(*                                                                         *)
(* The SSHFP cache, for any scans, hosts and ports: the checks of a host   *)
(* that ask do so before the first of them has stored, so that they are    *)
(* under way at one time; each answer a check can be served was stored by  *)
(* one of them.                                                            *)
(***************************************************************************)
EXTENDS ResolveCache, SshfpCache, FiniteSetTheorems, TLAPS

\* now is read before the resolver is asked, and the clock does not go back.
Ordered ==
    /\ \A t \in Threads : now[t] <= clock
    /\ \A t \in Threads : pc[t] = "storing" => answer[t].asked >= now[t]
    /\ entry.expires <= entry.answer.asked + TTL

\* A look-up that is not late asks for a name whose success has expired.
LateOnes ==
    \A t \in Threads : pc[t] \in {"asking", "storing"} /\ t \notin late => resolves <= clock

CacheInv == TypeOK /\ Ordered /\ BoundedStaleness /\ LateOnes /\ OutageSurvived

-----------------------------------------------------------------------------
LEMMA CallKeeps ==
    ASSUME CacheInv, NEW t \in Threads, Call(t)
    PROVE  CacheInv'
<1> USE CacheAssumption DEF CacheInv, TypeOK, history
<1>1. TypeOK'
  BY DEF Call
<1>2. Ordered' /\ BoundedStaleness'
  BY DEF Call, Ordered, BoundedStaleness
<1>3. LateOnes' /\ OutageSurvived'
  BY DEF Call, LateOnes, OutageSurvived
<1> QED BY <1>1, <1>2, <1>3

\* A fresh entry is at most TTL old when it is served.
LEMMA HitKeeps ==
    ASSUME CacheInv, NEW t \in Threads, Hit(t)
    PROVE  CacheInv'
<1> USE CacheAssumption DEF CacheInv, TypeOK, history
<1>1. TypeOK'
  BY DEF Hit
<1>2. Ordered'
  BY DEF Hit, Ordered
<1>3. entry.answer.asked > now[t] - TTL
  BY DEF Hit, Fresh, Ordered, Answers
<1>4. BoundedStaleness'
  BY <1>3 DEF Hit, BoundedStaleness
<1>5. LateOnes' /\ OutageSurvived'
  BY DEF Hit, LateOnes, OutageSurvived
<1> QED BY <1>1, <1>2, <1>4, <1>5

\* A look-up that misses does so because the success it would have been served
\* has expired.
LEMMA MissKeeps ==
    ASSUME CacheInv, NEW t \in Threads, Miss(t)
    PROVE  CacheInv'
<1> USE CacheAssumption DEF CacheInv, TypeOK, history
<1>1. TypeOK'
  BY DEF Miss
<1>2. Ordered' /\ BoundedStaleness'
  BY DEF Miss, Ordered, BoundedStaleness
<1>3. resolves <= clock
  BY DEF Miss, Fresh, Ordered, OutageSurvived
<1>4. LateOnes' /\ OutageSurvived'
  BY <1>3 DEF Miss, LateOnes, OutageSurvived
<1> QED BY <1>1, <1>2, <1>4

LEMMA AskKeeps ==
    ASSUME CacheInv, NEW t \in Threads, Ask(t)
    PROVE  CacheInv'
<1> USE CacheAssumption DEF CacheInv, TypeOK, history
<1>1. TypeOK'
  BY DEF Ask, Answers
<1>2. Ordered' /\ BoundedStaleness'
  BY DEF Ask, Ordered, BoundedStaleness
<1>3. LateOnes' /\ OutageSurvived'
  BY DEF Ask, LateOnes, OutageSurvived
<1> QED BY <1>1, <1>2, <1>3

LEMMA StoreKeeps ==
    ASSUME CacheInv, NEW t \in Threads, Store(t)
    PROVE  CacheInv'
<1> DEFINE expires == now[t] + TTL
<1> USE CacheAssumption DEF CacheInv, TypeOK
<1>0. /\ pc[t] = "storing"
      /\ entry' = [expires |-> expires, answer |-> answer[t]]
      /\ Record(t, expires)
      /\ pc' = [pc EXCEPT ![t] = "served"]
      /\ UNCHANGED <<clock, up, now, answer>>
      /\ answer[t] \in [ok : BOOLEAN, asked : 0..MaxClock]
      /\ expires \in 0..MaxClock + TTL
  BY DEF Store, StoreUntil, Answers
<1>1. TypeOK'
  BY <1>0 DEF Record, Answers
<1>2. Ordered'
  BY <1>0 DEF Ordered
<1>3. BoundedStaleness'
  BY <1>0 DEF BoundedStaleness, Ordered
<1>4. LateOnes'
  BY <1>0 DEF LateOnes, Record
<1>5. OutageSurvived'
  <2>1. CASE answer[t].ok /\ (t \in late \/ expires > resolves)
    BY <1>0, <2>1 DEF OutageSurvived, Record
  <2>2. CASE ~(answer[t].ok /\ (t \in late \/ expires > resolves)) /\ t \in late
    BY <1>0, <2>2 DEF OutageSurvived, Record
  <2>3. CASE ~(answer[t].ok /\ (t \in late \/ expires > resolves)) /\ t \notin late
    BY <1>0, <2>3 DEF OutageSurvived, Record, LateOnes
  <2> QED BY <2>1, <2>2, <2>3
<1> QED BY <1>1, <1>2, <1>3, <1>4, <1>5

LEMMA CacheInvHolds == Spec => []CacheInv
<1>1. Init => CacheInv
  <2> SUFFICES ASSUME Init PROVE CacheInv
    OBVIOUS
  <2>1. TypeOK
    BY CacheAssumption DEF Init, TypeOK, NoEntry, NoAnswer, Answers
  <2>2. Ordered /\ BoundedStaleness /\ LateOnes /\ OutageSurvived
    BY CacheAssumption
       DEF Init, Ordered, BoundedStaleness, LateOnes, OutageSurvived, NoEntry, NoAnswer
  <2> QED BY <2>1, <2>2 DEF CacheInv
<1>2. CacheInv /\ [Next]_vars => CacheInv'
  <2> SUFFICES ASSUME CacheInv, [Next]_vars PROVE CacheInv'
    OBVIOUS
  <2>1. CASE Tick
    BY <2>1, CacheAssumption
       DEF Tick, history, CacheInv, TypeOK, Ordered, BoundedStaleness, LateOnes, OutageSurvived
  <2>2. CASE ResolverFailsOrRecovers
    BY <2>2, CacheAssumption
       DEF ResolverFailsOrRecovers, history, CacheInv, TypeOK, Ordered, BoundedStaleness, LateOnes,
           OutageSurvived
  <2>3. CASE UNCHANGED vars
    BY <2>3 DEF vars, CacheInv, TypeOK, Ordered, BoundedStaleness, LateOnes, OutageSurvived
  <2> QED BY <2>1, <2>2, <2>3, CallKeeps, HitKeeps, MissKeeps, AskKeeps, StoreKeeps DEF Next, Step
<1> QED BY <1>1, <1>2, PTL DEF Spec

\* What a check is served was asked for less than DNS_CACHE_TTL before the check
\* began, however long getaddrinfo took and whichever threads raced for the
\* entry (_resolve).
THEOREM StalenessBounded == Spec => []BoundedStaleness
<1>1. CacheInv => BoundedStaleness
  BY DEF CacheInv
<1> QED BY <1>1, CacheInvHolds, PTL

\* A name that has resolved keeps resolving until its entry expires, unless a
\* look-up that was under way when it resolved is stored after it (_resolve,
\* DNS_CACHE_TTL).
THEOREM OutageIsSurvived == Spec => []OutageSurvived
<1>1. CacheInv => OutageSurvived
  BY DEF CacheInv
<1> QED BY <1>1, CacheInvHolds, PTL

-----------------------------------------------------------------------------
(* The SSHFP cache                                                         *)

\* The checks under way, those that are done, and what they were answered.
Active == {d \in Checks : progress[d] \in {"asking", "storing"}}
ActiveOf(h) == {d \in Active : HostOf(d) = h}
DoneOf(h) == {d \in Checks : HostOf(d) = h /\ progress[d] = "done"}
AnswersOf(h) == {cached[c] : c \in DoneOf(h)}

\* The hosts of checks are hosts, and what a check stores is an answer.
Local ==
    /\ published \in [Hosts -> 0..MaxVersion]
    /\ progress \in [Checks -> {"waiting", "asking", "storing", "done"}]
    /\ cached \in [Checks -> RecordAnswers \cup {NoRecords}]
    /\ DOMAIN cache = Hosts
    /\ queries \in [Hosts -> Nat]
    /\ \A c \in Checks : progress[c] = "storing" => cached[c] # NoRecords

\* No more checks are under way than there are worker threads.
Workers == IsFiniteSet(Active) /\ Cardinality(Active) <= MaxActive

\* As long as nothing is stored, the checks that have asked are all under way;
\* afterwards nobody asks. An answer is stored by a check that is done with it.
Queried ==
    \A h \in Hosts :
        /\ queries[h] <= MaxActive
        /\ cache[h] = NoRecords => queries[h] = Cardinality(ActiveOf(h))
        /\ cache[h] # NoRecords => cache[h] \in AnswersOf(h)
        /\ IsFiniteSet(AnswersOf(h))
        /\ Cardinality(AnswersOf(h)) + Cardinality(ActiveOf(h)) <= queries[h]

SshfpInv == Local /\ Workers /\ Queried

-----------------------------------------------------------------------------
\* The hosts of the checks, and the sizes of the sets of those under way.
LEMMA Sizes ==
    ASSUME Workers
    PROVE  /\ \A c \in Checks : HostOf(c) \in Hosts
           /\ Cardinality(Active) \in Nat
           /\ \A h \in Hosts : /\ IsFiniteSet(ActiveOf(h))
                               /\ Cardinality(ActiveOf(h)) \in Nat
                               /\ Cardinality(ActiveOf(h)) <= Cardinality(Active)
<1>1. \A c \in Checks : HostOf(c) \in Hosts
  BY DEF Checks, HostOf
<1>2. ASSUME NEW h \in Hosts
      PROVE  /\ IsFiniteSet(ActiveOf(h)) /\ Cardinality(ActiveOf(h)) \in Nat
             /\ Cardinality(ActiveOf(h)) <= Cardinality(Active)
  <2>1. ActiveOf(h) \in SUBSET Active
    BY DEF ActiveOf
  <2> QED BY <2>1, FS_Subset, FS_CardinalityType DEF Workers
<1> QED BY <1>1, <1>2, FS_CardinalityType DEF Workers

\* A check that finds the answer of its host adds none.
LEMMA SshfpHitKeeps ==
    ASSUME SshfpInv, NEW c \in Checks, SshfpHit(c)
    PROVE  SshfpInv'
<1>0. /\ progress[c] = "waiting" /\ cache[HostOf(c)] # NoRecords
      /\ cached' = [cached EXCEPT ![c] = cache[HostOf(c)]]
      /\ progress' = [progress EXCEPT ![c] = "done"]
      /\ UNCHANGED <<published, cache, queries>>
      /\ HostOf(c) \in Hosts
  BY Sizes DEF SshfpHit, SshfpInv
<1>1. /\ progress \in [Checks -> {"waiting", "asking", "storing", "done"}]
      /\ cached \in [Checks -> RecordAnswers \cup {NoRecords}]
  BY DEF SshfpInv, Local
<1>2. PICK d \in DoneOf(HostOf(c)) : cache[HostOf(c)] = cached[d]
  BY <1>0 DEF SshfpInv, Queried, AnswersOf
<1>3. Local'
  BY <1>0, <1>1, <1>2 DEF SshfpInv, Local, DoneOf
<1>4. Active' = Active /\ \A h \in Hosts : ActiveOf(h)' = ActiveOf(h)
  BY <1>0, <1>1 DEF Active, ActiveOf
<1>5. ASSUME NEW h \in Hosts PROVE AnswersOf(h)' = AnswersOf(h)
  <2>1. DoneOf(h)' = IF HostOf(c) = h THEN DoneOf(h) \cup {c} ELSE DoneOf(h)
    BY <1>0, <1>1 DEF DoneOf
  <2>2. c \notin DoneOf(h) /\ \A e \in DoneOf(h) : cached'[e] = cached[e]
    BY <1>0, <1>1 DEF DoneOf
  <2>3. cached'[c] = cached[d]
    BY <1>0, <1>1, <1>2
  <2> QED BY <1>2, <2>1, <2>2, <2>3 DEF AnswersOf
<1>6. Workers' /\ Queried'
  BY <1>0, <1>4, <1>5 DEF SshfpInv, Workers, Queried
<1> QED BY <1>3, <1>6 DEF SshfpInv

\* One more asks, while nothing is stored: all that asked are under way still.
LEMMA SshfpMissKeeps ==
    ASSUME SshfpInv, NEW c \in Checks, SshfpMiss(c)
    PROVE  SshfpInv'
<1> DEFINE host == HostOf(c)
<1>0. /\ progress[c] = "waiting" /\ cache[host] = NoRecords
      /\ Cardinality(Active) < MaxActive
      /\ queries' = [queries EXCEPT ![host] = @ + 1]
      /\ progress' = [progress EXCEPT ![c] = "asking"]
      /\ UNCHANGED <<published, cache, cached>>
      /\ host \in Hosts
  BY Sizes DEF SshfpMiss, SshfpInv, Active
<1>1. progress \in [Checks -> {"waiting", "asking", "storing", "done"}] /\ queries \in [Hosts -> Nat]
  BY DEF SshfpInv, Local
<1>2. c \notin Active /\ Active' = Active \cup {c}
  BY <1>0, <1>1 DEF Active
<1>3. IsFiniteSet(Active') /\ Cardinality(Active') = Cardinality(Active) + 1
  BY <1>2, FS_AddElement DEF SshfpInv, Workers
<1>4. Local'
  BY <1>0, <1>1 DEF SshfpInv, Local
<1>5. Workers'
  BY <1>0, <1>3, Sizes, SshfpAssumption DEF SshfpInv, Workers
<1>6. \A h \in Hosts : AnswersOf(h)' = AnswersOf(h)
  BY <1>0, <1>1 DEF AnswersOf, DoneOf
<1>7. ASSUME NEW h \in Hosts \ {host} PROVE ActiveOf(h)' = ActiveOf(h)
  BY <1>2, <1>7 DEF ActiveOf
<1>8. Cardinality(ActiveOf(host)') = Cardinality(ActiveOf(host)) + 1
  <2>1. c \notin ActiveOf(host) /\ ActiveOf(host)' = ActiveOf(host) \cup {c}
    BY <1>2 DEF ActiveOf
  <2>2. IsFiniteSet(ActiveOf(host))
    BY <1>0, Sizes DEF SshfpInv
  <2> HIDE DEF host
  <2> QED BY <2>1, <2>2, FS_AddElement
<1>9. /\ Cardinality(ActiveOf(host)) \in Nat /\ Cardinality(ActiveOf(host)) <= Cardinality(Active)
      /\ Cardinality(Active) \in Nat
      /\ queries[host] = Cardinality(ActiveOf(host)) /\ queries'[host] = queries[host] + 1
      /\ \A h \in Hosts \ {host} : queries'[h] = queries[h]
  BY <1>0, <1>1, Sizes DEF SshfpInv, Queried
<1>10. /\ queries'[host] <= MaxActive
       /\ queries'[host] = Cardinality(ActiveOf(host)')
  BY <1>0, <1>8, <1>9, SshfpAssumption
<1>11. /\ IsFiniteSet(AnswersOf(host)) /\ Cardinality(AnswersOf(host)) \in Nat
       /\ Cardinality(AnswersOf(host)) + Cardinality(ActiveOf(host)) <= queries[host]
  BY <1>0, FS_CardinalityType DEF SshfpInv, Queried
<1>12. Cardinality(AnswersOf(host)) + Cardinality(ActiveOf(host)') <= queries'[host]
  BY <1>8, <1>9, <1>11
<1>13. Queried'
  <2> SUFFICES ASSUME NEW h \in Hosts
               PROVE  /\ queries'[h] <= MaxActive
                      /\ cache'[h] = NoRecords => queries'[h] = Cardinality(ActiveOf(h)')
                      /\ cache'[h] # NoRecords => cache'[h] \in AnswersOf(h)'
                      /\ IsFiniteSet(AnswersOf(h)')
                      /\ Cardinality(AnswersOf(h)') + Cardinality(ActiveOf(h)') <= queries'[h]
    BY DEF Queried
  <2>1. CASE h = host
    BY <1>0, <1>6, <1>10, <1>11, <1>12, <2>1
  <2>2. CASE h # host
    BY <1>0, <1>6, <1>7, <1>9, <2>2 DEF SshfpInv, Queried
  <2> QED BY <2>1, <2>2
<1> QED BY <1>4, <1>5, <1>13 DEF SshfpInv

LEMMA SshfpAnswerKeeps ==
    ASSUME SshfpInv, NEW c \in Checks, NEW ok \in BOOLEAN, Answer(c, ok)
    PROVE  SshfpInv'
<1> DEFINE new == [of |-> {ScanOf(c)}, ok |-> ok,
                   version |-> IF ok THEN published[HostOf(c)] ELSE 0]
<1>0. /\ progress[c] = "asking"
      /\ cached' = [cached EXCEPT ![c] = new]
      /\ progress' = [progress EXCEPT ![c] = "storing"]
      /\ UNCHANGED <<published, cache, queries>>
  BY DEF Answer
<1>1. /\ progress \in [Checks -> {"waiting", "asking", "storing", "done"}]
      /\ cached \in [Checks -> RecordAnswers \cup {NoRecords}]
  BY DEF SshfpInv, Local
<1>2. new \in RecordAnswers
  <2>1. ScanOf(c) \in Scans /\ HostOf(c) \in Hosts
    BY DEF ScanOf, HostOf, Checks
  <2>2. new.version \in 0..MaxVersion
    BY <2>1, SshfpAssumption DEF SshfpInv, Local
  <2> QED BY <2>1, <2>2 DEF RecordAnswers
<1>3. new # NoRecords
  <2>1. new.of # {} /\ NoRecords.of = {}
    BY DEF NoRecords
  <2> QED BY <2>1
<1> HIDE DEF new
<1>4. Local'
  BY <1>0, <1>1, <1>2, <1>3 DEF SshfpInv, Local
<1>5. Active' = Active /\ \A h \in Hosts : ActiveOf(h)' = ActiveOf(h) /\ AnswersOf(h)' = AnswersOf(h)
  BY <1>0, <1>1 DEF Active, ActiveOf, AnswersOf, DoneOf
<1> QED BY <1>0, <1>4, <1>5 DEF SshfpInv, Workers, Queried

\* One that was under way is done, with one answer more to be served at most.
LEMMA SshfpStoreKeeps ==
    ASSUME SshfpInv, NEW c \in Checks, SshfpStore(c)
    PROVE  SshfpInv'
<1> DEFINE host == HostOf(c)
<1>0. /\ progress[c] = "storing"
      /\ cache' = [cache EXCEPT ![host] = cached[c]]
      /\ progress' = [progress EXCEPT ![c] = "done"]
      /\ UNCHANGED <<published, cached, queries>>
      /\ host \in Hosts
  BY Sizes DEF SshfpStore, SshfpInv
<1>1. /\ progress \in [Checks -> {"waiting", "asking", "storing", "done"}]
      /\ queries \in [Hosts -> Nat] /\ cached[c] # NoRecords /\ DOMAIN cache = Hosts
  BY <1>0 DEF SshfpInv, Local
<1>2. c \in Active /\ Active' = Active \ {c}
  BY <1>0, <1>1 DEF Active
<1>3. Workers'
  <2>1. IsFiniteSet(Active') /\ Cardinality(Active') = Cardinality(Active) - 1
    BY <1>2, FS_RemoveElement DEF SshfpInv, Workers
  <2> QED BY <2>1, Sizes, SshfpAssumption DEF SshfpInv, Workers
<1>4. Local'
  BY <1>0, <1>1 DEF SshfpInv, Local
<1>5. ASSUME NEW h \in Hosts \ {host}
      PROVE  ActiveOf(h)' = ActiveOf(h) /\ AnswersOf(h)' = AnswersOf(h) /\ cache'[h] = cache[h]
  BY <1>0, <1>1, <1>2, <1>5 DEF ActiveOf, AnswersOf, DoneOf
<1>6. AnswersOf(host)' = AnswersOf(host) \cup {cached[c]}
  <2>1. DoneOf(host)' = DoneOf(host) \cup {c}
    BY <1>0, <1>1 DEF DoneOf
  <2> QED BY <1>0, <2>1 DEF AnswersOf
<1>7. /\ IsFiniteSet(AnswersOf(host)) /\ Cardinality(AnswersOf(host)) \in Nat
      /\ Cardinality(AnswersOf(host)) + Cardinality(ActiveOf(host)) <= queries[host]
      /\ queries[host] <= MaxActive
  BY <1>0, FS_CardinalityType DEF SshfpInv, Queried
<1>8. /\ IsFiniteSet(AnswersOf(host)') /\ Cardinality(AnswersOf(host)') \in Nat
      /\ Cardinality(AnswersOf(host)') <= Cardinality(AnswersOf(host)) + 1
  <2>1. /\ IsFiniteSet(AnswersOf(host) \cup {cached[c]})
        /\ \/ Cardinality(AnswersOf(host) \cup {cached[c]}) = Cardinality(AnswersOf(host))
           \/ Cardinality(AnswersOf(host) \cup {cached[c]}) = Cardinality(AnswersOf(host)) + 1
    BY <1>7, FS_AddElement
  <2> QED BY <1>6, <1>7, <2>1
<1>9. /\ Cardinality(ActiveOf(host)') = Cardinality(ActiveOf(host)) - 1
      /\ Cardinality(ActiveOf(host)) \in Nat
  <2>1. c \in ActiveOf(host) /\ ActiveOf(host)' = ActiveOf(host) \ {c}
    BY <1>2 DEF ActiveOf
  <2>2. IsFiniteSet(ActiveOf(host)) /\ Cardinality(ActiveOf(host)) \in Nat
    BY <1>0, Sizes DEF SshfpInv
  <2> HIDE DEF host
  <2> QED BY <2>1, <2>2, FS_RemoveElement
<1>10. Cardinality(AnswersOf(host)') + Cardinality(ActiveOf(host)') <= queries[host]
  <2>1. queries[host] \in Nat
    BY <1>0, <1>1
  <2> HIDE DEF host
  <2> QED BY <1>7, <1>8, <1>9, <2>1
<1>11. cache'[host] = cached[c] /\ queries' = queries
  BY <1>0, <1>1
<1>12. Queried'
  <2> SUFFICES ASSUME NEW h \in Hosts
               PROVE  /\ queries'[h] <= MaxActive
                      /\ cache'[h] = NoRecords => queries'[h] = Cardinality(ActiveOf(h)')
                      /\ cache'[h] # NoRecords => cache'[h] \in AnswersOf(h)'
                      /\ IsFiniteSet(AnswersOf(h)')
                      /\ Cardinality(AnswersOf(h)') + Cardinality(ActiveOf(h)') <= queries'[h]
    BY DEF Queried
  <2>1. CASE h = host
    BY <1>1, <1>6, <1>7, <1>8, <1>10, <1>11, <2>1
  <2>2. CASE h # host
    BY <1>5, <1>11, <2>2 DEF SshfpInv, Queried
  <2> QED BY <2>1, <2>2
<1> QED BY <1>3, <1>4, <1>12 DEF SshfpInv

LEMMA SshfpInvHolds == SshfpSpec => []SshfpInv
<1>1. SshfpInit => SshfpInv
  <2> SUFFICES ASSUME SshfpInit PROVE SshfpInv
    OBVIOUS
  <2>1. Active = {} /\ \A h : ActiveOf(h) = {} /\ AnswersOf(h) = {}
    BY DEF SshfpInit, Active, ActiveOf, AnswersOf, DoneOf
  <2>2. Local
    BY SshfpAssumption DEF SshfpInit, Local
  <2>3. Workers /\ Queried
    BY <2>1, FS_EmptySet, SshfpAssumption DEF SshfpInit, Workers, Queried
  <2> QED BY <2>2, <2>3 DEF SshfpInv
<1>2. SshfpInv /\ [SshfpNext]_sshfpVars => SshfpInv'
  <2> SUFFICES ASSUME SshfpInv, [SshfpNext]_sshfpVars PROVE SshfpInv'
    OBVIOUS
  <2>1. ASSUME UNCHANGED <<cache, progress, cached, queries>>, published' \in [Hosts -> 0..MaxVersion]
        PROVE  SshfpInv'
    <3>1. Active' = Active /\ \A h \in Hosts : ActiveOf(h)' = ActiveOf(h) /\ AnswersOf(h)' = AnswersOf(h)
      BY <2>1 DEF Active, ActiveOf, AnswersOf, DoneOf
    <3> QED BY <2>1, <3>1 DEF SshfpInv, Local, Workers, Queried
  <2>2. ASSUME NEW h \in Hosts, Publish(h) PROVE SshfpInv'
    BY <2>1, <2>2, SshfpAssumption DEF Publish, SshfpInv, Local
  <2>3. CASE UNCHANGED sshfpVars
    BY <2>1, <2>3 DEF sshfpVars, SshfpInv, Local
  <2> QED BY <2>2, <2>3, SshfpHitKeeps, SshfpMissKeeps, SshfpAnswerKeeps, SshfpStoreKeeps DEF SshfpNext, Check
<1> QED BY <1>1, <1>2, PTL DEF SshfpSpec

\* However many targets share a host name, and in however many scans, its
\* records are queried at most once per worker thread, failures included, and
\* its targets are compared with at most that many answers (_SSHFP_CACHE,
\* _check_sshfp).
THEOREM QueriesAreBounded == SshfpSpec => []QueriesBounded
<1>1. SshfpInv => QueriesBounded
  <2> SUFFICES ASSUME SshfpInv, NEW h \in Hosts
               PROVE  queries[h] <= MaxActive /\ Cardinality(AnswersOf(h)) <= queries[h]
    BY DEF QueriesBounded, AnswersOf, DoneOf
  <2>1. /\ Cardinality(AnswersOf(h)) \in Nat /\ Cardinality(ActiveOf(h)) \in Nat
        /\ queries[h] \in Nat
    BY Sizes, FS_CardinalityType DEF SshfpInv, Queried, Local
  <2> QED BY <2>1 DEF SshfpInv, Queried
<1> QED BY <1>1, SshfpInvHolds, PTL
=============================================================================
