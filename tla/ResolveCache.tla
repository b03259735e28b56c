---------------------------- MODULE ResolveCache ----------------------------
(***************************************************************************)
(* The address cache of ssh_protocol/transport.py: _resolve as the worker  *)
(* threads of a scan call it for one (host, port, family), while time      *)
(* passes and the resolver answers, fails or is given a new address.       *)
(* _dns_lock is held to look the entry up and to write it, and not while   *)
(* getaddrinfo is asked in between.                                        *)
(***************************************************************************)
EXTENDS Integers, FiniteSets

CONSTANTS
    Threads,   \* the workers
    TTL,       \* DNS_CACHE_TTL, in ticks of the model's clock
    MaxClock   \* bound: the model's clock stops here

ASSUME CacheAssumption ==
    /\ TTL \in Nat \ {0}
    /\ MaxClock \in Nat

VARIABLES
    clock,      \* time.monotonic()
    up,         \* whether the resolver answers
    entry,      \* the entry of the key in _dns_cache
    pc,         \* where each call of _resolve is
    now,        \* its local variable now
    answer,     \* what it got from getaddrinfo, or from the entry
    late,       \* threads that were asking when another one stored a success
    resolves    \* until when the name is to resolve, by the successes stored

\* late and resolves are history: nothing in the code reads them.
history == <<late, resolves>>
vars == <<clock, up, entry, pc, now, answer, late, resolves>>

\* An answer: whether there are candidates, and when the resolver gave it.
\* Expiry 0 is an entry that was never written.
NoAnswer == [ok |-> FALSE, asked |-> 0]
NoEntry == [expires |-> 0, answer |-> NoAnswer]
Answers == [ok : BOOLEAN, asked : 0..MaxClock]

TypeOK ==
    /\ clock \in 0..MaxClock
    /\ up \in BOOLEAN
    /\ entry \in [expires : 0..MaxClock + TTL, answer : Answers]
    /\ pc \in [Threads -> {"idle", "looking", "asking", "storing", "served"}]
    /\ now \in [Threads -> 0..MaxClock]
    /\ answer \in [Threads -> Answers]
    /\ late \subseteq Threads
    /\ resolves \in 0..MaxClock + TTL

Init ==
    /\ clock = 0
    /\ up = TRUE
    /\ entry = NoEntry
    /\ pc = [t \in Threads |-> "idle"]
    /\ now = [t \in Threads |-> 0]
    /\ answer = [t \in Threads |-> NoAnswer]
    /\ late = {}
    /\ resolves = 0

-----------------------------------------------------------------------------
\* now = time.monotonic(), before the lock is taken.
Call(t) ==
    /\ pc[t] \in {"idle", "served"}
    /\ now' = [now EXCEPT ![t] = clock]
    /\ pc' = [pc EXCEPT ![t] = "looking"]
    /\ UNCHANGED <<clock, up, entry, answer, history>>

Fresh(t) == entry.expires > now[t]

\* The entry is fresh: its candidates are returned, or its exception raised.
Hit(t) ==
    /\ pc[t] = "looking"
    /\ Fresh(t)
    /\ answer' = [answer EXCEPT ![t] = entry.answer]
    /\ pc' = [pc EXCEPT ![t] = "served"]
    /\ UNCHANGED <<clock, up, entry, now, history>>

Miss(t) ==
    /\ pc[t] = "looking"
    /\ ~Fresh(t)
    /\ pc' = [pc EXCEPT ![t] = "asking"]
    /\ UNCHANGED <<clock, up, entry, now, answer, history>>

\* getaddrinfo returns candidates or raises (gaierror, UnicodeError).
Ask(t) ==
    /\ pc[t] = "asking"
    /\ answer' = [answer EXCEPT ![t] = [ok |-> up, asked |-> clock]]
    /\ pc' = [pc EXCEPT ![t] = "storing"]
    /\ UNCHANGED <<clock, up, entry, now, history>>

\* History, when t stores an answer that lives until expires: a success counts
\* for as long as it lives, unless a look-up that was under way when it was
\* stored is stored after it.
Record(t, expires) ==
    /\ late' = IF answer[t].ok
               THEN {u \in Threads \ {t} : pc[u] \in {"asking", "storing"}}
               ELSE late \ {t}
    /\ resolves' = IF answer[t].ok /\ (t \in late \/ expires > resolves)
                   THEN expires
                   ELSE IF t \in late THEN 0 ELSE resolves

StoreUntil(t, expires) ==
    /\ pc[t] = "storing"
    /\ entry' = [expires |-> expires, answer |-> answer[t]]
    /\ Record(t, expires)
    /\ pc' = [pc EXCEPT ![t] = "served"]
    /\ UNCHANGED <<clock, up, now, answer>>

\* Mutant: the entry lives from the moment it is written.
StoreFromNow(t) == StoreUntil(t, clock + TTL)

\* Mutant: a success is returned but not kept.
StoreFailuresOnly(t) ==
    /\ pc[t] = "storing"
    /\ entry' = IF answer[t].ok THEN entry
                ELSE [expires |-> now[t] + TTL, answer |-> answer[t]]
    /\ Record(t, now[t] + TTL)
    /\ pc' = [pc EXCEPT ![t] = "served"]
    /\ UNCHANGED <<clock, up, now, answer>>

\* _dns_cache[key] = (now + DNS_CACHE_TTL, ...), for candidates and failures
\* alike, whatever another thread has written since this one looked.
Store(t) == StoreUntil(t, now[t] + TTL)

Tick ==
    /\ clock < MaxClock
    /\ clock' = clock + 1
    /\ UNCHANGED <<up, entry, pc, now, answer, history>>

ResolverFailsOrRecovers ==
    /\ up' = ~up
    /\ UNCHANGED <<clock, entry, pc, now, answer, history>>

Step(t) == Call(t) \/ Hit(t) \/ Miss(t) \/ Ask(t) \/ Store(t)

Next == Tick \/ ResolverFailsOrRecovers \/ \E t \in Threads : Step(t)

Spec == Init /\ [][Next]_vars

-----------------------------------------------------------------------------
\* What a check is served was asked for less than DNS_CACHE_TTL before the
\* check began, however long getaddrinfo took and whichever threads raced for
\* the entry: "a deliberate DNS change during a scan still takes effect on the
\* next run rather than being pinned for the session" (_resolve).
BoundedStaleness ==
    \A t \in Threads : pc[t] = "served" => answer[t].asked > now[t] - TTL

\* A name that has resolved keeps resolving for as long as its entry was to
\* live: "a resolver outage part-way through a run would otherwise turn a clean
\* report into a wall of unrelated failures" (DNS_CACHE_TTL). Only a look-up that
\* was under way when the name resolved can undo it, by being stored later.
OutageSurvived ==
    resolves > clock => entry.answer.ok /\ entry.expires >= resolves
=============================================================================
