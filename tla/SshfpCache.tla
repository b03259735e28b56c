----------------------------- MODULE SshfpCache -----------------------------
(***************************************************************************)
(* The SSHFP look-up of scanner.py: _check_sshfp with _SSHFP_CACHE, which  *)
(* is one dictionary per process, keyed by the host name alone, with no    *)
(* lock around the look-up, the DNS query and the store.                   *)
(*                                                                         *)
(* The web front end runs several scans in one process, each with the name *)
(* servers its request named, and goes on to run others for as long as it  *)
(* lives. One check is (scan, host, port): targets share a host name when  *)
(* they differ in the port.                                                *)
(***************************************************************************)
EXTENDS Integers, FiniteSets

CONSTANTS
    Scans,        \* the scans of one process; each has name servers of its own
    Hosts,
    PortsOfHost,  \* the targets of one host in one scan
    MaxActive,    \* worker threads: checks that run at one time
    MaxVersion    \* bound: how often the records of a host are published anew

ASSUME SshfpAssumption ==
    /\ MaxActive \in Nat \ {0}
    /\ MaxVersion \in Nat

Checks == Scans \X Hosts \X PortsOfHost
ScanOf(c) == c[1]
HostOf(c) == c[2]

VARIABLES
    published,  \* which version of its records each host has in DNS
    cache,      \* _SSHFP_CACHE
    progress,   \* where each check is
    cached,     \* the local variable of that name: the answer a check uses
    queries     \* how often lookup_sshfp was called for each host (history)

sshfpVars == <<published, cache, progress, cached, queries>>

\* An answer: the scan whose name servers gave it, the version of the records,
\* or the DNSError that says they gave none.
NoRecords == [of |-> {}, ok |-> FALSE, version |-> 0]
RecordAnswers == [of : {{s} : s \in Scans}, ok : BOOLEAN, version : 0..MaxVersion]

SshfpTypeOK ==
    /\ published \in [Hosts -> 0..MaxVersion]
    /\ cache \in [Hosts -> RecordAnswers \cup {NoRecords}]
    /\ progress \in [Checks -> {"waiting", "asking", "storing", "done"}]
    /\ cached \in [Checks -> RecordAnswers \cup {NoRecords}]
    /\ queries \in [Hosts -> 0..Cardinality(Checks)]

SshfpInit ==
    /\ published = [h \in Hosts |-> 0]
    /\ cache = [h \in Hosts |-> NoRecords]
    /\ progress = [c \in Checks |-> "waiting"]
    /\ cached = [c \in Checks |-> NoRecords]
    /\ queries = [h \in Hosts |-> 0]

-----------------------------------------------------------------------------
SshfpHit(c) ==
    /\ progress[c] = "waiting"
    /\ cache[HostOf(c)] # NoRecords
    /\ cached' = [cached EXCEPT ![c] = cache[HostOf(c)]]
    /\ progress' = [progress EXCEPT ![c] = "done"]
    /\ UNCHANGED <<published, cache, queries>>

\* A worker is free, finds nothing in the cache and calls lookup_sshfp.
SshfpMiss(c) ==
    /\ progress[c] = "waiting"
    /\ cache[HostOf(c)] = NoRecords
    /\ Cardinality({d \in Checks : progress[d] \in {"asking", "storing"}}) < MaxActive
    /\ queries' = [queries EXCEPT ![HostOf(c)] = @ + 1]
    /\ progress' = [progress EXCEPT ![c] = "asking"]
    /\ UNCHANGED <<published, cache, cached>>

\* The name servers of this check's scan answer, or the query fails.
Answer(c, ok) ==
    /\ progress[c] = "asking"
    /\ cached' = [cached EXCEPT ![c] =
           [of |-> {ScanOf(c)}, ok |-> ok,
            version |-> IF ok THEN published[HostOf(c)] ELSE 0]]
    /\ progress' = [progress EXCEPT ![c] = "storing"]
    /\ UNCHANGED <<published, cache, queries>>

\* Mutant: an error is reported but not kept.
StoreSuccess(c) ==
    /\ progress[c] = "storing"
    /\ cache' = IF cached[c].ok THEN [cache EXCEPT ![HostOf(c)] = cached[c]] ELSE cache
    /\ progress' = [progress EXCEPT ![c] = "done"]
    /\ UNCHANGED <<published, cached, queries>>

\* Mutant: a failure is not kept, and the check asks again.
StoreOrRetry(c) ==
    /\ progress[c] = "storing"
    /\ cache' = IF cached[c].ok THEN [cache EXCEPT ![HostOf(c)] = cached[c]] ELSE cache
    /\ progress' = [progress EXCEPT ![c] = IF cached[c].ok THEN "done" ELSE "waiting"]
    /\ UNCHANGED <<published, cached, queries>>

\* The answer or the DNSError goes into the cache, over whatever is there.
SshfpStore(c) ==
    /\ progress[c] = "storing"
    /\ cache' = [cache EXCEPT ![HostOf(c)] = cached[c]]
    /\ progress' = [progress EXCEPT ![c] = "done"]
    /\ UNCHANGED <<published, cached, queries>>

Publish(h) ==
    /\ published[h] < MaxVersion
    /\ published' = [published EXCEPT ![h] = @ + 1]
    /\ UNCHANGED <<cache, progress, cached, queries>>

Check(c) == SshfpHit(c) \/ SshfpMiss(c) \/ (\E ok \in BOOLEAN : Answer(c, ok)) \/ SshfpStore(c)

SshfpNext == (\E c \in Checks : Check(c)) \/ (\E h \in Hosts : Publish(h))

SshfpSpec == SshfpInit /\ [][SshfpNext]_sshfpVars

-----------------------------------------------------------------------------
\* However many targets share a host name, and in however many scans, its
\* records are queried at most once per worker thread, failures included, and so
\* its targets are compared with at most that many answers: "a failure is not
\* retried" (_SSHFP_CACHE, _check_sshfp).
QueriesBounded ==
    \A h \in Hosts :
        /\ queries[h] <= MaxActive
        /\ Cardinality({cached[c] : c \in {d \in Checks :
               HostOf(d) = h /\ progress[d] = "done"}}) <= queries[h]

\* A report is made from what the name servers of its own scan answered:
\* ScanOptions.dns_servers are the "Name servers to ask for SSHFP records".
OwnServersAsked ==
    \A c \in Checks : progress[c] = "done" => cached[c].of = {ScanOf(c)}
=============================================================================
