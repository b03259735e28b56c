# Verification of sshCryptoChecker

sshCryptoChecker audits the cryptography that SSH servers offer. It opens its
own connections, speaks the SSH transport just far enough to read what a server
advertises and which host keys it holds, judges that against a policy file and
writes a report. This directory models the parts of it whose correctness
depends on order, concurrency and failure, checks the models with TLC, and
proves the central facts for every value of the parameters with TLAPS.

Everything is translated from the Python source in `ssh_crypto_checker/`;
`PROJECT.json` names, for every definition, the lines it stands for.

## 1. The system

| Component | Source | State it keeps | Operations | Hard behaviour |
|---|---|---|---|---|
| web front end: job table | `web/server.py` | `_State.running`, `_State.jobs`, each `Job` | POST a scan, runner thread, GET status, GET report, eviction | handler threads and runner threads write and read one job without a common lock; a thread may not start |
| web front end: connections, request checks | `web/server.py` | the semaphore of `_BoundedServer` | accept, authorise, parse, refuse private addresses | a slot per connection, keep-alive with an unread body |
| scan coordinator | `scanner.py` `scan` | `results`, the futures | submit, collect, notify, fleet checks, summary | completion in any order; a defect, a callback or an interrupt half way |
| scan of one target | `scanner.py` `scan_target`, `_scan_over` | the `TargetResult` | tunnel, probe with retries, opt-in checks, analysis | a check that fails may cost itself only |
| bastion tunnels | `tunnel.py` | ssh processes, local ports | open with retries, readiness loop, close | a port let go before it is bound; ssh that is slow or ignores SIGTERM |
| name resolution cache | `ssh_protocol/transport.py` | `_dns_cache` | `_resolve` | look-up and store are two critical sections |
| SSHFP look-up | `scanner.py`, `dns.py` | `_SSHFP_CACHE` | `_check_sshfp` | no lock, and the life of the process |
| history, baseline, exit code | `history.py`, `compare.py`, `cli.py` | the history file | append, read, latest, compare, gates | several processes; a write cut short; the order in `main` |
| plugin runner | `plugins/` | none | run, run_fleet | what third-party code may do |
| SSH transport, key exchange, probes | `ssh_protocol/` | sequence numbers, keys, buffers | packets, KEXINIT, key exchange, auth probe, LoginGraceTime, MaxStartups | order of messages, a wrong guess, timeouts |
| policy, profiles, assessment, vulnerability rules | `policy.py`, `compliance.py`, `analysis.py`, `assessment.py`, `vulnerabilities.py` | none (pure) | classify, evaluate, score | pattern precedence, editions, version ranges |
| authenticated audit | `sshd_config.py`, `ssh_config.py` | none | one remote command, parse | framing, `Match` blocks, first value wins |
| DNSSEC and resolver | `dnssec.py`, `resolver.py` | none | referral loop, chain of trust | bounds on the loop |
| targets, known_hosts | `targets.py`, `known_hosts.py` | none | expand, match | duplicates, ranges |
| MCP server | `mcp/server.py` | none | one line at a time | what a tool call may raise |
| cryptographic primitives, reporting, catalogs, wizard | `crypto/`, `reporting/`, `messages.py`, `wizard.py` | none | | out of scope, see section 8 |

How they meet: `cli.main` and the runner threads of the web front end both call
`scan()`. `scan()` gives one `scan_target` per target to a thread pool and tells
its caller of each finished target through `on_finish`, which in the web front
end is `Job.tick`. Every `scan_target` may open a tunnel, connects through
`_resolve` and may look up SSHFP records; the two caches are global to the
process, so all workers of all scans share them. After `scan()`, `cli.main`
appends to the history, compares with a baseline, renders and picks an exit
code; the MCP server runs that same `main` for every tool call.

What makes each part correct:

- **Job table.** No more than `MAX_RUNNING_JOBS` scans run; a slot that was
  claimed comes back exactly once, whichever thread fails; a listed job that
  says "running" is being worked on; an answer that says "done" is complete.
- **Coordinator.** One result per target, under its own index, whatever the
  order of completion; `on_finish` once per result; no thread outlives `scan()`;
  one target's defect costs that target.
- **Tunnels.** No ssh is left behind; the answers of a target come from that
  target; the retries end.
- **Caches.** No answer older than the cache's promise; a success survives an
  outage; a name is not queried again and again.
- **History and gate.** A truncated write costs at most one whole report; a run
  that says nothing regressed is right. (The first holds unless the write is cut
  inside a character, see section 5.)
- **Sessions.** Scanner and server never lose step over a number, a mode or a
  guess; a host key is the server's; no server can keep a probe reading.
- **Analysis.** What was not read is never reported as absent, clean, passed or
  proven; score, grade, verdict, findings and advice of one report agree.
- **Command line.** Exit code 0 is earned; what was asked for is delivered, or
  the run ends with 2 or a traceback; what runs is the policy, the plugins and the
  targets that were asked for.

## 2. The modules

| Module | Models | Kind |
|---|---|---|
| `ScanJobs` | `Job`, `_State`, `_start_scan`, the runner thread, `do_GET` on a job | component |
| `MCScanJobs` | symmetry for TLC | model checking |
| `ScanJobsProofs` | type correctness, slots, ghost jobs, what "done" means | proofs |
| `ScanContract` | what `scan()` promises its caller | abstract specification |
| `ScanPool` | `scan()` on a `ThreadPoolExecutor`; implements `ScanContract` | component |
| `ScanPoolProofs` | the contract, single notification, the join, the complete report | proofs |
| `Tunnels` | `Tunnel`, `_free_port`, the `finally` of `scan_target`, the ssh processes | component |
| `TunnelsProofs` | type correctness, processes reaped, own forward | proofs |
| `ResolveCache` | `_resolve` with `_dns_cache` | component |
| `SshfpCache` | `_check_sshfp` with `_SSHFP_CACHE` | component |
| `MCCaches` | the two caches in one run, and symmetry | model checking |
| `CacheProofs` | of the two caches: bounded staleness, an outage is survived, queries bounded by the workers | proofs |
| `History` | `history.append/read/latest`, `load_baseline`, the end of `main`, several processes | component |
| `HistoryProofs` | bounded loss, honest gate | proofs |
| `Sessions`, `MCSessions` | one connection: banner, KEXINIT, key exchange, authentication probe, against a server that follows RFC 4253 | component |
| `SessionsProofs` | bounded reads, real keys, sequence numbers, explained failures | proofs |
| `TargetScan`, `MCTargetScan` | `scan_target`, `_scan_over` and `analyse`; composes the modules below it down to `Dnssec` | component |
| `TargetScanProofs` | the ten properties of a report: rules, changelog, checks, score and grade, findings, passes, advice, revoked keys, the validated chain, the audit | proofs |
| `Policy` | the look-ups of a loaded policy | functions |
| `Detection` | `vulnerabilities.py`: conditions, matches, the changelog | functions |
| `Assessment` | `assessment.py`: classes, score, caps, grade, verdict, advice | functions |
| `Compliance` | `compliance.py`: strengths and profiles | functions |
| `KnownHosts` | `known_hosts.py` and `_check_known_hosts` | functions |
| `SshdConfig` | `sshd_config.py`: the remote script, its transcript, the parser | functions |
| `ConfigChecks`, `NetworkChecks` | ten built-in plugins | functions |
| `Dnssec` | `validate_records` over what resolvers may answer | functions |
| `Command`, `MCCommand` | `main` in `cli.py` from its arguments to its exit code; composes the five modules below it | component |
| `CommandProofs` | its six properties, and lemmas about `Kept` and lists of lists | proofs |
| `PolicyFile` | `load_policy`: candidates, refusals, editions | functions |
| `PluginFiles` | `load_plugins` | functions |
| `Inventory` | `targets.py` | functions |
| `Drift` | `compare.py` | functions |
| `Filters` | a loop that keeps some of a sequence, used by `Inventory`, `PluginFiles` and `KnownHosts` | functions |

### ScanJobs

One job per POST request. `post[j]` is the program counter of the handler
thread, `runner[j]` that of the runner thread, `get[c]` that of a GET handler,
which keeps the reference (`target[c]`) it got from `_State.get`, so an eviction
does not take the job away from it. `running` and `jobs` are the fields of
`_State`; `status`, `done`, `report` and `error` those of `Job` (for the report
and the error only whether they are set). Each critical section of
`_State.lock` or `Job._lock` is one action; outside of them each read or write
of a shared attribute is one action, so `as_status` is three steps and `_run`'s
`job.report = ...; job.status = ...` are two. `scan()` is used as its contract
says: it ticks once per target before it returns, or it ends with an Exception
or with something else. Requests that are refused before the slot is claimed
are one action, since they touch nothing shared.

### ScanContract and ScanPool

`ScanContract` has two variables: the phase of `scan()` and the calls of
`on_finish` that returned. `ScanPool` implements it (`Promise`): the mapping
takes `coord` to `phase` and `Len(notified)` to `delivered`. In `ScanPool` the
coordinator submits, collects, notifies, joins the executor and runs the fleet
checks; each worker takes the head of the executor's queue and ends its
`scan_target`. `faults` is chosen in the first state and says which kinds of
failure may happen in this run, so that properties can say what may be blamed
for what. The executor is the standard library's and is modelled by its
documented behaviour: FIFO queue, a thread started by a submit that finds none
idle, exceptions of any kind kept in the future, `shutdown(wait=True)` at the
end of the `with` block on every path.

### Tunnels

`pc[t]` is the worker's place in `open`, `_wait_until_ready`, `_drain_error`,
`close` and `scan_target`; `ssh[t]` the process; `listener[p]` who has bound a
port. `SshBinds` happens at any time after the spawn or never, `SshExits` at any
time. Other processes of the machine bind and leave the ports in `TakenPorts`.
The poll of the process and the connect of the readiness loop are separate
steps, as in the code. `clash` is history: it remembers whether a port was
claimed by anybody else between `_free_port` and the end of the tunnel.

### ResolveCache and SshfpCache

Both follow a look-up through its steps (read the clock, look, ask, store) for
each thread. `ResolveCache` has a clock and a resolver that fails and recovers;
the lock is held to look and to store and not in between, and `now` is read
before either, as in the code. `late` and `resolves` are history variables: they
say until when a name ought to resolve. In `SshfpCache` a check is (scan, host,
port), an answer remembers whose name servers gave it, and records may be
published anew. Targets that are addresses never reach the cache and are left
out. `MCCaches` checks both in one run: they share no variable, so it moves one of
them at a time while the other stands where it started.

### History

The file is a sequence of whole reports, fragments and line feeds. `append` writes
UTF-8 and not ASCII, so a fragment may end inside a character (`Torn`), if the
report has one of several bytes (`Wide`); such a file cannot be decoded
(`Decodable`), and then `history.read` finds nothing in it. `Readable` is what it
finds otherwise: a line that is a fragment, or is glued to one, is skipped, and so
is a report with a line separator of Unicode in it (`Split`), which `splitlines`
takes for the end of a line. `Loadable` adds what `load_baseline` reads before it
asks for lines: a file that is one report. A write is one step because `append`
writes one string to a file opened in append mode; `AppendCutShort` is the write
that is interrupted, anywhere before its last byte, and `AppendRaises` the report
that cannot be encoded. The end of `cli.main` keeps its order: append, then load
the baseline, then the exit code; `BaselineRaises` is the baseline that cannot be
decoded, which nothing catches.

### Sessions

`pc` is what the scanner waits for, `stage` what the server does next, and
`toServer` and `toClient` are the two directions of the connection. A packet is
its type, the number it was sealed with and whether it was encrypted; bytes are
left out, and so is the framing. Each read of the scanner is one action
(`ReadLine`, `ReadPacket`), with whatever it sends in reply: between two reads
the code only computes and writes. `GivesUp` is every way `recv` can end
without data. The server is external: it follows RFC 4253, answers each packet
in order, and may at any time add filler, extensions, a banner, something out
of place or a disconnect. `cause` is history: something the server or the
network did explains an error.

### TargetScan

A case is a server, which is the truth, and the options it is scanned with.
`pc` goes through the steps of `_scan_over`; every probe may fail in each way
the code knows, and `facts` holds what was read. `Analyse` is `analyse()` as one
action: it is computed without input or output from the facts, and all that is
chosen is what the plugins say. The functions it calls live in modules of their
own. Each of them takes the policy and the facts as arguments, as the code
does, so the properties can ask what the same code would have said of other
facts: `ClearedOnVersionOnly` hides the version, `AdviceNeverHurts` applies the
advice, `ChecksNeverGrade` leaves the checks out, `PassIsProof` puts back the
keys that were not read. `Truth` in `Detection` is the reference for a rule:
three-valued logic, in which what was not read stays open. The conditions of a
rule are a list in which every part comes before what it is part of, so the
evaluation and its reference are recursive functions over positions; the last
condition is the rule's.

`SshdConfig` has both ends of the audit. `Transcript` is what the script prints
on a machine, `ReadSections` what the parser makes of it, whole or broken off
after any of its lines; `Given` is what sshd itself would do for a connection,
so `AuditIsHonest` compares the report with the truth and not with the script.
`Dnssec` has the zones of one host with their keys, key changes and signatures,
and a walk that says, for each query, when its answer was signed and out of
which view it came. `Upwards` and `Downwards` are the two loops of
`_authenticated_zone_keys`, as recursive functions of the number of turns.

`CheckSshfp` takes the records it compares and the walk that decides whether they
are called validated from two separate sets, because the code asks for them in two
separate queries and never compares the answers: any records may stand beside any
walk, those of another view or of nobody in the zone included.

In place of texts there are sets: a glob is the set of names it matches, a
version is a pair of numbers, a finding is its identifier.

### Command

`pc` follows `main`: export, policy, wizard, listing, plugins, targets, options,
scan, history, baseline, reports, reading back, gates. `args` is the parsed
command line and `world` the files and the terminal it meets. Every early return
of `main` is a way to `Exits`, and so is everything it does not catch: the exit
`traceback` is an exception that leaves `main`, which the shell sees as 1, as it
sees `findings`. A policy, an inventory or a baseline is therefore loaded,
refused or raises, and each write and read after the scan succeeds, fails with
an error that is caught, or with one that is not (`Fails`). `Scan` returns any
result for any target; `ScanPool` and `TargetScan` say which. `Drift` is
`compare.py`, `Inventory` and `PolicyFile` decide which servers and which policy
a run is about.

## 3. The runs

| Run | Instance | Shows |
|---|---|---|
| `ScanJobs_safety` | 3 POSTs, 2 slots, table of 2, 1 client, 1 target each, every ending | slots accounted for, no ghost job, "done" is complete and final |
| `ScanJobs_ends` | 3 POSTs, 1 slot, table of 2 | all slots come back, every accepted job ends |
| `ScanPool_faults` | 3 targets, 2 workers, every set of faults | complete ordered report, one notification per result, threads joined, the contract, defects contained |
| `Tunnels_ports` | 2 targets, 2 ports, 2 attempts, strangers on one port | processes reaped, answers from the own forward unless there was a clash, every worker ends |
| `Caches_threads` | addresses: 2 threads, TTL 2, clock to 5; SSHFP: 2 scans x 2 ports of one host, 2 workers | bounded staleness, a success survives an outage, queries bounded by the workers |
| `History_shared` | 3 recording processes, 2 of them with wide characters and 1 of these with a line separator, and a gating one | loss bounded by the truncated writes unless one is cut inside a character, gate honest |
| `History_cut_short` | 3 recording processes with wide characters, one gates as well | *violated*: one truncated write makes every report unreadable |
| `History_same_file` | 2 runs that record and gate on one file | *violated*: the report is compared with itself |
| `Sessions_server` | 3 probes, 11 servers, limits of 2, 3 packets beside the protocol | in step, the key is real, errors have causes, reads are bounded |
| `TargetScan_analysis` | about 300 cases of servers and options, 2 plugins | ten properties of the report, below |
| `TargetScan_sweep` | the same | *violated*: an account is counted as clean that was not looked at |
| `Command_exit` | 200 command lines, 1 or 2 targets, 4 results of a scan | exit code, delivery, exports, plugins, policy, targets |

The properties of `TargetScan_analysis`:

- `NotSilent`: a rule that is not listed is known not to hold, unless it asks
  about a host key that was not read or a version of its product that does not
  parse (`PassedOver`).
- `ClearedOnVersionOnly`: what the changelog clears rests on the version alone.
- `WordAndGradeAgree`, `ReportExplains`: verdict, grade, score and findings of
  one report do not contradict each other.
- `PassIsProof`: a profile that passes is conformed to, even if every
  unclassified name were what the profile forbids.
- `ChecksNeverGrade`: what a check says never moves score, grade or verdict.
- `AdviceNeverHurts`: applied, the advice leaves no class empty and the scan no
  worse.
- `RevokedIsReported`: a revoked key that is presented is reported, unless a
  later line records the same key.
- `AuditIsHonest`: every account and `Match` block the audit could see is
  reported as it is or said not to have been read.
- `ChainIsGenuine`: a name is called validated only when the walk from the root
  brought a record set of the host's own zone over answers of the zones above it,
  none of them older than a signature lives. It is about the flag and the walk,
  not about the records that are compared with the keys (section 5).

Why the bounds are enough. Two slots and three POSTs give a request that is
refused while another holds a slot and one that gives it back; a table smaller
than the number of jobs makes eviction happen at every step of an evicted job's
life. Two workers and three targets give a worker that takes a second target
while the other still runs, a queue that is not empty when the coordinator
leaves, and completions in every order. Two ports for two tunnels with a second
attempt give both the clash and the reuse of a port one tunnel after another; a
third attempt repeats the second. The clock of `ResolveCache` runs for more than
two TTLs, so an entry expires, is replaced and expires again. One host with two
ports in two scans is the smallest sharing of an SSHFP entry. The history has
three writers, so a fragment may lie before, between and after whole reports, and
one that ends inside a character before and after one that does not.
The limits of `Sessions` (lines before the banner, packets passed over, banners
before the answer) are 2 instead of 50, 32 and 8, and a server sends up to 3
packets beside the protocol, so each limit is reached and passed. The policy of
`TargetScan` has an entry of every category, a rule of every kind of condition
and combination, a closed, an open and a local profile; its servers are the
product of what those tell apart, with shapes of their own for what the product
leaves out. Zones are two deep with a key change in each at two times, and any
two of the answers of a walk may be wrong at once. `Command` meets each way a
policy, a plugin, a line of an inventory or a write can go wrong, one at a time,
since each of them ends the run or is passed over by itself.

Deadlock checking is off where a program comes to an end; in `TargetScan` and
`Command`, which are one run each, the end is a step of its own (`Finished`)
and a state in which nothing can happen would be reported.

## 4. Fairness

A thread that has work is scheduled again and again (`WF` on each handler's,
runner's, coordinator's and worker's steps); nothing makes a client send a
request. `scan_target` ends because each of its waits has a timeout. In
`Tunnels` the deadline of the readiness loop has strong fairness, since the loop
enables and disables it as it goes round while the clock advances; SIGKILL ends a
process; nothing makes ssh log in, bind, obey SIGTERM or exit by itself. In
`Sessions` the scanner has weak fairness and the server has none. The caches,
the history, `TargetScan` and `Command` have safety properties only, and no
fairness.

## 5. What the violated runs say, and other observations

- `History_cut_short`: the docstring of `history.read` says that one truncated
  write should not make the rest unreadable, and the manual
  (`docs/en/uso-avanzado.md:72`) that the file cannot become entirely unreadable
  because of one. `read` decodes the file as a whole before it looks at a line,
  and catches only `OSError`. A write that is cut inside a character makes it
  undecodable: no report can be read any more, `--history-report` and
  `--compare` end in a traceback, and they go on doing so until somebody repairs
  the file.
- `History_same_file`: `cli.main` records the report before it reads the
  baseline. With one file for `--history` and `--compare`, which the manual
  recommends, every report is compared with itself and `--fail-on-regression`
  never fails.
- `TargetScan_sweep`: the account sweep asks whether a home and a file of keys
  exist as the account of the audit, even where it would read the file with
  sudo. An account whose directory the audit may not enter is in no list.

Places where the code and its documents differ, or that a reader may not
expect, met while modelling and written into the models as the code has them:

- `ScanJobs`: the table evicts its oldest entry, running or not, although the
  comment says finished jobs. `as_status` can say "error" with an empty text,
  and the 409 answer can say that the scan is done; both are gone at the next
  poll. The comment on `Job.tick` says several scanner threads call it; all
  calls come from the coordinator's one thread.
- `ScanPool`: `SystemExit` of a plugin passes every `except Exception`, and the
  conversion of a fleet plugin's outcomes is outside the `try`; either ends the
  run.
- `Tunnels`: anything that accepts on the chosen local port while the own ssh is
  alive is taken for the own forward; `OwnForward` therefore excludes clashes.
- `ResolveCache`: a failed look-up that was already under way replaces a success
  stored meanwhile, and the name then fails for a whole TTL; hence the
  qualification in `OutageSurvived`.
- `SshfpCache`: two workers can compare two targets of one host in one scan with
  different answers. In the web front end one scan's answer is served to every
  later scan of that name, whatever name servers it asked for.
- `History`: a fragment without a line feed takes the next whole report with it;
  `LossBounded` says it never takes more, as long as it does not end inside a
  character. A report with U+2028 or U+0085 in it is recorded and never read again,
  unless it is the only one (`Split`).
- `Sessions`: `probe_auth_methods` does not discard a wrong guess, so it fails
  against a server that guesses wrong (the last line of `FailureHasCause`).
- `TargetScan`: an `OSError` of `measure_max_startups` leaves `scan_target`
  (`pc = "raised"`). A negation over facts that were not collected is listed as
  affected, and a host key that was not read makes its rules false without a
  word, as does a version of the right product that does not parse (the exceptions
  in `NotSilent`). A plugin of kind "vulnerability" does
  lower the grade. The verdict counts matches the changelog cleared, the caps do
  not (`WordAndGradeAgree`). A profile passes although one key could not be read
  when another could (`PassIsProof` asks for all of them). Strengths that are
  not recorded are left out of the effective strength.
- `Assessment`: the comment says that a line of advice is of recommended
  algorithms, but a policy may suggest others, as the shipped one does with two
  acceptable ciphers. A server that keeps one of them is given the line it has
  already, at every scan. The line for the host keys is given twice, the second time
  for the keys of clients, of which the scan has seen none (`copied`).
- `KnownHosts`: a negated pattern never excludes, and a later plain line of the
  same key masks a revocation.
- `SshdConfig`: the END marker of the transcript is never asked for, so a
  transcript that broke off is read as a short one (`CameWhole`); a group without
  members, and `User` with `Group` in one block, are resolved for somebody else.
- `Dnssec`: only the first signature that covers a type is tried.
- `TargetScan`, SSHFP: the docstring of `lookup_sshfp` (`dns.py:179`) says that it
  returns the records and whether the SSHFP record set is validated. The records
  are the answer of one name server to a plain query (`dns.py:199-202`); what is
  validated is fetched again, from the authoritative servers or a resolver, and is
  not compared with them (`dns.py:203-206`). Records of another view, out of a cache
  or made up on the way are called validated if the zone of the name is signed, so
  `dnssec_authenticated` means "this name has a validated record set" and not "these
  records are of it". No property says the latter, since the code does not see to
  it, and no run shows the disagreement; the two sets in `CheckSshfp` do.
- `Command`: a profile required by an edition is not evaluated unless some
  profile is named (`Evaluated`). What is neither JSON nor of the expected types
  in a policy is a traceback, with the exit code of a finding. A line of an
  inventory that is not understood is a warning, and the exit code can be 0. An
  export that failed half way is refused when it is tried again.
- `Command`, tracebacks: `main` catches the errors of its modules and of the
  system, not those of decoding and encoding. A baseline that is not UTF-8
  (`compare.py:99`), or JSON of another shape in its results
  (`compare.py:120-125`), an inventory that is not UTF-8, a report that the
  encoding of standard output has no character for (`cli.py:1016-1020`), and the
  comparison, which is printed without any `try` (`cli.py:1024`), end the run
  with a traceback, after the scan and with some or none of the formats written.
  The shell sees 1, which the table of exit codes (`docs/en/README.md`) gives to
  findings, profiles and regressions. `DeliveredOrSaid` therefore tells the two
  apart, which a script that has only the number cannot; no run shows it.
- `Drift`: a target that cannot be reached any more has all its findings
  "resolved", and a host key that changed together with its algorithm is no
  change.

## 6. What is proved

Every theorem holds for every value of the constants that meets the named
assumption of its module; the runs show the same properties on a small instance.
Each proof is an inductive invariant, with one lemma per action or per conjunct.

`ScanJobsProofs`, for any finite set of requests, any clients and any positive
limits:

- `TypeCorrect`: `TypeOK` with `GetReady`, which says that a GET handler in the
  middle of its work holds a job, because otherwise `status[target[c]]` would be
  read outside its domain.
- `SlotsSafe`: `running` equals the number of threads that owe a release. The
  argument is one lemma about each of the four steps that change the set of
  holders: it gains or loses exactly one member, or, when `Thread.start()`
  returns, the job passes from its POST handler to its runner and the set stays
  the same. It follows that `max(0, ...)` in `release` never acts, and with
  `TypeCorrect` that the ceiling holds.
- `NoGhosts`, `DoneAnswersComplete`, `NoConflictAfterDone`: from one invariant,
  `JobsInv`, that ties the counters of the two threads of a job to what they have
  written so far, and each stage of a GET to what its earlier reads imply. Without
  the second, an answer made of three unlocked reads says nothing.

`ScanPoolProofs`, for any positive number of targets, any positive concurrency
and any set of faults:

- `KeepsContract`: `Spec => Contract!Safe`, the safety half of the refinement.
  `CoordInv` says that, until something fails, `on_finish` was called exactly as
  often as there are stored results other than the one that still waits for it,
  that a result waits only while the coordinator is about to call `on_finish`, and
  that the loop is left without a failure only when every target has its result.
  A call that returns is then a `Deliver`, the report is a `Return`, each way of
  failing is a `Fail`, and every other step stutters.
- `OncePerTarget`: from `CoordInv` and the fact that the result about to be
  announced was not announced before.
- `NoThreadLeft`: the strengthening says the same of the fleet checks and bounds
  the number of threads, without which a worker that was never started could be
  one that takes from the queue.
- `ReportIsComplete`: a future's result is its own target's, so what is stored
  under an index is; and when nothing failed no place is empty.

`TunnelsProofs`, for any targets, ports and attempts (`TunnelsInv`): an ssh that
runs forwards the port its tunnel holds, and only such an ssh listens in the name
of a tunnel; a port that is held by two was noted as a clash for both. The type
invariant (`TypeCorrect`), `NoProcessLeft` and `NoForeignAnswer` follow.

`CacheProofs`. `ResolveCache`, for any threads, lifetime and clock (`CacheInv`):
`now` is read before the resolver is asked, so no entry outlives what it says
(`StalenessBounded`), and every look-up either was under way when a success was
stored or began once it had expired (`OutageIsSurvived`). `SshfpCache`, for any
scans, hosts, ports and number of workers (`QueriesAreBounded`): the different
answers that the finished checks of a host hold and the checks of it under way
are together no more than its queries, and a check can only begin to ask while
nothing is stored, so all that ask are under way at once, on different workers.

`HistoryProofs`, for any finite set of runs:

- `LossIsBounded`: every fragment was left by a write that was cut short, and while
  the file can be decoded a whole report without a line separator in it is lost only
  to the text directly before it; the map from lost reports to those fragments is an
  injection. A fragment that ends inside a character was left by a run that was cut
  short and whose report has such characters, so nothing else makes the file one
  that cannot be decoded.
- `GateIsHonest`: under the hypothesis that no run both records and gates, which is
  the case `History_same_file` refutes. The hypothesis is met by every command line
  that names different files.

`SessionsProofs`, for any servers, limits and number of packets beside the
protocol:

- `ReadsAreBounded`: each stage has a count of what it may still read.
- `KeysAreReal`: while a guess is under way, the scanner waits at a place where it
  is discarded, or the guess was right.
- `SequencesAgree` (`SealInv`): what is under way in each direction carries
  consecutive numbers, which end where the sender is and start where the reader is,
  across the reset of a strict key exchange and with the change of mode at NEWKEYS.
- `FailuresAreExplained` (`TalkInv`): until there is a cause, `InStep` says for each
  place of the scanner which answers are under way and in which order, and which
  request still calls for one. It is by far the largest proof, since the property
  excludes every way in which the two could wait for each other.

`CommandProofs`, for any command lines, files and results:

- `ZeroIsAlwaysEarned`, `AllIsDelivered`, `ExportsAreWhole`: the invariant says at
  each place of `main` what has been seen to hold there or has put its mark on the
  exit code; a file of an export is either still to be written, whole, or the
  reason for a code other than 0. What `AllIsDelivered` needs is that formats are
  written in their order, and only once the history has the report or was not asked
  to, and that no gate is reached while one is left.
- `PolicyIsAsAsked`, `OwnPluginsAlwaysStay`, `TargetsAreKept`: what the loops of
  the loaders and of `targets.py` return. Loops that pass over some of a list are
  `Kept`, of which it is proved that it keeps the members and their order; lists of
  lists are put together with `FlattenSeq`, of which the lemma `Flattening` says
  where each element of the parts ends up. `FlattenSeq` is defined by recursion, so
  the lemma is proved by the least number of parts for which it could fail.

`TargetScanProofs`, for any policy, plugins, servers and options. The inductive
invariant `ScanInv` says which fields the facts have, that the probes are gone
through in their order, that a finished result is the one `Concluded` computes
from the facts (`ResultFollows`), and that what was read of the server, compared
with known_hosts and walked through in DNS is still what it was. With it the
theorems are facts about the functions the analysis is made of:

- `NothingIsSilent`: by induction over the positions of a detection, an answer
  without a missing fact is the answer of three-valued logic wherever that one is
  settled, and "and", "or" and "not" keep that, although each of them stops at
  the first part that decides. The induction takes the least position at which
  the two would disagree (`Least`, `CountingUp`).
- `ClearedIsVersioned`: what `ApplyChangelog` clears has a version among its
  evidence, so its rule asks about one, and without it the rule does not hold
  (`NoVersionNoHit`). This needs a property of the policy, `NeedsVersion` of each
  rule: once a rule asks about the version it cannot hold without it. It is a
  hypothesis of the theorem; the 55 rules of the shipped `algorithms.json` that
  ask about a version meet it, and TLC evaluates it for the policy of the run
  (`MCRulesAssumption`). It is needed: a policy of one's own may have a rule that
  holds by an algorithm or by a version, and the changelog clears that rule
  whichever it was.
- `ChecksGradeNothing`: grade and verdict are functions of the settled matches,
  and what a check says is never settled.
- `WordsAndGradesAgree`, `ReportExplainsItself`: the score is a weighted mean, so
  before penalties it lies between the worst and the best category offered
  (`BaseScoreIs`); penalties only take off (`PointsAre`); a grade is at least the
  first rung that is reached without conditions (`EarnedIs`), and caps only go
  down the ladder (`CappedIs`, for a sequence of caps of any length). The sums are
  `SumFunction`, which takes its arguments in an order nobody knows; the lemmas on
  it (`SumIs`, `SumsCompare`, `SumOfCosts`) go by the number of arguments left.
  What a policy has to meet is the hypothesis `LadderAgrees` in `Assessment`: what
  is recommended less the one penalty of a secure server earns an A, what is
  acceptable less the penalties that go with a better word than weak stays above
  F, only the last rung is F and only the first A+, and there are caps that keep
  insecure at F and weak, small keys and serious matches from A+. The shipped
  ladder, caps, scores and penalties meet it; they are those of the run's policy,
  for which TLC evaluates it (`MCLadderAssumption`). It is needed: with a policy
  of one's own that has no cap an insecure server may well have a B. That an F is
  explained follows from the first theorem, since an F comes with the verdict weak
  or insecure and each of them has a finding.
- `RevokedKeysReported`: of the lines with one key the last is the one recorded.
- `ValidatedChainsAreGenuine`: along the walk up every signer is the parent,
  since no other view has DS records; along the walk down a zone without a
  vouched key leaves none to those below it, so each link was verified and in
  force; and the key of an inner view is in no DS record and no root anchor.
- `AuditTellsTheTruth`: reading takes apart what the script put together. Lines
  of accounts, of templates and of blocks are parts laid one after another by
  `FlattenSeq`: `FlatIsLaid` says of each part that its lines are there, in their
  order, and that after the last of them the whole ends or another part begins.
  No such line is a mark (`Unmarked`), so a section that is added at the end of a
  transcript is read back and leaves those before it as they were
  (`SectionAdded`, eight times in `TranscriptIs`). What `Accounts` makes of the
  first `i` lines only grows with `i`, and joining an account to the others
  forgets nobody who was there (`JoinedIs`, `AccountsAre`); a Match block has the
  context that its own lines say, up to the mark of the next one (`ContextsAre`).
  So every account is with the file it was met with, and a relaxed block is either
  resolved, and then compared, or counted as not resolved.
- `PassesAreProofs`: a key that was read is a key of the server (`KeysStand`, an
  invariant of its own over the probes), so when each was read there is one like
  it for each the server has (`KeysCover`), and nothing the server has is weaker
  than everything that was read (`CoversStrengths`, `TooWeakIsSeen`). So a profile
  that the whole server would break is broken by what was read
  (`ViolationsAreSeen`), and one that neither is broken nor leaves anything open is
  conformed to (`PassIsConformance`). It has two hypotheses. `StrengthsAreNumbers`
  is about the policy: strengths that are recorded or asked for are numbers. The
  shipped policy meets it, and for that of the run TLC evaluates it
  (`MCStrengthsAssumption`). `ShowsItsKeys` is about servers: one algorithm shows
  one key, one fingerprint is one key, and only RSA and DSA keys are used under
  several names. It is needed because one probe is made for each family and a key
  that was seen before is not kept again, so the strength that counts is that of
  the name a key was first asked for by; a modulus has the same strength under
  every name. TLC evaluates it for every server of the run (`MCKeysAssumption`).
- `AdviceHurtsNobody` compares two reports, before the advice and after it. What
  is applied only takes away (`AppliedIs`, `Lessened`), and what no advice takes
  away stays. A rule that holds afterwards held before with the same version among
  its evidence (`RuleStays`, by induction over the positions of its detection), so
  no new match is serious that was not (`SeriousStays`). A class is worth what its
  worst algorithm is, and one that changed keeps some that count, so it is worth
  at least what it was (`ClassesGoUp`). The score could still fall by the penalty
  for a missing post-quantum key exchange, when the one that goes was offered
  beside better ones: but a key exchange that changed had something less than
  recommended and has nothing less now, and what its class gains is at least that
  penalty and the rounding (`ScoreGoesUp`). No rung that asks for post-quantum was
  earned in that case (`EarnsAsMuch`), and a cap that applies afterwards applied
  before (`CapsStay`, `GradeGoesUp`).

  The hypotheses. `AdviceIsSound` (in `Assessment`): what is suggested has a
  score, and is recommended if it is a key exchange, the mark of a strict key
  exchange is no algorithm, nothing is worth more than what is recommended, a key
  exchange gains by its weight more than the penalty, the grades have different
  names, and those that ask for post-quantum ask for the score of what is
  recommended. `HoldsForNothingGone` and `NeedsVersion`, of each rule: what it
  negates or asks not to be there is nothing the advice takes away. `SpeaksSsh`,
  of each server: it has a list for each class and can go without compression,
  which RFC 4253 requires. The shipped policy meets them: all it suggests is
  recommended but for two acceptable ciphers, its scores are 100, 75, 35 and 0,
  its weights 25, 25, 20, 20 and 10, and its penalty 5, so the key exchange gains
  at least 25 * 25 against (5 + 1) * 100; the only algorithm that a rule of it
  asks not to be there is the mark of a strict key exchange. TLC evaluates them
  for the policy and the servers of the run (`MCAdviceAssumption`,
  `MCRulesAssumption`, `MCKeysAssumption`). They are needed: with a penalty of 10
  in place of 5, a server that drops an acceptable post-quantum key exchange for a
  classical one can lose more than it gains.

The assumptions. `JobsAssumption`: finitely many requests, positive limits, the
three outcomes of `scan()`. `PoolAssumption`: at least one target (`scan()`
returns early without any) and one worker. `TunnelsAssumption`,
`CacheAssumption`, `SshfpAssumption`: positive counts, and names for "nobody"
that nobody has. `HistoryAssumption`: finitely many runs. `SessionsAssumption`:
positive limits, and a server is one of the shapes listed. `CommandAssumption`
says what argparse, the file system and JSON guarantee: `--fail-on` is one of
its choices, what is a list is a list, there is a shipped policy as last
candidate, one plugin directory is the package's own, a name has one lower case,
directories are finite. `TargetScanAssumption` says what the loaders and the
readers guarantee: a detection's parts come before it (they are nested in the
file), no two plugins have one identifier (`seen_ids`), known_hosts and the host
key algorithms of a server are lists, a banner has its three fields, the classes
of an offer are finitely many and each has a weight (the loader gives 0 to one
that has none), and in `IsDomain` what the answers to the queries of a walk can
be: only the zone itself and the records of the host have another view, and an
alias is not the host. In `IsMachine`, what an audited machine has is lists, and
no line that sshd prints of its configuration is the mark of a section: the
script's marks begin with `###SSHCC:`, and a directive or a Match header with
its name.

Only model-checked: liveness (`SlotsComeBack`, `AcceptedEnds`, `EveryScanEnds`,
`EveryScanReturns`, and the fairness half of `Promise`), which this prover does
not reach. Every invariant and action property of a passing run is a theorem.

The modules that have a `TypeOK` no run lists have it for the proofs.

## 7. Plan

1. `WebConnections`: the connection slots of `_BoundedServer` and the framing of
   requests on a keep-alive connection.
2. The clocks and sockets of `measure_login_grace` and `measure_max_startups`;
   the referral loop of `resolver.py`; denial of existence in `dnssec.py`.
3. The remaining built-in plugins.

## 8. What is not modelled

- The cryptographic primitives: arithmetic on numbers of hundreds of bits, far
  beyond TLC, and fixed by published test vectors.
- The renderers, the message catalogs, the texts of the wizard and the argument
  parser: formatting and dialogue without state that others use.
- The MCP server: one message at a time, no state between messages; each of its
  tool calls is a run of `main`.
- The connections and request checks of the web front end.
- In `ScanJobs`, the contents of requests and reports; in `ScanPool`, what is in
  a result and a second interrupt while the executor is being joined; in
  `Tunnels`, what ssh prints (an `OSError` of `_free_port`, `tunnel.py:113`,
  leaves `open` as a failed start does, in `CannotStart`); in `ScanJobs`, what
  may come between two reads that one line or expression of `as_status` does,
  those of `status` and `done` (`ReadStatus`) and those of `status` and `error`
  (`ReadError`): the second of each pair only ever grows or is set, so a later
  read gives an answer that a later pair of reads or the next poll gives as
  well; in `History`, everything of a report but the score of one target; in
  `Sessions`, the framing of packets and all cryptography; in `TargetScan`, the
  order of an algorithm list and the sections FILES, MODULI and PACKAGE of the
  audit; in `PolicyFile`, the language overlay; in `Dnssec`, denial of existence
  and the iterative resolver.
- Five built-in plugins: `certificate_lifetime`, `host_certificates`,
  `rsa_key_quality`, `server_files`, `shared_host_keys`.
