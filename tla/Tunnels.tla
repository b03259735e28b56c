------------------------------ MODULE Tunnels -------------------------------
(***************************************************************************)
(* The bastion forwards of ssh_crypto_checker/tunnel.py, one Tunnel per    *)
(* target being scanned, and their use by scan_target in scanner.py.       *)
(*                                                                         *)
(* A worker asks the kernel for a free port and lets go of it (_free_port),*)
(* starts an ssh that is to listen on it, polls until something accepts a  *)
(* connection there, scans through it and closes the tunnel. The workers   *)
(* of one scan do this at the same time, each ssh is a process of its own  *)
(* that binds its port only once it has logged in to the bastion, and any  *)
(* other process of the machine may bind a port that is free.              *)
(***************************************************************************)
EXTENDS Integers, FiniteSets

CONSTANTS
    Targets,      \* the targets scanned through the bastion, one tunnel each
    Ports,        \* the kernel's ephemeral ports
    PortAttempts, \* _PORT_ATTEMPTS
    TakenPorts,   \* those that other processes of the machine bind now and then
    Nobody, Stranger, NoPort

ASSUME TunnelsAssumption ==
    /\ PortAttempts \in Nat \ {0}
    /\ TakenPorts \subseteq Ports
    /\ Nobody \notin Targets /\ Stranger \notin Targets /\ Nobody # Stranger
    /\ NoPort \notin Ports

VARIABLES
    pc,        \* where the worker of each target is
    attempt,   \* how many ports open() has tried
    port,      \* the local port a tunnel is up or coming up on
    scanned,   \* whether _scan_over has ended
    ssh,       \* the ssh process of each tunnel
    forward,   \* the port in that process's -L option
    signal,    \* the last signal sent to it
    listener,  \* who listens on each port
    answered,  \* who accepted the connections the scan of each target made
    clash      \* whether a tunnel's port was ever claimed by someone else
               \* while the tunnel was up (history only)

vars == <<pc, attempt, port, scanned, ssh, forward, signal, listener, answered, clash>>

Steps == {"start", "ported", "probing", "polled", "draining", "closing",
          "waiting", "killing", "scanning", "down", "closed", "failed"}

TypeOK ==
    /\ pc \in [Targets -> Steps]
    /\ attempt \in [Targets -> 0..PortAttempts]
    /\ port \in [Targets -> Ports \cup {NoPort}]
    /\ scanned \in [Targets -> BOOLEAN]
    /\ forward \in [Targets -> Ports \cup {NoPort}]
    /\ ssh \in [Targets -> {"none", "connecting", "forwarding", "exited"}]
    /\ signal \in [Targets -> {"none", "TERM", "KILL"}]
    /\ listener \in [Ports -> Targets \cup {Nobody, Stranger}]
    /\ answered \in [Targets -> SUBSET (Targets \cup {Stranger})]
    /\ clash \in [Targets -> BOOLEAN]

Init ==
    /\ pc = [t \in Targets |-> "start"]
    /\ attempt = [t \in Targets |-> 0]
    /\ port = [t \in Targets |-> NoPort]
    /\ scanned = [t \in Targets |-> FALSE]
    /\ ssh = [t \in Targets |-> "none"]
    /\ forward = [t \in Targets |-> NoPort]
    /\ signal = [t \in Targets |-> "none"]
    /\ listener = [p \in Ports |-> Nobody]
    /\ answered = [t \in Targets |-> {}]
    /\ clash = [t \in Targets |-> FALSE]

Goto(t, step) == pc' = [pc EXCEPT ![t] = step]
Alive(t) == ssh[t] \in {"connecting", "forwarding"}
Claimants(p) == {t \in Targets : port[t] = p}

-----------------------------------------------------------------------------
(* Tunnel.open                                                             *)

\* shutil.which finds no ssh, _free_port has no socket to ask with or Popen
\* raises OSError: open() raises at once.
CannotStart(t) ==
    /\ pc[t] \in {"start", "ported"}
    /\ Goto(t, "failed")
    /\ port' = [port EXCEPT ![t] = NoPort]
    /\ UNCHANGED <<attempt, scanned, ssh, forward, signal,
                   listener, answered, clash>>

\* _free_port: bound to 0 and let go again, so nothing holds it afterwards.
FreePort(t, p) ==
    /\ pc[t] = "start"
    /\ listener[p] = Nobody
    /\ port' = [port EXCEPT ![t] = p]
    /\ clash' = [u \in Targets |->
                    \/ clash[u]
                    \/ Claimants(p) \ {t} # {} /\ u \in Claimants(p) \cup {t}]
    /\ attempt' = [attempt EXCEPT ![t] = @ + 1]
    /\ Goto(t, "ported")
    /\ UNCHANGED <<scanned, ssh, forward, signal, listener, answered>>

Spawn(t) ==
    /\ pc[t] = "ported"
    /\ ssh' = [ssh EXCEPT ![t] = "connecting"]
    /\ forward' = [forward EXCEPT ![t] = port[t]]
    /\ signal' = [signal EXCEPT ![t] = "none"]
    /\ Goto(t, "probing")
    /\ UNCHANGED <<attempt, port, scanned, listener, answered, clash>>

\* _wait_until_ready: the deadline has passed, or poll() says ssh is gone ...
Deadline(t) ==
    /\ pc[t] = "probing"
    /\ Goto(t, "draining")
    /\ UNCHANGED <<attempt, port, scanned, ssh, forward,
                   signal, listener, answered, clash>>

PollGone(t) ==
    /\ pc[t] = "probing"
    /\ ~Alive(t)
    /\ Goto(t, "draining")
    /\ UNCHANGED <<attempt, port, scanned, ssh, forward,
                   signal, listener, answered, clash>>

\* ... or ssh still runs, and then connect_ex either finds somebody listening
\* on the port or is tried again after a pause.
PollAlive(t) ==
    /\ pc[t] = "probing"
    /\ Alive(t)
    /\ Goto(t, "polled")
    /\ UNCHANGED <<attempt, port, scanned, ssh, forward,
                   signal, listener, answered, clash>>

Ready(t) ==
    /\ pc[t] = "polled"
    /\ listener[port[t]] # Nobody
    /\ Goto(t, "scanning")
    /\ UNCHANGED <<attempt, port, scanned, ssh, forward,
                   signal, listener, answered, clash>>

NotReady(t) ==
    /\ pc[t] = "polled"
    /\ listener[port[t]] = Nobody
    /\ Goto(t, "probing")
    /\ UNCHANGED <<attempt, port, scanned, ssh, forward,
                   signal, listener, answered, clash>>

\* _drain_error: terminate() and communicate(timeout=5), which returns when ssh
\* has exited or gives up on it.
Drain(t) ==
    /\ pc[t] = "draining"
    /\ signal' = [signal EXCEPT ![t] = IF Alive(t) /\ @ = "none" THEN "TERM" ELSE @]
    /\ Goto(t, "closing")
    /\ UNCHANGED <<attempt, port, scanned, ssh, forward,
                   listener, answered, clash>>

-----------------------------------------------------------------------------
(* Tunnel.close, from open() after a failed attempt and from scan_target    *)

\* poll(): nothing to end, or SIGTERM and up to five seconds of patience.
CloseGone(t) ==
    /\ pc[t] = "closing"
    /\ ~Alive(t)
    /\ Goto(t, "down")
    /\ UNCHANGED <<attempt, port, scanned, ssh, forward,
                   signal, listener, answered, clash>>

CloseTerminate(t) ==
    /\ pc[t] = "closing"
    /\ Alive(t)
    /\ signal' = [signal EXCEPT ![t] = "TERM"]
    /\ Goto(t, "waiting")
    /\ UNCHANGED <<attempt, port, scanned, ssh, forward,
                   listener, answered, clash>>

\* Mutant: close() does not wait for the process it has asked to end.
CloseWithoutWait(t) ==
    /\ pc[t] \in {"waiting", "killing"}
    /\ Goto(t, "down")
    /\ UNCHANGED <<attempt, port, scanned, ssh, forward,
                   signal, listener, answered, clash>>

\* wait(timeout=5) returns: the process has ended.
Waited(t) ==
    /\ pc[t] \in {"waiting", "killing"}
    /\ ~Alive(t)
    /\ Goto(t, "down")
    /\ UNCHANGED <<attempt, port, scanned, ssh, forward,
                   signal, listener, answered, clash>>

\* Mutant: nothing is done about an ssh that ignores SIGTERM.
WaitForEver(t) ==
    /\ pc[t] = "waiting"
    /\ Goto(t, "waiting")
    /\ UNCHANGED <<attempt, port, scanned, ssh, forward,
                   signal, listener, answered, clash>>

\* TimeoutExpired: SIGKILL.
WaitTimesOut(t) ==
    /\ pc[t] = "waiting"
    /\ signal' = [signal EXCEPT ![t] = "KILL"]
    /\ Goto(t, "killing")
    /\ UNCHANGED <<attempt, port, scanned, ssh, forward,
                   listener, answered, clash>>

\* The tunnel is down: scan_target is finished, or open() tries the next port
\* or raises TunnelError.
NextAttempt(t) ==
    /\ pc[t] = "down"
    /\ port' = [port EXCEPT ![t] = NoPort]
    /\ Goto(t, IF scanned[t] THEN "closed"
               ELSE IF attempt[t] < PortAttempts THEN "start" ELSE "failed")
    /\ UNCHANGED <<attempt, scanned, ssh, forward, signal,
                   listener, answered, clash>>

-----------------------------------------------------------------------------
(* scan_target                                                             *)

\* One of the connections _scan_over makes to 127.0.0.1:local_port; a refused
\* one reaches nobody.
Connect(t) ==
    /\ pc[t] = "scanning"
    /\ answered' = [answered EXCEPT ![t] = @ \cup ({listener[port[t]]} \ {Nobody})]
    /\ UNCHANGED <<pc, attempt, port, scanned, ssh,
                   forward, signal, listener, clash>>

\* _scan_over returns or raises: close() in the finally clause either way.
EndScan(t) ==
    /\ pc[t] = "scanning"
    /\ scanned' = [scanned EXCEPT ![t] = TRUE]
    /\ Goto(t, "closing")
    /\ UNCHANGED <<attempt, port, ssh, forward, signal,
                   listener, answered, clash>>

-----------------------------------------------------------------------------
(* The ssh processes and the rest of the machine                            *)

\* Logged in to the bastion, and the port is free: the forward is up.
SshBinds(t) ==
    /\ ssh[t] = "connecting"
    /\ listener[forward[t]] = Nobody
    /\ ssh' = [ssh EXCEPT ![t] = "forwarding"]
    /\ listener' = [listener EXCEPT ![forward[t]] = t]
    /\ UNCHANGED <<pc, attempt, port, scanned, forward,
                   signal, answered, clash>>

\* ssh ends: the bastion refused it or dropped it, its port was taken
\* (ExitOnForwardFailure), or a signal reached it. Its port is free again.
SshExits(t) ==
    /\ Alive(t)
    /\ ssh' = [ssh EXCEPT ![t] = "exited"]
    /\ listener' = [p \in Ports |-> IF listener[p] = t THEN Nobody ELSE listener[p]]
    /\ UNCHANGED <<pc, attempt, port, scanned, forward,
                   signal, answered, clash>>

StrangerBinds(p) ==
    /\ p \in TakenPorts
    /\ listener[p] = Nobody
    /\ listener' = [listener EXCEPT ![p] = Stranger]
    /\ clash' = [u \in Targets |-> clash[u] \/ u \in Claimants(p)]
    /\ UNCHANGED <<pc, attempt, port, scanned, ssh, forward, signal, answered>>

StrangerLeaves(p) ==
    /\ listener[p] = Stranger
    /\ listener' = [listener EXCEPT ![p] = Nobody]
    /\ UNCHANGED <<pc, attempt, port, scanned, ssh,
                   forward, signal, answered, clash>>

-----------------------------------------------------------------------------
WorkerStep(t) ==
    \/ CannotStart(t)
    \/ \E p \in Ports : FreePort(t, p)
    \/ Spawn(t)
    \/ Deadline(t) \/ PollGone(t) \/ PollAlive(t) \/ Ready(t) \/ NotReady(t)
    \/ Drain(t)
    \/ CloseGone(t) \/ CloseTerminate(t) \/ Waited(t) \/ WaitTimesOut(t)
    \/ NextAttempt(t)
    \/ EndScan(t)

Next ==
    \/ \E t \in Targets : WorkerStep(t) \/ Connect(t) \/ SshBinds(t) \/ SshExits(t)
    \/ \E p \in Ports : StrangerBinds(p) \/ StrangerLeaves(p)

\* The workers run; the clock reaches every deadline, however often the loop
\* of _wait_until_ready goes round before it; SIGKILL ends a process. Nothing
\* makes ssh log in, bind, obey SIGTERM or exit by itself.
Spec ==
    /\ Init
    /\ [][Next]_vars
    /\ \A t \in Targets : /\ WF_vars(WorkerStep(t))
                          /\ SF_vars(Deadline(t))
                          /\ WF_vars(signal[t] = "KILL" /\ SshExits(t))

-----------------------------------------------------------------------------
(* What the tunnels promise                                                *)

\* When open() has failed or scan_target has returned, the ssh process it was
\* responsible for is gone, on every path: a wedged ssh is killed, and a retry
\* does not forget the process of the attempt before (Tunnel.open and close,
\* the finally clause of scan_target).
ProcessesReaped ==
    \A t \in Targets : pc[t] \in {"start", "closed", "failed"} => ~Alive(t)

\* Everything the scan of a target was told came through its own forward, as
\* long as no other process claimed the port between _free_port and close():
\* a port may be used again and again, by one tunnel after another.
OwnForward ==
    \A t \in Targets : ~clash[t] => answered[t] \subseteq {t}

\* Every worker comes to its end: the retries, the readiness loop and the wait
\* for a process that ignores SIGTERM are all bounded.
EveryScanEnds ==
    \A t \in Targets : <>(pc[t] \in {"closed", "failed"})
=============================================================================
