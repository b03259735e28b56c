--------------------------- MODULE TunnelsProofs ----------------------------
(***************************************************************************)
(* What the tunnels keep for any number of targets, ports and attempts,    *)
(* and whichever ports other processes take: open() and close() leave no   *)
(* ssh behind, and a scan hears no tunnel but its own unless its port was  *)
(* claimed by someone else meanwhile. Both rest on the same two facts: an  *)
(* ssh that runs forwards the port its tunnel holds, and only such an ssh  *)
(* listens in the name of a tunnel.                                        *)
(***************************************************************************)
EXTENDS Tunnels, TLAPS

\* A worker that holds a port is between _free_port and the end of close(); one
\* that may have a process is between Popen and the end of close().
Ported == {"ported", "probing", "polled", "draining", "closing", "waiting", "killing", "scanning", "down"}
MayRun == Ported \ {"ported", "down"}

\* Where a worker stands says whether it holds a port and an attempt is left.
Positions ==
    \A t \in Targets :
        /\ port[t] \in Ports <=> pc[t] \in Ported
        /\ pc[t] = "start" => attempt[t] < PortAttempts

\* A process runs only while close() is still to come, and on the port its
\* tunnel holds; who listens for a tunnel is a process that forwards.
Processes ==
    /\ \A t \in Targets : Alive(t) => pc[t] \in MayRun /\ forward[t] = port[t]
    /\ \A p \in Ports : listener[p] \in Targets =>
          ssh[listener[p]] = "forwarding" /\ forward[listener[p]] = p

\* Two that hold one port know of the clash, and so does one whose port a
\* stranger took.
Clashes ==
    /\ \A t, u \in Targets : t # u /\ port[t] \in Ports /\ port[t] = port[u] => clash[t]
    /\ \A t \in Targets : port[t] \in Ports /\ listener[port[t]] = Stranger => clash[t]

TunnelsInv == TypeOK /\ Positions /\ Processes /\ Clashes /\ OwnForward

-----------------------------------------------------------------------------
\* A step of the worker that opens no port and no process, and takes none back,
\* as long as it may still have a process when it goes on.
LEMMA WorkerMoves ==
    ASSUME TunnelsInv, NEW t \in Targets, NEW step \in Steps \ {"start"}, Goto(t, step),
           step \in Ported <=> pc[t] \in Ported,
           pc[t] # "start", Alive(t) => step \in MayRun,
           signal' \in [Targets -> {"none", "TERM", "KILL"}], scanned' \in [Targets -> BOOLEAN],
           UNCHANGED <<attempt, port, ssh, forward, listener, answered, clash>>
    PROVE  TunnelsInv'
<1> USE TunnelsAssumption
<1>1. pc' = [pc EXCEPT ![t] = step] /\ step \in Steps
  BY DEF Goto
<1>2. TypeOK /\ Positions /\ Processes /\ Clashes /\ OwnForward
  BY DEF TunnelsInv
<1>3. pc \in [Targets -> Steps]
  BY <1>2 DEF TypeOK
<1>4. TypeOK'
  BY <1>1, <1>2 DEF TypeOK
<1>5. Positions'
  BY <1>1, <1>2, <1>3 DEF Positions
<1>6. Processes'
  BY <1>1, <1>2, <1>3 DEF Processes, Alive
<1>7. Clashes' /\ OwnForward'
  BY <1>2 DEF Clashes, OwnForward
<1> QED BY <1>4, <1>5, <1>6, <1>7 DEF TunnelsInv

\* Tunnel.open up to the connection that finds the port answered.
LEMMA OpenKeeps ==
    ASSUME TunnelsInv, NEW t \in Targets,
           \/ CannotStart(t) \/ Spawn(t) \/ \E p \in Ports : FreePort(t, p)
    PROVE  TunnelsInv'
<1> USE TunnelsAssumption
<1>0. /\ TypeOK /\ Positions /\ Processes /\ Clashes /\ OwnForward
      /\ pc \in [Targets -> Steps] /\ port \in [Targets -> Ports \cup {NoPort}]
      /\ ssh \in [Targets -> {"none", "connecting", "forwarding", "exited"}]
      /\ forward \in [Targets -> Ports \cup {NoPort}]
  BY DEF TunnelsInv, TypeOK
<1>1. CASE CannotStart(t)
  <2>1. /\ pc[t] \in {"start", "ported"}
        /\ pc' = [pc EXCEPT ![t] = "failed"] /\ port' = [port EXCEPT ![t] = NoPort]
        /\ UNCHANGED <<attempt, scanned, ssh, forward, signal, listener, answered, clash>>
    BY <1>1 DEF CannotStart, Goto
  <2>2. ~Alive(t)
    BY <1>0, <2>1 DEF Processes, MayRun, Ported
  <2>3. TypeOK'
    BY <1>0, <2>1 DEF TypeOK, Steps
  <2>4. Positions'
    BY <1>0, <2>1 DEF Positions, Ported
  <2>5. Processes'
    BY <1>0, <2>1, <2>2 DEF Processes, Alive
  <2>6. Clashes' /\ OwnForward'
    BY <1>0, <2>1 DEF Clashes, OwnForward
  <2> QED BY <2>3, <2>4, <2>5, <2>6 DEF TunnelsInv
<1>2. CASE Spawn(t)
  <2>1. /\ pc[t] = "ported"
        /\ ssh' = [ssh EXCEPT ![t] = "connecting"] /\ forward' = [forward EXCEPT ![t] = port[t]]
        /\ signal' = [signal EXCEPT ![t] = "none"] /\ pc' = [pc EXCEPT ![t] = "probing"]
        /\ UNCHANGED <<attempt, port, scanned, listener, answered, clash>>
    BY <1>2 DEF Spawn, Goto
  <2>2. ~Alive(t) /\ port[t] \in Ports
    BY <1>0, <2>1 DEF Processes, Positions, MayRun, Ported
  <2>3. TypeOK'
    BY <1>0, <2>1, <2>2 DEF TypeOK, Steps
  <2>4. Positions'
    BY <1>0, <2>1, <2>2 DEF Positions, Ported
  <2>5. \A p \in Ports : listener[p] # t
    BY <1>0, <2>2 DEF Processes, Alive
  <2>6. Processes'
    BY <1>0, <2>1, <2>5 DEF Processes, Alive, MayRun, Ported
  <2>7. Clashes' /\ OwnForward'
    BY <1>0, <2>1 DEF Clashes, OwnForward
  <2> QED BY <2>3, <2>4, <2>6, <2>7 DEF TunnelsInv
<1>3. ASSUME NEW p \in Ports, FreePort(t, p) PROVE TunnelsInv'
  <2>1. /\ pc[t] = "start" /\ listener[p] = Nobody
        /\ port' = [port EXCEPT ![t] = p]
        /\ clash' = [u \in Targets |->
                        \/ clash[u]
                        \/ Claimants(p) \ {t} # {} /\ u \in Claimants(p) \cup {t}]
        /\ attempt' = [attempt EXCEPT ![t] = @ + 1] /\ pc' = [pc EXCEPT ![t] = "ported"]
        /\ UNCHANGED <<scanned, ssh, forward, signal, listener, answered>>
    BY <1>3 DEF FreePort, Goto
  <2>2. ~Alive(t) /\ attempt[t] < PortAttempts /\ attempt[t] \in 0..PortAttempts
    BY <1>0, <2>1 DEF Processes, Positions, MayRun, Ported, TypeOK
  <2>3. attempt' \in [Targets -> 0..PortAttempts]
    BY <1>0, <2>1, <2>2 DEF TypeOK
  <2>4. clash' \in [Targets -> BOOLEAN]
    BY <1>0, <2>1, Zenon DEF TypeOK
  <2>5. TypeOK'
    BY <1>0, <2>1, <2>3, <2>4 DEF TypeOK, Steps
  <2>6. Positions'
    BY <1>0, <2>1, <2>2 DEF Positions, Ported, TypeOK
  <2>7. Processes'
    BY <1>0, <2>1, <2>2 DEF Processes, Alive
  <2>8. \A u \in Targets : clash[u] => clash'[u]
    BY <2>1
  <2>9. \A u \in Targets : u # t /\ port[u] = p => clash'[u] /\ clash'[t]
    BY <2>1 DEF Claimants
  <2>10. Clashes'
    BY <1>0, <2>1, <2>8, <2>9 DEF Clashes
  <2>11. OwnForward'
    BY <1>0, <2>1, <2>8 DEF OwnForward
  <2> QED BY <2>5, <2>6, <2>7, <2>10, <2>11 DEF TunnelsInv
<1> QED BY <1>1, <1>2, <1>3

LEMMA WorkerKeeps ==
    ASSUME TunnelsInv, NEW t \in Targets, WorkerStep(t)
    PROVE  TunnelsInv'
<1> USE TunnelsAssumption
<1>0. /\ TypeOK /\ Positions /\ Processes /\ Clashes /\ OwnForward
      /\ pc \in [Targets -> Steps]
      /\ signal \in [Targets -> {"none", "TERM", "KILL"}] /\ scanned \in [Targets -> BOOLEAN]
      /\ port \in [Targets -> Ports \cup {NoPort}]
  BY DEF TunnelsInv, TypeOK
<1> USE DEF Steps, Ported, MayRun
<1>1. CASE Deadline(t) \/ PollGone(t) \/ PollAlive(t)
  BY <1>0, <1>1, WorkerMoves DEF Deadline, PollGone, PollAlive
<1>2. CASE Ready(t) \/ NotReady(t)
  BY <1>0, <1>2, WorkerMoves DEF Ready, NotReady
<1>3. CASE Drain(t)
  <2>1. signal' \in [Targets -> {"none", "TERM", "KILL"}]
    BY <1>0, <1>3 DEF Drain
  <2> QED BY <1>0, <1>3, <2>1, WorkerMoves DEF Drain
<1>4. CASE CloseGone(t) \/ Waited(t)
  BY <1>0, <1>4, WorkerMoves DEF CloseGone, Waited
<1>5. CASE CloseTerminate(t) \/ WaitTimesOut(t)
  <2>1. signal' \in [Targets -> {"none", "TERM", "KILL"}]
    BY <1>0, <1>5 DEF CloseTerminate, WaitTimesOut
  <2> QED BY <1>0, <1>5, <2>1, WorkerMoves DEF CloseTerminate, WaitTimesOut
<1>6. CASE EndScan(t)
  <2>1. scanned' \in [Targets -> BOOLEAN]
    BY <1>0, <1>6 DEF EndScan
  <2> QED BY <1>0, <1>6, <2>1, WorkerMoves DEF EndScan
<1>7. CASE NextAttempt(t)
  <2>1. PICK step \in {"closed", "start", "failed"} :
           /\ pc[t] = "down"
           /\ port' = [port EXCEPT ![t] = NoPort] /\ pc' = [pc EXCEPT ![t] = step]
           /\ step = "start" => attempt[t] < PortAttempts
           /\ UNCHANGED <<attempt, scanned, ssh, forward, signal, listener, answered, clash>>
    BY <1>7 DEF NextAttempt, Goto
  <2>2. ~Alive(t)
    BY <1>0, <2>1 DEF Processes
  <2>3. TypeOK'
    BY <1>0, <2>1 DEF TypeOK
  <2>4. Positions'
    BY <1>0, <2>1 DEF Positions
  <2>5. Processes'
    BY <1>0, <2>1, <2>2 DEF Processes, Alive
  <2>6. Clashes' /\ OwnForward'
    BY <1>0, <2>1 DEF Clashes, OwnForward
  <2> QED BY <2>3, <2>4, <2>5, <2>6 DEF TunnelsInv
<1> QED BY <1>1, <1>2, <1>3, <1>4, <1>5, <1>6, <1>7, OpenKeeps DEF WorkerStep

\* What listens on the port of a tunnel without a clash is the tunnel's own ssh.
LEMMA ConnectKeeps ==
    ASSUME TunnelsInv, NEW t \in Targets, Connect(t)
    PROVE  TunnelsInv'
<1> USE TunnelsAssumption
<1>0. /\ TypeOK /\ Positions /\ Processes /\ Clashes /\ OwnForward
      /\ answered \in [Targets -> SUBSET (Targets \cup {Stranger})]
      /\ port \in [Targets -> Ports \cup {NoPort}]
      /\ listener \in [Ports -> Targets \cup {Nobody, Stranger}]
  BY DEF TunnelsInv, TypeOK
<1>1. /\ pc[t] = "scanning" /\ port[t] \in Ports
      /\ answered' = [answered EXCEPT ![t] = @ \cup ({listener[port[t]]} \ {Nobody})]
      /\ UNCHANGED <<pc, attempt, port, scanned, ssh, forward, signal, listener, clash>>
  BY <1>0 DEF Connect, Positions, Ported
<1>2. ~clash[t] => listener[port[t]] \in {Nobody, t}
  <2> SUFFICES ASSUME ~clash[t], listener[port[t]] # Nobody, listener[port[t]] # t
               PROVE  FALSE
    OBVIOUS
  <2>1. listener[port[t]] \in Targets
    BY <1>0, <1>1 DEF Clashes
  <2>2. /\ Alive(listener[port[t]]) /\ forward[listener[port[t]]] = port[t]
        /\ port[listener[port[t]]] = port[t]
    BY <1>0, <1>1, <2>1 DEF Processes, Alive
  <2> QED BY <1>0, <1>1, <2>1, <2>2 DEF Clashes
<1>3. answered' \in [Targets -> SUBSET (Targets \cup {Stranger})]
  BY <1>0, <1>1
<1>4. TypeOK'
  BY <1>0, <1>1, <1>3 DEF TypeOK
<1>5. Positions' /\ Processes' /\ Clashes'
  BY <1>0, <1>1 DEF Positions, Processes, Clashes, Alive
<1>6. OwnForward'
  BY <1>0, <1>1, <1>2 DEF OwnForward
<1> QED BY <1>4, <1>5, <1>6 DEF TunnelsInv

\* The processes and the strangers: a port changes hands only through Nobody.
LEMMA MachineKeeps ==
    ASSUME TunnelsInv,
           \/ \E t \in Targets : SshBinds(t) \/ SshExits(t)
           \/ \E p \in Ports : StrangerBinds(p) \/ StrangerLeaves(p)
    PROVE  TunnelsInv'
<1> USE TunnelsAssumption
<1>0. /\ TypeOK /\ Positions /\ Processes /\ Clashes /\ OwnForward
      /\ port \in [Targets -> Ports \cup {NoPort}]
      /\ ssh \in [Targets -> {"none", "connecting", "forwarding", "exited"}]
      /\ listener \in [Ports -> Targets \cup {Nobody, Stranger}]
  BY DEF TunnelsInv, TypeOK
<1>1. ASSUME NEW t \in Targets, SshBinds(t) PROVE TunnelsInv'
  <2>1. /\ ssh[t] = "connecting" /\ listener[forward[t]] = Nobody
        /\ ssh' = [ssh EXCEPT ![t] = "forwarding"]
        /\ listener' = [listener EXCEPT ![forward[t]] = t]
        /\ UNCHANGED <<pc, attempt, port, scanned, forward, signal, answered, clash>>
    BY <1>1 DEF SshBinds
  <2>2. Alive(t) /\ forward[t] = port[t] /\ forward[t] \in Ports
    BY <1>0, <2>1 DEF Alive, Processes, Positions, MayRun
  <2>3. TypeOK' /\ Positions'
    BY <1>0, <2>1, <2>2 DEF TypeOK, Positions
  <2>4. Processes'
    BY <1>0, <2>1, <2>2 DEF Processes, Alive
  <2>5. Clashes' /\ OwnForward'
    BY <1>0, <2>1, <2>2 DEF Clashes, OwnForward
  <2> QED BY <2>3, <2>4, <2>5 DEF TunnelsInv
<1>2. ASSUME NEW t \in Targets, SshExits(t) PROVE TunnelsInv'
  <2>1. /\ ssh' = [ssh EXCEPT ![t] = "exited"]
        /\ listener' = [p \in Ports |-> IF listener[p] = t THEN Nobody ELSE listener[p]]
        /\ UNCHANGED <<pc, attempt, port, scanned, forward, signal, answered, clash>>
    BY <1>2 DEF SshExits
  <2>2. TypeOK' /\ Positions'
    BY <1>0, <2>1 DEF TypeOK, Positions
  <2>3. Processes'
    BY <1>0, <2>1 DEF Processes, Alive
  <2>4. Clashes' /\ OwnForward'
    BY <1>0, <2>1 DEF Clashes, OwnForward
  <2> QED BY <2>2, <2>3, <2>4 DEF TunnelsInv
<1>3. ASSUME NEW p \in Ports, StrangerBinds(p) PROVE TunnelsInv'
  <2>1. /\ listener' = [listener EXCEPT ![p] = Stranger]
        /\ clash' = [u \in Targets |-> clash[u] \/ u \in Claimants(p)]
        /\ UNCHANGED <<pc, attempt, port, scanned, ssh, forward, signal, answered>>
    BY <1>3 DEF StrangerBinds
  <2>2. clash' \in [Targets -> BOOLEAN]
    BY <1>0, <2>1, Zenon DEF TypeOK
  <2>3. TypeOK' /\ Positions'
    BY <1>0, <2>1, <2>2 DEF TypeOK, Positions
  <2>4. Processes'
    BY <1>0, <2>1 DEF Processes, Alive
  <2>5. \A u \in Targets : (clash[u] \/ port[u] = p) => clash'[u]
    BY <2>1 DEF Claimants
  <2>6. Clashes' /\ OwnForward'
    BY <1>0, <2>1, <2>5 DEF Clashes, OwnForward
  <2> QED BY <2>3, <2>4, <2>6 DEF TunnelsInv
<1>4. ASSUME NEW p \in Ports, StrangerLeaves(p) PROVE TunnelsInv'
  <2>1. /\ listener' = [listener EXCEPT ![p] = Nobody]
        /\ UNCHANGED <<pc, attempt, port, scanned, ssh, forward, signal, answered, clash>>
    BY <1>4 DEF StrangerLeaves
  <2>2. TypeOK' /\ Positions'
    BY <1>0, <2>1 DEF TypeOK, Positions
  <2>3. Processes'
    BY <1>0, <2>1 DEF Processes, Alive
  <2>4. Clashes' /\ OwnForward'
    BY <1>0, <2>1 DEF Clashes, OwnForward
  <2> QED BY <2>2, <2>3, <2>4 DEF TunnelsInv
<1> QED BY <1>1, <1>2, <1>3, <1>4

LEMMA TunnelsInvHolds == Spec => []TunnelsInv
<1>1. Init => TunnelsInv
  BY TunnelsAssumption
     DEF Init, TunnelsInv, TypeOK, Steps, Positions, Ported, Processes, Alive, Clashes, OwnForward
<1>2. TunnelsInv /\ [Next]_vars => TunnelsInv'
  <2> SUFFICES ASSUME TunnelsInv, [Next]_vars PROVE TunnelsInv'
    OBVIOUS
  <2>1. CASE UNCHANGED vars
    BY <2>1 DEF vars, TunnelsInv, TypeOK, Positions, Processes, Alive, Clashes, OwnForward
  <2> QED BY <2>1, WorkerKeeps, ConnectKeeps, MachineKeeps DEF Next
<1> QED BY <1>1, <1>2, PTL DEF Spec

\* Every state of the tunnels has the types TypeOK declares; in particular open()
\* tries no more than _PORT_ATTEMPTS ports (tunnel.py).
THEOREM TypeCorrect == Spec => []TypeOK
<1>1. TunnelsInv => TypeOK
  BY DEF TunnelsInv
<1> QED BY <1>1, TunnelsInvHolds, PTL

\* When open() has failed, is about to try another port, or scan_target has
\* returned, the ssh process it was responsible for is gone (Tunnel.open and
\* close, the finally clause of scan_target).
THEOREM NoProcessLeft == Spec => []ProcessesReaped
<1>1. TunnelsInv => ProcessesReaped
  BY DEF TunnelsInv, Processes, MayRun, Ported, ProcessesReaped
<1> QED BY <1>1, TunnelsInvHolds, PTL

\* Everything the scan of a target was told came through its own forward, unless
\* another process or tunnel claimed its port between _free_port and close().
THEOREM NoForeignAnswer == Spec => []OwnForward
<1>1. TunnelsInv => OwnForward
  BY DEF TunnelsInv
<1> QED BY <1>1, TunnelsInvHolds, PTL
=============================================================================
