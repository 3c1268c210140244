--------------------------- MODULE SeccompMonitor ---------------------------
(***************************************************************************)
(* One monitored child of seccomp.py: the launcher that installs the       *)
(* filter, the supervisor thread that answers its notifications, stop(),   *)
(* and the detached server that keeps answering for processes that outlive *)
(* the call.  The child is the leader of a process group; it may leave one *)
(* job behind in that group, which inherits the filter.  A process that    *)
(* changes its group is not modelled.                                      *)
(*                                                                         *)
(* Any of the code's timeouts may expire at any time.  A fault is one of:  *)
(* a handshake that times out, an ioctl that fails, a supervisor that      *)
(* stop() cannot join, a hand-over the detached server refuses, and the    *)
(* eviction of a listener at _DETACHED_MAX.                                *)
(*                                                                         *)
(* Operators named Faulty... are plausible mistakes in the operator that   *)
(* follows; the specification does not use them.                           *)
(***************************************************************************)
EXTENDS Naturals, FiniteSets

CONSTANTS
  Cap,          \* seccomp_notify_cap
  MaxCalls,     \* bound on the notified system calls of the target and its job
  MaxFaults     \* bound on the faults of a behaviour

ASSUME MonitorAssumption == {Cap, MaxCalls, MaxFaults} \subseteq Nat /\ Cap > 0

VARIABLES
  armed,     \* a monitor was active and armed
  leader,    \* the child: "none", Launching, "running", "zombie" or "reaped"
  job,       \* its job: "none", "running" or "gone"
  doomed,    \* processes with a SIGKILL pending
  filter,    \* the leader carries the filter, and so do its descendants
  status,    \* the launcher wrote an errno to the status pipe
  listener,  \* where the only reference to the notify descriptor is
  blocked,   \* processes waiting for the answer to a notification
  broken,    \* processes that got ENOSYS for a notified call
  sup,       \* the supervisor: "off", "handshake", "drain", "dispatch", "gone"
  psock,     \* the parent's end of the socket pair is open
  refused,   \* the launcher reported that it could not install the filter
  stopping,  \* stop(): "no", "join", "release" or "done"
  count,     \* SeccompMonitor._count
  events,    \* records written through on_event
  overflows, \* records written through on_overflow
  degraded,  \* on_degraded was called
  calls,     \* notified calls made so far
  answered,  \* notifications the supervisor has answered
  faults     \* the faults so far

process == <<leader, job, doomed, status>>
channel == <<listener, blocked, broken>>
trail == <<count, events, overflows, answered>>
supervisor == <<sup, psock, refused, stopping, degraded>>
monitorVars == <<armed, process, filter, channel, supervisor, trail, calls, faults>>

Processes == {"leader", "job"}
Launching == {"start", "installed", "sent"}

Alive(p) == IF p = "leader" THEN leader \in Launching \cup {"running"} ELSE job = "running"
Members == {p \in Processes : Alive(p)}

\* Processes that carry the filter.
Carriers == IF filter THEN Members ELSE {}

Fault == faults < MaxFaults /\ faults' = faults + 1

-----------------------------------------------------------------------------
(* The kernel *)

\* The last reference to the listener goes: whoever waits for an answer gets
\* ENOSYS, and the launcher whose execve failed that way reports it and exits.
CloseListener ==
  /\ listener' = "closed"
  /\ blocked' = {}
  /\ broken' = broken \cup (blocked \ doomed)
  /\ IF "leader" \in blocked \ doomed /\ leader = "sent"
     THEN leader' = "zombie" /\ status' = TRUE
     ELSE UNCHANGED <<leader, status>>

\* An answer of CONTINUE: the call goes ahead.  The launcher's execve succeeds
\* or reports that there is no such program.
Continue(p) ==
  /\ blocked' = blocked \ {p}
  /\ IF p = "leader" /\ p \notin doomed /\ leader = "sent"
     THEN \/ leader' = "running" /\ UNCHANGED status
          \/ leader' = "zombie" /\ status' = TRUE
     ELSE UNCHANGED <<leader, status>>

\* A process of the target makes a notified call.
NotifiedCall(p) ==
  /\ p \in Carriers \ (blocked \cup doomed)
  /\ p = "leader" => leader = "running"
  /\ calls < MaxCalls
  /\ calls' = calls + 1
  /\ IF listener = "closed"
     THEN broken' = broken \cup {p} /\ UNCHANGED blocked
     ELSE blocked' = blocked \cup {p} /\ UNCHANGED broken
  /\ UNCHANGED <<armed, process, filter, listener, supervisor, trail, faults>>

\* The target starts a job that stays in its group.
Fork ==
  /\ leader = "running" /\ "leader" \notin blocked \cup doomed
  /\ job = "none"
  /\ job' = "running"
  /\ UNCHANGED <<armed, leader, doomed, status, filter, channel, supervisor, trail,
                 calls, faults>>

\* A process dies of the signal that is pending, or ends by itself.
Dies(p) ==
  /\ Alive(p)
  /\ blocked' = blocked \ {p}
  /\ doomed' = doomed \ {p}
  /\ IF p = "leader"
     THEN leader' = "zombie" /\ UNCHANGED job
     ELSE job' = "gone" /\ UNCHANGED leader
  /\ listener' = IF p = "leader" /\ listener = "launcher" THEN "closed" ELSE listener
  /\ UNCHANGED <<armed, status, filter, broken, supervisor, trail, calls, faults>>
Killed(p) == p \in doomed /\ Dies(p)
Exits(p) ==
  /\ p \notin blocked
  /\ p = "leader" => leader = "running"
  /\ Dies(p)

\* asyncio's child watcher collects the leader.
Reap ==
  /\ leader = "zombie"
  /\ leader' = "reaped"
  /\ UNCHANGED <<armed, job, doomed, status, filter, channel, supervisor, trail,
                 calls, faults>>

-----------------------------------------------------------------------------
(* The launcher *)

\* _install_in_child: the filter is installed or refused.
Install ==
  /\ leader = "start" /\ "leader" \notin doomed
  /\ leader' = "installed"
  /\ \/ filter' = TRUE /\ listener' = "launcher" /\ UNCHANGED refused
     \/ /\ UNCHANGED <<filter, listener>>
        /\ refused' = psock      \* HANDSHAKE_FAIL, if anyone reads it
  /\ UNCHANGED <<armed, job, doomed, status, blocked, broken, sup, psock, stopping,
                 degraded, trail, calls, faults>>

\* It sends the listener, closes its own descriptor and calls execvpe.  A send
\* to a closed socket fails unnoticed: the listener is gone with it.
SendAndExec ==
  /\ leader = "installed" /\ "leader" \notin doomed
  /\ IF ~filter
     THEN /\ \/ leader' = "running" /\ UNCHANGED status
             \/ leader' = "zombie" /\ status' = TRUE
          /\ UNCHANGED channel
     ELSE IF psock
     THEN /\ leader' = "sent"
          /\ listener' = "wire"
          /\ blocked' = blocked \cup {"leader"}
          /\ UNCHANGED <<status, broken>>
     ELSE /\ leader' = "zombie" /\ status' = TRUE
          /\ listener' = "closed"
          /\ broken' = broken \cup {"leader"}
          /\ UNCHANGED blocked
  /\ UNCHANGED <<armed, job, doomed, filter, supervisor, trail, calls, faults>>

-----------------------------------------------------------------------------
(* The supervisor thread *)

Unsupervised == UNCHANGED <<armed, job, doomed, filter, refused, stopping, calls>>

\* _handshake receives the listener; a stop request is looked at first.
HandshakeOk ==
  /\ sup = "handshake" /\ stopping = "no"
  /\ listener = "wire"
  /\ listener' = "supervisor"
  /\ sup' = "drain"
  /\ psock' = FALSE
  /\ Unsupervised
  /\ UNCHANGED <<leader, status, blocked, broken, degraded, trail, faults>>

\* Stopped, refused or timed out: the socket is closed, a listener in it too,
\* and the gap is reported.
FaultyReport == UNCHANGED degraded
Report == degraded' = TRUE
HandshakeFails ==
  /\ sup = "handshake"
  /\ \/ stopping # "no" /\ UNCHANGED faults
     \/ refused /\ UNCHANGED faults
     \/ stopping = "no" /\ ~refused /\ listener # "wire" /\ Fault
  /\ sup' = "gone"
  /\ psock' = FALSE
  /\ Report
  /\ IF listener = "wire" THEN CloseListener ELSE UNCHANGED <<channel, leader, status>>
  /\ Unsupervised
  /\ UNCHANGED trail

\* _receive_and_continue: the answer comes before the record.
Answer(p) ==
  /\ sup = "drain" /\ stopping = "no"
  /\ listener = "supervisor" /\ p \in blocked
  /\ Continue(p)
  /\ answered' = answered + 1
  /\ sup' = "dispatch"
  /\ Unsupervised
  /\ UNCHANGED <<listener, broken, psock, degraded, count, events, overflows, faults>>

FaultyDispatched ==
  /\ count' = count + 1
  /\ events' = IF count' < Cap THEN events + 1 ELSE events
  /\ overflows' = IF count' = Cap + 1 THEN overflows + 1 ELSE overflows

\* _dispatch: a record up to the cap, one overflow record, then silence.
Dispatched ==
  /\ count' = count + 1
  /\ events' = IF count' <= Cap THEN events + 1 ELSE events
  /\ overflows' = IF count' = Cap + 1 THEN overflows + 1 ELSE overflows
Dispatch ==
  /\ sup = "dispatch"
  /\ Dispatched
  /\ sup' = "drain"
  /\ Unsupervised
  /\ UNCHANGED <<channel, leader, status, psock, degraded, answered, faults>>

\* Mutant: draining ends with the overflow.
FaultyDrainEnds ==
  /\ sup = "drain"
  /\ stopping # "no" \/ Carriers = {} \/ listener # "supervisor" \/ count > Cap
  /\ UNCHANGED faults
  /\ sup' = "gone"
  /\ Unsupervised
  /\ UNCHANGED <<channel, leader, status, psock, degraded, trail>>

\* _drain ends: stop() asked for it, nobody carries the filter, stop() closed
\* the descriptor under the thread, or an ioctl failed.  An ioctl error is not
\* reported.
DrainEnds ==
  /\ sup = "drain"
  /\ \/ (stopping # "no" \/ Carriers = {} \/ listener # "supervisor") /\ UNCHANGED faults
     \/ stopping = "no" /\ blocked # {} /\ Fault
  /\ sup' = "gone"
  /\ Unsupervised
  /\ UNCHANGED <<channel, leader, status, psock, degraded, trail>>

-----------------------------------------------------------------------------
(* stop() *)

StopBegins ==
  /\ stopping = "no"
  /\ stopping' = "join"
  /\ UNCHANGED <<armed, process, filter, channel, sup, psock, refused, degraded,
                 trail, calls, faults>>

\* join returns, or gives up on a thread that is still writing a record.
Join ==
  /\ stopping = "join"
  /\ \/ sup \in {"off", "gone"} /\ UNCHANGED faults
     \/ sup = "dispatch" /\ Fault
  /\ stopping' = "release"
  /\ UNCHANGED <<armed, process, filter, channel, sup, psock, refused, degraded,
                 trail, calls>>

FaultyHandsOver == sup = "gone" /\ blocked # {}

\* The listener is handed over when the thread is dead and _hung_up is false.
HandsOver == sup = "gone" /\ Carriers # {}
Release ==
  /\ stopping = "release"
  /\ stopping' = "done"
  /\ psock' = FALSE
  /\ \/ /\ listener = "supervisor" /\ HandsOver
        /\ listener' = "pending"
        /\ UNCHANGED <<blocked, broken, leader, status, faults>>
     \/ /\ listener = "supervisor" /\ ~HandsOver
        /\ CloseListener
        /\ UNCHANGED faults
     \/ /\ listener = "supervisor" /\ HandsOver   \* adopt returned False
        /\ Fault
        /\ CloseListener
     \/ /\ listener # "supervisor"
        /\ UNCHANGED <<channel, leader, status, faults>>
  /\ UNCHANGED <<armed, job, doomed, filter, sup, refused, degraded, trail, calls>>

-----------------------------------------------------------------------------
(* The detached server *)

Detached == UNCHANGED <<armed, job, doomed, filter, supervisor, trail, calls>>

Adopt ==
  /\ listener = "pending"
  /\ listener' = "detached"
  /\ Detached
  /\ UNCHANGED <<leader, status, blocked, broken, faults>>

\* A pending notification is answered before a hang-up is honoured.
Serve(p) ==
  /\ listener = "detached"
  /\ p \in blocked
  /\ Continue(p)
  /\ Detached
  /\ UNCHANGED <<listener, broken, faults>>

\* Mutant: only POLLIN is looked at.
FaultyHungUp == FALSE
HungUp == Carriers = {}
\* The last carrier exited.
Discard ==
  /\ listener = "detached" /\ HungUp
  /\ CloseListener
  /\ Detached
  /\ UNCHANGED faults

\* Newer listeners filled the server, or an ioctl failed.
Evict ==
  /\ listener = "detached"
  /\ Fault
  /\ CloseListener
  /\ Detached

-----------------------------------------------------------------------------
MonitorInit ==
  /\ leader = "none" /\ job = "none" /\ doomed = {}
  /\ filter = FALSE /\ status = FALSE
  /\ listener = "none" /\ blocked = {} /\ broken = {}
  /\ sup = "off" /\ psock = FALSE /\ refused = FALSE /\ stopping = "no"
  /\ count = 0 /\ events = 0 /\ overflows = 0 /\ degraded = FALSE
  /\ calls = 0 /\ answered = 0 /\ faults = 0

KernelNext ==
  \/ Fork \/ Reap
  \/ \E p \in Processes : NotifiedCall(p) \/ Killed(p) \/ Exits(p)

SupervisorNext ==
  \/ HandshakeOk \/ HandshakeFails \/ Dispatch \/ DrainEnds
  \/ \E p \in Processes : Answer(p)

MonitorNext ==
  \/ KernelNext \/ SupervisorNext
  \/ Install \/ SendAndExec
  \/ Join \/ Release
  \/ Adopt \/ Discard \/ Evict
  \/ \E p \in Processes : Serve(p)

=============================================================================
