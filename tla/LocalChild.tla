----------------------------- MODULE LocalChild -----------------------------
(***************************************************************************)
(* A child of the relay process itself: the one-shot executor of           *)
(* shelltools.py (kind "exec") and the PTY transport of sessions.py (kind  *)
(* "pty"), each with or without the monitor of SeccompMonitor.             *)
(*                                                                         *)
(* SIGTERM and SIGHUP may be ignored, so that what they do is one of the   *)
(* exits a process may choose; SIGKILL dooms the processes it reaches.     *)
(* The job either keeps the executor's output pipe open or does not.       *)
(***************************************************************************)
EXTENDS SeccompMonitor

VARIABLES
  kind,      \* "exec" or "pty"
  pc,        \* where the coroutine is
  outcome,   \* how the call or the close ended: "none" (not yet), "ok",
             \* "unspawned", "timeout" or "cancelled"
  holds,     \* a job holds, or would inherit, the executor's output pipe
  cancelled, \* the task has been cancelled
  missed     \* a signal was sent through getpgid to a leader already reaped

vars == <<monitorVars, kind, pc, outcome, holds, cancelled, missed>>
call == <<kind, pc, outcome, holds, cancelled, missed>>

\* Steps of the coroutine that leave the processes and the monitor alone.
Local == UNCHANGED <<monitorVars, kind, holds, missed>>
\* Steps that only send signals.
Signals == UNCHANGED <<armed, leader, job, status, filter, channel, supervisor, trail,
                       calls, faults, kind, holds>>
Goto(next) == pc' = next
Ends(o) ==
  outcome' = IF "unspawned" \in {o, outcome} THEN "unspawned"
             ELSE IF cancelled THEN "cancelled" ELSE o

\* os.killpg(pgid, SIGKILL) with a process group id kept from the spawn.
KillGroup == doomed' = doomed \cup Members /\ UNCHANGED missed

\* os.killpg(os.getpgid(pid), SIGKILL): nobody is reached once the leader is
\* reaped.
KillTree ==
  IF leader = "reaped"
  THEN UNCHANGED doomed /\ missed' = TRUE
  ELSE doomed' = doomed \cup Members /\ UNCHANGED missed

-----------------------------------------------------------------------------
Init ==
  /\ kind \in {"exec", "pty"}
  /\ armed \in BOOLEAN
  /\ MonitorInit
  /\ pc = "idle" /\ outcome = "none" /\ holds = (kind = "exec")
  /\ cancelled = FALSE /\ missed = FALSE

(* Spawning *)

\* arm() starts the supervisor, create_subprocess_exec the child.
Spawn ==
  /\ pc = "idle"
  /\ leader' = IF armed THEN "start" ELSE "running"
  /\ sup' = IF armed THEN "handshake" ELSE "off"
  /\ psock' = armed
  /\ Goto("spawning")
  /\ UNCHANGED <<armed, job, doomed, filter, status, channel, refused, stopping,
                 degraded, trail, calls, faults, kind, outcome, holds, cancelled, missed>>

\* The spawn itself fails; the armed supervisor is stopped.
SpawnFails ==
  /\ pc = "idle"
  /\ sup' = IF armed THEN "handshake" ELSE "off"
  /\ psock' = armed
  /\ Goto("stop") /\ Ends("unspawned")
  /\ UNCHANGED <<armed, process, filter, channel, refused, stopping, degraded, trail,
                 calls, faults, kind, holds, cancelled, missed>>

\* asyncio: cancelled before it returned the process, create_subprocess_exec
\* kills the child, not its group, and waits for it.
Spawned ==
  /\ pc = "spawning"
  /\ IF cancelled
     THEN /\ doomed' = doomed \cup (Members \cap {"leader"})
          /\ Goto("collect") /\ Ends("unspawned")
     ELSE /\ UNCHANGED <<doomed, outcome>>
          /\ Goto(IF armed THEN "wait_exec" ELSE "up")
  /\ Signals
  /\ UNCHANGED <<cancelled, missed>>

\* wait_exec: the status pipe reports an errno, is closed by the exec or by the
\* launcher's death, or five seconds pass.  Cancelled meanwhile, it first ends
\* its read.
FaultyExecFailed == UNCHANGED <<doomed, missed>>
ExecFailed == KillGroup
WaitExec ==
  /\ pc = "wait_exec"
  /\ \/ /\ leader \notin Launching /\ ~cancelled
        /\ Goto(IF status THEN "collect" ELSE "up")
        /\ outcome' = IF status THEN "unspawned" ELSE outcome
        /\ UNCHANGED <<doomed, missed>>
     \/ /\ leader \in Launching \/ cancelled
        /\ ExecFailed
        /\ Ends("unspawned")
        /\ Goto("collect")
  /\ Signals
  /\ UNCHANGED cancelled

\* await proc.wait() of a spawn that failed; a cancellation ends it.
Collect ==
  /\ pc = "collect"
  /\ leader = "reaped" \/ cancelled
  /\ Goto("stop")
  /\ Ends(outcome)
  /\ Local /\ UNCHANGED cancelled

\* The job closes the output pipe it inherited.
JobLetsGo ==
  /\ kind = "exec" /\ job = "running" /\ "job" \notin doomed /\ holds
  /\ holds' = FALSE
  /\ UNCHANGED <<monitorVars, kind, pc, outcome, cancelled, missed>>

-----------------------------------------------------------------------------
(* The executor: _drive and the finally of run_command and run_script *)

DriveDone ==
  /\ kind = "exec" /\ pc = "up" /\ ~cancelled
  /\ leader = "reaped"
  /\ holds => job # "running"
  /\ Goto("stop") /\ outcome' = "ok"
  /\ Local /\ UNCHANGED cancelled

\* Mutant: only the timeout kills.
FaultyDriveAborted ==
  /\ kind = "exec" /\ pc = "up"
  /\ IF cancelled THEN UNCHANGED <<doomed, missed>> ELSE KillTree
  /\ Ends("timeout")
  /\ Goto(IF cancelled THEN "stop" ELSE "grace")
  /\ Signals
  /\ UNCHANGED cancelled

\* The timeout, or a cancellation: the tree is killed.
DriveAborted ==
  /\ kind = "exec" /\ pc = "up"
  /\ KillTree
  /\ Ends("timeout")
  /\ Goto(IF cancelled THEN "stop" ELSE "grace")
  /\ Signals
  /\ UNCHANGED cancelled

\* Up to three more seconds for the leader.
DriveGrace ==
  /\ kind = "exec" /\ pc = "grace"
  /\ Goto("stop")
  /\ Ends(outcome)
  /\ Local /\ UNCHANGED cancelled

-----------------------------------------------------------------------------
(* LocalPtyTransport.aclose *)

\* SIGTERM
CloseBegins ==
  /\ kind = "pty" /\ pc = "up" /\ ~cancelled
  /\ Goto("term")
  /\ Local /\ UNCHANGED <<outcome, cancelled>>

\* The leader ended in time: its group is next.
LeaderEnded ==
  /\ kind = "pty" /\ pc \in {"term", "hup"} /\ ~cancelled
  /\ leader = "reaped"
  /\ Goto("reap_group")
  /\ Local /\ UNCHANGED <<outcome, cancelled>>

\* SIGHUP half a second after SIGTERM.
HangUp ==
  /\ kind = "pty" /\ pc = "term" /\ ~cancelled
  /\ Goto("hup")
  /\ Local /\ UNCHANGED <<outcome, cancelled>>

\* Mutant: the wait after SIGHUP has no deadline.
FaultyCloseKills ==
  /\ kind = "pty" /\ (pc = "term" \/ (pc = "hup" /\ cancelled))
  /\ KillTree
  /\ Ends("ok")
  /\ Goto(IF cancelled THEN "stop" ELSE "killed")
  /\ Signals
  /\ UNCHANGED cancelled

\* SIGKILL at the deadline or, cancelled, at once.  Also when the handle is
\* bound to another loop and cannot be awaited.
CloseKills ==
  /\ kind = "pty" /\ pc \in {"term", "hup"}
  /\ KillTree
  /\ Ends("ok")
  /\ Goto(IF cancelled THEN "stop" ELSE "killed")
  /\ Signals
  /\ UNCHANGED cancelled

\* Two more seconds for the leader.
CloseGrace ==
  /\ kind = "pty" /\ pc = "killed"
  /\ Goto("stop")
  /\ Ends(outcome)
  /\ Local /\ UNCHANGED cancelled

\* _reap_group: the group is empty, the deadline has passed, or a cancellation.
FaultyReapGroup == UNCHANGED <<doomed, missed>>
ReapGroup == KillGroup
ReapEnds ==
  /\ kind = "pty" /\ pc = "reap_group"
  /\ ReapGroup
  /\ Ends("ok")
  /\ Goto("stop")
  /\ Signals
  /\ UNCHANGED cancelled

-----------------------------------------------------------------------------
(* The finally: astop runs stop() in a worker it always waits for. *)

AStop ==
  /\ pc = "stop"
  /\ StopBegins
  /\ Goto("stopping")
  /\ UNCHANGED <<kind, outcome, holds, cancelled, missed>>

Ended ==
  /\ pc = "stopping" /\ stopping = "done"
  /\ Goto("ended")
  /\ Ends(outcome)
  /\ Local /\ UNCHANGED cancelled

\* The caller goes away.
Cancel ==
  /\ pc \notin {"idle", "ended"} /\ ~cancelled
  /\ kind = "pty" => pc # "up"
  /\ cancelled' = TRUE
  /\ UNCHANGED <<monitorVars, kind, pc, outcome, holds, missed>>

-----------------------------------------------------------------------------
CallNext ==
  \/ Spawned \/ WaitExec \/ Collect
  \/ DriveDone \/ DriveAborted \/ DriveGrace
  \/ LeaderEnded \/ HangUp \/ CloseKills \/ CloseGrace \/ ReapEnds
  \/ AStop \/ Ended

Next ==
  \/ Spawn \/ SpawnFails \/ JobLetsGo \/ CloseBegins \/ Cancel
  \/ CallNext
  \/ MonitorNext /\ UNCHANGED call

Spec == Init /\ [][Next]_vars

\* Threads and coroutines run, timeouts expire, the kernel delivers SIGKILL
\* and asyncio collects its child.  The target itself owes nothing.
Fairness ==
  /\ WF_vars(CallNext)
  /\ WF_vars(SupervisorNext /\ UNCHANGED call)
  /\ WF_vars((Install \/ SendAndExec) /\ UNCHANGED call)
  /\ WF_vars((Join \/ Release) /\ UNCHANGED call)
  /\ WF_vars((Adopt \/ \E p \in Processes : Serve(p)) /\ UNCHANGED call)
  /\ WF_vars(Discard /\ UNCHANGED call)
  /\ WF_vars(Reap /\ UNCHANGED call)
  /\ \A p \in Processes : WF_vars(Killed(p) /\ UNCHANGED call)
FairSpec == Spec /\ Fairness

-----------------------------------------------------------------------------
Gone(p) == ~Alive(p) \/ p \in doomed

\* The monitor observes and does not interfere (ADR 0014).  Without a fault every
\* notified call of the child goes ahead: during the call, between stop() and the
\* hand-over, and in a job that outlives it (_handshake, stop, _DetachedServer).
\* A child that loses its calls before it started leaves a trace in the health
\* of the sink (_supervise, _degrade).  When the call has ended, each notification
\* its supervisor answered has been dispatched, as one record up to the cap and
\* one overflow record beyond it (_dispatch, stop).
ObservesOnly ==
  /\ faults = 0 => broken = {}
  /\ status /\ "leader" \in broken => degraded
  /\ pc = "ended" /\ faults = 0 => count = answered
  /\ events + overflows = IF count <= Cap THEN count ELSE Cap + 1

\* However a call ends, by completion, failed spawn, timeout, cancellation at any
\* await, its leader is dead or has a SIGKILL pending; and a closed PTY leaves
\* nobody of its group behind, unless the leader was reaped in the instant before
\* SIGKILL was due (sessions.py aclose and _reap_group; ADR 0012, SC-6).
NobodyLeft ==
  pc = "ended" =>
    /\ Gone("leader")
    /\ kind = "pty" /\ ~missed /\ outcome # "unspawned" => Gone("job")

\* A call ended by its timeout has killed the command's process group, so also
\* the job that kept its output open (docs/tools.md, shelltools.py _drive).
GroupKilled ==
  kind = "exec" /\ pc = "ended" /\ outcome = "timeout" /\ holds => Gone("job")

\* A process waits for the answer to a notification only for a while, whoever
\* answers it, unless an ioctl fails; and the notify descriptor is released once
\* the call has ended and nobody carries the filter.
CallsAnswered ==
  /\ \A p \in Processes :
       (p \in blocked /\ faults = 0) ~> (p \notin blocked \/ faults > 0)
  /\ (pc = "ended" /\ Carriers = {}) ~>
       (listener \in {"none", "closed"} \/ Carriers # {})

\* A call returns, and so does the close of a session, whatever the child does,
\* also when its supervisor fails.
CallEnds ==
  /\ (kind = "exec" /\ pc # "idle") ~> (pc = "ended")
  /\ (pc \in {"term", "hup", "killed", "reap_group", "stop", "stopping"}) ~> (pc = "ended")
=============================================================================
