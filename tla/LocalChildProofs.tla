-------------------------- MODULE LocalChildProofs --------------------------
(***************************************************************************)
(* What a local child and its monitor promise, proved for every cap and    *)
(* for any number of notified calls and faults.                            *)
(*                                                                         *)
(* Who is left when a call has ended is decided earlier, at the kill or    *)
(* the wait for the leader: a doomed or dead leader starts no job, so      *)
(* what is gone then stays gone (Ending).  That the monitor does not       *)
(* interfere rests on where the notify descriptor is at each stage of the  *)
(* launcher and of the supervisor (Stage): a descriptor goes without a     *)
(* fault only when all who carry the filter are doomed.                    *)
(***************************************************************************)
EXTENDS LocalChild, TLAPS

-----------------------------------------------------------------------------
(* The invariant.                                                          *)

Places == {"idle", "spawning", "wait_exec", "collect", "up", "grace", "term", "hup",
           "killed", "reap_group", "stop", "stopping", "ended"}

TypedProcesses ==
  /\ leader \in Launching \cup {"none", "running", "zombie", "reaped"}
  /\ job \in {"none", "running", "gone"}
TypedSets == doomed \subseteq Processes /\ blocked \subseteq Processes /\ broken \subseteq Processes
TypedMonitor ==
  /\ listener \in {"none", "launcher", "wire", "supervisor", "pending", "detached", "closed"}
  /\ sup \in {"off", "handshake", "drain", "dispatch", "gone"}
  /\ stopping \in {"no", "join", "release", "done"}
TypedFlags ==
  /\ armed \in BOOLEAN /\ filter \in BOOLEAN /\ status \in BOOLEAN /\ psock \in BOOLEAN
  /\ refused \in BOOLEAN /\ degraded \in BOOLEAN /\ cancelled \in BOOLEAN /\ missed \in BOOLEAN
TypedTrail ==
  count \in Nat /\ events \in Nat /\ overflows \in Nat /\ answered \in Nat /\ faults \in Nat
TypedCall == kind \in {"exec", "pty"} /\ pc \in Places

Typed == TypedProcesses /\ TypedSets /\ TypedMonitor /\ TypedFlags /\ TypedTrail /\ TypedCall

\* The processes and the filter.
Family ==
  /\ pc = "idle" => leader = "none" /\ sup = "off"
  /\ leader \in Launching \cup {"none"} => job = "none"
  /\ leader \in {"none", "start"} => ~filter
  /\ leader = "sent" => filter
  /\ status => leader \in {"zombie", "reaped"}
  /\ refused => ~filter /\ leader \notin {"none", "start"}
  /\ \A p \in blocked : Alive(p) /\ filter
  /\ leader = "installed" => blocked = {}
  /\ "leader" \in broken => leader \notin Launching \cup {"none"}

\* Where the descriptor is.
Stage ==
  /\ filter <=> listener # "none"
  /\ listener = "launcher" <=> leader = "installed" /\ filter
  /\ listener = "wire" => job = "none" /\ leader # "running" /\ sup = "handshake"
  /\ listener \in {"pending", "detached"} => stopping = "done"
  /\ sup = "off" => listener = "none"
  /\ sup = "handshake" <=> psock
  /\ sup = "handshake" => stopping \in {"no", "join"}
  /\ leader \in {"start", "installed"} => sup = "handshake" \/ (sup = "gone" /\ degraded)

\* The part of the call that is over: the leader is gone, the job of a closed
\* PTY too, and nothing comes back.
Ending ==
  /\ stopping # "no" <=> pc \in {"stopping", "ended"}
  /\ pc = "ended" => stopping = "done"
  /\ pc = "collect" => outcome = "unspawned"
  /\ pc = "reap_group" => leader = "reaped"
  /\ pc \in {"collect", "grace", "killed", "reap_group", "stop", "stopping", "ended"} =>
       Gone("leader")
  /\ pc \in {"killed", "stop", "stopping", "ended"} /\ kind = "pty" /\ ~missed /\
       outcome # "unspawned" => Gone("job")

\* What the supervisor has written of what it has answered.
Trail ==
  /\ answered = IF sup = "dispatch" THEN count + 1 ELSE count
  /\ events = IF count <= Cap THEN count ELSE Cap
  /\ overflows = IF count <= Cap THEN 0 ELSE 1

\* As long as there was no fault.
Sound ==
  faults = 0 =>
    /\ broken = {}
    /\ listener = "closed" => Carriers \subseteq doomed
    /\ stopping \in {"release", "done"} => sup \in {"off", "gone"}
    /\ leader \in {"start", "installed"} /\ "leader" \notin doomed /\ ~refused =>
         sup = "handshake"

\* A launcher that lost its calls has been reported.
Reported == status /\ "leader" \in broken => degraded

Inv == Typed /\ Family /\ Stage /\ Ending /\ Trail /\ Sound /\ Reported

-----------------------------------------------------------------------------
(* The monitor's steps.                                                    *)

\* Each step of the monitor keeps the variables in their types.
LEMMA MonitorTyped ==
  ASSUME Typed, MonitorNext, UNCHANGED call
  PROVE  Typed'
<1> USE DEF Typed, call, process, channel, trail, supervisor, Unsupervised, Detached
<1>1. UNCHANGED call /\ TypedCall'
  BY DEF TypedCall, Places
<1>2. TypedProcesses'
  BY DEF TypedProcesses, Launching, MonitorNext, KernelNext, SupervisorNext, Fork, Reap, Killed,
     Exits, Dies, NotifiedCall, Install, SendAndExec, HandshakeOk, HandshakeFails, Dispatch,
     DrainEnds, Answer, Join, Release, Adopt, Discard, Evict, Serve, CloseListener, Continue
<1>3. TypedSets'
  BY DEF TypedSets, Processes, MonitorNext, KernelNext, SupervisorNext, Fork, Reap, Killed,
     Exits, Dies, NotifiedCall, Install, SendAndExec, HandshakeOk, HandshakeFails, Dispatch,
     DrainEnds, Answer, Join, Release, Adopt, Discard, Evict, Serve, CloseListener, Continue
<1>4. TypedMonitor'
  BY DEF TypedMonitor, MonitorNext, KernelNext, SupervisorNext, Fork, Reap, Killed,
     Exits, Dies, NotifiedCall, Install, SendAndExec, HandshakeOk, HandshakeFails, Dispatch,
     DrainEnds, Answer, Join, Release, Adopt, Discard, Evict, Serve, CloseListener
<1>5. TypedFlags'
  <2> SUFFICES /\ status' \in BOOLEAN /\ psock' \in BOOLEAN /\ degraded' \in BOOLEAN
               /\ refused' \in BOOLEAN /\ filter' \in BOOLEAN /\ armed' \in BOOLEAN
    BY DEF TypedFlags
  <2>1. CASE KernelNext
    BY <2>1 DEF TypedFlags, KernelNext, Fork, Reap, Killed, Exits, Dies, NotifiedCall
  <2>2. CASE SupervisorNext
    BY <2>2 DEF TypedFlags, SupervisorNext, HandshakeOk, HandshakeFails, Dispatch, DrainEnds,
       Answer, CloseListener, Continue, Report
  <2>3. CASE Install \/ SendAndExec
    BY <2>3 DEF TypedFlags, Install, SendAndExec, Continue
  <2>4. CASE \/ Join \/ Release \/ Adopt \/ Discard \/ Evict
             \/ \E p \in Processes : Serve(p)
    BY <2>4 DEF TypedFlags, Join, Release, Adopt, Discard, Evict, Serve, CloseListener,
       Continue, Report
  <2>5. QED
    BY <2>1, <2>2, <2>3, <2>4 DEF MonitorNext
<1>6. TypedTrail'
  BY DEF TypedTrail, MonitorNext, KernelNext, SupervisorNext, Fork, Reap, Killed,
     Exits, Dies, NotifiedCall, Install, SendAndExec, HandshakeOk, HandshakeFails, Dispatch,
     Dispatched, DrainEnds, Answer, Join, Release, Adopt, Discard, Evict, Serve, Fault
<1>7. QED
  BY <1>1, <1>2, <1>3, <1>4, <1>5, <1>6

\* The launcher without a filter becomes the program, or reports that it could not.
LEMMA UnfilteredExec ==
  ASSUME SendAndExec, ~filter
  PROVE  /\ leader' \in {"running", "zombie"} /\ UNCHANGED channel
         /\ leader' = "running" => status' = status
         /\ leader' = "zombie" => status'
<1>1. leader' \in {"running", "zombie"} /\ UNCHANGED channel
  BY DEF SendAndExec
<1>2. leader' = "running" => status' = status
  BY DEF SendAndExec
<1>3. leader' = "zombie" => status'
  BY DEF SendAndExec
<1>4. QED
  BY <1>1, <1>2, <1>3

\* The processes, the supervisor, stop() and the detached server keep the
\* invariant, wherever the coroutine is.
LEMMA MonitorStep ==
  ASSUME Inv, MonitorNext, UNCHANGED call
  PROVE  Inv'
<1> USE DEF Inv, Typed, TypedProcesses, TypedSets, TypedMonitor, TypedFlags, TypedTrail, TypedCall,
        Family, Stage, Ending, Trail, Sound, Reported, call, process, channel, trail,
        supervisor, Unsupervised, Detached, Alive, Members, Carriers, Gone, Processes, Launching, Places
<1> USE MonitorAssumption
<1>0. Typed'
  BY MonitorTyped
<1>1. ASSUME Fork
      PROVE  Inv'
  BY <1>1 DEF Fork
<1>2. ASSUME Reap
      PROVE  Inv'
  BY <1>2 DEF Reap
<1>3. ASSUME NEW p \in Processes, NotifiedCall(p)
      PROVE  Inv'
  <2>1. Family'
    BY <1>3 DEF NotifiedCall
  <2>2. Stage'
    BY <1>3 DEF NotifiedCall
  <2>3. Ending'
    BY <1>3 DEF NotifiedCall
  <2>4. Trail'
    BY <1>3 DEF NotifiedCall
  <2>5. Sound'
    BY <1>3 DEF NotifiedCall
  <2>6. Reported'
    BY <1>3 DEF NotifiedCall
  <2>7. QED
    BY <1>0, <2>1, <2>2, <2>3, <2>4, <2>5, <2>6 DEF Inv
<1>4. ASSUME NEW p \in Processes, Dies(p)
      PROVE  Inv'
  BY <1>4 DEF Dies
<1>5. ASSUME Install
      PROVE  Inv'
  <2>1. Family'
    BY <1>5 DEF Install
  <2>2. Stage'
    BY <1>5 DEF Install
  <2>3. Ending'
    BY <1>5 DEF Install
  <2>4. Trail'
    BY <1>5 DEF Install
  <2>5. Sound'
    BY <1>5 DEF Install
  <2>6. Reported'
    BY <1>5 DEF Install
  <2>7. QED
    BY <1>0, <2>1, <2>2, <2>3, <2>4, <2>5, <2>6 DEF Inv
<1>6. ASSUME SendAndExec
      PROVE  Inv'
  <2>1. Family'
    <3>1. /\ leader = "installed" /\ "leader" \notin doomed /\ job = "none" /\ "leader" \notin broken
          /\ UNCHANGED <<armed, job, doomed, filter, supervisor, trail, calls, faults>>
      BY <1>6 DEF SendAndExec
    <3>2. CASE ~filter
      <4>1. /\ leader' \in {"running", "zombie"} /\ UNCHANGED channel
            /\ leader' = "running" => status' = status
        BY <1>6, <3>2, UnfilteredExec
      <4>2. QED
        BY <3>1, <3>2, <4>1
    <3>3. CASE filter /\ psock
      <4>1. leader' = "sent" /\ ~status' /\ blocked' = blocked \cup {"leader"} /\ broken' = broken
        BY <1>6, <3>1, <3>3 DEF SendAndExec
      <4>2. QED
        BY <3>1, <3>3, <4>1
    <3>4. CASE filter /\ ~psock
      <4>1. leader' = "zombie" /\ status' /\ UNCHANGED blocked
        BY <1>6, <3>1, <3>4 DEF SendAndExec
      <4>2. QED
        BY <3>1, <3>4, <4>1
    <3>5. QED
      BY <3>2, <3>3, <3>4
  <2>2. Stage'
    BY <1>6 DEF SendAndExec
  <2>3. Ending'
    BY <1>6 DEF SendAndExec
  <2>4. Trail'
    BY <1>6 DEF SendAndExec
  <2>5. Sound'
    BY <1>6 DEF SendAndExec
  <2>6. Reported'
    BY <1>6 DEF SendAndExec
  <2>7. QED
    BY <1>0, <2>1, <2>2, <2>3, <2>4, <2>5, <2>6 DEF Inv
<1>7. ASSUME HandshakeOk
      PROVE  Inv'
  <2>1. Family'
    BY <1>7 DEF HandshakeOk
  <2>2. Stage'
    BY <1>7 DEF HandshakeOk
  <2>3. Ending'
    BY <1>7 DEF HandshakeOk
  <2>4. Trail'
    BY <1>7 DEF HandshakeOk
  <2>5. Sound'
    BY <1>7 DEF HandshakeOk
  <2>6. Reported'
    BY <1>7 DEF HandshakeOk
  <2>7. QED
    BY <1>0, <2>1, <2>2, <2>3, <2>4, <2>5, <2>6 DEF Inv
<1>8. ASSUME HandshakeFails
      PROVE  Inv'
  <2>1. Family'
    BY <1>8 DEF HandshakeFails, CloseListener, Fault, Report
  <2>2. Stage'
    BY <1>8 DEF HandshakeFails, CloseListener, Fault, Report
  <2>3. Ending'
    BY <1>8 DEF HandshakeFails, CloseListener, Fault, Report
  <2>4. Trail'
    BY <1>8 DEF HandshakeFails, CloseListener, Fault, Report
  <2>5. Sound'
    <3>1. CASE faults' # faults
      BY <1>8, <3>1 DEF HandshakeFails, Fault
    <3>2. CASE listener # "wire" /\ faults' = faults
      <4>1. /\ UNCHANGED <<channel, leader, status, armed, job, doomed, filter, refused, stopping>>
            /\ stopping # "no" \/ refused
        BY <1>8, <3>2 DEF HandshakeFails, Fault
      <4>2. stopping # "no" => Gone("leader") /\ stopping \in {"join"}
        BY <1>8 DEF HandshakeFails
      <4>3. QED
        BY <3>2, <4>1, <4>2
    <3>3. CASE listener = "wire" /\ faults' = faults
      <4>1. stopping # "no" /\ Gone("leader") /\ job = "none" /\ filter
        BY <1>8, <3>3 DEF HandshakeFails, Fault
      <4>2. blocked \ doomed = {}
        BY <4>1
      <4>3. broken' = broken /\ UNCHANGED <<leader, job, doomed, filter, refused, stopping>>
        BY <1>8, <3>3, <4>2 DEF HandshakeFails, CloseListener
      <4>4. sup' = "gone" /\ listener' = "closed" /\ leader # "start"
        BY <1>8, <3>3, <4>1 DEF HandshakeFails, CloseListener
      <4>5. QED
        BY <3>3, <4>1, <4>3, <4>4
    <3>4. QED
      BY <3>1, <3>2, <3>3
  <2>6. Reported'
    BY <1>8 DEF HandshakeFails, CloseListener, Fault, Report
  <2>7. QED
    BY <1>0, <2>1, <2>2, <2>3, <2>4, <2>5, <2>6 DEF Inv
<1>9. ASSUME NEW p \in Processes, Answer(p)
      PROVE  Inv'
  <2>1. Family'
    BY <1>9 DEF Answer, Continue
  <2>2. Stage'
    BY <1>9 DEF Answer, Continue
  <2>3. Ending'
    BY <1>9 DEF Answer, Continue
  <2>4. Trail'
    BY <1>9 DEF Answer, Continue
  <2>5. Sound'
    BY <1>9 DEF Answer, Continue
  <2>6. Reported'
    BY <1>9 DEF Answer, Continue
  <2>7. QED
    BY <1>0, <2>1, <2>2, <2>3, <2>4, <2>5, <2>6 DEF Inv
<1>10. ASSUME Dispatch
      PROVE  Inv'
  BY <1>10 DEF Dispatch, Dispatched
<1>11. ASSUME DrainEnds
      PROVE  Inv'
  BY <1>11 DEF DrainEnds, Fault
<1>12. ASSUME Join
      PROVE  Inv'
  BY <1>12 DEF Join, Fault
<1>13. ASSUME Release
      PROVE  Inv'
  <2>1. /\ stopping = "release" /\ stopping' = "done" /\ psock' = FALSE
        /\ UNCHANGED <<armed, job, doomed, filter, sup, refused, degraded, trail, calls>>
        /\ Gone("leader") /\ sup # "handshake"
    BY <1>13 DEF Release
  <2>2. CASE listener' = "pending" /\ listener = "supervisor" /\ UNCHANGED <<blocked, broken, leader, status, faults>>
    BY <1>0, <2>1, <2>2
  <2>3. CASE listener # "supervisor" /\ UNCHANGED <<channel, leader, status, faults>>
    BY <1>0, <2>1, <2>3
  <2>4. CASE listener = "supervisor" /\ CloseListener
    <3>1. UNCHANGED <<leader, status>> /\ listener' = "closed" /\ blocked' = {}
      BY <2>1, <2>4 DEF CloseListener
    <3>2. "leader" \in broken' => "leader" \in broken
      BY <2>1, <2>4 DEF CloseListener
    <3>3. faults' = 0 => faults = 0 /\ Carriers = {}
      <4>1. HandsOver \/ faults' = faults => faults' = faults + 1 \/ ~HandsOver
        BY <1>13, <2>4 DEF Release, Fault, CloseListener
      <4>2. faults' \in {faults, faults + 1}
        BY <1>13 DEF Release, Fault
      <4>3. sup = "gone" /\ ~HandsOver => Carriers = {}
        BY DEF HandsOver
      <4>4. QED
        BY <2>1, <2>4, <4>1, <4>2, <4>3
    <3>4. faults' = 0 => broken' = broken
      BY <2>4, <3>3 DEF CloseListener
    <3>5. Family' /\ Stage'
      BY <2>1, <2>4, <3>1, <3>2
    <3>6. Ending' /\ Trail' /\ Reported'
      BY <2>1, <3>1, <3>2
    <3>7. Sound'
      BY <2>1, <3>1, <3>3, <3>4
    <3>8. QED
      BY <1>0, <3>5, <3>6, <3>7
  <2>5. QED
    BY <1>13, <2>2, <2>3, <2>4 DEF Release
<1>14. ASSUME Adopt
      PROVE  Inv'
  BY <1>14 DEF Adopt
<1>15. ASSUME NEW p \in Processes, Serve(p)
      PROVE  Inv'
  BY <1>15 DEF Serve, Continue
<1>16. ASSUME Discard
      PROVE  Inv'
  BY <1>16 DEF Discard, CloseListener, HungUp
<1>17. ASSUME Evict
      PROVE  Inv'
  BY <1>17 DEF Evict, CloseListener, Fault
<1>18. QED
  BY <1>1, <1>2, <1>3, <1>4, <1>5, <1>6, <1>7, <1>8, <1>9, <1>10, <1>11, <1>12, <1>13, <1>14,
     <1>15, <1>16, <1>17 DEF MonitorNext, KernelNext, SupervisorNext, Killed, Exits

-----------------------------------------------------------------------------
(* The coroutine's steps.                                                  *)

\* A step that only sends SIGKILL, or does nothing to the processes and the
\* monitor, keeps all that is said of them.
LEMMA SignalsOnly ==
  ASSUME Inv, Signals, doomed \subseteq doomed', doomed' \subseteq Processes, pc' # "idle"
  PROVE  Family' /\ Stage' /\ Trail' /\ Sound' /\ Reported'
<1>1. /\ UNCHANGED <<armed, leader, job, status, filter, listener, blocked, broken, sup, psock,
                     refused, stopping, degraded, count, events, overflows, answered, calls, faults>>
      /\ doomed \subseteq doomed'
  BY DEF Signals, channel, supervisor, trail
<1>2. Family'
  BY <1>1 DEF Inv, Family, Alive
<1>3. Stage'
  BY <1>1 DEF Inv, Stage
<1>4. Trail' /\ Reported'
  BY <1>1 DEF Inv, Trail, Reported
<1>5. Sound'
  BY <1>1 DEF Inv, Sound, Carriers, Members, Alive
<1>6. QED
  BY <1>2, <1>3, <1>4, <1>5

\* The ways a call ends keep an unspawned outcome.
LEMMA EndsFacts ==
  ASSUME NEW o, Ends(o)
  PROVE  "unspawned" \in {o, outcome} => outcome' = "unspawned"
  BY DEF Ends

\* SIGKILL to the group leaves nobody in it, to the tree nobody unless the leader
\* was reaped.
LEMMA KillFacts ==
  ASSUME Typed, KillGroup \/ KillTree, UNCHANGED <<leader, job>>
  PROVE  /\ doomed \subseteq doomed' /\ doomed' \subseteq Processes /\ missed' \in BOOLEAN
         /\ Gone("leader")'
         /\ KillGroup \/ ~missed' => Gone("job")'
         /\ ~missed' => ~missed
<1> USE DEF Typed, TypedProcesses, TypedSets, TypedFlags, Processes, Launching
<1>1. CASE doomed' = doomed \cup Members /\ missed' = missed
  <2>1. \A p \in Processes : Alive(p) => p \in doomed'
    BY <1>1 DEF Members
  <2>2. Alive("leader")' = Alive("leader") /\ Alive("job")' = Alive("job")
    BY DEF Alive
  <2>3. Gone("leader")' /\ Gone("job")'
    BY <2>1, <2>2 DEF Gone
  <2>4. doomed \subseteq doomed' /\ doomed' \subseteq Processes
    BY <1>1 DEF Members
  <2>5. QED
    BY <1>1, <2>3, <2>4
<1>2. CASE leader = "reaped" /\ doomed' = doomed /\ missed' = TRUE /\ ~KillGroup
  <2>1. ~Alive("leader")'
    BY <1>2 DEF Alive
  <2>2. QED
    BY <1>2, <2>1 DEF Gone
<1>3. QED
  BY <1>1, <1>2 DEF KillGroup, KillTree

\* Of the variables of the coroutine a step writes only what is in their types.
LEMMA CallTyped ==
  ASSUME Typed, \/ Spawn \/ SpawnFails \/ JobLetsGo \/ CloseBegins \/ Cancel \/ CallNext
  PROVE  Typed'
<1> USE DEF Typed, Local, Signals, Goto, monitorVars, process, channel, supervisor, trail
<1>1. TypedProcesses'
  BY DEF TypedProcesses, Launching, Spawn, SpawnFails, JobLetsGo, CloseBegins, Cancel, CallNext,
     Spawned, WaitExec, Collect, DriveDone, DriveAborted, DriveGrace, LeaderEnded, HangUp, CloseKills,
     CloseGrace, ReapEnds, AStop, StopBegins, Ended
<1>2. TypedSets'
  BY DEF TypedSets, Members, Spawn, SpawnFails, JobLetsGo, CloseBegins, Cancel, CallNext,
     Spawned, WaitExec, Collect, DriveDone, DriveAborted, DriveGrace, LeaderEnded, HangUp, CloseKills,
     CloseGrace, ReapEnds, AStop, StopBegins, Ended, ExecFailed, ReapGroup, KillGroup, KillTree
<1>3. TypedMonitor'
  BY DEF TypedMonitor, Spawn, SpawnFails, JobLetsGo, CloseBegins, Cancel, CallNext,
     Spawned, WaitExec, Collect, DriveDone, DriveAborted, DriveGrace, LeaderEnded, HangUp, CloseKills,
     CloseGrace, ReapEnds, AStop, StopBegins, Ended
<1>4. TypedFlags'
  <2>1. /\ armed' \in BOOLEAN /\ filter' \in BOOLEAN /\ status' \in BOOLEAN
        /\ psock' \in BOOLEAN /\ refused' \in BOOLEAN /\ degraded' \in BOOLEAN
    BY DEF TypedFlags, Spawn, SpawnFails, JobLetsGo, CloseBegins, Cancel, CallNext,
       Spawned, WaitExec, Collect, DriveDone, DriveAborted, DriveGrace, LeaderEnded, HangUp, CloseKills,
       CloseGrace, ReapEnds, AStop, StopBegins, Ended
  <2>2. cancelled' \in BOOLEAN
    BY DEF TypedFlags, Spawn, SpawnFails, JobLetsGo, CloseBegins, Cancel, CallNext,
       Spawned, WaitExec, Collect, DriveDone, DriveAborted, DriveGrace, LeaderEnded, HangUp, CloseKills,
       CloseGrace, ReapEnds, AStop, Ended
  <2>3. missed' \in BOOLEAN
    BY DEF TypedFlags, Spawn, SpawnFails, JobLetsGo, CloseBegins, Cancel, CallNext,
       Spawned, WaitExec, Collect, DriveDone, DriveAborted, DriveGrace, LeaderEnded, HangUp, CloseKills,
       CloseGrace, ReapEnds, AStop, Ended, ExecFailed, ReapGroup, KillGroup, KillTree
  <2>4. QED
    BY <2>1, <2>2, <2>3 DEF TypedFlags
<1>5. TypedTrail'
  BY DEF TypedTrail, Spawn, SpawnFails, JobLetsGo, CloseBegins, Cancel, CallNext,
     Spawned, WaitExec, Collect, DriveDone, DriveAborted, DriveGrace, LeaderEnded, HangUp, CloseKills,
     CloseGrace, ReapEnds, AStop, StopBegins, Ended
<1>6. TypedCall'
  BY DEF TypedCall, Places, Spawn, SpawnFails, JobLetsGo, CloseBegins, Cancel, CallNext,
     Spawned, WaitExec, Collect, DriveDone, DriveAborted, DriveGrace, LeaderEnded, HangUp, CloseKills,
     CloseGrace, ReapEnds, AStop, Ended
<1>7. QED
  BY <1>1, <1>2, <1>3, <1>4, <1>5, <1>6

\* The steps after the kill, and those before it, that change neither the
\* processes nor the monitor.
LEMMA LocalStep ==
  ASSUME Inv, \/ JobLetsGo \/ CloseBegins \/ Cancel \/ Collect \/ DriveDone \/ DriveGrace
              \/ LeaderEnded \/ HangUp \/ CloseGrace \/ Ended
  PROVE  Inv'
<1>1. UNCHANGED <<monitorVars, kind, missed>>
  BY DEF JobLetsGo, CloseBegins, Cancel, Collect, DriveDone, DriveGrace, LeaderEnded, HangUp,
     CloseGrace, Ended, Local
<1>2. Typed'
  BY CallTyped DEF Inv, CallNext
<1>3. pc' # "idle"
  BY DEF JobLetsGo, CloseBegins, Cancel, Collect, DriveDone, DriveGrace, LeaderEnded, HangUp,
     CloseGrace, Ended, Goto, Inv, Family
<1>4. Family' /\ Stage' /\ Trail' /\ Sound' /\ Reported'
  BY <1>1, <1>3 DEF Inv, monitorVars, process, channel, supervisor, trail, Family, Stage, Trail, Sound,
     Reported, Alive, Carriers, Members
<1>5. Ending'
  <2> USE <1>1 DEF Inv, Ending, monitorVars, process, supervisor, Gone, Alive, Goto
  <2>1. CASE JobLetsGo \/ Cancel
    BY <2>1 DEF JobLetsGo, Cancel
  <2>2. CASE CloseBegins \/ LeaderEnded \/ HangUp
    BY <2>2 DEF CloseBegins, LeaderEnded, HangUp, Launching
  <2>3. CASE DriveDone
    BY <2>3 DEF DriveDone, Launching
  <2>4. CASE Collect \/ DriveGrace \/ CloseGrace \/ Ended
    <3>1. "unspawned" = outcome => outcome' = "unspawned"
      BY <2>4, EndsFacts DEF Collect, DriveGrace, CloseGrace, Ended
    <3>2. QED
      BY <2>4, <3>1 DEF Collect, DriveGrace, CloseGrace, Ended
  <2>5. QED
    BY <2>1, <2>2, <2>3, <2>4
<1>6. QED
  BY <1>2, <1>4, <1>5 DEF Inv

\* The steps that send SIGKILL.
LEMMA KillingStep ==
  ASSUME Inv, Spawned \/ WaitExec \/ DriveAborted \/ CloseKills \/ ReapEnds
  PROVE  Inv'
<1>1. Signals /\ pc' # "idle" /\ UNCHANGED <<leader, job, status, stopping, kind>>
  BY DEF Spawned, WaitExec, DriveAborted, CloseKills, ReapEnds, Signals, Goto, supervisor
<1>2. Typed'
  BY CallTyped DEF Inv, CallNext
<1>3. doomed \subseteq doomed' /\ doomed' \subseteq Processes
  <2>1. CASE Spawned
    BY <2>1 DEF Spawned, Inv, Typed, TypedSets, Members
  <2>2. CASE WaitExec \/ DriveAborted \/ CloseKills \/ ReapEnds
    <3>1. KillGroup \/ KillTree \/ doomed' = doomed
      BY <2>2 DEF WaitExec, DriveAborted, CloseKills, ReapEnds, ExecFailed, ReapGroup
    <3>2. QED
      BY <1>1, <3>1, KillFacts DEF Inv, Typed, TypedSets
  <2>3. QED
    BY <2>1, <2>2
<1>4. Family' /\ Stage' /\ Trail' /\ Sound' /\ Reported'
  BY <1>1, <1>3, SignalsOnly
<1>5. Ending'
  <2> USE DEF Inv, Ending, Goto
  <2>1. CASE Spawned
    BY <1>1, <2>1 DEF Spawned, Ends, Gone, Alive, Members, Processes
  <2>2. CASE WaitExec
    <3>1. CASE pc' = "up"
      BY <1>1, <2>2, <3>1 DEF WaitExec
    <3>2. CASE pc' = "collect" /\ ~KillGroup
      <4>1. outcome' = "unspawned"
        BY <2>2, <3>2 DEF WaitExec, ExecFailed, Ends
      <4>2. ~Alive("leader")'
        BY <1>1, <2>2, <3>2 DEF WaitExec, ExecFailed, Family, Alive, Launching
      <4>3. QED
        BY <1>1, <2>2, <3>2, <4>1, <4>2 DEF WaitExec, Gone
    <3>3. CASE pc' = "collect" /\ KillGroup
      BY <1>1, <2>2, <3>3, KillFacts DEF WaitExec, Ends
    <3>4. QED
      BY <2>2, <3>1, <3>2, <3>3 DEF WaitExec
  <2>3. CASE DriveAborted
    BY <1>1, <2>3, KillFacts DEF DriveAborted
  <2>4. CASE CloseKills
    BY <1>1, <2>4, KillFacts DEF CloseKills
  <2>5. CASE ReapEnds
    BY <1>1, <2>5, KillFacts DEF ReapEnds, ReapGroup
  <2>6. QED
    BY <2>1, <2>2, <2>3, <2>4, <2>5
<1>6. QED
  BY <1>2, <1>4, <1>5 DEF Inv

\* The spawn, and the beginning of stop().
LEMMA BoundaryStep ==
  ASSUME Inv, Spawn \/ SpawnFails \/ AStop
  PROVE  Inv'
<1>1. Typed'
  BY CallTyped DEF Inv, CallNext
<1> USE DEF Inv, Typed, TypedProcesses, TypedSets, TypedMonitor, TypedFlags, TypedTrail, TypedCall,
        Family, Stage, Ending, Trail, Sound, Reported, process, channel, trail, supervisor,
        Alive, Members, Carriers, Gone, Processes, Launching, Places, Goto
<1>2. CASE Spawn
  <2>0. Family'
    BY <1>2 DEF Spawn
  <2>1. Stage'
    BY <1>2 DEF Spawn
  <2>2. Ending' /\ Trail' /\ Reported'
    BY <1>2 DEF Spawn
  <2>3. Sound'
    BY <1>2 DEF Spawn
  <2>4. QED
    BY <1>1, <2>0, <2>1, <2>2, <2>3
<1>3. CASE SpawnFails
  <2>1. Family' /\ Stage'
    BY <1>3 DEF SpawnFails
  <2>2. Ending' /\ Trail' /\ Reported'
    BY <1>3 DEF SpawnFails, Ends
  <2>3. Sound'
    BY <1>3 DEF SpawnFails
  <2>4. QED
    BY <1>1, <2>1, <2>2, <2>3
<1>4. CASE AStop
  <2>1. Family' /\ Stage'
    BY <1>4 DEF AStop, StopBegins
  <2>2. Ending' /\ Trail' /\ Reported'
    BY <1>4 DEF AStop, StopBegins
  <2>3. Sound'
    BY <1>4 DEF AStop, StopBegins
  <2>4. QED
    BY <1>1, <2>1, <2>2, <2>3
<1>5. QED
  BY <1>2, <1>3, <1>4

-----------------------------------------------------------------------------
(* The theorems.                                                           *)

\* The invariant holds throughout.
THEOREM Invariance == Spec => []Inv
<1>1. Init => Inv
  <2> SUFFICES ASSUME Init
               PROVE  Inv
    OBVIOUS
  <2> USE DEF Init, MonitorInit
  <2>1. Typed
    BY DEF Typed, TypedProcesses, TypedSets, TypedMonitor, TypedFlags, TypedTrail, TypedCall,
       Launching, Places
  <2>2. Family /\ Stage /\ Ending
    BY DEF Family, Stage, Ending, Gone, Alive, Launching
  <2>3. Trail /\ Sound /\ Reported
    BY MonitorAssumption DEF Trail, Sound, Reported
  <2>4. QED
    BY <2>1, <2>2, <2>3 DEF Inv
<1>2. Inv /\ [Next]_vars => Inv'
  <2> SUFFICES ASSUME Inv, [Next]_vars
               PROVE  Inv'
    OBVIOUS
  <2>1. CASE MonitorNext /\ UNCHANGED call
    BY <2>1, MonitorStep
  <2>2. CASE Spawn \/ SpawnFails \/ JobLetsGo \/ CloseBegins \/ Cancel \/ CallNext
    BY <2>2, LocalStep, KillingStep, BoundaryStep DEF CallNext
  <2>3. CASE UNCHANGED vars
    <3>1. Typed'
      BY <2>3 DEF Inv, vars, monitorVars, process, channel, supervisor, trail, Typed, TypedProcesses,
         TypedSets, TypedMonitor, TypedFlags, TypedTrail, TypedCall
    <3>2. Family' /\ Stage' /\ Ending' /\ Trail' /\ Sound' /\ Reported'
      BY <2>3 DEF Inv, vars, monitorVars, process, channel, supervisor, trail, Family, Stage, Ending,
         Trail, Sound, Reported, Gone, Alive, Carriers, Members
    <3>3. QED
      BY <3>1, <3>2 DEF Inv
  <2>4. QED
    BY <2>1, <2>2, <2>3 DEF Next
<1>3. QED
  BY <1>1, <1>2, PTL DEF Spec

\* When a call has ended, however it did, its leader is dead or about to die, and
\* a closed PTY has left nobody of its group (run_command, run_script,
\* LocalPtyTransport.aclose).
THEOREM NobodyLeftHolds == Spec => []NobodyLeft
<1>1. Inv => NobodyLeft
  BY DEF Inv, Ending, NobodyLeft
<1>2. QED
  BY <1>1, Invariance, PTL

\* The monitor does not interfere with the child and accounts for what it has
\* answered, for every cap and any number of calls (seccomp.py).
THEOREM ObservesOnlyHolds == Spec => []ObservesOnly
<1>1. Inv => ObservesOnly
  BY MonitorAssumption DEF Inv, Typed, TypedTrail, Ending, Trail, Sound, Reported, ObservesOnly
<1>2. QED
  BY <1>1, Invariance, PTL
=============================================================================
