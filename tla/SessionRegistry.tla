-------------------------- MODULE SessionRegistry --------------------------
(***************************************************************************)
(* The session registry of relay_shell/sessions.py: admission of spawned   *)
(* transports, the reader and its ring buffer, long-polling recv(), the    *)
(* opportunistic sweep, close() and shutdown(), and the teardown that      *)
(* survives the cancellation of its caller (ADR 0012).                     *)
(*                                                                         *)
(* All of it runs on one event loop, and no `async with` on the registry   *)
(* lock or on a session lock contains an await.  A step of the model is    *)
(* therefore everything a task does between two awaits that can suspend.   *)
(*                                                                         *)
(* The bytes of a session's output are numbered from one.  Of a byte the   *)
(* model knows whether it begins a character; the ring buffer holds the    *)
(* latest bytes of the output, as _sink and recv() take from its front     *)
(* only, so that its length says which they are.                           *)
(*                                                                         *)
(* Time is the age of last_used: fresh, past the 5 s after which a         *)
(* drained, ended session may go, or past the idle timeout.  aclose() of a *)
(* transport ends the child; how is the business of the transport.  The    *)
(* reader is started by add() before any client can know the session id.   *)
(*                                                                         *)
(* Operators named Faulty... are plausible mistakes in the operator that   *)
(* follows; the specification does not use them.                           *)
(***************************************************************************)
EXTENDS Integers, FiniteSets

CONSTANTS
  Sids,         \* sessions, each with the shell_spawn/ssh_spawn that starts it
  Recvs,        \* calls of recv()
  MaxSessions,  \* settings.max_sessions
  BufferCap,    \* settings.session_buffer_bytes
  MaxTake,      \* max_bytes of a recv
  MaxProduced,  \* bound on the output of one session
  Starts,       \* the bytes of a session's output that begin a character
  None

ASSUME SetsAssumption ==
  IsFiniteSet(Sids) /\ IsFiniteSet(Recvs) /\ None \notin Sids
ASSUME BoundsAssumption ==
  /\ MaxSessions \in Nat \ {0}
  /\ BufferCap \in Nat \ {0}
  /\ MaxTake \in Nat \ {0}
  /\ MaxProduced \in Nat
ASSUME StartsAssumption == Starts \in [Sids -> SUBSET Nat]

VARIABLES
  stage,      \* where a session is in its life
  sweeping,   \* the sessions whose teardown a suspended add() awaits
  child,      \* the process behind the transport
  reader,     \* the reader task
  buffer,     \* bytes in the ring buffer
  produced, dropped,  \* Session.produced, Session.dropped
  delivered,  \* bytes recv() has returned
  closed,     \* Session.closed
  event,      \* Session._event
  waiters,    \* Session._waiters
  age,        \* time since last_used: Fresh, Drained or Idle
  removedBy,  \* what took the session out of the registry
  rpc,        \* where each recv() is
  rsid,       \* the session it reads
  result      \* what it returned

vars == <<stage, sweeping, child, reader, buffer, produced, dropped, delivered,
          closed, event, waiters, age, removedBy, rpc, rsid, result>>
output == <<buffer, produced, dropped, delivered>>
recvVars == <<rpc, rsid, result>>

Fresh == 0    \* idle <= 5 s
Drained == 1  \* idle > 5 s
Idle == 2     \* idle > session_idle_timeout

\* none: not spawned.  adding: spawned, add() awaits the sweep it began with.
\* refusing: register_session closes the transport.  registered: in _sessions.
\* doomed: popped, its teardown task is in _teardowns.  gone: torn down.
Init ==
  /\ stage = [s \in Sids |-> "none"]
  /\ sweeping = [s \in Sids |-> {}]
  /\ child = [s \in Sids |-> "none"]
  /\ reader = [s \in Sids |-> "none"]
  /\ buffer = [s \in Sids |-> 0]
  /\ produced = [s \in Sids |-> 0]
  /\ dropped = [s \in Sids |-> 0]
  /\ delivered = [s \in Sids |-> 0]
  /\ closed = [s \in Sids |-> FALSE]
  /\ event = [s \in Sids |-> FALSE]
  /\ waiters = [s \in Sids |-> 0]
  /\ age = [s \in Sids |-> Fresh]
  /\ removedBy = [s \in Sids |-> "none"]
  /\ rpc = [r \in Recvs |-> "idle"]
  /\ rsid = [r \in Recvs |-> None]
  /\ result = [r \in Recvs |-> "none"]

Registered == {s \in Sids : stage[s] = "registered"}
Minimum(a, b) == IF a < b THEN a ELSE b

-----------------------------------------------------------------------------
(* Sweep, admission and removal.                                           *)

FaultyReapable(s) ==
  (closed[s] /\ buffer[s] = 0 /\ age[s] >= Drained) \/ age[s] = Idle
\* _sweep: what it reaps.  A session with a recv() waiting is in use.
Reapable(s) ==
  /\ waiters[s] = 0
  /\ (closed[s] /\ buffer[s] = 0 /\ age[s] >= Drained) \/ age[s] = Idle

Swept == {s \in Registered : Reapable(s)}

FaultyHasRoom == Cardinality(Registered) <= MaxSessions
\* add() tests the cap after its sweep, in the step that inserts.
HasRoom == Cardinality(Registered) < MaxSessions

\* The sessions of S leave the registry.
Removed(S, by) ==
  /\ removedBy' = [t \in Sids |-> IF t \in S THEN by ELSE removedBy[t]]
  /\ stage' = [t \in Sids |-> IF t \in S THEN "doomed" ELSE stage[t]]

\* A transport was spawned and register_session() calls add(), which sweeps
\* first.  With nothing to sweep it does not suspend.
Spawn(s) ==
  /\ stage[s] = "none"
  /\ child' = [child EXCEPT ![s] = "alive"]
  /\ LET fate == IF Swept # {} THEN "adding"
                 ELSE IF HasRoom THEN "registered" ELSE "refusing"
     IN  /\ stage' = [t \in Sids |-> IF t = s THEN fate
                                     ELSE IF t \in Swept THEN "doomed"
                                     ELSE stage[t]]
         /\ reader' = [reader EXCEPT ![s] =
                         IF fate = "registered" THEN "running" ELSE @]
  /\ sweeping' = [sweeping EXCEPT ![s] = Swept]
  /\ removedBy' = [t \in Sids |-> IF t \in Swept THEN "sweep" ELSE removedBy[t]]
  /\ UNCHANGED <<output, closed, event, waiters, age, recvVars>>

\* The sweep's teardowns are over: add() tests the cap and inserts, or raises.
AddResumes(s) ==
  /\ stage[s] = "adding"
  /\ \A t \in sweeping[s] : stage[t] = "gone"
  /\ sweeping' = [sweeping EXCEPT ![s] = {}]
  /\ \/ /\ HasRoom
        /\ stage' = [stage EXCEPT ![s] = "registered"]
        /\ reader' = [reader EXCEPT ![s] = "running"]
     \/ /\ ~HasRoom
        /\ stage' = [stage EXCEPT ![s] = "refusing"]
        /\ UNCHANGED reader
  /\ UNCHANGED <<child, output, closed, event, waiters, age, removedBy, recvVars>>

FaultyAddCancelled == "gone"
\* register_session() closes the transport before the error propagates.
AddCancelled == "refusing"

\* The spawning call is cancelled while its add() awaits the sweep; the
\* teardowns it awaited go on behind their shield.
CancelAdd(s) ==
  /\ stage[s] = "adding"
  /\ stage' = [stage EXCEPT ![s] = AddCancelled]
  /\ sweeping' = [sweeping EXCEPT ![s] = {}]
  /\ UNCHANGED <<child, reader, output, closed, event, waiters, age, removedBy,
                 recvVars>>

\* aclose() of a refused transport returns, or kills the child when the call
\* is cancelled again.
Refused(s) ==
  /\ stage[s] = "refusing"
  /\ stage' = [stage EXCEPT ![s] = "gone"]
  /\ child' = [child EXCEPT ![s] = "exited"]
  /\ UNCHANGED <<sweeping, reader, output, closed, event, waiters, age,
                 removedBy, recvVars>>

\* list() sweeps.
List ==
  /\ Swept # {}
  /\ Removed(Swept, "sweep")
  /\ UNCHANGED <<sweeping, child, reader, output, closed, event, waiters, age,
                 recvVars>>

Close(s) ==
  /\ stage[s] = "registered"
  /\ Removed({s}, "close")
  /\ UNCHANGED <<sweeping, child, reader, output, closed, event, waiters, age,
                 recvVars>>

Shutdown ==
  /\ Registered # {}
  /\ Removed(Registered, "shutdown")
  /\ UNCHANGED <<sweeping, child, reader, output, closed, event, waiters, age,
                 recvVars>>

-----------------------------------------------------------------------------
(* The reader and the teardown.                                            *)

FaultyWakeAll(s) == UNCHANGED <<event, rpc>>
\* _event.set(): every recv() waiting on it becomes ready.
WakeAll(s) ==
  /\ event' = [event EXCEPT ![s] = TRUE]
  /\ rpc' = [r \in Recvs |-> IF rpc[r] = "parked" /\ rsid[r] = s
                               THEN "woken" ELSE rpc[r]]

FaultyOverflow(s, n) == 0
\* _sink: bytes that no longer fit once n more are appended.
Overflow(s, n) ==
  IF buffer[s] + n > BufferCap THEN buffer[s] + n - BufferCap ELSE 0

\* The reader hands n bytes to _sink, which drops the oldest on overflow.
Sink(s, n) ==
  /\ reader[s] = "running"
  /\ produced[s] + n <= MaxProduced
  /\ produced' = [produced EXCEPT ![s] = @ + n]
  /\ buffer' = [buffer EXCEPT ![s] = @ + n - Overflow(s, n)]
  /\ dropped' = [dropped EXCEPT ![s] = @ + Overflow(s, n)]
  /\ WakeAll(s)
  /\ UNCHANGED <<stage, sweeping, child, reader, delivered, closed, waiters, age,
                 removedBy, rsid, result>>

\* The end of _run_reader, by EOF, by a backend failure or by cancellation.
ReaderDone(s) ==
  /\ reader' = [reader EXCEPT ![s] = "done"]
  /\ closed' = [closed EXCEPT ![s] = TRUE]
  /\ WakeAll(s)

ChildExits(s) ==
  /\ child[s] = "alive"
  /\ child' = [child EXCEPT ![s] = "exited"]
  /\ UNCHANGED <<stage, sweeping, reader, output, closed, event, waiters, age,
                 removedBy, recvVars>>

\* EOF after the child's exit, or a transport failure.
ReaderEnds(s) ==
  /\ reader[s] = "running"
  /\ ReaderDone(s)
  /\ UNCHANGED <<stage, sweeping, child, output, waiters, age, removedBy, rsid,
                 result>>

FaultyTeardownReader(s) ==
  /\ stage[s] = "doomed"
  /\ reader[s] = "running"
  /\ child[s] = "exited"
  /\ ReaderDone(s)
  /\ UNCHANGED <<stage, sweeping, child, output, waiters, age, removedBy, rsid,
                 result>>

\* _teardown: cancel the reader and wait for it.
TeardownReader(s) ==
  /\ stage[s] = "doomed"
  /\ reader[s] = "running"
  /\ ReaderDone(s)
  /\ UNCHANGED <<stage, sweeping, child, output, waiters, age, removedBy, rsid,
                 result>>

FaultyTeardownTransport(s) ==
  /\ stage[s] = "doomed"
  /\ reader[s] = "done"
  /\ child[s] = "exited"
  /\ closed' = [closed EXCEPT ![s] = TRUE]
  /\ stage' = [stage EXCEPT ![s] = "gone"]
  /\ UNCHANGED <<sweeping, child, reader, output, event, waiters, age, removedBy,
                 recvVars>>

\* _teardown: then close the transport, which ends the child if it must.
TeardownTransport(s) ==
  /\ stage[s] = "doomed"
  /\ reader[s] = "done"
  /\ child' = [child EXCEPT ![s] = "exited"]
  /\ closed' = [closed EXCEPT ![s] = TRUE]
  /\ stage' = [stage EXCEPT ![s] = "gone"]
  /\ UNCHANGED <<sweeping, reader, output, event, waiters, age, removedBy,
                 recvVars>>

FaultyCallerCancelled == "gone"
\* The teardown is shielded: it does not notice its caller's cancellation.
CallerCancelled == "doomed"

\* The close(), list() or shutdown() that awaits a teardown is cancelled.
CancelCaller(s) ==
  /\ stage[s] = "doomed"
  /\ stage' = [stage EXCEPT ![s] = CallerCancelled]
  /\ UNCHANGED <<sweeping, child, reader, output, closed, event, waiters, age,
                 removedBy, recvVars>>

-----------------------------------------------------------------------------
(* send(), kill(), resize(), recv() and the clock.                         *)

\* send() and resize() refresh last_used; kill() may also end the child.
Use(s) ==
  /\ stage[s] = "registered"
  /\ age' = [age EXCEPT ![s] = Fresh]
  /\ child' \in {child, [child EXCEPT ![s] = "exited"]}
  /\ UNCHANGED <<stage, sweeping, reader, output, closed, event, waiters,
                 removedBy, recvVars>>

GrowOlder(s) ==
  /\ stage[s] = "registered"
  /\ age[s] < Idle
  /\ age' = [age EXCEPT ![s] = @ + 1]
  /\ UNCHANGED <<stage, sweeping, child, reader, output, closed, event, waiters,
                 removedBy, recvVars>>

\* The `finally` of recv(), w being its net effect on _waiters.
RecvReturns(r, s, w, res) ==
  /\ rpc' = [rpc EXCEPT ![r] = "done"]
  /\ result' = [result EXCEPT ![r] = res]
  /\ waiters' = [waiters EXCEPT ![s] = @ + w]
  /\ age' = [age EXCEPT ![s] = Fresh]

Utf8 == INSTANCE Utf8Cut

\* The bytes in the buffer.
Content(s) ==
  [n \in 1..buffer[s] |->
     IF produced[s] - buffer[s] + n \in Starts[s] THEN "lead" ELSE "cont"]

FaultyRecvTakes(r, s, w) ==
  /\ buffer[s] > 0
  /\ LET n == Minimum(buffer[s], MaxTake) IN
       /\ buffer' = [buffer EXCEPT ![s] = 0]
       /\ delivered' = [delivered EXCEPT ![s] = @ + n]
       /\ event' = [event EXCEPT ![s] = @ /\ closed[s]]
  /\ RecvReturns(r, s, w, "data")

\* There is output: take what _utf8_cut allows.  The event is cleared when
\* nothing is left to announce.
RecvTakes(r, s, w) ==
  /\ buffer[s] > 0
  /\ LET n == Utf8!Cut(Content(s), MaxTake) IN
       /\ buffer' = [buffer EXCEPT ![s] = @ - n]
       /\ delivered' = [delivered EXCEPT ![s] = @ + n]
       /\ event' = [event EXCEPT ![s] = @ /\ (n < buffer[s] \/ closed[s])]
  /\ RecvReturns(r, s, w, "data")

FaultyEndOfOutput(s) == closed[s]
\* The end is announced only once the buffer is empty.
EndOfOutput(s) == closed[s] /\ buffer[s] = 0

RecvSeesEnd(r, s, w) ==
  /\ EndOfOutput(s)
  /\ RecvReturns(r, s, w, "ended")
  /\ UNCHANGED <<buffer, delivered, event>>

\* Nothing yet and no time left.
RecvTimesOut(r, s, w) ==
  /\ buffer[s] = 0 /\ ~closed[s]
  /\ event' = [event EXCEPT ![s] = FALSE]
  /\ RecvReturns(r, s, w, "timeout")
  /\ UNCHANGED <<buffer, delivered>>

\* Nothing yet: clear the event and await it.
RecvParks(r, s, w) ==
  /\ buffer[s] = 0 /\ ~closed[s]
  /\ event' = [event EXCEPT ![s] = FALSE]
  /\ rpc' = [rpc EXCEPT ![r] = "parked"]
  /\ waiters' = [waiters EXCEPT ![s] = @ + 1 + w]
  /\ UNCHANGED <<buffer, delivered, result>>

\* recv() of a registered session; _waiters goes up before anything can
\* suspend.  An unknown id raises and changes nothing.
Recv(r, s) ==
  /\ rpc[r] = "idle"
  /\ stage[s] = "registered"
  /\ rsid' = [rsid EXCEPT ![r] = s]
  /\ \/ RecvTakes(r, s, 0)
     \/ RecvSeesEnd(r, s, 0)
     \/ RecvTimesOut(r, s, 0)
     \/ RecvParks(r, s, 0) /\ age' = [age EXCEPT ![s] = Fresh]
  /\ UNCHANGED <<stage, sweeping, child, reader, produced, dropped, closed,
                 removedBy>>

\* The event was set: recv() looks again, with time left or without.
RecvWakes(r) ==
  /\ rpc[r] = "woken"
  /\ LET s == rsid[r] IN
       \/ RecvTakes(r, s, -1)
       \/ RecvSeesEnd(r, s, -1)
       \/ RecvTimesOut(r, s, -1)
       \/ RecvParks(r, s, -1) /\ UNCHANGED age
  /\ UNCHANGED <<stage, sweeping, child, reader, produced, dropped, closed,
                 removedBy, rsid>>

\* The timer of wait_for fires: recv() looks once more before it gives up.
RecvTimer(r) ==
  /\ rpc[r] = "parked"
  /\ LET s == rsid[r] IN
       RecvTakes(r, s, -1) \/ RecvSeesEnd(r, s, -1) \/ RecvTimesOut(r, s, -1)
  /\ UNCHANGED <<stage, sweeping, child, reader, produced, dropped, closed,
                 removedBy, rsid>>

FaultyCancelledWaiter(r) == UNCHANGED waiters
\* The `finally` of a cancelled recv().
CancelledWaiter(r) == waiters' = [waiters EXCEPT ![rsid[r]] = @ - 1]

CancelRecv(r) ==
  /\ rpc[r] \in {"parked", "woken"}
  /\ rpc' = [rpc EXCEPT ![r] = "done"]
  /\ result' = [result EXCEPT ![r] = "cancelled"]
  /\ CancelledWaiter(r)
  /\ age' = [age EXCEPT ![rsid[r]] = Fresh]
  /\ UNCHANGED <<stage, sweeping, child, reader, output, closed, event,
                 removedBy, rsid>>

-----------------------------------------------------------------------------
Next ==
  \/ \E s \in Sids :
       \/ Spawn(s) \/ AddResumes(s) \/ CancelAdd(s) \/ Refused(s)
       \/ Close(s) \/ CancelCaller(s)
       \/ ChildExits(s) \/ ReaderEnds(s)
       \/ TeardownReader(s) \/ TeardownTransport(s)
       \/ Use(s) \/ GrowOlder(s)
       \/ \E n \in 1..BufferCap + 1 : Sink(s, n)
  \/ List
  \/ Shutdown
  \/ \E r \in Recvs :
       \/ \E s \in Sids : Recv(r, s)
       \/ RecvWakes(r) \/ RecvTimer(r) \/ CancelRecv(r)

Spec == Init /\ [][Next]_vars

\* The loop runs ready tasks; aclose() is bounded (ADR 0012, SC-4).  The timer
\* of a recv() and the end of the child are left out on purpose.
Fairness ==
  /\ \A s \in Sids : /\ WF_vars(TeardownReader(s))
                     /\ WF_vars(TeardownTransport(s))
                     /\ WF_vars(AddResumes(s))
                     /\ WF_vars(Refused(s))
  /\ \A r \in Recvs : WF_vars(RecvWakes(r))
FairSpec == Spec /\ Fairness

-----------------------------------------------------------------------------
(* Correctness.                                                            *)

Active(r) == rpc[r] \in {"parked", "woken"}

\* No lost wakeup: a recv() sleeps only while its session has no output to
\* give and has not ended.
NoLostWakeup ==
  \A r \in Recvs :
    rpc[r] = "parked" => buffer[rsid[r]] = 0 /\ ~closed[rsid[r]]

\* ADR 0012, H-1: a child that is alive is in the registry, or some task will
\* still end it, whoever was cancelled in between.
NoOrphan ==
  \A s \in Sids :
    child[s] = "alive" => stage[s] \in {"adding", "refusing", "registered", "doomed"}

\* Concurrent spawns, some of them suspended in their sweep, never push the
\* registry over max_sessions.
SessionsBounded == Cardinality(Registered) <= MaxSessions

\* The sweep never takes a session away from a recv() that waits on it, and
\* never spares one for nobody: _waiters counts exactly the calls that wait,
\* also after some of them timed out or were cancelled.
SweepSparesWaiters ==
  /\ \A r \in Recvs : Active(r) => removedBy[rsid[r]] # "sweep"
  /\ \A s \in Sids :
       waiters[s] = Cardinality({r \in Recvs : Active(r) /\ rsid[r] = s})

\* Every byte is delivered once, still buffered, or counted as dropped, for any
\* interleaving of the reader with several recv() calls; the buffer keeps its
\* cap, and a recv() that reports the end has left no output behind.
BytesConserved ==
  /\ \A s \in Sids : /\ produced[s] = dropped[s] + delivered[s] + buffer[s]
                     /\ buffer[s] <= BufferCap
  /\ \A r \in Recvs :
       result[r] = "ended" => buffer[rsid[r]] = 0 /\ reader[rsid[r]] = "done"

\* The oldest byte in the buffer, or the next to come.
Front(s) == produced[s] - buffer[s] + 1

\* Byte n continues the character that begins at byte q; a character has at most
\* four bytes, and what continues no character is not text.
Continues(s, q, n) ==
  q \in Starts[s] /\ n \in q + 1..q + 3 /\ q + 1..n \cap Starts[s] = {}

\* The output that a recv() takes ends inside a character only if the rest of the
\* character had not arrived, or if it is all of that character and max_bytes of
\* it: whatever chunks the reader gets, whichever recv() is first and wherever the
\* ring has cut the front of the buffer (_utf8_cut in recv, _sink).
CharactersWhole ==
  [][\A s \in Sids : delivered'[s] # delivered[s] =>
       \A q \in Starts[s] : Continues(s, q, Front(s)') =>
         \/ Front(s)' > produced[s]
         \/ q <= Front(s) /\ Front(s)' = Front(s) + MaxTake]_vars

\* While the ring has dropped nothing, no result of recv() begins inside a
\* character, the start of which an earlier result has, unless the character is
\* longer than max_bytes (tests/test_audit_lows.py: session_recv must not split a
\* multibyte character; recv, _utf8_cut).
NoCharacterSplit ==
  [][\A s \in Sids : delivered'[s] # delivered[s] /\ dropped[s] = 0 =>
       \A q \in Starts[s] :
         Continues(s, q, Front(s)) => Continues(s, q, q + MaxTake)]_vars

\* Once popped, a session is torn down, independent of its caller (SC-1), and
\* so is a refused transport; a recv() blocked on the session is answered
\* without waiting for its timer.
TeardownCompletes ==
  \A s \in Sids :
    /\ stage[s] \in {"doomed", "refusing"} ~> stage[s] = "gone"
    /\ \A r \in Recvs :
         (Active(r) /\ rsid[r] = s /\ stage[s] = "doomed") ~> rpc[r] = "done"

=============================================================================
