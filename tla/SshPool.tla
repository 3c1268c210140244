------------------------------ MODULE SshPool ------------------------------
(***************************************************************************)
(* The SSH connection cache of relay_shell/sshpool.py: the single-flight   *)
(* connect(), the pins that protect a connection in use, the idle and LRU  *)
(* evictions, the port forwards and close_all().                           *)
(*                                                                         *)
(* Every caller is a task of one asyncio event loop, so a task runs alone  *)
(* until it really suspends.  `running` names the task that has the loop.  *)
(* An `async with self._lock` on a free asyncio.Lock does not suspend; the *)
(* lock is free unless add_forward holds it across `wait_closed` after     *)
(* losing the race for the last forward slot.  Only then do other tasks    *)
(* queue (first come, first served) and become cancellable at the lock.    *)
(*                                                                         *)
(* A call dials at most once, so the future it owns, the connection it     *)
(* opens and the cache entry of that connection all go by the call's name. *)
(* Time is abstract: any unpinned entry may have been idle too long.       *)
(*                                                                         *)
(* An operator whose name starts with Faulty is a plausible mistake in the *)
(* operator that follows it.  The specification does not use it; it is     *)
(* there to show that the properties notice the mistake.                   *)
(***************************************************************************)
EXTENDS Integers, Sequences, FiniteSets

CONSTANTS
  Runs,         \* calls of run() and of the SFTP transfers
  Spawns,       \* calls of open_process(), each with the session it starts
  Forwarders,   \* calls of add_forward(), each with the handle it tracks
  Closers,      \* calls of close_forward()
  Shutdowns,    \* calls of close_all()
  Keys,         \* connection keys (_conn_key)
  MaxConns,     \* settings.max_conns, 0 means no cap
  MaxForwards,  \* settings.max_forwards
  IdleEviction, \* settings.ssh_idle_timeout > 0
  AcceptNew,    \* known_hosts mode is accept-new
  Cancellable,  \* calls whose task the MCP layer may cancel
  None

Calls == Runs \cup Spawns \cup Forwarders \cup Closers \cup Shutdowns

ASSUME KindsAssumption ==
  /\ IsFiniteSet(Calls)
  /\ Runs \cap (Spawns \cup Forwarders \cup Closers \cup Shutdowns) = {}
  /\ Spawns \cap (Forwarders \cup Closers \cup Shutdowns) = {}
  /\ Forwarders \cap (Closers \cup Shutdowns) = {}
  /\ Closers \cap Shutdowns = {}
ASSUME NoneAssumption == None \notin Calls /\ None \notin Keys
ASSUME BoundsAssumption == MaxConns \in Nat /\ MaxForwards \in Nat
ASSUME FlagsAssumption == IdleEviction \in BOOLEAN /\ AcceptNew \in BOOLEAN
ASSUME CancellableAssumption == Cancellable \subseteq Calls \ Shutdowns

VARIABLES
  running,   \* the task the event loop is running, None between tasks
  lock,      \* the call that suspended while holding _lock
  lockq,     \* the calls queued on _lock
  pc,        \* where each call is
  key,       \* the connection key each call resolved
  using,     \* the dialler whose future a call awaits or whose connection it got
  entry,     \* the cache entry a call (or its tracked handle) has pinned
  pending,   \* _pending: the owner of the in-flight connect per key
  fut,       \* state of the future each owner created
  conns,     \* _conns: the cached entry per key
  conn,      \* the connection each call dialled: "none", "open", "dead" (lost),
             \* "evicted" (by a sweep or the cap) or "shut" (by close_all)
  pins,      \* _ConnEntry.pins
  older,     \* the cached entries last used before each cached one: the order of
             \* their last_used
  forwards,  \* _forwards: the calls whose handle is tracked
  listener   \* state of the listener of each forward

vars == <<running, lock, lockq, pc, key, using, entry, pending, fut, conns,
          conn, pins, older, forwards, listener>>
slotVars == <<pending, fut>>
cacheVars == <<conns, conn, pins, older>>
forwardVars == <<forwards, listener>>

\* Places where a call is about to enter an `async with self._lock` block.
LockPoints == {"precheck", "sweep", "claim", "failed", "cancelled", "discard",
               "cache", "pin", "track", "unpin", "release", "pop", "drop"}
\* Places where a call is suspended on something other than the lock.
Suspended == {"wait", "dial", "persist", "create", "work", "live", "listen",
              "lose", "fclose"}
PCs == LockPoints \cup Suspended \cup {"new", "tracked", "done"}
FutStates == {"none", "open", "result", "error", "ownerCancelled", "cancelled"}

Init ==
  /\ running = None
  /\ lock = None
  /\ lockq = <<>>
  /\ pc = [c \in Calls |-> "new"]
  /\ key = [c \in Calls |-> None]
  /\ using = [c \in Calls |-> None]
  /\ entry = [c \in Calls |-> None]
  /\ pending = [k \in Keys |-> None]
  /\ fut = [c \in Calls |-> "none"]
  /\ conns = [k \in Keys |-> None]
  /\ conn = [c \in Calls |-> "none"]
  /\ pins = [c \in Calls |-> 0]
  /\ older = [c \in Calls |-> {}]
  /\ forwards = {}
  /\ listener = [c \in Calls |-> "none"]

-----------------------------------------------------------------------------
(* The event loop and the lock.                                            *)

\* c reaches its `async with` and the lock is free, or c is the first waiter
\* and the lock was released.
Grant(c) ==
  /\ lock = None
  /\ \/ running = c /\ lockq = <<>> /\ UNCHANGED lockq
     \/ /\ running = None
        /\ lockq # <<>>
        /\ Head(lockq) = c
        /\ lockq' = Tail(lockq)

\* c reaches its `async with` while the lock is held or others are queued.
\* _unpin(None) returns before it.
Blocked(c) ==
  /\ running = c
  /\ pc[c] \in LockPoints
  /\ pc[c] \in {"unpin", "release"} => entry[c] # None
  /\ lock # None \/ lockq # <<>>
  /\ lockq' = Append(lockq, c)
  /\ running' = None
  /\ UNCHANGED <<lock, pc, key, using, entry, slotVars, cacheVars, forwardVars>>

\* The task of c goes on without giving up the loop.
Continue(c, p) == pc' = [pc EXCEPT ![c] = p] /\ running' = c
\* The task of c suspends, or ends.
Yield(c, p) == pc' = [pc EXCEPT ![c] = p] /\ running' = None

Cached == {conns[k] : k \in Keys} \ {None}
\* The order of last_used once the cached entry e has been used.
Touch(e) == [d \in Calls |-> IF d = e THEN Cached \ {e} ELSE older[d] \ {e}]
\* The order of last_used once the entries of S are gone.
Forget(S) == [d \in Calls |-> IF d \in S THEN {} ELSE older[d] \ S]
FaultyUnpinned == Cached
Unpinned == {e \in Cached : pins[e] = 0}
Drop(m, S) == [k \in Keys |-> IF m[k] \in S THEN None ELSE m[k]]
FaultyClosed(S, how) == conn
\* The pool closes the open connections of S.
Closed(S, how) ==
  [e \in Calls |-> IF e \in S /\ conn[e] = "open" THEN how ELSE conn[e]]

-----------------------------------------------------------------------------
(* Arrival of a call.                                                      *)

\* The connection keys a call can ask for; close_forward and close_all ask for
\* none.
TargetsOf(c) == IF c \in Closers \cup Shutdowns THEN {None} ELSE Keys

Start(c, k) ==
  /\ running = None
  /\ pc[c] = "new"
  /\ key' = [key EXCEPT ![c] = k]
  /\ Continue(c, CASE c \in Forwarders -> "precheck"
                   [] c \in Closers -> "pop"
                   [] c \in Shutdowns -> "drop"
                   [] OTHER -> "sweep")
  /\ UNCHANGED <<lock, lockq, using, entry, slotVars, cacheVars, forwardVars>>

FaultyForwardSlotFree == Cardinality(forwards) <= MaxForwards
ForwardSlotFree == Cardinality(forwards) < MaxForwards

\* add_forward: the cap is tested before dialling, to fail fast.
ForwardPrecheck(c) ==
  /\ pc[c] = "precheck"
  /\ Grant(c)
  /\ \/ ~ForwardSlotFree /\ Yield(c, "done")
     \/ ForwardSlotFree /\ Continue(c, "sweep")
  /\ UNCHANGED <<lock, key, using, entry, slotVars, cacheVars, forwardVars>>

-----------------------------------------------------------------------------
(* connect()                                                               *)

\* _sweep_conns: purge what is closed, and any unpinned entry that was idle
\* too long; the connections are closed once the lock is released.
SweepConns(c) ==
  /\ pc[c] = "sweep"
  /\ Grant(c)
  /\ \E idle \in SUBSET (IF IdleEviction THEN Unpinned ELSE {}) :
       LET doomed == idle \cup {e \in Cached : conn[e] # "open"} IN
         /\ conns' = Drop(conns, doomed)
         /\ conn' = Closed(doomed, "evicted")
         /\ older' = Forget(doomed)
  /\ Continue(c, "claim")
  /\ UNCHANGED <<lock, key, using, entry, slotVars, pins, forwardVars>>

\* What the caller of connect() does next: run() and add_forward() pin at
\* once, open_process() first awaits create_process.
Connected(c) == IF c \in Spawns THEN Yield(c, "create") ELSE Continue(c, "pin")

Hit(k) == conns[k] # None /\ conn[conns[k]] = "open"

\* The lookup finds a live entry: refresh it and return its connection.
ConnectHit(c) ==
  /\ pc[c] = "claim"
  /\ Grant(c)
  /\ Hit(key[c])
  /\ using' = [using EXCEPT ![c] = conns[key[c]]]
  /\ older' = Touch(conns[key[c]])
  /\ Connected(c)
  /\ UNCHANGED <<lock, key, entry, slotVars, conns, conn, pins, forwardVars>>

\* Another call is dialling this key: await its future through a shield.
ConnectJoin(c) ==
  /\ pc[c] = "claim"
  /\ Grant(c)
  /\ ~Hit(key[c])
  /\ pending[key[c]] # None
  /\ using' = [using EXCEPT ![c] = pending[key[c]]]
  /\ Yield(c, "wait")
  /\ UNCHANGED <<lock, key, entry, slotVars, cacheVars, forwardVars>>

\* Nobody is: claim the slot with a fresh future and dial outside the lock.
ConnectOwn(c) ==
  /\ pc[c] = "claim"
  /\ Grant(c)
  /\ ~Hit(key[c])
  /\ pending[key[c]] = None
  /\ pending' = [pending EXCEPT ![key[c]] = c]
  /\ fut' = [fut EXCEPT ![c] = "open"]
  /\ Yield(c, "dial")
  /\ UNCHANGED <<lock, key, using, entry, cacheVars, forwardVars>>

FaultyRetries(c) ==
  UNCHANGED using /\ Yield(c, "wait")
\* _OwnerCancelled sends a waiter back through connect().
Retries(c) ==
  using' = [using EXCEPT ![c] = None] /\ Continue(c, "sweep")

\* A waiter resumes once the future it awaits is done.  An error or a cancelled
\* future ends it.
WaiterResumes(c) ==
  /\ running = None
  /\ pc[c] = "wait"
  /\ \/ fut[using[c]] = "result" /\ Connected(c) /\ UNCHANGED using
     \/ fut[using[c]] = "ownerCancelled" /\ Retries(c)
     \/ /\ fut[using[c]] \in {"error", "cancelled"}
        /\ using' = [using EXCEPT ![c] = None]
        /\ Yield(c, "done")
  /\ UNCHANGED <<lock, lockq, key, entry, slotVars, cacheVars, forwardVars>>

FaultyAfterDial(c, opened) ==
  /\ conn' = [conn EXCEPT ![c] = opened]
  /\ Continue(c, "cache")

\* After the dial the owner looks whether close_all cancelled its future and
\* if so closes the connection instead of caching it.
AfterDial(c, opened) ==
  IF fut[c] = "cancelled"
    THEN /\ conn' = [conn EXCEPT ![c] = "shut"]
         /\ Continue(c, "discard")
    ELSE /\ conn' = [conn EXCEPT ![c] = opened]
         /\ Continue(c, "cache")

\* asyncssh.connect returns a connection; accept-new records an unknown
\* host's key first, in a thread.
DialSucceeds(c) ==
  /\ running = None
  /\ pc[c] = "dial"
  /\ \/ AfterDial(c, "open")
     \/ /\ AcceptNew
        /\ conn' = [conn EXCEPT ![c] = "open"]
        /\ Yield(c, "persist")
  /\ UNCHANGED <<lock, lockq, key, using, entry, slotVars, conns, pins, older,
                 forwardVars>>

\* _persist_host_key returns; its own errors are swallowed.
HostKeyPersisted(c) ==
  /\ running = None
  /\ pc[c] = "persist"
  /\ AfterDial(c, conn[c])
  /\ UNCHANGED <<lock, lockq, key, using, entry, slotVars, conns, pins, older,
                 forwardVars>>

DialFails(c) ==
  /\ running = None
  /\ pc[c] = "dial"
  /\ Continue(c, "failed")
  /\ UNCHANGED <<lock, lockq, key, using, entry, slotVars, cacheVars,
                 forwardVars>>

FaultyReleaseSlot(c) == pending' = [pending EXCEPT ![key[c]] = None]
FaultyKeepSlot(c) == UNCHANGED pending
\* Pop the slot only if it still holds our future.
ReleaseSlot(c) ==
  pending' = [k \in Keys |-> IF k = key[c] /\ pending[k] = c
                               THEN None ELSE pending[k]]

\* The handler of the dial: free the slot if it is still ours, then resolve
\* the future, so that waiters retry after a cancellation and fail after an
\* error.
ConnectRaises(c) ==
  /\ pc[c] \in {"failed", "cancelled"}
  /\ Grant(c)
  /\ ReleaseSlot(c)
  /\ fut' = [fut EXCEPT ![c] =
               IF @ # "open" THEN @
               ELSE IF pc[c] = "failed" THEN "error" ELSE "ownerCancelled"]
  /\ Yield(c, "done")
  /\ UNCHANGED <<lock, key, using, entry, cacheVars, forwardVars>>

\* The future was cancelled by close_all: free the slot and give up.
ConnectDiscards(c) ==
  /\ pc[c] = "discard"
  /\ Grant(c)
  /\ ReleaseSlot(c)
  /\ Yield(c, "done")
  /\ UNCHANGED <<lock, key, using, entry, fut, cacheVars, forwardVars>>

FaultySelectConnEvictions(need) ==
  LET overflow == Cardinality(Cached) - MaxConns
  IN  {e \in Unpinned : /\ MaxConns > 0
                        /\ Cardinality(older[e] \cap Unpinned) < overflow}

\* _select_conn_evictions: the least recently used unpinned entries that must
\* go so that `need` more fit.
SelectConnEvictions(need) ==
  LET overflow == Cardinality(Cached) + need - MaxConns
  IN  {e \in Unpinned : /\ MaxConns > 0
                        /\ Cardinality(older[e] \cap Unpinned) < overflow}

\* The owner caches its connection, frees the slot and resolves the future.
\* set_result raises on a future that close_all cancelled meanwhile, before
\* the evicted connections are closed.
ConnectCaches(c) ==
  /\ pc[c] = "cache"
  /\ Grant(c)
  /\ LET doomed == SelectConnEvictions(IF conns[key[c]] = None THEN 1 ELSE 0)
         gone == doomed \cup {conns[key[c]]}
     IN  /\ conns' = [Drop(conns, doomed) EXCEPT ![key[c]] = c]
         /\ older' = [Forget(gone) EXCEPT ![c] = Cached \ gone]
         /\ IF fut[c] = "open"
              THEN /\ fut' = [fut EXCEPT ![c] = "result"]
                   /\ conn' = Closed(doomed, "evicted")
                   /\ using' = [using EXCEPT ![c] = c]
                   /\ Connected(c)
              ELSE Yield(c, "done") /\ UNCHANGED <<fut, conn, using>>
  /\ ReleaseSlot(c)
  /\ UNCHANGED <<lock, key, entry, pins, forwardVars>>

-----------------------------------------------------------------------------
(* Pins and their holders.                                                 *)

\* open_process: the remote PTY opens, or the server or a dead connection
\* refuses it.
CreateProcess(c) ==
  /\ running = None
  /\ pc[c] = "create"
  /\ \/ conn[using[c]] = "open" /\ Continue(c, "pin")
     \/ Yield(c, "done")
  /\ UNCHANGED <<lock, lockq, key, using, entry, slotVars, cacheVars,
                 forwardVars>>

FaultyPinned(n) == 1
Pinned(n) == n + 1
FaultyReleased(n) == n - 2
Released(n) == IF n > 0 THEN n - 1 ELSE n

\* _pin, which finds nothing when the connection is no longer cached.
Pin(c) ==
  /\ pc[c] = "pin"
  /\ Grant(c)
  /\ IF using[c] \in Cached
       THEN /\ pins' = [pins EXCEPT ![using[c]] = Pinned(@)]
            /\ entry' = [entry EXCEPT ![c] = using[c]]
            /\ older' = Touch(using[c])
       ELSE UNCHANGED <<pins, entry, older>>
  /\ Yield(c, CASE c \in Runs -> "work"
                [] c \in Spawns -> "live"
                [] OTHER -> "listen")
  /\ UNCHANGED <<lock, key, using, slotVars, conns, conn, forwardVars>>

\* The body of run() or of a transfer ends: result, timeout or error.
WorkEnds(c) ==
  /\ running = None
  /\ pc[c] = "work"
  /\ Continue(c, "unpin")
  /\ UNCHANGED <<lock, lockq, key, using, entry, slotVars, cacheVars,
                 forwardVars>>

\* The session's transport is closed: by the registry's own teardown task
\* ("release", nobody cancels it), or by the call when the registry refused it.
SessionEnds(c) ==
  /\ running = None
  /\ pc[c] = "live"
  /\ \/ Continue(c, "release")
     \/ Continue(c, "unpin")
  /\ UNCHANGED <<lock, lockq, key, using, entry, slotVars, cacheVars,
                 forwardVars>>

\* _unpin, a no-op without an entry; it refreshes last_used.
Unpin(c) ==
  /\ pc[c] \in {"unpin", "release"}
  /\ IF entry[c] = None
       THEN running = c /\ UNCHANGED <<lockq, pins, older>>
       ELSE /\ Grant(c)
            /\ pins' = [pins EXCEPT ![entry[c]] = Released(@)]
            /\ older' = IF entry[c] \in Cached THEN Touch(entry[c]) ELSE older
  /\ entry' = [entry EXCEPT ![c] = None]
  /\ Yield(c, "done")
  /\ UNCHANGED <<lock, key, using, slotVars, conns, conn, forwardVars>>

-----------------------------------------------------------------------------
(* Port forwards.                                                          *)

\* The listener opens, or the attempt fails and the pin is given back.
Listen(c) ==
  /\ running = None
  /\ pc[c] = "listen"
  /\ \/ /\ conn[using[c]] = "open"
        /\ listener' = [listener EXCEPT ![c] = "open"]
        /\ Continue(c, "track")
     \/ Continue(c, "unpin") /\ UNCHANGED listener
  /\ UNCHANGED <<lock, lockq, key, using, entry, slotVars, cacheVars, forwards>>

\* Track the handle if a slot is left; otherwise close the listener and await
\* its close with the lock held.
TrackForward(c) ==
  /\ pc[c] = "track"
  /\ Grant(c)
  /\ IF ForwardSlotFree
       THEN /\ forwards' = forwards \cup {c}
            /\ Yield(c, "tracked")
            /\ UNCHANGED <<lock, listener>>
       ELSE /\ listener' = [listener EXCEPT ![c] = "closed"]
            /\ lock' = c
            /\ Yield(c, "lose")
            /\ UNCHANGED forwards
  /\ UNCHANGED <<key, using, entry, slotVars, cacheVars>>

\* wait_closed of the losing listener ends (returns, raises or is cancelled);
\* the lock is released and the call gives its pin back.
LoserClosed(c) ==
  /\ running = None
  /\ pc[c] = "lose"
  /\ lock' = None
  /\ Continue(c, "unpin")
  /\ UNCHANGED <<lockq, key, using, entry, slotVars, cacheVars, forwardVars>>

\* close_forward: pop the handle, close its listener and await that; the pin
\* of the handle is now the closer's to give back.  Unknown ids are refused.
PopForward(c) ==
  /\ pc[c] = "pop"
  /\ Grant(c)
  /\ \E f \in Forwarders :
       \/ /\ f \in forwards
          /\ forwards' = forwards \ {f}
          /\ listener' = [listener EXCEPT ![f] = "closed"]
          /\ entry' = [entry EXCEPT ![c] = entry[f], ![f] = None]
          /\ Yield(c, "fclose")
       \/ /\ f \notin forwards
          /\ Yield(c, "done")
          /\ UNCHANGED <<entry, forwardVars>>
  /\ UNCHANGED <<lock, key, using, slotVars, cacheVars>>

ForwardClosed(c) ==
  /\ running = None
  /\ pc[c] = "fclose"
  /\ Continue(c, "unpin")
  /\ UNCHANGED <<lock, lockq, key, using, entry, slotVars, cacheVars,
                 forwardVars>>

\* close_all: forget every forward, entry and in-flight connect, cancel the
\* futures, close the listeners and the connections; no pin is given back.
CloseAll(c) ==
  /\ pc[c] = "drop"
  /\ Grant(c)
  /\ LET owners == {pending[k] : k \in Keys} \ {None} IN
       fut' = [o \in Calls |-> IF o \in owners /\ fut[o] = "open"
                                 THEN "cancelled" ELSE fut[o]]
  /\ pending' = [k \in Keys |-> None]
  /\ conns' = [k \in Keys |-> None]
  /\ conn' = Closed(Cached, "shut")
  /\ older' = [e \in Calls |-> {}]
  /\ forwards' = {}
  /\ listener' = [f \in Calls |-> IF f \in forwards THEN "closed" ELSE listener[f]]
  /\ entry' = [f \in Calls |-> IF f \in forwards THEN None ELSE entry[f]]
  /\ Yield(c, "done")
  /\ UNCHANGED <<lock, key, using, pins>>

-----------------------------------------------------------------------------
(* Cancellation and the network.                                           *)

FaultyCancelSkipsHandler(p) ==
  IF p \in {"work", "listen", "track"} THEN "unpin" ELSE "done"

\* Where CancelledError takes a call: to the handler or the finally block
\* that encloses the await, or out of the call.
AfterCancel(p) ==
  CASE p \in {"dial", "persist"} -> "cancelled"
    [] p \in {"work", "listen", "track"} -> "unpin"
    [] OTHER -> "done"

\* The MCP layer cancels c at the await it is suspended on.  A cancel at the
\* lock leaves the queue; a cancelled close_forward, or a cancelled wait for
\* the lock of _unpin, drops the reference to the pin.
Cancel(c) ==
  /\ running = None
  /\ c \in Cancellable
  /\ \/ /\ pc[c] \in {"wait", "dial", "persist", "create", "work", "listen",
                     "fclose"}
        /\ UNCHANGED lockq
     \/ /\ c \in {lockq[i] : i \in DOMAIN lockq}
        /\ pc[c] # "release"
        /\ lockq' = SelectSeq(lockq, LAMBDA d : d # c)
  /\ IF AfterCancel(pc[c]) = "done"
       THEN /\ Yield(c, "done")
            /\ entry' = [entry EXCEPT ![c] = None]
            /\ using' = [using EXCEPT ![c] = None]
       ELSE /\ Continue(c, AfterCancel(pc[c]))
            /\ UNCHANGED <<entry, using>>
  /\ listener' = [listener EXCEPT ![c] = IF pc[c] = "track" THEN "closed" ELSE @]
  /\ UNCHANGED <<lock, key, slotVars, cacheVars, forwards>>

\* The peer or the network ends an open connection.
ConnDies(e) ==
  /\ running = None
  /\ conn[e] = "open"
  /\ conn' = [conn EXCEPT ![e] = "dead"]
  /\ UNCHANGED <<running, lock, lockq, pc, key, using, entry, slotVars, conns,
                 pins, older, forwardVars>>

\* Every call has ended; tracked forwards may stay for ever.
Quiesced ==
  /\ \A c \in Calls : pc[c] \in {"tracked", "done"}
  /\ UNCHANGED vars

-----------------------------------------------------------------------------
\* Steps of the task of c that the event loop, or a timeout of the code, brings
\* about.
Progress(c) ==
  \/ Blocked(c)
  \/ ForwardPrecheck(c)
  \/ SweepConns(c)
  \/ ConnectHit(c) \/ ConnectJoin(c) \/ ConnectOwn(c)
  \/ WaiterResumes(c)
  \/ DialSucceeds(c) \/ DialFails(c)
  \/ HostKeyPersisted(c)
  \/ ConnectRaises(c) \/ ConnectDiscards(c) \/ ConnectCaches(c)
  \/ Pin(c) \/ Unpin(c)
  \/ TrackForward(c) \/ PopForward(c) \/ CloseAll(c)

\* Steps that wait for a peer or a client with no time limit in this code.
Unbounded(c) ==
  \/ CreateProcess(c) \/ WorkEnds(c) \/ SessionEnds(c)
  \/ Listen(c) \/ LoserClosed(c) \/ ForwardClosed(c)

Next ==
  \/ \E c \in Calls : \/ Progress(c)
                      \/ Unbounded(c)
                      \/ Cancel(c)
                      \/ ConnDies(c)
                      \/ \E k \in TargetsOf(c) : Start(c, k)
  \/ Quiesced

Spec == Init /\ [][Next]_vars

\* connect_timeout bounds every dial and the loop runs ready tasks in turn, so
\* Progress is fair.  Calls need not arrive, peers need not answer and sessions
\* need not end.
FairSpec == Spec /\ \A c \in Calls : WF_vars(Progress(c))

-----------------------------------------------------------------------------
(* Correctness.                                                            *)

Holders(e) == {c \in Calls : entry[c] = e}
\* The places of a call that connect() gave a connection it still uses.
UserPCs == {"create", "pin", "work", "live", "listen", "track", "tracked"}

\* Concurrent callers for one target share a single dial: two calls never have
\* a live connect() future for the same key, whatever close_all, cancellations
\* and retries did to the slot in between.
SingleFlight ==
  \A c, d \in Calls :
    fut[c] = "open" /\ fut[d] = "open" /\ key[c] = key[d] => c = d

\* The slot of a key names exactly the owner of the unresolved future: no
\* caller can find a resolved future in _pending or miss an unresolved one.
SlotIffOpen ==
  \A c \in Calls, k \in Keys :
    pending[k] = c <=> (fut[c] = "open" /\ key[c] = k)

\* Neither the idle sweep nor the LRU eviction closes a connection that a
\* session, a forward, a run or a transfer has pinned.
HolderNotEvicted ==
  \A c \in Calls : entry[c] # None => conn[entry[c]] # "evicted"

\* No pin is lost: an entry has at least one pin per holder, though _unpin
\* runs for entries that close_all has already forgotten.
PinsCoverHolders == \A e \in Calls : pins[e] >= Cardinality(Holders(e))

\* Every open connection is in the cache, where a sweep or close_all will find
\* it, or in the hands of the call that is about to cache or close it; and a
\* connect that close_all cancelled never caches its connection behind its back.
NoConnLeak ==
  \A e \in Calls :
    /\ conn[e] = "open" => e \in Cached \/ pc[e] \in {"persist", "cache"}
    /\ e \in Cached => fut[e] # "cancelled"

\* An eviction takes only connections not in use: no connection that connect()
\* has handed to a call is closed under it to make room.
InUseNotEvicted ==
  \A c \in Calls : pc[c] \in UserPCs => conn[using[c]] # "evicted"

\* The forward cap holds, and every open listener is named by a tracked handle
\* (so close_forward can reach it) or is about to be.
ForwardsAccounted ==
  /\ Cardinality(forwards) <= MaxForwards
  /\ \A f \in Calls : listener[f] = "open" => f \in forwards \/ pc[f] = "track"

\* The cache outgrows max_conns only when every other entry is pinned.
CapExceededOnlyByPins ==
  [][ Cardinality(Cached') > Cardinality(Cached) /\ Cardinality(Cached') > MaxConns
        /\ MaxConns > 0
      => \A e \in Cached : pins[e] > 0 ]_vars

\* A caller that waits for another caller's dial always gets an answer.
WaitersAnswered == \A c \in Calls : pc[c] = "wait" ~> pc[c] # "wait"

=============================================================================
