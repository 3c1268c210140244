----------------------- MODULE SessionRegistryProofs -----------------------
(***************************************************************************)
(* The safety of the session registry, proved for any number of sessions   *)
(* and recv() calls, any cap and any buffer size.                          *)
(*                                                                         *)
(* None of the properties is inductive.  What they rest on is Life (where  *)
(* a session is in its life says what its child, its reader and its record *)
(* of removal are, and the reader is over exactly when the session is      *)
(* closed) and Attached (a recv() that waits or has answered has a         *)
(* session).                                                               *)
(***************************************************************************)
EXTENDS SessionRegistry, Sequences, FiniteSetTheorems, TLAPS

Stages == {"none", "adding", "refusing", "registered", "doomed", "gone"}

Typed ==
  /\ stage \in [Sids -> Stages]
  /\ child \in [Sids -> {"none", "alive", "exited"}]
  /\ reader \in [Sids -> {"none", "running", "done"}]
  /\ buffer \in [Sids -> Nat]
  /\ produced \in [Sids -> Nat]
  /\ dropped \in [Sids -> Nat]
  /\ delivered \in [Sids -> Nat]
  /\ closed \in [Sids -> BOOLEAN]
  /\ waiters \in [Sids -> Int]
  /\ removedBy \in [Sids -> {"none", "sweep", "close", "shutdown"}]
  /\ rpc \in [Recvs -> {"idle", "parked", "woken", "done"}]
  /\ rsid \in [Recvs -> Sids \cup {None}]
  /\ result \in [Recvs -> {"none", "data", "ended", "timeout", "cancelled"}]

Life ==
  \A s \in Sids :
    /\ stage[s] = "none" => child[s] = "none"
    /\ stage[s] = "gone" => child[s] = "exited"
    /\ stage[s] \in {"none", "adding"} => reader[s] = "none"
    /\ stage[s] \in {"none", "adding", "registered"} => removedBy[s] = "none"
    /\ closed[s] <=> reader[s] = "done"

Attached ==
  \A r \in Recvs :
    /\ rpc[r] # "done" => result[r] = "none"
    /\ Active(r) \/ result[r] # "none" => rsid[r] \in Sids

Inv ==
  /\ Typed /\ Life /\ Attached
  /\ NoLostWakeup /\ SessionsBounded /\ SweepSparesWaiters /\ BytesConserved

-----------------------------------------------------------------------------
(* Where recv() cuts.                                                      *)

\* A number of a set that all others of it do not exceed is its Max.
LEMMA MaxKnown ==
  ASSUME NEW S \in SUBSET Int, NEW x \in S, \A y \in S : y <= x
  PROVE  Utf8!Max(S) = x
<1>1. \E z \in S : \A y \in S : z >= y
  OBVIOUS
<1>2. Utf8!Max(S) \in S /\ \A y \in S : Utf8!Max(S) >= y
  BY <1>1 DEF Utf8!Max
<1>3. PICK m : m = Utf8!Max(S)
  OBVIOUS
<1>4. m \in S /\ m \in Int /\ x \in Int /\ m >= x /\ m <= x
  BY <1>2, <1>3
<1> QED
  BY <1>3, <1>4

\* _utf8_cut takes something of a buffer of any length, at most the limit, and where
\* what it leaves begins with a continuation byte, there was no better place: the
\* three bytes in front are continuation bytes too, as far as they may be left.
LEMMA CutFacts ==
  ASSUME NEW data \in Seq({"lead", "cont"}), Len(data) > 0,
         NEW limit \in Nat \ {0}
  PROVE  /\ Utf8!Cut(data, limit) \in 1 .. Len(data)
         /\ Utf8!Cut(data, limit) <= limit
         /\ Utf8!Cut(data, limit) < Len(data) /\ Utf8!Continuation(data, Utf8!Cut(data, limit)) =>
              /\ Utf8!Cut(data, limit) = limit
              /\ \A k \in 1 .. limit : limit - k < 4 => Utf8!Continuation(data, k)
<1> DEFINE Cont(n) == Utf8!Continuation(data, n)
           S == {e \in 0 .. limit : e = 0 \/ limit - e >= 4 \/ ~Cont(e)}
<1>1. Len(data) \in Nat /\ limit \in Nat /\ limit > 0
  OBVIOUS
<1>2. CASE Len(data) <= limit
  <2>1. Utf8!Cut(data, limit) = Len(data)
    BY <1>2 DEF Utf8!Cut
  <2> QED
    BY <1>1, <1>2, <2>1
<1>3. CASE ~(Len(data) <= limit)
  <2>1. PICK m \in S : \A e \in S : e <= m
    <3>1. ASSUME NEW m \in S, \A e \in m + 1 .. limit : e \notin S
          PROVE  \E x \in S : \A e \in S : e <= x
      <4>1. \A e \in S : e <= m
        BY <1>1, <3>1
      <4> QED
        BY <4>1
    <3>2. CASE limit \in S
      BY <1>1, <3>1, <3>2
    <3>3. CASE limit \notin S /\ limit - 1 \in S
      BY <1>1, <3>1, <3>3
    <3>4. CASE limit \notin S /\ limit - 1 \notin S /\ limit - 2 \in S
      BY <1>1, <3>1, <3>4
    <3>5. CASE limit \notin S /\ limit - 1 \notin S /\ limit - 2 \notin S /\ limit - 3 \in S
      BY <1>1, <3>1, <3>5
    <3>6. CASE limit \notin S /\ limit - 1 \notin S /\ limit - 2 \notin S /\ limit - 3 \notin S
      <4>1. limit > 3
        BY <1>1, <3>6
      <4>2. limit - 4 \in S
        BY <1>1, <4>1
      <4>3. \A e \in (limit - 4) + 1 .. limit : e = limit \/ e = limit - 1 \/ e = limit - 2 \/ e = limit - 3
        BY <1>1
      <4> HIDE DEF S
      <4> QED
        BY <3>1, <3>6, <4>2, <4>3
    <3> QED
      BY <3>2, <3>3, <3>4, <3>5, <3>6
  <2>2. Utf8!Max(S) = m
    <3>1. S \in SUBSET Int
      BY <1>1
    <3> HIDE DEF S
    <3> QED
      BY <2>1, <3>1, MaxKnown
  <2>3. Utf8!Cut(data, limit) = IF m > 0 /\ ~Cont(m) THEN m ELSE limit
    <3>1. Utf8!Cut(data, limit) = IF Utf8!Max(S) > 0 /\ ~Cont(Utf8!Max(S)) THEN Utf8!Max(S) ELSE limit
      BY <1>3 DEF Utf8!Cut
    <3> QED
      BY <2>2, <3>1
  <2>4. m \in Nat /\ m <= limit
    BY <1>1, <2>1
  <2>5. CASE m > 0 /\ ~Cont(m)
    BY <1>1, <1>3, <2>3, <2>4, <2>5
  <2>6. CASE ~(m > 0 /\ ~Cont(m))
    <3>1. Utf8!Cut(data, limit) = limit
      BY <2>3, <2>6
    <3>2. ASSUME NEW k \in 1 .. limit, limit - k < 4, ~Cont(k)
          PROVE  FALSE
      <4>1. k \in S /\ k <= m
        BY <1>1, <2>1, <3>2
      <4>2. m > 0 /\ ~(limit - m >= 4)
        BY <1>1, <2>4, <3>2, <4>1
      <4>3. ~Cont(m)
        BY <2>1, <4>2
      <4> QED
        BY <2>6, <4>2, <4>3
    <3> QED
      BY <1>1, <1>3, <3>1, <3>2
  <2> QED
    BY <2>5, <2>6
<1> QED
  BY <1>2, <1>3

\* The buffer of a session as _utf8_cut sees it.
LEMMA ContentFacts ==
  ASSUME NEW s \in Sids, buffer[s] \in Nat
  PROVE  Content(s) \in Seq({"lead", "cont"}) /\ Len(Content(s)) = buffer[s]
<1>1. Content(s) \in [1 .. buffer[s] -> {"lead", "cont"}]
  BY DEF Content
<1> QED
  BY <1>1

\* A recv() that finds output takes some of it, and at most max_bytes.
LEMMA TakeFacts ==
  ASSUME NEW s \in Sids, buffer[s] \in Nat, buffer[s] > 0
  PROVE  /\ Utf8!Cut(Content(s), MaxTake) \in 1 .. buffer[s]
         /\ Utf8!Cut(Content(s), MaxTake) <= MaxTake
<1>1. MaxTake \in Nat \ {0}
  BY BoundsAssumption
<1> QED
  BY <1>1, ContentFacts, CutFacts

-----------------------------------------------------------------------------
(* The shapes of a step.                                                   *)

\* A recv() of session s looks at the buffer: w is 0 for a call that arrives and
\* -1 for one that waited.
Looks(r, s, w) ==
  /\ \/ w = 0 /\ rpc[r] = "idle" /\ stage[s] = "registered"
     \/ w = -1 /\ Active(r) /\ rsid[r] = s
  /\ rsid' = [rsid EXCEPT ![r] = s]
  /\ \/ RecvTakes(r, s, w) \/ RecvSeesEnd(r, s, w)
     \/ RecvTimesOut(r, s, w) \/ RecvParks(r, s, w)
  /\ UNCHANGED <<stage, child, reader, produced, dropped, closed, removedBy>>

\* The sessions of S leave the registry.
Leaves(S, by) ==
  /\ Removed(S, by)
  /\ UNCHANGED <<child, reader, output, closed, waiters, recvVars>>

\* The reader of s reports: bytes, or its own end.
Reports(s) ==
  \/ \E n \in 1..BufferCap + 1 : Sink(s, n)
  \/ ReaderEnds(s)
  \/ TeardownReader(s)

\* Steps of one session that change neither its output nor a recv().
Lives(s) ==
  \/ Spawn(s) \/ AddResumes(s) \/ CancelAdd(s) \/ Refused(s)
  \/ CancelCaller(s) \/ ChildExits(s) \/ TeardownTransport(s)
  \/ Use(s) \/ GrowOlder(s)

\* Every way a recv() can look at its session has the shape Looks.
LEMMA LooksShape ==
  ASSUME Typed, Attached, NEW r \in Recvs,
         (\E s \in Sids : Recv(r, s)) \/ RecvWakes(r) \/ RecvTimer(r)
  PROVE  \E s \in Sids, w \in {0, -1} : Looks(r, s, w)
<1>1. CASE \E s \in Sids : Recv(r, s)
  BY <1>1 DEF Recv, Looks
<1>2. CASE RecvWakes(r) \/ RecvTimer(r)
  <2>1. rsid[r] \in Sids /\ Active(r)
    BY <1>2 DEF RecvWakes, RecvTimer, Active, Attached
  <2>2. rsid' = [rsid EXCEPT ![r] = rsid[r]]
    BY <1>2 DEF RecvWakes, RecvTimer, Typed
  <2>3. Looks(r, rsid[r], -1)
    BY <1>2, <2>1, <2>2 DEF RecvWakes, RecvTimer, Looks
  <2>4. QED
    BY <2>1, <2>3
<1>3. QED
  BY <1>1, <1>2

\* Every step that removes sessions has the shape Leaves: the sweep of list()
\* takes only sessions nobody waits on.
LEMMA LeavesShape ==
  ASSUME Typed, List \/ Shutdown \/ (\E s \in Sids : Close(s))
  PROVE  \E S \in SUBSET Registered, by \in {"sweep", "close", "shutdown"} :
           Leaves(S, by) /\ (by = "sweep" => \A s \in S : waiters[s] = 0)
<1>1. CASE List
  <2>1. Swept \subseteq Registered /\ \A s \in Swept : waiters[s] = 0
    BY DEF Swept, Reapable
  <2>2. Leaves(Swept, "sweep")
    BY <1>1 DEF List, Leaves
  <2>3. QED
    BY <2>1, <2>2
<1>2. CASE Shutdown
  <2>1. Leaves(Registered, "shutdown")
    BY <1>2 DEF Shutdown, Leaves
  <2>2. QED
    BY <2>1
<1>3. CASE \E s \in Sids : Close(s)
  <2>1. PICK s \in Sids : Close(s)
    BY <1>3
  <2>2. {s} \subseteq Registered /\ Leaves({s}, "close")
    BY <2>1 DEF Close, Leaves, Registered
  <2>3. QED
    BY <2>2
<1>4. QED
  BY <1>1, <1>2, <1>3

\* The four shapes and the cancelled recv() are all a step can be.
LEMMA StepShape ==
  ASSUME Typed, Attached, Next
  PROVE  \/ \E s \in Sids : Lives(s) \/ Reports(s)
         \/ \E S \in SUBSET Registered, by \in {"sweep", "close", "shutdown"} :
              Leaves(S, by) /\ (by = "sweep" => \A s \in S : waiters[s] = 0)
         \/ \E r \in Recvs : \/ \E s \in Sids, w \in {0, -1} : Looks(r, s, w)
                             \/ CancelRecv(r)
<1>1. CASE \E r \in Recvs : (\E s \in Sids : Recv(r, s)) \/ RecvWakes(r) \/ RecvTimer(r)
  BY <1>1, LooksShape
<1>2. CASE List \/ Shutdown \/ (\E s \in Sids : Close(s))
  BY <1>2, LeavesShape
<1>3. CASE \E s \in Sids : Lives(s) \/ Reports(s)
  BY <1>3
<1>4. CASE \E r \in Recvs : CancelRecv(r)
  BY <1>4
<1>5. QED
  BY <1>1, <1>2, <1>3, <1>4 DEF Next, Lives, Reports

-----------------------------------------------------------------------------
(* One lemma for each part of the invariant.                               *)

\* Each step keeps the variables in their types.
LEMMA TypedStep ==
  ASSUME Inv, Next
  PROVE  Typed'
<1> USE BoundsAssumption DEF Inv, Stages
<1>1. CASE \E s \in Sids : Lives(s)
  <2>1. PICK s \in Sids : Lives(s)
    BY <1>1
  <2>2. UNCHANGED <<output, waiters, recvVars>>
    BY <2>1 DEF Lives, Spawn, AddResumes, CancelAdd, Refused, CancelCaller,
         ChildExits, TeardownTransport, Use, GrowOlder
  <2>3. /\ stage' \in [Sids -> Stages]
        /\ child' \in [Sids -> {"none", "alive", "exited"}]
        /\ reader' \in [Sids -> {"none", "running", "done"}]
        /\ closed' \in [Sids -> BOOLEAN]
        /\ removedBy' \in [Sids -> {"none", "sweep", "close", "shutdown"}]
    <3>1. CASE Spawn(s)
      BY <3>1 DEF Spawn, Typed
    <3>2. CASE AddResumes(s) \/ CancelAdd(s) \/ Refused(s)
      BY <3>2 DEF AddResumes, CancelAdd, AddCancelled, Refused, Typed
    <3>3. CASE CancelCaller(s) \/ ChildExits(s) \/ TeardownTransport(s)
      BY <3>3 DEF CancelCaller, CallerCancelled, ChildExits, TeardownTransport, Typed
    <3>4. CASE Use(s) \/ GrowOlder(s)
      BY <3>4 DEF Use, GrowOlder, Typed
    <3>5. QED
      BY <2>1, <3>1, <3>2, <3>3, <3>4 DEF Lives
  <2>4. QED
    BY <2>2, <2>3 DEF Typed, output, recvVars
<1>2. CASE \E s \in Sids : Reports(s)
  <2>1. PICK s \in Sids : Reports(s)
    BY <1>2
  <2>2. rpc' \in [Recvs -> {"idle", "parked", "woken", "done"}]
    BY <2>1 DEF Reports, Sink, ReaderEnds, TeardownReader, ReaderDone, WakeAll, Typed
  <2>3. CASE \E n \in 1..BufferCap + 1 : Sink(s, n)
    <3>1. PICK n \in 1..BufferCap + 1 : Sink(s, n)
      BY <2>3
    <3>2. Overflow(s, n) \in Nat /\ buffer[s] + n - Overflow(s, n) \in Nat
      BY DEF Overflow, Typed
    <3>3. QED
      BY <2>2, <3>1, <3>2 DEF Sink, Typed
  <2>4. CASE ReaderEnds(s) \/ TeardownReader(s)
    <3>1. CASE ReaderEnds(s)
      BY <2>2, <3>1 DEF ReaderEnds, ReaderDone, Typed, output
    <3>2. CASE TeardownReader(s)
      BY <2>2, <3>2 DEF TeardownReader, ReaderDone, Typed, output
    <3>3. QED
      BY <2>4, <3>1, <3>2
  <2>5. QED
    BY <2>1, <2>3, <2>4 DEF Reports
<1>3. CASE \E S \in SUBSET Registered, by \in {"sweep", "close", "shutdown"} : Leaves(S, by)
  BY <1>3 DEF Leaves, Removed, Typed, output, recvVars
<1>4. CASE \E r \in Recvs, s \in Sids, w \in {0, -1} : Looks(r, s, w)
  <2>1. PICK r \in Recvs, s \in Sids, w \in {0, -1} : Looks(r, s, w)
    BY <1>4
  <2>2. /\ rpc' \in [Recvs -> {"idle", "parked", "woken", "done"}]
        /\ waiters' \in [Sids -> Int]
        /\ result' \in [Recvs -> {"none", "data", "ended", "timeout", "cancelled"}]
    BY <2>1 DEF Looks, RecvTakes, RecvSeesEnd, RecvTimesOut, RecvParks, RecvReturns, Typed
  <2>3. buffer' \in [Sids -> Nat] /\ delivered' \in [Sids -> Nat]
    <3>1. CASE RecvTakes(r, s, w)
      BY <3>1, TakeFacts DEF RecvTakes, Typed
    <3>2. CASE ~RecvTakes(r, s, w)
      BY <2>1, <3>2 DEF Looks, RecvSeesEnd, RecvTimesOut, RecvParks, Typed
    <3>3. QED
      BY <3>1, <3>2
  <2>4. QED
    BY <2>1, <2>2, <2>3 DEF Looks, Typed
<1>5. CASE \E r \in Recvs : CancelRecv(r)
  <2>1. PICK r \in Recvs : CancelRecv(r)
    BY <1>5
  <2>2. rsid[r] \in Sids
    BY <2>1 DEF CancelRecv, Attached, Active
  <2>3. QED
    BY <2>1, <2>2 DEF CancelRecv, CancelledWaiter, Typed, output
<1>6. QED
  BY <1>1, <1>2, <1>3, <1>4, <1>5, StepShape

\* A session that left the registry has lost its child, a reader runs only for a
\* session that was added, and the buffer is closed exactly when it has ended.
LEMMA LifeStep ==
  ASSUME Inv, Next
  PROVE  Life'
<1> USE DEF Inv, Stages
<1>1. CASE \E s \in Sids : Lives(s)
  <2>1. PICK s \in Sids : Lives(s)
    BY <1>1
  <2>2. CASE Spawn(s)
    <3>1. \A t \in Swept : t \in Sids /\ stage[t] = "registered"
      BY DEF Swept, Registered
    <3>2. QED
      BY <2>2, <3>1 DEF Spawn, Life, Typed
  <2>3. CASE ~Spawn(s)
    BY <2>1, <2>3 DEF Lives, AddResumes, CancelAdd, AddCancelled, Refused,
       CancelCaller, CallerCancelled, ChildExits, TeardownTransport, Use, GrowOlder, Life, Typed
  <2>4. QED
    BY <2>2, <2>3
<1>2. CASE \E s \in Sids : Reports(s)
  BY <1>2 DEF Reports, Sink, ReaderEnds, TeardownReader, ReaderDone, Life, Typed
<1>3. CASE \E S \in SUBSET Registered, by \in {"sweep", "close", "shutdown"} : Leaves(S, by)
  BY <1>3 DEF Leaves, Removed, Registered, Life, Typed
<1>4. CASE \E r \in Recvs, s \in Sids, w \in {0, -1} : Looks(r, s, w)
  BY <1>4 DEF Looks, Life
<1>5. CASE \E r \in Recvs : CancelRecv(r)
  BY <1>5 DEF CancelRecv, Life
<1>6. QED
  BY <1>1, <1>2, <1>3, <1>4, <1>5, StepShape

\* A recv() under way or finished knows its session, and has no result before it
\* is done.
LEMMA AttachedStep ==
  ASSUME Inv, Next
  PROVE  Attached'
<1> USE DEF Inv
<1>1. CASE UNCHANGED recvVars
  BY <1>1 DEF recvVars, Attached, Active
<1>2. CASE \E s \in Sids : Reports(s)
  BY <1>2 DEF Reports, Sink, ReaderEnds, TeardownReader, ReaderDone, WakeAll,
     Attached, Active, Typed
<1>3. CASE \E r \in Recvs, s \in Sids, w \in {0, -1} : Looks(r, s, w)
  BY <1>3 DEF Looks, RecvTakes, RecvSeesEnd, RecvTimesOut, RecvParks, RecvReturns,
     Attached, Active, Typed
<1>4. CASE \E r \in Recvs : CancelRecv(r)
  BY <1>4 DEF CancelRecv, Attached, Active, Typed
<1>5. (\E s \in Sids : Lives(s)) => UNCHANGED recvVars
  BY DEF Lives, Spawn, AddResumes, CancelAdd, Refused, CancelCaller, ChildExits,
     TeardownTransport, Use, GrowOlder
<1>6. QED
  BY <1>1, <1>2, <1>3, <1>4, <1>5, StepShape DEF Leaves

\* What wakes the sleepers: the event is set in the very step that adds output
\* or ends the session, and a recv() goes to sleep only on an empty open one.
LEMMA WakeupStep ==
  ASSUME Inv, Next
  PROVE  NoLostWakeup'
<1> USE DEF Inv
<1>1. CASE \E s \in Sids : Lives(s)
  <2>1. PICK s \in Sids : Lives(s)
    BY <1>1
  <2>2. UNCHANGED <<buffer, rpc, rsid>>
    BY <2>1 DEF Lives, Spawn, AddResumes, CancelAdd, Refused, CancelCaller,
       ChildExits, TeardownTransport, Use, GrowOlder, output, recvVars
  <2>3. \A t \in Sids : closed'[t] => closed[t]
    BY <2>1 DEF Lives, Spawn, AddResumes, CancelAdd, Refused, CancelCaller,
       ChildExits, TeardownTransport, Use, GrowOlder, Typed, Life
  <2>4. QED
    BY <2>2, <2>3 DEF NoLostWakeup, Attached, Active
<1>2. CASE \E s \in Sids : Reports(s)
  <2>1. PICK s \in Sids : Reports(s)
    BY <1>2
  <2>2. rsid' = rsid /\ \A r \in Recvs : rpc'[r] = "parked" => rpc[r] = "parked" /\ rsid[r] # s
    BY <2>1 DEF Reports, Sink, ReaderEnds, TeardownReader, ReaderDone, WakeAll, Typed
  <2>3. \A t \in Sids : t # s => buffer'[t] = buffer[t] /\ closed'[t] = closed[t]
    BY <2>1 DEF Reports, Sink, ReaderEnds, TeardownReader, ReaderDone, Typed, output
  <2>4. QED
    BY <2>2, <2>3 DEF NoLostWakeup, Attached, Active
<1>3. CASE \E S \in SUBSET Registered, by \in {"sweep", "close", "shutdown"} : Leaves(S, by)
  BY <1>3 DEF Leaves, output, recvVars, NoLostWakeup
<1>4. CASE \E r \in Recvs, s \in Sids, w \in {0, -1} : Looks(r, s, w)
  <2>1. PICK r \in Recvs, s \in Sids, w \in {0, -1} : Looks(r, s, w)
    BY <1>4
  <2>2. /\ closed' = closed /\ rsid' = [rsid EXCEPT ![r] = s]
        /\ \A q \in Recvs : q # r => rpc'[q] = rpc[q]
        /\ rpc'[r] = "parked" => buffer[s] = 0 /\ ~closed[s]
    BY <2>1 DEF Looks, RecvTakes, RecvSeesEnd, RecvTimesOut, RecvParks, RecvReturns, Typed
  <2>3. \A t \in Sids : buffer[t] = 0 => buffer'[t] = 0
    BY <2>1 DEF Looks, RecvTakes, RecvSeesEnd, RecvTimesOut, RecvParks, Typed
  <2>4. QED
    BY <2>2, <2>3 DEF NoLostWakeup, Attached, Active, Typed
<1>5. CASE \E r \in Recvs : CancelRecv(r)
  BY <1>5 DEF CancelRecv, output, NoLostWakeup, Typed
<1>6. QED
  BY <1>1, <1>2, <1>3, <1>4, <1>5, StepShape

\* The ring keeps its cap and its books in every step of the reader and of a
\* recv(), and an end that was reported stays the end.
LEMMA BytesStep ==
  ASSUME Inv, Next
  PROVE  BytesConserved'
<1> USE BoundsAssumption DEF Inv
<1>1. CASE /\ UNCHANGED <<output, rsid, result>>
           /\ \A t \in Sids : reader[t] = "done" => reader'[t] = "done"
  BY <1>1 DEF output, BytesConserved, Attached
<1>2. CASE \E s \in Sids : Lives(s)
  <2>1. UNCHANGED <<output, rsid, result>>
    BY <1>2 DEF Lives, Spawn, AddResumes, CancelAdd, Refused, CancelCaller,
       ChildExits, TeardownTransport, Use, GrowOlder, recvVars
  <2>2. \A t \in Sids : reader[t] = "done" => reader'[t] = "done"
    BY <1>2 DEF Lives, Spawn, AddResumes, CancelAdd, Refused, CancelCaller,
       ChildExits, TeardownTransport, Use, GrowOlder, Typed, Life
  <2>3. QED
    BY <1>1, <2>1, <2>2
<1>3. CASE \E s \in Sids : ReaderEnds(s) \/ TeardownReader(s)
  BY <1>1, <1>3 DEF ReaderEnds, TeardownReader, ReaderDone, Typed
<1>4. CASE \E s \in Sids, n \in 1..BufferCap + 1 : Sink(s, n)
  <2>1. PICK s \in Sids, n \in 1..BufferCap + 1 : Sink(s, n)
    BY <1>4
  <2>2. /\ Overflow(s, n) \in Nat
        /\ buffer[s] + n - Overflow(s, n) \in 0..BufferCap
    BY DEF Overflow, BytesConserved, Typed
  <2>3. /\ produced' = [produced EXCEPT ![s] = @ + n]
        /\ buffer' = [buffer EXCEPT ![s] = @ + n - Overflow(s, n)]
        /\ dropped' = [dropped EXCEPT ![s] = @ + Overflow(s, n)]
        /\ delivered' = delivered /\ reader' = reader /\ reader[s] = "running"
        /\ UNCHANGED <<rsid, result>>
    BY <2>1 DEF Sink
  <2> HIDE DEF Inv
  <2>4. \A t \in Sids : /\ produced'[t] = dropped'[t] + delivered'[t] + buffer'[t]
                        /\ buffer'[t] <= BufferCap
    BY <2>2, <2>3 DEF Inv, BytesConserved, Typed
  <2>5. \A r \in Recvs : result[r] = "ended" => rsid[r] # s
    BY <2>3 DEF Inv, BytesConserved
  <2>6. QED
    BY <2>3, <2>4, <2>5 DEF Inv, BytesConserved, Attached, Typed
<1>5. CASE \E S \in SUBSET Registered, by \in {"sweep", "close", "shutdown"} : Leaves(S, by)
  BY <1>1, <1>5 DEF Leaves, recvVars
<1>6. CASE \E r \in Recvs, s \in Sids, w \in {0, -1} : Looks(r, s, w)
  <2>1. PICK r \in Recvs, s \in Sids, w \in {0, -1} : Looks(r, s, w)
    BY <1>6
  <2>2. UNCHANGED <<produced, dropped, reader, closed>>
    BY <2>1 DEF Looks
  <2>3. \A t \in Sids : /\ buffer'[t] + delivered'[t] = buffer[t] + delivered[t]
                        /\ buffer'[t] <= buffer[t] /\ buffer'[t] \in Nat
    <3>1. CASE RecvTakes(r, s, w)
      BY <3>1, TakeFacts DEF RecvTakes, Typed
    <3>2. CASE ~RecvTakes(r, s, w)
      BY <2>1, <3>2 DEF Looks, RecvSeesEnd, RecvTimesOut, RecvParks, Typed
    <3>3. QED
      BY <3>1, <3>2
  <2>4. /\ rsid' = [rsid EXCEPT ![r] = s]
        /\ \A q \in Recvs : q # r => result'[q] = result[q]
        /\ result'[r] = "ended" => (buffer'[s] = 0 /\ reader[s] = "done")
    BY <2>1 DEF Looks, RecvTakes, RecvSeesEnd, EndOfOutput, RecvTimesOut, RecvParks,
       RecvReturns, Typed, Life, Attached, Active, BytesConserved
  <2>5. ASSUME NEW t \in Sids
        PROVE  /\ produced'[t] = dropped'[t] + delivered'[t] + buffer'[t]
               /\ buffer'[t] <= BufferCap
    <3>1. delivered'[t] \in Nat
      BY TypedStep DEF Typed
    <3>2. /\ produced[t] = dropped[t] + delivered[t] + buffer[t]
          /\ buffer[t] <= BufferCap
          /\ {produced[t], dropped[t], delivered[t], buffer[t]} \subseteq Nat
      BY DEF BytesConserved, Typed
    <3>3. produced'[t] = produced[t] /\ dropped'[t] = dropped[t]
      BY <2>2
    <3> HIDE DEF Inv
    <3>4. QED
      BY <2>3, <3>1, <3>2, <3>3
  <2>6. ASSUME NEW q \in Recvs, result'[q] = "ended"
        PROVE  buffer'[rsid'[q]] = 0 /\ reader'[rsid'[q]] = "done"
    <3>1. CASE q = r
      BY <2>2, <2>4, <2>6, <3>1 DEF Typed
    <3>2. CASE q # r
      BY <2>2, <2>3, <2>4, <2>6, <3>2 DEF Typed, BytesConserved, Attached
    <3>3. QED
      BY <3>1, <3>2
  <2>7. QED
    BY <2>5, <2>6 DEF BytesConserved
<1>7. CASE \E r \in Recvs : CancelRecv(r)
  BY <1>7 DEF CancelRecv, output, BytesConserved, Typed
<1>8. QED
  BY <1>2, <1>3, <1>4, <1>5, <1>6, <1>7, StepShape DEF Reports

\* A set with one element more has at most one element more.
LEMMA OneMore ==
  ASSUME NEW R, IsFiniteSet(R), NEW x
  PROVE  IsFiniteSet(R \cup {x}) /\ Cardinality(R \cup {x}) <= Cardinality(R) + 1
<1>1. Cardinality(R) \in Nat
  BY FS_CardinalityType
<1>2. /\ IsFiniteSet(R \cup {x})
      /\ Cardinality(R \cup {x}) = IF x \in R THEN Cardinality(R) ELSE Cardinality(R) + 1
  BY FS_AddElement
<1>3. QED
  BY <1>1, <1>2

\* add() inserts in the step that tests the cap, so a registration adds one
\* session to fewer than MaxSessions.
LEMMA CapStep ==
  ASSUME Inv, Next
  PROVE  SessionsBounded'
<1> USE DEF Inv
<1>1. IsFiniteSet(Registered)
  BY SetsAssumption, FS_Subset DEF Registered
<1>2. CASE Registered' \subseteq Registered
  <2>1. Cardinality(Registered') <= Cardinality(Registered)
    BY <1>1, <1>2, FS_Subset
  <2>2. Cardinality(Registered') \in Nat /\ Cardinality(Registered) \in Nat
    BY <1>1, <1>2, FS_Subset, FS_CardinalityType
  <2>3. QED
    BY <2>1, <2>2, BoundsAssumption DEF SessionsBounded
<1>3. CASE \E s \in Sids : Registered' \subseteq Registered \cup {s} /\ HasRoom
  <2>1. PICK s \in Sids : Registered' \subseteq Registered \cup {s} /\ HasRoom
    BY <1>3
  <2>2. /\ IsFiniteSet(Registered \cup {s})
        /\ Cardinality(Registered \cup {s}) <= Cardinality(Registered) + 1
    <3>1. PICK R : R = Registered
      OBVIOUS
    <3>2. QED
      BY <1>1, <3>1, OneMore
  <2>3. /\ Cardinality(Registered') <= Cardinality(Registered \cup {s})
        /\ IsFiniteSet(Registered')
    BY <2>1, <2>2, FS_Subset
  <2>4. /\ Cardinality(Registered') \in Nat /\ Cardinality(Registered) \in Nat
        /\ Cardinality(Registered \cup {s}) \in Nat
    BY <1>1, <2>2, <2>3, FS_CardinalityType
  <2>5. QED
    BY <2>1, <2>2, <2>3, <2>4, BoundsAssumption DEF SessionsBounded, HasRoom
<1>4. CASE \E s \in Sids : Lives(s)
  <2>1. PICK s \in Sids : Lives(s)
    BY <1>4
  <2>2. \A t \in Sids : t # s /\ stage'[t] = "registered" => stage[t] = "registered"
    BY <2>1 DEF Lives, Spawn, AddResumes, CancelAdd, Refused, CancelCaller,
       ChildExits, TeardownTransport, Use, GrowOlder, Typed
  <2>3. stage'[s] = "registered" => stage[s] = "registered" \/ HasRoom
    BY <2>1 DEF Lives, Spawn, AddResumes, CancelAdd, AddCancelled, Refused, CancelCaller,
       CallerCancelled, ChildExits, TeardownTransport, Use, GrowOlder, Typed
  <2>4. QED
    BY <1>2, <1>3, <2>2, <2>3 DEF Registered
<1>5. CASE \E s \in Sids : Reports(s)
  BY <1>2, <1>5 DEF Reports, Sink, ReaderEnds, TeardownReader, Registered
<1>6. CASE \E S \in SUBSET Registered, by \in {"sweep", "close", "shutdown"} : Leaves(S, by)
  BY <1>2, <1>6 DEF Leaves, Removed, Registered
<1>7. CASE \E r \in Recvs, s \in Sids, w \in {0, -1} : Looks(r, s, w)
  BY <1>2, <1>7 DEF Looks, Registered
<1>8. CASE \E r \in Recvs : CancelRecv(r)
  BY <1>2, <1>8 DEF CancelRecv, Registered
<1>9. QED
  BY <1>4, <1>5, <1>6, <1>7, <1>8, StepShape

\* The recv() calls that wait on s.
WaitersOn(s) == {r \in Recvs : Active(r) /\ rsid[r] = s}

\* Counting: the set of waiters is finite, and one call more or less is one more
\* or one less.
LEMMA WaitersCounted ==
  ASSUME NEW s \in Sids
  PROVE  /\ IsFiniteSet(WaitersOn(s)) /\ Cardinality(WaitersOn(s)) \in Nat
         /\ Cardinality(WaitersOn(s)) = 0 => WaitersOn(s) = {}
         /\ \A r : r \notin WaitersOn(s) =>
              Cardinality(WaitersOn(s) \cup {r}) = Cardinality(WaitersOn(s)) + 1
         /\ \A r : r \in WaitersOn(s) =>
              Cardinality(WaitersOn(s) \ {r}) = Cardinality(WaitersOn(s)) - 1
<1>1. IsFiniteSet(WaitersOn(s))
  BY SetsAssumption, FS_Subset DEF WaitersOn
<1>2. QED
  BY <1>1, FS_CardinalityType, FS_EmptySet, FS_AddElement, FS_RemoveElement

\* SweepSparesWaiters with its second half in terms of WaitersOn.
LEMMA SweepParts ==
  SweepSparesWaiters <=>
    /\ \A r \in Recvs : Active(r) => removedBy[rsid[r]] # "sweep"
    /\ \A s \in Sids : waiters[s] = Cardinality(WaitersOn(s))
BY DEF SweepSparesWaiters, WaitersOn

\* A step that moves no recv() in or out of its wait keeps the count.
LEMMA WaitersFrame ==
  ASSUME Inv, UNCHANGED <<waiters, rsid>>, \A r \in Recvs : Active(r)' <=> Active(r)
  PROVE  \A s \in Sids : waiters'[s] = Cardinality(WaitersOn(s)')
<1>1. \A s \in Sids : WaitersOn(s)' = WaitersOn(s)
  BY DEF WaitersOn
<1>2. QED
  BY <1>1, SweepParts DEF Inv

\* _waiters stays the number of calls that wait, through arrivals, answers,
\* timeouts, renewed waits and cancellations.
LEMMA WaitersStep ==
  ASSUME Inv, Next
  PROVE  \A s \in Sids : waiters'[s] = Cardinality(WaitersOn(s)')
<1>1. CASE \E s \in Sids : Lives(s)
  <2>1. UNCHANGED <<waiters, recvVars>>
    BY <1>1 DEF Lives, Spawn, AddResumes, CancelAdd, Refused, CancelCaller,
       ChildExits, TeardownTransport, Use, GrowOlder
  <2>2. QED
    BY <2>1, WaitersFrame DEF recvVars, Active
<1>2. CASE \E s \in Sids : Reports(s)
  <2>1. UNCHANGED <<waiters, rsid>> /\ \A r \in Recvs : Active(r)' <=> Active(r)
    BY <1>2 DEF Reports, Sink, ReaderEnds, TeardownReader, ReaderDone, WakeAll,
       Active, Inv, Typed
  <2>2. QED
    BY <2>1, WaitersFrame
<1>3. CASE \E S \in SUBSET Registered, by \in {"sweep", "close", "shutdown"} : Leaves(S, by)
  BY <1>3, WaitersFrame DEF Leaves, recvVars, Active
<1>4. CASE \E r \in Recvs, s \in Sids, w \in {0, -1} : Looks(r, s, w)
  <2>1. PICK r \in Recvs, s \in Sids, w \in {0, -1} : Looks(r, s, w)
    BY <1>4
  <2>2. /\ rsid' = [rsid EXCEPT ![r] = s]
        /\ \A q \in Recvs : q # r => rpc'[q] = rpc[q]
        /\ \/ rpc'[r] = "parked" /\ waiters' = [waiters EXCEPT ![s] = @ + 1 + w]
           \/ rpc'[r] = "done" /\ waiters' = [waiters EXCEPT ![s] = @ + w]
    BY <2>1 DEF Looks, RecvTakes, RecvSeesEnd, RecvTimesOut, RecvParks, RecvReturns, Inv, Typed
  <2>3. \A t \in Sids : WaitersOn(t)' = IF t = s /\ rpc'[r] = "parked"
                                        THEN WaitersOn(t) \cup {r} ELSE WaitersOn(t) \ {r}
    BY <2>1, <2>2 DEF WaitersOn, Active, Looks, Inv, Typed
  <2>4. \A t \in Sids : r \in WaitersOn(t) <=> (w = -1 /\ t = s)
    BY <2>1 DEF WaitersOn, Active, Looks
  <2>5. ASSUME NEW t \in Sids
        PROVE  waiters'[t] = Cardinality(WaitersOn(t)')
    <3>1. waiters[t] = Cardinality(WaitersOn(t)) /\ waiters \in [Sids -> Int]
      BY SweepParts DEF Inv, Typed
    <3>2. CASE t # s
      <4>1. WaitersOn(t)' = WaitersOn(t)
        BY <2>3, <2>4, <3>2
      <4>2. QED
        BY <2>2, <3>1, <3>2, <4>1
    <3>3. CASE t = s /\ rpc'[r] = "parked" /\ w = 0
      <4>1. WaitersOn(t)' = WaitersOn(t) \cup {r} /\ r \notin WaitersOn(t)
        BY <2>3, <2>4, <3>3
      <4>2. QED
        BY <2>2, <3>1, <3>3, <4>1, WaitersCounted
    <3>4. CASE t = s /\ rpc'[r] = "parked" /\ w = -1
      <4>1. WaitersOn(t)' = WaitersOn(t)
        BY <2>3, <2>4, <3>4
      <4>2. QED
        BY <2>2, <3>1, <3>4, <4>1
    <3>5. CASE t = s /\ rpc'[r] = "done" /\ w = 0
      <4>1. WaitersOn(t)' = WaitersOn(t)
        BY <2>3, <2>4, <3>5
      <4>2. QED
        BY <2>2, <3>1, <3>5, <4>1
    <3>6. CASE t = s /\ rpc'[r] = "done" /\ w = -1
      <4>1. WaitersOn(t)' = WaitersOn(t) \ {r} /\ r \in WaitersOn(t)
        BY <2>3, <2>4, <3>6
      <4>2. QED
        BY <2>2, <3>1, <3>6, <4>1, WaitersCounted
    <3>7. QED
      BY <2>2, <3>2, <3>3, <3>4, <3>5, <3>6
  <2>6. QED
    BY <2>5
<1>5. CASE \E r \in Recvs : CancelRecv(r)
  <2>1. PICK r \in Recvs : CancelRecv(r)
    BY <1>5
  <2>2. /\ rpc' = [rpc EXCEPT ![r] = "done"] /\ rsid' = rsid /\ Active(r)
        /\ waiters' = [waiters EXCEPT ![rsid[r]] = @ - 1]
    BY <2>1 DEF CancelRecv, CancelledWaiter, Active
  <2>3. ASSUME NEW t \in Sids
        PROVE  waiters'[t] = Cardinality(WaitersOn(t)')
    <3>1. waiters[t] = Cardinality(WaitersOn(t)) /\ waiters \in [Sids -> Int]
      BY SweepParts DEF Inv, Typed
    <3>2. WaitersOn(t)' = WaitersOn(t) \ {r} /\ (r \in WaitersOn(t) <=> rsid[r] = t)
      BY <2>2 DEF WaitersOn, Active, Inv, Typed
    <3>3. QED
      BY <2>2, <3>1, <3>2, WaitersCounted
  <2>4. QED
    BY <2>3
<1>6. QED
  BY <1>1, <1>2, <1>3, <1>4, <1>5, StepShape DEF Inv

\* The sweep reaps where nobody waits, and nobody starts to wait on a session
\* that has left the registry.
LEMMA SparesStep ==
  ASSUME Inv, Next
  PROVE  \A r \in Recvs : Active(r)' => removedBy'[rsid'[r]] # "sweep"
<1>1. \A s \in Sids : waiters[s] = 0 => \A r \in Recvs : ~(Active(r) /\ rsid[r] = s)
  BY WaitersCounted, SweepParts DEF Inv, WaitersOn
<1>2. \A r \in Recvs : Active(r) => rsid[r] \in Sids /\ removedBy[rsid[r]] # "sweep"
  BY DEF Inv, SweepSparesWaiters, Attached
<1>3. CASE \E s \in Sids : Lives(s)
  <2>1. PICK s \in Sids : Lives(s)
    BY <1>3
  <2>2. UNCHANGED recvVars
    BY <2>1 DEF Lives, Spawn, AddResumes, CancelAdd, Refused, CancelCaller,
       ChildExits, TeardownTransport, Use, GrowOlder
  <2>3. \A t \in Sids : removedBy'[t] = "sweep" => removedBy[t] = "sweep" \/ waiters[t] = 0
    BY <2>1 DEF Lives, Spawn, Swept, Reapable, AddResumes, CancelAdd, Refused, CancelCaller,
       ChildExits, TeardownTransport, Use, GrowOlder
  <2>4. QED
    BY <1>1, <1>2, <2>2, <2>3 DEF recvVars, Active
<1>4. CASE \E s \in Sids : Reports(s)
  <2>1. UNCHANGED <<removedBy, rsid>> /\ \A r \in Recvs : Active(r)' <=> Active(r)
    BY <1>4 DEF Reports, Sink, ReaderEnds, TeardownReader, ReaderDone, WakeAll,
       Active, Inv, Typed
  <2>2. QED
    BY <1>2, <2>1
<1>5. CASE \E S \in SUBSET Registered, by \in {"sweep", "close", "shutdown"} :
             Leaves(S, by) /\ (by = "sweep" => \A s \in S : waiters[s] = 0)
  <2>1. /\ UNCHANGED recvVars
        /\ \A t \in Sids : removedBy'[t] = "sweep" => removedBy[t] = "sweep" \/ waiters[t] = 0
    BY <1>5 DEF Leaves, Removed
  <2>2. QED
    BY <1>1, <1>2, <2>1 DEF recvVars, Active
<1>6. CASE \E r \in Recvs, s \in Sids, w \in {0, -1} : Looks(r, s, w)
  <2>1. PICK r \in Recvs, s \in Sids, w \in {0, -1} : Looks(r, s, w)
    BY <1>6
  <2>2. removedBy[s] # "sweep"
    BY <1>2, <2>1 DEF Looks, Inv, Life
  <2>3. /\ rsid' = [rsid EXCEPT ![r] = s] /\ removedBy' = removedBy
        /\ \A q \in Recvs : q # r => rpc'[q] = rpc[q]
    BY <2>1 DEF Looks, RecvTakes, RecvSeesEnd, RecvTimesOut, RecvParks, RecvReturns, Inv, Typed
  <2>4. QED
    BY <1>2, <2>2, <2>3 DEF Active, Inv, Typed
<1>7. CASE \E r \in Recvs : CancelRecv(r)
  BY <1>2, <1>7 DEF CancelRecv, Active, Inv, Typed
<1>8. QED
  BY <1>3, <1>4, <1>5, <1>6, <1>7, StepShape DEF Inv

-----------------------------------------------------------------------------
(* The theorems.                                                           *)

\* The invariant holds in every reachable state.
THEOREM Invariance == Spec => []Inv
<1>1. Init => Inv
  <2> SUFFICES ASSUME Init PROVE Inv
    OBVIOUS
  <2>1. Typed /\ Life /\ Attached /\ NoLostWakeup /\ BytesConserved
    BY BoundsAssumption
       DEF Init, Typed, Stages, Life, Attached, Active, NoLostWakeup, BytesConserved
  <2>2. Registered = {} /\ \A s \in Sids : {r \in Recvs : Active(r) /\ rsid[r] = s} = {}
    BY DEF Init, Registered, Active
  <2>3. SessionsBounded
    BY <2>2, FS_EmptySet, BoundsAssumption DEF SessionsBounded
  <2>4. SweepSparesWaiters
    BY <2>2, FS_EmptySet DEF SweepSparesWaiters, Init, Active
  <2>5. QED
    BY <2>1, <2>3, <2>4 DEF Inv
<1>2. Inv /\ [Next]_vars => Inv'
  <2>1. ASSUME Inv, Next
        PROVE  Inv'
    <3>1. SweepSparesWaiters'
      BY <2>1, WaitersStep, SparesStep DEF SweepSparesWaiters, WaitersOn
    <3>2. QED
      BY <2>1, <3>1, TypedStep, LifeStep, AttachedStep, WakeupStep, CapStep, BytesStep DEF Inv
  <2>2. ASSUME Inv, UNCHANGED vars
        PROVE  Inv'
    BY <2>2 DEF vars, Inv, Typed, Life, Attached, Active, NoLostWakeup, SessionsBounded,
       Registered, SweepSparesWaiters, BytesConserved
  <2>3. QED
    BY <2>1, <2>2
<1>3. QED
  BY <1>1, <1>2, PTL DEF Spec

\* ADR 0012 for every instance: whoever is cancelled, a live child is in the
\* registry or in the hands of a task that will end it.
THEOREM NoOrphanHolds == Spec => []NoOrphan
<1>1. Inv => NoOrphan
  BY DEF Inv, Typed, Stages, Life, NoOrphan
<1>2. QED
  BY <1>1, Invariance, PTL

\* max_sessions holds for any number of concurrent spawns and suspended adds.
THEOREM CapHolds == Spec => []SessionsBounded
<1>1. Inv => SessionsBounded
  BY DEF Inv
<1>2. QED
  BY <1>1, Invariance, PTL

\* No sleeping recv() ever misses output or the end of its session.
THEOREM WakeupsHold == Spec => []NoLostWakeup
<1>1. Inv => NoLostWakeup
  BY DEF Inv
<1>2. QED
  BY <1>1, Invariance, PTL

\* The sweep spares exactly the sessions a recv() waits on.
THEOREM SweepIsSafe == Spec => []SweepSparesWaiters
<1>1. Inv => SweepSparesWaiters
  BY DEF Inv
<1>2. QED
  BY <1>1, Invariance, PTL

\* No byte of output is lost uncounted or delivered twice, and the end is
\* reported after the last of them.
THEOREM BytesAccounted == Spec => []BytesConserved
<1>1. Inv => BytesConserved
  BY DEF Inv
<1>2. QED
  BY <1>1, Invariance, PTL

\* Of a character that recv() cuts nothing more had arrived, or all of the result
\* is part of that character.
LEMMA TakeIsWhole ==
  ASSUME Inv, [Next]_vars, NEW s \in Sids, delivered'[s] # delivered[s],
         NEW q \in Starts[s], Continues(s, q, Front(s)')
  PROVE  \/ Front(s)' > produced[s]
         \/ q <= Front(s) /\ Front(s)' = Front(s) + MaxTake
<1>1. /\ buffer[s] \in Nat /\ buffer[s] > 0
      /\ produced'[s] = produced[s]
      /\ buffer'[s] = buffer[s] - Utf8!Cut(Content(s), MaxTake)
  <2>1. PICK r \in Recvs, t \in Sids, w \in {0, -1} : Looks(r, t, w)
    BY StepShape DEF Inv, vars, output, recvVars, Lives, Spawn, AddResumes, CancelAdd, Refused,
       CancelCaller, ChildExits, TeardownTransport, Use, GrowOlder, Reports, Sink, ReaderEnds,
       TeardownReader, Leaves, CancelRecv
  <2>2. RecvTakes(r, t, w) /\ UNCHANGED produced
    BY <2>1 DEF Looks, RecvSeesEnd, RecvTimesOut, RecvParks
  <2>3. t = s
    BY <2>2 DEF RecvTakes, Inv, Typed
  <2> QED
    BY <2>2, <2>3 DEF RecvTakes, Inv, Typed
<1>2. PICK n \in Nat, b \in Nat, p \in Int, f \in Int :
        /\ n = Utf8!Cut(Content(s), MaxTake) /\ b = buffer[s] /\ p = produced[s]
        /\ f = Front(s) /\ f = p - b + 1
        /\ n \in 1 .. b
  BY <1>1, TakeFacts DEF Inv, Typed, Front
<1>3. Front(s)' = f + n
  BY <1>1, <1>2 DEF Front
<1>4. MaxTake \in Nat \ {0} /\ Starts[s] \subseteq Nat
  BY BoundsAssumption, StartsAssumption
<1>5. q \in Nat /\ f + n \in q + 1 .. q + 3 /\ \A k \in q + 1 .. f + n : k \notin Starts[s]
  BY <1>3, <1>4 DEF Continues
<1>6. \A k \in 0 .. b - 1 : Utf8!Continuation(Content(s), k) <=> f + k \notin Starts[s]
  <2> SUFFICES ASSUME NEW k \in 0 .. b - 1
               PROVE  Utf8!Continuation(Content(s), k) <=> f + k \notin Starts[s]
    OBVIOUS
  <2>1. k + 1 \in 1 .. buffer[s] /\ produced[s] - buffer[s] + (k + 1) = f + k
    BY <1>2
  <2>2. Content(s)[k + 1] = IF f + k \in Starts[s] THEN "lead" ELSE "cont"
    BY <2>1 DEF Content
  <2> QED
    BY <2>2 DEF Utf8!Continuation
<1>7. CASE n = b
  BY <1>2, <1>3, <1>7
<1>8. CASE n < b
  <2>1. Utf8!Continuation(Content(s), n)
    BY <1>2, <1>5, <1>6, <1>8
  <2>2. n = MaxTake /\ \A k \in 1 .. n : n - k < 4 => Utf8!Continuation(Content(s), k)
    BY <1>1, <1>2, <1>4, <1>8, <2>1, ContentFacts, CutFacts
  <2>3. ASSUME q > f
        PROVE  FALSE
    <3>1. PICK k \in Nat : k = q - f /\ k \in 1 .. n /\ n - k < 4 /\ k \in 0 .. b - 1
      BY <1>2, <1>5, <1>8, <2>3
    <3>2. f + k \notin Starts[s]
      BY <1>6, <2>2, <3>1
    <3> QED
      BY <1>2, <1>5, <3>1, <3>2
  <2> QED
    BY <1>2, <1>3, <1>5, <2>2, <2>3
<1> QED
  BY <1>2, <1>7, <1>8

\* No character is torn between two results of recv() that could be kept whole.
THEOREM CharactersKept == Spec => CharactersWhole
<1>1. Inv /\ [Next]_vars =>
        [\A s \in Sids : delivered'[s] # delivered[s] =>
           \A q \in Starts[s] : Continues(s, q, Front(s)') =>
             \/ Front(s)' > produced[s]
             \/ q <= Front(s) /\ Front(s)' = Front(s) + MaxTake]_vars
  BY TakeIsWhole
<1> QED
  BY <1>1, Invariance, PTL DEF Spec, CharactersWhole
=============================================================================
