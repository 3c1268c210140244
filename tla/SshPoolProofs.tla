--------------------------- MODULE SshPoolProofs ---------------------------
(***************************************************************************)
(* What the connection pool guarantees, proved for any number of calls,    *)
(* keys, forwards and connections and any settings.                        *)
(*                                                                         *)
(* SingleFlight is not inductive: it follows from SlotIffOpen, that the    *)
(* slot of a key names exactly the owner of the unresolved future for that *)
(* key.  SlotIffOpen in turn needs that a call on its way through          *)
(* connect() has a key, that a call which has not started owns no future   *)
(* and that a call gives up its connection only over a cancelled future.   *)
(*                                                                         *)
(* That an eviction spares the holders rests on the pin count: an unpinned *)
(* entry has no holder.  The cap needs that last_used orders the cached    *)
(* entries, so that a cap that is exceeded finds an oldest unpinned entry. *)
(*                                                                         *)
(* NoConnLeak is proved for strict host keys and no forwards only.  With   *)
(* accept-new a call may be cancelled between its dial and its cache step, *)
(* and a forward that loses its slot holds the lock across an await, so    *)
(* that a close_all may come between the two.                              *)
(***************************************************************************)
EXTENDS SshPool, FiniteSetTheorems, NaturalsInduction, TLAPS

\* The places of an owner between claiming its slot and resolving its future.
OwnerPCs == {"dial", "persist", "failed", "cancelled", "discard", "cache"}
\* Where a call is while it connects, or is about to.
KeyPCs == {"precheck", "sweep", "claim", "wait"} \cup OwnerPCs

SlotTyped ==
  /\ pc \in [Calls -> PCs]
  /\ key \in [Calls -> Keys \cup {None}]
  /\ pending \in [Keys -> Calls \cup {None}]
  /\ fut \in [Calls -> FutStates]

SlotInv ==
  /\ SlotTyped
  /\ SlotIffOpen
  /\ \A c \in Calls : /\ pc[c] = "new" => fut[c] = "none"
                      /\ fut[c] = "open" => key[c] \in Keys
                      /\ pc[c] \in KeyPCs => key[c] \in Keys
                      /\ pc[c] = "discard" => fut[c] # "open"

\* A step of call c that touches neither slots nor futures, and moves c from p
\* to a place that the invariant asks no more of.
LEMMA QuietStep ==
  ASSUME SlotInv, UNCHANGED <<key, pending, fut>>, NEW c \in Calls, NEW p \in PCs,
         pc' = [pc EXCEPT ![c] = p],
         p # "new", p \in KeyPCs => pc[c] \in KeyPCs,
         p = "discard" => fut[c] # "open"
  PROVE  SlotInv'
BY DEF SlotInv, SlotTyped, SlotIffOpen

\* A call arrives with its key.
LEMMA StartStep ==
  ASSUME SlotInv, NEW c \in Calls, NEW k \in TargetsOf(c), Start(c, k)
  PROVE  SlotInv'
<1> DEFINE p == CASE c \in Forwarders -> "precheck"
                  [] c \in Closers -> "pop"
                  [] c \in Shutdowns -> "drop"
                  [] OTHER -> "sweep"
<1>1. p \in {"precheck", "pop", "drop", "sweep"}
  OBVIOUS
<1>2. p \in PCs \ {"new", "discard"}
  BY <1>1 DEF PCs, LockPoints
<1>3. p \in KeyPCs => c \notin Closers \cup Shutdowns
  BY KindsAssumption DEF KeyPCs, OwnerPCs
<1>4. k \in Keys \cup {None} /\ (p \in KeyPCs => k \in Keys)
  BY <1>3 DEF TargetsOf
<1>5. /\ pc[c] = "new" /\ pc' = [pc EXCEPT ![c] = p]
      /\ key' = [key EXCEPT ![c] = k] /\ UNCHANGED <<pending, fut>>
  BY DEF Start, Continue, slotVars
<1>6. fut[c] = "none" /\ \A j \in Keys : pending[j] # c
  BY <1>5 DEF SlotInv, SlotIffOpen
<1>7. QED
  <2> HIDE DEF p
  <2> QED  BY <1>2, <1>4, <1>5, <1>6 DEF SlotInv, SlotTyped, SlotIffOpen

\* The owner claims a free slot with a fresh future.
LEMMA OwnStep ==
  ASSUME SlotInv, NEW c \in Calls, ConnectOwn(c)
  PROVE  SlotInv'
<1>1. /\ pc[c] = "claim" /\ pending[key[c]] = None
      /\ pending' = [pending EXCEPT ![key[c]] = c]
      /\ fut' = [fut EXCEPT ![c] = "open"]
      /\ pc' = [pc EXCEPT ![c] = "dial"] /\ UNCHANGED key
  BY DEF ConnectOwn, Yield
<1>2. key[c] \in Keys
  BY <1>1 DEF SlotInv, KeyPCs
<1>3. "dial" \in PCs /\ "open" \in FutStates
  BY DEF PCs, Suspended, FutStates
<1>4. \A k \in Keys : pending[k] # c
  BY <1>1, <1>2, NoneAssumption DEF SlotInv, SlotIffOpen
<1>5. SlotTyped'
  BY <1>1, <1>2, <1>3 DEF SlotInv, SlotTyped
<1>6. SlotIffOpen'
  BY <1>1, <1>2, <1>4, NoneAssumption DEF SlotInv, SlotTyped, SlotIffOpen
<1>7. QED
  BY <1>1, <1>2, <1>5, <1>6 DEF SlotInv, SlotTyped

\* The owner frees the slot, if it is still its own, and its future is resolved
\* in the same step or was before.
LEMMA ReleaseStep ==
  ASSUME SlotInv, NEW c \in Calls, pc[c] \in KeyPCs, ReleaseSlot(c),
         NEW f \in FutStates \ {"open"}, fut' = [fut EXCEPT ![c] = f],
         NEW p \in PCs, p \notin KeyPCs \cup {"new", "discard"},
         pc' = [pc EXCEPT ![c] = p], UNCHANGED key
  PROVE  SlotInv'
<1>1. key[c] \in Keys
  BY DEF SlotInv
<1>2. /\ pending'[key[c]] # c
      /\ \A k \in Keys : k # key[c] => pending'[k] = pending[k]
      /\ pending[key[c]] # c => pending' = pending
      /\ pending[key[c]] = c => pending'[key[c]] = None
  BY <1>1, NoneAssumption DEF ReleaseSlot, SlotInv, SlotTyped
<1>3. SlotTyped'
  BY DEF SlotInv, SlotTyped, ReleaseSlot
<1>4. ASSUME NEW d \in Calls, NEW k \in Keys
      PROVE  pending'[k] = d <=> (fut'[d] = "open" /\ key[d] = k)
  <2>1. CASE d = c
    <3>1. fut'[c] # "open"
      BY DEF SlotInv, SlotTyped
    <3>2. pending'[k] # c
      BY <1>1, <1>2 DEF SlotInv, SlotIffOpen
    <3>3. QED
      BY <2>1, <3>1, <3>2
  <2>2. CASE d # c
    <3>1. fut'[d] = fut[d]
      BY <2>2 DEF SlotInv, SlotTyped
    <3>2. pending'[k] = d <=> pending[k] = d
      BY <1>2, <2>2, NoneAssumption
    <3>3. QED
      BY <3>1, <3>2 DEF SlotInv, SlotIffOpen
  <2>3. QED
    BY <2>1, <2>2
<1>5. SlotIffOpen'
  BY <1>4 DEF SlotIffOpen
<1>6. QED
  BY <1>3, <1>5 DEF SlotInv, SlotTyped

\* close_all cancels every unresolved future and empties the slots.
LEMMA CloseAllStep ==
  ASSUME SlotInv, NEW c \in Calls, CloseAll(c)
  PROVE  SlotInv'
<1> DEFINE owners == {pending[k] : k \in Keys} \ {None}
<1>1. /\ fut' = [o \in Calls |-> IF o \in owners /\ fut[o] = "open"
                                   THEN "cancelled" ELSE fut[o]]
      /\ pending' = [k \in Keys |-> None]
      /\ pc' = [pc EXCEPT ![c] = "done"] /\ UNCHANGED key
  BY DEF CloseAll, Yield
<1>2. \A o \in Calls : fut[o] = "open" => o \in owners
  BY NoneAssumption DEF SlotInv, SlotIffOpen
<1>3. \A o \in Calls : fut'[o] # "open" /\ (fut[o] = "none" => fut'[o] = "none")
  <2> HIDE DEF owners
  <2> QED  BY <1>1, <1>2
<1>4. "done" \in PCs /\ "cancelled" \in FutStates
  BY DEF PCs, FutStates
<1>5. SlotTyped'
  <2> HIDE DEF owners
  <2> QED  BY <1>1, <1>4 DEF SlotInv, SlotTyped
<1>6. SlotIffOpen'
  BY <1>1, <1>3, NoneAssumption DEF SlotIffOpen
<1>7. QED
  <2> HIDE DEF owners
  <2> QED  BY <1>1, <1>3, <1>5, <1>6 DEF SlotInv, SlotTyped, KeyPCs, OwnerPCs

\* The steps of a connect().
LEMMA ConnectSteps ==
  ASSUME SlotInv, NEW c \in Calls,
         \/ ForwardPrecheck(c) \/ SweepConns(c)
         \/ ConnectHit(c) \/ ConnectJoin(c) \/ ConnectOwn(c)
         \/ WaiterResumes(c)
         \/ DialSucceeds(c) \/ DialFails(c) \/ HostKeyPersisted(c)
         \/ ConnectRaises(c) \/ ConnectDiscards(c) \/ ConnectCaches(c)
  PROVE  SlotInv'
<1> USE DEF Continue, Yield, slotVars
<1>0. /\ {"sweep", "claim", "create", "pin", "wait", "persist", "cache", "discard",
          "failed", "done"} \subseteq PCs \ {"new"}
      /\ {"create", "pin", "done"} \cap KeyPCs = {}
      /\ {"precheck", "sweep", "claim", "wait", "dial", "persist", "failed",
          "cancelled", "discard", "cache"} \subseteq KeyPCs
  BY DEF PCs, LockPoints, Suspended, KeyPCs, OwnerPCs
<1>1. CASE ForwardPrecheck(c)
  BY <1>0, <1>1, QuietStep DEF ForwardPrecheck
<1>2. CASE SweepConns(c)
  BY <1>0, <1>2, QuietStep DEF SweepConns
<1>3. CASE ConnectHit(c)
  BY <1>0, <1>3, QuietStep DEF ConnectHit, Connected
<1>4. CASE ConnectJoin(c)
  BY <1>0, <1>4, QuietStep DEF ConnectJoin
<1>5. CASE ConnectOwn(c)
  BY <1>5, OwnStep
<1>6. CASE WaiterResumes(c)
  BY <1>0, <1>6, QuietStep DEF WaiterResumes, Retries, Connected
<1>7. CASE DialSucceeds(c)
  BY <1>0, <1>7, QuietStep DEF DialSucceeds, AfterDial
<1>8. CASE DialFails(c)
  BY <1>0, <1>8, QuietStep DEF DialFails
<1>9. CASE HostKeyPersisted(c)
  BY <1>0, <1>9, QuietStep DEF HostKeyPersisted, AfterDial
<1>10. CASE ConnectRaises(c)
  <2> DEFINE f == IF fut[c] # "open" THEN fut[c]
                  ELSE IF pc[c] = "failed" THEN "error" ELSE "ownerCancelled"
  <2>1. f \in FutStates \ {"open"}
    BY DEF SlotInv, SlotTyped, FutStates
  <2>2. /\ fut' = [fut EXCEPT ![c] = f] /\ pc' = [pc EXCEPT ![c] = "done"]
        /\ UNCHANGED key /\ ReleaseSlot(c) /\ pc[c] \in KeyPCs
    BY <1>0, <1>10 DEF ConnectRaises, SlotInv, SlotTyped
  <2>3. QED
    <3> HIDE DEF f
    <3> QED  BY <1>0, <2>1, <2>2, ReleaseStep
<1>11. CASE ConnectDiscards(c)
  <2>1. fut[c] \in FutStates \ {"open"} /\ pc[c] \in KeyPCs
    BY <1>0, <1>11 DEF ConnectDiscards, SlotInv, SlotTyped
  <2>2. fut' = [fut EXCEPT ![c] = fut[c]]
    BY <1>11 DEF ConnectDiscards, SlotInv, SlotTyped
  <2>3. QED
    BY <1>0, <1>11, <2>1, <2>2, ReleaseStep DEF ConnectDiscards
<1>12. CASE ConnectCaches(c)
  <2>1. pc[c] \in KeyPCs /\ ReleaseSlot(c) /\ UNCHANGED key
    BY <1>0, <1>12 DEF ConnectCaches
  <2>2. CASE fut[c] = "open"
    <3>1. "result" \in FutStates \ {"open"}
      BY DEF FutStates
    <3>2. fut' = [fut EXCEPT ![c] = "result"]
      BY <1>12, <2>2 DEF ConnectCaches
    <3>3. \E p \in {"create", "pin"} : pc' = [pc EXCEPT ![c] = p]
      BY <1>12, <2>2 DEF ConnectCaches, Connected
    <3>4. QED
      BY <1>0, <2>1, <3>1, <3>2, <3>3, ReleaseStep
  <2>3. CASE fut[c] # "open"
    <3>1. fut[c] \in FutStates \ {"open"} /\ fut' = [fut EXCEPT ![c] = fut[c]]
      BY <1>12, <2>3 DEF ConnectCaches, SlotInv, SlotTyped
    <3>2. pc' = [pc EXCEPT ![c] = "done"]
      BY <1>12, <2>3 DEF ConnectCaches
    <3>3. QED
      BY <1>0, <2>1, <3>1, <3>2, ReleaseStep
  <2>4. QED
    BY <2>2, <2>3
<1>13. QED
  BY <1>1, <1>2, <1>3, <1>4, <1>5, <1>6, <1>7, <1>8, <1>9, <1>10, <1>11, <1>12

\* The steps of a call that has its connection, or needs none.
LEMMA OtherSteps ==
  ASSUME SlotInv, NEW c \in Calls,
         \/ Pin(c) \/ Unpin(c) \/ TrackForward(c) \/ PopForward(c)
         \/ CreateProcess(c) \/ WorkEnds(c) \/ SessionEnds(c)
         \/ Listen(c) \/ LoserClosed(c) \/ ForwardClosed(c)
  PROVE  SlotInv'
<1> USE DEF Continue, Yield, slotVars
<1>0. {"pin", "done", "work", "live", "listen", "unpin", "release", "track",
       "tracked", "lose", "fclose"} \subseteq (PCs \ {"new", "discard"}) \ KeyPCs
  BY DEF PCs, LockPoints, Suspended, KeyPCs, OwnerPCs
<1>1. CASE Pin(c)
  <2> DEFINE p == CASE c \in Runs -> "work"
                    [] c \in Spawns -> "live"
                    [] OTHER -> "listen"
  <2>1. p \in {"work", "live", "listen"}
    OBVIOUS
  <2>2. pc' = [pc EXCEPT ![c] = p] /\ UNCHANGED <<key, pending, fut>>
    BY <1>1 DEF Pin
  <2>3. QED
    <3> HIDE DEF p
    <3> QED  BY <1>0, <2>1, <2>2, QuietStep
<1>2. CASE Unpin(c)
  BY <1>0, <1>2, QuietStep DEF Unpin
<1>3. CASE TrackForward(c)
  BY <1>0, <1>3, QuietStep DEF TrackForward
<1>4. CASE PopForward(c)
  BY <1>0, <1>4, QuietStep DEF PopForward
<1>5. CASE CreateProcess(c)
  BY <1>0, <1>5, QuietStep DEF CreateProcess
<1>6. CASE WorkEnds(c) \/ LoserClosed(c) \/ ForwardClosed(c)
  BY <1>0, <1>6, QuietStep DEF WorkEnds, LoserClosed, ForwardClosed
<1>7. CASE SessionEnds(c)
  BY <1>0, <1>7, QuietStep DEF SessionEnds
<1>8. CASE Listen(c)
  BY <1>0, <1>8, QuietStep DEF Listen
<1>9. QED
  BY <1>1, <1>2, <1>3, <1>4, <1>5, <1>6, <1>7, <1>8

\* A cancelled call leaves, or goes to the handler or finally block of its await.
LEMMA CancelStep ==
  ASSUME SlotInv, NEW c \in Calls, Cancel(c)
  PROVE  SlotInv'
<1>1. /\ AfterCancel(pc[c]) \in {"cancelled", "unpin", "done"}
      /\ AfterCancel(pc[c]) = "cancelled" => pc[c] \in {"dial", "persist"}
  BY DEF AfterCancel
<1>2. pc' = [pc EXCEPT ![c] = AfterCancel(pc[c])] /\ UNCHANGED <<key, pending, fut>>
  BY <1>1 DEF Cancel, Continue, Yield, slotVars
<1>3. {"cancelled", "unpin", "done"} \subseteq PCs
  BY DEF PCs, LockPoints
<1>4. AfterCancel(pc[c]) \in KeyPCs => pc[c] \in KeyPCs
  BY <1>1 DEF KeyPCs, OwnerPCs
<1>5. QED
  BY <1>1, <1>2, <1>3, <1>4, QuietStep

\* The slot invariant, and with it SlotIffOpen: no caller ever finds a resolved
\* future in _pending or misses an unresolved one.
THEOREM SlotInvariance == Spec => []SlotInv
<1>1. Init => SlotInv
  BY NoneAssumption
     DEF Init, SlotInv, SlotTyped, SlotIffOpen, PCs, FutStates, KeyPCs, OwnerPCs
<1>2. SlotInv /\ [Next]_vars => SlotInv'
  <2> SUFFICES ASSUME SlotInv, [Next]_vars PROVE SlotInv'
    OBVIOUS
  <2>1. ASSUME NEW c \in Calls, Blocked(c) \/ ConnDies(c)
        PROVE  SlotInv'
    BY <2>1 DEF Blocked, ConnDies, slotVars, SlotInv, SlotTyped, SlotIffOpen
  <2>2. ASSUME NEW c \in Calls, Progress(c)
        PROVE  SlotInv'
    BY <2>1, <2>2, ConnectSteps, OtherSteps, CloseAllStep DEF Progress
  <2>3. ASSUME NEW c \in Calls, Unbounded(c)
        PROVE  SlotInv'
    BY <2>3, OtherSteps DEF Unbounded
  <2>4. CASE UNCHANGED vars
    BY <2>4 DEF vars, SlotInv, SlotTyped, SlotIffOpen
  <2>5. QED
    BY <2>1, <2>2, <2>3, <2>4, StartStep, CancelStep DEF Next, Quiesced
<1>3. QED
  BY <1>1, <1>2, PTL DEF Spec

\* Concurrent callers for one target share a single dial.
THEOREM SingleFlightHolds == Spec => []SingleFlight
<1>1. SlotInv => SingleFlight
  BY DEF SlotInv, SlotIffOpen, SingleFlight
<1>2. QED
  BY <1>1, SlotInvariance, PTL

\* The slot table and the futures agree.
THEOREM SlotsAgree == Spec => []SlotIffOpen
<1>1. SlotInv => SlotIffOpen
  BY DEF SlotInv
<1>2. QED
  BY <1>1, SlotInvariance, PTL

-----------------------------------------------------------------------------
(* The cache, its pins and the forwards.                                   *)

ConnStates == {"none", "open", "dead", "evicted", "shut"}

PoolTyped ==
  /\ using \in [Calls -> Calls \cup {None}]
  /\ entry \in [Calls -> Calls \cup {None}]
  /\ conns \in [Keys -> Calls \cup {None}]
  /\ conn \in [Calls -> ConnStates]
  /\ pins \in [Calls -> Nat]
  /\ older \in [Calls -> SUBSET Calls]
  /\ forwards \subseteq Calls
  /\ listener \in [Calls -> {"none", "open", "closed"}]

\* A connection that was cached or evicted belongs to a call that is past its
\* connect().
Settled ==
  \A e \in Calls :
    e \in Cached \/ conn[e] = "evicted" => pc[e] \notin KeyPCs \cup {"new"}

\* A connection leaves the cache in the step that evicts it.
CachedNotEvicted == \A e \in Cached : conn[e] # "evicted"

\* last_used orders the cached entries.
Order ==
  \A e \in Calls : /\ older[e] \subseteq Cached \ {e}
                   /\ \A d \in older[e] : older[d] \subseteq older[e]

PoolInv ==
  /\ PoolTyped
  /\ Settled
  /\ CachedNotEvicted
  /\ Order
  /\ PinsCoverHolders
  /\ HolderNotEvicted
  /\ ForwardsAccounted

\* Cached entries are calls.
LEMMA CachedCalls ==
  ASSUME PoolTyped
  PROVE  Cached \subseteq Calls /\ IsFiniteSet(Cached)
<1>1. Cached \subseteq Calls
  BY DEF PoolTyped, Cached
<1>2. QED
  BY <1>1, KindsAssumption, FS_Subset

\* One more element adds at most one to the size of a set.
LEMMA OneMore ==
  ASSUME NEW S, NEW x, IsFiniteSet(S)
  PROVE  /\ Cardinality(S \cup {x}) \in Nat
         /\ Cardinality(S \cup {x}) <= Cardinality(S) + 1
<1>1. IsFiniteSet(S \cup {x}) /\ Cardinality(S) \in Nat
  BY FS_AddElement, FS_CardinalityType
<1>2. Cardinality(S \cup {x}) \in Nat
  BY <1>1, FS_CardinalityType
<1>3. Cardinality(S \cup {x}) = IF x \in S THEN Cardinality(S) ELSE Cardinality(S) + 1
  BY FS_AddElement
<1>4. QED
  BY <1>1, <1>2, <1>3

\* The number of holders of an entry is a number.
LEMMA HoldersCount ==
  ASSUME NEW e
  PROVE  IsFiniteSet(Holders(e)) /\ Cardinality(Holders(e)) \in Nat
<1>1. Holders(e) \subseteq Calls
  BY DEF Holders
<1>2. QED
  BY <1>1, KindsAssumption, FS_Subset, FS_CardinalityType

\* An unpinned entry has no holder.
LEMMA UnpinnedFree ==
  ASSUME PoolTyped, PinsCoverHolders, NEW e \in Unpinned, NEW c \in Calls
  PROVE  entry[c] # e
<1>1. e \in Calls /\ pins[e] = 0
  BY CachedCalls DEF Unpinned
<1>2. Cardinality(Holders(e)) = 0
  BY <1>1, HoldersCount DEF PinsCoverHolders
<1>3. Holders(e) = {}
  BY <1>2, HoldersCount, FS_EmptySet
<1>4. QED
  BY <1>3 DEF Holders

\* A step that gives no entry a new holder, and takes no pin, keeps the count.
LEMMA FewerHolders ==
  ASSUME PoolTyped, PinsCoverHolders, UNCHANGED pins,
         \A c \in Calls : entry'[c] = entry[c] \/ entry'[c] = None
  PROVE  PinsCoverHolders'
<1>1. SUFFICES ASSUME NEW e \in Calls
               PROVE  pins'[e] >= Cardinality(Holders(e)')
  BY DEF PinsCoverHolders
<1>2. Holders(e)' \subseteq Holders(e)
  BY NoneAssumption DEF Holders
<1>3. Cardinality(Holders(e)') <= Cardinality(Holders(e)) /\ Cardinality(Holders(e)') \in Nat
  BY <1>2, HoldersCount, FS_Subset, FS_CardinalityType
<1>4. QED
  BY <1>3, HoldersCount DEF PinsCoverHolders, PoolTyped

\* An entry that is used becomes the youngest; the others keep their order.
LEMMA TouchKeepsOrder ==
  ASSUME PoolTyped, Order, NEW e \in Cached, UNCHANGED conns, older' = Touch(e)
  PROVE  Order' /\ older' \in [Calls -> SUBSET Calls]
<1>1. Cached' = Cached /\ Cached \subseteq Calls
  BY CachedCalls DEF Cached
<1>2. \A d \in Calls : older'[d] = IF d = e THEN Cached \ {e} ELSE older[d] \ {e}
  BY DEF Touch
<1>3. older' \in [Calls -> SUBSET Calls]
  BY <1>1 DEF Touch, PoolTyped
<1>4. ASSUME NEW x \in Calls
      PROVE  /\ older'[x] \subseteq Cached \ {x}
             /\ \A d \in older'[x] : older'[d] \subseteq older'[x]
  <2>1. older'[x] \subseteq Cached \ {x}
    <3>1. CASE x = e
      BY <1>2, <3>1
    <3>2. CASE x # e
      <4>1. older[x] \subseteq Cached \ {x} /\ older'[x] = older[x] \ {e}
        BY <1>2, <3>2 DEF Order
      <4>2. QED
        BY <4>1
    <3>3. QED
      BY <3>1, <3>2
  <2>2. ASSUME NEW d \in older'[x]
        PROVE  older'[d] \subseteq older'[x]
    <3>1. d \in Calls /\ d # e /\ older'[d] = older[d] \ {e}
      BY <1>1, <1>2, <2>1
    <3>2. CASE x = e
      <4>1. older[d] \subseteq Cached \ {d} /\ older'[x] = Cached \ {e}
        BY <1>2, <3>1, <3>2 DEF Order
      <4>2. QED
        BY <3>1, <4>1
    <3>3. CASE x # e
      <4>1. older'[x] = older[x] \ {e} /\ d \in older[x]
        BY <1>2, <3>3
      <4>2. older[d] \subseteq older[x]
        BY <4>1 DEF Order
      <4>3. QED
        BY <3>1, <4>1, <4>2
    <3>4. QED
      BY <3>2, <3>3
  <2>3. QED
    BY <2>1, <2>2
<1>5. QED
  BY <1>1, <1>3, <1>4 DEF Order

\* Entries that leave the cache leave the order.
LEMMA ForgetKeepsOrder ==
  ASSUME PoolTyped, Order, NEW S, conns' = Drop(conns, S), older' = Forget(S)
  PROVE  Order' /\ older' \in [Calls -> SUBSET Calls] /\ Cached' = Cached \ S
<1>1. Cached' = Cached \ S
  BY DEF Cached, Drop, PoolTyped
<1>2. \A d \in Calls : older'[d] = IF d \in S THEN {} ELSE older[d] \ S
  BY DEF Forget
<1>3. older' \in [Calls -> SUBSET Calls]
  BY DEF Forget, PoolTyped
<1>4. ASSUME NEW x \in Calls
      PROVE  /\ older'[x] \subseteq Cached' \ {x}
             /\ \A d \in older'[x] : older'[d] \subseteq older'[x]
  <2>1. older'[x] \subseteq Cached' \ {x}
    <3>1. older[x] \subseteq Cached \ {x} /\ older'[x] \subseteq older[x] \ S
      BY <1>2 DEF Order
    <3>2. QED
      BY <1>1, <3>1
  <2>2. ASSUME NEW d \in older'[x]
        PROVE  older'[d] \subseteq older'[x]
    <3>1. d \in Calls /\ x \notin S /\ d \notin S
      BY <1>1, <1>2, <2>1, CachedCalls
    <3>2. d \in older[x] /\ older'[d] = older[d] \ S /\ older'[x] = older[x] \ S
      BY <1>2, <3>1
    <3>3. QED
      BY <3>2 DEF Order
  <2>3. QED
    BY <2>1, <2>2
<1>5. QED
  BY <1>1, <1>3, <1>4 DEF Order


\* A step of call c that leaves the cache, the pins and the forwards alone, does
\* not take c back into a connect() and does not leave an open listener behind.
LEMMA IdlePoolStep ==
  ASSUME PoolInv, SlotTyped, NEW c \in Calls, NEW p, pc' = [pc EXCEPT ![c] = p],
         UNCHANGED <<entry, cacheVars, forwardVars>>,
         using' \in [Calls -> Calls \cup {None}],
         p \in KeyPCs \cup {"new"} => pc[c] \in KeyPCs \cup {"new"},
         pc[c] # "track"
  PROVE  PoolInv'
<1> USE DEF cacheVars, forwardVars
<1>1. PoolTyped'
  BY DEF PoolInv, PoolTyped
<1>2. Cached' = Cached /\ \A e \in Calls : Holders(e)' = Holders(e)
  BY DEF Cached, Holders
<1>3. Settled'
  BY <1>2 DEF PoolInv, Settled, SlotTyped
<1>4. CachedNotEvicted' /\ Order'
  BY <1>2 DEF PoolInv, CachedNotEvicted, Order
<1>5. PinsCoverHolders'
  BY <1>2 DEF PoolInv, PinsCoverHolders
<1>6. HolderNotEvicted'
  BY DEF PoolInv, HolderNotEvicted
<1>7. ForwardsAccounted'
  BY DEF PoolInv, ForwardsAccounted, SlotTyped
<1>8. QED
  BY <1>1, <1>3, <1>4, <1>5, <1>6, <1>7 DEF PoolInv

\* A step that closes unpinned connections, drops them from the cache and leaves
\* pins and forwards alone.
LEMMA SweepPoolStep ==
  ASSUME PoolInv, SlotInv, NEW c \in Calls, SweepConns(c)
  PROVE  PoolInv'
<1>1. PICK idle \in SUBSET (IF IdleEviction THEN Unpinned ELSE {}) :
        LET doomed == idle \cup {e \in Cached : conn[e] # "open"} IN
          /\ conns' = Drop(conns, doomed)
          /\ conn' = Closed(doomed, "evicted")
          /\ older' = Forget(doomed)
  BY DEF SweepConns
<1> DEFINE doomed == idle \cup {e \in Cached : conn[e] # "open"}
<1>2. /\ conns' = Drop(conns, doomed) /\ conn' = Closed(doomed, "evicted")
      /\ older' = Forget(doomed) /\ UNCHANGED <<using, entry, pins, forwards, listener>>
      /\ pc[c] = "sweep" /\ pc' = [pc EXCEPT ![c] = "claim"]
  BY <1>1 DEF SweepConns, Continue, forwardVars
<1>3. \A e \in Calls : \/ conn'[e] = conn[e]
                       \/ e \in Unpinned /\ e \in doomed
  <2>1. \A e \in Calls : e \in doomed /\ conn[e] = "open" => e \in Unpinned
    OBVIOUS
  <2>2. QED
    <3> HIDE DEF doomed
    <3> QED  BY <1>2, <2>1 DEF Closed
<1> HIDE DEF doomed
<1>4. Order' /\ older' \in [Calls -> SUBSET Calls] /\ Cached' = Cached \ doomed
  BY <1>2, ForgetKeepsOrder DEF PoolInv
<1>5. PoolTyped'
  <2>1. conns' \in [Keys -> Calls \cup {None}]
    BY <1>2 DEF PoolInv, PoolTyped, Drop
  <2>2. conn' \in [Calls -> ConnStates]
    BY <1>2 DEF PoolInv, PoolTyped, Closed, ConnStates
  <2>3. QED
    BY <1>2, <1>4, <2>1, <2>2 DEF PoolInv, PoolTyped
<1>6. Settled'
  <2>1. \A e \in Calls : pc'[e] \in KeyPCs \cup {"new"} => pc[e] \in KeyPCs \cup {"new"}
    BY <1>2 DEF SlotInv, SlotTyped, KeyPCs
  <2>2. QED
    BY <1>3, <1>4, <2>1 DEF PoolInv, Settled, Unpinned
<1>7. CachedNotEvicted'
  BY <1>3, <1>4, CachedCalls DEF PoolInv, CachedNotEvicted
<1>8. PinsCoverHolders'
  BY <1>2, FewerHolders DEF PoolInv
<1>9. HolderNotEvicted'
  BY <1>2, <1>3, UnpinnedFree, NoneAssumption DEF PoolInv, HolderNotEvicted, PoolTyped
<1>10. ForwardsAccounted'
  BY <1>2 DEF PoolInv, ForwardsAccounted, SlotInv, SlotTyped
<1>11. QED
  BY <1>4, <1>5, <1>6, <1>7, <1>8, <1>9, <1>10 DEF PoolInv

\* A hit only refreshes last_used.
LEMMA HitPoolStep ==
  ASSUME PoolInv, SlotInv, NEW c \in Calls, ConnectHit(c)
  PROVE  PoolInv'
<1>1. key[c] \in Keys
  BY DEF ConnectHit, SlotInv, KeyPCs
<1> DEFINE e == conns[key[c]]
<1>2. e \in Cached /\ e \in Calls
  BY <1>1, CachedCalls DEF ConnectHit, Hit, Cached, PoolInv
<1>3. /\ pc[c] = "claim" /\ \E p \in {"create", "pin"} : pc' = [pc EXCEPT ![c] = p]
      /\ UNCHANGED <<entry, conns, conn, pins, forwards, listener>>
      /\ using' = [using EXCEPT ![c] = e] /\ older' = Touch(e)
  BY DEF ConnectHit, Connected, Continue, Yield, forwardVars
<1>4. Cached' = Cached
  BY <1>3 DEF Cached
<1> HIDE DEF e
<1>5. Order' /\ older' \in [Calls -> SUBSET Calls]
  BY <1>2, <1>3, TouchKeepsOrder DEF PoolInv
<1>6. PoolTyped'
  BY <1>2, <1>3, <1>5 DEF PoolInv, PoolTyped
<1>7. Settled' /\ CachedNotEvicted'
  BY <1>3, <1>4 DEF PoolInv, Settled, CachedNotEvicted, SlotInv, SlotTyped, KeyPCs, OwnerPCs
<1>8. PinsCoverHolders'
  BY <1>3, FewerHolders DEF PoolInv
<1>9. HolderNotEvicted' /\ ForwardsAccounted'
  BY <1>3 DEF PoolInv, HolderNotEvicted, ForwardsAccounted, SlotInv, SlotTyped
<1>10. QED
  BY <1>5, <1>6, <1>7, <1>8, <1>9 DEF PoolInv

\* A dial opens the connection of its own call.
LEMMA DialPoolStep ==
  ASSUME PoolInv, SlotInv, NEW c \in Calls, DialSucceeds(c) \/ HostKeyPersisted(c)
  PROVE  PoolInv'
<1>1. /\ pc[c] \in {"dial", "persist"}
      /\ \E p \in {"persist", "discard", "cache"} : pc' = [pc EXCEPT ![c] = p]
      /\ \E s \in {"open", "shut", conn[c]} : conn' = [conn EXCEPT ![c] = s]
      /\ UNCHANGED <<using, entry, conns, pins, older, forwards, listener>>
  BY DEF DialSucceeds, HostKeyPersisted, AfterDial, Continue, Yield, forwardVars
<1>2. {"open", "shut", conn[c]} \subseteq ConnStates
  BY DEF PoolInv, PoolTyped, ConnStates
<1>3. c \notin Cached /\ conn[c] # "evicted"
  BY <1>1 DEF PoolInv, Settled, KeyPCs, OwnerPCs
<1>4. /\ \A e \in Calls : conn'[e] = "evicted" <=> conn[e] = "evicted"
      /\ Cached' = Cached /\ Cached \subseteq Calls
  BY <1>1, <1>3, CachedCalls DEF PoolInv, PoolTyped, Cached
<1>5. PoolTyped'
  BY <1>1, <1>2 DEF PoolInv, PoolTyped
<1>6. \A e \in Calls : pc'[e] \in KeyPCs \cup {"new"} <=> pc[e] \in KeyPCs \cup {"new"}
  BY <1>1 DEF SlotInv, SlotTyped, KeyPCs, OwnerPCs
<1>7. Settled'
  BY <1>4, <1>6 DEF PoolInv, Settled
<1>8. CachedNotEvicted' /\ Order'
  BY <1>1, <1>4 DEF PoolInv, CachedNotEvicted, Order
<1>9. PinsCoverHolders'
  BY <1>1, FewerHolders DEF PoolInv
<1>10. HolderNotEvicted'
  BY <1>1, <1>4 DEF PoolInv, HolderNotEvicted, PoolTyped
<1>11. ForwardsAccounted'
  BY <1>1 DEF PoolInv, ForwardsAccounted, SlotInv, SlotTyped
<1>12. QED
  BY <1>5, <1>7, <1>8, <1>9, <1>10, <1>11 DEF PoolInv


\* The steps of a connect() that leave the cache alone.
LEMMA QuietConnectSteps ==
  ASSUME PoolInv, SlotInv, NEW c \in Calls,
         \/ ForwardPrecheck(c) \/ ConnectJoin(c) \/ ConnectOwn(c)
         \/ WaiterResumes(c) \/ DialFails(c)
         \/ ConnectRaises(c) \/ ConnectDiscards(c)
  PROVE  PoolInv'
<1>0. SlotTyped
  BY DEF SlotInv
<1>1. UNCHANGED <<entry, cacheVars, forwardVars>>
  BY DEF ForwardPrecheck, ConnectJoin, ConnectOwn, WaiterResumes, DialFails,
         ConnectRaises, ConnectDiscards
<1>2. pc[c] \in KeyPCs /\ pc[c] # "track"
  BY DEF ForwardPrecheck, ConnectJoin, ConnectOwn, WaiterResumes, DialFails,
         ConnectRaises, ConnectDiscards, KeyPCs, OwnerPCs
<1>3. \E p : pc' = [pc EXCEPT ![c] = p]
  BY DEF ForwardPrecheck, ConnectJoin, ConnectOwn, WaiterResumes, DialFails,
         ConnectRaises, ConnectDiscards, Yield, Continue, Connected, Retries
<1>4. using' \in [Calls -> Calls \cup {None}]
  <2>1. CASE ConnectJoin(c)
    BY <2>1, <1>2 DEF ConnectJoin, PoolInv, PoolTyped, SlotInv, SlotTyped
  <2>2. CASE WaiterResumes(c)
    BY <2>2 DEF WaiterResumes, Retries, PoolInv, PoolTyped
  <2>3. CASE ~ConnectJoin(c) /\ ~WaiterResumes(c)
    BY <2>3 DEF PoolInv, PoolTyped, ForwardPrecheck, ConnectOwn, DialFails,
                ConnectRaises, ConnectDiscards
  <2>4. QED
    BY <2>1, <2>2, <2>3
<1>5. QED
  BY <1>0, <1>1, <1>2, <1>3, <1>4, IdlePoolStep

\* The steps of a call past its connect() that leave pins and forwards alone,
\* and the arrival of a call.
LEMMA QuietCallSteps ==
  ASSUME PoolInv, SlotInv, NEW c \in Calls,
         \/ CreateProcess(c) \/ WorkEnds(c) \/ SessionEnds(c)
         \/ LoserClosed(c) \/ ForwardClosed(c)
         \/ \E k \in TargetsOf(c) : Start(c, k)
  PROVE  PoolInv'
<1>0. SlotTyped
  BY DEF SlotInv
<1>1. UNCHANGED <<using, entry, cacheVars, forwardVars>>
  BY DEF CreateProcess, WorkEnds, SessionEnds, LoserClosed, ForwardClosed, Start
<1>2. /\ pc[c] # "track"
      /\ \E p : /\ pc' = [pc EXCEPT ![c] = p]
                /\ p \in KeyPCs \cup {"new"} => pc[c] = "new"
  <2>1. CASE \E k \in TargetsOf(c) : Start(c, k)
    BY <2>1 DEF Start, Continue
  <2>2. CASE CreateProcess(c) \/ WorkEnds(c) \/ SessionEnds(c)
             \/ LoserClosed(c) \/ ForwardClosed(c)
    BY <2>2 DEF CreateProcess, WorkEnds, SessionEnds, LoserClosed, ForwardClosed,
                Yield, Continue, KeyPCs, OwnerPCs
  <2>3. QED
    BY <2>1, <2>2
<1>3. using' \in [Calls -> Calls \cup {None}]
  BY <1>1 DEF PoolInv, PoolTyped
<1>4. QED
  BY <1>0, <1>1, <1>2, <1>3, IdlePoolStep

\* The owner caches its connection; the unpinned entries that must make room go,
\* and so does the entry it replaces.
LEMMA CachePoolStep ==
  ASSUME PoolInv, SlotInv, NEW c \in Calls, ConnectCaches(c)
  PROVE  PoolInv'
<1>1. key[c] \in Keys /\ pc[c] = "cache" /\ pc[c] \in KeyPCs
  BY DEF ConnectCaches, SlotInv, KeyPCs, OwnerPCs
<1> DEFINE doomed == SelectConnEvictions(IF conns[key[c]] = None THEN 1 ELSE 0)
           gone == doomed \cup {conns[key[c]]}
<1>2. doomed \subseteq Unpinned
  BY DEF SelectConnEvictions
<1>3. /\ conns' = [Drop(conns, doomed) EXCEPT ![key[c]] = c]
      /\ older' = [Forget(gone) EXCEPT ![c] = Cached \ gone]
      /\ UNCHANGED <<entry, pins, forwards, listener>>
      /\ \E p \in {"create", "pin", "done"} : pc' = [pc EXCEPT ![c] = p]
      /\ conn' = Closed(doomed, "evicted") \/ conn' = conn
      /\ using' = [using EXCEPT ![c] = c] \/ using' = using
  BY DEF ConnectCaches, Connected, Yield, Continue, forwardVars
<1> HIDE DEF doomed
<1>4. c \notin Cached /\ conn[c] # "evicted"
  BY <1>1 DEF PoolInv, Settled
<1>5. \A e \in Calls : conn'[e] = conn[e] \/ (e \in doomed /\ e \in Cached)
  BY <1>2, <1>3 DEF Closed, Unpinned
<1>6. /\ Cached \ gone \subseteq Cached'
      /\ Cached' \subseteq (Cached \ doomed) \cup {c}
  <2>1. \A k \in Keys : conns'[k] = IF k = key[c] THEN c
                                    ELSE IF conns[k] \in doomed THEN None ELSE conns[k]
    BY <1>1, <1>3 DEF Drop
  <2>2. ASSUME NEW e \in Cached, e \notin gone PROVE e \in Cached'
    <3>1. PICK k \in Keys : e = conns[k] /\ e # None
      BY DEF Cached
    <3>2. k # key[c] /\ conns'[k] = e
      BY <2>1, <2>2, <3>1
    <3>3. QED
      BY <3>1, <3>2 DEF Cached
  <2>3. ASSUME NEW e \in Cached', e # c PROVE e \in Cached /\ e \notin doomed
    <3>1. PICK k \in Keys : e = conns'[k] /\ e # None
      BY DEF Cached
    <3>2. k # key[c] /\ conns[k] = e /\ e \notin doomed
      BY <2>1, <2>3, <3>1
    <3>3. QED
      BY <3>1, <3>2 DEF Cached
  <2>4. QED
    BY <2>2, <2>3
<1>7. PoolTyped'
  <2>1. conns' \in [Keys -> Calls \cup {None}]
    BY <1>1, <1>3 DEF PoolInv, PoolTyped, Drop
  <2>2. conn' \in [Calls -> ConnStates]
    BY <1>3 DEF PoolInv, PoolTyped, Closed, ConnStates
  <2>3. older' \in [Calls -> SUBSET Calls]
    BY <1>3, CachedCalls DEF PoolInv, PoolTyped, Forget
  <2>4. using' \in [Calls -> Calls \cup {None}]
    BY <1>3 DEF PoolInv, PoolTyped
  <2>5. QED
    BY <1>3, <2>1, <2>2, <2>3, <2>4 DEF PoolInv, PoolTyped
<1>8. Settled'
  <2>1. \A e \in Calls : pc'[e] \in KeyPCs \cup {"new"} => e # c /\ pc[e] \in KeyPCs \cup {"new"}
    BY <1>3 DEF SlotInv, SlotTyped, KeyPCs, OwnerPCs
  <2>2. QED
    BY <1>5, <1>6, <2>1 DEF PoolInv, Settled
<1>9. CachedNotEvicted'
  <2>1. ASSUME NEW e \in Cached' PROVE conn'[e] # "evicted"
    <3>1. CASE e = c
      BY <1>4, <1>5, <3>1
    <3>2. CASE e # c
      BY <1>5, <1>6, <3>2, CachedCalls DEF PoolInv, CachedNotEvicted
    <3>3. QED
      BY <3>1, <3>2
  <2>2. QED
    BY <2>1 DEF CachedNotEvicted
<1>10. Order'
  <2> DEFINE kept == Cached \ gone
  <2>1. /\ older'[c] = kept
        /\ \A d \in Calls : d # c => older'[d] = IF d \in gone THEN {} ELSE older[d] \ gone
    <3> HIDE DEF gone
    <3> QED  BY <1>3 DEF Forget
  <2>2. kept \subseteq Cached' /\ c \notin kept /\ kept \subseteq Calls /\ kept \cap gone = {}
    BY <1>4, <1>6, CachedCalls DEF PoolInv
  <2>3. \A d \in Calls : older[d] \subseteq Cached \ {d}
    BY DEF PoolInv, Order
  <2>4. \A d \in Calls : d # c => older'[d] \subseteq kept \ {d}
    <3> HIDE DEF gone
    <3>1. \A d \in Calls : d # c => older'[d] \subseteq older[d] \ gone
      BY <2>1
    <3>2. QED
      BY <2>3, <3>1
  <2> HIDE DEF kept
  <2>5. \A d \in Calls : older'[d] \subseteq Cached' \ {d}
    BY <2>1, <2>2, <2>4
  <2>6. ASSUME NEW x \in Calls, NEW d \in older'[x] PROVE older'[d] \subseteq older'[x]
    <3>1. d \in kept /\ d # c /\ d \in Calls
      BY <2>1, <2>2, <2>4
    <3>2. CASE x = c
      BY <2>1, <2>4, <3>1, <3>2
    <3>3. CASE x # c
      <4>1. x \notin gone /\ older'[x] = older[x] \ gone /\ d \in older[x] /\ d \notin gone
        BY <2>1, <2>6, <3>3
      <4>2. older'[d] = older[d] \ gone
        BY <2>1, <3>1, <4>1
      <4>3. older[d] \subseteq older[x]
        BY <4>1 DEF PoolInv, Order
      <4>4. QED
        BY <4>1, <4>2, <4>3
    <3>4. QED
      BY <3>2, <3>3
  <2>7. QED
    BY <2>5, <2>6 DEF Order
<1>11. PinsCoverHolders'
  BY <1>3, FewerHolders DEF PoolInv
<1>12. HolderNotEvicted'
  BY <1>2, <1>3, <1>5, UnpinnedFree, NoneAssumption DEF PoolInv, HolderNotEvicted, PoolTyped
<1>13. ForwardsAccounted'
  BY <1>3, <1>1 DEF PoolInv, ForwardsAccounted, SlotInv, SlotTyped
<1>14. QED
  BY <1>7, <1>8, <1>9, <1>10, <1>11, <1>12, <1>13 DEF PoolInv


\* A call pins the entry it uses, if that is cached.
LEMMA PinPoolStep ==
  ASSUME PoolInv, SlotInv, NEW c \in Calls, Pin(c)
  PROVE  PoolInv'
<1> DEFINE p == CASE c \in Runs -> "work" [] c \in Spawns -> "live" [] OTHER -> "listen"
           e == using[c]
<1>1. p \notin KeyPCs \cup {"new"}
  BY DEF KeyPCs, OwnerPCs
<1>2. /\ pc[c] = "pin" /\ pc' = [pc EXCEPT ![c] = p]
      /\ UNCHANGED <<using, conns, conn, forwards, listener>>
  BY DEF Pin, Yield, forwardVars
<1> HIDE DEF p
<1>3. CASE e \notin Cached
  <2>1. UNCHANGED <<entry, cacheVars, forwardVars>>
    BY <1>2, <1>3 DEF Pin, cacheVars, forwardVars
  <2>2. SlotTyped /\ using' \in [Calls -> Calls \cup {None}]
    BY <1>2 DEF SlotInv, PoolInv, PoolTyped
  <2>3. QED
    BY <1>1, <1>2, <2>1, <2>2, IdlePoolStep
<1>4. CASE e \in Cached
  <2>1. /\ pins' = [pins EXCEPT ![e] = pins[e] + 1]
        /\ entry' = [entry EXCEPT ![c] = e]
        /\ older' = Touch(e)
    BY <1>4 DEF Pin, Pinned
  <2> HIDE DEF e
  <2>2. e \in Calls /\ conn[e] # "evicted" /\ Cached' = Cached
    <3>1. Cached' = Cached
      BY <1>2 DEF Cached
    <3>2. QED
      BY <1>4, <3>1, CachedCalls DEF PoolInv, CachedNotEvicted
  <2>3. Order' /\ older' \in [Calls -> SUBSET Calls]
    BY <1>2, <1>4, <2>1, TouchKeepsOrder DEF PoolInv
  <2>4. PoolTyped'
    <3>1. pins' \in [Calls -> Nat] /\ entry' \in [Calls -> Calls \cup {None}]
      BY <2>1, <2>2 DEF PoolInv, PoolTyped
    <3>2. QED
      BY <1>2, <2>3, <3>1 DEF PoolInv, PoolTyped
  <2>5. Settled' /\ CachedNotEvicted'
    BY <1>1, <1>2, <2>2 DEF PoolInv, Settled, CachedNotEvicted, SlotInv, SlotTyped
  <2>6. PinsCoverHolders'
    <3>1. SUFFICES ASSUME NEW d \in Calls
                   PROVE  pins'[d] >= Cardinality(Holders(d)')
      BY DEF PinsCoverHolders
    <3>2. pins[d] \in Nat /\ pins[d] >= Cardinality(Holders(d))
      BY DEF PoolInv, PoolTyped, PinsCoverHolders
    <3>3. CASE d = e
      <4>1. Holders(d)' = Holders(d) \cup {c}
        BY <2>1, <3>3 DEF Holders, PoolInv, PoolTyped
      <4>2. /\ Cardinality(Holders(d)') \in Nat
            /\ Cardinality(Holders(d)') <= Cardinality(Holders(d)) + 1
        BY <4>1, HoldersCount, OneMore
      <4>3. pins'[d] = pins[d] + 1
        BY <2>1, <3>3 DEF PoolInv, PoolTyped
      <4>4. QED
        BY <3>2, <4>2, <4>3, HoldersCount
    <3>4. CASE d # e
      <4>1. Holders(d)' \subseteq Holders(d)
        BY <2>1, <3>4 DEF Holders, PoolInv, PoolTyped
      <4>2. Cardinality(Holders(d)') <= Cardinality(Holders(d)) /\ Cardinality(Holders(d)') \in Nat
        BY <4>1, HoldersCount, FS_Subset, FS_CardinalityType
      <4>3. pins'[d] = pins[d]
        BY <2>1, <3>4 DEF PoolInv, PoolTyped
      <4>4. QED
        BY <3>2, <4>2, <4>3, HoldersCount
    <3>5. QED
      BY <3>3, <3>4
  <2>7. HolderNotEvicted'
    BY <1>2, <2>1, <2>2 DEF PoolInv, HolderNotEvicted, PoolTyped
  <2>8. ForwardsAccounted'
    BY <1>2 DEF PoolInv, ForwardsAccounted, SlotInv, SlotTyped
  <2>9. QED
    BY <2>3, <2>4, <2>5, <2>6, <2>7, <2>8 DEF PoolInv
<1>5. QED
  BY <1>3, <1>4

\* A holder gives its pin back, whether or not its entry is still cached.
LEMMA UnpinPoolStep ==
  ASSUME PoolInv, SlotInv, NEW c \in Calls, Unpin(c)
  PROVE  PoolInv'
<1> DEFINE e == entry[c]
<1>1. /\ pc[c] \in {"unpin", "release"} /\ pc' = [pc EXCEPT ![c] = "done"]
      /\ UNCHANGED <<using, conns, conn, forwards, listener>>
      /\ entry' = [entry EXCEPT ![c] = None]
  BY DEF Unpin, Yield, forwardVars
<1>2. Cached' = Cached
  BY <1>1 DEF Cached
<1>3. e \in Calls \cup {None}
  BY DEF PoolInv, PoolTyped
<1>4. /\ e = None => UNCHANGED <<pins, older>>
      /\ e # None => /\ pins' = [pins EXCEPT ![e] = Released(pins[e])]
                     /\ older' = IF e \in Cached THEN Touch(e) ELSE older
  BY DEF Unpin
<1>5. Order' /\ older' \in [Calls -> SUBSET Calls]
  <2>1. CASE e # None /\ e \in Cached
    BY <1>1, <1>4, <2>1, TouchKeepsOrder DEF PoolInv
  <2>2. CASE e = None \/ e \notin Cached
    <3>1. older' = older
      BY <1>4, <2>2
    <3>2. QED
      BY <1>2, <3>1 DEF PoolInv, PoolTyped, Order
  <2>3. QED
    BY <2>1, <2>2
<1>6. PoolTyped'
  <2>1. pins' \in [Calls -> Nat]
    <3>1. \A n \in Nat : Released(n) \in Nat
      BY DEF Released
    <3>2. QED
      BY <1>3, <1>4, <3>1 DEF PoolInv, PoolTyped
  <2>2. QED
    BY <1>1, <1>5, <2>1 DEF PoolInv, PoolTyped
<1>7. Settled' /\ CachedNotEvicted'
  BY <1>1, <1>2 DEF PoolInv, Settled, CachedNotEvicted, SlotInv, SlotTyped, KeyPCs, OwnerPCs
<1>8. PinsCoverHolders'
  <2>1. CASE e = None
    BY <1>1, <1>4, <2>1, FewerHolders DEF PoolInv, PoolTyped
  <2>2. CASE e # None
    <3>1. SUFFICES ASSUME NEW d \in Calls
                   PROVE  pins'[d] >= Cardinality(Holders(d)')
      BY DEF PinsCoverHolders
    <3>2. pins[d] \in Nat /\ pins[d] >= Cardinality(Holders(d))
      BY DEF PoolInv, PoolTyped, PinsCoverHolders
    <3>3. CASE d = e
      <4>1. Holders(d)' = Holders(d) \ {c} /\ c \in Holders(d)
        BY <1>1, <2>2, <3>3 DEF Holders, PoolInv, PoolTyped
      <4>2. Cardinality(Holders(d)') = Cardinality(Holders(d)) - 1
        BY <4>1, HoldersCount, FS_RemoveElement
      <4>3. Cardinality(Holders(d)') \in Nat
        BY <4>1, HoldersCount, FS_RemoveElement, FS_CardinalityType
      <4>4. pins'[d] = pins[d] - 1
        BY <1>4, <2>2, <3>2, <3>3, <4>2, <4>3, HoldersCount DEF Released, PoolInv, PoolTyped
      <4>5. QED
        BY <3>2, <4>2, <4>4, HoldersCount
    <3>4. CASE d # e
      <4>1. Holders(d)' = Holders(d)
        BY <1>1, <3>4, NoneAssumption DEF Holders, PoolInv, PoolTyped
      <4>2. pins'[d] = pins[d]
        BY <1>4, <2>2, <3>4 DEF PoolInv, PoolTyped
      <4>3. QED
        BY <3>2, <4>1, <4>2
    <3>5. QED
      BY <3>3, <3>4
  <2>3. QED
    BY <2>1, <2>2
<1>9. HolderNotEvicted' /\ ForwardsAccounted'
  BY <1>1 DEF PoolInv, HolderNotEvicted, ForwardsAccounted, PoolTyped, SlotInv, SlotTyped
<1>10. QED
  BY <1>5, <1>6, <1>7, <1>8, <1>9 DEF PoolInv

\* A listener opens, and is tracked if a slot is left or else closed.
LEMMA ListenPoolStep ==
  ASSUME PoolInv, SlotInv, NEW c \in Calls, Listen(c) \/ TrackForward(c)
  PROVE  PoolInv'
<1>1. /\ UNCHANGED <<using, entry, conns, conn, pins, older>>
      /\ \E p \in {"track", "unpin", "tracked", "lose"} : pc' = [pc EXCEPT ![c] = p]
      /\ pc[c] \in {"listen", "track"}
  BY DEF Listen, TrackForward, Yield, Continue, cacheVars
<1>2. Cached' = Cached /\ \A e \in Calls : Holders(e)' = Holders(e)
  BY <1>1 DEF Cached, Holders
<1>3. PoolTyped'
  BY <1>1 DEF PoolInv, PoolTyped, Listen, TrackForward
<1>4. Settled' /\ CachedNotEvicted' /\ Order'
  BY <1>1, <1>2 DEF PoolInv, Settled, CachedNotEvicted, Order, SlotInv, SlotTyped, KeyPCs, OwnerPCs
<1>5. PinsCoverHolders' /\ HolderNotEvicted'
  BY <1>1, <1>2 DEF PoolInv, PinsCoverHolders, HolderNotEvicted
<1>6. Cardinality(forwards') <= MaxForwards
  <2>1. IsFiniteSet(forwards) /\ Cardinality(forwards) \in Nat
    BY KindsAssumption, FS_Subset, FS_CardinalityType DEF PoolInv, PoolTyped
  <2>2. \/ forwards' = forwards
        \/ forwards' = forwards \cup {c} /\ Cardinality(forwards) < MaxForwards
    BY DEF Listen, TrackForward, ForwardSlotFree
  <2>3. /\ Cardinality(forwards \cup {c}) \in Nat
        /\ Cardinality(forwards \cup {c}) <= Cardinality(forwards) + 1
    BY <2>1, OneMore
  <2>4. QED
    <3>1. CASE forwards' = forwards
      BY <3>1 DEF PoolInv, ForwardsAccounted
    <3>2. CASE forwards' = forwards \cup {c} /\ Cardinality(forwards) < MaxForwards
      <4>1. Cardinality(forwards') = Cardinality(forwards \cup {c})
        BY <3>2
      <4>2. QED
        BY <2>1, <2>3, <3>2, <4>1, BoundsAssumption
    <3>3. QED
      BY <2>2, <3>1, <3>2
<1>7. \A f \in Calls : listener'[f] = "open" => f \in forwards' \/ pc'[f] = "track"
  <2>1. CASE Listen(c)
    BY <2>1 DEF Listen, Continue, PoolInv, PoolTyped, ForwardsAccounted, SlotInv, SlotTyped
  <2>2. CASE TrackForward(c)
    BY <2>2 DEF TrackForward, Yield, PoolInv, PoolTyped, ForwardsAccounted, SlotInv, SlotTyped
  <2>3. QED
    BY <2>1, <2>2
<1>8. QED
  BY <1>3, <1>4, <1>5, <1>6, <1>7 DEF PoolInv, ForwardsAccounted


\* close_forward takes the handle, and with it the pin, from the forward.
LEMMA PopPoolStep ==
  ASSUME PoolInv, SlotInv, NEW c \in Calls, PopForward(c)
  PROVE  PoolInv'
<1>1. /\ pc[c] = "pop" /\ UNCHANGED <<using, conns, conn, pins, older>>
      /\ \E p \in {"fclose", "done"} : pc' = [pc EXCEPT ![c] = p]
  BY DEF PopForward, Yield, cacheVars
<1>2. Cached' = Cached
  BY <1>1 DEF Cached
<1>3. Settled' /\ CachedNotEvicted' /\ Order'
  BY <1>1, <1>2 DEF PoolInv, Settled, CachedNotEvicted, Order, SlotInv, SlotTyped, KeyPCs, OwnerPCs
<1>4. CASE UNCHANGED <<entry, forwardVars>>
  <2>1. PoolTyped' /\ HolderNotEvicted' /\ ForwardsAccounted'
    BY <1>1, <1>4 DEF PoolInv, PoolTyped, HolderNotEvicted, ForwardsAccounted, forwardVars,
                      SlotInv, SlotTyped
  <2>2. PinsCoverHolders'
    BY <1>1, <1>4, FewerHolders DEF PoolInv
  <2>3. QED
    BY <1>3, <2>1, <2>2 DEF PoolInv
<1>5. ASSUME NEW f \in Forwarders, f \in forwards, forwards' = forwards \ {f},
             listener' = [listener EXCEPT ![f] = "closed"],
             entry' = [entry EXCEPT ![c] = entry[f], ![f] = None]
      PROVE  PoolInv'
  <2>1. f \in Calls /\ entry[f] \in Calls \cup {None}
    BY DEF Calls, PoolInv, PoolTyped
  <2>2. PoolTyped'
    BY <1>1, <1>5, <2>1 DEF PoolInv, PoolTyped
  <2>3. /\ entry'[f] = None
        /\ c # f => entry'[c] = entry[f]
        /\ \A d \in Calls : d # c /\ d # f => entry'[d] = entry[d]
    BY <1>5, <2>1 DEF PoolInv, PoolTyped
  <2>4. HolderNotEvicted'
    BY <1>1, <2>1, <2>3 DEF PoolInv, HolderNotEvicted
  <2>5. PinsCoverHolders'
    <3>1. SUFFICES ASSUME NEW e \in Calls
                   PROVE  pins'[e] >= Cardinality(Holders(e)')
      BY DEF PinsCoverHolders
    <3>2. pins'[e] \in Nat /\ pins'[e] >= Cardinality(Holders(e))
      BY <1>1 DEF PoolInv, PoolTyped, PinsCoverHolders
    <3>3. CASE f \in Holders(e) /\ c # f
      <4>1. Holders(e)' = (Holders(e) \ {f}) \cup {c}
        BY <2>1, <2>3, <3>3, NoneAssumption DEF Holders
      <4>2. /\ IsFiniteSet(Holders(e) \ {f})
            /\ Cardinality(Holders(e) \ {f}) = Cardinality(Holders(e)) - 1
        BY <3>3, HoldersCount, FS_RemoveElement
      <4>3. /\ Cardinality(Holders(e)') \in Nat
            /\ Cardinality(Holders(e)') <= Cardinality(Holders(e) \ {f}) + 1
        BY <4>1, <4>2, OneMore
      <4>4. QED
        BY <3>2, <4>2, <4>3, HoldersCount
    <3>4. CASE f \notin Holders(e) \/ c = f
      <4>1. Holders(e)' \subseteq Holders(e)
        BY <2>1, <2>3, <3>4, NoneAssumption DEF Holders
      <4>2. Cardinality(Holders(e)') <= Cardinality(Holders(e)) /\ Cardinality(Holders(e)') \in Nat
        BY <4>1, HoldersCount, FS_Subset, FS_CardinalityType
      <4>3. QED
        BY <3>2, <4>2, HoldersCount
    <3>5. QED
      BY <3>3, <3>4
  <2>6. ForwardsAccounted'
    <3>1. IsFiniteSet(forwards)
      BY KindsAssumption, FS_Subset DEF PoolInv, PoolTyped
    <3>2. Cardinality(forwards') <= Cardinality(forwards) /\ Cardinality(forwards') \in Nat
          /\ Cardinality(forwards) \in Nat
      BY <1>5, <3>1, FS_Subset, FS_CardinalityType
    <3>3. Cardinality(forwards') <= MaxForwards
      BY <3>2, BoundsAssumption DEF PoolInv, ForwardsAccounted
    <3>4. \A g \in Calls : listener'[g] = "open" => g \in forwards' \/ pc'[g] = "track"
      BY <1>1, <1>5, <2>1 DEF PoolInv, PoolTyped, ForwardsAccounted, SlotInv, SlotTyped
    <3>5. QED
      BY <3>3, <3>4 DEF ForwardsAccounted
  <2>7. QED
    BY <1>3, <2>2, <2>4, <2>5, <2>6 DEF PoolInv
<1>6. QED
  BY <1>4, <1>5 DEF PopForward

\* close_all empties the cache and the forwards.
LEMMA CloseAllPoolStep ==
  ASSUME PoolInv, SlotInv, NEW c \in Calls, CloseAll(c)
  PROVE  PoolInv'
<1>1. /\ conns' = [k \in Keys |-> None] /\ conn' = Closed(Cached, "shut")
      /\ older' = [e \in Calls |-> {}] /\ forwards' = {}
      /\ listener' = [f \in Calls |-> IF f \in forwards THEN "closed" ELSE listener[f]]
      /\ entry' = [f \in Calls |-> IF f \in forwards THEN None ELSE entry[f]]
      /\ pc[c] = "drop" /\ pc' = [pc EXCEPT ![c] = "done"] /\ UNCHANGED <<using, pins>>
  BY DEF CloseAll, Yield
<1>2. PoolTyped'
  BY <1>1 DEF PoolInv, PoolTyped, Closed, ConnStates
<1>3. Cached' = {} /\ \A e \in Calls : conn'[e] = "evicted" => conn[e] = "evicted"
  BY <1>1 DEF Cached, Closed
<1>4. Settled' /\ CachedNotEvicted'
  BY <1>1, <1>3 DEF PoolInv, Settled, CachedNotEvicted, SlotInv, SlotTyped, KeyPCs, OwnerPCs
<1>5. Order'
  BY <1>1 DEF Order
<1>6. PinsCoverHolders'
  BY <1>1, FewerHolders DEF PoolInv
<1>7. HolderNotEvicted'
  BY <1>1, <1>3 DEF PoolInv, PoolTyped, HolderNotEvicted
<1>8. ForwardsAccounted'
  <2>1. Cardinality(forwards') <= MaxForwards
    BY <1>1, FS_EmptySet, BoundsAssumption
  <2>2. \A f \in Calls : listener'[f] = "open" => pc'[f] = "track"
    BY <1>1 DEF PoolInv, PoolTyped, ForwardsAccounted, SlotInv, SlotTyped
  <2>3. QED
    BY <2>1, <2>2 DEF ForwardsAccounted
<1>9. QED
  BY <1>2, <1>4, <1>5, <1>6, <1>7, <1>8 DEF PoolInv

\* A cancelled call drops its references; the handler of a cancelled wait for
\* the tracking lock closes the listener.
LEMMA CancelPoolStep ==
  ASSUME PoolInv, SlotInv, NEW c \in Calls, Cancel(c)
  PROVE  PoolInv'
<1>1. /\ AfterCancel(pc[c]) \in {"cancelled", "unpin", "done"}
      /\ AfterCancel(pc[c]) = "cancelled" => pc[c] \in {"dial", "persist"}
  BY DEF AfterCancel
<1>2. /\ pc' = [pc EXCEPT ![c] = AfterCancel(pc[c])]
      /\ UNCHANGED <<conns, conn, pins, older, forwards>>
      /\ \/ UNCHANGED <<using, entry>>
         \/ /\ using' = [using EXCEPT ![c] = None]
            /\ entry' = [entry EXCEPT ![c] = None]
      /\ listener' = [listener EXCEPT ![c] = IF pc[c] = "track" THEN "closed" ELSE @]
  BY <1>1 DEF Cancel, Continue, Yield, cacheVars
<1>3. PoolTyped'
  BY <1>2 DEF PoolInv, PoolTyped
<1>4. /\ Cached' = Cached
      /\ \A d \in Calls : pc'[d] \in KeyPCs \cup {"new"} => pc[d] \in KeyPCs \cup {"new"}
  <2>1. Cached' = Cached
    BY <1>2 DEF Cached
  <2>2. AfterCancel(pc[c]) \in KeyPCs \cup {"new"} => pc[c] \in KeyPCs
    BY <1>1 DEF KeyPCs, OwnerPCs
  <2>3. QED
    BY <1>2, <2>1, <2>2 DEF SlotInv, SlotTyped
<1>5. Settled' /\ CachedNotEvicted' /\ Order'
  BY <1>2, <1>4 DEF PoolInv, Settled, CachedNotEvicted, Order
<1>6. PinsCoverHolders'
  BY <1>2, FewerHolders DEF PoolInv, PoolTyped
<1>7. HolderNotEvicted'
  BY <1>2 DEF PoolInv, PoolTyped, HolderNotEvicted
<1>8. ForwardsAccounted'
  BY <1>2 DEF PoolInv, PoolTyped, ForwardsAccounted, SlotInv, SlotTyped
<1>9. QED
  BY <1>3, <1>5, <1>6, <1>7, <1>8 DEF PoolInv


\* The pool's invariant: pins cover their holders, no eviction reaches a holder,
\* forwards stay within their cap and every open listener has a handle.
THEOREM PoolInvariance == Spec => []PoolInv
<1>1. Init => PoolInv
  <2> SUFFICES ASSUME Init PROVE PoolInv
    OBVIOUS
  <2>1. PoolTyped /\ Cached = {}
    BY DEF Init, PoolTyped, ConnStates, Cached
  <2>2. Settled /\ CachedNotEvicted /\ Order
    BY <2>1 DEF Init, Settled, CachedNotEvicted, Order
  <2>3. HolderNotEvicted
    BY DEF Init, HolderNotEvicted
  <2>4. \A e \in Calls : Holders(e) = {} /\ pins[e] = 0
    BY NoneAssumption DEF Init, Holders
  <2>5. PinsCoverHolders
    BY <2>4, FS_EmptySet DEF PinsCoverHolders
  <2>6. ForwardsAccounted
    BY FS_EmptySet, BoundsAssumption DEF Init, ForwardsAccounted
  <2>7. QED
    BY <2>1, <2>2, <2>3, <2>5, <2>6 DEF PoolInv
<1>2. PoolInv /\ SlotInv /\ [Next]_vars => PoolInv'
  <2> SUFFICES ASSUME PoolInv, SlotInv, [Next]_vars PROVE PoolInv'
    OBVIOUS
  <2>1. CASE UNCHANGED <<pc, using, entry, conns, conn, pins, older, forwards, listener>>
    <3>1. Cached' = Cached /\ \A e \in Calls : Holders(e)' = Holders(e)
      BY <2>1 DEF Cached, Holders
    <3>2. PoolTyped' /\ Settled' /\ CachedNotEvicted' /\ Order'
      BY <2>1, <3>1 DEF PoolInv, PoolTyped, Settled, CachedNotEvicted, Order
    <3>3. PinsCoverHolders' /\ HolderNotEvicted' /\ ForwardsAccounted'
      BY <2>1, <3>1 DEF PoolInv, PinsCoverHolders, HolderNotEvicted, ForwardsAccounted
    <3>4. QED
      BY <3>2, <3>3 DEF PoolInv
  <2>2. ASSUME NEW c \in Calls, ConnDies(c) PROVE PoolInv'
    <3>1. /\ conn' = [conn EXCEPT ![c] = "dead"]
          /\ UNCHANGED <<pc, using, entry, conns, pins, older, forwards, listener>>
      BY <2>2 DEF ConnDies, forwardVars
    <3>2. /\ Cached' = Cached /\ Cached \subseteq Calls
          /\ \A e \in Calls : conn'[e] = "evicted" => conn[e] = "evicted"
      BY <3>1, CachedCalls DEF Cached, PoolInv, PoolTyped
    <3>3. PoolTyped'
      BY <3>1 DEF PoolInv, PoolTyped, ConnStates
    <3>4. Settled' /\ CachedNotEvicted' /\ Order'
      BY <3>1, <3>2 DEF PoolInv, Settled, CachedNotEvicted, Order
    <3>5. PinsCoverHolders'
      BY <3>1, FewerHolders DEF PoolInv
    <3>6. HolderNotEvicted' /\ ForwardsAccounted'
      BY <3>1, <3>2 DEF PoolInv, PoolTyped, HolderNotEvicted, ForwardsAccounted
    <3>7. QED
      BY <3>3, <3>4, <3>5, <3>6 DEF PoolInv
  <2>3. ASSUME NEW c \in Calls, Progress(c) PROVE PoolInv'
    <3>1. CASE Blocked(c)
      BY <2>1, <3>1 DEF Blocked, cacheVars, forwardVars
    <3>2. QED
      BY <2>3, <3>1, QuietConnectSteps, SweepPoolStep, HitPoolStep, DialPoolStep,
         CachePoolStep, PinPoolStep, UnpinPoolStep, ListenPoolStep, PopPoolStep,
         CloseAllPoolStep DEF Progress
  <2>4. ASSUME NEW c \in Calls, Unbounded(c) PROVE PoolInv'
    BY <2>4, QuietCallSteps, ListenPoolStep DEF Unbounded
  <2>5. ASSUME NEW c \in Calls, \E k \in TargetsOf(c) : Start(c, k) PROVE PoolInv'
    BY <2>5, QuietCallSteps
  <2>6. CASE UNCHANGED vars
    BY <2>1, <2>6 DEF vars
  <2>7. QED
    BY <2>2, <2>3, <2>4, <2>5, <2>6, CancelPoolStep DEF Next, Quiesced
<1>3. QED
  BY <1>1, <1>2, SlotInvariance, PTL DEF Spec

\* No pin is lost: an entry has at least one pin per holder.
THEOREM PinsHold == Spec => []PinsCoverHolders
<1>1. PoolInv => PinsCoverHolders
  BY DEF PoolInv
<1>2. QED
  BY <1>1, PoolInvariance, PTL

\* Neither the idle sweep nor the cap closes a connection that has a holder.
THEOREM HoldersKeepTheirConnection == Spec => []HolderNotEvicted
<1>1. PoolInv => HolderNotEvicted
  BY DEF PoolInv
<1>2. QED
  BY <1>1, PoolInvariance, PTL

\* The forward cap holds and every open listener can be reached.
THEOREM ForwardsHold == Spec => []ForwardsAccounted
<1>1. PoolInv => ForwardsAccounted
  BY DEF PoolInv
<1>2. QED
  BY <1>1, PoolInvariance, PTL


-----------------------------------------------------------------------------
(* The cap on cached connections.                                          *)

\* An entry is cached under the key its call resolved, hence under no other.
Keyed == \A k \in Keys : conns[k] # None => key[conns[k]] = k

\* A set that lost an element and gained at most one has not grown.
LEMMA OneForOne ==
  ASSUME NEW S, NEW e \in S, NEW x, IsFiniteSet(S), NEW T, T \subseteq (S \ {e}) \cup {x}
  PROVE  Cardinality(T) <= Cardinality(S)
<1>1. IsFiniteSet(S \ {e}) /\ Cardinality(S \ {e}) = Cardinality(S) - 1
  BY FS_RemoveElement
<1>2. IsFiniteSet((S \ {e}) \cup {x})
  BY <1>1, FS_AddElement
<1>3. IsFiniteSet(T) /\ Cardinality(T) <= Cardinality((S \ {e}) \cup {x})
  BY <1>2, FS_Subset
<1>4. Cardinality(T) \in Nat /\ Cardinality(S) \in Nat /\ Cardinality(S \ {e}) \in Nat
  BY <1>1, <1>3, FS_CardinalityType
<1>5. /\ Cardinality((S \ {e}) \cup {x}) \in Nat
      /\ Cardinality((S \ {e}) \cup {x}) <= Cardinality(S \ {e}) + 1
  BY <1>1, OneMore
<1>6. QED
  BY <1>1, <1>3, <1>4, <1>5

\* Among unpinned entries one was used before all others.
LEMMA OldestExists ==
  ASSUME PoolInv, Unpinned # {}
  PROVE  \E e \in Unpinned : older[e] \cap Unpinned = {}
<1> DEFINE F == {older[e] \cap Unpinned : e \in Unpinned}
           R == StrictSubsetOrdering(Calls)
<1>1. Unpinned \subseteq Calls
  BY CachedCalls DEF Unpinned, PoolInv
<1>2. IsWellFoundedOn(R, SUBSET Calls)
  <2>1. IsWellFoundedOn(StrictSubsetOrdering(Calls), FiniteSubsetsOf(Calls))
    BY FS_StrictSubsetOrderingWellFounded
  <2>2. FiniteSubsetsOf(Calls) = SUBSET Calls
    BY KindsAssumption, FS_FiniteSubsetsOfFinite
  <2>3. QED
    BY <2>1, <2>2
<1>3. F \subseteq SUBSET Calls /\ F # {}
  BY <1>1
<1>4. \E x \in F : \A y \in F : ~ (<<y, x>> \in R)
  <2> HIDE DEF F, R
  <2> QED  BY <1>2, <1>3, WFMin
<1>5. PICK e \in Unpinned : \A d \in Unpinned :
        ~ (<<older[d] \cap Unpinned, older[e] \cap Unpinned>> \in R)
  BY <1>4
<1>6. ASSUME NEW d \in older[e] \cap Unpinned PROVE FALSE
  <2>1. older[d] \subseteq older[e] /\ d \notin older[d]
    BY <1>1, <1>6 DEF PoolInv, Order
  <2>2. <<older[d] \cap Unpinned, older[e] \cap Unpinned>> \in R
    BY <1>1, <1>6, <2>1 DEF StrictSubsetOrdering
  <2>3. QED
    BY <1>5, <2>2
<1>7. QED
  BY <1>6

\* Only an owner that caches its connection puts one more entry in the cache.
LEMMA OthersDoNotCache ==
  ASSUME PoolInv, SlotInv, Next, ~\E c \in Calls : ConnectCaches(c)
  PROVE  \A k \in Keys : conns'[k] \in {conns[k], None}
<1>1. ASSUME NEW c \in Calls, SweepConns(c) PROVE \A k \in Keys : conns'[k] \in {conns[k], None}
  BY <1>1 DEF SweepConns, Drop
<1>2. ASSUME NEW c \in Calls, CloseAll(c) PROVE \A k \in Keys : conns'[k] \in {conns[k], None}
  BY <1>2 DEF CloseAll
<1>3. ASSUME NEW c \in Calls, Progress(c), ~SweepConns(c), ~CloseAll(c), ~ConnectCaches(c)
      PROVE  conns' = conns
  BY <1>3 DEF Progress, Blocked, ForwardPrecheck, ConnectHit, ConnectJoin, ConnectOwn,
       WaiterResumes, DialSucceeds, DialFails, HostKeyPersisted, ConnectRaises,
       ConnectDiscards, Pin, Unpin, TrackForward, PopForward, cacheVars
<1>4. ASSUME NEW c \in Calls, Unbounded(c) \/ Cancel(c) \/ ConnDies(c) PROVE conns' = conns
  BY <1>4 DEF Unbounded, CreateProcess, WorkEnds, SessionEnds, Listen, LoserClosed,
       ForwardClosed, Cancel, ConnDies, cacheVars
<1>5. ASSUME NEW c \in Calls, NEW k \in TargetsOf(c), Start(c, k) PROVE conns' = conns
  BY <1>5 DEF Start, cacheVars
<1>6. CASE Quiesced
  BY <1>6 DEF Quiesced, vars
<1>7. QED
  BY <1>1, <1>2, <1>3, <1>4, <1>5, <1>6 DEF Next

\* A call's key does not change once the call has arrived.
LEMMA KeysStay ==
  ASSUME SlotInv, Next, NEW d \in Calls, pc[d] # "new"
  PROVE  key'[d] = key[d]
<1>1. ASSUME NEW c \in Calls, Progress(c) PROVE key' = key
  BY <1>1 DEF Progress, Blocked, ForwardPrecheck, SweepConns, ConnectHit, ConnectJoin,
       ConnectOwn, WaiterResumes, DialSucceeds, DialFails, HostKeyPersisted,
       ConnectRaises, ConnectDiscards, ConnectCaches, Pin, Unpin, TrackForward,
       PopForward, CloseAll
<1>2. ASSUME NEW c \in Calls, Unbounded(c) \/ Cancel(c) \/ ConnDies(c) PROVE key' = key
  BY <1>2 DEF Unbounded, CreateProcess, WorkEnds, SessionEnds, Listen, LoserClosed,
       ForwardClosed, Cancel, ConnDies
<1>3. ASSUME NEW c \in Calls, NEW k \in TargetsOf(c), Start(c, k) PROVE key'[d] = key[d]
  BY <1>3 DEF Start, SlotInv, SlotTyped
<1>4. CASE Quiesced
  BY <1>4 DEF Quiesced, vars
<1>5. QED
  BY <1>1, <1>2, <1>3, <1>4 DEF Next

\* Each entry stays under its own key.
THEOREM KeyedInvariance == Spec => []Keyed
<1>1. Init => Keyed
  BY DEF Init, Keyed
<1>2. PoolInv /\ SlotInv /\ Keyed /\ [Next]_vars => Keyed'
  <2> SUFFICES ASSUME PoolInv, SlotInv, Keyed, Next PROVE Keyed'
    BY DEF Keyed, vars
  <2>1. \A d \in Cached : d \in Calls /\ key'[d] = key[d]
    BY KeysStay, CachedCalls DEF PoolInv, Settled
  <2>2. CASE \E c \in Calls : ConnectCaches(c)
    <3>1. PICK c \in Calls : ConnectCaches(c)
      BY <2>2
    <3>2. key[c] \in Keys /\ key' = key
      BY <3>1 DEF ConnectCaches, SlotInv, KeyPCs, OwnerPCs
    <3>3. PICK S : conns' = [Drop(conns, S) EXCEPT ![key[c]] = c]
      BY <3>1 DEF ConnectCaches
    <3>4. QED
      BY <3>2, <3>3, NoneAssumption DEF Keyed, Drop
  <2>3. CASE ~\E c \in Calls : ConnectCaches(c)
    BY <2>1, <2>3, OthersDoNotCache DEF Keyed, Cached
  <2>4. QED
    BY <2>2, <2>3
<1>3. QED
  BY <1>1, <1>2, PoolInvariance, SlotInvariance, PTL DEF Spec

\* The cache outgrows max_conns only when every other entry is pinned.
THEOREM CapHolds == Spec => CapExceededOnlyByPins
<1>1. ASSUME PoolInv, SlotInv, Keyed, Next,
             Cardinality(Cached') > Cardinality(Cached),
             Cardinality(Cached') > MaxConns, MaxConns > 0
      PROVE  \A e \in Cached : pins[e] > 0
  <2>1. IsFiniteSet(Cached) /\ Cardinality(Cached) \in Nat
    BY <1>1, CachedCalls, FS_CardinalityType DEF PoolInv
  <2>2. \A T : T \subseteq Cached => Cardinality(T) \in Nat /\ Cardinality(T) <= Cardinality(Cached)
    BY <2>1, FS_Subset, FS_CardinalityType
  <2>3. ~(Cached' \subseteq Cached)
    BY <1>1, <2>1, <2>2
  <2>4. PICK c \in Calls : ConnectCaches(c)
    <3>1. CASE ~\E c \in Calls : ConnectCaches(c)
      <4>1. \A k \in Keys : conns'[k] \in {conns[k], None}
        BY <1>1, <3>1, OthersDoNotCache
      <4>2. Cached' \subseteq Cached
        BY <4>1 DEF Cached
      <4>3. QED
        BY <2>3, <4>2
    <3>2. QED
      BY <3>1
  <2>5. key[c] \in Keys
    BY <1>1, <2>4 DEF ConnectCaches, SlotInv, KeyPCs, OwnerPCs
  <2> DEFINE doomed == SelectConnEvictions(IF conns[key[c]] = None THEN 1 ELSE 0)
  <2>6. conns' = [Drop(conns, doomed) EXCEPT ![key[c]] = c]
    BY <2>4 DEF ConnectCaches
  <2>7. Cached' \subseteq (Cached \ (doomed \cup {conns[key[c]]})) \cup {c}
    <3> HIDE DEF doomed
    <3>1. ASSUME NEW e \in Cached', e # c
          PROVE  e \in Cached /\ e \notin doomed /\ e # conns[key[c]]
      <4>1. PICK k \in Keys : e = conns'[k] /\ e # None
        BY DEF Cached
      <4>2. k # key[c] /\ conns[k] = e /\ e \notin doomed
        BY <1>1, <2>5, <2>6, <3>1, <4>1 DEF Drop, PoolInv, PoolTyped
      <4>3. key[e] = k
        BY <1>1, <4>1, <4>2 DEF Keyed
      <4>4. e # conns[key[c]]
        BY <1>1, <2>5, <4>1, <4>2, <4>3 DEF Keyed
      <4>5. QED
        BY <4>1, <4>2, <4>4 DEF Cached
    <3>2. QED
      BY <3>1
  <2>8. conns[key[c]] = None
    <3>1. CASE conns[key[c]] # None
      <4>1. conns[key[c]] \in Cached
        BY <2>5, <3>1 DEF Cached
      <4>2. Cardinality(Cached') <= Cardinality(Cached)
        <5> HIDE DEF doomed
        <5>1. Cached' \subseteq (Cached \ {conns[key[c]]}) \cup {c}
          BY <2>7
        <5>2. QED
          BY <2>1, <4>1, <5>1, OneForOne
      <4>3. IsFiniteSet(Cached') /\ Cardinality(Cached') \in Nat
        <5>1. Cached' \subseteq Cached \cup {c}
          BY <2>7
        <5>2. QED
          BY <2>1, <5>1, FS_AddElement, FS_Subset, FS_CardinalityType
      <4>4. QED
        BY <1>1, <2>1, <4>2, <4>3
    <3>2. QED
      BY <3>1
  <2>9. /\ Cardinality(Cached') \in Nat
        /\ Cardinality(Cached') <= Cardinality(Cached) + 1
    <3>1. Cached' \subseteq Cached \cup {c} /\ IsFiniteSet(Cached \cup {c})
      BY <2>1, <2>7, FS_AddElement
    <3>2. /\ IsFiniteSet(Cached') /\ Cardinality(Cached') <= Cardinality(Cached \cup {c})
      BY <3>1, FS_Subset
    <3>3. Cardinality(Cached') \in Nat
      BY <3>2, FS_CardinalityType
    <3>4. /\ Cardinality(Cached \cup {c}) \in Nat
          /\ Cardinality(Cached \cup {c}) <= Cardinality(Cached) + 1
      BY <2>1, OneMore
    <3>5. QED
      BY <2>1, <3>2, <3>3, <3>4
  <2>10. Unpinned = {}
    <3>1. SUFFICES ASSUME Unpinned # {} PROVE FALSE
      OBVIOUS
    <3>2. PICK e \in Unpinned : older[e] \cap Unpinned = {}
      BY <1>1, <3>1, OldestExists
    <3>3. Cardinality(older[e] \cap Unpinned) < Cardinality(Cached) + 1 - MaxConns
      <4>1. Cardinality(older[e] \cap Unpinned) = 0
        BY <3>2, FS_EmptySet
      <4>2. 0 < Cardinality(Cached) + 1 - MaxConns
        BY <1>1, <2>1, <2>9, BoundsAssumption
      <4>3. QED
        BY <4>1, <4>2
    <3>4. e \in doomed /\ e \in Cached
      BY <1>1, <2>8, <3>2, <3>3 DEF SelectConnEvictions, Unpinned
    <3> HIDE DEF doomed
    <3>5. Cached' \subseteq (Cached \ {e}) \cup {c}
      BY <2>7, <3>4
    <3>6. Cardinality(Cached') <= Cardinality(Cached)
      BY <2>1, <3>4, <3>5, OneForOne
    <3>7. QED
      BY <1>1, <2>1, <2>9, <3>6
  <2>11. QED
    BY <1>1, <2>10, CachedCalls DEF Unpinned, PoolInv, PoolTyped
<1>2. PoolInv /\ SlotInv /\ Keyed /\ [Next]_vars =>
        [Cardinality(Cached') > Cardinality(Cached) /\ Cardinality(Cached') > MaxConns
           /\ MaxConns > 0
         => \A e \in Cached : pins[e] > 0]_vars
  BY <1>1
<1>3. QED
  BY <1>2, PoolInvariance, SlotInvariance, KeyedInvariance, PTL
     DEF Spec, CapExceededOnlyByPins


-----------------------------------------------------------------------------
(* No connection leaks, with strict host keys and no forwards: a call goes *)
(* from its dial to its cache step without an await in between, and the    *)
(* lock is never held across one.                                          *)

\* Where only a forward gets.
ForwardPCs == {"precheck", "listen", "track", "tracked", "lose"}
\* Where only a call that dials gets.
DiallerPCs == KeyPCs \cup {"create", "pin"}

\* The lock is free between steps, and a call that has dialled goes on to cache
\* its connection before any other task runs.
Alone ==
  /\ lock = None
  /\ lockq = <<>>
  /\ \A c \in Calls :
       /\ pc[c] \in ForwardPCs => c \in Forwarders
       /\ pc[c] \in DiallerPCs => c \notin Closers \cup Shutdowns
       /\ pc[c] # "persist"
       /\ pc[c] = "cache" => running = c

\* What is open is cached or about to be, and a live future never shares its key
\* with an open cached connection.
Owned ==
  \A c \in Calls :
    /\ pc[c] = "dial" => fut[c] \in {"open", "cancelled"}
    /\ pc[c] = "cache" => fut[c] = "open"
    /\ c \in Cached => fut[c] = "result"
    /\ conn[c] = "open" => c \in Cached \/ pc[c] = "cache"
    /\ fut[c] = "open" /\ conns[key[c]] # None => conn[conns[key[c]]] # "open"

\* A step of call c that leaves the lock free.
LEMMA AloneMove ==
  ASSUME Alone, SlotTyped, Forwarders = {}, NEW c \in Calls, NEW p,
         pc' = [pc EXCEPT ![c] = p], lock' = None, lockq' = <<>>,
         running \in {c, None},
         p \notin ForwardPCs \cup {"persist"},
         p \in DiallerPCs => c \notin Closers \cup Shutdowns,
         p = "cache" => running' = c
  PROVE  Alone'
BY NoneAssumption DEF Alone, SlotTyped

\* The steps of a connect() keep the lock free.
LEMMA AloneConnect ==
  ASSUME Alone, SlotTyped, Forwarders = {}, ~AcceptNew, NEW c \in Calls,
         \/ ForwardPrecheck(c) \/ SweepConns(c)
         \/ ConnectHit(c) \/ ConnectJoin(c) \/ ConnectOwn(c)
         \/ WaiterResumes(c)
         \/ DialSucceeds(c) \/ DialFails(c) \/ HostKeyPersisted(c)
         \/ ConnectRaises(c) \/ ConnectDiscards(c) \/ ConnectCaches(c)
  PROVE  Alone'
<1>1. pc[c] \in KeyPCs
  BY DEF ForwardPrecheck, SweepConns, ConnectHit, ConnectJoin, ConnectOwn, WaiterResumes,
         DialSucceeds, DialFails, HostKeyPersisted, ConnectRaises, ConnectDiscards,
         ConnectCaches, KeyPCs, OwnerPCs
<1>2. c \notin Closers \cup Shutdowns
  BY <1>1 DEF Alone, DiallerPCs
<1>3. running \in {c, None} /\ lock' = None /\ lockq' = <<>>
  BY DEF Alone, Grant, ForwardPrecheck, SweepConns, ConnectHit, ConnectJoin, ConnectOwn,
         WaiterResumes, DialSucceeds, DialFails, HostKeyPersisted, ConnectRaises,
         ConnectDiscards, ConnectCaches
<1>4. \E p \in {"sweep", "claim", "create", "pin", "wait", "dial", "cache", "discard",
                "failed", "done"} :
        pc' = [pc EXCEPT ![c] = p] /\ (p = "cache" => running' = c)
  <2> USE DEF Continue, Yield, Connected
  <2>1. CASE ForwardPrecheck(c) \/ SweepConns(c)
    BY <2>1 DEF ForwardPrecheck, SweepConns
  <2>2. CASE ConnectHit(c) \/ ConnectJoin(c) \/ ConnectOwn(c)
    BY <2>2 DEF ConnectHit, ConnectJoin, ConnectOwn
  <2>3. CASE WaiterResumes(c)
    BY <2>3 DEF WaiterResumes, Retries
  <2>4. CASE DialSucceeds(c) \/ DialFails(c)
    BY <2>4 DEF DialSucceeds, DialFails, AfterDial
  <2>5. CASE HostKeyPersisted(c)
    BY <2>5 DEF HostKeyPersisted, Alone
  <2>6. CASE ConnectRaises(c) \/ ConnectDiscards(c)
    BY <2>6 DEF ConnectRaises, ConnectDiscards
  <2>7. CASE ConnectCaches(c)
    BY <2>7 DEF ConnectCaches
  <2>8. QED
    BY <2>1, <2>2, <2>3, <2>4, <2>5, <2>6, <2>7
<1>5. {"sweep", "claim", "create", "pin", "wait", "dial", "cache", "discard", "failed",
       "done"} \cap (ForwardPCs \cup {"persist"}) = {}
  BY DEF ForwardPCs
<1>6. QED
  BY <1>2, <1>3, <1>4, <1>5, AloneMove

\* So do all other steps.
LEMMA AloneOthers ==
  ASSUME Alone, SlotTyped, Forwarders = {}, NEW c \in Calls,
         \/ Pin(c) \/ Unpin(c) \/ TrackForward(c) \/ PopForward(c) \/ CloseAll(c)
         \/ CreateProcess(c) \/ WorkEnds(c) \/ SessionEnds(c)
         \/ Listen(c) \/ LoserClosed(c) \/ ForwardClosed(c) \/ Cancel(c)
         \/ \E k \in TargetsOf(c) : Start(c, k)
  PROVE  Alone'
<1>0. pc[c] \notin ForwardPCs
  BY DEF Alone
<1>1. CASE TrackForward(c) \/ Listen(c) \/ LoserClosed(c)
  BY <1>0, <1>1 DEF TrackForward, Listen, LoserClosed, ForwardPCs
<1>2. CASE Pin(c)
  <2>1. c \in Runs \cup Spawns
    BY <1>2 DEF Pin, Alone, DiallerPCs, Calls
  <2>2. \E p \in {"work", "live"} : pc' = [pc EXCEPT ![c] = p]
    <3>1. c \in Runs => c \notin Spawns
      BY KindsAssumption
    <3>2. QED
      BY <1>2, <2>1, <3>1 DEF Pin, Yield
  <2>3. running \in {c, None} /\ lock' = None /\ lockq' = <<>>
    BY <1>2 DEF Pin, Grant, Alone
  <2>4. QED
    <3>1. {"work", "live"} \cap (ForwardPCs \cup DiallerPCs \cup {"persist", "cache"}) = {}
      BY DEF ForwardPCs, DiallerPCs, KeyPCs, OwnerPCs
    <3>2. QED
      BY <2>2, <2>3, <3>1, AloneMove
<1>3. CASE Unpin(c) \/ PopForward(c) \/ CloseAll(c)
  <2>1. \E p \in {"done", "fclose"} : pc' = [pc EXCEPT ![c] = p]
    BY <1>3 DEF Unpin, PopForward, CloseAll, Yield
  <2>2. running \in {c, None} /\ lock' = None /\ lockq' = <<>>
    BY <1>3 DEF Unpin, PopForward, CloseAll, Grant, Alone
  <2>3. QED
    BY <2>1, <2>2, AloneMove DEF ForwardPCs, DiallerPCs, KeyPCs, OwnerPCs
<1>4. CASE CreateProcess(c) \/ WorkEnds(c) \/ SessionEnds(c) \/ ForwardClosed(c)
  <2>1. running \in {c, None} /\ lock' = None /\ lockq' = <<>>
    BY <1>4 DEF CreateProcess, WorkEnds, SessionEnds, ForwardClosed, Alone
  <2>2. \E p \in {"pin", "done", "unpin", "release"} :
          pc' = [pc EXCEPT ![c] = p] /\ (p = "pin" => pc[c] = "create")
    BY <1>4 DEF CreateProcess, WorkEnds, SessionEnds, ForwardClosed, Continue, Yield
  <2>3. pc[c] = "create" => c \notin Closers \cup Shutdowns
    BY DEF Alone, DiallerPCs
  <2>4. QED
    BY <2>1, <2>2, <2>3, AloneMove DEF ForwardPCs, DiallerPCs, KeyPCs, OwnerPCs
<1>5. CASE Cancel(c)
  <2>1. running \in {c, None} /\ lock' = None /\ lockq' = <<>>
    BY <1>5 DEF Cancel, Alone
  <2>2. /\ AfterCancel(pc[c]) \in {"cancelled", "unpin", "done"}
        /\ AfterCancel(pc[c]) = "cancelled" => pc[c] \in {"dial", "persist"}
    BY DEF AfterCancel
  <2>3. pc' = [pc EXCEPT ![c] = AfterCancel(pc[c])]
    BY <1>5, <2>2 DEF Cancel, Continue, Yield
  <2>4. AfterCancel(pc[c]) \in DiallerPCs => c \notin Closers \cup Shutdowns
    BY <2>2 DEF Alone, DiallerPCs, KeyPCs, OwnerPCs
  <2>5. QED
    BY <2>1, <2>2, <2>3, <2>4, AloneMove DEF ForwardPCs
<1>6. CASE \E k \in TargetsOf(c) : Start(c, k)
  <2>1. running \in {c, None} /\ lock' = None /\ lockq' = <<>>
    BY <1>6 DEF Start, Alone
  <2>2. \E p \in {"sweep", "pop", "drop"} :
          pc' = [pc EXCEPT ![c] = p] /\ (p = "sweep" => c \notin Closers \cup Shutdowns)
    BY <1>6 DEF Start, Continue
  <2>3. QED
    BY <2>1, <2>2, AloneMove DEF ForwardPCs, DiallerPCs, KeyPCs, OwnerPCs
<1>7. QED
  BY <1>1, <1>2, <1>3, <1>4, <1>5, <1>6

\* A step of call c that leaves futures, cache and connections alone.
LEMMA OwnedQuiet ==
  ASSUME Owned, SlotTyped, NEW c \in Calls, NEW p, pc' = [pc EXCEPT ![c] = p],
         UNCHANGED <<key, fut, conns, conn>>,
         pc[c] # "cache", p \notin {"dial", "cache"}
  PROVE  Owned'
<1>1. Cached' = Cached
  BY DEF Cached
<1>2. QED
  BY <1>1 DEF Owned, SlotTyped


\* A sweep closes what it drops.
LEMMA OwnedSweep ==
  ASSUME Owned, Alone, SlotInv, PoolInv, NEW c \in Calls, SweepConns(c)
  PROVE  Owned'
<1>1. PICK S : conns' = Drop(conns, S) /\ conn' = Closed(S, "evicted")
  BY DEF SweepConns
<1>2. Cached' = Cached \ S
  BY <1>1 DEF Cached, Drop, PoolInv, PoolTyped
<1>3. \A e \in Calls : conn'[e] = IF e \in S /\ conn[e] = "open" THEN "evicted" ELSE conn[e]
  BY <1>1 DEF Closed
<1>4. /\ pc[c] = "sweep" /\ pc' = [pc EXCEPT ![c] = "claim"] /\ UNCHANGED <<key, fut>>
  BY DEF SweepConns, Continue, slotVars
<1>5. \A d \in Calls : /\ pc'[d] = "dial" <=> pc[d] = "dial"
                       /\ pc'[d] = "cache" <=> pc[d] = "cache"
  BY <1>4 DEF SlotInv, SlotTyped
<1>6. ASSUME NEW d \in Calls, fut[d] = "open", conns'[key[d]] # None
      PROVE  conn'[conns'[key[d]]] # "open"
  <2>1. key[d] \in Keys
    BY <1>6 DEF SlotInv
  <2>2. conns'[key[d]] = conns[key[d]] /\ conns[key[d]] \in Calls
    BY <1>1, <1>6, <2>1 DEF Drop, PoolInv, PoolTyped
  <2>3. conn[conns[key[d]]] # "open"
    BY <1>6, <2>2 DEF Owned
  <2>4. QED
    BY <1>3, <2>2, <2>3
<1>7. ASSUME NEW d \in Calls
      PROVE  /\ d \in Cached' => fut[d] = "result"
             /\ conn'[d] = "open" => d \in Cached' \/ pc[d] = "cache"
  BY <1>2, <1>3 DEF Owned
<1>8. QED
  BY <1>4, <1>5, <1>6, <1>7 DEF Owned

\* The dial returns: the owner caches a connection of a live future only.
LEMMA OwnedDial ==
  ASSUME Owned, Alone, SlotInv, PoolInv, ~AcceptNew, NEW c \in Calls, DialSucceeds(c)
  PROVE  Owned'
<1>1. /\ pc[c] = "dial" /\ UNCHANGED <<key, fut, conns>>
      /\ \/ /\ fut[c] = "cancelled" /\ conn' = [conn EXCEPT ![c] = "shut"]
            /\ pc' = [pc EXCEPT ![c] = "discard"]
         \/ /\ fut[c] # "cancelled" /\ conn' = [conn EXCEPT ![c] = "open"]
            /\ pc' = [pc EXCEPT ![c] = "cache"]
  BY DEF DialSucceeds, AfterDial, Continue, slotVars
<1>2. Cached' = Cached /\ c \notin Cached
  BY <1>1 DEF Cached, Owned
<1>3. ASSUME NEW d \in Calls, fut[d] = "open", conns[key[d]] # None
      PROVE  conn'[conns[key[d]]] # "open"
  <2>1. conns[key[d]] \in Calls /\ conns[key[d]] \in Cached
    BY <1>3 DEF SlotInv, PoolInv, PoolTyped, Cached
  <2>2. conn[conns[key[d]]] # "open" /\ conns[key[d]] # c
    BY <1>2, <1>3, <2>1 DEF Owned
  <2>3. QED
    BY <1>1, <2>1, <2>2 DEF PoolInv, PoolTyped
<1>4. ASSUME NEW d \in Calls
      PROVE  /\ pc'[d] = "dial" => fut[d] \in {"open", "cancelled"}
             /\ pc'[d] = "cache" => fut[d] = "open"
             /\ conn'[d] = "open" => d \in Cached \/ pc'[d] = "cache"
  BY <1>1 DEF Owned, SlotInv, SlotTyped, PoolInv, PoolTyped
<1>5. QED
  BY <1>1, <1>2, <1>3, <1>4 DEF Owned

\* The owner replaces a closed connection at most, and closes what it evicts.
LEMMA OwnedCache ==
  ASSUME Owned, Alone, SlotInv, PoolInv, NEW c \in Calls, ConnectCaches(c)
  PROVE  Owned'
<1>1. pc[c] = "cache" /\ fut[c] = "open" /\ key[c] \in Keys
  BY DEF ConnectCaches, Owned, SlotInv
<1>2. PICK S : /\ conns' = [Drop(conns, S) EXCEPT ![key[c]] = c]
               /\ conn' = Closed(S, "evicted")
  BY <1>1 DEF ConnectCaches
<1>3. /\ fut' = [fut EXCEPT ![c] = "result"] /\ key' = key
      /\ \E p \in {"create", "pin"} : pc' = [pc EXCEPT ![c] = p]
  BY <1>1 DEF ConnectCaches, Connected, Yield, Continue
<1>4. \A k \in Keys : conns'[k] = IF k = key[c] THEN c
                                  ELSE IF conns[k] \in S THEN None ELSE conns[k]
  BY <1>1, <1>2 DEF Drop
<1>5. \A e \in Calls : conn'[e] = IF e \in S /\ conn[e] = "open" THEN "evicted" ELSE conn[e]
  BY <1>2 DEF Closed
<1>6. \A d \in Calls : d # c => pc'[d] = pc[d] /\ fut'[d] = fut[d] /\ pc[d] # "cache"
  BY <1>1, <1>3 DEF Alone, SlotInv, SlotTyped
<1>7. fut'[c] = "result" /\ pc'[c] \in {"create", "pin"}
  BY <1>3 DEF SlotInv, SlotTyped
<1>8. \A d \in Cached' : fut'[d] = "result"
  <2>1. SUFFICES ASSUME NEW d \in Cached', d # c PROVE fut'[d] = "result"
    BY <1>7
  <2>2. PICK k \in Keys : d = conns'[k] /\ d # None
    BY DEF Cached
  <2>3. d = conns[k]
    BY <1>4, <2>1, <2>2
  <2>4. d \in Cached /\ d \in Calls
    BY <2>2, <2>3 DEF Cached, PoolInv, PoolTyped
  <2>5. QED
    BY <1>6, <2>1, <2>4 DEF Owned
<1>9. ASSUME NEW d \in Calls, conn'[d] = "open" PROVE d \in Cached'
  <2>1. CASE d = c
    BY <1>1, <1>4, <2>1, NoneAssumption DEF Cached
  <2>2. CASE d # c
    <3>1. conn[d] = "open" /\ d \notin S
      BY <1>5, <1>9
    <3>2. d \in Cached
      BY <1>6, <2>2, <3>1 DEF Owned
    <3>3. PICK k \in Keys : d = conns[k] /\ d # None
      BY <3>2 DEF Cached
    <3>4. k # key[c]
      BY <1>1, <3>1, <3>3 DEF Owned
    <3>5. conns'[k] = d
      BY <1>4, <3>1, <3>3, <3>4
    <3>6. QED
      BY <3>3, <3>5 DEF Cached
  <2>3. QED
    BY <2>1, <2>2
<1>10. ASSUME NEW d \in Calls, fut'[d] = "open", conns'[key[d]] # None
       PROVE  conn'[conns'[key[d]]] # "open"
  <2>1. d # c /\ fut[d] = "open" /\ key[d] \in Keys
    BY <1>6, <1>7, <1>10 DEF SlotInv
  <2>2. key[d] # key[c]
    BY <1>1, <2>1 DEF SlotInv, SlotIffOpen
  <2>3. conns'[key[d]] = conns[key[d]] /\ conns[key[d]] \in Calls
    BY <1>4, <1>10, <2>1, <2>2 DEF PoolInv, PoolTyped
  <2>4. conn[conns[key[d]]] # "open"
    BY <1>10, <2>1, <2>3 DEF Owned
  <2>5. QED
    BY <1>5, <2>3, <2>4
<1>11. ASSUME NEW d \in Calls
       PROVE  /\ pc'[d] = "dial" => fut'[d] \in {"open", "cancelled"}
              /\ pc'[d] # "cache"
  BY <1>6, <1>7 DEF Owned
<1>12. QED
  BY <1>3, <1>8, <1>9, <1>10, <1>11 DEF Owned

\* close_all closes every open connection: none is on its way to the cache.
LEMMA OwnedCloseAll ==
  ASSUME Owned, Alone, SlotInv, PoolInv, NEW c \in Calls, CloseAll(c)
  PROVE  Owned'
<1>1. /\ conns' = [k \in Keys |-> None] /\ conn' = Closed(Cached, "shut") /\ key' = key
      /\ pc[c] = "drop" /\ pc' = [pc EXCEPT ![c] = "done"]
      /\ \A o \in Calls : fut'[o] = fut[o] \/ (fut[o] = "open" /\ fut'[o] = "cancelled")
  BY DEF CloseAll, Yield
<1>2. running = c /\ Cached' = {}
  BY <1>1 DEF CloseAll, Grant, Alone, Cached
<1>3. \A d \in Calls : pc[d] # "cache"
  BY <1>1, <1>2 DEF Alone
<1>4. \A d \in Calls : conn'[d] # "open"
  BY <1>1, <1>3 DEF Owned, Closed
<1>5. \A d \in Calls : /\ pc'[d] # "cache"
                       /\ pc'[d] = "dial" => fut'[d] \in {"open", "cancelled"}
  BY <1>1, <1>3 DEF Owned, SlotInv, SlotTyped
<1>6. \A d \in Calls : fut'[d] = "open" => conns'[key[d]] = None
  <2>1. \A d \in Calls : fut'[d] = "open" => key[d] \in Keys
    BY <1>1 DEF SlotInv
  <2>2. QED
    BY <1>1, <2>1
<1>7. QED
  BY <1>1, <1>2, <1>4, <1>5, <1>6 DEF Owned


\* A call claims a slot whose key has no open connection, or resolves its future.
LEMMA OwnedSlot ==
  ASSUME Owned, SlotInv, PoolInv, NEW c \in Calls, ConnectOwn(c) \/ ConnectRaises(c)
  PROVE  Owned'
<1>1. Cached' = Cached /\ UNCHANGED <<key, conns, conn>>
  BY DEF ConnectOwn, ConnectRaises, cacheVars, Cached
<1>2. CASE ConnectOwn(c)
  <2>1. /\ pc[c] = "claim" /\ pc' = [pc EXCEPT ![c] = "dial"] /\ ~Hit(key[c])
        /\ fut' = [fut EXCEPT ![c] = "open"]
    BY <1>2 DEF ConnectOwn, Yield
  <2>2. c \notin Cached
    BY <2>1 DEF PoolInv, Settled, KeyPCs
  <2>3. ASSUME NEW d \in Calls, fut'[d] = "open", conns[key[d]] # None
        PROVE  conn[conns[key[d]]] # "open"
    <3>1. CASE d = c
      BY <2>1, <2>3, <3>1 DEF Hit
    <3>2. CASE d # c
      BY <2>1, <2>3, <3>2 DEF Owned, SlotInv, SlotTyped
    <3>3. QED
      BY <3>1, <3>2
  <2>4. ASSUME NEW d \in Calls
        PROVE  /\ pc'[d] = "dial" => fut'[d] \in {"open", "cancelled"}
               /\ pc'[d] = "cache" => fut'[d] = "open"
               /\ d \in Cached => fut'[d] = "result"
               /\ conn[d] = "open" => d \in Cached \/ pc'[d] = "cache"
    BY <2>1, <2>2 DEF Owned, SlotInv, SlotTyped
  <2>5. QED
    BY <1>1, <2>3, <2>4 DEF Owned
<1>3. CASE ConnectRaises(c)
  <2>1. /\ pc[c] \in {"failed", "cancelled"} /\ pc' = [pc EXCEPT ![c] = "done"]
        /\ \E f \in FutStates \ {"open"} : fut' = [fut EXCEPT ![c] = f]
    BY <1>3 DEF ConnectRaises, Yield, SlotInv, SlotTyped, FutStates
  <2>2. c \notin Cached
    BY <2>1 DEF PoolInv, Settled, KeyPCs, OwnerPCs
  <2>3. ASSUME NEW d \in Calls
        PROVE  /\ pc'[d] = "dial" => fut'[d] \in {"open", "cancelled"}
               /\ pc'[d] = "cache" => fut'[d] = "open"
               /\ d \in Cached => fut'[d] = "result"
               /\ conn[d] = "open" => d \in Cached \/ pc'[d] = "cache"
               /\ fut'[d] = "open" => fut[d] = "open"
    BY <2>1, <2>2 DEF Owned, SlotInv, SlotTyped
  <2>4. QED
    BY <1>1, <2>3 DEF Owned
<1>4. QED
  BY <1>2, <1>3

\* A call arrives without a future, and a connection that dies is not open.
LEMMA OwnedArrival ==
  ASSUME Owned, SlotInv, PoolInv, NEW c \in Calls,
         (\E k \in TargetsOf(c) : Start(c, k)) \/ ConnDies(c)
  PROVE  Owned'
<1>1. CASE ConnDies(c)
  <2>1. /\ conn' = [conn EXCEPT ![c] = "dead"] /\ UNCHANGED <<pc, key, fut, conns>>
        /\ Cached' = Cached
    BY <1>1 DEF ConnDies, slotVars, Cached
  <2>2. \A d \in Calls : conn'[d] = "open" => conn[d] = "open"
    BY <2>1 DEF PoolInv, PoolTyped
  <2>3. ASSUME NEW d \in Calls, fut[d] = "open", conns[key[d]] # None
        PROVE  conn'[conns[key[d]]] # "open"
    <3>1. conns[key[d]] \in Calls
      BY <2>3 DEF SlotInv, PoolInv, PoolTyped
    <3>2. QED
      BY <2>2, <2>3, <3>1 DEF Owned
  <2>4. QED
    BY <2>1, <2>2, <2>3 DEF Owned
<1>2. CASE \E k \in TargetsOf(c) : Start(c, k)
  <2>1. PICK k, p : /\ pc[c] = "new" /\ pc' = [pc EXCEPT ![c] = p]
                    /\ p \notin {"dial", "cache"}
                    /\ key' = [key EXCEPT ![c] = k] /\ UNCHANGED <<fut, conns, conn>>
                    /\ Cached' = Cached
    <3>1. PICK k \in TargetsOf(c) : Start(c, k)
      BY <1>2
    <3> DEFINE p == CASE c \in Forwarders -> "precheck"
                      [] c \in Closers -> "pop"
                      [] c \in Shutdowns -> "drop"
                      [] OTHER -> "sweep"
    <3>2. p \notin {"dial", "cache"}
      OBVIOUS
    <3>3. /\ pc[c] = "new" /\ pc' = [pc EXCEPT ![c] = p]
          /\ key' = [key EXCEPT ![c] = k] /\ UNCHANGED <<fut, conns, conn>>
          /\ Cached' = Cached
      BY <3>1 DEF Start, Continue, slotVars, cacheVars, Cached
    <3> HIDE DEF p
    <3>4. QED
      BY <3>2, <3>3
  <2>2. fut[c] = "none"
    BY <2>1 DEF SlotInv
  <2>3. QED
    BY <2>1, <2>2 DEF Owned, SlotInv, SlotTyped
<1>3. QED
  BY <1>1, <1>2

\* With strict host keys and no forwards, every open connection is in the cache
\* or in the hands of the call about to cache it, and close_all never finds its
\* work undone by a connect that was under way.
THEOREM NoLeak ==
  ASSUME ~AcceptNew, Forwarders = {}
  PROVE  Spec => []NoConnLeak
<1>1. Init => Alone /\ Owned
  <2> SUFFICES ASSUME Init PROVE Alone /\ Owned
    OBVIOUS
  <2>1. Cached = {}
    BY DEF Init, Cached
  <2>2. QED
    BY <2>1 DEF Init, Alone, Owned, ForwardPCs, DiallerPCs, KeyPCs, OwnerPCs
<1>2. SlotInv /\ PoolInv /\ Alone /\ Owned /\ [Next]_vars => (Alone /\ Owned)'
  <2> SUFFICES ASSUME SlotInv, PoolInv, Alone, Owned, [Next]_vars PROVE (Alone /\ Owned)'
    OBVIOUS
  <2>0. SlotTyped
    BY DEF SlotInv
  <2>1. CASE UNCHANGED <<running, lock, lockq, pc, key, fut, conns, conn>>
    <3>1. Cached' = Cached
      BY <2>1 DEF Cached
    <3>2. QED
      BY <2>1, <3>1 DEF Alone, Owned
  <2>2. ASSUME NEW c \in Calls, ConnDies(c) PROVE Alone'
    BY <2>2 DEF ConnDies, Alone
  <2>3. ASSUME NEW c \in Calls,
               \/ ForwardPrecheck(c) \/ ConnectHit(c) \/ ConnectJoin(c) \/ WaiterResumes(c)
               \/ DialFails(c) \/ ConnectDiscards(c)
        PROVE  Owned'
    <3>1. pc[c] # "cache" /\ UNCHANGED <<key, fut, conns, conn>>
      BY <2>3 DEF ForwardPrecheck, ConnectHit, ConnectJoin, WaiterResumes, DialFails,
                  ConnectDiscards, slotVars, cacheVars
    <3>2. \E p : pc' = [pc EXCEPT ![c] = p] /\ p \notin {"dial", "cache"}
      BY <2>3 DEF ForwardPrecheck, ConnectHit, ConnectJoin, WaiterResumes, DialFails,
                  ConnectDiscards, Connected, Retries, Continue, Yield
    <3>3. QED
      BY <2>0, <3>1, <3>2, OwnedQuiet
  <2>4. ASSUME NEW c \in Calls,
               \/ Unpin(c) \/ TrackForward(c) \/ PopForward(c)
               \/ CreateProcess(c) \/ WorkEnds(c) \/ SessionEnds(c)
               \/ Listen(c) \/ LoserClosed(c) \/ ForwardClosed(c)
        PROVE  Owned'
    <3>1. pc[c] # "cache" /\ UNCHANGED <<key, fut, conns, conn>>
      BY <2>4 DEF Unpin, TrackForward, PopForward, CreateProcess, WorkEnds, SessionEnds,
                  Listen, LoserClosed, ForwardClosed, slotVars, cacheVars
    <3>2. \E p : pc' = [pc EXCEPT ![c] = p] /\ p \notin {"dial", "cache"}
      BY <2>4 DEF Unpin, TrackForward, PopForward, CreateProcess, WorkEnds, SessionEnds,
                  Listen, LoserClosed, ForwardClosed, Continue, Yield
    <3>3. QED
      BY <2>0, <3>1, <3>2, OwnedQuiet
  <2>5. ASSUME NEW c \in Calls, Pin(c) PROVE Owned'
    <3> DEFINE p == CASE c \in Runs -> "work" [] c \in Spawns -> "live" [] OTHER -> "listen"
    <3>1. p \notin {"dial", "cache"}
      OBVIOUS
    <3>2. pc[c] # "cache" /\ pc' = [pc EXCEPT ![c] = p] /\ UNCHANGED <<key, fut, conns, conn>>
      BY <2>5 DEF Pin, Yield, slotVars
    <3> HIDE DEF p
    <3>3. QED
      BY <2>0, <3>1, <3>2, OwnedQuiet
  <2>6. ASSUME NEW c \in Calls, Cancel(c) PROVE Owned'
    <3>1. pc[c] # "cache" /\ UNCHANGED <<key, fut, conns, conn>>
      BY <2>6, NoneAssumption DEF Cancel, Alone, slotVars, cacheVars
    <3>2. /\ AfterCancel(pc[c]) \notin {"dial", "cache"}
          /\ pc' = [pc EXCEPT ![c] = AfterCancel(pc[c])]
      BY <2>6 DEF Cancel, AfterCancel, Continue, Yield
    <3>3. QED
      BY <2>0, <3>1, <3>2, OwnedQuiet
  <2>7. ASSUME NEW c \in Calls, Blocked(c) PROVE FALSE
    BY <2>7 DEF Blocked, Alone
  <2>8. ASSUME NEW c \in Calls, HostKeyPersisted(c) PROVE FALSE
    BY <2>8 DEF HostKeyPersisted, Alone
  <2>9. ASSUME NEW c \in Calls, Progress(c) PROVE Alone'
    BY <2>0, <2>7, <2>9, AloneConnect, AloneOthers DEF Progress
  <2>10. ASSUME NEW c \in Calls, Progress(c) PROVE Owned'
    BY <2>3, <2>4, <2>5, <2>7, <2>8, <2>10, OwnedSweep, OwnedDial, OwnedCache, OwnedSlot,
       OwnedCloseAll DEF Progress
  <2>11. ASSUME NEW c \in Calls, Unbounded(c) PROVE (Alone /\ Owned)'
    BY <2>0, <2>4, <2>11, AloneOthers DEF Unbounded
  <2>12. ASSUME NEW c \in Calls, \E k \in TargetsOf(c) : Start(c, k) PROVE (Alone /\ Owned)'
    BY <2>0, <2>12, AloneOthers, OwnedArrival
  <2>13. ASSUME NEW c \in Calls, Cancel(c) \/ ConnDies(c) PROVE (Alone /\ Owned)'
    BY <2>0, <2>2, <2>6, <2>13, AloneOthers, OwnedArrival
  <2>14. CASE UNCHANGED vars
    BY <2>1, <2>14 DEF vars
  <2>15. QED
    BY <2>9, <2>10, <2>11, <2>12, <2>13, <2>14 DEF Next, Quiesced
<1>3. Alone /\ Owned => NoConnLeak
  BY DEF Alone, Owned, NoConnLeak
<1>4. QED
  BY <1>1, <1>2, <1>3, SlotInvariance, PoolInvariance, PTL DEF Spec

=============================================================================
