------------------------- MODULE RelayRunnerProofs -------------------------
(***************************************************************************)
(* Proofs about RelayRunner, for every set of calls, clients and           *)
(* operations, every TTL and store bound, every mode and every setting;    *)
(* and about the tools it runs (ToolSurface), for every text, host, list   *)
(* and history of typing.                                                  *)
(***************************************************************************)
EXTENDS RelayRunner, FiniteSetTheorems, SequenceTheorems, WellFoundedInduction, TLAPS

-----------------------------------------------------------------------------
(* The inductive invariant.  What an entry of the store says was said by   *)
(* the call that minted it, and if it is armed by a call that confirmed    *)
(* it; a spent token is in no entry and was minted.                        *)

EntryBacked(e) ==
  /\ e.token \in Calls
  /\ state[e.token] = "challenged"
  /\ e.key = OpKey(op[e.token])
  /\ e.client = client[e.token]
  /\ e.expires = at[e.token] + TTL
  /\ boot[e.token] = boots

ArmBacked(e) ==
  e.armed => \E d \in Calls : /\ state[d] = "armed" /\ token[d] = e.token
                              /\ client[d] = e.client /\ boot[d] = boots
                              /\ at[e.token] <= at[d]

StoreBacked ==
  /\ \A e \in entries : EntryBacked(e) /\ ArmBacked(e)
  /\ \A e, f \in entries : e.token = f.token => e = f

SpentGone ==
  \A c \in Calls :
    spent[c] # None => /\ state[spent[c]] = "challenged"
                       /\ \A e \in entries : e.token # spent[c]

NothingBefore ==
  \A c \in Calls : /\ at[c] <= now
                   /\ state[c] = "idle" => spent[c] = None

Inv == /\ TypeOK /\ NothingBefore /\ StoreBacked /\ SpentGone
       /\ ExecutionConfirmed /\ TokenSpentOnce

-----------------------------------------------------------------------------
(* The store.                                                              *)

\* A sweep only removes entries, and everything that is past its deadline.
LEMMA SweepFacts ==
  ASSUME NEW E, NEW t
  PROVE  /\ Sweep(E, t) \subseteq E
         /\ \A e \in Sweep(E, t) : e.expires > t
BY DEF Sweep, Bounded, Live

NatLess == {ss \in Nat \X Nat : ss[1] < ss[2]}

\* A non-empty set of naturals has a least element.
LEMMA NatHasLeast ==
  ASSUME NEW T, T \subseteq Nat, T # {}
  PROVE  \E n \in T : \A m \in T : n <= m
<1>1. IsWellFoundedOn(NatLess, Nat)
  BY NatLessThanWellFounded, Zenon DEF OpToRel, NatLess
<1>2. PICK n \in T : \A m \in T : ~(<<m, n>> \in NatLess)
  BY <1>1, WFMin
<1>3. \A m \in T : m \in Nat /\ n \in Nat /\ ~(m < n)
  BY <1>2 DEF NatLess
<1>4. QED
  BY <1>3

\* consume() finds an entry whenever one matches: a non-empty set of entries
\* has one that comes first in dict order.
LEMMA FirstMatchFound ==
  ASSUME entries \subseteq Entry, NEW t, NEW key, NEW cl,
         Matching(entries, t, key, cl) # {}
  PROVE  FirstMatch(entries, t, key, cl) \in Matching(entries, t, key, cl)
<1> DEFINE M == Matching(entries, t, key, cl)
           T == {e.seq : e \in M}
<1>1. M \subseteq Entry
  BY SweepFacts DEF Matching
<1>2. T \subseteq Nat /\ T # {}
  BY <1>1 DEF Entry
<1>3. PICK n \in T : \A m \in T : n <= m
  <2> HIDE DEF T
  <2> QED  BY <1>2, NatHasLeast
<1>4. PICK e \in M : e.seq = n
  BY <1>3
<1>5. \A x \in M : e.seq <= x.seq
  BY <1>3, <1>4
<1>6. QED
  BY <1>4, <1>5 DEF FirstMatch

\* What plan() leaves in the store: old entries, and the new one perhaps.
LEMMA PlannedFacts ==
  ASSUME NEW E, NEW t, NEW tok, NEW key, NEW cl, NEW n
  PROVE  Planned(E, t, tok, key, cl, n) \subseteq E \cup {NewEntry(t, tok, key, cl, n)}
BY SweepFacts DEF Planned

\* What arm() leaves in the store: old entries, armed if this client planned
\* the token.
LEMMA ArmedFacts ==
  ASSUME NEW E, NEW t, NEW tok, NEW cl, NEW f \in ArmedStore(E, t, tok, cl)
  PROVE  \/ f \in E
         \/ \E e \in E : /\ f = [e EXCEPT !.armed = TRUE]
                         /\ e.token = tok /\ e.client = cl
                         /\ e \in Armable(E, t, tok, cl)
BY SweepFacts DEF ArmedStore, Armable

-----------------------------------------------------------------------------
(* Type correctness.                                                       *)

\* The calls in flight and ended stay within their types when one enters.
LEMMA EntersType ==
  ASSUME TypeOK, NEW c \in Calls, NEW cl \in Clients, NEW o \in Ops,
         NEW t \in Calls \cup {None},
         NEW s \in Ended \cup {"idle", Running, "lost"},
         NEW recs \in Seq(Actions), Enters(c, cl, o, t, s, recs)
  PROVE  /\ now' \in Nat /\ boots' \in Nat
         /\ state' \in [Calls -> Ended \cup {"idle", Running, "lost"}]
         /\ client' \in [Calls -> Clients \cup {None}]
         /\ op' \in [Calls -> Ops \cup {None}]
         /\ token' \in [Calls -> Calls \cup {None}]
         /\ at' \in [Calls -> Nat]
         /\ boot' \in [Calls -> Nat]
         /\ audit' \in [Calls -> Seq(Actions)]
BY DEF TypeOK, Enters

\* The records with which a call enters.
LEMMA RecordsType ==
  /\ IntentRecords \in Seq(Actions)
  /\ Append(IntentRecords, "completed") \in Seq(Actions)
  /\ <<"denied">> \in Seq(Actions)
  /\ <<"confirm_plan">> \in Seq(Actions)
<1>1. <<>> \in Seq(Actions)
  OBVIOUS
<1>2. \A a \in Actions : <<a>> \in Seq(Actions)
  OBVIOUS
<1>3. {"intent", "denied", "confirm_plan", "completed"} \subseteq Actions
  BY DEF Actions
<1>4. IntentRecords \in Seq(Actions)
  BY <1>1, <1>2, <1>3 DEF IntentRecords
<1>5. \A r \in Seq(Actions), a \in Actions : Append(r, a) \in Seq(Actions)
  OBVIOUS
<1>6. QED
  BY <1>2, <1>3, <1>4, <1>5

\* Every action preserves the type invariant.
LEMMA TypeStep ==
  ASSUME TypeOK, [Next]_vars
  PROVE  TypeOK'
<1> USE OpsAssumption, CallsAssumption, BrokerAssumption
<1>1. ASSUME NEW c \in Calls, NEW cl \in Clients, NEW o \in Ops, Denied(c, cl, o)
      PROVE  TypeOK'
  BY <1>1, EntersType, RecordsType DEF Denied, TypeOK, Ended
<1>2. ASSUME NEW c \in Calls, NEW cl \in Clients, NEW o \in Ops, Challenged(c, cl, o)
      PROVE  TypeOK'
  <2> DEFINE n == Cardinality(Minted)
             new == NewEntry(now, c, OpKey(o), cl, n)
  <2>1. n \in Nat
    BY FS_Subset, FS_CardinalityType DEF Minted
  <2>2. new \in Entry
    BY <2>1 DEF NewEntry, Entry, OpKey, TypeOK
  <2>3. entries' \subseteq Entry
    BY <1>2, <2>2, PlannedFacts DEF Challenged, TypeOK
  <2>4. QED
    BY <1>2, <2>3, EntersType, RecordsType DEF Challenged, TypeOK, Ended
<1>3. ASSUME NEW c \in Calls, NEW cl \in Clients, NEW o \in Ops, Confirmed(c, cl, o)
      PROVE  TypeOK'
  <2>1. FirstMatch(entries, now, OpKey(o), cl) \in entries
    BY <1>3, FirstMatchFound, SweepFacts DEF Confirmed, Matching, TypeOK
  <2>2. spent' \in [Calls -> Calls \cup {None}]
    BY <1>3, <2>1 DEF Confirmed, TypeOK, Entry
  <2>3. entries' \subseteq Entry
    BY <1>3, SweepFacts DEF Confirmed, Consumed, TypeOK
  <2>4. QED
    BY <1>3, <2>2, <2>3, EntersType, RecordsType DEF Confirmed, TypeOK, Ended
<1>4. ASSUME NEW c \in Calls, NEW cl \in Clients, NEW o \in Ops, Ungated(c, cl, o)
      PROVE  TypeOK'
  BY <1>4, EntersType, RecordsType DEF Ungated, TypeOK
<1>5. ASSUME NEW c \in Calls, NEW cl \in Clients, NEW t \in Calls,
             OperationConfirm(c, cl, t)
      PROVE  TypeOK'
  <2>1. \A f \in ArmedStore(entries, now, t, cl) : f \in Entry
    <3> TAKE f \in ArmedStore(entries, now, t, cl)
    <3>1. CASE f \in entries
      BY <3>1 DEF TypeOK
    <3>2. CASE \E e \in entries : f = [e EXCEPT !.armed = TRUE]
      <4>1. PICK e \in entries : f = [e EXCEPT !.armed = TRUE]
        BY <3>2
      <4>2. e \in Entry
        BY DEF TypeOK
      <4>3. QED
        BY <4>1, <4>2 DEF Entry
    <3>3. QED
      BY <3>1, <3>2, ArmedFacts
  <2>2. entries' \subseteq Entry
    BY <1>5, <2>1 DEF OperationConfirm, TypeOK
  <2>3. QED
    BY <1>5, <2>2, EntersType, RecordsType DEF OperationConfirm, TypeOK, Ended
<1>6. ASSUME NEW c \in Calls, NEW cl \in Clients, ServerInfo(c, cl)
      PROVE  TypeOK'
  <2>1. entries' \subseteq Entry
    BY <1>6, SweepFacts DEF ServerInfo, TypeOK
  <2>2. QED
    BY <1>6, <2>1, EntersType, RecordsType DEF ServerInfo, TypeOK, Ended
<1>7. ASSUME NEW c \in Calls, NEW s \in Ended, NEW a \in Actions, Ends(c, s, a)
      PROVE  TypeOK'
  BY <1>7 DEF Ends, TypeOK
<1>8. ASSUME NEW c \in Calls, WorkReturns(c) \/ WorkRaises(c) \/ WorkCancelled(c)
      PROVE  TypeOK'
  BY <1>7, <1>8 DEF WorkReturns, WorkRaises, WorkCancelled, CompletionAction,
                    Ended, Actions
<1>9. CASE Crash
  BY <1>9 DEF Crash, AfterCrash, TypeOK
<1>10. CASE Tick
  BY <1>10 DEF Tick, TypeOK
<1>11. CASE UNCHANGED vars
  BY <1>11 DEF vars, TypeOK
<1>12. QED
  BY <1>1, <1>2, <1>3, <1>4, <1>5, <1>6, <1>8, <1>9, <1>10, <1>11 DEF Next

\* Type correctness of the runner and its token store.
THEOREM TypeCorrect == Spec => []TypeOK
<1>1. Init => TypeOK
  BY DEF Init, TypeOK
<1>2. TypeOK /\ [Next]_vars => TypeOK'
  BY TypeStep
<1>3. QED
  BY <1>1, <1>2, PTL DEF Spec

-----------------------------------------------------------------------------
(* What a step may change of a call.                                       *)

\* What a call asked for and who made it never change once it is in; how it
\* ended, and the token it spent, never change either.
Settled ==
  \A d \in Calls :
    /\ state[d] # "idle" =>
         /\ client'[d] = client[d] /\ op'[d] = op[d] /\ token'[d] = token[d]
         /\ at'[d] = at[d] /\ boot'[d] = boot[d] /\ spent'[d] = spent[d]
         /\ state'[d] # "idle"
    /\ state[d] \in Ended => state'[d] = state[d]

\* A call that enters run_command changes its own fields and nobody else's.
LEMMA EntersSettled ==
  ASSUME TypeOK, NEW c \in Calls, NEW cl, NEW o, NEW t, NEW s, NEW recs,
         Enters(c, cl, o, t, s, recs), s # "idle"
  PROVE  /\ \A d \in Calls \ {c} :
              /\ state'[d] = state[d] /\ client'[d] = client[d]
              /\ op'[d] = op[d] /\ token'[d] = token[d]
              /\ at'[d] = at[d] /\ boot'[d] = boot[d]
         /\ state[c] = "idle" /\ state'[c] = s /\ client'[c] = cl
         /\ op'[c] = o /\ token'[c] = t /\ at'[c] = now /\ boot'[c] = boots
         /\ now' = now /\ boots' = boots
BY DEF Enters, TypeOK

\* No step goes back on what a call has recorded of itself.
LEMMA SettledStep ==
  ASSUME TypeOK, [Next]_vars
  PROVE  Settled
<1> USE DEF Settled
<1>1. ASSUME NEW c \in Calls, NEW cl, NEW o, NEW t, NEW s, NEW recs,
             Enters(c, cl, o, t, s, recs), s # "idle",
             \A d \in Calls \ {c} : spent'[d] = spent[d]
      PROVE  Settled
  BY <1>1, EntersSettled DEF Ended
<1>2. ASSUME NEW c \in Calls, NEW cl \in Clients, NEW o \in Ops,
             \/ Denied(c, cl, o) \/ Challenged(c, cl, o)
             \/ Confirmed(c, cl, o) \/ Ungated(c, cl, o)
      PROVE  Settled
  BY <1>1, <1>2 DEF Denied, Challenged, Confirmed, Ungated, TypeOK, Running
<1>3. ASSUME NEW c \in Calls, NEW cl \in Clients, NEW t \in Calls,
             OperationConfirm(c, cl, t)
      PROVE  Settled
  BY <1>1, <1>3 DEF OperationConfirm
<1>4. ASSUME NEW c \in Calls, NEW cl \in Clients, ServerInfo(c, cl)
      PROVE  Settled
  BY <1>1, <1>4 DEF ServerInfo
<1>5. ASSUME NEW c \in Calls, NEW s, NEW a, Ends(c, s, a), s # "idle"
      PROVE  Settled
  BY <1>5 DEF Ends, TypeOK, Ended, Running
<1>6. ASSUME NEW c \in Calls, WorkReturns(c) \/ WorkRaises(c) \/ WorkCancelled(c)
      PROVE  Settled
  BY <1>5, <1>6 DEF WorkReturns, WorkRaises, WorkCancelled
<1>7. CASE Crash
  BY <1>7 DEF Crash, Ended, Running
<1>8. CASE Tick
  BY <1>8 DEF Tick
<1>9. CASE UNCHANGED vars
  BY <1>9 DEF vars
<1>10. QED
  BY <1>2, <1>3, <1>4, <1>6, <1>7, <1>8, <1>9 DEF Next

-----------------------------------------------------------------------------
(* Every step preserves the inductive invariant.                           *)

\* An entry that was backed stays backed while the process lives.
LEMMA BackedStays ==
  ASSUME TypeOK, Settled, boots' = boots, NEW e, EntryBacked(e)
  PROVE  /\ EntryBacked(e)'
         /\ ArmBacked(e) => ArmBacked(e)'
<1>1. EntryBacked(e)'
  BY DEF EntryBacked, Settled, Ended, OpKey
<1>2. ASSUME ArmBacked(e), e.armed
      PROVE  ArmBacked(e)'
  <2>1. PICK d \in Calls : /\ state[d] = "armed" /\ token[d] = e.token
                           /\ client[d] = e.client /\ boot[d] = boots
                           /\ at[e.token] <= at[d]
    BY <1>2 DEF ArmBacked
  <2>2. QED
    BY <2>1 DEF ArmBacked, Settled, Ended, EntryBacked
<1>3. QED
  BY <1>1, <1>2 DEF ArmBacked

\* A step that only removes entries.
LEMMA ShrinkStep ==
  ASSUME TypeOK, Settled, boots' = boots, StoreBacked, entries' \subseteq entries
  PROVE  StoreBacked'
BY BackedStays DEF StoreBacked

\* plan(): the new token is that of the call itself.
LEMMA ChallengedStep ==
  ASSUME TypeOK, Settled, StoreBacked, NEW c \in Calls, NEW cl \in Clients,
         NEW o \in Ops, Challenged(c, cl, o)
  PROVE  StoreBacked'
<1>0. PICK new : new = NewEntry(now, c, OpKey(o), cl, Cardinality(Minted))
  OBVIOUS
<1>1. entries' \subseteq entries \cup {new}
  BY <1>0, PlannedFacts DEF Challenged
<1>2. /\ state[c] = "idle" /\ state'[c] = "challenged" /\ client'[c] = cl
      /\ op'[c] = o /\ at'[c] = now /\ boot'[c] = boots /\ boots' = boots
  BY EntersSettled DEF Challenged
<1>3. new.token = c /\ EntryBacked(new)' /\ ArmBacked(new)'
  BY <1>0, <1>2 DEF NewEntry, EntryBacked, ArmBacked, OpKey
<1>4. \A e \in entries : e.token # c /\ EntryBacked(e)' /\ ArmBacked(e)'
  BY <1>2, BackedStays DEF StoreBacked, EntryBacked
<1>5. QED
  BY <1>1, <1>3, <1>4 DEF StoreBacked

\* arm(): the call itself backs the armed entry.
LEMMA ConfirmStep ==
  ASSUME TypeOK, Settled, StoreBacked, NothingBefore,
         NEW c \in Calls, NEW cl \in Clients, NEW t \in Calls,
         OperationConfirm(c, cl, t)
  PROVE  StoreBacked'
<1>1. boots' = boots
  BY DEF OperationConfirm, Enters
<1>2. CASE ~ConfirmTier3
  BY <1>1, <1>2, ShrinkStep DEF OperationConfirm
<1>3. CASE ConfirmTier3
  <2>1. entries' = ArmedStore(entries, now, t, cl)
    BY <1>3 DEF OperationConfirm
  <2>2. ASSUME NEW e \in entries, e \in Armable(entries, now, t, cl)
        PROVE  LET f == [e EXCEPT !.armed = TRUE] IN
                 EntryBacked(f)' /\ ArmBacked(f)' /\ f.token = e.token
    <3> DEFINE f == [e EXCEPT !.armed = TRUE]
    <3>1. e \in Entry /\ EntryBacked(e)
      BY DEF TypeOK, StoreBacked
    <3>2. /\ f.token = e.token /\ f.client = e.client /\ f.key = e.key
          /\ f.expires = e.expires
      BY <3>1 DEF Entry
    <3>3. EntryBacked(f)'
      BY <1>1, <3>1, <3>2, BackedStays DEF EntryBacked
    <3>4. e.token = t /\ e.client = cl
      BY <2>2 DEF Armable
    <3>5. /\ state'[c] = "armed" /\ token'[c] = t /\ client'[c] = cl
          /\ at'[c] = now /\ boot'[c] = boots'
      BY <1>3, <2>2, EntersSettled, <1>1 DEF OperationConfirm
    <3>6. at'[t] <= at'[c]
      BY <3>1, <3>4, <3>5 DEF NothingBefore, EntryBacked, Settled
    <3>7. ArmBacked(f)'
      BY <3>2, <3>4, <3>5, <3>6 DEF ArmBacked
    <3>8. QED
      BY <3>2, <3>3, <3>7
  <2>3. \A g \in entries' :
          /\ EntryBacked(g)' /\ ArmBacked(g)'
          /\ \E e \in Sweep(entries, now) :
               /\ g.token = e.token
               /\ g = IF e \in Armable(entries, now, t, cl)
                        THEN [e EXCEPT !.armed = TRUE] ELSE e
    <3> TAKE g \in entries'
    <3>1. PICK e \in Sweep(entries, now) :
            g = IF e \in Armable(entries, now, t, cl)
                  THEN [e EXCEPT !.armed = TRUE] ELSE e
      BY <2>1 DEF ArmedStore
    <3>2. e \in entries
      BY SweepFacts
    <3>3. CASE e \in Armable(entries, now, t, cl)
      BY <2>2, <3>1, <3>2, <3>3
    <3>4. CASE e \notin Armable(entries, now, t, cl)
      BY <1>1, <3>1, <3>2, <3>4, BackedStays DEF StoreBacked
    <3>5. QED
      BY <3>3, <3>4
  <2>4. \A g, h \in entries' : g.token = h.token => g = h
    <3> TAKE g, h \in entries'
    <3> HAVE g.token = h.token
    <3>1. PICK e \in Sweep(entries, now) :
            /\ g.token = e.token
            /\ g = IF e \in Armable(entries, now, t, cl)
                     THEN [e EXCEPT !.armed = TRUE] ELSE e
      BY <2>3
    <3>2. PICK f \in Sweep(entries, now) :
            /\ h.token = f.token
            /\ h = IF f \in Armable(entries, now, t, cl)
                     THEN [f EXCEPT !.armed = TRUE] ELSE f
      BY <2>3
    <3>3. e = f
      BY <3>1, <3>2, SweepFacts DEF StoreBacked
    <3>4. QED
      BY <3>1, <3>2, <3>3
  <2>5. QED
    BY <2>3, <2>4 DEF StoreBacked
<1>4. QED
  BY <1>2, <1>3

\* A step that spends no token and mints none but that of a call just made.
LEMMA NothingSpent ==
  ASSUME TypeOK, Settled, SpentGone, TokenSpentOnce, spent' = spent,
         \A g \in entries' : \/ \E e \in entries : g.token = e.token
                             \/ state[g.token] = "idle"
  PROVE  SpentGone' /\ TokenSpentOnce'
<1>1. ASSUME NEW c \in Calls, spent[c] # None
      PROVE  /\ state'[spent[c]] = "challenged"
             /\ \A g \in entries' : g.token # spent[c]
  <2>1. spent[c] \in Calls /\ state[spent[c]] = "challenged"
    BY <1>1 DEF TypeOK, SpentGone
  <2>2. QED
    BY <1>1, <2>1 DEF SpentGone, Settled, Ended
<1>2. QED
  BY <1>1 DEF SpentGone, TokenSpentOnce

\* The step that burns a token: it was nobody's before and is in no entry after.
LEMMA ConfirmedSpends ==
  ASSUME TypeOK, Settled, StoreBacked, SpentGone, TokenSpentOnce,
         NEW c \in Calls, NEW cl \in Clients, NEW o \in Ops, Confirmed(c, cl, o)
  PROVE  StoreBacked' /\ SpentGone' /\ TokenSpentOnce'
<1>1. PICK e : e = FirstMatch(entries, now, OpKey(o), cl)
  OBVIOUS
<1>2. e \in entries /\ EntryBacked(e)
  BY <1>1, FirstMatchFound, SweepFacts DEF Confirmed, Matching, TypeOK, StoreBacked
<1>3. entries' \subseteq entries \ {e}
  BY <1>1, SweepFacts DEF Confirmed, Consumed
<1>4. /\ spent'[c] = e.token
      /\ \A d \in Calls \ {c} : spent'[d] = spent[d]
      /\ boots' = boots
  BY <1>1 DEF Confirmed, TypeOK, Enters
<1>5. StoreBacked'
  BY <1>3, <1>4, ShrinkStep
<1>6. \A d \in Calls : spent[d] # e.token
  BY <1>2, CallsAssumption DEF SpentGone, EntryBacked
<1>7. TokenSpentOnce'
  BY <1>4, <1>6 DEF TokenSpentOnce
<1>8. ASSUME NEW d \in Calls, spent'[d] # None
      PROVE  /\ state'[spent'[d]] = "challenged"
             /\ \A g \in entries' : g.token # spent'[d]
  <2>1. CASE d = c
    BY <1>2, <1>3, <1>4, <2>1 DEF StoreBacked, EntryBacked, Settled, Ended
  <2>2. CASE d # c
    <3>1. spent'[d] = spent[d] /\ spent[d] \in Calls
      BY <1>4, <1>8, <2>2 DEF TypeOK
    <3>2. QED
      BY <1>3, <1>8, <3>1 DEF SpentGone, Settled, Ended
  <2>3. QED
    BY <2>1, <2>2
<1>9. QED
  BY <1>5, <1>7, <1>8 DEF SpentGone

\* Work starts in two actions only.
LEMMA WorkStarts ==
  ASSUME TypeOK, [Next]_vars, NEW c \in Calls, Ran(c)', ~Ran(c)
  PROVE  \E cl \in Clients, o \in Ops : Confirmed(c, cl, o) \/ Ungated(c, cl, o)
<1> USE DEF Ran, Running
<1>1. ASSUME NEW b \in Calls, NEW cl, NEW o, NEW t, NEW s, NEW recs,
             Enters(b, cl, o, t, s, recs),
             s \in Ended \cup {Running}
      PROVE  b = c /\ s \in {Running, "ok", "error", "cancelled"}
                   /\ o \notin {ConfirmOp, InfoOp}
  BY <1>1, EntersSettled DEF Ended
<1>2. ASSUME NEW b \in Calls, NEW cl \in Clients, NEW o \in Ops,
             Denied(b, cl, o) \/ Challenged(b, cl, o)
      PROVE  FALSE
  BY <1>1, <1>2 DEF Denied, Challenged, Ended
<1>3. ASSUME NEW b \in Calls, NEW cl \in Clients, NEW o \in Ops,
             Confirmed(b, cl, o) \/ Ungated(b, cl, o)
      PROVE  b = c
  BY <1>1, <1>3 DEF Confirmed, Ungated
<1>4. ASSUME NEW b \in Calls, NEW cl \in Clients, NEW t \in Calls,
             OperationConfirm(b, cl, t)
      PROVE  FALSE
  BY <1>1, <1>4 DEF OperationConfirm, Ended
<1>5. ASSUME NEW b \in Calls, NEW cl \in Clients, ServerInfo(b, cl)
      PROVE  FALSE
  BY <1>1, <1>5 DEF ServerInfo, Ended
<1>6. ASSUME NEW b \in Calls, NEW s, NEW a, Ends(b, s, a)
      PROVE  FALSE
  BY <1>6 DEF Ends, TypeOK
<1>7. ASSUME NEW b \in Calls, WorkReturns(b) \/ WorkRaises(b) \/ WorkCancelled(b)
      PROVE  FALSE
  BY <1>6, <1>7 DEF WorkReturns, WorkRaises, WorkCancelled
<1>8. ~Crash
  BY DEF Crash
<1>9. ~Tick /\ ~UNCHANGED vars
  BY DEF Tick, vars
<1>10. QED
  BY <1>2, <1>3, <1>4, <1>5, <1>7, <1>8, <1>9 DEF Next

\* Every irreversible operation that starts was confirmed, and those that had
\* started stay so.
LEMMA ExecutionStep ==
  ASSUME Inv, [Next]_vars
  PROVE  ExecutionConfirmed'
<1> USE DEF Inv
<1>1. Settled
  BY SettledStep
<1>2. SUFFICES ASSUME NEW c \in Calls, Ran(c)', ConfirmTier3,
                      TierOf[op'[c]] = IRREVERSIBLE
               PROVE  \E p, d \in Calls :
                        /\ spent'[c] = p
                        /\ state'[p] = "challenged" /\ state'[d] = "armed"
                        /\ token'[d] = p /\ op'[p] = op'[c]
                        /\ client'[p] = client'[c] /\ client'[d] = client'[c]
                        /\ boot'[p] = boot'[c] /\ boot'[d] = boot'[c]
                        /\ at'[p] <= at'[d] /\ at'[d] <= at'[c]
                        /\ at'[c] < at'[p] + TTL
  BY DEF ExecutionConfirmed
<1>3. CASE Ran(c)
  <2>1. state[c] # "idle"
    BY <1>3 DEF Ran, Running
  <2>2. /\ op'[c] = op[c] /\ client'[c] = client[c] /\ boot'[c] = boot[c]
        /\ at'[c] = at[c] /\ spent'[c] = spent[c]
    BY <1>1, <2>1 DEF Settled
  <2>3. PICK p, d \in Calls :
          /\ spent[c] = p
          /\ state[p] = "challenged" /\ state[d] = "armed" /\ token[d] = p
          /\ op[p] = op[c]
          /\ client[p] = client[c] /\ client[d] = client[c]
          /\ boot[p] = boot[c] /\ boot[d] = boot[c]
          /\ at[p] <= at[d] /\ at[d] <= at[c] /\ at[c] < at[p] + TTL
    BY <1>2, <1>3, <2>2 DEF ExecutionConfirmed
  <2>4. QED
    BY <1>1, <2>2, <2>3 DEF Settled, Ended
<1>4. CASE ~Ran(c)
  <2>1. PICK cl \in Clients, o \in Ops : Confirmed(c, cl, o) \/ Ungated(c, cl, o)
    BY <1>2, <1>4, WorkStarts
  <2>2. op'[c] = o
    BY <2>1, EntersSettled DEF Confirmed, Ungated, Running
  <2>3. Confirmed(c, cl, o)
    BY <1>2, <2>1, <2>2 DEF Ungated, Gated
  <2>4. PICK e : e = FirstMatch(entries, now, OpKey(o), cl)
    OBVIOUS
  <2>5. /\ e \in entries /\ EntryBacked(e) /\ ArmBacked(e)
        /\ e.armed /\ e.key = OpKey(o) /\ e.client = cl /\ e.expires > now
    BY <2>3, <2>4, FirstMatchFound, SweepFacts
       DEF Confirmed, Matching, TypeOK, StoreBacked
  <2>6. PICK d \in Calls : /\ state[d] = "armed" /\ token[d] = e.token
                           /\ client[d] = e.client /\ boot[d] = boots
                           /\ at[e.token] <= at[d]
    BY <2>5 DEF ArmBacked
  <2>7. /\ spent'[c] = e.token /\ client'[c] = cl /\ at'[c] = now
        /\ boot'[c] = boots
    BY <2>3, <2>4, EntersSettled DEF Confirmed, TypeOK, Running
  <2>8. /\ e.token \in Calls /\ state[e.token] = "challenged"
        /\ op[e.token] = o /\ client[e.token] = cl /\ boot[e.token] = boots
        /\ now < at[e.token] + TTL
    BY <2>5 DEF EntryBacked, OpKey, TypeOK
  <2>9. at[d] <= now
    BY DEF NothingBefore
  <2>10. QED
    BY <1>1, <2>2, <2>5, <2>6, <2>7, <2>8, <2>9 DEF Settled, Ended
<1>5. QED
  BY <1>3, <1>4

\* The clock never runs backwards, and a call that has not been made has spent
\* nothing.
LEMMA NothingBeforeStep ==
  ASSUME Inv, [Next]_vars
  PROVE  NothingBefore'
<1> USE DEF Inv, NothingBefore
<1>1. ASSUME NEW c \in Calls, NEW cl, NEW o, NEW t, NEW s, NEW recs,
             Enters(c, cl, o, t, s, recs), s # "idle",
             \A d \in Calls \ {c} : spent'[d] = spent[d]
      PROVE  NothingBefore'
  <2>1. TypeOK /\ now \in Nat
    BY DEF TypeOK
  <2>2. /\ \A d \in Calls \ {c} : state'[d] = state[d] /\ at'[d] = at[d]
        /\ state'[c] = s /\ at'[c] = now /\ now' = now
    BY <1>1, <2>1, EntersSettled
  <2>3. QED
    BY <1>1, <2>1, <2>2
<1>2. ASSUME NEW c \in Calls, NEW cl \in Clients, NEW o \in Ops,
             \/ Denied(c, cl, o) \/ Challenged(c, cl, o)
             \/ Confirmed(c, cl, o) \/ Ungated(c, cl, o)
      PROVE  NothingBefore'
  BY <1>1, <1>2 DEF Denied, Challenged, Confirmed, Ungated, TypeOK, Running
<1>3. ASSUME NEW c \in Calls, NEW cl \in Clients, NEW t \in Calls,
             OperationConfirm(c, cl, t)
      PROVE  NothingBefore'
  BY <1>1, <1>3 DEF OperationConfirm
<1>4. ASSUME NEW c \in Calls, NEW cl \in Clients, ServerInfo(c, cl)
      PROVE  NothingBefore'
  BY <1>1, <1>4 DEF ServerInfo
<1>5. ASSUME NEW c \in Calls, NEW s, NEW a, Ends(c, s, a), s # "idle"
      PROVE  NothingBefore'
  BY <1>5 DEF Ends, TypeOK, Running
<1>6. ASSUME NEW c \in Calls, WorkReturns(c) \/ WorkRaises(c) \/ WorkCancelled(c)
      PROVE  NothingBefore'
  BY <1>5, <1>6 DEF WorkReturns, WorkRaises, WorkCancelled
<1>7. CASE Crash
  BY <1>7 DEF Crash
<1>8. CASE Tick
  BY <1>8 DEF Tick, TypeOK
<1>9. CASE UNCHANGED vars
  BY <1>9 DEF vars
<1>10. QED
  BY <1>2, <1>3, <1>4, <1>6, <1>7, <1>8, <1>9 DEF Next

\* The store and the spent tokens, action by action.
LEMMA StoreStep ==
  ASSUME Inv, [Next]_vars
  PROVE  StoreBacked' /\ SpentGone' /\ TokenSpentOnce'
<1> USE DEF Inv
<1>1. Settled
  BY SettledStep
<1>2. ASSUME boots' = boots, spent' = spent, entries' \subseteq entries
      PROVE  StoreBacked' /\ SpentGone' /\ TokenSpentOnce'
  BY <1>1, <1>2, ShrinkStep, NothingSpent
<1>3. ASSUME NEW c \in Calls, NEW cl \in Clients, NEW o \in Ops,
             Denied(c, cl, o) \/ Ungated(c, cl, o)
      PROVE  StoreBacked' /\ SpentGone' /\ TokenSpentOnce'
  BY <1>2, <1>3 DEF Denied, Ungated, Enters
<1>4. ASSUME NEW c \in Calls, NEW cl \in Clients, NEW o \in Ops,
             Challenged(c, cl, o)
      PROVE  StoreBacked' /\ SpentGone' /\ TokenSpentOnce'
  <2>1. \A g \in entries' : g \in entries \/ g.token = c
    BY <1>4, PlannedFacts DEF Challenged, NewEntry
  <2>2. state[c] = "idle" /\ spent' = spent
    BY <1>4 DEF Challenged, Enters
  <2>3. QED
    BY <1>1, <1>4, <2>1, <2>2, ChallengedStep, NothingSpent
<1>5. ASSUME NEW c \in Calls, NEW cl \in Clients, NEW o \in Ops,
             Confirmed(c, cl, o)
      PROVE  StoreBacked' /\ SpentGone' /\ TokenSpentOnce'
  BY <1>1, <1>5, ConfirmedSpends
<1>6. ASSUME NEW c \in Calls, NEW cl \in Clients, NEW t \in Calls,
             OperationConfirm(c, cl, t)
      PROVE  StoreBacked' /\ SpentGone' /\ TokenSpentOnce'
  <2>1. \A g \in entries' : \E e \in entries : g.token = e.token
    <3> TAKE g \in entries'
    <3>1. CASE g \in entries
      BY <3>1
    <3>2. CASE g \in ArmedStore(entries, now, t, cl) /\ g \notin entries
      <4>1. PICK e \in entries : g = [e EXCEPT !.armed = TRUE]
        BY <3>2, ArmedFacts
      <4>2. e \in Entry
        BY DEF TypeOK
      <4>3. QED
        BY <4>1, <4>2 DEF Entry
    <3>3. QED
      BY <1>6, <3>1, <3>2 DEF OperationConfirm
  <2>2. spent' = spent
    BY <1>6 DEF OperationConfirm
  <2>3. QED
    BY <1>1, <1>6, <2>1, <2>2, ConfirmStep, NothingSpent
<1>7. ASSUME NEW c \in Calls, NEW cl \in Clients, ServerInfo(c, cl)
      PROVE  StoreBacked' /\ SpentGone' /\ TokenSpentOnce'
  BY <1>2, <1>7, SweepFacts DEF ServerInfo, Enters
<1>8. ASSUME NEW c \in Calls, WorkReturns(c) \/ WorkRaises(c) \/ WorkCancelled(c)
      PROVE  StoreBacked' /\ SpentGone' /\ TokenSpentOnce'
  BY <1>2, <1>8 DEF WorkReturns, WorkRaises, WorkCancelled, Ends
<1>9. CASE Crash
  <2>1. entries' = {} /\ spent' = spent
    BY <1>9 DEF Crash, AfterCrash
  <2>2. QED
    BY <1>1, <2>1, NothingSpent DEF StoreBacked
<1>10. CASE Tick
  BY <1>2, <1>10 DEF Tick
<1>11. CASE UNCHANGED vars
  BY <1>2, <1>11 DEF vars
<1>12. QED
  BY <1>3, <1>4, <1>5, <1>6, <1>7, <1>8, <1>9, <1>10, <1>11 DEF Next

\* The inductive invariant.
THEOREM Invariance == Spec => []Inv
<1>1. Init => Inv
  BY CallsAssumption
     DEF Init, Inv, TypeOK, NothingBefore, StoreBacked, SpentGone,
         ExecutionConfirmed, TokenSpentOnce, Ran, Running, Ended
<1>2. Inv /\ [Next]_vars => Inv'
  BY TypeStep, NothingBeforeStep, StoreStep, ExecutionStep DEF Inv
<1>3. QED
  BY <1>1, <1>2, PTL DEF Spec

\* ADR 0009 for every instance: an irreversible operation runs only when the
\* same client confirmed a challenge for exactly this operation, less than TTL
\* before and in the same life of the process.
THEOREM ConfirmationGate == Spec => []ExecutionConfirmed
<1>1. Inv => ExecutionConfirmed
  BY DEF Inv
<1>2. QED
  BY <1>1, Invariance, PTL

\* No token releases two executions.
THEOREM SingleUse == Spec => []TokenSpentOnce
<1>1. Inv => TokenSpentOnce
  BY DEF Inv
<1>2. QED
  BY <1>1, Invariance, PTL

-----------------------------------------------------------------------------
(* The trail.                                                              *)

\* The records of a call, by where it is.
Recorded(c) ==
  /\ state[c] = "idle" => audit[c] = <<>>
  /\ state[c] \in {Running, "lost"} => audit[c] = IntentRecords
  /\ state[c] \in Ended =>
       \E a \in Actions \ {"intent"} :
         \/ audit[c] = Append(IntentRecords, a)
         \/ audit[c] = <<a>> /\ state[c] \in {"denied", "challenged"}

TrailInv == TypeOK /\ \A c \in Calls : Recorded(c)

\* A record list with one closing record, after the write-ahead record if any.
LEMMA OneClosing ==
  ASSUME TypeOK, NEW c \in Calls, NEW a \in Actions \ {"intent"},
         audit[c] = Append(IntentRecords, a) \/ audit[c] = <<a>>
  PROVE  Cardinality(Closing(c)) = 1
<1>1. CASE audit[c] = <<a>>
  <2>1. Closing(c) = {1}
    BY <1>1 DEF Closing
  <2>2. QED
    BY <2>1, FS_Singleton
<1>2. CASE audit[c] = Append(<<"intent">>, a)
  <2>1. Len(audit[c]) = 2 /\ audit[c][1] = "intent" /\ audit[c][2] = a
    BY <1>2
  <2>2. Closing(c) = {2}
    BY <2>1 DEF Closing
  <2>3. QED
    BY <2>2, FS_Singleton
<1>3. Append(<<>>, a) = <<a>>
  OBVIOUS
<1>4. QED
  BY <1>1, <1>2, <1>3 DEF IntentRecords

\* The records by place give a complete trail.
LEMMA RecordedIsComplete ==
  ASSUME TrailInv
  PROVE  TrailComplete
<1>1. SUFFICES ASSUME NEW c \in Calls
               PROVE  /\ state[c] \in Ended => Cardinality(Closing(c)) = 1
                      /\ AuditIntent /\ Ran(c) => audit[c] # <<>> /\ Head(audit[c]) = "intent"
  BY DEF TrailComplete
<1>2. TypeOK /\ Recorded(c)
  BY DEF TrailInv
<1>3. state[c] \in Ended => Cardinality(Closing(c)) = 1
  BY <1>2, OneClosing DEF Recorded
<1>4. ASSUME AuditIntent, Ran(c)
      PROVE  audit[c] # <<>> /\ Head(audit[c]) = "intent"
  <2>1. IntentRecords = <<"intent">>
    BY <1>4 DEF IntentRecords
  <2>2. \/ audit[c] = <<"intent">>
        \/ \E a \in Actions : audit[c] = Append(<<"intent">>, a)
    BY <1>2, <1>4, <2>1 DEF Recorded, Ran, Ended, Running
  <2>3. QED
    BY <2>2
<1>5. QED
  BY <1>3, <1>4

\* Every step records what it does.
LEMMA TrailStep ==
  ASSUME TrailInv, [Next]_vars
  PROVE  TrailInv'
<1> USE DEF TrailInv
<1>0. TypeOK'
  BY TypeStep
<1>1. ASSUME NEW c \in Calls, NEW cl, NEW o, NEW t, NEW s, NEW recs,
             Enters(c, cl, o, t, s, recs),
             \/ s = Running /\ recs = IntentRecords
             \/ s \in Ended /\ \E a \in Actions \ {"intent"} : recs = Append(IntentRecords, a)
             \/ s \in {"denied", "challenged"}
                  /\ \E a \in Actions \ {"intent"} : recs = <<a>>
      PROVE  \A d \in Calls : Recorded(d)'
  <2>1. /\ state'[c] = s /\ audit'[c] = recs /\ s # "idle" /\ s # "lost"
        /\ \A d \in Calls : d # c => state'[d] = state[d] /\ audit'[d] = audit[d]
    BY <1>1 DEF Enters, TypeOK, Ended, Running
  <2>2. Recorded(c)'
    BY <1>1, <2>1 DEF Recorded, Ended, Running, IntentRecords
  <2>3. ASSUME NEW d \in Calls, d # c PROVE Recorded(d)'
    BY <2>1, <2>3 DEF Recorded, IntentRecords
  <2>4. QED
    BY <2>2, <2>3
<1>2. {"denied", "confirm_plan", "completed", "confirm_execute", "cancelled"}
        \subseteq Actions \ {"intent"}
  BY DEF Actions
<1>3. ASSUME NEW c \in Calls, NEW cl \in Clients, NEW o \in Ops,
             \/ Denied(c, cl, o) \/ Challenged(c, cl, o)
             \/ Confirmed(c, cl, o) \/ Ungated(c, cl, o)
      PROVE  \A d \in Calls : Recorded(d)'
  BY <1>1, <1>2, <1>3 DEF Denied, Challenged, Confirmed, Ungated
<1>4. ASSUME NEW c \in Calls, NEW cl \in Clients, NEW t \in Calls,
             OperationConfirm(c, cl, t)
      PROVE  \A d \in Calls : Recorded(d)'
  BY <1>1, <1>2, <1>4 DEF OperationConfirm, Ended
<1>5. ASSUME NEW c \in Calls, NEW cl \in Clients, ServerInfo(c, cl)
      PROVE  \A d \in Calls : Recorded(d)'
  BY <1>1, <1>2, <1>5 DEF ServerInfo, Ended
<1>6. ASSUME NEW c \in Calls, NEW s \in {"ok", "error", "cancelled"},
             NEW a \in Actions \ {"intent"}, Ends(c, s, a)
      PROVE  \A d \in Calls : Recorded(d)'
  <2>1. /\ state[c] = Running /\ state'[c] = s /\ audit'[c] = Append(audit[c], a)
        /\ \A d \in Calls : d # c => state'[d] = state[d] /\ audit'[d] = audit[d]
    BY <1>6 DEF Ends, TypeOK
  <2>2. audit'[c] = Append(IntentRecords, a)
    BY <2>1 DEF Recorded
  <2>3. Recorded(c)'
    BY <2>1, <2>2 DEF Recorded, Ended, Running, IntentRecords
  <2>4. ASSUME NEW d \in Calls, d # c PROVE Recorded(d)'
    BY <2>1, <2>4 DEF Recorded, IntentRecords
  <2>5. QED
    BY <2>3, <2>4
<1>7. ASSUME NEW c \in Calls, WorkReturns(c) \/ WorkRaises(c) \/ WorkCancelled(c)
      PROVE  \A d \in Calls : Recorded(d)'
  BY <1>2, <1>6, <1>7 DEF WorkReturns, WorkRaises, WorkCancelled, CompletionAction
<1>8. CASE Crash
  <2>1. SUFFICES ASSUME NEW d \in Calls PROVE Recorded(d)'
    BY <1>0
  <2>2. /\ audit' = audit
        /\ state'[d] = IF state[d] = Running THEN "lost" ELSE state[d]
    BY <1>8 DEF Crash
  <2>3. state[d] = Running => Recorded(d)'
    BY <2>2 DEF Recorded, Ended, Running, IntentRecords
  <2>4. state[d] # Running => Recorded(d)'
    BY <2>2 DEF Recorded, Ended, Running, IntentRecords
  <2>5. QED
    BY <2>3, <2>4
<1>9. CASE UNCHANGED <<state, audit>>
  <2>1. SUFFICES ASSUME NEW d \in Calls PROVE Recorded(d)'
    BY <1>0
  <2>2. Recorded(d) /\ state'[d] = state[d] /\ audit'[d] = audit[d]
    BY <1>9
  <2>3. QED
    BY <2>2 DEF Recorded, IntentRecords
<1>10. QED
  BY <1>0, <1>3, <1>4, <1>5, <1>7, <1>8, <1>9 DEF Next, Tick, vars

\* A call that ended, by cancellation too, left exactly one closing record, and
\* with the write-ahead record no work starts unrecorded.
THEOREM TrailHolds == Spec => []TrailComplete
<1>1. Init => TrailInv
  <2>1. Init => TypeOK
    BY DEF Init, TypeOK, Ended
  <2>2. Init => \A c \in Calls : Recorded(c)
    BY DEF Init, Recorded, Ended, Running
  <2>3. QED
    BY <2>1, <2>2 DEF TrailInv
<1>2. TrailInv /\ [Next]_vars => TrailInv'
  BY TrailStep
<1>3. TrailInv => TrailComplete
  BY RecordedIsComplete
<1>4. QED
  BY <1>1, <1>2, <1>3, PTL DEF Spec

-----------------------------------------------------------------------------
(* Armed tokens.                                                           *)

StoreBounded == IsFiniteSet(entries) /\ Cardinality(entries) <= MaxPending

\* An entry of a store within its bound is not evicted.
LEMMA SweepKeeps ==
  ASSUME NEW E, IsFiniteSet(E), Cardinality(E) <= MaxPending, NEW t,
         NEW e \in E, e.expires > t
  PROVE  e \in Sweep(E, t)
<1> DEFINE L == Live(E, t)
           before == {x \in L : EvictedBefore(x, e)}
<1>1. L \subseteq E /\ e \in L
  BY DEF Live
<1>2. IsFiniteSet(L) /\ Cardinality(L) <= Cardinality(E)
  BY <1>1, FS_Subset
<1>3. IsFiniteSet(before)
  BY <1>2, FS_Subset
<1>4. Cardinality(L) \in Nat /\ Cardinality(E) \in Nat /\ Cardinality(before) \in Nat
  BY <1>2, <1>3, FS_CardinalityType
<1>5. Cardinality(before) >= Cardinality(L) - MaxPending
  BY <1>2, <1>4, BrokerAssumption
<1>6. QED
  BY <1>1, <1>5 DEF Sweep, Bounded

\* A store with an unarmed entry has an unarmed entry that is evicted first.
LEMMA FirstToGo ==
  ASSUME NEW E, E \subseteq Entry, NEW u \in E, ~u.armed
  PROVE  \E m \in E : {x \in E : EvictedBefore(x, m)} = {}
<1> DEFINE U == {e \in E : ~e.armed}
           X == {e.expires : e \in U}
<1>1. U \subseteq Entry /\ X \subseteq Nat /\ X # {}
  BY DEF Entry
<1>2. PICK n \in X : \A k \in X : n <= k
  <2> HIDE DEF X
  <2> QED  BY <1>1, NatHasLeast
<1> DEFINE V == {e \in U : e.expires = n}
           Y == {e.seq : e \in V}
<1>3. V \subseteq Entry /\ Y \subseteq Nat /\ Y # {}
  BY <1>1, <1>2 DEF Entry
<1>4. PICK q \in Y : \A k \in Y : q <= k
  <2> HIDE DEF Y
  <2> QED  BY <1>3, NatHasLeast
<1>5. PICK m \in V : m.seq = q
  BY <1>4
<1>6. ASSUME NEW x \in E, EvictedBefore(x, m) PROVE FALSE
  <2>1. m \in E /\ ~m.armed /\ m.expires = n
    BY <1>5
  <2>2. x \in Entry /\ m \in Entry
    BY <2>1
  <2>3. ~x.armed
    BY <1>6, <2>1, <2>2 DEF EvictedBefore, Entry
  <2>4. x.expires \in X /\ n <= x.expires
    BY <1>2, <2>3
  <2>5. x.expires = n /\ x.seq < m.seq
    BY <1>6, <2>1, <2>2, <2>3, <2>4 DEF EvictedBefore, Entry
  <2>6. x.seq \in Y
    BY <2>3, <2>5
  <2>7. QED
    BY <1>4, <1>5, <2>2, <2>5, <2>6, SMTT(30) DEF Entry
<1>7. QED
  BY <1>5, <1>6

\* plan() on a store within its bound leaves it within its bound, and drops no
\* armed entry that is live.
LEMMA PlanKeepsArmed ==
  ASSUME TypeOK, StoreBounded, NEW c \in Calls, NEW cl \in Clients, NEW o \in Ops
  PROVE  LET P == Planned(entries, now, c, OpKey(o), cl, Cardinality(Minted)) IN
           /\ IsFiniteSet(P) /\ Cardinality(P) <= MaxPending
           /\ \A e \in entries : e.armed /\ e.expires > now => e \in P
<1> DEFINE new == NewEntry(now, c, OpKey(o), cl, Cardinality(Minted))
           S == Sweep(entries, now)
           L == S \cup {new}
           P == Sweep(L, now)
<1>1. new \in Entry /\ ~new.armed /\ new.expires > now
  <2>1. Cardinality(Minted) \in Nat
    BY CallsAssumption, FS_Subset, FS_CardinalityType DEF Minted
  <2>2. QED
    BY <2>1, BrokerAssumption DEF NewEntry, Entry, OpKey, TypeOK
<1>2. S \subseteq entries /\ \A e \in S : e.expires > now
  BY SweepFacts
<1>3. IsFiniteSet(S) /\ Cardinality(S) \in Nat /\ Cardinality(S) <= MaxPending
  <2> HIDE DEF S
  <2>1. IsFiniteSet(S) /\ Cardinality(S) <= Cardinality(entries)
    BY <1>2, FS_Subset DEF StoreBounded
  <2>2. Cardinality(S) \in Nat /\ Cardinality(entries) \in Nat
    BY <2>1, FS_CardinalityType DEF StoreBounded
  <2>3. QED
    BY <2>1, <2>2, BrokerAssumption DEF StoreBounded
<1>4. L \subseteq Entry /\ Live(L, now) = L
  <2> HIDE DEF S, new
  <2> QED  BY <1>1, <1>2 DEF Live, TypeOK
<1>5. /\ IsFiniteSet(L) /\ Cardinality(L) \in Nat
      /\ Cardinality(L) <= MaxPending + 1
  <2> HIDE DEF S, new
  <2>1. IsFiniteSet(L)
    BY <1>3, FS_AddElement
  <2>2. Cardinality(L) \in Nat
    BY <2>1, FS_CardinalityType
  <2>3. Cardinality(L) = IF new \in S THEN Cardinality(S) ELSE Cardinality(S) + 1
    BY <1>3, FS_AddElement
  <2>4. QED
    BY <1>3, <2>1, <2>2, <2>3, BrokerAssumption
<1>6. P \subseteq L /\ IsFiniteSet(P)
  <2> HIDE DEF L
  <2>1. P \subseteq L
    BY SweepFacts
  <2>2. QED
    BY <1>5, <2>1, FS_Subset
<1>7. Cardinality(P) <= MaxPending
  <2>1. PICK m \in L : {x \in L : EvictedBefore(x, m)} = {}
    <3>1. new \in L
      OBVIOUS
    <3> HIDE DEF L, new
    <3>2. QED
      BY <1>1, <1>4, <3>1, FirstToGo
  <2> HIDE DEF L
  <2>2. CASE Cardinality(L) <= MaxPending
    <3>1. Cardinality(P) <= Cardinality(L) /\ Cardinality(P) \in Nat
      BY <1>5, <1>6, FS_Subset, FS_CardinalityType
    <3>2. QED
      BY <1>5, <2>2, <3>1, BrokerAssumption
  <2>3. CASE Cardinality(L) = MaxPending + 1
    <3>1. Cardinality({x \in L : EvictedBefore(x, m)}) = 0
      BY <2>1, FS_EmptySet
    <3>2. ~(0 >= Cardinality(L) - MaxPending)
      BY <1>5, <2>3, BrokerAssumption
    <3>3. m \notin P
      BY <1>4, <3>1, <3>2 DEF Sweep, Bounded
    <3>4. P \subseteq L \ {m}
      BY <1>6, <3>3
    <3>5. IsFiniteSet(L \ {m}) /\ Cardinality(L \ {m}) = Cardinality(L) - 1
      BY <1>5, <2>1, FS_RemoveElement
    <3>6. Cardinality(P) <= Cardinality(L \ {m}) /\ Cardinality(P) \in Nat
      BY <1>6, <3>4, <3>5, FS_Subset, FS_CardinalityType
    <3>7. QED
      BY <1>5, <2>3, <3>5, <3>6, BrokerAssumption
  <2>4. QED
    BY <1>5, <2>2, <2>3, BrokerAssumption
<1>8. ASSUME NEW e \in entries, e.armed, e.expires > now PROVE e \in P
  <2>1. e \in S
    BY <1>8, SweepKeeps DEF StoreBounded
  <2> HIDE DEF S, new
  <2>2. e \in L /\ new \in L /\ EvictedBefore(new, e)
    BY <1>1, <1>8, <2>1 DEF EvictedBefore
  <2> HIDE DEF L
  <2> DEFINE before == {x \in L : EvictedBefore(x, e)}
  <2>3. new \in before /\ before \subseteq L
    BY <2>2
  <2> HIDE DEF before
  <2>4. IsFiniteSet(before) /\ Cardinality(before) \in Nat
    BY <1>5, <2>3, FS_Subset, FS_CardinalityType
  <2>5. Cardinality(before) # 0
    BY <2>3, <2>4, FS_EmptySet
  <2>6. Cardinality(before) >= Cardinality(L) - MaxPending
    BY <1>5, <2>4, <2>5, BrokerAssumption
  <2>7. QED
    BY <1>4, <2>2, <2>6 DEF Sweep, Bounded, before
<1>9. QED
  BY <1>6, <1>7, <1>8 DEF Planned


\* A store that shrinks stays within its bound.
LEMMA ShrinkBounded ==
  ASSUME StoreBounded, NEW E, E \subseteq entries
  PROVE  IsFiniteSet(E) /\ Cardinality(E) \in Nat /\ Cardinality(E) <= MaxPending
<1>1. IsFiniteSet(E) /\ Cardinality(E) <= Cardinality(entries)
  BY FS_Subset DEF StoreBounded
<1>2. Cardinality(E) \in Nat /\ Cardinality(entries) \in Nat
  BY <1>1, FS_CardinalityType DEF StoreBounded
<1>3. QED
  BY <1>1, <1>2, BrokerAssumption DEF StoreBounded

\* arm() keeps the number of entries, and every armed entry that is live.
LEMMA ArmKeepsArmed ==
  ASSUME TypeOK, StoreBounded, NEW t, NEW cl
  PROVE  LET A == ArmedStore(entries, now, t, cl) IN
           /\ IsFiniteSet(A) /\ Cardinality(A) <= MaxPending
           /\ \A e \in entries : e.armed /\ e.expires > now => e \in A
<1> DEFINE S == Sweep(entries, now)
           A == ArmedStore(entries, now, t, cl)
           f == [e \in S |-> IF e \in Armable(entries, now, t, cl)
                               THEN [e EXCEPT !.armed = TRUE] ELSE e]
<1>1. A = {f[e] : e \in S}
  BY DEF ArmedStore
<1>2. S \subseteq entries
  BY SweepFacts
<1>3. \A e \in S : e.armed => f[e] = e
  <2>1. ASSUME NEW e \in S, e.armed PROVE f[e] = e
    <3>1. e \in Entry
      BY <1>2 DEF TypeOK
    <3>2. [e EXCEPT !.armed = TRUE] = e
      BY <2>1, <3>1 DEF Entry
    <3>3. QED
      BY <3>2
  <2>2. QED
    BY <2>1
<1> HIDE DEF S, A
<1>4. f \in [S -> A] /\ \A a \in A : \E e \in S : f[e] = a
  BY <1>1
<1>5. DOMAIN f = S
  OBVIOUS
<1> HIDE DEF f
<1>6. f \in Surjection(S, A)
  BY <1>4 DEF Surjection
<1>7. IsFiniteSet(S) /\ Cardinality(S) \in Nat /\ Cardinality(S) <= MaxPending
  BY <1>2, ShrinkBounded
<1>8. IsFiniteSet(A) /\ Cardinality(A) <= Cardinality(S)
  BY <1>6, <1>7, FS_Surjection
<1>9. Cardinality(A) <= MaxPending
  BY <1>7, <1>8, FS_CardinalityType, BrokerAssumption
<1>10. ASSUME NEW e \in entries, e.armed, e.expires > now PROVE e \in A
  <2>1. e \in S
    BY <1>10, SweepKeeps DEF StoreBounded, S
  <2>2. QED
    BY <1>1, <1>3, <1>10, <2>1
<1>11. QED
  BY <1>8, <1>9, <1>10 DEF A

\* What a step does with the armed tokens, as a step formula.
ArmedStays ==
  \A e \in entries :
    e.armed /\ e.expires > now /\ boots' = boots =>
      e \in entries' \/ \E c \in Calls : spent[c] # spent'[c] /\ spent'[c] = e.token

\* Every step keeps the store within its bound and loses no armed token but by
\* its deadline, its use or a restart.
LEMMA ArmedStep ==
  ASSUME Inv, StoreBounded, [Next]_vars
  PROVE  StoreBounded' /\ ArmedStays
<1> USE DEF Inv
<1>1. CASE UNCHANGED entries
  BY <1>1 DEF StoreBounded, ArmedStays
<1>2. \A e \in entries : e.expires > now => e \in Sweep(entries, now)
  BY SweepKeeps DEF StoreBounded
<1>3. ASSUME NEW c \in Calls, NEW cl \in Clients, NEW o \in Ops, Challenged(c, cl, o)
      PROVE  StoreBounded' /\ ArmedStays
  BY <1>3, PlanKeepsArmed DEF Challenged, StoreBounded, ArmedStays
<1>4. ASSUME NEW c \in Calls, NEW cl \in Clients, NEW o \in Ops, Confirmed(c, cl, o)
      PROVE  StoreBounded' /\ ArmedStays
  <2> DEFINE e0 == FirstMatch(entries, now, OpKey(o), cl)
  <2>1. e0 \in Matching(entries, now, OpKey(o), cl)
    BY <1>4, FirstMatchFound DEF Confirmed, TypeOK
  <2>2. e0 \in entries /\ e0.token \in Calls
    BY <2>1, SweepFacts DEF Matching, StoreBacked, EntryBacked
  <2>3. spent[c] = None /\ spent'[c] = e0.token
    BY <1>4 DEF Confirmed, Enters, NothingBefore, TypeOK
  <2>4. entries' = Sweep(entries, now) \ {e0}
    BY <1>4 DEF Confirmed, Consumed
  <2> HIDE DEF e0
  <2>5. StoreBounded'
    BY <2>4, SweepFacts, ShrinkBounded DEF StoreBounded
  <2>6. ArmedStays
    BY <1>2, <2>2, <2>3, <2>4, CallsAssumption DEF ArmedStays
  <2>7. QED
    BY <2>5, <2>6
<1>5. ASSUME NEW c \in Calls, NEW cl \in Clients, NEW t \in Calls, OperationConfirm(c, cl, t)
      PROVE  StoreBounded' /\ ArmedStays
  <2>1. CASE ConfirmTier3
    BY <1>5, <2>1, ArmKeepsArmed DEF OperationConfirm, StoreBounded, ArmedStays
  <2>2. CASE ~ConfirmTier3
    BY <1>1, <1>5, <2>2 DEF OperationConfirm
  <2>3. QED
    BY <2>1, <2>2
<1>6. ASSUME NEW c \in Calls, NEW cl \in Clients, ServerInfo(c, cl)
      PROVE  StoreBounded' /\ ArmedStays
  <2>1. CASE ConfirmTier3
    <3>1. entries' = Sweep(entries, now)
      BY <1>6, <2>1 DEF ServerInfo
    <3>2. StoreBounded'
      BY <3>1, SweepFacts, ShrinkBounded DEF StoreBounded
    <3>3. ArmedStays
      BY <1>2, <3>1 DEF ArmedStays
    <3>4. QED
      BY <3>2, <3>3
  <2>2. CASE ~ConfirmTier3
    BY <1>1, <1>6, <2>2 DEF ServerInfo
  <2>3. QED
    BY <2>1, <2>2
<1>7. CASE Crash
  <2>1. entries' = {} /\ boots' # boots
    BY <1>7 DEF Crash, AfterCrash, TypeOK
  <2>2. QED
    BY <2>1, FS_EmptySet, BrokerAssumption DEF StoreBounded, ArmedStays
<1>8. ASSUME NEW c \in Calls, NEW cl \in Clients, NEW o \in Ops,
             Denied(c, cl, o) \/ Ungated(c, cl, o)
      PROVE  StoreBounded' /\ ArmedStays
  BY <1>1, <1>8 DEF Denied, Ungated
<1>9. ASSUME NEW c \in Calls, WorkReturns(c) \/ WorkRaises(c) \/ WorkCancelled(c)
      PROVE  StoreBounded' /\ ArmedStays
  BY <1>1, <1>9 DEF WorkReturns, WorkRaises, WorkCancelled, Ends
<1>10. CASE Tick \/ UNCHANGED vars
  BY <1>1, <1>10 DEF Tick, vars
<1>11. QED
  BY <1>3, <1>4, <1>5, <1>6, <1>7, <1>8, <1>9, <1>10 DEF Next

\* The store never holds more than _MAX_PENDING tokens, and a token that the
\* operator has armed leaves it only by the execution it releases, by its
\* deadline or by a restart.
THEOREM ArmedTokensSurvive == Spec => ArmedSurvives /\ []StoreBounded
<1>1. Init => StoreBounded
  BY FS_EmptySet, BrokerAssumption DEF Init, StoreBounded
<1>2. Inv /\ StoreBounded /\ [Next]_vars => StoreBounded' /\ [ArmedStays]_vars
  BY ArmedStep
<1>3. QED
  BY <1>1, <1>2, Invariance, PTL DEF Spec, ArmedSurvives, ArmedStays


-----------------------------------------------------------------------------
(* The runner implements the gate of ADR 0009.  The refinement mapping is  *)
(* that of ImplementsGate; the names below are those of the gate's state.  *)

GateOpen == {Challenge(e) : e \in {x \in entries : ~x.armed}}
GateGranted == {Challenge(e) : e \in {x \in entries : x.armed}}
GateReleased == {[token |-> spent[c], client |-> client[c], op |-> op[c]] :
                   c \in {d \in Calls : spent[d] # None}}

\* The tokens issued, and the operations released, stay when a step neither
\* challenges a call nor spends a token.
LEMMA GateKept ==
  ASSUME TypeOK, NothingBefore, Settled, spent' = spent,
         \A d \in Calls : state'[d] = "challenged" <=> state[d] = "challenged"
  PROVE  Minted' = Minted /\ GateReleased' = GateReleased
<1>1. Minted' = Minted
  BY DEF Minted
<1>2. \A d \in Calls : spent[d] # None => client'[d] = client[d] /\ op'[d] = op[d]
  BY DEF NothingBefore, Settled
<1>3. QED
  BY <1>1, <1>2 DEF GateReleased

\* A step that only removes entries makes the gate forget.
LEMMA ForgetStep ==
  ASSUME entries' \subseteq entries, Minted' = Minted, GateReleased' = GateReleased
  PROVE  Gate!Next
<1>1. GateOpen' \subseteq GateOpen /\ GateGranted' \subseteq GateGranted
  BY DEF GateOpen, GateGranted, Challenge
<1>2. Gate!Forget
  BY <1>1 DEF Gate!Forget, GateOpen, GateGranted, GateReleased
<1>3. QED
  BY <1>2 DEF Gate!Next


\* A challenged call is a challenge of the gate.
LEMMA GateChallenge ==
  ASSUME Inv, Settled, NEW c \in Calls, NEW cl \in Clients, NEW o \in Ops,
         Challenged(c, cl, o)
  PROVE  Gate!Next
<1> USE DEF Inv
<1> DEFINE new == NewEntry(now, c, OpKey(o), cl, Cardinality(Minted))
           x == [token |-> c, client |-> cl, op |-> o]
<1>1. entries' \subseteq entries \cup {new}
  BY PlannedFacts DEF Challenged
<1>2. Challenge(new) = x /\ ~new.armed
  BY DEF Challenge, NewEntry, OpKey
<1>3. state[c] = "idle" /\ spent' = spent
      /\ \A d \in Calls : state'[d] = "challenged" <=> (state[d] = "challenged" \/ d = c)
  BY DEF Challenged, Enters, TypeOK
<1>4. c \notin Minted /\ Minted' = Minted \cup {c}
  BY <1>3 DEF Minted
<1>5. GateReleased' = GateReleased
  <2>1. \A d \in Calls : spent[d] # None => client'[d] = client[d] /\ op'[d] = op[d]
    BY DEF NothingBefore, Settled
  <2>2. QED
    BY <1>3, <2>1 DEF GateReleased
<1> HIDE DEF new
<1>6. GateOpen' \subseteq GateOpen \cup {x} /\ GateGranted' \subseteq GateGranted
  BY <1>1, <1>2 DEF GateOpen, GateGranted, Challenge
<1>7. x \in Gate!Challenges /\ x.token = c
  BY DEF Gate!Challenges
<1> HIDE DEF x
<1>8. Gate!Challenge(x)
  BY <1>4, <1>5, <1>6, <1>7 DEF Gate!Challenge, GateOpen, GateGranted, GateReleased
<1>9. QED
  BY <1>7, <1>8 DEF Gate!Next

\* A call that burns a token is a release of the gate.
LEMMA GateRelease ==
  ASSUME Inv, Settled, NEW c \in Calls, NEW cl \in Clients, NEW o \in Ops,
         Confirmed(c, cl, o)
  PROVE  Gate!Next
<1> USE DEF Inv
<1>0. PICK e0 : e0 = FirstMatch(entries, now, OpKey(o), cl)
  OBVIOUS
<1> DEFINE x == [token |-> e0.token, client |-> cl, op |-> o]
<1>1. e0 \in Matching(entries, now, OpKey(o), cl)
  BY <1>0, FirstMatchFound DEF Confirmed, TypeOK
<1>2. /\ e0 \in entries /\ e0.armed /\ e0.key = OpKey(o) /\ e0.client = cl
      /\ e0.token \in Calls
  BY <1>1, SweepFacts DEF Matching, StoreBacked, EntryBacked
<1>3. Challenge(e0) = x
  BY <1>2 DEF Challenge, OpKey
<1>4. /\ state[c] = "idle" /\ spent' = [spent EXCEPT ![c] = e0.token]
      /\ client'[c] = cl /\ op'[c] = o /\ entries' = Sweep(entries, now) \ {e0}
      /\ \A d \in Calls : state'[d] = "challenged" <=> state[d] = "challenged"
  BY <1>0 DEF Confirmed, Consumed, Enters, TypeOK, Running
<1>5. Minted' = Minted
  BY <1>4 DEF Minted
<1>6. GateReleased' = GateReleased \cup {x}
  <2>1. spent[c] = None /\ spent'[c] = e0.token /\ e0.token # None
    BY <1>2, <1>4, CallsAssumption DEF NothingBefore, TypeOK
  <2>2. \A d \in Calls : d # c => spent'[d] = spent[d]
    BY <1>4 DEF TypeOK
  <2>3. \A d \in Calls : spent[d] # None => client'[d] = client[d] /\ op'[d] = op[d]
    BY DEF NothingBefore, Settled
  <2>4. GateReleased' \subseteq GateReleased \cup {x}
    BY <1>4, <2>1, <2>2, <2>3 DEF GateReleased
  <2>5. GateReleased \cup {x} \subseteq GateReleased'
    BY <1>4, <2>1, <2>2, <2>3 DEF GateReleased
  <2>6. QED
    BY <2>4, <2>5
<1>7. entries' \subseteq entries /\ e0 \notin entries'
  BY <1>4, SweepFacts
<1>8. GateOpen' \subseteq GateOpen /\ x \in GateGranted /\ GateGranted' \subseteq GateGranted
  BY <1>2, <1>3, <1>7 DEF GateOpen, GateGranted, Challenge
<1>9. x \notin GateGranted'
  <2>1. SUFFICES ASSUME NEW g \in entries', Challenge(g) = x PROVE FALSE
    BY DEF GateGranted, Challenge
  <2>2. g.token = e0.token
    BY <2>1 DEF Challenge
  <2>3. QED
    BY <1>2, <1>7, <2>2 DEF StoreBacked
<1>10. Gate!Release(x)
  BY <1>5, <1>6, <1>8, <1>9 DEF Gate!Release, GateOpen, GateGranted, GateReleased
<1>11. x \in GateGranted
  BY <1>8
<1> HIDE DEF x
<1>12. QED
  BY <1>10, <1>11 DEF Gate!Next, GateGranted

\* operation_confirm is a confirmation of the gate, unless it finds nothing to
\* arm.
LEMMA GateConfirm ==
  ASSUME Inv, Settled, NEW c \in Calls, NEW cl \in Clients, NEW t \in Calls,
         OperationConfirm(c, cl, t), ConfirmTier3
  PROVE  Gate!Next
<1> USE DEF Inv
<1>1. /\ entries' = ArmedStore(entries, now, t, cl) /\ spent' = spent
      /\ \A d \in Calls : state'[d] = "challenged" <=> state[d] = "challenged"
  BY DEF OperationConfirm, Enters, TypeOK
<1>2. Minted' = Minted /\ GateReleased' = GateReleased
  BY <1>1, GateKept
<1> DEFINE B == Armable(entries, now, t, cl)
<1>3. B \subseteq entries /\ \A e \in B : e.token = t
  BY SweepFacts DEF Armable
<1>4. \A g \in entries' : \/ g \in entries /\ g \notin B
                          \/ \E e \in B : g = [e EXCEPT !.armed = TRUE]
  <2>1. SUFFICES ASSUME NEW g \in entries'
                 PROVE  \/ g \in entries /\ g \notin B
                        \/ \E e \in B : g = [e EXCEPT !.armed = TRUE]
    OBVIOUS
  <2>2. PICK e \in Sweep(entries, now) :
          g = IF e \in B THEN [e EXCEPT !.armed = TRUE] ELSE e
    BY <1>1 DEF ArmedStore
  <2>3. e \in entries
    BY SweepFacts
  <2>4. QED
    BY <2>2, <2>3
<1>5. \A e \in entries : e \in Entry
  BY DEF TypeOK
<1> HIDE DEF B
<1>6. CASE \A e \in B : e.armed
  <2>1. \A e \in B : [e EXCEPT !.armed = TRUE] = e
    BY <1>3, <1>5, <1>6 DEF Entry
  <2>2. entries' \subseteq entries
    BY <1>3, <1>4, <2>1
  <2>3. QED
    BY <1>2, <2>2, ForgetStep
<1>7. ASSUME NEW e \in B, ~e.armed PROVE Gate!Next
  <2> DEFINE x == Challenge(e)
             e1 == [e EXCEPT !.armed = TRUE]
  <2>1. x \in GateOpen
    BY <1>3, <1>7 DEF GateOpen
  <2>2. \A g \in entries : g.token = t => g = e
    BY <1>3 DEF StoreBacked
  <2>3. /\ e1.armed /\ Challenge(e1) = x /\ e1.token = t /\ x.token = t
    BY <1>3, <1>5 DEF Entry, Challenge
  <2> HIDE DEF e1, x
  <2>4. \A g \in entries' : g = e1 \/ (g \in entries /\ g.token # t)
    BY <1>3, <1>4, <1>7, <2>2 DEF e1
  <2>5. GateOpen' \subseteq GateOpen \ {x}
    BY <2>3, <2>4 DEF GateOpen, Challenge
  <2>6. GateGranted' \subseteq GateGranted \cup {x}
    BY <2>3, <2>4 DEF GateGranted, Challenge
  <2>7. Gate!Confirm(x)
    BY <1>2, <2>1, <2>5, <2>6 DEF Gate!Confirm, GateOpen, GateGranted, GateReleased
  <2>8. QED
    BY <2>1, <2>7 DEF Gate!Next, GateOpen
<1>8. QED
  BY <1>6, <1>7

\* The refinement: the runner with its store, clock, policy and restarts is the
\* two-step gate, for every instance.
THEOREM Refinement == Spec => ImplementsGate
<1>1. Init => Gate!Init
  BY DEF Init, Gate!Init, Minted
<1>2. Inv /\ [Next]_vars => [Gate!Next]_(Gate!vars)
  <2> SUFFICES ASSUME Inv, [Next]_vars PROVE Gate!Next \/ UNCHANGED Gate!vars
    OBVIOUS
  <2>0. Settled /\ TypeOK /\ NothingBefore
    BY SettledStep DEF Inv
  <2>1. ASSUME entries' \subseteq entries, spent' = spent,
               \A d \in Calls : state'[d] = "challenged" <=> state[d] = "challenged"
        PROVE  Gate!Next
    BY <2>0, <2>1, GateKept, ForgetStep
  <2>2. ASSUME NEW c \in Calls, NEW cl, NEW o, NEW t, NEW s, NEW recs,
               Enters(c, cl, o, t, s, recs), s # "challenged"
        PROVE  \A d \in Calls : state'[d] = "challenged" <=> state[d] = "challenged"
    BY <2>0, <2>2 DEF Enters, TypeOK
  <2>3. ASSUME NEW c \in Calls, NEW cl \in Clients, NEW o \in Ops,
               Denied(c, cl, o) \/ Ungated(c, cl, o)
        PROVE  Gate!Next
    BY <2>1, <2>2, <2>3 DEF Denied, Ungated, Running
  <2>4. ASSUME NEW c \in Calls, NEW cl \in Clients, NEW t \in Calls, OperationConfirm(c, cl, t)
        PROVE  Gate!Next
    <3>1. CASE ~ConfirmTier3
      BY <2>1, <2>2, <2>4, <3>1 DEF OperationConfirm
    <3>2. QED
      BY <2>0, <2>4, <3>1, GateConfirm
  <2>5. ASSUME NEW c \in Calls, NEW cl \in Clients, ServerInfo(c, cl)
        PROVE  Gate!Next
    <3>1. entries' \subseteq entries /\ spent' = spent
      BY <2>5, SweepFacts DEF ServerInfo
    <3>2. QED
      BY <2>1, <2>2, <2>5, <3>1 DEF ServerInfo
  <2>6. ASSUME NEW c \in Calls, WorkReturns(c) \/ WorkRaises(c) \/ WorkCancelled(c)
        PROVE  Gate!Next
    BY <2>0, <2>1, <2>6 DEF WorkReturns, WorkRaises, WorkCancelled, Ends, TypeOK, Running
  <2>7. CASE Crash
    BY <2>0, <2>1, <2>7 DEF Crash, AfterCrash, Running
  <2>8. CASE Tick \/ UNCHANGED vars
    BY <2>1, <2>8 DEF Tick, vars
  <2>9. QED
    BY <2>0, <2>3, <2>4, <2>5, <2>6, <2>7, <2>8, GateChallenge, GateRelease DEF Next
<1>3. QED
  BY <1>1, <1>2, Invariance, PTL DEF Spec, ImplementsGate, Gate!Spec

-----------------------------------------------------------------------------
(* The tools.  The key of a call is its policy text and its audited        *)
(* arguments; what it runs is a function of the two, for any texts, hosts  *)
(* and inventory.  Two audited arguments are not the text itself: a login  *)
(* shell reads "shell", and the input at a secret prompt shows only its    *)
(* length; there the policy text tells the calls apart.                    *)

\* The twelve tools, one by one.
LEMMA TwelveTools ==
  /\ DOMAIN Surface = 1..12
  /\ Surface[1] = {ShellExec(c) : c \in ShellExecCalls}
  /\ Surface[2] = {ShellScript(c) : c \in ShellScriptCalls}
  /\ Surface[3] = {ShellSpawn(c) : c \in ShellSpawnCalls}
  /\ Surface[4] = {SshExec(c) : c \in SshExecCalls}
  /\ Surface[5] = {SshSpawn(c) : c \in SshSpawnCalls}
  /\ Surface[6] = {SshUpload(c) : c \in TransferCalls}
  /\ Surface[7] = {SshDownload(c) : c \in TransferCalls}
  /\ Surface[8] = {SshForward(c) : c \in SshForwardCalls}
  /\ Surface[9] = {SshFanout(c) : c \in SshFanoutCalls}
  /\ Surface[10] = {SshCheck(c) : c \in SshCheckCalls}
  /\ Surface[11] = {SshKeyscan(c) : c \in SshKeyscanCalls}
  /\ Surface[12] = {SessionSend(c) : c \in SessionSendCalls}
<1>1. DOMAIN Surface = 1..12
  BY DEF Surface
<1>2. Surface[1] = {ShellExec(c) : c \in ShellExecCalls}
  BY DEF Surface
<1>3. Surface[2] = {ShellScript(c) : c \in ShellScriptCalls}
  BY DEF Surface
<1>4. Surface[3] = {ShellSpawn(c) : c \in ShellSpawnCalls}
  BY DEF Surface
<1>5. Surface[4] = {SshExec(c) : c \in SshExecCalls}
  BY DEF Surface
<1>6. Surface[5] = {SshSpawn(c) : c \in SshSpawnCalls}
  BY DEF Surface
<1>7. Surface[6] = {SshUpload(c) : c \in TransferCalls}
  BY DEF Surface
<1>8. Surface[7] = {SshDownload(c) : c \in TransferCalls}
  BY DEF Surface
<1>9. Surface[8] = {SshForward(c) : c \in SshForwardCalls}
  BY DEF Surface
<1>10. Surface[9] = {SshFanout(c) : c \in SshFanoutCalls}
  BY DEF Surface
<1>11. Surface[10] = {SshCheck(c) : c \in SshCheckCalls}
  BY DEF Surface
<1>12. Surface[11] = {SshKeyscan(c) : c \in SshKeyscanCalls}
  BY DEF Surface
<1>13. Surface[12] = {SessionSend(c) : c \in SessionSendCalls}
  BY DEF Surface
<1>. QED
  BY <1>1, <1>2, <1>3, <1>4, <1>5, <1>6, <1>7, <1>8, <1>9, <1>10, <1>11, <1>12, <1>13, Zenon

\* The shell tools: every field is audited as it is.
LEMMA ShellKeys ==
  /\ KeyDecides({ShellExec(c) : c \in ShellExecCalls})
  /\ KeyDecides({ShellScript(c) : c \in ShellScriptCalls})
  /\ KeyDecides({ShellSpawn(c) : c \in ShellSpawnCalls})
<1>1. ASSUME NEW c \in ShellExecCalls, NEW d \in ShellExecCalls,
             ConfirmOpKey(ShellExec(c)) = ConfirmOpKey(ShellExec(d))
      PROVE  ShellExec(c).runs = ShellExec(d).runs
  BY <1>1 DEF ConfirmOpKey, ShellExec
<1>2. ASSUME NEW c \in ShellScriptCalls, NEW d \in ShellScriptCalls,
             ConfirmOpKey(ShellScript(c)) = ConfirmOpKey(ShellScript(d))
      PROVE  ShellScript(c).runs = ShellScript(d).runs
  <2>1. /\ c.interpreter = d.interpreter /\ c.strict = d.strict /\ c.script = d.script
        /\ c.cwd = d.cwd /\ c.env_json = d.env_json
    BY <1>2 DEF ConfirmOpKey, ShellScript
  <2>. QED
    BY <2>1, Zenon DEF ShellScript
<1>3. ASSUME NEW c \in ShellSpawnCalls, NEW d \in ShellSpawnCalls,
             ConfirmOpKey(ShellSpawn(c)) = ConfirmOpKey(ShellSpawn(d))
      PROVE  ShellSpawn(c).runs = ShellSpawn(d).runs
  BY <1>3 DEF ConfirmOpKey, ShellSpawn
<1>. QED
  BY <1>1, <1>2, <1>3 DEF KeyDecides

\* Where an SSH call goes, as whom and how it is verified follows from the host
\* and the target fields of its audit record.
LEMMA SameTerms ==
  ASSUME NEW t, NEW u, SshTargetAudit(t) = SshTargetAudit(u)
  PROVE  t.host = u.host /\ t.jump = u.jump /\ Terms(t) = Terms(u)
<1>1. /\ t.host = u.host /\ t.user = u.user /\ t.port = u.port
      /\ t.key_path = u.key_path /\ t.jump = u.jump
      /\ EffectiveKnownHosts(t) = EffectiveKnownHosts(u)
  BY DEF SshTargetAudit
<1>2. \A v, w : Or(v, "", Or(w, "", DefaultKnownHosts)) = Or(Or(v, "", w), "", DefaultKnownHosts)
  BY Zenon DEF Or
<1>3. \A v, w : Lower(Or(v, "", Or(w, "", DefaultKnownHosts)))
                  = Lower(Or(Or(v, "", w), "", DefaultKnownHosts))
  BY <1>2, Zenon
<1>4. /\ EffectiveKnownHosts(t) = Terms(t).mode
      /\ EffectiveKnownHosts(u) = Terms(u).mode
  BY <1>3, Zenon DEF EffectiveKnownHosts, Terms
<1>5. Terms(t).mode = Terms(u).mode
  BY <1>1, <1>4, Zenon
<1>. QED
  BY <1>1, <1>5, Zenon DEF Terms

\* What stands in front of texts of one length is the same in equal texts.
LEMMA SameFront ==
  ASSUME NEW S, NEW a \in Seq(S), NEW b \in Seq(S), NEW x \in Seq(S), NEW y \in Seq(S),
         a \o x = b \o y, Len(x) = Len(y)
  PROVE  a = b /\ x = y
<1>1. Len(a) = Len(b)
  <2>1. Len(a \o x) = Len(a) + Len(x) /\ Len(b \o y) = Len(b) + Len(y)
    OBVIOUS
  <2>. QED
    BY <2>1
<1>2. \A i \in 1..Len(a) : a[i] = b[i]
  <2>1. \A i \in 1..Len(a) : (a \o x)[i] = a[i] /\ (b \o y)[i] = b[i]
    BY <1>1
  <2>. QED
    BY <2>1
<1>3. \A i \in 1..Len(x) : x[i] = y[i]
  <2>1. \A i \in 1..Len(x) : (a \o x)[Len(a) + i] = x[i] /\ (b \o y)[Len(a) + i] = y[i]
    BY <1>1
  <2>. QED
    BY <2>1
<1>. QED
  BY <1>1, <1>2, <1>3, SeqEqual, Zenon

\* A host and a jump chain are texts.
LEMMA TargetFields ==
  ASSUME NEW t \in Targets
  PROVE  /\ t.jump \in Seq(STRING) /\ <<t.host>> \in Seq(STRING)
BY TextsAssumption

\* The SSH command tools; the command of a login shell is told by the policy text.
LEMMA SshKeys ==
  /\ KeyDecides({SshExec(c) : c \in SshExecCalls})
  /\ KeyDecides({SshSpawn(c) : c \in SshSpawnCalls})
  /\ KeyDecides({SshForward(c) : c \in SshForwardCalls})
<1>1. ASSUME NEW c \in SshExecCalls, NEW d \in SshExecCalls,
             ConfirmOpKey(SshExec(c)) = ConfirmOpKey(SshExec(d))
      PROVE  SshExec(c).runs = SshExec(d).runs
  <2>1. c.command = d.command /\ SshTargetAudit(c.target) = SshTargetAudit(d.target)
    BY <1>1 DEF ConfirmOpKey, SshExec
  <2>2. Terms(c.target) = Terms(d.target)
    BY <2>1, SameTerms
  <2>. QED
    BY <2>1, <2>2 DEF SshExec
<1>2. ASSUME NEW c \in SshSpawnCalls, NEW d \in SshSpawnCalls,
             ConfirmOpKey(SshSpawn(c)) = ConfirmOpKey(SshSpawn(d))
      PROVE  SshSpawn(c).runs = SshSpawn(d).runs
  <2>1. /\ PolicyTextSsh(c.target.host, c.command, c.target.jump)
             = PolicyTextSsh(d.target.host, d.command, d.target.jump)
        /\ c.size = d.size
        /\ SshTargetAudit(c.target) = SshTargetAudit(d.target)
    BY <1>2 DEF ConfirmOpKey, SshSpawn
  <2>2. c.target.host = d.target.host /\ c.target.jump = d.target.jump
        /\ Terms(c.target) = Terms(d.target)
    BY <2>1, SameTerms
  <2>3. c.command = d.command
    <3>1. PICK h, j, a, b : /\ h = c.target.host /\ j = c.target.jump
                            /\ a = c.command /\ b = d.command
      OBVIOUS
    <3>2. a \in Seq(STRING) /\ b \in Seq(STRING) /\ j \in Seq(STRING) /\ <<h>> \in Seq(STRING)
      BY <3>1, TargetFields, TextsAssumption DEF SshSpawnCalls
    <3>3. (a \o <<h>>) \o j = (b \o <<h>>) \o j
      BY <2>1, <2>2, <3>1 DEF PolicyTextSsh, WithJump
    <3>4. a \o <<h>> = b \o <<h>>
      <4>1. a \o <<h>> \in Seq(STRING) /\ b \o <<h>> \in Seq(STRING)
        BY <3>2
      <4>. QED
        BY <3>2, <3>3, <4>1, SameFront
    <3>5. a = b
      BY <3>2, <3>4, SameFront
    <3>. QED
      BY <3>1, <3>5
  <2>. QED
    BY <2>1, <2>2, <2>3 DEF SshSpawn
<1>3. ASSUME NEW c \in SshForwardCalls, NEW d \in SshForwardCalls,
             ConfirmOpKey(SshForward(c)) = ConfirmOpKey(SshForward(d))
      PROVE  SshForward(c).runs = SshForward(d).runs
  <2>1. c.spec = d.spec /\ SshTargetAudit(c.target) = SshTargetAudit(d.target)
    BY <1>3 DEF ConfirmOpKey, SshForward
  <2>2. Terms(c.target) = Terms(d.target)
    BY <2>1, SameTerms
  <2>. QED
    BY <2>1, <2>2 DEF SshForward
<1>. QED
  BY <1>1, <1>2, <1>3 DEF KeyDecides

\* The transfer tools.
LEMMA TransferKeys ==
  /\ KeyDecides({SshUpload(c) : c \in TransferCalls})
  /\ KeyDecides({SshDownload(c) : c \in TransferCalls})
<1>1. ASSUME NEW c \in TransferCalls, NEW d \in TransferCalls,
             ConfirmOpKey(SshUpload(c)) = ConfirmOpKey(SshUpload(d))
      PROVE  SshUpload(c).runs = SshUpload(d).runs
  <2>1. /\ c.local = d.local /\ c.remote = d.remote /\ c.recursive = d.recursive
        /\ SshTargetAudit(c.target) = SshTargetAudit(d.target)
    BY <1>1 DEF ConfirmOpKey, SshUpload
  <2>2. Terms(c.target) = Terms(d.target)
    BY <2>1, SameTerms
  <2>. QED
    BY <2>1, <2>2 DEF SshUpload
<1>2. ASSUME NEW c \in TransferCalls, NEW d \in TransferCalls,
             ConfirmOpKey(SshDownload(c)) = ConfirmOpKey(SshDownload(d))
      PROVE  SshDownload(c).runs = SshDownload(d).runs
  <2>1. /\ c.local = d.local /\ c.remote = d.remote /\ c.recursive = d.recursive
        /\ SshTargetAudit(c.target) = SshTargetAudit(d.target)
    BY <1>2 DEF ConfirmOpKey, SshDownload
  <2>2. Terms(c.target) = Terms(d.target)
    BY <2>1, SameTerms
  <2>. QED
    BY <2>1, <2>2 DEF SshDownload
<1>. QED
  BY <1>1, <1>2 DEF KeyDecides

\* The host-list tools.
LEMMA ListKeys ==
  /\ KeyDecides({SshFanout(c) : c \in SshFanoutCalls})
  /\ KeyDecides({SshCheck(c) : c \in SshCheckCalls})
  /\ KeyDecides({SshKeyscan(c) : c \in SshKeyscanCalls})
<1>1. ASSUME NEW c \in SshFanoutCalls, NEW d \in SshFanoutCalls,
             ConfirmOpKey(SshFanout(c)) = ConfirmOpKey(SshFanout(d))
      PROVE  SshFanout(c).runs = SshFanout(d).runs
  <2>1. c.command = d.command /\ c.hosts = d.hosts
    BY <1>1 DEF ConfirmOpKey, SshFanout
  <2>. QED
    BY <2>1, Zenon DEF SshFanout
<1>2. ASSUME NEW c \in SshCheckCalls, NEW d \in SshCheckCalls,
             ConfirmOpKey(SshCheck(c)) = ConfirmOpKey(SshCheck(d))
      PROVE  SshCheck(c).runs = SshCheck(d).runs
  <2>1. c.hosts = d.hosts
    BY <1>2 DEF ConfirmOpKey, SshCheck, PolicyTextHosts
  <2>. QED
    BY <2>1, Zenon DEF SshCheck
<1>3. ASSUME NEW c \in SshKeyscanCalls, NEW d \in SshKeyscanCalls,
             ConfirmOpKey(SshKeyscan(c)) = ConfirmOpKey(SshKeyscan(d))
      PROVE  SshKeyscan(c).runs = SshKeyscan(d).runs
  <2>1. c.hosts = d.hosts /\ c.port = d.port /\ c.key_types = d.key_types
    BY <1>3 DEF ConfirmOpKey, SshKeyscan
  <2>2. ValidScan(c) <=> ValidScan(d)
    BY <2>1 DEF ValidScan
  <2>. QED
    BY <2>1, <2>2, Zenon DEF SshKeyscan
<1>. QED
  BY <1>1, <1>2, <1>3 DEF KeyDecides

\* session_send; at a secret prompt the length and the policy text tell the data.
LEMMA SessionKeys == KeyDecides({SessionSend(c) : c \in SessionSendCalls})
<1>1. ASSUME NEW c \in SessionSendCalls, NEW d \in SessionSendCalls,
             ConfirmOpKey(SessionSend(c)) = ConfirmOpKey(SessionSend(d))
      PROVE  SessionSend(c).runs = SessionSend(d).runs
  <2>1. /\ c.session_id = d.session_id /\ c.enter = d.enter /\ c.shown = d.shown
        /\ (IF c.shown = "redacted" THEN [i \in DOMAIN c.data |-> "?"] ELSE c.data)
             = (IF d.shown = "redacted" THEN [i \in DOMAIN d.data |-> "?"] ELSE d.data)
        /\ c.pending \o c.data = d.pending \o d.data
    BY <1>1 DEF ConfirmOpKey, SessionSend, PolicyTextSessionSend
  <2>2. /\ c.data \in Seq(STRING) /\ d.data \in Seq(STRING)
        /\ c.pending \in Seq(STRING) /\ d.pending \in Seq(STRING)
    BY TextsAssumption DEF SessionSendCalls
  <2>3. DOMAIN c.data = DOMAIN d.data
    BY <2>1, Zenon
  <2>4. Len(c.data) = Len(d.data)
    BY <2>2, <2>3
  <2>5. PICK a, b, x, y : a = c.pending /\ b = d.pending /\ x = c.data /\ y = d.data
    OBVIOUS
  <2>6. x = y
    <3>1. /\ a \in Seq(STRING) /\ b \in Seq(STRING) /\ x \in Seq(STRING) /\ y \in Seq(STRING)
          /\ a \o x = b \o y /\ Len(x) = Len(y)
      BY <2>1, <2>2, <2>4, <2>5
    <3>2. \A p \in Seq(STRING) : \A q \in Seq(STRING) : \A u \in Seq(STRING) : \A v \in Seq(STRING) :
            p \o u = q \o v => (Len(u) = Len(v) => u = v)
      BY SameFront, Zenon
    <3>. QED
      BY <3>1, <3>2, Zenon
  <2>. QED
    BY <2>1, <2>5, <2>6 DEF SessionSend
<1>. QED
  BY <1>1 DEF KeyDecides

\* One key, one effect, for every tool.
LEMMA KeysDecide == EveryKeyDecides
<1>1. DOMAIN Surface = 1..12
  BY TwelveTools
<1>2. KeyDecides(Surface[1]) /\ KeyDecides(Surface[2]) /\ KeyDecides(Surface[3])
  BY TwelveTools, ShellKeys, Zenon
<1>3. KeyDecides(Surface[4]) /\ KeyDecides(Surface[5]) /\ KeyDecides(Surface[8])
  BY TwelveTools, SshKeys, Zenon
<1>4. KeyDecides(Surface[6]) /\ KeyDecides(Surface[7])
  BY TwelveTools, TransferKeys, Zenon
<1>5. KeyDecides(Surface[9]) /\ KeyDecides(Surface[10]) /\ KeyDecides(Surface[11])
  BY TwelveTools, ListKeys, Zenon
<1>6. KeyDecides(Surface[12])
  BY TwelveTools, SessionKeys, Zenon
<1>. QED
  BY <1>1, <1>2, <1>3, <1>4, <1>5, <1>6 DEF EveryKeyDecides

\* A spent confirmation releases the call that was challenged (ADR 0009,
\* server.py _confirm_op_key), whatever the calls say.
THEOREM KeysBind == Spec => []KeyBindsOperation
<1>1. KeyBindsOperation
  BY KeysDecide DEF KeyBindsOperation
<1>. QED
  BY <1>1, PTL

-----------------------------------------------------------------------------
(* The policy texts.                                                       *)

\* A sequence over a set is one over every larger set.
LEMMA WiderSeq ==
  ASSUME NEW S, NEW T, S \subseteq T, NEW s \in Seq(S)
  PROVE  s \in Seq(T)
OBVIOUS

\* The words of joined texts are the words of the texts.
LEMMA JoinedWords ==
  ASSUME NEW S, NEW T, NEW a \in Seq(S), NEW b \in Seq(T)
  PROVE  /\ a \o b \in Seq(S \cup T)
         /\ ToSet(a) \subseteq ToSet(a \o b) /\ ToSet(b) \subseteq ToSet(a \o b)
<1>. PICK U : U = S \cup T
  OBVIOUS
<1>0. a \in Seq(U) /\ b \in Seq(U)
  BY WiderSeq
<1>1. /\ a \o b \in Seq(U) /\ Len(a \o b) = Len(a) + Len(b)
      /\ Len(a) \in Nat /\ Len(b) \in Nat
  BY <1>0, ConcatProperties
<1>2. \A i \in 1..Len(a) : i \in 1..Len(a \o b) /\ (a \o b)[i] = a[i]
  BY <1>0, <1>1, ConcatProperties
<1>3. \A i \in 1..Len(b) : /\ Len(a) + i \in 1..Len(a \o b)
                            /\ (a \o b)[Len(a) + i] = b[i]
  BY <1>0, <1>1
<1>4. DOMAIN a = 1..Len(a) /\ DOMAIN b = 1..Len(b) /\ DOMAIN (a \o b) = 1..Len(a \o b)
  BY <1>0, <1>1
<1>5. ToSet(a) \subseteq ToSet(a \o b)
  BY <1>2, <1>4 DEF ToSet
<1>6. ToSet(b) \subseteq ToSet(a \o b)
  BY <1>3, <1>4 DEF ToSet
<1>. QED
  BY <1>1, <1>5, <1>6

\* The same of three texts.
LEMMA ThreeTexts ==
  ASSUME NEW S, NEW T, NEW U, NEW a \in Seq(S), NEW b \in Seq(T), NEW c \in Seq(U)
  PROVE  Words({a, b, c}) \subseteq ToSet((a \o b) \o c)
<1>1. /\ a \o b \in Seq(S \cup T)
      /\ ToSet(a) \subseteq ToSet(a \o b) /\ ToSet(b) \subseteq ToSet(a \o b)
  BY JoinedWords
<1>2. /\ ToSet(a \o b) \subseteq ToSet((a \o b) \o c)
      /\ ToSet(c) \subseteq ToSet((a \o b) \o c)
  BY <1>1, JoinedWords
<1>. QED
  BY <1>1, <1>2, Zenon DEF Words

\* A text of one line.
LEMMA OneText == ASSUME NEW w PROVE <<w>> \in Seq({w})
OBVIOUS

\* The shell tools.
LEMMA ShellCovered ==
  /\ Covered({ShellExec(c) : c \in ShellExecCalls})
  /\ Covered({ShellScript(c) : c \in ShellScriptCalls})
  /\ Covered({ShellSpawn(c) : c \in ShellSpawnCalls})
<1>1. ASSUME NEW c \in ShellExecCalls
      PROVE  ShellExec(c).sees \subseteq ToSet(ShellExec(c).probe)
  <2>1. c.command \in Seq(STRING) /\ c.stdin \in Seq(STRING) /\ c.env_json \in Seq(STRING)
    BY TextsAssumption DEF ShellExecCalls
  <2>2. Words({c.command, c.stdin, c.env_json}) \subseteq ToSet((c.command \o c.stdin) \o c.env_json)
    BY <2>1, ThreeTexts
  <2>. QED
    BY <2>2 DEF ShellExec, PolicyTextShell
<1>2. \A t, e : Words({t, e}) \subseteq Words({t, <<>>, e})
  BY Zenon DEF Words
<1>3. <<>> \in Seq(STRING)
  OBVIOUS
<1>4. ASSUME NEW c \in ShellScriptCalls
      PROVE  ShellScript(c).sees \subseteq ToSet(ShellScript(c).probe)
  <2>1. c.script \in Seq(STRING) /\ c.env_json \in Seq(STRING)
    BY TextsAssumption DEF ShellScriptCalls
  <2>2. Words({c.script, <<>>, c.env_json}) \subseteq ToSet((c.script \o <<>>) \o c.env_json)
    BY <1>3, <2>1, ThreeTexts
  <2>. QED
    BY <1>2, <2>2 DEF ShellScript, PolicyTextShell
<1>5. ASSUME NEW c \in ShellSpawnCalls
      PROVE  ShellSpawn(c).sees \subseteq ToSet(ShellSpawn(c).probe)
  <2>1. c.command \in Seq(STRING) /\ c.env_json \in Seq(STRING)
    BY TextsAssumption DEF ShellSpawnCalls
  <2>2. Words({c.command, <<>>, c.env_json}) \subseteq ToSet((c.command \o <<>>) \o c.env_json)
    BY <1>3, <2>1, ThreeTexts
  <2>. QED
    BY <1>2, <2>2 DEF ShellSpawn, PolicyTextShell
<1>. QED
  BY <1>1, <1>4, <1>5 DEF Covered

\* The SSH command tools: the command, the host and the jump chain.
LEMMA SshCovered ==
  /\ Covered({SshExec(c) : c \in SshExecCalls})
  /\ Covered({SshSpawn(c) : c \in SshSpawnCalls})
  /\ Covered({SshForward(c) : c \in SshForwardCalls})
<1>1. ASSUME NEW t \in Targets
      PROVE  <<t.host>> \in Seq({t.host}) /\ t.jump \in Seq(STRING)
  BY TextsAssumption, OneText
<1>2. ASSUME NEW t \in Targets, NEW text \in Seq(STRING)
      PROVE  Words({text, <<t.host>>, t.jump}) \subseteq ToSet(PolicyTextSsh(t.host, text, t.jump))
  BY <1>1, ThreeTexts DEF PolicyTextSsh, WithJump
<1>3. ASSUME NEW c \in SshExecCalls
      PROVE  SshExec(c).sees \subseteq ToSet(SshExec(c).probe)
  <2>1. c.target \in Targets /\ c.command \in Seq(STRING)
    BY TextsAssumption DEF SshExecCalls
  <2>. QED
    BY <1>2, <2>1 DEF SshExec
<1>4. ASSUME NEW c \in SshSpawnCalls
      PROVE  SshSpawn(c).sees \subseteq ToSet(SshSpawn(c).probe)
  <2>1. c.target \in Targets /\ c.command \in Seq(STRING)
    BY TextsAssumption DEF SshSpawnCalls
  <2>. QED
    BY <1>2, <2>1 DEF SshSpawn
<1>5. ASSUME NEW c \in SshForwardCalls
      PROVE  SshForward(c).sees \subseteq ToSet(SshForward(c).probe)
  <2>1. c.target \in Targets /\ c.spec \in Seq(STRING)
    BY TextsAssumption DEF SshForwardCalls
  <2>2. PICK h, j, s : h = <<c.target.host>> /\ j = c.target.jump /\ s = c.spec
    OBVIOUS
  <2>3. h \in Seq({c.target.host}) /\ j \in Seq(STRING) /\ s \in Seq(STRING)
    BY <1>1, <2>1, <2>2
  <2>4. PICK f : f = <<"forward">> /\ f \in Seq({"forward"})
    BY OneText
  <2>5. /\ f \o s \in Seq({"forward"} \cup STRING) /\ ToSet(s) \subseteq ToSet(f \o s)
        /\ Words({f \o s, j, h}) \subseteq ToSet(((f \o s) \o j) \o h)
    <3>1. f \o s \in Seq({"forward"} \cup STRING) /\ ToSet(s) \subseteq ToSet(f \o s)
      BY <2>3, <2>4, JoinedWords
    <3>2. Words({f \o s, j, h}) \subseteq ToSet(((f \o s) \o j) \o h)
      BY <2>3, <3>1, ThreeTexts
    <3>. QED
      BY <3>1, <3>2
  <2>6. Words({s, h, j}) \subseteq Words({f \o s, j, h})
    BY <2>5, Zenon DEF Words
  <2>. QED
    BY <2>2, <2>4, <2>5, <2>6 DEF SshForward, PolicyTextSshForward, WithJump
<1>. QED
  BY <1>3, <1>4, <1>5 DEF Covered

\* The transfer tools: both paths, the host and the jump chain.
LEMMA TransferCovered ==
  /\ Covered({SshUpload(c) : c \in TransferCalls})
  /\ Covered({SshDownload(c) : c \in TransferCalls})
<1>1. ASSUME NEW v, NEW x, NEW y, NEW z, NEW f, NEW g, f = <<x, y, z>>, g = <<v, x, y, z>>
      PROVE  ToSet(f) = {x, y, z} /\ ToSet(g) = {v, x, y, z}
  <2>1. /\ DOMAIN f = {1, 2, 3} /\ f[1] = x /\ f[2] = y /\ f[3] = z
        /\ DOMAIN g = {1, 2, 3, 4} /\ g[1] = v /\ g[2] = x /\ g[3] = y /\ g[4] = z
    BY <1>1
  <2>. QED
    BY <2>1, Zenon DEF ToSet
<1>2. ASSUME NEW v, NEW x, NEW y, NEW z, NEW j \in Seq(STRING)
      PROVE  /\ {x, y, z} \subseteq ToSet(<<v, x, y, z>> \o j)
             /\ ToSet(j) \subseteq ToSet(<<v, x, y, z>> \o j)
  <2>1. <<v, x, y, z>> \in Seq({v, x, y, z})
    OBVIOUS
  <2>0. PICK e, f : e = <<x, y, z>> /\ f = <<v, x, y, z>>
    OBVIOUS
  <2>2. f \in Seq({v, x, y, z}) /\ ToSet(f) = {v, x, y, z}
    BY <1>1, <2>0, <2>1
  <2>3. ToSet(f) \subseteq ToSet(f \o j) /\ ToSet(j) \subseteq ToSet(f \o j)
    BY <2>2, JoinedWords
  <2>. QED
    BY <2>0, <2>2, <2>3
<1>3. ASSUME NEW c \in TransferCalls
      PROVE  /\ SshUpload(c).sees \subseteq ToSet(SshUpload(c).probe)
             /\ SshDownload(c).sees \subseteq ToSet(SshDownload(c).probe)
  <2>1. PICK x, y, z, j : /\ x = c.local /\ y = c.remote /\ z = c.target.host
                          /\ j = c.target.jump
    OBVIOUS
  <2>2. j \in Seq(STRING)
    BY <2>1, TextsAssumption DEF TransferCalls
  <2>3. Words({<<x, y, z>>, j}) = {x, y, z} \cup ToSet(j)
    <3>0. PICK f, g : f = <<x, y, z>> /\ g = <<0, x, y, z>>
      OBVIOUS
    <3>1. ToSet(f) = {x, y, z}
      BY <1>1, <3>0
    <3>2. Words({f, j}) = ToSet(f) \cup ToSet(j)
      BY Zenon DEF Words
    <3>. QED
      BY <3>0, <3>1, <3>2
  <2>4. Words({<<x, y, z>>, j}) \subseteq ToSet(<<"upload", x, z, y>> \o j)
    BY <1>2, <2>2, <2>3
  <2>5. Words({<<x, y, z>>, j}) \subseteq ToSet(<<"download", z, y, x>> \o j)
    BY <1>2, <2>2, <2>3
  <2>. QED
    BY <2>1, <2>4, <2>5
    DEF SshUpload, SshDownload, PolicyTextSshUpload, PolicyTextSshDownload, WithJump
<1>. QED
  BY <1>3 DEF Covered

\* The host-list tools.
LEMMA ListCovered ==
  /\ Covered({SshFanout(c) : c \in SshFanoutCalls})
  /\ Covered({SshCheck(c) : c \in SshCheckCalls})
  /\ Covered({SshKeyscan(c) : c \in SshKeyscanCalls})
<1>1. ASSUME NEW c \in SshFanoutCalls
      PROVE  SshFanout(c).sees \subseteq ToSet(SshFanout(c).probe)
  <2>1. c.command \in Seq(STRING) /\ c.hosts \in Seq(STRING)
    BY TextsAssumption DEF SshFanoutCalls
  <2>2. /\ ToSet(c.command) \subseteq ToSet(c.command \o c.hosts)
        /\ ToSet(c.hosts) \subseteq ToSet(c.command \o c.hosts)
    BY <2>1, JoinedWords
  <2>3. Words({c.command, c.hosts}) \subseteq ToSet(c.command \o c.hosts)
    BY <2>2, Zenon DEF Words
  <2>. QED
    BY <2>3 DEF SshFanout, PolicyTextSshFanout
<1>2. ASSUME NEW c \in SshCheckCalls
      PROVE  SshCheck(c).sees \subseteq ToSet(SshCheck(c).probe)
  BY DEF SshCheck, PolicyTextHosts
<1>3. ASSUME NEW c \in SshKeyscanCalls
      PROVE  SshKeyscan(c).sees \subseteq ToSet(SshKeyscan(c).probe)
  BY DEF SshKeyscan, PolicyTextHosts
<1>. QED
  BY <1>1, <1>2, <1>3 DEF Covered

\* session_send: the data ends the line.
LEMMA SessionCovered == Covered({SessionSend(c) : c \in SessionSendCalls})
<1>1. ASSUME NEW c \in SessionSendCalls
      PROVE  SessionSend(c).sees \subseteq ToSet(SessionSend(c).probe)
  <2>1. c.data \in Seq(STRING) /\ c.pending \in Seq(STRING)
    BY TextsAssumption DEF SessionSendCalls
  <2>2. ToSet(c.data) \subseteq ToSet(c.pending \o c.data)
    BY <2>1, JoinedWords
  <2>. QED
    BY <2>2 DEF SessionSend, PolicyTextSessionSend
<1>. QED
  BY <1>1 DEF Covered

\* Every word of the caller that a tool's executor gets is in its policy text.
LEMMA WordsJudged == ProbeCovers
<1>1. DOMAIN Surface = 1..12
  BY TwelveTools
<1>2. Covered(Surface[1]) /\ Covered(Surface[2]) /\ Covered(Surface[3])
  BY TwelveTools, ShellCovered, Zenon
<1>3. Covered(Surface[4]) /\ Covered(Surface[5]) /\ Covered(Surface[8])
  BY TwelveTools, SshCovered, Zenon
<1>4. Covered(Surface[6]) /\ Covered(Surface[7])
  BY TwelveTools, TransferCovered, Zenon
<1>5. Covered(Surface[9]) /\ Covered(Surface[10]) /\ Covered(Surface[11])
  BY TwelveTools, ListCovered, Zenon
<1>6. Covered(Surface[12])
  BY TwelveTools, SessionCovered, Zenon
<1>. QED
  BY <1>1, <1>2, <1>3, <1>4, <1>5, <1>6 DEF ProbeCovers

-----------------------------------------------------------------------------
(* The line that is being typed.                                           *)

\* A non-empty set of numbers up to n has a greatest element, and it is Max.
LEMMA MaxIsGreatest ==
  ASSUME NEW n \in Nat, NEW T \in SUBSET (0..n), T # {}
  PROVE  Max(T) \in T /\ \A x \in T : x <= Max(T)
<1>1. PICK D : D = {n - x : x \in T}
  OBVIOUS
<1>2. D \subseteq Nat /\ D # {}
  <2>1. \A x \in T : x \in 0..n /\ n - x \in Nat
    OBVIOUS
  <2>. QED
    BY <1>1, <2>1
<1>3. PICK d \in D : \A e \in D : d <= e
  BY <1>2, NatHasLeast
<1>4. PICK g \in T : d = n - g
  BY <1>1, <1>3
<1>5. \A x \in T : n - g <= n - x
  BY <1>1, <1>3, <1>4
<1>6. \A x \in T : g >= x
  BY <1>5
<1>7. Max(T) \in T /\ \A x \in T : Max(T) >= x
  BY <1>6, Zenon DEF Max
<1>. QED
  BY <1>7

\* The last reset, if there is one, is where the line begins.
CutAt(s, m) ==
  /\ m \in 0..Len(s)
  /\ m # 0 => s[m] \in LineReset
  /\ \A i \in 1..Len(s) : i > m => s[i] \notin LineReset

\* There is a last reset, or none.
LEMMA CutFound ==
  ASSUME NEW S, NEW s \in Seq(S)
  PROVE  \E m : CutAt(s, m)
<1>1. PICK T : T = {0} \cup Resets(s)
  OBVIOUS
<1>2. T \in SUBSET (0..Len(s)) /\ T # {} /\ Len(s) \in Nat
  BY <1>1 DEF Resets
<1>3. PICK m : m \in T /\ \A x \in T : x <= m
  BY <1>2, MaxIsGreatest
<1>4. \A i \in 1..Len(s) : i > m => i \notin T
  BY <1>2, <1>3
<1>. QED
  BY <1>1, <1>2, <1>3, <1>4 DEF CutAt, Resets

\* The line is what stands after it.
LEMMA CutIsStart ==
  ASSUME NEW S, NEW s \in Seq(S), NEW m, CutAt(s, m)
  PROVE  SinceReset(s) = SubSeq(s, m + 1, Len(s))
<1>1. PICK T : T = {0} \cup Resets(s)
  OBVIOUS
<1>2. T \in SUBSET (0..Len(s)) /\ T # {} /\ Len(s) \in Nat
  BY <1>1 DEF Resets
<1>3. Max(T) \in T /\ \A x \in T : x <= Max(T)
  BY <1>2, MaxIsGreatest
<1>4. m \in T /\ \A x \in T : x <= m
  BY <1>1, <1>2 DEF CutAt, Resets
<1>5. Max(T) = m
  <2>1. PICK g : g = Max(T)
    OBVIOUS
  <2>2. g \in Int /\ m \in Int /\ g <= m /\ m <= g
    <3>1. \A x \in T : x \in Int
      BY <1>2
    <3>. QED
      BY <1>3, <1>4, <2>1, <3>1
  <2>. QED
    BY <2>1, <2>2
<1>. QED
  BY <1>1, <1>5 DEF SinceReset

\* What stands after the first m elements.
LEMMA RestFacts ==
  ASSUME NEW S, NEW s \in Seq(S), NEW m \in 0..Len(s)
  PROVE  /\ SubSeq(s, m + 1, Len(s)) \in Seq(S)
         /\ Len(SubSeq(s, m + 1, Len(s))) = Len(s) - m
         /\ \A i \in 1..Len(s) - m : SubSeq(s, m + 1, Len(s))[i] = s[m + i]
<1>1. m + 1 \in Int /\ Len(s) \in Int /\ \A i \in (m + 1)..Len(s) : s[i] \in S
  OBVIOUS
<1>2. /\ SubSeq(s, m + 1, Len(s)) \in Seq(S)
      /\ Len(SubSeq(s, m + 1, Len(s)))
           = IF m + 1 <= Len(s) THEN Len(s) - (m + 1) + 1 ELSE 0
      /\ \A i \in 1..Len(s) - (m + 1) + 1 : SubSeq(s, m + 1, Len(s))[i] = s[(m + 1) + i - 1]
  BY <1>1, SubSeqProperties
<1>. QED
  BY <1>1, <1>2

\* The end that is kept of a line.
LEMMA EndingFacts ==
  ASSUME NEW S, NEW l \in Seq(S)
  PROVE  \E k \in 0..Len(l) : /\ k = IF Len(l) <= PendingMax THEN 0 ELSE Len(l) - PendingMax
                              /\ Ending(l) = SubSeq(l, k + 1, Len(l))
<1>1. PICK k : k = IF Len(l) <= PendingMax THEN 0 ELSE Len(l) - PendingMax
  OBVIOUS
<1>2. k \in 0..Len(l) /\ Len(l) \in Nat /\ PendingMax \in Nat /\ PendingMax > 0
  BY <1>1, TypedAssumption
<1>3. PICK T : T = {1, Len(l) - PendingMax + 1}
  OBVIOUS
<1>4. k + 1 \in T /\ \A x \in T : k + 1 >= x
  BY <1>1, <1>2, <1>3
<1>5. Max(T) \in T /\ \A x \in T : Max(T) >= x
  BY <1>4, Zenon DEF Max
<1>6. Max(T) = k + 1
  BY <1>2, <1>3, <1>4, <1>5
<1>. QED
  BY <1>1, <1>2, <1>3, <1>6 DEF Ending

\* The line of joined texts begins in the second text if that has a reset.
LEMMA SinceJoined ==
  ASSUME NEW S, NEW h \in Seq(S), NEW q \in Seq(S)
  PROVE  /\ SinceReset(h) \in Seq(S)
         /\ SinceReset(h \o q) = IF Resets(q) = {} THEN SinceReset(h) \o q ELSE SinceReset(q)
<1>1. PICK m : CutAt(h, m)
  BY CutFound
<1>2. PICK k : CutAt(q, k)
  BY CutFound
<1>3. /\ h \o q \in Seq(S) /\ Len(h \o q) = Len(h) + Len(q)
      /\ Len(h) \in Nat /\ Len(q) \in Nat /\ m \in 0..Len(h) /\ k \in 0..Len(q)
      /\ \A i \in 1..Len(h) + Len(q) :
           (h \o q)[i] = IF i <= Len(h) THEN h[i] ELSE q[i - Len(h)]
  BY <1>1, <1>2, ConcatProperties DEF CutAt
<1>4. SinceReset(h) = SubSeq(h, m + 1, Len(h)) /\ SinceReset(h) \in Seq(S)
  BY <1>1, <1>3, CutIsStart, RestFacts
<1>5. CASE Resets(q) = {}
  <2>1. \A i \in 1..Len(q) : q[i] \notin LineReset
    BY <1>5 DEF Resets
  <2>2. CutAt(h \o q, m)
    BY <1>1, <1>3, <2>1 DEF CutAt
  <2>3. SinceReset(h \o q) = SubSeq(h \o q, m + 1, Len(h) + Len(q))
    BY <1>3, <2>2, CutIsStart
  <2>4. SubSeq(h \o q, m + 1, Len(h) + Len(q)) = SubSeq(h, m + 1, Len(h)) \o q
    <3>1. PICK e, f : /\ e = SubSeq(h, m + 1, Len(h))
                      /\ f = SubSeq(h \o q, m + 1, Len(h \o q))
      OBVIOUS
    <3>2. /\ e \in Seq(S) /\ Len(e) = Len(h) - m
          /\ \A i \in 1..Len(h) - m : e[i] = h[m + i]
      BY <1>3, <3>1, RestFacts
    <3>3. m \in 0..Len(h \o q)
      BY <1>3
    <3>4. /\ f \in Seq(S) /\ Len(f) = Len(h \o q) - m
          /\ \A i \in 1..Len(h \o q) - m : f[i] = (h \o q)[m + i]
      BY <1>3, <3>1, <3>3, RestFacts
    <3>5. /\ e \o q \in Seq(S) /\ Len(e \o q) = Len(e) + Len(q)
          /\ \A i \in 1..Len(e) + Len(q) :
               (e \o q)[i] = IF i <= Len(e) THEN e[i] ELSE q[i - Len(e)]
      BY <3>2, ConcatProperties
    <3>6. Len(f) = Len(e \o q)
      BY <1>3, <3>2, <3>4, <3>5
    <3>7. ASSUME NEW i \in 1..Len(f)
          PROVE  f[i] = (e \o q)[i]
      <4>1. /\ i \in 1..Len(h \o q) - m /\ i \in 1..Len(e) + Len(q)
            /\ m + i \in 1..Len(h) + Len(q)
            /\ f[i] = (h \o q)[m + i]
        BY <1>3, <3>2, <3>4
      <4>2. CASE i <= Len(h) - m
        BY <1>3, <3>2, <3>5, <4>1, <4>2
      <4>3. CASE ~(i <= Len(h) - m)
        <5>1. (e \o q)[i] = q[i - Len(e)] /\ i - Len(e) = (m + i) - Len(h)
          BY <1>3, <3>2, <3>5, <4>1, <4>3
        <5>2. (h \o q)[m + i] = q[(m + i) - Len(h)]
          BY <1>3, <4>1, <4>3
        <5>. QED
          BY <4>1, <5>1, <5>2
      <4>. QED
        BY <4>2, <4>3
    <3>8. f = e \o q
      BY <3>4, <3>5, <3>6, <3>7, SeqEqual
    <3>. QED
      BY <1>3, <3>1, <3>8
  <2>. QED
    BY <1>4, <1>5, <2>3, <2>4
<1>6. CASE Resets(q) # {}
  <2>1. k # 0
    BY <1>2, <1>6 DEF CutAt, Resets
  <2>2. CutAt(h \o q, Len(h) + k)
    BY <1>2, <1>3, <2>1 DEF CutAt
  <2>3. SinceReset(h \o q) = SubSeq(h \o q, (Len(h) + k) + 1, Len(h) + Len(q))
    BY <1>3, <2>2, CutIsStart
  <2>4. SinceReset(q) = SubSeq(q, k + 1, Len(q))
    BY <1>2, CutIsStart
  <2>5. SubSeq(h \o q, (Len(h) + k) + 1, Len(h) + Len(q)) = SubSeq(q, k + 1, Len(q))
    BY <1>3
  <2>. QED
    BY <1>4, <1>6, <2>3, <2>4, <2>5
<1>. QED
  BY <1>5, <1>6


\* Keeping the end of a line first does not change the end that is kept of it
\* and what is typed after it.
LEMMA EndingJoined ==
  ASSUME NEW S, NEW l \in Seq(S), NEW q \in Seq(S)
  PROVE  Ending(Ending(l) \o q) = Ending(l \o q)
<1>1. PICK k \in 0..Len(l) : /\ k = IF Len(l) <= PendingMax THEN 0 ELSE Len(l) - PendingMax
                             /\ Ending(l) = SubSeq(l, k + 1, Len(l))
  BY EndingFacts
<1>2. PICK e, f, g : e = Ending(l) /\ f = e \o q /\ g = l \o q
  OBVIOUS
<1>3. /\ e \in Seq(S) /\ Len(e) = Len(l) - k
      /\ \A i \in 1..Len(l) - k : e[i] = l[k + i]
  <2>1. e = SubSeq(l, k + 1, Len(l))
    BY <1>1, <1>2
  <2>. QED
    BY <2>1, RestFacts
<1>4. /\ f \in Seq(S) /\ Len(f) = Len(e) + Len(q)
      /\ \A i \in 1..Len(e) + Len(q) : f[i] = IF i <= Len(e) THEN e[i] ELSE q[i - Len(e)]
  BY <1>2, <1>3, ConcatProperties
<1>5. /\ g \in Seq(S) /\ Len(g) = Len(l) + Len(q)
      /\ \A i \in 1..Len(l) + Len(q) : g[i] = IF i <= Len(l) THEN l[i] ELSE q[i - Len(l)]
  BY <1>2, ConcatProperties
<1>6. PICK a \in 0..Len(f) : /\ a = IF Len(f) <= PendingMax THEN 0 ELSE Len(f) - PendingMax
                             /\ Ending(f) = SubSeq(f, a + 1, Len(f))
  BY <1>4, EndingFacts
<1>7. PICK b \in 0..Len(g) : /\ b = IF Len(g) <= PendingMax THEN 0 ELSE Len(g) - PendingMax
                             /\ Ending(g) = SubSeq(g, b + 1, Len(g))
  BY <1>5, EndingFacts
<1>8. PICK x, y : x = Ending(f) /\ y = Ending(g)
  OBVIOUS
<1>9. /\ x \in Seq(S) /\ Len(x) = Len(f) - a /\ \A i \in 1..Len(f) - a : x[i] = f[a + i]
  BY <1>4, <1>6, <1>8, RestFacts, SMTT(30)
<1>10. /\ y \in Seq(S) /\ Len(y) = Len(g) - b /\ \A i \in 1..Len(g) - b : y[i] = g[b + i]
  BY <1>5, <1>7, <1>8, RestFacts, SMTT(30)
<1>11. PICK n \in Nat, w \in Nat, p \in Nat :
         n = Len(l) /\ w = Len(q) /\ p = PendingMax
  BY TypedAssumption
<1>12. /\ Len(e) = n - k /\ Len(f) = (n - k) + w /\ Len(g) = n + w
       /\ k = (IF n <= p THEN 0 ELSE n - p)
       /\ a = (IF (n - k) + w <= p THEN 0 ELSE ((n - k) + w) - p)
       /\ b = (IF n + w <= p THEN 0 ELSE (n + w) - p)
  BY <1>1, <1>3, <1>4, <1>5, <1>6, <1>7, <1>11
\* The offset into the whole line is that into the kept line and k more.
<1>13. b = k + a /\ k \in 0..n /\ a \in 0..((n - k) + w)
  BY <1>12
<1>14. Len(x) = ((n - k) + w) - a /\ Len(y) = Len(x)
  <2>1. Len(x) = ((n - k) + w) - a
    BY <1>9, <1>12
  <2>2. Len(y) = (n + w) - b
    BY <1>10, <1>12
  <2>3. ((n - k) + w) - a = (n + w) - b
    BY <1>13
  <2>. QED
    BY <2>1, <2>2, <2>3
<1>15. ASSUME NEW i \in 1..Len(x)
       PROVE  x[i] = y[i]
  <2>1. /\ a + i \in 1..((n - k) + w) /\ b + i \in 1..(n + w) /\ b + i = k + (a + i)
    BY <1>13, <1>14
  <2>2. x[i] = f[a + i] /\ y[i] = g[b + i]
    BY <1>9, <1>10, <1>14
  <2>3. CASE a + i <= n - k
    <3>1. b + i <= n /\ a + i \in 1..(n - k)
      BY <1>13, <2>1, <2>3
    <3>2. f[a + i] = e[a + i] /\ g[b + i] = l[b + i]
      BY <1>4, <1>5, <1>11, <1>12, <2>1, <2>3, <3>1
    <3>3. e[a + i] = l[k + (a + i)]
      BY <1>3, <1>11, <3>1
    <3>. QED
      BY <2>1, <2>2, <3>2, <3>3
  <2>4. CASE ~(a + i <= n - k)
    <3>1. ~(b + i <= n) /\ (b + i) - n = (a + i) - (n - k)
      BY <1>13, <2>1, <2>4
    <3>2. f[a + i] = q[(a + i) - (n - k)]
      <4>1. \A j \in 1..((n - k) + w) : f[j] = IF j <= n - k THEN e[j] ELSE q[j - (n - k)]
        BY <1>4, <1>11, <1>12
      <4>. QED
        BY <2>1, <2>4, <4>1
    <3>3. g[b + i] = q[(b + i) - n]
      <4>1. \A j \in 1..(n + w) : g[j] = IF j <= n THEN l[j] ELSE q[j - n]
        BY <1>5, <1>11
      <4>. QED
        BY <2>1, <3>1, <4>1
    <3>. QED
      BY <2>2, <3>1, <3>2, <3>3
  <2>. QED
    BY <2>3, <2>4
<1>. QED
  BY <1>2, <1>8, <1>9, <1>10, <1>14, <1>15, SeqEqual


\* A text holds a line that it agrees with from some place on.
LEMMA WithinAt ==
  ASSUME NEW S, NEW text \in Seq(S), NEW line \in Seq(S), NEW o \in 0..(Len(text) - Len(line)),
         \A x \in 1..Len(line) : text[o + x] = line[x]
  PROVE  Within(line, text)
<1>0. PICK n \in Nat : n = Len(line)
  OBVIOUS
<1>1. o \in Nat /\ Len(text) \in Nat /\ o + n <= Len(text)
  BY <1>0
<1>2. PICK m \in Int, e \in Int : m = o + 1 /\ e = o + n
  BY <1>1
<1>3. \A x \in m..e : text[x] \in S
  BY <1>1, <1>2
<1>4. /\ SubSeq(text, m, e) \in Seq(S)
      /\ Len(SubSeq(text, m, e)) = IF m <= e THEN e - m + 1 ELSE 0
      /\ \A x \in 1..(e - m + 1) : SubSeq(text, m, e)[x] = text[m + x - 1]
  BY <1>3, SubSeqProperties
<1>5. /\ Len(SubSeq(text, m, e)) = n
      /\ \A x \in 1..n : SubSeq(text, m, e)[x] = text[o + x]
  BY <1>1, <1>2, <1>4
<1>6. SubSeq(text, o + 1, o + n) = line
  BY <1>0, <1>2, <1>4, <1>5, SeqEqual, SMTT(30)
<1>. QED
  BY <1>0, <1>6 DEF Within

\* What session_send keeps of the line is the end of the line that stands in the
\* terminal, and a line that is handed to the shell was in the probe whole.
LEMMA OneSend ==
  ASSUME NEW h \in Histories, NEW c \in Sends
  PROVE  LET after == SendLine(Kept(h), c) IN
         /\ after.pending = Kept(after.typed).pending
         /\ \A line \in Submitted(after.typed, Len(h)) :
              Len(line) <= PendingMax => Within(line, after.probe)
<1>1. PICK S, p, d : S = STRING \cup {"enter"} /\ p = Payload(c) /\ d = c.data
  OBVIOUS
<1>2. h \in Seq(S) /\ d \in Seq(S)
  <2>1. h \in Seq(STRING) /\ d \in Seq(STRING) /\ STRING \subseteq S
    BY <1>1, TypedAssumption DEF Sends
  <2>. QED
    BY <2>1, WiderSeq
<1>3. /\ p \in Seq(S) /\ Len(d) <= Len(p) /\ Len(p) <= Len(d) + 1
      /\ \A i \in 1..Len(d) : p[i] = d[i]
  BY <1>1, <1>2 DEF Payload
<1>4. /\ SendLine(Kept(h), c).pending = AdvanceLine(Ending(SinceReset(h)), p)
      /\ SendLine(Kept(h), c).probe = Ending(SinceReset(h)) \o d
      /\ SendLine(Kept(h), c).typed = h \o p
  BY <1>1 DEF SendLine, Kept, PolicyTextSessionSend
<1>5. SinceReset(h) \in Seq(S)
  BY <1>2, SinceJoined
<1>6. AdvanceLine(Ending(SinceReset(h)), p) = Ending(SinceReset(h \o p))
  <2>1. SinceReset(h \o p) = IF Resets(p) = {} THEN SinceReset(h) \o p ELSE SinceReset(p)
    BY <1>2, <1>3, SinceJoined
  <2>2. Ending(Ending(SinceReset(h)) \o p) = Ending(SinceReset(h) \o p)
    BY <1>3, <1>5, EndingJoined
  <2>. QED
    BY <2>1, <2>2 DEF AdvanceLine
<1>7. ASSUME NEW line \in Submitted(h \o p, Len(h)), Len(line) <= PendingMax
      PROVE  Within(line, Ending(SinceReset(h)) \o d)
  <2>1. PICK i \in (Len(h) + 1)..Len(h \o p) : line = SinceReset(SubSeq(h \o p, 1, i - 1))
    BY <1>7 DEF Submitted
  <2>2. PICK j, q, e : j = i - Len(h) /\ q = SubSeq(p, 1, j - 1) /\ e = SinceReset(h)
    OBVIOUS
  <2>3. /\ Len(h) \in Nat /\ Len(p) \in Nat /\ Len(d) \in Nat
        /\ Len(h \o p) = Len(h) + Len(p)
        /\ j \in 1..Len(p) /\ i - 1 = Len(h) + (j - 1) /\ j - 1 \in 0..Len(d)
    BY <1>2, <1>3, <2>1, <2>2
  \* What was typed before this "enter" are the first j - 1 elements of the data.
  <2>4. /\ q \in Seq(S) /\ Len(q) = j - 1
        /\ \A x \in 1..(j - 1) : q[x] = d[x]
    <3>1. \A x \in 1..(j - 1) : p[x] \in S /\ p[x] = d[x]
      BY <1>3, <2>3
    <3>2. 1 \in Int /\ j - 1 \in Int
      BY <2>3
    <3>3. /\ SubSeq(p, 1, j - 1) \in Seq(S)
          /\ Len(SubSeq(p, 1, j - 1)) = IF 1 <= j - 1 THEN (j - 1) - 1 + 1 ELSE 0
          /\ \A x \in 1..((j - 1) - 1 + 1) : SubSeq(p, 1, j - 1)[x] = p[1 + x - 1]
      BY <3>1, <3>2, SubSeqProperties
    <3>. QED
      BY <2>2, <2>3, <3>1, <3>3
  <2>5. SubSeq(h \o p, 1, i - 1) = h \o q
    <3>1. PICK f, g : f = SubSeq(h \o p, 1, i - 1) /\ g = h \o q
      OBVIOUS
    <3>2. /\ h \o p \in Seq(S)
          /\ \A x \in 1..Len(h) + Len(p) : (h \o p)[x] = IF x <= Len(h) THEN h[x] ELSE p[x - Len(h)]
      BY <1>2, <1>3, ConcatProperties
    <3>3. /\ g \in Seq(S) /\ Len(g) = Len(h) + Len(q)
          /\ \A x \in 1..Len(h) + Len(q) : g[x] = IF x <= Len(h) THEN h[x] ELSE q[x - Len(h)]
      BY <1>2, <2>4, <3>1, ConcatProperties
    <3>4. \A x \in 1..(i - 1) : (h \o p)[x] \in S
      BY <2>3, <3>2
    <3>5. /\ f \in Seq(S) /\ Len(f) = i - 1 /\ \A x \in 1..(i - 1) : f[x] = (h \o p)[x]
      <4>1. 1 \in Int /\ i - 1 \in Int /\ i - 1 >= 0
        BY <2>3
      <4>2. /\ f \in Seq(S)
            /\ Len(f) = IF 1 <= i - 1 THEN (i - 1) - 1 + 1 ELSE 0
            /\ \A x \in 1..((i - 1) - 1 + 1) : f[x] = (h \o p)[1 + x - 1]
        BY <3>1, <3>4, <4>1, SubSeqProperties
      <4>. QED
        BY <4>1, <4>2
    <3>6. ASSUME NEW x \in 1..Len(f)
          PROVE  f[x] = g[x]
      <4>1. /\ x \in 1..(Len(h) + (j - 1)) /\ x \in 1..Len(h) + Len(p)
            /\ x \in 1..Len(h) + Len(q)
        BY <1>3, <2>3, <2>4, <3>5, SMTT(30)
      <4>2. f[x] = (h \o p)[x]
        BY <2>3, <3>5
      <4>3. CASE x <= Len(h)
        BY <3>2, <3>3, <4>1, <4>2, <4>3
      <4>4. CASE ~(x <= Len(h))
        <5>1. x - Len(h) \in 1..(j - 1) /\ x - Len(h) \in 1..Len(d)
          BY <2>3, <4>1, <4>4
        <5>2. q[x - Len(h)] = p[x - Len(h)]
          BY <1>3, <2>4, <5>1
        <5>. QED
          BY <3>2, <3>3, <4>1, <4>2, <4>4, <5>2
      <4>. QED
        BY <4>3, <4>4
    <3>. QED
      BY <2>3, <2>4, <3>1, <3>3, <3>5, <3>6, SeqEqual
  <2>6. line = IF Resets(q) = {} THEN e \o q ELSE SinceReset(q)
    <3>1. line = SinceReset(h \o q)
      BY <2>1, <2>5
    <3>2. SinceReset(h \o q) = IF Resets(q) = {} THEN SinceReset(h) \o q ELSE SinceReset(q)
      BY <1>2, <2>4, SinceJoined
    <3>. QED
      BY <2>2, <3>1, <3>2
  <2>7. PICK w : w = Ending(e)
    OBVIOUS
  <2>8. PICK k \in 0..Len(e) : /\ k = IF Len(e) <= PendingMax THEN 0 ELSE Len(e) - PendingMax
                               /\ w = SubSeq(e, k + 1, Len(e))
    BY <1>5, <2>2, <2>7, EndingFacts
  <2>9. w \in Seq(S) /\ e \in Seq(S)
    BY <1>5, <2>2, <2>8, RestFacts
  <2>10. /\ w \o d \in Seq(S) /\ Len(w \o d) = Len(w) + Len(d) /\ Len(w) \in Nat /\ Len(e) \in Nat
         /\ \A x \in 1..Len(w) + Len(d) : (w \o d)[x] = IF x <= Len(w) THEN w[x] ELSE d[x - Len(w)]
    BY <1>2, <2>9, ConcatProperties
  <2>11. CASE Resets(q) = {}
    <3>0. e \o q \in Seq(S) /\ Len(e \o q) = Len(e) + Len(q)
          /\ \A x \in 1..Len(e) + Len(q) : (e \o q)[x] = IF x <= Len(e) THEN e[x] ELSE q[x - Len(e)]
      BY <2>4, <2>9, ConcatProperties
    <3>1. line = e \o q /\ Len(line) = Len(e) + (j - 1)
      BY <2>4, <2>6, <2>11, <3>0
    <3>2. w = e
      <4>1. Len(e) <= PendingMax /\ k = 0
        BY <1>7, <2>3, <2>8, <2>10, <3>1, TypedAssumption
      <4>. QED
        BY <2>8, <2>9, <4>1, SubSeqFull
    <3>3. 0 \in 0..(Len(w \o d) - Len(line)) /\ w \o d \in Seq(S) /\ line \in Seq(S)
      BY <2>3, <2>10, <3>0, <3>1, <3>2
    <3>4. \A x \in 1..Len(line) : (w \o d)[0 + x] = line[x]
      <4>1. TAKE x \in 1..Len(line)
      <4>2. x \in 1..Len(e) + Len(q) /\ x \in 1..Len(w) + Len(d)
        BY <2>3, <2>4, <2>10, <3>1, <3>2, SMTT(30)
      <4>3. ~(x <= Len(e)) => x - Len(e) \in 1..(j - 1)
        BY <2>3, <2>4, <2>10, <4>2
      <4>. QED
        BY <2>4, <2>10, <3>0, <3>1, <3>2, <4>2, <4>3
    <3>. QED
      BY <2>2, <2>7, <3>3, <3>4, WithinAt
  <2>12. CASE Resets(q) # {}
    <3>1. PICK m : CutAt(q, m)
      BY <2>4, CutFound
    <3>2. line = SubSeq(q, m + 1, Len(q)) /\ m \in 0..Len(q)
      BY <2>4, <2>6, <2>12, <3>1, CutIsStart DEF CutAt
    <3>3. /\ line \in Seq(S) /\ Len(line) = (j - 1) - m
          /\ \A x \in 1..(j - 1) - m : line[x] = d[m + x]
      BY <2>3, <2>4, <3>2, RestFacts, SMTT(30)
    <3>4. Len(w) + m \in 0..(Len(w \o d) - Len(line))
      BY <2>3, <2>4, <2>10, <3>2, <3>3
    <3>5. \A x \in 1..Len(line) : (w \o d)[(Len(w) + m) + x] = line[x]
      <4>1. TAKE x \in 1..Len(line)
      <4>2. /\ x \in 1..(j - 1) - m /\ (Len(w) + m) + x \in 1..Len(w) + Len(d)
            /\ ~((Len(w) + m) + x <= Len(w)) /\ ((Len(w) + m) + x) - Len(w) = m + x
        BY <2>3, <2>4, <2>10, <3>2, <3>3
      <4>. QED
        BY <2>10, <3>3, <4>2
    <3>. QED
      BY <2>2, <2>7, <2>10, <3>3, <3>4, <3>5, WithinAt
  <2>. QED
    BY <2>11, <2>12
<1>. QED
  BY <1>4, <1>6, <1>7 DEF Kept

\* Any calls of session_send, with whatever they type.
LEMMA LinesJudged == LinesWhole
<1>1. Kept(<<>>).pending = <<>>
  <2>0. PICK s : s = <<>>
    OBVIOUS
  <2>1. s \in Seq({}) /\ Len(s) = 0
    BY <2>0
  <2>2. CutAt(s, 0)
    BY <2>1 DEF CutAt
  <2>3. SubSeq(s, 0 + 1, Len(s)) = s
    BY <2>1, SubSeqFull
  <2>4. SinceReset(s) = s
    BY <2>1, <2>2, <2>3, CutIsStart
  <2>5. PICK k \in 0..Len(s) : Ending(s) = SubSeq(s, k + 1, Len(s))
    BY <2>1, EndingFacts
  <2>6. Ending(s) = s
    BY <2>1, <2>3, <2>5
  <2>. QED
    BY <2>0, <2>4, <2>6 DEF Kept
<1>2. ASSUME NEW typed \in Histories, NEW c \in Sends
      PROVE  LET after == SendLine(Kept(typed), c) IN
             /\ after.pending = Kept(after.typed).pending
             /\ \A line \in Submitted(after.typed, Len(typed)) :
                  Len(line) <= PendingMax => Within(line, after.probe)
  BY OneSend
<1>. QED
  BY <1>1, <1>2, Zenon DEF LinesWhole

\* What starts to run has been judged (server.py _policy_text_*: "every byte the
\* executor will see, the policy layer sees first"; sessions.py _advance_line),
\* whatever is asked for and however a line is typed.
THEOREM ProbesSee == Spec => []ProbeSeesRun
<1>1. ProbeSeesRun
  BY WordsJudged, LinesJudged DEF ProbeSeesRun
<1>. QED
  BY <1>1, PTL
=============================================================================
