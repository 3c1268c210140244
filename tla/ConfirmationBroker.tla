------------------------ MODULE ConfirmationBroker ------------------------
(***************************************************************************)
(* The store of single-use confirmation tokens of relay_shell/broker.py.   *)
(* Every method runs on the event loop without suspending, so each is a    *)
(* function of the store and the clock; RelayRunner composes them into the *)
(* steps of the central runner.                                            *)
(*                                                                         *)
(* The store is a set of entries.  `seq` is an entry's place in the order  *)
(* of insertion of the dict, which the stable sort of the eviction and the *)
(* search of consume() both follow.                                        *)
(*                                                                         *)
(* Operators named Faulty... are plausible mistakes in the operator that   *)
(* follows; the specification does not use them.                           *)
(***************************************************************************)
EXTENDS Integers, FiniteSets

CONSTANTS
  TTL,         \* settings.confirm_ttl, at least 1
  MaxPending   \* _MAX_PENDING

ASSUME BrokerAssumption == TTL \in Nat \ {0} /\ MaxPending \in Nat \ {0}

VARIABLES
  entries,     \* _by_token
  now          \* the monotonic clock

\* _sweep, first half: an entry is gone from its deadline on.
FaultyLive(E, t) == E
Live(E, t) == {e \in E : e.expires > t}

FaultyEvictedBefore(x, y) ==
  \/ x.expires < y.expires
  \/ x.expires = y.expires /\ x.seq < y.seq
\* The sort key of the eviction, (armed, expires_at), ties in dict order.
EvictedBefore(x, y) ==
  \/ ~x.armed /\ y.armed
  \/ /\ x.armed = y.armed
     /\ \/ x.expires < y.expires
        \/ x.expires = y.expires /\ x.seq < y.seq

\* _sweep, second half: drop the first ones beyond the bound.
Bounded(E) ==
  {e \in E : Cardinality({x \in E : EvictedBefore(x, e)})
               >= Cardinality(E) - MaxPending}

Sweep(E, t) == Bounded(Live(E, t))

NewEntry(t, token, key, client, seq) ==
  [token |-> token, key |-> key, client |-> client, expires |-> t + TTL,
   armed |-> FALSE, seq |-> seq]

\* plan(): sweep, insert, and bound the store again.
Planned(E, t, token, key, client, seq) ==
  Sweep(Sweep(E, t) \cup {NewEntry(t, token, key, client, seq)}, t)

FaultyArmable(E, t, token, client) == {e \in Sweep(E, t) : e.token = token}
\* arm(): the entry of this token, if this client planned it.
Armable(E, t, token, client) ==
  {e \in Sweep(E, t) : e.token = token /\ e.client = client}

FaultyArmedStore(E, t, token, client) ==
  {IF e.client = client THEN [e EXCEPT !.armed = TRUE] ELSE e : e \in Sweep(E, t)}
\* arm() sets its flag and leaves the others.
ArmedStore(E, t, token, client) ==
  {IF e \in Armable(E, t, token, client) THEN [e EXCEPT !.armed = TRUE] ELSE e :
     e \in Sweep(E, t)}

FaultyMatching(E, t, key, client) == {e \in Sweep(E, t) : e.armed /\ e.key = key}
\* consume(): the armed entries for this operation and client.
Matching(E, t, key, client) ==
  {e \in Sweep(E, t) : e.armed /\ e.key = key /\ e.client = client}

\* The first of them in dict order.
FirstMatch(E, t, key, client) ==
  CHOOSE e \in Matching(E, t, key, client) :
    \A x \in Matching(E, t, key, client) : e.seq <= x.seq

FaultyConsumed(E, t, key, client) == Sweep(E, t)
\* consume() burns it.
Consumed(E, t, key, client) == Sweep(E, t) \ {FirstMatch(E, t, key, client)}

=============================================================================
