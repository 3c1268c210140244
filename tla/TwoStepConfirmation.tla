------------------------ MODULE TwoStepConfirmation ------------------------
(***************************************************************************)
(* What ADR 0009 promises of the confirmation gate, without its store, its *)
(* clock, its policy or its runner: an irreversible operation is released  *)
(* by a grant for this operation and this client, a grant comes from the   *)
(* confirmation of a challenge that was issued for them, each challenge is *)
(* issued once and each grant is used once.  Challenges and grants may be  *)
(* forgotten at any time (expiry, eviction, restart): the gate fails safe. *)
(***************************************************************************)
CONSTANTS Tokens, Clients, Ops

VARIABLES
  minted,    \* the tokens issued so far
  open,      \* challenges not yet confirmed
  granted,   \* confirmed, not yet used
  released   \* the operations let through, with the token each one used

vars == <<minted, open, granted, released>>

Challenges == [token : Tokens, client : Clients, op : Ops]

Init == minted = {} /\ open = {} /\ granted = {} /\ released = {}

Challenge(x) ==
  /\ x.token \notin minted
  /\ minted' = minted \cup {x.token}
  /\ open' \subseteq open \cup {x}
  /\ granted' \subseteq granted
  /\ UNCHANGED released

Confirm(x) ==
  /\ x \in open
  /\ open' \subseteq open \ {x}
  /\ granted' \subseteq granted \cup {x}
  /\ UNCHANGED <<minted, released>>

Release(x) ==
  /\ x \in granted
  /\ released' = released \cup {x}
  /\ granted' \subseteq granted \ {x}
  /\ open' \subseteq open
  /\ UNCHANGED minted

Forget ==
  /\ open' \subseteq open
  /\ granted' \subseteq granted
  /\ UNCHANGED <<minted, released>>

Next ==
  \/ \E x \in Challenges : Challenge(x)
  \/ \E x \in open : Confirm(x)
  \/ \E x \in granted : Release(x)
  \/ Forget

Spec == Init /\ [][Next]_vars

=============================================================================
