---------------------------- MODULE RelayRunner ----------------------------
(***************************************************************************)
(* Relay.run of relay_shell/server.py, the audited path of every tool      *)
(* call: the input limit, the policy, the Tier-3 confirmation gate, the    *)
(* write-ahead record, the work and its three endings, with the process    *)
(* crashing and restarting in between.                                     *)
(*                                                                         *)
(* Nothing in run() suspends before `await work()`, so admission, gate and *)
(* write-ahead record are one step; the ending of the work is another.     *)
(* The work of operation_confirm and server_info does not suspend.         *)
(*                                                                         *)
(* A call is made once.  The token that a challenged call mints is         *)
(* unguessable and fresh: the model names it after the call.  What the     *)
(* policy's patterns match is a parameter.                                 *)
(***************************************************************************)
EXTENDS ConfirmationBroker, ToolSurface

CONSTANTS
  Calls, Clients,
  Ops,            \* what a call can ask for: tool and arguments
  ConfirmOp,      \* a call of operation_confirm
  InfoOp,         \* a call of server_info
  TextOf,         \* the policy text of an operation
  TierOf,         \* its tier, raised to min_tier
  DenyMatch,      \* the operations RELAY_SHELL_POLICY_DENY matches
  AllowMatch,     \* the operations RELAY_SHELL_POLICY_ALLOW matches
  Oversized,      \* the operations whose text is over max_input
  Mode,           \* settings.policy_mode
  ConfirmTier3,   \* settings.confirm_tier3: is there a broker?
  AuditIntent,    \* settings.audit_intent
  MaxTime,        \* bound on the clock
  MaxBoots,       \* bound on the restarts
  None

READ_ONLY == 0
REVERSIBLE == 1
STATEFUL == 2
IRREVERSIBLE == 3

ASSUME OpsAssumption ==
  /\ ConfirmOp \in Ops /\ InfoOp \in Ops /\ ConfirmOp # InfoOp
  /\ TierOf \in [Ops -> READ_ONLY..IRREVERSIBLE]
  /\ TierOf[ConfirmOp] = READ_ONLY /\ TierOf[InfoOp] = READ_ONLY
  /\ DOMAIN TextOf = Ops
ASSUME SettingsAssumption ==
  /\ Mode \in {"open", "guarded", "readonly"}
  /\ ConfirmTier3 \in BOOLEAN /\ AuditIntent \in BOOLEAN
  /\ MaxTime \in Nat /\ MaxBoots \in Nat
ASSUME CallsAssumption ==
  IsFiniteSet(Calls) /\ None \notin Calls /\ None \notin Clients /\ None \notin Ops

VARIABLES
  state,    \* where a call is, or how it ended
  client,   \* who made it
  op,       \* what it asks for
  token,    \* the argument of operation_confirm
  at, boot, \* when, and in which life of the process, it was admitted
  spent,    \* the token its execution burned
  audit,    \* the actions of the records it left, in order
  boots     \* restarts so far

vars == <<entries, now, state, client, op, token, at, boot, spent, audit, boots>>

Running == "running"
Ended == {"denied", "challenged", "armed", "invalid", "disabled", "ok", "error",
          "cancelled"}

\* The `action` field of a record: empty in the code for a plain completion.
Actions == {"denied", "confirm_plan", "intent", "completed", "confirm_execute",
            "cancelled"}

Init ==
  /\ entries = {}
  /\ now = 0
  /\ state = [c \in Calls |-> "idle"]
  /\ client = [c \in Calls |-> None]
  /\ op = [c \in Calls |-> None]
  /\ token = [c \in Calls |-> None]
  /\ at = [c \in Calls |-> 0]
  /\ boot = [c \in Calls |-> 0]
  /\ spent = [c \in Calls |-> None]
  /\ audit = [c \in Calls |-> <<>>]
  /\ boots = 0

-----------------------------------------------------------------------------
(* Admission.                                                              *)

\* Policy.check: deny first in every mode, then the mode against the tier.
Permitted(o) ==
  /\ o \notin DenyMatch
  /\ Mode = "readonly" => TierOf[o] = READ_ONLY
  /\ Mode = "guarded" /\ TierOf[o] >= STATEFUL => o \in AllowMatch

Admitted(o) == o \notin Oversized /\ Permitted(o)

Gated(o) == ConfirmTier3 /\ TierOf[o] = IRREVERSIBLE

FaultyOpKey(o) == <<TextOf[o], None>>
\* _confirm_op_key: the policy text and every audited argument.
OpKey(o) == <<TextOf[o], o>>

FaultyIntentRecords == <<>>
\* The write-ahead record.
IntentRecords == IF AuditIntent THEN <<"intent">> ELSE <<>>

\* Tokens are numbered in the order in which they are minted.
Minted == {c \in Calls : state[c] = "challenged"}

\* Call c enters run(): its client and operation are fixed, it goes to state s
\* and leaves the records recs.
Enters(c, cl, o, t, s, recs) ==
  /\ state[c] = "idle"
  /\ state' = [state EXCEPT ![c] = s]
  /\ client' = [client EXCEPT ![c] = cl]
  /\ op' = [op EXCEPT ![c] = o]
  /\ token' = [token EXCEPT ![c] = t]
  /\ at' = [at EXCEPT ![c] = now]
  /\ boot' = [boot EXCEPT ![c] = boots]
  /\ audit' = [audit EXCEPT ![c] = recs]
  /\ UNCHANGED <<now, boots>>

Denied(c, cl, o) ==
  /\ ~Admitted(o)
  /\ Enters(c, cl, o, None, "denied", <<"denied">>)
  /\ UNCHANGED <<entries, spent>>

\* A gated operation with no armed token: plan instead of work.
Challenged(c, cl, o) ==
  /\ Admitted(o)
  /\ Gated(o)
  /\ Enters(c, cl, o, None, "challenged", <<"confirm_plan">>)
  /\ Matching(entries, now, OpKey(o), cl) = {}
  /\ entries' = Planned(entries, now, c, OpKey(o), cl, Cardinality(Minted))
  /\ UNCHANGED spent

\* A gated operation whose armed token is found and burned: the work starts.
Confirmed(c, cl, o) ==
  /\ Admitted(o)
  /\ Gated(o)
  /\ Enters(c, cl, o, None, Running, IntentRecords)
  /\ Matching(entries, now, OpKey(o), cl) # {}
  /\ entries' = Consumed(entries, now, OpKey(o), cl)
  /\ spent' = [spent EXCEPT ![c] =
                 FirstMatch(entries, now, OpKey(o), cl).token]

\* Any other operation: the work starts.
Ungated(c, cl, o) ==
  /\ Admitted(o)
  /\ ~Gated(o)
  /\ o \notin {ConfirmOp, InfoOp}
  /\ Enters(c, cl, o, None, Running, IntentRecords)
  /\ UNCHANGED <<entries, spent>>

\* operation_confirm, work included.
OperationConfirm(c, cl, t) ==
  /\ Admitted(ConfirmOp)
  /\ LET armable == Armable(entries, now, t, cl)
         answer == IF ~ConfirmTier3 THEN "disabled"
                   ELSE IF armable = {} THEN "invalid" ELSE "armed"
     IN  Enters(c, cl, ConfirmOp, t, answer, Append(IntentRecords, "completed"))
  /\ entries' = IF ConfirmTier3 THEN ArmedStore(entries, now, t, cl) ELSE entries
  /\ UNCHANGED spent

\* server_info reports pending(), which sweeps.
ServerInfo(c, cl) ==
  /\ Admitted(InfoOp)
  /\ Enters(c, cl, InfoOp, None, "ok", Append(IntentRecords, "completed"))
  /\ entries' = IF ConfirmTier3 THEN Sweep(entries, now) ELSE entries
  /\ UNCHANGED spent

-----------------------------------------------------------------------------
(* The endings of the work.                                                *)

CompletionAction(c) == IF spent[c] = None THEN "completed" ELSE "confirm_execute"

Ends(c, s, action) ==
  /\ state[c] = Running
  /\ state' = [state EXCEPT ![c] = s]
  /\ audit' = [audit EXCEPT ![c] = Append(@, action)]
  /\ UNCHANGED <<entries, now, client, op, token, at, boot, spent, boots>>

WorkReturns(c) == Ends(c, "ok", CompletionAction(c))
WorkRaises(c) == Ends(c, "error", CompletionAction(c))

FaultyWorkCancelled(c) ==
  /\ state[c] = Running
  /\ state' = [state EXCEPT ![c] = "cancelled"]
  /\ UNCHANGED <<entries, now, client, op, token, at, boot, spent, boots, audit>>
\* The call is cancelled in its work: recorded, then propagated.
WorkCancelled(c) == Ends(c, "cancelled", "cancelled")

FaultyAfterCrash == entries
\* The tokens live in memory only.
AfterCrash == {}

\* The process dies and is restarted: calls in flight get no answer.
Crash ==
  /\ boots < MaxBoots
  /\ boots' = boots + 1
  /\ entries' = AfterCrash
  /\ state' = [c \in Calls |-> IF state[c] = Running THEN "lost" ELSE state[c]]
  /\ UNCHANGED <<now, client, op, token, at, boot, spent, audit>>

Tick ==
  /\ now < MaxTime
  /\ now' = now + 1
  /\ UNCHANGED <<entries, state, client, op, token, at, boot, spent, audit, boots>>

Next ==
  \/ \E c \in Calls, cl \in Clients :
       \/ \E o \in Ops : \/ Denied(c, cl, o) \/ Challenged(c, cl, o)
                         \/ Confirmed(c, cl, o) \/ Ungated(c, cl, o)
       \/ \E t \in Calls : OperationConfirm(c, cl, t)
       \/ ServerInfo(c, cl)
  \/ \E c \in Calls : WorkReturns(c) \/ WorkRaises(c) \/ WorkCancelled(c)
  \/ Crash
  \/ Tick

Spec == Init /\ [][Next]_vars

-----------------------------------------------------------------------------
(* Correctness.                                                            *)

Entry == [token : Calls, key : {<<TextOf[o], o>> : o \in Ops},
          client : Clients, expires : Nat, armed : BOOLEAN, seq : Nat]

\* The shape of the state; in particular every stored token is bound to the
\* whole operation, policy text and arguments, that _confirm_op_key covers.
TypeOK ==
  /\ entries \subseteq Entry
  /\ now \in Nat
  /\ state \in [Calls -> Ended \cup {"idle", Running, "lost"}]
  /\ client \in [Calls -> Clients \cup {None}]
  /\ op \in [Calls -> Ops \cup {None}]
  /\ token \in [Calls -> Calls \cup {None}]
  /\ at \in [Calls -> Nat]
  /\ boot \in [Calls -> Nat]
  /\ spent \in [Calls -> Calls \cup {None}]
  /\ audit \in [Calls -> Seq(Actions)]
  /\ boots \in Nat

\* The work of the call has started.
Ran(c) ==
  /\ state[c] \in {Running, "ok", "error", "cancelled", "lost"}
  /\ op[c] \notin {ConfirmOp, InfoOp}

\* ADR 0009: with the broker on, an irreversible operation runs only after a
\* call for exactly this operation was challenged, less than TTL earlier and in
\* the same life of the process, and the same client confirmed that challenge.
ExecutionConfirmed ==
  \A c \in Calls :
    Ran(c) /\ ConfirmTier3 /\ TierOf[op[c]] = IRREVERSIBLE =>
      \E p, d \in Calls :
        /\ spent[c] = p
        /\ state[p] = "challenged" /\ state[d] = "armed" /\ token[d] = p
        /\ op[p] = op[c]
        /\ client[p] = client[c] /\ client[d] = client[c]
        /\ boot[p] = boot[c] /\ boot[d] = boot[c]
        /\ at[p] <= at[d] /\ at[d] <= at[c] /\ at[c] < at[p] + TTL

\* One confirmation releases one execution, however many identical calls are
\* made and however they end.
TokenSpentOnce ==
  \A c, d \in Calls : spent[c] = spent[d] /\ spent[c] # None => c = d

\* A token that the operator has armed leaves the store only by the execution
\* it releases, by its deadline or by a restart: no flood of plans pushes it out.
ArmedSurvives ==
  [][\A e \in entries :
       e.armed /\ e.expires > now /\ boots' = boots =>
         e \in entries' \/ \E c \in Calls : spent[c] # spent'[c] /\ spent'[c] = e.token]_vars

Closing(c) == {i \in 1..Len(audit[c]) : audit[c][i] # "intent"}

\* The trail: a call that ended, by cancellation too, left exactly one closing
\* record; and with audit_intent no work starts unrecorded, so that even a call
\* lost in a crash is on the trail.
TrailComplete ==
  \A c \in Calls :
    /\ state[c] \in Ended => Cardinality(Closing(c)) = 1
    /\ AuditIntent /\ Ran(c) => audit[c] # <<>> /\ Head(audit[c]) = "intent"

\* When a confirmation is spent the call that runs is the call that was
\* challenged: for every tool with a policy text, two calls of one key run the
\* same thing, in the same place, as the same user and under the same host-key
\* verification (server.py: the tool wrappers and _confirm_op_key).
KeyBindsOperation == (\E c \in Calls : spent[c] # None) => EveryKeyDecides

\* What starts to run has been judged: every line and every host of the caller
\* that the executor gets is in the policy text (server.py: _policy_text_*,
\* "every byte the executor will see, the policy layer sees first"), and a line
\* typed into a session was judged whole, in however many session_send calls,
\* one after another, it came and whatever resets were between, up to the
\* length that is kept (sessions.py _advance_line).
ProbeSeesRun == (\E c \in Calls : state[c] = Running) => ProbeCovers /\ LinesWhole

Challenge(e) == [token |-> e.token, client |-> e.client, op |-> e.key[2]]
Gate == INSTANCE TwoStepConfirmation WITH
  Tokens <- Calls,
  minted <- Minted,
  open <- {Challenge(e) : e \in {x \in entries : ~x.armed}},
  granted <- {Challenge(e) : e \in {x \in entries : x.armed}},
  released <- {[token |-> spent[c], client |-> client[c], op |-> op[c]] :
                 c \in {d \in Calls : spent[d] # None}}

\* The runner with its store, clock, policy and restarts implements the
\* promise of ADR 0009: every step of it is a step of the gate or none.
ImplementsGate == Gate!Spec

=============================================================================
