----------------------------- MODULE OAuthStore -----------------------------
(***************************************************************************)
(* The file-backed OAuth provider (auth/oauth.py) and the operator's       *)
(* approval command (auth/admin.py): two processes over four JSON files,   *)
(* without a common lock.  A file is read as a whole and replaced as a     *)
(* whole, so a load and a save are steps of their own and the other        *)
(* process may act between them.  Inside the server the provider's lock    *)
(* covers a load and the save that follows it.                             *)
(*                                                                         *)
(* A registration goes by the name of its client, an authorization by the  *)
(* name of the code it makes, a token request by the name of the pair of   *)
(* tokens it makes.  Of approvals.json only the approved clients matter:   *)
(* a pending record differs from none only in that the file exists.  A     *)
(* request that is refused and changes nothing is not a step: it may be    *)
(* made again under its name.  The first reads of a request (its client,   *)
(* its approval, its code or token) are one step: what they found is read  *)
(* again under the lock, or, for the approval, is not removed before the   *)
(* client is.                                                              *)
(***************************************************************************)
EXTENDS Naturals, FiniteSets, FiniteSetsExt

CONSTANTS
  Clients,          \* client ids; the SDK mints a new one per registration
  Codes,            \* authorization requests, and the codes they make
  Pairs,            \* token requests, and the token pairs they make
  Probes,           \* requests that present or revoke a token
  OldClient, OldPair, \* what a server from before the approval gate left
  None,
  SingleClient, RequireApproval,          \* settings
  CodeTTL, AccessTTL, RefreshTTL, Grace,  \* in ticks of the clock
  MaxSpent,         \* _MAX_SPENT_PER_CLIENT
  MaxTime, MaxMishaps, MaxCommands \* bounds of the model

ASSUME NamesDistinct ==
  /\ OldClient \in Clients
  /\ OldPair \in Pairs
  /\ None \notin Clients \cup Codes \cup Pairs \cup Probes
  /\ Clients \cap (Codes \cup Pairs \cup Probes) = {}
  /\ Codes \cap (Pairs \cup Probes) = {}
  /\ Pairs \cap Probes = {}

ASSUME SettingsAssumption ==
  /\ SingleClient \in BOOLEAN
  /\ RequireApproval \in BOOLEAN
  /\ {CodeTTL, AccessTTL, RefreshTTL, Grace, MaxSpent, MaxTime, MaxMishaps,
      MaxCommands} \subseteq Nat

\* Any finite number of token requests.
ASSUME PairsFinite == IsFiniteSet(Pairs)

VARIABLES
  disk,     \* what each file holds
  state,    \* each file: "absent", "ok" or "unreadable"
  server,   \* "down", "migrating" or "up"
  lock,     \* the request on the event loop that holds the provider's lock
  buf,      \* what it (or the migration at start-up) is about to save
  thread,   \* the access check that holds the lock from its worker thread
  tbuf,     \* what that one is about to save
  pc, who, grant, \* per request: progress, client, the code or token presented
  cmd,      \* the operator's command in progress
  now,
  mishaps, commands, \* how many crashes and faults, and commands, there were
  legacy,   \* history: the state directory predates the approval gate
  vouched,  \* history: clients the operator has approved
  rejected, \* history: clients whose rejection was reported as done
  revoked,  \* history: tokens taken away by a revocation or a detected reuse
  overwritten \* history: a command saved codes or tokens over a change of the server

files == <<disk, state>>
requests == <<lock, buf, thread, tbuf, pc, who, grant>>
history == <<legacy, vouched, rejected, revoked, overwritten>>
bounds == <<now, mishaps, commands>>
vars == <<files, server, requests, cmd, bounds, history>>

Files == {"clients", "approvals", "codes", "tokens"}
Requests == Clients \cup Codes \cup Pairs \cup Probes
NoCommand == [op |-> "none", client |-> None, at |-> "end", saving |-> FALSE, buf |-> {}]

-----------------------------------------------------------------------------
(* Records *)

Token(kind, p, c, exp) ==
  [kind |-> kind, id |-> p, client |-> c, exp |-> exp, at |-> 0, nth |-> 0]

Live(rec) == rec.exp >= now

\* _purge_expired
Purged(recs) == {rec \in recs : Live(rec)}

Key(rec) == <<rec.kind, rec.id>>
Find(toks, key) == {t \in toks : Key(t) = key}

\* _issue: a fresh pair beside what has not expired.
Issued(toks, p, c) ==
  Purged(toks) \cup {Token("access", p, c, now + AccessTTL),
                     Token("refresh", p, c, now + RefreshTTL)}

Markers(toks, c) == {t \in toks : t.kind = "spent" /\ t.client = c}

\* sorted(..., reverse=True) is stable: of two markers of one second the one
\* that entered the dictionary first stays in front.
Ahead(s, t) == s.at > t.at \/ (s.at = t.at /\ s.nth < t.nth)
Newest(ms) == {t \in ms : Cardinality({s \in ms : Ahead(s, t)}) < MaxSpent}

Marker(toks, rec, exp) ==
  [rec EXCEPT !.kind = "spent", !.exp = exp, !.at = now,
              !.nth = 1 + Max({0} \cup {t.nth : t \in Markers(toks, rec.client)})]

\* Mutant: a marker lives as long as the token it stands for.
FaultyRotated(toks, rec) ==
  LET old == Markers(toks, rec.client)
  IN (toks \ (old \cup {rec})) \cup Newest(old \cup {Marker(toks, rec, rec.exp)})

\* The rotation in exchange_refresh_token: the token becomes a marker, the
\* client's newest markers are extended to the life of the new family and the
\* others dropped.
Rotated(toks, rec) ==
  LET family == now + RefreshTTL
      old == Markers(toks, rec.client)
  IN (toks \ (old \cup {rec})) \cup
       {[t EXCEPT !.exp = Max({@, family})] :
          t \in Newest(old \cup {Marker(toks, rec, family)})}

-----------------------------------------------------------------------------
(* Files *)

Readable(f) == state[f] # "unreadable"

\* _Store.load, tolerant: an unreadable file reads as an empty one.
Loaded(f) == IF Readable(f) THEN disk[f] ELSE {}

\* _Store.save: the file is replaced as a whole.
Save(f, content) ==
  /\ disk' = [disk EXCEPT ![f] = content]
  /\ state' = [state EXCEPT ![f] = "ok"]

NoBuf == [f \in Files |-> {}]

\* The state directory is empty, or was left by a server that had no approvals.
Init ==
  /\ now = 0
  /\ legacy \in BOOLEAN
  /\ disk = IF legacy
              THEN [NoBuf EXCEPT !.clients = {OldClient},
                                 !.tokens = Issued({}, OldPair, OldClient)]
              ELSE NoBuf
  /\ state = [f \in Files |-> IF legacy /\ f \in {"clients", "tokens"}
                                THEN "ok" ELSE "absent"]
  /\ server = "down"
  /\ lock = None /\ buf = NoBuf
  /\ thread = None /\ tbuf = {}
  /\ pc = [q \in Requests |-> CASE q = OldClient -> IF legacy THEN "done" ELSE "new"
                                [] q = OldPair -> IF legacy THEN "issued" ELSE "ended"
                                [] OTHER -> "new"]
  /\ who = [q \in Requests |-> None]
  /\ grant = [q \in Requests |-> None]
  /\ cmd = NoCommand
  /\ mishaps = 0 /\ commands = 0
  /\ vouched = {} /\ rejected = {} /\ revoked = {} /\ overwritten = FALSE

-----------------------------------------------------------------------------
(* The provider.  Between two steps of a request other requests run only    *)
(* while no request of the event loop holds the lock: nothing in a locked   *)
(* section awaits, except the access check.                                 *)

LoopFree == server = "up" /\ lock = None

Unlocked == LoopFree /\ thread = None

\* Progress of q; a request that is over forgets whom and what it was for,
\* except that a pair of tokens remembers its grant.
At(q, s) ==
  /\ pc' = [pc EXCEPT ![q] = s]
  /\ who' = IF s \in {"ended", "issued"} THEN [who EXCEPT ![q] = None] ELSE who
  /\ grant' = IF s = "ended" THEN [grant EXCEPT ![q] = None] ELSE grant
Hold(q, b, s) == lock' = q /\ buf' = b /\ At(q, s)

Release(q, s) == lock' = None /\ buf' = NoBuf /\ At(q, s)
Idle == UNCHANGED <<lock, buf>>
Quiet == UNCHANGED <<files, server, thread, tbuf, cmd, bounds, history>>

\* Mutant: an unreadable clients.json reads as no clients.
FaultyRegistrationClosed ==
  SingleClient /\ Loaded("clients") # {}

\* register_client refuses: the store is unreadable, or the lockdown holds.
RegistrationClosed ==
  \/ ~Readable("clients")
  \/ (SingleClient /\ disk.clients # {})

RegisterLoadsClients(c) ==
  /\ Unlocked /\ pc[c] = "new"
  /\ ~RegistrationClosed
  /\ Hold(c, [NoBuf EXCEPT !.clients = Loaded("clients") \cup {c}], "registering")
  /\ Quiet

\* The load of approvals.json here is the tolerant one.
RegisterLoadsApprovals(c) ==
  /\ lock = c /\ pc[c] = "registering"
  /\ Hold(c, [buf EXCEPT !.approvals =
                Loaded("approvals") \cup (IF RequireApproval THEN {} ELSE {c})],
          "recording")
  /\ Quiet

\* Mutant: the client is written before its approval state.
FaultyRegisterOrder == <<"clients", "approvals">>

RegisterOrder == <<"approvals", "clients">>

RegisterSavesFirst(c) ==
  /\ lock = c /\ pc[c] = "recording"
  /\ Save(RegisterOrder[1], buf[RegisterOrder[1]])
  /\ At(c, "adding") /\ Idle
  /\ UNCHANGED <<server, thread, tbuf, cmd, bounds, history>>

RegisterSavesSecond(c) ==
  /\ lock = c /\ pc[c] = "adding"
  /\ Save(RegisterOrder[2], buf[RegisterOrder[2]])
  /\ Release(c, "done")
  /\ UNCHANGED <<server, thread, tbuf, cmd, bounds, history>>

\* The request q of client c, which get_client found, presents g.
Presents(q, c, g, s) ==
  /\ pc[q] = "new"
  /\ c \in Loaded("clients")
  /\ pc' = [pc EXCEPT ![q] = s]
  /\ who' = [who EXCEPT ![q] = c]
  /\ grant' = [grant EXCEPT ![q] = g]

\* _is_approved
IsApproved(c) ==
  \/ ~RequireApproval
  \/ Readable("approvals") /\ c \in disk.approvals

\* authorize, before it takes the lock.
AuthorizeChecks(k, c) ==
  /\ LoopFree
  /\ IsApproved(c)
  /\ Presents(k, c, None, "approved")
  /\ Idle /\ Quiet

AuthorizeLoads(k) ==
  /\ Unlocked /\ pc[k] = "approved"
  /\ Hold(k, [NoBuf EXCEPT !.codes = Purged(Loaded("codes")) \cup
                {[id |-> k, client |-> who[k], exp |-> now + CodeTTL]}], "coding")
  /\ Quiet

-----------------------------------------------------------------------------
(* Token requests *)

OwnCode(k, c) == {r \in Loaded("codes") : r.id = k /\ r.client = c}

\* load_authorization_code
LoadCode(p, k, c) ==
  /\ Unlocked
  /\ \E r \in OwnCode(k, c) :
       IF Live(r)
         THEN Presents(p, c, k, "held") /\ Idle
         ELSE /\ Presents(p, c, k, "dropping_code")
              /\ lock' = p
              /\ buf' = [NoBuf EXCEPT !.codes = Loaded("codes") \ {r}]
  /\ Quiet

\* Mutant: the exchange leaves the code in the store.
FaultyWithout(codes, r) == codes

Without(codes, r) == codes \ {r}

\* exchange_authorization_code, up to the save of codes.json.
ExchangeCode(p) ==
  /\ Unlocked /\ pc[p] = "held" /\ grant[p] \in Codes
  /\ \/ OwnCode(grant[p], who[p]) = {} /\ At(p, "ended") /\ Idle
     \/ \E r \in OwnCode(grant[p], who[p]) :
          Hold(p, [NoBuf EXCEPT !.codes = Without(Loaded("codes"), r)],
               IF Live(r) THEN "spending" ELSE "dropping_code")
  /\ Quiet

SaveCodes(q) ==
  /\ lock = q /\ pc[q] \in {"coding", "spending", "dropping_code"}
  /\ Save("codes", buf.codes)
  /\ CASE pc[q] = "coding" -> Release(q, "issued")
       [] pc[q] = "dropping_code" -> Release(q, "ended")
       [] OTHER -> At(q, "issue") /\ Idle
  /\ UNCHANGED <<server, thread, tbuf, cmd, bounds, history>>

IssueLoads(p) ==
  /\ lock = p /\ pc[p] = "issue"
  /\ Hold(p, [NoBuf EXCEPT !.tokens = Issued(Loaded("tokens"), p, who[p])], "issuing")
  /\ Quiet

RefreshRec(r) == Find(Loaded("tokens"), <<"refresh", r>>)

\* load_refresh_token
LoadRefresh(p, r, c) ==
  /\ Unlocked
  /\ \E t \in RefreshRec(r) : t.client = c /\ Live(t)
  /\ Presents(p, c, r, "held")
  /\ Idle /\ Quiet

\* _detect_refresh_reuse: a rotated-out token of this client, presented after
\* the grace, takes all tokens of the client away.
RevokeReused(p, r, c) ==
  /\ RefreshRec(r) = {}
  /\ \E m \in Find(Loaded("tokens"), <<"spent", r>>) :
       m.client = c /\ now - m.at > Grace
  /\ Presents(p, c, r, "revoking")
  /\ lock' = p
  /\ buf' = [NoBuf EXCEPT !.tokens = {t \in Loaded("tokens") : t.client # c}]
  /\ Quiet

\* Mutant: the check runs beside a worker thread that has the lock.
FaultyDetectReuse(p, r, c) == LoopFree /\ RevokeReused(p, r, c)

DetectReuse(p, r, c) == Unlocked /\ RevokeReused(p, r, c)

\* exchange_refresh_token, up to the save of the rotation.
ExchangeRefresh(p) ==
  /\ Unlocked /\ pc[p] = "held" /\ grant[p] \in Pairs
  /\ \/ RefreshRec(grant[p]) = {} /\ At(p, "ended") /\ Idle
     \/ \E r \in RefreshRec(grant[p]) :
          \/ r.client # who[p] /\ At(p, "ended") /\ Idle
          \/ /\ r.client = who[p]
             /\ IF Live(r)
                THEN Hold(p, [NoBuf EXCEPT !.tokens = Rotated(Loaded("tokens"), r)],
                          "rotating")
                ELSE Hold(p, [NoBuf EXCEPT !.tokens = Loaded("tokens") \ {r}],
                          "dropping")
  /\ Quiet

\* What a save of tokens.json takes away for good.
TakenAway(q) ==
  {Key(t) : t \in {t \in disk.tokens : t.kind # "spent"} \ buf.tokens}

\* The scopes are checked when the rotation is already on disk.
SaveTokens(q) ==
  /\ lock = q /\ pc[q] \in {"issuing", "rotating", "dropping", "revoking"}
  /\ Save("tokens", buf.tokens)
  /\ \/ pc[q] = "issuing" /\ Release(q, "issued")
     \/ pc[q] # "issuing" /\ Release(q, "ended")
     \/ pc[q] = "rotating" /\ At(q, "issue") /\ Idle
  /\ revoked' = IF pc[q] = "revoking" THEN revoked \cup TakenAway(q) ELSE revoked
  /\ UNCHANGED <<server, thread, tbuf, cmd, bounds, legacy, vouched,
                 rejected, overwritten>>

-----------------------------------------------------------------------------
(* Presenting and revoking a token *)

\* load_access_token: the worker thread reads the file under the lock, and
\* writes it when the token has expired.
AccessLoads(u, p) ==
  /\ Unlocked /\ thread = None /\ pc[u] = "new"
  /\ \E t \in Find(Loaded("tokens"), <<"access", p>>) :
       /\ ~Live(t)
       /\ tbuf' = Loaded("tokens") \ {t}
  /\ thread' = u
  /\ At(u, "lapsed")
  /\ Idle /\ UNCHANGED <<files, server, cmd, bounds, history>>

AccessSaves(u) ==
  /\ thread = u
  /\ Save("tokens", tbuf)
  /\ At(u, "ended") /\ thread' = None /\ tbuf' = {}
  /\ Idle /\ UNCHANGED <<server, cmd, bounds, history>>

\* The SDK's revocation handler loads the token before it revokes it.
RevokeFinds(u, p, kind) ==
  /\ Unlocked /\ pc[u] = "new"
  /\ \E t \in Find(Loaded("tokens"), <<kind, p>>) : Live(t)
  /\ grant' = [grant EXCEPT ![u] = <<kind, p>>]
  /\ pc' = [pc EXCEPT ![u] = "held"]
  /\ Idle /\ UNCHANGED who /\ Quiet

\* revoke_token
RevokeLoads(u) ==
  /\ Unlocked /\ u \in Probes /\ pc[u] = "held"
  /\ Hold(u, [NoBuf EXCEPT !.tokens =
                Loaded("tokens") \ Find(Loaded("tokens"), grant[u])], "revoking")
  /\ Quiet

-----------------------------------------------------------------------------
(* The operator's command: one at a time, each file access a step *)

Command(op, c) ==
  /\ cmd = NoCommand /\ commands < MaxCommands
  /\ commands' = commands + 1
  /\ cmd' = [op |-> op, client |-> c, at |-> "clients", saving |-> FALSE,
             buf |-> {}]
  /\ UNCHANGED <<files, server, requests, now, mishaps, history>>

Strict == {"clients", "approvals"}

\* What the command makes of the file.
Edited(f) ==
  CASE f = "clients" -> disk.clients \ {cmd.client}
    [] f = "approvals" -> IF cmd.op = "approve"
                            THEN disk.approvals \cup {cmd.client}
                            ELSE disk.approvals \ {cmd.client}
    [] OTHER -> {r \in Loaded(f) : r.client # cmd.client}

NextFile == [clients |-> "approvals", approvals |-> "codes", codes |-> "tokens"]

\* The file after f, or the end of the command.
Onward(f) ==
  IF f = "tokens" \/ (f = "approvals" /\ cmd.op = "approve")
    THEN NoCommand
    ELSE [cmd EXCEPT !.at = NextFile[f], !.saving = FALSE, !.buf = {}]

\* approve_client and reject_client load f: nothing happens for an unknown
\* client or an unreadable store, and approve does not touch clients.json.
CommandLoads(f) ==
  /\ cmd.at = f /\ ~cmd.saving
  /\ LET gives_up == \/ f \in Strict /\ ~Readable(f)
                     \/ f = "clients" /\ cmd.client \notin Loaded(f)
         nothing_to_save == \/ f = "clients" /\ cmd.op = "approve"
                            \/ f \notin Strict /\ Edited(f) = Loaded(f)
     IN cmd' = IF gives_up THEN NoCommand
               ELSE IF nothing_to_save THEN Onward(f)
               ELSE [cmd EXCEPT !.saving = TRUE, !.buf = Edited(f)]
  /\ rejected' = IF f = "tokens" /\ cmd' = NoCommand
                   THEN rejected \cup {cmd.client} ELSE rejected
  /\ UNCHANGED <<files, server, requests, bounds, legacy, vouched, revoked,
                 overwritten>>

\* The file has changed since the command loaded it.
Stale(f) == f \notin Strict /\ cmd.buf # Edited(f)

CommandSaves(f) ==
  /\ cmd.at = f /\ cmd.saving
  /\ Save(f, cmd.buf)
  /\ cmd' = Onward(f)
  /\ vouched' = IF cmd.op = "approve" THEN vouched \cup {cmd.client} ELSE vouched
  /\ rejected' = IF f = "tokens" THEN rejected \cup {cmd.client} ELSE rejected
  /\ overwritten' = (overwritten \/ Stale(f))
  /\ UNCHANGED <<server, requests, bounds, legacy, revoked>>

Interrupted ==
  /\ cmd # NoCommand /\ mishaps < MaxMishaps
  /\ cmd' = NoCommand /\ mishaps' = mishaps + 1
  /\ UNCHANGED <<files, server, requests, now, commands, history>>

-----------------------------------------------------------------------------
(* Start-up, crashes, unreadable files, time *)

\* FileOAuthProvider.__init__ with _migrate_legacy_approvals.
Start ==
  /\ server = "down"
  /\ IF state.approvals = "absent" /\ Loaded("clients") # {}
       THEN server' = "migrating" /\ buf' = [NoBuf EXCEPT !.approvals = disk.clients]
       ELSE server' = "up" /\ UNCHANGED buf
  /\ UNCHANGED <<files, lock, thread, tbuf, pc, who, grant, cmd, bounds, history>>

Migrate ==
  /\ server = "migrating"
  /\ Save("approvals", buf.approvals)
  /\ server' = "up" /\ buf' = NoBuf
  /\ UNCHANGED <<lock, thread, tbuf, pc, who, grant, cmd, bounds, history>>

Crash ==
  /\ server # "down" /\ mishaps < MaxMishaps
  /\ mishaps' = mishaps + 1
  /\ server' = "down" /\ lock' = None /\ buf' = NoBuf /\ thread' = None /\ tbuf' = {}
  /\ pc' = [q \in Requests |->
              IF pc[q] \in {"new", "done", "issued"} THEN pc[q] ELSE "ended"]
  /\ who' = [q \in Requests |-> None]
  /\ grant' = [q \in Requests |-> IF pc[q] = "issued" THEN grant[q] ELSE None]
  /\ UNCHANGED <<files, cmd, now, commands, history>>

Corrupted(f) ==
  /\ state[f] = "ok" /\ mishaps < MaxMishaps
  /\ state' = [state EXCEPT ![f] = "unreadable"]
  /\ mishaps' = mishaps + 1
  /\ UNCHANGED <<disk, server, requests, cmd, now, commands, history>>

Repaired(f) ==
  /\ state[f] = "unreadable"
  /\ state' = [state EXCEPT ![f] = "ok"]
  /\ UNCHANGED <<disk, server, requests, cmd, bounds, history>>

\* A locked section is short against the lifetimes.
Tick ==
  /\ now < MaxTime /\ LoopFree
  /\ now' = now + 1
  /\ UNCHANGED <<files, server, requests, cmd, mishaps, commands, history>>

Next ==
  \/ \E c \in Clients : \/ RegisterLoadsClients(c) \/ RegisterLoadsApprovals(c)
                        \/ RegisterSavesFirst(c) \/ RegisterSavesSecond(c)
  \/ \E k \in Codes : \/ \E c \in Clients : AuthorizeChecks(k, c)
                      \/ AuthorizeLoads(k) \/ SaveCodes(k)
  \/ \E p \in Pairs : \/ \E k \in Codes, c \in Clients : LoadCode(p, k, c)
                      \/ \E r \in Pairs, c \in Clients : LoadRefresh(p, r, c)
                      \/ \E r \in Pairs, c \in Clients : DetectReuse(p, r, c)
                      \/ ExchangeCode(p) \/ SaveCodes(p) \/ ExchangeRefresh(p)
                      \/ IssueLoads(p) \/ SaveTokens(p)
  \/ \E u \in Probes : \/ \E p \in Pairs : AccessLoads(u, p)
                       \/ \E p \in Pairs, kind \in {"access", "refresh"} :
                            RevokeFinds(u, p, kind)
                       \/ AccessSaves(u) \/ RevokeLoads(u) \/ SaveTokens(u)
  \/ \E op \in {"approve", "reject"}, c \in Clients : Command(op, c)
  \/ \E f \in Files : CommandLoads(f) \/ CommandSaves(f)
  \/ Interrupted \/ Start \/ Migrate \/ Crash \/ Tick
  \/ \E f \in Files : Corrupted(f) \/ Repaired(f)

Spec == Init /\ [][Next]_vars

-----------------------------------------------------------------------------
(* Properties *)

\* A code and a refresh token yield at most one pair of tokens each, whatever
\* the interleaving of token requests, crashes and operator commands
\* (exchange_authorization_code and exchange_refresh_token pop the record
\* under the lock, after it was loaded in an earlier locked section).  Only a
\* command that saves an older copy of the file over the server's can bring a
\* used code or token back.
GrantUsedOnce ==
  ~overwritten =>
    \A p, q \in Pairs :
      pc[p] = "issued" /\ pc[q] = "issued" /\ grant[p] = grant[q] /\ grant[p] # None
        => p = q

\* With the gate on, only clients the operator approved, or the one that was
\* there before the gate, are approved on disk or have codes or tokens: the
\* migration never approves a client that a crashed registration left.
ApprovalGate ==
  RequireApproval =>
    LET accepted == vouched \cup (IF legacy THEN {OldClient} ELSE {})
    IN /\ disk.approvals \subseteq accepted
       /\ \A r \in disk.codes \cup disk.tokens : r.client \in accepted

\* Single-client lockdown: while a client is registered, no step registers
\* another beside it or in its place, though the operator's command edits
\* clients.json without the lock and the file may be unreadable
\* (register_client).
LockdownHolds ==
  [][\/ ~SingleClient
     \/ disk.clients = {}
     \/ disk'.clients \subseteq disk.clients]_vars

\* The lines of rotation: <<a, p>> when p comes from a in at most n+1 rotations.
Lineage[n \in 0 .. Cardinality(Pairs)] ==
  IF n = 0
    THEN {<<grant[p], p>> : p \in {p \in Pairs : grant[p] \in Pairs /\ pc[p] = "issued"}}
    ELSE Lineage[n-1] \cup
           {<<ed[1][1], ed[2][2]>> :
              ed \in {ed \in Lineage[n-1] \X Lineage[n-1] : ed[1][2] = ed[2][1]}}

\* A rotated-out refresh token is recognised for as long as a descendant of it
\* lives: its marker is there and outlives the descendant, unless MaxSpent
\* later ones of the client took its place (exchange_refresh_token extends
\* the markers) or the operator rejected the client.
ReplayDetectable ==
  (\A f \in Files : Readable(f)) /\ mishaps = 0 /\ ~overwritten =>
    \A t \in disk.tokens :
      t.kind = "refresh" /\ Live(t) /\ t.client \notin rejected =>
        \A e \in Lineage[Cardinality(Pairs)] :
          e[2] = t.id =>
            \/ \E m \in Find(disk.tokens, <<"spent", e[1]>>) : m.exp >= t.exp
            \/ Cardinality(Markers(disk.tokens, t.client)) >= MaxSpent

\* A token that was revoked, or taken away because a spent one was presented,
\* never comes back: no request writes a copy of tokens.json it loaded before
\* the revocation (the lock spans load and save, in the worker thread too).  The
\* operator's command, which has no lock, may do so for another client's token.
RevokedStaysDead ==
  ~overwritten => \A t \in disk.tokens : Key(t) \notin revoked

\* Once reject_client has reported success the client has no code and no
\* token, "removed with its approval, codes and tokens".
RejectionFinal ==
  \A r \in disk.codes \cup disk.tokens : r.client \notin rejected
=============================================================================
