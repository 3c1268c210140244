-------------------------- MODULE OAuthStoreProofs --------------------------
(***************************************************************************)
(* The OAuth provider's promises, proved for any number of clients, codes, *)
(* token requests, probes, commands, crashes and damaged files and for all *)
(* settings.                                                               *)
(*                                                                         *)
(* The lock is worth something because a request is in a locked section    *)
(* exactly while it holds it (Mutex).  A record on disk, or in any copy of *)
(* a file that somebody is about to save, belongs to a request that has    *)
(* finished (Owned), so a name is never minted twice; a grant that was     *)
(* used is in no such copy (Spent), a revoked token neither (Dead).  For   *)
(* the approval gate every copy, and every client a request acts for, is   *)
(* of an accepted client (Accepted), and until approvals.json exists only  *)
(* the old client is registered (Gated).                                   *)
(***************************************************************************)
EXTENDS OAuthStore, FiniteSetTheorems, NaturalsInduction, WellFoundedInduction, TLAPS

-----------------------------------------------------------------------------
(* The invariant.                                                          *)

\* The places of a request inside a locked section of the event loop.
Locked == {"registering", "recording", "adding", "coding", "spending", "dropping_code",
           "issue", "issuing", "rotating", "dropping", "revoking"}
Registering == {"registering", "recording", "adding"}

IsCommand(x) ==
  /\ DOMAIN x = {"op", "client", "at", "saving", "buf"}
  /\ x.at \in Files \cup {"end"} /\ x.saving \in BOOLEAN
  /\ x.op = "approve" => x.at \in {"clients", "approvals"}
  /\ x.at \in Files => x.client \in Clients /\ x.op \in {"approve", "reject"}

Typed ==
  /\ DOMAIN disk = Files /\ DOMAIN buf = Files
  /\ state \in [Files -> {"absent", "ok", "unreadable"}]
  /\ server \in {"down", "migrating", "up"}
  /\ DOMAIN pc = Requests
  /\ who \in [Requests -> Clients \cup {None}]
  /\ DOMAIN grant = Requests
  /\ \A c \in Clients : pc[c] \in Registering \cup {"new", "done", "ended"}
  /\ \A k \in Codes : pc[k] \in {"new", "approved", "coding", "issued", "ended"}
  /\ \A p \in Pairs : /\ pc[p] \in {"new", "held", "issued", "ended"} \cup
                                   (Locked \ (Registering \cup {"coding"}))
                      /\ grant[p] \in Codes \cup Pairs \cup {None}
                      /\ pc[p] \in {"held", "spending", "rotating", "issue"} => who[p] \in Clients
  /\ \A k \in Codes : pc[k] = "approved" => who[k] \in Clients
  /\ \A u \in Probes : pc[u] \in {"new", "lapsed", "held", "revoking", "ended"}
  /\ IsCommand(cmd)
  /\ legacy \in BOOLEAN /\ overwritten \in BOOLEAN

\* The provider's lock: who is in a locked section, and that it is one at a
\* time, the worker thread of the access check included.
Mutex ==
  /\ \A q \in Requests : /\ pc[q] \in Locked <=> lock = q
                         /\ pc[q] = "lapsed" <=> thread = q
  /\ lock = None \/ thread = None
  /\ lock \in Requests \cup {None} /\ thread \in Probes \cup {None}
  /\ server # "up" => lock = None /\ thread = None
  /\ thread = None => tbuf = {}

\* The command's copy of file f.
CmdCopy(f) == IF cmd.at = f /\ cmd.saving THEN cmd.buf ELSE {}

IsCode(r) == /\ r.id \in Codes /\ r.client \in Clients
IsToken(t) == /\ DOMAIN t = {"kind", "id", "client", "exp", "at", "nth"}
              /\ t.kind \in {"access", "refresh", "spent"}
              /\ t.id \in Pairs /\ t.client \in Clients

StoredCodes == disk.codes \cup CmdCopy("codes")
StoredTokens == disk.tokens \cup tbuf \cup CmdCopy("tokens")

\* A code or token is made by one request, once, and what is stored of it, in
\* any copy, is the same record.
CodesOwned ==
  /\ \A r \in StoredCodes : IsCode(r) /\ pc[r.id] = "issued"
  /\ \A r \in buf.codes : IsCode(r) /\ pc[r.id] \in {"issued", "coding"}
  /\ \A r, s \in StoredCodes \cup buf.codes : r.id = s.id => r = s
TokensOwned ==
  /\ \A t \in StoredTokens : IsToken(t) /\ pc[t.id] = "issued"
  /\ \A t \in buf.tokens : IsToken(t) /\ pc[t.id] \in {"issued", "issuing"}
  /\ \A t, s \in StoredTokens \cup buf.tokens :
       t.kind # "spent" /\ Key(t) = Key(s) => t = s

\* A grant that is presented was made before.
Presented ==
  \A p \in Pairs : grant[p] # None => pc[grant[p]] = "issued"

\* p has consumed its grant for good, or is about to.
Used(p) == grant[p] # None /\ pc[p] \in {"issue", "issuing", "issued"}

\* The grant g is in none of these codes and no refresh token of these tokens.
GoneFrom(codes, toks, g) == /\ \A r \in codes : r.id # g
                            /\ \A t \in toks : t.kind = "refresh" => t.id # g
Gone(g) == GoneFrom(disk.codes \cup buf.codes, disk.tokens \cup buf.tokens \cup tbuf, g)

Spent ==
  ~overwritten =>
    \A p \in Pairs :
      /\ Used(p) => Gone(grant[p])
      /\ pc[p] = "spending" => grant[p] \in Codes /\ GoneFrom(buf.codes, buf.tokens, grant[p])
      /\ pc[p] = "rotating" => grant[p] \in Pairs /\ GoneFrom(buf.codes, buf.tokens, grant[p])
      /\ \A q \in Pairs : Used(q) /\ grant[q] = grant[p] /\
                          (Used(p) \/ pc[p] \in {"spending", "rotating"}) => p = q

Dead ==
  /\ \A x \in revoked : \E p \in Pairs : x \in {<<"access", p>>, <<"refresh", p>>} /\ pc[p] = "issued"
  /\ ~overwritten => \A t \in disk.tokens \cup buf.tokens \cup tbuf : Key(t) \notin revoked

Inv == Typed /\ Mutex /\ CodesOwned /\ TokensOwned /\ Presented /\ Spent /\ Dead

\* The clients that may act when the gate is on.
Old == IF legacy THEN {OldClient} ELSE {}
Acceptable == vouched \cup Old

Accepted ==
  /\ disk.approvals \cup buf.approvals \subseteq Acceptable
  /\ CmdCopy("approvals") \subseteq Acceptable \cup (IF cmd.op = "approve" THEN {cmd.client} ELSE {})
  /\ \A r \in StoredCodes \cup buf.codes : r.client \in Acceptable
  /\ \A t \in StoredTokens \cup buf.tokens : t.client \in Acceptable
  /\ \A q \in Codes \cup Pairs : who[q] # None => who[q] \in Acceptable

Gated ==
  /\ state.approvals = "absent" => disk.clients \cup CmdCopy("clients") \subseteq Old
  /\ \A c \in Clients : pc[c] = "adding" => state.approvals # "absent"

GateInv == RequireApproval => Accepted /\ Gated

\* With the lockdown on there is at most one client, and a registration under
\* way found none.
LockdownInv ==
  SingleClient =>
    /\ \A c, d \in disk.clients : c = d
    /\ CmdCopy("clients") = {}
    /\ \A c \in Clients : pc[c] \in Registering => disk.clients = {} /\ buf.clients = {c}

-----------------------------------------------------------------------------
(* The lock.                                                               *)

\* The command's next place: it has no copy of a file there.
LEMMA OnwardFacts ==
  ASSUME IsCommand(cmd), NEW f \in Files, cmd.at = f
  PROVE  /\ IsCommand(Onward(f)) /\ ~Onward(f).saving
         /\ IsCommand(NoCommand) /\ ~NoCommand.saving
<1>1. IsCommand(NoCommand) /\ ~NoCommand.saving
  BY DEF IsCommand, NoCommand, Files
<1>2. CASE Onward(f) = NoCommand
  BY <1>1, <1>2
<1>3. CASE Onward(f) # NoCommand
  <2> DEFINE x == [cmd EXCEPT !.at = NextFile[f], !.saving = FALSE, !.buf = {}]
  <2>1. Onward(f) = x /\ f # "tokens" /\ ~(f = "approvals" /\ cmd.op = "approve")
    BY <1>3 DEF Onward
  <2>2. NextFile[f] \in Files /\ (f = "clients" => NextFile[f] = "approvals")
    BY <2>1 DEF NextFile, Files
  <2>3. /\ x.op = cmd.op /\ x.client = cmd.client /\ x.at = NextFile[f] /\ ~x.saving
        /\ x.saving \in BOOLEAN /\ DOMAIN x = DOMAIN cmd
    BY DEF IsCommand
  <2>4. cmd.op = "approve" => f = "clients"
    BY <2>1 DEF IsCommand
  <2> HIDE DEF x
  <2>5. QED
    BY <1>1, <2>1, <2>2, <2>3, <2>4 DEF IsCommand
<1>4. QED
  BY <1>2, <1>3

\* A command that loads a file moves on or makes its copy.
LEMMA CommandLoadsFacts ==
  ASSUME IsCommand(cmd), NEW f \in Files, CommandLoads(f)
  PROVE  /\ IsCommand(cmd') /\ cmd.at = f
         /\ \/ ~cmd'.saving
            \/ /\ cmd'.saving /\ cmd'.at = f /\ cmd'.buf = Edited(f)
               /\ cmd'.op = cmd.op /\ cmd'.client = cmd.client
               /\ f = "clients" => Readable(f) /\ cmd.client \in disk.clients
               /\ f \in Strict => Readable(f)
<1>1. cmd.at = f
  BY DEF CommandLoads
<1>2. CASE cmd' \in {NoCommand, Onward(f)}
  BY <1>1, <1>2, OnwardFacts
<1>3. CASE cmd' \notin {NoCommand, Onward(f)}
  <2>1. /\ cmd' = [cmd EXCEPT !.saving = TRUE, !.buf = Edited(f)]
        /\ f = "clients" => Readable(f) /\ cmd.client \in disk.clients
        /\ f \in Strict => Readable(f)
    BY <1>3 DEF CommandLoads, Strict, Loaded
  <2>2. /\ cmd'.op = cmd.op /\ cmd'.client = cmd.client /\ cmd'.at = cmd.at
        /\ cmd'.saving = TRUE /\ cmd'.buf = Edited(f) /\ DOMAIN cmd' = DOMAIN cmd
    BY <2>1 DEF IsCommand
  <2>3. QED
    BY <1>1, <2>1, <2>2 DEF IsCommand
<1>4. QED
  BY <1>2, <1>3

\* One request or one access check at a time is between a load and the save
\* that follows it, whatever crashes and commands come between.
LEMMA MutexStep ==
  ASSUME Typed, Mutex, Next
  PROVE  Typed' /\ Mutex'
<1> USE NamesDistinct DEF Typed, Mutex, Requests, Locked, Registering, Unlocked, LoopFree,
        Hold, At, Quiet, Save, Release, Idle, files, requests, history, bounds, Files, NoBuf
<1>1. ASSUME NEW c \in Clients,
             \/ RegisterLoadsClients(c) \/ RegisterLoadsApprovals(c)
             \/ RegisterSavesFirst(c) \/ RegisterSavesSecond(c)
      PROVE  Typed' /\ Mutex'
  <2>1. CASE RegisterLoadsClients(c) \/ RegisterLoadsApprovals(c)
    BY <2>1 DEF RegisterLoadsClients, RegisterLoadsApprovals
  <2>2. CASE RegisterSavesFirst(c) \/ RegisterSavesSecond(c)
    BY <2>2 DEF RegisterSavesFirst, RegisterSavesSecond, RegisterOrder
  <2>3. QED
    BY <1>1, <2>1, <2>2
<1>2. ASSUME NEW k \in Codes, (\E c \in Clients : AuthorizeChecks(k, c)) \/ AuthorizeLoads(k)
      PROVE  Typed' /\ Mutex'
  BY <1>2 DEF AuthorizeChecks, AuthorizeLoads, Presents
<1>3. ASSUME NEW p \in Pairs, NEW k \in Codes, NEW c \in Clients, LoadCode(p, k, c)
      PROVE  Typed' /\ Mutex'
  BY <1>3 DEF LoadCode, Presents
<1>4. ASSUME NEW p \in Pairs, ExchangeCode(p)
      PROVE  Typed' /\ Mutex'
  BY <1>4 DEF ExchangeCode
<1>5. ASSUME NEW q \in Codes \cup Pairs, SaveCodes(q)
      PROVE  Typed' /\ Mutex'
  BY <1>5 DEF SaveCodes
<1>6. ASSUME NEW p \in Pairs, NEW r \in Pairs, NEW c \in Clients,
             LoadRefresh(p, r, c) \/ DetectReuse(p, r, c)
      PROVE  Typed' /\ Mutex'
  BY <1>6 DEF LoadRefresh, DetectReuse, RevokeReused, Presents
<1>7. ASSUME NEW p \in Pairs, ExchangeRefresh(p) \/ IssueLoads(p)
      PROVE  Typed' /\ Mutex'
  BY <1>7 DEF ExchangeRefresh, IssueLoads
<1>8. ASSUME NEW q \in Pairs \cup Probes, SaveTokens(q)
      PROVE  Typed' /\ Mutex'
  BY <1>8 DEF SaveTokens
<1>9. ASSUME NEW u \in Probes,
             \/ \E p \in Pairs : AccessLoads(u, p)
             \/ \E p \in Pairs, kind \in {"access", "refresh"} : RevokeFinds(u, p, kind)
             \/ AccessSaves(u) \/ RevokeLoads(u)
      PROVE  Typed' /\ Mutex'
  <2>1. CASE \E p \in Pairs : AccessLoads(u, p)
    BY <2>1 DEF AccessLoads
  <2>2. CASE \E p \in Pairs, kind \in {"access", "refresh"} : RevokeFinds(u, p, kind)
    BY <2>2 DEF RevokeFinds
  <2>3. CASE AccessSaves(u)
    BY <2>3 DEF AccessSaves
  <2>4. CASE RevokeLoads(u)
    BY <2>4 DEF RevokeLoads
  <2>5. QED
    BY <1>9, <2>1, <2>2, <2>3, <2>4
<1>10. CASE \/ Interrupted
            \/ \E op \in {"approve", "reject"}, c \in Clients : Command(op, c)
            \/ \E f \in Files : CommandLoads(f)
  <2>1. CASE Interrupted
    BY <2>1 DEF Interrupted, NoCommand, IsCommand
  <2>2. CASE \E op \in {"approve", "reject"}, c \in Clients : Command(op, c)
    BY <2>2 DEF Command, IsCommand
  <2>3. CASE \E f \in Files : CommandLoads(f)
    <3>1. IsCommand(cmd')
      BY <2>3, CommandLoadsFacts
    <3>2. UNCHANGED <<files, server, requests, legacy, overwritten>>
      BY <2>3 DEF CommandLoads
    <3>3. QED
      BY <3>1, <3>2
  <2>4. QED
    BY <1>10, <2>1, <2>2, <2>3
<1>11. CASE \E f \in Files : CommandSaves(f)
  BY <1>11, OnwardFacts DEF CommandSaves
<1>12. CASE Start \/ Migrate \/ Crash
  BY <1>12 DEF Start, Migrate, Crash
<1>13. CASE Tick \/ \E f \in Files : Corrupted(f) \/ Repaired(f)
  BY <1>13 DEF Tick, Corrupted, Repaired
<1>14. QED
  BY <1>1, <1>2, <1>3, <1>4, <1>5, <1>6, <1>7, <1>8, <1>9, <1>10, <1>11, <1>12, <1>13
     DEF Next
-----------------------------------------------------------------------------
(* What a step can do to the requests, the codes and the tokens.           *)

\* A request that has made its code or pair stays so and remembers its grant;
\* one that has it in its copy of the file keeps it there until it saves, or
\* the server crashes.
LEMMA MadeStays ==
  ASSUME Typed, Mutex, Next
  PROVE  /\ \A q \in Codes \cup Pairs : pc[q] = "issued" =>
                pc'[q] = "issued" /\ grant'[q] = grant[q]
         /\ \A q \in Codes \cup Pairs : pc[q] \in {"coding", "issuing"} =>
                pc'[q] = pc[q] \/ pc'[q] = "issued" \/ buf' = NoBuf
<1> USE NamesDistinct DEF Typed, Mutex, Requests, Locked, Registering, Unlocked, LoopFree,
        Hold, At, Quiet, Release, Idle, requests
<1>1. ASSUME NEW c \in Clients,
             \/ RegisterLoadsClients(c) \/ RegisterLoadsApprovals(c)
             \/ RegisterSavesFirst(c) \/ RegisterSavesSecond(c)
      PROVE  \A q \in Codes \cup Pairs : pc'[q] = pc[q] /\ grant'[q] = grant[q]
  BY <1>1 DEF RegisterLoadsClients, RegisterLoadsApprovals, RegisterSavesFirst,
     RegisterSavesSecond
<1>2. CASE \E k \in Codes : (\E c \in Clients : AuthorizeChecks(k, c)) \/ AuthorizeLoads(k)
  BY <1>2 DEF AuthorizeChecks, AuthorizeLoads, Presents
<1>3. CASE \E p \in Pairs : ExchangeCode(p) \/ \E k \in Codes, c \in Clients : LoadCode(p, k, c)
  BY <1>3 DEF ExchangeCode, LoadCode, Presents
<1>4. CASE \E q \in Codes \cup Pairs : SaveCodes(q)
  BY <1>4 DEF SaveCodes
<1>5. CASE \E p \in Pairs : \/ ExchangeRefresh(p) \/ IssueLoads(p)
                            \/ \E r \in Pairs, c \in Clients :
                                 LoadRefresh(p, r, c) \/ DetectReuse(p, r, c)
  <2>1. CASE \E p \in Pairs : ExchangeRefresh(p) \/ IssueLoads(p)
    BY <2>1 DEF ExchangeRefresh, IssueLoads
  <2>2. CASE \E p \in Pairs, r \in Pairs, c \in Clients :
               LoadRefresh(p, r, c) \/ DetectReuse(p, r, c)
    BY <2>2 DEF LoadRefresh, DetectReuse, RevokeReused, Presents
  <2>3. QED
    BY <1>5, <2>1, <2>2
<1>6. CASE \E q \in Pairs \cup Probes : SaveTokens(q)
  BY <1>6 DEF SaveTokens
<1>7. ASSUME NEW u \in Probes,
             \/ \E p \in Pairs : AccessLoads(u, p)
             \/ \E p \in Pairs, kind \in {"access", "refresh"} : RevokeFinds(u, p, kind)
             \/ AccessSaves(u) \/ RevokeLoads(u)
      PROVE  \A q \in Codes \cup Pairs : pc'[q] = pc[q] /\ grant'[q] = grant[q]
  <2>1. CASE AccessSaves(u) \/ RevokeLoads(u)
    BY <2>1 DEF AccessSaves, RevokeLoads
  <2>2. CASE \E p \in Pairs : AccessLoads(u, p)
    BY <2>2 DEF AccessLoads
  <2>3. CASE \E p \in Pairs, kind \in {"access", "refresh"} : RevokeFinds(u, p, kind)
    BY <2>3 DEF RevokeFinds
  <2>4. QED
    BY <1>7, <2>1, <2>2, <2>3
<1>8. CASE Crash
  BY <1>8 DEF Crash
<1>9. CASE \/ Interrupted \/ Start \/ Migrate \/ Tick
           \/ \E op \in {"approve", "reject"}, c \in Clients : Command(op, c)
           \/ \E f \in Files : \/ CommandLoads(f) \/ CommandSaves(f)
                               \/ Corrupted(f) \/ Repaired(f)
  <2>1. UNCHANGED <<pc, grant>>
    BY <1>9 DEF Interrupted, Start, Migrate, Tick, Command, CommandLoads, CommandSaves,
       Corrupted, Repaired
  <2>2. QED
    BY <2>1
<1>10. QED
  BY <1>1, <1>2, <1>3, <1>4, <1>5, <1>6, <1>7, <1>8, <1>9 DEF Next

\* A step that leaves codes.json, or tokens.json, alone: what is about
\* to be saved stays, is dropped or was loaded from the file.
LoadsCodes ==
  /\ disk'.codes = disk.codes
  /\ buf'.codes \subseteq buf.codes \cup disk.codes
  /\ CmdCopy("codes")' \subseteq CmdCopy("codes") \cup disk.codes
LoadsTokens ==
  /\ disk'.tokens = disk.tokens
  /\ buf'.tokens \subseteq buf.tokens \cup disk.tokens
  /\ tbuf' \subseteq tbuf \cup disk.tokens
  /\ CmdCopy("tokens")' \subseteq CmdCopy("tokens") \cup disk.tokens
Loads == LoadsCodes /\ LoadsTokens /\ UNCHANGED <<revoked, overwritten>>

\* What ExchangeRefresh does when it rotates r.
Rotates(p, r) ==
  /\ ExchangeRefresh(p) /\ r \in RefreshRec(grant[p]) /\ Live(r)
  /\ Hold(p, [NoBuf EXCEPT !.tokens = Rotated(Loaded("tokens"), r)], "rotating")

\* A step loads, or it mints, rotates or saves.
LEMMA FlowShape ==
  ASSUME Typed, Mutex, Next
  PROVE  \/ Loads
         \/ \E k \in Codes : AuthorizeLoads(k)
         \/ \E q \in Codes \cup Pairs : SaveCodes(q)
         \/ \E p \in Pairs : IssueLoads(p) \/ \E r \in RefreshRec(grant[p]) : Rotates(p, r)
         \/ \E q \in Pairs \cup Probes : SaveTokens(q)
         \/ \E u \in Probes : AccessSaves(u)
         \/ CommandSaves("codes") \/ CommandSaves("tokens")
<1> USE DEF Typed, Files, NoBuf, Hold, Quiet, Idle, Release, files, requests, history, Loaded,
        LoadsCodes, LoadsTokens
<1>1. CASE \E c \in Clients : \/ RegisterLoadsClients(c) \/ RegisterLoadsApprovals(c)
                              \/ RegisterSavesFirst(c) \/ RegisterSavesSecond(c)
  BY <1>1 DEF RegisterLoadsClients, RegisterLoadsApprovals, RegisterSavesFirst,
     RegisterSavesSecond, RegisterOrder, Save, Loads, CmdCopy
<1>2. CASE \E k \in Codes, c \in Clients : AuthorizeChecks(k, c)
  BY <1>2 DEF AuthorizeChecks, Loads, CmdCopy
<1>3. CASE \E p \in Pairs : ExchangeCode(p) \/ \E k \in Codes, c \in Clients : LoadCode(p, k, c)
  BY <1>3 DEF ExchangeCode, LoadCode, Without, Loads, CmdCopy
<1>4. CASE \E p \in Pairs, r \in Pairs, c \in Clients : LoadRefresh(p, r, c) \/ DetectReuse(p, r, c)
  BY <1>4 DEF LoadRefresh, DetectReuse, RevokeReused, Loads, CmdCopy
<1>5. CASE \E p \in Pairs : ExchangeRefresh(p)
  BY <1>5 DEF ExchangeRefresh, Rotates, Loads, CmdCopy
<1>6. CASE \E u \in Probes : \/ \E p \in Pairs : AccessLoads(u, p)
                             \/ \E p \in Pairs, kind \in {"access", "refresh"} :
                                  RevokeFinds(u, p, kind)
                             \/ RevokeLoads(u)
  <2>1. PICK u \in Probes : \/ \E p \in Pairs : AccessLoads(u, p)
                            \/ \E p \in Pairs, kind \in {"access", "refresh"} :
                                 RevokeFinds(u, p, kind)
                            \/ RevokeLoads(u)
    BY <1>6
  <2>2. CASE \E p \in Pairs : AccessLoads(u, p)
    BY <2>2 DEF AccessLoads, Loads, CmdCopy
  <2>3. CASE \E p \in Pairs, kind \in {"access", "refresh"} : RevokeFinds(u, p, kind)
    BY <2>3 DEF RevokeFinds, Loads, CmdCopy
  <2>4. CASE RevokeLoads(u)
    BY <2>4 DEF RevokeLoads, Loads, CmdCopy
  <2>5. QED
    BY <2>1, <2>2, <2>3, <2>4
<1>7. CASE \E f \in Files : CommandLoads(f)
  <2>1. PICK f \in Files : CommandLoads(f)
    BY <1>7
  <2>2. UNCHANGED <<disk, buf, tbuf, revoked, overwritten>>
    BY <2>1 DEF CommandLoads
  <2>3. \A g \in {"codes", "tokens"} : CmdCopy(g)' \subseteq CmdCopy(g) \cup disk[g]
    BY <2>1, CommandLoadsFacts DEF CmdCopy, Edited, IsCommand
  <2>4. QED
    BY <2>2, <2>3 DEF Loads
<1>8. CASE \E f \in {"clients", "approvals"} : CommandSaves(f)
  <2>1. PICK f \in {"clients", "approvals"} : CommandSaves(f)
    BY <1>8
  <2>2. /\ UNCHANGED <<buf, tbuf, revoked>> /\ overwritten' = overwritten
        /\ disk'.codes = disk.codes /\ disk'.tokens = disk.tokens
    BY <2>1 DEF CommandSaves, Save, Stale, Strict
  <2>3. \A g \in {"codes", "tokens"} : CmdCopy(g)' = {}
    BY <2>1, OnwardFacts DEF CommandSaves, CmdCopy
  <2>4. QED
    BY <2>2, <2>3 DEF Loads
<1>9. CASE Interrupted \/ \E op \in {"approve", "reject"}, c \in Clients : Command(op, c)
  BY <1>9 DEF Interrupted, Command, NoCommand, Loads, CmdCopy
<1>10. CASE Start \/ Migrate \/ Crash
  BY <1>10 DEF Start, Migrate, Crash, Save, Loads, CmdCopy
<1>11. CASE Tick \/ \E f \in Files : Corrupted(f) \/ Repaired(f)
  BY <1>11 DEF Tick, Corrupted, Repaired, Loads, CmdCopy
<1>12. QED
  BY <1>1, <1>2, <1>3, <1>4, <1>5, <1>6, <1>7, <1>8, <1>9, <1>10, <1>11 DEF Next

\* The same, seen from one file.
LEMMA CodesFlow ==
  ASSUME Typed, Mutex, Next
  PROVE  \/ LoadsCodes
         \/ \E k \in Codes : AuthorizeLoads(k)
         \/ \E q \in Codes \cup Pairs : SaveCodes(q)
         \/ CommandSaves("codes")
<1> USE DEF Typed, Files, NoBuf, Hold, Quiet, Idle, Release, files, history, Save, LoadsCodes, CmdCopy
<1>1. CASE \E p \in Pairs : IssueLoads(p) \/ \E r \in RefreshRec(grant[p]) : Rotates(p, r)
  <2>1. CASE \E p \in Pairs : IssueLoads(p)
    BY <2>1 DEF IssueLoads
  <2>2. CASE \E p \in Pairs : \E r \in RefreshRec(grant[p]) : Rotates(p, r)
    <3>1. UNCHANGED <<disk, cmd>> /\ buf'.codes = {}
      BY <2>2 DEF Rotates, ExchangeRefresh
    <3>2. QED
      BY <3>1
  <2>3. QED
    BY <1>1, <2>1, <2>2
<1>2. CASE (\E q \in Pairs \cup Probes : SaveTokens(q)) \/ \E u \in Probes : AccessSaves(u)
  BY <1>2 DEF SaveTokens, AccessSaves
<1>3. CASE CommandSaves("tokens")
  <2>1. CmdCopy("codes")' = {}
    BY <1>3, OnwardFacts DEF CommandSaves
  <2>2. disk'.codes = disk.codes /\ buf' = buf
    BY <1>3 DEF CommandSaves, requests
  <2>3. QED
    BY <2>1, <2>2
<1>4. QED
  BY <1>1, <1>2, <1>3, FlowShape DEF Loads

\* A step leaves tokens.json and the copies of it alone, loads it, or is one of
\* those that mint, rotate or save tokens.
LEMMA TokensFlow ==
  ASSUME Typed, Mutex, Next
  PROVE  \/ LoadsTokens
         \/ \E p \in Pairs : IssueLoads(p) \/ \E r \in RefreshRec(grant[p]) : Rotates(p, r)
         \/ \E q \in Pairs \cup Probes : SaveTokens(q)
         \/ \E u \in Probes : AccessSaves(u)
         \/ CommandSaves("tokens")
<1> USE DEF Typed, Files, NoBuf, Hold, Quiet, Idle, Release, files, history, Save, LoadsTokens, CmdCopy
<1>1. CASE (\E k \in Codes : AuthorizeLoads(k)) \/ \E q \in Codes \cup Pairs : SaveCodes(q)
  BY <1>1 DEF AuthorizeLoads, SaveCodes
<1>2. CASE CommandSaves("codes")
  <2>1. CmdCopy("tokens")' = {}
    BY <1>2, OnwardFacts DEF CommandSaves
  <2>2. disk'.tokens = disk.tokens /\ UNCHANGED <<buf, tbuf>>
    BY <1>2 DEF CommandSaves, requests
  <2>3. QED
    BY <2>1, <2>2
<1>3. QED
  BY <1>1, <1>2, FlowShape DEF Loads

\* No two records of a code differ, on disk or in a copy, and each was made by
\* its request.
LEMMA CodesStep ==
  ASSUME Typed, Mutex, CodesOwned, Next
  PROVE  CodesOwned'
<1> USE NamesDistinct DEF Typed, CodesOwned, StoredCodes, IsCode, Files, NoBuf
<1>1. CASE LoadsCodes
  BY <1>1, MadeStays DEF LoadsCodes
<1>2. CASE \E k \in Codes : AuthorizeLoads(k)
  BY <1>2, MadeStays DEF AuthorizeLoads, Hold, At, Quiet, files, CmdCopy, Loaded, Purged, Requests
<1>3. CASE \E q \in Codes \cup Pairs : SaveCodes(q)
  <2>1. PICK q \in Codes \cup Pairs : SaveCodes(q)
    BY <1>3
  <2>2. /\ disk'.codes = buf.codes /\ buf'.codes \in {buf.codes, {}} /\ cmd' = cmd
        /\ lock = q /\ (pc[q] = "coding" => pc'[q] = "issued")
    BY <2>1 DEF SaveCodes, Save, Release, At, Idle, Requests
  <2>3. \A r \in buf.codes : pc'[r.id] = "issued"
    BY <2>2, MadeStays DEF Mutex, Locked, Requests
  <2>4. QED
    BY <2>2, <2>3, MadeStays DEF CmdCopy
<1>4. CASE CommandSaves("codes")
  <2>1. /\ disk'.codes = CmdCopy("codes") /\ UNCHANGED <<buf, pc>>
    BY <1>4 DEF CommandSaves, Save, CmdCopy, requests
  <2>2. CmdCopy("codes")' = {}
    BY <1>4, OnwardFacts DEF CommandSaves, CmdCopy
  <2>3. QED
    BY <2>1, <2>2
<1>5. QED
  BY <1>1, <1>2, <1>3, <1>4, CodesFlow

\* A rotation keeps the other tokens as they are and adds nothing but markers,
\* of clients and pairs that were there.
LEMMA RotatedFacts ==
  ASSUME NEW toks, \A t \in toks : IsToken(t), NEW rec \in toks
  PROVE  \A t \in Rotated(toks, rec) :
           /\ IsToken(t)
           /\ \/ t \in toks /\ t # rec
              \/ t.kind = "spent" /\ \E s \in toks : s.id = t.id /\ s.client = t.client
<1> DEFINE old == Markers(toks, rec.client)
           family == now + RefreshTTL
           made == Marker(toks, rec, family)
<1>1. Rotated(toks, rec) =
        (toks \ (old \cup {rec})) \cup
          {[t EXCEPT !.exp = Max({@, family})] : t \in Newest(old \cup {made})}
  BY DEF Rotated
<1>2. \A m \in old : m \in toks /\ m.kind = "spent"
  BY DEF Markers
<1>3. IsToken(made) /\ made.kind = "spent" /\ made.id = rec.id /\ made.client = rec.client
  BY DEF Marker, IsToken
<1> HIDE DEF old, made, family
<1>4. Newest(old \cup {made}) \subseteq old \cup {made}
  BY DEF Newest
<1>5. ASSUME NEW m \in old \cup {made}, NEW t, NEW e, t = [m EXCEPT !.exp = e]
      PROVE  IsToken(t) /\ t.kind = "spent" /\ \E s \in toks : s.id = t.id /\ s.client = t.client
  <2>1. IsToken(m) /\ m.kind = "spent" /\ \E s \in toks : s.id = m.id /\ s.client = m.client
    BY <1>2, <1>3
  <2>2. IsToken(t) /\ t.kind = m.kind /\ t.id = m.id /\ t.client = m.client
    BY <1>5, <2>1 DEF IsToken
  <2>3. QED
    BY <2>1, <2>2
<1>6. ASSUME NEW t \in {[m EXCEPT !.exp = Max({@, family})] : m \in Newest(old \cup {made})}
      PROVE  IsToken(t) /\ t.kind = "spent" /\ \E s \in toks : s.id = t.id /\ s.client = t.client
  <2>1. PICK m \in Newest(old \cup {made}) : t = [m EXCEPT !.exp = Max({m.exp, family})]
    OBVIOUS
  <2>2. QED
    BY <1>4, <1>5, <2>1
<1>7. QED
  BY <1>1, <1>6

\* The same of the tokens: a rotation leaves the others as they are, and a pair is
\* minted once.
LEMMA TokensStep ==
  ASSUME Typed, Mutex, TokensOwned, Next
  PROVE  TokensOwned'
<1> USE NamesDistinct DEF Typed, TokensOwned, StoredTokens, Files, NoBuf
<1>1. CASE LoadsTokens
  <2>1. /\ StoredTokens' \subseteq StoredTokens
        /\ buf'.tokens \subseteq buf.tokens \cup StoredTokens
    BY <1>1 DEF LoadsTokens
  <2>2. QED
    BY <2>1, MadeStays DEF IsToken
<1>2. CASE \E p \in Pairs : IssueLoads(p)
  <2>1. PICK p \in Pairs : IssueLoads(p)
    BY <1>2
  <2> DEFINE a == Token("access", p, who[p], now + AccessTTL)
             r == Token("refresh", p, who[p], now + RefreshTTL)
  <2>2. /\ UNCHANGED <<disk, cmd, tbuf>> /\ pc[p] = "issue" /\ pc'[p] = "issuing"
        /\ buf'.tokens \subseteq disk.tokens \cup {a, r}
    BY <2>1 DEF IssueLoads, Hold, At, Quiet, files, Issued, Purged, Loaded, Requests
  <2>3. /\ IsToken(a) /\ a.kind = "access" /\ a.id = p
        /\ IsToken(r) /\ r.kind = "refresh" /\ r.id = p
    BY <2>2 DEF Token, IsToken
  <2> HIDE DEF a, r
  <2>4. \A t \in StoredTokens : t.id # p
    BY <2>2
  <2>5. StoredTokens' = StoredTokens
    BY <2>2 DEF CmdCopy
  <2>6. \A t, s \in StoredTokens \cup {a, r} : t.kind # "spent" /\ Key(t) = Key(s) => t = s
    BY <2>3, <2>4 DEF Key
  <2>7. QED
    BY <2>2, <2>3, <2>5, <2>6, MadeStays DEF IsToken
<1>3. CASE \E p \in Pairs : \E x \in RefreshRec(grant[p]) : Rotates(p, x)
  <2>0. PICK p \in Pairs : \E x \in RefreshRec(grant[p]) : Rotates(p, x)
    BY <1>3
  <2>1. PICK x \in RefreshRec(grant[p]) : Rotates(p, x)
    BY <2>0
  <2>2. /\ UNCHANGED <<disk, cmd, tbuf>>
        /\ buf'.tokens = Rotated(Loaded("tokens"), x) /\ x \in Loaded("tokens")
    BY <2>1 DEF Rotates, ExchangeRefresh, Hold, Quiet, files, RefreshRec, Find
  <2>3. Loaded("tokens") \subseteq disk.tokens
    BY DEF Loaded
  <2>4. \A t \in buf'.tokens :
          /\ IsToken(t)
          /\ t \in disk.tokens \/ (t.kind = "spent" /\ \E s \in disk.tokens : s.id = t.id)
    BY <2>2, <2>3, RotatedFacts
  <2>5. StoredTokens' = StoredTokens
    BY <2>2 DEF CmdCopy
  <2>6. QED
    BY <2>4, <2>5, MadeStays DEF IsToken, Key
<1>4. CASE \E q \in Pairs \cup Probes : SaveTokens(q)
  <2>1. PICK q \in Pairs \cup Probes : SaveTokens(q)
    BY <1>4
  <2>2. /\ disk'.tokens = buf.tokens /\ buf'.tokens \in {buf.tokens, {}}
        /\ UNCHANGED <<cmd, tbuf>>
        /\ lock = q /\ (pc[q] = "issuing" => pc'[q] = "issued")
    BY <2>1 DEF SaveTokens, Save, Release, At, Idle, Requests
  <2>3. \A t \in buf.tokens : pc'[t.id] = "issued"
    BY <2>2, MadeStays DEF Mutex, Locked, Requests, IsToken
  <2>4. QED
    BY <2>2, <2>3, MadeStays DEF CmdCopy, IsToken
<1>5. CASE \E u \in Probes : AccessSaves(u)
  <2>1. disk'.tokens = tbuf /\ tbuf' = {} /\ UNCHANGED <<buf, cmd>>
    BY <1>5 DEF AccessSaves, Save, Idle
  <2>2. QED
    BY <2>1, MadeStays DEF CmdCopy, IsToken
<1>6. CASE CommandSaves("tokens")
  <2>1. disk'.tokens = CmdCopy("tokens") /\ UNCHANGED <<buf, tbuf, pc>>
    BY <1>6 DEF CommandSaves, Save, CmdCopy, requests
  <2>2. CmdCopy("tokens")' = {}
    BY <1>6, OnwardFacts DEF CommandSaves, CmdCopy
  <2>3. QED
    BY <2>1, <2>2
<1>7. QED
  BY <1>1, <1>2, <1>3, <1>4, <1>5, <1>6, TokensFlow

-----------------------------------------------------------------------------
(* Grants.                                                                 *)

\* How a token request comes by its grant and moves towards its pair: it
\* consumes the grant when it saves the file without it.
LEMMA UseShape ==
  ASSUME Typed, Mutex, Next, NEW p \in Pairs
  PROVE  /\ \/ grant'[p] \in {grant[p], None}
            \/ \E k \in Codes, c \in Clients : LoadCode(p, k, c) /\ grant'[p] = k
            \/ \E r \in Pairs, c \in Clients :
                 (LoadRefresh(p, r, c) \/ DetectReuse(p, r, c)) /\ grant'[p] = r
         /\ Used(p)' => /\ grant'[p] = grant[p]
                        /\ \/ Used(p)
                           \/ pc[p] = "spending" /\ SaveCodes(p)
                           \/ pc[p] = "rotating" /\ SaveTokens(p)
         /\ pc'[p] = "spending" => /\ grant'[p] = grant[p]
                                   /\ (pc[p] = "spending" /\ buf' = buf) \/ ExchangeCode(p)
         /\ pc'[p] = "rotating" =>
              /\ grant'[p] = grant[p]
              /\ \/ pc[p] = "rotating" /\ buf' = buf
                 \/ \E r \in RefreshRec(grant[p]) : Rotates(p, r)
<1> USE NamesDistinct DEF Typed, Mutex, Requests, Locked, Registering, Unlocked, LoopFree,
        Hold, At, Quiet, Release, Idle, requests, Used
<1>1. ASSUME NEW c \in Clients,
             \/ RegisterLoadsClients(c) \/ RegisterLoadsApprovals(c)
             \/ RegisterSavesFirst(c) \/ RegisterSavesSecond(c)
      PROVE  UNCHANGED <<pc[p], grant[p]>> /\ pc[p] \notin {"spending", "rotating"}
  BY <1>1 DEF RegisterLoadsClients, RegisterLoadsApprovals, RegisterSavesFirst,
     RegisterSavesSecond
<1>2. ASSUME NEW k \in Codes, (\E c \in Clients : AuthorizeChecks(k, c)) \/ AuthorizeLoads(k)
      PROVE  UNCHANGED <<pc[p], grant[p]>> /\ pc[p] \notin {"spending", "rotating"}
  BY <1>2 DEF AuthorizeChecks, AuthorizeLoads, Presents
<1>3. CASE \E x \in Pairs : ExchangeCode(x) \/ \E k \in Codes, c \in Clients : LoadCode(x, k, c)
  BY <1>3, SMTT(30) DEF ExchangeCode, LoadCode, Presents
<1>4. CASE \E q \in Codes \cup Pairs : SaveCodes(q)
  BY <1>4 DEF SaveCodes
<1>5. CASE \E x \in Pairs : ExchangeRefresh(x) \/ IssueLoads(x)
  <2>1. CASE IssueLoads(p)
    BY <2>1 DEF IssueLoads
  <2>2. CASE \E x \in Pairs \ {p} : ExchangeRefresh(x) \/ IssueLoads(x)
    <3>1. UNCHANGED <<pc[p], grant[p]>> /\ pc[p] \notin {"spending", "rotating"}
      BY <2>2 DEF ExchangeRefresh, IssueLoads
    <3>2. QED
      BY <3>1
  <2>3. CASE ExchangeRefresh(p)
    <3> HIDE DEF At
    <3>1. \/ At(p, "ended") \/ At(p, "dropping")
          \/ At(p, "rotating") /\ \E r \in RefreshRec(grant[p]) : Rotates(p, r)
      BY <2>3 DEF ExchangeRefresh, Rotates
    <3>2. /\ \/ pc'[p] \in {"ended", "dropping"}
             \/ pc'[p] = "rotating" /\ \E r \in RefreshRec(grant[p]) : Rotates(p, r)
          /\ grant'[p] = IF pc'[p] = "ended" THEN None ELSE grant[p]
      BY <3>1 DEF At
    <3>3. QED
      BY <3>2
  <2>4. QED
    BY <1>5, <2>1, <2>2, <2>3
<1>6. CASE \E x \in Pairs, r \in Pairs, c \in Clients :
             LoadRefresh(x, r, c) \/ DetectReuse(x, r, c)
  <2>1. PICK x \in Pairs, r \in Pairs, c \in Clients :
          LoadRefresh(x, r, c) \/ DetectReuse(x, r, c)
    BY <1>6
  <2>2. CASE LoadRefresh(x, r, c)
    BY <2>2 DEF LoadRefresh, Presents
  <2>3. CASE DetectReuse(x, r, c)
    BY <2>3 DEF DetectReuse, RevokeReused, Presents
  <2>4. QED
    BY <2>1, <2>2, <2>3
<1>7. CASE \E q \in Pairs \cup Probes : SaveTokens(q)
  BY <1>7 DEF SaveTokens
<1>8. ASSUME NEW u \in Probes,
             \/ \E x \in Pairs : AccessLoads(u, x)
             \/ \E x \in Pairs, kind \in {"access", "refresh"} : RevokeFinds(u, x, kind)
             \/ AccessSaves(u) \/ RevokeLoads(u)
      PROVE  UNCHANGED <<pc[p], grant[p]>> /\ (pc[p] \in {"spending", "rotating"} => buf' = buf)
  <2>1. CASE AccessSaves(u)
    BY <2>1 DEF AccessSaves
  <2>2. CASE RevokeLoads(u)
    BY <2>2 DEF RevokeLoads
  <2>3. CASE \E x \in Pairs : AccessLoads(u, x)
    BY <2>3 DEF AccessLoads
  <2>4. CASE \E x \in Pairs, kind \in {"access", "refresh"} : RevokeFinds(u, x, kind)
    BY <2>4 DEF RevokeFinds
  <2>5. QED
    BY <1>8, <2>1, <2>2, <2>3, <2>4
<1>9. CASE Crash
  BY <1>9 DEF Crash
<1>10. CASE Start \/ Migrate
  BY <1>10 DEF Start, Migrate
<1>11. CASE \/ Interrupted \/ Tick
            \/ \E op \in {"approve", "reject"}, c \in Clients : Command(op, c)
            \/ \E f \in Files : \/ CommandLoads(f) \/ CommandSaves(f)
                                \/ Corrupted(f) \/ Repaired(f)
  <2>1. UNCHANGED <<pc, grant, buf>>
    BY <1>11 DEF Interrupted, Tick, Command, CommandLoads, CommandSaves, Corrupted, Repaired
  <2>2. QED
    BY <2>1
<1>12. QED
  BY <1>1, <1>2, <1>3, <1>4, <1>5, <1>6, <1>7, <1>8, <1>9, <1>10, <1>11 DEF Next

\* A request presents only a code or token that was made.
LEMMA PresentedStep ==
  ASSUME Typed, Mutex, CodesOwned, TokensOwned, Presented, Next
  PROVE  Presented'
<1> SUFFICES ASSUME NEW p \in Pairs, grant'[p] # None
             PROVE  pc'[grant'[p]] = "issued"
  BY DEF Presented
<1>1. CASE grant'[p] = grant[p]
  BY <1>1, MadeStays DEF Presented, Typed
<1>2. CASE \E k \in Codes, c \in Clients : LoadCode(p, k, c) /\ grant'[p] = k
  <2>1. PICK k \in Codes, c \in Clients : LoadCode(p, k, c) /\ grant'[p] = k
    BY <1>2
  <2>2. \E r \in disk.codes : r.id = k
    BY <2>1 DEF LoadCode, OwnCode, Loaded
  <2>3. QED
    BY <2>1, <2>2, MadeStays DEF CodesOwned, StoredCodes
<1>3. CASE \E r \in Pairs, c \in Clients :
             (LoadRefresh(p, r, c) \/ DetectReuse(p, r, c)) /\ grant'[p] = r
  <2>1. PICK r \in Pairs, c \in Clients :
               (LoadRefresh(p, r, c) \/ DetectReuse(p, r, c)) /\ grant'[p] = r
    BY <1>3
  <2>2. \E t \in disk.tokens : t.id = r
    BY <2>1 DEF LoadRefresh, DetectReuse, RevokeReused, RefreshRec, Find, Key, Loaded
  <2>3. QED
    BY <2>1, <2>2, MadeStays DEF TokensOwned, StoredTokens
<1>4. QED
  BY <1>1, <1>2, <1>3, UseShape

\* A grant that is gone from the files and from every copy stays gone, unless a
\* command overwrites the server's change.
LEMMA GoneStays ==
  ASSUME Typed, Mutex, CodesOwned, TokensOwned, Next, ~overwritten',
         NEW g \in Codes \cup Pairs, pc[g] = "issued", Gone(g)
  PROVE  Gone(g)'
<1> USE DEF Typed, Files, NoBuf
<1>1. /\ \A r \in disk.codes \cup buf.codes : r.id # g
      /\ \A t \in disk.tokens \cup buf.tokens \cup tbuf : t.kind = "refresh" => t.id # g
  BY DEF Gone, GoneFrom
<1>2. \A r \in disk'.codes \cup buf'.codes : r.id # g
  <2>1. CASE LoadsCodes
    BY <1>1, <2>1 DEF LoadsCodes
  <2>2. CASE \E k \in Codes : AuthorizeLoads(k)
    BY <1>1, <2>2 DEF AuthorizeLoads, Hold, Quiet, files, Purged, Loaded
  <2>3. CASE \E q \in Codes \cup Pairs : SaveCodes(q)
    BY <1>1, <2>3 DEF SaveCodes, Save, Release, Idle
  <2>4. CASE CommandSaves("codes")
    <3>1. cmd.buf = Edited("codes") /\ disk'.codes = cmd.buf /\ buf' = buf
      BY <2>4 DEF CommandSaves, Save, Stale, Strict, requests
    <3>2. Edited("codes") \subseteq disk.codes
      BY DEF Edited, Loaded
    <3>3. QED
      BY <1>1, <3>1, <3>2
  <2>5. QED
    BY <2>1, <2>2, <2>3, <2>4, CodesFlow
<1>3. \A t \in disk'.tokens \cup buf'.tokens \cup tbuf' : t.kind = "refresh" => t.id # g
  <2>1. CASE LoadsTokens
    BY <1>1, <2>1 DEF LoadsTokens
  <2>2. CASE \E p \in Pairs : IssueLoads(p)
    BY <1>1, <2>2 DEF IssueLoads, Hold, Quiet, files, Issued, Token, Purged, Loaded
  <2>3. CASE \E p \in Pairs : \E x \in RefreshRec(grant[p]) : Rotates(p, x)
    <3>1. PICK p \in Pairs : \E x \in RefreshRec(grant[p]) : Rotates(p, x)
      BY <2>3
    <3>2. PICK x \in RefreshRec(grant[p]) : Rotates(p, x)
      BY <3>1
    <3>3. /\ UNCHANGED <<disk, tbuf>> /\ x \in Loaded("tokens")
          /\ buf'.tokens = Rotated(Loaded("tokens"), x)
      BY <3>2 DEF Rotates, ExchangeRefresh, Hold, Quiet, files, RefreshRec, Find
    <3>4. Loaded("tokens") \subseteq disk.tokens /\ \A t \in disk.tokens : IsToken(t)
      BY DEF Loaded, TokensOwned, StoredTokens
    <3>5. \A t \in buf'.tokens : t \in disk.tokens \/ t.kind = "spent"
      BY <3>3, <3>4, RotatedFacts
    <3>6. QED
      BY <1>1, <3>3, <3>5
  <2>4. CASE \E q \in Pairs \cup Probes : SaveTokens(q)
    BY <1>1, <2>4 DEF SaveTokens, Save, Release, Idle
  <2>5. CASE \E u \in Probes : AccessSaves(u)
    BY <1>1, <2>5 DEF AccessSaves, Save, Idle
  <2>6. CASE CommandSaves("tokens")
    <3>1. cmd.buf = Edited("tokens") /\ disk'.tokens = cmd.buf /\ UNCHANGED <<buf, tbuf>>
      BY <2>6 DEF CommandSaves, Save, Stale, Strict, requests
    <3>2. Edited("tokens") \subseteq disk.tokens
      BY DEF Edited, Loaded
    <3>3. QED
      BY <1>1, <3>1, <3>2
  <2>7. QED
    BY <2>1, <2>2, <2>3, <2>4, <2>5, <2>6, TokensFlow
<1>4. QED
  BY <1>2, <1>3 DEF Gone, GoneFrom

\* The exchange that takes a grant out of the file finds it there, so nobody has
\* used it, and its copy has it no more.
LEMMA TakenOut ==
  ASSUME Inv, Next, ~overwritten, NEW p \in Pairs,
         (ExchangeCode(p) /\ pc'[p] = "spending") \/ \E x \in RefreshRec(grant[p]) : Rotates(p, x)
  PROVE  /\ ~Gone(grant[p])
         /\ GoneFrom(buf'.codes, buf'.tokens, grant[p])
         /\ pc'[p] = "spending" => grant[p] \in Codes
         /\ pc'[p] = "rotating" => grant[p] \in Pairs
<1> USE NamesDistinct DEF Inv, Typed, Files, NoBuf
<1>1. CASE ExchangeCode(p) /\ pc'[p] = "spending"
  <2>1. /\ grant[p] \in Codes
        /\ \E r \in OwnCode(grant[p], who[p]) :
             buf' = [NoBuf EXCEPT !.codes = Without(Loaded("codes"), r)]
    BY <1>1 DEF ExchangeCode, Hold, At, Requests
  <2>2. PICK r \in OwnCode(grant[p], who[p]) :
          buf' = [NoBuf EXCEPT !.codes = Without(Loaded("codes"), r)]
    BY <2>1
  <2>3. /\ r \in disk.codes /\ r.id = grant[p] /\ buf'.tokens = {}
        /\ buf'.codes \subseteq disk.codes \ {r}
    BY <2>2 DEF OwnCode, Loaded, Without
  <2>4. \A s \in buf'.codes : s.id # grant[p]
    BY <2>3 DEF CodesOwned, StoredCodes
  <2>5. QED
    BY <1>1, <2>1, <2>3, <2>4 DEF Gone, GoneFrom
<1>2. CASE \E x \in RefreshRec(grant[p]) : Rotates(p, x)
  <2>1. PICK x \in RefreshRec(grant[p]) : Rotates(p, x)
    BY <1>2
  <2>2. /\ x \in Loaded("tokens") /\ x.kind = "refresh" /\ x.id = grant[p]
        /\ buf'.tokens = Rotated(Loaded("tokens"), x) /\ buf'.codes = {}
        /\ grant[p] \in Pairs /\ pc'[p] = "rotating"
    BY <2>1 DEF Rotates, ExchangeRefresh, Hold, At, RefreshRec, Find, Key, Requests
  <2>3. Loaded("tokens") \subseteq disk.tokens /\ \A t \in disk.tokens : IsToken(t)
    BY DEF Loaded, TokensOwned, StoredTokens
  <2>4. \A t \in buf'.tokens : (t \in disk.tokens /\ t # x) \/ t.kind = "spent"
    BY <2>2, <2>3, RotatedFacts
  <2>5. \A t \in disk.tokens : t.kind = "refresh" /\ t.id = grant[p] => t = x
    BY <2>2, <2>3 DEF TokensOwned, StoredTokens, Key
  <2>6. QED
    BY <2>2, <2>3, <2>4, <2>5 DEF Gone, GoneFrom
<1>3. QED
  BY <1>1, <1>2

\* A grant that a request has used is gone, in the next state too: it was gone
\* before, or the request saves the file without it now.
LEMMA UsedIsGone ==
  ASSUME Inv, Next, ~overwritten, ~overwritten', NEW p \in Pairs, Used(p)'
  PROVE  Gone(grant[p])'
<1> USE NamesDistinct DEF Inv, Typed, Files, NoBuf
<1>1. grant'[p] = grant[p] /\ grant[p] \in Codes \cup Pairs
  BY UseShape DEF Used
<1>2. PICK g \in Codes \cup Pairs : g = grant[p]
  BY <1>1
<1>3. CASE Used(p)
  <2>1. Gone(g) /\ pc[g] = "issued"
    BY <1>2, <1>3 DEF Spent, Presented, Used
  <2>2. Gone(g)'
    BY <2>1, GoneStays
  <2>3. QED
    BY <1>1, <1>2, <2>2 DEF Gone, GoneFrom
<1>4. CASE pc[p] = "spending" /\ SaveCodes(p)
  <2>1. /\ disk'.codes = buf.codes /\ disk'.tokens = disk.tokens
        /\ buf' = buf /\ tbuf' = tbuf /\ lock = p
    BY <1>4 DEF SaveCodes, Save, Idle
  <2>2. tbuf = {}
    BY <2>1 DEF Mutex, Requests
  <2>3. g \in Codes /\ GoneFrom(buf.codes, buf.tokens, g)
    BY <1>2, <1>4 DEF Spent
  <2>4. \A t \in disk.tokens : t.id # g
    BY <2>3 DEF TokensOwned, StoredTokens, IsToken
  <2>5. QED
    BY <1>1, <1>2, <2>1, <2>2, <2>3, <2>4 DEF Gone, GoneFrom
<1>5. CASE pc[p] = "rotating" /\ SaveTokens(p)
  <2>1. /\ disk'.codes = disk.codes /\ disk'.tokens = buf.tokens
        /\ buf' = buf \/ buf' = NoBuf
        /\ tbuf' = tbuf /\ lock = p
    BY <1>5 DEF SaveTokens, Save, Release, Idle
  <2>2. tbuf = {}
    BY <2>1 DEF Mutex, Requests
  <2>3. g \in Pairs /\ GoneFrom(buf.codes, buf.tokens, g)
    BY <1>2, <1>5 DEF Spent
  <2>4. \A r \in disk.codes : r.id # g
    BY <2>3 DEF CodesOwned, StoredCodes, IsCode
  <2>5. QED
    BY <1>1, <1>2, <2>1, <2>2, <2>3, <2>4 DEF Gone, GoneFrom
<1>6. QED
  BY <1>3, <1>4, <1>5, UseShape

\* Spent is preserved: a grant enters use only from a copy of the file that no
\* longer has it, made while no other request had used it.
LEMMA SpentStep ==
  ASSUME Inv, Next
  PROVE  Spent'
<1> SUFFICES ASSUME ~overwritten', NEW p \in Pairs
             PROVE  /\ Used(p)' => Gone(grant[p])'
                    /\ pc'[p] = "spending" =>
                         grant'[p] \in Codes /\ GoneFrom(buf'.codes, buf'.tokens, grant'[p])
                    /\ pc'[p] = "rotating" =>
                         grant'[p] \in Pairs /\ GoneFrom(buf'.codes, buf'.tokens, grant'[p])
                    /\ \A q \in Pairs :
                         Used(q)' /\ grant'[q] = grant'[p] /\
                         (Used(p)' \/ pc'[p] \in {"spending", "rotating"}) => p = q
  BY DEF Spent, Gone, GoneFrom, Used
<1>1. ~overwritten
  <2>1. overwritten' = overwritten \/ \E f \in Files : CommandSaves(f)
    BY FlowShape DEF Inv, Loads, AuthorizeLoads, SaveCodes, IssueLoads, Rotates, ExchangeRefresh,
       SaveTokens, AccessSaves, Quiet, history, Files
  <2>2. QED
    BY <2>1 DEF CommandSaves, Inv, Typed
<1>2. Typed' /\ Mutex'
  BY MutexStep DEF Inv
<1>3. ASSUME NEW x \in Pairs, pc'[x] \in {"spending", "rotating"}
      PROVE  /\ grant'[x] = grant[x]
             /\ \/ pc'[x] = pc[x] /\ buf' = buf
                \/ ExchangeCode(x) /\ pc'[x] = "spending"
                \/ \E r \in RefreshRec(grant[x]) : Rotates(x, r)
  BY <1>3, UseShape DEF Inv
<1>4. ASSUME NEW x \in Pairs, pc'[x] \in {"spending", "rotating"}
      PROVE  /\ pc'[x] = "spending" => grant'[x] \in Codes
             /\ pc'[x] = "rotating" => grant'[x] \in Pairs
             /\ GoneFrom(buf'.codes, buf'.tokens, grant'[x])
  <2>1. CASE pc'[x] = pc[x] /\ buf' = buf
    BY <1>1, <1>3, <1>4, <2>1 DEF Inv, Spent
  <2>2. QED
    BY <1>1, <1>3, <1>4, <2>1, TakenOut
<1>5. ASSUME NEW q \in Pairs, Used(q)', grant'[q] = grant'[p],
             Used(p)' \/ pc'[p] \in {"spending", "rotating"}
      PROVE  p = q
  <2>1. grant'[q] = grant[q] /\ grant'[p] = grant[p] /\ grant[p] = grant[q]
    BY <1>3, <1>5, UseShape DEF Inv
  <2>2. CASE Used(p) \/ pc'[p] = pc[p]
    <3>1. Used(p) \/ pc[p] \in {"spending", "rotating"}
      BY <1>5, <2>1, <2>2 DEF Used
    <3>2. CASE Used(q)
      BY <1>1, <2>1, <3>1, <3>2 DEF Inv, Spent
    <3>3. CASE ~Used(q)
      <4>1. pc[q] \in {"spending", "rotating"} /\ lock = q /\ (SaveCodes(q) \/ SaveTokens(q))
        BY <1>5, <3>3, UseShape DEF Inv, SaveCodes, SaveTokens
      <4>2. CASE Used(p)
        BY <1>1, <2>1, <4>1, <4>2 DEF Inv, Spent
      <4>3. CASE pc[p] \in {"spending", "rotating"}
        BY <4>1, <4>3 DEF Inv, Mutex, Locked, Requests
      <4>4. QED
        BY <3>1, <4>2, <4>3
    <3>4. QED
      BY <3>2, <3>3
  <2>3. CASE Used(p)' /\ ~Used(p)
    <3>1. pc[p] \in {"spending", "rotating"} /\ lock = p /\ (SaveCodes(p) \/ SaveTokens(p))
      BY <2>3, UseShape DEF Inv, SaveCodes, SaveTokens
    <3>2. CASE Used(q)
      BY <1>1, <2>1, <3>1, <3>2 DEF Inv, Spent
    <3>3. CASE ~Used(q)
      <4>1. lock = q
        BY <1>5, <3>3, UseShape DEF Inv, SaveCodes, SaveTokens
      <4>2. QED
        BY <3>1, <4>1
    <3>4. QED
      BY <3>2, <3>3
  <2>4. CASE pc'[p] \in {"spending", "rotating"} /\ pc'[p] # pc[p]
    <3>1. (ExchangeCode(p) /\ pc'[p] = "spending") \/ \E r \in RefreshRec(grant[p]) : Rotates(p, r)
      BY <1>3, <2>4
    <3>2. ~Gone(grant[p]) /\ lock = None
      BY <1>1, <3>1, TakenOut DEF Rotates, ExchangeCode, ExchangeRefresh, Unlocked, LoopFree
    <3>3. Used(q)
      BY <1>5, <3>2, UseShape, NamesDistinct DEF Inv, SaveCodes, SaveTokens
    <3>4. QED
      BY <1>1, <2>1, <3>2, <3>3 DEF Inv, Spent
  <2>5. QED
    BY <1>5, <2>2, <2>3, <2>4
<1>6. QED
  BY <1>1, <1>4, <1>5, UsedIsGone

-----------------------------------------------------------------------------
(* Revocation.                                                             *)

\* Dead is preserved: a revocation saves what it took out of the file under the
\* lock, and no other copy still has it.
LEMMA DeadStep ==
  ASSUME Inv, Next
  PROVE  Dead'
<1> USE NamesDistinct DEF Inv, Typed, Files, NoBuf
<1>1. \A x \in revoked : \E p \in Pairs :
        x \in {<<"access", p>>, <<"refresh", p>>} /\ pc'[p] = "issued"
  BY MadeStays DEF Dead
<1>2. \A t \in disk.tokens : t.kind # "spent" =>
        \E p \in Pairs : Key(t) \in {<<"access", p>>, <<"refresh", p>>} /\ pc'[p] = "issued"
  BY MadeStays DEF TokensOwned, StoredTokens, IsToken, Key
<1>3. CASE revoked' = revoked
  <2>1. CASE overwritten'
    BY <1>1, <1>3, <2>1 DEF Dead
  <2> SUFFICES ASSUME ~overwritten'
               PROVE  \A t \in disk'.tokens \cup buf'.tokens \cup tbuf' : Key(t) \notin revoked
    BY <1>1, <1>3, <2>1 DEF Dead
  <2>2. ~overwritten
    <3>1. overwritten' = overwritten \/ \E f \in Files : CommandSaves(f)
      BY FlowShape DEF Loads, AuthorizeLoads, SaveCodes, IssueLoads, Rotates, ExchangeRefresh,
         SaveTokens, AccessSaves, Quiet, history
    <3>2. QED
      BY <3>1 DEF CommandSaves
  <2>3. \A t \in disk.tokens \cup buf.tokens \cup tbuf : Key(t) \notin revoked
    BY <2>2 DEF Dead
  <2>4. CASE LoadsTokens
    BY <2>3, <2>4 DEF LoadsTokens
  <2>5. CASE \E p \in Pairs : IssueLoads(p)
    <3>1. PICK p \in Pairs : IssueLoads(p)
      BY <2>5
    <3>2. /\ UNCHANGED <<disk, tbuf>> /\ pc[p] = "issue"
          /\ \A t \in buf'.tokens : t \in disk.tokens \/ t.id = p
      BY <3>1 DEF IssueLoads, Hold, Quiet, files, Issued, Token, Purged, Loaded
    <3>3. \A t : t.id = p => Key(t) \notin revoked
      BY <3>2 DEF Dead, Key
    <3>4. QED
      BY <2>3, <3>2, <3>3
  <2>6. CASE \E p \in Pairs : \E x \in RefreshRec(grant[p]) : Rotates(p, x)
    <3>1. PICK p \in Pairs : \E x \in RefreshRec(grant[p]) : Rotates(p, x)
      BY <2>6
    <3>2. PICK x \in RefreshRec(grant[p]) : Rotates(p, x)
      BY <3>1
    <3>3. /\ UNCHANGED <<disk, tbuf>> /\ x \in Loaded("tokens")
          /\ buf'.tokens = Rotated(Loaded("tokens"), x)
      BY <3>2 DEF Rotates, ExchangeRefresh, Hold, Quiet, files, RefreshRec, Find
    <3>4. Loaded("tokens") \subseteq disk.tokens /\ \A t \in disk.tokens : IsToken(t)
      BY DEF Loaded, TokensOwned, StoredTokens
    <3>5. \A t \in buf'.tokens : t \in disk.tokens \/ t.kind = "spent"
      BY <3>3, <3>4, RotatedFacts
    <3>6. \A t : t.kind = "spent" => Key(t) \notin revoked
      BY DEF Dead, Key
    <3>7. QED
      BY <2>3, <3>3, <3>5, <3>6
  <2>7. CASE \E q \in Pairs \cup Probes : SaveTokens(q)
    BY <2>3, <2>7 DEF SaveTokens, Save, Release, Idle
  <2>8. CASE \E u \in Probes : AccessSaves(u)
    BY <2>3, <2>8 DEF AccessSaves, Save, Idle
  <2>9. CASE CommandSaves("tokens")
    <3>1. cmd.buf = Edited("tokens") /\ disk'.tokens = cmd.buf /\ UNCHANGED <<buf, tbuf>>
      BY <2>9 DEF CommandSaves, Save, Stale, Strict, requests
    <3>2. Edited("tokens") \subseteq disk.tokens
      BY DEF Edited, Loaded
    <3>3. QED
      BY <2>3, <3>1, <3>2
  <2>10. QED
    BY <2>4, <2>5, <2>6, <2>7, <2>8, <2>9, TokensFlow
<1>4. CASE revoked' # revoked
  <2>1. PICK q \in Pairs \cup Probes : SaveTokens(q) /\ pc[q] = "revoking"
    BY <1>4, FlowShape DEF Loads, AuthorizeLoads, SaveCodes, IssueLoads, Rotates, ExchangeRefresh,
       SaveTokens, AccessSaves, CommandSaves, Quiet, history
  <2>2. /\ disk'.tokens = buf.tokens /\ buf' = NoBuf /\ tbuf' = tbuf /\ lock = q
        /\ revoked' = revoked \cup TakenAway(q) /\ overwritten' = overwritten
    BY <2>1 DEF SaveTokens, Save, Release
  <2>3. tbuf = {}
    BY <2>2 DEF Mutex, Requests
  <2>4. \A t \in buf.tokens : Key(t) \notin TakenAway(q)
    <3>1. \A t \in disk.tokens, s \in buf.tokens : t.kind # "spent" /\ Key(t) = Key(s) => t = s
      BY DEF TokensOwned, StoredTokens
    <3>2. QED
      BY <3>1 DEF TakenAway
  <2>5. \A x \in TakenAway(q) : \E p \in Pairs :
          x \in {<<"access", p>>, <<"refresh", p>>} /\ pc'[p] = "issued"
    BY <1>2 DEF TakenAway
  <2>6. QED
    BY <1>1, <2>2, <2>3, <2>4, <2>5 DEF Dead
<1>5. QED
  BY <1>3, <1>4

-----------------------------------------------------------------------------
(* Single use and revocation.                                              *)

\* The state directory of a server from before the approval gate, or an empty
\* one, satisfies the invariant.
LEMMA InitInv ==
  ASSUME Init
  PROVE  Inv
<1> USE NamesDistinct DEF Init, Files, NoBuf, Requests
<1> DEFINE a == Token("access", OldPair, OldClient, now + AccessTTL)
           r == Token("refresh", OldPair, OldClient, now + RefreshTTL)
<1>1. disk.tokens \subseteq {a, r} /\ disk.codes = {} /\ (~legacy => disk.tokens = {})
  BY DEF Issued, Purged
<1>2. /\ IsToken(a) /\ a.kind = "access" /\ a.id = OldPair
      /\ IsToken(r) /\ r.kind = "refresh" /\ r.id = OldPair
  BY DEF Token, IsToken
<1> HIDE DEF a, r
<1>3. pc[OldPair] = IF legacy THEN "issued" ELSE "ended"
  OBVIOUS
<1>4. Typed
  <2>1. IsCommand(cmd)
    BY DEF IsCommand, NoCommand
  <2>2. /\ DOMAIN disk = Files /\ DOMAIN buf = Files
        /\ state \in [Files -> {"absent", "ok", "unreadable"}]
    OBVIOUS
  <2>3. /\ \A c \in Clients : pc[c] \in {"new", "done"}
        /\ \A k \in Codes : pc[k] = "new"
        /\ \A p \in Pairs : pc[p] \in {"new", "issued", "ended"}
        /\ \A u \in Probes : pc[u] = "new"
    OBVIOUS
  <2>4. QED
    BY <2>1, <2>2, <2>3 DEF Typed
<1>5. Mutex
  BY DEF Mutex, Locked
<1>6. StoredCodes = {} /\ StoredTokens = disk.tokens
  BY <1>1 DEF StoredCodes, StoredTokens, CmdCopy, NoCommand
<1>7. CodesOwned
  BY <1>6 DEF CodesOwned
<1>8. TokensOwned
  BY <1>1, <1>2, <1>3, <1>6 DEF TokensOwned, Key
<1>9. Presented /\ Spent /\ Dead
  BY DEF Presented, Spent, Used, Dead
<1>10. QED
  BY <1>4, <1>5, <1>7, <1>8, <1>9 DEF Inv

\* The invariant holds throughout.
THEOREM Invariance == Spec => []Inv
<1>1. Init => Inv
  BY InitInv
<1>2. Inv /\ [Next]_vars => Inv'
  <2> SUFFICES ASSUME Inv, [Next]_vars
               PROVE  Inv'
    OBVIOUS
  <2>1. CASE Next
    <3>1. Typed' /\ Mutex'
      BY <2>1, MutexStep DEF Inv
    <3>2. CodesOwned' /\ TokensOwned'
      BY <2>1, CodesStep, TokensStep DEF Inv
    <3>3. Presented'
      BY <2>1, PresentedStep DEF Inv
    <3>4. Spent' /\ Dead'
      BY <2>1, SpentStep, DeadStep
    <3>5. QED
      BY <3>1, <3>2, <3>3, <3>4 DEF Inv
  <2>2. CASE UNCHANGED vars
    BY <2>2 DEF vars, files, requests, history, bounds, Inv, Typed, Mutex, CodesOwned, TokensOwned,
       Presented, Spent, Dead, StoredCodes, StoredTokens, CmdCopy, IsCode, IsToken, Used, Gone,
       GoneFrom, IsCommand, Key
  <2>3. QED
    BY <2>1, <2>2
<1>3. QED
  BY <1>1, <1>2, PTL DEF Spec

\* A code and a refresh token yield at most one pair of tokens each
\* (exchange_authorization_code, exchange_refresh_token), for every number of
\* requests, crashes, damaged files and commands, as long as no command saves an
\* older copy of a file.
THEOREM GrantsSingleUse == Spec => []GrantUsedOnce
<1>1. Inv => GrantUsedOnce
  BY DEF Inv, Spent, Used, GrantUsedOnce
<1>2. QED
  BY <1>1, Invariance, PTL

\* A revoked token is never in tokens.json again (revoke_token,
\* _detect_refresh_reuse), under the same condition.
THEOREM RevocationHolds == Spec => []RevokedStaysDead
<1>1. Inv => RevokedStaysDead
  BY DEF Inv, Dead, RevokedStaysDead
<1>2. QED
  BY <1>1, Invariance, PTL

-----------------------------------------------------------------------------
(* The approval gate and the lockdown.                                     *)

\* A step that leaves clients.json and approvals.json alone and makes no copy of
\* them; a registration that is under way keeps its copies or is over.
Elsewhere ==
  /\ disk'.clients = disk.clients /\ disk'.approvals = disk.approvals
  /\ state'.approvals = "absent" <=> state.approvals = "absent"
  /\ buf'.approvals \in {buf.approvals, {}}
  /\ cmd' = cmd \/ ~cmd'.saving
  /\ UNCHANGED <<legacy, vouched>>
  /\ \A c \in Clients : \/ pc'[c] \notin Registering
                        \/ pc'[c] = pc[c] /\ buf' = buf

\* A step is elsewhere, or it registers, starts the server or is the command's.
LEMMA GateShape ==
  ASSUME Typed, Mutex, Next
  PROVE  \/ Elsewhere
         \/ \E c \in Clients : \/ RegisterLoadsClients(c) \/ RegisterLoadsApprovals(c)
                               \/ RegisterSavesFirst(c) \/ RegisterSavesSecond(c)
         \/ Start \/ Migrate
         \/ \E f \in Files : CommandLoads(f) \/ CommandSaves(f)
<1> USE NamesDistinct DEF Typed, Mutex, Requests, Locked, Registering, Unlocked, LoopFree,
        Hold, At, Quiet, Save, Release, Idle, files, requests, history, bounds, Files, NoBuf, Elsewhere
<1>1. CASE \E k \in Codes : (\E c \in Clients : AuthorizeChecks(k, c)) \/ AuthorizeLoads(k)
  BY <1>1 DEF AuthorizeChecks, AuthorizeLoads, Presents
<1>2. CASE \E p \in Pairs, k \in Codes, c \in Clients : LoadCode(p, k, c)
  BY <1>2 DEF LoadCode, Presents
<1>3. CASE \E p \in Pairs : ExchangeCode(p)
  BY <1>3 DEF ExchangeCode
<1>4. CASE \E q \in Codes \cup Pairs : SaveCodes(q)
  BY <1>4 DEF SaveCodes
<1>5. CASE \E p \in Pairs, r \in Pairs, c \in Clients : LoadRefresh(p, r, c) \/ DetectReuse(p, r, c)
  BY <1>5 DEF LoadRefresh, DetectReuse, RevokeReused, Presents
<1>6. CASE \E p \in Pairs : ExchangeRefresh(p) \/ IssueLoads(p)
  BY <1>6 DEF ExchangeRefresh, IssueLoads
<1>7. CASE \E q \in Pairs \cup Probes : SaveTokens(q)
  BY <1>7 DEF SaveTokens
<1>8. CASE \E u \in Probes : \/ \E p \in Pairs : AccessLoads(u, p)
                             \/ \E p \in Pairs, kind \in {"access", "refresh"} :
                                  RevokeFinds(u, p, kind)
                             \/ AccessSaves(u) \/ RevokeLoads(u)
  <2>1. PICK u \in Probes : \/ \E p \in Pairs : AccessLoads(u, p)
                            \/ \E p \in Pairs, kind \in {"access", "refresh"} :
                                 RevokeFinds(u, p, kind)
                            \/ AccessSaves(u) \/ RevokeLoads(u)
    BY <1>8
  <2>2. CASE \E p \in Pairs : AccessLoads(u, p)
    BY <2>2 DEF AccessLoads
  <2>3. CASE \E p \in Pairs, kind \in {"access", "refresh"} : RevokeFinds(u, p, kind)
    BY <2>3 DEF RevokeFinds
  <2>4. CASE AccessSaves(u) \/ RevokeLoads(u)
    BY <2>4 DEF AccessSaves, RevokeLoads
  <2>5. QED
    BY <2>1, <2>2, <2>3, <2>4
<1>9. CASE Interrupted \/ \E op \in {"approve", "reject"}, c \in Clients : Command(op, c)
  BY <1>9 DEF Interrupted, Command, NoCommand
<1>10. CASE Crash \/ Tick \/ \E f \in Files : Corrupted(f) \/ Repaired(f)
  BY <1>10 DEF Crash, Tick, Corrupted, Repaired
<1>11. QED
  BY <1>1, <1>2, <1>3, <1>4, <1>5, <1>6, <1>7, <1>8, <1>9, <1>10 DEF Next

\* Nobody loses the operator's approval in the history, and the old client is
\* always the same.
LEMMA AcceptableStays ==
  ASSUME Typed, Mutex, Next
  PROVE  Acceptable \subseteq Acceptable' /\ Old' = Old
<1>1. legacy' = legacy /\ vouched \subseteq vouched'
  BY GateShape DEF Elsewhere, RegisterLoadsClients, RegisterLoadsApprovals, RegisterSavesFirst,
     RegisterSavesSecond, Start, Migrate, CommandLoads, CommandSaves, Quiet, history
<1>2. QED
  BY <1>1 DEF Acceptable, Old

\* A request acts for a client that the gate let through: the one it was
\* acting for, one with an approval on disk, or the owner of a record there.
LEMMA ActsForAccepted ==
  ASSUME Inv, Accepted, RequireApproval, Next, NEW q \in Codes \cup Pairs, who'[q] # None
  PROVE  who'[q] \in Acceptable
<1> USE NamesDistinct DEF Inv, Typed, Mutex, Requests, Hold, At, Quiet, Release, Idle,
        requests
<1>1. CASE who'[q] = who[q]
  BY <1>1 DEF Accepted
<1>2. CASE who'[q] # who[q]
  <2>1. \/ \E c \in Clients : AuthorizeChecks(q, c) /\ who'[q] = c
        \/ \E k \in Codes, c \in Clients : LoadCode(q, k, c) /\ who'[q] = c
        \/ \E r \in Pairs, c \in Clients :
             (LoadRefresh(q, r, c) \/ DetectReuse(q, r, c)) /\ who'[q] = c
    <3>1. CASE \E k \in Codes, c \in Clients : AuthorizeChecks(k, c)
      <4>1. PICK k \in Codes, c \in Clients : AuthorizeChecks(k, c)
        BY <3>1
      <4>2. who' = [who EXCEPT ![k] = c]
        BY <4>1 DEF AuthorizeChecks, Presents
      <4>3. k = q /\ who'[q] = c
        BY <1>2, <4>2
      <4>4. QED
        BY <4>1, <4>3
    <3>2. CASE \E p \in Pairs, k \in Codes, c \in Clients : LoadCode(p, k, c)
      BY <1>2, <3>2 DEF LoadCode, Presents
    <3>3. CASE \E p \in Pairs, r \in Pairs, c \in Clients :
                 LoadRefresh(p, r, c) \/ DetectReuse(p, r, c)
      <4>1. PICK p \in Pairs, r \in Pairs, c \in Clients :
              LoadRefresh(p, r, c) \/ DetectReuse(p, r, c)
        BY <3>3
      <4>2. who' = [who EXCEPT ![p] = c]
        BY <4>1 DEF LoadRefresh, DetectReuse, RevokeReused, Presents
      <4>3. p = q /\ who'[q] = c
        BY <1>2, <4>2
      <4>4. QED
        BY <4>1, <4>3
    <3>4. CASE \E c \in Clients : \/ RegisterLoadsClients(c) \/ RegisterLoadsApprovals(c)
                                  \/ RegisterSavesFirst(c) \/ RegisterSavesSecond(c)
      BY <1>2, <3>4 DEF RegisterLoadsClients, RegisterLoadsApprovals, RegisterSavesFirst,
         RegisterSavesSecond
    <3>5. CASE \/ \E k \in Codes : AuthorizeLoads(k)
               \/ \E p \in Pairs : ExchangeCode(p)
               \/ \E x \in Codes \cup Pairs : SaveCodes(x)
      BY <1>2, <3>5 DEF AuthorizeLoads, ExchangeCode, SaveCodes
    <3>6. CASE \/ \E p \in Pairs : ExchangeRefresh(p) \/ IssueLoads(p)
               \/ \E x \in Pairs \cup Probes : SaveTokens(x)
      BY <1>2, <3>6 DEF ExchangeRefresh, IssueLoads, SaveTokens
    <3>7. CASE \E u \in Probes : \/ \E p \in Pairs : AccessLoads(u, p)
                                 \/ \E p \in Pairs, kind \in {"access", "refresh"} :
                                      RevokeFinds(u, p, kind)
                                 \/ AccessSaves(u) \/ RevokeLoads(u)
      <4>1. PICK u \in Probes : \/ \E p \in Pairs : AccessLoads(u, p)
                                \/ \E p \in Pairs, kind \in {"access", "refresh"} :
                                     RevokeFinds(u, p, kind)
                                \/ AccessSaves(u) \/ RevokeLoads(u)
        BY <3>7
      <4>2. CASE \E p \in Pairs : AccessLoads(u, p)
        BY <1>2, <4>2 DEF AccessLoads
      <4>3. CASE \E p \in Pairs, kind \in {"access", "refresh"} : RevokeFinds(u, p, kind)
        BY <1>2, <4>3 DEF RevokeFinds
      <4>4. CASE AccessSaves(u) \/ RevokeLoads(u)
        BY <1>2, <4>4 DEF AccessSaves, RevokeLoads
      <4>5. QED
        BY <4>1, <4>2, <4>3, <4>4
    <3>8. CASE \/ Interrupted \/ Start \/ Migrate \/ Crash \/ Tick
               \/ \E op \in {"approve", "reject"}, c \in Clients : Command(op, c)
               \/ \E f \in Files : \/ CommandLoads(f) \/ CommandSaves(f)
                                   \/ Corrupted(f) \/ Repaired(f)
      <4>1. CASE Crash
        BY <1>2, <4>1 DEF Crash
      <4>2. CASE ~Crash
        <5>1. who' = who
          BY <3>8, <4>2 DEF Interrupted, Start, Migrate, Tick, Command, CommandLoads,
             CommandSaves, Corrupted, Repaired
        <5>2. QED
          BY <1>2, <5>1
      <4>3. QED
        BY <4>1, <4>2
    <3>9. QED
      BY <3>1, <3>2, <3>3, <3>4, <3>5, <3>6, <3>7, <3>8 DEF Next
  <2>2. CASE \E c \in Clients : AuthorizeChecks(q, c) /\ who'[q] = c
    BY <2>2 DEF AuthorizeChecks, IsApproved, Accepted
  <2>3. CASE \E k \in Codes, c \in Clients : LoadCode(q, k, c) /\ who'[q] = c
    <3>1. \E r \in disk.codes : r.client = who'[q]
      BY <2>3 DEF LoadCode, OwnCode, Loaded
    <3>2. QED
      BY <3>1 DEF Accepted, StoredCodes
  <2>4. CASE \E r \in Pairs, c \in Clients :
               (LoadRefresh(q, r, c) \/ DetectReuse(q, r, c)) /\ who'[q] = c
    <3>1. \E t \in disk.tokens : t.client = who'[q]
      BY <2>4 DEF LoadRefresh, DetectReuse, RevokeReused, RefreshRec, Find, Loaded
    <3>2. QED
      BY <3>1 DEF Accepted, StoredTokens
  <2>5. QED
    BY <2>1, <2>2, <2>3, <2>4
<1>3. QED
  BY <1>1, <1>2

\* Codes and tokens are of accepted clients, in every copy: a code is made for
\* the client that was checked, a pair for the owner of its grant.
LEMMA RecordsAccepted ==
  ASSUME Inv, Accepted, Next
  PROVE  /\ \A r \in (StoredCodes \cup buf.codes)' : r.client \in Acceptable
         /\ \A t \in (StoredTokens \cup buf.tokens)' : t.client \in Acceptable
<1> USE NamesDistinct DEF Inv, Typed, Files, NoBuf, StoredCodes, StoredTokens
<1>1. /\ \A r \in disk.codes \cup CmdCopy("codes") \cup buf.codes : r.client \in Acceptable
      /\ \A t \in disk.tokens \cup tbuf \cup CmdCopy("tokens") \cup buf.tokens :
           t.client \in Acceptable
      /\ \A q \in Codes \cup Pairs : who[q] # None => who[q] \in Acceptable
  BY DEF Accepted
<1>2. \A r \in disk'.codes \cup CmdCopy("codes")' \cup buf'.codes : r.client \in Acceptable
  <2>1. CASE LoadsCodes
    BY <1>1, <2>1 DEF LoadsCodes
  <2>2. CASE \E k \in Codes : AuthorizeLoads(k)
    <3>1. PICK k \in Codes : AuthorizeLoads(k)
      BY <2>2
    <3>2. /\ UNCHANGED <<disk, cmd>> /\ pc[k] = "approved"
          /\ \A r \in buf'.codes : r \in disk.codes \/ r.client = who[k]
      BY <3>1 DEF AuthorizeLoads, Hold, Quiet, files, Purged, Loaded
    <3>3. who[k] # None
      BY <3>2
    <3>4. QED
      BY <1>1, <3>2, <3>3 DEF CmdCopy
  <2>3. CASE \E q \in Codes \cup Pairs : SaveCodes(q)
    BY <1>1, <2>3 DEF SaveCodes, Save, Release, Idle, CmdCopy
  <2>4. CASE CommandSaves("codes")
    <3>1. disk'.codes = CmdCopy("codes") /\ buf' = buf
      BY <2>4 DEF CommandSaves, Save, CmdCopy, requests
    <3>2. CmdCopy("codes")' = {}
      BY <2>4, OnwardFacts DEF CommandSaves, CmdCopy
    <3>3. QED
      BY <1>1, <3>1, <3>2
  <2>5. QED
    BY <2>1, <2>2, <2>3, <2>4, CodesFlow
<1>3. \A t \in disk'.tokens \cup tbuf' \cup CmdCopy("tokens")' \cup buf'.tokens :
        t.client \in Acceptable
  <2>1. CASE LoadsTokens
    BY <1>1, <2>1 DEF LoadsTokens
  <2>2. CASE \E p \in Pairs : IssueLoads(p)
    <3>1. PICK p \in Pairs : IssueLoads(p)
      BY <2>2
    <3>2. /\ UNCHANGED <<disk, cmd, tbuf>> /\ pc[p] = "issue"
          /\ \A t \in buf'.tokens : t \in disk.tokens \/ t.client = who[p]
      BY <3>1 DEF IssueLoads, Hold, Quiet, files, Issued, Token, Purged, Loaded
    <3>3. who[p] # None
      BY <3>2
    <3>4. QED
      BY <1>1, <3>2, <3>3 DEF CmdCopy
  <2>3. CASE \E p \in Pairs : \E x \in RefreshRec(grant[p]) : Rotates(p, x)
    <3>1. PICK p \in Pairs : \E x \in RefreshRec(grant[p]) : Rotates(p, x)
      BY <2>3
    <3>2. PICK x \in RefreshRec(grant[p]) : Rotates(p, x)
      BY <3>1
    <3>3. /\ UNCHANGED <<disk, cmd, tbuf>> /\ x \in Loaded("tokens")
          /\ buf'.tokens = Rotated(Loaded("tokens"), x)
      BY <3>2 DEF Rotates, ExchangeRefresh, Hold, Quiet, files, RefreshRec, Find
    <3>4. Loaded("tokens") \subseteq disk.tokens /\ \A t \in disk.tokens : IsToken(t)
      BY DEF Loaded, TokensOwned
    <3>5. \A t \in buf'.tokens : \E s \in disk.tokens : s.client = t.client
      BY <3>3, <3>4, RotatedFacts
    <3>6. QED
      BY <1>1, <3>3, <3>5 DEF CmdCopy
  <2>4. CASE \E q \in Pairs \cup Probes : SaveTokens(q)
    BY <1>1, <2>4 DEF SaveTokens, Save, Release, Idle, CmdCopy
  <2>5. CASE \E u \in Probes : AccessSaves(u)
    BY <1>1, <2>5 DEF AccessSaves, Save, Idle, CmdCopy
  <2>6. CASE CommandSaves("tokens")
    <3>1. disk'.tokens = CmdCopy("tokens") /\ UNCHANGED <<buf, tbuf>>
      BY <2>6 DEF CommandSaves, Save, CmdCopy, requests
    <3>2. CmdCopy("tokens")' = {}
      BY <2>6, OnwardFacts DEF CommandSaves, CmdCopy
    <3>3. QED
      BY <1>1, <3>1, <3>2
  <2>7. QED
    BY <2>1, <2>2, <2>3, <2>4, <2>5, <2>6, TokensFlow
<1>4. QED
  BY <1>2, <1>3

\* The approvals on disk and in the copies: a registration adds none, the command
\* the one it was called for, the migration those of the old clients.
LEMMA ApprovalsAccepted ==
  ASSUME Inv, Accepted, Gated, RequireApproval, Next
  PROVE  /\ (disk.approvals \cup buf.approvals)' \subseteq Acceptable'
         /\ CmdCopy("approvals")' \subseteq
              Acceptable' \cup (IF cmd'.op = "approve" THEN {cmd'.client} ELSE {})
         /\ Gated'
<1> USE DEF Inv, Typed, Files, NoBuf, Accepted, Gated, Requests
<1>0. Acceptable \subseteq Acceptable' /\ Old' = Old /\ Old \subseteq Acceptable
  BY AcceptableStays DEF Acceptable
<1>1. CASE Elsewhere
  <2>1. /\ CmdCopy("approvals")' \subseteq
             CmdCopy("approvals") /\ (CmdCopy("approvals")' # {} => cmd' = cmd)
        /\ CmdCopy("clients")' \subseteq CmdCopy("clients")
    BY <1>1 DEF Elsewhere, CmdCopy
  <2>2. QED
    BY <1>0, <1>1, <2>1 DEF Elsewhere, Registering
<1>2. ASSUME NEW c \in Clients, RegisterLoadsClients(c) \/ RegisterLoadsApprovals(c)
      PROVE  /\ UNCHANGED <<disk, state, cmd>> /\ buf'.approvals \subseteq disk.approvals
             /\ \A d \in Clients : pc'[d] = "adding" => pc[d] = "adding"
  BY <1>2 DEF RegisterLoadsClients, RegisterLoadsApprovals, Hold, At, Quiet, files, Loaded
<1>3. CASE \E c \in Clients : RegisterLoadsClients(c) \/ RegisterLoadsApprovals(c)
  BY <1>0, <1>2, <1>3 DEF CmdCopy
<1>4. CASE \E c \in Clients : RegisterSavesFirst(c)
  <2>1. /\ disk'.approvals = buf.approvals /\ buf' = buf /\ cmd' = cmd /\ state'.approvals = "ok"
        /\ disk'.clients = disk.clients
    BY <1>4 DEF RegisterSavesFirst, RegisterOrder, Save, Idle
  <2>2. QED
    BY <1>0, <2>1 DEF CmdCopy
<1>5. CASE \E c \in Clients : RegisterSavesSecond(c)
  <2>1. PICK c \in Clients : RegisterSavesSecond(c)
    BY <1>5
  <2>2. /\ disk'.approvals = disk.approvals /\ buf'.approvals = {} /\ cmd' = cmd
        /\ state'.approvals = state.approvals /\ pc[c] = "adding"
    BY <2>1 DEF RegisterSavesSecond, RegisterOrder, Save, Release
  <2>3. QED
    BY <1>0, <2>2 DEF CmdCopy
<1>6. CASE Start
  BY <1>0, <1>6 DEF Start, files, CmdCopy, Loaded, Readable
<1>7. CASE Migrate
  BY <1>0, <1>7 DEF Migrate, Save, CmdCopy
<1>8. CASE \E f \in Files : CommandLoads(f)
  <2>1. PICK f \in Files : CommandLoads(f)
    BY <1>8
  <2>2. UNCHANGED <<disk, state, buf, pc>>
    BY <2>1 DEF CommandLoads, files, requests
  <2>3. \/ ~cmd'.saving
        \/ /\ cmd'.at = f /\ cmd'.buf = Edited(f) /\ cmd'.op = cmd.op /\ cmd'.client = cmd.client
    BY <2>1, CommandLoadsFacts
  <2>4. /\ CmdCopy("approvals")' \subseteq
              disk.approvals \cup (IF cmd'.op = "approve" THEN {cmd'.client} ELSE {})
        /\ CmdCopy("clients")' \subseteq disk.clients
    BY <2>3 DEF CmdCopy, Edited
  <2>5. QED
    BY <1>0, <2>2, <2>4
<1>9. CASE \E f \in Files : CommandSaves(f)
  <2>1. PICK f \in Files : CommandSaves(f)
    BY <1>9
  <2>2. ~cmd'.saving /\ buf' = buf /\ pc' = pc
    BY <2>1, OnwardFacts DEF CommandSaves, requests
  <2>3. /\ disk'.approvals = IF f = "approvals" THEN CmdCopy("approvals") ELSE disk.approvals
        /\ disk'.clients = IF f = "clients" THEN CmdCopy("clients") ELSE disk.clients
        /\ state'.approvals = IF f = "approvals" THEN "ok" ELSE state.approvals
    BY <2>1 DEF CommandSaves, Save, CmdCopy
  <2>4. cmd.op = "approve" => cmd.client \in Acceptable'
    BY <2>1 DEF CommandSaves, Acceptable
  <2>5. CmdCopy("approvals")' = {} /\ CmdCopy("clients")' = {}
    BY <2>2 DEF CmdCopy
  <2>6. QED
    BY <1>0, <2>2, <2>3, <2>4, <2>5
<1>10. QED
  BY <1>1, <1>3, <1>4, <1>5, <1>6, <1>7, <1>8, <1>9, GateShape

\* With require_approval on, nobody the operator did not approve has an
\* approval, a code or a token, except the client of a state directory from
\* before the gate (register_client, authorize, _migrate_legacy_approvals).
THEOREM ApprovalGateHolds == Spec => []ApprovalGate
<1>1. Init => GateInv
  <2> SUFFICES ASSUME Init, RequireApproval
               PROVE  Accepted /\ Gated
    BY DEF GateInv
  <2> USE NamesDistinct DEF Init, Files, NoBuf, Requests
  <2>1. \A f \in Files : CmdCopy(f) = {}
    BY DEF CmdCopy, NoCommand
  <2>2. /\ disk.approvals = {} /\ disk.codes = {} /\ disk.clients = Old
        /\ \A t \in disk.tokens : t.client \in Old
    BY DEF Old, Issued, Purged, Token
  <2>3. Accepted
    BY <2>1, <2>2 DEF Accepted, Acceptable, StoredCodes, StoredTokens
  <2>4. Gated
    BY <2>1, <2>2 DEF Gated
  <2>5. QED
    BY <2>3, <2>4
<1>2. Inv /\ GateInv /\ [Next]_vars => GateInv'
  <2> SUFFICES ASSUME Inv, Accepted, Gated, RequireApproval, [Next]_vars
               PROVE  Accepted' /\ Gated'
    BY DEF GateInv
  <2>1. CASE Next
    <3>1. Acceptable \subseteq Acceptable'
      BY <2>1, AcceptableStays DEF Inv
    <3>2. \A q \in Codes \cup Pairs : who'[q] # None => who'[q] \in Acceptable
      BY <2>1, ActsForAccepted
    <3>3. QED
      BY <2>1, <3>1, <3>2, RecordsAccepted, ApprovalsAccepted DEF Accepted
  <2>2. CASE UNCHANGED vars
    BY <2>2 DEF vars, files, requests, history, bounds, Accepted, Gated, Acceptable, Old,
       StoredCodes, StoredTokens, CmdCopy
  <2>3. QED
    BY <2>1, <2>2
<1>3. GateInv => ApprovalGate
  BY DEF GateInv, Accepted, Acceptable, Old, StoredCodes, StoredTokens, ApprovalGate
<1>4. QED
  BY <1>1, <1>2, <1>3, Invariance, PTL DEF Spec

\* In lockdown a command that loads clients.json to save it saves no client.
LEMMA LockdownStep ==
  ASSUME Inv, LockdownInv, SingleClient, Next
  PROVE  /\ LockdownInv'
         /\ disk.clients = {} \/ disk'.clients \subseteq disk.clients
<1> USE NamesDistinct DEF Inv, Typed, Mutex, Files, NoBuf, Requests, LockdownInv, Registering, Locked
<1>1. CASE Elsewhere
  <2>1. CmdCopy("clients")' \subseteq CmdCopy("clients")
    BY <1>1 DEF Elsewhere, CmdCopy
  <2>2. QED
    BY <1>1, <2>1 DEF Elsewhere
<1>2. CASE \E c \in Clients : RegisterLoadsClients(c)
  <2>1. PICK c \in Clients : RegisterLoadsClients(c)
    BY <1>2
  <2>2. /\ UNCHANGED <<disk, cmd>> /\ disk.clients = {} /\ buf'.clients = {c}
        /\ pc' = [pc EXCEPT ![c] = "registering"] /\ lock = None
    BY <2>1 DEF RegisterLoadsClients, RegistrationClosed, Hold, At, Quiet, files, Loaded, Unlocked,
       LoopFree
  <2>3. QED
    BY <2>2 DEF CmdCopy
<1>3. CASE \E c \in Clients : RegisterLoadsApprovals(c) \/ RegisterSavesFirst(c)
  <2>1. PICK c \in Clients : RegisterLoadsApprovals(c) \/ RegisterSavesFirst(c)
    BY <1>3
  <2>2. /\ disk'.clients = disk.clients /\ cmd' = cmd /\ buf'.clients = buf.clients
        /\ pc[c] \in Registering /\ \E s \in Registering : pc' = [pc EXCEPT ![c] = s]
    BY <2>1 DEF RegisterLoadsApprovals, RegisterSavesFirst, RegisterOrder, Save, Hold, At, Idle,
       Quiet, files
  <2>3. QED
    BY <2>2 DEF CmdCopy
<1>4. CASE \E c \in Clients : RegisterSavesSecond(c)
  <2>1. PICK c \in Clients : RegisterSavesSecond(c)
    BY <1>4
  <2>2. /\ disk'.clients = buf.clients /\ cmd' = cmd /\ pc[c] = "adding" /\ lock = c
        /\ pc' = [pc EXCEPT ![c] = "done"]
    BY <2>1 DEF RegisterSavesSecond, RegisterOrder, Save, Release, At
  <2>3. QED
    BY <2>2 DEF CmdCopy
<1>5. CASE Start \/ Migrate
  <2>1. disk'.clients = disk.clients /\ UNCHANGED <<cmd, pc>> /\ lock = None
    BY <1>5 DEF Start, Migrate, Save, files
  <2>2. QED
    BY <2>1 DEF CmdCopy
<1>6. CASE \E f \in Files : CommandLoads(f)
  <2>1. PICK f \in Files : CommandLoads(f)
    BY <1>6
  <2>2. UNCHANGED <<disk, buf, pc>>
    BY <2>1 DEF CommandLoads, files, requests
  <2>3. \/ ~cmd'.saving \/ cmd'.at # "clients"
        \/ cmd'.buf = Edited("clients") /\ cmd.client \in disk.clients
    BY <2>1, CommandLoadsFacts
  <2>4. CmdCopy("clients")' = {}
    BY <2>3 DEF CmdCopy, Edited
  <2>5. QED
    BY <2>2, <2>4
<1>7. CASE \E f \in Files : CommandSaves(f)
  <2>1. PICK f \in Files : CommandSaves(f)
    BY <1>7
  <2>2. ~cmd'.saving /\ buf' = buf /\ pc' = pc
    BY <2>1, OnwardFacts DEF CommandSaves, requests
  <2>3. disk'.clients = IF f = "clients" THEN CmdCopy("clients") ELSE disk.clients
    BY <2>1 DEF CommandSaves, Save, CmdCopy
  <2>4. CmdCopy("clients")' = {}
    BY <2>2 DEF CmdCopy
  <2>5. QED
    BY <2>2, <2>3, <2>4
<1>8. QED
  BY <1>1, <1>2, <1>3, <1>4, <1>5, <1>6, <1>7, GateShape

\* Single-client lockdown: while a client is registered no step adds another or
\* puts one in its place (register_client), commands and damage included.
THEOREM LockdownTheorem == Spec => LockdownHolds
<1> DEFINE Step == ~SingleClient \/ disk.clients = {} \/ disk'.clients \subseteq disk.clients
<1>1. Init => LockdownInv
  <2> SUFFICES ASSUME Init
               PROVE  LockdownInv
    OBVIOUS
  <2>1. \A c \in Clients : pc[c] \notin Registering
    BY NamesDistinct DEF Init, Requests, Registering
  <2>2. \A c, d \in disk.clients : c = d
    BY DEF Init, NoBuf, Files
  <2>3. CmdCopy("clients") = {}
    BY DEF Init, CmdCopy, NoCommand
  <2>4. QED
    BY <2>1, <2>2, <2>3 DEF LockdownInv
<1>2. Inv /\ LockdownInv /\ [Next]_vars => LockdownInv' /\ [Step]_vars
  <2> SUFFICES ASSUME Inv, LockdownInv, [Next]_vars
               PROVE  LockdownInv' /\ [Step]_vars
    OBVIOUS
  <2>1. CASE SingleClient /\ Next
    BY <2>1, LockdownStep
  <2>2. CASE ~SingleClient
    BY <2>2 DEF LockdownInv
  <2>3. CASE UNCHANGED vars
    BY <2>3 DEF vars, files, requests, LockdownInv, CmdCopy
  <2>4. QED
    BY <2>1, <2>2, <2>3
<1>3. QED
  BY <1>1, <1>2, Invariance, PTL DEF Spec, LockdownHolds

-----------------------------------------------------------------------------
(* The markers of rotated-out refresh tokens.                              *)
(*                                                                         *)
(* In tokens.json, and in every copy of it that is about to be saved, each *)
(* refresh token and each marker that came from another pair has the       *)
(* marker of that pair beside it, which lives at least as long, or         *)
(* MaxSpent others of the client do (Family).  A rotation gives all        *)
(* markers it keeps the longest life there is, and drops one only when it  *)
(* keeps MaxSpent; the property follows along the line of rotations.       *)

Kin(x) == x.kind \in {"refresh", "spent"}
Outliving(T, c, exp) == {m \in Markers(T, c) : m.exp >= exp}
Marked(T, r, c, exp) ==
  \/ \E m \in Outliving(T, c, exp) : m.id = r
  \/ Cardinality(Outliving(T, c, exp)) >= MaxSpent

Family(T) ==
  /\ IsFiniteSet(T)
  /\ \A x \in T : x.exp \in Nat /\ x.at \in Nat /\ x.nth \in Nat
  /\ \A x, y \in T : Kin(x) /\ Kin(y) /\ x.id = y.id => x = y
  /\ \A x \in T : Kin(x) => x.exp <= now + RefreshTTL
  /\ \A x \in T : Kin(x) /\ x.client \notin rejected /\ grant[x.id] \in Pairs =>
       Marked(T, grant[x.id], x.client, x.exp)

\* Between the save of a rotation and that of the new pair, the markers wait for it.
Families ==
  mishaps = 0 /\ ~overwritten =>
    /\ \A f \in Files : Readable(f)
    /\ Family(disk.tokens) /\ Family(buf.tokens) /\ Family(tbuf)
    /\ \A p \in Pairs : grant[p] \in Pairs /\ who[p] \notin rejected =>
         /\ pc[p] = "rotating" => Marked(buf.tokens, grant[p], who[p], now + RefreshTTL)
         /\ pc[p] = "issue" => Marked(disk.tokens, grant[p], who[p], now + RefreshTTL)

Counters ==
  /\ now \in Nat /\ mishaps \in Nat
  /\ \A u \in Probes : pc[u] = "held" => grant[u][1] \in {"access", "refresh"}

\* A non-empty set of naturals has a least element.
LEMMA LeastNat ==
  ASSUME NEW T, T \subseteq Nat, T # {}
  PROVE  \E n \in T : \A m \in T : n <= m
<1> DEFINE less == {ss \in Nat \X Nat : ss[1] < ss[2]}
<1>1. IsWellFoundedOn(less, Nat)
  BY NatLessThanWellFounded, Zenon DEF OpToRel
<1> HIDE DEF less
<1>2. PICK n \in T : \A m \in T : ~(<<m, n>> \in less)
  BY <1>1, WFMin
<1>3. \A m \in T : m \in Nat /\ n \in Nat /\ ~(m < n)
  BY <1>2 DEF less
<1> QED
  BY <1>3

\* A non-empty finite set of numbers has a greatest one.
LEMMA FiniteHasGreatest ==
  ASSUME NEW S, S \subseteq Nat, IsFiniteSet(S), S # {}
  PROVE  \E x \in S : \A y \in S : x >= y
<1> DEFINE Bad == {n \in Nat : \E R \in SUBSET Nat :
                     /\ IsFiniteSet(R) /\ R # {} /\ Cardinality(R) = n
                     /\ ~\E x \in R : \A y \in R : x >= y}
<1>1. Bad = {}
  <2> SUFFICES ASSUME Bad # {} PROVE FALSE
    OBVIOUS
  <2>1. PICK n \in Bad : \A m \in Bad : n <= m
    <3> Bad \subseteq Nat
      OBVIOUS
    <3> HIDE DEF Bad
    <3> QED
      BY LeastNat
  <2>2. PICK R \in SUBSET Nat : /\ IsFiniteSet(R) /\ R # {} /\ Cardinality(R) = n
                                /\ ~\E x \in R : \A y \in R : x >= y
    BY <2>1
  <2>3. PICK a \in R : TRUE
    BY <2>2
  <2>4. IsFiniteSet(R \ {a}) /\ Cardinality(R \ {a}) = n - 1 /\ R \ {a} \in SUBSET Nat
    BY <2>2, <2>3, FS_RemoveElement
  <2>5. n - 1 \in Nat
    BY <2>4, FS_CardinalityType
  <2>6. n - 1 \notin Bad
    BY <2>1, <2>5
  <2>7. CASE R \ {a} = {}
    BY <2>2, <2>3, <2>7
  <2>8. CASE R \ {a} # {}
    <3>1. PICK x \in R \ {a} : \A y \in R \ {a} : x >= y
      BY <2>4, <2>5, <2>6, <2>8
    <3>2. x \in Nat /\ a \in Nat
      BY <2>2, <2>3, <3>1
    <3>3. CASE x >= a
      BY <2>2, <3>1, <3>3
    <3>4. CASE ~(x >= a)
      <4>1. \A y \in R : y \in Nat /\ (y = a \/ x >= y)
        BY <2>2, <3>1
      <4>2. \A y \in R : a >= y
        BY <3>2, <3>4, <4>1
      <4> QED
        BY <2>2, <2>3, <4>2
    <3> QED
      BY <3>3, <3>4
  <2> QED
    BY <2>7, <2>8
<1>2. Cardinality(S) \in Nat
  BY FS_CardinalityType
<1> QED
  BY <1>1, <1>2

\* The next marker is numbered behind the others of its client.
LEMMA MaxOfFinite ==
  ASSUME NEW T, IsFiniteSet(T), NEW g \in [T -> Nat]
  PROVE  Max({0} \cup {g[t] : t \in T}) \in Nat
<1> DEFINE R == {g[t] : t \in T}
<1>1. g \in Surjection(T, R)
  BY DEF Surjection
<1>2. IsFiniteSet(R) /\ R \subseteq Nat
  <2> HIDE DEF R
  <2>1. IsFiniteSet(R)
    BY <1>1, FS_Surjection
  <2> QED
    BY <2>1 DEF R
<1>3. IsFiniteSet(R \cup {0})
  <2> HIDE DEF R
  <2> QED
    BY <1>2, FS_AddElement
<1> HIDE DEF R
<1>4. PICK x \in {0} \cup R : \A y \in {0} \cup R : x >= y
  <2>1. {0} \cup R \subseteq Nat /\ {0} \cup R # {} /\ {0} \cup R = R \cup {0}
    BY <1>2
  <2> QED
    BY <1>3, <2>1, FiniteHasGreatest
<1>5. Max({0} \cup R) \in {0} \cup R
  BY <1>4 DEF Max
<1> QED
  BY <1>2, <1>5 DEF R

\* A marker is dropped only when MaxSpent are kept: the first that is dropped has
\* so many ahead of it, and they are kept.
LEMMA NewestEnough ==
  ASSUME NEW ms, IsFiniteSet(ms), \A t \in ms : t.at \in Nat /\ t.nth \in Nat,
         MaxSpent \in Nat
  PROVE  /\ Newest(ms) \subseteq ms /\ IsFiniteSet(Newest(ms))
         /\ Newest(ms) # ms => Cardinality(Newest(ms)) >= MaxSpent
<1> DEFINE Before(t) == {s \in ms : Ahead(s, t)}
           Ranks == {Cardinality(Before(t)) : t \in ms \ Newest(ms)}
<1>1. Newest(ms) \subseteq ms /\ IsFiniteSet(Newest(ms))
  <2>1. Newest(ms) \subseteq ms
    BY DEF Newest
  <2> QED
    BY <2>1, FS_Subset
<1>2. \A t \in ms : IsFiniteSet(Before(t)) /\ Cardinality(Before(t)) \in Nat
  <2> TAKE t \in ms
  <2>1. Before(t) \in SUBSET ms
    OBVIOUS
  <2> HIDE DEF Before
  <2> QED
    BY <2>1, FS_Subset, FS_CardinalityType
<1>3. ASSUME Newest(ms) # ms PROVE Cardinality(Newest(ms)) >= MaxSpent
  <2>1. Ranks \subseteq Nat /\ Ranks # {}
    BY <1>1, <1>2, <1>3
  <2>2. PICK n \in Ranks : \A m \in Ranks : n <= m
    <3> HIDE DEF Ranks
    <3> QED
      BY <2>1, LeastNat
  <2>3. PICK t \in ms \ Newest(ms) : n = Cardinality(Before(t))
    BY <2>2
  <2>4. n >= MaxSpent
    <3>1. ~(Cardinality(Before(t)) < MaxSpent)
      BY <2>3 DEF Newest
    <3> QED
      BY <1>2, <2>3, <3>1
  <2>5. Before(t) \subseteq Newest(ms)
    <3> SUFFICES ASSUME NEW s \in Before(t), s \notin Newest(ms) PROVE FALSE
      OBVIOUS
    <3>1. s \in ms /\ Ahead(s, t)
      OBVIOUS
    <3>2. Before(s) \subseteq Before(t) /\ s \notin Before(s)
      <4>1. \A u \in ms : u.at \in Nat /\ u.nth \in Nat
        OBVIOUS
      <4>2. \A u \in ms : Ahead(u, s) => Ahead(u, t)
        BY <3>1, <4>1 DEF Ahead
      <4>3. ~Ahead(s, s)
        BY <3>1, <4>1 DEF Ahead
      <4> QED
        BY <4>2, <4>3
    <3>3. Cardinality(Before(s)) <= Cardinality(Before(t)) /\ Cardinality(Before(s)) # Cardinality(Before(t))
      <4>1. IsFiniteSet(Before(t)) /\ Before(s) \in SUBSET Before(t) /\ Before(s) # Before(t)
        BY <1>2, <2>3, <3>2
      <4> HIDE DEF Before
      <4> QED
        BY <4>1, FS_Subset
    <3>4. Cardinality(Before(s)) \in Ranks
      BY <3>1
    <3>5. PICK i, j : i = Cardinality(Before(s)) /\ j = Cardinality(Before(t))
      OBVIOUS
    <3>6. i \in Nat /\ j \in Nat /\ i <= j /\ i # j /\ n = j
      BY <1>2, <2>3, <3>1, <3>3, <3>5
    <3>7. n <= i
      <4> HIDE DEF Ranks
      <4> QED
        BY <2>2, <3>4, <3>5
    <3> QED
      BY <3>6, <3>7
  <2>6. Cardinality(Before(t)) <= Cardinality(Newest(ms))
    <3> HIDE DEF Before
    <3> QED
      BY <1>1, <2>5, FS_Subset
  <2> QED
    BY <1>1, <1>2, <2>3, <2>4, <2>6, FS_CardinalityType
<1> QED
  BY <1>1, <1>3

\* A rotation: every marker that is kept gets the longest life, and the token
\* itself is marked, unless MaxSpent others are.
LEMMA RotatedFamily ==
  ASSUME now \in Nat, NEW T, Family(T), \A t \in T : IsToken(t), NEW rec \in T, rec.kind = "refresh"
  PROVE  /\ Family(Rotated(T, rec))
         /\ Marked(Rotated(T, rec), rec.id, rec.client, now + RefreshTTL)
<1>0. RefreshTTL \in Nat /\ MaxSpent \in Nat
  BY SettingsAssumption
<1>1. PICK c, family : c = rec.client /\ family = now + RefreshTTL
  OBVIOUS
<1>2. family \in Nat
  BY <1>0, <1>1
<1>3. PICK old, made : old = Markers(T, c) /\ made = Marker(T, rec, family)
  OBVIOUS
<1>4. PICK ms : ms = old \cup {made}
  OBVIOUS
<1>5. PICK kept : kept = Newest(ms)
  OBVIOUS
<1> DEFINE Ext(t) == [t EXCEPT !.exp = family]
<1>6. PICK N : N = {Ext(t) : t \in kept}
  OBVIOUS
<1>7. \A t \in old : t \in T /\ t.kind = "spent" /\ t.client = c
  BY <1>3 DEF Markers
<1>8. /\ IsToken(made) /\ made.kind = "spent" /\ made.id = rec.id /\ made.client = c
      /\ made.exp = family /\ made.at = now /\ made.nth \in Nat
  <2>1. IsFiniteSet(old)
    <3>1. old \in SUBSET T
      BY <1>7
    <3> QED
      BY <3>1, FS_Subset DEF Family
  <2>2. PICK g : g = [t \in old |-> t.nth]
    OBVIOUS
  <2>3. g \in [old -> Nat]
    BY <1>7, <2>2 DEF Family
  <2>4. Max({0} \cup {g[t] : t \in old}) \in Nat
    BY <2>1, <2>3, MaxOfFinite
  <2>5. {g[t] : t \in old} = {t.nth : t \in old}
    BY <2>2
  <2>6. made = [rec EXCEPT !.kind = "spent", !.exp = family, !.at = now,
                           !.nth = 1 + Max({0} \cup {t.nth : t \in old})]
    BY <1>1, <1>3 DEF Marker
  <2>7. PICK k \in Nat : k = Max({0} \cup {t.nth : t \in old})
    BY <2>4, <2>5
  <2>8. made = [rec EXCEPT !.kind = "spent", !.exp = family, !.at = now, !.nth = 1 + k]
    BY <2>6, <2>7
  <2> QED
    BY <1>1, <2>7, <2>8 DEF IsToken
<1>9. \A t \in ms : /\ IsToken(t) /\ t.kind = "spent" /\ t.client = c /\ t.exp \in Nat /\ t.exp <= family
                    /\ t.at \in Nat /\ t.nth \in Nat
  BY <1>1, <1>2, <1>4, <1>7, <1>8 DEF Family, Kin
<1>10. \A s, t \in ms : s.id = t.id => s = t
  <2>1. \A s \in old : s.id # rec.id
    BY <1>7 DEF Family, Kin
  <2> QED
    BY <1>4, <1>7, <1>8, <2>1 DEF Family, Kin
<1>11. IsFiniteSet(ms) /\ IsFiniteSet(old) /\ Cardinality(old) <= Cardinality(ms)
       /\ Cardinality(ms) \in Nat /\ Cardinality(old) \in Nat
  <2>1. old \in SUBSET T /\ IsFiniteSet(T)
    BY <1>7 DEF Family
  <2>2. IsFiniteSet(old)
    BY <2>1, FS_Subset
  <2>3. IsFiniteSet(ms)
    BY <1>4, <2>2, FS_AddElement
  <2>4. old \in SUBSET ms
    BY <1>4
  <2> QED
    BY <2>2, <2>3, <2>4, FS_Subset, FS_CardinalityType
<1>12. /\ kept \subseteq ms /\ IsFiniteSet(kept)
       /\ kept # ms => Cardinality(kept) >= MaxSpent
  BY <1>0, <1>5, <1>9, <1>11, NewestEnough
<1>13. \A t \in kept : /\ IsToken(Ext(t)) /\ Ext(t).kind = "spent" /\ Ext(t).client = c
                       /\ Ext(t).exp = family /\ Ext(t).id = t.id
                       /\ Ext(t).at \in Nat /\ Ext(t).nth \in Nat
  BY <1>9, <1>12 DEF IsToken
<1> HIDE DEF Ext
<1>14. IsFiniteSet(N) /\ Cardinality(N) = Cardinality(kept) /\ Cardinality(N) \in Nat
  <2>1. PICK g : g = [t \in kept |-> Ext(t)]
    OBVIOUS
  <2>2. g \in [kept -> N] /\ \A n \in N : \E t \in kept : g[t] = n
    BY <1>6, <2>1
  <2>3. \A s, t \in kept : g[s] = g[t] => s = t
    <3> TAKE s, t \in kept
    <3> HAVE g[s] = g[t]
    <3>1. s.id = t.id
      BY <1>13, <2>1
    <3> QED
      BY <1>10, <1>12, <3>1
  <2>4. g \in Surjection(kept, N) /\ g \in Injection(kept, N)
    BY <2>2, <2>3, Zenon DEF Surjection, Injection, IsInjective
  <2> QED
    BY <1>12, <2>4, FS_Surjection, FS_CardinalityType
<1>15. Rotated(T, rec) = (T \ (old \cup {rec})) \cup N
  <2>1. Rotated(T, rec) = (T \ (old \cup {rec})) \cup {[t EXCEPT !.exp = Max({t.exp, family})] : t \in kept}
    BY <1>1, <1>3, <1>4, <1>5 DEF Rotated
  <2>2. \A t \in kept : Max({t.exp, family}) = family
    <3> TAKE t \in kept
    <3>1. t.exp \in Nat /\ t.exp <= family
      BY <1>9, <1>12
    <3>2. \E x \in {t.exp, family} : \A y \in {t.exp, family} : x >= y
      BY <1>2, <3>1
    <3>3. /\ Max({t.exp, family}) \in {t.exp, family}
          /\ \A y \in {t.exp, family} : Max({t.exp, family}) >= y
      BY <3>2 DEF Max
    <3> QED
      BY <1>2, <3>1, <3>3
  <2>3. \A t \in kept : [t EXCEPT !.exp = Max({t.exp, family})] = Ext(t)
    BY <2>2 DEF Ext
  <2> QED
    BY <1>6, <2>1, <2>3
<1>16. PICK R : R = (T \ (old \cup {rec})) \cup N
  OBVIOUS
<1>17. \A n \in N : \E t \in kept : n = Ext(t)
  BY <1>6
<1>18. \A d : d # c => Markers(R, d) = Markers(T, d)
  BY <1>1, <1>7, <1>13, <1>16, <1>17 DEF Markers
<1>19. Markers(R, c) = N
  BY <1>1, <1>3, <1>13, <1>16, <1>17 DEF Markers
<1>20. ASSUME NEW exp \in Nat, exp <= family PROVE Outliving(R, c, exp) = N
  BY <1>13, <1>17, <1>19, <1>20 DEF Outliving
<1>21. ASSUME NEW m \in ms, NEW exp \in Nat, exp <= family PROVE Marked(R, m.id, c, exp)
  <2>1. CASE m \in kept
    <3>1. Ext(m) \in N /\ Ext(m).id = m.id
      BY <1>6, <1>13, <2>1
    <3> QED
      BY <1>20, <1>21, <3>1 DEF Marked
  <2>2. CASE m \notin kept
    <3>1. Cardinality(N) >= MaxSpent
      BY <1>12, <1>14, <2>2
    <3> QED
      BY <1>20, <1>21, <3>1 DEF Marked
  <2> QED
    BY <2>1, <2>2
<1>22. ASSUME NEW r, NEW e, Marked(T, r, c, e), NEW exp \in Nat, exp <= family
       PROVE  Marked(R, r, c, exp)
  <2>1. ASSUME NEW m \in Outliving(T, c, e), m.id = r PROVE Marked(R, r, c, exp)
    <3>1. m \in ms
      BY <1>3, <1>4 DEF Outliving
    <3> QED
      BY <1>21, <1>22, <2>1, <3>1
  <2>2. CASE Cardinality(Outliving(T, c, e)) >= MaxSpent
    <3>1. Outliving(T, c, e) \in SUBSET old
      BY <1>3 DEF Outliving
    <3>2. Cardinality(Outliving(T, c, e)) <= Cardinality(old) /\ Cardinality(Outliving(T, c, e)) \in Nat
      BY <1>11, <3>1, FS_Subset, FS_CardinalityType
    <3>3. Cardinality(N) >= MaxSpent
      <4>1. CASE kept = ms
        BY <1>0, <1>11, <1>14, <2>2, <3>2, <4>1
      <4>2. CASE kept # ms
        BY <1>12, <1>14, <4>2
      <4> QED
        BY <4>1, <4>2
    <3> QED
      BY <1>20, <1>22, <3>3 DEF Marked
  <2> QED
    BY <1>22, <2>1, <2>2 DEF Marked
<1>23. ASSUME NEW x \in R, Kin(x)
       PROVE  \/ x \in T /\ x \notin old /\ x # rec
              \/ \E y \in T : /\ Kin(y) /\ y.id = x.id /\ y.client = c /\ x.client = c
                              /\ x.exp = family /\ (y \in old \/ y = rec)
                              /\ \E t \in kept : x = Ext(t) /\ t.id = y.id
  <2>1. CASE x \in N
    <3>1. PICK t \in kept : x = Ext(t)
      BY <1>17, <2>1
    <3>2. CASE t = made
      BY <1>1, <1>8, <1>13, <3>1, <3>2 DEF Kin
    <3>3. CASE t \in old
      BY <1>7, <1>13, <3>1, <3>3 DEF Kin
    <3> QED
      BY <1>4, <1>12, <3>2, <3>3
  <2> QED
    BY <1>16, <2>1
<1>24. Family(R)
  <2>1. IsFiniteSet(R)
    <3>1. IsFiniteSet(T \ (old \cup {rec}))
      <4>1. T \ (old \cup {rec}) \in SUBSET T /\ IsFiniteSet(T)
        BY DEF Family
      <4> QED
        BY <4>1, FS_Subset
    <3> QED
      BY <1>14, <1>16, <3>1, FS_Union
  <2>2. \A x \in R : x.exp \in Nat /\ x.at \in Nat /\ x.nth \in Nat
    BY <1>2, <1>13, <1>16, <1>17 DEF Family
  <2>3. ASSUME NEW x \in R, NEW y \in R, Kin(x), Kin(y), x.id = y.id PROVE x = y
    <3>1. CASE x \in T /\ x \notin old /\ x # rec /\ y \in T /\ y \notin old /\ y # rec
      BY <2>3, <3>1 DEF Family
    <3>2. ASSUME NEW t \in kept, x = Ext(t), NEW s \in kept, y = Ext(s) PROVE x = y
      BY <1>10, <1>12, <1>13, <2>3, <3>2
    <3> QED
      BY <1>23, <2>3, <3>1, <3>2 DEF Family
  <2>4. \A x \in R : Kin(x) => x.exp <= now + RefreshTTL
    BY <1>1, <1>2, <1>23 DEF Family
  <2>5. ASSUME NEW x \in R, Kin(x), x.client \notin rejected, grant[x.id] \in Pairs
        PROVE  Marked(R, grant[x.id], x.client, x.exp)
    <3>1. CASE x \in T /\ x.client # c
      <4>1. Marked(T, grant[x.id], x.client, x.exp)
        BY <2>5, <3>1 DEF Family
      <4>2. Outliving(R, x.client, x.exp) = Outliving(T, x.client, x.exp)
        BY <1>18, <3>1 DEF Outliving
      <4> QED
        BY <4>1, <4>2 DEF Marked
    <3>2. CASE x \in T /\ x.client = c
      <4>1. Marked(T, grant[x.id], c, x.exp) /\ x.exp \in Nat /\ x.exp <= family
        BY <1>1, <2>5, <3>2 DEF Family
      <4> QED
        BY <1>22, <3>2, <4>1
    <3>3. ASSUME NEW y \in T, Kin(y), y.id = x.id, y.client = c, x.client = c, x.exp = family
          PROVE  Marked(R, grant[x.id], x.client, x.exp)
      <4>1. Marked(T, grant[x.id], c, y.exp)
        BY <2>5, <3>3 DEF Family
      <4> QED
        BY <1>2, <1>22, <3>3, <4>1
    <3> QED
      BY <1>23, <2>5, <3>1, <3>2, <3>3
  <2> QED
    BY <2>1, <2>2, <2>3, <2>4, <2>5 DEF Family
<1>25. Marked(R, rec.id, c, family)
  BY <1>2, <1>4, <1>8, <1>21
<1> QED
  BY <1>1, <1>15, <1>16, <1>24, <1>25

\* Issuing a pair drops no marker that an unexpired record needs; the new refresh
\* token is marked when the markers were waiting for it.
LEMMA IssuedFamily ==
  ASSUME now \in Nat, NEW T, Family(T), NEW p, \A x \in T : x.id # p, NEW c,
         grant[p] \in Pairs /\ c \notin rejected => Marked(T, grant[p], c, now + RefreshTTL)
  PROVE  Family(Issued(T, p, c))
<1>0. AccessTTL \in Nat /\ RefreshTTL \in Nat
  BY SettingsAssumption
<1>1. PICK a, r : /\ a = Token("access", p, c, now + AccessTTL)
                  /\ r = Token("refresh", p, c, now + RefreshTTL)
  OBVIOUS
<1>2. PICK R : R = {x \in T : x.exp >= now} \cup {a, r}
  OBVIOUS
<1>3. Issued(T, p, c) = R
  BY <1>1, <1>2 DEF Issued, Purged, Live
<1>4. /\ a.kind = "access" /\ a.id = p /\ a.client = c /\ a.exp = now + AccessTTL /\ a.at = 0 /\ a.nth = 0
      /\ r.kind = "refresh" /\ r.id = p /\ r.client = c /\ r.exp = now + RefreshTTL /\ r.at = 0 /\ r.nth = 0
  BY <1>1 DEF Token
<1>5. ASSUME NEW d, NEW exp \in Nat, exp >= now PROVE Outliving(R, d, exp) = Outliving(T, d, exp)
  <2>1. \A m \in T : m.exp \in Nat
    BY DEF Family
  <2>2. \A m \in T : m.exp >= exp => m.exp >= now
    BY <1>5, <2>1
  <2> QED
    BY <1>2, <1>4, <2>2 DEF Outliving, Markers
<1>6. IsFiniteSet(R)
  <2>1. {x \in T : x.exp >= now} \in SUBSET T /\ IsFiniteSet(T)
    BY DEF Family
  <2>2. IsFiniteSet({x \in T : x.exp >= now})
    BY <2>1, FS_Subset
  <2>3. IsFiniteSet({x \in T : x.exp >= now} \cup {a})
    BY <2>2, FS_AddElement
  <2>4. R = ({x \in T : x.exp >= now} \cup {a}) \cup {r}
    BY <1>2
  <2> QED
    BY <2>3, <2>4, FS_AddElement
<1>7. \A x \in R : x.exp \in Nat /\ x.at \in Nat /\ x.nth \in Nat
  BY <1>0, <1>2, <1>4 DEF Family
<1>8. \A x, y \in R : Kin(x) /\ Kin(y) /\ x.id = y.id => x = y
  BY <1>2, <1>4 DEF Family, Kin
<1>9. \A x \in R : Kin(x) => x.exp <= now + RefreshTTL
  BY <1>0, <1>2, <1>4 DEF Family, Kin
<1>10. ASSUME NEW x \in R, Kin(x), x.client \notin rejected, grant[x.id] \in Pairs
       PROVE  Marked(R, grant[x.id], x.client, x.exp)
  <2>1. x.exp \in Nat /\ x.exp >= now
    BY <1>0, <1>2, <1>4, <1>7
  <2>2. Marked(T, grant[x.id], x.client, x.exp)
    BY <1>2, <1>4, <1>10 DEF Family, Kin
  <2> QED
    BY <1>5, <2>1, <2>2 DEF Marked
<1> QED
  BY <1>3, <1>6, <1>7, <1>8, <1>9, <1>10 DEF Family

\* A copy from which tokens were taken, and of some clients every record.
Thinned(T, S) ==
  /\ T \subseteq S
  /\ \A c : Markers(T, c) = Markers(S, c) \/ \A x \in T : x.client # c

\* What a save leaves out is no marker, or the client loses everything.
LEMMA ThinnedFamily ==
  ASSUME NEW S, Family(S), NEW T, Thinned(T, S)
  PROVE  Family(T)
<1>1. T \in SUBSET S /\ IsFiniteSet(S)
  BY DEF Family, Thinned
<1>2. IsFiniteSet(T)
  BY <1>1, FS_Subset
<1>3. ASSUME NEW x \in T, Kin(x), x.client \notin rejected, grant[x.id] \in Pairs
      PROVE  Marked(T, grant[x.id], x.client, x.exp)
  <2>1. Marked(S, grant[x.id], x.client, x.exp)
    BY <1>1, <1>3 DEF Family
  <2>2. Outliving(T, x.client, x.exp) = Outliving(S, x.client, x.exp)
    BY DEF Thinned, Outliving
  <2> QED
    BY <2>1, <2>2 DEF Marked
<1> QED
  BY <1>1, <1>2, <1>3 DEF Family

\* Nothing is asked of no tokens.
LEMMA NoFamily ==
  Family({})
<1>1. IsFiniteSet({})
  BY FS_EmptySet
<1> QED
  BY <1>1 DEF Family

\* Time, rejections and requests that end do not harm the markers.
LEMMA FamilyStays ==
  ASSUME NEW T, Family(T), \A x \in T : IsToken(x),
         \A x \in T : grant'[x.id] \in {grant[x.id], None},
         rejected \subseteq rejected', now \in Nat, now' \in Nat, now' >= now
  PROVE  Family(T)'
<1>1. RefreshTTL \in Nat
  BY SettingsAssumption
<1>2. ASSUME NEW x \in T, Kin(x) PROVE x.exp <= now' + RefreshTTL
  <2>1. x.exp \in Nat /\ x.exp <= now + RefreshTTL
    BY <1>2 DEF Family
  <2> QED
    BY <1>1, <2>1
<1>3. ASSUME NEW x \in T, Kin(x), x.client \notin rejected', grant'[x.id] \in Pairs
      PROVE  Marked(T, grant[x.id], x.client, x.exp) /\ grant'[x.id] = grant[x.id]
  <2>1. grant'[x.id] = grant[x.id]
    BY <1>3, NamesDistinct
  <2> QED
    BY <1>3, <2>1 DEF Family
<1>4. IsFiniteSet(T) /\ \A x \in T : x.exp \in Nat /\ x.at \in Nat /\ x.nth \in Nat
  BY DEF Family
<1>5. \A x, y \in T : Kin(x) /\ Kin(y) /\ x.id = y.id => x = y
  BY DEF Family
<1> QED
  BY <1>2, <1>3, <1>4, <1>5 DEF Family, Marked, Outliving, Markers, Kin

\* Where the tokens on disk and in the server's copies come from: an older copy
\* with some records taken out, a pair that is issued, or a rotation.
TakenFrom(T) == \E S \in {disk.tokens, buf.tokens, tbuf, {}} : Thinned(T, S)

\* Nothing, and everything but a client's records, are such copies.
LEMMA ThinnedSelf ==
  /\ \A T : Thinned(T, T)
  /\ \A S : Thinned({}, S)
  /\ \A S, T : T \subseteq S /\ (\A x \in S \ T : x.kind # "spent") => Thinned(T, S)
  /\ \A S, T, c : (\A x : x \in T <=> x \in S /\ x.client # c) => Thinned(T, S)
BY DEF Thinned, Markers

\* What others have is such a copy.
LEMMA OthersTaken ==
  ASSUME NEW c
  PROVE  TakenFrom({t \in Loaded("tokens") : t.client # c})
<1>1. PICK S, T : S = Loaded("tokens") /\ T = {t \in S : t.client # c}
  OBVIOUS
<1>2. Thinned(T, S)
  BY <1>1, ThinnedSelf
<1>3. S \in {disk.tokens, {}}
  BY <1>1 DEF Loaded
<1> QED
  BY <1>1, <1>2, <1>3 DEF TakenFrom

\* Every step but those two kinds takes records out of an older copy or leaves it.
LEMMA MarkerFlow ==
  ASSUME Typed, Mutex, Counters, Next, ~overwritten'
  PROVE  /\ TakenFrom(disk'.tokens) /\ TakenFrom(tbuf')
         /\ \/ TakenFrom(buf'.tokens)
            \/ \E p \in Pairs : IssueLoads(p) \/ \E r \in RefreshRec(grant[p]) : Rotates(p, r)
<1> USE NamesDistinct DEF Typed, Files, NoBuf, Hold, Quiet, Idle, Release, files, requests,
        history, Loaded, Save
<1>0. TakenFrom(disk.tokens) /\ TakenFrom(buf.tokens) /\ TakenFrom(tbuf) /\ TakenFrom({})
  BY ThinnedSelf DEF TakenFrom
<1>1. CASE \E c \in Clients : \/ RegisterLoadsClients(c) \/ RegisterLoadsApprovals(c)
                              \/ RegisterSavesFirst(c) \/ RegisterSavesSecond(c)
  <2>1. disk'.tokens = disk.tokens /\ buf'.tokens \in {buf.tokens, {}} /\ tbuf' \in {tbuf, {}}
    BY <1>1 DEF RegisterLoadsClients, RegisterLoadsApprovals, RegisterSavesFirst,
       RegisterSavesSecond, RegisterOrder
  <2> QED
    BY <1>0, <2>1, SMTT(30)
<1>2. CASE \/ \E k \in Codes : (\E c \in Clients : AuthorizeChecks(k, c)) \/ AuthorizeLoads(k)
           \/ \E p \in Pairs : ExchangeCode(p) \/ \E k \in Codes, c \in Clients : LoadCode(p, k, c)
           \/ \E q \in Codes \cup Pairs : SaveCodes(q)
           \/ \E p \in Pairs, r \in Pairs, c \in Clients : LoadRefresh(p, r, c)
  <2>1. disk'.tokens = disk.tokens /\ buf'.tokens \in {buf.tokens, {}} /\ tbuf' \in {tbuf, {}}
    <3>1. CASE \E k \in Codes : (\E c \in Clients : AuthorizeChecks(k, c)) \/ AuthorizeLoads(k)
      BY <3>1 DEF AuthorizeChecks, AuthorizeLoads
    <3>2. CASE \E p \in Pairs : ExchangeCode(p) \/ \E k \in Codes, c \in Clients : LoadCode(p, k, c)
      BY <3>2 DEF ExchangeCode, LoadCode
    <3>3. CASE \E q \in Codes \cup Pairs : SaveCodes(q)
      BY <3>3 DEF SaveCodes
    <3>4. CASE \E p \in Pairs, r \in Pairs, c \in Clients : LoadRefresh(p, r, c)
      BY <3>4 DEF LoadRefresh
    <3> QED
      BY <1>2, <3>1, <3>2, <3>3, <3>4
  <2> QED
    BY <1>0, <2>1, SMTT(30)
<1>3. CASE \E p \in Pairs, r \in Pairs, c \in Clients : DetectReuse(p, r, c)
  <2>1. PICK p \in Pairs, r \in Pairs, c \in Clients : DetectReuse(p, r, c)
    BY <1>3
  <2>2. /\ disk' = disk /\ tbuf' = tbuf
        /\ buf'.tokens = {t \in Loaded("tokens") : t.client # c}
    BY <2>1 DEF DetectReuse, RevokeReused
  <2>5. TakenFrom(buf'.tokens)
    <3> HIDE DEF Loaded
    <3>1. PICK T : T = {t \in Loaded("tokens") : t.client # c}
      OBVIOUS
    <3>2. TakenFrom(T)
      BY <3>1, OthersTaken, SMTT(30)
    <3> QED
      BY <2>2, <3>1, <3>2
  <2> QED
    BY <1>0, <2>2, <2>5
<1>4. CASE \E p \in Pairs : ExchangeRefresh(p)
  <2>1. PICK p \in Pairs : ExchangeRefresh(p)
    BY <1>4
  <2>2. CASE \E r \in RefreshRec(grant[p]) : Rotates(p, r)
    <3>1. disk' = disk /\ tbuf' = tbuf
      BY <2>2 DEF Rotates, ExchangeRefresh
    <3> QED
      BY <1>0, <2>2, <3>1
  <2>3. CASE ~\E r \in RefreshRec(grant[p]) : Rotates(p, r)
    <3>1. disk' = disk /\ tbuf' = tbuf
      BY <2>1 DEF ExchangeRefresh
    <3>2. \/ buf' = buf
          \/ \E r \in RefreshRec(grant[p]) : buf'.tokens = Loaded("tokens") \ {r}
      BY <2>1, <2>3 DEF ExchangeRefresh, Rotates
    <3>3. \A r \in RefreshRec(grant[p]) : r.kind # "spent"
      BY DEF RefreshRec, Find, Key
    <3>4. TakenFrom(buf'.tokens)
      <4>1. ASSUME NEW r \in RefreshRec(grant[p]), buf'.tokens = Loaded("tokens") \ {r}
            PROVE  TakenFrom(buf'.tokens)
        <5>1. Thinned(Loaded("tokens") \ {r}, Loaded("tokens"))
          BY <3>3, ThinnedSelf
        <5>2. Loaded("tokens") \in {disk.tokens, {}}
          OBVIOUS
        <5> QED
          BY <4>1, <5>1, <5>2 DEF TakenFrom
      <4> QED
        BY <1>0, <3>2, <4>1
    <3> QED
      BY <1>0, <3>1, <3>4
  <2> QED
    BY <2>2, <2>3
<1>5. CASE \E p \in Pairs : IssueLoads(p)
  <2>1. disk' = disk /\ tbuf' = tbuf
    BY <1>5 DEF IssueLoads
  <2> QED
    BY <1>0, <1>5, <2>1
<1>6. CASE \/ \E q \in Pairs \cup Probes : SaveTokens(q)
           \/ \E u \in Probes : AccessSaves(u)
  <2>1. /\ disk'.tokens \in {buf.tokens, tbuf} /\ buf'.tokens \in {buf.tokens, {}}
        /\ tbuf' \in {tbuf, {}}
    BY <1>6 DEF SaveTokens, AccessSaves
  <2> QED
    BY <1>0, <2>1
<1>7. CASE \E u \in Probes, p \in Pairs : AccessLoads(u, p)
  <2>1. PICK u \in Probes, p \in Pairs : AccessLoads(u, p)
    BY <1>7
  <2>2. PICK t \in Find(Loaded("tokens"), <<"access", p>>) : tbuf' = Loaded("tokens") \ {t}
    BY <2>1 DEF AccessLoads
  <2>3. disk' = disk /\ buf' = buf
    BY <2>1 DEF AccessLoads
  <2>4. t.kind # "spent"
    BY DEF Find, Key
  <2>5. Thinned(tbuf', Loaded("tokens"))
    BY <2>2, <2>4, ThinnedSelf
  <2>6. Loaded("tokens") \in {disk.tokens, {}}
    OBVIOUS
  <2>7. TakenFrom(tbuf')
    BY <2>5, <2>6 DEF TakenFrom
  <2> QED
    BY <1>0, <2>3, <2>7
<1>8. CASE \E u \in Probes, p \in Pairs, kind \in {"access", "refresh"} : RevokeFinds(u, p, kind)
  <2>1. disk' = disk /\ buf' = buf /\ tbuf' = tbuf
    BY <1>8 DEF RevokeFinds
  <2> QED
    BY <1>0, <2>1
<1>9. CASE \E u \in Probes : RevokeLoads(u)
  <2>1. PICK u \in Probes : RevokeLoads(u)
    BY <1>9
  <2>2. /\ disk' = disk /\ tbuf' = tbuf /\ pc[u] = "held"
        /\ buf'.tokens = Loaded("tokens") \ Find(Loaded("tokens"), grant[u])
    BY <2>1 DEF RevokeLoads
  <2>3. \A t \in Find(Loaded("tokens"), grant[u]) : t.kind # "spent"
    <3>1. grant[u][1] \in {"access", "refresh"}
      BY <2>2 DEF Counters
    <3> QED
      BY <3>1 DEF Find, Key
  <2>4. Thinned(buf'.tokens, Loaded("tokens"))
    BY <2>2, <2>3, ThinnedSelf
  <2>5. Loaded("tokens") \in {disk.tokens, {}}
    OBVIOUS
  <2>6. TakenFrom(buf'.tokens)
    BY <2>4, <2>5 DEF TakenFrom
  <2> QED
    BY <1>0, <2>2, <2>6
<1>10. CASE CommandSaves("tokens")
  <2>1. cmd.buf = Edited("tokens") /\ disk'.tokens = cmd.buf /\ UNCHANGED <<buf, tbuf>>
    BY <1>10 DEF CommandSaves, Stale, Strict
  <2>2. Edited("tokens") = {r \in Loaded("tokens") : r.client # cmd.client}
    BY DEF Edited
  <2>5. TakenFrom(disk'.tokens)
    <3> HIDE DEF Loaded
    <3> QED
      BY <2>1, <2>2, OthersTaken
  <2> QED
    BY <1>0, <2>1, <2>5
<1>11. CASE \/ \E f \in Files : CommandLoads(f) \/ (f # "tokens" /\ CommandSaves(f))
            \/ \E f \in Files : Corrupted(f) \/ Repaired(f)
            \/ Interrupted \/ Start \/ Migrate \/ Crash \/ Tick
            \/ \E op \in {"approve", "reject"}, c \in Clients : Command(op, c)
  <2>1. disk'.tokens = disk.tokens /\ buf'.tokens \in {buf.tokens, {}} /\ tbuf' \in {tbuf, {}}
    <3>1. CASE \E f \in Files : CommandLoads(f) \/ (f # "tokens" /\ CommandSaves(f))
      BY <3>1 DEF CommandLoads, CommandSaves
    <3>2. CASE \/ \E f \in Files : Corrupted(f) \/ Repaired(f)
               \/ Interrupted \/ Tick
               \/ \E op \in {"approve", "reject"}, c \in Clients : Command(op, c)
      BY <3>2 DEF Corrupted, Repaired, Interrupted, Tick, Command
    <3>3. CASE Start \/ Migrate \/ Crash
      BY <3>3 DEF Start, Migrate, Crash
    <3> QED
      BY <1>11, <3>1, <3>2, <3>3
  <2> QED
    BY <1>0, <2>1, SMTT(30)
<1> QED
  BY <1>1, <1>2, <1>3, <1>4, <1>5, <1>6, <1>7, <1>8, <1>9, <1>10, <1>11 DEF Next

\* Time goes on, rejections are for good, and what the property excepts stays.
LEMMA CountersStep ==
  ASSUME Typed, Mutex, Counters, Next
  PROVE  /\ Counters'
         /\ now' >= now /\ rejected \subseteq rejected'
         /\ overwritten => overwritten'
         /\ mishaps' = 0 => /\ mishaps = 0
                            /\ (\A f \in Files : Readable(f)) => \A f \in Files : Readable(f)'
<1> USE DEF Typed, Mutex, Counters, Requests, Files, Readable, Hold, At, Quiet, Save, Release, Idle,
        files, requests, history, bounds
<1>1. ASSUME NEW c \in Clients,
             \/ RegisterLoadsClients(c) \/ RegisterLoadsApprovals(c)
             \/ RegisterSavesFirst(c) \/ RegisterSavesSecond(c)
      PROVE  /\ UNCHANGED <<bounds, history>> /\ \A f \in Files : state'[f] \in {state[f], "ok"}
             /\ \A u \in Probes : pc'[u] = pc[u] /\ grant'[u] = grant[u]
  BY <1>1, NamesDistinct DEF RegisterLoadsClients, RegisterLoadsApprovals, RegisterSavesFirst,
     RegisterSavesSecond, RegisterOrder
<1>2. CASE \E k \in Codes : (\E c \in Clients : AuthorizeChecks(k, c)) \/ AuthorizeLoads(k)
  BY <1>2, NamesDistinct DEF AuthorizeChecks, AuthorizeLoads, Presents
<1>3. CASE \E p \in Pairs : ExchangeCode(p) \/ \E k \in Codes, c \in Clients : LoadCode(p, k, c)
  BY <1>3, NamesDistinct DEF ExchangeCode, LoadCode, Presents
<1>4. CASE \E q \in Codes \cup Pairs : SaveCodes(q)
  BY <1>4, NamesDistinct DEF SaveCodes
<1>5. CASE \E p \in Pairs : \/ ExchangeRefresh(p) \/ IssueLoads(p)
                            \/ \E r \in Pairs, c \in Clients :
                                 LoadRefresh(p, r, c) \/ DetectReuse(p, r, c)
  <2>1. CASE \E p \in Pairs : ExchangeRefresh(p) \/ IssueLoads(p)
    BY <2>1, NamesDistinct DEF ExchangeRefresh, IssueLoads
  <2>2. CASE \E p \in Pairs, r \in Pairs, c \in Clients :
               LoadRefresh(p, r, c) \/ DetectReuse(p, r, c)
    BY <2>2, NamesDistinct DEF LoadRefresh, DetectReuse, RevokeReused, Presents
  <2> QED
    BY <1>5, <2>1, <2>2
<1>6. CASE \E q \in Pairs \cup Probes : SaveTokens(q)
  BY <1>6, NamesDistinct DEF SaveTokens
<1>7. CASE \E u \in Probes : \/ \E p \in Pairs : AccessLoads(u, p)
                             \/ AccessSaves(u) \/ RevokeLoads(u)
  <2>1. CASE \E u \in Probes, p \in Pairs : AccessLoads(u, p)
    BY <2>1, NamesDistinct DEF AccessLoads
  <2>2. CASE \E u \in Probes : AccessSaves(u) \/ RevokeLoads(u)
    BY <2>2, NamesDistinct DEF AccessSaves, RevokeLoads
  <2> QED
    BY <1>7, <2>1, <2>2
<1>8. CASE \E u \in Probes, p \in Pairs, kind \in {"access", "refresh"} : RevokeFinds(u, p, kind)
  <2>1. PICK u \in Probes, p \in Pairs, kind \in {"access", "refresh"} : RevokeFinds(u, p, kind)
    BY <1>8
  <2>2. /\ UNCHANGED <<bounds, history, state>>
        /\ grant'[u] = <<kind, p>> /\ \A v \in Probes \ {u} : pc'[v] = pc[v] /\ grant'[v] = grant[v]
    BY <2>1, NamesDistinct DEF RevokeFinds
  <2> QED
    BY <2>2
<1>9. CASE \E f \in Files : CommandLoads(f) \/ CommandSaves(f)
  BY <1>9 DEF CommandLoads, CommandSaves
<1>10. CASE Interrupted \/ \E op \in {"approve", "reject"}, c \in Clients : Command(op, c)
  BY <1>10 DEF Interrupted, Command
<1>11. CASE Start \/ Migrate \/ Crash
  BY <1>11 DEF Start, Migrate, Crash
<1>12. CASE Tick \/ \E f \in Files : Corrupted(f) \/ Repaired(f)
  BY <1>12 DEF Tick, Corrupted, Repaired
<1>13. CASE \E c \in Clients : \/ RegisterLoadsClients(c) \/ RegisterLoadsApprovals(c)
                               \/ RegisterSavesFirst(c) \/ RegisterSavesSecond(c)
  BY <1>1, <1>13
<1> QED
  BY <1>2, <1>3, <1>4, <1>5, <1>6, <1>7, <1>8, <1>9, <1>10, <1>11, <1>12, <1>13 DEF Next

\* While a request rotates, or has yet to issue its pair, nothing but the operator's
\* command touches what is stored.
LEMMA HeldShape ==
  ASSUME Typed, Mutex, Next, NEW p \in Pairs, pc'[p] \in {"rotating", "issue"}
  PROVE  /\ who'[p] = who[p] /\ grant'[p] = grant[p] /\ now' = now
         /\ \/ pc'[p] = pc[p] /\ buf'.tokens = buf.tokens
               /\ (disk'.tokens = disk.tokens \/ CommandSaves("tokens"))
            \/ pc'[p] = "rotating" /\ \E r \in RefreshRec(grant[p]) : Rotates(p, r)
            \/ pc'[p] = "issue" /\ pc[p] = "spending"
            \/ pc'[p] = "issue" /\ pc[p] = "rotating" /\ SaveTokens(p)
<1> USE NamesDistinct DEF Typed, Mutex, Requests, Locked, Registering, Unlocked, LoopFree,
        Hold, At, Quiet, Release, Idle, files, requests, bounds, history
<1>1. CASE \E c \in Clients : \/ RegisterLoadsClients(c) \/ RegisterLoadsApprovals(c)
                              \/ RegisterSavesFirst(c) \/ RegisterSavesSecond(c)
  BY <1>1 DEF RegisterLoadsClients, RegisterLoadsApprovals, RegisterSavesFirst, RegisterSavesSecond
<1>2. CASE \E k \in Codes : (\E c \in Clients : AuthorizeChecks(k, c)) \/ AuthorizeLoads(k)
  BY <1>2 DEF AuthorizeChecks, AuthorizeLoads, Presents
<1>3. CASE \E x \in Pairs : ExchangeCode(x) \/ \E k \in Codes, c \in Clients : LoadCode(x, k, c)
  BY <1>3 DEF ExchangeCode, LoadCode, Presents
<1>4. CASE \E q \in Codes \cup Pairs : SaveCodes(q)
  BY <1>4 DEF SaveCodes, Save
<1>5. CASE \E x \in Pairs : IssueLoads(x)
  BY <1>5 DEF IssueLoads
<1>6. CASE \E x \in Pairs : ExchangeRefresh(x)
  <2>1. PICK x \in Pairs : ExchangeRefresh(x)
    BY <1>6
  <2>2. CASE x # p
    BY <2>1, <2>2 DEF ExchangeRefresh
  <2>3. CASE x = p
    <3> HIDE DEF At
    <3>1. \/ At(p, "ended") \/ At(p, "dropping")
          \/ At(p, "rotating") /\ \E r \in RefreshRec(grant[p]) : Rotates(p, r)
      BY <2>1, <2>3 DEF ExchangeRefresh, Rotates
    <3>2. pc'[p] = "rotating" /\ \E r \in RefreshRec(grant[p]) : Rotates(p, r)
      BY <3>1 DEF At
    <3>3. At(p, "rotating") /\ now' = now
      BY <2>1, <3>1, <3>2 DEF At, ExchangeRefresh
    <3>4. who'[p] = who[p] /\ grant'[p] = grant[p]
      BY <3>3 DEF At
    <3> QED
      BY <3>2, <3>3, <3>4
  <2> QED
    BY <2>2, <2>3
<1>7. CASE \E x \in Pairs, r \in Pairs, c \in Clients :
             LoadRefresh(x, r, c) \/ DetectReuse(x, r, c)
  <2>1. PICK x \in Pairs, r \in Pairs, c \in Clients :
          LoadRefresh(x, r, c) \/ DetectReuse(x, r, c)
    BY <1>7
  <2>2. CASE LoadRefresh(x, r, c)
    BY <2>2 DEF LoadRefresh, Presents
  <2>3. CASE DetectReuse(x, r, c)
    BY <2>3 DEF DetectReuse, RevokeReused, Presents
  <2> QED
    BY <2>1, <2>2, <2>3
<1>8. CASE \E q \in Pairs \cup Probes : SaveTokens(q)
  BY <1>8 DEF SaveTokens, Save
<1>9. CASE \E u \in Probes : \/ \E x \in Pairs : AccessLoads(u, x)
                             \/ \E x \in Pairs, kind \in {"access", "refresh"} : RevokeFinds(u, x, kind)
                             \/ AccessSaves(u) \/ RevokeLoads(u)
  <2>1. PICK u \in Probes : \/ \E x \in Pairs : AccessLoads(u, x)
                            \/ \E x \in Pairs, kind \in {"access", "refresh"} : RevokeFinds(u, x, kind)
                            \/ AccessSaves(u) \/ RevokeLoads(u)
    BY <1>9
  <2>2. CASE AccessSaves(u)
    BY <2>2 DEF AccessSaves
  <2>3. CASE RevokeLoads(u)
    BY <2>3 DEF RevokeLoads
  <2>4. CASE \E x \in Pairs : AccessLoads(u, x)
    BY <2>4 DEF AccessLoads
  <2>5. CASE \E x \in Pairs, kind \in {"access", "refresh"} : RevokeFinds(u, x, kind)
    BY <2>5 DEF RevokeFinds
  <2> QED
    BY <2>1, <2>2, <2>3, <2>4, <2>5
<1>10. CASE Start \/ Migrate \/ Crash \/ Tick
  BY <1>10 DEF Start, Migrate, Crash, Tick
<1>11. CASE \/ Interrupted
            \/ \E op \in {"approve", "reject"}, c \in Clients : Command(op, c)
            \/ \E f \in Files : \/ CommandLoads(f) \/ CommandSaves(f)
                                \/ Corrupted(f) \/ Repaired(f)
  <2>1. UNCHANGED <<pc, who, grant, buf, now>>
    BY <1>11 DEF Interrupted, Command, CommandLoads, CommandSaves, Corrupted, Repaired
  <2>2. disk'.tokens = disk.tokens \/ CommandSaves("tokens")
    BY <1>11 DEF Interrupted, Command, CommandLoads, CommandSaves, Corrupted, Repaired, Save, Files
  <2> QED
    BY <2>1, <2>2
<1> QED
  BY <1>1, <1>2, <1>3, <1>4, <1>5, <1>6, <1>7, <1>8, <1>9, <1>10, <1>11 DEF Next

\* A request that has its grant keeps it, or is over.
LEMMA GrantKept ==
  ASSUME Typed, Mutex, Next, NEW p \in Pairs, pc[p] # "new"
  PROVE  grant'[p] \in {grant[p], None}
BY UseShape DEF LoadCode, LoadRefresh, DetectReuse, RevokeReused, Presents

\* Who rotates does so with the token of the client it acts for.
LEMMA RotatesOwn ==
  ASSUME Typed, TokensOwned, NEW p \in Pairs, NEW r \in RefreshRec(grant[p]), Rotates(p, r)
  PROVE  r.client = who[p] /\ r.id = grant[p] /\ r.kind = "refresh" /\ r \in Loaded("tokens")
<1>1. \A x \in RefreshRec(grant[p]) : x.kind = "refresh" /\ x.id = grant[p] /\ x \in Loaded("tokens")
  BY DEF RefreshRec, Find, Key
<1>2. At(p, "rotating")
  BY DEF Rotates, Hold
<1>3. pc'[p] = "rotating"
  BY <1>2, NamesDistinct DEF At, Typed, Requests
<1>4. ~At(p, "ended") /\ p \in DOMAIN pc
  BY <1>3, NamesDistinct DEF At, Typed, Requests
<1>5. PICK x \in RefreshRec(grant[p]) : x.client = who[p]
  BY <1>4 DEF Rotates, ExchangeRefresh
<1>6. x = r
  <2>1. x \in StoredTokens /\ r \in StoredTokens /\ Key(x) = Key(r) /\ x.kind # "spent"
    BY <1>1 DEF StoredTokens, Loaded, Key
  <2> QED
    BY <2>1 DEF TokensOwned
<1> QED
  BY <1>1, <1>5, <1>6

\* The tokens a step leaves, and those it mints, keep their markers.
LEMMA FamilyFlow ==
  ASSUME Inv, Counters, Families, Next, mishaps' = 0, ~overwritten'
  PROVE  Family(disk.tokens)' /\ Family(buf.tokens)' /\ Family(tbuf)'
<1>1. /\ mishaps = 0 /\ ~overwritten /\ now \in Nat /\ now' \in Nat /\ now' >= now
      /\ rejected \subseteq rejected'
  BY CountersStep DEF Inv, Counters
<1>2. /\ Family(disk.tokens) /\ Family(buf.tokens) /\ Family(tbuf)
      /\ Loaded("tokens") = disk.tokens
  BY <1>1 DEF Families, Loaded, Files
<1>3. ASSUME NEW T, Family(T),
             \A x \in T : IsToken(x) /\ pc[x.id] \in {"issue", "issuing", "issued"}
      PROVE  Family(T)'
  <2>1. \A x \in T : grant'[x.id] \in {grant[x.id], None}
    BY <1>3, GrantKept DEF Inv, IsToken
  <2> QED
    BY <1>1, <1>3, <2>1, FamilyStays
<1>4. \A x \in disk.tokens \cup buf.tokens \cup tbuf : IsToken(x) /\ pc[x.id] \in {"issuing", "issued"}
  BY DEF Inv, TokensOwned, StoredTokens
<1>5. ASSUME NEW T, TakenFrom(T) PROVE Family(T)'
  <2>1. PICK S : S \in {disk.tokens, buf.tokens, tbuf, {}} /\ Thinned(T, S)
    BY <1>5 DEF TakenFrom
  <2>2. Family(S)
    BY <1>2, <2>1, NoFamily
  <2>3. Family(T)
    BY <2>1, <2>2, ThinnedFamily
  <2>4. T \subseteq S
    BY <2>1 DEF Thinned
  <2> QED
    BY <1>3, <1>4, <2>1, <2>3, <2>4
<1>6. PICK D, B, W : D = disk'.tokens /\ B = buf'.tokens /\ W = tbuf'
  OBVIOUS
<1>7. /\ TakenFrom(D) /\ TakenFrom(W)
      /\ \/ TakenFrom(B)
         \/ \E p \in Pairs : IssueLoads(p) \/ \E r \in RefreshRec(grant[p]) : Rotates(p, r)
  <2>1. TakenFrom({})
    BY ThinnedSelf DEF TakenFrom
  <2> QED
    BY <1>6, MarkerFlow DEF Inv
<1>8. PICK T : T = disk.tokens
  OBVIOUS
<1>9. ASSUME NEW p \in Pairs, IssueLoads(p) PROVE Family(B)'
  <2>1. pc[p] = "issue" /\ buf'.tokens = Issued(T, p, who[p])
    BY <1>2, <1>8, <1>9 DEF IssueLoads, Hold, NoBuf, Files
  <2>2. PICK c : c = who[p]
    OBVIOUS
  <2>3. \A x \in T : x.id # p
    BY <1>8, <2>1 DEF Inv, TokensOwned, StoredTokens
  <2>4. Family(Issued(T, p, c))
    <3>1. grant[p] \in Pairs /\ c \notin rejected => Marked(T, grant[p], c, now + RefreshTTL)
      BY <1>1, <1>8, <2>1, <2>2 DEF Families
    <3> QED
      BY <1>1, <1>2, <1>8, <2>3, <3>1, IssuedFamily
  <2>5. \A x \in Issued(T, p, c) : IsToken(x) /\ pc[x.id] \in {"issue", "issuing", "issued"}
    <3>1. c \in Clients
      BY <2>1, <2>2 DEF Inv, Typed
    <3>2. \A e : \A k \in {"access", "refresh"} : /\ IsToken(Token(k, p, c, e)) /\ Token(k, p, c, e).id = p
      BY <3>1 DEF IsToken, Token
    <3>3. \A x \in Issued(T, p, c) : \/ x \in T
                                     \/ \E k \in {"access", "refresh"} : \E e : x = Token(k, p, c, e)
      BY DEF Issued, Purged
    <3> QED
      BY <1>4, <1>8, <2>1, <3>2, <3>3
  <2>6. B = Issued(T, p, c)
    BY <1>6, <2>1, <2>2
  <2> QED
    BY <1>3, <2>4, <2>5, <2>6
<1>10. ASSUME NEW p \in Pairs, NEW r \in RefreshRec(grant[p]), Rotates(p, r) PROVE Family(B)'
  <2>1. B = Rotated(T, r)
    BY <1>2, <1>6, <1>8, <1>10 DEF Rotates, Hold, NoBuf, Files
  <2>2. r \in T /\ r.kind = "refresh"
    BY <1>2, <1>8, <1>10, RotatesOwn DEF Inv
  <2>3. \A x \in T : IsToken(x) /\ pc[x.id] \in {"issuing", "issued"}
    BY <1>4, <1>8
  <2>4. Family(Rotated(T, r))
    BY <1>1, <1>2, <1>8, <2>2, <2>3, RotatedFamily
  <2>5. \A x \in Rotated(T, r) : IsToken(x) /\ pc[x.id] \in {"issue", "issuing", "issued"}
    BY <2>2, <2>3, RotatedFacts
  <2> QED
    BY <1>3, <2>1, <2>4, <2>5
<1>11. Family(D)' /\ Family(W)' /\ Family(B)'
  BY <1>5, <1>7, <1>9, <1>10
<1> QED
  BY <1>6, <1>11 DEF Family, Marked, Outliving, Markers, Kin

\* The markers stand by while the rotation and the new pair are saved one after
\* the other, whatever a rejection takes away in between.
LEMMA FamiliesStep ==
  ASSUME Inv, Counters, Families, Next
  PROVE  Families'
<1> SUFFICES ASSUME mishaps' = 0, ~overwritten' PROVE Families'
  BY DEF Families
<1>1. /\ mishaps = 0 /\ ~overwritten /\ now \in Nat
      /\ rejected \subseteq rejected'
      /\ \A f \in Files : Readable(f) /\ Readable(f)'
  BY CountersStep DEF Inv, Counters, Families
<1>2. Family(disk.tokens)' /\ Family(buf.tokens)' /\ Family(tbuf)'
  BY FamilyFlow
<1>3. Loaded("tokens") = disk.tokens
  BY <1>1 DEF Loaded, Files
<1>4. ASSUME NEW p \in Pairs, pc'[p] \in {"rotating", "issue"}, grant'[p] \in Pairs, who'[p] \notin rejected'
      PROVE  /\ pc'[p] = "rotating" => Marked(buf'.tokens, grant'[p], who'[p], now' + RefreshTTL)
             /\ pc'[p] = "issue" => Marked(disk'.tokens, grant'[p], who'[p], now' + RefreshTTL)
  <2>1. /\ who'[p] = who[p] /\ grant'[p] = grant[p] /\ now' = now
        /\ \/ pc'[p] = pc[p] /\ buf'.tokens = buf.tokens
              /\ (disk'.tokens = disk.tokens \/ CommandSaves("tokens"))
           \/ pc'[p] = "rotating" /\ \E r \in RefreshRec(grant[p]) : Rotates(p, r)
           \/ pc'[p] = "issue" /\ pc[p] = "spending"
           \/ pc'[p] = "issue" /\ pc[p] = "rotating" /\ SaveTokens(p)
    BY <1>4, HeldShape DEF Inv
  <2>2. PICK g, c, e : g = grant[p] /\ c = who[p] /\ e = now + RefreshTTL
    OBVIOUS
  <2>3. /\ g \in Pairs /\ c \notin rejected /\ c \notin rejected'
        /\ pc[p] = "rotating" => Marked(buf.tokens, g, c, e)
        /\ pc[p] = "issue" => Marked(disk.tokens, g, c, e)
    BY <1>1, <1>4, <2>1, <2>2 DEF Families
  <2>4. SUFFICES /\ pc'[p] = "rotating" => Marked(buf'.tokens, g, c, e)
                 /\ pc'[p] = "issue" => Marked(disk'.tokens, g, c, e)
    BY <2>1, <2>2
  <2>5. CASE pc'[p] = pc[p] /\ buf'.tokens = buf.tokens /\ disk'.tokens = disk.tokens
    BY <2>3, <2>5
  <2>6. CASE pc'[p] = pc[p] /\ buf'.tokens = buf.tokens /\ CommandSaves("tokens")
    <3>1. /\ cmd.buf = Edited("tokens") /\ disk'.tokens = cmd.buf
          /\ rejected' = rejected \cup {cmd.client}
      BY <2>6 DEF CommandSaves, Stale, Strict, Save, Inv, Typed, Files
    <3>2. PICK T, R, d : T = disk.tokens /\ R = disk'.tokens /\ d = cmd.client
      OBVIOUS
    <3>3. R = {r \in T : r.client # d} /\ c # d
      BY <1>3, <2>3, <3>1, <3>2 DEF Edited
    <3>4. Outliving(R, c, e) = Outliving(T, c, e)
      BY <3>3 DEF Outliving, Markers
    <3>5. Marked(T, g, c, e) => Marked(R, g, c, e)
      BY <3>4 DEF Marked
    <3> QED
      BY <2>3, <2>6, <3>2, <3>5
  <2>7. CASE pc'[p] = "rotating" /\ \E r \in RefreshRec(grant[p]) : Rotates(p, r)
    <3>1. PICK r \in RefreshRec(grant[p]) : Rotates(p, r)
      BY <2>7
    <3>2. r.client = c /\ r.id = g /\ r.kind = "refresh" /\ r \in disk.tokens
      BY <1>3, <2>2, <3>1, RotatesOwn DEF Inv
    <3>3. PICK T : T = disk.tokens
      OBVIOUS
    <3>4. Family(T) /\ \A t \in T : IsToken(t)
      BY <1>1, <3>3 DEF Families, Inv, TokensOwned, StoredTokens
    <3>5. Marked(Rotated(T, r), r.id, r.client, now + RefreshTTL)
      BY <1>1, <3>2, <3>3, <3>4, RotatedFamily
    <3>6. buf'.tokens = Rotated(T, r)
      BY <1>3, <3>1, <3>3 DEF Rotates, Hold, NoBuf, Files
    <3> QED
      BY <2>2, <2>7, <3>2, <3>5, <3>6
  <2>8. CASE pc'[p] = "issue" /\ pc[p] = "spending"
    BY <1>1, <2>2, <2>3, <2>8, NamesDistinct DEF Inv, Spent
  <2>9. CASE pc'[p] = "issue" /\ pc[p] = "rotating" /\ SaveTokens(p)
    <3>1. disk'.tokens = buf.tokens
      BY <2>9 DEF SaveTokens, Save, Inv, Typed, Files
    <3> QED
      BY <2>3, <2>9, <3>1
  <2> QED
    BY <2>1, <2>5, <2>6, <2>7, <2>8, <2>9
<1> QED
  BY <1>1, <1>2, <1>4 DEF Families, Family, Marked, Outliving, Markers, Kin, Readable

\* The old client's tokens come from no rotation.
LEMMA FamiliesInit ==
  ASSUME Init
  PROVE  Counters /\ Families
<1>1. Counters
  BY NamesDistinct DEF Init, Counters, Requests
<1>2. PICK T : T = disk.tokens
  OBVIOUS
<1>3. T \in {{}, Issued({}, OldPair, OldClient)}
  BY <1>2 DEF Init, NoBuf, Files
<1>4. \A q \in Pairs : grant[q] = None /\ pc[q] \notin {"rotating", "issue"}
  BY NamesDistinct DEF Init, Requests
<1>5. Family(Issued({}, OldPair, OldClient))
  <2>1. grant[OldPair] \notin Pairs
    BY <1>4, NamesDistinct
  <2> QED
    BY <1>1, <2>1, NoFamily, IssuedFamily DEF Counters
<1>6. Family(T) /\ Family(buf.tokens) /\ Family(tbuf)
  <2>1. buf.tokens = {} /\ tbuf = {}
    BY DEF Init, NoBuf, Files
  <2> QED
    BY <1>3, <1>5, <2>1, NoFamily
<1>7. \A f \in Files : Readable(f)
  BY DEF Init, Readable
<1> QED
  BY <1>1, <1>2, <1>4, <1>6, <1>7 DEF Families

\* Both hold throughout.
THEOREM FamiliesInvariance == Spec => [](Counters /\ Families)
<1>1. Init => Counters /\ Families
  BY FamiliesInit
<1>2. Inv /\ Counters /\ Families /\ [Next]_vars => (Counters /\ Families)'
  <2> SUFFICES ASSUME Inv, Counters, Families, [Next]_vars
               PROVE  (Counters /\ Families)'
    OBVIOUS
  <2>1. CASE Next
    BY <2>1, FamiliesStep, CountersStep DEF Inv
  <2>2. CASE UNCHANGED vars
    BY <2>2 DEF vars, files, requests, history, bounds, Counters, Families, Family, Marked, Outliving,
       Markers, Kin, Readable
  <2> QED
    BY <2>1, <2>2
<1>3. QED
  BY <1>1, <1>2, Invariance, PTL DEF Spec

-----------------------------------------------------------------------------
(* Lines of rotations.                                                     *)

\* One step of Lineage: lines that meet are joined.
Joined(L) ==
  L \cup {<<ed[1][1], ed[2][2]>> : ed \in {ed \in L \X L : ed[1][2] = ed[2][1]}}

\* A function that starts from A and joins, for as many steps as one likes.
LEMMA LinesExist ==
  ASSUME NEW A, NEW k \in Nat
  PROVE  \E f : f = [n \in 0 .. k |-> IF n = 0 THEN A ELSE Joined(f[n-1])]
<1> DEFINE Is(f, j) == f = [n \in 0 .. j |-> IF n = 0 THEN A ELSE Joined(f[n-1])]
           Bad == {j \in Nat : ~\E f : Is(f, j)}
<1>1. SUFFICES ASSUME Bad # {} PROVE FALSE
  OBVIOUS
<1>2. PICK j \in Bad : \A i \in Bad : j <= i
  <2> Bad \subseteq Nat
    OBVIOUS
  <2> HIDE DEF Bad
  <2> QED
    BY <1>1, LeastNat
<1>3. CASE j = 0
  <2>1. PICK f : f = [n \in 0 .. 0 |-> A]
    OBVIOUS
  <2>2. f = [n \in 0 .. 0 |-> IF n = 0 THEN A ELSE Joined(f[n-1])]
    BY <2>1
  <2> QED
    BY <1>3, <2>2
<1>4. CASE j # 0
  <2>1. j - 1 \in Nat /\ j - 1 \notin Bad
    BY <1>2, <1>4
  <2>2. PICK f : f = [n \in 0 .. (j - 1) |-> IF n = 0 THEN A ELSE Joined(f[n-1])]
    BY <2>1
  <2>3. PICK last : last = Joined(f[j-1])
    OBVIOUS
  <2>4. PICK g : g = [n \in 0 .. j |-> IF n = j THEN last ELSE f[n]]
    OBVIOUS
  <2>5. ASSUME NEW n \in 0 .. j PROVE g[n] = IF n = 0 THEN A ELSE Joined(g[n-1])
    <3> HIDE DEF Joined
    <3>1. CASE n = 0
      BY <1>4, <2>2, <2>4, <3>1
    <3>2. CASE n # 0 /\ n # j
      <4>1. n \in 0 .. (j - 1) /\ n - 1 \in 0 .. (j - 1) /\ n - 1 \in 0 .. j /\ n - 1 # j
        BY <2>5, <3>2
      <4>2. g[n] = f[n] /\ g[n-1] = f[n-1]
        BY <2>4, <3>2, <4>1
      <4>3. f[n] = Joined(f[n-1])
        BY <2>2, <3>2, <4>1
      <4> QED
        BY <3>2, <4>2, <4>3
    <3>3. CASE n = j
      <4>1. j - 1 \in 0 .. j /\ j - 1 # j /\ j \in 0 .. j
        BY <1>4
      <4>2. g[j-1] = f[j-1] /\ g[j] = last
        BY <2>4, <4>1
      <4> QED
        BY <1>4, <2>3, <3>3, <4>2
    <3> QED
      BY <3>1, <3>2, <3>3
  <2>6. g = [n \in 0 .. j |-> IF n = 0 THEN A ELSE Joined(g[n-1])]
    <3> HIDE DEF Joined
    <3> QED
      BY <2>4, <2>5
  <2> QED
    BY <1>2, <2>6
<1> QED
  BY <1>3, <1>4

\* What Lineage computes.
LEMMA LineageFacts ==
  /\ Cardinality(Pairs) \in Nat
  /\ Lineage[0] = {<<grant[p], p>> : p \in {p \in Pairs : grant[p] \in Pairs /\ pc[p] = "issued"}}
  /\ \A n \in 1 .. Cardinality(Pairs) : Lineage[n] = Joined(Lineage[n-1])
<1>1. PICK k, A : /\ k = Cardinality(Pairs)
                  /\ A = {<<grant[p], p>> : p \in {p \in Pairs : grant[p] \in Pairs /\ pc[p] = "issued"}}
  OBVIOUS
<1>2. k \in Nat
  BY <1>1, PairsFinite, FS_CardinalityType
<1>3. \E f : f = [n \in 0 .. k |-> IF n = 0 THEN A ELSE Joined(f[n-1])]
  BY <1>2, LinesExist
<1>4. Lineage = CHOOSE f : f = [n \in 0 .. k |-> IF n = 0 THEN A ELSE Joined(f[n-1])]
  BY <1>1 DEF Lineage, Joined
<1>5. Lineage = [n \in 0 .. k |-> IF n = 0 THEN A ELSE Joined(Lineage[n-1])]
  BY <1>3, <1>4
<1>6. PICK L : L = Lineage
  OBVIOUS
<1>7. L = [n \in 0 .. k |-> IF n = 0 THEN A ELSE Joined(L[n-1])]
  BY <1>5, <1>6
<1>8. L[0] = A /\ \A n \in 1 .. k : L[n] = Joined(L[n-1])
  <2> HIDE DEF Joined
  <2>1. 0 \in 0 .. k /\ \A n \in 1 .. k : n \in 0 .. k /\ n # 0
    BY <1>2
  <2> QED
    BY <1>7, <2>1
<1> QED
  BY <1>1, <1>2, <1>6, <1>8

\* A marker in a line of rotations passes on what it was asked to wait for: it is a
\* record of its client as well, and its own marker lives as long as it does.
LEMMA LinesMarked ==
  ASSUME NEW T, Family(T), NEW L, \A n \in 0 .. Cardinality(Pairs) : L[n] = Lineage[n]
  PROVE  \A n \in 0 .. Cardinality(Pairs) : \A e \in L[n] : \A x \in T :
           Kin(x) /\ x.client \notin rejected /\ x.id = e[2] => Marked(T, e[1], x.client, x.exp)
<1> DEFINE Good(n) == \A e \in L[n] : \A x \in T :
             Kin(x) /\ x.client \notin rejected /\ x.id = e[2] => Marked(T, e[1], x.client, x.exp)
           Bad == {n \in 0 .. Cardinality(Pairs) : ~Good(n)}
<1>1. SUFFICES ASSUME Bad # {} PROVE FALSE
  OBVIOUS
<1>2. Cardinality(Pairs) \in Nat
  BY LineageFacts
<1>3. PICK n \in Bad : \A m \in Bad : n <= m
  <2> Bad \subseteq Nat
    BY <1>2
  <2> HIDE DEF Bad
  <2> QED
    BY <1>1, LeastNat
<1>4. n \in 0 .. Cardinality(Pairs) /\ ~Good(n)
  OBVIOUS
<1>5. CASE n = 0
  <2>1. L[0] = {<<grant[p], p>> : p \in {p \in Pairs : grant[p] \in Pairs /\ pc[p] = "issued"}}
    BY <1>2, LineageFacts
  <2>2. \A e \in L[0] : grant[e[2]] = e[1] /\ grant[e[2]] \in Pairs
    BY <2>1
  <2>3. Good(0)
    BY <2>2 DEF Family
  <2> QED
    BY <1>4, <1>5, <2>3
<1>6. CASE n # 0
  <2>1. n - 1 \in 0 .. Cardinality(Pairs) /\ n \in 1 .. Cardinality(Pairs) /\ ~(n <= n - 1)
    BY <1>2, <1>4, <1>6
  <2>2. Good(n - 1)
    <3>1. n - 1 \notin Bad
      BY <1>3, <2>1
    <3> QED
      BY <2>1, <3>1
  <2>3. L[n] = Joined(L[n-1])
    BY <1>4, <2>1, LineageFacts
  <2>4. PICK K : K = L[n-1]
    OBVIOUS
  <2>5. \A e \in K : \A x \in T :
          Kin(x) /\ x.client \notin rejected /\ x.id = e[2] => Marked(T, e[1], x.client, x.exp)
    BY <2>2, <2>4
  <2> HIDE DEF Good, Bad
  <2>6. ASSUME NEW e \in L[n], NEW x \in T, Kin(x), x.client \notin rejected, x.id = e[2]
        PROVE  Marked(T, e[1], x.client, x.exp)
    <3>1. CASE e \in K
      BY <2>5, <2>6, <3>1
    <3>2. ASSUME NEW a \in K, NEW b \in K, a[2] = b[1], e = <<a[1], b[2]>>
          PROVE  Marked(T, e[1], x.client, x.exp)
      <4>1. e[1] = a[1] /\ e[2] = b[2]
        BY <3>2
      <4>2. Marked(T, b[1], x.client, x.exp)
        BY <2>5, <2>6, <4>1
      <4>3. ASSUME NEW m \in Outliving(T, x.client, x.exp), m.id = b[1]
            PROVE  Marked(T, a[1], x.client, x.exp)
        <5>1. m \in T /\ Kin(m) /\ m.client = x.client /\ m.exp >= x.exp /\ m.exp \in Nat /\ x.exp \in Nat
          BY <4>3 DEF Outliving, Markers, Kin, Family
        <5>2. Marked(T, a[1], x.client, m.exp)
          BY <2>5, <2>6, <3>2, <4>3, <5>1
        <5>3. Outliving(T, x.client, m.exp) \subseteq Outliving(T, x.client, x.exp)
          <6>1. \A y \in T : y.exp \in Nat
            BY DEF Family
          <6> QED
            BY <5>1, <6>1 DEF Outliving, Markers
        <5>4. /\ IsFiniteSet(Outliving(T, x.client, x.exp))
              /\ Cardinality(Outliving(T, x.client, m.exp)) <= Cardinality(Outliving(T, x.client, x.exp))
              /\ Cardinality(Outliving(T, x.client, m.exp)) \in Nat
              /\ Cardinality(Outliving(T, x.client, x.exp)) \in Nat
          <6>1. Outliving(T, x.client, x.exp) \subseteq T /\ IsFiniteSet(T)
            BY DEF Outliving, Markers, Family
          <6> QED
            BY <5>3, <6>1, FS_Subset, FS_CardinalityType
        <5>5. MaxSpent \in Nat
          BY SettingsAssumption
        <5>6. CASE \E k \in Outliving(T, x.client, m.exp) : k.id = a[1]
          BY <5>3, <5>6 DEF Marked
        <5>7. CASE Cardinality(Outliving(T, x.client, m.exp)) >= MaxSpent
          BY <5>4, <5>5, <5>7 DEF Marked
        <5> QED
          BY <5>2, <5>6, <5>7 DEF Marked
      <4> QED
        BY <4>1, <4>2, <4>3 DEF Marked
    <3>3. e \in K \/ \E a \in K, b \in K : a[2] = b[1] /\ e = <<a[1], b[2]>>
      BY <2>3, <2>4 DEF Joined
    <3> QED
      BY <3>1, <3>2, <3>3
  <2>7. Good(n)
    BY <2>6 DEF Good
  <2> QED
    BY <1>4, <2>7
<1> QED
  BY <1>5, <1>6

\* A rotated-out refresh token is recognised for as long as a descendant of it
\* lives (exchange_refresh_token extends the markers it keeps to the life of the
\* new pair), for any number of clients, rotations and rejections and any number of
\* markers that are kept.
THEOREM ReplaysDetected == Spec => []ReplayDetectable
<1>1. Inv /\ Counters /\ Families => ReplayDetectable
  <2> SUFFICES ASSUME Inv, Counters, Families, mishaps = 0, ~overwritten,
                      NEW t \in disk.tokens, t.kind = "refresh", t.client \notin rejected,
                      NEW e \in Lineage[Cardinality(Pairs)], e[2] = t.id
               PROVE  \/ \E m \in Find(disk.tokens, <<"spent", e[1]>>) : m.exp >= t.exp
                      \/ Cardinality(Markers(disk.tokens, t.client)) >= MaxSpent
    BY DEF ReplayDetectable
  <2>1. PICK T, L : T = disk.tokens /\ L = Lineage
    OBVIOUS
  <2>2. Family(T)
    BY <2>1 DEF Families
  <2>3. Cardinality(Pairs) \in 0 .. Cardinality(Pairs)
    BY LineageFacts
  <2>4. Marked(T, e[1], t.client, t.exp)
    <3>1. Kin(t) /\ t \in T /\ e \in L[Cardinality(Pairs)]
      BY <2>1 DEF Kin
    <3>2. \A x \in T : Kin(x) /\ x.client \notin rejected /\ x.id = e[2] => Marked(T, e[1], x.client, x.exp)
      BY <2>1, <2>2, <2>3, <3>1, LinesMarked
    <3> QED
      BY <3>1, <3>2
  <2>5. ASSUME NEW m \in Outliving(T, t.client, t.exp), m.id = e[1]
        PROVE  m \in Find(disk.tokens, <<"spent", e[1]>>) /\ m.exp >= t.exp
    BY <2>1, <2>5 DEF Outliving, Markers, Find, Key
  <2>6. CASE Cardinality(Outliving(T, t.client, t.exp)) >= MaxSpent
    <3>1. /\ Outliving(T, t.client, t.exp) \subseteq Markers(T, t.client)
          /\ Markers(T, t.client) \subseteq T /\ IsFiniteSet(T)
      BY <2>2 DEF Outliving, Markers, Family
    <3>2. IsFiniteSet(Markers(T, t.client))
      BY <3>1, FS_Subset
    <3>3. /\ Cardinality(Outliving(T, t.client, t.exp)) <= Cardinality(Markers(T, t.client))
          /\ Cardinality(Outliving(T, t.client, t.exp)) \in Nat
          /\ Cardinality(Markers(T, t.client)) \in Nat
      BY <3>1, <3>2, FS_Subset, FS_CardinalityType
    <3>4. MaxSpent \in Nat
      BY SettingsAssumption
    <3> QED
      BY <2>1, <2>6, <3>3, <3>4
  <2> QED
    BY <2>4, <2>5, <2>6 DEF Marked
<1>2. QED
  BY <1>1, Invariance, FamiliesInvariance, PTL
=============================================================================
