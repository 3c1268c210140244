---------------------------- MODULE AuditEvidence ----------------------------
(***************************************************************************)
(* deploy/evidence: the hourly verifier of the retained audit segments     *)
(* (relay-audit-evidence.py), the boundary records it keeps to accept a    *)
(* history whose head logrotate has pruned, and the wrapper that compares  *)
(* the local anchor with the one off the host before it copies the         *)
(* segments and then the anchor (relay-audit-evidence-sync).               *)
(*                                                                         *)
(* The server appends, logrotate compresses, renames and prunes, and the   *)
(* verifier lists the directory and reads file after file, all at the same *)
(* time.  A record's hash and its timestamp are one number that grows; the *)
(* hash of a record covers all that is before it in its chain.             *)
(***************************************************************************)
EXTENDS Integers, FiniteSets, SequencesExt

CONSTANTS
  RetainSegments,   \* RETAIN_SEGMENTS, logrotate's `rotate`
  MaxCheckpoints,   \* MAX_CHECKPOINTS
  None,             \* JSON null
  MaxRecords,       \* bound on the records the server appends
  MaxApprovals,     \* bound on the entries of the ledger
  MaxMishaps        \* bound on losses, damage, restarts and failing steps

ASSUME EvidenceAssumption ==
  /\ {RetainSegments, MaxCheckpoints} \subseteq Nat \ {0}
  /\ {MaxRecords, MaxApprovals, MaxMishaps} \subseteq Nat
  /\ None \notin Int

Genesis == 0
ActiveLog == 0                       \* the name audit.jsonl; n > 0 is the n-th rotated file

VARIABLES
  log,          \* name -> records of the file, for the files there are
  damaged,      \* names of files with a line that does not verify
  doubled,      \* the file that is there as plain and as .gz, or 0
  zipped,       \* names of the files that are there as .gz only
  writing,      \* the file whose last line is being written, or None
  memory,       \* the server's next sequence number, previous hash and chain
  rotating,     \* where logrotate is
  rotations,    \* how many times it has rotated
  checkpoints,  \* retained-checkpoints.json; place is the order of its entries
  approved,     \* the ledger: approved resets and heads, and whether it is well formed
  anchor,       \* latest-anchor.json
  remote,       \* off the host: the files and the anchor
  verifier,     \* the verifier and the wrapper that runs it
  written,      \* history: how many records were appended
  forgotten,    \* history: records missing when the server resumed its chain
  lost,         \* history: records removed by a mishap, or before their archive was copied
  seen,         \* history: ends of segments that a valid run has verified
  unseen,       \* history: a segment was pruned whose end no valid run had seen
  mishaps

files == <<log, damaged, doubled, zipped>>
rotation == <<rotating, rotations>>
offHost == <<remote, anchor, checkpoints>>
past == <<written, forgotten, lost, seen, unseen>>
evidenceVars == <<files, writing, memory, rotation, offHost, approved, verifier, past, mishaps>>

Name == DOMAIN log
Rotated == Name \ {ActiveLog}
Ids(recs) == {recs[i].id : i \in DOMAIN recs}
Accident == mishaps < MaxMishaps /\ mishaps' = mishaps + 1

Idle == [at |-> "idle", todo |-> {}, got |-> {}, ok |-> TRUE, calm |-> TRUE,
         head |-> "genesis", epoch |-> None]

Unchained == [seq |-> 0, prev |-> Genesis, epoch |-> None]
Onto(stage) == [Idle EXCEPT !.at = stage, !.calm = verifier.calm]

EvidenceInit ==
  /\ log = [n \in {ActiveLog} |-> <<>>]
  /\ damaged = {} /\ doubled = 0 /\ zipped = {}
  /\ writing = None
  /\ memory = Unchained
  /\ rotating = "idle" /\ rotations = 0
  /\ checkpoints = {}
  /\ approved = [valid |-> TRUE, resets |-> {}, heads |-> {}]
  /\ anchor = None
  /\ remote = [files |-> [n \in {ActiveLog} |-> {}], anchor |-> None]
  /\ verifier = Idle
  /\ written = 0 /\ forgotten = {} /\ lost = {} /\ seen = {} /\ unseen = FALSE
  /\ mishaps = 0

-----------------------------------------------------------------------------
(* The server.  A record is written in a moment in which a reader finds a  *)
(* torn last line; the file it goes to may be renamed meanwhile.            *)

AppendBegins ==
  /\ writing = None
  /\ written < MaxRecords
  /\ writing' = ActiveLog
  /\ UNCHANGED <<files, memory, rotation, offHost, approved, verifier, past, mishaps>>

AppendEnds ==
  /\ writing # None
  /\ LET id  == written + 1
         rec == [id |-> id, seq |-> memory.seq, prev |-> memory.prev,
                 epoch |-> IF memory.epoch = None THEN id ELSE memory.epoch]
     IN /\ log' = [log EXCEPT ![writing] = Append(@, rec)]
        /\ memory' = [seq |-> rec.seq + 1, prev |-> id, epoch |-> rec.epoch]
        /\ written' = id
  /\ writing' = None
  /\ UNCHANGED <<damaged, doubled, zipped, rotation, offHost, approved, verifier,
                 forgotten, lost, seen, unseen, mishaps>>

\* A restarted server resumes from the last record of the active file or, when
\* that is empty, of the newest rotated one, and at genesis when it cannot read it.
Resumed(disk) ==
  LET archives == DOMAIN disk \ {ActiveLog}
      n == IF disk[ActiveLog] # <<>> \/ archives = {} THEN ActiveLog ELSE Max(archives)
  IN IF disk[n] = <<>> THEN Unchained
     ELSE [seq |-> Last(disk[n]).seq + 1, prev |-> Last(disk[n]).id, epoch |-> Last(disk[n]).epoch]

Restart ==
  /\ writing = None
  /\ Accident
  /\ \/ memory' = Resumed(log)
     \/ log[ActiveLog] = <<>> /\ memory' = Unchained
  /\ memory' # memory
  /\ forgotten' = forgotten \cup lost
  /\ UNCHANGED <<files, writing, rotation, offHost, approved, verifier, written, lost, seen, unseen>>

-----------------------------------------------------------------------------
(* logrotate: compress the previous archive, rename the active file, then  *)
(* unlink the archive that is one too many.                                 *)

Disturbed == [verifier EXCEPT !.calm = FALSE]
Rotating(from, to) ==
  /\ rotating = from /\ rotating' = to
  /\ verifier' = Disturbed
  /\ UNCHANGED <<writing, memory, offHost, approved, mishaps>>

\* The rotation is daily and the run hourly: a run meets one rotation at most, and
\* between two rotations a run begins.
CompressBegins ==
  /\ Rotating("idle", "compress")
  /\ verifier.calm
  /\ log[ActiveLog] # <<>>
  /\ doubled' = IF Rotated \ zipped # {} THEN Max(Rotated \ zipped) ELSE 0
  /\ UNCHANGED <<log, damaged, zipped, rotations, past>>

CompressEnds ==
  /\ Rotating("compress", "rename")
  /\ zipped' = zipped \cup ({doubled} \ {0})
  /\ doubled' = 0
  /\ UNCHANGED <<log, damaged, rotations, past>>

Rename ==
  /\ rotating = "rename" /\ rotating' = "prune"
  /\ rotations' = rotations + 1
  /\ LET name(n) == IF n = ActiveLog THEN rotations + 1 ELSE n
     IN /\ log' = [n \in Name \cup {rotations + 1} |->
                     IF n = rotations + 1 THEN log[ActiveLog]
                     ELSE IF n = ActiveLog THEN <<>> ELSE log[n]]
        /\ damaged' = {name(n) : n \in damaged}
        /\ writing' = IF writing = None THEN None ELSE name(writing)
  /\ verifier' = Disturbed
  /\ UNCHANGED <<doubled, zipped, memory, offHost, approved, past, mishaps>>

Copied(n) == IF n \in DOMAIN remote.files THEN remote.files[n] ELSE {}
Prune ==
  /\ Rotating("prune", "idle")
  /\ LET gone == IF Cardinality(Rotated) > RetainSegments THEN {Min(Rotated)} ELSE {}
     IN /\ log' = [n \in Name \ gone |-> log[n]]
        /\ damaged' = damaged \ gone
        /\ zipped' = zipped \ gone
        /\ unseen' = (unseen \/ \E n \in gone : log[n] # <<>> /\ Last(log[n]).id \notin seen)
        /\ lost' = lost \cup UNION {Ids(log[n]) \ Copied(n) : n \in gone}
  /\ UNCHANGED <<doubled, rotations, written, forgotten, seen>>

-----------------------------------------------------------------------------
(* relay-audit-evidence.py *)

\* load_approvals: a ledger that is not root's alone or not well formed approves
\* nothing, and the run fails.
Ledger == IF approved.valid THEN approved ELSE [approved EXCEPT !.resets = {}, !.heads = {}]

\* glob: every archive under the name it has now
Listed == {<<n, IF n \in zipped THEN "gz" ELSE "plain">> : n \in Name}
            \cup {<<n, "gz">> : n \in {doubled} \ {0}}

ListPaths ==
  /\ verifier.at = "idle"
  /\ verifier' = [Idle EXCEPT !.at = "read", !.todo = Listed, !.ok = Ledger.valid,
                          !.calm = (rotating = "idle")]
  /\ UNCHANGED <<files, writing, memory, rotation, offHost, approved, past, mishaps>>

\* verify_segment.  A file that is gone, a .gz still being written and a line that
\* does not verify or continue the one before it are errors; an incomplete last
\* line is one in an archive only.
FaultyLinked(a, b) == b.seq > a.seq
Linked(a, b) == b.seq = a.seq + 1 /\ b.prev = a.id
Unreadable(path) ==
  \/ path \notin Listed
  \/ path[1] \in damaged
  \/ \E i \in 2 .. Len(log[path[1]]) : ~Linked(log[path[1]][i - 1], log[path[1]][i])
  \/ path = <<doubled, "gz">>
  \/ path[1] = writing /\ path[1] # ActiveLog

VerifySegment(path) ==
  /\ verifier.at = "read"
  /\ path \in verifier.todo
  /\ verifier' = [verifier EXCEPT
       !.todo = @ \ {path},
       !.ok = @ /\ ~Unreadable(path),
       !.calm = @ /\ (path[1] = ActiveLog \/ path[1] # writing),
       !.got = IF Unreadable(path) \/ log[path[1]] = <<>> THEN @
               ELSE @ \cup {[path |-> path, recs |-> log[path[1]]]}]
  /\ UNCHANGED <<files, writing, memory, rotation, offHost, approved, past, mishaps>>

First(s) == s.recs[1]
End(s) == s.recs[Len(s.recs)]
AtGenesis(s) == First(s).seq = 0 /\ First(s).prev = Genesis

\* _order_key: the timestamp of the first record, then the name of the file, where
\* an archive comes before its .gz.
Earlier(s, t) ==
  \/ First(s).id < First(t).id
  \/ First(s).id = First(t).id /\ s.path[2] = "plain" /\ t.path[2] = "gz"
Oldest(got) == CHOOSE s \in got : \A t \in got \ {s} : Earlier(s, t)
Newest(got) == CHOOSE s \in got : \A t \in got \ {s} : Earlier(t, s)
Adjacent(got, s, t) == Earlier(s, t) /\ ~\E u \in got : Earlier(s, u) /\ Earlier(u, t)

\* The oldest retained record is the genesis, an approved head, or continues a
\* checkpoint while the full retention window is there.
Before(s) == {c \in checkpoints : c.seq = First(s).seq - 1 /\ c.chain = First(s).prev}
ApprovedHead(s) == {h \in Ledger.heads : h.seq = First(s).seq /\ h.prev = First(s).prev}
FullWindow(got) == Cardinality({s \in got : s.path[1] # ActiveLog}) >= RetainSegments
FaultyHeadOf(got) ==
  IF AtGenesis(Oldest(got)) THEN "genesis"
  ELSE IF ApprovedHead(Oldest(got)) # {} THEN "approved"
  ELSE IF Before(Oldest(got)) # {} THEN "checkpoint" ELSE "refused"
HeadOf(got) ==
  IF AtGenesis(Oldest(got)) THEN "genesis"
  ELSE IF ApprovedHead(Oldest(got)) # {} THEN "approved"
  ELSE IF Before(Oldest(got)) # {} /\ FullWindow(got) THEN "checkpoint" ELSE "refused"

\* The seam between two files continues the chain or is an approved reset, which
\* may be used once.
Continues(s, t) == Linked(End(s), First(t))
ApprovedReset(got, t) ==
  /\ AtGenesis(t)
  /\ First(t).id \in Ledger.resets
  /\ \A u \in got : Earlier(u, t) /\ u # Oldest(got) => First(u).id # First(t).id
SeamsHold(got) ==
  \A t \in got :
    \/ t = Oldest(got)
    \/ \E s \in got : Adjacent(got, s, t) /\ Continues(s, t)
    \/ ApprovedReset(got, t)

\* latest_epoch when the segment s has been looked at
Epoch(got, s) ==
  LET resets == {t \in got : AtGenesis(t) /\ ~Earlier(s, t)}
  IN IF resets # {} THEN First(Newest(resets)).id
     ELSE IF HeadOf(got) = "approved" THEN (CHOOSE h \in ApprovedHead(Oldest(got)) : TRUE).epoch
     ELSE IF HeadOf(got) = "checkpoint" THEN (CHOOSE c \in Before(Oldest(got)) : TRUE).epoch
     ELSE None

Decide ==
  /\ verifier.at = "read" /\ verifier.todo = {}
  /\ LET got == verifier.got
         ok  == verifier.ok /\ got # {} /\ HeadOf(got) # "refused" /\ SeamsHold(got)
     IN verifier' = [verifier EXCEPT
          !.at = IF ok THEN "save" ELSE "anchor",
          !.ok = ok,
          !.head = IF got = {} THEN "genesis" ELSE HeadOf(got),
          !.epoch = IF got = {} THEN None ELSE Epoch(got, Newest(got))]
  /\ UNCHANGED <<files, writing, memory, rotation, offHost, approved, past, mishaps>>

\* save_checkpoints: a dict keeps the place of a key it already has and puts new
\* keys behind the others in the order of the segments; the file gets the last
\* MAX_CHECKPOINTS entries.
FaultyBoundaries(got) == {Newest(got)}   \* only where the chain has got to
Boundaries(got) == got
SameKey(c, s) == c.seq = End(s).seq /\ c.chain = End(s).id
Entered(existing, s) == {c \in existing : SameKey(c, s)}
Place(existing, got, s) ==
  IF Entered(existing, s) # {} THEN (CHOOSE c \in Entered(existing, s) : TRUE).place
  ELSE Max({0} \cup {c.place : c \in existing})
         + Cardinality({t \in got : Entered(existing, t) = {} /\ First(t).id <= First(s).id})
Merged(existing, got) ==
  {c \in existing : \A s \in Boundaries(got) : ~SameKey(c, s)} \cup
  {[seq |-> End(s).seq, chain |-> End(s).id, epoch |-> Epoch(got, s),
    place |-> Place(existing, got, s)] : s \in Boundaries(got)}
LastEntries(entries) ==
  {c \in entries : Cardinality({d \in entries : d.place > c.place}) < MaxCheckpoints}

SaveCheckpoints ==
  /\ verifier.at = "save"
  /\ checkpoints' = LastEntries(Merged(checkpoints, verifier.got))
  /\ seen' = seen \cup {End(s).id : s \in verifier.got}
  /\ verifier' = [verifier EXCEPT !.at = "anchor"]
  /\ UNCHANGED <<files, writing, memory, rotation, remote, anchor, approved,
                 written, forgotten, lost, unseen, mishaps>>

\* The evidence line and the anchor; the wrapper goes on only after a valid run.
WriteAnchor ==
  /\ verifier.at = "anchor"
  /\ LET last == End(Newest(verifier.got))
     IN anchor' = [valid |-> verifier.ok,
                   seq   |-> IF verifier.got = {} THEN None ELSE last.seq,
                   chain |-> IF verifier.got = {} THEN None ELSE last.id,
                   epoch |-> verifier.epoch]
  /\ verifier' = IF verifier.ok THEN Onto("pull") ELSE Onto("idle")
  /\ UNCHANGED <<files, writing, memory, rotation, remote, checkpoints, approved, past, mishaps>>

-----------------------------------------------------------------------------
(* relay-audit-evidence-sync *)

\* compare_remote_anchor
FaultyPublishable(r, l) == r = None \/ ~r.valid \/ r.epoch # l.epoch \/ l.seq >= r.seq
Publishable(r, l) ==
  \/ r = None \/ ~r.valid
  \/ r.epoch # l.epoch
  \/ l.seq > r.seq
  \/ l.seq = r.seq /\ l.chain = r.chain

Compare ==
  /\ verifier.at = "pull"
  /\ verifier' = IF Publishable(remote.anchor, anchor) THEN Onto("payload") ELSE Onto("idle")
  /\ UNCHANGED <<files, writing, memory, rotation, offHost, approved, past, mishaps>>

\* The copy never deletes; a file of the same name is replaced.
Payload == [n \in DOMAIN remote.files \cup Name |->
              IF n \in Name THEN Ids(log[n]) ELSE remote.files[n]]

FaultyPass(at) ==
  IF at = "payload" THEN [remote EXCEPT !.anchor = anchor] ELSE [remote EXCEPT !.files = Payload]
Pass(at) ==
  IF at = "payload" THEN [remote EXCEPT !.files = Payload] ELSE [remote EXCEPT !.anchor = anchor]

Sync ==
  /\ verifier.at \in {"payload", "commit"}
  /\ remote' = Pass(verifier.at)
  /\ verifier' = IF verifier.at = "payload" THEN Onto("commit") ELSE Onto("idle")
  /\ UNCHANGED <<files, writing, memory, rotation, anchor, checkpoints, approved, past, mishaps>>

-----------------------------------------------------------------------------
(* Mishaps and the operator *)

\* The process dies, rsync fails, or the checkpoints cannot be written.
Abort ==
  /\ verifier.at # "idle"
  /\ Accident
  /\ verifier' = IF verifier.at = "save" THEN [verifier EXCEPT !.at = "anchor", !.ok = FALSE] ELSE Onto("idle")
  /\ UNCHANGED <<files, writing, memory, rotation, offHost, approved, past>>

LoseArchive(n) ==
  /\ n \in Rotated /\ n # writing /\ n # doubled
  /\ Accident
  /\ log' = [k \in Name \ {n} |-> log[k]]
  /\ lost' = lost \cup Ids(log[n])
  /\ damaged' = damaged \ {n} /\ zipped' = zipped \ {n}
  /\ UNCHANGED <<doubled, writing, memory, rotation, offHost, approved, verifier,
                 written, forgotten, seen, unseen>>

\* The host goes down and the last record, which nothing had synced, with it.
HostCrash ==
  /\ log[ActiveLog] # <<>> /\ writing = None /\ rotating = "idle"
  /\ Accident
  /\ log' = [log EXCEPT ![ActiveLog] = Front(@)]
  /\ lost' = lost \cup {Last(log[ActiveLog]).id}
  /\ memory' = Resumed(log')
  /\ forgotten' = forgotten \cup lost'
  /\ verifier' = Onto("idle")
  /\ UNCHANGED <<damaged, doubled, zipped, writing, rotation, offHost, approved,
                 written, seen, unseen>>

Damage(n) ==
  /\ n \in Name \ damaged /\ log[n] # <<>>
  /\ Accident
  /\ damaged' = damaged \cup {n}
  /\ UNCHANGED <<log, doubled, zipped, writing, memory, rotation, offHost, approved, verifier, past>>

\* A run reads the file when it starts and writes what it read: a loss in
\* between has no effect.
LoseCheckpoints ==
  /\ verifier.at = "idle"
  /\ checkpoints # {}
  /\ Accident
  /\ checkpoints' = {}
  /\ UNCHANGED <<files, writing, memory, rotation, remote, anchor, approved, verifier, past>>

SpoilLedger ==
  /\ verifier.at = "idle"
  /\ approved.valid /\ approved.resets \cup approved.heads # {}
  /\ Accident
  /\ approved' = [approved EXCEPT !.valid = FALSE]
  /\ UNCHANGED <<files, writing, memory, rotation, offHost, verifier, past>>

\* After a refused run the operator approves what is there.
Approve ==
  /\ verifier.at = "idle" /\ anchor # None /\ ~anchor.valid
  /\ \E n \in Name :
       LET s == [path |-> <<n, "plain">>, recs |-> log[n]]
       IN /\ log[n] # <<>>
          /\ IF AtGenesis(s)
             THEN approved' = [approved EXCEPT !.valid = TRUE, !.resets = @ \cup {First(s).id}]
             ELSE /\ n = Min({k \in Name : log[k] # <<>> /\ k # ActiveLog} \cup {n})
                  /\ ApprovedHead(s) = {}
                  /\ \E e \in {First(s).epoch, None} :
                       approved' = [approved EXCEPT !.valid = TRUE, !.heads =
                         @ \cup {[seq |-> First(s).seq, prev |-> First(s).prev, epoch |-> e]}]
  /\ approved' # approved
  /\ Cardinality(approved'.resets) + Cardinality(approved'.heads) <= MaxApprovals
  /\ UNCHANGED <<files, writing, memory, rotation, offHost, verifier, past, mishaps>>

-----------------------------------------------------------------------------
ServerNext == AppendBegins \/ AppendEnds \/ Restart
LogrotateNext == CompressBegins \/ CompressEnds \/ Rename \/ Prune
VerifierNext ==
  \/ ListPaths \/ Decide \/ SaveCheckpoints \/ WriteAnchor \/ Compare \/ Sync
  \/ \E path \in verifier.todo : VerifySegment(path)
MishapNext ==
  \/ Abort \/ HostCrash \/ LoseCheckpoints \/ SpoilLedger
  \/ \E n \in Name : LoseArchive(n) \/ Damage(n)

EvidenceNext == ServerNext \/ LogrotateNext \/ VerifierNext \/ MishapNext \/ Approve

EvidenceSpec == EvidenceInit /\ [][EvidenceNext]_evidenceVars

-----------------------------------------------------------------------------
Read == UNION {Ids(s.recs) : s \in verifier.got}
Accepted == verifier.at = "save"

\* A run is valid only if no record that the server appended is missing between two
\* records of its chain that are still there, unless the server itself resumed
\* behind the loss: the verifier's seams, over files read while logrotate renames them.
\* Behind a checkpoint it holds the whole retention window: an archive that is
\* missing was the newest, with nothing behind it or with records of a server that
\* resumed without it (only the other host can tell that), or the run crossed a
\* rotation.
GapRefused ==
  Accepted =>
    /\ \A a, b \in UNION {ToSet(s.recs) : s \in verifier.got} :
         a.epoch = b.epoch => (a.id .. b.id) \subseteq Read \cup forgotten
    /\ verifier.calm /\ verifier.head = "checkpoint" =>
         \A n \in (rotations - RetainSegments + 1) .. rotations :
           \/ \E s \in verifier.got : s.path[1] = n
           \/ \A s \in verifier.got : s.path[1] \in 1 .. n - 1
           \/ \E s \in verifier.got : /\ s.path[1] \notin 1 .. n - 1
                                      /\ AtGenesis(s) \/ First(s).id - 1 \in forgotten

\* Without a mishap a run that logrotate did not disturb is refused only if a
\* segment was pruned before any valid run had seen its end: the retained
\* checkpoints are enough for every prune.
HonestAccepted ==
  (verifier.at = "anchor" /\ ~verifier.ok /\ verifier.calm /\ mishaps = 0 /\ written > 0)
    => unseen \/ verifier.got = {}

\* Within a chain epoch the anchor off the host never goes back and never changes
\* its chain at a sequence number, whatever happened to the local files; and it
\* is published last: the record it names has been copied before it.
RemoteNeverRolledBack ==
  [][/\ (remote'.anchor # None /\ remote'.anchor.chain \notin lost') =>
         \E n \in DOMAIN remote'.files : remote'.anchor.chain \in remote'.files[n]
     /\ (remote.anchor # None /\ remote'.anchor.epoch = remote.anchor.epoch) =>
         \/ remote'.anchor.seq > remote.anchor.seq
         \/ remote'.anchor = remote.anchor]_evidenceVars
=============================================================================
