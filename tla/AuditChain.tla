----------------------------- MODULE AuditChain -----------------------------
(***************************************************************************)
(* The hash-chained audit trail of relay_shell/audit.py (ADR 0007): the    *)
(* recorders of the event loop and of the seccomp supervisor threads, the  *)
(* rotation-aware file handler, rotation, a crash, and the logger that     *)
(* resumes the chain from what it finds on disk.                           *)
(*                                                                         *)
(* The files of one log are one sequence of lines, oldest first; the last  *)
(* `active` of them are in audit.jsonl and the others in its rotated       *)
(* siblings.  A process that still writes to a renamed file therefore      *)
(* appends to the same sequence: audit.jsonl stays empty until the handler *)
(* reopens it.  A record is its number and its chain fields.  The hash     *)
(* chain of a record is the sequence of the numbers it covers, which is    *)
(* what a collision-free _chain_value depends on.                          *)
(*                                                                         *)
(* A write that fails may have reached the disk in part, and the stream    *)
(* keeps what it could not write for the next flush unless its buffer is   *)
(* too small for it.                                                       *)
(*                                                                         *)
(* Operators named Faulty... are plausible mistakes in the operator that   *)
(* follows; the specification does not use them.                           *)
(***************************************************************************)
EXTENDS Integers, Sequences

CONSTANTS
  Writers,       \* threads that record: the event loop and the supervisors
  None,
  MaxRecords,    \* bound on the records of a behaviour
  MaxFaults,     \* bound on failing writes and opens
  MaxCrashes,    \* bound on crashes
  MaxRotations   \* bound on rotations

ASSUME ChainAssumption ==
  /\ None \notin Writers
  /\ {MaxRecords, MaxFaults, MaxCrashes, MaxRotations} \subseteq Nat

VARIABLES
  log,       \* the lines on disk
  active,    \* how many of them are in the active file
  stream,    \* the handler's: "open" on the active file, "stale" (on one rotated
             \* away), "none" (the reopen failed) or "stderr" (construction failed)
  retained,  \* records a failed flush left in the stream's buffer
  seq, prev, \* AuditLogger._seq, AuditLogger._prev
  lock,      \* the holder of _chain_lock
  pc,        \* where each writer is in _emit
  entry,     \* the record it carries
  reason,    \* AuditLogger.degraded_reason, "none" when not degraded
  runOf,     \* the process that emitted each record, numbered from 1
  returned,  \* the records the file handler took and whose _emit has returned
  run,       \* the number of the current process
  faults, rotations

vars == <<log, active, stream, retained, seq, prev, lock, pc, entry, reason,
          runOf, returned, run, faults, rotations>>
disk == <<log, active>>
anchor == <<seq, prev, lock>>
ghosts == <<runOf, returned, run>>

-----------------------------------------------------------------------------
(* Lines.  A whole record ends in a newline.  The last line of a file may  *)
(* be unfinished: "torn" is part of a record, "bare" a record without its  *)
(* newline, "glued" an unfinished line that is not the start of a record.  *)
(* "junk" is a finished line that is not JSON.  The hash of a record is    *)
(* the sequence of the records up to it: collisions are left out.          *)
Unfinished == {"torn", "bare", "glued"}
Chained(l) == l.kind \in {"record", "bare"}

Genesis == <<>>
ChainValue(l) == Append(l.prev, l.id)
As(l, k) == [l EXCEPT !.kind = k]

(* The end of the file the stream writes to. *)
AtUnfinished ==
  /\ log # <<>>
  /\ log[Len(log)].kind \in Unfinished
  /\ stream = "stale" \/ active > 0

(* Bytes of n land behind the unfinished line l. *)
Joined(l, n) ==
  IF l.id = n.id /\ l.kind # "glued" THEN n
  ELSE As(n, IF n.kind \in Unfinished THEN "glued" ELSE "junk")

(* The log after the stream wrote the lines ls. *)
Landed(ls) ==
  IF ls # <<>> /\ AtUnfinished
  THEN SubSeq(log, 1, Len(log) - 1)
         \o <<Joined(log[Len(log)], ls[1])>> \o Tail(ls)
  ELSE log \o ls

(* The stream writes the lines ls to its file. *)
Written(ls) ==
  /\ log' = Landed(ls)
  /\ active' = IF stream = "stale" THEN active
               ELSE active + Len(Landed(ls)) - Len(log)

(* A flush of the records rs fails: a proper prefix of them, possibly with *)
(* a part of the next one, is on disk, and the rest is kept.               *)
FlushFails(rs, kept) ==
  \E k \in 0..Len(rs) - 1, tail \in {"none", "torn", "bare"} :
    /\ Written(SubSeq(rs, 1, k)
                 \o IF tail = "none" THEN <<>> ELSE <<As(rs[k + 1], tail)>>)
    /\ retained' = SubSeq(kept, k + 1, Len(kept))

-----------------------------------------------------------------------------
(* verify_chain over the lines of a log, files in order, and the verdict   *)
(* of --verify-audit: a chain is there, it is intact and it starts at      *)
(* genesis.                                                                *)
FirstChained(ls) ==
  CHOOSE s \in DOMAIN ls : Chained(ls[s]) /\ \A i \in 1..s - 1 : ~Chained(ls[i])
Accepted(ls) ==
  /\ \E i \in DOMAIN ls : Chained(ls[i])
  /\ LET s == FirstChained(ls)
     IN /\ ls[s].seq = 0 /\ ls[s].prev = Genesis
        /\ \A i \in s + 1..Len(ls) :
             /\ Chained(ls[i])
             /\ ls[i].seq = i - s
             /\ ls[i].prev = ChainValue(ls[i - 1])

(* mark_degraded: the first reason is kept. *)
Degrade(why) == reason' = IF reason = "none" THEN why ELSE reason

-----------------------------------------------------------------------------
Init ==
  /\ log = <<>> /\ active = 0
  /\ stream = "none" /\ retained = <<>>
  /\ seq = 0 /\ prev = Genesis /\ lock = None
  /\ pc = [w \in Writers |-> "down"]
  /\ entry = [w \in Writers |-> None]
  /\ reason = "none"
  /\ runOf = <<>> /\ returned = {} /\ run = 0
  /\ faults = 0 /\ rotations = 0

Down == \A w \in Writers : pc[w] = "down"

(* _resume_chain finds a record to continue from: the last line of the     *)
(* active file or, when that is empty, of its newest rotated sibling.      *)
(* Either is the last line of the log.                                     *)
FaultyResumable == active > 0 /\ Chained(log[Len(log)])
Resumable == log # <<>> /\ Chained(log[Len(log)])

(* A process starts and opens the log; notifempty and create leave the     *)
(* last line of the log where _resume_chain looks for it.                  *)
Start ==
  /\ Down
  /\ stream' = "open"
  /\ IF Resumable
     THEN seq' = log[Len(log)].seq + 1 /\ prev' = ChainValue(log[Len(log)])
     ELSE seq' = 0 /\ prev' = Genesis
  /\ reason' = "none"
  /\ pc' = [w \in Writers |-> "idle"]
  /\ run' = run + 1
  /\ UNCHANGED <<disk, retained, lock, entry, runOf, returned, faults, rotations>>

(* A process starts and cannot open the log. *)
StartDegraded ==
  /\ Down
  /\ faults < MaxFaults
  /\ faults' = faults + 1
  /\ stream' = "stderr"
  /\ seq' = 0 /\ prev' = Genesis
  /\ reason' = "open"
  /\ pc' = [w \in Writers |-> "idle"]
  /\ run' = run + 1
  /\ UNCHANGED <<disk, retained, lock, entry, runOf, returned, rotations>>

(* _emit takes the chain lock and fills in the chain fields. *)
FaultyLockFree(w) == TRUE
LockFree(w) == lock = None
Emit(w) ==
  /\ pc[w] = "idle"
  /\ LockFree(w)
  /\ Len(runOf) < MaxRecords
  /\ lock' = w
  /\ entry' = [entry EXCEPT ![w] =
       [kind |-> "record", id |-> Len(runOf) + 1, seq |-> seq, prev |-> prev]]
  /\ runOf' = Append(runOf, run)
  /\ pc' = [pc EXCEPT ![w] = "handing"]
  /\ UNCHANGED <<disk, stream, retained, seq, prev, reason, returned, run,
                 faults, rotations>>

(* The handler checks its path and reopens the file after a rotation; what *)
(* the old stream retained goes to the old file.                           *)
Reopen(w) ==
  /\ pc[w] = "handing"
  /\ IF stream = "stale"
     THEN Written(retained) /\ retained' = <<>>
     ELSE UNCHANGED <<disk, retained>>
  /\ stream' = IF stream = "stderr" THEN "stderr" ELSE "open"
  /\ pc' = [pc EXCEPT ![w] = "writing"]
  /\ UNCHANGED <<anchor, entry, reason, ghosts, faults, rotations>>

(* The reopen fails: in the flush of the old stream, which stays, or in    *)
(* the open, and then there is no stream.  The record is dropped.          *)
ReopenFails(w) ==
  /\ pc[w] = "handing"
  /\ faults < MaxFaults
  /\ faults' = faults + 1
  /\ \/ /\ stream = "stale"
        /\ FlushFails(retained, retained)
        /\ UNCHANGED stream
     \/ /\ stream = "stale"
        /\ Written(retained)
        /\ retained' = <<>>
        /\ stream' = "none"
     \/ /\ stream = "none"
        /\ UNCHANGED <<disk, retained, stream>>
  /\ Degrade("write")
  /\ pc' = [pc EXCEPT ![w] = "advancing"]
  /\ UNCHANGED <<anchor, entry, ghosts, rotations>>

(* The handler writes and flushes the line. *)
Write(w) ==
  /\ pc[w] = "writing"
  /\ IF stream = "stderr"
     THEN UNCHANGED <<disk, retained>>
     ELSE Written(Append(retained, entry[w])) /\ retained' = <<>>
  /\ pc' = [pc EXCEPT ![w] = "advancing"]
  /\ UNCHANGED <<stream, anchor, entry, reason, ghosts, faults, rotations>>

(* The write or the flush fails.  logging swallows the error after         *)
(* handleError has marked the sink degraded.                               *)
FaultyHandleError == UNCHANGED reason
HandleError == Degrade("write")
WriteFails(w) ==
  /\ pc[w] = "writing"
  /\ stream # "stderr"
  /\ faults < MaxFaults
  /\ faults' = faults + 1
  /\ LET pending == Append(retained, entry[w])
     IN \E kept \in {pending, retained} : FlushFails(pending, kept)
  /\ HandleError
  /\ pc' = [pc EXCEPT ![w] = "advancing"]
  /\ UNCHANGED <<stream, anchor, entry, ghosts, rotations>>

(* The anchor advances, whatever became of the line, and the lock is       *)
(* released.                                                               *)
FaultyAdvanced(e) ==
  IF \E i \in DOMAIN log : log[i].id = e.id /\ Chained(log[i])
  THEN seq' = seq + 1 /\ prev' = ChainValue(e)
  ELSE UNCHANGED <<seq, prev>>
Advanced(e) == seq' = seq + 1 /\ prev' = ChainValue(e)
Advance(w) ==
  /\ pc[w] = "advancing"
  /\ Advanced(entry[w])
  /\ lock' = None
  /\ returned' = IF stream = "stderr" THEN returned ELSE returned \cup {entry[w].id}
  /\ entry' = [entry EXCEPT ![w] = None]
  /\ pc' = [pc EXCEPT ![w] = "idle"]
  /\ UNCHANGED <<disk, stream, retained, reason, runOf, run, faults, rotations>>

(* A supervisor that failed open reports a gap in the trail. *)
SupervisorGap ==
  /\ ~Down
  /\ Degrade("gap")
  /\ reason' # reason
  /\ UNCHANGED <<disk, stream, retained, anchor, pc, entry, ghosts, faults, rotations>>

(* logrotate renames the active file, unless empty, and creates a new one. *)
Rotate ==
  /\ active > 0
  /\ rotations < MaxRotations
  /\ rotations' = rotations + 1
  /\ active' = 0
  /\ stream' = IF stream = "open" THEN "stale" ELSE stream
  /\ UNCHANGED <<log, retained, anchor, pc, entry, reason, ghosts, faults>>

(* The process dies and takes what its stream retained with it. *)
Dies ==
  /\ run <= MaxCrashes
  /\ retained' = <<>>
  /\ stream' = "none"
  /\ lock' = None
  /\ pc' = [w \in Writers |-> "down"]
  /\ entry' = [w \in Writers |-> None]
  /\ UNCHANGED <<seq, prev, reason, ghosts, rotations>>
Crash == ~Down /\ Dies /\ UNCHANGED <<disk, faults>>

(* It dies in a write: part of what it was writing is on disk. *)
CrashMidWrite(w) ==
  /\ pc[w] = "writing"
  /\ stream # "stderr"
  /\ faults < MaxFaults
  /\ faults' = faults + 1
  /\ \E k \in 0..Len(retained), tail \in {"torn", "bare"} :
       LET pending == Append(retained, entry[w])
       IN Written(SubSeq(pending, 1, k) \o <<As(pending[k + 1], tail)>>)
  /\ Dies

Next ==
  \/ Start \/ StartDegraded \/ SupervisorGap \/ Rotate \/ Crash
  \/ \E w \in Writers :
       \/ Emit(w) \/ Reopen(w) \/ ReopenFails(w) \/ Write(w) \/ WriteFails(w)
       \/ Advance(w) \/ CrashMidWrite(w)

Spec == Init /\ [][Next]_vars

-----------------------------------------------------------------------------
(* Correctness.                                                            *)

Readable(i) == \E k \in DOMAIN log : log[k].id = i /\ Chained(log[k])

(* Without a failing write or open and without a crash inside a write, a   *)
(* log written by several threads over any number of crashes, restarts and *)
(* rotations is accepted by --verify-audit, and every record whose _emit   *)
(* returned is in it.                                                      *)
ChainIntact ==
  faults = 0 => /\ log = <<>> \/ Accepted(log)
                /\ \A i \in returned : Readable(i)

(* No loss goes unnoticed.  A record that is missing while a later record  *)
(* of the same process is on disk shows: --verify-audit rejects the log    *)
(* (audit.py:612-616).  And server_info calls the sink healthy only while  *)
(* every record this process has recorded is readable or the log rejected: *)
(* the first record behind a line torn by a crash is lost without an error.*)
LossNoticed ==
  Accepted(log) =>
    /\ \A i \in returned : \A j \in DOMAIN runOf :
         i < j /\ runOf[i] = runOf[j] /\ Readable(j) => Readable(i)
    /\ ~Down /\ reason = "none" =>
         \A i \in returned : runOf[i] = run => Readable(i)

(* What _emit's docstring says of every failed write: the missing record   *)
(* shows as a gap that --verify-audit reports, also when the process that  *)
(* lost it was restarted before the next record.                           *)
LossReported ==
  Accepted(log) =>
    \A i \in returned : \A j \in DOMAIN runOf :
      i < j /\ Readable(j) => Readable(i)
=============================================================================
