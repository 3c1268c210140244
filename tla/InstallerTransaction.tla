------------------------ MODULE InstallerTransaction ------------------------
(***************************************************************************)
(* scripts/installer_transaction.py as deploy/install.sh drives it: the    *)
(* snapshot, the sealed manifest, the pending record, the mutation of the  *)
(* managed targets, and the rollback, completion or explicit recovery that *)
(* ends the transaction.  The installer may be killed at any step and the  *)
(* machine may lose power.                                                 *)
(*                                                                         *)
(* Each target and each snapshot copy has a content as read now and one on *)
(* stable storage; they agree after a sync.  A power loss leaves anything  *)
(* in a target that was not synced.  The flock keeps a second installer    *)
(* out, so there is one process.  A new installation starts only when an   *)
(* unlinked record is gone from stable storage too.                        *)
(*                                                                         *)
(* Operators named Faulty... are plausible mistakes in the operator that   *)
(* follows; the specification does not use them.                           *)
(***************************************************************************)
EXTENDS Naturals

CONSTANTS
  Targets,      \* TARGETS: the installer's paths
  Torn,         \* the content of a half written target
  Absent,       \* no such path
  MaxInstalls,  \* bound on the installations
  MaxFailures   \* bound on failing steps, kills, power losses and decay

ASSUME InstallerAssumption ==
  /\ {MaxInstalls, MaxFailures} \subseteq Nat
  /\ {Torn, Absent} \cap Nat = {}
  /\ Torn # Absent

VARIABLES
  cur, dur,       \* the targets, as read and on stable storage
  snap, sdur,     \* the snapshot of the transaction, likewise
  manifest,       \* manifest.json: the sealed inventory of the snapshot
  pending,        \* pending.json exists
  recorded,       \* pending.json exists on stable storage
  at,             \* where the installer is, "off" when none runs
  todo,           \* the targets its loop has yet to treat
  restoring,      \* it restores (rollback or --recover)
  base,           \* the targets when the transaction began
  version,        \* the number of the installation
  decayed,        \* the snapshot has changed after it was sealed
  hasty,          \* a restore began before the record was on stable storage
  failures

targets == <<cur, dur>>
evidence == <<snap, sdur, manifest, decayed>>
record == <<pending, recorded>>
process == <<at, todo, restoring>>
history == <<base, version, hasty>>
installerVars == <<targets, evidence, record, process, history, failures>>

New == [t \in Targets |-> version]

Mishap == failures < MaxFailures /\ failures' = failures + 1
Step(from, to) == at = from /\ at' = to /\ UNCHANGED failures

-----------------------------------------------------------------------------
InstallerInit ==
  /\ \E c \in {0, Absent} : cur = [t \in Targets |-> c]
  /\ dur = cur
  /\ snap = [t \in Targets |-> Absent] /\ sdur = snap /\ manifest = snap
  /\ pending = FALSE /\ recorded = FALSE
  /\ at = "off" /\ todo = {} /\ restoring = FALSE
  /\ base = cur /\ version = 0
  /\ decayed = FALSE /\ hasty = FALSE /\ failures = 0

\* install.sh refuses while a record exists.
StartInstall ==
  /\ Step("off", "copy")
  /\ ~pending /\ ~recorded
  /\ version < MaxInstalls
  /\ version' = version + 1
  /\ base' = cur
  /\ todo' = Targets
  /\ restoring' = FALSE
  /\ snap' = [t \in Targets |-> Absent]
  /\ sdur' = snap'
  /\ decayed' = FALSE /\ hasty' = FALSE
  /\ UNCHANGED <<targets, manifest, record>>

\* cp -a of one target.
CopyTarget(t) ==
  /\ Step("copy", "copy")
  /\ t \in todo
  /\ todo' = todo \ {t}
  /\ snap' = [snap EXCEPT ![t] = cur[t]]
  /\ UNCHANGED <<targets, sdur, manifest, decayed, record, restoring, history>>

\* begin: the snapshot is compared with the targets and its inventory written.
Begin ==
  /\ Step("copy", "seal")
  /\ todo = {}
  /\ ~pending
  /\ snap = cur
  /\ manifest' = snap
  /\ UNCHANGED <<targets, snap, sdur, decayed, record, todo, restoring, history>>

\* sync -f on the snapshot
FaultySeal ==
  /\ Step("seal", "publish")
  /\ UNCHANGED <<targets, evidence, record, todo, restoring, history>>
Seal ==
  /\ Step("seal", "publish")
  /\ sdur' = snap
  /\ UNCHANGED <<targets, snap, manifest, decayed, record, todo, restoring, history>>

\* Mutant: the record is renamed into place and not synced.
FaultyPublish ==
  /\ Step("publish", "mutate")
  /\ pending' = TRUE
  /\ todo' = Targets
  /\ UNCHANGED <<targets, evidence, recorded, restoring, history>>

\* atomic_json of pending.json: the rename, then the sync of its directory.
Publish ==
  /\ Step("publish", "record")
  /\ pending' = TRUE
  /\ UNCHANGED <<targets, evidence, recorded, todo, restoring, history>>

Record ==
  /\ Step("record", "mutate")
  /\ recorded' = TRUE
  /\ todo' = Targets
  /\ UNCHANGED <<targets, evidence, pending, restoring, history>>

\* install.sh installs into one target, which takes a while.
MutateBegins(t) ==
  /\ Step("mutate", "mutate")
  /\ t \in todo /\ cur[t] # Torn
  /\ cur' = [cur EXCEPT ![t] = Torn]
  /\ UNCHANGED <<dur, evidence, record, todo, restoring, history>>

MutateEnds(t) ==
  /\ Step("mutate", "mutate")
  /\ t \in todo /\ cur[t] = Torn
  /\ cur' = [cur EXCEPT ![t] = version]
  /\ todo' = todo \ {t}
  /\ UNCHANGED <<dur, evidence, record, restoring, history>>

Installed ==
  /\ Step("mutate", "complete")
  /\ todo = {}
  /\ UNCHANGED <<targets, evidence, record, todo, restoring, history>>

-----------------------------------------------------------------------------
(* restore *)

\* pending(): the record, the manifest and the whole snapshot agree.
Sealed == pending /\ snap = manifest

\* install.sh --recover
StartRecover ==
  /\ Step("off", "validate")
  /\ pending
  /\ restoring' = TRUE
  /\ UNCHANGED <<targets, evidence, record, todo, history>>

\* Mutant: only what the interrupted run left is restored.
FaultyValidate ==
  /\ Step("validate", "restore")
  /\ Sealed
  /\ hasty' = (hasty \/ ~recorded)
  /\ UNCHANGED <<targets, evidence, record, todo, restoring, base, version>>

\* Everything is validated before the first target is removed.
Validate ==
  /\ Step("validate", "restore")
  /\ Sealed
  /\ todo' = Targets
  /\ hasty' = (hasty \/ ~recorded)
  /\ UNCHANGED <<targets, evidence, record, restoring, base, version>>

RemoveTarget(t) ==
  /\ Step("restore", "restore")
  /\ t \in todo /\ cur[t] # Absent
  /\ cur' = [cur EXCEPT ![t] = Absent]
  /\ UNCHANGED <<dur, evidence, record, todo, restoring, history>>

\* cp -a from the snapshot, unless the path was absent.
CopyBack(t) ==
  /\ Step("restore", "restore")
  /\ t \in todo /\ cur[t] = Absent
  /\ cur' = [cur EXCEPT ![t] = snap[t]]
  /\ todo' = todo \ {t}
  /\ UNCHANGED <<dur, evidence, record, restoring, history>>

\* verify_restored
Verified == cur = manifest

Restored ==
  /\ Step("restore", "complete")
  /\ todo = {}
  /\ Verified
  /\ UNCHANGED <<targets, evidence, record, todo, restoring, history>>

-----------------------------------------------------------------------------
(* complete *)

Complete ==
  /\ Step("complete", "flush")
  /\ Sealed
  /\ restoring => Verified
  /\ UNCHANGED <<targets, evidence, record, todo, restoring, history>>

FaultySynchronize ==
  /\ Step("flush", "unlink")
  /\ UNCHANGED <<targets, evidence, record, todo, restoring, history>>
\* synchronize: the file systems of the targets and of the snapshot.
Synchronize ==
  /\ Step("flush", "unlink")
  /\ dur' = cur /\ sdur' = snap
  /\ UNCHANGED <<cur, snap, manifest, decayed, record, todo, restoring, history>>

Unlink ==
  /\ Step("unlink", "settle")
  /\ pending' = FALSE
  /\ UNCHANGED <<targets, evidence, recorded, todo, restoring, history>>

\* sync_directory; a restored snapshot is retained, the other one removed.
Settle ==
  /\ Step("settle", IF restoring THEN "off" ELSE "cleanup")
  /\ recorded' = FALSE
  /\ UNCHANGED <<targets, evidence, pending, todo, restoring, history>>

\* rm -rf of the snapshot
Cleanup ==
  /\ Step("cleanup", "off")
  /\ snap' = [t \in Targets |-> Absent] /\ sdur' = snap'
  /\ UNCHANGED <<targets, manifest, decayed, record, todo, restoring, history>>

-----------------------------------------------------------------------------
(* Failures *)

\* finish, the EXIT trap: a failure before begin is called removes the snapshot, one
\* behind that starts the rollback, one in the rollback, the recovery or the
\* completion leaves the record to --recover.
AfterFailure ==
  CASE at = "copy" -> {"cleanup"} \cup (IF todo = {} THEN {"validate"} ELSE {})
    [] at \in {"seal", "publish", "record", "mutate"} -> {"validate"}
    [] OTHER -> {"off"}

StepFails ==
  /\ at \notin {"off", "cleanup", "settle"}
  /\ Mishap
  /\ at' \in AfterFailure
  /\ restoring' = (restoring \/ at' = "validate")
  /\ UNCHANGED <<targets, evidence, record, todo, history>>

\* The driver refuses: pending() or verify_restored raised.
Refuse ==
  /\ \/ at \in {"validate", "complete"} /\ ~Sealed
     \/ at = "restore" /\ todo = {} /\ ~Verified
     \/ at = "complete" /\ restoring /\ ~Verified
  /\ at' = "off"
  /\ UNCHANGED <<targets, evidence, record, todo, restoring, history, failures>>

Kill ==
  /\ at # "off"
  /\ Mishap
  /\ at' = "off"
  /\ UNCHANGED <<targets, evidence, record, todo, restoring, history>>

Lost(now, stable) ==
  {i \in [Targets -> {Torn, Absent} \cup {now[t] : t \in Targets} \cup {stable[t] : t \in Targets}] :
     \A t \in Targets : now[t] = stable[t] => i[t] = now[t]}
PowerLoss ==
  /\ Mishap
  /\ cur' \in Lost(cur, dur) /\ dur' = cur'
  /\ snap' \in Lost(snap, sdur) /\ sdur' = snap'
  /\ pending' \in {pending, recorded} /\ recorded' = pending'
  /\ at' = "off"
  /\ UNCHANGED <<manifest, decayed, todo, restoring, history>>

\* The kernel writes everything back in its own time.
WriteBack ==
  /\ at = "off"
  /\ dur' = cur /\ sdur' = snap /\ recorded' = pending
  /\ UNCHANGED <<cur, snap, manifest, decayed, pending, process, history, failures>>

\* A file of the sealed snapshot changes.
Decay(t) ==
  /\ Mishap
  /\ pending
  /\ snap' = [snap EXCEPT ![t] = Torn] /\ sdur' = [sdur EXCEPT ![t] = Torn]
  /\ decayed' = TRUE
  /\ UNCHANGED <<targets, manifest, record, process, history>>

-----------------------------------------------------------------------------
InstallerSteps ==
  \/ Begin \/ Seal \/ Publish \/ Record \/ Installed
  \/ StartRecover \/ Validate \/ Restored \/ Complete \/ Synchronize \/ Unlink \/ Settle
  \/ Cleanup \/ Refuse
  \/ \E t \in Targets :
       CopyTarget(t) \/ MutateBegins(t) \/ MutateEnds(t) \/ RemoveTarget(t) \/ CopyBack(t)

InstallerNext ==
  \/ InstallerSteps
  \/ StartInstall \/ StepFails \/ Kill \/ PowerLoss \/ WriteBack
  \/ \E t \in Targets : Decay(t)

InstallerSpec == InstallerInit /\ [][InstallerNext]_installerVars

-----------------------------------------------------------------------------

\* The host is changed only under a record on stable storage: when no installer
\* runs and no record asks for recovery, it is wholly as before the last
\* installation or wholly as after it, whatever was killed, failed, lost or
\* decayed on the way.  And as long as the record exists, here or only on stable
\* storage, the snapshot is intact on stable storage: a recovery, also after a
\* power loss, finds what it needs.  (The first part does not hold when a restore
\* ran although begin was stopped between the rename of the record and its sync:
\* restore does not sync it either, and a power loss may take it.)
Recoverable ==
  /\ cur # base /\ cur # New => hasty \/ (pending /\ recorded)
  /\ (pending \/ recorded) /\ ~decayed => sdur = base /\ snap = base /\ manifest = base

\* An interrupted transaction whose snapshot is intact is closed in the end, if
\* the operator runs --recover again after each failure.
RecoveryCompletes == (pending /\ ~decayed) ~> (~pending \/ decayed)
=============================================================================
