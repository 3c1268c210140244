-------------------------- MODULE InstallerProofs --------------------------
(***************************************************************************)
(* The installer's transaction is recoverable, for any set of targets and  *)
(* any number of installations, failing steps, kills, power losses and     *)
(* decayed snapshots.                                                      *)
(*                                                                         *)
(* Recoverable speaks of the moments when nobody looks; to carry it        *)
(* through a transaction the invariant says what each place of the         *)
(* installer guarantees (Places), that what a record vouches for is the    *)
(* host as it was (Vouched), and that the host's own content is on stable  *)
(* storage whenever a power loss could take the record (Settled).          *)
(***************************************************************************)
EXTENDS InstallerTransaction, TLAPS

Contents == Nat \cup {Torn, Absent}
Ats == {"off", "copy", "seal", "publish", "record", "mutate", "validate", "restore",
        "complete", "flush", "unlink", "settle", "cleanup"}

Typed ==
  /\ cur \in [Targets -> Contents] /\ dur \in [Targets -> Contents]
  /\ snap \in [Targets -> Contents] /\ sdur \in [Targets -> Contents]
  /\ manifest \in [Targets -> Contents] /\ base \in [Targets -> Contents]
  /\ pending \in BOOLEAN /\ recorded \in BOOLEAN
  /\ restoring \in BOOLEAN /\ decayed \in BOOLEAN /\ hasty \in BOOLEAN
  /\ at \in Ats
  /\ todo \subseteq Targets
  /\ version \in Nat

\* What is true of the record, the snapshot and the host wherever the installer
\* stands.
Places ==
  /\ at \in {"copy", "seal", "publish", "settle", "cleanup"} => ~pending
  /\ at \in {"copy", "seal", "publish", "cleanup"} => ~recorded
  /\ at \in {"record", "mutate", "restore", "complete", "flush", "unlink"} => pending
  /\ at \in {"copy", "seal", "publish", "record"} => cur = base
  /\ at \in {"seal", "publish", "record"} => manifest = base
  /\ at \in {"seal", "publish"} => snap = base
  /\ at = "publish" => sdur = base
  /\ at \in {"mutate", "restore", "complete", "flush", "unlink"} => recorded \/ hasty
  /\ at = "mutate" => recorded /\ \A t \in Targets \ todo : cur[t] = version
  /\ at \in {"copy", "seal", "publish", "record", "mutate"} => ~restoring
  /\ at \in {"validate", "restore"} => restoring
  /\ at \in {"complete", "flush", "unlink", "settle"} =>
       IF restoring THEN cur = base ELSE cur = New
  /\ at \in {"unlink", "settle"} => dur = cur

\* The manifest of a transaction with a record is the host as it was, and so is
\* the snapshot until it decays.
Vouched ==
  pending \/ recorded => /\ manifest = base
                         /\ ~decayed => sdur = base /\ snap = base

\* Without a record that survives a power loss, the targets are settled on
\* stable storage.
Settled == ~pending \/ (~recorded /\ ~hasty) => dur = cur

\* The first half of Recoverable.
Whole == cur # base /\ cur # New => hasty \/ (pending /\ recorded)

Inv == Typed /\ Places /\ Vouched /\ Settled /\ Whole

-----------------------------------------------------------------------------
\* What a power loss leaves of contents that were synced is these contents.
LEMMA SyncedSurvives ==
  ASSUME NEW now \in [Targets -> Contents], NEW i \in Lost(now, now)
  PROVE  i = now
BY DEF Lost

\* And it is never anything but a content.
LEMMA LostTyped ==
  ASSUME NEW now \in [Targets -> Contents], NEW stable \in [Targets -> Contents],
         NEW i \in Lost(now, stable)
  PROVE  i \in [Targets -> Contents]
<1>1. {Torn, Absent} \cup {now[t] : t \in Targets} \cup {stable[t] : t \in Targets}
        \subseteq Contents
  BY DEF Contents
<1>2. QED
  BY <1>1 DEF Lost

\* The transaction opens: snapshot, manifest, record.
LEMMA OpeningStep ==
  ASSUME Inv, \/ StartInstall \/ Begin \/ Seal \/ Publish \/ Record
              \/ \E t \in Targets : CopyTarget(t)
  PROVE  Inv'
<1> USE DEF Inv, Typed, Ats, Contents, Places, Vouched, Settled, Whole, New, Step,
            targets, evidence, record, history
<1>1. CASE StartInstall
  <2>1. /\ at' = "copy" /\ ~pending /\ ~recorded
        /\ base' = cur /\ todo' = Targets /\ restoring' = FALSE
        /\ snap' = [t \in Targets |-> Absent] /\ sdur' = snap'
        /\ decayed' = FALSE /\ hasty' = FALSE
        /\ UNCHANGED <<cur, dur, manifest, pending, recorded>>
    BY <1>1 DEF StartInstall
  <2>2. version' \in Nat
    BY <1>1, InstallerAssumption DEF StartInstall
  <2>3. Typed'
    BY <2>1, <2>2
  <2>4. QED
    BY <2>1, <2>3
<1>2. CASE \E t \in Targets : CopyTarget(t)
  BY <1>2 DEF CopyTarget
<1>3. CASE Begin
  BY <1>3 DEF Begin
<1>4. CASE Seal
  BY <1>4 DEF Seal
<1>5. CASE Publish
  BY <1>5 DEF Publish
<1>6. CASE Record
  BY <1>6 DEF Record
<1>7. QED
  BY <1>1, <1>2, <1>3, <1>4, <1>5, <1>6

\* The targets change, forwards or back.
LEMMA ChangingStep ==
  ASSUME Inv, \/ \E t \in Targets : \/ MutateBegins(t) \/ MutateEnds(t)
                                    \/ RemoveTarget(t) \/ CopyBack(t)
              \/ Installed \/ StartRecover \/ Validate \/ Restored
  PROVE  Inv'
<1> USE DEF Inv, Typed, Ats, Contents, Places, Vouched, Settled, Whole, New, Step,
            targets, evidence, record, history
<1>1. CASE \E t \in Targets : MutateBegins(t)
  BY <1>1 DEF MutateBegins
<1>2. CASE \E t \in Targets : MutateEnds(t)
  BY <1>2 DEF MutateEnds
<1>3. CASE \E t \in Targets : RemoveTarget(t)
  BY <1>3 DEF RemoveTarget
<1>4. CASE \E t \in Targets : CopyBack(t)
  BY <1>4 DEF CopyBack
<1>5. CASE Installed
  BY <1>5 DEF Installed
<1>6. CASE StartRecover
  BY <1>6 DEF StartRecover
<1>7. CASE Validate
  <2>1. /\ at' = "restore" /\ pending /\ todo' = Targets
        /\ hasty' = (hasty \/ ~recorded)
        /\ UNCHANGED <<cur, dur, snap, sdur, manifest, decayed, pending, recorded,
                       restoring, base, version>>
    BY <1>7 DEF Validate, Sealed
  <2>2. hasty' \in BOOLEAN /\ (hasty' <=> hasty \/ ~recorded)
    BY <2>1
  <2>3. restoring
    BY <1>7 DEF Validate
  <2>4. Typed' /\ Vouched' /\ Whole' /\ Settled'
    BY <2>1, <2>2
  <2>5. Places'
    BY <2>1, <2>2, <2>3
  <2>6. QED
    BY <2>4, <2>5
<1>8. CASE Restored
  <2>1. /\ at = "restore" /\ at' = "complete" /\ cur = manifest
        /\ UNCHANGED <<cur, dur, snap, sdur, manifest, decayed, pending, recorded, todo,
                       restoring, base, version, hasty>>
    BY <1>8 DEF Restored, Verified
  <2>2. pending /\ cur = base
    BY <2>1
  <2>3. QED
    BY <2>1, <2>2
<1>9. QED
  BY <1>1, <1>2, <1>3, <1>4, <1>5, <1>6, <1>7, <1>8

\* The transaction closes.
LEMMA ClosingStep ==
  ASSUME Inv, Complete \/ Synchronize \/ Unlink \/ Settle \/ Cleanup
  PROVE  Inv'
<1> USE DEF Inv, Typed, Ats, Contents, Places, Vouched, Settled, Whole, New, Step,
            targets, evidence, record, history
<1>1. CASE Complete
  BY <1>1 DEF Complete
<1>2. CASE Synchronize
  BY <1>2 DEF Synchronize
<1>3. CASE Unlink
  BY <1>3 DEF Unlink
<1>4. CASE Settle
  BY <1>4 DEF Settle
<1>5. CASE Cleanup
  BY <1>5 DEF Cleanup
<1>6. QED
  BY <1>1, <1>2, <1>3, <1>4, <1>5

\* The process stops or fails; the host and the evidence stay as they are.
LEMMA StoppingStep ==
  ASSUME Inv, StepFails \/ Refuse \/ Kill
  PROVE  Inv'
<1> USE DEF Inv, Typed, Ats, Contents, Places, Vouched, Settled, Whole, New,
            targets, evidence, record, history
<1>1. CASE StepFails
  BY <1>1 DEF StepFails, AfterFailure
<1>2. CASE Refuse
  BY <1>2 DEF Refuse
<1>3. CASE Kill
  BY <1>3 DEF Kill
<1>4. QED
  BY <1>1, <1>2, <1>3

\* The storage acts by itself.
LEMMA StorageStep ==
  ASSUME Inv, PowerLoss \/ WriteBack \/ \E t \in Targets : Decay(t)
  PROVE  Inv'
<1> USE DEF Inv, Typed, Ats, Contents, Places, Vouched, Settled, Whole, New,
            targets, evidence, record, process, history
<1>1. CASE WriteBack
  BY <1>1 DEF WriteBack
<1>2. CASE \E t \in Targets : Decay(t)
  BY <1>2 DEF Decay
<1>3. CASE PowerLoss
  <2>1. /\ cur' \in Lost(cur, dur) /\ dur' = cur'
        /\ snap' \in Lost(snap, sdur) /\ sdur' = snap'
        /\ pending' \in {pending, recorded} /\ recorded' = pending'
        /\ at' = "off"
        /\ UNCHANGED <<manifest, decayed, todo, restoring, base, version, hasty>>
    BY <1>3 DEF PowerLoss
  <2>2. cur' \in [Targets -> Contents] /\ snap' \in [Targets -> Contents]
    BY <2>1, LostTyped
  <2>3. (pending \/ recorded) /\ ~decayed => snap' = base
    BY <2>1, SyncedSurvives
  <2>4. Whole'
    <3>1. CASE pending /\ recorded
      BY <2>1, <3>1
    <3>2. CASE hasty
      BY <2>1, <3>2
    <3>3. CASE ~hasty /\ ~(pending /\ recorded)
      <4>1. dur = cur
        BY <3>3
      <4>2. cur' = cur
        BY <2>1, <4>1, SyncedSurvives
      <4>3. QED
        BY <2>1, <3>3, <4>2
    <3>4. QED
      BY <3>1, <3>2, <3>3
  <2>5. Typed'
    BY <2>1, <2>2
  <2>6. Vouched'
    BY <2>1, <2>3
  <2>7. QED
    BY <2>1, <2>4, <2>5, <2>6
<1>4. QED
  BY <1>1, <1>2, <1>3

\* The invariant holds in every reachable state.
THEOREM Invariance == InstallerSpec => []Inv
<1>1. InstallerInit => Inv
  <2> SUFFICES ASSUME InstallerInit PROVE Inv
    OBVIOUS
  <2>1. PICK c \in {0, Absent} : cur = [t \in Targets |-> c]
    BY DEF InstallerInit
  <2>2. Typed
    <3>1. /\ cur \in [Targets -> Contents]
          /\ [t \in Targets |-> Absent] \in [Targets -> Contents]
      BY <2>1 DEF Contents
    <3>2. QED
      BY <3>1 DEF InstallerInit, Typed, Ats
  <2>3. QED
    BY <2>2 DEF InstallerInit, Inv, Places, Vouched, Settled, Whole
<1>2. Inv /\ [InstallerNext]_installerVars => Inv'
  <2>1. ASSUME Inv, InstallerNext
        PROVE  Inv'
    BY <2>1, OpeningStep, ChangingStep, ClosingStep, StoppingStep, StorageStep
       DEF InstallerNext, InstallerSteps
  <2>2. ASSUME Inv, UNCHANGED installerVars
        PROVE  Inv'
    BY <2>2 DEF installerVars, targets, evidence, record, process, history, Inv, Typed,
       Places, Vouched, Settled, Whole, New
  <2>3. QED
    BY <2>1, <2>2
<1>3. QED
  BY <1>1, <1>2, PTL DEF InstallerSpec

\* Whatever is killed, fails, decays or loses power, and however often, the host
\* is wholly as before or wholly as after the last installation once no record
\* is left, and what a record promises is on stable storage.
THEOREM RecoverableHolds == InstallerSpec => []Recoverable
<1>1. Inv => Recoverable
  BY DEF Inv, Whole, Vouched, Recoverable
<1>2. QED
  BY <1>1, Invariance, PTL

=============================================================================
