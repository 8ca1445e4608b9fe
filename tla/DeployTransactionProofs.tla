---------------------- MODULE DeployTransactionProofs ----------------------
(***************************************************************************)
(* For every set of versions, every package and every combination of       *)
(* failures: DeployTransaction is type correct, keeps the old component or *)
(* the new one whole, its answers are true, and it implements              *)
(* ComponentSlot.                                                          *)
(*                                                                         *)
(* None of the three properties is inductive: what the next request does   *)
(* to the trees is only right for the trees as the earlier requests of the *)
(* same deployment left them.  Located says, for each place a deployment   *)
(* can be at, what those are.                                              *)
(***************************************************************************)
EXTENDS DeployRefinement, WellFoundedInduction, TLAPS

\* Reconciliation has not changed what is in effect.
LocReconcile ==
    /\ pc = "reconcile" => Effective = before
    /\ pc = "restore" =>
         active = Absent /\ backup = before /\ before # Absent /\ journal.op = "update"

\* The journal is resolved or about to be: the active tree alone counts.
Resolving ==
    \/ pc = "dropJournal"
    \/ pc = "clearStaging" /\ after \in {"dropJournal", "inspect"}

LocResolve ==
    /\ Resolving => active = before /\ (before # Absent \/ journal.op # "update")
    /\ pc = "clearStaging" /\ after = "inspect" => journal = NoJournal
    /\ pc \in {"dropJournal", "inspect"} => staging = Absent

\* A package is being staged, or its remains are being cleared.
Staging ==
    \/ pc \in {"inspect", "mkdir", "writeFile", "verifyStaging", "writeJournal"}
    \/ pc = "clearStaging" /\ after \in {"mkdir", "unlock"}

\* From the decision on, an install starts from nothing and an update from
\* something.
Decided ==
    \/ pc \in {"mkdir", "writeFile", "verifyStaging", "writeJournal", "commit",
               "clearBackup", "backupActive", "activate", "commitJournal",
               "rollbackActive", "rollbackRestore", "rollbackJournal"}
    \/ pc = "clearStaging" /\ after \in {"mkdir", "rollbackJournal"}

LocStage ==
    /\ Staging => active = before /\ journal = NoJournal
    /\ Decided => (op = "install" <=> before = Absent)
    /\ pc \in {"writeJournal", "commit", "clearBackup", "backupActive", "activate"}
         => staging = Package(target)
    /\ pc = "writeFile" => staging.files # PackageFiles[target]
    /\ pc \in {"clearStaging", "writeFile", "verifyStaging"} => Clearable(staging)

\* An update replaces an older package of this component, nothing else.
LocOlder ==
    /\ op = "update"
    /\ \/ pc \in {"mkdir", "writeFile", "verifyStaging", "writeJournal", "commit",
                  "clearBackup", "backupActive"}
       \/ pc = "clearStaging" /\ after = "mkdir"
    => Older(active)

\* A journal of this very operation is on the host.
Journaled ==
    \/ pc \in {"commit", "clearBackup", "backupActive", "activate", "commitJournal",
               "rollbackActive", "rollbackRestore", "rollbackJournal"}
    \/ pc = "clearStaging" /\ after = "rollbackJournal"

LocCommit ==
    /\ Journaled => journal = [op |-> op, target |-> target]
    /\ pc \in {"commit", "clearBackup", "backupActive"} => active = before
    /\ pc \in {"clearBackup", "backupActive"} => op = "update"
    /\ pc \in {"activate", "rollbackRestore"} => active = Absent
    /\ pc = "rollbackActive" => active \in {Absent, Package(target)}
    /\ pc \in {"activate", "commitJournal", "rollbackActive", "rollbackRestore"}
         => (op = "update" => backup = before)
    /\ pc = "commitJournal" => active = Package(target) /\ staging = Absent

\* A completed rollback: the component found is the active one again.
LocRollback ==
    pc = "rollbackJournal" \/ (pc = "clearStaging" /\ after = "rollbackJournal")
        => active = before

\* The pending answer: none on the way forward, an error on the way back, and
\* when it is final it is a true one.
LocAnswer ==
    /\ pc # "idle" => lock = "held"
    /\ pc \in {"reconcile", "restore", "dropJournal", "inspect", "mkdir", "writeFile",
               "verifyStaging", "writeJournal", "commit", "clearBackup",
               "backupActive", "activate", "commitJournal"}
         => answer = "none"
    /\ pc = "clearStaging" /\ after \in {"dropJournal", "inspect", "mkdir"}
         => answer = "none"
    /\ pc \in {"clearStaging", "rollbackActive", "rollbackRestore", "rollbackJournal"}
         => answer \notin Successes
    /\ pc \in {"idle", "unlock"} /\ answer \in {"UnsafeState", "VerificationFailed"}
         => Effective = before
    /\ pc \in {"idle", "unlock"} /\ answer \in Successes =>
         /\ Exact(active) /\ staging = Absent /\ journal = NoJournal
         /\ pc = "idle" => lock = "free"
         /\ answer = "update" => backup = before
         /\ answer = "noop" => before = active
         /\ answer = "install" => before = Absent

Located ==
    /\ LocReconcile /\ LocResolve /\ LocStage /\ LocOlder /\ LocCommit
    /\ LocRollback /\ LocAnswer

Inv == TypeOK /\ OldOrNew /\ Located

-----------------------------------------------------------------------------
(* Trees and outcomes. *)

\* The package of a server is a tree, and never the absent one.
LEMMA PackageFacts ==
    ASSUME NEW v \in Versions
    PROVE  Package(v) \in Tree /\ Package(v) # Absent /\ Absent \in Tree
  BY VersionsAssumption, PackageAssumption DEF Package, Tree, Absent, Files

\* Removing the next entry of a tree leaves a tree.
LEMMA ShrinkTree ==
    ASSUME NEW t \in Tree
    PROVE  /\ Shrink(t) \in Tree
           /\ t.files = {} => Shrink(t) = Absent
           /\ Shrink(t).files \subseteq t.files
  BY DEF Shrink, Tree, Absent

\* A set of numbers has a first one.
LEMMA FirstFileIn ==
    ASSUME NEW S \in SUBSET Nat, S # {}
    PROVE  FirstFile(S) \in S
  <1>1. PICK x \in S : \A y \in S : ~(<<y, x>> \in OpToRel(<, Nat))
    BY NatLessThanWellFounded, WFMin
  <1>2. ASSUME NEW y \in S
        PROVE  x <= y
    <2>1. x \in Nat /\ y \in Nat
      OBVIOUS
    <2>2. <<y, x>> \in OpToRel(<, Nat) <=> y < x
      BY <2>1 DEF OpToRel
    <2>3. ~(y < x)
      BY <1>1, <2>2
    <2>4. QED
      BY <2>1, <2>3
  <1>3. QED
    BY <1>2 DEF FirstFile

\* Writing a file of the package, whole or torn, leaves a tree.
LEMMA WriteTree ==
    ASSUME TypeOK, Clearable(staging), staging.files # PackageFiles[target]
    PROVE  /\ NextFile \in PackageFiles[target]
           /\ TornFile \in Tree
           /\ TornFile.files = staging.files \cup {NextFile}
           /\ [staging EXCEPT !.files = @ \cup {NextFile}] \in Tree
           /\ [staging EXCEPT !.files = @ \cup {NextFile}].files
                = staging.files \cup {NextFile}
  <1>1. PackageFiles[target] \subseteq Files /\ Files \subseteq Nat
    BY PackageAssumption, FilesAssumption DEF TypeOK, Files
  <1>2. PackageFiles[target] \ staging.files \in SUBSET Nat
    BY <1>1
  <1>3. PackageFiles[target] \ staging.files # {}
    BY DEF Clearable
  <1>4. NextFile \in PackageFiles[target] \ staging.files
    BY <1>2, <1>3, FirstFileIn DEF NextFile
  <1>5. QED
    BY <1>1, <1>4 DEF TypeOK, Tree, TornFile

-----------------------------------------------------------------------------
(* Every step keeps Inv. *)

USE DEF Request, ReadFails, Failures, Disk, Goto, Finish, ClearThen, Quiet,
        disk, locals, history

\* The places of a deployment and what holds there are open in every step.
USE DEF Inv, OldOrNew, Effective, NoJournal, Located, LocReconcile, LocResolve,
        LocStage, LocOlder, LocCommit, LocRollback, LocAnswer, Resolving, Staging,
        Decided, Journaled, Older

\* A deployment starts from the component then in effect.
LEMMA StartInv ==
    ASSUME Inv, Start
    PROVE  Inv'
  <1>1. TypeOK'
    BY DEF TypeOK, Answers, Labels, Start
  <1>2. OldOrNew'
    BY DEF Start
  <1>3. Located'
    BY DEF Start
  <1>4. QED
    BY <1>1, <1>2, <1>3

\* A deployment refused for the lock changes nothing on the host.
LEMMA RefusedInv ==
    ASSUME Inv, Refused
    PROVE  Inv'
  <1>1. TypeOK'
    BY DEF TypeOK, Answers, Errors, Refused
  <1>2. OldOrNew'
    BY DEF Refused
  <1>3. Located'
    BY DEF Successes, Refused
  <1>4. QED
    BY <1>1, <1>2, <1>3

\* Time alone changes no tree.
LEMMA LeaseExpiresInv ==
    ASSUME Inv, LeaseExpires
    PROVE  Inv'
  <1>1. TypeOK'
    BY DEF TypeOK, LeaseExpires
  <1>2. OldOrNew'
    BY DEF LeaseExpires
  <1>3. Located'
    BY DEF LeaseExpires
  <1>4. QED
    BY <1>1, <1>2, <1>3

\* The row of the table tells what is in effect: the active tree, or the
\* backup when only that and staging are left of an update.
LEMMA ReconcileInv ==
    ASSUME Inv, Reconcile
    PROVE  Inv'
  <1>1. TypeOK'
    BY DEF TypeOK, Answers, Errors, Labels, Reconcile
  <1>2. OldOrNew'
    BY DEF Reconcile
  <1>3. Located'
    <2>1. LocReconcile'
      BY DEF Reconcile, Row
    <2>2. LocResolve'
      BY DEF TypeOK, Reconcile, Row, Journals, TornJournal
    <2>3. LocStage'
      BY DEF TypeOK, Reconcile, Row, Journals, TornJournal, Clearable
    <2>4. LocOlder'
      BY DEF Reconcile
    <2>5. LocCommit'
      BY DEF Reconcile
    <2>6. LocRollback'
      BY DEF Reconcile
    <2>7. LocAnswer'
      BY DEF Successes, Reconcile
    <2>8. QED
      BY <2>1, <2>2, <2>3, <2>4, <2>5, <2>6, <2>7
  <1>4. QED
    BY <1>1, <1>2, <1>3

\* Restoring makes the backup, which was in effect, the active tree.
LEMMA RestoreInv ==
    ASSUME Inv, Restore
    PROVE  Inv'
  <1>1. TypeOK'
    BY DEF TypeOK, Answers, Errors, Labels, Restore
  <1>2. OldOrNew'
    BY DEF Restore
  <1>3. Located'
    BY DEF Successes, Restore, Clearable
  <1>4. QED
    BY <1>1, <1>2, <1>3

\* Without its journal only the active tree counts, and it did before.
LEMMA DropJournalInv ==
    ASSUME Inv, DropJournal
    PROVE  Inv'
  <1>1. TypeOK'
    BY DEF TypeOK, Journals, Answers, Errors, Labels, DropJournal
  <1>2. OldOrNew'
    BY DEF DropJournal
  <1>3. Located'
    BY DEF Successes, DropJournal
  <1>4. QED
    BY <1>1, <1>2, <1>3

\* The decision: an install starts from nothing, an update from an older
\* package, and an exact package is left as it is.
LEMMA InspectInv ==
    ASSUME Inv, Inspect
    PROVE  Inv'
  <1>1. TypeOK'
    BY DEF TypeOK, Answers, Errors, Labels, Successes, Inspect, Begin
  <1>2. OldOrNew'
    BY DEF Inspect
  <1>3. Located'
    BY DEF Successes, Exact, Inspect, Begin, Recognized, Absent
  <1>4. QED
    BY <1>1, <1>2, <1>3

\* Staging is beside the component, not part of it.
LEMMA MakeStagingInv ==
    ASSUME Inv, MakeStaging
    PROVE  Inv'
  <1>1. TypeOK'
    BY DEF TypeOK, Answers, Errors, Labels, Tree, MakeStaging, StageFails
  <1>2. OldOrNew'
    BY DEF MakeStaging
  <1>3. Located'
    BY PackageFacts, PackageAssumption DEF TypeOK, Successes, Exact,
       MakeStaging, StageFails, Clearable, Absent
  <1>4. QED
    BY <1>1, <1>2, <1>3

\* A file more in staging, whole or not, is still no part of the component.
LEMMA WriteFileInv ==
    ASSUME Inv, WriteFile
    PROVE  Inv'
  <1>1. TypeOK'
    BY WriteTree DEF TypeOK, Answers, Errors, Labels, WriteFile, StageFails,
       WriteCutShort
  <1>2. OldOrNew'
    BY DEF WriteFile, WriteCutShort
  <1>3. Located'
    <2>1. LocReconcile'
      BY DEF WriteFile, StageFails
    <2>2. LocResolve'
      BY DEF WriteFile, StageFails
    <2>3. LocStage'
      BY WriteTree DEF WriteFile, StageFails, WriteCutShort, Clearable
    <2>4. LocOlder'
      BY DEF WriteFile, StageFails
    <2>5. LocCommit'
      BY DEF WriteFile, StageFails
    <2>6. LocRollback'
      BY DEF WriteFile, WriteCutShort
    <2>7. LocAnswer'
      BY DEF Successes, WriteFile, StageFails
    <2>8. QED
      BY <2>1, <2>2, <2>3, <2>4, <2>5, <2>6, <2>7
  <1>4. QED
    BY <1>1, <1>2, <1>3

\* What goes on to the journal is the exact package.
LEMMA VerifyStagingInv ==
    ASSUME Inv, VerifyStaging
    PROVE  Inv'
  <1>1. TypeOK'
    BY DEF TypeOK, Answers, Errors, Labels, VerifyStaging, StageFails
  <1>2. OldOrNew'
    BY DEF VerifyStaging
  <1>3. Located'
    BY DEF Successes, Exact, VerifyStaging, StageFails, Clearable
  <1>4. QED
    BY <1>1, <1>2, <1>3

\* Removing staging, for whatever reason, leaves the other trees alone.
LEMMA ClearStagingInv ==
    ASSUME Inv, ClearStaging
    PROVE  Inv'
  <1>1. TypeOK'
    BY ShrinkTree DEF TypeOK, Answers, Errors, Labels, ClearStaging,
       StageFails, RollbackFails
  <1>2. OldOrNew'
    BY DEF ClearStaging
  <1>3. Located'
    BY ShrinkTree DEF TypeOK, Successes, ClearStaging, StageFails,
       RollbackFails, Clearable
  <1>4. QED
    BY <1>1, <1>2, <1>3

\* With the journal of this operation the active tree is still in effect.
LEMMA WriteJournalInv ==
    ASSUME Inv, WriteJournal
    PROVE  Inv'
  <1>1. TypeOK'
    BY DEF TypeOK, Journals, Answers, Errors, Labels, WriteJournal,
       WriteCutShort
  <1>2. OldOrNew'
    BY DEF WriteJournal, WriteCutShort, TornJournal
  <1>3. Located'
    BY DEF Successes, WriteJournal, WriteCutShort, TornJournal
  <1>4. QED
    BY <1>1, <1>2, <1>3

\* Looking for an old backup changes nothing.
LEMMA CommitInv ==
    ASSUME Inv, Commit
    PROVE  Inv'
  <1>1. TypeOK'
    BY DEF TypeOK, Answers, Errors, Labels, Commit
  <1>2. OldOrNew'
    BY DEF Commit
  <1>3. Located'
    BY DEF Successes, Commit
  <1>4. QED
    BY <1>1, <1>2, <1>3

\* The backup that goes is not the one in effect: active is there.
LEMMA ClearBackupInv ==
    ASSUME Inv, ClearBackup
    PROVE  Inv'
  <1>1. TypeOK'
    BY ShrinkTree DEF TypeOK, Answers, Errors, Labels, ClearBackup
  <1>2. OldOrNew'
    BY DEF ClearBackup
  <1>3. Located'
    BY DEF Successes, ClearBackup
  <1>4. QED
    BY <1>1, <1>2, <1>3

\* The first rename: the component moves to backup and stays in effect there.
LEMMA BackupActiveInv ==
    ASSUME Inv, BackupActive
    PROVE  Inv'
  <1>1. TypeOK'
    BY DEF TypeOK, Answers, Errors, Labels, BackupActive
  <1>2. OldOrNew'
    BY DEF BackupActive
  <1>3. Located'
    BY DEF Successes, BackupActive
  <1>4. QED
    BY <1>1, <1>2, <1>3

\* The second rename: the verified package takes effect.
LEMMA ActivateInv ==
    ASSUME Inv, Activate
    PROVE  Inv'
  <1>1. TypeOK'
    BY DEF TypeOK, Answers, Errors, Labels, Activate
  <1>2. OldOrNew'
    BY DEF Activate
  <1>3. Located'
    BY DEF Successes, Activate
  <1>4. QED
    BY <1>1, <1>2, <1>3

\* The success answer is true, and a failure is no refusal.
LEMMA CommitJournalInv ==
    ASSUME Inv, CommitJournal
    PROVE  Inv'
  <1>1. TypeOK'
    BY DEF TypeOK, Journals, Answers, Errors, Labels, Successes,
       CommitJournal
  <1>2. OldOrNew'
    BY DEF CommitJournal
  <1>3. Located'
    BY DEF TypeOK, Successes, Exact, CommitJournal
  <1>4. QED
    BY <1>1, <1>2, <1>3

\* A package that took effect by a lost rename is moved out again.
LEMMA RollbackActiveInv ==
    ASSUME Inv, RollbackActive
    PROVE  Inv'
  <1>1. TypeOK'
    BY DEF TypeOK, Answers, Errors, Labels, RollbackActive, RollbackFails
  <1>2. OldOrNew'
    BY DEF TypeOK, RollbackActive
  <1>3. Located'
    BY DEF Successes, RollbackActive, RollbackFails
  <1>4. QED
    BY <1>1, <1>2, <1>3

\* The backup in effect becomes the active tree.
LEMMA RollbackRestoreInv ==
    ASSUME Inv, RollbackRestore
    PROVE  Inv'
  <1>1. TypeOK'
    BY DEF TypeOK, Answers, Errors, Labels, RollbackRestore, RollbackFails
  <1>2. OldOrNew'
    BY DEF TypeOK, RollbackRestore
  <1>3. Located'
    BY DEF TypeOK, Successes, RollbackRestore, RollbackFails, Clearable
  <1>4. QED
    BY <1>1, <1>2, <1>3

\* The component found is active, so its journal may go.
LEMMA RollbackJournalInv ==
    ASSUME Inv, RollbackJournal
    PROVE  Inv'
  <1>1. TypeOK'
    BY DEF TypeOK, Journals, Answers, Errors, Labels, RollbackJournal,
       RollbackFails
  <1>2. OldOrNew'
    BY DEF RollbackJournal
  <1>3. Located'
    BY DEF Successes, RollbackJournal, RollbackFails
  <1>4. QED
    BY <1>1, <1>2, <1>3

\* A final answer was true when it was decided; a failed unlock withdraws it.
LEMMA UnlockInv ==
    ASSUME Inv, Unlock
    PROVE  Inv'
  <1>1. TypeOK'
    BY DEF TypeOK, Answers, Errors, Labels, Unlock
  <1>2. OldOrNew'
    BY DEF Unlock
  <1>3. Located'
    BY DEF Successes, Exact, Unlock
  <1>4. QED
    BY <1>1, <1>2, <1>3

\* Wherever the future is dropped, the tree in effect is one of the two.
LEMMA DeadlineInv ==
    ASSUME Inv, Deadline
    PROVE  Inv'
  <1>1. TypeOK'
    BY WriteTree, ShrinkTree DEF TypeOK, Journals, Answers, Errors, Labels,
       Deadline, InFlight, WriteCutShort
  <1>2. OldOrNew'
    BY DEF Deadline, InFlight, WriteCutShort, TornJournal
  <1>3. Located'
    <2>1. LocReconcile'
      BY DEF Deadline
    <2>2. LocResolve'
      BY DEF Deadline
    <2>3. LocStage'
      BY DEF Deadline
    <2>4. LocOlder'
      BY DEF Deadline
    <2>5. LocCommit'
      BY DEF Deadline
    <2>6. LocRollback'
      BY DEF Deadline
    <2>7. LocAnswer'
      BY DEF Successes, Deadline
    <2>8. QED
      BY <2>1, <2>2, <2>3, <2>4, <2>5, <2>6, <2>7
  <1>4. QED
    BY <1>1, <1>2, <1>3

\* Wherever the process dies, the tree in effect is one of the two.
LEMMA CrashInv ==
    ASSUME Inv, Crash
    PROVE  Inv'
  <1>1. TypeOK'
    BY WriteTree DEF TypeOK, Journals, Answers, Labels, Crash, WriteCutShort
  <1>2. OldOrNew'
    BY DEF Crash, WriteCutShort, TornJournal
  <1>3. Located'
    BY DEF Successes, Crash
  <1>4. QED
    BY <1>1, <1>2, <1>3

\* Another server version takes the component as it finds it.
LEMMA UpgradeInv ==
    ASSUME Inv, Upgrade
    PROVE  Inv'
  <1>1. TypeOK'
    BY DEF TypeOK, Answers, Upgrade
  <1>2. OldOrNew'
    BY DEF Upgrade
  <1>3. Located'
    BY DEF Successes, Upgrade
  <1>4. QED
    BY <1>1, <1>2, <1>3

\* The end of the failures changes nothing.
LEMMA CalmDownInv ==
    ASSUME Inv, CalmDown
    PROVE  Inv'
  <1>1. TypeOK'
    BY DEF TypeOK, CalmDown
  <1>2. OldOrNew'
    BY DEF CalmDown
  <1>3. Located'
    BY DEF Exact, CalmDown, Clearable
  <1>4. QED
    BY <1>1, <1>2, <1>3

\* The states a server may find at its start satisfy the invariant.
LEMMA InitInv == Init => Inv
  <1> SUFFICES ASSUME Init PROVE Inv
    OBVIOUS
  <1>1. active \in Tree
    BY PackageAssumption DEF Init, Tree, Absent, Files
  <1>2. backup \in Tree /\ staging \in Tree
    BY PackageFacts DEF Init, Tree, Absent
  <1>3. before = active
    BY DEF Init
  <1>4. TypeOK
    <2>1. /\ target \in Versions /\ journal = NoJournal /\ lock = "free"
          /\ pc = "idle" /\ after = "inspect" /\ op = "install" /\ answer = "none"
      BY DEF Init
    <2>2. sound \in BOOLEAN /\ calm \in BOOLEAN
      BY DEF Init
    <2>3. QED
      BY <1>1, <1>2, <1>3, <2>1, <2>2 DEF TypeOK, Labels, Answers, Journals
  <1>5. QED
    BY <1>3, <1>4 DEF Init, Successes

\* Every step of the specification keeps the invariant.
LEMMA NextInv == Inv /\ [Next]_vars => Inv'
  <1> SUFFICES ASSUME Inv, [Next]_vars PROVE Inv'
    OBVIOUS
  <1>1. CASE Start \/ Refused \/ LeaseExpires
    BY <1>1, StartInv, RefusedInv, LeaseExpiresInv DEF Inv
  <1>2. CASE Reconcile \/ Restore \/ DropJournal \/ Inspect
    BY <1>2, ReconcileInv, RestoreInv, DropJournalInv, InspectInv
  <1>3. CASE MakeStaging \/ WriteFile \/ VerifyStaging \/ ClearStaging
    BY <1>3, MakeStagingInv, WriteFileInv, VerifyStagingInv, ClearStagingInv
  <1>4. CASE WriteJournal \/ Commit \/ ClearBackup \/ BackupActive
    BY <1>4, WriteJournalInv, CommitInv, ClearBackupInv, BackupActiveInv
  <1>5. CASE Activate \/ CommitJournal \/ Unlock
    BY <1>5, ActivateInv, CommitJournalInv, UnlockInv
  <1>6. CASE RollbackActive \/ RollbackRestore \/ RollbackJournal
    BY <1>6, RollbackActiveInv, RollbackRestoreInv, RollbackJournalInv
  <1>7. CASE Deadline \/ Crash \/ Upgrade \/ CalmDown
    BY <1>7, DeadlineInv, CrashInv, UpgradeInv, CalmDownInv
  <1>8. CASE UNCHANGED vars
    BY <1>8 DEF vars, TypeOK, Exact, Clearable
  <1>9. QED
    BY <1>1, <1>2, <1>3, <1>4, <1>5, <1>6, <1>7, <1>8 DEF Next, Step

\* A step takes the active tree away only where it is the old component or the
\* exact new one.
LEMMA ForeignActiveStep ==
    ASSUME Inv, [Next]_vars, active # Absent, ~Older(active), ~Exact(active)
    PROVE  active' = active
  <1>1. CASE Start \/ Refused \/ LeaseExpires
    BY <1>1 DEF Start, Refused, LeaseExpires
  <1>2. CASE Reconcile \/ Restore \/ DropJournal \/ Inspect
    BY <1>2 DEF Reconcile, Restore, DropJournal, Inspect
  <1>3. CASE MakeStaging \/ WriteFile \/ VerifyStaging \/ ClearStaging
    BY <1>3 DEF MakeStaging, WriteFile, WriteCutShort, VerifyStaging, ClearStaging
  <1>4. CASE WriteJournal \/ Commit \/ ClearBackup
    BY <1>4 DEF WriteJournal, WriteCutShort, Commit, ClearBackup
  <1>5. CASE BackupActive
    BY <1>5 DEF BackupActive, Older
  <1>6. CASE Activate \/ CommitJournal \/ Unlock
    BY <1>6 DEF Activate, CommitJournal, Unlock
  <1>7. CASE RollbackActive \/ RollbackRestore \/ RollbackJournal
    BY <1>7 DEF RollbackActive, RollbackRestore, RollbackJournal, Exact
  <1>8. CASE Deadline \/ Crash \/ Upgrade \/ CalmDown
    BY <1>8 DEF Deadline, Crash, InFlight, WriteCutShort, Upgrade, CalmDown
  <1>9. CASE UNCHANGED vars
    BY <1>9 DEF vars
  <1>10. QED
    BY <1>1, <1>2, <1>3, <1>4, <1>5, <1>6, <1>7, <1>8, <1>9 DEF Next, Step

\* A step changes only a staging tree that this server made or inspected.
LEMMA ForeignStagingStep ==
    ASSUME Inv, [Next]_vars, ~Clearable(staging)
    PROVE  staging' = staging
  <1>1. staging # Absent /\ staging # Package(target)
    BY DEF Clearable, Absent, Package
  <1>2. CASE Start \/ Refused \/ LeaseExpires
    BY <1>2 DEF Start, Refused, LeaseExpires
  <1>3. CASE Reconcile \/ Restore \/ DropJournal \/ Inspect
    BY <1>3 DEF Reconcile, Restore, DropJournal, Inspect
  <1>4. CASE MakeStaging \/ WriteFile \/ VerifyStaging \/ ClearStaging
    BY <1>1, <1>4 DEF MakeStaging, WriteFile, VerifyStaging, ClearStaging
  <1>5. CASE WriteJournal \/ Commit \/ ClearBackup \/ BackupActive
    BY <1>5 DEF WriteJournal, WriteCutShort, Commit, ClearBackup, BackupActive
  <1>6. CASE Activate \/ CommitJournal \/ Unlock
    BY <1>1, <1>6 DEF Activate, CommitJournal, Unlock
  <1>7. CASE RollbackActive \/ RollbackRestore \/ RollbackJournal
    BY <1>1, <1>7 DEF RollbackActive, RollbackRestore, RollbackJournal
  <1>8. CASE Deadline \/ Crash \/ Upgrade \/ CalmDown
    BY <1>8 DEF Deadline, Crash, InFlight, WriteCutShort, Upgrade, CalmDown
  <1>9. CASE UNCHANGED vars
    BY <1>9 DEF vars
  <1>10. QED
    BY <1>2, <1>3, <1>4, <1>5, <1>6, <1>7, <1>8, <1>9 DEF Next, Step

-----------------------------------------------------------------------------
(* The theorems. *)

HIDE DEF Inv, OldOrNew, Located, Older

\* Every reachable state satisfies the inductive invariant.
THEOREM Invariance == Spec => []Inv
  BY InitInv, NextInv, PTL DEF Spec

\* Every variable keeps its type, whatever fails and however often the server
\* is replaced.
THEOREM TypeCorrect == Spec => []TypeOK
  <1>1. Inv => TypeOK
    BY DEF Inv
  <1>2. QED
    BY <1>1, Invariance, PTL

\* At any moment, after any failures, the component in effect on the host is the
\* one the deployment found or the exact package it installs.
THEOREM ComponentWhole == Spec => []OldOrNew
  <1>1. Inv => OldOrNew
    BY DEF Inv
  <1>2. QED
    BY <1>1, Invariance, PTL

\* A deployment that answers install, update or noop has installed the exact
\* package and left neither journal nor staging nor lock.
THEOREM SuccessIsTrue == Spec => []SuccessMeansInstalled
  <1>1. Inv => SuccessMeansInstalled
    BY DEF Inv, Located, SuccessMeansInstalled
  <1>2. QED
    BY <1>1, Invariance, PTL

\* A deployment that answers UnsafeState or VerificationFailed leaves the
\* component it found in effect.
THEOREM RefusalIsSafe == Spec => []RefusalPreserves
  <1>1. Inv => RefusalPreserves
    BY DEF Inv, Located, RefusalPreserves
  <1>2. QED
    BY <1>1, Invariance, PTL

\* No step, of rollback and reconciliation neither, moves or removes an active
\* tree that is not an older or the exact package of the component, or a staging
\* tree with files of other names.
THEOREM ForeignIsUntouched == Spec => ForeignTreeUntouched
  <1>1. Inv /\ [Next]_vars
          => [/\ active # Absent /\ ~Older(active) /\ ~Exact(active) => active' = active
              /\ ~Clearable(staging) => staging' = staging]_vars
    BY ForeignActiveStep, ForeignStagingStep
  <1>2. QED
    BY <1>1, Invariance, PTL DEF Spec, ForeignTreeUntouched

-----------------------------------------------------------------------------
(* DeployTransaction implements ComponentSlot.  The component in effect     *)
(* changes in two actions only: Activate switches it and RollbackActive     *)
(* switches it back.  Every other step within a deployment is a stuttering  *)
(* step of the slot.                                                        *)

HIDE DEF Inv, OldOrNew, Effective, NoJournal, Located, LocReconcile, LocResolve,
        LocStage, LocOlder, LocCommit, LocRollback, LocAnswer, Resolving, Staging,
        Decided, Journaled, Older

\* What an update replaces is an older component, until the answer is given.
Replaced ==
    /\ pc \in {"activate", "commitJournal"} /\ op = "update" => MayReplace(before, target)
    /\ pc \in {"idle", "unlock"} /\ answer = "update" => MayReplace(before, target)

\* All a step within a deployment leaves alone.
SlotStutter ==
    /\ Effective' = Effective
    /\ before' = before /\ target' = target
    /\ pc # "idle" /\ pc' # "idle"

\* Staging, its journal and the removal of older trees do not change what is in
\* effect, and neither does the first rename.
LEMMA ForwardStutters ==
    ASSUME Inv,
           \/ Reconcile \/ Restore \/ DropJournal \/ Inspect
           \/ MakeStaging \/ WriteFile \/ VerifyStaging
           \/ WriteJournal \/ Commit \/ ClearBackup \/ BackupActive \/ CommitJournal
    PROVE  SlotStutter
  <1> USE DEF Inv, TypeOK, Located, SlotStutter, Effective, NoJournal
  <1>1. CASE Reconcile \/ Inspect \/ VerifyStaging \/ Commit
    BY <1>1 DEF Reconcile, Inspect, Begin, VerifyStaging, StageFails, Commit
  <1>2. CASE Restore
    BY <1>2 DEF Restore, LocReconcile
  <1>3. CASE DropJournal
    BY <1>3 DEF DropJournal, LocResolve, Resolving
  <1>4. CASE MakeStaging \/ WriteFile
    BY <1>4 DEF MakeStaging, WriteFile, WriteCutShort, StageFails
  <1>5. CASE WriteJournal
    BY <1>5 DEF WriteJournal, WriteCutShort, TornJournal, LocStage, Staging, Decided
  <1>6. CASE ClearBackup
    BY <1>6 DEF ClearBackup, LocCommit, LocStage, Decided, Journaled
  <1>7. CASE BackupActive
    BY <1>7 DEF BackupActive, LocCommit, LocStage, Decided, Journaled
  <1>8. CASE CommitJournal
    BY <1>8, PackageFacts DEF CommitJournal, LocCommit
  <1>9. QED
    BY <1>1, <1>2, <1>3, <1>4, <1>5, <1>6, <1>7, <1>8

\* Neither do the second rename of a rollback, the removal of its journal, the
\* clearing of staging and a deadline anywhere.
LEMMA BackwardStutters ==
    ASSUME Inv, RollbackRestore \/ RollbackJournal \/ ClearStaging \/ Deadline
    PROVE  SlotStutter
  <1> USE DEF Inv, TypeOK, Located, SlotStutter, Effective, NoJournal
  <1>1. CASE RollbackRestore
    BY <1>1 DEF RollbackRestore, RollbackFails, LocCommit, Journaled
  <1>2. CASE RollbackJournal
    BY <1>2 DEF RollbackJournal, RollbackFails, LocRollback, LocCommit, LocStage,
                Decided, Journaled
  <1>3. CASE ClearStaging
    BY <1>3 DEF ClearStaging, StageFails, RollbackFails
  <1>4. CASE Deadline
    <2>1. CASE UNCHANGED disk
      BY <1>4, <2>1 DEF Deadline
    <2>2. CASE WriteCutShort
      BY <1>4, <2>2 DEF Deadline, WriteCutShort, TornJournal, LocStage, Staging
    <2>3. CASE pc = "commitJournal" /\ Disk(active, staging, backup, NoJournal)
      BY <1>4, <2>3, PackageFacts DEF Deadline, LocCommit
    <2>4. CASE pc = "rollbackJournal" /\ Disk(active, staging, backup, NoJournal)
      BY <1>4, <2>4 DEF Deadline, LocRollback, LocCommit, LocStage, Decided, Journaled
    <2>5. CASE pc = "clearStaging" /\ Disk(active, Shrink(staging), backup, journal)
      BY <1>4, <2>5 DEF Deadline
    <2>6. QED
      BY <1>4, <2>1, <2>2, <2>3, <2>4, <2>5 DEF Deadline, InFlight
  <1>5. QED
    BY <1>1, <1>2, <1>3, <1>4

\* The second rename of a commit is the moment of the switch, also when its answer
\* is lost.
LEMMA ActivateSwitches ==
    ASSUME Inv, Replaced, Activate
    PROVE  SlotStutter \/ Slot!Switch
  <1> USE DEF Inv, TypeOK, Located, Effective
  <1>1. CASE UNCHANGED disk
    BY <1>1 DEF Activate, SlotStutter
  <1>2. CASE Disk(staging, Absent, backup, journal)
    <2>1. pc = "activate" /\ pc' # "idle" /\ before' = before /\ target' = target
      BY DEF Activate
    <2>2. active = Absent /\ staging = Package(target)
      BY <2>1 DEF LocCommit, LocStage
    <2>3. Effective = before
      BY <2>1, <2>2 DEF LocCommit, LocStage, Decided, Journaled
    <2>4. Effective' = Package(target)
      BY <1>2, <2>2, PackageFacts
    <2>5. before = Absent \/ MayReplace(before, target)
      BY <2>1 DEF Replaced, LocStage, Decided
    <2>6. QED
      BY <2>1, <2>3, <2>4, <2>5 DEF Slot!Switch
  <1>3. QED
    BY <1>1, <1>2 DEF Activate

\* Moving the new package out again reverts the switch.
LEMMA RollbackReverts ==
    ASSUME Inv, RollbackActive
    PROVE  SlotStutter \/ Slot!Revert
  <1> USE DEF Inv, TypeOK, Located, Effective
  <1>1. CASE UNCHANGED disk
    BY <1>1 DEF RollbackActive, RollbackFails, SlotStutter
  <1>2. CASE Disk(Absent, active, backup, journal)
    <2>1. pc = "rollbackActive" /\ pc' # "idle" /\ before' = before /\ target' = target
      BY DEF RollbackActive, RollbackFails
    <2>2. Effective' = before
      BY <1>2, <2>1 DEF LocCommit, LocStage, Decided, Journaled
    <2>3. QED
      BY <2>1, <2>2 DEF Slot!Revert
  <1>3. QED
    BY <1>1, <1>2 DEF RollbackActive

\* The end of a deployment: its answer is justified, and its death is silent.
LEMMA EndsSlot ==
    ASSUME Inv, Replaced, Unlock \/ Crash
    PROVE  Slot!End
  <1> USE DEF Inv, TypeOK, Located, Effective
  <1>1. CASE Unlock
    <2>1. /\ pc # "idle" /\ pc' = "idle" /\ Effective' = Effective
          /\ before' = before /\ target' = target /\ answer' \in Answers
      BY <1>1 DEF Unlock, Answers, Errors
    <2>2. answer' = answer \/ answer' = "CleanupIncomplete"
      BY <1>1 DEF Unlock
    <2>3. Slot!Justified(answer')
      BY <1>1, <2>2, PackageFacts DEF Unlock, Slot!Justified, Replaced, LocAnswer, Successes, Exact
    <2>4. QED
      BY <2>1, <2>3 DEF Slot!End
  <1>2. CASE Crash
    <2>1. Effective' = Effective
      BY <1>2 DEF Crash, WriteCutShort, TornJournal, NoJournal, LocStage, Staging
    <2>2. /\ pc # "idle" /\ pc' = "idle" /\ answer' = "none"
          /\ before' = before /\ target' = target
      BY <1>2 DEF Crash
    <2>3. QED
      BY <2>1, <2>2 DEF Slot!End, Slot!Justified, Answers
  <1>3. QED
    BY <1>1, <1>2

\* An update is decided for an older component, which is the one kept in before
\* until the answer; only a new deployment or a new server forgets it.
LEMMA ReplacedStep ==
    ASSUME Inv, Replaced, [Next]_vars
    PROVE  Replaced'
  <1> USE DEF Inv, TypeOK, Located, Replaced, MayReplace, Recognized
  <1>1. CASE Start \/ Refused \/ LeaseExpires \/ Upgrade \/ CalmDown
    BY <1>1 DEF Start, Refused, LeaseExpires, Upgrade, CalmDown
  <1>2. CASE Reconcile \/ Restore \/ DropJournal
    BY <1>2 DEF Reconcile, Restore, DropJournal
  <1>3. CASE Inspect \/ MakeStaging \/ WriteFile \/ VerifyStaging
    BY <1>3 DEF Inspect, Begin, MakeStaging, WriteFile, VerifyStaging, StageFails,
                LocAnswer
  <1>4. CASE WriteJournal \/ Commit \/ ClearBackup
    BY <1>4 DEF WriteJournal, Commit, ClearBackup, LocAnswer
  <1>5. CASE BackupActive
    BY <1>5 DEF BackupActive, LocOlder, Older, LocCommit
  <1>6. CASE Activate \/ CommitJournal
    BY <1>6 DEF Activate, CommitJournal
  <1>7. CASE RollbackActive \/ RollbackRestore \/ RollbackJournal \/ ClearStaging
    BY <1>7 DEF RollbackActive, RollbackRestore, RollbackJournal, ClearStaging,
                RollbackFails, StageFails, LocAnswer, Successes
  <1>8. CASE Unlock \/ Deadline \/ Crash
    BY <1>8 DEF Unlock, Deadline, Crash
  <1>9. CASE UNCHANGED vars
    BY <1>9 DEF vars
  <1>10. QED
    BY <1>1, <1>2, <1>3, <1>4, <1>5, <1>6, <1>7, <1>8, <1>9 DEF Next, Step

\* Every step of the transaction is a step of the slot or none.
LEMMA SlotStep ==
    ASSUME Inv, Replaced, [Next]_vars
    PROVE  [Slot!Next]_(Slot!vars)
  <1>1. ASSUME SlotStutter PROVE UNCHANGED Slot!vars
    BY <1>1 DEF SlotStutter, Slot!vars
  <1>2. CASE \/ Reconcile \/ Restore \/ DropJournal \/ Inspect
             \/ MakeStaging \/ WriteFile \/ VerifyStaging
             \/ WriteJournal \/ Commit \/ ClearBackup \/ BackupActive \/ CommitJournal
    BY <1>1, <1>2, ForwardStutters
  <1>3. CASE RollbackRestore \/ RollbackJournal \/ ClearStaging \/ Deadline
    BY <1>1, <1>3, BackwardStutters
  <1>4. CASE Activate
    BY <1>1, <1>4, ActivateSwitches DEF Slot!Next
  <1>5. CASE RollbackActive
    BY <1>1, <1>5, RollbackReverts DEF Slot!Next
  <1>6. CASE Unlock \/ Crash
    BY <1>6, EndsSlot DEF Slot!Next
  <1>7. CASE Start
    BY <1>7 DEF Start, Effective, Slot!Next, Slot!Begin
  <1>8. CASE Refused
    BY <1>8 DEF Refused, Effective, Slot!Next, Slot!Busy
  <1>9. CASE Upgrade
    BY <1>9 DEF Upgrade, Effective, Slot!Next, Slot!Upgrade
  <1>10. CASE LeaseExpires \/ CalmDown \/ UNCHANGED vars
    BY <1>10 DEF LeaseExpires, CalmDown, vars, Effective, Slot!vars
  <1>11. QED
    BY <1>2, <1>3, <1>4, <1>5, <1>6, <1>7, <1>8, <1>9, <1>10 DEF Next, Step

\* A server starts with the slot as it finds it.
LEMMA SlotInit == Init => Slot!Init /\ Replaced
  <1> SUFFICES ASSUME Init PROVE Slot!Init /\ Replaced
    OBVIOUS
  <1>1. Inv
    BY InitInv
  <1>2. Effective \in Tree
    BY <1>1 DEF Inv, TypeOK, Effective
  <1>3. QED
    BY <1>2 DEF Init, Slot!Init, Replaced

\* The transaction implements the promise: to Home Assistant and to its callers it
\* is one atomic replacement, made or not made, whatever fails on the way.
THEOREM Refinement == Spec => ImplementsSlot
  <1>1. Spec => [](Inv /\ Replaced)
    <2>1. Inv /\ Replaced /\ [Next]_vars => (Inv /\ Replaced)'
      BY NextInv, ReplacedStep
    <2>2. QED
      BY <2>1, InitInv, SlotInit, PTL DEF Spec
  <1>2. Inv /\ Replaced /\ [Next]_vars => [Slot!Next]_(Slot!vars)
    BY SlotStep
  <1>3. QED
    BY <1>1, <1>2, SlotInit, PTL DEF Spec, ImplementsSlot, Slot!Spec

=============================================================================
