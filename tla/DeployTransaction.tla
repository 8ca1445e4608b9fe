------------------------- MODULE DeployTransaction -------------------------
(***************************************************************************)
(* One component deployment at a time, request by request:                 *)
(* run_transaction_with_timeout, run_locked, stage, commit, rollback and   *)
(* reconcile of integrations/home_assistant/deployment.rs.                 *)
(*                                                                         *)
(* The remote directory trees are records: the manifest version, the files *)
(* present and, among these, the files whose bytes are not the published   *)
(* ones.  A file is a number, its place in the sorted order in which       *)
(* packages are written and removed.  Every action is one remote mutation  *)
(* (or one group of reads with the decision taken on them) together with   *)
(* each way it can go wrong: refused by the server, answer lost with or    *)
(* without its effect, corrupted on the way, cut short by the transaction  *)
(* deadline or by the death of the process.                                *)
(*                                                                         *)
(* The remote lock is reduced to free, held and stale; DeployLock models   *)
(* its files and its clock.  What the lock's ownership check can do to one *)
(* mutation (refuse it without effect) is one of the refusals here.        *)
(***************************************************************************)
EXTENDS Naturals

CONSTANTS
    Versions,      \* manifest versions, ordered as semantic versions are
    NumFiles,      \* file names that some package has
    ManifestFile,  \* the place of manifest.json among them
    PackageFiles,  \* PackageFiles[v]: the names in FILES of a server of version v
    Faults         \* the kinds of failure a run explores, see FaultKinds

FaultKinds == {"reject", "lost", "corrupt", "deadline", "crash", "upgrade"}

ASSUME VersionsAssumption == Versions \subseteq Nat \ {0}
ASSUME FilesAssumption == NumFiles \in Nat /\ ManifestFile \in 1..NumFiles
ASSUME PackageAssumption ==
    /\ PackageFiles \in [Versions -> SUBSET (1..NumFiles)]
    /\ \A v \in Versions : ManifestFile \in PackageFiles[v]
ASSUME FaultsAssumption == Faults \subseteq FaultKinds

VARIABLES
    target,     \* PACKAGE_VERSION of the running server
    active,     \* custom_components/smarthome_mcp
    staging,    \* .smarthome_mcp-deploy/staging
    backup,     \* .smarthome_mcp-deploy/backup
    journal,    \* .smarthome_mcp-deploy/journal.json
    lock,       \* .smarthome_mcp-deploy/lock
    pc,         \* the next request of the deployment, "idle" when none runs
    after,      \* where clearing the staging tree returns to
    op,         \* Operation of the running deployment
    answer,     \* what the deployment answers; pending while it runs
    before,     \* history: the component in effect when the last run began
    sound,      \* history: reconcile accepted the state in which that run began
    calm        \* no failure happens any more

disk == <<active, staging, backup, journal>>
locals == <<pc, after, op, answer>>
history == <<before, sound>>
vars == <<target, disk, lock, locals, history, calm>>

-----------------------------------------------------------------------------
(* Trees, journals and what the code asks of them. *)

Files == 1..NumFiles
Tree == [ver : Versions \cup {0}, files : SUBSET Files, bad : SUBSET Files]

\* No directory at the path; version 0 is no package's version.
Absent == [ver |-> 0, files |-> {}, bad |-> {}]

\* The embedded package of a server of version v, byte for byte.
Package(v) == [ver |-> v, files |-> PackageFiles[v], bad |-> {}]

\* installed_manifest: manifest.json is there, parses and names the domain.
Recognized(t) == ManifestFile \in t.files \ t.bad

\* validate_recognized_version: recognized and strictly older.
Older(t) == Recognized(t) /\ t.ver < target

\* verify_exact: the same names, the same bytes.
Exact(t) == t = Package(target)

\* TreePolicy::CurrentPartial: no name that the package of this server does not have.
\* (The subdirectories are those of the files.)
Clearable(t) == t.files \subseteq PackageFiles[target]

NoJournal == [op |-> "none", target |-> 0]
TornJournal == [op |-> "torn", target |-> 0]
Journals == {NoJournal, TornJournal}
              \cup [op : {"install", "update"}, target : Versions]

\* remove_package_tree: the next of its removals, files in order, then the
\* directories.  The emptied subdirectories go with the root in one step.
FirstFile(S) == CHOOSE f \in S : \A g \in S : f <= g

\* Mutant of Shrink: the emptied root directory is left in place.
ShrinkKeepsRoot(t) ==
    LET f == FirstFile(t.files)
    IN  IF t.files = {} THEN t
        ELSE [ver |-> t.ver, files |-> t.files \ {f}, bad |-> t.bad \ {f}]

Shrink(t) ==
    IF t.files = {} THEN Absent
    ELSE LET f == FirstFile(t.files)
         IN  [ver |-> t.ver, files |-> t.files \ {f}, bad |-> t.bad \ {f}]

\* The component a deployment owes its user: the active tree or, between the
\* two renames of an update, the one moved to backup under a journal.
Effective == IF active = Absent /\ journal.op = "update" THEN backup ELSE active

Successes == {"install", "update", "noop"}
Errors == {"UnsafeState", "VerificationFailed", "RollbackFailed", "Timeout",
           "CleanupIncomplete", "CapacityExhausted"}
Answers == {"none"} \cup Successes \cup Errors

Labels == {"idle", "reconcile", "restore", "dropJournal", "inspect", "mkdir",
           "clearStaging", "writeFile", "verifyStaging", "writeJournal",
           "commit", "clearBackup", "backupActive", "activate",
           "commitJournal", "rollbackActive", "rollbackRestore",
           "rollbackJournal", "unlock"}

TypeOK ==
    /\ target \in Versions
    /\ active \in Tree /\ staging \in Tree /\ backup \in Tree
    /\ journal \in Journals
    /\ lock \in {"free", "held", "stale"}
    /\ pc \in Labels
    /\ after \in {"dropJournal", "inspect", "mkdir", "rollbackJournal", "unlock"}
    /\ op \in {"install", "update"}
    /\ answer \in Answers
    /\ before \in Tree /\ sound \in BOOLEAN
    /\ calm \in BOOLEAN

-----------------------------------------------------------------------------
(* What a remote request may come to. *)

Live(kind) == ~calm /\ kind \in Faults

\* map_sftp_error: a status answer means the server did nothing; a request
\* that timed out may have been carried out.
Failures ==
    {f \in [error : {"UnsafeState", "Timeout"}, applied : BOOLEAN] :
        \/ f.error = "UnsafeState" /\ ~f.applied /\ Live("reject")
        \/ f.error = "Timeout" /\ Live("lost")}

Disk(a, s, b, j) == active' = a /\ staging' = s /\ backup' = b /\ journal' = j

\* A mutation that the server can carry out only if can holds (an exclusive
\* create needs a free name, a rename a free destination).
Request(can, a, s, b, j, Ok, Fail(_)) ==
    \/ can /\ Disk(a, s, b, j) /\ Ok
    \/ ~can /\ UNCHANGED disk /\ Fail("UnsafeState")
    \/ \E f \in Failures :
          /\ \/ f.applied /\ can /\ Disk(a, s, b, j)
             \/ ~f.applied /\ UNCHANGED disk
          /\ Fail(f.error)

\* A group of reads that fails.
ReadFails(Fail(_)) == \E f \in Failures : UNCHANGED disk /\ Fail(f.error)

Goto(p) == pc' = p /\ UNCHANGED <<after, op, answer>>
Finish(r) == pc' = "unlock" /\ answer' = r /\ UNCHANGED <<after, op>>
\* The inspection at the head of remove_package_tree, if there is a staging tree.
ClearThen(next) ==
    IF Clearable(staging)
    THEN /\ pc' = IF staging = Absent THEN next ELSE "clearStaging"
         /\ after' = next
         /\ UNCHANGED <<op, answer>>
    ELSE Finish(IF next = "rollbackJournal" THEN "RollbackFailed" ELSE "UnsafeState")

Quiet == UNCHANGED <<target, lock, history, calm>>

\* A write cut short leaves the file created but not complete.
NextFile == FirstFile(PackageFiles[target] \ staging.files)
TornFile == [ver |-> staging.ver, files |-> staging.files \cup {NextFile},
             bad |-> staging.bad \cup {NextFile}]
WriteCutShort ==
    \/ pc = "writeFile" /\ Disk(active, TornFile, backup, journal)
    \/ pc = "writeJournal" /\ Disk(active, staging, backup, TornJournal)

\* What the request under way may yet do when its future is dropped: a write is
\* cut short, a removal goes through.  (Any other request that goes through is
\* the one taken, with the next dropped before it is sent.)
InFlight ==
    \/ WriteCutShort
    \/ /\ pc \in {"commitJournal", "rollbackJournal"}
       /\ Disk(active, staging, backup, NoJournal)
    \/ pc = "clearStaging" /\ Disk(active, Shrink(staging), backup, journal)

\* The row of reconcile's table that the remote state falls into.
Row ==
    LET a == active # Absent
        s == staging # Absent
        b == backup # Absent
        is(o, x, y, z) == journal.op = o /\ a = x /\ s = y /\ b = z
    IN  CASE journal.op # "none" /\ journal.target # target -> "unsafe"
          [] b /\ ~Older(backup)            -> "unsafe"
          [] journal.op = "none"            -> "clean"
          [] \/ is("install", FALSE, TRUE, FALSE)
             \/ is("update", TRUE, TRUE, b) -> "undone"
          [] is("update", FALSE, TRUE, TRUE) -> "halfway"
          [] \/ is("install", TRUE, FALSE, FALSE)
             \/ is("update", TRUE, FALSE, TRUE)
                -> IF Exact(active) THEN "done" ELSE "mismatch"
          [] OTHER                          -> "unsafe"

\* reconcile refuses the remote state: every further deployment of this server
\* version fails until somebody repairs the target by hand.
Wedged == Row \in {"unsafe", "mismatch"} \/ ~Clearable(staging)

-----------------------------------------------------------------------------
(* Starting a deployment: acquire_lock, as far as this module needs it. *)

Start ==
    /\ pc = "idle"
    /\ lock \in {"free", "stale"}
    /\ lock' = "held"
    /\ pc' = "reconcile" /\ answer' = "none"
    /\ before' = Effective /\ sound' = ~Wedged
    /\ UNCHANGED <<target, disk, after, op, calm>>

Refused ==
    /\ pc = "idle" /\ lock = "held"
    /\ answer' = "CapacityExhausted"
    /\ UNCHANGED <<target, disk, lock, pc, after, op, history, calm>>

LeaseExpires ==
    /\ pc = "idle" /\ lock = "held"
    /\ lock' = "stale"
    /\ UNCHANGED <<target, disk, locals, history, calm>>

-----------------------------------------------------------------------------
(* reconcile *)

\* Mutant of Reconcile: an undone transaction is cleared but its journal kept.
ReconcileKeepsJournal ==
    /\ pc = "reconcile"
    /\ UNCHANGED disk
    /\ \/ Row \in {"clean", "undone"} /\ ClearThen("inspect")
       \/ Row = "halfway" /\ Goto("restore")
       \/ Row = "done" /\ Goto("dropJournal")
       \/ Row \in {"unsafe", "mismatch"} /\ Finish("UnsafeState")
    /\ Quiet

\* Mutant of Reconcile: whatever is found in staging is removed.
ReconcileClearsAny ==
    /\ pc = "reconcile"
    /\ UNCHANGED disk
    /\ \/ /\ Row = "clean"
          /\ pc' = IF staging = Absent THEN "inspect" ELSE "clearStaging"
          /\ after' = "inspect" /\ UNCHANGED <<op, answer>>
       \/ Row # "clean" /\ Finish("UnsafeState")
    /\ Quiet

Reconcile ==
    /\ pc = "reconcile"
    /\ \/ UNCHANGED disk /\ Row = "clean" /\ ClearThen("inspect")
       \/ UNCHANGED disk /\ Row = "undone" /\ ClearThen("dropJournal")
       \/ UNCHANGED disk /\ Row = "halfway" /\ Goto("restore")
       \/ UNCHANGED disk /\ Row = "done" /\ Goto("dropJournal")
       \/ UNCHANGED disk /\ Row = "mismatch" /\ Finish("VerificationFailed")
       \/ UNCHANGED disk /\ Row = "unsafe" /\ Finish("UnsafeState")
       \/ ReadFails(Finish)
    /\ Quiet

Restore ==
    /\ pc = "restore"
    /\ Request(active = Absent, backup, staging, Absent, journal,
               ClearThen("dropJournal"), LAMBDA e : Finish("RollbackFailed"))
    /\ Quiet

DropJournal ==
    /\ pc = "dropJournal"
    /\ Request(TRUE, active, staging, backup, NoJournal,
               Goto("inspect"), LAMBDA e : Finish("CleanupIncomplete"))
    /\ Quiet

-----------------------------------------------------------------------------
(* run_locked and stage *)

Begin(o) == pc' = "mkdir" /\ op' = o /\ UNCHANGED <<after, answer>>

\* Mutant of Inspect: any other version is replaced, a newer one too.
InspectDowngrades ==
    /\ pc = "inspect"
    /\ UNCHANGED disk
    /\ \/ active = Absent /\ Begin("install")
       \/ Recognized(active) /\ active.ver # target /\ Begin("update")
       \/ Exact(active) /\ Finish("noop")
       \/ ~Recognized(active) /\ active # Absent /\ Finish("UnsafeState")
       \/ Recognized(active) /\ active.ver = target /\ ~Exact(active)
          /\ Finish("UnsafeState")
    /\ Quiet

Inspect ==
    /\ pc = "inspect"
    /\ UNCHANGED disk
    /\ \/ active = Absent /\ Begin("install")
       \/ Older(active) /\ Begin("update")
       \/ Exact(active) /\ Finish("noop")
       \/ active # Absent /\ ~Older(active) /\ ~Exact(active) /\ Finish("UnsafeState")
       \/ ReadFails(Finish)
    /\ Quiet

\* run_locked's answer to a failed stage: clear staging, keep the error.
StageFails(e) ==
    /\ pc' = IF staging' = Absent THEN "unlock" ELSE "clearStaging"
    /\ after' = "unlock" /\ answer' = e
    /\ UNCHANGED op

\* stage: an old staging tree is cleared first, then the directories made.
MakeStaging ==
    /\ pc = "mkdir"
    /\ IF staging # Absent THEN UNCHANGED disk /\ ClearThen("mkdir")
       ELSE Request(TRUE, active, [Absent EXCEPT !.ver = target], backup, journal,
                    Goto("writeFile"), StageFails)
    /\ Quiet

WriteFile ==
    /\ pc = "writeFile"
    /\ LET written == [staging EXCEPT !.files = @ \cup {NextFile}]
           next == IF written.files = PackageFiles[target] THEN "verifyStaging" ELSE "writeFile"
       IN  \/ Request(TRUE, active, written, backup, journal, Goto(next), StageFails)
           \/ Live("corrupt") /\ Disk(active, TornFile, backup, journal) /\ Goto(next)
           \/ Live("lost") /\ WriteCutShort /\ StageFails("Timeout")
    /\ Quiet

\* Mutant of VerifyStaging: the staged bytes are not compared.
VerifyStagingNames ==
    /\ pc = "verifyStaging"
    /\ UNCHANGED disk
    /\ staging.files = PackageFiles[target] /\ Goto("writeJournal")
    /\ Quiet

VerifyStaging ==
    /\ pc = "verifyStaging"
    /\ UNCHANGED disk
    /\ \/ Exact(staging) /\ Goto("writeJournal")
       \/ ~Exact(staging) /\ StageFails("VerificationFailed")
       \/ ReadFails(StageFails)
    /\ Quiet

\* Mutant of WriteJournal: the journal names the version that is replaced.
WriteJournalOfActive ==
    /\ pc = "writeJournal"
    /\ Request(journal = NoJournal, active, staging, backup,
               [op |-> op, target |-> active.ver], Goto("commit"), Finish)
    /\ Quiet

\* write_journal reads the journal back; that may fail, or show other bytes.
WriteJournal ==
    /\ pc = "writeJournal"
    /\ LET written == [op |-> op, target |-> target]
       IN  \/ Request(journal = NoJournal, active, staging, backup, written,
                      Goto("commit"), Finish)
           \/ /\ Live("reject") /\ Disk(active, staging, backup, written)
              /\ Finish("UnsafeState")
           \/ Live("corrupt") /\ WriteCutShort /\ Finish("UnsafeState")
           \/ Live("lost") /\ WriteCutShort /\ Finish("Timeout")
    /\ Quiet

-----------------------------------------------------------------------------
(* commit and rollback *)

\* The head of commit: an update first makes room for its backup, which must
\* still be a recognized older package.
Commit ==
    /\ pc = "commit"
    /\ UNCHANGED disk
    /\ \/ op = "install" /\ Goto("activate")
       \/ op = "update" /\ backup = Absent /\ Goto("backupActive")
       \/ /\ op = "update" /\ backup # Absent
          /\ IF Older(backup) THEN Goto("clearBackup") ELSE Finish("UnsafeState")
       \/ ReadFails(Finish)
    /\ Quiet

ClearBackup ==
    /\ pc = "clearBackup"
    /\ Request(TRUE, active, staging, Shrink(backup), journal,
               Goto(IF backup.files = {} THEN "backupActive" ELSE "clearBackup"),
               Finish)
    /\ Quiet

BackupActive ==
    /\ pc = "backupActive"
    /\ Request(backup = Absent, Absent, staging, active, journal,
               Goto("activate"), Finish)
    /\ Quiet

Activate ==
    /\ pc = "activate"
    /\ Request(active = Absent, staging, Absent, backup, journal,
               Goto("commitJournal"),
               LAMBDA e : /\ pc' = "rollbackActive" /\ answer' = e
                          /\ UNCHANGED <<after, op>>)
    /\ Quiet

\* Mutants of CommitJournal: a journal that stays is not reported, or is
\* reported as the error of its removal.
CommitJournalIgnored ==
    /\ pc = "commitJournal"
    /\ Request(TRUE, active, staging, backup, NoJournal,
               Finish(op), LAMBDA e : Finish(op))
    /\ Quiet

CommitJournalPlain ==
    /\ pc = "commitJournal"
    /\ Request(TRUE, active, staging, backup, NoJournal, Finish(op), Finish)
    /\ Quiet

CommitJournal ==
    /\ pc = "commitJournal"
    /\ Request(TRUE, active, staging, backup, NoJournal,
               Finish(op), LAMBDA e : Finish("CleanupIncomplete"))
    /\ Quiet

RollbackFails(e) == Finish("RollbackFailed")

RollbackActive ==
    /\ pc = "rollbackActive"
    /\ IF active = Absent
       THEN UNCHANGED disk /\ (Goto("rollbackRestore") \/ ReadFails(RollbackFails))
       ELSE Request(staging = Absent, Absent, active, backup, journal,
                    Goto("rollbackRestore"), RollbackFails)
    /\ Quiet

RollbackRestore ==
    /\ pc = "rollbackRestore"
    /\ IF op = "install"
       THEN UNCHANGED disk /\ (ClearThen("rollbackJournal") \/ ReadFails(RollbackFails))
       ELSE Request(active = Absent /\ Older(backup), backup, staging, Absent,
                    journal, ClearThen("rollbackJournal"), RollbackFails)
    /\ Quiet

RollbackJournal ==
    /\ pc = "rollbackJournal"
    /\ Request(TRUE, active, staging, backup, NoJournal,
               Finish(answer), RollbackFails)
    /\ Quiet

\* remove_package_tree of staging, from wherever it is called.
ClearStaging ==
    /\ pc = "clearStaging"
    /\ Request(TRUE, active, Shrink(staging), backup, journal,
               Goto(IF staging.files = {} THEN after ELSE "clearStaging"),
               LAMBDA e : IF after = "rollbackJournal" THEN RollbackFails(e)
                          ELSE IF after = "mkdir" THEN StageFails(e)
                          ELSE Finish(e))
    /\ Quiet

-----------------------------------------------------------------------------
(* The end of a deployment, wanted or not. *)

\* A lock that cannot be removed overrides any result.
Unlock ==
    /\ pc = "unlock"
    /\ pc' = "idle"
    /\ \/ lock' = "free" /\ UNCHANGED answer
       \/ \E f \in Failures :
             /\ lock' = IF f.applied THEN "free" ELSE "held"
             /\ answer' = "CleanupIncomplete"
    /\ UNCHANGED <<target, disk, after, op, history, calm>>

\* TRANSACTION_TIMEOUT elapses: the future is dropped where it stands.
Deadline ==
    /\ Live("deadline")
    /\ pc \notin {"idle", "unlock"}
    /\ UNCHANGED disk \/ InFlight
    /\ Finish("Timeout")
    /\ Quiet

\* The server process dies; nobody gets an answer and the lock stays.
Crash ==
    /\ Live("crash")
    /\ pc # "idle"
    /\ UNCHANGED disk \/ WriteCutShort
    /\ pc' = "idle" /\ answer' = "none"
    /\ UNCHANGED <<after, op>>
    /\ Quiet

\* Another server image is rolled out.
Upgrade ==
    /\ Live("upgrade")
    /\ pc = "idle"
    /\ target' \in Versions
    /\ answer' = "none" /\ before' = Effective
    /\ UNCHANGED <<disk, lock, pc, after, op, sound, calm>>

CalmDown == ~calm /\ calm' = TRUE /\ UNCHANGED <<target, disk, lock, locals, history>>

-----------------------------------------------------------------------------

\* What a server may find: nothing, something that is not the component, a
\* package of some version, as published or edited, with the backup of an
\* earlier update or none.
Init ==
    /\ target \in Versions
    /\ active \in {Absent}
          \cup {[ver |-> v, files |-> PackageFiles[v] \ m,
                 bad |-> IF edited THEN PackageFiles[v] \ {ManifestFile} ELSE {}] :
                  v \in Versions, m \in {{}, {ManifestFile}}, edited \in BOOLEAN}
    /\ backup \in {Absent} \cup {Package(v) : v \in Versions}
    /\ backup # Absent => active = Absent \/ backup.ver < active.ver
    /\ staging = Absent /\ journal = NoJournal
    /\ lock = "free"
    /\ pc = "idle" /\ after = "inspect" /\ op = "install" /\ answer = "none"
    /\ before = Effective /\ sound = TRUE
    /\ calm = FALSE

Step ==
    \/ Reconcile \/ Restore \/ DropJournal \/ Inspect
    \/ MakeStaging \/ WriteFile \/ VerifyStaging \/ ClearStaging
    \/ WriteJournal \/ Commit \/ ClearBackup \/ BackupActive
    \/ Activate \/ CommitJournal
    \/ RollbackActive \/ RollbackRestore \/ RollbackJournal
    \/ Unlock

Next ==
    \/ Start \/ Refused \/ LeaseExpires
    \/ Step
    \/ Deadline \/ Crash \/ Upgrade \/ CalmDown

Spec == Init /\ [][Next]_vars

\* The task that runs a deployment is polled to its end; callers keep calling
\* and time passes.
FairSpec == Spec /\ WF_vars(Step) /\ WF_vars(Start) /\ WF_vars(LeaseExpires)
                 /\ WF_vars(CalmDown)

-----------------------------------------------------------------------------
(* Properties *)

\* Home Assistant never loads, and a failed deployment never leaves, anything
\* but the component it had before the deployment or the exact new package:
\* through every failure, crash, deadline, rollback and reconciliation the
\* tree in effect is one of these two, whole.
OldOrNew == Effective \in {before, Package(target)}

\* A success answer is true when it is given: the active tree is the exact
\* package, no transaction state is left behind, the lock is free, and an update
\* has kept the component it replaced as the backup.
SuccessMeansInstalled ==
    pc = "idle" /\ answer \in Successes =>
        /\ Exact(active)
        /\ staging = Absent /\ journal = NoJournal
        /\ lock = "free"
        /\ answer = "update" => backup = before
        /\ answer = "noop" => before = active
        /\ answer = "install" => before = Absent

\* An answer that refuses (unsafe state, verification failure) has changed
\* nothing: the component in effect is the one found, even when the refusal
\* came after the journal was written and the commit rolled back.
RefusalPreserves ==
    pc = "idle" /\ answer \in {"UnsafeState", "VerificationFailed"} =>
        Effective = before

\* The component spec: "Unknown or ambiguous state fails closed rather than deleting
\* arbitrary content."  remove_package_tree, the writes and the renames never touch an
\* active tree that the deployer does not recognize or that is newer than its own
\* package, nor a staging tree with names that its package does not have, as a server of
\* another version leaves it.
ForeignTreeUntouched ==
    [][/\ active # Absent /\ ~Older(active) /\ ~Exact(active) => active' = active
       /\ ~Clearable(staging) => staging' = staging]_vars

\* The component in effect is one this server may replace or already has.
Deployable == Effective = Absent \/ Older(Effective) \/ Exact(Effective)

\* Whatever failures and crashes came before, once they stop and the state left
\* behind is one reconcile accepts, calling deploy again ends in success: the
\* stale lock is taken over, the journal is resolved and the package installed.
RetrySucceeds ==
    calm /\ pc = "idle" /\ ~Wedged /\ Deployable ~> answer \in Successes

\* Every deployment ends: no interleaving of failures keeps the clearing,
\* writing or rolling back loops going and the remote lock held by a live task.
DeploymentEnds == pc # "idle" ~> pc = "idle"

\* docs/operations/component-deployment.md, deployment_cleanup_incomplete: "Wait
\* for target stability and invoke deploy again to reconcile."  Here the lock
\* was released, so it is the journal that could not be removed.
CleanupIncompleteReconciles ==
    /\ pc = "idle" /\ answer = "CleanupIncomplete" /\ lock = "free"
    /\ sound /\ before # Absent
    => ~Wedged

\* docs/home-assistant/spec/component-deployment.md: the deadline "leaves
\* journaled state for bounded reconciliation when needed".
DeadlineLeavesReconcilable ==
    /\ pc = "idle" /\ answer = "Timeout"
    /\ sound /\ before # Absent
    /\ journal.op \in {"install", "update"}
    => ~Wedged

=============================================================================
