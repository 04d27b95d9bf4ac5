--------------------------- MODULE ModBatchProofs ---------------------------
(***************************************************************************)
(* Proofs about ModBatch, for every set of names, contents and batches:    *)
(* type correctness, the inductive invariant of the journal protocol, the  *)
(* safety invariants that follow from it, and that the batch install       *)
(* implements AtomicSwap, as long as no pending journal was overlooked.    *)
(***************************************************************************)
EXTENDS ModBatch, TLAPS

USE ConstantsAssumption

-----------------------------------------------------------------------------
(* The type invariant.                                                     *)

(* A first start: no batch, no journal, nothing under way.                 *)
LEMMA TypeInit == Init => TypeOK
<1> SUFFICES ASSUME Init PROVE TypeOK
    OBVIOUS
<1>1. unread \in BOOLEAN /\ ok \in BOOLEAN
    BY Zenon DEF Init
<1> QED BY <1>1 DEF Init, TypeOK, Folder, Journal, NoJournal, NoFiles, Plan, NoPlan

(* Changes by hand leave contents or no file under a name.                 *)
LEMMA TypeEdit ==
    TypeOK /\ (EditFile \/ SetEntry \/ RemoveEntry) => TypeOK'
<1> SUFFICES ASSUME TypeOK, EditFile \/ SetEntry \/ RemoveEntry PROVE TypeOK'
    OBVIOUS
<1>1. CASE EditFile
    BY <1>1 DEF EditFile, TypeOK, Folder, memory
<1>2. CASE SetEntry
    BY <1>2 DEF SetEntry, TypeOK, Folder, memory
<1>3. CASE RemoveEntry
    BY <1>3 DEF RemoveEntry, TypeOK, Folder, memory
<1> QED BY <1>1, <1>2, <1>3

(* Dropping the operation's memory keeps the types.                        *)
LEMMA TypeRest == TypeOK /\ Rest /\ UNCHANGED <<disk, history>> => TypeOK'
BY DEF Rest, TypeOK, NoPlan, Plan, Folder, NoFiles, disk, history

(* Every step of recoverDirectory keeps the types.                         *)
LEMMA TypeRecovery == TypeOK /\ Recovery => TypeOK'
<1> SUFFICES ASSUME TypeOK, Recovery PROVE TypeOK'
    OBVIOUS
<1> USE DEF TypeOK, disk, memory, history
<1>1. CASE SkipBatch
    BY <1>1 DEF SkipBatch, Overlook
<1>2. CASE RollBack
    BY <1>2 DEF RollBack, Goto, Journal
<1>3. CASE Restore
    BY <1>3 DEF Restore, Folder
<1>5. CASE Withdraw
    BY <1>5 DEF Withdraw, Written, Folder
<1>6. CASE Withdrawn
    BY <1>6 DEF Withdrawn, Goto
<1>7. CASE SweepComplete
    BY <1>7 DEF SweepComplete, Goto
<1>8. CASE EraseBackup
    BY <1>8 DEF EraseBackup, Folder
<1>9. CASE EraseJournal
    BY <1>9 DEF EraseJournal, Journal, NoJournal
<1>10. CASE Erased
    BY <1>10 DEF Erased
<1>11. CASE RecoverFails
    BY <1>11, TypeRest DEF RecoverFails
<1>12. CASE Recovered
    BY <1>12, TypeRest DEF Recovered
<1> QED BY <1>1, <1>2, <1>3, <1>5, <1>6, <1>7, <1>8, <1>9, <1>10,
           <1>11, <1>12 DEF Recovery

(* Every step of commitPlan keeps the types.                               *)
LEMMA TypeCommit == TypeOK /\ Commit => TypeOK'
<1> SUFFICES ASSUME TypeOK, Commit PROVE TypeOK'
    OBVIOUS
<1> USE DEF TypeOK, disk, memory, history
<1>1. CASE Verify
    BY <1>1 DEF Verify, Goto, Plan
<1>2. CASE Refuse
    BY <1>2, TypeRest DEF Refuse
<1>3. CASE BackUp
    BY <1>3 DEF BackUp, Folder
<1>4. CASE BackUpFails
    BY <1>4 DEF BackUpFails, Rest, NoPlan, Plan, Folder, NoFiles
<1>5. CASE WriteJournal
    BY <1>5 DEF WriteJournal, Goto, Journal, Plan, Targets
<1>6. CASE WriteTarget
    BY <1>6 DEF WriteTarget, Plan, Folder
<1>8. CASE RemoveOld
    BY <1>8 DEF RemoveOld, Replaced, Folder
<1>9. CASE Complete
    BY <1>9 DEF Complete, CallRecover, Overlook, Journal, CompleteJournal
<1>10. CASE CommitFails
    BY <1>10 DEF CommitFails, CallRecover, Overlook
<1> QED BY <1>1, <1>2, <1>3, <1>4, <1>5, <1>6, <1>8, <1>9, <1>10
        DEF Commit

(* Every step of the system keeps the types.                               *)
LEMMA TypeStep == TypeOK /\ [Next]_vars => TypeOK'
<1> SUFFICES ASSUME TypeOK, [Next]_vars PROVE TypeOK'
    OBVIOUS
<1>1. CASE EditFile \/ SetEntry \/ RemoveEntry
    BY <1>1, TypeEdit
<1>2. CASE EntriesInDirectory
    BY <1>2 DEF EntriesInDirectory, CallRecover, Overlook, TypeOK, disk
<1>3. CASE StartDependencyOperation
    BY <1>3 DEF StartDependencyOperation, TypeOK, disk, Plan, Folder, history
<1>4. CASE FinishWithError
    BY <1>4, TypeRest DEF FinishWithError
<1>5. CASE CommitPlan
    BY <1>5 DEF CommitPlan, CallRecover, Overlook, TypeOK, disk
<1>6. CASE Recovery
    BY <1>6, TypeRecovery
<1>7. CASE Commit
    BY <1>7, TypeCommit
<1>8. CASE Crash
    BY <1>8, TypeRest DEF Crash
<1>9. CASE UNCHANGED vars
    BY <1>9 DEF vars, disk, memory, history, TypeOK
<1> QED BY <1>1, <1>2, <1>3, <1>4, <1>5, <1>6, <1>7, <1>8, <1>9 DEF Next

(* Every variable of the batch install keeps its type, and a batch is named *)
(* in every step that handles one, for all constants.                      *)
THEOREM TypeCorrect == Spec => []TypeOK
<1>1. Init => TypeOK
    BY TypeInit
<1>2. TypeOK /\ [Next]_vars => TypeOK'
    BY TypeStep
<1> QED BY <1>1, <1>2, PTL DEF Spec

-----------------------------------------------------------------------------
(* The journal protocol.                                                   *)

(* Every name batch b covers is as a rollback of b leaves it.              *)
Back(b) ==
    /\ \A n \in journal[b].previous : backup[b][n] \in {None, dir[n]}
    /\ \A n \in journal[b].targets \ journal[b].previous : dir[n] = None

(* Every file batch b has to restore is in its backup.                     *)
Intact(b) == \A n \in journal[b].previous : backup[b][n] # None

Recovering == pc \in {"recover", "restore", "erase"}

(* A plan replaces files it has seen, and has targets.                     *)
PlanInv ==
    pc \in {"download", "verify", "backup", "write"} \/ after = "commit" =>
        /\ Targets(plan) # {}
        /\ plan.previous = {n \in Names : plan.seen[n] # None}

(* The batch at hand, whatever a recovery has overlooked: journals are     *)
(* files of batch directories, a rollback is one of a pending batch, a new *)
(* batch has no journal, and the commit writes under its own.              *)
HandInv ==
    /\ Journalled \subseteq dirs
    /\ pc = "restore" => cur \in Pending /\ left \subseteq journal[cur].previous
    /\ pc = "backup" => cur \in dirs \ Journalled
    /\ pc = "write" =>
          /\ journal[cur] = [state |-> "pending", previous |-> plan.previous,
                             targets |-> Targets(plan)]
          /\ left \subseteq Targets(plan)

(* At most one journal is pending, and it can be rolled back or has been.  *)
Single == \A b, c \in Pending : b = c

DiskInv ==
    /\ Single
    /\ \A b \in Pending : Intact(b) \/ Back(b)

(* The recovery before a commit has still to look at every pending         *)
(* journal, and a rollback has done to its batch what its step says. After *)
(* a successful commit nothing is pending.                                 *)
RecoverInv ==
    /\ Recovering /\ after = "commit" => Pending \subseteq todo
    /\ Recovering /\ after = "post" /\ ok => Pending = {} /\ Installed
    /\ pc = "restore" =>
          \A n \in journal[cur].previous \ left :
                backup[cur][n] # None /\ dir[n] = backup[cur][n]
    /\ pc = "erase" /\ cur \in Pending => Back(cur)

(* The commit runs on a recovered folder, backs up before it journals, and *)
(* has written the targets that are not left to do.                        *)
CommitInv ==
    /\ pc \in {"verify", "backup"} => Pending = {}
    /\ pc = "backup" =>
          /\ left \subseteq plan.previous
          /\ \A n \in plan.previous : dir[n] = plan.seen[n]
          /\ \A n \in plan.previous \ left : backup[cur][n] = dir[n]
          /\ \A n \in Targets(plan) \ plan.previous : dir[n] = None
    /\ pc = "write" =>
          /\ Pending = {cur}
          /\ \A n \in plan.previous : backup[cur][n] = plan.seen[n]
          /\ \A n \in Targets(plan) \ left : dir[n] = plan.targets[n]

(* The inductive invariant: types, plan and batch at hand always; the      *)
(* protocol as long as no commit has begun over an overlooked journal.     *)
Protocol == DiskInv /\ RecoverInv /\ CommitInv
IInv ==
    /\ TypeOK /\ PlanInv /\ HandInv
    /\ unread \/ Protocol

(* The inductive invariant holds on a first start.                         *)
LEMMA InvInit == Init => IInv
BY TypeInit DEF Init, IInv, Protocol, DiskInv, Single, PlanInv, HandInv, RecoverInv, CommitInv,
    Journalled, Pending, Recovering, NoJournal

(* Once a commit has begun over an overlooked journal, that stays known.   *)
LEMMA UnreadStays == TypeOK /\ [Next]_vars => (unread => unread')
BY DEF Next, Recovery, Commit, CallRecover, Overlook, history, vars,
    EditFile, SetEntry, RemoveEntry, EntriesInDirectory, StartDependencyOperation, FinishWithError, CommitPlan, SkipBatch,
    RollBack, Restore, Withdraw, Withdrawn, SweepComplete, EraseBackup, EraseJournal, Erased, RecoverFails, Recovered,
    Verify, Refuse, BackUp, BackUpFails, WriteJournal, WriteTarget, RemoveOld, Complete, CommitFails, Crash, TypeOK

(* No step breaks what holds of the plan and of the batch at hand.         *)
LEMMA HandStep == TypeOK /\ PlanInv /\ HandInv /\ [Next]_vars => PlanInv' /\ HandInv'
<1> SUFFICES ASSUME TypeOK, PlanInv, HandInv, [Next]_vars PROVE PlanInv' /\ HandInv'
    OBVIOUS
<1>0. TypeOK'
    BY TypeStep
<1> USE <1>0 DEF PlanInv, HandInv, Journalled, Pending, Targets,
    disk, memory, history, TypeOK, Folder, Journal, Plan
<1>1. CASE EditFile
    BY <1>1 DEF EditFile
<1>2. CASE SetEntry
    BY <1>2 DEF SetEntry
<1>3. CASE RemoveEntry
    BY <1>3 DEF RemoveEntry
<1>4. CASE EntriesInDirectory
    BY <1>4 DEF EntriesInDirectory, CallRecover, Overlook
<1>5. CASE StartDependencyOperation
    BY <1>5 DEF StartDependencyOperation, NoFiles
<1>6. CASE FinishWithError
    BY <1>6 DEF FinishWithError, Rest
<1>7. CASE CommitPlan
    BY <1>7 DEF CommitPlan, CallRecover, Overlook
<1>8. CASE SkipBatch
    BY <1>8 DEF SkipBatch, Overlook
<1>9. CASE RollBack
    BY <1>9 DEF RollBack, Goto
<1>10. CASE Restore
    BY <1>10 DEF Restore
<1>11. CASE Withdraw
    BY <1>11 DEF Withdraw, Written
<1>12. CASE Withdrawn
    BY <1>12 DEF Withdrawn, Written, Goto
<1>13. CASE SweepComplete
    BY <1>13 DEF SweepComplete, Goto
<1>14. CASE EraseBackup
    BY <1>14 DEF EraseBackup
<1>15. CASE EraseJournal
    BY <1>15 DEF EraseJournal, NoJournal
<1>16. CASE Erased
    BY <1>16 DEF Erased
<1>17. CASE RecoverFails
    BY <1>17 DEF RecoverFails, Rest
<1>18. CASE Recovered
    BY <1>18 DEF Recovered, Rest
<1>19. CASE Verify
    BY <1>19 DEF Verify, Verified, Goto
<1>20. CASE Refuse
    BY <1>20 DEF Refuse, Rest
<1>21. CASE BackUp
    BY <1>21 DEF BackUp
<1>22. CASE BackUpFails
    BY <1>22 DEF BackUpFails, Rest
<1>23. CASE WriteJournal
    BY <1>23 DEF WriteJournal, Goto
<1>24. CASE WriteTarget
    BY <1>24 DEF WriteTarget
<1>25. CASE RemoveOld
    BY <1>25 DEF RemoveOld, Replaced
<1>26. CASE Complete
    BY <1>26 DEF Complete, Replaced, CallRecover, Overlook, CompleteJournal
<1>27. CASE CommitFails
    BY <1>27 DEF CommitFails, CallRecover, Overlook
<1>28. CASE Crash
    BY <1>28 DEF Crash, Rest
<1>29. CASE UNCHANGED vars
    BY <1>29 DEF vars
<1> QED BY <1>1, <1>2, <1>3, <1>4, <1>5, <1>6, <1>7, <1>8, <1>9, <1>10,
           <1>11, <1>12, <1>13, <1>14, <1>15, <1>16, <1>17, <1>18, <1>19, <1>20,
           <1>21, <1>22, <1>23, <1>24, <1>25, <1>26, <1>27, <1>28, <1>29
        DEF Next, Recovery, Commit

(* No step breaks the protocol, unless it begins a commit over an          *)
(* overlooked journal.                                                     *)
LEMMA ProtocolStep ==
    ASSUME TypeOK, PlanInv, HandInv, Protocol, [Next]_vars, ~unread'
    PROVE Protocol'
<1>0. TypeOK'
    BY TypeStep
<1> USE <1>0 DEF PlanInv, HandInv, Protocol, DiskInv, Single, RecoverInv, CommitInv, Journalled,
    Pending, Intact, Back, Recovering, Installed, Targets,
    disk, memory, history, TypeOK, Folder, Journal, Plan
<1>1. CASE EditFile
    BY <1>1 DEF EditFile, Covered, Covers
<1>2. CASE SetEntry
    <2>1. PICK n \in Names \ Covered, m \in Names \ Covered :
              dir' = [dir EXCEPT ![m] = dir[n], ![n] = None]
        BY <1>2 DEF SetEntry
    <2>2. \A x \in Covered : dir'[x] = dir[x]
        BY <2>1 DEF Covered, Covers
    <2>3. ASSUME NEW b \in Pending, Back(b) PROVE Back(b)'
        <3>1. \A x \in Covers(b) : x \in Covered
            BY DEF Covered
        <3>2. \A x \in Covers(b) : dir'[x] = dir[x]
            BY <3>1, <2>2
        <3>3. journal' = journal /\ backup' = backup
            BY <1>2 DEF SetEntry
        <3> QED BY <2>3, <3>2, <3>3 DEF Covers
    <2>4. pc = "idle" /\ UNCHANGED <<dirs, journal, backup, memory>>
        BY <1>2 DEF SetEntry
    <2> QED BY <2>3, <2>4
<1>3. CASE RemoveEntry
    BY <1>3 DEF RemoveEntry, Covered, Covers
<1>4. CASE EntriesInDirectory
    BY <1>4 DEF EntriesInDirectory, CallRecover, Overlook
<1>5. CASE StartDependencyOperation
    BY <1>5 DEF StartDependencyOperation, NoFiles
<1>6. CASE FinishWithError
    BY <1>6 DEF FinishWithError, Rest
<1>7. CASE CommitPlan
    <2>1. Pending \cap (dirs \ todo') = {}
        BY <1>7, Zenon DEF CommitPlan, CallRecover, Overlook
    <2> QED BY <1>7, <2>1 DEF CommitPlan, CallRecover
<1>8. CASE SkipBatch
    <2>1. PICK b \in todo : todo' = todo \ {b} /\ Overlook(after, {b})
        BY <1>8 DEF SkipBatch
    <2>2. after = "commit" => Pending \cap {b} = {}
        BY <2>1, Zenon DEF Overlook
    <2> QED BY <1>8, <2>1, <2>2 DEF SkipBatch
<1>9. CASE RollBack
    BY <1>9 DEF RollBack, Goto
<1>10. CASE Restore
    BY <1>10 DEF Restore
<1>11. CASE Withdraw
    BY <1>11 DEF Withdraw, Written
<1>12. CASE Withdrawn
    BY <1>12 DEF Withdrawn, Written, Goto
<1>13. CASE SweepComplete
    BY <1>13 DEF SweepComplete, Goto
<1>14. CASE EraseBackup
    BY <1>14 DEF EraseBackup
<1>15. CASE EraseJournal
    BY <1>15 DEF EraseJournal, NoJournal
<1>16. CASE Erased
    BY <1>16 DEF Erased
<1>17. CASE RecoverFails
    BY <1>17 DEF RecoverFails, Rest
<1>18. CASE Recovered
    BY <1>18 DEF Recovered, Rest
<1>19. CASE Verify
    BY <1>19 DEF Verify, Verified, Goto
<1>20. CASE Refuse
    BY <1>20 DEF Refuse, Rest
<1>21. CASE BackUp
    BY <1>21 DEF BackUp
<1>22. CASE BackUpFails
    BY <1>22 DEF BackUpFails, Rest
<1>23. CASE WriteJournal
    BY <1>23 DEF WriteJournal, Goto
<1>24. CASE WriteTarget
    BY <1>24 DEF WriteTarget
<1>25. CASE RemoveOld
    BY <1>25 DEF RemoveOld, Replaced
<1>26. CASE Complete
    BY <1>26 DEF Complete, Replaced, CallRecover, Overlook, CompleteJournal
<1>27. CASE CommitFails
    BY <1>27 DEF CommitFails, CallRecover, Overlook
<1>28. CASE Crash
    BY <1>28 DEF Crash, Rest
<1>29. CASE UNCHANGED vars
    BY <1>29 DEF vars
<1> HIDE DEF Protocol, DiskInv, RecoverInv, CommitInv, TypeOK
<1> QED BY <1>1, <1>2, <1>3, <1>4, <1>5, <1>6, <1>7, <1>8, <1>9, <1>10,
           <1>11, <1>12, <1>13, <1>14, <1>15, <1>16, <1>17, <1>18, <1>19, <1>20,
           <1>21, <1>22, <1>23, <1>24, <1>25, <1>26, <1>27, <1>28, <1>29
        DEF Next, Recovery, Commit

(* No step breaks the inductive invariant.                                 *)
LEMMA InvStep == IInv /\ [Next]_vars => IInv'
<1> SUFFICES ASSUME IInv, [Next]_vars PROVE IInv'
    OBVIOUS
<1>1. TypeOK' /\ PlanInv' /\ HandInv'
    BY TypeStep, HandStep DEF IInv
<1>2. CASE ~unread'
    <2>1. ~unread
        BY <1>2, UnreadStays DEF IInv
    <2> QED BY <1>1, <1>2, <2>1, ProtocolStep DEF IInv
<1>3. CASE unread'
    BY <1>1, <1>3 DEF IInv
<1> QED BY <1>2, <1>3

(* The inductive invariant holds in every reachable state, whatever fails  *)
(* and wherever the app is killed: what it says of the batch at hand even  *)
(* after a commit over an overlooked journal, the protocol until then.     *)
THEOREM InvCorrect == Spec => []IInv
BY InvInit, InvStep, PTL DEF Spec

(* Two journals are pending only after a commit that began over one its    *)
(* recovery overlooked; no other failure and no kill leads there.          *)
THEOREM OnePendingCorrect == Spec => []OnePending
<1>1. IInv => OnePending
    BY DEF IInv, Protocol, DiskInv, Single, OnePending
<1> QED BY <1>1, InvCorrect, PTL

(* Once every replaced file is back and every new target gone, the         *)
(* folder is what a rollback leaves.                                       *)
LEMMA BackIsRolledBack ==
    ASSUME TypeOK, NEW b \in BatchId, Back(b)
    PROVE dir = RolledBack(b)
<1>1. \A n \in Names : dir[n] = RolledBack(b)[n]
    BY DEF Back, RolledBack
<1> QED BY <1>1 DEF TypeOK, Folder, RolledBack

(* Until a rollback is through, every file it has to restore is in the     *)
(* backup of its batch, unless an overlooked batch was installed over.     *)
THEOREM RestorableCorrect == Spec => []Restorable
<1>1. IInv => Restorable
    BY BackIsRolledBack DEF IInv, Protocol, DiskInv, Restorable, Intact, Pending
<1> QED BY <1>1, InvCorrect, PTL

(* commitPlan returns YES only when the plan is installed, unless a batch  *)
(* overlooked by its first recovery was rolled back by its last one.       *)
THEOREM SuccessCorrect == Spec => []SuccessIsInstalled
<1>1. IInv => SuccessIsInstalled
    BY DEF IInv, Protocol, RecoverInv, Recovering, SuccessIsInstalled
<1> QED BY <1>1, InvCorrect, PTL

-----------------------------------------------------------------------------
(* A step that is no edit of the user changes only files that a journal on *)
(* disk names.                                                             *)
LEMMA WriteAheadStep ==
    IInv /\ [Next]_vars =>
        (edits' = edits => \A n \in Names : dir'[n] # dir[n] => n \in Covered)
<1> SUFFICES ASSUME IInv, [Next]_vars, edits' = edits,
                    NEW n \in Names, dir'[n] # dir[n]
             PROVE n \in Covered
    OBVIOUS
<1>0. TypeOK
    BY DEF IInv
<1>1. CASE EditFile \/ SetEntry \/ RemoveEntry
    BY <1>1, <1>0 DEF EditFile, SetEntry, RemoveEntry, TypeOK
<1>2. CASE Restore
    BY <1>2, <1>0 DEF Restore, IInv, HandInv, Covered, Covers, TypeOK, Folder
<1>3. CASE Withdraw
    BY <1>3, <1>0 DEF Withdraw, Written, IInv, HandInv, Covered, Covers, TypeOK, Folder
<1>4. CASE WriteTarget
    <2>1. cur \in Pending /\ left \subseteq journal[cur].targets
        BY <1>4, <1>0 DEF WriteTarget, IInv, HandInv, Pending, TypeOK
    <2>2. n \in left
        BY <1>4, <1>0 DEF WriteTarget, TypeOK, Folder
    <2> QED BY <2>1, <2>2 DEF Covered, Covers
<1>5. CASE RemoveOld
    <2>1. cur \in Pending /\ plan.previous \subseteq journal[cur].previous
        BY <1>5, <1>0 DEF RemoveOld, IInv, HandInv, Pending, TypeOK
    <2>2. n \in plan.previous
        BY <1>5, <1>0 DEF RemoveOld, Replaced, TypeOK, Folder
    <2> QED BY <2>1, <2>2 DEF Covered, Covers
<1>6. CASE dir' = dir
    BY <1>6
<1> QED
    BY <1>1, <1>2, <1>3, <1>4, <1>5, <1>6
    DEF Next, Recovery, Commit, EntriesInDirectory, StartDependencyOperation,
        FinishWithError, CommitPlan, SkipBatch, RollBack, Withdrawn, SweepComplete,
        EraseBackup, EraseJournal, Erased, RecoverFails, Recovered, Verify, Refuse,
        BackUp, BackUpFails, WriteJournal, Complete, CommitFails, Crash, vars, disk

(* No step of the app changes a file of the mods folder that a journal on  *)
(* disk does not already name, whatever a recovery has overlooked.         *)
THEOREM WriteAheadCorrect == Spec => WriteAhead
<1>1. IInv /\ [Next]_vars => [edits' = edits =>
          \A n \in Names : dir'[n] # dir[n] => n \in Covered]_vars
    BY WriteAheadStep
<1> QED BY <1>1, InvCorrect, PTL DEF Spec, WriteAhead

-----------------------------------------------------------------------------
(* The states in which the protocol holds.                                 *)
Sound == TypeOK /\ PlanInv /\ HandInv /\ Protocol

(* The batch install implements AtomicSwap. Without a journal the mods are *)
(* those of the folder.                                                    *)
LEMMA ModsOfFolder == Pending = {} => Mods = dir
BY DEF Mods

(* Under a pending journal they are what its rollback leaves.              *)
LEMMA ModsOfPending ==
    ASSUME Single, NEW b \in Pending
    PROVE Mods = RolledBack(b)
<1>1. \A c \in Pending : c = b
    BY DEF Single
<1> QED BY <1>1 DEF Mods

(* The player's files are files of a folder.                               *)
LEMMA ModsType == TypeOK /\ Single => Mods \in Folder
<1> SUFFICES ASSUME TypeOK, Single PROVE Mods \in Folder
    OBVIOUS
<1>1. CASE Pending = {}
    BY <1>1, ModsOfFolder DEF TypeOK
<1>2. ASSUME NEW b \in Pending PROVE Mods \in Folder
    <2>1. b \in BatchId
        BY DEF Pending
    <2>2. RolledBack(b) \in Folder
        BY <2>1 DEF RolledBack, TypeOK, Folder
    <2> QED BY <2>2, ModsOfPending
<1> QED BY <1>1, <1>2

(* A step under which no pending journal comes or goes, and which leaves   *)
(* what a rollback would leave, does not change the player's files.        *)
LEMMA ModsKept ==
    ASSUME Single, Single', Pending' = Pending,
           Pending = {} => dir' = dir,
           \A b \in Pending : RolledBack(b)' = RolledBack(b)
    PROVE Mods' = Mods
<1>1. CASE Pending = {}
    BY <1>1 DEF Mods
<1>2. ASSUME NEW b \in Pending PROVE Mods' = Mods
    <2>1. Mods = RolledBack(b)
        BY ModsOfPending
    <2>2. (\A c \in Pending : c = b)'
        BY DEF Single
    <2>3. Mods' = RolledBack(b)'
        BY <2>2 DEF Mods
    <2> QED BY <2>1, <2>3
<1> QED BY <1>1, <1>2

(* No request, in the words of AtomicSwap and of ModBatch.                 *)
LEMMA NotPending == Swap!NoRequest = [replaces |-> NoFiles, targets |-> NoFiles]
BY DEF Swap!NoRequest, Swap!NoFiles, NoFiles

(* Outside of a commit's writing there is no request.                      *)
LEMMA RequestOfRest ==
    pc \notin {"backup", "write"} => Request = Swap!NoRequest
BY NotPending DEF Request

(* A commit that backs up or writes carries out its plan.                  *)
LEMMA RequestOfCommit ==
    ASSUME Sound, pc \in {"backup", "write"}
    PROVE /\ Request = [replaces |-> plan.seen, targets |-> plan.targets]
          /\ Request \in Swap!Request
          /\ Swap!Asked(Request) = Targets(plan)
          /\ Request # Swap!NoRequest
<1>1. Request = [replaces |-> plan.seen, targets |-> plan.targets]
    BY DEF Request
<1>2. plan \in Plan
    BY DEF Sound, TypeOK
<1>3. Request \in Swap!Request
    BY <1>1, <1>2 DEF Plan, Folder, Swap!Request, Swap!Folder
<1>4. Swap!Asked(Request) = Targets(plan)
    BY <1>1 DEF Swap!Asked, Targets
<1>5. Targets(plan) # {}
    BY DEF Sound, PlanInv
<1>6. Request # Swap!NoRequest
    BY <1>1, <1>5 DEF Swap!NoRequest, Swap!NoFiles, Targets
<1> QED BY <1>1, <1>3, <1>4, <1>6

(* A first start is an initial state of AtomicSwap.                        *)
LEMMA SwapInit == Init => Swap!Init
<1> SUFFICES ASSUME Init PROVE Swap!Init
    OBVIOUS
<1>1. Pending = {}
    BY DEF Init, Pending, NoJournal
<1>2. Mods = dir
    BY <1>1, ModsOfFolder
<1>3. Request = Swap!NoRequest
    BY RequestOfRest DEF Init
<1> QED BY <1>2, <1>3 DEF Init, Swap!Init, Swap!Folder, Folder

(* A step that leaves the disk alone keeps the player's files.             *)
LEMMA ModsOfSameDisk ==
    ASSUME Single, Single', UNCHANGED disk
    PROVE Mods' = Mods
<1>1. Pending' = Pending
    BY DEF Pending, disk
<1>2. \A b \in Pending : RolledBack(b)' = RolledBack(b)
    BY DEF RolledBack, disk
<1> QED BY <1>1, <1>2, ModsKept DEF disk

(* Changes by hand are the edits of AtomicSwap.                            *)
LEMMA SwapEdit ==
    ASSUME Sound, Sound', EditFile \/ SetEntry \/ RemoveEntry
    PROVE Swap!Edit
<1>1. pc = "idle" \/ pc = "download"
    BY DEF EditFile, SetEntry, RemoveEntry
<1>2. pc' = pc
    BY DEF EditFile, SetEntry, RemoveEntry, memory
<1>3. Request = Swap!NoRequest /\ Request' = Request
    <2>1. (pc \notin {"backup", "write"} => Request = Swap!NoRequest)'
        BY RequestOfRest, PTL
    <2>2. Swap!NoRequest' = Swap!NoRequest
        BY DEF Swap!NoRequest
    <2> QED BY <1>1, <1>2, <2>1, <2>2, RequestOfRest
<1>4. Mods' \in Swap!Folder
    <2>1. (TypeOK /\ Single)'
        BY DEF Sound, Protocol, DiskInv
    <2>2. (Mods \in Folder)'
        BY <2>1, ModsType, PTL
    <2> QED BY <2>2 DEF Folder, Swap!Folder
<1>5. edits' = edits + 1
    BY DEF EditFile, SetEntry, RemoveEntry
<1> QED BY <1>3, <1>4, <1>5 DEF Swap!Edit

(* Recovery never changes the player's files: it restores them.            *)
LEMMA ModsOfRecovery ==
    ASSUME Sound, Sound', Recovery
    PROVE Mods' = Mods
<1> USE DEF Sound, Protocol, DiskInv
<1>0. TypeOK /\ Single /\ Single'
    OBVIOUS
<1>1. CASE UNCHANGED disk
    BY <1>0, <1>1, ModsOfSameDisk
<1>2. CASE Restore
    <2>1. cur \in Pending /\ left \subseteq journal[cur].previous /\ cur \in BatchId
        BY <1>2 DEF Restore, HandInv, Pending
    <2>2. Pending' = Pending
        BY <1>2 DEF Restore, Pending
    <2>3. RolledBack(cur)' = RolledBack(cur)
        BY <1>0, <1>2, <2>1 DEF Restore, RolledBack, TypeOK, Folder
    <2>4. \A b \in Pending : b = cur
        BY <2>1 DEF Single
    <2>5. \A b \in Pending : RolledBack(b)' = RolledBack(b)
        <3> SUFFICES ASSUME NEW b \in Pending PROVE RolledBack(b)' = RolledBack(b)
            OBVIOUS
        <3>1. b = cur /\ cur' = cur
            BY <2>4, <1>2 DEF Restore
        <3> QED BY <3>1, <2>3
    <2> QED BY <1>0, <2>1, <2>2, <2>5, ModsKept
<1>3. CASE Withdraw
    <2>1. cur \in Pending /\ cur \in BatchId
        BY <1>3 DEF Withdraw, HandInv, Pending
    <2>2. Pending' = Pending
        BY <1>3 DEF Withdraw, Pending
    <2>3. RolledBack(cur)' = RolledBack(cur)
        BY <1>0, <1>3, <2>1 DEF Withdraw, Written, RolledBack, TypeOK, Folder, memory
    <2>4. \A b \in Pending : b = cur
        BY <2>1 DEF Single
    <2>5. \A b \in Pending : RolledBack(b)' = RolledBack(b)
        <3> SUFFICES ASSUME NEW b \in Pending PROVE RolledBack(b)' = RolledBack(b)
            OBVIOUS
        <3>1. b = cur /\ cur' = cur
            BY <2>4, <1>3 DEF Withdraw, memory
        <3> QED BY <3>1, <2>3
    <2> QED BY <1>0, <2>1, <2>2, <2>5, ModsKept
<1>4. CASE EraseBackup
    <2>1. Pending' = Pending /\ dir' = dir
        BY <1>4 DEF EraseBackup, Pending
    <2>2. ASSUME NEW b \in Pending PROVE RolledBack(b)' = RolledBack(b)
        <3>0. b \in BatchId /\ cur \in BatchId
            BY <1>0, <1>4 DEF EraseBackup, TypeOK, Pending
        <3>1. b # cur => backup'[b] = backup[b]
            BY <1>0, <1>4, <3>0 DEF EraseBackup, TypeOK
        <3>2. b # cur => RolledBack(b)' = RolledBack(b)
            BY <1>4, <3>1 DEF EraseBackup, RolledBack
        <3>3. CASE b = cur
            <4>1. Back(b)
                BY <3>3, <1>4 DEF EraseBackup, RecoverInv
            <4>2. Back(b)'
                <5>1. (pc = "erase" /\ cur \in Pending => Back(cur))'
                    BY DEF RecoverInv
                <5>2. pc' = "erase" /\ cur' = cur
                    BY <1>4 DEF EraseBackup, memory
                <5> QED BY <5>1, <5>2, <2>1, <3>3
            <4>3. dir = RolledBack(b)
                BY <1>0, <3>0, <4>1, BackIsRolledBack
            <4>4. \A n \in Names : dir'[n] = RolledBack(b)'[n]
                BY <4>2 DEF Back, RolledBack
            <4>5. dir' = RolledBack(b)'
                BY <4>4, <2>1, <1>0 DEF RolledBack, TypeOK, Folder
            <4> QED BY <4>3, <4>5, <2>1
        <3> QED BY <3>2, <3>3
    <2> QED BY <1>0, <2>1, <2>2, ModsKept
<1>5. CASE EraseJournal
    <2>1. cur \in BatchId /\ dir' = dir /\ Pending' = Pending \ {cur}
        BY <1>0, <1>5 DEF EraseJournal, TypeOK, Pending, NoJournal
    <2>2. CASE cur \in Pending
        <3>1. Pending' = {}
            BY <1>0, <2>1, <2>2 DEF Single
        <3>2. Mods' = dir'
            BY <3>1 DEF Mods
        <3>3. Back(cur)
            BY <2>2, <1>5 DEF EraseJournal, RecoverInv
        <3>4. Mods = RolledBack(cur)
            BY <1>0, <2>2, ModsOfPending
        <3> QED BY <1>0, <2>1, <3>2, <3>3, <3>4, BackIsRolledBack
    <2>3. CASE cur \notin Pending
        <3>1. Pending' = Pending
            BY <2>1, <2>3
        <3>2. ASSUME NEW b \in Pending PROVE RolledBack(b)' = RolledBack(b)
            <4>1. journal'[b] = journal[b]
                BY <1>0, <1>5, <2>3 DEF EraseJournal, TypeOK, Pending
            <4> QED BY <1>5, <4>1 DEF EraseJournal, RolledBack
        <3> QED BY <1>0, <2>1, <3>1, <3>2, ModsKept
    <2> QED BY <2>2, <2>3
<1>6. CASE Erased
    <2>1. Pending' = Pending
        BY <1>6 DEF Erased, Pending
    <2>2. \A b \in Pending : RolledBack(b)' = RolledBack(b)
        BY <1>6 DEF Erased, RolledBack
    <2> QED BY <1>0, <1>6, <2>1, <2>2, ModsKept DEF Erased
<1> QED
    BY <1>1, <1>2, <1>3, <1>4, <1>5, <1>6
    DEF Recovery, SkipBatch, RollBack, Withdrawn, SweepComplete, RecoverFails, Recovered

(* Outside of a commit there is no request.                                *)
LEMMA RequestKept ==
    ASSUME pc \notin {"backup", "write"}, (pc \notin {"backup", "write"})'
    PROVE Request = Swap!NoRequest /\ Request' = Swap!NoRequest
<1>1. (pc \notin {"backup", "write"} => Request = Swap!NoRequest)'
    BY RequestOfRest, PTL
<1>2. Swap!NoRequest' = Swap!NoRequest
    BY DEF Swap!NoRequest
<1> QED BY <1>1, <1>2, RequestOfRest

(* During a commit the request stays what it is.                           *)
LEMMA RequestSame ==
    ASSUME pc \in {"backup", "write"}, (pc \in {"backup", "write"})', plan' = plan
    PROVE Request' = Request
BY DEF Request

(* Giving up a commit, or being killed in one, aborts the request.         *)
LEMMA SwapAbort ==
    ASSUME Sound, pc \in {"backup", "write"}, (pc \notin {"backup", "write"})',
           Mods' = Mods, edits' = edits
    PROVE Swap!Abort
<1>1. (pc \notin {"backup", "write"} => Request = Swap!NoRequest)'
    BY RequestOfRest, PTL
<1>2. Swap!NoRequest' = Swap!NoRequest
    BY DEF Swap!NoRequest
<1>3. Request # Swap!NoRequest
    BY RequestOfCommit
<1> QED BY <1>1, <1>2, <1>3 DEF Swap!Abort

(* A commit begins on the folder it verified.                              *)
LEMMA SwapBegin ==
    ASSUME Sound, Sound', Verify
    PROVE Swap!Begin
<1> USE DEF Sound, Protocol
<1>1. pc = "verify" /\ pc' = "backup" /\ plan' = plan /\ dir' = dir
      /\ journal' = journal /\ edits' = edits
    BY DEF Verify, Goto, history
<1>2. Request = Swap!NoRequest
    BY <1>1, RequestOfRest
<1>3. Pending = {} /\ Pending' = {}
    BY <1>1 DEF CommitInv, Journalled, Pending
<1>4. Mods = dir /\ Mods' = dir
    BY <1>1, <1>3 DEF Mods
<1>5. plan \in Plan /\ Targets(plan) # {}
    BY <1>1 DEF TypeOK, PlanInv
<1>6. Request' = [replaces |-> plan.seen, targets |-> plan.targets]
    BY <1>1 DEF Request
<1>7. Request' \in Swap!Request
    BY <1>5, <1>6 DEF Plan, Folder, Swap!Request, Swap!Folder
<1>8. Swap!Asked(Request') = Targets(plan)
    BY <1>6 DEF Swap!Asked, Targets
<1>9. Swap!Fits(Mods, Request')
    <2>1. \A n \in plan.previous : dir[n] = plan.seen[n]
        BY DEF Verify, Verified
    <2>2. \A n \in Targets(plan) \ plan.previous : dir[n] = None
        BY DEF Verify, Verified
    <2>3. Swap!Replaced(Request') = plan.previous
        BY <1>1, <1>6 DEF PlanInv, Swap!Replaced
    <2> QED BY <1>4, <1>6, <1>8, <2>1, <2>2, <2>3 DEF Swap!Fits
<1> QED BY <1>1, <1>2, <1>4, <1>5, <1>7, <1>8, <1>9 DEF Swap!Begin

(* Marking the journal complete puts the request into effect.              *)
LEMMA SwapApply ==
    ASSUME Sound, Complete
    PROVE Swap!Apply
<1> USE DEF Sound, Protocol, DiskInv
<1>1. pc = "write" /\ left = {} /\ Replaced = {} /\ dir' = dir /\ edits' = edits
      /\ pc' = "recover" /\ cur \in BatchId
    BY DEF Complete, CallRecover, TypeOK
<1>2. Request # Swap!NoRequest /\ Request' = Swap!NoRequest
    <2>1. Request' = [replaces |-> NoFiles, targets |-> NoFiles]
        BY <1>1 DEF Request, NoFiles
    <2> QED BY <1>1, <2>1, RequestOfCommit, NotPending
<1>3. Pending = {cur} /\ Pending' = {}
    <2>1. Pending = {cur}
        BY <1>1 DEF CommitInv, Pending, Journalled
    <2>2. journal'[cur].state = "complete" /\ \A b \in BatchId \ {cur} : journal'[b] = journal[b]
        BY <1>1 DEF Complete, CompleteJournal, TypeOK, Journal
    <2> QED BY <2>1, <2>2 DEF Pending
<1>4. Mods = RolledBack(cur) /\ Mods' = dir
    <2>1. Mods' = dir'
        BY <1>3 DEF Mods
    <2> QED BY <1>1, <1>3, <2>1, ModsOfPending
<1>5. \A n \in Targets(plan) : dir[n] = plan.targets[n]
    BY <1>1 DEF CommitInv
<1>6. \A n \in plan.previous \ Targets(plan) : dir[n] = None
    BY <1>1 DEF Replaced
<1>7. \A n \in Names \ (plan.previous \cup Targets(plan)) : Mods[n] = dir[n]
    BY <1>1, <1>4 DEF CommitInv, HandInv, PlanInv, RolledBack
<1>8. /\ Swap!Asked(Request) = Targets(plan)
      /\ Swap!Replaced(Request) = plan.previous
      /\ Request.targets = plan.targets
    BY <1>1, RequestOfCommit DEF PlanInv, Swap!Replaced
<1>9. dir = Swap!Swapped(Mods, Request)
    <2>1. dir = [n \in Names |-> dir[n]]
        BY DEF TypeOK, Folder
    <2>2. \A n \in Names : dir[n] = Swap!Swapped(Mods, Request)[n]
        BY <1>5, <1>6, <1>7, <1>8 DEF Swap!Swapped
    <2> QED BY <2>1, <2>2 DEF Swap!Swapped
<1> QED BY <1>1, <1>2, <1>4, <1>9 DEF Swap!Apply

(* Writing targets and removing what they replace changes no file that a   *)
(* rollback would not put back.                                            *)
LEMMA ModsOfWrite ==
    ASSUME Sound, Sound', WriteTarget \/ RemoveOld
    PROVE Mods' = Mods
<1> USE DEF Sound, Protocol, DiskInv
<1>1. pc = "write" /\ cur \in BatchId /\ UNCHANGED <<dirs, journal, backup>>
    BY DEF WriteTarget, RemoveOld, TypeOK
<1>2. cur \in Pending /\ Pending' = Pending
    BY <1>1 DEF CommitInv, Pending
<1>3. \A b \in Pending : b = cur
    BY <1>2 DEF Single
<1>4. \A n \in Names : dir'[n] # dir[n] =>
          n \in journal[cur].previous \cup journal[cur].targets
    BY <1>1 DEF WriteTarget, RemoveOld, Replaced, HandInv, TypeOK, Folder
<1>5. \A n \in journal[cur].previous : backup[cur][n] # None
    BY <1>1 DEF CommitInv, HandInv, PlanInv
<1>6. \A b \in Pending : RolledBack(b)' = RolledBack(b)
    BY <1>1, <1>3, <1>4, <1>5 DEF RolledBack
<1> QED BY <1>2, <1>6, ModsKept

(* Every step of ModBatch is a step of AtomicSwap, or stutters.            *)
LEMMA SwapStep ==
    ASSUME Sound, Sound', Next
    PROVE [Swap!Next]_(Swap!vars)
<1>0. Single /\ Single' /\ TypeOK
    BY DEF Sound, Protocol, DiskInv
<1>1. CASE EditFile \/ SetEntry \/ RemoveEntry
    BY <1>1, SwapEdit DEF Swap!Next
<1>2. CASE EntriesInDirectory \/ StartDependencyOperation \/ FinishWithError \/ CommitPlan
    <2>1. UNCHANGED disk /\ edits' = edits
        BY <1>2 DEF EntriesInDirectory, StartDependencyOperation, FinishWithError, CommitPlan, history
    <2>2. pc \notin {"backup", "write"} /\ pc' \notin {"backup", "write"}
        BY <1>2 DEF EntriesInDirectory, StartDependencyOperation, FinishWithError,
            CommitPlan, CallRecover, Rest
    <2> QED BY <1>0, <2>1, <2>2, ModsOfSameDisk, RequestKept DEF Swap!vars
<1>3. CASE Recovery
    <2>1. edits' = edits
        BY <1>3 DEF Recovery, SkipBatch, RollBack, Restore, Withdraw, Withdrawn,
            SweepComplete, EraseBackup, EraseJournal, Erased, RecoverFails, Recovered,
            history
    <2>2. pc \notin {"backup", "write"} /\ pc' \notin {"backup", "write"}
        BY <1>3 DEF Recovery, SkipBatch, RollBack, Restore, Withdraw, Withdrawn,
            SweepComplete, EraseBackup, EraseJournal, Erased, RecoverFails, Recovered,
            Goto, Rest, memory
    <2> QED BY <1>3, <2>1, <2>2, ModsOfRecovery, RequestKept DEF Swap!vars
<1>4. CASE Verify
    BY <1>4, SwapBegin DEF Swap!Next
<1>5. CASE Refuse
    <2>1. UNCHANGED disk /\ edits' = edits /\ pc = "verify" /\ pc' = "idle"
        BY <1>5 DEF Refuse, Rest, history
    <2> QED BY <1>0, <2>1, ModsOfSameDisk, RequestKept DEF Swap!vars
<1>6. CASE BackUp \/ WriteJournal \/ BackUpFails
    <2>1. pc = "backup" /\ dir' = dir /\ edits' = edits /\ cur \in BatchId
        BY <1>6, <1>0 DEF BackUp, WriteJournal, BackUpFails, TypeOK, history
    <2>2. Pending = {} /\ Mods = dir
        BY <2>1 DEF Sound, Protocol, CommitInv, Mods
    <2>3. Mods' = dir
        <3>1. CASE journal' = journal
            BY <2>1, <2>2, <3>1 DEF Mods, Pending
        <3>2. CASE WriteJournal
            <4>1. /\ cur \in Pending'
                  /\ journal'[cur] = [state |-> "pending", previous |-> plan.previous,
                                      targets |-> Targets(plan)]
                  /\ backup' = backup /\ left = {}
                BY <2>1, <3>2, <1>0 DEF WriteJournal, Pending, TypeOK
            <4>2. Mods' = RolledBack(cur)'
                <5>1. \A b \in Pending' : b = cur
                    BY <1>0, <4>1 DEF Single
                <5>2. (CHOOSE b \in Pending' : TRUE) = cur
                    BY <4>1, <5>1
                <5>3. cur' = cur
                    BY <3>2 DEF WriteJournal
                <5> QED BY <4>1, <5>2, <5>3 DEF Mods
            <4>3. RolledBack(cur)' = dir
                <5>1. \A n \in plan.previous : backup[cur][n] = dir[n]
                    BY <2>1, <4>1 DEF Sound, Protocol, CommitInv
                <5>2. \A n \in Targets(plan) \ plan.previous : dir[n] = None
                    BY <2>1 DEF Sound, Protocol, CommitInv
                <5>3. cur' = cur
                    BY <3>2 DEF WriteJournal
                <5>4. dir = [n \in Names |-> dir[n]]
                    BY <1>0 DEF TypeOK, Folder
                <5> QED BY <2>1, <4>1, <5>1, <5>2, <5>3, <5>4 DEF RolledBack
            <4> QED BY <4>2, <4>3
        <3> QED BY <1>6, <3>1, <3>2 DEF BackUp, BackUpFails
    <2>4. CASE BackUp \/ WriteJournal
        BY <2>1, <2>2, <2>3, <2>4, RequestSame DEF BackUp, WriteJournal, Goto, Swap!vars
    <2>5. CASE BackUpFails
        BY <2>1, <2>2, <2>3, <2>5, SwapAbort DEF BackUpFails, Rest, Swap!Next
    <2> QED BY <1>6, <2>4, <2>5
<1>7. CASE WriteTarget \/ RemoveOld
    <2>1. pc = "write" /\ pc' = pc /\ plan' = plan /\ edits' = edits
        BY <1>7 DEF WriteTarget, RemoveOld, memory, history
    <2> QED BY <1>7, <2>1, ModsOfWrite, RequestSame DEF Swap!vars
<1>8. CASE Complete
    BY <1>8, SwapApply DEF Swap!Next
<1>9. CASE CommitFails
    <2>1. UNCHANGED disk /\ edits' = edits /\ pc = "write" /\ pc' = "recover"
        BY <1>9 DEF CommitFails, CallRecover
    <2> QED BY <1>0, <2>1, ModsOfSameDisk, SwapAbort DEF Swap!Next
<1>10. CASE Crash
    <2>1. UNCHANGED disk /\ edits' = edits /\ pc' = "idle"
        BY <1>10 DEF Crash, Rest, history
    <2>2. Mods' = Mods
        BY <1>0, <2>1, ModsOfSameDisk
    <2>3. CASE pc \in {"backup", "write"}
        BY <2>1, <2>2, <2>3, SwapAbort DEF Swap!Next
    <2>4. CASE pc \notin {"backup", "write"}
        BY <2>1, <2>2, <2>4, RequestKept DEF Swap!vars
    <2> QED BY <2>3, <2>4
<1> QED
    BY <1>1, <1>2, <1>3, <1>4, <1>5, <1>6, <1>7, <1>8, <1>9, <1>10 DEF Next, Commit

(* As long as no commit has begun over a journal that its recovery         *)
(* overlooked, the batch install implements AtomicSwap: through every      *)
(* other failure and every kill the player's files are those of before or  *)
(* those that were asked for.                                              *)
THEOREM AtomicCorrect == Spec => Atomic
<1>1. IInv /\ IInv' /\ [Next]_vars => [unread' \/ Swap!Next]_(Swap!vars)
    <2> SUFFICES ASSUME IInv, IInv', [Next]_vars, ~unread'
                 PROVE [Swap!Next]_(Swap!vars)
        BY Zenon
    <2>1. Sound /\ Sound'
        BY UnreadStays DEF IInv, Sound
    <2>2. CASE Next
        BY <2>1, <2>2, SwapStep
    <2>3. CASE UNCHANGED vars
        <3>1. Mods' = Mods
            BY <2>1, <2>3, ModsOfSameDisk DEF vars, Sound, Protocol, DiskInv
        <3>2. Request' = Request /\ edits' = edits
            BY <2>3 DEF vars, memory, history, Request
        <3> QED BY <3>1, <3>2 DEF Swap!vars
    <2> QED BY <2>2, <2>3
<1> QED BY <1>1, SwapInit, InvCorrect, PTL DEF Spec, Atomic

=============================================================================
