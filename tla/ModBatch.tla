------------------------------ MODULE ModBatch ------------------------------
(***************************************************************************)
(* The journalled batch install of InstalledModsManager, with the          *)
(* operation of ModrinthModInstallation that drives it.                    *)
(*                                                                         *)
(* An operation plans from the entries it lists, downloads, and commits:   *)
(* it recovers old batches, verifies that the files it replaces have not   *)
(* changed, copies them to a backup, writes a journal, writes the targets, *)
(* removes the replaced files, marks the journal complete and recovers     *)
(* again, which only sweeps a complete batch away. Any file operation may  *)
(* fail, and the app may be killed between any two of them.                *)
(*                                                                         *)
(* Recovery takes a listing that fails for an empty one and a journal it   *)
(* cannot read for none, and goes on. Before a commit this may leave an    *)
(* older batch pending under the new one; `unread` remembers that it did.  *)
(*                                                                         *)
(* Contents stand for their SHA-1. A directory of the disk is removed item *)
(* by item, in no particular order, as NSFileManager does; single files    *)
(* are written (NSDataWritingAtomic) and removed in one step.              *)
(***************************************************************************)
EXTENDS Naturals, FiniteSets

CONSTANTS
    Names,      \* file names of the mods folder
    Data,       \* file contents
    None,       \* "there is no such file"
    BatchId,    \* names of batch directories (UUIDs)
    NoBatch,    \* "no batch is being handled"
    MaxEdits    \* bound on the changes made by hand

ASSUME ConstantsAssumption ==
    /\ None \notin Data
    /\ NoBatch \notin BatchId
    /\ MaxEdits \in Nat

VARIABLES
    \* on disk
    dir,        \* the mods folder
    dirs,       \* batch directories that exist under mod-batches/
    journal,    \* journal.plist of each batch
    backup,     \* backup/ of each batch
    \* in memory
    pc,         \* what the operation or the refresh is about to do
    plan,       \* the plan: files to replace, their hashes when listed, targets
    cur,        \* the batch being committed or recovered
    todo,       \* batches the recovery has still to look at
    left,       \* names the current loop has still to handle
    after,      \* who called recoverDirectory
    ok,         \* the local `ok` of commitPlan
    \* history
    edits,      \* changes made by hand so far
    unread      \* a commit has begun over a journal that its recovery overlooked

disk == <<dir, dirs, journal, backup>>
memory == <<pc, plan, cur, todo, left, after, ok>>
history == <<edits, unread>>
vars == <<disk, memory, history>>

Folder == [Names -> Data \cup {None}]
NoFiles == [n \in Names |-> None]

Journal == [state : {"none", "pending", "complete"},
            previous : SUBSET Names, targets : SUBSET Names]
NoJournal == [state |-> "none", previous |-> {}, targets |-> {}]
(* What a complete journal names is never read: it is left out.            *)
CompleteJournal == [state |-> "complete", previous |-> {}, targets |-> {}]

Plan == [previous : SUBSET Names, seen : Folder, targets : Folder]
NoPlan == [previous |-> {}, seen |-> NoFiles, targets |-> NoFiles]
Targets(p) == {n \in Names : p.targets[n] # None}

Journalled == {b \in BatchId : journal[b].state # "none"}
Pending == {b \in BatchId : journal[b].state = "pending"}
Covers(b) == journal[b].previous \cup journal[b].targets
Covered == UNION {Covers(b) : b \in Pending}

-----------------------------------------------------------------------------
Init ==
    /\ dir \in Folder
    /\ dirs = {}
    /\ journal = [b \in BatchId |-> NoJournal]
    /\ backup = [b \in BatchId |-> NoFiles]
    /\ pc = "idle" /\ plan = NoPlan /\ cur = NoBatch
    /\ todo = {} /\ left = {} /\ after = "none" /\ ok = TRUE
    /\ edits = 0 /\ unread = FALSE

(* The operation is over: its memory goes.                                 *)
Rest ==
    /\ pc' = "idle" /\ plan' = NoPlan /\ cur' = NoBatch
    /\ todo' = {} /\ left' = {} /\ after' = "none" /\ ok' = TRUE

Goto(step, names) == pc' = step /\ left' = names

(* The recovery called by `caller` takes no notice of the batches `bs`.    *)
Overlook(caller, bs) ==
    unread' = (unread \/ (caller = "commit" /\ Pending \cap bs # {}))

(* recoverDirectory lists mod-batches/ once, then handles what it listed:  *)
(* nothing, if the listing fails.                                          *)
CallRecover(caller) ==
    /\ todo' \in {dirs, {}}
    /\ Overlook(caller, dirs \ todo')
    /\ pc' = "recover" /\ after' = caller
    /\ cur' = NoBatch /\ left' = {}

-----------------------------------------------------------------------------
(* Changes by hand: in the Files app at any name, except while the app is  *)
(* between the hash check and the end of a commit or in a recovery.        *)
EditFile ==
    /\ edits < MaxEdits /\ pc \in {"idle", "download"}
    /\ \E n \in Names \ Covered, d \in Data \cup {None} :
          dir[n] # d /\ dir' = [dir EXCEPT ![n] = d]
    /\ edits' = edits + 1
    /\ UNCHANGED <<dirs, journal, backup, memory, unread>>

(* setEntry renames name <-> name.disabled, refused while installing.      *)
SetEntry ==
    /\ edits < MaxEdits /\ pc = "idle"
    /\ \E n, m \in Names \ Covered :
          /\ dir[n] # None /\ dir[m] = None
          /\ dir' = [dir EXCEPT ![m] = dir[n], ![n] = None]
    /\ edits' = edits + 1
    /\ UNCHANGED <<dirs, journal, backup, memory, unread>>

(* removeEntry moves the file to the trash, refused while installing.      *)
RemoveEntry ==
    /\ edits < MaxEdits /\ pc = "idle"
    /\ \E n \in Names \ Covered :
          dir[n] # None /\ dir' = [dir EXCEPT ![n] = None]
    /\ edits' = edits + 1
    /\ UNCHANGED <<dirs, journal, backup, memory, unread>>

-----------------------------------------------------------------------------
(* The list of installed mods recovers the folder first.                   *)
EntriesInDirectory ==
    /\ pc = "idle"
    /\ CallRecover("entries")
    /\ UNCHANGED <<disk, plan, ok, edits>>

(* An operation lists the folder as it is - entriesInDirectory skips the   *)
(* recovery while installing - and plans any swap from what it saw.        *)
StartDependencyOperation ==
    /\ pc = "idle"
    /\ \E previous \in SUBSET {n \in Names : dir[n] # None}, targets \in Folder :
          /\ targets # NoFiles
          /\ plan' = [previous |-> previous,
                      seen |-> [n \in Names |-> IF n \in previous THEN dir[n] ELSE None],
                      targets |-> targets]
    /\ pc' = "download"
    /\ UNCHANGED <<disk, cur, todo, left, after, ok, history>>

(* A download fails, or the operation is cancelled while it downloads.     *)
FinishWithError ==
    /\ pc = "download"
    /\ Rest
    /\ UNCHANGED <<disk, history>>

CommitPlanUnrecovered ==    \* mutant: commits on the folder as it finds it
    /\ pc = "download"
    /\ pc' = "verify" /\ after' = "commit"
    /\ UNCHANGED <<disk, plan, cur, todo, left, ok, history>>

CommitPlan ==
    /\ pc = "download"
    /\ CallRecover("commit")
    /\ UNCHANGED <<disk, plan, ok, edits>>

-----------------------------------------------------------------------------
(* recoverDirectory. A batch is skipped when it has no journal, and when   *)
(* its journal cannot be read.                                             *)
SkipBatch ==
    /\ pc = "recover"
    /\ \E b \in todo :
          /\ todo' = todo \ {b}
          /\ Overlook(after, {b})
    /\ UNCHANGED <<disk, pc, plan, cur, left, after, ok, edits>>

RollBackNoBatch ==          \* mutant: forgets which batch it rolls back
    /\ pc = "recover"
    /\ \E b \in todo :
          /\ journal[b].state = "pending"
          /\ Goto("restore", journal[b].previous)
    /\ UNCHANGED <<disk, plan, cur, todo, after, ok, history>>

RollBack ==
    /\ pc = "recover"
    /\ \E b \in todo :
          /\ journal[b].state = "pending"
          /\ cur' = b
          /\ Goto("restore", journal[b].previous)
    /\ UNCHANGED <<disk, plan, todo, after, ok, history>>

Restore ==
    /\ pc = "restore"
    /\ \E n \in left :
          /\ backup[cur][n] # None
          /\ dir' = [dir EXCEPT ![n] = backup[cur][n]]
          /\ left' = left \ {n}
    /\ UNCHANGED <<dirs, journal, backup, pc, plan, cur, todo, after, ok, history>>

(* A target that was not there before is removed, if it is there at all.   *)
Written == {n \in journal[cur].targets \ journal[cur].previous : dir[n] # None}

Withdraw ==
    /\ pc = "restore" /\ left = {}
    /\ \E n \in Written : dir' = [dir EXCEPT ![n] = None]
    /\ UNCHANGED <<dirs, journal, backup, memory, history>>

WithdrawnNothing ==         \* mutant: leaves the new targets where they are
    /\ pc = "restore" /\ left = {}
    /\ Goto("erase", {})
    /\ UNCHANGED <<disk, plan, cur, todo, after, ok, history>>

Withdrawn ==
    /\ pc = "restore" /\ left = {} /\ Written = {}
    /\ Goto("erase", {})
    /\ UNCHANGED <<disk, plan, cur, todo, after, ok, history>>

SweepComplete ==
    /\ pc = "recover"
    /\ \E b \in todo :
          journal[b].state = "complete" /\ cur' = b
    /\ Goto("erase", {})
    /\ UNCHANGED <<disk, plan, todo, after, ok, history>>

(* removeItemAtPath:batch takes the tree apart item by item.               *)
EraseBackup ==
    /\ pc = "erase"
    /\ \E n \in Names :
          /\ backup[cur][n] # None
          /\ backup' = [backup EXCEPT ![cur][n] = None]
    /\ UNCHANGED <<dir, dirs, journal, memory, history>>

EraseJournal ==
    /\ pc = "erase" /\ journal[cur].state # "none"
    /\ journal' = [journal EXCEPT ![cur] = NoJournal]
    /\ UNCHANGED <<dir, dirs, backup, memory, history>>

Erased ==
    /\ pc = "erase" /\ backup[cur] = NoFiles /\ journal[cur].state = "none"
    /\ dirs' = dirs \ {cur}
    /\ pc' = "recover" /\ todo' = todo \ {cur} /\ cur' = NoBatch
    /\ UNCHANGED <<dir, journal, backup, plan, left, after, ok, history>>

(* A file operation of the recovery fails, or a backup cannot be read: the *)
(* recovery and whoever called it return NO.                               *)
RecoverFails ==
    /\ pc \in {"restore", "erase"}
    /\ Rest
    /\ UNCHANGED <<disk, history>>

(* The recovery returns YES.                                               *)
Recovered ==
    /\ pc = "recover" /\ todo = {}
    /\ IF after = "commit"
       THEN pc' = "verify" /\ UNCHANGED <<plan, cur, todo, left, after, ok>>
       ELSE Rest
    /\ UNCHANGED <<disk, history>>

-----------------------------------------------------------------------------
(* commitPlan, once the folder is recovered.                               *)
VerifiedByName ==           \* mutant: takes any file of the name for the listed one
    /\ \A n \in plan.previous : dir[n] # None
    /\ \A n \in Targets(plan) \ plan.previous : dir[n] = None

Verified ==
    /\ \A n \in plan.previous : dir[n] = plan.seen[n]
    /\ \A n \in Targets(plan) \ plan.previous : dir[n] = None

Verify ==
    /\ pc = "verify" /\ Verified
    /\ \E b \in BatchId \ dirs :
          /\ dirs' = dirs \cup {b}
          /\ cur' = b
    /\ Goto("backup", plan.previous)
    /\ UNCHANGED <<dir, journal, backup, plan, todo, after, ok, history>>

(* A changed file, a name in use, or no directory for the batch.           *)
Refuse ==
    /\ pc = "verify"
    /\ Rest
    /\ UNCHANGED <<disk, history>>

BackUp ==
    /\ pc = "backup"
    /\ \E n \in left :
          /\ backup' = [backup EXCEPT ![cur][n] = dir[n]]
          /\ left' = left \ {n}
    /\ UNCHANGED <<dir, dirs, journal, pc, plan, cur, todo, after, ok, history>>

(* A copy or the journal cannot be written: the batch is removed again, if *)
(* that works, and the commit returns NO.                                  *)
BackUpFails ==
    /\ pc = "backup"
    /\ \/ /\ dirs' = dirs \ {cur}
          /\ backup' = [backup EXCEPT ![cur] = NoFiles]
       \/ UNCHANGED <<dirs, backup>>
    /\ Rest
    /\ UNCHANGED <<dir, journal, history>>

WriteJournalEarly ==        \* mutant: journals before the backup is complete
    /\ pc = "backup"
    /\ journal' = [journal EXCEPT ![cur] =
          [state |-> "pending", previous |-> plan.previous, targets |-> Targets(plan)]]
    /\ Goto("write", Targets(plan))
    /\ UNCHANGED <<dir, dirs, backup, plan, cur, todo, after, ok, history>>

WriteJournalPrevious ==     \* mutant: journals only what is replaced
    /\ pc = "backup" /\ left = {}
    /\ journal' = [journal EXCEPT ![cur] =
          [state |-> "pending", previous |-> plan.previous, targets |-> {}]]
    /\ Goto("write", Targets(plan))
    /\ UNCHANGED <<dir, dirs, backup, plan, cur, todo, after, ok, history>>

WriteJournal ==
    /\ pc = "backup" /\ left = {}
    /\ journal' = [journal EXCEPT ![cur] =
          [state |-> "pending", previous |-> plan.previous, targets |-> Targets(plan)]]
    /\ Goto("write", Targets(plan))
    /\ UNCHANGED <<dir, dirs, backup, plan, cur, todo, after, ok, history>>

WriteTarget ==
    /\ pc = "write"
    /\ \E n \in left :
          /\ dir' = [dir EXCEPT ![n] = plan.targets[n]]
          /\ left' = left \ {n}
    /\ UNCHANGED <<dirs, journal, backup, pc, plan, cur, todo, after, ok, history>>

Replaced == {n \in plan.previous \ Targets(plan) : dir[n] # None}

RemoveOld ==
    /\ pc = "write" /\ left = {}
    /\ \E n \in Replaced : dir' = [dir EXCEPT ![n] = None]
    /\ UNCHANGED <<dirs, journal, backup, memory, history>>

Complete ==
    /\ pc = "write" /\ left = {} /\ Replaced = {}
    /\ journal' = [journal EXCEPT ![cur] = CompleteJournal]
    /\ CallRecover("post")
    /\ UNCHANGED <<dir, dirs, backup, plan, ok, edits>>

CommitFailsQuietly ==       \* mutant: `ok` keeps the last good result
    /\ pc = "write"
    /\ CallRecover("post")
    /\ UNCHANGED <<disk, plan, ok, edits>>

(* A write, a removal or the journal fails: ok = NO, and the commit goes   *)
(* straight to its closing recovery.                                       *)
CommitFails ==
    /\ pc = "write"
    /\ ok' = FALSE
    /\ CallRecover("post")
    /\ UNCHANGED <<disk, plan, edits>>

(* The app is killed, and opened again.                                    *)
Crash ==
    /\ pc # "idle"
    /\ Rest
    /\ UNCHANGED <<disk, history>>

-----------------------------------------------------------------------------
Recovery ==
    \/ SkipBatch \/ RollBack \/ Restore \/ Withdraw \/ Withdrawn
    \/ SweepComplete \/ EraseBackup \/ EraseJournal \/ Erased
    \/ RecoverFails \/ Recovered

Commit ==
    \/ Verify \/ Refuse \/ BackUp \/ BackUpFails \/ WriteJournal
    \/ WriteTarget \/ RemoveOld \/ Complete \/ CommitFails

Next ==
    \/ EditFile \/ SetEntry \/ RemoveEntry
    \/ EntriesInDirectory \/ StartDependencyOperation
    \/ FinishWithError \/ CommitPlan
    \/ Recovery \/ Commit \/ Crash

Spec == Init /\ [][Next]_vars

-----------------------------------------------------------------------------
(* Every variable has its type; what works on a batch has a batch.         *)
TypeOK ==
    /\ dir \in Folder
    /\ dirs \in SUBSET BatchId
    /\ journal \in [BatchId -> Journal]
    /\ backup \in [BatchId -> Folder]
    /\ pc \in {"idle", "download", "recover", "restore", "erase",
               "verify", "backup", "write"}
    /\ plan \in Plan
    /\ cur \in BatchId \cup {NoBatch}
    /\ pc \in {"restore", "erase", "backup", "write"} =>
          cur \in BatchId
    /\ todo \in SUBSET BatchId
    /\ left \in SUBSET Names
    /\ after \in {"none", "entries", "commit", "post"}
    /\ ok \in BOOLEAN
    /\ edits \in Nat
    /\ unread \in BOOLEAN

(* The files of the player: those a recovery would leave. Under a pending  *)
(* journal the replaced files are the ones in the backup - on disk again   *)
(* already when the backup is going - and no target exists yet.            *)
RolledBack(b) ==
    [n \in Names |->
        IF n \in journal[b].previous
        THEN IF backup[b][n] # None THEN backup[b][n] ELSE dir[n]
        ELSE IF n \in journal[b].targets THEN None ELSE dir[n]]

Mods == IF Pending = {} THEN dir ELSE RolledBack(CHOOSE b \in Pending : TRUE)

Request ==
    [replaces |-> IF pc \in {"backup", "write"} THEN plan.seen ELSE NoFiles,
     targets |-> IF pc \in {"backup", "write"} THEN plan.targets ELSE NoFiles]

Swap == INSTANCE AtomicSwap WITH mods <- Mods, request <- Request

(* As long as no commit has begun over a journal that its recovery         *)
(* overlooked, install, update, enable and roll back are one change of the *)
(* folder or none, through every other failure and every kill.             *)
Atomic == Swap!Init /\ [][unread' \/ Swap!Next]_(Swap!vars)

(* Two pending journals would be rolled back in whatever order the         *)
(* directory lists them, each over the files of the other: only a commit   *)
(* whose recovery overlooked the first can write the second.               *)
OnePending == ~unread => \A b, c \in Pending : b = c

(* While the folder differs from what a rollback leaves, the rollback can  *)
(* be carried out: every file it has to restore is in the backup - unless  *)
(* a batch that was overlooked has been installed over.                    *)
Restorable ==
    ~unread =>
        \A b \in Pending :
            \/ \A n \in journal[b].previous : backup[b][n] # None
            \/ dir = RolledBack(b)

(* commitPlan returns YES only with every target in place and every other  *)
(* replaced file gone; only a batch that was overlooked when the commit    *)
(* began can be rolled back over it by the closing recovery.               *)
Installed ==
    /\ \A n \in Targets(plan) : dir[n] = plan.targets[n]
    /\ \A n \in plan.previous \ Targets(plan) : dir[n] = None
SuccessIsInstalled ==
    pc = "recover" /\ after = "post" /\ ok => unread \/ Installed

(* Write-ahead: the app changes no file of the folder that a journal on    *)
(* disk does not already name, whatever a recovery overlooks.              *)
WriteAhead ==
    [][edits' = edits =>
         \A n \in Names : dir'[n] # dir[n] => n \in Covered]_vars

(* Once the app has stopped, or a recovery has given up, the recovery of   *)
(* the next start can run to its end: what a pending journal has to        *)
(* restore is in its backup. The code does not keep this (see README).     *)
AlwaysRecoverable ==
    pc = "idle" =>
        \A b \in Pending : \A n \in journal[b].previous : backup[b][n] # None
=============================================================================
