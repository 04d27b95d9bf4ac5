---------------------------- MODULE PackInstall ----------------------------
(***************************************************************************)
(* The single-file install of ModrinthModInstallation, which resource and  *)
(* shader packs use. Every project page has an installation object of its  *)
(* own; all objects of one content folder share its `transactions`         *)
(* directory. Opening a page inspects the folder on a background queue and *)
(* recovers old transactions first; installing downloads, recovers,        *)
(* verifies, backs up, journals, writes, removes and recovers again. One   *)
(* object installs at a time (activeInstallation), but an object that      *)
(* inspects looks only at its own `busy` and `checking`.                   *)
(*                                                                         *)
(* Two things can go wrong without a word, and the model remembers them: a *)
(* page inspects the folder while another one is inside commitData, or a   *)
(* recovery overlooks a journal, because a listing that fails counts as an *)
(* empty one and a journal that cannot be read as none.                    *)
(***************************************************************************)
EXTENDS Naturals

CONSTANTS
    Names,          \* file names of the content folder
    Data,           \* file contents
    None,           \* "there is no such file"
    Installations,  \* installation objects, one for each project
    ProjectOf,      \* the project a file belongs to, by its hash
    Transaction,    \* names of transaction directories (UUIDs)
    NoTransaction,  \* "no transaction is being handled"
    MaxEdits        \* bound on the changes made by hand

ASSUME PackAssumption ==
    /\ None \notin Data \cup Names
    /\ NoTransaction \notin Transaction
    /\ ProjectOf \in [Data -> Installations]
    /\ MaxEdits \in Nat

VARIABLES
    dir, dirs, journal, backup,     \* disk: folder, transactions/ and their contents
    run,        \* what the background code of each installation is doing
    installed,  \* installedVersions: the project's files, and their hashes
    error,      \* the error an installation shows, "unchecked" before it inspected
    request,    \* the version being installed
    edits,      \* history: changes made by hand so far
    met,        \* history: an inspection and a commit have met
    overlooked  \* history: a recovery has overlooked a journal

disk == <<dir, dirs, journal, backup>>
object == <<installed, error, request>>
history == <<edits, met, overlooked>>
vars == <<disk, run, object, history>>

Folder == [Names -> Data \cup {None}]
NoFiles == [n \in Names |-> None]
Journal == [state : {"none", "pending", "complete"},
            target : Names \cup {None}, previous : SUBSET Names]
NoJournal == [state |-> "none", target |-> None, previous |-> {}]
NoRequest == [target |-> None, data |-> None]
Run ==
    [pc : {"idle", "recover", "restore", "erase", "download", "backup", "write", "remove"},
     goal : {"none", "inspect", "download", "commit", "post"},
     todo : SUBSET Transaction, txn : Transaction \cup {NoTransaction},
     journal : Journal, left : SUBSET Names,
     result : {"none", "failed", "recovery_error"}]
AtRest == [pc |-> "idle", goal |-> "none", todo |-> {}, txn |-> NoTransaction,
           journal |-> NoJournal, left |-> {}, result |-> "none"]

Idle(i) == run[i].pc = "idle"
Checking == {i \in Installations : run[i].goal = "inspect"}
Busy == {i \in Installations : run[i].goal \in {"download", "commit", "post"}}
Committing == {i \in Installations : run[i].goal \in {"commit", "post"}}
Previous(i) == {n \in Names : installed[i][n] # None}
Calm == ~met /\ ~overlooked
Journalled == {t \in Transaction : journal[t].state # "none"}
Pending == {t \in Transaction : journal[t].state = "pending"}

Init ==
    /\ dir \in Folder
    /\ dirs = {}
    /\ journal = [t \in Transaction |-> NoJournal]
    /\ backup = [t \in Transaction |-> NoFiles]
    /\ run = [i \in Installations |-> AtRest]
    /\ installed = [i \in Installations |-> NoFiles]
    /\ error = [i \in Installations |-> "unchecked"]
    /\ request = [i \in Installations |-> NoRequest]
    /\ edits = 0 /\ met = FALSE /\ overlooked = FALSE

(* A change in the Files app, while nothing handles the folder, at a name  *)
(* no pending journal covers.                                              *)
EditFile ==
    /\ edits < MaxEdits
    /\ \A i \in Installations : run[i].pc \in {"idle", "download"}
    /\ \E n \in Names, d \in Data \cup {None} :
          /\ \A t \in Pending : n \notin journal[t].previous \cup {journal[t].target}
          /\ dir[n] # d /\ dir' = [dir EXCEPT ![n] = d]
    /\ edits' = edits + 1
    /\ UNCHANGED <<dirs, journal, backup, run, object, met, overlooked>>

-----------------------------------------------------------------------------
(* Where the background code of i goes on, and with what left to do.       *)
Work(i, pc, txn, journalRead, left) ==
    run' = [run EXCEPT ![i] =
        [pc |-> pc, goal |-> run[i].goal, todo |-> run[i].todo, txn |-> txn,
         journal |-> journalRead, left |-> left, result |-> run[i].result]]

Goto(i, pc, left) == Work(i, pc, run[i].txn, run[i].journal, left)

(* The steps of recoverTransactions, called for a goal.                    *)
Recover(i, goal, todo, result) ==
    run' = [run EXCEPT ![i] =
        [pc |-> "recover", goal |-> goal, todo |-> todo, txn |-> NoTransaction,
         journal |-> NoJournal, left |-> {}, result |-> result]]

(* The directory is listed once: nothing is listed, if that fails. An      *)
(* inspection may begin during a commit, and a commit during inspections.  *)
CallRecover(i, goal, result) ==
    \E todo \in {dirs, {}} :
        /\ Recover(i, goal, todo, result)
        /\ overlooked' = (overlooked \/ Journalled \cap (dirs \ todo) # {})
        /\ met' = (\/ met
                   \/ goal = "inspect" /\ Committing # {}
                   \/ goal = "commit" /\ Checking # {})

LookAtNoTransaction(i) ==   \* mutant: forgets which transaction it rolls back
    /\ run[i].pc = "recover"
    /\ \E t \in run[i].todo :
          /\ journal[t].state # "none"
          /\ Work(i, "restore", NoTransaction, journal[t], journal[t].previous)
    /\ UNCHANGED <<disk, object, history>>

(* A transaction is skipped when it has no journal, and when its journal   *)
(* cannot be read.                                                         *)
LookAt(i) ==
    /\ run[i].pc = "recover"
    /\ \E t \in run[i].todo :
          \/ /\ Recover(i, run[i].goal, run[i].todo \ {t}, run[i].result)
             /\ overlooked' = (overlooked \/ t \in Journalled)
          \/ /\ journal[t].state = "pending"
             /\ Work(i, "restore", t, journal[t], journal[t].previous)
             /\ UNCHANGED overlooked
          \/ /\ journal[t].state = "complete"
             /\ Work(i, "erase", t, journal[t], {})
             /\ UNCHANGED overlooked
    /\ UNCHANGED <<disk, object, edits, met>>

Restore(i) ==
    /\ run[i].pc = "restore"
    /\ \E n \in run[i].left :
          /\ backup[run[i].txn][n] # None
          /\ dir' = [dir EXCEPT ![n] = backup[run[i].txn][n]]
          /\ Goto(i, "restore", run[i].left \ {n})
    /\ UNCHANGED <<dirs, journal, backup, object, history>>

WithdrawAlways(i) ==        \* mutant: removes a target that replaced a file, too
    /\ run[i].pc = "restore" /\ run[i].left = {}
    /\ dir' = [n \in Names |-> IF n = run[i].journal.target THEN None ELSE dir[n]]
    /\ Goto(i, "erase", {})
    /\ UNCHANGED <<dirs, journal, backup, object, history>>

Withdraw(i) ==
    /\ run[i].pc = "restore" /\ run[i].left = {}
    /\ dir' = [n \in Names |-> IF n = run[i].journal.target /\ n \notin run[i].journal.previous
                               THEN None ELSE dir[n]]
    /\ Goto(i, "erase", {})
    /\ UNCHANGED <<dirs, journal, backup, object, history>>

(* removeItemAtPath:transaction, item by item.                             *)
EraseItem(i) ==
    /\ run[i].pc = "erase"
    /\ \/ /\ journal' = [journal EXCEPT ![run[i].txn] = NoJournal]
          /\ UNCHANGED backup
       \/ /\ \E n \in Names : backup' = [backup EXCEPT ![run[i].txn][n] = None]
          /\ UNCHANGED journal
    /\ <<journal, backup>>' # <<journal, backup>>
    /\ UNCHANGED <<dir, dirs, run, object, history>>

Erased(i) ==
    /\ run[i].pc = "erase" /\ run[i].txn \in dirs
    /\ journal[run[i].txn] = NoJournal /\ backup[run[i].txn] = NoFiles
    /\ dirs' = dirs \ {run[i].txn}
    /\ Recover(i, run[i].goal, run[i].todo \ {run[i].txn}, run[i].result)
    /\ UNCHANGED <<dir, journal, backup, object, history>>

(* The completion on the main queue: busy and checking become NO.          *)
Finish(i, files, e) ==
    /\ run' = [run EXCEPT ![i] = AtRest]
    /\ installed' = [installed EXCEPT ![i] = files]
    /\ error' = [error EXCEPT ![i] = e]
    /\ request' = [request EXCEPT ![i] = NoRequest]
    /\ UNCHANGED history

(* installedVersions, once an inspection or an install is over.            *)
FilesAfterStale(i, result) ==   \* mutant: a success does not update the list
    IF run[i].goal = "inspect" THEN NoFiles ELSE installed[i]

FilesAfter(i, result) ==
    IF run[i].goal = "inspect" THEN NoFiles
    ELSE IF result = "none" /\ run[i].goal = "post"
         THEN [NoFiles EXCEPT ![request[i].target] = request[i].data]
         ELSE installed[i]

(* A file operation of the recovery fails, a backup cannot be read, or     *)
(* another installation has removed the transaction. A finished install    *)
(* stays a success: only a failed one reports this error.                  *)
RecoverFails(i) ==
    /\ run[i].pc \in {"restore", "erase"}
    /\ LET e == IF run[i].goal = "post" /\ run[i].result = "none" THEN "none" ELSE "failed"
       IN Finish(i, FilesAfter(i, e), e)
    /\ UNCHANGED disk

(* The recovery returns YES, and its caller goes on.                       *)
Recovered(i) == run[i].pc = "recover" /\ run[i].todo = {}

-----------------------------------------------------------------------------
(* inspectWithVersions: recover, then list and hash the project's files.   *)
InspectWithVersions(i) ==
    /\ Idle(i)
    /\ CallRecover(i, "inspect", "none")
    /\ error' = [error EXCEPT ![i] = "none"]
    /\ UNCHANGED <<disk, installed, request, edits>>

Inspected(i) ==
    /\ Recovered(i) /\ run[i].goal = "inspect"
    /\ \/ Finish(i, [n \in Names |-> IF dir[n] \in Data /\ ProjectOf[dir[n]] = i
                                     THEN dir[n] ELSE None], "none")
       \/ Finish(i, NoFiles, "failed")
    /\ UNCHANGED disk

-----------------------------------------------------------------------------
(* installVersion, from a page that shows no error.                        *)
InstallVersion(i) ==
    /\ Idle(i) /\ error[i] = "none" /\ Busy = {}
    /\ \E n \in Names, d \in Data :
          /\ ProjectOf[d] = i
          /\ request' = [request EXCEPT ![i] = [target |-> n, data |-> d]]
    /\ run' = [run EXCEPT ![i] = [AtRest EXCEPT !.pc = "download", !.goal = "download"]]
    /\ UNCHANGED <<disk, installed, error, history>>

(* The download fails, is cancelled, or has the wrong size or hash.        *)
DownloadFails(i) ==
    /\ run[i].pc = "download"
    /\ Finish(i, installed[i], "failed")
    /\ UNCHANGED disk

CommitData(i) ==
    /\ run[i].pc = "download"
    /\ CallRecover(i, "commit", "none")
    /\ UNCHANGED <<disk, object, edits>>

VerifiedByName(i) ==        \* mutant: takes a changed file for the listed one
    /\ \A n \in Previous(i) : dir[n] # None
    /\ dir[request[i].target] = None \/ request[i].target \in Previous(i)

Verified(i) ==
    /\ \A n \in Previous(i) : dir[n] = installed[i][n]
    /\ dir[request[i].target] = None \/ request[i].target \in Previous(i)

Verify(i) ==
    /\ Recovered(i) /\ run[i].goal = "commit" /\ Verified(i)
    /\ \E t \in Transaction \ dirs :
          /\ \A j \in Installations : t \notin run[j].todo /\ t # run[j].txn
          /\ dirs' = dirs \cup {t}
          /\ Work(i, "backup", t, NoJournal, Previous(i))
    /\ UNCHANGED <<dir, journal, backup, object, history>>

Refuse(i) ==
    /\ Recovered(i) /\ run[i].goal = "commit"
    /\ Finish(i, installed[i], "failed")
    /\ UNCHANGED disk

BackUp(i) ==
    /\ run[i].pc = "backup"
    /\ \E n \in run[i].left :
          /\ dir[n] # None
          /\ backup' = [backup EXCEPT ![run[i].txn][n] = dir[n]]
          /\ Goto(i, "backup", run[i].left \ {n})
    /\ UNCHANGED <<dir, dirs, journal, object, history>>

BackUpFails(i) ==
    /\ run[i].pc = "backup"
    /\ \/ /\ dirs' = dirs \ {run[i].txn}
          /\ backup' = [backup EXCEPT ![run[i].txn] = NoFiles]
       \/ UNCHANGED <<dirs, backup>>
    /\ Finish(i, installed[i], "failed")
    /\ UNCHANGED <<dir, journal>>

WriteJournal(i) ==
    /\ run[i].pc = "backup" /\ run[i].left = {}
    /\ journal' = [journal EXCEPT ![run[i].txn] =
          [state |-> "pending", target |-> request[i].target, previous |-> Previous(i)]]
    /\ Goto(i, "write", {})
    /\ UNCHANGED <<dir, dirs, backup, object, history>>

WriteTarget(i) ==
    /\ run[i].pc = "write"
    /\ dir' = [dir EXCEPT ![request[i].target] = request[i].data]
    /\ Goto(i, "remove", Previous(i) \ {request[i].target})
    /\ UNCHANGED <<dirs, journal, backup, object, history>>

RemoveOld(i) ==
    /\ run[i].pc = "remove"
    /\ \E n \in run[i].left :
          /\ dir[n] # None
          /\ dir' = [dir EXCEPT ![n] = None]
          /\ Goto(i, "remove", run[i].left \ {n})
    /\ UNCHANGED <<dirs, journal, backup, object, history>>

CompleteEarly(i) ==         \* mutant: does not wait for the replaced files to go
    /\ run[i].pc = "remove" /\ run[i].txn \in dirs
    /\ journal' = [journal EXCEPT ![run[i].txn] =
          [state |-> "complete", target |-> request[i].target, previous |-> Previous(i)]]
    /\ CallRecover(i, "post", "none")
    /\ UNCHANGED <<dir, dirs, backup, object, edits>>

(* The complete journal can be written only where the transaction still is.*)
Complete(i) ==
    /\ run[i].pc = "remove" /\ run[i].left = {} /\ run[i].txn \in dirs
    /\ journal' = [journal EXCEPT ![run[i].txn] =
          [state |-> "complete", target |-> request[i].target, previous |-> Previous(i)]]
    /\ CallRecover(i, "post", "none")
    /\ UNCHANGED <<dir, dirs, backup, object, edits>>

CommitFails(i) ==
    /\ run[i].pc \in {"write", "remove"}
    /\ CallRecover(i, "post",
          IF run[i].pc = "remove" /\ run[i].left = {} THEN "recovery_error" ELSE "failed")
    /\ UNCHANGED <<disk, object, edits>>

Installed(i) ==
    /\ Recovered(i) /\ run[i].goal = "post"
    /\ Finish(i, FilesAfter(i, run[i].result), run[i].result)
    /\ UNCHANGED disk

(* The app is killed: its objects are gone.                                *)
Crash ==
    /\ run' = [i \in Installations |-> AtRest]
    /\ installed' = [i \in Installations |-> NoFiles]
    /\ error' = [i \in Installations |-> "unchecked"]
    /\ request' = [i \in Installations |-> NoRequest]
    /\ \E i \in Installations : ~Idle(i)
    /\ UNCHANGED <<disk, history>>

-----------------------------------------------------------------------------
Recovery(i) ==
    \/ LookAt(i) \/ Restore(i) \/ Withdraw(i) \/ EraseItem(i) \/ Erased(i) \/ RecoverFails(i)

Install(i) ==
    \/ InstallVersion(i) \/ DownloadFails(i) \/ CommitData(i) \/ Verify(i) \/ Refuse(i)
    \/ BackUp(i) \/ BackUpFails(i) \/ WriteJournal(i) \/ WriteTarget(i) \/ RemoveOld(i)
    \/ Complete(i) \/ CommitFails(i) \/ Installed(i)

Next ==
    \/ \E i \in Installations :
          InspectWithVersions(i) \/ Inspected(i) \/ Recovery(i) \/ Install(i)
    \/ EditFile \/ Crash

Spec == Init /\ [][Next]_vars

-----------------------------------------------------------------------------
(* Every variable has its type; what works on a transaction has one.       *)
TypeOK ==
    /\ dir \in Folder
    /\ dirs \in SUBSET Transaction
    /\ journal \in [Transaction -> Journal]
    /\ backup \in [Transaction -> Folder]
    /\ run \in [Installations -> Run]
    /\ \A i \in Installations :
          run[i].pc \in {"restore", "erase", "backup", "write", "remove"} =>
              run[i].txn \in Transaction
    /\ installed \in [Installations -> Folder]
    /\ error \in [Installations -> {"unchecked", "none", "failed", "recovery_error"}]
    /\ request \in [Installations -> [target : Names \cup {None}, data : Data \cup {None}]]
    /\ edits \in Nat
    /\ met \in BOOLEAN /\ overlooked \in BOOLEAN

(* "The file could not be replaced safely. Previous files remain in the    *)
(* installation backup": when the page says so, each file the install was  *)
(* to replace is in the folder or in a backup, if nobody changed files by  *)
(* hand and no journal was overlooked.                                     *)
PreviousRemain ==
    \A i \in Installations : edits = 0 /\ ~overlooked /\ error[i] = "recovery_error" =>
        \A n \in Previous(i) :
            installed[i][n] \in {dir[n]} \cup {backup[t][n] : t \in Transaction}

(* The page says so truly as long as no inspection and no commit have met, *)
(* whatever fails, whoever installs and is killed.                         *)
PreviousRemainUnlessMet == ~met => PreviousRemain

(* While nothing has gone wrong without a word and nobody changes files by *)
(* hand, the list of a page at rest is what is on disk, whatever the other *)
(* pages inspected, downloaded or installed since.                         *)
ListIsCurrent ==
    \A i \in Installations : Calm /\ edits = 0 /\ Idle(i) /\ error[i] = "none" =>
        \A n \in Previous(i) : dir[n] = installed[i][n]

(* The player's files, and the install in progress, as in ModBatch.        *)
RolledBack(t) ==
    [n \in Names |->
        IF n \in journal[t].previous
        THEN IF backup[t][n] # None THEN backup[t][n] ELSE dir[n]
        ELSE IF n = journal[t].target THEN None ELSE dir[n]]

Mods == IF Pending = {} THEN dir ELSE RolledBack(CHOOSE t \in Pending : TRUE)

Writers == {i \in Installations : run[i].pc \in {"backup", "write", "remove"}}

Request ==
    IF Writers = {} THEN [replaces |-> NoFiles, targets |-> NoFiles]
    ELSE LET i == CHOOSE i \in Writers : TRUE
         IN [replaces |-> installed[i],
             targets |-> [NoFiles EXCEPT ![request[i].target] = request[i].data]]

Swap == INSTANCE AtomicSwap WITH mods <- Mods, request <- Request

(* As long as no inspection has met a commit and no journal has been       *)
(* overlooked, a pack is replaced in one change of the folder or none.     *)
Atomic == Swap!Init /\ [][~Calm' \/ Swap!Next]_(Swap!vars)
=============================================================================
