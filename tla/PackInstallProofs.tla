------------------------- MODULE PackInstallProofs -------------------------
(***************************************************************************)
(* Proofs about PackInstall, for every folder, every set of projects and   *)
(* every set of transaction names: type correctness and, as long as no     *)
(* inspection met a commit and no journal was overlooked, the inductive    *)
(* invariant of the journal protocol, what follows from it, and that the   *)
(* install implements AtomicSwap.                                          *)
(***************************************************************************)
EXTENDS PackInstall, TLAPS

USE PackAssumption DEF history

-----------------------------------------------------------------------------
(* The type invariant.                                                     *)

(* A first start: nothing on disk but the player's files, nobody at work.  *)
LEMMA TypeInit == Init => TypeOK
<1>1. Init => met \in BOOLEAN /\ overlooked \in BOOLEAN
    BY DEF Init
<1>2. Init => /\ dir \in Folder /\ dirs \in SUBSET Transaction
              /\ journal \in [Transaction -> Journal] /\ backup \in [Transaction -> Folder]
    BY DEF Init, Folder, Journal, NoJournal, NoFiles
<1>3. Init => /\ run \in [Installations -> Run]
              /\ \A i \in Installations : run[i].pc = "idle"
    BY DEF Init, AtRest, Run, Journal, NoJournal
<1> QED BY <1>1, <1>2, <1>3 DEF Init, TypeOK, Folder, NoFiles, NoRequest

(* Ending an operation with a list of files and an error keeps the types.  *)
LEMMA TypeFinish ==
    ASSUME TypeOK, NEW i \in Installations, NEW files \in Folder,
           NEW e \in {"none", "failed", "recovery_error"},
           Finish(i, files, e), UNCHANGED dir,
           dirs' \in SUBSET Transaction, journal' \in [Transaction -> Journal],
           backup' \in [Transaction -> Folder]
    PROVE TypeOK'
BY DEF Finish, AtRest, NoRequest, TypeOK, Journal, NoJournal, Run

(* The list after an operation is a list of files.                         *)
LEMMA FilesAfterType ==
    ASSUME TypeOK, NEW i \in Installations, NEW result
    PROVE FilesAfter(i, result) \in Folder
BY DEF FilesAfter, TypeOK, Folder, NoFiles

(* Every step of recoverTransactions keeps the types.                      *)
LEMMA TypeRecovery ==
    ASSUME TypeOK, NEW i \in Installations, Recovery(i)
    PROVE TypeOK'
<1> USE DEF disk, object, TypeOK
<1>1. CASE LookAt(i)
    <2>1. run[i] \in Run /\ NoJournal \in Journal
        BY DEF Journal, NoJournal
    <2>2. PICK t \in run[i].todo :
              \/ Recover(i, run[i].goal, run[i].todo \ {t}, run[i].result)
              \/ Work(i, "restore", t, journal[t], journal[t].previous)
              \/ Work(i, "erase", t, journal[t], {})
        BY <1>1 DEF LookAt
    <2>3. t \in Transaction /\ journal[t] \in Journal /\ journal[t].previous \in SUBSET Names
        BY <2>1 DEF Run, Journal
    <2>4. CASE Recover(i, run[i].goal, run[i].todo \ {t}, run[i].result)
        BY <1>1, <2>1, <2>4 DEF LookAt, Recover, Run
    <2>5. CASE Work(i, "restore", t, journal[t], journal[t].previous)
        BY <1>1, <2>1, <2>3, <2>5 DEF LookAt, Work, Run
    <2>6. CASE Work(i, "erase", t, journal[t], {})
        BY <1>1, <2>1, <2>3, <2>6 DEF LookAt, Work, Run
    <2> QED BY <2>2, <2>4, <2>5, <2>6
<1>2. CASE Restore(i)
    BY <1>2 DEF Restore, Goto, Work, Run, Folder
<1>3. CASE Withdraw(i)
    BY <1>3 DEF Withdraw, Goto, Work, Run, Folder
<1>4. CASE EraseItem(i)
    <2>1. NoJournal \in Journal
        BY DEF Journal, NoJournal
    <2>2. journal' \in [Transaction -> Journal]
        BY <1>4, <2>1 DEF EraseItem
    <2>3. backup' \in [Transaction -> Folder]
        <3>1. CASE backup' = backup
            BY <3>1
        <3>2. ASSUME NEW n \in Names, backup' = [backup EXCEPT ![run[i].txn][n] = None]
              PROVE backup' \in [Transaction -> Folder]
            BY <3>2 DEF Folder
        <3> QED BY <1>4, <3>1, <3>2 DEF EraseItem
    <2>4. UNCHANGED <<dir, dirs, run, installed, error, request, edits, met, overlooked>>
        BY <1>4 DEF EraseItem
    <2> QED BY <2>2, <2>3, <2>4
<1>5. CASE Erased(i)
    BY <1>5 DEF Erased, Recover, Run, Journal, NoJournal
<1>6. CASE RecoverFails(i)
    BY <1>6, TypeFinish, FilesAfterType DEF RecoverFails
<1> QED BY <1>1, <1>2, <1>3, <1>4, <1>5, <1>6 DEF Recovery

(* Every step of installVersion and commitData keeps the types.            *)
LEMMA TypeInstall ==
    ASSUME TypeOK, NEW i \in Installations, Install(i)
    PROVE TypeOK'
<1> USE DEF disk, object, TypeOK
<1>0. installed[i] \in Folder
    OBVIOUS
<1>1. CASE InstallVersion(i)
    <2>1. [AtRest EXCEPT !.pc = "download", !.goal = "download"] \in Run
          /\ [AtRest EXCEPT !.pc = "download", !.goal = "download"].pc = "download"
        BY DEF AtRest, Run, Journal, NoJournal
    <2>2. run' \in [Installations -> Run]
        BY <1>1, <2>1 DEF InstallVersion
    <2>3. run'[i].pc = "download" /\ \A j \in Installations \ {i} : run'[j] = run[j]
        BY <1>1, <2>1 DEF InstallVersion
    <2>4. request' \in [Installations -> [target : Names \cup {None}, data : Data \cup {None}]]
        BY <1>1 DEF InstallVersion
    <2> QED BY <1>1, <2>2, <2>3, <2>4 DEF InstallVersion
<1>2. CASE DownloadFails(i)
    BY <1>2, <1>0, TypeFinish DEF DownloadFails
<1>3. CASE CommitData(i)
    BY <1>3 DEF CommitData, CallRecover, Recover, Run, Journal, NoJournal
<1>4. CASE Verify(i)
    BY <1>4 DEF Verify, Previous, Work, Run, Journal, NoJournal
<1>5. CASE Refuse(i)
    BY <1>5, <1>0, TypeFinish DEF Refuse
<1>6. CASE BackUp(i)
    BY <1>6 DEF BackUp, Goto, Work, Run, Folder
<1>7. CASE BackUpFails(i)
    <2>1. backup' \in [Transaction -> Folder] /\ dirs' \in SUBSET Transaction
        <3>1. NoFiles \in Folder
            BY DEF NoFiles, Folder
        <3> QED BY <1>7, <3>1 DEF BackUpFails
    <2>2. Finish(i, installed[i], "failed") /\ UNCHANGED <<dir, journal>>
        BY <1>7 DEF BackUpFails
    <2> QED BY <1>0, <2>1, <2>2, TypeFinish
<1>8. CASE WriteJournal(i)
    BY <1>8 DEF WriteJournal, Previous, Goto, Work, Run, Journal
<1>9. CASE WriteTarget(i)
    BY <1>9 DEF WriteTarget, Previous, Goto, Work, Run, Folder
<1>10. CASE RemoveOld(i)
    BY <1>10 DEF RemoveOld, Goto, Work, Run, Folder
<1>11. CASE Complete(i)
    BY <1>11 DEF Complete, Previous, CallRecover, Recover, Run, Journal, NoJournal
<1>12. CASE CommitFails(i)
    <2>1. PICK todo \in {dirs, {}}, result \in {"failed", "recovery_error"} :
              Recover(i, "post", todo, result) /\ met' \in BOOLEAN /\ overlooked' \in BOOLEAN
        BY <1>12 DEF CommitFails, CallRecover
    <2> QED BY <1>12, <2>1 DEF CommitFails, Recover, Run, Journal, NoJournal
<1>13. CASE Installed(i)
    <2>1. FilesAfter(i, run[i].result) \in Folder
        BY FilesAfterType
    <2>2. run[i].result \in {"none", "failed", "recovery_error"}
        BY DEF Run
    <2>3. Finish(i, FilesAfter(i, run[i].result), run[i].result) /\ UNCHANGED disk
        BY <1>13 DEF Installed
    <2>4. UNCHANGED dir /\ dirs' \in SUBSET Transaction
          /\ journal' \in [Transaction -> Journal] /\ backup' \in [Transaction -> Folder]
        BY <2>3
    <2> HIDE DEF TypeOK
    <2> QED BY <2>1, <2>2, <2>3, <2>4, TypeFinish
<1> QED BY <1>1, <1>2, <1>3, <1>4, <1>5, <1>6, <1>7, <1>8, <1>9, <1>10,
           <1>11, <1>12, <1>13 DEF Install

(* Every step of the system keeps the types.                               *)
LEMMA TypeStep == TypeOK /\ [Next]_vars => TypeOK'
<1> SUFFICES ASSUME TypeOK, [Next]_vars PROVE TypeOK'
    OBVIOUS
<1> USE DEF disk, object
<1>1. ASSUME NEW i \in Installations, InspectWithVersions(i) PROVE TypeOK'
    BY <1>1 DEF InspectWithVersions, TypeOK, CallRecover, Recover, Run, Journal, NoJournal
<1>2. ASSUME NEW i \in Installations, Inspected(i) PROVE TypeOK'
    <2>1. [n \in Names |-> IF dir[n] \in Data /\ ProjectOf[dir[n]] = i
                           THEN dir[n] ELSE None] \in Folder
        BY DEF TypeOK, Folder
    <2>2. NoFiles \in Folder
        BY DEF NoFiles, Folder
    <2> QED BY <1>2, <2>1, <2>2, TypeFinish DEF Inspected, TypeOK
<1>3. CASE EditFile
    BY <1>3 DEF EditFile, TypeOK, Folder
<1>4. CASE Crash
    BY <1>4 DEF Crash, TypeOK, AtRest, Run, NoRequest, NoFiles, Folder, Journal, NoJournal
<1>5. CASE UNCHANGED vars
    BY <1>5 DEF vars, TypeOK
<1> QED BY <1>1, <1>2, <1>3, <1>4, <1>5, TypeRecovery, TypeInstall DEF Next

(* Every variable keeps its type, and an installation that works on a      *)
(* transaction has one, in every behaviour, whatever went wrong.            *)
THEOREM TypeCorrect == Spec => []TypeOK
BY TypeInit, TypeStep, PTL DEF Spec

-----------------------------------------------------------------------------
(* The journal protocol.                                                   *)

Recovering(i) == run[i].pc \in {"recover", "restore", "erase"}
Writing(i) == run[i].pc \in {"backup", "write", "remove"}

(* Every file journal j of transaction t names is as its rollback leaves it. *)
Back(t, j) ==
    /\ \A n \in j.previous : backup[t][n] \in {None, dir[n]}
    /\ \A n \in Names : n = j.target /\ n \notin j.previous => dir[n] = None

(* Every file transaction t has to restore is in its backup.               *)
Intact(t) == \A n \in journal[t].previous : backup[t][n] # None

OnePending == \A t, u \in Pending : t = u

(* Journals are files of transaction directories, at most one of them is   *)
(* pending, and a pending one can be rolled back or has been.              *)
DiskInv ==
    /\ Journalled \subseteq dirs
    /\ OnePending
    /\ \A t \in Pending : Intact(t) \/ Back(t, journal[t])

(* What the installation is doing, and whose files it keeps.               *)
GoalInv(i) ==
    /\ run[i].pc = "idle" <=> run[i].goal = "none"
    /\ run[i].pc = "download" <=> run[i].goal = "download"
    /\ Writing(i) => run[i].goal = "commit"
    /\ i \in Busy =>
          /\ request[i].target \in Names
          /\ request[i].data \in Data
          /\ ProjectOf[request[i].data] = i
    /\ \A n \in Previous(i) : ProjectOf[installed[i][n]] = i
    /\ error[i] = "recovery_error" => Idle(i)

(* One installation at a time downloads and commits, and during the commit *)
(* no page inspects.                                                       *)
Alone ==
    /\ \A i \in Busy : Busy = {i}
    /\ Committing = {} \/ Checking = {}

(* A recovery has still to look at every journal. What it restores is      *)
(* pending, or another page has rolled it back; what it erases is rolled   *)
(* back. After a successful install it finds complete journals only.       *)
RecoverInv(i) ==
    /\ Recovering(i) => Journalled \subseteq run[i].todo
    /\ run[i].pc = "restore" =>
          /\ run[i].left \subseteq run[i].journal.previous
          /\ \A n \in run[i].journal.previous \ run[i].left :
                backup[run[i].txn][n] \in {None, dir[n]}
          /\ \/ run[i].txn \in Pending /\ run[i].journal = journal[run[i].txn]
             \/ Pending = {} /\ Back(run[i].txn, run[i].journal)
    /\ run[i].pc = "erase" /\ run[i].txn \in Pending =>
          Back(run[i].txn, journal[run[i].txn])
    /\ Recovering(i) /\ run[i].goal = "post" /\ run[i].result = "none" =>
          Pending = {} /\ dir[request[i].target] = request[i].data

(* An install runs on a recovered folder, backs up before it journals, and *)
(* has written and removed what is not left to do.                         *)
CommitInv(i) ==
    /\ run[i].pc = "backup" =>
          /\ Journalled = {}
          /\ run[i].txn \in dirs
          /\ run[i].left \subseteq Previous(i)
          /\ \A n \in Previous(i) : dir[n] = installed[i][n]
          /\ \A n \in Previous(i) \ run[i].left : backup[run[i].txn][n] = dir[n]
          /\ request[i].target \notin Previous(i) => dir[request[i].target] = None
    /\ run[i].pc \in {"write", "remove"} =>
          /\ Journalled = {run[i].txn}
          /\ journal[run[i].txn] = [state |-> "pending", target |-> request[i].target,
                                    previous |-> Previous(i)]
          /\ \A n \in Previous(i) : backup[run[i].txn][n] = installed[i][n]
    /\ run[i].pc = "remove" =>
          /\ run[i].left \subseteq Previous(i) \ {request[i].target}
          /\ dir[request[i].target] = request[i].data
          /\ \A n \in Previous(i) \ (run[i].left \cup {request[i].target}) : dir[n] = None

(* After a failed install the recovery has the replaced files in the       *)
(* backup, or back in the folder.                                          *)
PostInv(i) ==
    Recovering(i) /\ run[i].goal = "post" /\ run[i].result # "none" =>
        /\ Journalled = Pending
        /\ \A t \in Pending : journal[t].previous = Previous(i)
        /\ run[i].pc # "erase" =>
              \A t \in Pending : \A n \in Previous(i) : backup[t][n] = installed[i][n]
        /\ run[i].pc = "restore" =>
              run[i].txn \in Pending
              /\ \A n \in Previous(i) \ run[i].left : dir[n] = installed[i][n]
        /\ run[i].pc = "erase" => Pending \subseteq {run[i].txn}
        /\ run[i].pc = "erase" \/ Pending = {} =>
              \A n \in Previous(i) : dir[n] = installed[i][n]

(* A list that the page shows is what the folder holds, and neither a      *)
(* rollback nor an install touches a file of it.                           *)
Listed(j) == Idle(j) /\ error[j] \in {"none", "recovery_error"}

ListInv(j) ==
    edits = 0 /\ Listed(j) => \A n \in Previous(j) :
        /\ dir[n] = installed[j][n]
        /\ \A t \in Pending : n \notin journal[t].previous /\ n # journal[t].target
        /\ \A i \in Installations :
              Writing(i) => n \notin Previous(i) /\ n # request[i].target

IInv ==
    /\ TypeOK /\ DiskInv /\ Alone
    /\ \A i \in Installations :
          GoalInv(i) /\ RecoverInv(i) /\ CommitInv(i) /\ PostInv(i) /\ ListInv(i)

-----------------------------------------------------------------------------
(* What a step leaves alone, and the parts of the invariant this keeps.    *)

(* A step of installation i changes no other one.                          *)
Others(i) ==
    \A j \in Installations \ {i} :
        /\ run'[j] = run[j]
        /\ installed'[j] = installed[j]
        /\ error'[j] = error[j]
        /\ request'[j] = request[j]

(* All of the invariant that is about installation j alone.                *)
Own(j) == GoalInv(j) /\ RecoverInv(j) /\ CommitInv(j) /\ PostInv(j)

(* Going on with the same call changes one run record.                     *)
LEMMA WorkEffect ==
    ASSUME TypeOK, NEW i \in Installations, NEW pc, NEW txn, NEW journalRead, NEW left,
           Work(i, pc, txn, journalRead, left), UNCHANGED object
    PROVE /\ Others(i)
          /\ run'[i].pc = pc /\ run'[i].txn = txn /\ run'[i].journal = journalRead
          /\ run'[i].left = left /\ run'[i].goal = run[i].goal
          /\ run'[i].todo = run[i].todo /\ run'[i].result = run[i].result
BY DEF Work, Others, object, TypeOK

(* So does calling the recovery, or its next round.                        *)
LEMMA RecoverEffect ==
    ASSUME TypeOK, NEW i \in Installations, NEW goal, NEW todo, NEW result,
           Recover(i, goal, todo, result)
    PROVE /\ \A j \in Installations \ {i} : run'[j] = run[j]
          /\ run'[i].pc = "recover" /\ run'[i].goal = goal
          /\ run'[i].todo = todo /\ run'[i].result = result
BY DEF Recover, TypeOK

(* And the end of an operation.                                            *)
LEMMA FinishEffect ==
    ASSUME TypeOK, NEW i \in Installations, NEW files, NEW e, Finish(i, files, e)
    PROVE /\ Others(i)
          /\ run'[i].pc = "idle" /\ run'[i].goal = "none"
          /\ installed'[i] = files /\ error'[i] = e /\ edits' = edits
BY DEF Finish, AtRest, Others, TypeOK

(* The recovery that an inspection or a commit calls has every journal to  *)
(* look at, as long as nothing is overlooked; no inspection then begins    *)
(* during a commit, and no commit during an inspection.                    *)
LEMMA CalmRecover ==
    ASSUME Journalled \subseteq dirs, NEW i \in Installations, NEW goal, NEW result,
           CallRecover(i, goal, result), Calm'
    PROVE /\ \E todo : Recover(i, goal, todo, result) /\ Journalled \subseteq todo
          /\ goal = "inspect" => Committing = {}
          /\ goal = "commit" => Checking = {}
<1>1. PICK todo \in {dirs, {}} :
          /\ Recover(i, goal, todo, result)
          /\ Journalled \cap (dirs \ todo) = {}
    BY DEF CallRecover, Calm
<1>2. Journalled \subseteq todo
    BY <1>1
<1>3. /\ goal = "inspect" => Committing = {}
      /\ goal = "commit" => Checking = {}
    BY DEF CallRecover, Calm
<1> QED BY <1>1, <1>2, <1>3

(* Only one installation downloads or commits.                             *)
LEMMA OneInstalls ==
    ASSUME IInv, NEW i \in Busy, NEW j \in Installations \ {i}
    PROVE j \notin Busy /\ ~Writing(j)
<1>1. j \notin Busy
    BY DEF IInv, Alone
<1>2. Writing(j) => j \in Busy
    BY DEF IInv, GoalInv, Busy
<1> QED BY <1>1, <1>2

(* While one installation commits, the others rest.                        *)
LEMMA Bystander ==
    ASSUME IInv, NEW i \in Committing, NEW j \in Installations \ {i}
    PROVE run[j].goal = "none" /\ run[j].pc = "idle"
<1>1. j \notin Busy /\ j \notin Checking
    BY DEF IInv, Alone, Committing, Busy
<1>2. run[j].goal \in {"none", "inspect", "download", "commit", "post"}
    BY DEF IInv, TypeOK, Run
<1>3. run[j].goal = "none"
    BY <1>1, <1>2 DEF Busy, Checking
<1> QED BY <1>3 DEF IInv, GoalInv

(* While a page inspects, no installation commits.                         *)
LEMMA Inspectors ==
    ASSUME IInv, NEW i \in Checking, NEW j \in Installations
    PROVE run[j].goal \in {"none", "inspect", "download"} /\ ~Writing(j)
<1>1. j \notin Committing
    BY DEF IInv, Alone
<1>2. run[j].goal \in {"none", "inspect", "download", "commit", "post"}
    BY DEF IInv, TypeOK, Run
<1>3. Writing(j) => run[j].goal = "commit"
    BY DEF IInv, GoalInv
<1> QED BY <1>1, <1>2, <1>3 DEF Committing

(* What an installation is doing and whose files it has is its own.        *)
LEMMA OthersGoal ==
    ASSUME IInv, NEW i \in Installations, Others(i), NEW j \in Installations \ {i}
    PROVE GoalInv(j)'
<1>1. GoalInv(j) /\ run'[j] = run[j] /\ installed'[j] = installed[j]
      /\ error'[j] = error[j] /\ request'[j] = request[j]
    BY DEF IInv, Others
<1> QED BY <1>1 DEF GoalInv, Writing, Recovering, Busy, Previous, Idle

(* A commit does not disturb the others.                                   *)
LEMMA OthersOfInstall ==
    ASSUME IInv, NEW i \in Committing, Others(i), NEW j \in Installations \ {i}
    PROVE Own(j)'
<1>1. i \in Installations
    BY DEF Committing
<1>2. run'[j].pc = "idle"
    BY Bystander DEF Others
<1>3. GoalInv(j)'
    BY <1>1, OthersGoal
<1> QED BY <1>2, <1>3 DEF Own, RecoverInv, CommitInv, PostInv, Recovering

(* Nor does a step that leaves the disk alone.                             *)
LEMMA OthersOfSameDisk ==
    ASSUME IInv, NEW i \in Installations, Others(i), UNCHANGED disk,
           NEW j \in Installations \ {i}
    PROVE Own(j)'
<1>1. GoalInv(j)'
    BY OthersGoal
<1>2. Own(j) /\ run'[j] = run[j] /\ installed'[j] = installed[j]
      /\ error'[j] = error[j] /\ request'[j] = request[j]
    BY DEF IInv, Own, Others
<1>3. RecoverInv(j)'
    BY <1>2 DEF Own, RecoverInv, Recovering, Journalled, Pending, Back, disk
<1>4. CommitInv(j)'
    BY <1>2 DEF Own, CommitInv, Journalled, Previous, disk
<1>5. PostInv(j)'
    BY <1>2 DEF Own, PostInv, Recovering, Journalled, Pending, Previous, disk
<1> QED BY <1>1, <1>3, <1>4, <1>5 DEF Own

(* A step of an inspection leaves the others what they were doing; none of *)
(* them is committing.                                                     *)
LEMMA OthersOfInspection ==
    ASSUME IInv, NEW i \in Checking, Others(i), NEW j \in Installations \ {i},
           RecoverInv(j)'
    PROVE Own(j)'
<1>1. i \in Installations
    BY DEF Checking
<1>2. GoalInv(j)'
    BY <1>1, OthersGoal
<1>3. run'[j].goal \in {"none", "inspect", "download"}
    BY Inspectors DEF Others
<1>4. (CommitInv(j) /\ PostInv(j))'
    BY <1>2, <1>3 DEF GoalInv, Writing, CommitInv, PostInv
<1> QED BY <1>2, <1>4 DEF Own

(* The disk's part needs only the disk.                                    *)
LEMMA SameDisk == DiskInv /\ UNCHANGED disk => DiskInv'
BY DEF DiskInv, Journalled, OnePending, Pending, Intact, Back, disk

(* A list another page shows stays current: nothing touches its files.     *)
LEMMA OthersList ==
    ASSUME IInv, NEW i \in Installations, Others(i), edits' = edits,
           NEW j \in Installations \ {i},
           edits = 0 /\ Listed(j) => \A n \in Previous(j) : dir'[n] = dir[n],
           \A t \in Pending' : t \in Pending /\ journal'[t] = journal[t],
           Writing(i)' => Writing(i) /\ installed'[i] = installed[i]
                             /\ request'[i] = request[i]
    PROVE ListInv(j)'
<1> SUFFICES ASSUME (edits = 0 /\ Listed(j))', NEW n \in Previous(j)'
             PROVE /\ dir'[n] = installed'[j][n]
                   /\ \A t \in Pending' : n \notin journal'[t].previous /\ n # journal'[t].target
                   /\ \A k \in Installations :
                         Writing(k)' => n \notin Previous(k)' /\ n # request'[k].target
    BY DEF ListInv
<1>1. edits = 0 /\ Listed(j) /\ n \in Previous(j)
    BY DEF Listed, Idle, Others, Previous
<1>2. /\ dir[n] = installed[j][n]
      /\ \A t \in Pending : n \notin journal[t].previous /\ n # journal[t].target
      /\ \A k \in Installations :
            Writing(k) => n \notin Previous(k) /\ n # request[k].target
    BY <1>1 DEF IInv, ListInv
<1>3. dir'[n] = installed'[j][n]
    BY <1>1, <1>2 DEF Others
<1>4. \A k \in Installations :
          Writing(k)' => n \notin Previous(k)' /\ n # request'[k].target
    BY <1>2 DEF Others, Writing, Previous
<1> QED BY <1>2, <1>3, <1>4

(* The invariant, put together from its parts.                             *)
LEMMA Whole ==
    ASSUME TypeOK', DiskInv', Alone', NEW i \in Installations,
           Own(i)', ListInv(i)',
           \A j \in Installations \ {i} : Own(j)' /\ ListInv(j)'
    PROVE IInv'
BY DEF IInv, Own

-----------------------------------------------------------------------------
(* Each step keeps the invariant.                                          *)

(* The step of i ends its operation, or continues the one it was in.       *)
GoalKept(i) ==
    \/ run'[i].goal = "none"
    \/ i \in Committing /\ run'[i].goal \in {"commit", "post"}
    \/ i \in Checking /\ run'[i].goal = "inspect"

(* Such a step makes no two installations busy, and lets none inspect      *)
(* beside a commit.                                                        *)
LEMMA AloneKept ==
    ASSUME IInv, NEW i \in Installations, Others(i), GoalKept(i)
    PROVE Alone'
<1>1. \A j \in Installations \ {i} : run'[j] = run[j]
    BY DEF Others
<1>2. Busy' \subseteq Busy /\ Committing' \subseteq Committing /\ Checking' \subseteq Checking
    BY <1>1 DEF GoalKept, Busy, Committing, Checking
<1> QED BY <1>2 DEF IInv, Alone

(* An operation that ends leaves the invariant, if it shows a list only of *)
(* files that are there, with no journal pending.                          *)
LEMMA Finishing ==
    ASSUME IInv, TypeOK', NEW i \in Busy \cup Checking,
           NEW files \in Folder, NEW e \in {"none", "failed", "recovery_error"},
           Finish(i, files, e), DiskInv', dir' = dir, journal' = journal,
           UNCHANGED disk \/ i \in Committing,
           \A n \in Names : files[n] # None => ProjectOf[files[n]] = i,
           edits = 0 /\ e # "failed" =>
               Pending = {} /\ \A n \in Names : files[n] # None => dir[n] = files[n]
    PROVE IInv'
<1>0. i \in Installations
    BY DEF Busy, Checking
<1>1. /\ Others(i)
      /\ run'[i].pc = "idle" /\ run'[i].goal = "none"
      /\ installed'[i] = files /\ error'[i] = e /\ edits' = edits
    BY <1>0, FinishEffect DEF IInv
<1>2. Alone'
    <2>1. GoalKept(i)
        BY <1>1 DEF GoalKept
    <2> QED BY <1>0, <1>1, <2>1, AloneKept
<1>3. Own(i)'
    BY <1>1 DEF Own, GoalInv, RecoverInv, CommitInv, PostInv, Recovering, Writing,
        Idle, Busy, Previous
<1>4. Pending' = Pending
    BY DEF Pending
<1>5. ListInv(i)'
    <2>1. \A k \in Installations : ~Writing(k)'
        <3> SUFFICES ASSUME NEW k \in Installations, k # i PROVE ~Writing(k)'
            BY <1>1 DEF Writing
        <3>1. ~Writing(k)
            BY OneInstalls, Inspectors
        <3> QED BY <1>1, <3>1 DEF Others, Writing
    <2> QED BY <1>1, <1>4, <2>1 DEF ListInv, Listed, Previous
<1>6. ASSUME NEW j \in Installations \ {i} PROVE Own(j)' /\ ListInv(j)'
    <2>1. Own(j)'
        BY <1>0, <1>1, OthersOfInstall, OthersOfSameDisk
    <2>2. ~Writing(i)'
        BY <1>1 DEF Writing
    <2>3. ListInv(j)'
        BY <1>0, <1>1, <1>4, <2>2, OthersList
    <2> QED BY <2>1, <2>3
<1> QED BY <1>0, <1>2, <1>3, <1>5, <1>6, Whole

(* A step that leaves the disk alone and shows no list.                    *)
LEMMA Thinking ==
    ASSUME IInv, TypeOK', NEW i \in Installations, Others(i), UNCHANGED disk,
           edits' = edits, ~Idle(i)', ~Writing(i)', Alone', Own(i)'
    PROVE IInv'
<1>1. DiskInv'
    BY SameDisk DEF IInv
<1>2. ListInv(i)'
    BY DEF ListInv, Listed
<1>3. \A j \in Installations \ {i} : Own(j)'
    BY OthersOfSameDisk
<1>4. \A j \in Installations \ {i} : ListInv(j)'
    <2>1. \A t \in Pending' : t \in Pending /\ journal'[t] = journal[t]
        BY DEF Pending, disk
    <2>2. dir' = dir
        BY DEF disk
    <2> QED BY <2>1, <2>2, OthersList
<1> QED BY <1>1, <1>2, <1>3, <1>4, Whole

(* A recovery that has looked at everything leaves no journal.             *)
LEMMA RecoveredDisk ==
    ASSUME IInv, NEW i \in Installations, Recovered(i)
    PROVE Journalled = {} /\ Pending = {}
<1>1. Journalled = {}
    BY DEF IInv, RecoverInv, Recovering, Recovered
<1> QED BY <1>1 DEF Journalled, Pending

(* The list an installation has is of its own project.                     *)
LEMMA OwnFiles ==
    ASSUME IInv, NEW i \in Installations
    PROVE installed[i] \in Folder
          /\ \A n \in Names : installed[i][n] # None => ProjectOf[installed[i][n]] = i
<1>1. \A n \in Previous(i) : ProjectOf[installed[i][n]] = i
    BY DEF IInv, GoalInv
<1> QED BY <1>1 DEF IInv, TypeOK, Previous

(* Steps at rest and after a recovery that change no file.                 *)
LEMMA InvInspectWithVersions ==
    ASSUME IInv, TypeOK', Calm', NEW i \in Installations, InspectWithVersions(i)
    PROVE IInv'
<1>0. TypeOK /\ Journalled \subseteq dirs /\ Alone
    BY DEF IInv, DiskInv
<1>1. PICK todo : Recover(i, "inspect", todo, "none") /\ Journalled \subseteq todo
    BY <1>0, CalmRecover DEF InspectWithVersions
<1>2. UNCHANGED disk /\ UNCHANGED <<installed, request, edits>>
      /\ error' = [error EXCEPT ![i] = "none"] /\ Committing = {} /\ Idle(i)
    BY <1>0, CalmRecover DEF InspectWithVersions
<1>3. /\ \A j \in Installations \ {i} : run'[j] = run[j]
      /\ run'[i].pc = "recover" /\ run'[i].goal = "inspect" /\ run'[i].todo = todo
    BY <1>0, <1>1, RecoverEffect
<1>4. Others(i)
    BY <1>0, <1>2, <1>3 DEF Others, TypeOK
<1>5. Alone'
    <2>1. Busy' \subseteq Busy /\ Committing' = {}
        BY <1>2, <1>3 DEF Busy, Committing
    <2> QED BY <1>0, <2>1 DEF Alone
<1>6. error'[i] = "none"
    BY <1>0, <1>2 DEF TypeOK
<1>7. Own(i)'
    <2>1. GoalInv(i)
        BY DEF IInv
    <2>2. GoalInv(i)'
        BY <1>2, <1>3, <1>6, <2>1 DEF GoalInv, Writing, Busy, Previous
    <2>3. RecoverInv(i)'
        BY <1>1, <1>2, <1>3 DEF RecoverInv, Recovering, Journalled, disk
    <2>4. CommitInv(i)' /\ PostInv(i)'
        BY <1>3 DEF CommitInv, PostInv
    <2> QED BY <2>2, <2>3, <2>4 DEF Own
<1> QED BY <1>2, <1>3, <1>4, <1>5, <1>7, Thinking DEF Idle, Writing

(* An inspection ends with the list of what is there, or with an error and *)
(* no list.                                                                *)
LEMMA InvInspected ==
    ASSUME IInv, TypeOK', NEW i \in Installations, Inspected(i)
    PROVE IInv'
<1>1. i \in Checking /\ Recovered(i) /\ UNCHANGED disk
    BY DEF Inspected, Checking
<1>2. Pending = {}
    BY <1>1, RecoveredDisk
<1>3. DiskInv'
    BY <1>1, SameDisk DEF IInv
<1> DEFINE files == [n \in Names |-> IF dir[n] \in Data /\ ProjectOf[dir[n]] = i
                                    THEN dir[n] ELSE None]
<1>4. CASE Finish(i, files, "none")
    <2>1. files \in Folder
        BY DEF Folder
    <2>2. \A n \in Names : files[n] # None => dir[n] = files[n] /\ ProjectOf[files[n]] = i
        OBVIOUS
    <2> HIDE DEF files
    <2> QED BY <1>1, <1>2, <1>3, <1>4, <2>1, <2>2, Finishing DEF disk
<1>5. CASE Finish(i, NoFiles, "failed")
    <2>1. NoFiles \in Folder /\ \A n \in Names : NoFiles[n] = None
        BY DEF Folder, NoFiles
    <2> QED BY <1>1, <1>2, <1>3, <1>5, <2>1, Finishing DEF disk
<1> QED BY <1>4, <1>5 DEF Inspected

(* An installation begins to download when no other one is busy.           *)
LEMMA InvInstallVersion ==
    ASSUME IInv, TypeOK', NEW i \in Installations, InstallVersion(i)
    PROVE IInv'
<1>0. TypeOK
    BY DEF IInv
<1>1. PICK n \in Names, d \in Data :
          ProjectOf[d] = i /\ request' = [request EXCEPT ![i] = [target |-> n, data |-> d]]
    BY DEF InstallVersion
<1>2. /\ UNCHANGED disk /\ UNCHANGED <<installed, error, edits>>
      /\ run' = [run EXCEPT ![i] = [AtRest EXCEPT !.pc = "download", !.goal = "download"]]
      /\ Busy = {} /\ Idle(i) /\ error[i] = "none"
    BY DEF InstallVersion
<1>3. /\ \A j \in Installations \ {i} : run'[j] = run[j]
      /\ run'[i].pc = "download" /\ run'[i].goal = "download"
    BY <1>0, <1>2 DEF TypeOK, AtRest
<1>4. request'[i] = [target |-> n, data |-> d]
      /\ \A j \in Installations \ {i} : request'[j] = request[j]
    BY <1>0, <1>1 DEF TypeOK
<1>5. Others(i)
    BY <1>2, <1>3, <1>4 DEF Others
<1>6. Alone'
    <2>1. Busy' = {i} /\ Committing' = {}
        BY <1>2, <1>3 DEF Busy, Committing
    <2> QED BY <2>1 DEF Alone
<1>7. Own(i)'
    <2>1. GoalInv(i)
        BY DEF IInv
    <2>2. GoalInv(i)'
        BY <1>1, <1>2, <1>3, <1>4, <2>1 DEF GoalInv, Writing, Busy, Previous
    <2> QED BY <1>3, <2>2 DEF Own, RecoverInv, CommitInv, PostInv, Recovering
<1> QED BY <1>2, <1>3, <1>5, <1>6, <1>7, Thinking DEF Idle, Writing

(* A download that fails, and an install that is refused, keep the list.   *)
LEMMA InvDownloadFails ==
    ASSUME IInv, TypeOK', NEW i \in Installations, DownloadFails(i) \/ Refuse(i)
    PROVE IInv'
<1>1. i \in Busy
    BY DEF DownloadFails, Refuse, IInv, GoalInv, Busy
<1>2. Finish(i, installed[i], "failed") /\ UNCHANGED disk
    BY DEF DownloadFails, Refuse
<1>3. DiskInv'
    BY <1>2, SameDisk DEF IInv
<1> QED BY <1>1, <1>2, <1>3, OwnFiles, Finishing DEF disk

(* A verified download is committed after a recovery, which has every      *)
(* journal to look at.                                                     *)
LEMMA InvCommitData ==
    ASSUME IInv, TypeOK', Calm', NEW i \in Installations, CommitData(i)
    PROVE IInv'
<1>0. TypeOK /\ Journalled \subseteq dirs
    BY DEF IInv, DiskInv
<1>1. UNCHANGED disk /\ UNCHANGED <<object, edits>> /\ run[i].pc = "download"
      /\ Checking = {}
    BY <1>0, CalmRecover DEF CommitData
<1>7. PICK todo : Recover(i, "commit", todo, "none") /\ Journalled \subseteq todo
    BY <1>0, CalmRecover DEF CommitData
<1>2. /\ \A j \in Installations \ {i} : run'[j] = run[j]
      /\ run'[i].pc = "recover" /\ run'[i].goal = "commit" /\ run'[i].todo = todo
    BY <1>0, <1>7, RecoverEffect
<1>3. Others(i)
    BY <1>1, <1>2 DEF Others, object
<1>4. i \in Busy /\ GoalInv(i)
    BY <1>1 DEF IInv, GoalInv, Busy
<1>5. Alone'
    <2>1. Busy' \subseteq Busy /\ Checking' = {}
        BY <1>1, <1>2, <1>4 DEF Busy, Checking
    <2> QED BY <2>1 DEF IInv, Alone
<1>6. Own(i)'
    <2>1. GoalInv(i)'
        BY <1>1, <1>2, <1>4 DEF GoalInv, Writing, Busy, Previous, object, Idle
    <2>2. RecoverInv(i)'
        BY <1>1, <1>2, <1>7 DEF RecoverInv, Recovering, Journalled, disk
    <2>3. CommitInv(i)' /\ PostInv(i)'
        BY <1>2 DEF CommitInv, PostInv
    <2> QED BY <2>1, <2>2, <2>3 DEF Own
<1> QED BY <1>1, <1>2, <1>3, <1>5, <1>6, Thinking DEF Idle, Writing

(* An install ends with the new file as its list, or with the old list,    *)
(* which the recovery has put back.                                        *)
LEMMA InvInstalled ==
    ASSUME IInv, TypeOK', NEW i \in Installations, Installed(i)
    PROVE IInv'
<1>0. TypeOK
    BY DEF IInv
<1>1. /\ run[i].goal = "post" /\ run[i].pc = "recover" /\ Recovered(i) /\ UNCHANGED disk
      /\ Finish(i, FilesAfter(i, run[i].result), run[i].result)
    BY DEF Installed, Recovered
<1>2. i \in Busy /\ Pending = {}
    BY <1>1, RecoveredDisk DEF Busy
<1>3. DiskInv'
    BY <1>1, SameDisk DEF IInv
<1>4. run[i].result \in {"none", "failed", "recovery_error"}
    BY <1>0 DEF TypeOK, Run
<1>5. RecoverInv(i) /\ GoalInv(i) /\ PostInv(i)
    BY DEF IInv
<1>6. CASE run[i].result = "none"
    <2> DEFINE files == [NoFiles EXCEPT ![request[i].target] = request[i].data]
    <2>1. request[i].target \in Names /\ request[i].data \in Data
          /\ ProjectOf[request[i].data] = i
          /\ dir[request[i].target] = request[i].data
        BY <1>1, <1>2, <1>5, <1>6 DEF GoalInv, RecoverInv, Recovering
    <2>2. files \in Folder /\ \A n \in Names : files[n] # None =>
              n = request[i].target /\ files[n] = request[i].data
        BY <2>1 DEF NoFiles, Folder
    <2>3. Finish(i, files, "none")
        BY <1>1, <1>6 DEF FilesAfter
    <2> HIDE DEF files
    <2> QED BY <1>1, <1>2, <1>3, <2>1, <2>2, <2>3, Finishing DEF disk
<1>7. CASE run[i].result # "none"
    <2>1. FilesAfter(i, run[i].result) = installed[i]
        BY <1>1, <1>7 DEF FilesAfter
    <2>2. \A n \in Names : installed[i][n] # None => dir[n] = installed[i][n]
        BY <1>1, <1>2, <1>5, <1>7 DEF PostInv, Recovering, Previous
    <2> QED BY <1>1, <1>2, <1>3, <1>4, <2>1, <2>2, OwnFiles, Finishing DEF disk
<1> QED BY <1>6, <1>7

(* A recovery that fails shows no list, unless the install was a success.  *)
LEMMA InvRecoverFails ==
    ASSUME IInv, TypeOK', NEW i \in Installations, RecoverFails(i)
    PROVE IInv'
<1>0. TypeOK
    BY DEF IInv
<1>1. run[i].pc \in {"restore", "erase"} /\ UNCHANGED disk /\ Recovering(i)
    BY DEF RecoverFails, Recovering
<1>2. i \in Busy \cup Checking
    <2>1. run[i].goal # "none"
        BY <1>1 DEF IInv, GoalInv
    <2>2. run[i].goal \in {"none", "inspect", "download", "commit", "post"}
        BY <1>0 DEF TypeOK, Run
    <2> QED BY <2>1, <2>2 DEF Busy, Checking
<1>3. DiskInv'
    BY <1>1, SameDisk DEF IInv
<1>4. RecoverInv(i) /\ GoalInv(i)
    BY DEF IInv
<1>5. CASE run[i].goal = "post" /\ run[i].result = "none"
    <2> DEFINE files == [NoFiles EXCEPT ![request[i].target] = request[i].data]
    <2>1. request[i].target \in Names /\ request[i].data \in Data
          /\ ProjectOf[request[i].data] = i
          /\ Pending = {} /\ dir[request[i].target] = request[i].data
        BY <1>1, <1>4, <1>5 DEF GoalInv, Busy, RecoverInv
    <2>2. files \in Folder /\ \A n \in Names : files[n] # None =>
              n = request[i].target /\ files[n] = request[i].data
        BY <2>1 DEF NoFiles, Folder
    <2>3. Finish(i, files, "none")
        BY <1>5 DEF RecoverFails, FilesAfter
    <2> HIDE DEF files
    <2> QED BY <1>1, <1>2, <1>3, <2>1, <2>2, <2>3, Finishing DEF disk
<1>6. CASE ~(run[i].goal = "post" /\ run[i].result = "none")
    <2>1. Finish(i, FilesAfter(i, "failed"), "failed")
        BY <1>6 DEF RecoverFails
    <2>2. FilesAfter(i, "failed") \in {NoFiles, installed[i]}
        BY DEF FilesAfter
    <2>3. NoFiles \in Folder /\ \A n \in Names : NoFiles[n] = None
        BY DEF NoFiles, Folder
    <2>4. FilesAfter(i, "failed") \in Folder
          /\ \A n \in Names : FilesAfter(i, "failed")[n] # None =>
                 ProjectOf[FilesAfter(i, "failed")[n]] = i
        BY <2>2, <2>3, OwnFiles
    <2> QED BY <1>1, <1>2, <1>3, <2>1, <2>4, Finishing DEF disk
<1> QED BY <1>5, <1>6

(* The recovery reads a journal and goes on to restore or to erase.        *)
LEMMA InvLookAt ==
    ASSUME IInv, TypeOK', Calm', NEW i \in Installations, LookAt(i)
    PROVE IInv'
<1>0. TypeOK
    BY DEF IInv
<1>1. run[i].pc = "recover" /\ UNCHANGED disk /\ UNCHANGED <<object, edits>>
    BY DEF LookAt
<1>2. GoalInv(i) /\ RecoverInv(i) /\ PostInv(i) /\ Journalled \subseteq run[i].todo
    BY <1>1 DEF IInv, RecoverInv, Recovering
<1>9. PICK t \in run[i].todo :
          \/ /\ Recover(i, run[i].goal, run[i].todo \ {t}, run[i].result)
             /\ overlooked' = (overlooked \/ t \in Journalled)
          \/ /\ journal[t].state = "pending"
             /\ Work(i, "restore", t, journal[t], journal[t].previous)
          \/ /\ journal[t].state = "complete"
             /\ Work(i, "erase", t, journal[t], {})
    BY DEF LookAt
<1>10. ~overlooked'
    BY DEF Calm
<1>3.     \/ /\ t \notin Journalled
             /\ Recover(i, run[i].goal, run[i].todo \ {t}, run[i].result)
          \/ /\ journal[t].state = "pending"
             /\ Work(i, "restore", t, journal[t], journal[t].previous)
          \/ /\ journal[t].state = "complete"
             /\ Work(i, "erase", t, journal[t], {})
    BY <1>9, <1>10
<1>4. t \in Transaction
    BY <1>0, <1>9 DEF TypeOK, Run
<1>5. /\ Others(i)
      /\ run'[i].pc \in {"recover", "restore", "erase"}
      /\ run'[i].goal = run[i].goal /\ run'[i].result = run[i].result
    <2>1. CASE Recover(i, run[i].goal, run[i].todo \ {t}, run[i].result)
        BY <1>0, <1>1, <2>1, RecoverEffect DEF Others, object
    <2>2. CASE Work(i, "restore", t, journal[t], journal[t].previous)
        BY <1>0, <1>1, <2>2, WorkEffect
    <2>3. CASE Work(i, "erase", t, journal[t], {})
        BY <1>0, <1>1, <2>3, WorkEffect
    <2> QED BY <1>3, <2>1, <2>2, <2>3
<1>6. Alone'
    <2>1. run[i].goal \in {"inspect", "commit", "post"}
        <3>1. run[i].goal \in {"none", "inspect", "download", "commit", "post"}
            BY <1>0 DEF TypeOK, Run
        <3> QED BY <1>1, <1>2, <3>1 DEF GoalInv
    <2>2. GoalKept(i)
        BY <1>5, <2>1 DEF GoalKept, Committing, Checking
    <2> QED BY <1>5, <2>2, AloneKept
<1>7. GoalInv(i)' /\ CommitInv(i)'
    BY <1>1, <1>2, <1>5 DEF GoalInv, CommitInv, Writing, Busy, Previous, object, Idle
<1>8. RecoverInv(i)' /\ PostInv(i)'
    <2> USE DEF RecoverInv, PostInv, Recovering, Journalled, Pending, Previous, disk, object
    <2>1. CASE t \notin Journalled /\ Recover(i, run[i].goal, run[i].todo \ {t}, run[i].result)
        <3>1. run'[i].pc = "recover" /\ run'[i].todo = run[i].todo \ {t}
            BY <1>0, <2>1, RecoverEffect
        <3> QED BY <1>1, <1>2, <1>5, <2>1, <3>1
    <2>2. CASE journal[t].state = "pending" /\ Work(i, "restore", t, journal[t], journal[t].previous)
        <3>1. /\ run'[i].pc = "restore" /\ run'[i].txn = t /\ run'[i].journal = journal[t]
              /\ run'[i].left = journal[t].previous /\ run'[i].todo = run[i].todo
            BY <1>0, <1>1, <2>2, WorkEffect
        <3> QED BY <1>1, <1>2, <1>4, <1>5, <2>2, <3>1
    <2>3. CASE journal[t].state = "complete" /\ Work(i, "erase", t, journal[t], {})
        <3>1. /\ run'[i].pc = "erase" /\ run'[i].txn = t /\ run'[i].todo = run[i].todo
            BY <1>0, <1>1, <2>3, WorkEffect
        <3>2. t \in Journalled /\ t \notin Pending
            BY <1>4, <2>3
        <3> QED BY <1>1, <1>2, <1>4, <1>5, <2>3, <3>1, <3>2
    <2> QED BY <1>3, <2>1, <2>2, <2>3
<1> QED BY <1>1, <1>5, <1>6, <1>7, <1>8, Thinking DEF Idle, Writing, Own

(* After a failed write the recovery finds the journal and the backups.    *)
LEMMA InvCommitFails ==
    ASSUME IInv, TypeOK', Calm', NEW i \in Installations, CommitFails(i)
    PROVE IInv'
<1>0. TypeOK /\ Journalled \subseteq dirs
    BY DEF IInv, DiskInv
<1>8. PICK result \in {"failed", "recovery_error"} : CallRecover(i, "post", result)
    BY DEF CommitFails
<1>1. PICK todo : Recover(i, "post", todo, result) /\ Journalled \subseteq todo
    BY <1>0, <1>8, CalmRecover
<1>2. UNCHANGED disk /\ UNCHANGED <<object, edits>> /\ run[i].pc \in {"write", "remove"}
    BY DEF CommitFails
<1>3. /\ \A j \in Installations \ {i} : run'[j] = run[j]
      /\ run'[i].pc = "recover" /\ run'[i].goal = "post" /\ run'[i].todo = todo
      /\ run'[i].result = result
    BY <1>0, <1>1, RecoverEffect
<1>4. Others(i)
    BY <1>2, <1>3 DEF Others, object
<1>5. i \in Committing /\ GoalInv(i) /\ CommitInv(i)
    BY <1>2 DEF IInv, GoalInv, Writing, Committing
<1>6. Alone'
    BY <1>3, <1>4, <1>5, AloneKept DEF GoalKept
<1>7. Own(i)'
    <2>1. GoalInv(i)'
        BY <1>2, <1>3, <1>5 DEF GoalInv, Writing, Busy, Previous, object, Idle
    <2>2. RecoverInv(i)'
        BY <1>1, <1>2, <1>3 DEF RecoverInv, Recovering, Journalled, disk
    <2>3. run[i].txn \in Transaction /\ Journalled = {run[i].txn}
          /\ journal[run[i].txn].state = "pending"
          /\ journal[run[i].txn].previous = Previous(i)
        BY <1>0, <1>2, <1>5 DEF CommitInv, TypeOK
    <2>4. Pending = {run[i].txn}
        BY <2>3 DEF Pending, Journalled
    <2>5. PostInv(i)'
        BY <1>2, <1>3, <1>5, <2>3, <2>4
        DEF CommitInv, PostInv, Journalled, Pending, Previous, disk, object
    <2>6. CommitInv(i)'
        BY <1>3 DEF CommitInv
    <2> QED BY <2>1, <2>2, <2>5, <2>6 DEF Own
<1> QED BY <1>2, <1>3, <1>4, <1>6, <1>7, Thinking DEF Idle, Writing

(* A kill forgets every list and every step; the disk stays as it is.      *)
LEMMA InvCrash == IInv /\ TypeOK' /\ Crash => IInv'
<1> SUFFICES ASSUME IInv, TypeOK', Crash PROVE IInv'
    OBVIOUS
<1>1. DiskInv'
    BY SameDisk DEF Crash, IInv
<1>2. \A j \in Installations :
          run'[j].pc = "idle" /\ run'[j].goal = "none" /\ error'[j] = "unchecked"
          /\ \A n \in Names : installed'[j][n] = None
    BY DEF Crash, AtRest, NoFiles
<1>3. Alone'
    BY <1>2 DEF Alone, Busy, Committing
<1>4. \A j \in Installations : Own(j)' /\ ListInv(j)'
    BY <1>2 DEF Own, GoalInv, RecoverInv, CommitInv, PostInv, ListInv, Listed, Idle,
        Recovering, Writing, Previous, Busy
<1> QED BY <1>1, <1>3, <1>4 DEF IInv, Own

(* A change by hand touches no name a pending journal covers, and ends     *)
(* what the lists promise.                                                 *)
LEMMA InvEditFile == IInv /\ TypeOK' /\ EditFile => IInv'
<1> SUFFICES ASSUME IInv, TypeOK', EditFile PROVE IInv'
    OBVIOUS
<1>1. PICK x \in Names, d \in Data \cup {None} :
          /\ \A t \in Pending : x \notin journal[t].previous \cup {journal[t].target}
          /\ dir' = [dir EXCEPT ![x] = d]
    BY DEF EditFile
<1>2. /\ \A i \in Installations : run[i].pc \in {"idle", "download"}
      /\ edits' = edits + 1 /\ UNCHANGED <<dirs, journal, backup, run, object>>
    BY DEF EditFile
<1>3. \A n \in Names : n # x => dir'[n] = dir[n]
    BY <1>1 DEF IInv, TypeOK, Folder
<1>4. DiskInv'
    <2>1. ASSUME NEW t \in Pending, Back(t, journal[t]) PROVE Back(t, journal[t])'
        <3>1. journal[t].previous \subseteq Names
            BY DEF IInv, TypeOK, Pending, Journal
        <3> QED BY <1>1, <1>2, <1>3, <2>1, <3>1 DEF Back
    <2> QED BY <1>2, <2>1 DEF IInv, DiskInv, Journalled, OnePending, Pending, Intact
<1>5. Alone'
    BY <1>2 DEF IInv, Alone, Busy, Committing, Checking
<1>6. ASSUME NEW j \in Installations PROVE Own(j)' /\ ListInv(j)'
    <2>1. GoalInv(j)'
        BY <1>2 DEF IInv, GoalInv, Writing, Busy, Previous, Idle, object
    <2>2. RecoverInv(j)' /\ CommitInv(j)' /\ PostInv(j)'
        BY <1>2 DEF RecoverInv, CommitInv, PostInv, Recovering
    <2>3. edits' # 0
        BY <1>2 DEF IInv, TypeOK
    <2> QED BY <2>1, <2>2, <2>3 DEF Own, ListInv
<1> QED BY <1>4, <1>5, <1>6 DEF IInv, Own

(* A step that changes nothing keeps the invariant.                        *)
LEMMA InvStutter == IInv /\ UNCHANGED vars => IInv'
<1> SUFFICES ASSUME IInv, UNCHANGED vars PROVE IInv'
    OBVIOUS
<1>1. UNCHANGED disk /\ run' = run /\ installed' = installed /\ error' = error
      /\ request' = request /\ edits' = edits /\ met' = met /\ overlooked' = overlooked
    BY DEF vars, object
<1>2. TypeOK'
    BY <1>1 DEF IInv, TypeOK, disk
<1>3. DiskInv'
    BY <1>1, SameDisk DEF IInv
<1>4. Alone'
    BY <1>1 DEF IInv, Alone, Busy, Committing, Checking
<1>5. ASSUME NEW j \in Installations PROVE Own(j)' /\ ListInv(j)'
    <2>1. Own(j) /\ ListInv(j)
        BY DEF IInv, Own
    <2>2. GoalInv(j)' /\ RecoverInv(j)' /\ CommitInv(j)'
        BY <1>1, <2>1 DEF Own, GoalInv, RecoverInv, CommitInv, Journalled, Pending, Back,
            Recovering, Writing, Idle, Previous, Busy, disk
    <2>3. PostInv(j)'
        BY <1>1, <2>1 DEF Own, PostInv, Journalled, Pending, Recovering, Previous, disk
    <2>4. ListInv(j)'
        BY <1>1, <2>1 DEF ListInv, Pending, Writing, Listed, Idle, Previous, disk
    <2> QED BY <2>2, <2>3, <2>4 DEF Own
<1> QED BY <1>2, <1>3, <1>4, <1>5 DEF IInv, Own

(* A step of an inspection or of a commit that leaves the other lists'     *)
(* files and the other journals alone.                                     *)
LEMMA Working ==
    ASSUME IInv, TypeOK', NEW i \in Committing \cup Checking, Others(i), edits' = edits,
           ~Idle(i)', run'[i].goal = run[i].goal, DiskInv', Own(i)',
           i \in Checking => \A j \in Installations \ {i} : RecoverInv(j)',
           \A j \in Installations \ {i} : ListInv(j)'
    PROVE IInv'
<1>0. i \in Installations
    BY DEF Committing, Checking
<1>1. Alone'
    <2>1. GoalKept(i)
        BY <1>0 DEF GoalKept, Committing, Checking
    <2> QED BY <1>0, <2>1, AloneKept
<1>2. \A j \in Installations \ {i} : Own(j)'
    BY OthersOfInstall, OthersOfInspection
<1>3. ListInv(i)'
    BY DEF ListInv, Listed
<1> QED BY <1>0, <1>1, <1>2, <1>3, Whole

(* Whoever is neither at rest nor downloading commits or inspects.         *)
LEMMA AtWork ==
    ASSUME IInv, NEW i \in Installations, run[i].pc \notin {"idle", "download"}
    PROVE i \in Committing \cup Checking
<1>1. run[i].goal \notin {"none", "download"}
    BY DEF IInv, GoalInv
<1>2. run[i].goal \in {"none", "inspect", "download", "commit", "post"}
    BY DEF IInv, TypeOK, Run
<1> QED BY <1>1, <1>2 DEF Committing, Checking

(* A rollback's step on a transaction that another page has rolled back    *)
(* changes no file: it is one of the steps that leave the disk alone.      *)
LEMMA InvRollbackStale ==
    ASSUME IInv, TypeOK', NEW i \in Installations, Restore(i) \/ Withdraw(i), dir' = dir
    PROVE IInv'
<1>0. TypeOK
    BY DEF IInv
<1>1. PICK pc \in {"restore", "erase"}, left \in SUBSET Names :
          Work(i, pc, run[i].txn, run[i].journal, left)
          /\ \/ pc = "restore" /\ \E n \in run[i].left :
                    left = run[i].left \ {n} /\ backup[run[i].txn][n] = dir'[n]
             \/ pc = "erase" /\ left = {} /\ run[i].left = {} /\ Withdraw(i)
    <2>1. run[i].left \in SUBSET Names /\ run[i].txn \in Transaction \cup {NoTransaction}
        BY <1>0 DEF TypeOK, Run
    <2>2. CASE Restore(i)
        <3>1. PICK n \in run[i].left :
                  dir' = [dir EXCEPT ![n] = backup[run[i].txn][n]]
                  /\ Work(i, "restore", run[i].txn, run[i].journal, run[i].left \ {n})
            BY <2>2 DEF Restore, Goto
        <3>2. dir'[n] = backup[run[i].txn][n]
            BY <1>0, <2>1, <3>1 DEF TypeOK, Folder
        <3> QED BY <2>1, <3>1, <3>2
    <2>3. CASE Withdraw(i)
        BY <2>3 DEF Withdraw, Goto
    <2> QED BY <2>2, <2>3
<1>2. run[i].pc = "restore" /\ UNCHANGED disk /\ UNCHANGED <<object, edits>>
    BY DEF Restore, Withdraw, disk
<1>3. /\ Others(i)
      /\ run'[i].pc = pc /\ run'[i].txn = run[i].txn /\ run'[i].journal = run[i].journal
      /\ run'[i].left = left /\ run'[i].goal = run[i].goal
      /\ run'[i].todo = run[i].todo /\ run'[i].result = run[i].result
    BY <1>0, <1>1, <1>2, WorkEffect
<1>4. GoalInv(i) /\ RecoverInv(i) /\ PostInv(i) /\ OnePending
    BY DEF IInv, DiskInv
<1>5. Alone'
    <2>1. i \in Committing \cup Checking
        BY <1>2, AtWork
    <2>2. GoalKept(i)
        BY <1>3, <2>1 DEF GoalKept, Committing, Checking
    <2> QED BY <1>3, <2>2, AloneKept
<1>6. GoalInv(i)' /\ CommitInv(i)'
    BY <1>1, <1>2, <1>3, <1>4 DEF GoalInv, CommitInv, Writing, Busy, Previous, object, Idle
<1>7. RecoverInv(i)' /\ PostInv(i)'
    <2>0. dir' = dir /\ backup' = backup /\ journal' = journal /\ installed' = installed
          /\ request' = request /\ Pending' = Pending /\ Journalled' = Journalled
          /\ Previous(i)' = Previous(i)
        BY <1>2 DEF disk, object, Pending, Journalled, Previous
    <2>1. CASE pc = "restore"
        <3>1. PICK n \in run[i].left :
                  left = run[i].left \ {n} /\ backup[run[i].txn][n] = dir[n]
            BY <1>1, <2>1, <2>0
        <3>2. \A m \in run[i].journal.previous \ left :
                  m = n \/ m \in run[i].journal.previous \ run[i].left
            BY <3>1
        <3>3. RecoverInv(i)'
            BY <1>2, <1>3, <1>4, <2>0, <2>1, <3>1, <3>2 DEF RecoverInv, Recovering, Back
        <3>4. PostInv(i)'
            <4> SUFFICES ASSUME run[i].goal = "post", run[i].result # "none" PROVE PostInv(i)'
                BY <1>3 DEF PostInv
            <4>1. run[i].txn \in Pending /\ n \in Previous(i)
                  /\ run[i].journal = journal[run[i].txn]
                BY <1>2, <1>4, <3>1 DEF PostInv, RecoverInv, Recovering
            <4>2. dir[n] = installed[i][n]
                BY <1>2, <1>4, <3>1, <4>1 DEF PostInv, Recovering
            <4>3. \A m \in Previous(i) \ left : m = n \/ m \in Previous(i) \ run[i].left
                BY <3>1
            <4> QED BY <1>2, <1>3, <1>4, <2>0, <2>1, <4>1, <4>2, <4>3 DEF PostInv, Recovering
        <3> QED BY <3>3, <3>4
    <2>2. CASE pc = "erase"
        <3>0. run[i].left = {} /\ run'[i].pc = "erase"
            BY <1>1, <1>3, <2>2
        <3>1. \A n \in Names : n = run[i].journal.target /\ n \notin run[i].journal.previous
                  => dir[n] = None
            BY <1>1, <2>2 DEF Withdraw
        <3>2. Back(run[i].txn, run[i].journal)
            BY <1>2, <1>4, <3>0, <3>1 DEF RecoverInv, Back
        <3>3. RecoverInv(i)'
            BY <1>2, <1>3, <1>4, <2>0, <3>0, <3>2 DEF RecoverInv, Recovering, Back
        <3>4. PostInv(i)'
            <4> SUFFICES ASSUME run[i].goal = "post", run[i].result # "none" PROVE PostInv(i)'
                BY <1>3 DEF PostInv
            <4>1. run[i].txn \in Pending /\ \A n \in Previous(i) : dir[n] = installed[i][n]
                BY <1>2, <1>4, <3>0 DEF PostInv, Recovering
            <4>2. Pending \subseteq {run[i].txn}
                BY <1>4, <4>1 DEF OnePending
            <4> QED BY <1>2, <1>3, <1>4, <2>0, <3>0, <4>1, <4>2 DEF PostInv, Recovering
        <3> QED BY <3>3, <3>4
    <2> QED BY <1>1, <2>1, <2>2
<1> QED BY <1>1, <1>2, <1>3, <1>5, <1>6, <1>7, Thinking DEF Idle, Writing, Own

(* What a rollback's step of journal J in transaction t writes, when it    *)
(* leaves the files `left` of the files `before` to restore.               *)
Rolled(t, J, before, pc, left) ==
    /\ \A n \in J.previous : dir'[n] = dir[n] \/ dir'[n] = backup[t][n]
    /\ \A n \in J.previous \ left :
          \/ n \notin before /\ dir'[n] = dir[n]
          \/ dir'[n] = backup[t][n] /\ backup[t][n] # None
    /\ \A n \in Names : n \notin J.previous /\ n # J.target => dir'[n] = dir[n]
    /\ \A n \in Names : n \notin J.previous /\ n = J.target =>
          dir'[n] = dir[n] \/ dir'[n] = None
    /\ pc = "erase" => left = {} /\
          \A n \in Names : n \notin J.previous /\ n = J.target => dir'[n] = None

(* Restoring a file, or removing the target, of a pending transaction.     *)
LEMMA InvRollback ==
    ASSUME IInv, TypeOK', NEW i \in Installations, Restore(i) \/ Withdraw(i),
           NEW t \in Pending, NEW J \in Journal, J = journal[t],
           run[i].txn = t, run[i].journal = J
    PROVE IInv'
<1>0. TypeOK /\ t \in Transaction
    BY DEF IInv, TypeOK, Pending
<1>1. run[i].pc = "restore" /\ UNCHANGED <<dirs, journal, backup>> /\ UNCHANGED <<object, edits>>
    BY DEF Restore, Withdraw
<1>2. GoalInv(i) /\ RecoverInv(i) /\ PostInv(i) /\ DiskInv
    BY DEF IInv
<1>3. \A u \in Pending : u = t
    BY <1>2 DEF DiskInv, OnePending
<1>4. /\ run[i].left \subseteq J.previous
      /\ \A n \in J.previous \ run[i].left : backup[t][n] \in {None, dir[n]}
    BY <1>1, <1>2 DEF RecoverInv
<1>5. i \in Committing \cup Checking
    BY <1>1, AtWork
<1>9. J.previous \subseteq Names
    BY <1>0 DEF Journal
(* What the step writes, and what is left after it.                        *)
<1>6. PICK pc \in {"restore", "erase"}, left \in SUBSET J.previous :
          Work(i, pc, t, J, left) /\ Rolled(t, J, run[i].left, pc, left)
    <2>2. CASE Restore(i)
        <3>1. PICK n \in run[i].left :
                  /\ backup[t][n] # None
                  /\ dir' = [dir EXCEPT ![n] = backup[t][n]]
                  /\ Work(i, "restore", t, J, run[i].left \ {n})
            BY <2>2 DEF Restore, Goto
        <3>2. \A m \in Names : dir'[m] = IF m = n THEN backup[t][n] ELSE dir[m]
            BY <1>0, <3>1 DEF TypeOK, Folder
        <3>3. n \in J.previous /\ run[i].left \ {n} \in SUBSET J.previous
            BY <1>4
        <3>4. Rolled(t, J, run[i].left, "restore", run[i].left \ {n})
            <4>1. \A m \in J.previous \ (run[i].left \ {n}) : m = n \/ m \notin run[i].left
                OBVIOUS
            <4> DEFINE left == run[i].left \ {n}
            <4>2. \A m \in J.previous : dir'[m] = IF m = n THEN backup[t][n] ELSE dir[m]
                BY <1>9, <3>2
            <4>3. \A m \in Names : m \notin J.previous => dir'[m] = dir[m]
                BY <3>2, <3>3
            <4> HIDE DEF left
            <4>4. \A m \in J.previous \ left : m = n \/ m \notin run[i].left
                BY <4>1 DEF left
            <4>5. Rolled(t, J, run[i].left, "restore", left)
                BY <3>1, <4>2, <4>3, <4>4 DEF Rolled
            <4> QED BY <4>5 DEF left
        <3> QED BY <3>1, <3>3, <3>4
    <2>3. CASE Withdraw(i)
        <3>1. /\ run[i].left = {} /\ Work(i, "erase", t, J, {})
              /\ dir' = [n \in Names |-> IF n = J.target /\ n \notin J.previous
                                         THEN None ELSE dir[n]]
            BY <2>3 DEF Withdraw, Goto
        <3>2. Rolled(t, J, run[i].left, "erase", {})
            <4>1. \A n \in Names : dir'[n] = IF n = J.target /\ n \notin J.previous
                                               THEN None ELSE dir[n]
                BY <3>1
            <4> QED BY <1>9, <3>1, <4>1 DEF Rolled
        <3>3. {} \in SUBSET J.previous
            OBVIOUS
        <3> QED BY <3>1, <3>2, <3>3
    <2> QED BY <2>2, <2>3
<1>7. /\ Others(i)
      /\ run'[i].pc = pc /\ run'[i].txn = t /\ run'[i].journal = J
      /\ run'[i].left = left /\ run'[i].goal = run[i].goal
      /\ run'[i].todo = run[i].todo /\ run'[i].result = run[i].result
    BY <1>0, <1>1, <1>6, WorkEffect
<1>8. Pending' = Pending /\ Journalled' = Journalled /\ journal' = journal
      /\ backup' = backup /\ dirs' = dirs /\ edits' = edits
      /\ installed' = installed /\ request' = request
    BY <1>1 DEF Pending, Journalled, object
<1>10. Back(t, J) => Back(t, J)'
    BY <1>6, <1>8, <1>9 DEF Back, Rolled
<1>11. DiskInv'
    <2>1. \A u \in Pending : Intact(u) => Intact(u)'
        BY <1>8 DEF Intact
    <2>2. Back(t, journal[t]) => Back(t, journal[t])'
        BY <1>10, <1>6, <1>8, <1>9 DEF Back, Rolled
    <2>3. Intact(t)' \/ Back(t, journal[t])'
        BY <1>2, <2>1, <2>2 DEF DiskInv
    <2> QED BY <1>2, <1>3, <1>8, <2>3 DEF DiskInv, OnePending
<1>12. \A n \in J.previous \ left : backup[t][n] \in {None, dir'[n]}
    BY <1>4, <1>6 DEF Rolled
<1>13. RecoverInv(i)'
    <2>1. pc = "erase" => Back(t, J)'
        BY <1>6, <1>8, <1>12 DEF Back, Rolled
    <2>2. t \in Pending /\ J = journal[t]
        OBVIOUS
    <2>3. Recovering(i) /\ Recovering(i)' /\ Journalled \subseteq run[i].todo
        BY <1>1, <1>2, <1>7 DEF RecoverInv, Recovering
    <2>4. ~(run[i].goal = "post" /\ run[i].result = "none")
        BY <1>2, <2>2, <2>3 DEF RecoverInv
    <2>5. (run[i].pc = "erase" => Back(run[i].txn, journal[run[i].txn]))'
        BY <1>7, <1>8, <2>1, <2>2
    <2>6. (run[i].pc = "restore" =>
              /\ run[i].left \subseteq run[i].journal.previous
              /\ \A n \in run[i].journal.previous \ run[i].left :
                    backup[run[i].txn][n] \in {None, dir[n]}
              /\ run[i].txn \in Pending /\ run[i].journal = journal[run[i].txn])'
        BY <1>6, <1>7, <1>8, <1>12, <2>2
    <2> QED BY <1>7, <1>8, <2>3, <2>4, <2>5, <2>6 DEF RecoverInv
<1>14. PostInv(i)'
    <2> SUFFICES ASSUME run[i].goal = "post", run[i].result # "none" PROVE PostInv(i)'
        BY <1>7 DEF PostInv
    <2>1. t \in Pending /\ J = journal[t] /\ t = run[i].txn
        OBVIOUS
    <2>2. /\ Journalled = Pending /\ J.previous = Previous(i)
          /\ \A n \in Previous(i) : backup[t][n] = installed[i][n]
          /\ \A n \in Previous(i) \ run[i].left : dir[n] = installed[i][n]
        BY <1>1, <1>2, <2>1 DEF PostInv, Recovering
    <2>3. \A n \in Previous(i) \ left : dir'[n] = installed[i][n]
        BY <1>6, <2>2 DEF Rolled
    <2>4. Previous(i)' = Previous(i)
        BY <1>8 DEF Previous
    <2>5. run'[i].pc = "erase" => \A n \in Previous(i) : dir'[n] = installed[i][n]
        BY <1>6, <1>7, <2>3 DEF Rolled
    <2>6. \A u \in Pending' : u = t
        BY <1>3, <1>8
    <2> QED BY <1>3, <1>6, <1>7, <1>8, <2>1, <2>2, <2>3, <2>4, <2>5, <2>6
        DEF PostInv, Recovering
<1>15. Own(i)'
    <2>1. GoalInv(i)' /\ CommitInv(i)'
        BY <1>1, <1>2, <1>6, <1>7, <1>8
        DEF GoalInv, CommitInv, Writing, Busy, Previous, object, Idle
    <2> QED BY <1>13, <1>14, <2>1 DEF Own
<1>16. ASSUME i \in Checking, NEW j \in Installations \ {i} PROVE RecoverInv(j)'
    <2>1. RecoverInv(j) /\ run'[j] = run[j] /\ request'[j] = request[j]
        BY <1>7 DEF IInv, Others
    <2>2. run[j].goal # "post"
        BY <1>16, Inspectors
    <2>3. t \in Pending /\ J = journal[t]
        OBVIOUS
    <2>4. CASE run[j].pc = "restore"
        <3>1. run[j].txn = t /\ run[j].journal = J
            BY <1>3, <2>1, <2>3, <2>4 DEF RecoverInv
        <3>2. \A n \in J.previous \ run[j].left : backup[t][n] \in {None, dir'[n]}
            BY <1>6, <2>1, <2>4, <3>1 DEF RecoverInv, Rolled
        <3> QED BY <1>8, <2>1, <2>2, <2>3, <2>4, <3>1, <3>2 DEF RecoverInv, Recovering
    <2>5. CASE run[j].pc = "erase"
        <3>1. run[j].txn \in Pending => run[j].txn = t /\ Back(t, J)
            BY <1>3, <2>1, <2>3, <2>5 DEF RecoverInv
        <3>2. run[j].txn \in Pending => (Back(run[j].txn, journal[run[j].txn]))'
            BY <1>8, <1>10, <2>1, <2>3, <3>1
        <3> QED BY <1>8, <2>1, <2>2, <2>5, <3>2 DEF RecoverInv, Recovering
    <2> QED BY <1>8, <2>1, <2>2, <2>4, <2>5 DEF RecoverInv, Recovering
<1>17. ASSUME NEW j \in Installations \ {i} PROVE ListInv(j)'
    <2>1. edits = 0 /\ Listed(j) => \A n \in Previous(j) : dir'[n] = dir[n]
        <3> SUFFICES ASSUME edits = 0, Listed(j), NEW n \in Previous(j) PROVE dir'[n] = dir[n]
            OBVIOUS
        <3>1. n \notin J.previous /\ n # J.target /\ n \in Names
            BY DEF IInv, ListInv, Previous
        <3> QED BY <1>6, <3>1 DEF Rolled
    <2>2. ~Writing(i)'
        BY <1>6, <1>7 DEF Writing
    <2> QED BY <1>7, <1>8, <2>1, <2>2, OthersList
<1> QED BY <1>5, <1>6, <1>7, <1>8, <1>11, <1>15, <1>16, <1>17, Working DEF Idle

(* A step of a rollback, whether another page has rolled back or not.      *)
LEMMA InvRestore ==
    ASSUME IInv, TypeOK', NEW i \in Installations, Restore(i) \/ Withdraw(i)
    PROVE IInv'
<1>0. TypeOK
    BY DEF IInv
<1>1. run[i].pc = "restore" /\ RecoverInv(i)
    BY DEF IInv, Restore, Withdraw
<1>2. CASE run[i].txn \in Pending /\ run[i].journal = journal[run[i].txn]
    <2>1. run[i].journal \in Journal
        BY <1>0 DEF TypeOK, Run
    <2> QED BY <1>2, <2>1, InvRollback
<1>3. CASE Back(run[i].txn, run[i].journal)
    <2>1. run[i].left \subseteq run[i].journal.previous /\ run[i].left \subseteq Names
        BY <1>0, <1>1 DEF RecoverInv, TypeOK, Run
    <2>2. \A n \in Names : dir'[n] = dir[n]
        <3>1. CASE Restore(i)
            <4>1. PICK n \in run[i].left :
                      backup[run[i].txn][n] # None
                      /\ dir' = [dir EXCEPT ![n] = backup[run[i].txn][n]]
                BY <3>1 DEF Restore
            <4>2. backup[run[i].txn][n] = dir[n]
                BY <1>3, <2>1, <4>1 DEF Back
            <4> QED BY <1>0, <4>1, <4>2 DEF TypeOK, Folder
        <3>2. CASE Withdraw(i)
            BY <1>3, <3>2 DEF Withdraw, Back
        <3> QED BY <3>1, <3>2
    <2>3. dir' = dir
        BY <1>0, <2>2 DEF TypeOK, Folder
    <2> QED BY <2>3, InvRollbackStale
<1> QED BY <1>1, <1>2, <1>3 DEF RecoverInv

(* Removing an item of a transaction: what is pending has been rolled      *)
(* back, and what has been rolled back stays so.                           *)
LEMMA InvEraseItem ==
    ASSUME IInv, TypeOK', NEW i \in Installations, EraseItem(i)
    PROVE IInv'
<1>0. TypeOK
    BY DEF IInv
<1>1. run[i].pc = "erase" /\ dir' = dir /\ dirs' = dirs /\ run' = run /\ edits' = edits
      /\ installed' = installed /\ error' = error /\ request' = request
    BY DEF EraseItem, object
<1>2. PICK t \in Transaction : t = run[i].txn
    BY <1>0, <1>1 DEF TypeOK
<1>3. /\ \A u \in Transaction \ {t} : journal'[u] = journal[u] /\ backup'[u] = backup[u]
      /\ \A n \in Names : backup'[t][n] \in {None, backup[t][n]}
      /\ journal'[t] \in {journal[t], NoJournal}
    <2>1. CASE journal' = [journal EXCEPT ![run[i].txn] = NoJournal] /\ UNCHANGED backup
        BY <1>0, <1>2, <2>1 DEF TypeOK
    <2>2. ASSUME NEW n \in Names, backup' = [backup EXCEPT ![run[i].txn][n] = None],
                 UNCHANGED journal
          PROVE /\ \A u \in Transaction \ {t} : journal'[u] = journal[u] /\ backup'[u] = backup[u]
                /\ \A m \in Names : backup'[t][m] \in {None, backup[t][m]}
                /\ journal'[t] = journal[t]
        BY <1>0, <1>2, <2>2 DEF TypeOK, Folder
    <2> QED BY <2>1, <2>2 DEF EraseItem
<1>4. GoalInv(i) /\ RecoverInv(i) /\ PostInv(i) /\ DiskInv /\ Recovering(i)
    BY <1>1 DEF IInv, Recovering
<1>5. Others(i) /\ i \in Committing \cup Checking /\ ~Idle(i)' /\ ~Writing(i)'
    BY <1>1, AtWork DEF Others, Idle, Writing
<1>6. t \in Pending => Back(t, journal[t]) /\ Pending = {t}
    BY <1>1, <1>2, <1>4 DEF RecoverInv, DiskInv, OnePending
<1>7. /\ Journalled' \subseteq Journalled /\ Pending' \subseteq Pending
      /\ \A u \in Pending' : journal'[u] = journal[u]
      /\ \A u \in Pending : u \notin Pending' => u = t /\ Pending' = {}
    BY <1>2, <1>3, <1>6 DEF Journalled, Pending, NoJournal
<1>8. ASSUME NEW u \in Transaction, NEW J \in Journal, Back(u, J) PROVE Back(u, J)'
    <2>1. J.previous \subseteq Names
        BY DEF Journal
    <2>2. \A n \in Names : backup'[u][n] \in {None, backup[u][n]}
        BY <1>3
    <2> QED BY <1>1, <1>8, <2>1, <2>2 DEF Back
<1>9. DiskInv'
    <2>1. ASSUME NEW u \in Pending' PROVE Intact(u)' \/ Back(u, journal[u])'
        <3>1. u \in Pending /\ u \in Transaction /\ journal'[u] = journal[u]
              /\ journal[u] \in Journal
            BY <1>0, <1>7 DEF Pending, TypeOK
        <3>2. CASE Back(u, journal[u])
            BY <1>8, <3>1, <3>2
        <3>3. CASE Intact(u) /\ u # t
            BY <1>3, <3>1, <3>3 DEF Intact
        <3> QED BY <1>4, <1>6, <3>1, <3>2, <3>3 DEF DiskInv
    <2> QED BY <1>1, <1>4, <1>7, <2>1 DEF DiskInv, OnePending
<1>10. ASSUME NEW j \in Installations PROVE RecoverInv(j)'
    <2>1. RecoverInv(j) /\ run[j] \in Run
        BY <1>0 DEF IInv, TypeOK
    <2>2. (Recovering(j) => Journalled \subseteq run[j].todo)'
        BY <1>1, <1>7, <2>1 DEF RecoverInv, Recovering
    <2>3. (run[j].pc = "erase" /\ run[j].txn \in Pending => Back(run[j].txn, journal[run[j].txn]))'
        <3> SUFFICES ASSUME run[j].pc = "erase", run[j].txn \in Pending'
                     PROVE Back(run[j].txn, journal[run[j].txn])'
            BY <1>1
        <3>1. PICK u \in Pending : u = run[j].txn /\ journal'[u] = journal[u]
            BY <1>7
        <3>2. PICK J \in Journal : J = journal[u]
            BY <1>0 DEF TypeOK, Pending
        <3>3. Back(u, J)
            BY <2>1, <3>1, <3>2 DEF RecoverInv
        <3>4. Back(u, J)'
            BY <1>8, <3>3 DEF Pending
        <3> QED BY <1>1, <3>1, <3>2, <3>4
    <2>4. (Recovering(j) /\ run[j].goal = "post" /\ run[j].result = "none" =>
              Pending = {} /\ dir[request[j].target] = request[j].data)'
        BY <1>1, <1>7, <2>1 DEF RecoverInv, Recovering
    <2>5. (run[j].pc = "restore" =>
              /\ run[j].left \subseteq run[j].journal.previous
              /\ \A n \in run[j].journal.previous \ run[j].left :
                    backup[run[j].txn][n] \in {None, dir[n]}
              /\ \/ run[j].txn \in Pending /\ run[j].journal = journal[run[j].txn]
                 \/ Pending = {} /\ Back(run[j].txn, run[j].journal))'
        <3> SUFFICES ASSUME run[j].pc = "restore"
                     PROVE (/\ run[j].left \subseteq run[j].journal.previous
                            /\ \A n \in run[j].journal.previous \ run[j].left :
                                  backup[run[j].txn][n] \in {None, dir[n]}
                            /\ \/ run[j].txn \in Pending /\ run[j].journal = journal[run[j].txn]
                               \/ Pending = {} /\ Back(run[j].txn, run[j].journal))'
            BY <1>1
        <3>1. PICK u \in Transaction, J \in Journal : u = run[j].txn /\ J = run[j].journal
            BY <1>0, <2>1 DEF TypeOK, Run
        <3>2. \A n \in J.previous \ run[j].left : backup'[u][n] \in {None, dir'[n]}
            BY <1>1, <1>3, <2>1, <3>1 DEF RecoverInv, Journal
        <3>3. (u \in Pending' /\ J = journal'[u]) \/ (Pending' = {} /\ Back(u, J)')
            <4>1. CASE u \in Pending /\ J = journal[u] /\ u \in Pending'
                BY <1>7, <4>1
            <4>2. CASE u \in Pending /\ J = journal[u] /\ u \notin Pending'
                <5>1. u = t /\ Pending' = {} /\ Back(u, J)
                    BY <1>6, <1>7, <4>2
                <5> QED BY <1>8, <5>1
            <4>3. CASE Pending = {} /\ Back(u, J)
                BY <1>7, <1>8, <4>3
            <4> QED BY <2>1, <3>1, <4>1, <4>2, <4>3 DEF RecoverInv
        <3> QED BY <1>1, <2>1, <3>1, <3>2, <3>3 DEF RecoverInv
    <2> QED BY <2>2, <2>3, <2>4, <2>5 DEF RecoverInv
<1>11. Own(i)'
    <2>1. GoalInv(i)' /\ CommitInv(i)'
        BY <1>1, <1>4 DEF GoalInv, CommitInv, Writing, Busy, Previous, Idle
    <2>2. PostInv(i)'
        <3> SUFFICES ASSUME run[i].goal = "post", run[i].result # "none" PROVE PostInv(i)'
            BY <1>1 DEF PostInv
        <3>1. /\ Journalled = Pending /\ Pending \subseteq {t}
              /\ \A u \in Pending : journal[u].previous = Previous(i)
              /\ \A n \in Previous(i) : dir[n] = installed[i][n]
            BY <1>1, <1>2, <1>4 DEF PostInv
        <3>2. Journalled' = Pending'
            <4>1. Journalled' \subseteq {t}
                BY <1>7, <3>1
            <4>2. t \in Journalled' => t \in Pending'
                BY <1>2, <1>3, <3>1 DEF Journalled, Pending, NoJournal
            <4> QED BY <4>1, <4>2 DEF Journalled, Pending
        <3> QED BY <1>1, <1>2, <1>7, <3>1, <3>2 DEF PostInv, Previous
    <2> QED BY <1>10, <2>1, <2>2 DEF Own
<1>12. ASSUME NEW j \in Installations \ {i} PROVE ListInv(j)'
    BY <1>1, <1>5, <1>7, OthersList
<1> QED BY <1>1, <1>5, <1>9, <1>10, <1>11, <1>12, Working

(* An erased transaction had no journal left to look at.                   *)
LEMMA InvErased ==
    ASSUME IInv, TypeOK', NEW i \in Installations, Erased(i)
    PROVE IInv'
<1>0. TypeOK
    BY DEF IInv
<1>1. /\ run[i].pc = "erase" /\ journal[run[i].txn] = NoJournal
      /\ dirs' = dirs \ {run[i].txn}
      /\ Recover(i, run[i].goal, run[i].todo \ {run[i].txn}, run[i].result)
      /\ UNCHANGED <<dir, journal, backup, object, edits>>
    BY DEF Erased
<1>2. /\ Others(i)
      /\ run'[i].pc = "recover" /\ run'[i].goal = run[i].goal
      /\ run'[i].todo = run[i].todo \ {run[i].txn} /\ run'[i].result = run[i].result
    BY <1>0, <1>1, RecoverEffect DEF Others, object
<1>3. GoalInv(i) /\ RecoverInv(i) /\ PostInv(i) /\ DiskInv /\ Recovering(i)
    BY <1>1 DEF IInv, Recovering
<1>4. i \in Committing \cup Checking /\ ~Idle(i)' /\ ~Writing(i)'
    BY <1>1, <1>2, AtWork DEF Idle, Writing
<1>5. run[i].txn \notin Journalled /\ run[i].txn \notin Pending
    BY <1>1 DEF Journalled, Pending, NoJournal
<1>6. Journalled' = Journalled /\ Pending' = Pending
    BY <1>1 DEF Journalled, Pending
<1>7. DiskInv'
    BY <1>1, <1>3, <1>5, <1>6 DEF DiskInv, OnePending, Intact, Back
<1>8. Own(i)'
    <2>1. GoalInv(i)' /\ CommitInv(i)'
        BY <1>1, <1>2, <1>3
        DEF GoalInv, CommitInv, Recovering, Writing, Busy, Previous, Idle, object
    <2>2. RecoverInv(i)'
        BY <1>1, <1>2, <1>3, <1>5, <1>6 DEF RecoverInv, Recovering, object
    <2>3. PostInv(i)'
        BY <1>1, <1>2, <1>3, <1>5, <1>6 DEF PostInv, Recovering, Previous, object
    <2> QED BY <2>1, <2>2, <2>3 DEF Own
<1>9. ASSUME NEW j \in Installations \ {i} PROVE RecoverInv(j)' /\ ListInv(j)'
    <2>1. RecoverInv(j) /\ run'[j] = run[j]
        BY <1>2 DEF IInv, Others
    <2>2. RecoverInv(j)'
        BY <1>1, <1>6, <2>1 DEF RecoverInv, Recovering, Back, object
    <2> QED BY <1>1, <1>2, <1>4, <1>6, <2>2, OthersList
<1> QED BY <1>1, <1>2, <1>4, <1>7, <1>8, <1>9, Working

(* A verified install may begin: what it will touch is on no page's list.  *)
LEMMA InvVerify ==
    ASSUME IInv, TypeOK', NEW i \in Installations, Verify(i)
    PROVE IInv'
<1>0. TypeOK
    BY DEF IInv
<1>1. /\ Recovered(i) /\ run[i].goal = "commit" /\ Verified(i) /\ run[i].pc = "recover"
      /\ UNCHANGED <<dir, journal, backup, object, edits>>
    BY DEF Verify, Recovered
<1>2. PICK t \in Transaction \ dirs :
          dirs' = dirs \cup {t} /\ Work(i, "backup", t, NoJournal, Previous(i))
    BY DEF Verify
<1>3. /\ Others(i)
      /\ run'[i].pc = "backup" /\ run'[i].txn = t /\ run'[i].goal = run[i].goal
      /\ run'[i].left = Previous(i)
    BY <1>0, <1>1, <1>2, WorkEffect
<1>4. Journalled = {} /\ Pending = {} /\ Journalled' = {} /\ Pending' = {}
    BY <1>1, RecoveredDisk DEF Journalled, Pending
<1>5. DiskInv'
    BY <1>4 DEF DiskInv, OnePending
<1>6. i \in Committing \ Checking /\ GoalInv(i) /\ ~Idle(i)'
    BY <1>1, <1>3 DEF Committing, Checking, IInv, Idle
<1>7. Own(i)'
    <2>1. GoalInv(i)'
        BY <1>1, <1>3, <1>6 DEF GoalInv, Writing, Recovering, Busy, Previous, Idle, object
    <2>2. CommitInv(i)'
        BY <1>1, <1>2, <1>3, <1>4 DEF CommitInv, Verified, Previous, object
    <2>3. RecoverInv(i)' /\ PostInv(i)'
        BY <1>3 DEF RecoverInv, PostInv, Recovering
    <2> QED BY <2>1, <2>2, <2>3 DEF Own
<1>8. ASSUME NEW j \in Installations \ {i} PROVE ListInv(j)'
    <2> SUFFICES ASSUME (edits = 0 /\ Listed(j))', NEW n \in Previous(j)'
                 PROVE /\ dir'[n] = installed'[j][n]
                       /\ \A k \in Installations :
                             Writing(k)' => n \notin Previous(k)' /\ n # request'[k].target
        BY <1>4 DEF ListInv
    <2>1. edits = 0 /\ Listed(j) /\ n \in Previous(j) /\ installed' = installed
          /\ request' = request
        BY <1>1, <1>3 DEF Listed, Idle, Others, Previous, object
    <2>2. dir[n] = installed[j][n] /\ installed[j][n] # None /\ ProjectOf[installed[j][n]] = j
        BY <2>1 DEF IInv, ListInv, GoalInv, Previous
    <2>3. n \notin Previous(i)
        BY <1>1, <1>6, <2>2 DEF Verified, GoalInv
    <2>4. n # request[i].target
        BY <1>1, <2>2, <2>3 DEF Verified
    <2>5. \A k \in Installations \ {i} : ~Writing(k)'
        BY <1>3, <1>6, Bystander DEF Others, Writing
    <2> QED BY <1>1, <2>1, <2>2, <2>3, <2>4, <2>5 DEF Previous
<1> QED BY <1>1, <1>3, <1>5, <1>6, <1>7, <1>8, Working

(* A backup is a copy of the file that is on the list.                     *)
LEMMA InvBackUp ==
    ASSUME IInv, TypeOK', NEW i \in Installations, BackUp(i)
    PROVE IInv'
<1>0. TypeOK
    BY DEF IInv
<1>1. PICK n \in run[i].left :
          /\ dir[n] # None
          /\ backup' = [backup EXCEPT ![run[i].txn][n] = dir[n]]
          /\ Work(i, "backup", run[i].txn, run[i].journal, run[i].left \ {n})
    BY DEF BackUp, Goto
<1>2. run[i].pc = "backup" /\ UNCHANGED <<dir, dirs, journal, object, edits>>
    BY DEF BackUp
<1>3. /\ Others(i)
      /\ run'[i].pc = "backup" /\ run'[i].txn = run[i].txn /\ run'[i].goal = run[i].goal
      /\ run'[i].left = run[i].left \ {n}
    BY <1>0, <1>1, <1>2, WorkEffect
<1>4. i \in Committing \ Checking /\ GoalInv(i) /\ CommitInv(i) /\ ~Idle(i)' /\ Writing(i)
    BY <1>2, <1>3 DEF Committing, Checking, IInv, Idle, GoalInv, Writing
<1>5. Journalled = {} /\ Journalled' = {} /\ Pending' = {}
    BY <1>2, <1>4 DEF CommitInv, Journalled, Pending
<1>6. DiskInv'
    BY <1>5 DEF DiskInv, OnePending
<1>7. run[i].left \subseteq Names /\ run[i].txn \in Transaction
    BY <1>0, <1>2 DEF TypeOK, Run
<1>8. \A m \in Names : backup'[run[i].txn][m] = IF m = n THEN dir[n] ELSE backup[run[i].txn][m]
    BY <1>0, <1>1, <1>7 DEF TypeOK, Folder
<1>9. Own(i)'
    <2>1. GoalInv(i)'
        BY <1>2, <1>3, <1>4 DEF GoalInv, Writing, Recovering, Busy, Previous, Idle, object
    <2>2. CommitInv(i)'
        BY <1>2, <1>3, <1>4, <1>5, <1>8 DEF CommitInv, Previous, object
    <2>3. RecoverInv(i)' /\ PostInv(i)'
        BY <1>3 DEF RecoverInv, PostInv, Recovering
    <2> QED BY <2>1, <2>2, <2>3 DEF Own
<1>10. ASSUME NEW j \in Installations \ {i} PROVE ListInv(j)'
    BY <1>2, <1>3, <1>4, <1>5, OthersList DEF object
<1> QED BY <1>2, <1>3, <1>4, <1>6, <1>9, <1>10, Working

(* A failed backup leaves no journal.                                      *)
LEMMA InvBackUpFails ==
    ASSUME IInv, TypeOK', NEW i \in Installations, BackUpFails(i)
    PROVE IInv'
<1>1. run[i].pc = "backup" /\ UNCHANGED <<dir, journal>> /\ Finish(i, installed[i], "failed")
    BY DEF BackUpFails
<1>2. i \in Committing /\ i \in Busy /\ CommitInv(i)
    BY <1>1 DEF Committing, Busy, IInv, GoalInv, Writing
<1>3. Journalled' = {} /\ Pending' = {}
    BY <1>1, <1>2 DEF CommitInv, Journalled, Pending
<1>4. DiskInv'
    BY <1>3 DEF DiskInv, OnePending
<1> QED BY <1>1, <1>2, <1>4, OwnFiles, Finishing

(* The journal covers the files to replace and the target, which no other  *)
(* page lists, and every file to replace is in the backup.                 *)
LEMMA InvWriteJournal ==
    ASSUME IInv, TypeOK', NEW i \in Installations, WriteJournal(i)
    PROVE IInv'
<1>0. TypeOK
    BY DEF IInv
<1>1. /\ run[i].pc = "backup" /\ run[i].left = {}
      /\ journal' = [journal EXCEPT ![run[i].txn] =
            [state |-> "pending", target |-> request[i].target, previous |-> Previous(i)]]
      /\ Work(i, "write", run[i].txn, run[i].journal, {})
      /\ UNCHANGED <<dir, dirs, backup, object, edits>>
    BY DEF WriteJournal, Goto
<1>2. PICK t \in Transaction : t = run[i].txn
    BY <1>0, <1>1 DEF TypeOK
<1>3. /\ Others(i)
      /\ run'[i].pc = "write" /\ run'[i].txn = t /\ run'[i].goal = run[i].goal
    BY <1>0, <1>1, <1>2, WorkEffect
<1>4. i \in Committing \ Checking /\ GoalInv(i) /\ CommitInv(i) /\ ~Idle(i)' /\ Writing(i)
    BY <1>1, <1>3 DEF Committing, Checking, IInv, Idle, GoalInv, Writing
<1>5. /\ journal'[t] = [state |-> "pending", target |-> request[i].target, previous |-> Previous(i)]
      /\ \A u \in Transaction \ {t} : journal'[u] = journal[u]
    BY <1>0, <1>1, <1>2 DEF TypeOK
<1>6. Journalled' = {t} /\ Pending' = {t}
    BY <1>1, <1>4, <1>5 DEF CommitInv, Journalled, Pending
<1>7. \A n \in Previous(i) : backup[t][n] = installed[i][n] /\ installed[i][n] # None
    BY <1>1, <1>2, <1>4 DEF CommitInv, Previous
<1>8. DiskInv'
    BY <1>1, <1>2, <1>4, <1>5, <1>6, <1>7 DEF DiskInv, OnePending, Intact, CommitInv
<1>9. Own(i)'
    <2>1. GoalInv(i)'
        BY <1>1, <1>3, <1>4 DEF GoalInv, Writing, Recovering, Busy, Previous, Idle, object
    <2>2. CommitInv(i)'
        BY <1>1, <1>3, <1>5, <1>6, <1>7 DEF CommitInv, Previous, object
    <2>3. RecoverInv(i)' /\ PostInv(i)'
        BY <1>3 DEF RecoverInv, PostInv, Recovering
    <2> QED BY <2>1, <2>2, <2>3 DEF Own
<1>10. ASSUME NEW j \in Installations \ {i} PROVE ListInv(j)'
    <2> SUFFICES ASSUME (edits = 0 /\ Listed(j))', NEW n \in Previous(j)'
                 PROVE /\ dir'[n] = installed'[j][n]
                       /\ n \notin journal'[t].previous /\ n # journal'[t].target
                       /\ \A k \in Installations :
                             Writing(k)' => n \notin Previous(k)' /\ n # request'[k].target
        BY <1>6 DEF ListInv
    <2>1. edits = 0 /\ Listed(j) /\ n \in Previous(j) /\ installed' = installed
          /\ request' = request
        BY <1>1, <1>3 DEF Listed, Idle, Others, Previous, object
    <2>2. /\ dir[n] = installed[j][n]
          /\ \A k \in Installations :
                Writing(k) => n \notin Previous(k) /\ n # request[k].target
        BY <2>1 DEF IInv, ListInv
    <2>3. \A k \in Installations : Writing(k)' => Writing(k)
        BY <1>3, <1>4 DEF Others, Writing
    <2> QED BY <1>1, <1>4, <1>5, <2>1, <2>2, <2>3 DEF Previous
<1> QED BY <1>1, <1>3, <1>4, <1>8, <1>9, <1>10, Working

(* Writing the target touches no file that another page lists: none of     *)
(* them is covered by the journal.                                         *)
LEMMA InvWriteTarget ==
    ASSUME IInv, TypeOK', NEW i \in Installations, WriteTarget(i)
    PROVE IInv'
<1>0. TypeOK
    BY DEF IInv
<1>1. /\ run[i].pc = "write"
      /\ dir' = [dir EXCEPT ![request[i].target] = request[i].data]
      /\ Work(i, "remove", run[i].txn, run[i].journal, Previous(i) \ {request[i].target})
      /\ UNCHANGED <<dirs, journal, backup, object, edits>>
    BY DEF WriteTarget, Goto
<1>2. PICK t \in Transaction : t = run[i].txn
    BY <1>0, <1>1 DEF TypeOK
<1>3. /\ Others(i)
      /\ run'[i].pc = "remove" /\ run'[i].txn = t /\ run'[i].goal = run[i].goal
      /\ run'[i].left = Previous(i) \ {request[i].target}
    BY <1>0, <1>1, <1>2, WorkEffect
<1>4. i \in Committing \ Checking /\ GoalInv(i) /\ CommitInv(i) /\ ~Idle(i)' /\ Writing(i)
    BY <1>1, <1>3 DEF Committing, Checking, IInv, Idle, GoalInv, Writing
<1>5. request[i].target \in Names
    BY <1>4 DEF GoalInv, Busy, Committing
<1>6. \A n \in Names : dir'[n] = IF n = request[i].target THEN request[i].data ELSE dir[n]
    BY <1>0, <1>1, <1>5 DEF TypeOK, Folder
<1>7. Journalled' = Journalled /\ Pending' = Pending /\ Previous(i)' = Previous(i)
      /\ request' = request /\ installed' = installed
    BY <1>1 DEF Journalled, Pending, Previous, object
<1>8. /\ Journalled = {t}
      /\ journal[t] = [state |-> "pending", target |-> request[i].target,
                       previous |-> Previous(i)]
      /\ \A n \in Previous(i) : backup[t][n] = installed[i][n] /\ installed[i][n] # None
    BY <1>1, <1>2, <1>4 DEF CommitInv, Previous
<1>9. DiskInv'
    <2>1. Intact(t)'
        BY <1>1, <1>8 DEF Intact
    <2>2. Journalled \subseteq dirs /\ OnePending
        BY DEF IInv, DiskInv
    <2>3. \A u \in Pending' : u = t
        BY <1>7, <1>8 DEF Pending, Journalled
    <2> QED BY <1>1, <1>7, <2>1, <2>2, <2>3 DEF DiskInv, OnePending
<1>10. Own(i)'
    <2>1. GoalInv(i)'
        BY <1>1, <1>3, <1>4 DEF GoalInv, Writing, Recovering, Busy, Previous, Idle, object
    <2>2. CommitInv(i)'
        BY <1>1, <1>2, <1>3, <1>5, <1>6, <1>7, <1>8 DEF CommitInv
    <2>3. RecoverInv(i)' /\ PostInv(i)'
        BY <1>3 DEF RecoverInv, PostInv, Recovering
    <2> QED BY <2>1, <2>2, <2>3 DEF Own
<1>11. ASSUME NEW j \in Installations \ {i} PROVE ListInv(j)'
    <2>1. edits = 0 /\ Listed(j) => \A n \in Previous(j) : dir'[n] = dir[n]
        BY <1>4, <1>6 DEF IInv, ListInv, Previous
    <2> QED BY <1>1, <1>3, <1>4, <1>7, <2>1, OthersList
<1> QED BY <1>1, <1>3, <1>4, <1>9, <1>10, <1>11, Working

(* Nor does removing a file that the journal covers.                       *)
LEMMA InvRemoveOld ==
    ASSUME IInv, TypeOK', NEW i \in Installations, RemoveOld(i)
    PROVE IInv'
<1>0. TypeOK
    BY DEF IInv
<1>1. PICK x \in run[i].left :
          /\ dir' = [dir EXCEPT ![x] = None]
          /\ Work(i, "remove", run[i].txn, run[i].journal, run[i].left \ {x})
    BY DEF RemoveOld, Goto
<1>2. run[i].pc = "remove" /\ UNCHANGED <<dirs, journal, backup, object, edits>>
    BY DEF RemoveOld
<1>3. PICK t \in Transaction : t = run[i].txn
    BY <1>0, <1>2 DEF TypeOK
<1>4. /\ Others(i)
      /\ run'[i].pc = "remove" /\ run'[i].txn = t /\ run'[i].goal = run[i].goal
      /\ run'[i].left = run[i].left \ {x}
    BY <1>0, <1>1, <1>2, <1>3, WorkEffect
<1>5. i \in Committing \ Checking /\ GoalInv(i) /\ CommitInv(i) /\ ~Idle(i)' /\ Writing(i)
    BY <1>2, <1>4 DEF Committing, Checking, IInv, Idle, GoalInv, Writing
<1>6. x \in Previous(i) /\ x # request[i].target /\ x \in Names
      /\ run[i].left \subseteq Previous(i) \ {request[i].target}
    BY <1>1, <1>2, <1>5 DEF CommitInv, Previous
<1>7. \A n \in Names : dir'[n] = IF n = x THEN None ELSE dir[n]
    BY <1>0, <1>1, <1>6 DEF TypeOK, Folder
<1>8. Journalled' = Journalled /\ Pending' = Pending /\ Previous(i)' = Previous(i)
      /\ request' = request /\ installed' = installed
    BY <1>2 DEF Journalled, Pending, Previous, object
<1>9. /\ Journalled = {t}
      /\ journal[t] = [state |-> "pending", target |-> request[i].target,
                       previous |-> Previous(i)]
      /\ \A n \in Previous(i) : backup[t][n] = installed[i][n] /\ installed[i][n] # None
      /\ dir[request[i].target] = request[i].data /\ request[i].target \in Names
      /\ \A n \in Previous(i) \ (run[i].left \cup {request[i].target}) : dir[n] = None
    BY <1>2, <1>3, <1>5 DEF CommitInv, GoalInv, Previous, Busy, Committing
<1>10. DiskInv'
    <2>1. Intact(t)'
        BY <1>2, <1>9 DEF Intact
    <2>2. Journalled \subseteq dirs /\ OnePending
        BY DEF IInv, DiskInv
    <2>3. \A u \in Pending' : u = t
        BY <1>8, <1>9 DEF Pending, Journalled
    <2> QED BY <1>2, <1>8, <2>1, <2>2, <2>3 DEF DiskInv, OnePending
<1>11. Own(i)'
    <2>1. GoalInv(i)'
        BY <1>2, <1>4, <1>5 DEF GoalInv, Writing, Recovering, Busy, Previous, Idle, object
    <2>2. \A n \in Previous(i) \ ((run[i].left \ {x}) \cup {request[i].target}) : dir'[n] = None
        BY <1>7, <1>9 DEF Previous
    <2>3. dir'[request[i].target] = request[i].data
        BY <1>6, <1>7, <1>9
    <2>4. run[i].left \ {x} \subseteq Previous(i) \ {request[i].target}
        BY <1>6
    <2>5. CommitInv(i)'
        BY <1>2, <1>4, <1>8, <1>9, <2>2, <2>3, <2>4 DEF CommitInv
    <2>6. RecoverInv(i)' /\ PostInv(i)'
        BY <1>4 DEF RecoverInv, PostInv, Recovering
    <2> QED BY <2>1, <2>5, <2>6 DEF Own
<1>12. ASSUME NEW j \in Installations \ {i} PROVE ListInv(j)'
    <2>1. edits = 0 /\ Listed(j) => \A n \in Previous(j) : dir'[n] = dir[n]
        BY <1>5, <1>6, <1>7 DEF IInv, ListInv, Previous
    <2> QED BY <1>2, <1>4, <1>5, <1>8, <2>1, OthersList
<1> QED BY <1>2, <1>4, <1>5, <1>10, <1>11, <1>12, Working

(* The complete journal is written when the folder holds the new file.     *)
LEMMA InvComplete ==
    ASSUME IInv, TypeOK', Calm', NEW i \in Installations, Complete(i)
    PROVE IInv'
<1>0. TypeOK /\ Journalled \subseteq dirs
    BY DEF IInv, DiskInv
<1>1. /\ run[i].pc = "remove" /\ run[i].txn \in dirs
      /\ journal' = [journal EXCEPT ![run[i].txn] =
            [state |-> "complete", target |-> request[i].target, previous |-> Previous(i)]]
      /\ UNCHANGED <<dir, dirs, backup, object, edits>>
    BY DEF Complete
<1>13. PICK todo : Recover(i, "post", todo, "none") /\ Journalled \subseteq todo
    BY <1>0, CalmRecover DEF Complete
<1>2. PICK t \in Transaction : t = run[i].txn
    BY <1>0, <1>1 DEF TypeOK
<1>3. /\ Others(i)
      /\ run'[i].pc = "recover" /\ run'[i].todo = todo /\ run'[i].goal = "post"
      /\ run'[i].result = "none"
    BY <1>0, <1>1, <1>13, RecoverEffect DEF Others, object
<1>4. i \in Committing \ Checking /\ GoalInv(i) /\ CommitInv(i) /\ ~Idle(i)' /\ Writing(i)
      /\ ~Writing(i)'
    BY <1>1, <1>3 DEF Committing, Checking, IInv, Idle, GoalInv, Writing
<1>5. /\ journal'[t].state = "complete"
      /\ \A u \in Transaction \ {t} : journal'[u] = journal[u]
    BY <1>0, <1>1, <1>2 DEF TypeOK
<1>6. Journalled = {t} /\ dir[request[i].target] = request[i].data
    BY <1>1, <1>2, <1>4 DEF CommitInv
<1>7. Journalled' = {t} /\ Pending' = {} /\ t \in dirs /\ t \in todo
    BY <1>1, <1>2, <1>5, <1>6, <1>13 DEF Journalled, Pending
<1>8. DiskInv'
    BY <1>1, <1>7 DEF DiskInv, OnePending
<1>9. Alone'
    <2>1. GoalKept(i)
        BY <1>3, <1>4 DEF GoalKept
    <2> QED BY <1>3, <2>1, AloneKept
<1>10. Own(i)'
    <2>1. GoalInv(i)'
        BY <1>1, <1>3, <1>4 DEF GoalInv, Writing, Recovering, Busy, Previous, Idle, object
    <2>2. RecoverInv(i)'
        BY <1>1, <1>3, <1>6, <1>7 DEF RecoverInv, Recovering, object
    <2>3. CommitInv(i)' /\ PostInv(i)'
        BY <1>3 DEF CommitInv, PostInv
    <2> QED BY <2>1, <2>2, <2>3 DEF Own
<1>11. ASSUME NEW j \in Installations \ {i} PROVE Own(j)' /\ ListInv(j)'
    <2>1. Own(j)'
        BY <1>3, <1>4, OthersOfInstall
    <2> QED BY <1>1, <1>3, <1>4, <1>7, <2>1, OthersList
<1>12. ListInv(i)'
    BY <1>4 DEF ListInv, Listed
<1> QED BY <1>8, <1>9, <1>10, <1>11, <1>12, Whole

-----------------------------------------------------------------------------
(* The invariant of the whole system, and what it means for a player.      *)

(* At a first start there are no transactions and no lists.                *)
LEMMA InvInit == Init => IInv
<1> SUFFICES ASSUME Init PROVE IInv
    OBVIOUS
<1>1. TypeOK
    BY TypeInit
<1>2. \A i \in Installations : run[i].pc = "idle" /\ run[i].goal = "none"
          /\ error[i] = "unchecked" /\ \A n \in Names : installed[i][n] = None
    BY DEF Init, AtRest, NoFiles
<1>3. Journalled = {} /\ Pending = {}
    BY DEF Init, Journalled, Pending, NoJournal
<1>4. DiskInv /\ Alone
    BY <1>2, <1>3 DEF DiskInv, OnePending, Alone, Busy, Committing
<1>5. \A i \in Installations :
          GoalInv(i) /\ RecoverInv(i) /\ CommitInv(i) /\ PostInv(i) /\ ListInv(i)
    BY <1>2 DEF GoalInv, RecoverInv, CommitInv, PostInv, ListInv, Listed, Idle,
        Recovering, Writing, Previous, Busy
<1> QED BY <1>1, <1>4, <1>5 DEF IInv

(* What has gone wrong stays so.                                           *)
LEMMA CalmStays == TypeOK /\ [Next]_vars /\ Calm' => Calm
<1> SUFFICES ASSUME TypeOK, [Next]_vars, Calm' PROVE Calm
    OBVIOUS
<1> USE DEF Calm
<1>1. ASSUME NEW i \in Installations, NEW goal, NEW result, CallRecover(i, goal, result)
      PROVE Calm
    BY <1>1 DEF CallRecover
<1>2. ASSUME NEW i \in Installations, Recovery(i) PROVE Calm
    <2>1. CASE LookAt(i)
        <3>1. ~met' /\ ~overlooked'
            BY DEF Calm
        <3>2. ~met
            BY <2>1, <3>1 DEF LookAt
        <3>3. PICK t : \/ overlooked' = (overlooked \/ t \in Journalled)
                       \/ overlooked' = overlooked
            BY <2>1 DEF LookAt
        <3>4. ~overlooked
            BY <3>1, <3>3
        <3> QED BY <3>2, <3>4
    <2>2. CASE ~LookAt(i)
        BY <1>2, <2>2 DEF Recovery, Restore, Withdraw, EraseItem, Erased, RecoverFails, Finish
    <2> QED BY <2>1, <2>2
<1>3. ASSUME NEW i \in Installations, Install(i) PROVE Calm
    <2>1. CASE CommitData(i) \/ Complete(i) \/ CommitFails(i)
        BY <1>1, <2>1 DEF CommitData, Complete, CommitFails
    <2>2. CASE ~(CommitData(i) \/ Complete(i) \/ CommitFails(i))
        BY <1>3, <2>2 DEF Install, InstallVersion, DownloadFails, Verify, Refuse, BackUp,
            BackUpFails, WriteJournal, WriteTarget, RemoveOld, Installed, Finish
    <2> QED BY <2>1, <2>2
<1>4. ASSUME NEW i \in Installations, InspectWithVersions(i) \/ Inspected(i) PROVE Calm
    BY <1>1, <1>4 DEF InspectWithVersions, Inspected, Finish
<1>5. CASE EditFile \/ Crash
    BY <1>5 DEF EditFile, Crash
<1>6. CASE UNCHANGED vars
    BY <1>6 DEF vars
<1> QED BY <1>2, <1>3, <1>4, <1>5, <1>6 DEF Next

(* Every step after which nothing has gone wrong keeps the invariant.      *)
LEMMA InvStep == IInv /\ [Next]_vars /\ Calm' => IInv'
<1> SUFFICES ASSUME IInv, [Next]_vars, Calm' PROVE IInv'
    OBVIOUS
<1>0. TypeOK'
    BY TypeStep DEF IInv
<1>1. ASSUME NEW i \in Installations, Recovery(i) PROVE IInv'
    BY <1>0, <1>1, InvLookAt, InvRestore, InvEraseItem, InvErased, InvRecoverFails
    DEF Recovery
<1>2. ASSUME NEW i \in Installations, Install(i) PROVE IInv'
    BY <1>0, <1>2, InvInstallVersion, InvDownloadFails, InvCommitData, InvVerify, InvBackUp,
       InvBackUpFails, InvWriteJournal, InvWriteTarget, InvRemoveOld, InvComplete,
       InvCommitFails, InvInstalled
    DEF Install
<1> QED BY <1>0, <1>1, <1>2, InvInspectWithVersions, InvInspected, InvEditFile, InvCrash,
           InvStutter DEF Next

(* The invariant of the module: the types always, the rest in a calm.      *)
Inv == TypeOK /\ (Calm => IInv)

(* Every step keeps it.                                                    *)
LEMMA CalmStep == Inv /\ [Next]_vars => Inv'
<1> SUFFICES ASSUME Inv, [Next]_vars PROVE Inv'
    OBVIOUS
<1>1. TypeOK'
    BY TypeStep DEF Inv
<1>2. ASSUME Calm' PROVE IInv'
    <2>1. Calm
        BY <1>2, CalmStays DEF Inv
    <2> QED BY <1>2, <2>1, InvStep DEF Inv
<1> QED BY <1>1, <1>2 DEF Inv

(* In every reachable state the types are right and, unless an inspection  *)
(* met a commit or a recovery overlooked a journal, journals are read,     *)
(* rolled back and erased as the recovery assumes they were written.       *)
THEOREM InvCorrect == Spec => []Inv
<1>1. Init => Inv
    BY InvInit DEF Inv, IInv
<1> QED BY <1>1, CalmStep, PTL DEF Spec

(* The list and the folder agree, by ListInv.                              *)
LEMMA ListOfInv == Inv => ListIsCurrent
BY DEF Inv, IInv, ListInv, Listed, ListIsCurrent

(* A page that shows "Previous files remain" is at rest: its list is what  *)
(* the folder holds.                                                       *)
LEMMA PreviousOfInv == Inv => PreviousRemainUnlessMet
BY DEF Inv, Calm, IInv, GoalInv, ListInv, Listed, PreviousRemain, PreviousRemainUnlessMet

(* Whatever fails, and whatever the other pages inspected, downloaded or   *)
(* installed since, the list of a page at rest is what is on disk, as long *)
(* as no inspection met a commit and no journal was overlooked.            *)
THEOREM ListIsCurrentCorrect == Spec => []ListIsCurrent
BY InvCorrect, ListOfInv, PTL

(* As long as no inspection met a commit, "previous files remain" is true  *)
(* unless a journal was overlooked: no file to be replaced is lost.        *)
THEOREM PreviousRemainCorrect == Spec => []PreviousRemainUnlessMet
BY InvCorrect, PreviousOfInv, PTL

-----------------------------------------------------------------------------
(* The install of one file implements AtomicSwap.                          *)

(* The request of an installation that is replacing a file.                *)
RequestOf(i) ==
    [replaces |-> installed[i],
     targets |-> [NoFiles EXCEPT ![request[i].target] = request[i].data]]

(* With no journal pending the player has what the folder holds.           *)
LEMMA ModsOfFolder == Pending = {} => Mods = dir
BY DEF Mods

(* Under a pending journal, what its rollback leaves.                      *)
LEMMA ModsOfPending ==
    ASSUME OnePending, NEW t \in Pending
    PROVE Mods = RolledBack(t)
<1>1. \A u \in Pending : u = t
    BY DEF OnePending
<1> QED BY <1>1 DEF Mods

(* In both cases these are files of a folder.                              *)
LEMMA ModsType == IInv => Mods \in Folder
<1> SUFFICES ASSUME IInv PROVE Mods \in Folder
    OBVIOUS
<1>0. TypeOK /\ OnePending
    BY DEF IInv, DiskInv
<1>1. CASE Pending = {}
    BY <1>0, <1>1, ModsOfFolder DEF TypeOK
<1>2. ASSUME NEW t \in Pending PROVE Mods \in Folder
    <2>1. t \in Transaction
        BY DEF Pending
    <2>2. RolledBack(t) \in Folder
        BY <1>0, <2>1 DEF RolledBack, TypeOK, Folder
    <2> QED BY <1>0, <2>2, ModsOfPending
<1> QED BY <1>1, <1>2

(* A step under which no pending journal comes or goes, and which leaves   *)
(* what a rollback would leave, keeps the player's files.                  *)
LEMMA ModsKept ==
    ASSUME IInv, IInv', Pending' = Pending, Pending = {} => dir' = dir,
           \A t \in Pending : RolledBack(t)' = RolledBack(t)
    PROVE Mods' = Mods
<1>1. CASE Pending = {}
    BY <1>1 DEF Mods
<1>2. ASSUME NEW t \in Pending PROVE Mods' = Mods
    <2>1. Mods = RolledBack(t)
        BY ModsOfPending DEF IInv, DiskInv
    <2>2. \A u \in Pending : u = t
        BY DEF IInv, DiskInv, OnePending
    <2>3. Mods' = RolledBack(t)'
        BY <2>2 DEF Mods
    <2> QED BY <2>1, <2>3
<1> QED BY <1>1, <1>2

(* So does a step that leaves the disk alone.                              *)
LEMMA ModsOfSameDisk ==
    ASSUME IInv, IInv', UNCHANGED disk
    PROVE Mods' = Mods
<1>1. Pending' = Pending
    BY DEF Pending, disk
<1>2. \A t \in Pending : RolledBack(t)' = RolledBack(t)
    BY DEF RolledBack, disk
<1> QED BY <1>1, <1>2, ModsKept DEF disk

(* Files that are as a rollback leaves them are what it would leave.       *)
LEMMA BackIsRolledBack ==
    ASSUME TypeOK, NEW t \in Transaction, Back(t, journal[t])
    PROVE RolledBack(t) = dir
<1>1. \A n \in Names : RolledBack(t)[n] = dir[n]
    BY DEF Back, RolledBack
<1> QED BY <1>1 DEF RolledBack, TypeOK, Folder

(* One installation at most replaces a file.                               *)
LEMMA OneWriter == IInv => \A i \in Installations : Writing(i) => Writers = {i}
<1> SUFFICES ASSUME IInv, NEW i \in Installations, Writing(i) PROVE Writers = {i}
    OBVIOUS
<1>1. i \in Committing
    BY DEF IInv, GoalInv, Committing
<1>2. \A j \in Installations \ {i} : ~Writing(j)
    BY <1>1, Bystander DEF Writing
<1> QED BY <1>2 DEF Writers, Writing

(* Nobody is replacing a file.                                             *)
Resting == \A i \in Installations : ~Writing(i)

(* Then there is no request.                                               *)
LEMMA RequestOfRest == Resting => Request = Swap!NoRequest
BY DEF Resting, Request, Writers, Writing, Swap!NoRequest, Swap!NoFiles, NoFiles

(* The request of the system is that of the installation replacing a file. *)
WritersRequest == \A i \in Installations : Writing(i) => Request = RequestOf(i)

(* There is never more than one.                                           *)
LEMMA RequestOfWriter == IInv => WritersRequest
<1> SUFFICES ASSUME IInv, NEW i \in Installations, Writing(i) PROVE Request = RequestOf(i)
    BY DEF WritersRequest
<1>1. Writers = {i}
    BY OneWriter
<1> QED BY <1>1 DEF Request, RequestOf

(* A request asks for one file of the folder.                              *)
LEMMA RequestShape ==
    ASSUME TypeOK, NEW i \in Installations,
           request[i].target \in Names, request[i].data \in Data
    PROVE /\ RequestOf(i) \in Swap!Request
          /\ Swap!Asked(RequestOf(i)) = {request[i].target}
          /\ RequestOf(i).targets[request[i].target] = request[i].data
          /\ RequestOf(i) # Swap!NoRequest
<1> DEFINE targets == [NoFiles EXCEPT ![request[i].target] = request[i].data]
<1>1. /\ targets \in Folder
      /\ \A n \in Names : targets[n] = IF n = request[i].target THEN request[i].data ELSE None
    BY DEF NoFiles, Folder
<1>2. RequestOf(i) = [replaces |-> installed[i], targets |-> targets] /\ installed[i] \in Folder
    BY DEF RequestOf, TypeOK
<1> HIDE DEF targets
<1>3. RequestOf(i) \in Swap!Request
    BY <1>1, <1>2 DEF Swap!Request, Swap!Folder, Folder
<1>4. Swap!Asked(RequestOf(i)) = {request[i].target}
    BY <1>1, <1>2 DEF Swap!Asked
<1>5. RequestOf(i) # Swap!NoRequest
    BY <1>1, <1>2 DEF Swap!NoRequest, Swap!NoFiles
<1> QED BY <1>1, <1>2, <1>3, <1>4, <1>5

(* So does the one an installation carries out.                            *)
LEMMA RequestType ==
    ASSUME IInv, NEW i \in Installations, Writing(i)
    PROVE /\ Swap!Asked(RequestOf(i)) = {request[i].target}
          /\ RequestOf(i).targets[request[i].target] = request[i].data
          /\ RequestOf(i) # Swap!NoRequest
<1>1. TypeOK /\ request[i].target \in Names /\ request[i].data \in Data
    BY DEF IInv, GoalInv, Busy
<1> QED BY <1>1, RequestShape

(* A step of i that neither begins nor ends its writing.                   *)
Continues(i) ==
    \/ ~Writing(i) /\ ~Writing(i)'
    \/ Writing(i) /\ Writing(i)' /\ installed'[i] = installed[i] /\ request'[i] = request[i]

(* It keeps the request.                                                   *)
LEMMA RequestKept ==
    ASSUME IInv, IInv', NEW i \in Installations, Others(i), Continues(i)
    PROVE Request' = Request
<1>1. \A k \in Installations : Writing(k)' <=> Writing(k)
    BY DEF Others, Continues, Writing
<1>2. ASSUME NEW k \in Installations, Writing(k) PROVE Request' = Request
    <2>1. Request = RequestOf(k)
        BY <1>2, RequestOfWriter DEF WritersRequest
    <2>2. WritersRequest'
        BY RequestOfWriter, PTL
    <2>3. Request' = RequestOf(k)'
        BY <1>1, <1>2, <2>2 DEF WritersRequest
    <2>4. installed'[k] = installed[k] /\ request'[k] = request[k]
        BY <1>2 DEF Others, Continues
    <2> QED BY <2>1, <2>3, <2>4 DEF RequestOf, Previous
<1>3. CASE Resting
    <2>1. Request = Swap!NoRequest
        BY <1>3, RequestOfRest
    <2>2. (Resting => Request = Swap!NoRequest)'
        BY RequestOfRest, PTL
    <2>3. Swap!NoRequest' = Swap!NoRequest
        BY DEF Swap!NoRequest, Swap!NoFiles
    <2> QED BY <1>1, <1>3, <2>1, <2>2, <2>3 DEF Resting
<1> QED BY <1>2, <1>3 DEF Resting

(* Giving up a replacement, or being killed in one, aborts the request.    *)
LEMMA SwapAbort ==
    ASSUME IInv, NEW i \in Installations, Writing(i),
           Resting', Mods' = Mods, edits' = edits
    PROVE Swap!Abort
<1>1. Request # Swap!NoRequest
    BY RequestOfWriter, RequestType DEF WritersRequest
<1>2. (Resting => Request = Swap!NoRequest)'
    BY RequestOfRest, PTL
<1>3. Swap!NoRequest' = Swap!NoRequest
    BY DEF Swap!NoRequest, Swap!NoFiles
<1> QED BY <1>1, <1>2, <1>3 DEF Swap!Abort

(* A first start is an initial state of AtomicSwap.                        *)
LEMMA SwapInit == Init => Swap!Init
<1> SUFFICES ASSUME Init PROVE Swap!Init
    OBVIOUS
<1>1. Pending = {}
    BY DEF Init, Pending, NoJournal
<1>2. Mods = dir
    BY <1>1, ModsOfFolder
<1>3. Resting
    BY DEF Init, AtRest, Resting, Writing
<1> QED BY <1>2, <1>3, RequestOfRest DEF Init, Swap!Init, Swap!Folder, Folder

(* A change by hand is an edit of AtomicSwap.                              *)
LEMMA SwapEdit ==
    ASSUME IInv, IInv', EditFile
    PROVE Swap!Edit
<1>1. \A i \in Installations : run[i].pc \in {"idle", "download"}
    BY DEF EditFile
<1>2. edits' = edits + 1 /\ run' = run
    BY DEF EditFile
<1>3. Resting /\ Resting'
    BY <1>1, <1>2 DEF Resting, Writing
<1>4. Request = Swap!NoRequest /\ Request' = Request
    <2>1. (Resting => Request = Swap!NoRequest)'
        BY RequestOfRest, PTL
    <2>2. Swap!NoRequest' = Swap!NoRequest
        BY DEF Swap!NoRequest, Swap!NoFiles
    <2> QED BY <1>3, <2>1, <2>2, RequestOfRest
<1>5. (Mods \in Folder)'
    BY ModsType, PTL
<1>6. Mods' \in Swap!Folder
    BY <1>5 DEF Folder, Swap!Folder
<1> QED BY <1>2, <1>4, <1>6 DEF Swap!Edit

(* A recovery never changes the player's files: it restores them.          *)
LEMMA ModsOfRecovery ==
    ASSUME IInv, IInv', NEW i \in Installations,
           Restore(i) \/ Withdraw(i) \/ EraseItem(i) \/ Erased(i)
    PROVE Mods' = Mods
<1>0. TypeOK /\ OnePending /\ RecoverInv(i)
    BY DEF IInv, DiskInv
<1>1. CASE Restore(i) \/ Withdraw(i)
    <2>1. run[i].pc = "restore" /\ UNCHANGED <<dirs, journal, backup>>
        BY <1>1 DEF Restore, Withdraw
    <2>2. Pending' = Pending
        BY <2>1 DEF Pending
    <2>3. PICK t \in Transaction, J \in Journal : t = run[i].txn /\ J = run[i].journal
        BY <1>0, <2>1 DEF TypeOK, Run
    <2>4. J.previous \subseteq Names /\ run[i].left \subseteq J.previous
        BY <1>0, <2>1, <2>3 DEF RecoverInv, Journal
    <2>5. \A n \in Names :
              \/ dir'[n] = dir[n]
              \/ n \in J.previous /\ backup[t][n] # None /\ dir'[n] = backup[t][n]
              \/ n \notin J.previous /\ n = J.target /\ dir'[n] = None
        <3>1. CASE Restore(i)
            <4>1. PICK n \in run[i].left :
                      backup[t][n] # None /\ dir' = [dir EXCEPT ![n] = backup[t][n]]
                BY <2>3, <3>1 DEF Restore
            <4>2. n \in J.previous
                BY <2>4
            <4> QED BY <1>0, <4>1, <4>2 DEF TypeOK, Folder
        <3>2. CASE Withdraw(i)
            BY <2>3, <3>2 DEF Withdraw
        <3> QED BY <1>1, <3>1, <3>2
    <2>6. CASE t \in Pending /\ J = journal[t]
        <3>1. RolledBack(t)' = RolledBack(t)
            BY <2>1, <2>5, <2>6 DEF RolledBack
        <3>2. \A u \in Pending : u = t
            BY <1>0, <2>6 DEF OnePending
        <3>3. \A u \in Pending : RolledBack(u)' = RolledBack(u)
            BY <3>1, <3>2
        <3> QED BY <2>2, <2>6, <3>3, ModsKept
    <2>7. CASE Pending = {} /\ Back(t, J)
        <3>1. \A n \in Names : dir'[n] = dir[n]
            BY <2>5, <2>7 DEF Back
        <3>2. dir \in Folder /\ dir' \in Folder
            BY DEF IInv, TypeOK
        <3>3. dir' = dir
            BY <3>1, <3>2 DEF Folder
        <3> QED BY <2>2, <2>7, <3>3, ModsKept
    <2> QED BY <1>0, <2>1, <2>3, <2>6, <2>7 DEF RecoverInv
<1>2. CASE EraseItem(i)
    <2>1. run[i].pc = "erase" /\ dir' = dir /\ run' = run
        BY <1>2 DEF EraseItem
    <2>2. PICK t \in Transaction : t = run[i].txn
        BY <1>0, <2>1 DEF TypeOK
    <2>3. CASE UNCHANGED journal
        <3>1. Pending' = Pending
            BY <2>3 DEF Pending
        <3>2. ASSUME NEW u \in Pending PROVE RolledBack(u)' = RolledBack(u)
            <4>1. CASE u = t
                <5>1. Back(u, journal[u])
                    BY <1>0, <2>1, <2>2, <4>1 DEF RecoverInv
                <5>2. RecoverInv(i)'
                    BY DEF IInv
                <5>3. Back(u, journal[u])'
                    BY <2>1, <2>2, <3>1, <4>1, <5>2 DEF RecoverInv
                <5>4. RolledBack(u) = dir
                    BY <1>0, <5>1, BackIsRolledBack DEF Pending
                <5>5. \A n \in Names : dir'[n] = RolledBack(u)'[n]
                    BY <5>3 DEF Back, RolledBack
                <5>6. dir' \in Folder
                    BY DEF IInv, TypeOK
                <5>7. RolledBack(u)' = dir'
                    BY <5>5, <5>6 DEF RolledBack, Folder
                <5> QED BY <2>1, <5>4, <5>7
            <4>2. CASE u # t
                <5>1. backup'[u] = backup[u]
                    BY <1>0, <1>2, <2>2, <2>3, <4>2 DEF EraseItem, TypeOK, Pending
                <5> QED BY <2>1, <2>3, <5>1 DEF RolledBack
            <4> QED BY <4>1, <4>2
        <3> QED BY <2>1, <3>1, <3>2, ModsKept
    <2>4. CASE journal' = [journal EXCEPT ![run[i].txn] = NoJournal] /\ UNCHANGED backup
        <3>1. Pending' = Pending \ {t} /\ \A u \in Transaction \ {t} : journal'[u] = journal[u]
            BY <1>0, <2>2, <2>4 DEF Pending, NoJournal, TypeOK
        <3>2. CASE t \in Pending
            <4>1. Pending' = {} /\ Mods = RolledBack(t)
                BY <1>0, <3>1, <3>2, ModsOfPending DEF OnePending
            <4>2. Back(t, journal[t])
                BY <1>0, <2>1, <2>2, <3>2 DEF RecoverInv
            <4>3. Mods' = dir'
                BY <4>1 DEF Mods
            <4> QED BY <1>0, <2>1, <4>1, <4>2, <4>3, BackIsRolledBack
        <3>3. CASE t \notin Pending
            <4>1. \A u \in Pending : RolledBack(u)' = RolledBack(u)
                BY <2>1, <2>4, <3>1, <3>3 DEF RolledBack, Pending
            <4> QED BY <2>1, <3>1, <3>3, <4>1, ModsKept
        <3> QED BY <3>2, <3>3
    <2> QED BY <1>2, <2>3, <2>4 DEF EraseItem
<1>3. CASE Erased(i)
    <2>1. UNCHANGED <<dir, journal, backup>>
        BY <1>3 DEF Erased
    <2> QED BY <2>1, ModsKept DEF Pending, RolledBack
<1> QED BY <1>1, <1>2, <1>3

(* An install begins on the folder it verified.                            *)
LEMMA SwapBegin ==
    ASSUME IInv, IInv', NEW i \in Installations, Verify(i)
    PROVE Swap!Begin
<1>0. TypeOK
    BY DEF IInv
<1>1. /\ Recovered(i) /\ run[i].goal = "commit" /\ Verified(i) /\ run[i].pc = "recover"
      /\ UNCHANGED <<dir, journal, backup, object, edits>>
    BY DEF Verify, Recovered
<1>2. PICK t \in Transaction : Work(i, "backup", t, NoJournal, Previous(i))
    BY DEF Verify
<1>3. Others(i) /\ run'[i].pc = "backup"
    BY <1>0, <1>1, <1>2, WorkEffect
<1>4. i \in Busy /\ i \in Committing /\ ~Writing(i) /\ Writing(i)'
    BY <1>1, <1>3 DEF Busy, Committing, Writing
<1>5. Resting
    BY <1>4, Bystander DEF Resting, Writing
<1>6. Request = Swap!NoRequest
    BY <1>5, RequestOfRest
<1>7. WritersRequest'
    BY RequestOfWriter, PTL
<1>8. Request' = RequestOf(i)'
    BY <1>4, <1>7 DEF WritersRequest
<1>9. Pending = {} /\ Pending' = {}
    BY <1>1, RecoveredDisk DEF Pending
<1>10. Mods = dir /\ Mods' = Mods
    BY <1>1, <1>9 DEF Mods
<1>11. RequestOf(i)' = RequestOf(i)
    BY <1>1 DEF RequestOf, Previous, object
<1>12. /\ RequestOf(i) \in Swap!Request /\ Swap!Asked(RequestOf(i)) = {request[i].target}
       /\ RequestOf(i).replaces = installed[i]
    <2>1. request[i].target \in Names /\ request[i].data \in Data
        BY <1>4 DEF IInv, GoalInv
    <2> QED BY <1>0, <2>1, RequestShape DEF RequestOf
<1>13. Swap!Fits(Mods, RequestOf(i))
    BY <1>0, <1>1, <1>10, <1>12 DEF Swap!Fits, Swap!Replaced, Verified, Previous
<1> QED BY <1>1, <1>6, <1>8, <1>10, <1>11, <1>12, <1>13 DEF Swap!Begin

(* Marking the journal complete puts the request into effect.              *)
LEMMA SwapApply ==
    ASSUME IInv, IInv', NEW i \in Installations, Complete(i)
    PROVE Swap!Apply
<1>0. TypeOK /\ OnePending /\ CommitInv(i)
    BY DEF IInv, DiskInv
<1>1. /\ run[i].pc = "remove" /\ run[i].left = {} /\ Writing(i)
      /\ journal' = [journal EXCEPT ![run[i].txn] =
            [state |-> "complete", target |-> request[i].target, previous |-> Previous(i)]]
      /\ UNCHANGED <<dir, dirs, backup, object, edits>>
    BY DEF Complete, Writing
<1>11. PICK todo : Recover(i, "post", todo, "none")
    BY DEF Complete, CallRecover
<1>2. PICK t \in Transaction : t = run[i].txn
    BY <1>0, <1>1 DEF TypeOK
<1>3. Others(i) /\ ~Writing(i)'
    BY <1>0, <1>1, <1>11, RecoverEffect DEF Others, object, Writing
<1>4. Resting'
    <2>1. i \in Committing
        BY <1>1 DEF IInv, GoalInv, Committing
    <2> QED BY <1>3, <2>1, Bystander DEF Resting, Others, Writing
<1>5. Request = RequestOf(i) /\ Request # Swap!NoRequest /\ Request' = Swap!NoRequest
    <2>1. (Resting => Request = Swap!NoRequest)'
        BY RequestOfRest, PTL
    <2>2. Swap!NoRequest' = Swap!NoRequest
        BY DEF Swap!NoRequest, Swap!NoFiles
    <2> QED BY <1>1, <1>4, <2>1, <2>2, RequestOfWriter, RequestType DEF WritersRequest
<1>6. /\ Journalled = {t}
      /\ journal[t] = [state |-> "pending", target |-> request[i].target,
                       previous |-> Previous(i)]
      /\ \A n \in Previous(i) : backup[t][n] = installed[i][n]
      /\ dir[request[i].target] = request[i].data
      /\ \A n \in Previous(i) \ {request[i].target} : dir[n] = None
    BY <1>0, <1>1, <1>2 DEF CommitInv
<1>7. Pending = {t} /\ Pending' = {}
    <2>1. journal'[t].state = "complete"
          /\ \A u \in Transaction \ {t} : journal'[u] = journal[u]
        BY <1>0, <1>1, <1>2 DEF TypeOK
    <2> QED BY <1>6, <2>1 DEF Pending, Journalled
<1>8. Mods = RolledBack(t) /\ Mods' = dir
    <2>1. Mods' = dir'
        BY <1>7 DEF Mods
    <2> QED BY <1>0, <1>1, <1>7, <2>1, ModsOfPending
<1>9. \A n \in Names : n \notin Previous(i) /\ n # request[i].target => Mods[n] = dir[n]
    BY <1>6, <1>8 DEF RolledBack
<1>10. dir = Swap!Swapped(Mods, RequestOf(i))
    <2>1. dir = [n \in Names |-> dir[n]]
        BY <1>0 DEF TypeOK, Folder
    <2>2. Swap!Replaced(RequestOf(i)) = Previous(i)
        BY DEF RequestOf, Swap!Replaced, Previous
    <2>3. /\ Swap!Asked(RequestOf(i)) = {request[i].target}
          /\ RequestOf(i).targets[request[i].target] = request[i].data
        BY <1>1, RequestType
    <2>4. \A n \in Names : dir[n] = Swap!Swapped(Mods, RequestOf(i))[n]
        BY <1>6, <1>9, <2>2, <2>3 DEF Swap!Swapped
    <2> QED BY <2>1, <2>4 DEF Swap!Swapped
<1> QED BY <1>1, <1>5, <1>8, <1>10 DEF Swap!Apply

(* Backing up, journalling, writing and removing change no file that a     *)
(* rollback would not put back.                                            *)
LEMMA ModsOfInstall ==
    ASSUME IInv, IInv', NEW i \in Installations,
           BackUp(i) \/ BackUpFails(i) \/ WriteJournal(i) \/ WriteTarget(i) \/ RemoveOld(i)
    PROVE Mods' = Mods
<1>0. TypeOK /\ OnePending /\ CommitInv(i) /\ GoalInv(i)
    BY DEF IInv, DiskInv
<1>1. run[i].pc \in {"backup", "write", "remove"}
    BY DEF BackUp, BackUpFails, WriteJournal, WriteTarget, RemoveOld
<1>2. PICK t \in Transaction : t = run[i].txn
    BY <1>0, <1>1 DEF TypeOK
<1>3. CASE BackUp(i) \/ BackUpFails(i)
    <2>1. Pending = {} /\ Pending' = {} /\ dir' = dir
        BY <1>0, <1>3 DEF BackUp, BackUpFails, CommitInv, Journalled, Pending
    <2> QED BY <2>1, ModsKept
<1>4. CASE WriteJournal(i)
    <2>1. /\ run[i].pc = "backup" /\ run[i].left = {} /\ dir' = dir /\ backup' = backup
          /\ journal' = [journal EXCEPT ![run[i].txn] =
                [state |-> "pending", target |-> request[i].target, previous |-> Previous(i)]]
        BY <1>4 DEF WriteJournal
    <2>2. journal'[t] = [state |-> "pending", target |-> request[i].target,
                         previous |-> Previous(i)]
        BY <1>0, <1>2, <2>1 DEF TypeOK
    <2>3. \A n \in Previous(i) : backup[t][n] = dir[n]
        BY <1>0, <1>2, <2>1 DEF CommitInv
    <2>4. request[i].target \notin Previous(i) => dir[request[i].target] = None
        BY <1>0, <2>1 DEF CommitInv
    <2>5. \A n \in Names : RolledBack(t)'[n] = dir[n]
        BY <2>1, <2>2, <2>3, <2>4 DEF RolledBack
    <2>6. RolledBack(t)' = dir
        BY <1>0, <2>5 DEF RolledBack, TypeOK, Folder
    <2>7. Pending = {} /\ Pending' = {t}
        <3>1. Journalled = {}
            BY <1>0, <2>1 DEF CommitInv
        <3>2. \A u \in Transaction \ {t} : journal'[u] = journal[u]
            BY <1>0, <1>2, <2>1 DEF TypeOK
        <3> QED BY <2>2, <3>1, <3>2 DEF Journalled, Pending
    <2>8. Mods = dir /\ Mods' = RolledBack(t)'
        BY <2>7 DEF Mods
    <2> QED BY <2>6, <2>8
<1>5. CASE WriteTarget(i) \/ RemoveOld(i)
    <2>1. run[i].pc \in {"write", "remove"} /\ UNCHANGED <<dirs, journal, backup>>
        BY <1>5 DEF WriteTarget, RemoveOld
    <2>2. /\ Journalled = {t}
          /\ journal[t] = [state |-> "pending", target |-> request[i].target,
                           previous |-> Previous(i)]
          /\ \A n \in Previous(i) : backup[t][n] = installed[i][n] /\ installed[i][n] # None
        BY <1>0, <1>2, <2>1 DEF CommitInv, Previous
    <2>3. t \in Pending /\ Pending' = Pending
        BY <2>1, <2>2 DEF Pending
    <2>4. \A n \in Names : n \notin Previous(i) /\ n # request[i].target => dir'[n] = dir[n]
        <3>1. CASE WriteTarget(i)
            BY <1>0, <3>1 DEF WriteTarget, TypeOK, Folder
        <3>2. CASE RemoveOld(i)
            BY <1>0, <3>2 DEF RemoveOld, CommitInv, TypeOK, Folder
        <3> QED BY <1>5, <3>1, <3>2
    <2>5. RolledBack(t)' = RolledBack(t)
        BY <2>1, <2>2, <2>4 DEF RolledBack
    <2>6. \A u \in Pending : u = t
        BY <1>0, <2>3 DEF OnePending
    <2>7. \A u \in Pending : RolledBack(u)' = RolledBack(u)
        BY <2>5, <2>6
    <2> QED BY <2>3, <2>7, ModsKept
<1> QED BY <1>3, <1>4, <1>5

(* Steps that leave the disk alone, before and after the writing.          *)
Thinks(i) ==
    \/ InspectWithVersions(i) \/ Inspected(i) \/ LookAt(i) \/ RecoverFails(i)
    \/ InstallVersion(i) \/ DownloadFails(i) \/ CommitData(i) \/ Refuse(i) \/ Installed(i)

(* They change nothing that AtomicSwap sees.                               *)
LEMMA SwapThinks ==
    ASSUME IInv, IInv', NEW i \in Installations, Thinks(i)
    PROVE UNCHANGED Swap!vars
<1>0. TypeOK
    BY DEF IInv
<1>1. UNCHANGED disk /\ edits' = edits /\ ~Writing(i)
    BY DEF Thinks, InspectWithVersions, Inspected, LookAt, RecoverFails, InstallVersion,
        DownloadFails, CommitData, Refuse, Installed, Finish, Idle, Recovered, Writing
<1>2. Others(i) /\ ~Writing(i)'
    <2>1. ASSUME NEW files, NEW e, Finish(i, files, e) PROVE Others(i) /\ ~Writing(i)'
        BY <1>0, <2>1, FinishEffect DEF Writing
    <2>2. ASSUME NEW goal, NEW todo, NEW result, Recover(i, goal, todo, result),
                 UNCHANGED <<installed, request>>,
                 \A j \in Installations \ {i} : error'[j] = error[j]
          PROVE Others(i) /\ ~Writing(i)'
        BY <1>0, <2>2, RecoverEffect DEF Others, Writing
    <2>3. CASE Inspected(i) \/ RecoverFails(i) \/ DownloadFails(i) \/ Refuse(i) \/ Installed(i)
        BY <2>1, <2>3 DEF Inspected, RecoverFails, DownloadFails, Refuse, Installed
    <2>4. CASE InspectWithVersions(i)
        BY <1>0, <2>2, <2>4 DEF InspectWithVersions, CallRecover, TypeOK
    <2>5. CASE CommitData(i)
        BY <2>2, <2>5 DEF CommitData, CallRecover, object
    <2>6. CASE LookAt(i)
        <3>1. PICK t \in run[i].todo :
                  \/ Recover(i, run[i].goal, run[i].todo \ {t}, run[i].result)
                  \/ Work(i, "restore", t, journal[t], journal[t].previous)
                  \/ Work(i, "erase", t, journal[t], {})
            BY <2>6 DEF LookAt
        <3>2. UNCHANGED object
            BY <2>6 DEF LookAt
        <3>3. CASE Recover(i, run[i].goal, run[i].todo \ {t}, run[i].result)
            BY <2>2, <3>2, <3>3 DEF object
        <3>4. CASE Work(i, "restore", t, journal[t], journal[t].previous)
            BY <1>0, <3>2, <3>4, WorkEffect DEF Writing
        <3>5. CASE Work(i, "erase", t, journal[t], {})
            BY <1>0, <3>2, <3>5, WorkEffect DEF Writing
        <3> QED BY <3>1, <3>3, <3>4, <3>5
    <2>7. CASE InstallVersion(i)
        <3>1. /\ run' = [run EXCEPT ![i] = [AtRest EXCEPT !.pc = "download", !.goal = "download"]]
              /\ UNCHANGED <<installed, error>>
              /\ \A j \in Installations \ {i} : request'[j] = request[j]
            BY <1>0, <2>7 DEF InstallVersion, TypeOK
        <3>2. [AtRest EXCEPT !.pc = "download", !.goal = "download"].pc = "download"
            BY DEF AtRest
        <3>3. run'[i].pc = "download" /\ \A j \in Installations \ {i} : run'[j] = run[j]
            BY <1>0, <3>1, <3>2 DEF TypeOK
        <3> QED BY <3>1, <3>3 DEF Others, Writing
    <2> QED BY <2>3, <2>4, <2>5, <2>6, <2>7 DEF Thinks
<1>3. Mods' = Mods
    BY <1>1, ModsOfSameDisk
<1>4. Request' = Request
    BY <1>1, <1>2, RequestKept DEF Continues
<1> QED BY <1>1, <1>3, <1>4 DEF Swap!vars

(* Every step of PackInstall is a step of AtomicSwap, or stutters.         *)
LEMMA SwapStep ==
    ASSUME IInv, IInv', Next
    PROVE [Swap!Next]_(Swap!vars)
<1>0. TypeOK
    BY DEF IInv
<1>1. CASE EditFile
    BY <1>1, SwapEdit DEF Swap!Next
<1>2. CASE Crash
    <2>1. UNCHANGED disk /\ edits' = edits
        BY <1>2 DEF Crash
    <2>2. Resting'
        BY <1>2 DEF Crash, Resting, Writing, AtRest
    <2>3. Mods' = Mods
        BY <2>1, ModsOfSameDisk
    <2>4. CASE ~Resting
        <3>1. PICK i \in Installations : Writing(i)
            BY <2>4 DEF Resting
        <3> QED BY <2>1, <2>2, <2>3, <3>1, SwapAbort DEF Swap!Next
    <2>5. CASE Resting
        <3>1. (Resting => Request = Swap!NoRequest)'
            BY RequestOfRest, PTL
        <3>2. Swap!NoRequest' = Swap!NoRequest
            BY DEF Swap!NoRequest, Swap!NoFiles
        <3> QED BY <2>1, <2>2, <2>3, <2>5, <3>1, <3>2, RequestOfRest DEF Swap!vars
    <2> QED BY <2>4, <2>5
<1>3. ASSUME NEW i \in Installations, Thinks(i) PROVE [Swap!Next]_(Swap!vars)
    BY <1>3, SwapThinks
<1>4. ASSUME NEW i \in Installations, Restore(i) \/ Withdraw(i) \/ EraseItem(i) \/ Erased(i)
      PROVE [Swap!Next]_(Swap!vars)
    <2>1. Mods' = Mods
        BY <1>4, ModsOfRecovery
    <2>2. edits' = edits /\ UNCHANGED object /\ ~Writing(i)
        BY <1>4 DEF Restore, Withdraw, EraseItem, Erased, Writing
    <2>3. Others(i) /\ ~Writing(i)'
        <3>1. CASE Restore(i)
            BY <1>0, <2>2, <3>1, WorkEffect DEF Restore, Goto, Writing
        <3>2. CASE Withdraw(i)
            BY <1>0, <2>2, <3>2, WorkEffect DEF Withdraw, Goto, Writing
        <3>3. CASE EraseItem(i)
            BY <2>2, <3>3 DEF EraseItem, Others, object, Writing
        <3>4. CASE Erased(i)
            BY <1>0, <2>2, <3>4, RecoverEffect DEF Erased, Others, object, Writing
        <3> QED BY <1>4, <3>1, <3>2, <3>3, <3>4
    <2>4. Request' = Request
        BY <2>2, <2>3, RequestKept DEF Continues
    <2> QED BY <2>1, <2>2, <2>4 DEF Swap!vars
<1>5. ASSUME NEW i \in Installations, Verify(i) PROVE [Swap!Next]_(Swap!vars)
    BY <1>5, SwapBegin DEF Swap!Next
<1>6. ASSUME NEW i \in Installations, BackUp(i) \/ WriteJournal(i) \/ WriteTarget(i) \/ RemoveOld(i)
      PROVE [Swap!Next]_(Swap!vars)
    <2>1. Mods' = Mods
        BY <1>6, ModsOfInstall
    <2>2. edits' = edits /\ UNCHANGED object /\ Writing(i)
        BY <1>6 DEF BackUp, WriteJournal, WriteTarget, RemoveOld, Writing
    <2>3. Others(i) /\ Writing(i)'
        <3>1. PICK pc \in {"backup", "write", "remove"} :
                  \E left : Work(i, pc, run[i].txn, run[i].journal, left)
            BY <1>6 DEF BackUp, WriteJournal, WriteTarget, RemoveOld, Goto
        <3>2. PICK left : Work(i, pc, run[i].txn, run[i].journal, left)
            BY <3>1
        <3> QED BY <1>0, <2>2, <3>1, <3>2, WorkEffect DEF Writing
    <2>4. Request' = Request
        BY <2>2, <2>3, RequestKept DEF Continues, object
    <2> QED BY <2>1, <2>2, <2>4 DEF Swap!vars
<1>7. ASSUME NEW i \in Installations, BackUpFails(i) \/ CommitFails(i)
      PROVE [Swap!Next]_(Swap!vars)
    <2>1. edits' = edits /\ Writing(i)
        BY <1>7 DEF BackUpFails, CommitFails, Finish, Writing
    <2>2. Mods' = Mods
        BY <1>7, ModsOfInstall, ModsOfSameDisk DEF CommitFails
    <2>3. Others(i) /\ ~Writing(i)'
        <3>1. CASE BackUpFails(i)
            BY <1>0, <3>1, FinishEffect DEF BackUpFails, Writing
        <3>2. CASE CommitFails(i)
            <4>1. PICK todo, result : Recover(i, "post", todo, result)
                BY <3>2 DEF CommitFails, CallRecover
            <4> QED BY <1>0, <3>2, <4>1, RecoverEffect DEF CommitFails, Others, object, Writing
        <3> QED BY <1>7, <3>1, <3>2
    <2>4. i \in Committing
        BY <2>1 DEF IInv, GoalInv, Committing
    <2>5. Resting'
        BY <2>3, <2>4, Bystander DEF Resting, Others, Writing
    <2> QED BY <2>1, <2>2, <2>5, SwapAbort DEF Swap!Next
<1>8. ASSUME NEW i \in Installations, Complete(i) PROVE [Swap!Next]_(Swap!vars)
    BY <1>8, SwapApply DEF Swap!Next
<1> QED BY <1>1, <1>2, <1>3, <1>4, <1>5, <1>6, <1>7, <1>8 DEF Next, Recovery, Install, Thinks

(* As long as no inspection met a commit and no journal was overlooked,    *)
(* the install implements AtomicSwap: through every other failure and kill *)
(* the player's files are those of before or those that were asked for.    *)
THEOREM AtomicCorrect == Spec => Atomic
<1>1. Inv /\ Inv' /\ [Next]_vars => [~Calm' \/ Swap!Next]_(Swap!vars)
    <2> SUFFICES ASSUME Inv, Inv', [Next]_vars, Calm' PROVE [Swap!Next]_(Swap!vars)
        OBVIOUS
    <2>1. IInv /\ IInv'
        BY CalmStays DEF Inv
    <2>2. CASE Next
        BY <2>1, <2>2, SwapStep
    <2>3. CASE UNCHANGED vars
        <3>1. Mods' = Mods
            BY <2>1, <2>3, ModsOfSameDisk DEF vars
        <3>2. Request' = Request /\ edits' = edits
            BY <2>3 DEF vars, object, Request, Writers
        <3> QED BY <3>1, <3>2 DEF Swap!vars
    <2> QED BY <2>2, <2>3
<1> QED BY <1>1, InvCorrect, SwapInit, PTL DEF Spec, Atomic
=============================================================================
