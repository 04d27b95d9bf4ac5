-------------------------- MODULE VersionDownload --------------------------
(***************************************************************************)
(* What happens between Play and the game: MinecraftResourceDownloadTask,  *)
(* which brings the files of a version up to date, and the part of         *)
(* LauncherNavigationController that starts it, watches its progress and   *)
(* launches the game.                                                      *)
(*                                                                         *)
(* Three kinds of threads meet here. A worker starts the download; the     *)
(* delegate queue of the URL session reports bytes and stores files; the   *)
(* main thread runs everything else, as blocks of its queue: completion    *)
(* handlers, the KVO of the progress, and what an error does to the UI.    *)
(* self.task is read by the blocks when they run, not when they are made.  *)
(*                                                                         *)
(* NSProgress counts one unit for a file, whatever its size, and one       *)
(* change of the progress is one notification. The Play button shows       *)
(* "Details" exactly as long as self.task is set.                          *)
(***************************************************************************)
EXTENDS Integers, Sequences, FiniteSets

CONSTANTS
    Task,       \* download tasks: one for each time Play is pressed
    NoTask,     \* nil
    Meta,       \* the JSON of the version; the version list has no size for it
    Index,      \* the asset index
    Libs,       \* libraries
    Assets,     \* asset objects
    Unsized     \* libraries of a JSON that gives no size

ASSUME FilesAssumption ==
    /\ NoTask \notin Task
    /\ Meta # Index /\ {Meta, Index} \cap (Libs \cup Assets) = {}
    /\ Libs \cap Assets = {} /\ Unsized \subseteq Libs
    /\ IsFiniteSet(Libs \cup Assets)

VARIABLES
    account,    \* may the account download?
    version,    \* is the version local, and has it an asset index?
    disk,       \* the files of the version
    task,       \* self.task of the launcher
    worker,     \* the background block of launchMinecraft, for each task
    dl,         \* the fields of each task and its two progress objects
    net,        \* the URL session task of each file
    main,       \* blocks in the main queue
    launched    \* history: which download started the game, and who noticed

vars == <<account, version, disk, task, worker, dl, net, main, launched>>

File == {Meta, Index} \cup Libs \cup Assets
Sized == File \ (Unsized \cup {Meta})
Wanted == Libs \cup (IF version.indexed THEN Assets ELSE {})

Fresh == [stage |-> "new", cancelled |-> FALSE, observed |-> FALSE, metadata |-> FALSE,
          total |-> 0, completed |-> 0, textTotal |-> 0, textCompleted |-> 0,
          fileList |-> {}, lengthless |-> {}]

NoLaunch == [task |-> NoTask, by |-> NoTask, times |-> 0]

(* checkSHA: the file is there and has its hash. A bad file is missing, or *)
(* fails this check: nothing but the check looks at it.                    *)
Passes(f) == disk[f] = "good"

Block(kind, t) == [kind |-> kind, task |-> t]
Handler(t, f, error) == [kind |-> "completed", task |-> t, file |-> f, error |-> error]

Init ==
    /\ account \in BOOLEAN
    /\ version \in [local : BOOLEAN, indexed : BOOLEAN]
    /\ disk \in [File -> {"bad", "good"}]
    /\ task = NoTask
    /\ worker = [t \in Task |-> "none"]
    /\ dl = [t \in Task |-> Fresh]
    /\ net = [t \in Task |-> [f \in File |-> "none"]]
    /\ main = <<>>
    /\ launched = NoLaunch

-----------------------------------------------------------------------------
(* The code of the task, as functions of a run: the task's fields d, the   *)
(* files whose downloads it resumes, and the blocks it sends.              *)
Run(d) == [d |-> d, resumed |-> {}, blocks |-> <<>>]

(* finishDownloadWithErrorString: cancel, and let handleError send a block. *)
Fail(r) == [r EXCEPT !.d.cancelled = TRUE, !.blocks = Append(@, Block("error", NoTask))]

(* addDownloadTaskToProgress of files of known size.                       *)
AddFiles(d, files) ==
    IF files = {} THEN d
    ELSE [d EXCEPT !.total = @ + Cardinality(files),
                   !.textTotal = d.total + Cardinality(files),
                   !.fileList = @ \cup files]

(* createDownloadTask and resume, for one file on the way.                 *)
Fetch(r, f, stage) ==
    IF account
    THEN [r EXCEPT !.d = [AddFiles(@, {f} \cap Sized) EXCEPT !.stage = stage], !.resumed = {f}]
    ELSE Fail(r)

(* The libraries and the assets, each up to the first that is denied.      *)
Denied == IF account THEN {} ELSE {s \in {Libs, Wanted \ Libs} : \E f \in s : ~Passes(f)}
Deny(r) ==
    CASE Cardinality(Denied) = 0 -> r
      [] Cardinality(Denied) = 1 -> Fail(r)
      [] OTHER -> Fail(Fail(r))

Dropped(d) == [d EXCEPT !.total = @ - 1, !.textTotal = @ - 1]

(* Creates the tasks, drops the first byte, and resumes the tasks unless   *)
(* nothing was counted.                                                    *)
Submit(r) ==
    LET missing == IF account THEN {f \in Wanted : ~Passes(f)} ELSE {}
        e == Deny(r)
        d == Dropped(AddFiles(e.d, missing \cap Sized))
    IN  IF d.total = 0
        THEN [e EXCEPT !.d = [d EXCEPT !.stage = "nothing", !.total = 1, !.completed = 1,
                                       !.textTotal = 1, !.textCompleted = 1]]
        ELSE [e EXCEPT !.d = [d EXCEPT !.stage = "files"], !.resumed = missing]

DownloadAssetMetadata(r) ==
    IF ~version.indexed \/ Passes(Index) THEN Submit(r) ELSE Fetch(r, Index, "index")

Parsed(r) == DownloadAssetMetadata([r EXCEPT !.d.metadata = TRUE])

DownloadVersionMetadata(r) ==
    IF Passes(Meta) THEN Parsed(r)
    ELSE IF version.local THEN Fail(r) ELSE Fetch(r, Meta, "meta")

(* What a file that passed its check leads to.                             *)
Success(f, r) ==
    CASE f = Meta -> Parsed(r)
      [] f = Index -> Submit(r)
      [] OTHER -> r

(* A child progress without a length is made complete.                     *)
CreditedTwice(d, f) ==          \* mutant: every file is counted by its handler
    [d EXCEPT !.completed = @ + 1]
Credited(d, f) ==
    IF f \in d.lengthless THEN [d EXCEPT !.completed = @ + 1] ELSE d

PrepareNothing(d) ==            \* mutant: no first byte
    [d EXCEPT !.stage = "prepared", !.textTotal = -1]
PrepareForDownload(d) ==
    [d EXCEPT !.stage = "prepared", !.total = 1, !.textTotal = -1]

-----------------------------------------------------------------------------
(* The progress of t changed: its observer copies the count of self.task   *)
(* to the text progress of self.task, and sends a block about that.        *)
Noticed(t, D) == D[t].observed /\ task # NoTask
Copied(t, D) ==
    IF Noticed(t, D) THEN [D EXCEPT ![task].textCompleted = D[task].completed] ELSE D
Sent(t, D) == IF Noticed(t, D) THEN <<Block("finish", task)>> ELSE <<>>

Change(t, d) ==
    LET D == [dl EXCEPT ![t] = d] IN
    /\ dl' = Copied(t, D)
    /\ main' = main \o Sent(t, D)

Finished(d) == d.textTotal > 0 /\ d.textCompleted >= d.textTotal

-----------------------------------------------------------------------------
(* The player presses Play.                                                *)
LaunchMinecraft ==
    /\ task = NoTask /\ launched = NoLaunch
    /\ \E t \in Task :
          /\ worker[t] = "none"
          /\ task' = t
          /\ worker' = [worker EXCEPT ![t] = "start"]
    /\ UNCHANGED <<account, version, disk, dl, net, main, launched>>

(* The background block: downloadVersion on self.task, if it is still set, *)
(* and a block to observe it. Not modelled: a block that starts only when  *)
(* another download is in self.task, and would begin that one a second     *)
(* time; it takes three downloads, the second of them cleared by an error  *)
(* of the first before its own block starts.                               *)
DownloadVersion(t) ==
    /\ worker[t] = "start" /\ task \in {t, NoTask}
    /\ worker' = [worker EXCEPT ![t] = "over"]
    /\ LET r == DownloadVersionMetadata(Run(PrepareForDownload(dl[t])))
           observe == Block("observe", NoTask)
       IN  IF task = NoTask
           THEN /\ main' = Append(main, observe)
                /\ UNCHANGED <<dl, net>>
           ELSE /\ dl' = [dl EXCEPT ![t] = r.d]
                /\ net' = [net EXCEPT ![t] = [f \in File |->
                               IF f \in r.resumed THEN "flying" ELSE @[f]]]
                /\ main' = Append(main \o r.blocks, observe)
    /\ UNCHANGED <<account, version, disk, task, launched>>

-----------------------------------------------------------------------------
(* The session, on its delegate queue. The last byte completes the child   *)
(* progress, unless the server sent no length.                             *)
Receive(t, f) ==
    /\ net[t][f] = "flying"
    /\ net' = [net EXCEPT ![t][f] = "received"]
    /\ \/ /\ f \in Sized
          /\ Change(t, [dl[t] EXCEPT !.completed = @ + 1])
       \/ /\ f \notin Sized
          /\ UNCHANGED <<dl, main>>
       \/ /\ dl' = [dl EXCEPT ![t].lengthless = @ \cup {f}]
          /\ UNCHANGED main
    /\ UNCHANGED <<account, version, disk, task, worker, launched>>

(* The destination block of a file without a size: addChild, which counts  *)
(* a child that is complete, and then the new total.                       *)
AddChild(t, f) ==
    /\ net[t][f] = "received" /\ f \notin Sized
    /\ net' = [net EXCEPT ![t][f] = "child"]
    /\ IF f \in dl[t].lengthless THEN UNCHANGED <<dl, main>>
       ELSE Change(t, [dl[t] EXCEPT !.completed = @ + 1])
    /\ UNCHANGED <<account, version, disk, task, worker, launched>>

AddTotal(t, f) ==
    /\ net[t][f] = "child"
    /\ net' = [net EXCEPT ![t][f] = "counted"]
    /\ Change(t, AddFiles(dl[t], {f}))
    /\ UNCHANGED <<account, version, disk, task, worker, launched>>

(* The downloaded file replaces what is there.                             *)
Store(t, f) ==
    /\ net[t][f] = IF f \in Sized THEN "received" ELSE "counted"
    /\ \E content \in {"bad", "good"} :
          /\ disk' = [disk EXCEPT ![f] = content]
          /\ net' = [net EXCEPT ![t][f] = content]
    /\ UNCHANGED <<account, version, task, worker, dl, main, launched>>

(* The completion handler is sent to the main queue; a bad file may be an  *)
(* error page of the server.                                               *)
Complete(t, f) ==
    /\ net[t][f] \in {"bad", "good"}
    /\ net' = [net EXCEPT ![t][f] = "over"]
    /\ \E error \in {FALSE, net[t][f] = "bad"} : main' = Append(main, Handler(t, f, error))
    /\ UNCHANGED <<account, version, disk, task, worker, dl, launched>>

(* The connection is lost, or cancelled by finishDownloadWithErrorString.  *)
Lose(t, f) ==
    /\ net[t][f] = "flying"
    /\ net' = [net EXCEPT ![t][f] = "over"]
    /\ main' = Append(main, Handler(t, f, TRUE))
    /\ UNCHANGED <<account, version, disk, task, worker, dl, launched>>

-----------------------------------------------------------------------------
(* The main thread runs the first block of its queue.                      *)
First(kind) == main # <<>> /\ Head(main).kind = kind

(* There is no progress to observe, and a message to nil does nothing.     *)
Unprepared == task = NoTask \/ dl[task].stage = "new"

ObserveLate ==                  \* mutant: observes without the initial notification
    /\ First("observe")
    /\ main' = Tail(main)
    /\ dl' = IF Unprepared THEN dl ELSE [dl EXCEPT ![task].observed = TRUE]
    /\ UNCHANGED <<account, version, disk, task, worker, net, launched>>

Observe ==
    /\ First("observe")
    /\ IF Unprepared
       THEN main' = Tail(main) /\ UNCHANGED dl
       ELSE LET D == [dl EXCEPT ![task].observed = TRUE]
            IN  dl' = Copied(task, D) /\ main' = Tail(main) \o Sent(task, D)
    /\ UNCHANGED <<account, version, disk, task, worker, net, launched>>

HandleError ==
    /\ First("error")
    /\ main' = Tail(main)
    /\ task' = NoTask
    /\ UNCHANGED <<account, version, disk, worker, dl, net, launched>>

(* The completion handler of createDownloadTask, with the success block of *)
(* the version JSON or of the asset index.                                 *)
Completed ==
    /\ First("completed")
    /\ LET b == Head(main)
           t == b.task
           r == CASE dl[t].cancelled -> Run(dl[t])
                  [] ~dl[t].cancelled /\ (b.error \/ ~Passes(b.file)) -> Fail(Run(dl[t]))
                  [] OTHER -> Success(b.file, Run(Credited(dl[t], b.file)))
           D == [dl EXCEPT ![t] = r.d]
           changed == <<r.d.total, r.d.completed>> # <<dl[t].total, dl[t].completed>>
       IN  /\ dl' = IF changed THEN Copied(t, D) ELSE D
           /\ main' = Tail(main) \o r.blocks \o (IF changed THEN Sent(t, D) ELSE <<>>)
           /\ net' = [net EXCEPT ![t] = [f \in File |->
                          IF f \in r.resumed THEN "flying" ELSE @[f]]]
    /\ UNCHANGED <<account, version, disk, task, worker, launched>>

(* The block of the observer: whatever is self.task now is launched, or    *)
(* dropped when it has no metadata.                                        *)
FinishAgain ==                  \* mutant: self.task stays
    /\ First("finish")
    /\ main' = Tail(main)
    /\ LET b == Head(main) IN
       launched' = IF Finished(dl[b.task]) /\ task # NoTask /\ dl[task].metadata
                   THEN [task |-> task, by |-> b.task, times |-> launched.times + 1]
                   ELSE launched
    /\ UNCHANGED <<account, version, disk, task, worker, dl, net>>

Finish ==
    /\ First("finish")
    /\ main' = Tail(main)
    /\ LET b == Head(main) IN
       IF Finished(dl[b.task])
       THEN /\ task' = NoTask
            /\ launched' = IF task # NoTask /\ dl[task].metadata
                           THEN [task |-> task, by |-> b.task, times |-> launched.times + 1]
                           ELSE launched
       ELSE UNCHANGED <<task, launched>>
    /\ UNCHANGED <<account, version, disk, worker, dl, net>>

Session(t, f) ==
    \/ Receive(t, f) \/ AddChild(t, f) \/ AddTotal(t, f)
    \/ Store(t, f) \/ Complete(t, f) \/ Lose(t, f)

MainQueue == Observe \/ HandleError \/ Completed \/ Finish

Next ==
    \/ LaunchMinecraft \/ MainQueue
    \/ \E t \in Task : DownloadVersion(t) \/ \E f \in File : Session(t, f)

(* Blocks run; a transfer ends, if only by the time limit of its request.  *)
Fairness ==
    /\ WF_vars(MainQueue)
    /\ \A t \in Task : WF_vars(DownloadVersion(t))
    /\ \A t \in Task, f \in File : WF_vars(Session(t, f))

Spec == Init /\ [][Next]_vars /\ Fairness
-----------------------------------------------------------------------------
(* Types: units are counted up to one for every file and the first one.    *)
TypeOK ==
    /\ disk \in [File -> {"bad", "good"}]
    /\ task \in Task \cup {NoTask}
    /\ worker \in [Task -> {"none", "start", "over"}]
    /\ dl \in [Task -> [stage : {"new", "prepared", "meta", "index", "files", "nothing"},
                        cancelled : BOOLEAN, observed : BOOLEAN, metadata : BOOLEAN,
                        total : 0 .. Cardinality(File) + 1,
                        completed : 0 .. Cardinality(File) + 1,
                        textTotal : -2 .. Cardinality(File) + 1,
                        textCompleted : 0 .. Cardinality(File) + 1,
                        fileList : SUBSET File, lengthless : SUBSET File]]
    /\ net \in [Task -> [File -> {"none", "flying", "received", "child", "counted",
                                  "bad", "good", "over"}]]
    /\ \A i \in DOMAIN main :
          \/ main[i] \in [kind : {"observe", "error"}, task : {NoTask}]
          \/ main[i] \in [kind : {"finish"}, task : Task]
          \/ main[i] \in [kind : {"completed"}, task : Task, file : File, error : BOOLEAN]

(* When a download's own progress starts the game, every file it counted   *)
(* has been received: the first byte keeps the progress from completing    *)
(* while the version JSON and the asset index come in, and the text        *)
(* progress never runs ahead of the real one.                              *)
LaunchedWhenReceived ==
    launched.task # NoTask /\ launched.by = launched.task =>
        \A f \in dl[launched.task].fileList : net[launched.task][f] \notin {"none", "flying"}

(* However many notifications of a complete progress are queued, the game  *)
(* is started once.                                                        *)
LaunchedOnce == launched.times <= 1

(* Play becomes available again: every download ends in the game, in the   *)
(* profile list, or in an error.                                           *)
PlayAgain == task # NoTask ~> task = NoTask

(* The code says of a total of 0 that there is nothing to download.        *)
NothingToDownload ==
    \A t \in Task :
        dl[t].stage = "nothing" /\ ~dl[t].cancelled => \A f \in Wanted : Passes(f)
=============================================================================
