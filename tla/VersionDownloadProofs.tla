------------------------ MODULE VersionDownloadProofs ------------------------
(***************************************************************************)
(* Proofs about VersionDownload, for every set of downloads and every      *)
(* finite set of files. The game is started once, however many blocks      *)
(* about a complete progress wait in the main queue, and of however many   *)
(* downloads. A download is what its stage says (IInv), which bounds its   *)
(* counters; and when every library has a size, a download whose own       *)
(* progress starts the game has received every file it counted.            *)
(***************************************************************************)
EXTENDS VersionDownload, FiniteSetTheorems, TLAPS

USE FilesAssumption

(* The game is started in the block that sets self.task to nil, and a      *)
(* started game leaves no launcher in which Play could set it again: the   *)
(* blocks that are still queued find nothing to launch.                    *)
OnceInv ==
    \/ launched = NoLaunch
    \/ launched.times = 1 /\ task = NoTask

(* There is no game at first.                                              *)
LEMMA OnceInit == Init => OnceInv
BY DEF Init, OnceInv

(* Only three steps of the launcher touch the task or the launch.          *)
LEMMA OnceStep == OnceInv /\ [Next]_vars => OnceInv'
<1> SUFFICES ASSUME OnceInv, [Next]_vars PROVE OnceInv'
    OBVIOUS
<1>1. CASE LaunchMinecraft
    BY <1>1 DEF LaunchMinecraft, OnceInv
<1>2. CASE HandleError
    BY <1>2 DEF HandleError, OnceInv
<1>3. CASE Finish
    <2>1. CASE launched = NoLaunch
        <3>1. launched.times + 1 = 1
            BY <2>1 DEF NoLaunch
        <3>2. \/ launched' = launched
              \/ /\ task' = NoTask
                 /\ launched' = [task |-> task, by |-> Head(main).task,
                                 times |-> launched.times + 1]
            BY <1>3 DEF Finish
        <3> QED BY <2>1, <3>1, <3>2 DEF OnceInv
    <2>2. CASE launched # NoLaunch
        <3>1. task = NoTask /\ launched.times = 1
            BY <2>2 DEF OnceInv
        <3>2. task' = NoTask /\ launched' = launched
            BY <1>3, <3>1 DEF Finish
        <3> QED BY <3>1, <3>2 DEF OnceInv
    <2> QED BY <2>1, <2>2
<1>4. CASE UNCHANGED <<task, launched>>
    BY <1>4 DEF OnceInv
<1>5. CASE Observe \/ Completed
    BY <1>4, <1>5 DEF Observe, Completed
<1>6. ASSUME NEW t \in Task, DownloadVersion(t) PROVE OnceInv'
    BY <1>4, <1>6 DEF DownloadVersion
<1>7. ASSUME NEW t \in Task, NEW f \in File, Session(t, f) PROVE OnceInv'
    BY <1>4, <1>7 DEF Session, Receive, AddChild, AddTotal, Store, Complete, Lose
<1>8. CASE UNCHANGED vars
    BY <1>4, <1>8 DEF vars
<1> QED BY <1>1, <1>2, <1>3, <1>5, <1>6, <1>7, <1>8 DEF Next, MainQueue

(* However many notifications of a complete progress are queued, the game  *)
(* is started once.                                                        *)
THEOREM LaunchedOnceCorrect == Spec => []LaunchedOnce
<1>1. OnceInv => LaunchedOnce
    BY DEF OnceInv, LaunchedOnce, NoLaunch
<1> QED BY <1>1, OnceInit, OnceStep, PTL DEF Spec

-----------------------------------------------------------------------------
(* Types; the bounds of the counters need the invariant.                   *)
StageName == {"new", "prepared", "meta", "index", "files", "nothing"}
DL == [stage : StageName, cancelled : BOOLEAN, observed : BOOLEAN, metadata : BOOLEAN,
       total : Int, completed : Int, textTotal : Int, textCompleted : Int,
       fileList : SUBSET File, lengthless : SUBSET File]
Net == {"none", "flying", "received", "child", "counted", "bad", "good", "over"}
Handlers == [kind : {"completed"}, task : Task, file : File, error : BOOLEAN]
Blocks ==
    [kind : {"observe", "error"}, task : {NoTask}] \cup [kind : {"finish"}, task : Task]
    \cup Handlers

Types ==
    /\ disk \in [File -> {"bad", "good"}]
    /\ task \in Task \cup {NoTask}
    /\ worker \in [Task -> {"none", "start", "over"}]

-----------------------------------------------------------------------------
(* The handlers of a download that wait in a queue of blocks. No file has  *)
(* two, and one without an error is about a file that was counted.         *)
IsHandler(b, t, f) == b.kind = "completed" /\ b.task = t /\ b.file = f
Pending(s, t) == {f \in File : \E i \in DOMAIN s : IsHandler(s[i], t, f)}

OneEach(s) ==
    \A i, j \in DOMAIN s :
        s[i].kind = "completed" /\ s[j].kind = "completed"
        /\ s[i].task = s[j].task /\ s[i].file = s[j].file => i = j
Listed(s, D) ==
    \A i \in DOMAIN s :
        s[i].kind = "completed" /\ s[i].error = FALSE => s[i].file \in D[s[i].task].fileList

(* How far a download is, by its stage: d are the fields of its task, n    *)
(* its transfers, p the files whose handlers wait.                         *)
Stages(d, n, p) ==
    /\ \A f \in p : n[f] = "over"
    /\ d.stage = "new" => d = Fresh
    /\ d.stage \in {"new", "prepared"} => \A f \in File : n[f] = "none"
    /\ n[Meta] \notin {"none", "over"} \/ Meta \in p => d.stage = "meta"
    /\ n[Index] \notin {"none", "over"} \/ Index \in p => d.stage = "index"
    /\ n[Index] # "none" => d.stage # "meta"
    /\ \A f \in Libs \cup Assets : n[f] # "none" => d.stage = "files"
    /\ n[Meta] = "over" /\ d.stage # "meta" => Meta \in d.fileList

(* Which files are in the list, and which came without a length.           *)
Lists(d, n) ==
    /\ \A f \in File : n[f] \in {"none", "flying"} => f \notin d.lengthless
    /\ \A f \in File : n[f] \in {"child", "counted"} => f \notin Sized
    /\ \A f \in d.fileList :
          n[f] # "none" /\ (f \notin Sized => n[f] \notin {"flying", "received", "child"})
    /\ \A f \in File :
          n[f] # "none" /\ (f \in Sized \/ n[f] \in {"counted", "bad", "good"})
              => f \in d.fileList

(* The files whose unit is completed, or never will be.                    *)
Settles(d, n, p, f) ==
    IF f \in d.lengthless THEN n[f] = "over" /\ f \notin p
    ELSE n[f] \notin {"none", "flying"} /\ (n[f] = "received" => f \in Sized)
Settled(d, n, p) == {f \in File : Settles(d, n, p, f)}

(* The first byte, which is there until the files are submitted.           *)
FirstByte(d) == IF d.stage \in {"prepared", "meta", "index"} THEN 1 ELSE 0

Counts(d, n, p) ==
    /\ d.stage \notin {"new", "nothing"} =>
          /\ d.total = Cardinality(d.fileList) + FirstByte(d)
          /\ 0 <= d.textCompleted /\ d.textCompleted <= d.completed
          /\ d.completed <= Cardinality(Settled(d, n, p))
          /\ d.textTotal = IF d.fileList = {} THEN -1 ELSE d.total
    /\ d.stage = "nothing" =>
          /\ d.total = 1 /\ d.completed = 1 /\ d.textTotal = 1 /\ d.textCompleted = 1
          /\ d.fileList = {}

TaskInv(d, n, p) == Stages(d, n, p) /\ Lists(d, n) /\ Counts(d, n, p)

(* The tasks D, their transfers N and the queue s together are sound.      *)
Sound(D, N, s) ==
    /\ D \in [Task -> DL] /\ N \in [Task -> [File -> Net]]
    /\ s \in Seq(Blocks) /\ OneEach(s) /\ Listed(s, D)
    /\ \A t \in Task : TaskInv(D[t], N[t], Pending(s, t))

Unstarted == \A t \in Task : worker[t] # "over" => dl[t].stage = "new"

IInv == Types /\ Unstarted /\ Sound(dl, net, main)

(* Once a download's own progress has started the game, its list is        *)
(* complete and received.                                                  *)
LaunchInv ==
    launched.task # NoTask /\ launched.by = launched.task =>
        /\ launched.task \in Task
        /\ dl[launched.task].stage \in {"files", "nothing"}
        /\ LaunchedWhenReceived

-----------------------------------------------------------------------------
(* Queues of blocks. Blocks that are no handlers leave the handlers alone. *)
Silent(s) == s \in Seq(Blocks) /\ \A i \in DOMAIN s : s[i].kind # "completed"

(* Such blocks may be added at the end.                                    *)
LEMMA QueueAdd ==
    ASSUME NEW s \in Seq(Blocks), NEW e, Silent(e), OneEach(s)
    PROVE  /\ s \o e \in Seq(Blocks) /\ OneEach(s \o e)
           /\ \A t : Pending(s \o e, t) = Pending(s, t)
           /\ \A D : Listed(s, D) => Listed(s \o e, D)
<1> DEFINE g == s \o e
<1>1. e \in Seq(Blocks)
    BY DEF Silent
<1>2. /\ g \in Seq(Blocks)
      /\ Len(s) \in Nat /\ DOMAIN s = 1 .. Len(s) /\ DOMAIN g = 1 .. (Len(s) + Len(e))
      /\ Len(e) \in Nat /\ DOMAIN e = 1 .. Len(e)
      /\ \A i \in DOMAIN s : g[i] = s[i]
      /\ \A i \in DOMAIN g : i > Len(s) => g[i] = e[i - Len(s)]
    BY <1>1
<1> HIDE DEF g
<1>3. \A i \in DOMAIN g : i \in DOMAIN s \/ g[i].kind # "completed"
    <2> SUFFICES ASSUME NEW i \in DOMAIN g, i > Len(s) PROVE g[i].kind # "completed"
        BY <1>2
    <2>1. i - Len(s) \in DOMAIN e /\ g[i] = e[i - Len(s)]
        BY <1>2
    <2> QED BY <2>1 DEF Silent
<1>4. \A i \in DOMAIN s : i \in DOMAIN g
    BY <1>2
<1>5. OneEach(g)
    <2> SUFFICES ASSUME NEW i \in DOMAIN g, NEW j \in DOMAIN g,
                        g[i].kind = "completed", g[j].kind = "completed",
                        g[i].task = g[j].task, g[i].file = g[j].file
                 PROVE  i = j
        BY DEF OneEach
    <2>1. i \in DOMAIN s /\ j \in DOMAIN s /\ g[i] = s[i] /\ g[j] = s[j]
        BY <1>2, <1>3
    <2> QED BY <2>1 DEF OneEach
<1>6. ASSUME NEW t PROVE Pending(g, t) = Pending(s, t)
    BY <1>2, <1>3, <1>4 DEF Pending, IsHandler
<1>7. ASSUME NEW D, Listed(s, D) PROVE Listed(g, D)
    BY <1>2, <1>3, <1>7 DEF Listed
<1> QED BY <1>2, <1>5, <1>6, <1>7 DEF g

(* Nothing, one block, or two of these.                                    *)
LEMMA SilentFacts ==
    /\ Silent(<<>>)
    /\ \A b \in Blocks : b.kind # "completed" => Silent(<<b>>)
    /\ \A s, e : Silent(s) /\ Silent(e) => Silent(s \o e)
    /\ Block("observe", NoTask) \in Blocks /\ Block("error", NoTask) \in Blocks
    /\ Block("observe", NoTask).kind = "observe" /\ Block("error", NoTask).kind = "error"
    /\ \A t \in Task : Block("finish", t) \in Blocks /\ Block("finish", t).kind = "finish"
<1>1. Silent(<<>>)
    BY DEF Silent
<1>2. ASSUME NEW b \in Blocks, b.kind # "completed" PROVE Silent(<<b>>)
    <2>1. <<b>> \in Seq(Blocks) /\ DOMAIN <<b>> = {1} /\ <<b>>[1] = b
        OBVIOUS
    <2> QED BY <1>2, <2>1 DEF Silent
<1>3. ASSUME NEW s, NEW e, Silent(s), Silent(e) PROVE Silent(s \o e)
    <2>1. s \in Seq(Blocks) /\ e \in Seq(Blocks)
        BY <1>3 DEF Silent
    <2>2. /\ s \o e \in Seq(Blocks) /\ Len(s) \in Nat /\ Len(e) \in Nat
          /\ DOMAIN s = 1 .. Len(s) /\ DOMAIN e = 1 .. Len(e)
          /\ DOMAIN (s \o e) = 1 .. (Len(s) + Len(e))
          /\ \A i \in DOMAIN (s \o e) :
                (s \o e)[i] = IF i <= Len(s) THEN s[i] ELSE e[i - Len(s)]
        BY <2>1
    <2> SUFFICES ASSUME NEW i \in DOMAIN (s \o e) PROVE (s \o e)[i].kind # "completed"
        BY <2>2 DEF Silent
    <2>3. CASE i <= Len(s)
        <3>1. i \in DOMAIN s /\ (s \o e)[i] = s[i]
            BY <2>2, <2>3
        <3> QED BY <1>3, <3>1 DEF Silent
    <2>4. CASE i > Len(s)
        <3>1. i - Len(s) \in DOMAIN e /\ (s \o e)[i] = e[i - Len(s)]
            BY <2>2, <2>4
        <3> QED BY <1>3, <3>1 DEF Silent
    <2> QED BY <2>2, <2>3, <2>4
<1>4. /\ Block("observe", NoTask) \in Blocks /\ Block("error", NoTask) \in Blocks
      /\ Block("observe", NoTask).kind = "observe" /\ Block("error", NoTask).kind = "error"
      /\ \A t \in Task : Block("finish", t) \in Blocks /\ Block("finish", t).kind = "finish"
    BY DEF Block, Blocks
<1> QED BY <1>1, <1>2, <1>3, <1>4

(* The handlers of a queue, and the one of a file.                         *)
OneMorePending(s, g, t, f) ==
    /\ Pending(g, t) = Pending(s, t) \cup {f}
    /\ \A x \in Task \ {t} : Pending(g, x) = Pending(s, x)

(* A new handler is the only one of its file.                              *)
LEMMA QueueHandler ==
    ASSUME NEW s \in Seq(Blocks), OneEach(s), NEW t \in Task, NEW f \in File,
           f \notin Pending(s, t), NEW b \in Handlers, b.task = t, b.file = f,
           NEW g, g = Append(s, b)
    PROVE  /\ g \in Seq(Blocks) /\ OneEach(g)
           /\ OneMorePending(s, g, t, f)
           /\ \A D : Listed(s, D) /\ (b.error = FALSE => f \in D[t].fileList)
                        => Listed(g, D)
<1> DEFINE k == Len(s) + 1
<1>1. b \in Blocks /\ b.kind = "completed"
    BY DEF Blocks, Handlers
<1>2. /\ g \in Seq(Blocks) /\ k \notin DOMAIN s /\ DOMAIN g = DOMAIN s \cup {k}
      /\ g[k] = b /\ \A i \in DOMAIN s : g[i] = s[i]
    BY <1>1
<1> HIDE DEF k
<1>3. \A i \in DOMAIN s : ~IsHandler(s[i], t, f)
    BY DEF Pending
<1>4. OneEach(g)
    <2> SUFFICES ASSUME NEW i \in DOMAIN g, NEW j \in DOMAIN g,
                        g[i].kind = "completed", g[j].kind = "completed",
                        g[i].task = g[j].task, g[i].file = g[j].file
                 PROVE  i = j
        BY DEF OneEach
    <2>1. CASE i \in DOMAIN s /\ j \in DOMAIN s
        BY <1>2, <2>1 DEF OneEach
    <2>2. ~(i \in DOMAIN s /\ j = k) /\ ~(j \in DOMAIN s /\ i = k)
        BY <1>1, <1>2, <1>3 DEF IsHandler
    <2> QED BY <1>2, <2>1, <2>2
<1>5. Pending(g, t) = Pending(s, t) \cup {f}
    <2>1. IsHandler(b, t, f) /\ \A x \in File : IsHandler(b, t, x) => x = f
        BY <1>1 DEF IsHandler
    <2> QED BY <1>2, <2>1 DEF Pending
<1>6. ASSUME NEW x \in Task \ {t} PROVE Pending(g, x) = Pending(s, x)
    <2>1. \A y : ~IsHandler(b, x, y)
        BY <1>1 DEF IsHandler
    <2> QED BY <1>2, <2>1 DEF Pending
<1>7. ASSUME NEW D, Listed(s, D), b.error = FALSE => f \in D[t].fileList PROVE Listed(g, D)
    BY <1>1, <1>2, <1>7 DEF Listed
<1> QED BY <1>2, <1>4, <1>5, <1>6, <1>7 DEF OneMorePending

(* The first block goes, and with it the only handler of its file.         *)
LEMMA QueueTail ==
    ASSUME NEW s \in Seq(Blocks), s # <<>>, OneEach(s)
    PROVE  /\ Tail(s) \in Seq(Blocks) /\ OneEach(Tail(s)) /\ Head(s) \in Blocks
           /\ \A t \in Task :
                 Pending(Tail(s), t) = Pending(s, t) \ {f \in File : IsHandler(Head(s), t, f)}
           /\ \A t \in Task, f \in File : IsHandler(Head(s), t, f) => f \in Pending(s, t)
           /\ \A D : Listed(s, D) => Listed(Tail(s), D)
<1> DEFINE g == Tail(s)
<1>1. /\ g \in Seq(Blocks) /\ Head(s) \in Blocks /\ Head(s) = s[1] /\ 1 \in DOMAIN s
      /\ Len(s) \in Nat /\ DOMAIN s = 1 .. Len(s) /\ DOMAIN g = 1 .. (Len(s) - 1)
      /\ \A i \in DOMAIN g : g[i] = s[i + 1]
    OBVIOUS
<1> HIDE DEF g
<1>2. \A i \in DOMAIN g : i + 1 \in DOMAIN s /\ i + 1 # 1 /\ i \in Nat
    BY <1>1
<1>3. \A i \in DOMAIN s : i = 1 \/ (i - 1 \in DOMAIN g /\ g[i - 1] = s[i])
    BY <1>1
<1>4. OneEach(g)
    <2> SUFFICES ASSUME NEW i \in DOMAIN g, NEW j \in DOMAIN g,
                        g[i].kind = "completed", g[j].kind = "completed",
                        g[i].task = g[j].task, g[i].file = g[j].file
                 PROVE  i = j
        BY DEF OneEach
    <2>1. i + 1 = j + 1
        BY <1>1, <1>2 DEF OneEach
    <2> QED BY <1>2, <2>1
<1>5. ASSUME NEW t \in Task
      PROVE  Pending(g, t) = Pending(s, t) \ {f \in File : IsHandler(s[1], t, f)}
    <2>1. ASSUME NEW f \in Pending(g, t)
          PROVE  f \in Pending(s, t) /\ ~IsHandler(s[1], t, f)
        <3> PICK i \in DOMAIN g : IsHandler(g[i], t, f)
            BY DEF Pending
        <3>1. i + 1 \in DOMAIN s /\ IsHandler(s[i + 1], t, f) /\ i + 1 # 1
            BY <1>1, <1>2
        <3>2. ~IsHandler(s[1], t, f)
            BY <1>1, <3>1 DEF OneEach, IsHandler
        <3> QED BY <3>1, <3>2 DEF Pending
    <2>2. ASSUME NEW f \in Pending(s, t), ~IsHandler(s[1], t, f) PROVE f \in Pending(g, t)
        BY <1>3, <2>2 DEF Pending
    <2>3. \A x : Pending(x, t) \subseteq File
        BY DEF Pending
    <2> QED BY <2>1, <2>2, <2>3
<1>6. \A t \in Task, f \in File : IsHandler(s[1], t, f) => f \in Pending(s, t)
    BY <1>1 DEF Pending
<1>7. ASSUME NEW D, Listed(s, D) PROVE Listed(g, D)
    BY <1>1, <1>2, <1>7 DEF Listed
<1> QED BY <1>1, <1>4, <1>5, <1>6, <1>7 DEF g

-----------------------------------------------------------------------------
(* Finite sets of files, and their numbers.                                *)
LEMMA Numbers ==
    /\ Cardinality(File) \in Nat
    /\ \A s \in SUBSET File :
          /\ IsFiniteSet(s) /\ Cardinality(s) \in Nat /\ Cardinality(s) <= Cardinality(File)
          /\ Cardinality(s) = 0 <=> s = {}
<1>1. File = ((Libs \cup Assets) \cup {Meta}) \cup {Index}
    BY DEF File
<1>2. IsFiniteSet((Libs \cup Assets) \cup {Meta})
    BY FS_AddElement
<1>3. IsFiniteSet(File)
    BY <1>1, <1>2, FS_AddElement
<1>4. ASSUME NEW s \in SUBSET File
      PROVE  /\ IsFiniteSet(s) /\ Cardinality(s) \in Nat /\ Cardinality(s) <= Cardinality(File)
             /\ Cardinality(s) = 0 <=> s = {}
    <2>1. IsFiniteSet(s) /\ Cardinality(s) <= Cardinality(File)
        BY <1>3, FS_Subset
    <2>2. Cardinality(s) \in Nat
        BY <2>1, FS_CardinalityType
    <2>3. Cardinality(s) = 0 <=> s = {}
        BY <2>1, FS_EmptySet
    <2> QED BY <2>1, <2>2, <2>3
<1> QED BY <1>3, <1>4, FS_CardinalityType

(* A part of a set has fewer members, unless it is the whole.              *)
LEMMA Parts ==
    ASSUME NEW s \in SUBSET File, NEW r \in SUBSET s
    PROVE  /\ Cardinality(r) <= Cardinality(s)
           /\ Cardinality(r) = Cardinality(s) => r = s
<1>1. IsFiniteSet(s)
    BY Numbers
<1> QED BY <1>1, FS_Subset

(* A set that has one more member has more of them.                        *)
LEMMA OneMore ==
    ASSUME NEW s \in SUBSET File, NEW r \in SUBSET s, NEW f \in s, f \notin r
    PROVE  Cardinality(r) + 1 <= Cardinality(s)
<1>1. r \in SUBSET File
    OBVIOUS
<1>2. Cardinality(r) \in Nat /\ Cardinality(s) \in Nat
    BY <1>1, Numbers
<1>3. Cardinality(r) # Cardinality(s) /\ Cardinality(r) <= Cardinality(s)
    BY Parts
<1> QED BY <1>2, <1>3

(* Files that are not in the list are added to it, and counted.            *)
LEMMA AddFacts ==
    ASSUME NEW d \in DL, NEW files \in SUBSET File, files \cap d.fileList = {}
    PROVE  /\ AddFiles(d, files) \in DL
           /\ AddFiles(d, files).total = d.total + Cardinality(files)
           /\ AddFiles(d, files).fileList = d.fileList \cup files
           /\ Cardinality(d.fileList \cup files) = Cardinality(d.fileList) + Cardinality(files)
           /\ AddFiles(d, files).textTotal =
                 IF files = {} THEN d.textTotal ELSE d.total + Cardinality(files)
           /\ AddFiles(d, files).stage = d.stage
           /\ AddFiles(d, files).completed = d.completed
           /\ AddFiles(d, files).textCompleted = d.textCompleted
           /\ AddFiles(d, files).lengthless = d.lengthless
<1>1. /\ IsFiniteSet(files) /\ IsFiniteSet(d.fileList)
      /\ Cardinality(files) \in Nat /\ Cardinality(d.fileList) \in Nat
      /\ (Cardinality(files) = 0 <=> files = {})
    BY Numbers DEF DL
<1>2. Cardinality(d.fileList \cup files) = Cardinality(d.fileList) + Cardinality(files)
    <2>1. Cardinality(d.fileList \cap files) = 0
        BY FS_EmptySet
    <2>2. Cardinality(d.fileList \cup files) =
             Cardinality(d.fileList) + Cardinality(files) - Cardinality(d.fileList \cap files)
        BY <1>1, FS_Union
    <2> QED BY <1>1, <2>1, <2>2
<1>3. CASE files = {}
    <2>1. AddFiles(d, files) = d /\ d.fileList \cup files = d.fileList
        BY <1>3 DEF AddFiles
    <2>2. d.total + Cardinality(files) = d.total
        BY <1>1, <1>3 DEF DL
    <2> QED BY <1>2, <1>3, <2>1, <2>2
<1>4. CASE files # {}
    <2> DEFINE e == AddFiles(d, files)
    <2>1. e = [d EXCEPT !.total = d.total + Cardinality(files),
                        !.textTotal = d.total + Cardinality(files),
                        !.fileList = d.fileList \cup files]
        BY <1>4 DEF AddFiles, DL
    <2>2. d.total + Cardinality(files) \in Int /\ d.fileList \cup files \in SUBSET File
        BY <1>1 DEF DL
    <2> HIDE DEF e
    <2>3. e \in DL
        BY <2>1, <2>2 DEF DL
    <2>4. /\ e.total = d.total + Cardinality(files) /\ e.fileList = d.fileList \cup files
          /\ e.textTotal = d.total + Cardinality(files) /\ e.stage = d.stage
          /\ e.completed = d.completed /\ e.textCompleted = d.textCompleted
          /\ e.lengthless = d.lengthless
        BY <2>1 DEF DL
    <2> QED BY <1>2, <1>4, <2>3, <2>4 DEF e
<1> QED BY <1>3, <1>4

-----------------------------------------------------------------------------
(* Fields that the invariant does not look at.                             *)
SameFields(d, e) ==
    /\ e.stage = d.stage /\ e.total = d.total /\ e.completed = d.completed
    /\ e.textTotal = d.textTotal /\ e.textCompleted = d.textCompleted
    /\ e.fileList = d.fileList /\ e.lengthless = d.lengthless

(* What is settled depends on the files without a length only.             *)
LEMMA SettledSame ==
    ASSUME NEW d, NEW e, NEW n, NEW p, e.lengthless = d.lengthless
    PROVE  Settled(e, n, p) = Settled(d, n, p)
BY DEF Settled, Settles

(* They may change once the download has begun.                            *)
LEMMA SameInv ==
    ASSUME NEW d, NEW e, NEW n, NEW p, SameFields(d, e), d.stage # "new", TaskInv(d, n, p)
    PROVE  TaskInv(e, n, p)
<1>1. Stages(e, n, p)
    BY DEF TaskInv, Stages, SameFields
<1>2. Lists(e, n)
    BY DEF TaskInv, Lists, SameFields
<1>3. Settled(e, n, p) = Settled(d, n, p)
    BY SettledSame DEF SameFields
<1>4. FirstByte(e) = FirstByte(d)
    BY DEF FirstByte, SameFields
<1>5. Counts(e, n, p)
    BY <1>3, <1>4 DEF TaskInv, Counts, SameFields
<1> QED BY <1>1, <1>2, <1>5 DEF TaskInv

(* The observer copies the count of a progress to its text.                *)
LEMMA CopyInv ==
    ASSUME NEW d \in DL, NEW n, NEW p, TaskInv(d, n, p)
    PROVE  /\ [d EXCEPT !.textCompleted = d.completed] \in DL
           /\ TaskInv([d EXCEPT !.textCompleted = d.completed], n, p)
<1> DEFINE e == [d EXCEPT !.textCompleted = d.completed]
<1>1. /\ e \in DL /\ e.stage = d.stage /\ e.total = d.total /\ e.completed = d.completed
      /\ e.textTotal = d.textTotal /\ e.textCompleted = d.completed
      /\ e.fileList = d.fileList /\ e.lengthless = d.lengthless
    BY DEF DL
<1>2. d.stage = "new" => e = d
    BY DEF TaskInv, Stages, Fresh, DL
<1> HIDE DEF e
<1>3. Stages(e, n, p)
    BY <1>1, <1>2 DEF TaskInv, Stages
<1>4. Lists(e, n)
    BY <1>1 DEF TaskInv, Lists
<1>5. Settled(e, n, p) = Settled(d, n, p)
    BY <1>1, SettledSame
<1>6. FirstByte(e) = FirstByte(d)
    BY <1>1 DEF FirstByte
<1>7. d.completed \in Int /\ d.textCompleted \in Int
    BY DEF DL
<1>8. Counts(e, n, p)
    BY <1>1, <1>5, <1>6, <1>7 DEF TaskInv, Counts
<1>9. TaskInv(e, n, p)
    BY <1>3, <1>4, <1>8 DEF TaskInv
<1> QED BY <1>1, <1>9 DEF e

(* Nothing is counted, and nothing that was settled is so no more.         *)
LEMMA CountSame ==
    ASSUME NEW d \in DL, NEW e \in DL, NEW n, NEW m, NEW p, NEW q,
           e.stage = d.stage, e.total = d.total, e.completed = d.completed,
           e.textTotal = d.textTotal, e.textCompleted = d.textCompleted,
           e.fileList = d.fileList,
           Settled(d, n, p) \subseteq Settled(e, m, q), Counts(d, n, p)
    PROVE  Counts(e, m, q)
<1>1. Settled(e, m, q) \in SUBSET File /\ Settled(d, n, p) \in SUBSET File
    BY DEF Settled
<1>2. /\ Cardinality(Settled(d, n, p)) <= Cardinality(Settled(e, m, q))
      /\ Cardinality(Settled(d, n, p)) \in Nat /\ Cardinality(Settled(e, m, q)) \in Nat
    BY <1>1, Parts, Numbers
<1>3. FirstByte(e) = FirstByte(d) /\ d.completed \in Int
    BY DEF FirstByte, DL
<1> QED BY <1>2, <1>3 DEF Counts

(* One file is counted, and settled.                                       *)
LEMMA CountOne ==
    ASSUME NEW d \in DL, NEW e \in DL, NEW n, NEW m, NEW p, NEW q,
           d.stage \notin {"new", "nothing"},
           e.stage = d.stage, e.total = d.total, e.completed = d.completed + 1,
           e.textTotal = d.textTotal, e.textCompleted = d.textCompleted,
           e.fileList = d.fileList,
           Settled(d, n, p) \subseteq Settled(e, m, q),
           NEW f \in File, Settles(e, m, q, f), ~Settles(d, n, p, f), Counts(d, n, p)
    PROVE  Counts(e, m, q)
<1>1. /\ Settled(e, m, q) \in SUBSET File /\ Settled(d, n, p) \in SUBSET File
      /\ f \in Settled(e, m, q) /\ f \notin Settled(d, n, p)
    BY DEF Settled
<1>2. /\ Cardinality(Settled(d, n, p)) + 1 <= Cardinality(Settled(e, m, q))
      /\ Cardinality(Settled(d, n, p)) \in Nat /\ Cardinality(Settled(e, m, q)) \in Nat
    BY <1>1, OneMore, Numbers
<1>3. FirstByte(e) = FirstByte(d) /\ d.completed \in Int /\ d.textCompleted \in Int
    BY DEF FirstByte, DL
<1> QED BY <1>2, <1>3 DEF Counts

-----------------------------------------------------------------------------
(* The session. A file that is on its way, or whose handler waits, is of   *)
(* the stage the download is in.                                           *)
LEMMA ActiveStage ==
    ASSUME NEW d, NEW n, NEW p, Stages(d, n, p), NEW f \in File,
           n[f] \notin {"none", "over"} \/ f \in p
    PROVE  d.stage \in {"meta", "index", "files"}
<1>1. n[f] # "none"
    BY DEF Stages
<1>2. CASE f = Meta \/ f = Index
    BY <1>2 DEF Stages
<1>3. CASE f \in Libs \cup Assets
    BY <1>1, <1>3 DEF Stages
<1> QED BY <1>2, <1>3 DEF File

(* A file on its way gets further, and the stage remains.                  *)
LEMMA StageStep ==
    ASSUME NEW d, NEW e, NEW n \in [File -> Net], NEW p \in SUBSET File,
           NEW f \in File, NEW v \in Net \ {"none"}, NEW q \in SUBSET (p \cup {f}),
           Stages(d, n, p), n[f] \notin {"none", "over"}, f \in q => v = "over",
           e.stage = d.stage, d.fileList \subseteq e.fileList
    PROVE  Stages(e, [n EXCEPT ![f] = v], q)
<1> DEFINE m == [n EXCEPT ![f] = v]
<1>1. d.stage \in {"meta", "index", "files"}
    BY ActiveStage
<1>2. m[f] = v /\ \A g \in File \ {f} : m[g] = n[g]
    OBVIOUS
<1>3. /\ Meta \in File /\ Index \in File /\ Meta # Index
      /\ \A g \in Libs \cup Assets : g \in File /\ g # Meta /\ g # Index
    BY DEF File
<1> HIDE DEF m
<1>4. \A g \in q : m[g] = "over"
    <2> SUFFICES ASSUME NEW g \in q PROVE m[g] = "over"
        OBVIOUS
    <2>1. CASE g = f
        BY <1>2, <2>1
    <2>2. CASE g # f
        <3>1. n[g] = "over" /\ m[g] = n[g]
            BY <1>2, <2>2 DEF Stages
        <3> QED BY <3>1
    <2> QED BY <2>1, <2>2
<1>5. m[Meta] \notin {"none", "over"} \/ Meta \in q => e.stage = "meta"
    <2>1. CASE f = Meta
        BY <2>1 DEF Stages
    <2>2. CASE f # Meta
        BY <1>2, <1>3, <2>2 DEF Stages
    <2> QED BY <2>1, <2>2
<1>6. m[Index] \notin {"none", "over"} \/ Index \in q => e.stage = "index"
    <2>1. CASE f = Index
        BY <2>1 DEF Stages
    <2>2. CASE f # Index
        BY <1>2, <1>3, <2>2 DEF Stages
    <2> QED BY <2>1, <2>2
<1>7. m[Index] # "none" => e.stage # "meta"
    <2>1. CASE f = Index
        BY <2>1 DEF Stages
    <2>2. CASE f # Index
        BY <1>2, <1>3, <2>2 DEF Stages
    <2> QED BY <2>1, <2>2
<1>8. ASSUME NEW g \in Libs \cup Assets, m[g] # "none" PROVE e.stage = "files"
    <2>1. CASE g = f
        BY <1>3, <1>8, <2>1 DEF Stages
    <2>2. CASE g # f
        BY <1>2, <1>3, <1>8, <2>2 DEF Stages
    <2> QED BY <2>1, <2>2
<1>9. m[Meta] = "over" /\ e.stage # "meta" => Meta \in e.fileList
    <2>1. CASE f = Meta
        BY <2>1 DEF Stages
    <2>2. CASE f # Meta
        BY <1>2, <1>3, <2>2 DEF Stages
    <2> QED BY <2>1, <2>2
<1>10. Stages(e, m, q)
    BY <1>1, <1>4, <1>5, <1>6, <1>7, <1>8, <1>9 DEF Stages
<1> QED BY <1>10 DEF m

(* The list, and what is settled, when one file gets further: only this    *)
(* file has to be looked at.                                               *)
LEMMA ListStep ==
    ASSUME NEW d \in DL, NEW e \in DL, NEW n \in [File -> Net], NEW f \in File,
           NEW v \in Net \ {"none"}, n[f] # "none", Lists(d, n),
           e.fileList \in {d.fileList, d.fileList \cup {f}},
           e.lengthless \in {d.lengthless, d.lengthless \cup {f}},
           v = "flying" => f \notin e.lengthless,
           v \in {"child", "counted"} => f \notin Sized,
           f \in e.fileList => (f \notin Sized => v \notin {"flying", "received", "child"}),
           f \in Sized \/ v \in {"counted", "bad", "good"} => f \in e.fileList
    PROVE  Lists(e, [n EXCEPT ![f] = v])
<1> DEFINE m == [n EXCEPT ![f] = v]
<1>1. m[f] = v /\ \A g \in File \ {f} : m[g] = n[g]
    OBVIOUS
<1>2. \A g \in File \ {f} : (g \in e.fileList <=> g \in d.fileList)
                              /\ (g \in e.lengthless <=> g \in d.lengthless)
    OBVIOUS
<1>3. e.fileList \subseteq File
    BY DEF DL
<1> HIDE DEF m
<1>4. \A g \in File : m[g] \in {"none", "flying"} => g \notin e.lengthless
    BY <1>1, <1>2 DEF Lists
<1>5. \A g \in File : m[g] \in {"child", "counted"} => g \notin Sized
    BY <1>1, <1>2 DEF Lists
<1>6. \A g \in e.fileList :
          m[g] # "none" /\ (g \notin Sized => m[g] \notin {"flying", "received", "child"})
    <2> SUFFICES ASSUME NEW g \in e.fileList
                 PROVE  m[g] # "none"
                        /\ (g \notin Sized => m[g] \notin {"flying", "received", "child"})
        OBVIOUS
    <2>1. CASE g = f
        BY <1>1, <2>1
    <2>2. CASE g # f
        BY <1>1, <1>2, <1>3, <2>2 DEF Lists
    <2> QED BY <2>1, <2>2
<1>7. \A g \in File :
          m[g] # "none" /\ (g \in Sized \/ m[g] \in {"counted", "bad", "good"})
              => g \in e.fileList
    <2> SUFFICES ASSUME NEW g \in File, m[g] # "none",
                        g \in Sized \/ m[g] \in {"counted", "bad", "good"}
                 PROVE  g \in e.fileList
        OBVIOUS
    <2>1. CASE g = f
        BY <1>1, <2>1
    <2>2. CASE g # f
        BY <1>1, <1>2, <2>2 DEF Lists
    <2> QED BY <2>1, <2>2
<1>8. Lists(e, m)
    BY <1>4, <1>5, <1>6, <1>7 DEF Lists
<1> QED BY <1>8 DEF m

(* The same of what is settled.                                            *)
LEMMA SettledStep ==
    ASSUME NEW d \in DL, NEW e \in DL, NEW n \in [File -> Net], NEW f \in File, NEW v \in Net,
           NEW p \in SUBSET File, NEW q \in {p, p \cup {f}},
           e.lengthless \in {d.lengthless, d.lengthless \cup {f}},
           Settles(d, n, p, f) => Settles(e, [n EXCEPT ![f] = v], q, f)
    PROVE  Settled(d, n, p) \subseteq Settled(e, [n EXCEPT ![f] = v], q)
<1> DEFINE m == [n EXCEPT ![f] = v]
<1>1. m[f] = v /\ \A g \in File \ {f} : m[g] = n[g]
    OBVIOUS
<1> HIDE DEF m
<1>2. ASSUME NEW g \in File, Settles(d, n, p, g), g # f PROVE Settles(e, m, q, g)
    BY <1>1, <1>2 DEF Settles
<1>3. Settled(d, n, p) \subseteq Settled(e, m, q)
    BY <1>2 DEF Settled, m
<1> QED BY <1>3 DEF m

-----------------------------------------------------------------------------
(* A unit is completed.                                                    *)
One(d) == [d EXCEPT !.completed = @ + 1]

(* The other fields remain.                                                *)
LEMMA OneFacts ==
    ASSUME NEW d \in DL
    PROVE  /\ One(d) \in DL /\ One(d).completed = d.completed + 1
           /\ One(d).stage = d.stage /\ One(d).total = d.total
           /\ One(d).textTotal = d.textTotal /\ One(d).textCompleted = d.textCompleted
           /\ One(d).fileList = d.fileList /\ One(d).lengthless = d.lengthless
BY DEF One, DL

(* The last byte of a file whose size is known.                            *)
LEMMA ReceiveSized ==
    ASSUME NEW d \in DL, NEW n \in [File -> Net], NEW p \in SUBSET File, TaskInv(d, n, p),
           NEW f \in File, f \in Sized, n[f] = "flying"
    PROVE  TaskInv(One(d), [n EXCEPT ![f] = "received"], p)
<1> DEFINE v == "received"
<1>1. v \in Net \ {"none"} /\ v \notin {"flying", "child", "counted", "over"}
    BY DEF Net
<1>2. d.stage \in {"meta", "index", "files"} /\ f \notin p
    BY ActiveStage DEF TaskInv, Stages
<1>3. f \notin d.lengthless /\ f \in d.fileList
    BY DEF TaskInv, Lists
<1>4. Stages(One(d), [n EXCEPT ![f] = v], p)
    BY <1>1, <1>2, OneFacts, StageStep DEF TaskInv
<1>5. Lists(One(d), [n EXCEPT ![f] = v])
    BY <1>1, <1>3, OneFacts, ListStep DEF TaskInv
<1>6. [n EXCEPT ![f] = v][f] = "received"
    OBVIOUS
<1>7. ~Settles(d, n, p, f) /\ Settles(One(d), [n EXCEPT ![f] = v], p, f)
    BY <1>3, <1>6, OneFacts DEF Settles
<1>8. v \in Net
    BY <1>1
<1>9. Settled(d, n, p) \subseteq Settled(One(d), [n EXCEPT ![f] = v], p)
    BY <1>7, <1>8, OneFacts, SettledStep
<1>10. Counts(One(d), [n EXCEPT ![f] = v], p)
    BY <1>2, <1>7, <1>9, OneFacts, CountOne DEF TaskInv
<1> QED BY <1>4, <1>5, <1>10 DEF TaskInv

(* The last byte of a file that is not counted yet.                        *)
LEMMA ReceiveUnsized ==
    ASSUME NEW d \in DL, NEW n \in [File -> Net], NEW p \in SUBSET File, TaskInv(d, n, p),
           NEW f \in File, f \notin Sized, n[f] = "flying"
    PROVE  TaskInv(d, [n EXCEPT ![f] = "received"], p)
<1> DEFINE v == "received"
<1>1. v \in Net \ {"none"} /\ v \in Net /\ v \notin {"flying", "child", "counted", "over"}
    BY DEF Net
<1>2. d.stage \in {"meta", "index", "files"} /\ f \notin p
    BY ActiveStage DEF TaskInv, Stages
<1>3. f \notin d.lengthless /\ f \notin d.fileList
    BY DEF TaskInv, Lists
<1>4. Stages(d, [n EXCEPT ![f] = v], p)
    BY <1>1, <1>2, StageStep DEF TaskInv
<1>5. Lists(d, [n EXCEPT ![f] = v])
    BY <1>1, <1>3, ListStep DEF TaskInv
<1>6. ~Settles(d, n, p, f)
    BY <1>3 DEF Settles
<1>7. Settled(d, n, p) \subseteq Settled(d, [n EXCEPT ![f] = v], p)
    BY <1>1, <1>6, SettledStep
<1>8. Counts(d, [n EXCEPT ![f] = v], p)
    BY <1>7, CountSame DEF TaskInv
<1> QED BY <1>4, <1>5, <1>8 DEF TaskInv

(* The last byte of a file of which the server gave no length.             *)
Unmeasured(d, f) == [d EXCEPT !.lengthless = @ \cup {f}]

(* It is not counted by that.                                              *)
LEMMA ReceiveLengthless ==
    ASSUME NEW d \in DL, NEW n \in [File -> Net], NEW p \in SUBSET File, TaskInv(d, n, p),
           NEW f \in File, n[f] = "flying"
    PROVE  /\ Unmeasured(d, f) \in DL /\ Unmeasured(d, f).fileList = d.fileList
           /\ Unmeasured(d, f).stage = d.stage
           /\ TaskInv(Unmeasured(d, f), [n EXCEPT ![f] = "received"], p)
<1> DEFINE v == "received"
           e == Unmeasured(d, f)
<1>1. v \in Net \ {"none"} /\ v \in Net /\ v \notin {"flying", "child", "counted", "over"}
    BY DEF Net
<1>2. d.stage \in {"meta", "index", "files"} /\ f \notin p
    BY ActiveStage DEF TaskInv, Stages
<1>3. f \notin d.lengthless /\ (f \notin Sized => f \notin d.fileList)
      /\ (f \in Sized => f \in d.fileList)
    BY DEF TaskInv, Lists
<1>4. /\ e \in DL /\ e.stage = d.stage /\ e.total = d.total /\ e.completed = d.completed
      /\ e.textTotal = d.textTotal /\ e.textCompleted = d.textCompleted
      /\ e.fileList = d.fileList /\ e.lengthless = d.lengthless \cup {f}
    BY DEF Unmeasured, DL
<1> HIDE DEF e
<1>5. Stages(e, [n EXCEPT ![f] = v], p)
    BY <1>1, <1>2, <1>4, StageStep DEF TaskInv
<1>6. Lists(e, [n EXCEPT ![f] = v])
    BY <1>1, <1>3, <1>4, ListStep DEF TaskInv
<1>7. ~Settles(d, n, p, f)
    BY <1>3 DEF Settles
<1>8. Settled(d, n, p) \subseteq Settled(e, [n EXCEPT ![f] = v], p)
    BY <1>1, <1>4, <1>7, SettledStep
<1>9. Counts(e, [n EXCEPT ![f] = v], p)
    BY <1>4, <1>8, CountSame DEF TaskInv
<1>10. TaskInv(e, [n EXCEPT ![f] = v], p)
    BY <1>5, <1>6, <1>9 DEF TaskInv
<1> QED BY <1>4, <1>10 DEF e

(* A child progress is added, complete or without a length.                *)
LEMMA ChildStep ==
    ASSUME NEW d \in DL, NEW n \in [File -> Net], NEW p \in SUBSET File, TaskInv(d, n, p),
           NEW f \in File, f \notin Sized, n[f] = "received"
    PROVE  TaskInv(IF f \in d.lengthless THEN d ELSE One(d), [n EXCEPT ![f] = "child"], p)
<1> DEFINE v == "child"
<1>1. v \in Net \ {"none"} /\ v \in Net /\ v \notin {"flying", "received", "over"}
    BY DEF Net
<1>2. d.stage \in {"meta", "index", "files"} /\ f \notin p
    BY ActiveStage DEF TaskInv, Stages
<1>3. f \notin d.fileList
    BY DEF TaskInv, Lists
<1>4. [n EXCEPT ![f] = v][f] = "child"
    OBVIOUS
<1>5. CASE f \in d.lengthless
    <2>1. Stages(d, [n EXCEPT ![f] = v], p)
        BY <1>1, <1>2, StageStep DEF TaskInv
    <2>2. Lists(d, [n EXCEPT ![f] = v])
        BY <1>1, <1>3, ListStep DEF TaskInv
    <2>3. ~Settles(d, n, p, f)
        BY <1>5 DEF Settles
    <2>4. Settled(d, n, p) \subseteq Settled(d, [n EXCEPT ![f] = v], p)
        BY <1>1, <2>3, SettledStep
    <2>5. Counts(d, [n EXCEPT ![f] = v], p)
        BY <2>4, CountSame DEF TaskInv
    <2> QED BY <1>5, <2>1, <2>2, <2>5 DEF TaskInv
<1>6. CASE f \notin d.lengthless
    <2>1. Stages(One(d), [n EXCEPT ![f] = v], p)
        BY <1>1, <1>2, OneFacts, StageStep DEF TaskInv
    <2>2. Lists(One(d), [n EXCEPT ![f] = v])
        BY <1>1, <1>3, OneFacts, ListStep DEF TaskInv
    <2>3. ~Settles(d, n, p, f) /\ Settles(One(d), [n EXCEPT ![f] = v], p, f)
        BY <1>4, <1>6, OneFacts DEF Settles
    <2>4. Settled(d, n, p) \subseteq Settled(One(d), [n EXCEPT ![f] = v], p)
        BY <1>1, <2>3, OneFacts, SettledStep
    <2>5. Counts(One(d), [n EXCEPT ![f] = v], p)
        BY <1>2, <2>3, <2>4, OneFacts, CountOne DEF TaskInv
    <2> QED BY <1>6, <2>1, <2>2, <2>5 DEF TaskInv
<1> QED BY <1>5, <1>6

(* And then its unit is added to the total.                                *)
LEMMA TotalStep ==
    ASSUME NEW d \in DL, NEW n \in [File -> Net], NEW p \in SUBSET File, TaskInv(d, n, p),
           NEW f \in File, n[f] = "child"
    PROVE  /\ AddFiles(d, {f}) \in DL /\ AddFiles(d, {f}).stage = d.stage
           /\ d.fileList \subseteq AddFiles(d, {f}).fileList
           /\ TaskInv(AddFiles(d, {f}), [n EXCEPT ![f] = "counted"], p)
<1> DEFINE v == "counted"
           e == AddFiles(d, {f})
<1>1. v \in Net \ {"none"} /\ v \in Net /\ v \notin {"flying", "received", "child", "over"}
    BY DEF Net
<1>2. d.stage \in {"meta", "index", "files"} /\ f \notin p
    BY ActiveStage DEF TaskInv, Stages
<1>3. f \notin d.fileList /\ f \notin Sized
    BY DEF TaskInv, Lists
<1> DEFINE one == {f}
<1>4. Cardinality(one) = 1
    BY FS_Singleton
<1>5. one \in SUBSET File /\ one \cap d.fileList = {} /\ one # {}
    BY <1>3
<1>6. /\ e \in DL /\ e.stage = d.stage /\ e.total = d.total + 1 /\ e.completed = d.completed
      /\ e.textTotal = d.total + 1 /\ e.textCompleted = d.textCompleted
      /\ e.fileList = d.fileList \cup {f} /\ e.lengthless = d.lengthless
      /\ Cardinality(e.fileList) = Cardinality(d.fileList) + 1
    <2> HIDE DEF one
    <2>1. e = AddFiles(d, one)
        BY DEF one
    <2> HIDE DEF e
    <2>2. /\ e \in DL /\ e.stage = d.stage /\ e.total = d.total + Cardinality(one)
          /\ e.completed = d.completed /\ e.textTotal = d.total + Cardinality(one)
          /\ e.textCompleted = d.textCompleted /\ e.fileList = d.fileList \cup one
          /\ e.lengthless = d.lengthless
          /\ Cardinality(d.fileList \cup one) = Cardinality(d.fileList) + Cardinality(one)
        BY <1>5, <2>1, AddFacts
    <2>3. Cardinality(e.fileList) = Cardinality(d.fileList) + 1
        BY <1>4, <2>2
    <2> QED BY <1>4, <2>2, <2>3 DEF one
<1> HIDE DEF e
<1>7. Stages(e, [n EXCEPT ![f] = v], p)
    BY <1>1, <1>2, <1>6, StageStep DEF TaskInv
<1>8. Lists(e, [n EXCEPT ![f] = v])
    BY <1>1, <1>3, <1>6, ListStep DEF TaskInv
<1>9. [n EXCEPT ![f] = v][f] = "counted"
    OBVIOUS
<1>10. Settles(d, n, p, f) => Settles(e, [n EXCEPT ![f] = v], p, f)
    BY <1>6, <1>9 DEF Settles
<1>11. Settled(d, n, p) \subseteq Settled(e, [n EXCEPT ![f] = v], p)
    BY <1>1, <1>6, <1>10, SettledStep
<1>12. Cardinality(Settled(d, n, p)) <= Cardinality(Settled(e, [n EXCEPT ![f] = v], p))
       /\ Cardinality(Settled(d, n, p)) \in Nat
       /\ Cardinality(Settled(e, [n EXCEPT ![f] = v], p)) \in Nat
       /\ Cardinality(d.fileList) \in Nat
    <2>1. /\ Settled(d, n, p) \in SUBSET File /\ d.fileList \in SUBSET File
          /\ Settled(e, [n EXCEPT ![f] = v], p) \in SUBSET File
        BY DEF Settled, DL
    <2> QED BY <1>11, <2>1, Parts, Numbers
<1>13. FirstByte(e) = FirstByte(d) /\ FirstByte(d) \in {0, 1} /\ d.completed \in Int
       /\ e.fileList # {}
    BY <1>6 DEF FirstByte, DL
<1> DEFINE was == Cardinality(Settled(d, n, p))
           is == Cardinality(Settled(e, [n EXCEPT ![f] = v], p))
<1>14. /\ d.total = Cardinality(d.fileList) + FirstByte(d)
       /\ 0 <= d.textCompleted /\ d.textCompleted <= d.completed /\ d.completed <= was
    BY <1>2 DEF TaskInv, Counts
<1>15. was <= is /\ was \in Nat /\ is \in Nat
    BY <1>12
<1> HIDE DEF was, is
<1>16. e.total = Cardinality(e.fileList) + FirstByte(e) /\ e.completed <= is
       /\ e.textTotal = e.total
    BY <1>6, <1>12, <1>13, <1>14, <1>15
<1>17. Counts(e, [n EXCEPT ![f] = v], p)
    BY <1>2, <1>6, <1>13, <1>14, <1>16 DEF Counts, is
<1>18. TaskInv(e, [n EXCEPT ![f] = v], p)
    BY <1>7, <1>8, <1>17 DEF TaskInv
<1> QED BY <1>6, <1>18 DEF e

(* The file is stored.                                                     *)
LEMMA StoreStep ==
    ASSUME NEW d \in DL, NEW n \in [File -> Net], NEW p \in SUBSET File, TaskInv(d, n, p),
           NEW f \in File, n[f] = IF f \in Sized THEN "received" ELSE "counted",
           NEW v \in {"bad", "good"}
    PROVE  TaskInv(d, [n EXCEPT ![f] = v], p)
<1>1. v \in Net \ {"none"} /\ v \in Net
      /\ v \notin {"none", "flying", "received", "child", "counted", "over"}
    BY DEF Net
<1>2. d.stage \in {"meta", "index", "files"} /\ f \notin p
    BY ActiveStage DEF TaskInv, Stages
<1>3. f \in d.fileList /\ n[f] \notin {"none", "over", "flying"}
    BY DEF TaskInv, Lists
<1>4. Stages(d, [n EXCEPT ![f] = v], p)
    BY <1>1, <1>2, <1>3, StageStep DEF TaskInv
<1>5. Lists(d, [n EXCEPT ![f] = v])
    BY <1>1, <1>3, ListStep DEF TaskInv
<1>6. [n EXCEPT ![f] = v][f] = v
    OBVIOUS
<1>7. Settles(d, n, p, f) => Settles(d, [n EXCEPT ![f] = v], p, f)
    BY <1>1, <1>3, <1>6 DEF Settles
<1>8. Settled(d, n, p) \subseteq Settled(d, [n EXCEPT ![f] = v], p)
    BY <1>1, <1>7, SettledStep
<1>9. Counts(d, [n EXCEPT ![f] = v], p)
    BY <1>8, CountSame DEF TaskInv
<1> QED BY <1>4, <1>5, <1>9 DEF TaskInv

(* Its handler is queued, or that of a lost connection.                    *)
LEMMA OverStep ==
    ASSUME NEW d \in DL, NEW n \in [File -> Net], NEW p \in SUBSET File, TaskInv(d, n, p),
           NEW f \in File, n[f] \in {"flying", "bad", "good"}
    PROVE  TaskInv(d, [n EXCEPT ![f] = "over"], p \cup {f})
<1> DEFINE v == "over"
           q == p \cup {f}
<1>1. v \in Net \ {"none"} /\ v \in Net
      /\ v \notin {"none", "flying", "received", "child", "counted"}
    BY DEF Net
<1>2. f \notin p /\ n[f] \notin {"none", "over"} /\ q \in SUBSET (p \cup {f})
    BY DEF TaskInv, Stages
<1>3. f \in Sized => f \in d.fileList
    BY DEF TaskInv, Lists
<1>4. Stages(d, [n EXCEPT ![f] = v], q)
    BY <1>1, <1>2, StageStep DEF TaskInv
<1>5. Lists(d, [n EXCEPT ![f] = v])
    BY <1>1, <1>2, <1>3, ListStep DEF TaskInv
<1>6. [n EXCEPT ![f] = v][f] = v
    OBVIOUS
<1>7. Settles(d, n, p, f) => Settles(d, [n EXCEPT ![f] = v], q, f)
    BY <1>1, <1>2, <1>6 DEF Settles
<1>8. Settled(d, n, p) \subseteq Settled(d, [n EXCEPT ![f] = v], q)
    BY <1>1, <1>7, SettledStep
<1>9. Counts(d, [n EXCEPT ![f] = v], q)
    BY <1>8, CountSame DEF TaskInv
<1> QED BY <1>4, <1>5, <1>9 DEF TaskInv

(* A handler has run, and may have completed a progress without a length.  *)
LEMMA HandledStep ==
    ASSUME NEW d \in DL, NEW n \in [File -> Net], NEW p \in SUBSET File, TaskInv(d, n, p),
           NEW f \in p
    PROVE  /\ TaskInv(d, n, p \ {f})
           /\ Credited(d, f) \in DL /\ Credited(d, f).stage = d.stage
           /\ Credited(d, f).fileList = d.fileList
           /\ TaskInv(Credited(d, f), n, p \ {f})
<1> DEFINE q == p \ {f}
<1>1. n[f] = "over" /\ f \in File /\ d.stage \in {"meta", "index", "files"}
    BY ActiveStage DEF TaskInv, Stages
<1>2. \A e : e.stage = d.stage /\ e.fileList = d.fileList => Stages(e, n, q)
    BY <1>1 DEF TaskInv, Stages
<1>3. \A e : e.fileList = d.fileList /\ e.lengthless = d.lengthless => Lists(e, n)
    BY DEF TaskInv, Lists
<1>4. \A e : e.lengthless = d.lengthless => Settled(d, n, p) \subseteq Settled(e, n, q)
    BY DEF Settled, Settles
<1> HIDE DEF q
<1>5. Counts(d, n, q)
    BY <1>4, CountSame DEF TaskInv
<1>6. TaskInv(d, n, q)
    BY <1>2, <1>3, <1>5 DEF TaskInv
<1>7. CASE f \notin d.lengthless
    <2>1. Credited(d, f) = d
        BY <1>7 DEF Credited
    <2> QED BY <1>6, <2>1 DEF q
<1>8. CASE f \in d.lengthless
    <2>1. Credited(d, f) = One(d)
        BY <1>8 DEF Credited, One
    <2>2. ~Settles(d, n, p, f) /\ Settles(One(d), n, q, f)
        BY <1>1, <1>8, OneFacts DEF Settles, q
    <2>3. Settled(d, n, p) \subseteq Settled(One(d), n, q)
        BY <1>4, OneFacts
    <2>4. Counts(One(d), n, q)
        BY <1>1, <2>2, <2>3, OneFacts, CountOne DEF TaskInv
    <2>5. Stages(One(d), n, q) /\ Lists(One(d), n)
        BY <1>2, <1>3, OneFacts
    <2>6. TaskInv(One(d), n, q)
        BY <2>4, <2>5 DEF TaskInv
    <2> QED BY <1>6, <2>1, <2>6, OneFacts DEF q
<1> QED BY <1>7, <1>8

-----------------------------------------------------------------------------
(* The code of the task, as runs. A failure changes nothing but that the   *)
(* download is cancelled, and sends a block that is no handler.            *)
Runs == [d : DL, resumed : SUBSET File, blocks : {s \in Seq(Blocks) : Silent(s)}]

(* A failed run is a run, with the same fields for the invariant.          *)
LEMMA FailFacts ==
    ASSUME NEW r \in Runs
    PROVE  /\ Fail(r) \in Runs /\ SameFields(r.d, Fail(r).d) /\ Fail(r).resumed = r.resumed
<1>1. /\ r.d \in DL /\ r.resumed \in SUBSET File
      /\ r.blocks \in Seq(Blocks) /\ Silent(r.blocks)
    BY DEF Runs
<1> DEFINE b == Block("error", NoTask)
           s == Append(r.blocks, b)
           d == [r.d EXCEPT !.cancelled = TRUE]
<1>2. d \in DL /\ SameFields(r.d, d)
    BY <1>1 DEF DL, SameFields
<1>3. Silent(<<b>>) /\ b \in Blocks
    BY SilentFacts
<1> HIDE DEF b
<1>4. s = r.blocks \o <<b>>
    BY <1>1, <1>3
<1>5. s \in Seq(Blocks) /\ Silent(s)
    BY <1>1, <1>3, <1>4, SilentFacts DEF Silent
<1>6. Fail(r) = [r EXCEPT !.d = d, !.blocks = s]
    BY DEF Fail, Runs, b
<1> HIDE DEF d, s
<1> QED BY <1>1, <1>2, <1>5, <1>6 DEF Runs

(* However many of the two lists are denied.                               *)
LEMMA DenyFacts ==
    ASSUME NEW r \in Runs
    PROVE  /\ Deny(r) \in Runs /\ SameFields(r.d, Deny(r).d) /\ Deny(r).resumed = r.resumed
<1>1. /\ Fail(r) \in Runs /\ SameFields(r.d, Fail(r).d) /\ Fail(r).resumed = r.resumed
    BY FailFacts
<1>2. /\ Fail(Fail(r)) \in Runs /\ SameFields(Fail(r).d, Fail(Fail(r)).d)
      /\ Fail(Fail(r)).resumed = Fail(r).resumed
    BY <1>1, FailFacts
<1>3. SameFields(r.d, Fail(Fail(r)).d) /\ SameFields(r.d, r.d)
    BY <1>1, <1>2 DEF SameFields
<1>4. Deny(r) \in {r, Fail(r), Fail(Fail(r))}
    BY DEF Deny
<1> QED BY <1>1, <1>2, <1>3, <1>4

(* A run whose fields are set, and whose files are resumed.                *)
Going(r, e, files) == [r EXCEPT !.d = e, !.resumed = files]

(* It is a run with these fields and files.                                *)
LEMMA RunFacts ==
    ASSUME NEW r \in Runs, NEW e \in DL, NEW files \in SUBSET File
    PROVE  /\ Going(r, e, files) \in Runs
           /\ Going(r, e, files).d = e /\ Going(r, e, files).resumed = files
<1> DEFINE silent == {s \in Seq(Blocks) : Silent(s)}
           x == Going(r, e, files)
<1>1. Runs = [d : DL, resumed : SUBSET File, blocks : silent]
    BY DEF Runs
<1> HIDE DEF silent
<1>2. x \in Runs
    BY <1>1 DEF Going
<1>3. x.d = e /\ x.resumed = files
    BY <1>1 DEF Going
<1> QED BY <1>2, <1>3

(* A task that may go on: nothing is on its way, and no file is submitted. *)
Ready(d, n) ==
    /\ TaskInv(d, n, {}) /\ d.stage \in {"prepared", "meta", "index"}
    /\ n[Meta] \in {"none", "over"} /\ n[Index] \in {"none", "over"}
    /\ n[Meta] = "over" => Meta \in d.fileList

(* What a run leaves: a sound task, with the files it resumes on their way. *)
Resumed(n, files) == [f \in File |-> IF f \in files THEN "flying" ELSE n[f]]

Result(d, n, p, r) ==
    /\ r \in Runs /\ r.d.stage # "new" /\ d.fileList \subseteq r.d.fileList
    /\ TaskInv(r.d, Resumed(n, r.resumed), p)

(* A run that resumes nothing leaves the transfers.                        *)
LEMMA ResumedNone == \A n \in [File -> Net] : Resumed(n, {}) = n
BY DEF Resumed

(* A run that fails leaves what there was.                                 *)
LEMMA FailResult ==
    ASSUME NEW r \in Runs, r.resumed = {}, NEW n \in [File -> Net], NEW p,
           TaskInv(r.d, n, p), r.d.stage # "new"
    PROVE  Result(r.d, n, p, Fail(r))
<1>1. /\ Fail(r) \in Runs /\ SameFields(r.d, Fail(r).d) /\ Fail(r).resumed = {}
    BY FailFacts
<1>2. TaskInv(Fail(r).d, n, p)
    BY <1>1, SameInv
<1>3. Resumed(n, Fail(r).resumed) = n
    BY <1>1, ResumedNone
<1> QED BY <1>1, <1>2, <1>3 DEF Result, SameFields

(* The version JSON is fetched, which has no size.                         *)
LEMMA FetchMeta ==
    ASSUME NEW r \in Runs, r.resumed = {}, NEW n \in [File -> Net],
           TaskInv(r.d, n, {}), r.d.stage = "prepared"
    PROVE  Result(r.d, n, {}, Fetch(r, Meta, "meta"))
<1>1. CASE ~account
    BY <1>1, FailResult DEF Fetch
<1>2. CASE account
    <2> DEFINE d == r.d
               e == [d EXCEPT !.stage = "meta"]
               m == Resumed(n, {Meta})
               x == Fetch(r, Meta, "meta")
    <2>1. {Meta} \cap Sized = {}
        BY DEF Sized
    <2>2. AddFiles(d, {}) = d
        BY DEF AddFiles
    <2>3. d \in DL
        BY DEF Runs
    <2>4. x = [r EXCEPT !.d = e, !.resumed = {Meta}]
        BY <1>2, <2>1, <2>2 DEF Fetch
    <2>5. /\ e \in DL /\ e.stage = "meta" /\ e.total = d.total /\ e.completed = d.completed
          /\ e.textTotal = d.textTotal /\ e.textCompleted = d.textCompleted
          /\ e.fileList = d.fileList /\ e.lengthless = d.lengthless
        BY <2>3 DEF DL, StageName
    <2>6. Meta \in File
        BY DEF File
    <2> HIDE DEF e
    <2>7. x \in Runs /\ x.d = e /\ x.resumed = {Meta}
        <3> DEFINE files == {Meta}
        <3>1. files \in SUBSET File /\ e \in DL
            BY <2>5, <2>6
        <3>2. x = Going(r, e, files)
            BY <2>4 DEF Going
        <3> HIDE DEF x, files
        <3>3. x \in Runs /\ x.d = e /\ x.resumed = files
            BY <3>1, <3>2, RunFacts
        <3> QED BY <3>3 DEF files
    <2>8. \A f \in File : n[f] = "none" /\ m[f] = IF f = Meta THEN "flying" ELSE "none"
        BY DEF TaskInv, Stages, Resumed
    <2>9. /\ Meta \in File /\ Index \in File /\ Meta # Index
          /\ \A g \in Libs \cup Assets : g \in File /\ g # Meta /\ g # Index
        BY DEF File
    <2>10. d.fileList = {}
        <3>1. d.fileList \subseteq File
            BY <2>3 DEF DL
        <3>2. \A f \in d.fileList : n[f] # "none"
            BY DEF TaskInv, Lists
        <3> QED BY <2>8, <3>1, <3>2
    <2> HIDE DEF m, x
    <2>11. Stages(e, m, {})
        BY <2>5, <2>8, <2>9 DEF Stages
    <2>12. Lists(e, m)
        <3>1. Meta \notin Sized
            BY DEF Sized
        <3> QED BY <2>5, <2>8, <2>10, <3>1 DEF TaskInv, Lists
    <2>13. Settled(d, n, {}) \subseteq Settled(e, m, {})
        <3>1. \A f \in File : ~Settles(d, n, {}, f)
            BY <2>8 DEF Settles
        <3> QED BY <3>1 DEF Settled
    <2>14. Counts(e, m, {})
        <3>1. /\ Settled(e, m, {}) \in SUBSET File /\ Settled(d, n, {}) \in SUBSET File
            BY DEF Settled
        <3>2. /\ Cardinality(Settled(d, n, {})) <= Cardinality(Settled(e, m, {}))
              /\ Cardinality(Settled(d, n, {})) \in Nat
              /\ Cardinality(Settled(e, m, {})) \in Nat
            BY <2>13, <3>1, Parts, Numbers
        <3>3. FirstByte(d) = 1 /\ FirstByte(e) = 1 /\ d.completed \in Int
            BY <2>3, <2>5 DEF FirstByte, DL
        <3> QED BY <2>5, <3>2, <3>3 DEF TaskInv, Counts
    <2>15. TaskInv(e, m, {})
        BY <2>11, <2>12, <2>14 DEF TaskInv
    <2> QED BY <2>5, <2>7, <2>15 DEF Result, x, m
<1> QED BY <1>1, <1>2

(* The asset index is fetched, and counted.                                *)
LEMMA FetchIndex ==
    ASSUME NEW r \in Runs, r.resumed = {}, NEW n \in [File -> Net],
           Ready(r.d, n), r.d.stage \in {"prepared", "meta"}
    PROVE  Result(r.d, n, {}, Fetch(r, Index, "index"))
<1>1. TaskInv(r.d, n, {})
    BY DEF Ready
<1>2. CASE ~account
    BY <1>1, <1>2, FailResult DEF Fetch
<1>3. CASE account
    <2> DEFINE d == r.d
               one == {Index}
               a == AddFiles(d, one)
               e == [a EXCEPT !.stage = "index"]
               m == Resumed(n, {Index})
               x == Fetch(r, Index, "index")
    <2>1. /\ Meta \in File /\ Index \in File /\ Meta # Index /\ Index \in Sized
          /\ Meta \notin Sized
          /\ \A g \in Libs \cup Assets : g \in File /\ g # Meta /\ g # Index
          /\ \A g \in File : g = Meta \/ g = Index \/ g \in Libs \cup Assets
        BY DEF File, Sized
    <2>2. {Index} \cap Sized = one
        BY <2>1
    <2>3. d \in DL /\ Ready(d, n)
        BY DEF Runs
    <2>4. x = [r EXCEPT !.d = e, !.resumed = {Index}]
        BY <1>3, <2>2 DEF Fetch
    <2>5. n[Index] = "none" /\ Index \notin d.fileList /\ Index \notin d.lengthless
        <3>1. n[Index] = "none"
            BY <2>1 DEF Ready, TaskInv, Stages
        <3> QED BY <2>1, <3>1 DEF Ready, TaskInv, Lists
    <2>6. /\ one \in SUBSET File /\ one \cap d.fileList = {} /\ one # {}
          /\ Cardinality(one) = 1 /\ Index \in one
        BY <2>1, <2>5, FS_Singleton
    <2>7. \A f : f \in one <=> f = Index
        OBVIOUS
    <2> HIDE DEF one, d
    <2>8. /\ a \in DL /\ a.total = d.total + Cardinality(one)
          /\ a.completed = d.completed /\ a.textTotal = d.total + Cardinality(one)
          /\ a.textCompleted = d.textCompleted /\ a.fileList = d.fileList \cup one
          /\ a.lengthless = d.lengthless
          /\ Cardinality(d.fileList \cup one) = Cardinality(d.fileList) + Cardinality(one)
        BY <2>3, <2>6, AddFacts
    <2> HIDE DEF a
    <2>9. /\ e \in DL /\ e.stage = "index" /\ e.total = a.total /\ e.completed = a.completed
          /\ e.textTotal = a.textTotal /\ e.textCompleted = a.textCompleted
          /\ e.fileList = a.fileList /\ e.lengthless = a.lengthless
        BY <2>8 DEF DL, StageName
    <2> HIDE DEF e
    <2>10. x \in Runs /\ x.d = e /\ x.resumed = {Index}
        <3> DEFINE files == {Index}
        <3>1. files \in SUBSET File /\ e \in DL
            BY <2>1, <2>9
        <3>2. x = Going(r, e, files)
            BY <2>4 DEF Going
        <3> HIDE DEF x, files
        <3>3. x \in Runs /\ x.d = e /\ x.resumed = files
            BY <3>1, <3>2, RunFacts
        <3> QED BY <3>3 DEF files
    <2>11. \A f \in File : m[f] = IF f = Index THEN "flying" ELSE n[f]
        BY DEF Resumed
    <2>12. e.fileList = d.fileList \cup one /\ e.lengthless = d.lengthless
        BY <2>8, <2>9
    <2> HIDE DEF m, x
    <2>13. Stages(e, m, {})
        <3>1. m[Meta] \in {"none", "over"} /\ (m[Meta] = "over" => Meta \in e.fileList)
            BY <2>1, <2>3, <2>11, <2>12 DEF Ready
        <3>2. \A f \in Libs \cup Assets : m[f] = "none"
            BY <2>1, <2>3, <2>11 DEF Ready, TaskInv, Stages
        <3> QED BY <2>1, <2>9, <3>1, <3>2 DEF Stages
    <2>14. Lists(e, m)
        <3>1. d.fileList \subseteq File
            BY <2>3 DEF DL
        <3>2. Lists(d, n)
            BY <2>3 DEF Ready, TaskInv
        <3>3. \A f \in File : m[f] \in {"none", "flying"} => f \notin e.lengthless
            BY <2>5, <2>11, <2>12, <3>2 DEF Lists
        <3>4. \A f \in File : m[f] \in {"child", "counted"} => f \notin Sized
            BY <2>11, <3>2 DEF Lists
        <3>5. ASSUME NEW f \in e.fileList
              PROVE  m[f] # "none" /\ (f \notin Sized => m[f] \notin {"flying", "received", "child"})
            <4>1. CASE f = Index
                BY <2>1, <2>11, <4>1
            <4>2. CASE f # Index
                <5>1. f \in d.fileList /\ f \in File
                    BY <2>7, <2>12, <3>1, <4>2
                <5> QED BY <2>11, <3>2, <4>2, <5>1 DEF Lists
            <4> QED BY <4>1, <4>2
        <3>6. ASSUME NEW f \in File, m[f] # "none",
                     f \in Sized \/ m[f] \in {"counted", "bad", "good"}
              PROVE  f \in e.fileList
            <4>1. CASE f = Index
                BY <2>6, <2>12, <4>1
            <4>2. CASE f # Index
                BY <2>11, <2>12, <3>2, <3>6, <4>2 DEF Lists
            <4> QED BY <4>1, <4>2
        <3> QED BY <3>3, <3>4, <3>5, <3>6 DEF Lists
    <2>15. Settled(d, n, {}) \subseteq Settled(e, m, {})
        BY <2>5, <2>11, <2>12 DEF Settled, Settles
    <2>16. Counts(e, m, {})
        <3> DEFINE was == Cardinality(Settled(d, n, {}))
                   is == Cardinality(Settled(e, m, {}))
        <3>1. /\ Settled(e, m, {}) \in SUBSET File /\ Settled(d, n, {}) \in SUBSET File
              /\ d.fileList \in SUBSET File
            BY <2>3 DEF Settled, DL
        <3>2. /\ was <= is /\ was \in Nat /\ is \in Nat /\ Cardinality(d.fileList) \in Nat
            BY <2>15, <3>1, Parts, Numbers
        <3>3. FirstByte(d) = 1 /\ FirstByte(e) = 1 /\ d.completed \in Int
            BY <2>3, <2>9 DEF FirstByte, Ready, DL
        <3>4. /\ d.total = Cardinality(d.fileList) + FirstByte(d)
              /\ 0 <= d.textCompleted /\ d.textCompleted <= d.completed
              /\ d.completed <= was
            BY <2>3 DEF Ready, TaskInv, Counts
        <3> HIDE DEF was, is
        <3>5. e.fileList # {} /\ Cardinality(e.fileList) = Cardinality(d.fileList) + 1
            BY <2>6, <2>8, <2>12
        <3>6. /\ e.total = Cardinality(e.fileList) + FirstByte(e) /\ e.completed <= is
              /\ 0 <= e.textCompleted /\ e.textCompleted <= e.completed
              /\ e.textTotal = e.total
            BY <2>6, <2>8, <2>9, <3>2, <3>3, <3>4, <3>5
        <3> QED BY <2>9, <3>5, <3>6 DEF Counts, is
    <2>17. TaskInv(e, m, {})
        BY <2>13, <2>14, <2>16 DEF TaskInv
    <2>18. d.fileList \subseteq e.fileList
        BY <2>12
    <2> QED BY <2>9, <2>10, <2>17, <2>18 DEF Result, x, m, d
<1> QED BY <1>2, <1>3

(* There is nothing to download.                                           *)
Nothing(d) == [d EXCEPT !.stage = "nothing", !.total = 1, !.completed = 1,
                        !.textTotal = 1, !.textCompleted = 1]

(* Its progress is complete, and its list is as it was.                    *)
LEMMA NothingFacts ==
    ASSUME NEW d \in DL
    PROVE  /\ Nothing(d) \in DL /\ Nothing(d).stage = "nothing" /\ Nothing(d).total = 1
           /\ Nothing(d).completed = 1 /\ Nothing(d).textTotal = 1
           /\ Nothing(d).textCompleted = 1
           /\ Nothing(d).fileList = d.fileList /\ Nothing(d).lengthless = d.lengthless
<1>1. Nothing(d) \in DL
    <2> DEFINE stage == "nothing"
               one == 1
               e == [d EXCEPT !.stage = stage, !.total = one, !.completed = one,
                              !.textTotal = one, !.textCompleted = one]
    <2>1. stage \in StageName /\ one \in Int /\ Nothing(d) = e
        BY DEF StageName, Nothing
    <2> HIDE DEF stage, one
    <2>2. e \in DL
        BY <2>1 DEF DL
    <2> QED BY <2>1, <2>2
<1>2. /\ Nothing(d).stage = "nothing" /\ Nothing(d).total = 1
      /\ Nothing(d).completed = 1 /\ Nothing(d).textTotal = 1
      /\ Nothing(d).textCompleted = 1
    BY DEF Nothing, DL
<1>3. Nothing(d).fileList = d.fileList /\ Nothing(d).lengthless = d.lengthless
    BY DEF Nothing, DL
<1> QED BY <1>1, <1>2, <1>3

(* The libraries and the assets are submitted: those of known size are     *)
(* listed and counted, the first byte goes, and the missing files are on   *)
(* their way, unless nothing was counted.                                  *)
LEMMA SubmitResult ==
    ASSUME NEW r \in Runs, r.resumed = {}, NEW n \in [File -> Net], Ready(r.d, n)
    PROVE  Result(r.d, n, {}, Submit(r))
<1> DEFINE missing == IF account THEN {f \in Wanted : ~Passes(f)} ELSE {}
           new == missing \cap Sized
           b == Deny(r)
           a == AddFiles(b.d, new)
           d == Dropped(a)
           nothing == [d EXCEPT !.stage = "nothing", !.total = 1, !.completed = 1,
                                !.textTotal = 1, !.textCompleted = 1]
           files == [d EXCEPT !.stage = "files"]
           x == Submit(r)
           c == r.d
<1>1. x = IF d.total = 0 THEN [b EXCEPT !.d = nothing]
          ELSE [b EXCEPT !.d = files, !.resumed = missing]
    BY DEF Submit
<1>2. missing \subseteq Libs \cup Assets
    BY DEF Wanted
<1>3. /\ Meta \in File /\ Index \in File /\ Meta # Index /\ Index \in Sized
      /\ Meta \notin Sized
      /\ \A g \in Libs \cup Assets : g \in File /\ g # Meta /\ g # Index
      /\ \A g \in File : g = Meta \/ g = Index \/ g \in Libs \cup Assets
    BY DEF File, Sized
<1>4. c \in DL /\ TaskInv(c, n, {}) /\ Ready(c, n)
    BY DEF Ready, Runs
<1>5. b \in Runs /\ SameFields(c, b.d) /\ b.resumed = {} /\ b.d \in DL
    BY DenyFacts DEF Runs
<1>6. \A f \in missing : f \in File /\ n[f] = "none" /\ f \notin c.fileList /\ f \notin c.lengthless
    <2> SUFFICES ASSUME NEW f \in missing
                 PROVE  f \in File /\ n[f] = "none" /\ f \notin c.fileList /\ f \notin c.lengthless
        OBVIOUS
    <2> HIDE DEF missing, c
    <2>1. f \in File /\ f \in Libs \cup Assets
        BY <1>2, <1>3
    <2>2. n[f] = "none"
        BY <1>4, <2>1 DEF Ready, TaskInv, Stages
    <2> QED BY <1>4, <2>1, <2>2 DEF TaskInv, Lists
<1>7. \A f : f \in new <=> f \in missing /\ f \in Sized
    OBVIOUS
<1> HIDE DEF missing, b, c
<1>8. new \in SUBSET File /\ new \cap b.d.fileList = {}
    BY <1>5, <1>6, <1>7 DEF SameFields
<1> HIDE DEF new
<1>9. /\ a \in DL /\ a.total = b.d.total + Cardinality(new) /\ a.stage = b.d.stage
      /\ a.completed = b.d.completed /\ a.textCompleted = b.d.textCompleted
      /\ a.textTotal = IF new = {} THEN b.d.textTotal ELSE b.d.total + Cardinality(new)
      /\ a.fileList = b.d.fileList \cup new /\ a.lengthless = b.d.lengthless
      /\ Cardinality(b.d.fileList \cup new) = Cardinality(b.d.fileList) + Cardinality(new)
    <2> DEFINE g == b.d
    <2>1. g \in DL /\ new \in SUBSET File /\ new \cap g.fileList = {}
        BY <1>5, <1>8
    <2>2. a = AddFiles(g, new)
        OBVIOUS
    <2> HIDE DEF g, a
    <2>3. /\ a \in DL /\ a.total = g.total + Cardinality(new) /\ a.stage = g.stage
          /\ a.completed = g.completed /\ a.textCompleted = g.textCompleted
          /\ a.textTotal = IF new = {} THEN g.textTotal ELSE g.total + Cardinality(new)
          /\ a.fileList = g.fileList \cup new /\ a.lengthless = g.lengthless
          /\ Cardinality(g.fileList \cup new) = Cardinality(g.fileList) + Cardinality(new)
        BY <2>1, <2>2, AddFacts
    <2> QED BY <2>3 DEF g
<1>10. /\ a.total = c.total + Cardinality(new) /\ a.stage = c.stage
       /\ a.completed = c.completed /\ a.textCompleted = c.textCompleted
       /\ a.textTotal = IF new = {} THEN c.textTotal ELSE c.total + Cardinality(new)
       /\ a.fileList = c.fileList \cup new /\ a.lengthless = c.lengthless
    BY <1>5, <1>9 DEF SameFields
<1>11. b.d.fileList = c.fileList
    BY <1>5 DEF SameFields
<1>12. Cardinality(c.fileList \cup new) = Cardinality(c.fileList) + Cardinality(new)
    BY <1>9, <1>11
<1> HIDE DEF a
<1>13. /\ d \in DL /\ d.total = a.total - 1 /\ d.stage = a.stage
       /\ d.completed = a.completed /\ d.textCompleted = a.textCompleted
       /\ d.textTotal = a.textTotal - 1
       /\ d.fileList = a.fileList /\ d.lengthless = a.lengthless
    <2>1. a \in DL
        BY <1>9
    <2>2. a.total - 1 \in Int /\ a.textTotal - 1 \in Int
        BY <2>1 DEF DL
    <2>3. d = [a EXCEPT !.total = a.total - 1, !.textTotal = a.textTotal - 1]
        BY <2>1 DEF Dropped, DL
    <2> HIDE DEF d
    <2> QED BY <2>1, <2>2, <2>3 DEF DL
<1> HIDE DEF d
<1> DEFINE was == Cardinality(c.fileList)
           more == Cardinality(new)
           is == Cardinality(d.fileList)
<1>14. /\ c.total = was + 1 /\ was \in Nat /\ more \in Nat /\ is \in Nat
       /\ is = was + more /\ (is = 0 <=> d.fileList = {}) /\ (more = 0 <=> new = {})
       /\ (was = 0 <=> c.fileList = {})
    <2>1. FirstByte(c) = 1 /\ c.total = was + FirstByte(c)
        BY <1>4 DEF Ready, TaskInv, Counts, FirstByte
    <2>2. d.fileList = c.fileList \cup new
        BY <1>10, <1>13
    <2>3. is = was + more
        BY <1>12, <2>2
    <2>4. d.fileList \in SUBSET File /\ c.fileList \in SUBSET File
        BY <1>4, <1>13 DEF DL
    <2>5. /\ was \in Nat /\ more \in Nat /\ is \in Nat
          /\ (is = 0 <=> d.fileList = {}) /\ (more = 0 <=> new = {})
          /\ (was = 0 <=> c.fileList = {})
        BY <1>8, <2>4, Numbers
    <2> QED BY <2>1, <2>3, <2>5
<1> HIDE DEF was, more, is
<1>15. d.total = is
    BY <1>10, <1>13, <1>14 DEF more
<1>16. d.fileList = c.fileList \cup new /\ c.fileList \subseteq d.fileList
    BY <1>10, <1>13
<1>17. CASE d.total = 0
    <2>1. d.fileList = {} /\ c.fileList = {} /\ new = {}
        BY <1>14, <1>15, <1>16, <1>17
    <2>2. /\ nothing \in DL /\ nothing.stage = "nothing" /\ nothing.total = 1
          /\ nothing.completed = 1 /\ nothing.textTotal = 1 /\ nothing.textCompleted = 1
          /\ nothing.fileList = {} /\ nothing.lengthless = c.lengthless
        <3>1. d \in DL /\ d.fileList = {} /\ d.lengthless = c.lengthless
            BY <1>10, <1>13, <2>1
        <3>2. nothing = Nothing(d)
            BY DEF Nothing
        <3> QED BY <3>1, <3>2, NothingFacts
    <2> HIDE DEF nothing
    <2>3. [b EXCEPT !.d = nothing] = Going(b, nothing, {})
        BY <1>5 DEF Going, Runs
    <2>4. x = Going(b, nothing, {})
        BY <1>1, <1>17, <2>3
    <2> HIDE DEF x
    <2>5. x \in Runs /\ x.d = nothing /\ x.resumed = {}
        <3>1. {} \in SUBSET File
            OBVIOUS
        <3> QED BY <1>5, <2>2, <2>4, <3>1, RunFacts
    <2>6. \A f \in File : n[f] = "none"
        <3>1. n[Meta] = "none"
            BY <1>4, <2>1 DEF Ready
        <3>2. n[Index] = "none"
            BY <1>3, <1>4, <2>1 DEF TaskInv, Lists
        <3>3. \A f \in Libs \cup Assets : n[f] = "none"
            BY <1>4 DEF Ready, TaskInv, Stages
        <3> QED BY <1>3, <3>1, <3>2, <3>3
    <2>7. Stages(nothing, n, {})
        BY <1>3, <2>2, <2>6 DEF Stages
    <2>8. Lists(nothing, n)
        BY <1>4, <2>2, <2>6 DEF TaskInv, Lists
    <2>9. Counts(nothing, n, {})
        BY <2>2 DEF Counts
    <2>10. TaskInv(nothing, n, {})
        BY <2>7, <2>8, <2>9 DEF TaskInv
    <2>11. Resumed(n, x.resumed) = n
        BY <2>5, ResumedNone
    <2>12. Result(c, n, {}, x)
        BY <2>1, <2>2, <2>5, <2>10, <2>11 DEF Result
    <2> QED BY <2>12 DEF c, x
<1>18. CASE d.total # 0
    <2> DEFINE e == files
               m == Resumed(n, missing)
    <2>1. /\ e \in DL /\ e.stage = "files" /\ e.total = d.total /\ e.completed = c.completed
          /\ e.textTotal = d.textTotal /\ e.textCompleted = c.textCompleted
          /\ e.fileList = d.fileList /\ e.lengthless = c.lengthless
        BY <1>10, <1>13 DEF DL, StageName
    <2> HIDE DEF files
    <2>2. x = Going(b, e, missing)
        BY <1>1, <1>18 DEF Going
    <2> HIDE DEF x
    <2>3. missing \in SUBSET File
        BY <1>6
    <2>4. x \in Runs /\ x.d = e /\ x.resumed = missing
        BY <1>5, <2>1, <2>2, <2>3, RunFacts
    <2>5. \A f \in File : m[f] = IF f \in missing THEN "flying" ELSE n[f]
        BY DEF Resumed
    <2> HIDE DEF e, m
    <2>6. Meta \notin missing /\ Index \notin missing
        BY <1>2, <1>3
    <2>7. Stages(e, m, {})
        <3>1. /\ m[Meta] \in {"none", "over"} /\ m[Index] \in {"none", "over"}
              /\ m[Meta] = "over" => Meta \in e.fileList
            BY <1>3, <1>4, <1>16, <2>1, <2>5, <2>6 DEF Ready
        <3> QED BY <2>1, <3>1 DEF Stages
    <2>8. Lists(e, m)
        <3>1. c.fileList \subseteq File
            BY <1>4 DEF DL
        <3>2. Lists(c, n)
            BY <1>4 DEF TaskInv
        <3>3. \A f \in File : m[f] \in {"none", "flying"} => f \notin e.lengthless
            BY <1>6, <2>1, <2>5, <3>2 DEF Lists
        <3>4. \A f \in File : m[f] \in {"child", "counted"} => f \notin Sized
            BY <2>5, <3>2 DEF Lists
        <3>5. ASSUME NEW f \in e.fileList
              PROVE  m[f] # "none"
                     /\ (f \notin Sized => m[f] \notin {"flying", "received", "child"})
            <4>1. CASE f \in missing
                BY <1>6, <1>7, <1>16, <2>1, <2>5, <4>1
            <4>2. CASE f \notin missing
                <5>1. f \in c.fileList /\ f \in File
                    BY <1>7, <1>16, <2>1, <3>1, <4>2
                <5> QED BY <2>5, <3>2, <4>2, <5>1 DEF Lists
            <4> QED BY <4>1, <4>2
        <3>6. ASSUME NEW f \in File, m[f] # "none",
                     f \in Sized \/ m[f] \in {"counted", "bad", "good"}
              PROVE  f \in e.fileList
            <4>1. CASE f \in missing
                BY <1>7, <1>16, <2>1, <2>5, <3>6, <4>1
            <4>2. CASE f \notin missing
                BY <1>16, <2>1, <2>5, <3>2, <3>6, <4>2 DEF Lists
            <4> QED BY <4>1, <4>2
        <3> QED BY <3>3, <3>4, <3>5, <3>6 DEF Lists
    <2>9. Settled(c, n, {}) \subseteq Settled(e, m, {})
        BY <1>6, <2>1, <2>5 DEF Settled, Settles
    <2>10. Counts(e, m, {})
        <3> DEFINE old == Cardinality(Settled(c, n, {}))
                   now == Cardinality(Settled(e, m, {}))
        <3>1. /\ Settled(e, m, {}) \in SUBSET File /\ Settled(c, n, {}) \in SUBSET File
            BY DEF Settled
        <3>2. old <= now /\ old \in Nat /\ now \in Nat
            BY <2>9, <3>1, Parts, Numbers
        <3>3. FirstByte(e) = 0 /\ c.completed \in Int /\ c.textCompleted \in Int
            BY <1>4, <2>1 DEF FirstByte, DL
        <3>4. /\ 0 <= c.textCompleted /\ c.textCompleted <= c.completed
              /\ c.completed <= old
              /\ c.textTotal = IF c.fileList = {} THEN -1 ELSE c.total
            BY <1>4 DEF Ready, TaskInv, Counts
        <3> HIDE DEF old, now
        <3>5. d.textTotal = d.total
            <4>1. CASE new = {}
                <5>1. c.fileList # {}
                    BY <1>14, <1>15, <1>18, <4>1
                <5>2. a.textTotal = c.total
                    BY <1>10, <3>4, <4>1, <5>1
                <5>3. a.total = c.total
                    BY <1>10, <1>14, <4>1 DEF more
                <5> QED BY <1>13, <5>2, <5>3
            <4>2. CASE new # {}
                BY <1>10, <1>13, <4>2
            <4> QED BY <4>1, <4>2
        <3>6. e.fileList # {} /\ Cardinality(e.fileList) = is
            BY <1>14, <1>15, <1>18, <2>1 DEF is
        <3>7. /\ e.total = Cardinality(e.fileList) + FirstByte(e) /\ e.completed <= now
              /\ 0 <= e.textCompleted /\ e.textCompleted <= e.completed
              /\ e.textTotal = e.total
            BY <1>14, <1>15, <2>1, <3>2, <3>3, <3>4, <3>5, <3>6
        <3> QED BY <2>1, <3>6, <3>7 DEF Counts, now
    <2>11. TaskInv(e, m, {})
        BY <2>7, <2>8, <2>10 DEF TaskInv
    <2>12. Result(c, n, {}, x)
        BY <1>16, <2>1, <2>4, <2>11 DEF Result, m
    <2> QED BY <2>12 DEF c, x
<1> QED BY <1>17, <1>18

(* The asset index is there, or not needed, or it is fetched.              *)
LEMMA AssetMetadataResult ==
    ASSUME NEW r \in Runs, r.resumed = {}, NEW n \in [File -> Net],
           Ready(r.d, n), r.d.stage \in {"prepared", "meta"}
    PROVE  Result(r.d, n, {}, DownloadAssetMetadata(r))
BY SubmitResult, FetchIndex DEF DownloadAssetMetadata

(* The version JSON is parsed.                                             *)
LEMMA ParsedResult ==
    ASSUME NEW r \in Runs, r.resumed = {}, NEW n \in [File -> Net],
           Ready(r.d, n), r.d.stage \in {"prepared", "meta"}
    PROVE  Result(r.d, n, {}, Parsed(r))
<1> DEFINE e == [r.d EXCEPT !.metadata = TRUE]
           q == Going(r, e, {})
<1>1. r.d \in DL
    BY DEF Runs
<1>2. e \in DL /\ SameFields(r.d, e)
    BY <1>1 DEF DL, SameFields
<1>3. [r EXCEPT !.d.metadata = TRUE] = q
    BY DEF Going, Runs
<1> HIDE DEF e
<1>4. q \in Runs /\ q.d = e /\ q.resumed = {}
    BY <1>2, RunFacts
<1> HIDE DEF q
<1>5. Ready(e, n) /\ e.stage \in {"prepared", "meta"}
    BY <1>2, SameInv DEF Ready, SameFields
<1>6. Result(e, n, {}, DownloadAssetMetadata(q))
    BY <1>4, <1>5, AssetMetadataResult
<1>7. Result(r.d, n, {}, DownloadAssetMetadata(q))
    BY <1>2, <1>6 DEF Result, SameFields
<1> QED BY <1>3, <1>7 DEF Parsed

(* A run that has done nothing yet.                                        *)
LEMMA RunStart == \A d \in DL : Run(d) \in Runs /\ Run(d).d = d /\ Run(d).resumed = {}
BY SilentFacts DEF Run, Runs

(* A new task counts the first byte, and has nothing on its way.           *)
LEMMA PreparedReady ==
    ASSUME NEW n \in [File -> Net], \A f \in File : n[f] = "none"
    PROVE  /\ PrepareForDownload(Fresh) \in DL /\ Ready(PrepareForDownload(Fresh), n)
           /\ PrepareForDownload(Fresh).stage = "prepared"
           /\ PrepareForDownload(Fresh).fileList = {}
<1> DEFINE d == PrepareForDownload(Fresh)
<1>1. /\ d.stage = "prepared" /\ d.total = 1 /\ d.textTotal = -1 /\ d.completed = 0
      /\ d.textCompleted = 0 /\ d.fileList = {} /\ d.lengthless = {}
    BY DEF PrepareForDownload, Fresh
<1>2. d \in DL
    <2>1. Fresh \in DL
        BY DEF Fresh, DL, StageName
    <2> DEFINE stage == "prepared"
               one == 1
               none == -1
               e == [Fresh EXCEPT !.stage = stage, !.total = one, !.textTotal = none]
    <2>2. stage \in StageName /\ one \in Int /\ none \in Int /\ d = e
        BY DEF StageName, PrepareForDownload
    <2> HIDE DEF stage, one, none
    <2>3. e \in DL
        BY <2>1, <2>2 DEF DL
    <2> QED BY <2>2, <2>3
<1> HIDE DEF d
<1>3. /\ Meta \in File /\ Index \in File /\ Meta # Index
      /\ \A g \in Libs \cup Assets : g \in File
    BY DEF File
<1>4. Stages(d, n, {})
    BY <1>1, <1>3 DEF Stages
<1>5. Lists(d, n)
    BY <1>1 DEF Lists
<1>6. Counts(d, n, {})
    <2> DEFINE is == Cardinality(Settled(d, n, {}))
               none == Cardinality(d.fileList)
    <2>1. Settled(d, n, {}) \in SUBSET File /\ d.fileList \in SUBSET File
        BY <1>2 DEF Settled, DL
    <2>2. is \in Nat /\ none = 0
        BY <1>1, <2>1, Numbers
    <2>3. FirstByte(d) = 1
        BY <1>1 DEF FirstByte
    <2> HIDE DEF is, none
    <2>4. d.total = none + FirstByte(d) /\ d.completed <= is
        BY <1>1, <2>2, <2>3
    <2> QED BY <1>1, <2>4 DEF Counts, is, none
<1>7. Ready(d, n)
    BY <1>1, <1>3, <1>4, <1>5, <1>6 DEF Ready, TaskInv
<1> QED BY <1>1, <1>2, <1>7 DEF d

(* What the worker does.                                                   *)
LEMMA VersionMetadataResult ==
    ASSUME NEW n \in [File -> Net], \A f \in File : n[f] = "none"
    PROVE  Result(Fresh, n, {}, DownloadVersionMetadata(Run(PrepareForDownload(Fresh))))
<1> DEFINE d == PrepareForDownload(Fresh)
           r == Run(d)
<1>1. d \in DL /\ Ready(d, n) /\ d.stage = "prepared" /\ d.fileList = {}
    BY PreparedReady
<1>2. Fresh.fileList = {}
    BY DEF Fresh
<1> HIDE DEF d
<1>3. r \in Runs /\ r.d = d /\ r.resumed = {}
    BY <1>1, RunStart
<1> HIDE DEF r
<1>4. Result(d, n, {}, Parsed(r))
    BY <1>1, <1>3, ParsedResult
<1>5. Result(d, n, {}, Fail(r)) /\ Result(d, n, {}, Fetch(r, Meta, "meta"))
    BY <1>1, <1>3, FailResult, FetchMeta DEF Ready
<1>6. Result(d, n, {}, DownloadVersionMetadata(r))
    BY <1>4, <1>5 DEF DownloadVersionMetadata
<1> QED BY <1>1, <1>2, <1>6 DEF Result, d, r

(* What a handler does about a file that passed its check. The handler of  *)
(* the version JSON, and that of the index, are the only ones of their     *)
(* stage.                                                                  *)
LEMMA SuccessResult ==
    ASSUME NEW d \in DL, NEW n \in [File -> Net], NEW p \in SUBSET File, TaskInv(d, n, p),
           NEW f \in p, f \in d.fileList
    PROVE  Result(d, n, p \ {f}, Success(f, Run(Credited(d, f))))
<1> DEFINE e == Credited(d, f)
           r == Run(e)
           q == p \ {f}
<1>1. /\ e \in DL /\ e.stage = d.stage /\ e.fileList = d.fileList /\ TaskInv(e, n, q)
    BY HandledStep
<1>2. n[f] = "over" /\ f \in File /\ d.stage \in {"meta", "index", "files"}
    BY ActiveStage DEF TaskInv, Stages
<1>3. /\ Meta \in File /\ Index \in File /\ Meta # Index
      /\ \A g \in Libs \cup Assets : g \in File /\ g # Meta /\ g # Index
      /\ \A g \in File : g = Meta \/ g = Index \/ g \in Libs \cup Assets
    BY DEF File
<1>4. \A g \in p : n[g] = "over"
    BY DEF TaskInv, Stages
<1> HIDE DEF e
<1>5. r \in Runs /\ r.d = e /\ r.resumed = {}
    BY <1>1, RunStart
<1> HIDE DEF r
<1>6. CASE f = Meta
    <2>1. d.stage = "meta"
        BY <1>6 DEF TaskInv, Stages
    <2>2. \A g \in p : g = Meta
        BY <1>3, <1>4, <2>1 DEF TaskInv, Stages
    <2>3. q = {}
        BY <1>6, <2>2
    <2>4. Ready(e, n) /\ e.stage = "meta"
        <3>1. n[Index] = "none"
            BY <1>3, <2>1 DEF TaskInv, Stages
        <3> QED BY <1>1, <1>2, <1>6, <2>1, <2>3, <3>1 DEF Ready
    <2>5. Result(e, n, {}, Parsed(r))
        BY <1>5, <2>4, ParsedResult
    <2>6. Result(e, n, q, Success(f, r))
        BY <1>6, <2>3, <2>5 DEF Success
    <2> QED BY <1>1, <2>6 DEF Result, q, r, e
<1>7. CASE f = Index
    <2>1. d.stage = "index"
        BY <1>7 DEF TaskInv, Stages
    <2>2. \A g \in p : g = Index
        BY <1>3, <1>4, <2>1 DEF TaskInv, Stages
    <2>3. q = {}
        BY <1>7, <2>2
    <2>4. Ready(e, n)
        <3>1. n[Meta] \in {"none", "over"} /\ (n[Meta] = "over" => Meta \in d.fileList)
            BY <1>3, <2>1 DEF TaskInv, Stages
        <3> QED BY <1>1, <1>2, <1>7, <2>1, <2>3, <3>1 DEF Ready
    <2>5. Result(e, n, {}, Submit(r))
        BY <1>5, <2>4, SubmitResult
    <2>6. Result(e, n, q, Success(f, r))
        BY <1>3, <1>7, <2>3, <2>5 DEF Success
    <2> QED BY <1>1, <2>6 DEF Result, q, r, e
<1>8. CASE f \notin {Meta, Index}
    <2>1. Success(f, r) = r
        BY <1>8 DEF Success
    <2>2. Resumed(n, r.resumed) = n
        BY <1>5, ResumedNone
    <2>3. Result(e, n, q, r)
        BY <1>1, <1>2, <1>5, <2>2 DEF Result
    <2> QED BY <1>1, <2>1, <2>3 DEF Result, q, r, e
<1> QED BY <1>6, <1>7, <1>8

-----------------------------------------------------------------------------
(* The files of a queue's handlers are files.                              *)
LEMMA PendingFiles == \A s, t : Pending(s, t) \in SUBSET File
BY DEF Pending

(* Lists only grow.                                                        *)
LEMMA ListedGrows ==
    ASSUME NEW D \in [Task -> DL], NEW s \in Seq(Blocks), Listed(s, D),
           NEW E \in [Task -> DL], \A x \in Task : D[x].fileList \subseteq E[x].fileList
    PROVE  Listed(s, E)
<1>1. ASSUME NEW i \in DOMAIN s, s[i].kind = "completed" PROVE s[i].task \in Task
    <2>1. s[i] \in Blocks
        OBVIOUS
    <2> QED BY <1>1, <2>1 DEF Blocks, Handlers
<1> QED BY <1>1 DEF Listed

(* One task gets further, with the queue z.                                *)
LEMMA SoundOne ==
    ASSUME NEW D, NEW N, NEW s, Sound(D, N, s), NEW t \in Task, NEW d \in DL,
           NEW n \in [File -> Net], NEW z \in Seq(Blocks), OneEach(z),
           D[t].fileList \subseteq d.fileList, Listed(z, D),
           \A x \in Task \ {t} : Pending(z, x) = Pending(s, x),
           TaskInv(d, n, Pending(z, t))
    PROVE  Sound([D EXCEPT ![t] = d], [N EXCEPT ![t] = n], z)
<1> DEFINE E == [D EXCEPT ![t] = d]
           M == [N EXCEPT ![t] = n]
<1>1. /\ E \in [Task -> DL] /\ M \in [Task -> [File -> Net]] /\ E[t] = d /\ M[t] = n
      /\ \A x \in Task \ {t} : E[x] = D[x] /\ M[x] = N[x]
    BY DEF Sound
<1> HIDE DEF E, M
<1>2. \A x \in Task : D[x].fileList \subseteq E[x].fileList
    <2> SUFFICES ASSUME NEW x \in Task PROVE D[x].fileList \subseteq E[x].fileList
        OBVIOUS
    <2>1. CASE x = t
        BY <1>1, <2>1
    <2>2. CASE x # t
        BY <1>1, <2>2
    <2> QED BY <2>1, <2>2
<1>3. Listed(z, E)
    BY <1>1, <1>2, ListedGrows DEF Sound
<1>4. ASSUME NEW x \in Task PROVE TaskInv(E[x], M[x], Pending(z, x))
    <2>1. CASE x = t
        BY <1>1, <2>1
    <2>2. CASE x # t
        BY <1>1, <2>2 DEF Sound
    <2> QED BY <2>1, <2>2
<1>5. Sound(E, M, z)
    BY <1>1, <1>3, <1>4 DEF Sound
<1> QED BY <1>5 DEF E, M

(* Blocks that are no handlers.                                            *)
LEMMA SoundSilent ==
    ASSUME NEW D, NEW N, NEW s, Sound(D, N, s), NEW e, Silent(e)
    PROVE  Sound(D, N, s \o e)
<1>1. /\ s \in Seq(Blocks) /\ OneEach(s) /\ Listed(s, D)
    BY DEF Sound
<1>2. /\ s \o e \in Seq(Blocks) /\ OneEach(s \o e)
      /\ \A t : Pending(s \o e, t) = Pending(s, t)
      /\ Listed(s \o e, D)
    BY <1>1, QueueAdd
<1> DEFINE g == s \o e
<1> HIDE DEF g
<1>3. Sound(D, N, g)
    BY <1>2 DEF Sound, g
<1> QED BY <1>3 DEF g

(* What an observer copies leaves everything but the text progress.        *)
SameButText(d, e) ==
    /\ e.stage = d.stage /\ e.total = d.total /\ e.completed = d.completed
    /\ e.textTotal = d.textTotal /\ e.fileList = d.fileList

(* The progress of a task is noticed, or not.                              *)
LEMMA SoundCopied ==
    ASSUME NEW D, NEW N, NEW s, Sound(D, N, s), task \in Task \cup {NoTask}, NEW t \in Task
    PROVE  /\ Sound(Copied(t, D), N, s \o Sent(t, D))
           /\ \A x \in Task : SameButText(D[x], Copied(t, D)[x])
<1>1. D \in [Task -> DL] /\ s \in Seq(Blocks)
    BY DEF Sound
<1>2. CASE ~Noticed(t, D)
    <2>1. Copied(t, D) = D /\ Sent(t, D) = <<>>
        BY <1>2 DEF Copied, Sent
    <2>2. Sound(D, N, s \o <<>>)
        BY SilentFacts, SoundSilent
    <2> QED BY <2>1, <2>2 DEF SameButText
<1>3. CASE Noticed(t, D)
    <2> DEFINE d == D[task]
               e == [d EXCEPT !.textCompleted = d.completed]
               E == [D EXCEPT ![task] = e]
    <2>1. task \in Task
        BY <1>3 DEF Noticed
    <2>2. d \in DL /\ TaskInv(d, N[task], Pending(s, task))
        BY <1>1, <2>1 DEF Sound
    <2>3. Copied(t, D) = E
        BY <1>1, <1>3, <2>1 DEF Copied
    <2>4. Sent(t, D) = <<Block("finish", task)>>
        BY <1>3 DEF Sent
    <2>5. SameButText(d, e)
        BY <2>2 DEF SameButText, DL
    <2>6. e \in DL /\ TaskInv(e, N[task], Pending(s, task))
        <3> DEFINE n == N[task]
                   p == Pending(s, task)
        <3> HIDE DEF d, n, p
        <3>1. d \in DL /\ TaskInv(d, n, p)
            BY <2>2 DEF n, p
        <3>2. e \in DL /\ TaskInv(e, n, p)
            BY <3>1, CopyInv
        <3> QED BY <3>2 DEF n, p
    <2>7. N[task] \in [File -> Net] /\ [N EXCEPT ![task] = N[task]] = N
        BY <2>1 DEF Sound
    <2>8. d.fileList \subseteq e.fileList
        BY <2>5 DEF SameButText
    <2> HIDE DEF e
    <2>9. Sound(E, N, s)
        <3> DEFINE n == N[task]
        <3>1. D[task].fileList \subseteq e.fileList
            BY <2>8
        <3>2. n \in [File -> Net] /\ TaskInv(e, n, Pending(s, task)) /\ e \in DL
            BY <2>6, <2>7
        <3>3. OneEach(s) /\ Listed(s, D)
            BY DEF Sound
        <3> HIDE DEF n, E
        <3>4. Sound([D EXCEPT ![task] = e], [N EXCEPT ![task] = n], s)
            BY <1>1, <2>1, <3>1, <3>2, <3>3, SoundOne
        <3> QED BY <2>7, <3>4 DEF n, E
    <2>10. Silent(<<Block("finish", task)>>)
        BY <2>1, SilentFacts
    <2>11. ASSUME NEW x \in Task PROVE SameButText(D[x], E[x])
        <3>1. CASE x = task
            BY <1>1, <2>1, <2>5, <3>1
        <3>2. CASE x # task
            BY <1>1, <2>1, <3>2 DEF SameButText
        <3> QED BY <3>1, <3>2
    <2> HIDE DEF E
    <2>12. Sound(E, N, s \o <<Block("finish", task)>>)
        BY <2>9, <2>10, SoundSilent
    <2> QED BY <2>3, <2>4, <2>11, <2>12
<1> QED BY <1>2, <1>3

-----------------------------------------------------------------------------
(* One file of a task gets further, and no handler is queued.              *)
LEMMA SoundFile ==
    ASSUME Sound(dl, net, main), NEW t \in Task, NEW f \in File, NEW d \in DL, NEW v \in Net,
           dl[t].fileList \subseteq d.fileList,
           TaskInv(d, [net[t] EXCEPT ![f] = v], Pending(main, t))
    PROVE  Sound([dl EXCEPT ![t] = d], [net EXCEPT ![t][f] = v], main)
<1> DEFINE n == [net[t] EXCEPT ![f] = v]
<1>1. n \in [File -> Net] /\ [net EXCEPT ![t][f] = v] = [net EXCEPT ![t] = n]
    BY DEF Sound
<1>2. main \in Seq(Blocks) /\ OneEach(main) /\ Listed(main, dl)
    BY DEF Sound
<1> HIDE DEF n
<1>3. Sound([dl EXCEPT ![t] = d], [net EXCEPT ![t] = n], main)
    BY <1>1, <1>2, SoundOne DEF n
<1> QED BY <1>1, <1>3

(* One of its progress objects changes as well.                            *)
LEMMA SoundChange ==
    ASSUME Sound(dl, net, main), task \in Task \cup {NoTask},
           NEW t \in Task, NEW f \in File, NEW d \in DL, NEW v \in Net,
           dl[t].fileList \subseteq d.fileList,
           TaskInv(d, [net[t] EXCEPT ![f] = v], Pending(main, t)),
           Change(t, d), net' = [net EXCEPT ![t][f] = v]
    PROVE  Sound(dl, net, main)'
<1> DEFINE D == [dl EXCEPT ![t] = d]
           N == [net EXCEPT ![t][f] = v]
<1>1. Sound(D, N, main)
    BY SoundFile
<1>2. dl' = Copied(t, D) /\ main' = main \o Sent(t, D) /\ net' = N
    BY DEF Change
<1> HIDE DEF D, N
<1>3. Sound(Copied(t, D), N, main \o Sent(t, D))
    BY <1>1, SoundCopied
<1> QED BY <1>2, <1>3

(* What is known of one task and one of its files.                         *)
LEMMA TaskFacts ==
    ASSUME IInv, NEW t \in Task
    PROVE  /\ dl[t] \in DL /\ net[t] \in [File -> Net] /\ Pending(main, t) \in SUBSET File
           /\ TaskInv(dl[t], net[t], Pending(main, t))
           /\ task \in Task \cup {NoTask} /\ Sound(dl, net, main)
           /\ dl \in [Task -> DL] /\ net \in [Task -> [File -> Net]] /\ main \in Seq(Blocks)
BY PendingFiles DEF IInv, Types, Sound

(* Bytes are received.                                                     *)
LEMMA ReceiveSound ==
    ASSUME IInv, NEW t \in Task, NEW f \in File, Receive(t, f)
    PROVE  Sound(dl, net, main)'
<1> DEFINE d == dl[t]
           n == net[t]
           p == Pending(main, t)
<1>1. /\ d \in DL /\ n \in [File -> Net] /\ p \in SUBSET File /\ TaskInv(d, n, p)
      /\ task \in Task \cup {NoTask} /\ Sound(dl, net, main) /\ dl \in [Task -> DL]
    BY TaskFacts
<1>2. n[f] = "flying" /\ net' = [net EXCEPT ![t][f] = "received"] /\ "received" \in Net
    BY DEF Receive, Net
<1>3. CASE f \in Sized /\ Change(t, [dl[t] EXCEPT !.completed = @ + 1])
    <2>1. Change(t, One(d))
        BY <1>3 DEF One
    <2> HIDE DEF d, n, p
    <2>2. /\ One(d) \in DL /\ One(d).fileList = d.fileList
          /\ TaskInv(One(d), [n EXCEPT ![f] = "received"], p)
        BY <1>1, <1>2, <1>3, OneFacts, ReceiveSized
    <2> DEFINE e == One(d)
    <2> HIDE DEF e
    <2>3. /\ e \in DL /\ dl[t].fileList \subseteq e.fileList /\ Change(t, e)
          /\ TaskInv(e, [net[t] EXCEPT ![f] = "received"], Pending(main, t))
        BY <2>1, <2>2 DEF e, d, n, p
    <2> QED BY <1>1, <1>2, <2>3, SoundChange
<1>4. CASE f \notin Sized /\ UNCHANGED <<dl, main>>
    <2> HIDE DEF d, n, p
    <2>1. TaskInv(d, [n EXCEPT ![f] = "received"], p)
        BY <1>1, <1>2, <1>4, ReceiveUnsized
    <2>2. Sound([dl EXCEPT ![t] = d], [net EXCEPT ![t][f] = "received"], main)
        BY <1>1, <1>2, <2>1, SoundFile DEF d, n, p
    <2>3. [dl EXCEPT ![t] = d] = dl
        BY <1>1 DEF d
    <2> QED BY <1>2, <1>4, <2>2, <2>3
<1>5. CASE dl' = [dl EXCEPT ![t].lengthless = @ \cup {f}] /\ UNCHANGED main
    <2> DEFINE e == Unmeasured(d, f)
    <2>1. dl' = [dl EXCEPT ![t] = e]
        BY <1>5 DEF Unmeasured
    <2> HIDE DEF d, n, p
    <2>2. e \in DL /\ e.fileList = d.fileList /\ TaskInv(e, [n EXCEPT ![f] = "received"], p)
        BY <1>1, <1>2, ReceiveLengthless
    <2> HIDE DEF e
    <2>3. Sound([dl EXCEPT ![t] = e], [net EXCEPT ![t][f] = "received"], main)
        BY <1>1, <1>2, <2>2, SoundFile DEF d, n, p
    <2> QED BY <1>2, <1>5, <2>1, <2>3
<1> QED BY <1>3, <1>4, <1>5 DEF Receive

(* A child progress is added.                                              *)
LEMMA AddChildSound ==
    ASSUME IInv, NEW t \in Task, NEW f \in File, AddChild(t, f)
    PROVE  Sound(dl, net, main)'
<1> DEFINE d == dl[t]
           n == net[t]
           p == Pending(main, t)
           e == IF f \in d.lengthless THEN d ELSE One(d)
<1>1. /\ d \in DL /\ n \in [File -> Net] /\ p \in SUBSET File /\ TaskInv(d, n, p)
      /\ task \in Task \cup {NoTask} /\ Sound(dl, net, main) /\ dl \in [Task -> DL]
    BY TaskFacts
<1>2. /\ n[f] = "received" /\ f \notin Sized /\ net' = [net EXCEPT ![t][f] = "child"]
      /\ "child" \in Net
    BY DEF AddChild, Net
<1>3. IF f \in d.lengthless THEN UNCHANGED <<dl, main>> ELSE Change(t, e)
    BY DEF AddChild, One
<1> HIDE DEF d, n, p
<1>4. TaskInv(e, [n EXCEPT ![f] = "child"], p)
    BY <1>1, <1>2, ChildStep
<1>5. e \in DL /\ e.fileList = d.fileList
    BY <1>1, OneFacts
<1>6. CASE f \in d.lengthless
    <2>1. Sound([dl EXCEPT ![t] = d], [net EXCEPT ![t][f] = "child"], main)
        BY <1>1, <1>2, <1>4, <1>6, SoundFile DEF d, n, p
    <2>2. [dl EXCEPT ![t] = d] = dl
        BY <1>1 DEF d
    <2> QED BY <1>2, <1>3, <1>6, <2>1, <2>2
<1>7. CASE f \notin d.lengthless
    <2>1. Change(t, e)
        BY <1>3, <1>7
    <2> HIDE DEF e
    <2> QED BY <1>1, <1>2, <1>4, <1>5, <2>1, SoundChange DEF d, n, p
<1> QED BY <1>6, <1>7

(* And the new total.                                                      *)
LEMMA AddTotalSound ==
    ASSUME IInv, NEW t \in Task, NEW f \in File, AddTotal(t, f)
    PROVE  Sound(dl, net, main)'
<1> DEFINE d == dl[t]
           n == net[t]
           p == Pending(main, t)
           e == AddFiles(d, {f})
<1>1. /\ d \in DL /\ n \in [File -> Net] /\ p \in SUBSET File /\ TaskInv(d, n, p)
      /\ task \in Task \cup {NoTask} /\ Sound(dl, net, main)
    BY TaskFacts
<1>2. /\ n[f] = "child" /\ net' = [net EXCEPT ![t][f] = "counted"] /\ "counted" \in Net
      /\ Change(t, e)
    BY DEF AddTotal, Net
<1> HIDE DEF d, n, p
<1>3. e \in DL /\ d.fileList \subseteq e.fileList /\ TaskInv(e, [n EXCEPT ![f] = "counted"], p)
    BY <1>1, <1>2, TotalStep
<1> HIDE DEF e
<1> QED BY <1>1, <1>2, <1>3, SoundChange DEF d, n, p

(* The file is stored.                                                     *)
LEMMA StoreSound ==
    ASSUME IInv, NEW t \in Task, NEW f \in File, Store(t, f)
    PROVE  Sound(dl, net, main)'
<1> DEFINE d == dl[t]
           n == net[t]
           p == Pending(main, t)
<1>1. /\ d \in DL /\ n \in [File -> Net] /\ p \in SUBSET File /\ TaskInv(d, n, p)
      /\ Sound(dl, net, main) /\ dl \in [Task -> DL]
    BY TaskFacts
<1>2. n[f] = (IF f \in Sized THEN "received" ELSE "counted") /\ UNCHANGED <<dl, main>>
    BY DEF Store
<1> PICK v \in {"bad", "good"} : net' = [net EXCEPT ![t][f] = v]
    BY DEF Store
<1>3. v \in Net
    BY DEF Net
<1> HIDE DEF d, n, p
<1>4. TaskInv(d, [n EXCEPT ![f] = v], p)
    BY <1>1, <1>2, StoreStep
<1>5. Sound([dl EXCEPT ![t] = d], [net EXCEPT ![t][f] = v], main)
    BY <1>1, <1>3, <1>4, SoundFile DEF d, n, p
<1>6. [dl EXCEPT ![t] = d] = dl
    BY <1>1 DEF d
<1> QED BY <1>2, <1>5, <1>6

(* A handler is queued; one without an error is about a file that was      *)
(* stored, and so was counted.                                             *)
LEMMA HandlerSound ==
    ASSUME IInv, NEW t \in Task, NEW f \in File, NEW error \in BOOLEAN,
           net[t][f] \in {"flying", "bad", "good"},
           error = FALSE => net[t][f] \in {"bad", "good"},
           net' = [net EXCEPT ![t][f] = "over"],
           main' = Append(main, Handler(t, f, error)), dl' = dl
    PROVE  Sound(dl, net, main)'
<1> DEFINE d == dl[t]
           n == net[t]
           p == Pending(main, t)
           m == [n EXCEPT ![f] = "over"]
           z == Append(main, Handler(t, f, error))
<1>1. /\ d \in DL /\ n \in [File -> Net] /\ p \in SUBSET File /\ TaskInv(d, n, p)
      /\ Sound(dl, net, main) /\ dl \in [Task -> DL] /\ main \in Seq(Blocks)
      /\ net \in [Task -> [File -> Net]]
    BY TaskFacts
<1>2. m \in [File -> Net] /\ net' = [net EXCEPT ![t] = m]
    <2>1. "over" \in Net
        BY DEF Net
    <2>2. m \in [File -> Net]
        BY <1>1, <2>1
    <2> QED BY <1>1, <2>2
<1>3. f \notin p
    BY <1>1 DEF TaskInv, Stages
<1>4. error = FALSE => f \in d.fileList
    BY <1>1 DEF TaskInv, Lists
<1>5. OneEach(main) /\ Listed(main, dl)
    BY <1>1 DEF Sound
<1>6. /\ z \in Seq(Blocks) /\ OneEach(z) /\ Pending(z, t) = p \cup {f} /\ Listed(z, dl)
      /\ \A x \in Task \ {t} : Pending(z, x) = Pending(main, x)
    <2>1. main \in Seq(Blocks) /\ OneEach(main) /\ f \notin Pending(main, t)
        BY <1>1, <1>3, <1>5
    <2> DEFINE b == Handler(t, f, error)
    <2>2. b \in Handlers /\ b.task = t /\ b.file = f /\ b.error = error
        BY DEF Handlers, Handler
    <2>3. z = Append(main, b)
        OBVIOUS
    <2> HIDE DEF b, z
    <2>4. /\ z \in Seq(Blocks) /\ OneEach(z)
          /\ OneMorePending(main, z, t, f)
          /\ \A D : Listed(main, D) /\ (b.error = FALSE => f \in D[t].fileList)
                        => Listed(z, D)
        BY <2>1, <2>2, <2>3, QueueHandler
    <2> QED BY <1>4, <1>5, <2>2, <2>4 DEF OneMorePending
<1>7. TaskInv(d, m, p \cup {f})
    <2>1. n[f] \in {"flying", "bad", "good"}
        OBVIOUS
    <2> HIDE DEF d, n, p
    <2> QED BY <1>1, <2>1, OverStep
<1> HIDE DEF d, m, z
<1>8. [dl EXCEPT ![t] = d] = dl
    BY <1>1 DEF d
<1>9. Sound([dl EXCEPT ![t] = d], [net EXCEPT ![t] = m], z)
    <2>1. dl[t].fileList \subseteq d.fileList /\ TaskInv(d, m, Pending(z, t))
        BY <1>6, <1>7 DEF d
    <2> HIDE DEF n, p
    <2> QED BY <1>1, <1>2, <1>6, <2>1, SoundOne
<1> QED BY <1>2, <1>8, <1>9 DEF z

(* The session, on its queue.                                              *)
LEMMA SessionSound ==
    ASSUME IInv, NEW t \in Task, NEW f \in File, Session(t, f)
    PROVE  Sound(dl, net, main)'
<1>1. CASE Complete(t, f)
    <2> PICK error \in {FALSE, net[t][f] = "bad"} : main' = Append(main, Handler(t, f, error))
        BY <1>1 DEF Complete
    <2>1. /\ net[t][f] \in {"bad", "good"} /\ net' = [net EXCEPT ![t][f] = "over"] /\ dl' = dl
        BY <1>1 DEF Complete
    <2>2. CASE error = FALSE
        BY <2>1, <2>2, HandlerSound
    <2>3. CASE error = TRUE
        BY <2>1, <2>3, HandlerSound
    <2> QED BY <2>2, <2>3
<1>2. CASE Lose(t, f)
    <2>1. /\ net[t][f] = "flying" /\ net' = [net EXCEPT ![t][f] = "over"] /\ dl' = dl
          /\ main' = Append(main, Handler(t, f, TRUE))
        BY <1>2 DEF Lose
    <2> QED BY <2>1, HandlerSound
<1> QED BY <1>1, <1>2, ReceiveSound, AddChildSound, AddTotalSound, StoreSound DEF Session

(* The code of the task has run, with the queue z before its blocks.       *)
LEMMA ResultSound ==
    ASSUME Sound(dl, net, main), NEW t \in Task, NEW z \in Seq(Blocks), OneEach(z),
           Listed(z, dl), \A x \in Task \ {t} : Pending(z, x) = Pending(main, x),
           NEW r, Result(dl[t], net[t], Pending(z, t), r)
    PROVE  Sound([dl EXCEPT ![t] = r.d], [net EXCEPT ![t] = Resumed(net[t], r.resumed)],
                 z \o r.blocks)
<1> DEFINE d == r.d
           n == Resumed(net[t], r.resumed)
           e == r.blocks
<1>1. /\ d \in DL /\ Silent(e) /\ dl[t].fileList \subseteq d.fileList
      /\ TaskInv(d, n, Pending(z, t))
    BY DEF Result, Runs
<1>2. n \in [File -> Net]
    <2>1. "flying" \in Net /\ net[t] \in [File -> Net]
        BY DEF Net, Sound
    <2> QED BY <2>1 DEF Resumed
<1> HIDE DEF d, n, e
<1>3. Sound([dl EXCEPT ![t] = d], [net EXCEPT ![t] = n], z)
    BY <1>1, <1>2, SoundOne
<1> DEFINE D == [dl EXCEPT ![t] = d]
           N == [net EXCEPT ![t] = n]
<1> HIDE DEF D, N
<1>4. Sound(D, N, z \o e)
    BY <1>1, <1>3, SoundSilent DEF D, N
<1> QED BY <1>4 DEF D, N, d, n, e

(* A task that was not prepared has nothing on its way.                    *)
LEMMA NewFacts ==
    ASSUME NEW d, NEW n, NEW p \in SUBSET File, TaskInv(d, n, p), d.stage = "new"
    PROVE  d = Fresh /\ (\A f \in File : n[f] = "none") /\ p = {}
<1>1. d = Fresh /\ \A f \in File : n[f] = "none"
    BY DEF TaskInv, Stages
<1>2. \A f \in p : n[f] = "over"
    BY DEF TaskInv, Stages
<1> QED BY <1>1, <1>2

(* The worker.                                                             *)
LEMMA DownloadVersionSound ==
    ASSUME IInv, NEW t \in Task, DownloadVersion(t)
    PROVE  Sound(dl, net, main)'
<1> DEFINE r == DownloadVersionMetadata(Run(PrepareForDownload(dl[t])))
           observe == Block("observe", NoTask)
           n == net[t]
           p == Pending(main, t)
<1>1. /\ dl[t] \in DL /\ n \in [File -> Net] /\ p \in SUBSET File /\ TaskInv(dl[t], n, p)
      /\ Sound(dl, net, main) /\ main \in Seq(Blocks) /\ net \in [Task -> [File -> Net]]
    BY TaskFacts
<1>2. Silent(<<observe>>) /\ observe \in Blocks
    BY SilentFacts
<1>3. CASE task = NoTask
    <2>1. dl' = dl /\ net' = net /\ main' = Append(main, observe)
        BY <1>3 DEF DownloadVersion
    <2> HIDE DEF observe
    <2>2. main' = main \o <<observe>>
        <3>1. main \in Seq(Blocks) /\ observe \in Blocks /\ main' = Append(main, observe)
            BY <1>1, <1>2, <2>1
        <3> QED BY <3>1
    <2> DEFINE e == <<observe>>
    <2> HIDE DEF e
    <2>3. Sound(dl, net, main \o e)
        BY <1>1, <1>2, SoundSilent DEF e
    <2> QED BY <2>1, <2>2, <2>3 DEF e
<1>4. CASE task # NoTask
    <2>1. /\ dl' = [dl EXCEPT ![t] = r.d] /\ main' = Append(main \o r.blocks, observe)
          /\ net' = [net EXCEPT ![t] = Resumed(n, r.resumed)]
        BY <1>1, <1>4 DEF DownloadVersion, Resumed
    <2>2. dl[t].stage = "new"
        BY DEF DownloadVersion, IInv, Unstarted
    <2>3. dl[t] = Fresh /\ (\A f \in File : n[f] = "none") /\ p = {}
        <3> DEFINE d == dl[t]
        <3>1. TaskInv(d, n, p) /\ d.stage = "new" /\ p \in SUBSET File
            BY <1>1, <2>2
        <3> HIDE DEF d, n, p
        <3>2. d = Fresh /\ (\A f \in File : n[f] = "none") /\ p = {}
            BY <3>1, NewFacts
        <3> QED BY <3>2 DEF d
    <2>4. Result(Fresh, n, {}, DownloadVersionMetadata(Run(PrepareForDownload(Fresh))))
        <3> HIDE DEF n
        <3> QED BY <1>1, <2>3, VersionMetadataResult
    <2>5. Result(dl[t], net[t], Pending(main, t), r)
        BY <2>3, <2>4
    <2> HIDE DEF r, observe
    <2>6. OneEach(main) /\ Listed(main, dl)
        BY <1>1 DEF Sound
    <2>7. Sound([dl EXCEPT ![t] = r.d], [net EXCEPT ![t] = Resumed(net[t], r.resumed)],
                main \o r.blocks)
        BY <1>1, <2>5, <2>6, ResultSound
    <2> DEFINE D == [dl EXCEPT ![t] = r.d]
               N == [net EXCEPT ![t] = Resumed(net[t], r.resumed)]
               s == main \o r.blocks
               e == <<observe>>
    <2>8. dl' = D /\ net' = N
        BY <2>1
    <2>9. Sound(D, N, s)
        BY <2>7
    <2>10. main' = s \o e
        <3>1. main' = Append(s, observe)
            BY <2>1
        <3>2. s \in Seq(Blocks)
            BY <2>9 DEF Sound
        <3> HIDE DEF s
        <3> QED BY <1>2, <3>1, <3>2
    <2> HIDE DEF D, N, s, e
    <2>11. Sound(D, N, s \o e)
        BY <1>2, <2>9, SoundSilent DEF e
    <2> QED BY <2>8, <2>10, <2>11
<1> QED BY <1>3, <1>4

(* A block that is no handler goes.                                        *)
LEMMA SoundTail ==
    ASSUME NEW D, NEW N, NEW s, Sound(D, N, s), s # <<>>, Head(s).kind # "completed"
    PROVE  Sound(D, N, Tail(s))
<1>1. s \in Seq(Blocks) /\ OneEach(s) /\ Listed(s, D)
    BY DEF Sound
<1>2. /\ Tail(s) \in Seq(Blocks) /\ OneEach(Tail(s)) /\ Listed(Tail(s), D)
      /\ \A t \in Task :
            Pending(Tail(s), t) = Pending(s, t) \ {f \in File : IsHandler(Head(s), t, f)}
    BY <1>1, QueueTail
<1>3. \A t \in Task : Pending(Tail(s), t) = Pending(s, t)
    <2>1. \A t, f : ~IsHandler(Head(s), t, f)
        BY DEF IsHandler
    <2> QED BY <1>2, <2>1
<1> DEFINE z == Tail(s)
<1> HIDE DEF z
<1>4. Sound(D, N, z)
    BY <1>2, <1>3 DEF Sound, z
<1> QED BY <1>4 DEF z

(* The observer is registered, with its initial notification.              *)
LEMMA ObserveSound ==
    ASSUME IInv, Observe
    PROVE  Sound(dl, net, main)'
<1>1. /\ Sound(dl, net, main) /\ dl \in [Task -> DL] /\ task \in Task \cup {NoTask}
      /\ net' = net /\ main # <<>> /\ Head(main).kind = "observe"
    BY DEF IInv, Types, Sound, Observe, First
<1>2. Sound(dl, net, Tail(main))
    BY <1>1, SoundTail
<1>3. CASE Unprepared
    BY <1>1, <1>2, <1>3 DEF Observe
<1>4. CASE ~Unprepared
    <2> DEFINE d == dl[task]
               e == [d EXCEPT !.observed = TRUE]
               D == [dl EXCEPT ![task] = e]
               z == Tail(main)
    <2>1. task \in Task /\ d.stage # "new"
        BY <1>1, <1>4 DEF Unprepared
    <2>2. dl' = Copied(task, D) /\ main' = z \o Sent(task, D)
        BY <1>4 DEF Observe
    <2>3. d \in DL /\ TaskInv(d, net[task], Pending(z, task)) /\ net[task] \in [File -> Net]
        BY <1>2, <2>1 DEF Sound
    <2>4. e \in DL /\ SameFields(d, e)
        BY <2>3 DEF DL, SameFields
    <2>5. /\ z \in Seq(Blocks) /\ OneEach(z) /\ Listed(z, dl) /\ Sound(dl, net, z)
        BY <1>2 DEF Sound
    <2>6. [net EXCEPT ![task] = net[task]] = net
        BY <1>1 DEF Sound
    <2>7. d.fileList \subseteq e.fileList
        BY <2>4 DEF SameFields
    <2> HIDE DEF e, z
    <2>8. TaskInv(e, net[task], Pending(z, task))
        BY <2>1, <2>3, <2>4, SameInv
    <2>9. Sound(D, net, z)
        <3> DEFINE n == net[task]
        <3>1. n \in [File -> Net] /\ TaskInv(e, n, Pending(z, task))
              /\ dl[task].fileList \subseteq e.fileList
            BY <2>3, <2>7, <2>8
        <3> HIDE DEF n, d
        <3>2. Sound([dl EXCEPT ![task] = e], [net EXCEPT ![task] = n], z)
            BY <2>1, <2>4, <2>5, <3>1, SoundOne
        <3> QED BY <2>6, <3>2 DEF n
    <2> HIDE DEF D
    <2>10. Sound(Copied(task, D), net, z \o Sent(task, D))
        BY <1>1, <2>1, <2>9, SoundCopied
    <2> QED BY <1>1, <2>2, <2>10
<1> QED BY <1>3, <1>4

(* What an observer copies is the text progress.                           *)
LEMMA CopiedSame ==
    ASSUME NEW D \in [Task -> DL], NEW t, task \in Task \cup {NoTask}, NEW x \in Task
    PROVE  SameButText(D[x], Copied(t, D)[x])
<1>1. CASE ~Noticed(t, D)
    BY <1>1 DEF Copied, SameButText
<1>2. CASE Noticed(t, D) /\ x # task
    <2>1. task \in Task
        BY <1>2 DEF Noticed
    <2> QED BY <1>2, <2>1 DEF Copied, SameButText
<1>3. CASE Noticed(t, D) /\ x = task
    <2> DEFINE d == D[x]
               e == [d EXCEPT !.textCompleted = d.completed]
    <2>1. Copied(t, D)[x] = e
        BY <1>3 DEF Copied
    <2>2. d \in DL
        OBVIOUS
    <2> HIDE DEF d
    <2>3. SameButText(d, e)
        BY <2>2 DEF SameButText, DL
    <2> QED BY <2>1, <2>3 DEF d
<1> QED BY <1>1, <1>2, <1>3

(* Two tasks alike, but for what was completed.                            *)
SameStage(d, e) == e.stage = d.stage /\ e.fileList = d.fileList

(* A completion handler. The lists of the stages before and after those in *)
(* which single files are fetched remain.                                  *)
LEMMA CompletedSound ==
    ASSUME IInv, Completed
    PROVE  /\ Sound(dl, net, main)'
           /\ \A x \in Task :
                 dl[x].stage \notin {"meta", "index"} =>
                     SameStage(dl[x], dl'[x]) /\ net'[x] = net[x]
<1> DEFINE b == Head(main)
           t == b.task
           f == b.file
           z == Tail(main)
           d == dl[t]
           n == net[t]
           p == Pending(main, t)
           r == CASE d.cancelled -> Run(d)
                  [] ~d.cancelled /\ (b.error \/ ~Passes(f)) -> Fail(Run(d))
                  [] OTHER -> Success(f, Run(Credited(d, f)))
           D == [dl EXCEPT ![t] = r.d]
           N == [net EXCEPT ![t] = Resumed(n, r.resumed)]
           changed == <<r.d.total, r.d.completed>> # <<d.total, d.completed>>
<1>1. /\ Sound(dl, net, main) /\ main \in Seq(Blocks) /\ OneEach(main) /\ Listed(main, dl)
      /\ main # <<>> /\ b.kind = "completed" /\ task \in Task \cup {NoTask}
    BY DEF IInv, Types, Sound, Completed, First
<1>2. /\ z \in Seq(Blocks) /\ OneEach(z) /\ b \in Blocks /\ Listed(z, dl)
      /\ \A x \in Task : Pending(z, x) = Pending(main, x) \ {g \in File : IsHandler(b, x, g)}
    BY <1>1, QueueTail
<1>3. t \in Task /\ f \in File /\ b.error \in BOOLEAN
    BY <1>1, <1>2 DEF Blocks, Handlers
<1>4. /\ d \in DL /\ n \in [File -> Net] /\ p \in SUBSET File /\ TaskInv(d, n, p)
      /\ net \in [Task -> [File -> Net]]
    BY <1>3, TaskFacts
<1>5. f \in p /\ (b.error = FALSE => f \in d.fileList)
    <2>1. 1 \in DOMAIN main /\ b = main[1]
        BY <1>1
    <2>2. IsHandler(main[1], t, f)
        BY <1>1, <2>1 DEF IsHandler
    <2>3. b.error = FALSE => f \in d.fileList
        BY <1>1, <2>1 DEF Listed
    <2> QED BY <1>3, <2>1, <2>2, <2>3 DEF Pending
<1>6. Pending(z, t) = p \ {f} /\ \A x \in Task \ {t} : Pending(z, x) = Pending(main, x)
    <2>1. {g \in File : IsHandler(b, t, g)} = {f}
        BY <1>1, <1>3 DEF IsHandler
    <2>2. \A x \in Task \ {t} : \A g : ~IsHandler(b, x, g)
        BY DEF IsHandler
    <2> QED BY <1>2, <1>3, <2>1, <2>2
<1>7. /\ dl' = (IF changed THEN Copied(t, D) ELSE D)
      /\ main' = z \o r.blocks \o (IF changed THEN Sent(t, D) ELSE <<>>)
      /\ net' = N
    BY <1>3, <1>4 DEF Completed, Resumed
<1>8. Result(d, n, p \ {f}, r)
    <2> DEFINE q == p \ {f}
               run == Run(d)
    <2>1. TaskInv(d, n, q) /\ d.stage # "new"
        <3> HIDE DEF d, n, p, f
        <3>1. TaskInv(d, n, p \ {f})
            BY <1>4, <1>5, HandledStep
        <3>2. f \in File
            BY <1>3
        <3>3. Stages(d, n, p)
            BY <1>4 DEF TaskInv
        <3>4. d.stage # "new"
            BY <1>5, <3>2, <3>3, ActiveStage
        <3> QED BY <3>1, <3>4
    <2> HIDE DEF d, n, p, f, t, b
    <2>2. run \in Runs /\ run.d = d /\ run.resumed = {}
        BY <1>4, RunStart
    <2>3. CASE d.cancelled
        <3>1. r = run
            BY <2>3
        <3> HIDE DEF r, run, q
        <3>2. Resumed(n, run.resumed) = n
            BY <1>4, <2>2, ResumedNone
        <3>3. Result(d, n, q, run)
            BY <2>1, <2>2, <3>2 DEF Result
        <3> QED BY <3>1, <3>3 DEF q
    <2>4. CASE ~d.cancelled /\ (b.error \/ ~Passes(f))
        <3>1. r = Fail(run)
            BY <2>4
        <3> HIDE DEF r, run, q
        <3>2. Result(run.d, n, q, Fail(run))
            BY <1>4, <2>1, <2>2, FailResult
        <3> QED BY <2>2, <3>1, <3>2 DEF q
    <2>5. CASE ~d.cancelled /\ ~(b.error \/ ~Passes(f))
        <3>1. r = Success(f, Run(Credited(d, f)))
            BY <2>5
        <3>2. f \in d.fileList
            BY <1>3, <1>5, <2>5
        <3> HIDE DEF r
        <3>3. Result(d, n, p \ {f}, Success(f, Run(Credited(d, f))))
            BY <1>4, <1>5, <3>2, SuccessResult
        <3> QED BY <3>1, <3>3
    <2> QED BY <2>3, <2>4, <2>5
<1>9. Sound(D, N, z \o r.blocks)
    <2> HIDE DEF r, z, b
    <2>1. Result(dl[t], net[t], Pending(z, t), r)
        BY <1>6, <1>8
    <2>2. \A x \in Task \ {t} : Pending(z, x) = Pending(main, x)
        BY <1>6
    <2> HIDE DEF t, p
    <2> QED BY <1>1, <1>2, <1>3, <2>1, <2>2, ResultSound
<1> DEFINE s == z \o r.blocks
<1>10. Sound(dl, net, main)'
    <2>1. CASE changed
        <3>1. dl' = Copied(t, D) /\ main' = s \o Sent(t, D) /\ net' = N
            BY <1>7, <2>1
        <3> HIDE DEF D, N, s, t
        <3>2. Sound(Copied(t, D), N, s \o Sent(t, D))
            BY <1>1, <1>3, <1>9, SoundCopied DEF s
        <3> QED BY <3>1, <3>2
    <2>2. CASE ~changed
        <3>1. dl' = D /\ main' = s \o <<>> /\ net' = N
            BY <1>7, <2>2
        <3> HIDE DEF D, N, s
        <3>2. Sound(D, N, s \o <<>>)
            BY <1>9, SilentFacts, SoundSilent DEF s
        <3> QED BY <3>1, <3>2
    <2> QED BY <2>1, <2>2
<1>11. ASSUME NEW x \in Task, dl[x].stage \notin {"meta", "index"}
       PROVE  SameStage(dl[x], dl'[x]) /\ net'[x] = net[x]
    <2>1. D \in [Task -> DL] /\ D[t] = r.d /\ N[t] = Resumed(n, r.resumed)
          /\ \A y \in Task \ {t} : D[y] = dl[y] /\ N[y] = net[y]
        <3>1. r.d \in DL
            BY <1>8 DEF Result, Runs
        <3>2. dl \in [Task -> DL]
            BY <1>1 DEF Sound
        <3> HIDE DEF r, d
        <3> QED BY <1>3, <1>4, <3>1, <3>2
    <2>2. SameStage(D[x], dl'[x])
        <3> HIDE DEF D, t
        <3>1. CASE changed
            <4>1. dl' = Copied(t, D)
                BY <1>7, <3>1
            <4> QED BY <1>1, <2>1, <4>1, CopiedSame DEF SameButText, SameStage
        <3>2. CASE ~changed
            BY <1>7, <3>2 DEF SameStage
        <3> QED BY <3>1, <3>2
    <2>3. CASE x # t
        BY <1>7, <2>1, <2>2, <2>3
    <2>4. CASE x = t
        <3>1. d.stage \notin {"meta", "index"} /\ Stages(d, n, p)
            BY <1>4, <1>11, <2>4 DEF TaskInv
        <3>2. f \notin {Meta, Index}
            BY <1>5, <3>1 DEF Stages
        <3>3. r \in {Run(d), Fail(Run(d)), Run(Credited(d, f))}
            <4> HIDE DEF d, n, p, f, t, b
            <4>1. Success(f, Run(Credited(d, f))) = Run(Credited(d, f))
                BY <3>2 DEF Success
            <4>2. CASE d.cancelled
                BY <4>2
            <4>3. CASE ~d.cancelled /\ (b.error \/ ~Passes(f))
                BY <4>3
            <4>4. CASE ~d.cancelled /\ ~(b.error \/ ~Passes(f))
                <5>1. r = Success(f, Run(Credited(d, f)))
                    BY <4>4
                <5> HIDE DEF r
                <5> QED BY <4>1, <5>1
            <4> QED BY <4>2, <4>3, <4>4
        <3>4. SameStage(d, r.d) /\ r.resumed = {}
            <4> HIDE DEF d, p, n, f, r
            <4>1. /\ Run(d) \in Runs /\ Run(d).d = d /\ Run(d).resumed = {}
                BY <1>4, RunStart
            <4>2. SameStage(d, Fail(Run(d)).d) /\ Fail(Run(d)).resumed = {}
                BY <4>1, FailFacts DEF SameFields, SameStage
            <4>3. Credited(d, f) \in DL /\ SameStage(d, Credited(d, f))
                <5>1. d \in DL /\ n \in [File -> Net] /\ p \in SUBSET File /\ f \in p
                      /\ TaskInv(d, n, p)
                    BY <1>4, <1>5
                <5>2. /\ Credited(d, f) \in DL /\ Credited(d, f).stage = d.stage
                      /\ Credited(d, f).fileList = d.fileList
                    BY <5>1, HandledStep
                <5> QED BY <5>2 DEF SameStage
            <4>4. Run(Credited(d, f)).d = Credited(d, f) /\ Run(Credited(d, f)).resumed = {}
                BY <4>3, RunStart
            <4> QED BY <3>3, <4>1, <4>2, <4>3, <4>4 DEF SameStage
        <3>5. Resumed(n, r.resumed) = n
            BY <1>4, <3>4, ResumedNone
        <3> HIDE DEF r, D, N
        <3> QED BY <1>7, <2>1, <2>2, <2>4, <3>4, <3>5 DEF SameStage
    <2> QED BY <2>3, <2>4
<1> QED BY <1>10, <1>11

(* The block of an error, and the block of the observer.                   *)
LEMMA EndSound ==
    ASSUME IInv, HandleError \/ Finish
    PROVE  Sound(dl, net, main)'
<1>1. /\ main # <<>> /\ Head(main).kind # "completed" /\ main' = Tail(main)
      /\ dl' = dl /\ net' = net
    BY DEF HandleError, Finish, First
<1>2. Sound(dl, net, Tail(main))
    BY <1>1, SoundTail DEF IInv
<1> QED BY <1>1, <1>2

-----------------------------------------------------------------------------
(* A change that leaves the stage and the list of its task leaves those of *)
(* every task.                                                             *)
LEMMA ChangeSame ==
    ASSUME IInv, NEW t \in Task, NEW e \in DL, Change(t, e), NEW x \in Task
    PROVE  /\ x # t => SameStage(dl[x], dl'[x])
           /\ x = t => dl'[x].stage = e.stage /\ dl'[x].fileList = e.fileList
<1> DEFINE D == [dl EXCEPT ![t] = e]
<1>1. dl \in [Task -> DL] /\ task \in Task \cup {NoTask}
    BY TaskFacts
<1>2. D \in [Task -> DL] /\ D[t] = e /\ (x # t => D[x] = dl[x])
    BY <1>1
<1>3. dl' = Copied(t, D)
    BY DEF Change
<1> HIDE DEF D
<1>4. SameButText(D[x], dl'[x])
    BY <1>1, <1>2, <1>3, CopiedSame
<1> QED BY <1>2, <1>4 DEF SameButText, SameStage

(* The session leaves every stage, and every list but that of a file whose *)
(* child progress is there.                                                *)
LEMMA SessionSame ==
    ASSUME IInv, NEW t \in Task, NEW f \in File, Session(t, f), NEW x \in Task
    PROVE  /\ dl'[x].stage = dl[x].stage
           /\ x # t \/ net[t][f] # "child" => dl'[x].fileList = dl[x].fileList
<1> DEFINE d == dl[t]
<1>1. d \in DL /\ dl \in [Task -> DL] /\ net \in [Task -> [File -> Net]]
    BY TaskFacts
<1>2. ASSUME NEW e \in DL, Change(t, e), SameStage(d, e) PROVE SameStage(dl[x], dl'[x])
    BY <1>2, ChangeSame DEF SameStage
<1>3. One(d) \in DL /\ SameStage(d, One(d))
    BY <1>1, OneFacts DEF SameStage
<1>4. CASE Receive(t, f)
    <2>1. CASE Change(t, [dl[t] EXCEPT !.completed = @ + 1])
        <3> DEFINE e == One(d)
        <3>1. Change(t, e)
            BY <2>1 DEF One
        <3>2. e \in DL /\ SameStage(d, e)
            BY <1>3
        <3> HIDE DEF d, e
        <3>3. SameStage(dl[x], dl'[x])
            BY <1>2, <3>1, <3>2
        <3> QED BY <3>3 DEF SameStage
    <2>2. CASE dl' = dl
        BY <2>2
    <2>3. CASE dl' = [dl EXCEPT ![t].lengthless = @ \cup {f}]
        <3> DEFINE e == Unmeasured(d, f)
        <3>1. dl' = [dl EXCEPT ![t] = e]
            BY <2>3 DEF Unmeasured
        <3>2. e.stage = d.stage /\ e.fileList = d.fileList
            BY <1>1 DEF Unmeasured, DL
        <3> HIDE DEF e
        <3>3. CASE x = t
            BY <1>1, <3>1, <3>2, <3>3
        <3>4. CASE x # t
            BY <1>1, <3>1, <3>4
        <3> QED BY <3>3, <3>4
    <2> QED BY <1>4, <2>1, <2>2, <2>3 DEF Receive
<1>5. CASE AddChild(t, f)
    <2>1. CASE f \in dl[t].lengthless
        BY <1>5, <2>1 DEF AddChild
    <2>2. CASE f \notin dl[t].lengthless
        <3> DEFINE e == One(d)
        <3>1. Change(t, e)
            BY <1>5, <2>2 DEF AddChild, One
        <3>2. e \in DL /\ SameStage(d, e)
            BY <1>3
        <3> HIDE DEF d, e
        <3>3. SameStage(dl[x], dl'[x])
            BY <1>2, <3>1, <3>2
        <3> QED BY <3>3 DEF SameStage
    <2> QED BY <2>1, <2>2
<1>6. CASE AddTotal(t, f)
    <2> DEFINE e == AddFiles(d, {f})
               n == net[t]
               p == Pending(main, t)
    <2>1. Change(t, e) /\ net[t][f] = "child"
        BY <1>6 DEF AddTotal
    <2>2. n \in [File -> Net] /\ p \in SUBSET File /\ TaskInv(d, n, p) /\ n[f] = "child"
        BY <2>1, TaskFacts
    <2> HIDE DEF d, n, p
    <2>3. e \in DL /\ e.stage = d.stage
        BY <1>1, <2>2, TotalStep
    <2> HIDE DEF e
    <2>4. x # t => SameStage(dl[x], dl'[x])
        BY <2>1, <2>3, ChangeSame
    <2>5. x = t => dl'[x].stage = e.stage
        BY <2>1, <2>3, ChangeSame
    <2> QED BY <2>1, <2>3, <2>4, <2>5 DEF SameStage, d
<1>7. CASE Store(t, f) \/ Complete(t, f) \/ Lose(t, f)
    BY <1>7 DEF Store, Complete, Lose
<1> QED BY <1>4, <1>5, <1>6, <1>7 DEF Session

(* The observer's registration leaves every stage and every list.          *)
LEMMA ObserveSame ==
    ASSUME IInv, Observe, NEW x \in Task
    PROVE  SameStage(dl[x], dl'[x])
<1>1. dl \in [Task -> DL] /\ task \in Task \cup {NoTask}
    BY DEF IInv, Types, Sound
<1>2. CASE Unprepared
    BY <1>2 DEF Observe, SameStage
<1>3. CASE ~Unprepared
    <2> DEFINE d == dl[task]
               e == [d EXCEPT !.observed = TRUE]
               D == [dl EXCEPT ![task] = e]
    <2>1. task \in Task /\ dl' = Copied(task, D)
        BY <1>1, <1>3 DEF Observe, Unprepared
    <2>2. d \in DL
        BY <1>1, <2>1
    <2>3. e \in DL /\ SameStage(d, e)
        <3> HIDE DEF d
        <3> QED BY <2>2 DEF DL, SameStage
    <2> HIDE DEF e
    <2>4. D \in [Task -> DL]
        BY <1>1, <2>1, <2>3
    <2>5. SameStage(dl[x], D[x])
        <3>1. CASE x = task
            BY <1>1, <2>1, <2>3, <3>1
        <3>2. CASE x # task
            BY <1>1, <2>1, <3>2 DEF SameStage
        <3> QED BY <3>1, <3>2
    <2> HIDE DEF D
    <2>6. SameButText(D[x], dl'[x])
        BY <1>1, <2>1, <2>4, CopiedSame
    <2> QED BY <2>5, <2>6 DEF SameButText, SameStage
<1> QED BY <1>2, <1>3

-----------------------------------------------------------------------------
(* Nothing has begun.                                                      *)
LEMMA InvInit == Init => IInv
<1> SUFFICES ASSUME Init PROVE IInv
    OBVIOUS
<1>1. /\ main = <<>> /\ net \in [Task -> [File -> Net]] /\ task = NoTask
      /\ \A t \in Task : dl[t] = Fresh /\ \A f \in File : net[t][f] = "none"
    BY DEF Init, Net
<1>2. Fresh \in DL /\ Fresh.stage = "new" /\ Fresh.fileList = {} /\ Fresh.lengthless = {}
    BY DEF Fresh, DL, StageName
<1>3. dl \in [Task -> DL]
    BY <1>2 DEF Init
<1>4. main \in Seq(Blocks) /\ OneEach(main) /\ Listed(main, dl)
    BY <1>1 DEF OneEach, Listed
<1>5. ASSUME NEW t \in Task PROVE TaskInv(dl[t], net[t], Pending(main, t))
    <2> DEFINE n == net[t]
    <2>1. Pending(main, t) = {}
        BY <1>1 DEF Pending
    <2>2. \A f \in File : n[f] = "none"
        BY <1>1
    <2>3. \A g \in Libs \cup Assets \cup {Meta, Index} : g \in File
        BY DEF File
    <2> HIDE DEF n
    <2>4. Stages(Fresh, n, {})
        BY <1>2, <2>2, <2>3 DEF Stages
    <2>5. Lists(Fresh, n)
        BY <1>2, <2>2 DEF Lists
    <2>6. Counts(Fresh, n, {})
        BY <1>2 DEF Counts
    <2> QED BY <1>1, <2>1, <2>4, <2>5, <2>6 DEF TaskInv, n
<1>6. Sound(dl, net, main)
    BY <1>1, <1>3, <1>4, <1>5 DEF Sound
<1>7. Types /\ Unstarted
    BY <1>1, <1>2 DEF Types, Unstarted, Init
<1> QED BY <1>6, <1>7 DEF IInv

(* What each step does to the disk, to self.task and to the workers.       *)
LEMMA TypesStep == IInv /\ [Next]_vars => Types'
<1> SUFFICES ASSUME IInv, [Next]_vars PROVE Types'
    OBVIOUS
<1>1. /\ disk \in [File -> {"bad", "good"}] /\ task \in Task \cup {NoTask}
      /\ worker \in [Task -> {"none", "start", "over"}]
    BY DEF IInv, Types
<1>2. CASE LaunchMinecraft
    BY <1>1, <1>2 DEF LaunchMinecraft, Types
<1>3. CASE MainQueue
    BY <1>1, <1>3 DEF MainQueue, Observe, HandleError, Completed, Finish, Types
<1>4. ASSUME NEW t \in Task, DownloadVersion(t) PROVE Types'
    BY <1>1, <1>4 DEF DownloadVersion, Types
<1>5. ASSUME NEW t \in Task, NEW f \in File, Session(t, f) PROVE Types'
    <2>1. UNCHANGED <<task, worker>>
        BY <1>5 DEF Session, Receive, AddChild, AddTotal, Store, Complete, Lose
    <2>2. CASE Store(t, f)
        <3>1. disk' \in [File -> {"bad", "good"}]
            BY <1>1, <2>2 DEF Store
        <3> QED BY <1>1, <2>1, <3>1 DEF Types
    <2>3. CASE ~Store(t, f)
        BY <1>1, <1>5, <2>1, <2>3 DEF Session, Receive, AddChild, AddTotal, Complete, Lose, Types
    <2> QED BY <2>2, <2>3
<1>6. CASE UNCHANGED vars
    BY <1>1, <1>6 DEF vars, Types
<1> QED BY <1>2, <1>3, <1>4, <1>5, <1>6 DEF Next

(* Only a worker prepares a task, and only once.                           *)
LEMMA UnstartedStep == IInv /\ [Next]_vars => Unstarted'
<1> SUFFICES ASSUME IInv, [Next]_vars, NEW x \in Task, worker'[x] # "over"
             PROVE  dl'[x].stage = "new"
    BY DEF Unstarted
<1>1. worker \in [Task -> {"none", "start", "over"}] /\ dl \in [Task -> DL]
    BY DEF IInv, Types, Sound
<1>2. ASSUME worker[x] # "over" PROVE dl[x].stage = "new"
    BY <1>2 DEF IInv, Unstarted
<1>3. CASE LaunchMinecraft
    <2>1. dl' = dl /\ worker[x] # "over"
        BY <1>1, <1>3 DEF LaunchMinecraft
    <2> QED BY <1>2, <2>1
<1>4. CASE HandleError \/ Finish \/ UNCHANGED vars
    BY <1>2, <1>4 DEF HandleError, Finish, vars
<1>5. CASE Observe
    <2>1. worker' = worker /\ SameStage(dl[x], dl'[x])
        BY <1>5, ObserveSame DEF Observe
    <2> QED BY <1>2, <2>1 DEF SameStage
<1>6. CASE Completed
    <2>1. worker' = worker /\ dl[x].stage = "new"
        BY <1>2, <1>6 DEF Completed
    <2>2. SameStage(dl[x], dl'[x])
        BY <1>6, <2>1, CompletedSound
    <2> QED BY <2>1, <2>2 DEF SameStage
<1>7. ASSUME NEW t \in Task, DownloadVersion(t) PROVE dl'[x].stage = "new"
    <2>1. x # t /\ worker'[x] = worker[x]
        BY <1>1, <1>7 DEF DownloadVersion
    <2>2. dl'[x] = dl[x]
        BY <1>1, <1>7, <2>1 DEF DownloadVersion
    <2> QED BY <1>2, <2>1, <2>2
<1>8. ASSUME NEW t \in Task, NEW f \in File, Session(t, f) PROVE dl'[x].stage = "new"
    <2>1. worker' = worker
        BY <1>8 DEF Session, Receive, AddChild, AddTotal, Store, Complete, Lose
    <2>2. dl'[x].stage = dl[x].stage
        BY <1>8, SessionSame
    <2> QED BY <1>2, <2>1, <2>2
<1> QED BY <1>3, <1>4, <1>5, <1>6, <1>7, <1>8 DEF Next, MainQueue

(* Every step leaves the tasks sound.                                      *)
LEMMA SoundStep == IInv /\ [Next]_vars => Sound(dl, net, main)'
<1> SUFFICES ASSUME IInv, [Next]_vars PROVE Sound(dl, net, main)'
    OBVIOUS
<1>1. CASE LaunchMinecraft \/ UNCHANGED vars
    BY <1>1 DEF LaunchMinecraft, vars, IInv
<1>2. CASE MainQueue
    BY <1>2, ObserveSound, CompletedSound, EndSound DEF MainQueue
<1>3. ASSUME NEW t \in Task, DownloadVersion(t) PROVE Sound(dl, net, main)'
    BY <1>3, DownloadVersionSound
<1>4. ASSUME NEW t \in Task, NEW f \in File, Session(t, f) PROVE Sound(dl, net, main)'
    BY <1>4, SessionSound
<1> QED BY <1>1, <1>2, <1>3, <1>4 DEF Next

(* The invariant is inductive.                                             *)
LEMMA InvStep == IInv /\ [Next]_vars => IInv'
BY TypesStep, UnstartedStep, SoundStep DEF IInv

(* A download is what its stage says: which files are on their way, which  *)
(* are in the list, and how far its two progress objects are.              *)
THEOREM InvCorrect == Spec => []IInv
BY InvInit, InvStep, PTL DEF Spec

(* The counters are bounded by the number of files.                        *)
LEMMA Bounds ==
    ASSUME NEW d \in DL, NEW n, NEW p, TaskInv(d, n, p)
    PROVE  /\ d.total \in 0 .. Cardinality(File) + 1
           /\ d.completed \in 0 .. Cardinality(File) + 1
           /\ d.textTotal \in -2 .. Cardinality(File) + 1
           /\ d.textCompleted \in 0 .. Cardinality(File) + 1
<1> DEFINE all == Cardinality(File)
           list == Cardinality(d.fileList)
           settled == Cardinality(Settled(d, n, p))
<1>1. /\ all \in Nat /\ list \in Nat /\ settled \in Nat /\ list <= all /\ settled <= all
    <2>1. d.fileList \in SUBSET File /\ Settled(d, n, p) \in SUBSET File
        BY DEF DL, Settled
    <2> QED BY <2>1, Numbers
<1>2. /\ d.total \in Int /\ d.completed \in Int /\ d.textTotal \in Int
      /\ d.textCompleted \in Int
    BY DEF DL
<1>3. CASE d.stage = "new"
    <2>1. d.total = 0 /\ d.completed = 0 /\ d.textTotal = 0 /\ d.textCompleted = 0
        BY <1>3 DEF TaskInv, Stages, Fresh
    <2> HIDE DEF all
    <2> QED BY <1>1, <2>1 DEF all
<1>4. CASE d.stage = "nothing"
    <2>1. d.total = 1 /\ d.completed = 1 /\ d.textTotal = 1 /\ d.textCompleted = 1
        BY <1>4 DEF TaskInv, Counts
    <2> QED BY <1>1, <2>1
<1>5. CASE d.stage \notin {"new", "nothing"}
    <2>1. /\ d.total = list + FirstByte(d) /\ FirstByte(d) \in {0, 1}
          /\ 0 <= d.textCompleted /\ d.textCompleted <= d.completed /\ d.completed <= settled
          /\ d.textTotal \in {-1, d.total}
        BY <1>5 DEF TaskInv, Counts, FirstByte
    <2> HIDE DEF all, list, settled
    <2>2. /\ d.total \in 0 .. all + 1 /\ d.completed \in 0 .. all + 1
          /\ d.textTotal \in -2 .. all + 1 /\ d.textCompleted \in 0 .. all + 1
        BY <1>1, <1>2, <2>1
    <2> QED BY <2>2 DEF all
<1> QED BY <1>3, <1>4, <1>5

(* Every variable has its type, and the units of a progress are those of   *)
(* the files and the first byte.                                           *)
THEOREM TypeCorrect == Spec => []TypeOK
<1>1. IInv => TypeOK
    <2> SUFFICES ASSUME IInv PROVE TypeOK
        OBVIOUS
    <2>1. /\ disk \in [File -> {"bad", "good"}] /\ task \in Task \cup {NoTask}
          /\ worker \in [Task -> {"none", "start", "over"}]
          /\ dl \in [Task -> DL] /\ net \in [Task -> [File -> Net]]
          /\ main \in Seq(Blocks)
        BY DEF IInv, Types, Sound
    <2> DEFINE range == 0 .. Cardinality(File) + 1
               text == -2 .. Cardinality(File) + 1
               rec == [stage : {"new", "prepared", "meta", "index", "files", "nothing"},
                       cancelled : BOOLEAN, observed : BOOLEAN, metadata : BOOLEAN,
                       total : range, completed : range, textTotal : text,
                       textCompleted : range,
                       fileList : SUBSET File, lengthless : SUBSET File]
    <2>2. ASSUME NEW t \in Task PROVE dl[t] \in rec
        <3> DEFINE d == dl[t]
                   n == net[t]
                   p == Pending(main, t)
        <3>1. d \in DL /\ TaskInv(d, n, p)
            BY <2>1 DEF IInv, Sound
        <3> HIDE DEF d, n, p
        <3>2. /\ d.total \in range /\ d.completed \in range /\ d.textTotal \in text
              /\ d.textCompleted \in range
            BY <3>1, Bounds
        <3> HIDE DEF range, text
        <3>3. d \in rec
            BY <3>1, <3>2 DEF DL, StageName
        <3> QED BY <3>3 DEF d
    <2>3. dl \in [Task -> rec]
        <3> HIDE DEF rec
        <3> QED BY <2>1, <2>2
    <2>4. ASSUME NEW i \in DOMAIN main
          PROVE  \/ main[i] \in [kind : {"observe", "error"}, task : {NoTask}]
                 \/ main[i] \in [kind : {"finish"}, task : Task]
                 \/ main[i] \in [kind : {"completed"}, task : Task, file : File,
                                 error : BOOLEAN]
        <3>1. main[i] \in Blocks
            BY <2>1
        <3> QED BY <3>1 DEF Blocks, Handlers
    <2> HIDE DEF rec
    <2> QED BY <2>1, <2>3, <2>4 DEF TypeOK, Net, rec
<1> QED BY <1>1, InvCorrect, PTL

-----------------------------------------------------------------------------
(* When every library has a size, a file that was submitted is in the list *)
(* before it is on its way, and the list of its task remains.              *)
LEMMA SubmittedStep ==
    ASSUME Unsized = {}, IInv, [Next]_vars, NEW x \in Task,
           dl[x].stage \in {"files", "nothing"}
    PROVE  /\ SameStage(dl[x], dl'[x])
           /\ \A f \in File :
                 net[x][f] \notin {"none", "flying"} => net'[x][f] \notin {"none", "flying"}
<1>1. dl \in [Task -> DL] /\ net \in [Task -> [File -> Net]]
    BY DEF IInv, Sound
<1>2. CASE LaunchMinecraft \/ HandleError \/ Finish \/ UNCHANGED vars
    BY <1>2 DEF LaunchMinecraft, HandleError, Finish, vars, SameStage
<1>3. CASE Observe
    BY <1>3, ObserveSame DEF Observe
<1>4. CASE Completed
    BY <1>4, CompletedSound
<1>5. ASSUME NEW t \in Task, DownloadVersion(t)
      PROVE  dl'[x] = dl[x] /\ net'[x] = net[x]
    <2>1. x # t
        BY <1>5 DEF DownloadVersion, IInv, Unstarted
    <2> QED BY <1>1, <1>5, <2>1 DEF DownloadVersion
<1>6. ASSUME NEW t \in Task, NEW f \in File, Session(t, f)
      PROVE  /\ SameStage(dl[x], dl'[x])
             /\ \A g \in File :
                   net[x][g] \notin {"none", "flying"} => net'[x][g] \notin {"none", "flying"}
    <2>1. x = t => net[t][f] # "child"
        <3> SUFFICES ASSUME x = t, net[t][f] = "child" PROVE FALSE
            OBVIOUS
        <3>1. TaskInv(dl[t], net[t], Pending(main, t))
            BY TaskFacts
        <3>2. f \notin Sized
            BY <3>1 DEF TaskInv, Lists
        <3>3. f = Meta
            BY <3>2 DEF Sized
        <3> QED BY <3>1, <3>3 DEF TaskInv, Stages
    <2>2. SameStage(dl[x], dl'[x])
        BY <1>6, <2>1, SessionSame DEF SameStage
    <2>3. PICK v \in {"received", "child", "counted", "bad", "good", "over"} :
                net' = [net EXCEPT ![t][f] = v]
        BY <1>6 DEF Session, Receive, AddChild, AddTotal, Store, Complete, Lose
    <2>4. ASSUME NEW g \in File, net[x][g] \notin {"none", "flying"}
          PROVE  net'[x][g] \notin {"none", "flying"}
        <3>1. CASE x = t /\ g = f
            BY <1>1, <2>3, <3>1
        <3>2. CASE ~(x = t /\ g = f)
            BY <1>1, <2>3, <2>4, <3>2
        <3> QED BY <3>1, <3>2
    <2> QED BY <2>2, <2>4
<1> QED BY <1>2, <1>3, <1>4, <1>5, <1>6 DEF Next, MainQueue, SameStage

(* Until the files are submitted the first byte keeps a progress from      *)
(* completing; afterwards it is complete when its whole list is.           *)
LEMMA FinishedFacts ==
    ASSUME Unsized = {}, NEW d \in DL, NEW n \in [File -> Net], NEW p \in SUBSET File,
           TaskInv(d, n, p), Finished(d)
    PROVE  /\ d.stage \in {"files", "nothing"}
           /\ \A f \in d.fileList : n[f] \notin {"none", "flying"}
<1> DEFINE list == Cardinality(d.fileList)
           done == Settled(d, n, p)
           settled == Cardinality(done)
<1>1. d.stage # "new"
    BY DEF Finished, TaskInv, Stages, Fresh
<1>2. CASE d.stage = "nothing"
    BY <1>2 DEF TaskInv, Counts
<1>3. CASE d.stage # "nothing"
    <2>1. /\ d.total = list + FirstByte(d) /\ d.textCompleted <= d.completed
          /\ d.completed <= settled
          /\ d.textTotal = IF d.fileList = {} THEN -1 ELSE d.total
        BY <1>1, <1>3 DEF TaskInv, Counts
    <2>2. /\ d.textTotal > 0 /\ d.textCompleted >= d.textTotal
          /\ d.total \in Int /\ d.textCompleted \in Int /\ d.completed \in Int
        BY DEF Finished, DL
    <2>3. d.fileList \in SUBSET File /\ done \in SUBSET File
        BY DEF DL, Settled
    <2>4. list \in Nat /\ settled \in Nat
        BY <2>3, Numbers
    <2> HIDE DEF list, settled
    <2>5. d.fileList # {} /\ settled >= list + FirstByte(d)
        <3>1. d.fileList # {}
            BY <2>1, <2>2
        <3>2. d.textTotal = list + FirstByte(d)
            BY <2>1, <3>1
        <3>3. FirstByte(d) \in {0, 1}
            BY DEF FirstByte
        <3> QED BY <2>1, <2>2, <2>4, <3>1, <3>2, <3>3
    <2>6. done \subseteq d.fileList
        <3> SUFFICES ASSUME NEW f \in File, Settles(d, n, p, f) PROVE f \in d.fileList
            BY DEF Settled
        <3>1. n[f] # "none" /\ n[f] # "flying"
            BY DEF Settles
        <3>2. CASE f \in Sized
            BY <3>1, <3>2 DEF TaskInv, Lists
        <3>3. CASE f \notin Sized
            <4>1. f = Meta
                BY <3>3 DEF Sized
            <4>2. CASE d.stage # "meta"
                BY <3>1, <4>1, <4>2 DEF TaskInv, Stages
            <4>3. CASE d.stage = "meta"
                <5>1. PICK g \in d.fileList : TRUE
                    BY <2>5
                <5>2. n[g] # "none" /\ g \in File
                    BY <2>3 DEF TaskInv, Lists
                <5>3. g = Meta
                    BY <4>3, <5>2 DEF TaskInv, Stages, File
                <5> QED BY <4>1, <5>1, <5>3
            <4> QED BY <4>2, <4>3
        <3> QED BY <3>2, <3>3
    <2> HIDE DEF done
    <2>7. settled <= list /\ (settled = list => done = d.fileList)
        BY <2>3, <2>6, Parts DEF settled, list
    <2>8. FirstByte(d) = 0 /\ settled = list
        <3>1. FirstByte(d) \in {0, 1}
            BY DEF FirstByte
        <3> QED BY <2>4, <2>5, <2>7, <3>1
    <2>9. d.stage = "files"
        BY <1>1, <1>3, <2>8 DEF FirstByte, DL, StageName
    <2>10. \A f \in d.fileList : Settles(d, n, p, f)
        BY <2>7, <2>8 DEF done, Settled
    <2>11. \A f \in d.fileList : n[f] \notin {"none", "flying"}
        BY <2>10 DEF Settles
    <2> QED BY <2>9, <2>11
<1> QED BY <1>2, <1>3

(* The game is not started at first.                                       *)
LEMMA LaunchInit == Init => LaunchInv
BY DEF Init, NoLaunch, LaunchInv

(* It is started by a complete progress, whose list then remains.          *)
LEMMA LaunchStep == Unsized = {} /\ IInv /\ LaunchInv /\ [Next]_vars => LaunchInv'
<1> SUFFICES ASSUME Unsized = {}, IInv, LaunchInv, [Next]_vars,
                    launched'.task # NoTask, launched'.by = launched'.task
             PROVE  /\ launched'.task \in Task
                    /\ dl'[launched'.task].stage \in {"files", "nothing"}
                    /\ \A f \in dl'[launched'.task].fileList :
                          net'[launched'.task][f] \notin {"none", "flying"}
    BY DEF LaunchInv, LaunchedWhenReceived
<1> DEFINE x == launched'.task
<1>1. CASE launched' = launched
    <2>1. /\ x \in Task /\ dl[x].stage \in {"files", "nothing"}
          /\ \A f \in dl[x].fileList : net[x][f] \notin {"none", "flying"}
        BY <1>1 DEF LaunchInv, LaunchedWhenReceived
    <2>2. /\ SameStage(dl[x], dl'[x])
          /\ \A f \in File :
                net[x][f] \notin {"none", "flying"} => net'[x][f] \notin {"none", "flying"}
        <3> HIDE DEF x
        <3> QED BY <2>1, SubmittedStep
    <2>3. dl[x].fileList \subseteq File
        BY <2>1 DEF IInv, Sound, DL
    <2> QED BY <2>1, <2>2, <2>3 DEF SameStage
<1>2. CASE launched' # launched
    <2>1. Finish
        <3>1. LaunchMinecraft \/ Observe \/ HandleError \/ Completed \/ UNCHANGED vars
                  => launched' = launched
            BY DEF LaunchMinecraft, Observe, HandleError, Completed, vars
        <3>2. \A t \in Task : DownloadVersion(t) => launched' = launched
            BY DEF DownloadVersion
        <3>3. ASSUME NEW t \in Task, NEW f \in File, Session(t, f)
              PROVE  launched' = launched
            <4>1. CASE Receive(t, f) \/ AddChild(t, f) \/ AddTotal(t, f)
                BY <4>1 DEF Receive, AddChild, AddTotal
            <4>2. CASE Store(t, f) \/ Complete(t, f) \/ Lose(t, f)
                BY <4>2 DEF Store, Complete, Lose
            <4> QED BY <3>3, <4>1, <4>2 DEF Session
        <3>4. LaunchMinecraft \/ Observe \/ HandleError \/ Completed \/ Finish
              \/ (\E t \in Task : DownloadVersion(t) \/ \E f \in File : Session(t, f))
              \/ UNCHANGED vars
            BY DEF Next, MainQueue
        <3> QED BY <1>2, <3>1, <3>2, <3>3, <3>4
    <2>2. /\ Finished(dl[Head(main).task]) /\ task # NoTask
          /\ launched' = [task |-> task, by |-> Head(main).task, times |-> launched.times + 1]
          /\ dl' = dl /\ net' = net
        BY <1>2, <2>1 DEF Finish
    <2>3. x = task /\ x = Head(main).task /\ x \in Task
        BY <2>2 DEF IInv, Types
    <2>4. /\ dl[x] \in DL /\ net[x] \in [File -> Net] /\ Pending(main, x) \in SUBSET File
          /\ TaskInv(dl[x], net[x], Pending(main, x)) /\ Finished(dl[x])
        <3> HIDE DEF x
        <3> QED BY <2>2, <2>3, TaskFacts
    <2> DEFINE d == dl[x]
               n == net[x]
               p == Pending(main, x)
    <2>5. d.stage \in {"files", "nothing"} /\ \A f \in d.fileList : n[f] \notin {"none", "flying"}
        <3>1. /\ d \in DL /\ n \in [File -> Net] /\ p \in SUBSET File /\ TaskInv(d, n, p)
              /\ Finished(d)
            BY <2>4
        <3> HIDE DEF d, n, p
        <3> QED BY <3>1, FinishedFacts
    <2> QED BY <2>2, <2>3, <2>5
<1> QED BY <1>1, <1>2

(* When every library has a size, a download whose own progress starts the *)
(* game has received every file it counted.                                *)
THEOREM LaunchedWhenReceivedCorrect == Unsized = {} => (Spec => []LaunchedWhenReceived)
<1> SUFFICES ASSUME Unsized = {} PROVE Spec => []LaunchedWhenReceived
    OBVIOUS
<1>1. IInv /\ LaunchInv /\ [Next]_vars => LaunchInv'
    BY LaunchStep
<1>2. LaunchInv => LaunchedWhenReceived
    BY DEF LaunchInv, LaunchedWhenReceived
<1> QED BY <1>1, <1>2, InvInit, InvStep, LaunchInit, PTL DEF Spec
=============================================================================
