-------------------------- MODULE SDLBridgeProofs --------------------------
(***************************************************************************)
(* Proofs about SDLBridge, for any number of threads, windows and contexts *)
(* and any bound: the types, that no window is destroyed under a thread    *)
(* that holds it, that views and surfaces go before their window, and that *)
(* what a thread believes to be current is bound.                          *)
(***************************************************************************)
EXTENDS SDLBridge, FiniteSetTheorems, SequenceTheorems, TLAPS

USE SDLAssumption

-----------------------------------------------------------------------------
(* The inductive invariant.                                                *)

(* The places of the code of SDL3GLContext that hold its lock.             *)
Locked == {"leaving", "viewing", "windowed", "dropping"}

(* Where a thread waits for the answer to a block.                         *)
Waits(fn) ==
    CASE fn = "create" -> {"creating"}
      [] fn = "createView" -> {"viewing"}
      [] fn = "destroyView" -> {"leaving", "dropping"}
      [] OTHER -> {"destroying"}

(* A block that somebody waits for is the only one of its thread and is    *)
(* what the thread is waiting for; nobody gives up on a creation.          *)
QueueInv ==
    \A i \in DOMAIN tasks :
        /\ tasks[i].by # None =>
              /\ pc[tasks[i].by].answer = "pending"
              /\ pc[tasks[i].by].at \in Waits(tasks[i].fn)
              /\ tasks[i].fn # "create" => pc[tasks[i].by].window = tasks[i].window
              /\ \A j \in DOMAIN tasks : tasks[j].by = tasks[i].by => i = j
        /\ tasks[i].fn = "create" => tasks[i].by # None
        /\ tasks[i].fn # "create" => tasks[i].window \in Window

(* The holds the game has on a window, numbered.                           *)
Holds(w) == {h \in Thread \X (1..MaxUse) : h[2] <= uses[h[1]][w]}

(* The bridge counts them.                                                 *)
CountInv == \A w \in Window : live[w] = Cardinality(Holds(w))

(* Thread t has got window w from the main thread, and not entered it yet. *)
Makes(t, w) == pc[t].at = "creating" /\ pc[t].answer = "yes" /\ pc[t].window = w

(* Thread t is destroying window w and has not queued the destruction.     *)
Leaves(t, w) == pc[t].at \in {"gone", "leaving", "arm"} /\ pc[t].window = w

(* Block i destroys window w.                                              *)
Destroys(i, w) == i \in DOMAIN tasks /\ tasks[i].fn = "destroy" /\ tasks[i].window = w

(* A window is being entered, used or destroyed, one after the other and   *)
(* by one thread or block at a time.                                       *)
Life(w) ==
    /\ live[w] > 0 => w \in exists
    /\ \A t \in Thread : Makes(t, w) => w \in exists /\ live[w] = 0
    /\ \A t \in Thread : Leaves(t, w) => w \in exists /\ live[w] = 0
    /\ \A i \in DOMAIN tasks : Destroys(i, w) => w \in exists /\ live[w] = 0
    /\ \A t, u \in Thread : Makes(t, w) /\ Makes(u, w) => t = u
    /\ \A t, u \in Thread : Leaves(t, w) /\ Leaves(u, w) => t = u
    /\ \A i, j \in DOMAIN tasks : Destroys(i, w) /\ Destroys(j, w) => i = j
    /\ \A t, u \in Thread : ~(Makes(t, w) /\ Leaves(u, w))
    /\ \A t \in Thread, i \in DOMAIN tasks :
          ~(Destroys(i, w) /\ (Makes(t, w) \/ Leaves(t, w)))

LifeInv == \A w \in Window : Life(w)

(* A thread works on a window it has, and the record of its surface fits   *)
(* the place; one that the main thread made a window for has got it.       *)
Placed(t) ==
    LET at == pc[t].at
        w == pc[t].window
    IN  /\ at = "creating" => (pc[t].answer = "yes" <=> w # None)
        /\ at \in {"gone", "arm", "destroying"} \cup Locked => w \in Window
        /\ at \in {"viewing", "windowed"} => uses[t][w] > 0
        /\ at = "viewing" => windows[w] = "none"
        /\ at = "windowed" => windows[w] # "none"
        /\ at \in {"leaving", "dropping"} => windows[w] # "surface"
        /\ at = "arm" => windows[w] = "none"

(* A window that is about to be destroyed has no view recorded.            *)
PlaceInv ==
    /\ \A t \in Thread : Placed(t)
    /\ \A w \in Window : (\E i \in DOMAIN tasks : Destroys(i, w)) => windows[w] = "none"

(* A bound surface is a recorded one.                                      *)
SurfaceInv ==
    \A t \in Thread : bound[t].surface \in Window => windows[bound[t].surface] = "surface"

(* Block i takes the view of w away.                                       *)
Unviews(i, w) == i \in DOMAIN tasks /\ tasks[i].fn = "destroyView" /\ tasks[i].window = w

(* A view that the bridge was given is recorded, or on its way to be, or a *)
(* block that takes it away is queued, before any that destroys the window.*)
ViewInv ==
    \A w \in views :
        /\ \/ windows[w] # "none"
           \/ \E t \in Thread : pc[t].at = "viewing" /\ pc[t].window = w /\ pc[t].answer = "yes"
           \/ \E i \in DOMAIN tasks : Unviews(i, w)
        /\ \A t \in Thread : pc[t].at \in {"leaving", "dropping"} /\ pc[t].window = w =>
              \E i \in DOMAIN tasks : Unviews(i, w)
        /\ \A j \in DOMAIN tasks : Destroys(j, w) =>
              \E i \in DOMAIN tasks : i < j /\ Unviews(i, w)

(* A context that is current anywhere exists. Until the first window goes, *)
(* one that is current on its own window is bound to it, unless the window *)
(* is just being destroyed.                                                *)
Believed(t) ==
    LET w == current[t].window
        c == current[t].context
    IN  /\ w # None => c # None
        /\ c # None => contexts[c] # None
        /\ w # None /\ contexts[c] = w /\ watchdog = "off"
           /\ (\A u \in Thread : pc[u].at \in {"leaving", "arm"} => pc[u].window # w)
           => bound[t] = [surface |-> w, context |-> c] /\ windows[w] = "surface"

(* A thread that has queued a destruction has armed the watchdog; an ended *)
(* process does nothing.                                                   *)
WatchdogInv ==
    /\ watchdog = "off" => \A i \in DOMAIN tasks : tasks[i].fn # "destroy"
    /\ watchdog = "exited" => tasks = <<>> /\ \A t \in Thread : pc[t].at = "idle"

IInv ==
    /\ TypeOK /\ QueueInv /\ CountInv /\ LifeInv /\ PlaceInv /\ SurfaceInv /\ WatchdogInv
    /\ watchdog # "exited" => ViewInv
    /\ \A t \in Thread : Believed(t)

-----------------------------------------------------------------------------
(* What a step does to the queue and to the places of the threads.         *)

(* The queue and the places keep their types, and whoever waits for an     *)
(* answer waits for one block, that is in the queue.                       *)
QueueOK ==
    /\ tasks \in Seq(Task) /\ pc \in [Thread -> Step]
    /\ \A t \in Thread : pc[t].answer = "pending" <=> \E i \in DOMAIN tasks : tasks[i].by = t
    /\ QueueInv

(* Only the place of thread t changes.                                     *)
Others(t) == \A u \in Thread \ {t} : pc'[u] = pc[u]

(* The types that are not about the queue or the lock.                     *)
DataOK ==
    /\ exists \subseteq Window /\ views \subseteq Window
    /\ live \in [Window -> 0..(MaxUse * Cardinality(Thread))]
    /\ uses \in [Thread -> [Window -> 0..MaxUse]]
    /\ windows \in [Window -> {"none", "view", "surface"}]
    /\ contexts \in [Context -> Window \cup {None}]
    /\ current \in [Thread -> [window : Window \cup {None}, context : Context \cup {None}]]
    /\ bound \in [Thread -> [surface : Window \cup {None, Freed},
                             context : Context \cup {None}]]
    /\ watchdog \in {"off", "armed", "exited"}

(* The lock is held in the places that hold it.                            *)
LockOK ==
    /\ lock \in Thread \cup {None}
    /\ \A t \in Thread : lock = t <=> pc[t].at \in Locked

(* The three are the type invariant.                                       *)
LEMMA TypeParts == TypeOK /\ QueueInv <=> DataOK /\ LockOK /\ QueueOK
BY DEF TypeOK, DataOK, LockOK, QueueOK, Locked

(* The queue holds blocks.                                                 *)
LEMMA Blocks ==
    ASSUME tasks \in Seq(Task)
    PROVE /\ Len(tasks) \in Nat /\ DOMAIN tasks = 1..Len(tasks)
          /\ \A i \in DOMAIN tasks :
                /\ tasks[i] \in Task
                /\ tasks[i].by \in Thread \cup {None} /\ tasks[i].window \in Window \cup {None}
<1>1. Len(tasks) \in Nat /\ DOMAIN tasks = 1..Len(tasks)
    OBVIOUS
<1>2. \A i \in DOMAIN tasks : tasks[i] \in Task
    OBVIOUS
<1> QED BY <1>1, <1>2 DEF Task

(* A thread waits only where it can be answered.                           *)
LEMMA Waiting ==
    ASSUME QueueOK, NEW t \in Thread, pc[t].answer = "pending"
    PROVE pc[t].at \in {"creating", "viewing", "leaving", "dropping", "destroying"}
<1>1. PICK i \in DOMAIN tasks : tasks[i].by = t
    BY DEF QueueOK
<1>2. pc[t].at \in Waits(tasks[i].fn)
    BY <1>1 DEF QueueOK, QueueInv
<1> QED BY <1>2 DEF Waits

(* A thread goes from one place to another where it does not wait.         *)
LEMMA Moved ==
    ASSUME QueueOK, NEW t \in Thread, pc[t].answer # "pending",
           NEW s \in Step, s.answer # "pending",
           pc' = [pc EXCEPT ![t] = s], tasks' = tasks
    PROVE QueueOK' /\ Others(t) /\ pc'[t] = s
<1>1. pc' \in [Thread -> Step] /\ Others(t) /\ pc'[t] = s
    BY DEF QueueOK, Others
<1>2. \A i \in DOMAIN tasks : tasks[i].by # t
    BY DEF QueueOK
<1>3. \A i \in DOMAIN tasks : tasks[i].by # None => tasks[i].by \in Thread \ {t}
    BY <1>2, Blocks DEF QueueOK
<1>4. QueueInv'
    BY <1>1, <1>3 DEF QueueOK, QueueInv, Others
<1> QED BY <1>1, <1>2, <1>4 DEF QueueOK, Others

(* A call adds a block to the end of the queue and waits for it.           *)
Queues(t, at, fn, w, c) ==
    /\ tasks' = Append(tasks, [by |-> t, fn |-> fn, window |-> w])
    /\ pc' = [pc EXCEPT ![t] = [at |-> at, window |-> w, context |-> c, answer |-> "pending"]]

(* The block is the last one, and the thread is where it said.             *)
LEMMA Called ==
    ASSUME QueueOK, NEW t \in Thread, pc[t].answer # "pending",
           NEW at, NEW fn, NEW w, NEW c \in Context \cup {None},
           Queues(t, at, fn, w, c),
           at \in Waits(fn), fn \in {"create", "createView", "destroyView", "destroy"},
           (fn = "create" /\ w = None) \/ w \in Window
    PROVE /\ QueueOK' /\ Others(t)
          /\ pc'[t].at = at /\ pc'[t].window = w /\ pc'[t].context = c
          /\ pc'[t].answer = "pending"
          /\ DOMAIN tasks' = DOMAIN tasks \cup {Len(tasks) + 1}
          /\ \A i \in DOMAIN tasks : tasks'[i] = tasks[i] /\ i < Len(tasks) + 1
          /\ tasks'[Len(tasks) + 1].fn = fn /\ tasks'[Len(tasks) + 1].window = w
<1> DEFINE n == Len(tasks) + 1
           task == [by |-> t, fn |-> fn, window |-> w]
           s == [at |-> at, window |-> w, context |-> c, answer |-> "pending"]
<1>1. tasks \in Seq(Task) /\ pc \in [Thread -> Step]
    BY DEF QueueOK
<1>2. at \in {"creating", "viewing", "leaving", "dropping", "destroying"}
    BY DEF Waits
<1>3. task \in Task /\ s \in Step
    BY <1>1, <1>2 DEF Task, Step
<1>4. pc' = [pc EXCEPT ![t] = s] /\ tasks' = Append(tasks, task)
    BY DEF Queues
<1> HIDE DEF task, s
<1>5. pc' \in [Thread -> Step] /\ Others(t) /\ pc'[t] = s
    BY <1>1, <1>3, <1>4 DEF Others
<1>6. /\ tasks' \in Seq(Task)
      /\ DOMAIN tasks' = DOMAIN tasks \cup {n}
      /\ \A i \in DOMAIN tasks : tasks'[i] = tasks[i] /\ i < n
      /\ tasks'[n] = task
    BY <1>1, <1>3, <1>4
<1>7. \A i \in DOMAIN tasks : tasks[i].by # t
    BY DEF QueueOK
<1>8. \A i \in DOMAIN tasks : tasks[i].by # None => tasks[i].by \in Thread \ {t}
    BY <1>1, <1>7, Blocks
<1> HIDE DEF n
<1>9. ASSUME NEW u \in Thread
      PROVE pc'[u].answer = "pending" <=> \E i \in DOMAIN tasks' : tasks'[i].by = u
    <2>1. CASE u = t
        BY <1>5, <1>6, <2>1 DEF s, task
    <2>2. CASE u # t
        BY <1>5, <1>6, <2>2 DEF QueueOK, task, Others
    <2> QED BY <2>1, <2>2
<1>10. QueueInv'
    <2>1. \A i \in DOMAIN tasks' : i \in DOMAIN tasks \/ i = n
        BY <1>6
    <2>2. task.by = t /\ task.fn = fn /\ task.window = w /\ t # None
          /\ s.at = at /\ s.window = w /\ s.answer = "pending"
        BY DEF task, s
    <2> QED BY <1>5, <1>6, <1>7, <1>8, <2>1, <2>2 DEF QueueOK, QueueInv, Others
<1> QED BY <1>5, <1>6, <1>9, <1>10 DEF QueueOK, n, task, s

(* Giving up leaves the block in the queue, with nobody waiting for it.    *)
LEMMA GaveUp ==
    ASSUME QueueOK, NEW t \in Thread, GiveUp(t)
    PROVE /\ QueueOK' /\ Others(t)
          /\ pc'[t] = [at |-> pc[t].at, window |-> pc[t].window, context |-> pc[t].context,
                       answer |-> "no"]
          /\ DOMAIN tasks' = DOMAIN tasks
          /\ \A i \in DOMAIN tasks :
                tasks'[i].fn = tasks[i].fn /\ tasks'[i].window = tasks[i].window
<1> DEFINE s == [at |-> pc[t].at, window |-> pc[t].window, context |-> pc[t].context,
                 answer |-> "no"]
<1>1. tasks \in Seq(Task) /\ pc \in [Thread -> Step]
    BY DEF QueueOK
<1>2. s \in Step /\ pc' = [pc EXCEPT ![t] = s]
    BY <1>1 DEF GiveUp, Step
<1> HIDE DEF s
<1>3. pc' \in [Thread -> Step] /\ Others(t) /\ pc'[t] = s
    BY <1>1, <1>2 DEF Others
<1>4. tasks' = [i \in DOMAIN tasks |->
                   IF tasks[i].by = t THEN Unawaited(tasks[i]) ELSE tasks[i]]
    BY DEF GiveUp
<1>5. DOMAIN tasks' = DOMAIN tasks
    BY <1>4
<1>6. \A i \in DOMAIN tasks :
          /\ tasks'[i].fn = tasks[i].fn /\ tasks'[i].window = tasks[i].window
          /\ tasks[i].by = t => tasks'[i].by = None
          /\ tasks[i].by # t => tasks'[i].by = tasks[i].by
          /\ tasks'[i] \in Task
    BY <1>1, <1>4, Blocks DEF Unawaited, Task
<1>7. tasks' \in Seq(Task)
    <2>1. tasks' \in [1..Len(tasks) -> Task]
        BY <1>1, <1>4, <1>6, Blocks
    <2> QED BY <1>1, <2>1, Blocks, SeqDef
<1>8. \A i \in DOMAIN tasks : tasks[i].by = t => tasks[i].fn # "create"
    BY DEF QueueOK, QueueInv, Waits, GiveUp
<1>9. ASSUME NEW u \in Thread
      PROVE pc'[u].answer = "pending" <=> \E i \in DOMAIN tasks' : tasks'[i].by = u
    <2>1. CASE u = t
        BY <1>3, <1>5, <1>6, <2>1 DEF s
    <2>2. CASE u # t
        BY <1>3, <1>5, <1>6, <2>2 DEF QueueOK, Others
    <2> QED BY <2>1, <2>2
<1>10. QueueInv'
    <2>1. \A i \in DOMAIN tasks : tasks'[i].by # None =>
              tasks'[i].by \in Thread \ {t} /\ tasks'[i].by = tasks[i].by
        BY <1>1, <1>6, Blocks
    <2> QED BY <1>3, <1>5, <1>6, <1>8, <2>1 DEF QueueOK, QueueInv, Others
<1> QED BY <1>3, <1>5, <1>6, <1>7, <1>9, <1>10 DEF QueueOK, s

(* The main thread takes the first block and answers whoever waits for it. *)
LEMMA Ran ==
    ASSUME QueueOK, RunMain
    PROVE /\ QueueOK'
          /\ 1 \in DOMAIN tasks /\ Len(tasks) \in Nat /\ DOMAIN tasks = 1..Len(tasks)
          /\ DOMAIN tasks' = 1..(Len(tasks) - 1)
          /\ \A i \in DOMAIN tasks' : i + 1 \in DOMAIN tasks /\ tasks'[i] = tasks[i + 1]
          /\ \E answer \in Window \cup {None} :
                Run(tasks[1].fn, tasks[1].window, answer) /\ Answer(tasks[1], answer)
          /\ \A t \in Thread : pc'[t] # pc[t] => t = tasks[1].by
<1>1. tasks \in Seq(Task) /\ pc \in [Thread -> Step] /\ tasks # <<>> /\ tasks' = Tail(tasks)
    BY DEF QueueOK, RunMain
<1>2. /\ 1 \in DOMAIN tasks /\ Len(tasks) \in Nat /\ DOMAIN tasks = 1..Len(tasks)
      /\ tasks' \in Seq(Task) /\ DOMAIN tasks' = 1..(Len(tasks) - 1)
      /\ Head(tasks) = tasks[1]
    BY <1>1
<1>3. \A i \in DOMAIN tasks' : i + 1 \in DOMAIN tasks /\ tasks'[i] = tasks[i + 1]
    BY <1>1, <1>2
<1>4. PICK answer \in Window \cup {None} :
          Run(tasks[1].fn, tasks[1].window, answer) /\ Answer(tasks[1], answer)
    BY <1>2 DEF RunMain
<1>5. ASSUME NEW i \in DOMAIN tasks, i # 1
      PROVE \E j \in DOMAIN tasks' : tasks'[j] = tasks[i]
    <2>1. i - 1 \in DOMAIN tasks' /\ (i - 1) + 1 = i
        BY <1>2, <1>5
    <2> QED BY <1>3, <2>1
<1>6. CASE tasks[1].by = None
    <2>1. pc' = pc
        BY <1>4, <1>6 DEF Answer
    <2>2. \A u \in Thread : pc'[u].answer = "pending" <=>
              \E i \in DOMAIN tasks' : tasks'[i].by = u
        <3> SUFFICES ASSUME NEW u \in Thread
                     PROVE (\E i \in DOMAIN tasks : tasks[i].by = u) <=>
                           \E i \in DOMAIN tasks' : tasks'[i].by = u
            BY <2>1 DEF QueueOK
        <3>1. u # None
            OBVIOUS
        <3> QED BY <1>3, <1>5, <1>6, <3>1
    <2>3. QueueInv'
        BY <1>2, <1>3, <2>1 DEF QueueOK, QueueInv
    <2> QED BY <1>1, <1>2, <1>3, <1>4, <2>1, <2>2, <2>3 DEF QueueOK
<1>7. CASE tasks[1].by # None
    <2>1. PICK t \in Thread : t = tasks[1].by
        BY <1>1, <1>2, <1>7, Blocks
    <2> DEFINE s == [at |-> pc[t].at,
                     window |-> IF tasks[1].fn = "create" THEN answer ELSE pc[t].window,
                     context |-> pc[t].context,
                     answer |-> IF answer = None THEN "no" ELSE "yes"]
    <2>2. s \in Step /\ pc' = [pc EXCEPT ![t] = s]
        BY <1>1, <1>4, <2>1 DEF Answer, Step
    <2>3. s.answer # "pending" /\ s.at = pc[t].at
        OBVIOUS
    <2> HIDE DEF s
    <2>4. pc' \in [Thread -> Step] /\ Others(t) /\ pc'[t] = s
        BY <1>1, <2>2 DEF Others
    <2>5. \A i \in DOMAIN tasks' : tasks'[i].by # t
        <3>1. \A i \in DOMAIN tasks : tasks[i].by = t => i = 1
            BY <1>2, <2>1 DEF QueueOK, QueueInv
        <3> QED BY <1>2, <1>3, <3>1
    <2>6. ASSUME NEW u \in Thread
          PROVE pc'[u].answer = "pending" <=> \E i \in DOMAIN tasks' : tasks'[i].by = u
        <3>1. CASE u = t
            BY <2>3, <2>4, <2>5, <3>1
        <3>2. CASE u # t
            <4>1. (\E i \in DOMAIN tasks : tasks[i].by = u) <=>
                  \E i \in DOMAIN tasks' : tasks'[i].by = u
                BY <1>3, <1>5, <2>1, <3>2
            <4> QED BY <2>4, <3>2, <4>1 DEF QueueOK, Others
        <3> QED BY <3>1, <3>2
    <2>7. QueueInv'
        <3>1. \A i \in DOMAIN tasks' : tasks'[i].by # None => tasks'[i].by \in Thread \ {t}
            BY <1>1, <1>3, <2>5, Blocks
        <3>2. \A i \in DOMAIN tasks' : tasks'[i].by # None => pc'[tasks'[i].by] = pc[tasks'[i].by]
            BY <2>4, <3>1 DEF Others
        <3> QED BY <1>2, <1>3, <3>2 DEF QueueOK, QueueInv
    <2> QED BY <1>1, <1>2, <1>3, <1>4, <2>1, <2>4, <2>6, <2>7 DEF QueueOK, Others
<1> QED BY <1>6, <1>7

-----------------------------------------------------------------------------
(* Counting the users of a window.                                         *)

(* There are finitely many holds on a window, at most so many.             *)
LEMMA HoldsFinite ==
    ASSUME NEW w \in Window
    PROVE /\ IsFiniteSet(Holds(w)) /\ Cardinality(Holds(w)) \in Nat
          /\ Cardinality(Holds(w)) <= MaxUse * Cardinality(Thread)
          /\ MaxUse * Cardinality(Thread) \in Nat
<1> DEFINE All == Thread \X (1..MaxUse)
<1>1. IsFiniteSet(1..MaxUse) /\ Cardinality(1..MaxUse) = MaxUse
    BY FS_Interval
<1>2. Cardinality(Thread) \in Nat
    BY FS_CardinalityType
<1>3. IsFiniteSet(All) /\ Cardinality(All) = Cardinality(Thread) * MaxUse
    BY <1>1, FS_Product
<1>4. Holds(w) \subseteq All
    BY DEF Holds
<1>5. IsFiniteSet(Holds(w)) /\ Cardinality(Holds(w)) <= Cardinality(All)
    BY <1>3, <1>4, FS_Subset
<1>6. Cardinality(Holds(w)) \in Nat
    BY <1>5, FS_CardinalityType
<1> HIDE DEF All
<1>7. Cardinality(Thread) * MaxUse = MaxUse * Cardinality(Thread)
      /\ MaxUse * Cardinality(Thread) \in Nat
    BY <1>2
<1> QED BY <1>3, <1>5, <1>6, <1>7

(* The same after a step.                                                  *)
LEMMA HoldsFiniteNext ==
    ASSUME NEW w \in Window
    PROVE /\ IsFiniteSet(Holds(w)') /\ Cardinality(Holds(w)') \in Nat
          /\ Cardinality(Holds(w)') <= MaxUse * Cardinality(Thread)
<1> DEFINE All == Thread \X (1..MaxUse)
<1>1. IsFiniteSet(1..MaxUse) /\ Cardinality(1..MaxUse) = MaxUse
    BY FS_Interval
<1>2. Cardinality(Thread) \in Nat
    BY FS_CardinalityType
<1>3. IsFiniteSet(All) /\ Cardinality(All) = Cardinality(Thread) * MaxUse
    BY <1>1, FS_Product
<1>4. Holds(w)' \subseteq All
    BY DEF Holds
<1>5. IsFiniteSet(Holds(w)') /\ Cardinality(Holds(w)') <= Cardinality(All)
    BY <1>3, <1>4, FS_Subset
<1>6. Cardinality(Holds(w)') \in Nat
    BY <1>5, FS_CardinalityType
<1> HIDE DEF All
<1>7. Cardinality(Thread) * MaxUse = MaxUse * Cardinality(Thread)
    BY <1>2
<1> QED BY <1>3, <1>5, <1>6, <1>7

(* A window that the bridge counts no user for is held by nobody.          *)
LEMMA Unheld ==
    ASSUME DataOK, CountInv, NEW w \in Window, live[w] = 0, NEW t \in Thread
    PROVE uses[t][w] = 0
<1>1. Holds(w) = {}
    BY HoldsFinite, FS_EmptySet DEF CountInv
<1>2. uses[t][w] \in 0..MaxUse
    BY DEF DataOK
<1>3. SUFFICES ASSUME uses[t][w] # 0 PROVE FALSE
    OBVIOUS
<1>4. <<t, 1>> \in Holds(w)
    BY <1>2, <1>3 DEF Holds
<1> QED BY <1>1, <1>4

(* A window that is held has a user counted.                               *)
LEMMA Held ==
    ASSUME DataOK, CountInv, NEW w \in Window, NEW t \in Thread, uses[t][w] > 0
    PROVE live[w] > 0 /\ live[w] \in Nat
<1>1. live[w] \in Nat
    BY HoldsFinite DEF CountInv
<1>2. uses[t][w] \in 0..MaxUse
    BY DEF DataOK
<1> QED BY <1>1, <1>2, Unheld

(* Another hold is one more.                                               *)
LEMMA CountUp ==
    ASSUME DataOK, CountInv, NEW t \in Thread, NEW w \in Window, uses[t][w] < MaxUse,
           live' = [live EXCEPT ![w] = live[w] + 1],
           uses' = [uses EXCEPT ![t][w] = @ + 1]
    PROVE CountInv'
<1> DEFINE h == <<t, uses[t][w] + 1>>
<1>1. uses[t][w] \in Nat /\ uses[t][w] + 1 \in 1..MaxUse
    BY DEF DataOK
<1>2. \A u \in Thread, v \in Window :
          uses'[u][v] = IF u = t /\ v = w THEN uses[t][w] + 1 ELSE uses[u][v]
    BY DEF DataOK
<1>3. \A v \in Window \ {w} : Holds(v)' = Holds(v)
    BY <1>2 DEF Holds
<1>4. h \notin Holds(w) /\ Holds(w)' = Holds(w) \cup {h}
    <2>1. \A u \in Thread, k \in 1..MaxUse :
              k <= uses'[u][w] <=> k <= uses[u][w] \/ (u = t /\ k = uses[t][w] + 1)
        <3> SUFFICES ASSUME NEW u \in Thread, NEW k \in 1..MaxUse
                     PROVE k <= uses'[u][w] <=>
                           k <= uses[u][w] \/ (u = t /\ k = uses[t][w] + 1)
            OBVIOUS
        <3>1. CASE u = t
            BY <1>1, <1>2, <3>1
        <3>2. CASE u # t
            BY <1>2, <3>2
        <3> QED BY <3>1, <3>2
    <2>2. h \notin Holds(w)
        BY <1>1 DEF Holds
    <2>3. h \in Thread \X (1..MaxUse) /\ h[1] = t /\ h[2] = uses[t][w] + 1
        BY <1>1
    <2> HIDE DEF h
    <2>4. ASSUME NEW g \in Thread \X (1..MaxUse)
          PROVE g[2] <= uses'[g[1]][w] <=> g[2] <= uses[g[1]][w] \/ g = h
        BY <2>1, <2>3
    <2> QED BY <2>2, <2>3, <2>4 DEF Holds
<1>5. Cardinality(Holds(w)') = Cardinality(Holds(w)) + 1
    BY <1>4, HoldsFinite, FS_AddElement
<1>6. \A v \in Window : live'[v] = IF v = w THEN live[w] + 1 ELSE live[v]
    BY DEF DataOK
<1> QED BY <1>3, <1>5, <1>6 DEF CountInv

(* Giving one up is one less.                                              *)
LEMMA CountDown ==
    ASSUME DataOK, CountInv, NEW t \in Thread, NEW w \in Window, uses[t][w] > 0,
           live' = [live EXCEPT ![w] = live[w] - 1],
           uses' = [uses EXCEPT ![t][w] = @ - 1]
    PROVE CountInv'
<1> DEFINE h == <<t, uses[t][w]>>
<1>1. uses[t][w] \in 1..MaxUse
    BY DEF DataOK
<1>2. \A u \in Thread, v \in Window :
          uses'[u][v] = IF u = t /\ v = w THEN uses[t][w] - 1 ELSE uses[u][v]
    BY DEF DataOK
<1>3. \A v \in Window \ {w} : Holds(v)' = Holds(v)
    BY <1>2 DEF Holds
<1>4. h \in Holds(w) /\ Holds(w)' = Holds(w) \ {h}
    <2>1. \A u \in Thread, k \in 1..MaxUse :
              k <= uses'[u][w] <=> k <= uses[u][w] /\ ~(u = t /\ k = uses[t][w])
        <3> SUFFICES ASSUME NEW u \in Thread, NEW k \in 1..MaxUse
                     PROVE k <= uses'[u][w] <=>
                           k <= uses[u][w] /\ ~(u = t /\ k = uses[t][w])
            OBVIOUS
        <3>1. CASE u = t
            BY <1>1, <1>2, <3>1
        <3>2. CASE u # t
            BY <1>2, <3>2
        <3> QED BY <3>1, <3>2
    <2>2. h \in Holds(w)
        BY <1>1 DEF Holds
    <2>3. h \in Thread \X (1..MaxUse) /\ h[1] = t /\ h[2] = uses[t][w]
        BY <1>1
    <2> HIDE DEF h
    <2>4. ASSUME NEW g \in Thread \X (1..MaxUse)
          PROVE g[2] <= uses'[g[1]][w] <=> g[2] <= uses[g[1]][w] /\ g # h
        BY <2>1, <2>3
    <2> QED BY <2>2, <2>3, <2>4 DEF Holds
<1>5. Cardinality(Holds(w)') = Cardinality(Holds(w)) - 1
    <2>1. IsFiniteSet(Holds(w))
        BY HoldsFinite
    <2> HIDE DEF h
    <2>2. Cardinality(Holds(w) \ {h}) = Cardinality(Holds(w)) - 1
        BY <1>4, <2>1, FS_RemoveElement
    <2> QED BY <1>4, <2>2
<1>6. \A v \in Window : live'[v] = IF v = w THEN live[w] - 1 ELSE live[v]
    BY DEF DataOK
<1> QED BY <1>3, <1>5, <1>6 DEF CountInv

-----------------------------------------------------------------------------
(* What most steps leave alone.                                            *)

(* The invariant by its parts.                                             *)
LEMMA Parts ==
    IInv <=> /\ DataOK /\ LockOK /\ QueueOK /\ CountInv /\ LifeInv /\ PlaceInv
             /\ SurfaceInv /\ WatchdogInv
             /\ watchdog # "exited" => ViewInv
             /\ \A t \in Thread : Believed(t)
BY TypeParts DEF IInv

(* A step of thread t that leaves SDL, the users and the watchdog alone,   *)
(* queues no destruction and takes no block out of the queue.              *)
Keeps(t) ==
    /\ QueueOK' /\ Others(t)
    /\ UNCHANGED <<sdl, held, watchdog>> /\ watchdog # "exited"
    /\ \A i, w : Destroys(i, w)' => Destroys(i, w)
    /\ \A i, w : Unviews(i, w) => Unviews(i, w)'
    /\ \A w \in Window : Makes(t, w)' => Makes(t, w)
    /\ \A w \in Window : Leaves(t, w)' => Leaves(t, w)

(* A thread that is somewhere in the bridge is in a running process.       *)
LEMMA Running ==
    ASSUME WatchdogInv, NEW t \in Thread, pc[t].at # "idle"
    PROVE watchdog # "exited"
BY DEF WatchdogInv

(* An idle thread waits for nothing.                                       *)
LEMMA IdleStarts ==
    ASSUME QueueOK, NEW t \in Thread, Starts(t)
    PROVE pc[t].at = "idle" /\ pc[t].answer # "pending" /\ watchdog # "exited"
BY Waiting DEF Starts

(* A window keeps its life as long as nobody takes a new step in it, also  *)
(* when the queue has lost its first block.                                *)
LEMMA LifeKept ==
    ASSUME NEW w \in Window, Life(w), w \in exists => w \in exists',
           live'[w] > 0 => live[w] > 0, live[w] = 0 => live'[w] = 0,
           \/ \A i : Destroys(i, w)' => Destroys(i, w)
           \/ \A i : Destroys(i, w)' => i \in Nat /\ Destroys(i + 1, w),
           \A u \in Thread : Makes(u, w)' => Makes(u, w),
           \A u \in Thread : Leaves(u, w)' => Leaves(u, w)
    PROVE Life(w)'
<1>1. \A i : Destroys(i, w) => i \in DOMAIN tasks
    BY DEF Destroys
<1>2. CASE \A i : Destroys(i, w)' => Destroys(i, w)
    BY <1>1, <1>2 DEF Life
<1>3. CASE \A i : Destroys(i, w)' => i \in Nat /\ Destroys(i + 1, w)
    <2>1. \A i, j : Destroys(i, w)' /\ Destroys(j, w)' => i = j
        <3> SUFFICES ASSUME NEW i \in Nat, NEW j \in Nat, Destroys(i + 1, w), Destroys(j + 1, w)
                     PROVE i = j
            BY <1>3
        <3> QED BY <1>1 DEF Life
    <2>2. \A i : Destroys(i, w)' => \E j \in DOMAIN tasks : Destroys(j, w)
        BY <1>1, <1>3
    <2> QED BY <2>1, <2>2 DEF Life
<1> QED BY <1>2, <1>3

(* Such a step keeps the counts, the lives and the watchdog's promise.     *)
LEMMA Kept ==
    ASSUME IInv, NEW t \in Thread, Keeps(t)
    PROVE CountInv' /\ LifeInv' /\ WatchdogInv'
<1>1. LifeInv /\ CountInv /\ WatchdogInv /\ DataOK
    BY Parts
<1>2. exists' = exists /\ live' = live /\ uses' = uses /\ watchdog' = watchdog
    BY DEF Keeps, sdl, held
<1>3. CountInv'
    BY <1>1, <1>2 DEF CountInv, Holds
<1>4. ASSUME NEW u \in Thread, NEW w \in Window
      PROVE (Makes(u, w)' => Makes(u, w)) /\ (Leaves(u, w)' => Leaves(u, w))
    <2>1. CASE u = t
        BY <2>1 DEF Keeps
    <2>2. CASE u # t
        BY <2>2 DEF Keeps, Others, Makes, Leaves
    <2> QED BY <2>1, <2>2
<1>5. ASSUME NEW w \in Window
      PROVE Life(w)'
    BY <1>1, <1>2, <1>4, LifeKept DEF Keeps, LifeInv
<1>6. \A i \in DOMAIN tasks' : tasks'[i].fn = "destroy" =>
          \E j \in DOMAIN tasks : tasks[j].fn = "destroy"
    BY DEF Keeps, Destroys
<1>7. WatchdogInv'
    BY <1>1, <1>2, <1>6 DEF WatchdogInv, Keeps
<1> QED BY <1>3, <1>5, <1>7 DEF LifeInv

(* The lock is right again when one thread enters or leaves it.            *)
LEMMA Locking ==
    ASSUME LockOK, NEW t \in Thread, Others(t),
           lock' = lock \/ (lock \in {None, t} /\ lock' \in {None, t}),
           lock' = t <=> pc'[t].at \in Locked
    PROVE LockOK'
<1> SUFFICES ASSUME NEW u \in Thread
             PROVE lock' \in Thread \cup {None} /\ (lock' = u <=> pc'[u].at \in Locked)
    BY DEF LockOK
<1>1. lock' \in Thread \cup {None}
    BY DEF LockOK
<1>2. CASE u = t
    BY <1>1, <1>2
<1>3. CASE u # t
    BY <1>1, <1>3 DEF LockOK, Others
<1> QED BY <1>2, <1>3

(* No window that is held, or is being entered, is about to be destroyed.  *)
LEMMA UsedStays ==
    ASSUME DataOK, CountInv, LifeInv, NEW t \in Thread, NEW w \in Window, uses[t][w] > 0
    PROVE /\ w \in exists /\ live[w] > 0
          /\ \A u \in Thread : ~Makes(u, w) /\ ~Leaves(u, w)
          /\ \A i : ~Destroys(i, w)
<1>1. live[w] > 0 /\ live[w] # 0
    BY Held
<1> QED BY <1>1 DEF LifeInv, Life, Destroys

(* The places of the other threads fit when t works on one window that it  *)
(* holds or that has a view.                                               *)
LEMMA PlaceKept ==
    ASSUME PlaceInv, LockOK, LifeInv, DataOK, CountInv, NEW t \in Thread, Others(t),
           \A u \in Thread \ {t} : uses'[u] = uses[u],
           \A i, v : Destroys(i, v)' => Destroys(i, v),
           \/ windows' = windows
           \/ \E w \in Window, x \in {"none", "view", "surface"} :
                 /\ windows' = [windows EXCEPT ![w] = x] /\ lock \in {None, t}
                 /\ x = "none" \/ windows[w] # "none" \/ uses[t][w] > 0,
           Placed(t)'
    PROVE PlaceInv'
<1>1. \A v \in Window : windows[v] = "none" =>
          \/ windows'[v] = "none"
          \/ /\ \A u \in Thread : ~Leaves(u, v)
             /\ \A i : ~Destroys(i, v)
    <2>1. CASE windows' = windows
        BY <2>1
    <2>2. CASE \E w \in Window, x \in {"none", "view", "surface"} :
                 /\ windows' = [windows EXCEPT ![w] = x] /\ lock \in {None, t}
                 /\ x = "none" \/ windows[w] # "none" \/ uses[t][w] > 0
        <3>1. PICK w \in Window, x \in {"none", "view", "surface"} :
                 /\ windows' = [windows EXCEPT ![w] = x]
                 /\ x = "none" \/ windows[w] # "none" \/ uses[t][w] > 0
            BY <2>2
        <3> SUFFICES ASSUME NEW v \in Window, windows[v] = "none", windows'[v] # "none"
                     PROVE /\ \A u \in Thread : ~Leaves(u, v)
                           /\ \A i : ~Destroys(i, v)
            OBVIOUS
        <3>2. v = w /\ uses[t][v] > 0
            BY <3>1 DEF DataOK
        <3> QED BY <3>2, UsedStays
    <2> QED BY <2>1, <2>2
<1>2. ASSUME NEW u \in Thread \ {t}, pc[u].at \in Locked
      PROVE windows' = windows
    <2>1. lock = u /\ u # None
        BY <1>2 DEF LockOK
    <2> QED BY <2>1
<1>3. ASSUME NEW u \in Thread
      PROVE Placed(u)'
    <2>1. CASE u # t
        <3>1. pc'[u] = pc[u] /\ uses'[u] = uses[u] /\ Placed(u)
            BY <2>1 DEF Others, PlaceInv
        <3>2. CASE pc[u].at \in Locked
            BY <1>2, <2>1, <3>1, <3>2 DEF Placed
        <3>3. CASE pc[u].at \notin Locked
            <4>1. pc[u].at = "arm" => Leaves(u, pc[u].window)
                BY DEF Leaves
            <4> QED BY <1>1, <3>1, <3>3, <4>1 DEF Placed, Locked
        <3> QED BY <3>2, <3>3
    <2> QED BY <2>1
<1>4. \A w \in Window : (\E i \in DOMAIN tasks' : Destroys(i, w)') => windows'[w] = "none"
    <2> SUFFICES ASSUME NEW w \in Window, NEW i \in DOMAIN tasks', Destroys(i, w)'
                 PROVE windows'[w] = "none"
        OBVIOUS
    <2>1. i \in DOMAIN tasks /\ Destroys(i, w)
        BY DEF Destroys
    <2> QED BY <1>1, <2>1 DEF PlaceInv
<1> QED BY <1>3, <1>4 DEF PlaceInv

(* A view stays accounted for while nobody lets go of what accounts for it.*)
LEMMA ViewKept ==
    ASSUME ViewInv, views' \subseteq views,
           \A i, w : Destroys(i, w)' => Destroys(i, w),
           \A i, w : Unviews(i, w) => Unviews(i, w)',
           \A w \in views' : windows[w] # "none" =>
               windows'[w] # "none" \/ \E i \in DOMAIN tasks : Unviews(i, w),
           \A u \in Thread, w \in views' :
               /\ pc[u].at = "viewing" /\ pc[u].window = w /\ pc[u].answer = "yes" =>
                     \/ (pc[u].at = "viewing" /\ pc[u].window = w /\ pc[u].answer = "yes")'
                     \/ windows'[w] # "none"
                     \/ \E i \in DOMAIN tasks' : Unviews(i, w)'
               /\ pc'[u].at \in {"leaving", "dropping"} /\ pc'[u].window = w =>
                     \/ pc[u].at \in {"leaving", "dropping"} /\ pc[u].window = w
                     \/ \E i \in DOMAIN tasks' : Unviews(i, w)'
    PROVE ViewInv'
<1> SUFFICES ASSUME NEW w \in views'
             PROVE (/\ \/ windows[w] # "none"
                       \/ \E t \in Thread : pc[t].at = "viewing" /\ pc[t].window = w
                                            /\ pc[t].answer = "yes"
                       \/ \E i \in DOMAIN tasks : Unviews(i, w)
                    /\ \A t \in Thread : pc[t].at \in {"leaving", "dropping"} /\ pc[t].window = w =>
                          \E i \in DOMAIN tasks : Unviews(i, w)
                    /\ \A j \in DOMAIN tasks : Destroys(j, w) =>
                          \E i \in DOMAIN tasks : i < j /\ Unviews(i, w))'
    BY DEF ViewInv
<1>1. w \in views
    OBVIOUS
<1>2. \A i : (Unviews(i, w) => i \in DOMAIN tasks) /\ (Unviews(i, w)' => i \in DOMAIN tasks')
    BY DEF Unviews
<1>3. \A i : Destroys(i, w) => i \in DOMAIN tasks
    BY DEF Destroys
<1>4. \A i \in DOMAIN tasks : Unviews(i, w) => i \in DOMAIN tasks' /\ Unviews(i, w)'
    BY <1>2
<1>5. \/ windows'[w] # "none"
      \/ \E t \in Thread : (pc[t].at = "viewing" /\ pc[t].window = w /\ pc[t].answer = "yes")'
      \/ \E i \in DOMAIN tasks' : Unviews(i, w)'
    BY <1>1, <1>4 DEF ViewInv
<1>6. \A t \in Thread : pc'[t].at \in {"leaving", "dropping"} /\ pc'[t].window = w =>
          \E i \in DOMAIN tasks' : Unviews(i, w)'
    BY <1>1, <1>4 DEF ViewInv
<1>7. \A j \in DOMAIN tasks' : Destroys(j, w)' =>
          \E i \in DOMAIN tasks' : i < j /\ Unviews(i, w)'
    BY <1>1, <1>3, <1>4 DEF ViewInv
<1> QED BY <1>5, <1>6, <1>7

(* A call that destroys no window keeps the blocks of the queue, and adds  *)
(* its own.                                                                *)
LEMMA CallKeeps ==
    ASSUME QueueOK, NEW t \in Thread, pc[t].answer # "pending",
           NEW at, NEW fn, NEW w, NEW c \in Context \cup {None},
           Queues(t, at, fn, w, c),
           at \in Waits(fn), fn \in {"create", "createView", "destroyView"},
           (fn = "create" /\ w = None) \/ w \in Window
    PROVE /\ QueueOK' /\ Others(t)
          /\ pc'[t].at = at /\ pc'[t].window = w /\ pc'[t].context = c
          /\ pc'[t].answer = "pending"
          /\ \A i, v : Destroys(i, v)' => Destroys(i, v)
          /\ \A i, v : Unviews(i, v) => Unviews(i, v)'
          /\ fn = "destroyView" => \E i \in DOMAIN tasks' : Unviews(i, w)'
<1> DEFINE n == Len(tasks) + 1
<1>1. /\ QueueOK' /\ Others(t)
      /\ pc'[t].at = at /\ pc'[t].window = w /\ pc'[t].context = c
      /\ pc'[t].answer = "pending"
      /\ DOMAIN tasks' = DOMAIN tasks \cup {n}
      /\ \A i \in DOMAIN tasks : tasks'[i] = tasks[i] /\ i < n
      /\ tasks'[n].fn = fn /\ tasks'[n].window = w
    <2>1. fn \in {"create", "createView", "destroyView", "destroy"}
        OBVIOUS
    <2>2. QueueOK' /\ Others(t)
        BY <2>1, Called
    <2>3. pc'[t].at = at /\ pc'[t].window = w /\ pc'[t].context = c
        BY <2>1, Called
    <2>4. pc'[t].answer = "pending"
        BY <2>1, Called
    <2>5. DOMAIN tasks' = DOMAIN tasks \cup {n}
        BY <2>1, Called
    <2>6. \A i \in DOMAIN tasks : tasks'[i] = tasks[i] /\ i < n
        BY <2>1, Called
    <2>7. tasks'[n].fn = fn /\ tasks'[n].window = w
        BY <2>1, Called
    <2> QED BY <2>2, <2>3, <2>4, <2>5, <2>6, <2>7
<1> HIDE DEF n
<1>3. \A i, v : Destroys(i, v)' => Destroys(i, v)
    BY <1>1 DEF Destroys
<1>4. \A i, v : Unviews(i, v) => Unviews(i, v)'
    BY <1>1 DEF Unviews
<1>5. fn = "destroyView" => \E i \in DOMAIN tasks' : Unviews(i, w)'
    BY <1>1 DEF Unviews
<1> QED BY <1>1, <1>3, <1>4, <1>5

(* A call that has no context of its own keeps the one the thread had.     *)
LEMMA Calls ==
    ASSUME QueueOK, NEW t \in Thread, NEW at, NEW fn, NEW w, Call(t, at, fn, w)
    PROVE Queues(t, at, fn, w, pc[t].context) /\ pc[t].context \in Context \cup {None}
BY DEF QueueOK, Step, Call, Queues

(* Without a call the blocks stay as they are.                             *)
LEMMA StillKeeps ==
    ASSUME tasks' = tasks
    PROVE /\ \A i, v : Destroys(i, v)' => Destroys(i, v)
          /\ \A i, v : Unviews(i, v) => Unviews(i, v)'
BY DEF Destroys, Unviews

(* The parts that such a step must keep one by one.                        *)
LEMMA KeptInv ==
    ASSUME IInv, NEW t \in Thread, Keeps(t),
           DataOK', LockOK', PlaceInv', SurfaceInv', ViewInv', \A u \in Thread : Believed(u)'
    PROVE IInv'
<1>1. CountInv' /\ LifeInv' /\ WatchdogInv' /\ QueueOK'
    BY Kept DEF Keeps
<1>2. TypeOK' /\ QueueInv'
    BY <1>1 DEF TypeOK, DataOK, LockOK, QueueOK, Locked
<1> QED BY <1>1, <1>2 DEF IInv

(* Nothing is believed anew when contexts and surfaces stay as they are    *)
(* and no thread comes out of destroying a window.                         *)
LEMMA BeliefKept ==
    ASSUME NEW u \in Thread, Believed(u), DataOK,
           UNCHANGED <<contexts, current, bound, watchdog>>,
           \A w \in Window : windows[w] = "surface" => windows'[w] = "surface",
           \A v \in Thread, w \in Window :
              pc[v].at \in {"leaving", "arm"} /\ pc[v].window = w =>
              pc'[v].at \in {"leaving", "arm"} /\ pc'[v].window = w,
           \A v \in Thread : pc[v].at \in {"leaving", "arm"} => pc[v].window \in Window
    PROVE Believed(u)'
<1>1. current[u].window \in Window \cup {None}
    BY DEF DataOK
<1> QED BY <1>1 DEF Believed

(* SDL_CreateWindow that asks the main thread keeps the invariant.         *)
LEMMA CreateWindowKeeps ==
    ASSUME IInv, NEW t \in Thread, CreateWindow(t)
    PROVE IInv'
<1>1. /\ DataOK /\ LockOK /\ QueueOK /\ CountInv /\ LifeInv /\ PlaceInv
      /\ SurfaceInv /\ WatchdogInv /\ \A u \in Thread : Believed(u)
    BY Parts
<1>2. pc[t].at = "idle" /\ pc[t].answer # "pending" /\ watchdog # "exited" /\ ViewInv
    BY <1>1, IdleStarts, Parts DEF CreateWindow
<1>3. Call(t, "creating", "create", None) /\ UNCHANGED <<sdl, held, gl, lock, watchdog>>
    BY DEF CreateWindow
<1>4. /\ QueueOK' /\ Others(t)
      /\ pc'[t].at = "creating" /\ pc'[t].window = None /\ pc'[t].answer = "pending"
      /\ \A i, v : Destroys(i, v)' => Destroys(i, v)
      /\ \A i, v : Unviews(i, v) => Unviews(i, v)'
    <2>1. Queues(t, "creating", "create", None, pc[t].context)
          /\ pc[t].context \in Context \cup {None}
        BY <1>1, <1>3, Calls
    <2>2. "creating" \in Waits("create")
        BY DEF Waits
    <2> QED BY <1>1, <1>2, <2>1, <2>2, CallKeeps
<1>6. Keeps(t)
    BY <1>2, <1>3, <1>4 DEF Keeps, Makes, Leaves
<1>7. DataOK'
    BY <1>1, <1>3 DEF DataOK, sdl, held, gl
<1>8. LockOK'
    BY <1>1, <1>2, <1>3, <1>4, Locking DEF Locked, LockOK
<1>9. PlaceInv'
    <2>1. Placed(t)'
        BY <1>4 DEF Placed, Locked
    <2> QED BY <1>1, <1>3, <1>4, <2>1, PlaceKept DEF held, gl
<1>10. SurfaceInv'
    BY <1>1, <1>3 DEF SurfaceInv, gl
<1>11. ViewInv'
    BY <1>2, <1>3, <1>4, ViewKept DEF sdl, gl, Others
<1>12. ASSUME NEW u \in Thread
       PROVE Believed(u)'
    BY <1>1, <1>2, <1>3, <1>4, BeliefKept DEF Others, PlaceInv, Placed, Locked, gl
<1> QED BY <1>6, <1>7, <1>8, <1>9, <1>10, <1>11, <1>12, KeptInv

(* makeCurrent of no context keeps the invariant.                          *)
LEMMA MakeNoneCurrentKeeps ==
    ASSUME IInv, NEW t \in Thread, MakeNoneCurrent(t)
    PROVE IInv'
<1>1. /\ DataOK /\ LockOK /\ QueueOK /\ PlaceInv /\ SurfaceInv /\ \A u \in Thread : Believed(u)
      /\ CountInv /\ LifeInv
    BY Parts
<1>2. watchdog # "exited" /\ ViewInv
    BY Parts DEF MakeNoneCurrent, Starts
<1>3. /\ current' = [current EXCEPT ![t] = Nothing] /\ bound' = [bound EXCEPT ![t] = Unbound]
      /\ UNCHANGED <<tasks, sdl, held, windows, contexts, lock, pc, watchdog>>
    BY DEF MakeNoneCurrent, Forget
<1>4. QueueOK' /\ Others(t)
    BY <1>1, <1>3 DEF QueueOK, QueueInv, Others
<1>5. /\ \A i, v : Destroys(i, v)' => Destroys(i, v)
      /\ \A i, v : Unviews(i, v) => Unviews(i, v)'
    BY <1>3, StillKeeps
<1>6. Keeps(t)
    BY <1>2, <1>3, <1>4, <1>5 DEF Keeps, Makes, Leaves
<1>7. Nothing \in [window : Window \cup {None}, context : Context \cup {None}]
      /\ Unbound \in [surface : Window \cup {None, Freed}, context : Context \cup {None}]
      /\ Nothing.window = None /\ Nothing.context = None /\ Unbound.surface = None
    BY DEF Nothing, Unbound
<1>8. DataOK'
    BY <1>1, <1>3, <1>7 DEF DataOK, sdl, held
<1>9. LockOK'
    BY <1>1, <1>3 DEF LockOK
<1>10. PlaceInv'
    <2>1. Placed(t)'
        BY <1>1, <1>3 DEF PlaceInv, Placed, held
    <2> QED BY <1>1, <1>3, <1>4, <1>5, <2>1, PlaceKept DEF held
<1>11. SurfaceInv'
    BY <1>1, <1>3, <1>7 DEF SurfaceInv, DataOK
<1>12. ViewInv'
    BY <1>2, <1>3, <1>5, ViewKept DEF sdl
<1>13. ASSUME NEW u \in Thread
       PROVE Believed(u)'
    <2>1. CASE u = t
        BY <1>1, <1>3, <1>7, <2>1 DEF Believed, DataOK
    <2>2. CASE u # t
        <3>1. current'[u] = current[u] /\ bound'[u] = bound[u]
            BY <1>1, <1>3, <2>2 DEF DataOK
        <3> QED BY <1>1, <1>3, <3>1 DEF Believed
    <2> QED BY <2>1, <2>2
<1> QED BY <1>6, <1>8, <1>9, <1>10, <1>11, <1>12, <1>13, KeptInv

(* The end of SDL_DestroyWindow keeps the invariant.                       *)
LEMMA DestroyedKeeps ==
    ASSUME IInv, NEW t \in Thread, Destroyed(t)
    PROVE IInv'
<1>1. /\ DataOK /\ LockOK /\ QueueOK /\ PlaceInv /\ SurfaceInv /\ \A u \in Thread : Believed(u)
      /\ CountInv /\ LifeInv /\ WatchdogInv
    BY Parts
<1>2. /\ pc[t].at = "destroying" /\ pc[t].answer # "pending"
      /\ pc' = [pc EXCEPT ![t] = Idle]
      /\ UNCHANGED <<tasks, sdl, held, gl, lock, watchdog>>
    BY DEF Destroyed, Answered, Return
<1>3. watchdog # "exited" /\ ViewInv
    BY <1>1, <1>2, Running, Parts
<1>4. Idle \in Step /\ Idle.at = "idle" /\ Idle.answer # "pending"
    BY DEF Idle, Step
<1>5. QueueOK' /\ Others(t) /\ pc'[t] = Idle
    BY <1>1, <1>2, <1>4, Moved
<1>6. /\ \A i, v : Destroys(i, v)' => Destroys(i, v)
      /\ \A i, v : Unviews(i, v) => Unviews(i, v)'
    BY <1>2, StillKeeps
<1>7. Keeps(t)
    BY <1>2, <1>3, <1>4, <1>5, <1>6 DEF Keeps, Makes, Leaves
<1>8. DataOK'
    BY <1>1, <1>2 DEF DataOK, sdl, held, gl
<1>9. LockOK'
    BY <1>1, <1>2, <1>4, <1>5, Locking DEF Locked, LockOK
<1>10. PlaceInv'
    <2>1. Placed(t)'
        BY <1>4, <1>5 DEF Placed, Locked
    <2> QED BY <1>1, <1>2, <1>5, <1>6, <2>1, PlaceKept DEF held, gl
<1>11. SurfaceInv'
    BY <1>1, <1>2 DEF SurfaceInv, gl
<1>12. ViewInv'
    BY <1>2, <1>3, <1>4, <1>5, <1>6, ViewKept DEF sdl, gl, Others
<1>13. ASSUME NEW u \in Thread
       PROVE Believed(u)'
    BY <1>1, <1>2, <1>5, BeliefKept DEF Others, PlaceInv, Placed, Locked, gl
<1> QED BY <1>7, <1>8, <1>9, <1>10, <1>11, <1>12, <1>13, KeptInv

(* The end of destroyWindow keeps the invariant: a view that is still      *)
(* there is taken away by a block in the queue.                            *)
LEMMA UnviewedKeeps ==
    ASSUME IInv, NEW t \in Thread, Unviewed(t)
    PROVE IInv'
<1> DEFINE w == pc[t].window
           s == [at |-> "arm", window |-> w, context |-> pc[t].context, answer |-> "none"]
<1>1. /\ DataOK /\ LockOK /\ QueueOK /\ PlaceInv /\ SurfaceInv /\ \A u \in Thread : Believed(u)
      /\ CountInv /\ LifeInv /\ WatchdogInv
    BY Parts
<1>2. /\ pc[t].at \in {"leaving", "dropping"} /\ pc[t].answer # "pending"
      /\ windows' = [windows EXCEPT ![w] = "none"] /\ lock' = None
      /\ UNCHANGED <<tasks, sdl, held, contexts, current, bound, watchdog>>
    BY DEF Unviewed, Answered
<1>3. watchdog # "exited" /\ ViewInv
    BY <1>1, <1>2, Running, Parts
<1>4. w \in Window /\ windows[w] # "surface" /\ lock = t
    BY <1>1, <1>2 DEF PlaceInv, Placed, Locked, LockOK
<1>5. /\ Idle \in Step /\ Idle.at = "idle" /\ Idle.answer # "pending"
      /\ s \in Step /\ s.at = "arm" /\ s.window = w /\ s.answer # "pending"
    BY <1>1 DEF Idle, Step, QueueOK
<1>6. /\ QueueOK' /\ Others(t)
      /\ \/ pc[t].at = "leaving" /\ pc'[t].at = "arm" /\ pc'[t].window = w
         \/ pc[t].at = "dropping" /\ pc'[t].at = "idle"
    <2>1. CASE pc[t].at = "leaving"
        <3>1. pc' = [pc EXCEPT ![t] = s]
            BY <2>1 DEF Unviewed, Answered, Go
        <3> HIDE DEF s
        <3> QED BY <1>1, <1>2, <1>5, <2>1, <3>1, Moved
    <2>2. CASE pc[t].at = "dropping"
        <3>1. pc' = [pc EXCEPT ![t] = Idle]
            BY <2>2 DEF Unviewed, Answered, Return
        <3> QED BY <1>1, <1>2, <1>5, <2>2, <3>1, Moved
    <2> QED BY <1>2, <2>1, <2>2
<1>7. /\ \A i, v : Destroys(i, v)' => Destroys(i, v)
      /\ \A i, v : Unviews(i, v) => Unviews(i, v)'
    BY <1>2, StillKeeps
<1>8. Keeps(t)
    BY <1>2, <1>3, <1>6, <1>7 DEF Keeps, Makes, Leaves
<1> HIDE DEF s, w
<1>9. windows' \in [Window -> {"none", "view", "surface"}] /\ windows'[w] = "none"
      /\ \A v \in Window \ {w} : windows'[v] = windows[v]
    BY <1>1, <1>2, <1>4 DEF DataOK
<1>10. DataOK'
    BY <1>1, <1>2, <1>9 DEF DataOK, sdl, held
<1>11. LockOK'
    BY <1>1, <1>2, <1>4, <1>6, Locking DEF Locked
<1>12. PlaceInv'
    <2>1. Placed(t)'
        BY <1>4, <1>6, <1>9 DEF Placed, Locked
    <2> QED BY <1>1, <1>2, <1>4, <1>6, <1>7, <2>1, PlaceKept DEF held
<1>13. SurfaceInv'
    BY <1>1, <1>2, <1>4, <1>9 DEF SurfaceInv
<1>14. ViewInv'
    <2>1. w \in views => \E i \in DOMAIN tasks : Unviews(i, w)
        BY <1>2, <1>3 DEF ViewInv, w
    <2>2. \A v \in views : windows[v] # "none" =>
              windows'[v] # "none" \/ \E i \in DOMAIN tasks : Unviews(i, v)
        BY <1>1, <1>9, <2>1 DEF DataOK
    <2>3. \A u \in Thread \ {t} : pc'[u] = pc[u]
        BY <1>6 DEF Others
    <2>4. views' = views
        BY <1>2 DEF sdl
    <2>5. ASSUME NEW u \in Thread, NEW v \in views'
          PROVE /\ pc[u].at = "viewing" => pc'[u] = pc[u]
                /\ pc'[u].at \in {"leaving", "dropping"} => pc'[u] = pc[u]
        BY <1>2, <1>6, <2>3
    <2> QED BY <1>3, <1>7, <2>2, <2>4, <2>5, ViewKept
<1>15. ASSUME NEW u \in Thread
       PROVE Believed(u)'
    <2>1. \A v \in Window : windows[v] = "surface" => windows'[v] = "surface"
        BY <1>4, <1>9
    <2>2. \A v \in Thread, x \in Window :
              pc[v].at \in {"leaving", "arm"} /\ pc[v].window = x =>
              pc'[v].at \in {"leaving", "arm"} /\ pc'[v].window = x
        BY <1>6 DEF Others, w
    <2>3. \A v \in Thread : pc[v].at \in {"leaving", "arm"} => pc[v].window \in Window
        BY <1>1 DEF PlaceInv, Placed, Locked
    <2> QED BY <1>1, <1>2, <2>1, <2>2, <2>3, BeliefKept
<1> QED BY <1>8, <1>10, <1>11, <1>12, <1>13, <1>14, <1>15, KeptInv

(* Giving up on the main thread keeps the invariant.                       *)
LEMMA GiveUpKeeps ==
    ASSUME IInv, NEW t \in Thread, GiveUp(t)
    PROVE IInv'
<1>1. /\ DataOK /\ LockOK /\ QueueOK /\ PlaceInv /\ SurfaceInv /\ \A u \in Thread : Believed(u)
      /\ CountInv /\ LifeInv /\ WatchdogInv
    BY Parts
<1>2. /\ pc[t].answer = "pending" /\ pc[t].at # "creating"
      /\ UNCHANGED <<sdl, held, gl, lock, watchdog>>
    BY DEF GiveUp
<1>3. watchdog # "exited" /\ ViewInv
    BY <1>1, <1>2, Waiting, Running, Parts
<1>4. /\ QueueOK' /\ Others(t)
      /\ pc'[t] = [at |-> pc[t].at, window |-> pc[t].window, context |-> pc[t].context,
                   answer |-> "no"]
      /\ DOMAIN tasks' = DOMAIN tasks
      /\ \A i \in DOMAIN tasks :
            tasks'[i].fn = tasks[i].fn /\ tasks'[i].window = tasks[i].window
    BY <1>1, GaveUp
<1>5. pc'[t].at = pc[t].at /\ pc'[t].window = pc[t].window /\ pc'[t].answer = "no"
    BY <1>4
<1>6. /\ \A i, v : Destroys(i, v)' => Destroys(i, v)
      /\ \A i, v : Unviews(i, v) => Unviews(i, v)'
    BY <1>4 DEF Destroys, Unviews
<1>7. Keeps(t)
    BY <1>2, <1>3, <1>4, <1>5, <1>6 DEF Keeps, Makes, Leaves
<1>8. DataOK'
    BY <1>1, <1>2 DEF DataOK, sdl, held, gl
<1>9. LockOK'
    BY <1>1, <1>2, <1>4, <1>5, Locking DEF LockOK
<1>10. PlaceInv'
    <2>1. Placed(t)'
        BY <1>1, <1>2, <1>5 DEF PlaceInv, Placed, Locked, held, gl
    <2> QED BY <1>1, <1>2, <1>4, <1>6, <2>1, PlaceKept DEF held, gl
<1>11. SurfaceInv'
    BY <1>1, <1>2 DEF SurfaceInv, gl
<1>12. ViewInv'
    BY <1>2, <1>3, <1>4, <1>5, <1>6, ViewKept DEF sdl, gl, Others
<1>13. ASSUME NEW u \in Thread
       PROVE Believed(u)'
    BY <1>1, <1>2, <1>4, <1>5, BeliefKept DEF Others, PlaceInv, Placed, Locked, gl
<1> QED BY <1>7, <1>8, <1>9, <1>10, <1>11, <1>12, <1>13, KeptInv

(* createContext and makeCurrent, as far as the metal view, keep the       *)
(* invariant.                                                              *)
LEMMA EnterGLKeeps ==
    ASSUME IInv, NEW t \in Thread, EnterGL(t)
    PROVE IInv'
<1>1. /\ DataOK /\ LockOK /\ QueueOK /\ PlaceInv /\ SurfaceInv /\ \A u \in Thread : Believed(u)
      /\ CountInv /\ LifeInv /\ WatchdogInv
    BY Parts
<1>2. /\ pc[t].at = "idle" /\ pc[t].answer # "pending" /\ watchdog # "exited"
      /\ lock = None /\ lock' = t /\ UNCHANGED <<sdl, held, gl, watchdog>>
    BY <1>1, IdleStarts DEF EnterGL
<1>3. ViewInv
    BY <1>2, Parts
<1>4. /\ QueueOK' /\ Others(t)
      /\ pc'[t].window \in Window /\ uses[t][pc'[t].window] > 0
      /\ \/ pc'[t].at = "windowed" /\ windows[pc'[t].window] # "none"
         \/ pc'[t].at = "viewing" /\ windows[pc'[t].window] = "none"
      /\ \A i, v : Destroys(i, v)' => Destroys(i, v)
      /\ \A i, v : Unviews(i, v) => Unviews(i, v)'
    <2>1. PICK w \in Window, c \in Wanted :
              /\ uses[t][w] > 0
              /\ \/ /\ windows[w] # "none" /\ UNCHANGED tasks
                    /\ pc' = [pc EXCEPT ![t] = [at |-> "windowed", window |-> w,
                                                context |-> c, answer |-> "none"]]
                 \/ windows[w] = "none" /\ Queues(t, "viewing", "createView", w, c)
        BY DEF EnterGL, Queues
    <2>2. c \in Context \cup {None}
        BY DEF Wanted
    <2>3. CASE /\ windows[w] # "none" /\ UNCHANGED tasks
               /\ pc' = [pc EXCEPT ![t] = [at |-> "windowed", window |-> w,
                                           context |-> c, answer |-> "none"]]
        <3> DEFINE s == [at |-> "windowed", window |-> w, context |-> c, answer |-> "none"]
        <3>1. /\ s \in Step /\ s.at = "windowed" /\ s.window = w /\ s.answer # "pending"
              /\ pc' = [pc EXCEPT ![t] = s] /\ tasks' = tasks
            BY <2>2, <2>3 DEF Step
        <3> HIDE DEF s
        <3>2. QueueOK' /\ Others(t) /\ pc'[t] = s
            BY <1>1, <1>2, <3>1, Moved
        <3> QED BY <2>1, <2>3, <3>1, <3>2, StillKeeps
    <2>4. CASE windows[w] = "none" /\ Queues(t, "viewing", "createView", w, c)
        <3>1. "viewing" \in Waits("createView")
            BY DEF Waits
        <3>2. /\ QueueOK' /\ Others(t) /\ pc'[t].at = "viewing" /\ pc'[t].window = w
              /\ \A i, v : Destroys(i, v)' => Destroys(i, v)
              /\ \A i, v : Unviews(i, v) => Unviews(i, v)'
            BY <1>1, <1>2, <2>2, <2>4, <3>1, CallKeeps
        <3> QED BY <2>1, <2>4, <3>2
    <2> QED BY <2>1, <2>3, <2>4
<1>5. Keeps(t)
    BY <1>2, <1>4 DEF Keeps, Makes, Leaves
<1>6. DataOK'
    BY <1>1, <1>2 DEF DataOK, sdl, held, gl
<1>7. LockOK'
    BY <1>1, <1>2, <1>4, Locking DEF Locked
<1>8. PlaceInv'
    <2>1. Placed(t)'
        BY <1>2, <1>4 DEF Placed, Locked, held, gl
    <2> QED BY <1>1, <1>2, <1>4, <2>1, PlaceKept DEF held, gl
<1>9. SurfaceInv'
    BY <1>1, <1>2 DEF SurfaceInv, gl
<1>10. ViewInv'
    BY <1>2, <1>3, <1>4, ViewKept DEF sdl, gl, Others
<1>11. ASSUME NEW u \in Thread
       PROVE Believed(u)'
    BY <1>1, <1>2, <1>4, BeliefKept DEF Others, PlaceInv, Placed, Locked, gl
<1> QED BY <1>5, <1>6, <1>7, <1>8, <1>9, <1>10, <1>11, KeptInv

(* Letting a window go, as far as its call: the surface is no longer       *)
(* recorded and the block that takes the view away is queued.              *)
LEMMA Drops ==
    ASSUME DataOK, LockOK, QueueOK, PlaceInv, LifeInv, CountInv, ViewInv, NEW t \in Thread,
           pc[t].answer # "pending", NEW w \in Window, windows[w] # "none" \/ uses[t][w] > 0,
           NEW at \in {"leaving", "dropping"}, destroyWindow(t, at, w),
           lock \in {None, t}, lock' = t, UNCHANGED <<sdl, held>>,
           pc[t].at # "viewing" \/ pc[t].window = w
    PROVE /\ QueueOK' /\ Others(t) /\ pc'[t].at = at /\ pc'[t].window = w
          /\ \A i, v : Destroys(i, v)' => Destroys(i, v)
          /\ \A i, v : Unviews(i, v) => Unviews(i, v)'
          /\ windows' \in [Window -> {"none", "view", "surface"}] /\ windows'[w] = "view"
          /\ \A v \in Window \ {w} : windows'[v] = windows[v]
          /\ LockOK' /\ PlaceInv' /\ ViewInv'
<1>1. windows' = [windows EXCEPT ![w] = "view"] /\ Call(t, at, "destroyView", w)
    BY DEF destroyWindow
<1>2. /\ Queues(t, at, "destroyView", w, pc[t].context)
      /\ pc[t].context \in Context \cup {None} /\ at \in Waits("destroyView")
    BY <1>1, Calls DEF Waits
<1>3. /\ QueueOK' /\ Others(t) /\ pc'[t].at = at /\ pc'[t].window = w
      /\ \A i, v : Destroys(i, v)' => Destroys(i, v)
      /\ \A i, v : Unviews(i, v) => Unviews(i, v)'
    BY <1>2, CallKeeps
<1>4. \E i \in DOMAIN tasks' : Unviews(i, w)'
    BY <1>2, CallKeeps
<1>5. /\ windows' \in [Window -> {"none", "view", "surface"}] /\ windows'[w] = "view"
      /\ \A v \in Window \ {w} : windows'[v] = windows[v]
    BY <1>1 DEF DataOK
<1>6. LockOK'
    BY <1>3, Locking DEF Locked
<1>7. PlaceInv'
    <2>1. Placed(t)'
        BY <1>3, <1>5 DEF Placed, Locked
    <2> QED BY <1>1, <1>3, <2>1, PlaceKept DEF held
<1>8. ViewInv'
    <2>1. views' = views
        BY DEF sdl
    <2>2. \A v \in views : windows[v] # "none" => windows'[v] # "none"
        BY <1>5 DEF DataOK
    <2>3. ASSUME NEW u \in Thread, NEW v \in views'
          PROVE /\ pc[u].at = "viewing" /\ pc[u].window = v => pc'[u] = pc[u] \/ v = w
                /\ pc'[u].at \in {"leaving", "dropping"} => pc'[u] = pc[u] \/ pc'[u].window = w
        BY <1>3 DEF Others
    <2> QED BY <1>3, <1>4, <1>5, <2>1, <2>2, <2>3, ViewKept
<1> QED BY <1>3, <1>5, <1>6, <1>7, <1>8

(* The answer to the wish for a metal view keeps the invariant.            *)
LEMMA ViewedKeeps ==
    ASSUME IInv, NEW t \in Thread, Viewed(t)
    PROVE IInv'
<1>1. /\ DataOK /\ LockOK /\ QueueOK /\ PlaceInv /\ SurfaceInv /\ \A u \in Thread : Believed(u)
      /\ CountInv /\ LifeInv /\ WatchdogInv
    BY Parts
<1>2. /\ pc[t].at = "viewing" /\ pc[t].answer # "pending"
      /\ UNCHANGED <<sdl, held, contexts, current, bound, watchdog>>
    BY DEF Viewed, Answered
<1>3. watchdog # "exited" /\ ViewInv
    BY <1>1, <1>2, Running, Parts
<1>4. PICK w \in Window :
          w = pc[t].window /\ windows[w] = "none" /\ lock = t /\ uses[t][w] > 0
    BY <1>1, <1>2 DEF PlaceInv, Placed, Locked, LockOK
<1> DEFINE s == [at |-> "windowed", window |-> w, context |-> pc[t].context, answer |-> "none"]
<1>5. /\ Idle \in Step /\ Idle.at = "idle" /\ Idle.answer # "pending"
      /\ s \in Step /\ s.at = "windowed" /\ s.window = w /\ s.answer # "pending"
    BY <1>1 DEF Idle, Step, QueueOK
<1>6. /\ QueueOK' /\ Others(t) /\ windows' \in [Window -> {"none", "view", "surface"}]
      /\ \/ pc'[t].at = "windowed" /\ pc'[t].window = w /\ windows'[w] = "view" /\ lock' = t
         \/ /\ pc'[t].at = "dropping" /\ pc'[t].window = w /\ windows' = windows /\ lock' = t
            /\ \E i \in DOMAIN tasks' : Unviews(i, w)'
         \/ pc'[t].at = "idle" /\ windows' = windows /\ lock' = None /\ pc[t].answer # "yes"
      /\ windows' = windows \/ windows' = [windows EXCEPT ![w] = "view"]
      /\ \A i, v : Destroys(i, v)' => Destroys(i, v)
      /\ \A i, v : Unviews(i, v) => Unviews(i, v)'
    <2>1. CASE /\ pc[t].answer = "yes" /\ Go(t, "windowed")
               /\ windows' = [windows EXCEPT ![w] = "view"]
               /\ UNCHANGED <<tasks, lock>>
        <3>1. pc' = [pc EXCEPT ![t] = s]
            BY <1>4, <2>1 DEF Go
        <3> HIDE DEF s
        <3>2. QueueOK' /\ Others(t) /\ pc'[t] = s
            BY <1>1, <1>2, <1>5, <2>1, <3>1, Moved
        <3>3. windows' \in [Window -> {"none", "view", "surface"}] /\ windows'[w] = "view"
            BY <1>1, <1>4, <2>1 DEF DataOK
        <3> QED BY <1>4, <1>5, <2>1, <3>2, <3>3, StillKeeps
    <2>2. CASE /\ pc[t].answer = "yes" /\ Call(t, "dropping", "destroyView", w)
               /\ UNCHANGED <<windows, lock>>
        <3>1. /\ Queues(t, "dropping", "destroyView", w, pc[t].context)
              /\ pc[t].context \in Context \cup {None} /\ "dropping" \in Waits("destroyView")
            BY <1>1, <2>2, Calls DEF Waits
        <3>2. /\ QueueOK' /\ Others(t) /\ pc'[t].at = "dropping" /\ pc'[t].window = w
              /\ \A i, v : Destroys(i, v)' => Destroys(i, v)
              /\ \A i, v : Unviews(i, v) => Unviews(i, v)'
            BY <1>1, <1>2, <1>4, <3>1, CallKeeps
        <3>3. \E i \in DOMAIN tasks' : Unviews(i, w)'
            <4>1. QueueOK /\ pc[t].answer # "pending" /\ w \in Window
                BY <1>1, <1>2, <1>4
            <4> QED BY <3>1, <4>1, CallKeeps
        <3>4. windows' \in [Window -> {"none", "view", "surface"}]
            BY <1>1, <2>2 DEF DataOK
        <3> QED BY <1>4, <2>2, <3>2, <3>3, <3>4
    <2>3. CASE /\ pc[t].answer = "no" /\ Return(t) /\ lock' = None
               /\ UNCHANGED <<windows, tasks>>
        <3>1. pc' = [pc EXCEPT ![t] = Idle]
            BY <2>3 DEF Return
        <3>2. QueueOK' /\ Others(t) /\ pc'[t] = Idle
            BY <1>1, <1>2, <1>5, <2>3, <3>1, Moved
        <3> QED BY <1>1, <1>5, <2>3, <3>2, StillKeeps DEF DataOK
    <2> QED BY <1>4, <2>1, <2>2, <2>3 DEF Viewed
<1> HIDE DEF s
<1>7. Keeps(t)
    BY <1>2, <1>3, <1>6 DEF Keeps, Makes, Leaves
<1>8. DataOK'
    BY <1>1, <1>2, <1>6 DEF DataOK, sdl, held
<1>9. LockOK'
    BY <1>1, <1>4, <1>6, Locking DEF Locked
<1>10. PlaceInv'
    <2>1. Placed(t)'
        BY <1>2, <1>4, <1>6 DEF Placed, Locked, held
    <2> QED BY <1>1, <1>2, <1>4, <1>6, <2>1, PlaceKept DEF held
<1>11. \A v \in Window : windows[v] # "none" => windows'[v] = windows[v]
    BY <1>1, <1>4, <1>6 DEF DataOK
<1>12. SurfaceInv'
    BY <1>1, <1>2, <1>11 DEF SurfaceInv
<1>13. ViewInv'
    <2>1. views' = views
        BY <1>2 DEF sdl
    <2>2. \A v \in views : windows[v] # "none" => windows'[v] # "none"
        BY <1>1, <1>11 DEF DataOK
    <2>3. ASSUME NEW u \in Thread, NEW v \in views'
          PROVE /\ pc[u].at = "viewing" /\ pc[u].window = v /\ pc[u].answer = "yes" =>
                      \/ pc'[u] = pc[u]
                      \/ windows'[v] # "none"
                      \/ \E i \in DOMAIN tasks' : Unviews(i, v)'
                /\ pc'[u].at \in {"leaving", "dropping"} /\ pc'[u].window = v =>
                      pc'[u] = pc[u] \/ \E i \in DOMAIN tasks' : Unviews(i, v)'
        BY <1>4, <1>6 DEF Others
    <2> QED BY <1>3, <1>6, <2>1, <2>2, <2>3, ViewKept
<1>14. ASSUME NEW u \in Thread
       PROVE Believed(u)'
    <2>1. \A v \in Window : windows[v] = "surface" => windows'[v] = "surface"
        BY <1>11
    <2>2. \A v \in Thread, x \in Window :
              pc[v].at \in {"leaving", "arm"} /\ pc[v].window = x =>
              pc'[v].at \in {"leaving", "arm"} /\ pc'[v].window = x
        BY <1>2, <1>6 DEF Others
    <2>3. \A v \in Thread : pc[v].at \in {"leaving", "arm"} => pc[v].window \in Window
        BY <1>1 DEF PlaceInv, Placed, Locked
    <2> QED BY <1>1, <1>2, <2>1, <2>2, <2>3, BeliefKept
<1> QED BY <1>7, <1>8, <1>9, <1>10, <1>12, <1>13, <1>14, KeptInv

(* A surface that is taken away is bound nowhere, any other stays bound.   *)
LEMMA Unsurface ==
    ASSUME NEW b \in [Thread -> [surface : Window \cup {None, Freed},
                                 context : Context \cup {None}]],
           NEW w \in Window
    PROVE /\ Unsurfaced(b, w) \in [Thread -> [surface : Window \cup {None, Freed},
                                              context : Context \cup {None}]]
          /\ \A u \in Thread :
                /\ Unsurfaced(b, w)[u].surface # w
                /\ b[u].surface # w => Unsurfaced(b, w)[u] = b[u]
                /\ Unsurfaced(b, w)[u].surface \in Window => Unsurfaced(b, w)[u] = b[u]
<1>1. \A u \in Thread :
          /\ b[u] \in [surface : Window \cup {None, Freed}, context : Context \cup {None}]
          /\ b[u].surface = w =>
                Unsurfaced(b, w)[u] = [surface |-> Freed, context |-> b[u].context]
          /\ b[u].surface # w => Unsurfaced(b, w)[u] = b[u]
    <2> SUFFICES ASSUME NEW u \in Thread
                 PROVE /\ b[u].surface = w =>
                             Unsurfaced(b, w)[u] = [surface |-> Freed, context |-> b[u].context]
                       /\ b[u].surface # w => Unsurfaced(b, w)[u] = b[u]
        OBVIOUS
    <2> QED BY DEF Unsurfaced
<1>2. \A u \in Thread :
          Unsurfaced(b, w)[u] \in [surface : Window \cup {None, Freed}, context : Context \cup {None}]
    <2> SUFFICES ASSUME NEW u \in Thread
                 PROVE Unsurfaced(b, w)[u] \in [surface : Window \cup {None, Freed},
                                                context : Context \cup {None}]
        OBVIOUS
    <2>1. CASE b[u].surface = w
        <3>1. b[u].context \in Context \cup {None}
            BY <1>1
        <3>2. [surface |-> Freed, context |-> b[u].context]
                  \in [surface : Window \cup {None, Freed}, context : Context \cup {None}]
            BY <3>1
        <3>3. Unsurfaced(b, w)[u] = [surface |-> Freed, context |-> b[u].context]
            BY <1>1, <2>1
        <3> QED BY <3>2, <3>3
    <2>2. CASE b[u].surface # w
        BY <1>1, <2>2
    <2> QED BY <2>1, <2>2
<1>3. Unsurfaced(b, w) \in [Thread -> [surface : Window \cup {None, Freed},
                                       context : Context \cup {None}]]
    BY <1>2 DEF Unsurfaced
<1> QED BY <1>1, <1>3

(* eglMakeCurrent binds what thread t believes, and disturbs no other.     *)
LEMMA Bind ==
    ASSUME DataOK, SurfaceInv, NEW t \in Thread, NEW w \in Window, NEW c \in Context,
           Binds(t, w, c)
    PROVE /\ windows' \in [Window -> {"none", "view", "surface"}] /\ windows'[w] = "surface"
          /\ \A v \in Window \ {w} : windows'[v] = windows[v]
          /\ current' \in [Thread -> [window : Window \cup {None}, context : Context \cup {None}]]
          /\ bound' \in [Thread -> [surface : Window \cup {None, Freed},
                                    context : Context \cup {None}]]
          /\ \A u \in Thread \ {t} : bound'[u] = bound[u] /\ current'[u] = current[u]
          /\ bound'[t] = [surface |-> w, context |-> c]
          /\ current'[t].window = w /\ current'[t].context = c
          /\ SurfaceInv'
<1> DEFINE b == [surface |-> w, context |-> c]
           k == [window |-> w, context |-> c]
<1>1. /\ b \in [surface : Window \cup {None, Freed}, context : Context \cup {None}]
      /\ k \in [window : Window \cup {None}, context : Context \cup {None}]
      /\ b.surface = w /\ k.window = w /\ k.context = c
    OBVIOUS
<1>2. /\ bound' = [bound EXCEPT ![t] = b] /\ current' = [current EXCEPT ![t] = k]
      /\ windows' = [windows EXCEPT ![w] = "surface"]
    BY DEF Binds
<1> HIDE DEF b, k
<1>3. /\ windows' \in [Window -> {"none", "view", "surface"}] /\ windows'[w] = "surface"
      /\ \A v \in Window \ {w} : windows'[v] = windows[v]
    BY <1>2 DEF DataOK
<1>4. /\ current' \in [Thread -> [window : Window \cup {None}, context : Context \cup {None}]]
      /\ bound' \in [Thread -> [surface : Window \cup {None, Freed},
                                context : Context \cup {None}]]
      /\ \A u \in Thread \ {t} : bound'[u] = bound[u] /\ current'[u] = current[u]
      /\ bound'[t] = b /\ current'[t] = k
    BY <1>1, <1>2 DEF DataOK
<1>5. SurfaceInv'
    <2> SUFFICES ASSUME NEW u \in Thread, bound'[u].surface \in Window
                 PROVE windows'[bound'[u].surface] = "surface"
        BY DEF SurfaceInv
    <2>1. CASE u = t
        BY <1>1, <1>3, <1>4, <2>1
    <2>2. CASE u # t
        BY <1>3, <1>4, <2>2 DEF SurfaceInv
    <2> QED BY <2>1, <2>2
<1> QED BY <1>1, <1>3, <1>4, <1>5 DEF b

(* What was not let go of is still believed rightly after a binding.       *)
LEMMA BindBelief ==
    ASSUME DataOK, NEW u \in Thread, Believed(u), NEW w \in Window,
           current'[u] = current[u], bound'[u] = bound[u], watchdog' = watchdog,
           windows'[w] = "surface", \A v \in Window \ {w} : windows'[v] = windows[v],
           \A v \in Thread, x \in Window :
              pc[v].at \in {"leaving", "arm"} /\ pc[v].window = x =>
              pc'[v].at \in {"leaving", "arm"} /\ pc'[v].window = x,
           \A v \in Thread : pc[v].at \in {"leaving", "arm"} => pc[v].window \in Window,
           \A c \in Context : contexts[c] # None => contexts'[c] = contexts[c]
    PROVE Believed(u)'
<1>1. current[u].window \in Window \cup {None} /\ current[u].context \in Context \cup {None}
    BY DEF DataOK
<1> QED BY <1>1 DEF Believed

(* makeCurrent keeps the invariant.                                        *)
LEMMA MakeCurrentKeeps ==
    ASSUME IInv, NEW t \in Thread, makeCurrent(t)
    PROVE IInv'
<1>1. /\ DataOK /\ LockOK /\ QueueOK /\ PlaceInv /\ SurfaceInv /\ \A u \in Thread : Believed(u)
      /\ CountInv /\ LifeInv /\ WatchdogInv
    BY Parts
<1>2. /\ pc[t].at = "windowed" /\ pc[t].context # None
      /\ pc' = [pc EXCEPT ![t] = Idle] /\ lock' = None
      /\ UNCHANGED <<tasks, sdl, held, contexts, watchdog>>
    BY DEF makeCurrent, Return
<1>3. watchdog # "exited" /\ ViewInv /\ pc[t].answer # "pending"
    BY <1>1, <1>2, Running, Waiting, Parts
<1>4. PICK w \in Window : w = pc[t].window /\ windows[w] # "none" /\ lock = t /\ uses[t][w] > 0
    BY <1>1, <1>2 DEF PlaceInv, Placed, Locked, LockOK
<1>5. PICK c \in Context : c = pc[t].context
    BY <1>1, <1>2 DEF QueueOK, Step
<1>6. Idle \in Step /\ Idle.at = "idle" /\ Idle.answer # "pending"
    BY DEF Idle, Step
<1>7. QueueOK' /\ Others(t) /\ pc'[t] = Idle
    BY <1>1, <1>2, <1>3, <1>6, Moved
<1>8. /\ \A i, v : Destroys(i, v)' => Destroys(i, v)
      /\ \A i, v : Unviews(i, v) => Unviews(i, v)'
    BY <1>2, StillKeeps
<1>9. Keeps(t)
    BY <1>2, <1>3, <1>6, <1>7, <1>8 DEF Keeps, Makes, Leaves
<1>10. LockOK'
    BY <1>1, <1>2, <1>4, <1>6, <1>7, Locking DEF Locked, LockOK
<1>11. Placed(t)'
    BY <1>6, <1>7 DEF Placed, Locked
<1>12. \A v \in Thread, x \in Window :
           pc[v].at \in {"leaving", "arm"} /\ pc[v].window = x =>
           pc'[v].at \in {"leaving", "arm"} /\ pc'[v].window = x
    BY <1>2, <1>7 DEF Others
<1>13. \A v \in Thread : pc[v].at \in {"leaving", "arm"} => pc[v].window \in Window
    BY <1>1 DEF PlaceInv, Placed, Locked
<1>14. CASE contexts[c] # None /\ Binds(t, w, c)
    <2>1. /\ windows' \in [Window -> {"none", "view", "surface"}] /\ windows'[w] = "surface"
          /\ \A v \in Window \ {w} : windows'[v] = windows[v]
          /\ current' \in [Thread -> [window : Window \cup {None}, context : Context \cup {None}]]
          /\ bound' \in [Thread -> [surface : Window \cup {None, Freed},
                                    context : Context \cup {None}]]
          /\ \A u \in Thread \ {t} : bound'[u] = bound[u] /\ current'[u] = current[u]
          /\ bound'[t] = [surface |-> w, context |-> c]
          /\ current'[t].window = w /\ current'[t].context = c
          /\ SurfaceInv'
        BY <1>1, <1>14, Bind
    <2>2. DataOK'
        BY <1>1, <1>2, <2>1 DEF DataOK, sdl, held
    <2>3. PlaceInv'
        <3>1. windows' = [windows EXCEPT ![w] = "surface"]
            BY <1>14 DEF Binds
        <3> QED BY <1>1, <1>2, <1>4, <1>7, <1>8, <1>11, <3>1, PlaceKept DEF held
    <2>4. ViewInv'
        BY <1>1, <1>2, <1>3, <1>6, <1>7, <1>8, <2>1, ViewKept DEF sdl, Others, DataOK
    <2>5. ASSUME NEW u \in Thread
          PROVE Believed(u)'
        <3>1. CASE u = t
            BY <1>2, <1>14, <2>1, <3>1 DEF Believed
        <3>2. CASE u # t
            BY <1>1, <1>2, <1>12, <1>13, <2>1, <3>2, BindBelief
        <3> QED BY <3>1, <3>2
    <2> QED BY <1>9, <1>10, <2>1, <2>2, <2>3, <2>4, <2>5, KeptInv
<1>15. CASE /\ windows' = windows \/ windows' = [windows EXCEPT ![w] = "surface"]
            /\ UNCHANGED <<current, bound>>
    <2>1. /\ windows' \in [Window -> {"none", "view", "surface"}]
          /\ \A v \in Window : windows'[v] = windows[v] \/ windows'[v] = "surface"
        BY <1>1, <1>15 DEF DataOK
    <2>2. DataOK'
        BY <1>1, <1>2, <1>15, <2>1 DEF DataOK, sdl, held
    <2>3. PlaceInv'
        BY <1>1, <1>2, <1>4, <1>7, <1>8, <1>11, <1>15, PlaceKept DEF held
    <2>4. SurfaceInv'
        BY <1>1, <1>15, <2>1 DEF SurfaceInv
    <2>5. ViewInv'
        BY <1>1, <1>2, <1>3, <1>6, <1>7, <1>8, <2>1, ViewKept DEF sdl, Others, DataOK
    <2>6. ASSUME NEW u \in Thread
          PROVE Believed(u)'
        BY <1>1, <1>2, <1>12, <1>13, <1>15, <2>1, BeliefKept
    <2> QED BY <1>9, <1>10, <2>2, <2>3, <2>4, <2>5, <2>6, KeptInv
<1> QED BY <1>4, <1>5, <1>14, <1>15 DEF makeCurrent

(* When a window is let go, what is believed about the others stays right, *)
(* and about this one nothing is believed any more.                        *)
LEMMA DropBelief ==
    ASSUME DataOK, NEW u \in Thread, Believed(u), NEW w \in Window, watchdog' = watchdog,
           current'[u] = current[u], bound[u].surface # w => bound'[u] = bound[u],
           \A v \in Window \ {w} : windows'[v] = windows[v],
           \A c \in Context : c = current[u].context => contexts'[c] = contexts[c],
           \/ \A c \in Context : contexts'[c] # w
           \/ \E v \in Thread : pc'[v].at = "leaving" /\ pc'[v].window = w,
           \A v \in Thread, x \in Window \ {w} :
              pc[v].at \in {"leaving", "arm"} /\ pc[v].window = x =>
              pc'[v].at \in {"leaving", "arm"} /\ pc'[v].window = x,
           \A v \in Thread : pc[v].at \in {"leaving", "arm"} => pc[v].window \in Window
    PROVE Believed(u)'
<1>1. current[u].window \in Window \cup {None} /\ current[u].context \in Context \cup {None}
    BY DEF DataOK
<1>2. (current[u].window # None => current[u].context # None)
      /\ (current[u].context # None => contexts'[current[u].context] # None)
    BY <1>1 DEF Believed
<1>3. CASE current[u].window = w
    BY <1>1, <1>2, <1>3 DEF Believed
<1>4. CASE current[u].window = None
    BY <1>1, <1>2, <1>4 DEF Believed
<1>5. CASE current[u].window \in Window \ {w}
    <2> DEFINE x == current[u].window
               c == current[u].context
    <2>1. SUFFICES ASSUME contexts'[c] = x, watchdog = "off",
                          \A v \in Thread : pc'[v].at \in {"leaving", "arm"} => pc'[v].window # x
                   PROVE bound'[u] = [surface |-> x, context |-> c] /\ windows'[x] = "surface"
        BY <1>2 DEF Believed
    <2>2. \A v \in Thread : pc[v].at \in {"leaving", "arm"} => pc[v].window # x
        BY <1>5, <2>1
    <2>3. contexts[c] = x
        BY <1>1, <1>2, <1>5, <2>1
    <2>4. bound[u] = [surface |-> x, context |-> c] /\ windows[x] = "surface"
        BY <1>5, <2>1, <2>2, <2>3 DEF Believed
    <2>5. bound[u].surface # w
        BY <1>5, <2>4
    <2> QED BY <1>5, <2>4, <2>5
<1> QED BY <1>1, <1>3, <1>4, <1>5

(* createContext keeps the invariant, however EGL answers.                 *)
LEMMA CreateContextKeeps ==
    ASSUME IInv, NEW t \in Thread, createContext(t)
    PROVE IInv'
<1>1. /\ DataOK /\ LockOK /\ QueueOK /\ PlaceInv /\ SurfaceInv /\ \A u \in Thread : Believed(u)
      /\ CountInv /\ LifeInv /\ WatchdogInv
    BY Parts
<1>2. pc[t].at = "windowed" /\ UNCHANGED <<sdl, held, watchdog>>
    BY DEF createContext
<1>3. watchdog # "exited" /\ ViewInv /\ pc[t].answer # "pending"
    BY <1>1, <1>2, Running, Waiting, Parts
<1>4. PICK w \in Window : w = pc[t].window /\ windows[w] # "none" /\ lock = t /\ uses[t][w] > 0
    BY <1>1, <1>2 DEF PlaceInv, Placed, Locked, LockOK
<1>5. Idle \in Step /\ Idle.at = "idle" /\ Idle.answer # "pending"
    BY DEF Idle, Step
<1>6. \A v \in Thread : pc[v].at \in {"leaving", "arm"} => pc[v].window \in Window
    BY <1>1 DEF PlaceInv, Placed, Locked
<1>7. ASSUME pc' = [pc EXCEPT ![t] = Idle], lock' = None, tasks' = tasks,
             \/ windows' = windows
             \/ windows' = [windows EXCEPT ![w] = "surface"]
      PROVE /\ Keeps(t) /\ LockOK' /\ PlaceInv' /\ ViewInv'
            /\ \A v \in Thread, x \in Window :
                  pc[v].at \in {"leaving", "arm"} /\ pc[v].window = x =>
                  pc'[v].at \in {"leaving", "arm"} /\ pc'[v].window = x
    <2>1. QueueOK' /\ Others(t) /\ pc'[t] = Idle
        BY <1>1, <1>3, <1>5, <1>7, Moved
    <2>2. /\ \A i, v : Destroys(i, v)' => Destroys(i, v)
          /\ \A i, v : Unviews(i, v) => Unviews(i, v)'
        BY <1>7, StillKeeps
    <2>3. Keeps(t)
        BY <1>2, <1>3, <1>5, <2>1, <2>2 DEF Keeps, Makes, Leaves
    <2>4. LockOK'
        BY <1>1, <1>4, <1>5, <1>7, <2>1, Locking DEF Locked, LockOK
    <2>5. Placed(t)'
        BY <1>5, <2>1 DEF Placed, Locked
    <2>6. PlaceInv'
        BY <1>1, <1>2, <1>4, <1>7, <2>1, <2>2, <2>5, PlaceKept DEF held
    <2>7. \A v \in Window : windows'[v] = windows[v] \/ windows'[v] = "surface"
        BY <1>1, <1>7 DEF DataOK
    <2>8. ViewInv'
        BY <1>1, <1>2, <1>3, <1>5, <2>1, <2>2, <2>7, ViewKept DEF sdl, Others, DataOK
    <2> QED BY <1>2, <2>1, <2>3, <2>4, <2>6, <2>8 DEF Others
<1>8. CASE \E c \in Context :
              /\ Fresh(c) /\ Binds(t, w, c)
              /\ contexts' = [contexts EXCEPT ![c] = w]
              /\ Return(t) /\ lock' = None /\ UNCHANGED tasks
    <2>1. PICK c \in Context :
              /\ contexts[c] = None /\ Binds(t, w, c)
              /\ contexts' = [contexts EXCEPT ![c] = w]
        BY <1>8 DEF Fresh
    <2>2. pc' = [pc EXCEPT ![t] = Idle] /\ lock' = None /\ tasks' = tasks
        BY <1>8 DEF Return
    <2>3. windows' = [windows EXCEPT ![w] = "surface"]
        BY <2>1 DEF Binds
    <2>4. /\ Keeps(t) /\ LockOK' /\ PlaceInv' /\ ViewInv'
          /\ \A v \in Thread, x \in Window :
                pc[v].at \in {"leaving", "arm"} /\ pc[v].window = x =>
                pc'[v].at \in {"leaving", "arm"} /\ pc'[v].window = x
        BY <1>7, <2>2, <2>3
    <2>5. /\ windows' \in [Window -> {"none", "view", "surface"}] /\ windows'[w] = "surface"
          /\ \A v \in Window \ {w} : windows'[v] = windows[v]
          /\ current' \in [Thread -> [window : Window \cup {None}, context : Context \cup {None}]]
          /\ bound' \in [Thread -> [surface : Window \cup {None, Freed},
                                    context : Context \cup {None}]]
          /\ \A u \in Thread \ {t} : bound'[u] = bound[u] /\ current'[u] = current[u]
          /\ bound'[t] = [surface |-> w, context |-> c]
          /\ current'[t].window = w /\ current'[t].context = c
          /\ SurfaceInv'
        BY <1>1, <2>1, Bind
    <2>6. contexts' \in [Context -> Window \cup {None}] /\ contexts'[c] = w
          /\ \A k \in Context : contexts[k] # None => contexts'[k] = contexts[k]
        BY <1>1, <2>1 DEF DataOK
    <2>7. DataOK'
        BY <1>1, <1>2, <2>5, <2>6 DEF DataOK, sdl, held
    <2>8. ASSUME NEW u \in Thread
          PROVE Believed(u)'
        <3>1. CASE u = t
            BY <2>5, <2>6, <3>1 DEF Believed
        <3>2. CASE u # t
            BY <1>1, <1>2, <1>6, <2>4, <2>5, <2>6, <3>2, BindBelief
        <3> QED BY <3>1, <3>2
    <2> QED BY <2>4, <2>5, <2>7, <2>8, KeptInv
<1>9. CASE Return(t) /\ lock' = None /\ UNCHANGED <<tasks, gl>>
    <2>1. /\ Keeps(t) /\ LockOK' /\ PlaceInv' /\ ViewInv'
          /\ \A v \in Thread, x \in Window :
                pc[v].at \in {"leaving", "arm"} /\ pc[v].window = x =>
                pc'[v].at \in {"leaving", "arm"} /\ pc'[v].window = x
        BY <1>7, <1>9 DEF Return, gl
    <2>2. DataOK' /\ SurfaceInv'
        BY <1>1, <1>2, <1>9 DEF DataOK, SurfaceInv, sdl, held, gl
    <2>3. ASSUME NEW u \in Thread
          PROVE Believed(u)'
        BY <1>1, <1>2, <1>6, <1>9, <2>1, BeliefKept DEF gl
    <2> QED BY <2>1, <2>2, <2>3, KeptInv
<1>10. CASE /\ \A c \in Context : contexts[c] # w
            /\ lock' = t /\ bound' = Unsurfaced(bound, w) /\ destroyWindow(t, "dropping", w)
            /\ UNCHANGED <<contexts, current>>
    <2>1. /\ QueueOK' /\ Others(t) /\ pc'[t].at = "dropping" /\ pc'[t].window = w
          /\ \A i, v : Destroys(i, v)' => Destroys(i, v)
          /\ \A i, v : Unviews(i, v) => Unviews(i, v)'
          /\ windows' \in [Window -> {"none", "view", "surface"}] /\ windows'[w] = "view"
          /\ \A v \in Window \ {w} : windows'[v] = windows[v]
          /\ LockOK' /\ PlaceInv' /\ ViewInv'
        BY <1>1, <1>2, <1>3, <1>4, <1>10, Drops
    <2>2. Keeps(t)
        BY <1>2, <1>3, <2>1 DEF Keeps, Makes, Leaves
    <2>3. /\ bound' \in [Thread -> [surface : Window \cup {None, Freed},
                                    context : Context \cup {None}]]
          /\ \A u \in Thread :
                /\ bound'[u].surface # w
                /\ bound[u].surface # w => bound'[u] = bound[u]
                /\ bound'[u].surface \in Window => bound'[u] = bound[u]
        BY <1>1, <1>10, Unsurface DEF DataOK
    <2>4. DataOK'
        BY <1>1, <1>2, <1>10, <2>1, <2>3 DEF DataOK, sdl, held
    <2>5. SurfaceInv'
        BY <1>1, <2>1, <2>3 DEF SurfaceInv
    <2>6. \A v \in Thread, x \in Window \ {w} :
              pc[v].at \in {"leaving", "arm"} /\ pc[v].window = x =>
              pc'[v].at \in {"leaving", "arm"} /\ pc'[v].window = x
        BY <1>2, <2>1 DEF Others
    <2>7. ASSUME NEW u \in Thread
          PROVE Believed(u)'
        BY <1>1, <1>2, <1>6, <1>10, <2>1, <2>3, <2>6, DropBelief
    <2> QED BY <2>1, <2>2, <2>4, <2>5, <2>7, KeptInv
<1> QED BY <1>4, <1>8, <1>9, <1>10 DEF createContext, dropIfUnused, gl

(* A thread that forgets its context is bound to nothing; without, nothing *)
(* changes.                                                                *)
LEMMA Unbind ==
    ASSUME DataOK, NEW t \in Thread, NEW b,
           \/ Forget(t) /\ b = [bound EXCEPT ![t] = Unbound]
           \/ UNCHANGED current /\ b = bound
    PROVE /\ b \in [Thread -> [surface : Window \cup {None, Freed}, context : Context \cup {None}]]
          /\ current' \in [Thread -> [window : Window \cup {None}, context : Context \cup {None}]]
          /\ \A u \in Thread :
                \/ /\ u = t /\ b[u].surface = None
                   /\ current'[u].window = None /\ current'[u].context = None
                \/ b[u] = bound[u] /\ current'[u] = current[u]
          /\ Forget(t) => current'[t].window = None /\ current'[t].context = None
<1>1. Nothing \in [window : Window \cup {None}, context : Context \cup {None}]
      /\ Unbound \in [surface : Window \cup {None, Freed}, context : Context \cup {None}]
      /\ Nothing.window = None /\ Nothing.context = None /\ Unbound.surface = None
    BY DEF Nothing, Unbound
<1>2. Forget(t) => current'[t].window = None /\ current'[t].context = None
    BY <1>1 DEF Forget, DataOK
<1>3. CASE Forget(t) /\ b = [bound EXCEPT ![t] = Unbound]
    <2>1. b = [bound EXCEPT ![t] = Unbound] /\ current' = [current EXCEPT ![t] = Nothing]
        BY <1>3 DEF Forget
    <2> QED BY <1>1, <1>2, <2>1 DEF DataOK
<1>4. CASE UNCHANGED current /\ b = bound
    BY <1>2, <1>4 DEF DataOK
<1> QED BY <1>3, <1>4

(* windowGone keeps the invariant.                                         *)
LEMMA WindowGoneKeeps ==
    ASSUME IInv, NEW t \in Thread, windowGone(t)
    PROVE IInv'
<1>1. /\ DataOK /\ LockOK /\ QueueOK /\ PlaceInv /\ SurfaceInv /\ \A u \in Thread : Believed(u)
      /\ CountInv /\ LifeInv /\ WatchdogInv
    BY Parts
<1>2. pc[t].at = "gone" /\ lock = None /\ UNCHANGED <<sdl, held, watchdog>>
    BY DEF windowGone
<1>3. watchdog # "exited" /\ ViewInv /\ pc[t].answer # "pending"
    BY <1>1, <1>2, Running, Waiting, Parts
<1>4. PICK w \in Window : w = pc[t].window
    BY <1>1, <1>2 DEF PlaceInv, Placed
<1>5. \A v \in Thread : pc[v].at \in {"leaving", "arm"} => pc[v].window \in Window
    BY <1>1 DEF PlaceInv, Placed, Locked
<1>6. CASE windows[w] = "none" /\ Go(t, "arm") /\ UNCHANGED <<tasks, gl, lock>>
    <2> DEFINE s == [at |-> "arm", window |-> w, context |-> pc[t].context, answer |-> "none"]
    <2>1. /\ s \in Step /\ s.at = "arm" /\ s.window = w /\ s.answer # "pending"
          /\ pc' = [pc EXCEPT ![t] = s] /\ tasks' = tasks
        BY <1>1, <1>4, <1>6 DEF Step, QueueOK, Go
    <2> HIDE DEF s
    <2>2. QueueOK' /\ Others(t) /\ pc'[t] = s
        BY <1>1, <1>3, <2>1, Moved
    <2>3. /\ \A i, v : Destroys(i, v)' => Destroys(i, v)
          /\ \A i, v : Unviews(i, v) => Unviews(i, v)'
        BY <2>1, StillKeeps
    <2>4. Keeps(t)
        BY <1>2, <1>3, <1>4, <2>1, <2>2, <2>3 DEF Keeps, Makes, Leaves
    <2>5. DataOK' /\ SurfaceInv'
        BY <1>1, <1>2, <1>6 DEF DataOK, SurfaceInv, sdl, held, gl
    <2>6. LockOK'
        BY <1>1, <1>2, <1>6, <2>1, <2>2, Locking DEF Locked, LockOK
    <2>7. Placed(t)'
        BY <1>6, <2>1, <2>2 DEF Placed, Locked, gl
    <2>8. PlaceInv'
        BY <1>1, <1>2, <1>6, <2>2, <2>3, <2>7, PlaceKept DEF held, gl
    <2>9. ViewInv'
        BY <1>2, <1>3, <1>6, <2>1, <2>2, <2>3, ViewKept DEF sdl, gl, Others
    <2>10. \A v \in Thread, x \in Window :
               pc[v].at \in {"leaving", "arm"} /\ pc[v].window = x =>
               pc'[v].at \in {"leaving", "arm"} /\ pc'[v].window = x
        BY <1>2, <2>2 DEF Others
    <2>11. ASSUME NEW u \in Thread
           PROVE Believed(u)'
        BY <1>1, <1>2, <1>5, <1>6, <2>10, BeliefKept DEF gl
    <2> QED BY <2>4, <2>5, <2>6, <2>8, <2>9, <2>11, KeptInv
<1>7. CASE /\ windows[w] # "none" /\ lock' = t /\ UNCHANGED contexts
           /\ destroyWindow(t, "leaving", w)
           /\ IF current[t].window = w THEN Forget(t) ELSE UNCHANGED current
           /\ bound' = Unsurfaced(IF current[t].window = w
                                  THEN [bound EXCEPT ![t] = Unbound] ELSE bound, w)
    <2>1. PICK b : b = IF current[t].window = w THEN [bound EXCEPT ![t] = Unbound] ELSE bound
        OBVIOUS
    <2>2. /\ \/ Forget(t) /\ b = [bound EXCEPT ![t] = Unbound]
             \/ UNCHANGED current /\ b = bound
          /\ bound' = Unsurfaced(b, w)
        BY <1>7, <2>1
    <2>3. /\ b \in [Thread -> [surface : Window \cup {None, Freed}, context : Context \cup {None}]]
          /\ current' \in [Thread -> [window : Window \cup {None}, context : Context \cup {None}]]
          /\ \A u \in Thread :
                \/ /\ u = t /\ b[u].surface = None
                   /\ current'[u].window = None /\ current'[u].context = None
                \/ b[u] = bound[u] /\ current'[u] = current[u]
        BY <1>1, <2>2, Unbind
    <2>4. /\ bound' \in [Thread -> [surface : Window \cup {None, Freed},
                                    context : Context \cup {None}]]
          /\ \A u \in Thread :
                /\ bound'[u].surface # w
                /\ b[u].surface # w => bound'[u] = b[u]
                /\ bound'[u].surface \in Window => bound'[u] = b[u]
        BY <2>2, <2>3, Unsurface
    <2>5. /\ QueueOK' /\ Others(t) /\ pc'[t].at = "leaving" /\ pc'[t].window = w
          /\ \A i, v : Destroys(i, v)' => Destroys(i, v)
          /\ \A i, v : Unviews(i, v) => Unviews(i, v)'
          /\ windows' \in [Window -> {"none", "view", "surface"}] /\ windows'[w] = "view"
          /\ \A v \in Window \ {w} : windows'[v] = windows[v]
          /\ LockOK' /\ PlaceInv' /\ ViewInv'
        BY <1>1, <1>2, <1>3, <1>7, Drops
    <2>6. Keeps(t)
        BY <1>2, <1>3, <1>4, <2>5 DEF Keeps, Makes, Leaves
    <2>7. DataOK'
        BY <1>1, <1>2, <1>7, <2>3, <2>4, <2>5 DEF DataOK, sdl, held
    <2>8. SurfaceInv'
        BY <1>1, <2>3, <2>4, <2>5 DEF SurfaceInv
    <2>9. \A v \in Thread, x \in Window \ {w} :
              pc[v].at \in {"leaving", "arm"} /\ pc[v].window = x =>
              pc'[v].at \in {"leaving", "arm"} /\ pc'[v].window = x
        BY <1>2, <2>5 DEF Others
    <2>10. ASSUME NEW u \in Thread
           PROVE Believed(u)'
        <3>1. CASE current'[u].window = None /\ current'[u].context = None
            BY <3>1 DEF Believed
        <3>2. CASE b[u] = bound[u] /\ current'[u] = current[u]
            <4>1. current'[u] = current[u] /\ (bound[u].surface # w => bound'[u] = bound[u])
                BY <2>4, <3>2
            <4> QED BY <1>1, <1>2, <1>5, <1>7, <2>5, <2>9, <4>1, DropBelief
        <3> QED BY <2>3, <3>1, <3>2
    <2> QED BY <2>5, <2>6, <2>7, <2>8, <2>10, KeptInv
<1> QED BY <1>4, <1>6, <1>7 DEF windowGone

(* destroyContext keeps the invariant.                                     *)
LEMMA DestroyContextKeeps ==
    ASSUME IInv, NEW t \in Thread, destroyContext(t)
    PROVE IInv'
<1>1. /\ DataOK /\ LockOK /\ QueueOK /\ PlaceInv /\ SurfaceInv /\ \A u \in Thread : Believed(u)
      /\ CountInv /\ LifeInv /\ WatchdogInv
    BY Parts
<1>2. /\ pc[t].at = "idle" /\ pc[t].answer # "pending" /\ watchdog # "exited"
      /\ lock = None /\ UNCHANGED <<sdl, held, watchdog>>
    BY <1>1, IdleStarts DEF destroyContext
<1>3. ViewInv
    BY <1>2, Parts
<1>4. PICK c \in Context :
          /\ contexts[c] # None
          /\ \A u \in Thread \ {t} : current[u].context # c
          /\ contexts' = [contexts EXCEPT ![c] = None]
          /\ LET w == contexts[c]
                 mine == current[t].context = c
                 b == IF mine THEN [bound EXCEPT ![t] = Unbound] ELSE bound
             IN  /\ IF mine THEN Forget(t) ELSE UNCHANGED current
                 /\ IF windows[w] = "none"
                    THEN bound' = b /\ UNCHANGED <<tasks, windows, lock, pc>>
                    ELSE dropIfUnused(t, w, contexts', b)
    BY DEF destroyContext
<1>5. PICK w \in Window : w = contexts[c]
    BY <1>1, <1>4 DEF DataOK
<1>6. PICK b : b = IF current[t].context = c THEN [bound EXCEPT ![t] = Unbound] ELSE bound
    OBVIOUS
<1>7. /\ \/ Forget(t) /\ b = [bound EXCEPT ![t] = Unbound]
         \/ UNCHANGED current /\ b = bound
      /\ IF windows[w] = "none"
         THEN bound' = b /\ UNCHANGED <<tasks, windows, lock, pc>>
         ELSE dropIfUnused(t, w, contexts', b)
      /\ \A u \in Thread : current[u].context = c => u = t /\ Forget(t)
    BY <1>4, <1>5, <1>6
<1>8. /\ b \in [Thread -> [surface : Window \cup {None, Freed}, context : Context \cup {None}]]
      /\ current' \in [Thread -> [window : Window \cup {None}, context : Context \cup {None}]]
      /\ \A u \in Thread :
            \/ /\ u = t /\ b[u].surface = None
               /\ current'[u].window = None /\ current'[u].context = None
            \/ b[u] = bound[u] /\ current'[u] = current[u] /\ current[u].context # c
    <2>1. /\ b \in [Thread -> [surface : Window \cup {None, Freed}, context : Context \cup {None}]]
          /\ current' \in [Thread -> [window : Window \cup {None}, context : Context \cup {None}]]
          /\ \A u \in Thread :
                \/ /\ u = t /\ b[u].surface = None
                   /\ current'[u].window = None /\ current'[u].context = None
                \/ b[u] = bound[u] /\ current'[u] = current[u]
          /\ Forget(t) => current'[t].window = None /\ current'[t].context = None
        BY <1>1, <1>7, Unbind
    <2> QED BY <1>7, <2>1
<1>9. contexts' \in [Context -> Window \cup {None}]
      /\ \A k \in Context \ {c} : contexts'[k] = contexts[k]
    BY <1>1, <1>4 DEF DataOK
<1>10. \A v \in Thread : pc[v].at \in {"leaving", "arm"} => pc[v].window \in Window
    BY <1>1 DEF PlaceInv, Placed, Locked
<1>11. CASE /\ bound' = b /\ UNCHANGED <<tasks, windows>> /\ lock' = None
            /\ QueueOK' /\ Others(t) /\ pc'[t].at = "idle"
    <2>1. /\ \A i, v : Destroys(i, v)' => Destroys(i, v)
          /\ \A i, v : Unviews(i, v) => Unviews(i, v)'
        BY <1>11, StillKeeps
    <2>2. Keeps(t)
        BY <1>2, <1>11, <2>1 DEF Keeps, Makes, Leaves
    <2>3. DataOK'
        BY <1>1, <1>2, <1>8, <1>9, <1>11 DEF DataOK, sdl, held
    <2>4. LockOK'
        BY <1>1, <1>2, <1>11, Locking DEF Locked
    <2>5. Placed(t)'
        BY <1>11 DEF Placed, Locked
    <2>6. PlaceInv'
        BY <1>1, <1>2, <1>11, <2>1, <2>5, PlaceKept DEF held
    <2>7. SurfaceInv'
        BY <1>1, <1>8, <1>11 DEF SurfaceInv
    <2>8. ViewInv'
        BY <1>2, <1>3, <1>11, <2>1, ViewKept DEF sdl, Others
    <2>9. ASSUME NEW u \in Thread
          PROVE Believed(u)'
        <3>1. CASE current'[u].window = None /\ current'[u].context = None
            BY <3>1 DEF Believed
        <3>2. CASE b[u] = bound[u] /\ current'[u] = current[u] /\ current[u].context # c
            <4>1. /\ current'[u] = current[u] /\ bound'[u] = bound[u] /\ current[u].context # c
                  /\ current[u].window \in Window \cup {None}
                  /\ current[u].context \in Context \cup {None}
                BY <1>1, <1>11, <3>2 DEF DataOK
            <4>2. \A v \in Thread : pc[v].at \in {"leaving", "arm"} <=> pc'[v].at \in {"leaving", "arm"}
                BY <1>2, <1>11 DEF Others
            <4>3. \A v \in Thread : pc[v].at \in {"leaving", "arm"} => pc'[v] = pc[v]
                BY <1>2, <1>11 DEF Others
            <4> QED BY <1>1, <1>2, <1>9, <1>11, <4>1, <4>2, <4>3 DEF Believed
        <3> QED BY <1>8, <3>1, <3>2
    <2> QED BY <2>2, <2>3, <2>4, <2>6, <2>7, <2>8, <2>9, KeptInv
<1>12. CASE /\ windows[w] # "none" /\ \A k \in Context : contexts'[k] # w
            /\ lock' = t /\ bound' = Unsurfaced(b, w) /\ destroyWindow(t, "dropping", w)
    <2>1. /\ QueueOK' /\ Others(t) /\ pc'[t].at = "dropping" /\ pc'[t].window = w
          /\ \A i, v : Destroys(i, v)' => Destroys(i, v)
          /\ \A i, v : Unviews(i, v) => Unviews(i, v)'
          /\ windows' \in [Window -> {"none", "view", "surface"}] /\ windows'[w] = "view"
          /\ \A v \in Window \ {w} : windows'[v] = windows[v]
          /\ LockOK' /\ PlaceInv' /\ ViewInv'
        BY <1>1, <1>2, <1>3, <1>12, Drops
    <2>2. Keeps(t)
        BY <1>2, <2>1 DEF Keeps, Makes, Leaves
    <2>3. /\ bound' \in [Thread -> [surface : Window \cup {None, Freed},
                                    context : Context \cup {None}]]
          /\ \A u \in Thread :
                /\ bound'[u].surface # w
                /\ b[u].surface # w => bound'[u] = b[u]
                /\ bound'[u].surface \in Window => bound'[u] = b[u]
        BY <1>8, <1>12, Unsurface
    <2>4. DataOK'
        BY <1>1, <1>2, <1>8, <1>9, <2>1, <2>3 DEF DataOK, sdl, held
    <2>5. SurfaceInv'
        BY <1>1, <1>8, <2>1, <2>3 DEF SurfaceInv
    <2>6. \A v \in Thread, x \in Window \ {w} :
              pc[v].at \in {"leaving", "arm"} /\ pc[v].window = x =>
              pc'[v].at \in {"leaving", "arm"} /\ pc'[v].window = x
        BY <1>2, <2>1 DEF Others
    <2>7. ASSUME NEW u \in Thread
          PROVE Believed(u)'
        <3>1. CASE current'[u].window = None /\ current'[u].context = None
            BY <3>1 DEF Believed
        <3>2. CASE b[u] = bound[u] /\ current'[u] = current[u] /\ current[u].context # c
            <4>1. /\ current'[u] = current[u] /\ (bound[u].surface # w => bound'[u] = bound[u])
                  /\ current[u].context # c
                BY <2>3, <3>2
            <4>2. \A k \in Context : k = current[u].context => contexts'[k] = contexts[k]
                BY <1>9, <4>1
            <4> QED BY <1>1, <1>2, <1>10, <1>12, <2>1, <2>6, <4>1, <4>2, DropBelief
        <3> QED BY <1>8, <3>1, <3>2
    <2> QED BY <2>1, <2>2, <2>4, <2>5, <2>7, KeptInv
<1>13. CASE windows[w] = "none"
    <2>1. bound' = b /\ UNCHANGED <<tasks, windows, lock, pc>>
        BY <1>7, <1>13
    <2>2. QueueOK' /\ Others(t)
        BY <1>1, <2>1 DEF QueueOK, QueueInv, Others
    <2> QED BY <1>2, <1>11, <2>1, <2>2
<1>14. CASE windows[w] # "none" /\ \E k \in Context : contexts'[k] = w
    <2>1. /\ bound' = b /\ UNCHANGED <<tasks, windows>> /\ lock' = None
          /\ pc' = [pc EXCEPT ![t] = Idle]
        BY <1>7, <1>14 DEF dropIfUnused, Return
    <2>2. Idle \in Step /\ Idle.at = "idle" /\ Idle.answer # "pending"
        BY DEF Idle, Step
    <2>3. QueueOK' /\ Others(t) /\ pc'[t] = Idle
        BY <1>1, <1>2, <2>1, <2>2, Moved
    <2> QED BY <1>11, <2>1, <2>2, <2>3
<1> QED BY <1>7, <1>12, <1>13, <1>14 DEF dropIfUnused

(* The count of one window stays in its range when it counts the holds.    *)
LEMMA LiveType ==
    ASSUME DataOK, CountInv', NEW w \in Window, NEW x, live' = [live EXCEPT ![w] = x]
    PROVE live' \in [Window -> 0..(MaxUse * Cardinality(Thread))]
<1>1. \A v \in Window : live'[v] \in 0..(MaxUse * Cardinality(Thread))
    <2> SUFFICES ASSUME NEW v \in Window
                 PROVE live'[v] \in 0..(MaxUse * Cardinality(Thread))
        OBVIOUS
    <2>1. live'[v] = Cardinality(Holds(v)')
        BY DEF CountInv
    <2>2. MaxUse * Cardinality(Thread) \in Nat
        BY HoldsFinite
    <2>3. Cardinality(Holds(v)') \in Nat /\ Cardinality(Holds(v)') <= MaxUse * Cardinality(Thread)
        BY HoldsFiniteNext
    <2> HIDE DEF Holds
    <2> DEFINE n == Cardinality(Holds(v)')
               m == MaxUse * Cardinality(Thread)
    <2>4. n \in Nat /\ m \in Nat /\ n <= m
        BY <2>2, <2>3
    <2> HIDE DEF n, m
    <2>5. n \in 0..m
        BY <2>4
    <2> QED BY <2>1, <2>5 DEF n, m
<1>2. DOMAIN live' = Window /\ live' = [v \in Window |-> live'[v]]
    BY DEF DataOK
<1> QED BY <1>1, <1>2

(* A step in the count of the users leaves everything else alone.          *)
LEMMA HeldStep ==
    ASSUME IInv, NEW t \in Thread, pc[t].at \in {"idle", "creating"}, watchdog # "exited",
           UNCHANGED <<tasks, sdl, gl, lock, watchdog>>, QueueOK', Others(t),
           pc'[t].at \in {"idle", "gone"}, pc'[t].at = "gone" => pc'[t].window \in Window,
           \A u \in Thread \ {t} : uses'[u] = uses[u],
           uses' \in [Thread -> [Window -> 0..MaxUse]],
           live' \in [Window -> 0..(MaxUse * Cardinality(Thread))],
           CountInv', LifeInv'
    PROVE IInv'
<1>1. /\ DataOK /\ LockOK /\ QueueOK /\ PlaceInv /\ SurfaceInv /\ \A u \in Thread : Believed(u)
      /\ CountInv /\ LifeInv /\ WatchdogInv /\ ViewInv
    BY Parts
<1>2. /\ \A i, v : Destroys(i, v)' => Destroys(i, v)
      /\ \A i, v : Unviews(i, v) => Unviews(i, v)'
    BY StillKeeps
<1>3. DataOK'
    BY <1>1 DEF DataOK, sdl, gl
<1>4. LockOK'
    BY <1>1, Locking DEF Locked, LockOK
<1>5. PlaceInv'
    <2>1. Placed(t)'
        BY DEF Placed, Locked
    <2> QED BY <1>1, <1>2, <2>1, PlaceKept DEF gl
<1>6. SurfaceInv'
    BY <1>1 DEF SurfaceInv, gl
<1>7. ViewInv'
    BY <1>1, <1>2, ViewKept DEF sdl, gl, Others
<1>8. ASSUME NEW u \in Thread
      PROVE Believed(u)'
    BY <1>1, BeliefKept DEF Others, PlaceInv, Placed, Locked, gl
<1>9. WatchdogInv'
    BY <1>1 DEF WatchdogInv
<1>10. TypeOK' /\ QueueInv'
    BY <1>3, <1>4 DEF TypeOK, DataOK, LockOK, QueueOK, Locked
<1> QED BY <1>5, <1>6, <1>7, <1>8, <1>9, <1>10 DEF IInv

(* A window that is handed out again was in use and stays so.              *)
LEMMA ReuseWindowKeeps ==
    ASSUME IInv, NEW t \in Thread, ReuseWindow(t)
    PROVE IInv'
<1>1. DataOK /\ QueueOK /\ CountInv /\ LifeInv
    BY Parts
<1>2. /\ pc[t].at = "idle" /\ watchdog # "exited"
      /\ UNCHANGED <<tasks, sdl, gl, lock, pc, watchdog>>
    BY DEF ReuseWindow, Starts
<1>3. PICK w \in Window :
          /\ live[w] > 0 /\ uses[t][w] < MaxUse
          /\ live' = [live EXCEPT ![w] = live[w] + 1]
          /\ uses' = [uses EXCEPT ![t][w] = @ + 1]
    BY DEF ReuseWindow, reuse, Live
<1>4. CountInv'
    BY <1>1, <1>3, CountUp
<1>5. live' \in [Window -> 0..(MaxUse * Cardinality(Thread))]
    BY <1>1, <1>3, <1>4, LiveType
<1>6. /\ uses' \in [Thread -> [Window -> 0..MaxUse]]
      /\ \A u \in Thread \ {t} : uses'[u] = uses[u]
    BY <1>1, <1>3 DEF DataOK
<1>7. QueueOK' /\ Others(t)
    BY <1>1, <1>2 DEF QueueOK, QueueInv, Others
<1>8. ASSUME NEW v \in Window
      PROVE Life(v)'
    <2>1. live[v] \in Nat /\ (IF v = w THEN live'[v] = live[v] + 1 ELSE live'[v] = live[v])
        BY <1>1, <1>3, HoldsFinite DEF DataOK, CountInv
    <2>2. (live'[v] > 0 => live[v] > 0) /\ (live[v] = 0 => live'[v] = 0)
        BY <1>3, <2>1
    <2>3. \A i : Destroys(i, v)' => Destroys(i, v)
        BY <1>2, StillKeeps
    <2> QED BY <1>1, <1>2, <2>2, <2>3, LifeKept DEF LifeInv, Makes, Leaves, sdl
<1> QED BY <1>2, <1>4, <1>5, <1>6, <1>7, <1>8, HeldStep DEF LifeInv

(* A window that the main thread made is entered for its only user, who    *)
(* is nobody else's.                                                       *)
LEMMA CreatedKeeps ==
    ASSUME IInv, NEW t \in Thread, created(t)
    PROVE IInv'
<1>1. /\ DataOK /\ LockOK /\ QueueOK /\ PlaceInv /\ SurfaceInv /\ \A u \in Thread : Believed(u)
      /\ CountInv /\ LifeInv /\ WatchdogInv
    BY Parts
<1>2. /\ pc[t].at = "creating" /\ pc[t].answer # "pending"
      /\ pc' = [pc EXCEPT ![t] = Idle]
      /\ UNCHANGED <<tasks, sdl, gl, lock, watchdog>>
    BY DEF created, Answered, Return
<1>3. watchdog # "exited" /\ ViewInv
    BY <1>1, <1>2, Running, Parts
<1>4. Idle \in Step /\ Idle.at = "idle" /\ Idle.answer # "pending"
    BY DEF Idle, Step
<1>5. QueueOK' /\ Others(t) /\ pc'[t] = Idle
    BY <1>1, <1>2, <1>4, Moved
<1>6. /\ \A i, v : Destroys(i, v)' => Destroys(i, v)
      /\ \A i, v : Unviews(i, v) => Unviews(i, v)'
    BY <1>2, StillKeeps
<1>7. pc[t].window \in Window \cup {None} /\ (pc[t].answer = "yes" <=> pc[t].window # None)
    BY <1>1, <1>2 DEF QueueOK, Step, PlaceInv, Placed
<1>8. CASE pc[t].window = None
    <2>1. UNCHANGED held
        BY <1>8 DEF created
    <2>2. live' \in [Window -> 0..(MaxUse * Cardinality(Thread))]
          /\ uses' \in [Thread -> [Window -> 0..MaxUse]] /\ uses' = uses
        BY <1>1, <2>1 DEF DataOK, held
    <2>3. Keeps(t)
        BY <1>2, <1>3, <1>4, <1>5, <1>6, <2>1 DEF Keeps, Makes, Leaves
    <2>4. CountInv' /\ LifeInv'
        BY <2>3, Kept
    <2> QED BY <1>2, <1>3, <1>4, <1>5, <2>2, <2>4, HeldStep
<1>9. CASE pc[t].window \in Window
    <2>1. PICK w \in Window : w = pc[t].window
        BY <1>9
    <2>2. Makes(t, w)
        BY <1>2, <1>7, <2>1 DEF Makes
    <2>3. /\ w \in exists /\ live[w] = 0
          /\ \A u \in Thread : ~Leaves(u, w) /\ (Makes(u, w) => u = t)
          /\ \A i : ~Destroys(i, w)
        BY <1>1, <2>2 DEF LifeInv, Life, Destroys
    <2>4. uses[t][w] = 0 /\ uses[t][w] < MaxUse
        <3>1. uses[t][w] = 0
            BY <1>1, <2>3, Unheld
        <3> QED BY <3>1
    <2>5. /\ live' = [live EXCEPT ![w] = live[w] + 1]
          /\ uses' = [uses EXCEPT ![t][w] = @ + 1]
        <3>1. live' = [live EXCEPT ![w] = 1] /\ uses' = [uses EXCEPT ![t][w] = @ + 1]
            BY <2>1 DEF created
        <3> QED BY <2>3, <3>1
    <2>6. CountInv'
        BY <1>1, <2>4, <2>5, CountUp
    <2>7. live' \in [Window -> 0..(MaxUse * Cardinality(Thread))]
        BY <1>1, <2>5, <2>6, LiveType
    <2>8. /\ uses' \in [Thread -> [Window -> 0..MaxUse]]
          /\ \A u \in Thread \ {t} : uses'[u] = uses[u]
        BY <1>1, <2>4, <2>5 DEF DataOK
    <2>9. ASSUME NEW v \in Window
          PROVE Life(v)'
        <3>1. \A u \in Thread : (Makes(u, v)' => Makes(u, v) /\ u # t) /\ (Leaves(u, v)' => Leaves(u, v))
            BY <1>4, <1>5 DEF Makes, Leaves, Others
        <3>2. exists' = exists
            BY <1>2 DEF sdl
        <3>3. CASE v = w
            <4>1. \A u \in Thread : ~Makes(u, v)' /\ ~Leaves(u, v)'
                BY <2>3, <3>1, <3>3
            <4>2. \A i : ~Destroys(i, v)'
                BY <1>6, <2>3, <3>3
            <4> QED BY <2>3, <3>2, <3>3, <4>1, <4>2 DEF Life
        <3>4. CASE v # w
            <4>1. live'[v] = live[v]
                BY <1>1, <2>5, <3>4 DEF DataOK
            <4> QED BY <1>1, <1>6, <3>1, <3>2, <4>1, LifeKept DEF LifeInv
        <3> QED BY <3>3, <3>4
    <2> QED BY <1>2, <1>3, <1>4, <1>5, <2>6, <2>7, <2>8, <2>9, HeldStep DEF LifeInv
<1> QED BY <1>7, <1>8, <1>9

(* SDL_DestroyWindow: the last user of a window begins to destroy it.      *)
LEMMA DestroyWindowKeeps ==
    ASSUME IInv, NEW t \in Thread, DestroyWindow(t)
    PROVE IInv'
<1>1. DataOK /\ QueueOK /\ CountInv /\ LifeInv
    BY Parts
<1>2. /\ pc[t].at = "idle" /\ pc[t].answer # "pending" /\ watchdog # "exited"
      /\ UNCHANGED <<tasks, sdl, gl, lock, watchdog>>
    BY <1>1, IdleStarts DEF DestroyWindow
<1>3. PICK w \in Window :
          /\ uses[t][w] > 0 /\ uses' = [uses EXCEPT ![t][w] = @ - 1] /\ release(t, w)
    BY DEF DestroyWindow
<1>4. /\ live[w] > 0 /\ live[w] \in Nat /\ w \in exists
      /\ \A u \in Thread : ~Makes(u, w) /\ ~Leaves(u, w)
      /\ \A i : ~Destroys(i, w)
    BY <1>1, <1>3, Held, UsedStays
<1>5. live' = [live EXCEPT ![w] = live[w] - 1]
    <2>1. live' = [live EXCEPT ![w] = IF live[w] = 0 THEN 0 ELSE live[w] - 1]
        BY <1>3 DEF release
    <2>2. (IF live[w] = 0 THEN 0 ELSE live[w] - 1) = live[w] - 1
        BY <1>4
    <2> QED BY <2>1, <2>2
<1>6. CountInv'
    BY <1>1, <1>3, <1>5, CountDown
<1>7. live' \in [Window -> 0..(MaxUse * Cardinality(Thread))]
    BY <1>1, <1>5, <1>6, LiveType
<1>8. /\ uses' \in [Thread -> [Window -> 0..MaxUse]]
      /\ \A u \in Thread \ {t} : uses'[u] = uses[u]
    BY <1>1, <1>3 DEF DataOK
<1>9. /\ QueueOK' /\ Others(t)
      /\ \/ live[w] > 1 /\ pc' = pc
         \/ live[w] = 1 /\ pc'[t].at = "gone" /\ pc'[t].window = w
    <2> DEFINE s == [at |-> "gone", window |-> w, context |-> None, answer |-> "none"]
    <2>1. s \in Step /\ s.at = "gone" /\ s.window = w /\ s.answer # "pending"
        BY DEF Step
    <2>2. pc' = IF live[w] > 1 THEN pc ELSE [pc EXCEPT ![t] = s]
        BY <1>3 DEF release
    <2> HIDE DEF s
    <2>3. CASE live[w] > 1
        BY <1>1, <1>2, <2>2, <2>3 DEF QueueOK, QueueInv, Others
    <2>4. CASE live[w] = 1
        <3>1. pc' = [pc EXCEPT ![t] = s] /\ tasks' = tasks
            BY <1>2, <2>2, <2>4
        <3>2. QueueOK' /\ Others(t) /\ pc'[t] = s
            BY <1>1, <1>2, <2>1, <3>1, Moved
        <3> QED BY <2>1, <2>4, <3>2
    <2> QED BY <1>4, <2>3, <2>4
<1>10. ASSUME NEW v \in Window
       PROVE Life(v)'
    <2>1. exists' = exists /\ \A i : Destroys(i, v)' => Destroys(i, v)
        BY <1>2, StillKeeps DEF sdl
    <2>2. \A u \in Thread : Makes(u, v)' => Makes(u, v)
        BY <1>2, <1>9 DEF Makes, Others
    <2>3. \A u \in Thread : Leaves(u, v)' => Leaves(u, v) \/ (v = w /\ u = t /\ live[w] = 1)
        BY <1>2, <1>9 DEF Leaves, Others
    <2>4. CASE v = w
        <3>1. live'[v] = live[w] - 1
            BY <1>1, <1>5, <2>4 DEF DataOK
        <3>2. /\ \A u \in Thread : ~Makes(u, v)' /\ (Leaves(u, v)' => u = t /\ live'[v] = 0)
              /\ \A i : ~Destroys(i, v)'
            BY <1>4, <2>1, <2>2, <2>3, <2>4, <3>1
        <3> QED BY <1>4, <2>1, <2>4, <3>2 DEF Life
    <2>5. CASE v # w
        <3>1. live'[v] = live[v]
            BY <1>1, <1>5, <2>5 DEF DataOK
        <3> QED BY <1>1, <2>1, <2>2, <2>3, <2>5, <3>1, LifeKept DEF LifeInv
    <2> QED BY <2>4, <2>5
<1> QED BY <1>2, <1>6, <1>7, <1>8, <1>9, <1>10, HeldStep DEF LifeInv

(* The destruction of a window is queued, behind the block that takes its  *)
(* view away if there is one, and the watchdog is armed.                   *)
LEMMA ArmExitWatchdogKeeps ==
    ASSUME IInv, NEW t \in Thread, armExitWatchdog(t)
    PROVE IInv'
<1> DEFINE n == Len(tasks) + 1
<1>1. /\ DataOK /\ LockOK /\ QueueOK /\ PlaceInv /\ SurfaceInv /\ \A u \in Thread : Believed(u)
      /\ CountInv /\ LifeInv /\ WatchdogInv
    BY Parts
<1>2. /\ pc[t].at = "arm" /\ UNCHANGED <<sdl, held, gl, lock>>
      /\ watchdog' = IF watchdog = "off" THEN "armed" ELSE watchdog
      /\ Call(t, "destroying", "destroy", pc[t].window)
    BY DEF armExitWatchdog
<1>3. watchdog # "exited" /\ ViewInv /\ pc[t].answer # "pending"
    BY <1>1, <1>2, Running, Waiting, Parts
<1>4. PICK w \in Window : w = pc[t].window /\ windows[w] = "none"
    BY <1>1, <1>2 DEF PlaceInv, Placed
<1>5. /\ w \in exists /\ live[w] = 0
      /\ \A u \in Thread : ~Makes(u, w) /\ (Leaves(u, w) => u = t)
      /\ \A i : ~Destroys(i, w)
    <2>1. Leaves(t, w)
        BY <1>2, <1>4 DEF Leaves
    <2> QED BY <1>1, <2>1 DEF LifeInv, Life, Destroys
<1>6. /\ QueueOK' /\ Others(t) /\ pc'[t].at = "destroying" /\ pc'[t].window = w
      /\ DOMAIN tasks' = DOMAIN tasks \cup {n}
      /\ \A i \in DOMAIN tasks : tasks'[i] = tasks[i] /\ i < n
      /\ tasks'[n].fn = "destroy" /\ tasks'[n].window = w
    <2>1. /\ Queues(t, "destroying", "destroy", w, pc[t].context)
          /\ pc[t].context \in Context \cup {None} /\ "destroying" \in Waits("destroy")
        BY <1>1, <1>2, <1>4, Calls DEF Waits
    <2>2. QueueOK' /\ Others(t) /\ pc'[t].at = "destroying" /\ pc'[t].window = w
        BY <1>1, <1>3, <2>1, Called
    <2>3. DOMAIN tasks' = DOMAIN tasks \cup {n}
        BY <1>1, <1>3, <2>1, Called
    <2>4. \A i \in DOMAIN tasks : tasks'[i] = tasks[i] /\ i < n
        BY <1>1, <1>3, <2>1, Called
    <2>5. tasks'[n].fn = "destroy" /\ tasks'[n].window = w
        BY <1>1, <1>3, <2>1, Called
    <2> QED BY <2>2, <2>3, <2>4, <2>5
<1> HIDE DEF n
<1>7. /\ \A i, v : Destroys(i, v)' => Destroys(i, v) \/ (i = n /\ v = w)
      /\ \A i, v : Unviews(i, v) => Unviews(i, v)' /\ i \in DOMAIN tasks' /\ i < n
    BY <1>6 DEF Destroys, Unviews
<1>8. DataOK'
    BY <1>1, <1>2 DEF DataOK, sdl, held, gl
<1>9. LockOK'
    BY <1>1, <1>2, <1>6, Locking DEF Locked, LockOK
<1>10. CountInv'
    BY <1>1, <1>2 DEF CountInv, Holds, held
<1>11. ASSUME NEW v \in Window
       PROVE Life(v)'
    <2>1. /\ exists' = exists /\ live' = live
          /\ \A u \in Thread : (Makes(u, v)' => Makes(u, v)) /\ (Leaves(u, v)' => Leaves(u, v) /\ u # t)
        BY <1>2, <1>6 DEF sdl, held, Makes, Leaves, Others
    <2>2. CASE v = w
        <3>1. /\ \A u \in Thread : ~Makes(u, v)' /\ ~Leaves(u, v)'
              /\ \A i : Destroys(i, v)' => i = n
            BY <1>5, <1>7, <2>1, <2>2
        <3> QED BY <1>5, <2>1, <2>2, <3>1 DEF Life
    <2>3. CASE v # w
        BY <1>1, <1>7, <2>1, <2>3, LifeKept DEF LifeInv
    <2> QED BY <2>2, <2>3
<1>12. PlaceInv'
    <2>1. ASSUME NEW u \in Thread
          PROVE Placed(u)'
        <3>1. CASE u = t
            BY <1>6, <3>1 DEF Placed, Locked
        <3>2. CASE u # t
            BY <1>1, <1>2, <1>6, <3>2 DEF PlaceInv, Placed, Others, held, gl
        <3> QED BY <3>1, <3>2
    <2>2. \A i : \A v \in Window : Destroys(i, v)' => windows[v] = "none"
        BY <1>1, <1>4, <1>7 DEF PlaceInv, Destroys
    <2>3. windows' = windows
        BY <1>2 DEF gl
    <2> QED BY <2>1, <2>2, <2>3 DEF PlaceInv
<1>13. SurfaceInv'
    BY <1>1, <1>2 DEF SurfaceInv, gl
<1>14. w \in views => \E i \in DOMAIN tasks : Unviews(i, w)
    <2>1. \A u \in Thread : ~(pc[u].at = "viewing" /\ pc[u].window = w)
        <3>1. \A u \in Thread : uses[u][w] = 0
            BY <1>1, <1>5, Unheld
        <3> QED BY <1>1, <3>1 DEF PlaceInv, Placed
    <2> QED BY <1>3, <1>4, <2>1 DEF ViewInv
<1>15. ViewInv'
    <2> SUFFICES ASSUME NEW v \in views'
                 PROVE (/\ \/ windows[v] # "none"
                           \/ \E u \in Thread : pc[u].at = "viewing" /\ pc[u].window = v
                                                /\ pc[u].answer = "yes"
                           \/ \E i \in DOMAIN tasks : Unviews(i, v)
                        /\ \A u \in Thread : pc[u].at \in {"leaving", "dropping"} /\ pc[u].window = v =>
                              \E i \in DOMAIN tasks : Unviews(i, v)
                        /\ \A j \in DOMAIN tasks : Destroys(j, v) =>
                              \E i \in DOMAIN tasks : i < j /\ Unviews(i, v))'
        BY DEF ViewInv
    <2>1. v \in views /\ windows' = windows
        BY <1>2 DEF sdl, gl
    <2>2. \A u \in Thread : u # t => pc'[u] = pc[u]
        BY <1>6 DEF Others
    <2>3. \/ windows'[v] # "none"
          \/ \E u \in Thread : (pc[u].at = "viewing" /\ pc[u].window = v /\ pc[u].answer = "yes")'
          \/ \E i \in DOMAIN tasks' : Unviews(i, v)'
        BY <1>2, <1>3, <1>7, <2>1, <2>2 DEF ViewInv
    <2>4. \A u \in Thread : pc'[u].at \in {"leaving", "dropping"} /\ pc'[u].window = v =>
              \E i \in DOMAIN tasks' : Unviews(i, v)'
        BY <1>3, <1>6, <1>7, <2>1, <2>2 DEF ViewInv
    <2>5. ASSUME NEW j \in DOMAIN tasks', Destroys(j, v)'
          PROVE \E i \in DOMAIN tasks' : i < j /\ Unviews(i, v)'
        <3>1. CASE Destroys(j, v)
            <4>1. j \in DOMAIN tasks
                BY <3>1 DEF Destroys
            <4> QED BY <1>3, <1>7, <2>1, <3>1, <4>1 DEF ViewInv
        <3>2. CASE j = n /\ v = w
            BY <1>7, <1>14, <2>1, <3>2
        <3> QED BY <1>7, <2>5, <3>1, <3>2
    <2> QED BY <2>3, <2>4, <2>5
<1>16. ASSUME NEW u \in Thread
       PROVE Believed(u)'
    <2>1. watchdog' # "off"
        BY <1>2
    <2> QED BY <1>1, <1>2, <2>1 DEF Believed, gl
<1>17. WatchdogInv'
    <2>1. watchdog' # "off" /\ watchdog' # "exited"
        BY <1>2, <1>3
    <2> QED BY <2>1 DEF WatchdogInv
<1>18. TypeOK' /\ QueueInv'
    <2>1. DataOK'
        BY <1>1, <1>2 DEF DataOK, sdl, held, gl
    <2> QED BY <1>6, <1>9, <2>1 DEF TypeOK, DataOK, LockOK, QueueOK, Locked
<1> QED BY <1>10, <1>11, <1>12, <1>13, <1>15, <1>16, <1>17, <1>18 DEF IInv, LifeInv

(* When the process has ended nothing is left to go wrong.                 *)
LEMMA HaltKeeps ==
    ASSUME IInv, Halt
    PROVE IInv'
<1>1. /\ DataOK /\ SurfaceInv /\ CountInv /\ LifeInv /\ \A u \in Thread : Believed(u)
    BY Parts
<1>2. /\ watchdog' = "exited" /\ tasks' = <<>> /\ lock' = None
      /\ pc' = [t \in Thread |-> Idle] /\ UNCHANGED <<sdl, held, gl>>
    BY DEF Halt
<1>3. Idle \in Step /\ Idle.at = "idle" /\ Idle.answer = "none"
    BY DEF Idle, Step
<1>4. \A t \in Thread : pc'[t].at = "idle" /\ pc'[t].answer = "none"
    BY <1>2, <1>3
<1>5. tasks' \in Seq(Task) /\ DOMAIN tasks' = {}
    BY <1>2
<1>6. QueueOK'
    BY <1>2, <1>3, <1>4, <1>5 DEF QueueOK, QueueInv
<1>7. DataOK'
    BY <1>1, <1>2 DEF DataOK, sdl, held, gl
<1>8. LockOK'
    BY <1>2, <1>4 DEF LockOK, Locked
<1>9. CountInv'
    BY <1>1, <1>2 DEF CountInv, Holds, held
<1>10. LifeInv'
    BY <1>1, <1>2, <1>4, <1>5 DEF LifeInv, Life, Makes, Leaves, Destroys, sdl, held
<1>11. PlaceInv'
    BY <1>4, <1>5 DEF PlaceInv, Placed, Locked
<1>12. SurfaceInv'
    BY <1>1, <1>2 DEF SurfaceInv, gl
<1>13. ASSUME NEW u \in Thread
       PROVE Believed(u)'
    BY <1>1, <1>2 DEF Believed, gl
<1>14. WatchdogInv'
    BY <1>2, <1>4 DEF WatchdogInv
<1>15. TypeOK' /\ QueueInv'
    BY <1>6, <1>7, <1>8 DEF TypeOK, DataOK, LockOK, QueueOK, Locked
<1> QED BY <1>2, <1>9, <1>10, <1>11, <1>12, <1>13, <1>14, <1>15 DEF IInv

(* What the first block does to the places: only the thread that waits for *)
(* it is answered, and stays where it is.                                  *)
LEMMA RanPlaces ==
    ASSUME QueueOK, RunMain, NEW answer \in Window \cup {None}, Answer(tasks[1], answer),
           NEW u \in Thread
    PROVE /\ pc'[u].at = pc[u].at
          /\ u # tasks[1].by => pc'[u] = pc[u]
          /\ u = tasks[1].by =>
                /\ pc[u].answer = "pending" /\ pc[u].at \in Waits(tasks[1].fn)
                /\ pc'[u].answer = (IF answer = None THEN "no" ELSE "yes")
                /\ pc'[u].window = (IF tasks[1].fn = "create" THEN answer ELSE pc[u].window)
                /\ tasks[1].fn # "create" => pc[u].window = tasks[1].window
<1>1. 1 \in DOMAIN tasks
    BY Ran
<1>2. CASE u # tasks[1].by
    <2>1. pc'[u] = pc[u]
        BY <1>2 DEF Answer, QueueOK
    <2> QED BY <1>2, <2>1
<1>3. CASE u = tasks[1].by
    <2> DEFINE s == [at |-> pc[u].at,
                     window |-> IF tasks[1].fn = "create" THEN answer ELSE pc[u].window,
                     context |-> pc[u].context,
                     answer |-> IF answer = None THEN "no" ELSE "yes"]
    <2>1. u # None
        OBVIOUS
    <2>2. pc' = [pc EXCEPT ![u] = s]
        BY <1>3, <2>1 DEF Answer
    <2>3. /\ s.at = pc[u].at /\ s.answer = (IF answer = None THEN "no" ELSE "yes")
          /\ s.window = (IF tasks[1].fn = "create" THEN answer ELSE pc[u].window)
        OBVIOUS
    <2> HIDE DEF s
    <2>4. pc'[u] = s
        BY <2>2 DEF QueueOK
    <2>5. /\ pc[u].answer = "pending" /\ pc[u].at \in Waits(tasks[1].fn)
          /\ tasks[1].fn # "create" => pc[u].window = tasks[1].window
        BY <1>1, <1>3, <2>1 DEF QueueOK, QueueInv
    <2> QED BY <1>3, <2>3, <2>4, <2>5
<1> QED BY <1>2, <1>3

(* A block of the main thread keeps the life of every window: a creation   *)
(* makes one that did not exist, a destruction ends one that nobody has.   *)
LEMMA RanLife ==
    ASSUME IInv, RunMain
    PROVE LifeInv'
<1>1. /\ DataOK /\ QueueOK /\ LifeInv /\ live' = live
    BY Parts DEF RunMain, held
<1>2. /\ 1 \in DOMAIN tasks /\ DOMAIN tasks' = 1..(Len(tasks) - 1) /\ Len(tasks) \in Nat
      /\ \A i \in DOMAIN tasks' : i + 1 \in DOMAIN tasks /\ tasks'[i] = tasks[i + 1]
    BY <1>1, Ran
<1>3. PICK answer \in Window \cup {None} :
          Run(tasks[1].fn, tasks[1].window, answer) /\ Answer(tasks[1], answer)
    BY <1>1, Ran
<1>4. \A i, v : Destroys(i, v)' => i \in Nat /\ i >= 1 /\ Destroys(i + 1, v)
    BY <1>2 DEF Destroys
<1>5. \A u \in Thread :
          /\ pc'[u].at = pc[u].at
          /\ u # tasks[1].by => pc'[u] = pc[u]
          /\ u = tasks[1].by =>
                /\ pc[u].at \in Waits(tasks[1].fn)
                /\ pc'[u].window = (IF tasks[1].fn = "create" THEN answer ELSE pc[u].window)
    BY <1>1, <1>3, RanPlaces
<1>6. \A u \in Thread, v \in Window : Leaves(u, v)' => Leaves(u, v)
    BY <1>5 DEF Leaves, Waits
<1>7. ASSUME NEW u \in Thread, NEW v \in Window, Makes(u, v)'
      PROVE Makes(u, v) \/ (tasks[1].fn = "create" /\ v = answer /\ u = tasks[1].by)
    BY <1>5, <1>7 DEF Makes, Waits
<1>8. SUFFICES ASSUME NEW v \in Window
               PROVE Life(v)'
    BY DEF LifeInv
<1>9. Life(v)
    BY <1>1 DEF LifeInv
<1>10. CASE tasks[1].fn = "create" /\ v = answer
    <2>1. v \notin exists /\ v \in exists'
        BY <1>3, <1>10 DEF Run, DataOK
    <2>2. /\ \A u \in Thread : ~Makes(u, v) /\ ~Leaves(u, v)
          /\ \A i : ~Destroys(i, v)
          /\ ~(live[v] > 0)
        BY <1>9, <2>1 DEF Life, Destroys
    <2>3. live'[v] = 0
        BY <1>1, <2>2 DEF DataOK
    <2>4. /\ \A u \in Thread : ~Leaves(u, v)' /\ (Makes(u, v)' => u = tasks[1].by)
          /\ \A i : ~Destroys(i, v)'
        BY <1>4, <1>6, <1>7, <2>2
    <2> QED BY <2>1, <2>3, <2>4 DEF Life
<1>11. CASE tasks[1].fn = "destroy" /\ v = tasks[1].window
    <2>1. Destroys(1, v)
        BY <1>2, <1>11 DEF Destroys
    <2>2. /\ \A u \in Thread : ~Makes(u, v) /\ ~Leaves(u, v)
          /\ \A i : Destroys(i, v) => i = 1
          /\ live[v] = 0
        BY <1>2, <1>9, <2>1 DEF Life, Destroys
    <2>3. \A u \in Thread : ~Leaves(u, v)' /\ ~Makes(u, v)'
        BY <1>6, <1>7, <1>11, <2>2
    <2>4. \A i : ~Destroys(i, v)'
        <3> SUFFICES ASSUME NEW i, Destroys(i, v)'
                     PROVE FALSE
            OBVIOUS
        <3>1. i \in Nat /\ i >= 1 /\ i + 1 = 1
            BY <1>4, <2>2
        <3> QED BY <3>1
    <2> QED BY <1>1, <2>2, <2>3, <2>4 DEF Life
<1>12. CASE /\ ~(tasks[1].fn = "create" /\ v = answer)
            /\ ~(tasks[1].fn = "destroy" /\ v = tasks[1].window)
    <2>1. v \in exists => v \in exists'
        BY <1>3, <1>12 DEF Run, sdl
    <2>2. \A u \in Thread : Makes(u, v)' => Makes(u, v)
        BY <1>7, <1>12
    <2>3. \A i : Destroys(i, v)' => i \in Nat /\ Destroys(i + 1, v)
        BY <1>4
    <2> QED BY <1>1, <1>6, <1>9, <2>1, <2>2, <2>3, LifeKept
<1> QED BY <1>10, <1>11, <1>12

(* It keeps every view accounted for: a new one by the thread that waits   *)
(* for it, and the block that takes a view away takes it out of views.     *)
LEMMA RanViews ==
    ASSUME IInv, RunMain, watchdog # "exited"
    PROVE ViewInv'
<1>1. /\ DataOK /\ LockOK /\ QueueOK /\ CountInv /\ LifeInv /\ PlaceInv /\ ViewInv
      /\ windows' = windows
    BY Parts DEF RunMain, gl
<1>2. /\ 1 \in DOMAIN tasks /\ DOMAIN tasks = 1..Len(tasks) /\ Len(tasks) \in Nat
      /\ DOMAIN tasks' = 1..(Len(tasks) - 1)
      /\ \A i \in DOMAIN tasks' : i + 1 \in DOMAIN tasks /\ tasks'[i] = tasks[i + 1]
    BY <1>1, Ran
<1>3. PICK answer \in Window \cup {None} :
          Run(tasks[1].fn, tasks[1].window, answer) /\ Answer(tasks[1], answer)
    BY <1>1, Ran
<1>4. \A i, v : Destroys(i, v)' => i \in DOMAIN tasks' /\ i + 1 \in DOMAIN tasks
                                   /\ Destroys(i + 1, v)
    BY <1>2 DEF Destroys
<1>5. ASSUME NEW v, NEW i \in DOMAIN tasks, i # 1, Unviews(i, v)
      PROVE i - 1 \in DOMAIN tasks' /\ Unviews(i - 1, v)'
    <2>1. i - 1 \in DOMAIN tasks' /\ (i - 1) + 1 = i
        BY <1>2, <1>5
    <2>2. tasks'[i - 1] = tasks[i]
        BY <1>2, <2>1
    <2> QED BY <1>5, <2>1, <2>2 DEF Unviews
<1>6. \A u \in Thread :
          /\ pc'[u].at = pc[u].at
          /\ u # tasks[1].by => pc'[u] = pc[u]
          /\ u = tasks[1].by =>
                /\ pc[u].answer = "pending" /\ pc[u].at \in Waits(tasks[1].fn)
                /\ pc'[u].answer = (IF answer = None THEN "no" ELSE "yes")
                /\ pc'[u].window = (IF tasks[1].fn = "create" THEN answer ELSE pc[u].window)
                /\ tasks[1].fn # "create" => pc[u].window = tasks[1].window
    BY <1>1, <1>3, RanPlaces
<1>7. \A u \in Thread : pc[u].at # "creating" => pc'[u].window = pc[u].window
    BY <1>6 DEF Waits
<1> SUFFICES ASSUME NEW v \in views'
             PROVE (/\ \/ windows[v] # "none"
                       \/ \E u \in Thread : pc[u].at = "viewing" /\ pc[u].window = v
                                            /\ pc[u].answer = "yes"
                       \/ \E i \in DOMAIN tasks : Unviews(i, v)
                    /\ \A u \in Thread : pc[u].at \in {"leaving", "dropping"} /\ pc[u].window = v =>
                          \E i \in DOMAIN tasks : Unviews(i, v)
                    /\ \A j \in DOMAIN tasks : Destroys(j, v) =>
                          \E i \in DOMAIN tasks : i < j /\ Unviews(i, v))'
    BY DEF ViewInv
<1>8. CASE tasks[1].fn = "createView" /\ v = tasks[1].window /\ tasks[1].by # None /\ answer = v
    <2>1. PICK u \in Thread : u = tasks[1].by
        BY <1>1, <1>2, <1>8, Blocks DEF QueueOK
    <2>2. /\ pc[u].at = "viewing" /\ pc[u].window = v
          /\ pc'[u].at = "viewing" /\ pc'[u].window = v /\ v \in Window
        BY <1>1, <1>6, <1>8, <2>1 DEF Waits, PlaceInv, Placed, Locked
    <2>3. pc'[u].answer = "yes"
        BY <1>6, <1>8, <2>1, <2>2
    <2>4. \A x \in Thread : pc'[x].at \notin {"leaving", "dropping"}
        BY <1>1, <1>6, <2>2 DEF LockOK, Locked
    <2>5. \A i : ~Destroys(i, v)'
        <3>1. uses[u][v] > 0
            BY <1>1, <2>2 DEF PlaceInv, Placed
        <3>2. \A i : ~Destroys(i, v)
            BY <1>1, <2>2, <3>1, UsedStays
        <3> QED BY <1>4, <3>2
    <2> QED BY <2>2, <2>3, <2>4, <2>5
<1>9. CASE v \in views /\ ~(tasks[1].fn = "destroyView" /\ v = tasks[1].window)
    <2>1. \A i : Unviews(i, v) => i \in DOMAIN tasks /\ i # 1
        BY <1>9 DEF Unviews
    <2>2. \A i : Unviews(i, v) => i - 1 \in DOMAIN tasks' /\ Unviews(i - 1, v)'
        BY <1>5, <2>1
    <2>3. \/ windows'[v] # "none"
          \/ \E u \in Thread : (pc[u].at = "viewing" /\ pc[u].window = v /\ pc[u].answer = "yes")'
          \/ \E i \in DOMAIN tasks' : Unviews(i, v)'
        <3>1. CASE windows[v] # "none"
            BY <1>1, <3>1
        <3>2. CASE \E u \in Thread : pc[u].at = "viewing" /\ pc[u].window = v /\ pc[u].answer = "yes"
            BY <1>6, <3>2
        <3>3. CASE \E i \in DOMAIN tasks : Unviews(i, v)
            BY <2>2, <3>3
        <3> QED BY <1>1, <1>9, <3>1, <3>2, <3>3 DEF ViewInv
    <2>4. ASSUME NEW u \in Thread, pc'[u].at \in {"leaving", "dropping"}, pc'[u].window = v
          PROVE \E i \in DOMAIN tasks' : Unviews(i, v)'
        <3>1. pc[u].at \in {"leaving", "dropping"} /\ pc[u].window = v
            BY <1>6, <1>7, <2>4
        <3>2. PICK i \in DOMAIN tasks : Unviews(i, v)
            BY <1>1, <1>9, <3>1 DEF ViewInv
        <3> QED BY <2>2, <3>2
    <2>5. ASSUME NEW j \in DOMAIN tasks', Destroys(j, v)'
          PROVE \E i \in DOMAIN tasks' : i < j /\ Unviews(i, v)'
        <3>1. j + 1 \in DOMAIN tasks /\ Destroys(j + 1, v)
            BY <1>4, <2>5
        <3>2. PICK i \in DOMAIN tasks : i < j + 1 /\ Unviews(i, v)
            BY <1>1, <1>9, <3>1 DEF ViewInv
        <3>3. i - 1 \in DOMAIN tasks' /\ Unviews(i - 1, v)'
            BY <2>2, <3>2
        <3>4. i - 1 < j
            BY <1>2, <3>2
        <3> QED BY <3>3, <3>4
    <2> QED BY <2>3, <2>4, <2>5
<1> QED BY <1>3, <1>8, <1>9 DEF Run, sdl

(* The main thread keeps the invariant.                                    *)
LEMMA RunMainKeeps ==
    ASSUME IInv, RunMain
    PROVE IInv'
<1>1. /\ DataOK /\ LockOK /\ QueueOK /\ CountInv /\ LifeInv /\ PlaceInv /\ SurfaceInv
      /\ WatchdogInv /\ \A u \in Thread : Believed(u)
      /\ UNCHANGED <<held, gl, lock, watchdog>>
    BY Parts DEF RunMain
<1>2. /\ QueueOK' /\ 1 \in DOMAIN tasks /\ DOMAIN tasks' = 1..(Len(tasks) - 1)
      /\ Len(tasks) \in Nat
      /\ \A i \in DOMAIN tasks' : i + 1 \in DOMAIN tasks /\ tasks'[i] = tasks[i + 1]
    BY <1>1, Ran
<1>3. PICK answer \in Window \cup {None} :
          Run(tasks[1].fn, tasks[1].window, answer) /\ Answer(tasks[1], answer)
    BY <1>1, Ran
<1>4. watchdog # "exited" /\ ViewInv
    <2>1. tasks # <<>>
        BY DEF RunMain
    <2> QED BY <1>1, <2>1, Parts DEF WatchdogInv
<1>5. \A u \in Thread :
          /\ pc'[u].at = pc[u].at
          /\ u # tasks[1].by => pc'[u] = pc[u]
          /\ u = tasks[1].by =>
                /\ pc[u].at \in Waits(tasks[1].fn)
                /\ pc'[u].answer = (IF answer = None THEN "no" ELSE "yes")
                /\ pc'[u].window = (IF tasks[1].fn = "create" THEN answer ELSE pc[u].window)
    BY <1>1, <1>3, RanPlaces
<1>6. \A u \in Thread : pc[u].at # "creating" => pc'[u].window = pc[u].window
    BY <1>5 DEF Waits
<1>7. DataOK'
    <2>1. tasks[1].fn = "createView" /\ answer = tasks[1].window /\ tasks[1].by # None =>
              tasks[1].window \in Window
        BY <1>1, <1>2 DEF QueueOK, QueueInv
    <2>2. exists' \subseteq Window /\ views' \subseteq Window
        BY <1>1, <1>2, <1>3, <2>1 DEF Run, DataOK, sdl, RunMain
    <2> QED BY <1>1, <2>2 DEF DataOK, held, gl
<1>8. LockOK'
    BY <1>1, <1>5 DEF LockOK
<1>9. CountInv'
    BY <1>1 DEF CountInv, Holds, held
<1>10. PlaceInv'
    <2>1. ASSUME NEW u \in Thread
          PROVE Placed(u)'
        <3>1. Placed(u) /\ uses' = uses /\ windows' = windows
            BY <1>1 DEF PlaceInv, held, gl
        <3>2. CASE pc[u].at = "creating"
            <4>1. u = tasks[1].by => tasks[1].fn = "create"
                BY <1>1, <1>2, <1>5, <3>2 DEF Waits
            <4> QED BY <1>5, <3>1, <3>2, <4>1 DEF Placed, Locked
        <3>3. CASE pc[u].at # "creating"
            BY <1>5, <1>6, <3>1, <3>3 DEF Placed
        <3> QED BY <3>2, <3>3
    <2>2. ASSUME NEW w \in Window, NEW i \in DOMAIN tasks', Destroys(i, w)'
          PROVE windows'[w] = "none"
        <3>1. i + 1 \in DOMAIN tasks /\ Destroys(i + 1, w)
            BY <1>2, <2>2 DEF Destroys
        <3> QED BY <1>1, <3>1 DEF PlaceInv, gl
    <2> QED BY <2>1, <2>2 DEF PlaceInv
<1>11. SurfaceInv'
    BY <1>1 DEF SurfaceInv, gl
<1>12. ASSUME NEW u \in Thread
       PROVE Believed(u)'
    <2>1. \A v \in Thread, w \in Window :
              pc[v].at \in {"leaving", "arm"} /\ pc[v].window = w =>
              pc'[v].at \in {"leaving", "arm"} /\ pc'[v].window = w
        BY <1>5, <1>6
    <2>2. \A v \in Thread : pc[v].at \in {"leaving", "arm"} => pc[v].window \in Window
        BY <1>1 DEF PlaceInv, Placed, Locked
    <2> QED BY <1>1, <2>1, <2>2, BeliefKept DEF gl
<1>13. WatchdogInv'
    <2>1. \A i \in DOMAIN tasks' : tasks'[i].fn = "destroy" =>
              \E j \in DOMAIN tasks : tasks[j].fn = "destroy"
        BY <1>2
    <2> QED BY <1>1, <1>4, <2>1 DEF WatchdogInv
<1>14. LifeInv' /\ ViewInv'
    BY <1>4, RanLife, RanViews
<1>15. TypeOK' /\ QueueInv'
    BY <1>2, <1>7, <1>8 DEF TypeOK, DataOK, LockOK, QueueOK, Locked
<1> QED BY <1>9, <1>10, <1>11, <1>12, <1>13, <1>14, <1>15 DEF IInv

-----------------------------------------------------------------------------
(* The invariant holds always.                                             *)

(* At first there is nothing.                                              *)
LEMMA InvInit == Init => IInv
<1> SUFFICES ASSUME Init PROVE IInv
    OBVIOUS
<1>1. /\ tasks = <<>> /\ exists = {} /\ views = {}
      /\ live = [w \in Window |-> 0]
      /\ uses = [t \in Thread |-> [w \in Window |-> 0]]
      /\ windows = [w \in Window |-> "none"] /\ contexts = [c \in Context |-> None]
      /\ current = [t \in Thread |-> Nothing] /\ bound = [t \in Thread |-> Unbound]
      /\ lock = None /\ pc = [t \in Thread |-> Idle] /\ watchdog = "off"
    BY DEF Init
<1>2. /\ Idle \in Step /\ Idle.at = "idle" /\ Idle.answer = "none"
      /\ Nothing \in [window : Window \cup {None}, context : Context \cup {None}]
      /\ Unbound \in [surface : Window \cup {None, Freed}, context : Context \cup {None}]
      /\ Nothing.window = None /\ Nothing.context = None /\ Unbound.surface = None
    BY DEF Idle, Step, Nothing, Unbound
<1>3. \A t \in Thread : pc[t].at = "idle" /\ pc[t].answer = "none"
    BY <1>1, <1>2
<1>4. tasks \in Seq(Task) /\ DOMAIN tasks = {}
    BY <1>1
<1>5. QueueOK
    BY <1>1, <1>2, <1>3, <1>4 DEF QueueOK, QueueInv
<1>6. LockOK
    BY <1>1, <1>3 DEF LockOK, Locked
<1>7. CountInv
    <2> SUFFICES ASSUME NEW w \in Window
                 PROVE live[w] = Cardinality(Holds(w))
        BY DEF CountInv
    <2>1. Holds(w) = {}
        BY <1>1 DEF Holds
    <2> QED BY <1>1, <2>1, FS_EmptySet
<1>8. DataOK
    <2>1. 0 \in 0..(MaxUse * Cardinality(Thread))
        <3>1. \A m \in Nat : 0 \in 0..m
            OBVIOUS
        <3>2. MaxUse * Cardinality(Thread) \in Nat
            <4>1. Cardinality(Thread) \in Nat
                BY FS_CardinalityType
            <4> QED BY <4>1
        <3> QED BY <3>1, <3>2
    <2>2. live \in [Window -> 0..(MaxUse * Cardinality(Thread))]
        BY <1>1, <2>1
    <2>3. uses \in [Thread -> [Window -> 0..MaxUse]]
        BY <1>1
    <2> QED BY <1>1, <1>2, <2>2, <2>3 DEF DataOK
<1>9. LifeInv
    BY <1>1, <1>3, <1>4 DEF LifeInv, Life, Makes, Leaves, Destroys
<1>10. PlaceInv
    BY <1>3, <1>4 DEF PlaceInv, Placed, Locked
<1>11. SurfaceInv
    BY <1>1, <1>2 DEF SurfaceInv
<1>12. ViewInv
    BY <1>1 DEF ViewInv
<1>13. WatchdogInv
    BY <1>1, <1>4 DEF WatchdogInv
<1>14. \A t \in Thread : Believed(t)
    BY <1>1, <1>2 DEF Believed
<1> QED BY <1>5, <1>6, <1>7, <1>8, <1>9, <1>10, <1>11, <1>12, <1>13, <1>14, Parts

(* Every step keeps it.                                                    *)
LEMMA InvStep == IInv /\ [Next]_vars => IInv'
<1> SUFFICES ASSUME IInv, [Next]_vars PROVE IInv'
    OBVIOUS
<1>1. CASE UNCHANGED vars
    BY <1>1 DEF IInv, vars, sdl, held, gl, TypeOK, QueueInv, CountInv, Holds, LifeInv, Life,
           Makes, Leaves, Destroys, PlaceInv, Placed, SurfaceInv, WatchdogInv, ViewInv, Unviews,
           Believed
<1>2. CASE RunMain
    BY <1>2, RunMainKeeps
<1>3. CASE Halt
    BY <1>3, HaltKeeps
<1>4. ASSUME NEW t \in Thread,
             \/ ReuseWindow(t) \/ CreateWindow(t) \/ created(t) \/ DestroyWindow(t)
             \/ windowGone(t) \/ Unviewed(t) \/ armExitWatchdog(t) \/ Destroyed(t)
             \/ EnterGL(t) \/ Viewed(t) \/ createContext(t) \/ makeCurrent(t)
             \/ MakeNoneCurrent(t) \/ destroyContext(t) \/ GiveUp(t)
      PROVE IInv'
    BY <1>4, ReuseWindowKeeps, CreateWindowKeeps, CreatedKeeps, DestroyWindowKeeps,
       WindowGoneKeeps, UnviewedKeeps, ArmExitWatchdogKeeps, DestroyedKeeps, EnterGLKeeps,
       ViewedKeeps, CreateContextKeeps, MakeCurrentKeeps, MakeNoneCurrentKeeps,
       DestroyContextKeeps, GiveUpKeeps
<1> QED BY <1>1, <1>2, <1>3, <1>4 DEF Next, Ended

(* The inductive invariant: users are counted, the life of a window has    *)
(* one step at a time, and views and surfaces are recorded.                *)
THEOREM InvCorrect == Spec => []IInv
BY InvInit, InvStep, PTL DEF Spec

(* The types, with the lock of SDL3GLContext held exactly in its methods   *)
(* and a thread waiting exactly while a block of its own is queued.        *)
THEOREM TypeCorrect == Spec => []TypeOK
<1>1. IInv => TypeOK
    BY DEF IInv
<1> QED BY <1>1, InvCorrect, PTL

(* What makeCurrent answers from is so: a thread that believes a context   *)
(* current on a window it holds has it bound to a surface that exists.     *)
THEOREM CurrentIsBoundCorrect == Spec => []CurrentIsBound
<1>1. IInv => CurrentIsBound
    <2> SUFFICES ASSUME IInv, NEW t \in Thread,
                        current[t].window # None,
                        contexts[current[t].context] = current[t].window,
                        uses[t][current[t].window] > 0, watchdog = "off"
                 PROVE /\ bound[t] = [surface |-> current[t].window,
                                      context |-> current[t].context]
                       /\ windows[current[t].window] = "surface"
        BY DEF CurrentIsBound
    <2>1. DataOK /\ CountInv /\ LifeInv /\ Believed(t)
        BY Parts
    <2>2. current[t].window \in Window
        BY <2>1 DEF DataOK
    <2>3. \A u \in Thread : ~Leaves(u, current[t].window)
        BY <2>1, <2>2, UsedStays
    <2>4. \A u \in Thread : pc[u].at \in {"leaving", "arm"} => pc[u].window # current[t].window
        BY <2>3 DEF Leaves
    <2> QED BY <2>1, <2>4 DEF Believed
<1> QED BY <1>1, InvCorrect, PTL

(* Only a block of the main thread ends a window of SDL, one that destroys *)
(* it and that is the first of the queue.                                  *)
LEMMA Ends ==
    ASSUME IInv, [Next]_vars, NEW w \in exists \ exists'
    PROVE w \in Window /\ Destroys(1, w)
<1>1. RunMain
    <2>1. \/ UNCHANGED vars \/ RunMain \/ Halt
          \/ \E t \in Thread :
                \/ ReuseWindow(t) \/ CreateWindow(t) \/ created(t) \/ DestroyWindow(t)
                \/ windowGone(t) \/ Unviewed(t) \/ armExitWatchdog(t) \/ Destroyed(t)
                \/ EnterGL(t) \/ Viewed(t) \/ createContext(t) \/ makeCurrent(t)
                \/ MakeNoneCurrent(t) \/ destroyContext(t) \/ GiveUp(t)
        BY DEF Next, Ended
    <2> QED BY <2>1 DEF vars, sdl, Halt, ReuseWindow, CreateWindow, created, DestroyWindow,
               windowGone, Unviewed, armExitWatchdog, Destroyed, EnterGL, Viewed,
               createContext, makeCurrent, MakeNoneCurrent, destroyContext, GiveUp
<1>2. QueueOK /\ w \in Window
    BY Parts DEF DataOK
<1>3. PICK answer \in Window \cup {None} : Run(tasks[1].fn, tasks[1].window, answer)
    BY <1>1, <1>2, Ran
<1>4. 1 \in DOMAIN tasks
    BY <1>1, <1>2, Ran
<1> QED BY <1>2, <1>3, <1>4 DEF Run, Destroys, sdl

(* SDL3Windows.release answers truly that the window is unused: none is    *)
(* destroyed while a thread of the game holds it.                          *)
THEOREM DestroyedUnusedCorrect == Spec => DestroyedUnused
<1>1. IInv /\ [Next]_vars => [\A w \in exists \ exists', t \in Thread : uses[t][w] = 0]_vars
    <2> SUFFICES ASSUME IInv, [Next]_vars, NEW w \in exists \ exists', NEW t \in Thread
                 PROVE uses[t][w] = 0
        OBVIOUS
    <2>1. w \in Window /\ Destroys(1, w)
        BY Ends
    <2>2. DataOK /\ CountInv /\ LifeInv
        BY Parts
    <2>3. live[w] = 0
        BY <2>1, <2>2 DEF LifeInv, Life, Destroys
    <2> QED BY <2>1, <2>2, <2>3, Unheld
<1> QED BY <1>1, InvCorrect, PTL DEF Spec, DestroyedUnused

(* The surface and the metal view of a window go first, also when the main *)
(* thread was given up on.                                                 *)
THEOREM ViewsGoFirstCorrect == Spec => ViewsGoFirst
<1>1. IInv /\ [Next]_vars => [\A w \in exists \ exists' :
                                 /\ w \notin views
                                 /\ \A t \in Thread : bound[t].surface # w]_vars
    <2> SUFFICES ASSUME IInv, [Next]_vars, NEW w \in exists \ exists'
                 PROVE w \notin views /\ \A t \in Thread : bound[t].surface # w
        OBVIOUS
    <2>1. w \in Window /\ Destroys(1, w)
        BY Ends
    <2>2. PlaceInv /\ SurfaceInv /\ QueueOK /\ WatchdogInv
        BY Parts
    <2>3. 1 \in DOMAIN tasks /\ DOMAIN tasks = 1..Len(tasks) /\ Len(tasks) \in Nat
        BY <2>1, <2>2, Blocks DEF Destroys, QueueOK
    <2>4. watchdog # "exited"
        BY <2>2, <2>3 DEF WatchdogInv
    <2>5. ViewInv
        BY <2>4, Parts
    <2>6. w \notin views
        <3> SUFFICES ASSUME w \in views PROVE FALSE
            OBVIOUS
        <3>1. PICK i \in DOMAIN tasks : i < 1
            BY <2>1, <2>3, <2>5 DEF ViewInv
        <3> QED BY <2>3, <3>1
    <2>7. windows[w] = "none"
        BY <2>1, <2>2, <2>3 DEF PlaceInv
    <2> QED BY <2>1, <2>2, <2>6, <2>7 DEF SurfaceInv
<1> QED BY <1>1, InvCorrect, PTL DEF Spec, ViewsGoFirst
=============================================================================
