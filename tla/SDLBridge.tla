----------------------------- MODULE SDLBridge -----------------------------
(***************************************************************************)
(* The windows of the SDL3 bridge: LWJGL's SDL classes as this launcher    *)
(* replaces them (SDL3Windows.java, SDLVideo.java, SDL3GLContext.java,     *)
(* SDL3Bridge.java), and the calls by which sdl3_hook.m takes them to the  *)
(* main thread. Any thread of the game may use any of them.                *)
(*                                                                         *)
(* iOS has one window, so the threads share it and count who uses it. Each *)
(* call waits for the main thread: to create a window without a limit,     *)
(* everything else for 20 seconds, after which the block is still queued   *)
(* and will run. Destroying the last window arms a watchdog that ends the  *)
(* process whatever the main thread does.                                  *)
(*                                                                         *)
(* The game is taken to use what it holds: a window from when it gets it   *)
(* to when it destroys it, and a context that is current in no other       *)
(* thread. Only then do the promises of this bridge mean anything.         *)
(***************************************************************************)
EXTENDS Naturals, Sequences, FiniteSets

CONSTANTS
    Thread,     \* threads of the game
    Window,     \* addresses of SDL windows; one that is freed is used again
    Context,    \* addresses of EGL contexts, likewise
    None,       \* no thread, no window, no context
    Freed,      \* a surface that was destroyed while it was bound
    MaxUse,     \* bound: times a thread holds a window
    MaxLate     \* bound: blocks given up on, still queued when a call starts

ASSUME SDLAssumption ==
    /\ None \notin Thread \cup Window \cup Context
    /\ Freed \notin Window \cup {None}
    /\ IsFiniteSet(Thread)
    /\ MaxUse \in Nat \ {0} /\ MaxLate \in Nat

VARIABLES
    tasks,      \* the main queue: [by, fn, window]; by = None, nobody waits
    exists,     \* windows of SDL
    views,      \* windows with a metal view that the bridge was given
    live,       \* SDL3Windows.live: users counted for a window
    uses,       \* what the game holds: times a thread got a window
    windows,    \* SDL3GLContext.windows: "none", "view", or with a "surface"
    contexts,   \* SDL3GLContext.contexts: the window a context was made for
    current,    \* the (window, context) a thread is believed to have current
    bound,      \* the (surface, context) it has for EGL
    lock,       \* SDL3GLContext.lock
    pc,         \* per thread: [at, window, context, answer]
    watchdog    \* SDL3Bridge.armExitWatchdog

sdl == <<exists, views>>
held == <<live, uses>>
gl == <<windows, contexts, current, bound>>
vars == <<tasks, sdl, held, gl, lock, pc, watchdog>>

Idle == [at |-> "idle", window |-> None, context |-> None, answer |-> "none"]
Nothing == [window |-> None, context |-> None]
Unbound == [surface |-> None, context |-> None]

Init ==
    /\ tasks = <<>> /\ exists = {} /\ views = {}
    /\ live = [w \in Window |-> 0]
    /\ uses = [t \in Thread |-> [w \in Window |-> 0]]
    /\ windows = [w \in Window |-> "none"] /\ contexts = [c \in Context |-> None]
    /\ current = [t \in Thread |-> Nothing] /\ bound = [t \in Thread |-> Unbound]
    /\ lock = None /\ pc = [t \in Thread |-> Idle] /\ watchdog = "off"

-----------------------------------------------------------------------------
(* nativeCreateWindow, nativeInvokeOnMain: a block for the main queue, and *)
(* a thread that waits for its answer at a place of its code.              *)
Call(t, at, fn, w) ==
    /\ tasks' = Append(tasks, [by |-> t, fn |-> fn, window |-> w])
    /\ pc' = [pc EXCEPT ![t] = [at |-> at, window |-> w, context |-> pc[t].context,
                                answer |-> "pending"]]

Go(t, at) ==
    pc' = [pc EXCEPT ![t] = [at |-> at, window |-> pc[t].window, context |-> pc[t].context,
                             answer |-> "none"]]

Return(t) == pc' = [pc EXCEPT ![t] = Idle]
Answered(t, at) == pc[t].at = at /\ pc[t].answer # "pending"

(* The game, while it runs, starts a call of its own.                      *)
Late == {i \in DOMAIN tasks : tasks[i].by = None}
Starts(t) == /\ watchdog # "exited" /\ pc[t].at = "idle"
             /\ Cardinality(Late) <= MaxLate

(* What a block does to SDL, and the window it answers with, or None. SDL  *)
(* may refuse a window or a view; of a destruction nobody reads the answer. *)
Run(fn, w, answer) ==
    \/ /\ fn = "create" /\ answer \in Window \ exists
       /\ exists' = exists \cup {answer} /\ UNCHANGED views
    \/ /\ fn = "createView" /\ answer = w
       /\ views' = IF Head(tasks).by = None THEN views ELSE views \cup {w}
       /\ UNCHANGED exists
    \/ /\ fn \in {"create", "createView"} /\ answer = None /\ UNCHANGED sdl
    \/ /\ fn = "destroyView" /\ answer = None
       /\ views' = views \ {w} /\ UNCHANGED exists
    \/ /\ fn = "destroy" /\ answer = None
       /\ exists' = exists \ {w} /\ UNCHANGED views

(* The caller, if it still waits, gets the answer and a window made for it.*)
Answer(task, answer) ==
    LET t == task.by
    IN  pc' = IF t = None THEN pc
              ELSE [pc EXCEPT ![t] =
                       [at |-> pc[t].at,
                        window |-> IF task.fn = "create" THEN answer ELSE pc[t].window,
                        context |-> pc[t].context,
                        answer |-> IF answer = None THEN "no" ELSE "yes"]]

(* The main thread takes the first block.                                  *)
RunMain ==
    /\ tasks # <<>> /\ tasks' = Tail(tasks)
    /\ \E answer \in Window \cup {None} :
          /\ Run(Head(tasks).fn, Head(tasks).window, answer)
          /\ Answer(Head(tasks), answer)
    /\ UNCHANGED <<held, gl, lock, watchdog>>

(* Mutants: a wait without a limit; blocks that answer who has given up.   *)
NoGiveUp(t) == FALSE

GiveUpQueued(t) ==
    /\ pc[t].answer = "pending" /\ pc[t].at # "creating"
    /\ pc' = [pc EXCEPT ![t].answer = "no"]
    /\ UNCHANGED <<tasks, sdl, held, gl, lock, watchdog>>

Unawaited(task) == [by |-> None, fn |-> task.fn, window |-> task.window]

(* nativeInvokeOnMain gives up after AM_MAIN_CALL_TIMEOUT_SECONDS and      *)
(* returns 0; the block stays in the queue. nativeCreateWindow never does. *)
GiveUp(t) ==
    /\ pc[t].answer = "pending" /\ pc[t].at # "creating"
    /\ tasks' = [i \in DOMAIN tasks |->
                    IF tasks[i].by = t THEN Unawaited(tasks[i]) ELSE tasks[i]]
    /\ pc' = [pc EXCEPT ![t] = [at |-> pc[t].at, window |-> pc[t].window,
                                context |-> pc[t].context, answer |-> "no"]]
    /\ UNCHANGED <<sdl, held, gl, lock, watchdog>>

-----------------------------------------------------------------------------
(* SDL_CreateWindow: one that exists is handed out again, except to a call *)
(* for a Vulkan window.                                                    *)
Live == {w \in Window : live[w] > 0}

(* Mutant: a window is handed out without counting its new user.           *)
reuseUncounted(t) ==
    \E w \in Live :
       /\ uses[t][w] < MaxUse
       /\ uses' = [uses EXCEPT ![t][w] = @ + 1] /\ UNCHANGED live

reuse(t) ==
    \E w \in Live :
       /\ uses[t][w] < MaxUse
       /\ live' = [live EXCEPT ![w] = @ + 1]
       /\ uses' = [uses EXCEPT ![t][w] = @ + 1]

ReuseWindow(t) ==
    /\ Starts(t) /\ reuse(t)
    /\ UNCHANGED <<tasks, sdl, gl, lock, pc, watchdog>>

CreateWindow(t) ==
    /\ Starts(t)
    /\ \E vulkan \in BOOLEAN : vulkan \/ Live = {}
    /\ Call(t, "creating", "create", None)
    /\ UNCHANGED <<sdl, held, gl, lock, watchdog>>

(* It is entered in SDL3Windows.live only after the main thread made it.   *)
created(t) ==
    /\ Answered(t, "creating") /\ Return(t)
    /\ LET w == pc[t].window
       IN  IF w = None THEN UNCHANGED held
           ELSE /\ live' = [live EXCEPT ![w] = 1]
                /\ uses' = [uses EXCEPT ![t][w] = @ + 1]
    /\ UNCHANGED <<tasks, sdl, gl, lock, watchdog>>

(* SDL_DestroyWindow: the last of its users really destroys a window.      *)
release(t, w) ==
    /\ live' = [live EXCEPT ![w] = IF @ = 0 THEN 0 ELSE @ - 1]
    /\ pc' = IF live[w] > 1 THEN pc
             ELSE [pc EXCEPT ![t] = [at |-> "gone", window |-> w, context |-> None,
                                     answer |-> "none"]]

DestroyWindow(t) ==
    /\ Starts(t)
    /\ \E w \in Window :
          /\ uses[t][w] > 0 /\ uses' = [uses EXCEPT ![t][w] = @ - 1]
          /\ release(t, w)
    /\ UNCHANGED <<tasks, sdl, gl, lock, watchdog>>

-----------------------------------------------------------------------------
(* SDL3GLContext.destroyWindow, as far as its call to the main thread: the *)
(* surface goes, and the view if the main thread answers in time.          *)
(* Mutant: a context that is let go is still believed to be current.       *)
ForgetNothing(t) == UNCHANGED current

Forget(t) == current' = [current EXCEPT ![t] = Nothing]

Unsurfaced(b, w) ==
    [u \in Thread |-> IF b[u].surface = w
                      THEN [surface |-> Freed, context |-> b[u].context] ELSE b[u]]

destroyWindow(t, at, w) ==
    /\ windows' = [windows EXCEPT ![w] = "view"]
    /\ Call(t, at, "destroyView", w)

(* Mutant: a window is destroyed with its surface and view in place.       *)
windowGoneUnviewed(t) ==
    /\ pc[t].at = "gone" /\ Go(t, "arm")
    /\ UNCHANGED <<tasks, sdl, held, gl, lock, watchdog>>

(* windowGone: "its surface and metal view go first"                       *)
windowGone(t) ==
    /\ pc[t].at = "gone" /\ lock = None
    /\ LET w == pc[t].window
           mine == current[t].window = w
           unbound == IF mine THEN [bound EXCEPT ![t] = Unbound] ELSE bound
       IN  IF windows[w] = "none"
           THEN Go(t, "arm") /\ UNCHANGED <<tasks, gl, lock>>
           ELSE /\ lock' = t
                /\ IF mine THEN Forget(t) ELSE UNCHANGED current
                /\ bound' = Unsurfaced(unbound, w)
                /\ destroyWindow(t, "leaving", w)
                /\ UNCHANGED contexts
    /\ UNCHANGED <<sdl, held, watchdog>>

(* The end of destroyWindow, whether or not the main thread has answered.  *)
Unviewed(t) ==
    /\ \/ Answered(t, "leaving") /\ Go(t, "arm")
       \/ Answered(t, "dropping") /\ Return(t)
    /\ windows' = [windows EXCEPT ![pc[t].window] = "none"]
    /\ lock' = None
    /\ UNCHANGED <<tasks, sdl, held, contexts, current, bound, watchdog>>

(* The rest of SDL_DestroyWindow. The watchdog is armed under the monitor  *)
(* of SDL3Bridge, which registerInput and, on the main thread, onInput     *)
(* hold too; both are taken to return, so that the monitor is free in the  *)
(* end. A main thread that hangs, hangs elsewhere.                         *)
armExitWatchdog(t) ==
    /\ pc[t].at = "arm"
    /\ watchdog' = IF watchdog = "off" THEN "armed" ELSE watchdog
    /\ Call(t, "destroying", "destroy", pc[t].window)
    /\ UNCHANGED <<sdl, held, gl, lock>>

Destroyed(t) ==
    /\ Answered(t, "destroying") /\ Return(t)
    /\ UNCHANGED <<tasks, sdl, held, gl, lock, watchdog>>

(* Five seconds later the watchdog calls System.exit, and four seconds     *)
(* after that it halts: by then the process has ended, its threads too.    *)
Halt ==
    /\ watchdog = "armed" /\ watchdog' = "exited"
    /\ tasks' = <<>> /\ lock' = None /\ pc' = [t \in Thread |-> Idle]
    /\ UNCHANGED <<sdl, held, gl>>

-----------------------------------------------------------------------------
(* createContext and makeCurrent first find the metal view of the window,  *)
(* or have the main thread make one. No context is the wish for a new one. *)
Wanted == {None} \cup {c \in Context : contexts[c] # None}

EnterGL(t) ==
    /\ Starts(t) /\ lock = None /\ lock' = t
    /\ \E w \in Window, c \in Wanted :
          /\ uses[t][w] > 0
          /\ IF windows[w] # "none"
             THEN /\ pc' = [pc EXCEPT ![t] = [at |-> "windowed", window |-> w,
                                              context |-> c, answer |-> "none"]]
                  /\ UNCHANGED tasks
             ELSE /\ tasks' = Append(tasks, [by |-> t, fn |-> "createView", window |-> w])
                  /\ pc' = [pc EXCEPT ![t] = [at |-> "viewing", window |-> w,
                                              context |-> c, answer |-> "pending"]]
    /\ UNCHANGED <<sdl, held, gl, watchdog>>

(* The view has a layer, or is taken away again.                           *)
Viewed(t) ==
    /\ Answered(t, "viewing")
    /\ LET w == pc[t].window
       IN  \/ /\ pc[t].answer = "yes" /\ Go(t, "windowed")
              /\ windows' = [windows EXCEPT ![w] = "view"]
              /\ UNCHANGED <<tasks, lock>>
           \/ /\ pc[t].answer = "yes" /\ Call(t, "dropping", "destroyView", w)
              /\ UNCHANGED <<windows, lock>>
           \/ /\ pc[t].answer = "no" /\ Return(t) /\ lock' = None
              /\ UNCHANGED <<windows, tasks>>
    /\ UNCHANGED <<sdl, held, contexts, current, bound, watchdog>>

(* dropIfUnused: the window is let go when no context was made for it.     *)
dropIfUnused(t, w, cs, b) ==
    IF \E c \in Context : cs[c] = w
    THEN /\ Return(t) /\ lock' = None /\ bound' = b /\ UNCHANGED <<tasks, windows>>
    ELSE /\ lock' = t /\ bound' = Unsurfaced(b, w) /\ destroyWindow(t, "dropping", w)

(* eglMakeCurrent: a context or a surface is bound in one thread.          *)
Binds(t, w, c) ==
    /\ \A u \in Thread \ {t} : bound[u].surface # w /\ bound[u].context # c
    /\ bound' = [bound EXCEPT ![t] = [surface |-> w, context |-> c]]
    /\ current' = [current EXCEPT ![t] = [window |-> w, context |-> c]]
    /\ windows' = [windows EXCEPT ![w] = "surface"]

(* eglCreateContext answers with no context that exists or is still bound. *)
Fresh(c) == contexts[c] = None /\ \A t \in Thread : bound[t].context # c

createContext(t) ==
    /\ pc[t].at = "windowed" /\ pc[t].context = None
    /\ LET w == pc[t].window
       IN  \/ \E c \in Context :
                 /\ Fresh(c) /\ Binds(t, w, c)
                 /\ contexts' = [contexts EXCEPT ![c] = w]
                 /\ Return(t) /\ lock' = None /\ UNCHANGED tasks
           \/ /\ dropIfUnused(t, w, contexts, bound)   \* no context, no surface,
              /\ UNCHANGED <<contexts, current>>       \* or it is not made current
           \/ /\ Return(t) /\ lock' = None             \* no config
              /\ UNCHANGED <<tasks, gl>>
    /\ UNCHANGED <<sdl, held, watchdog>>

(* What is believed to be current is not made current again.               *)
makeCurrent(t) ==
    /\ pc[t].at = "windowed" /\ pc[t].context # None
    /\ LET w == pc[t].window
           c == pc[t].context
           isCurrent == current[t] = [window |-> w, context |-> c]
       IN  \/ /\ contexts[c] # None /\ ~isCurrent /\ Binds(t, w, c)
           \/ /\ contexts[c] # None                    \* is so, or is refused
              /\ windows' = [windows EXCEPT ![w] = "surface"]
              /\ UNCHANGED <<current, bound>>
           \/ UNCHANGED <<windows, current, bound>>    \* no such context or surface
    /\ Return(t) /\ lock' = None
    /\ UNCHANGED <<tasks, sdl, held, contexts, watchdog>>

(* makeCurrent of no context.                                              *)
MakeNoneCurrent(t) ==
    /\ Starts(t) /\ lock = None
    /\ Forget(t) /\ bound' = [bound EXCEPT ![t] = Unbound]
    /\ UNCHANGED <<tasks, sdl, held, windows, contexts, lock, pc, watchdog>>

destroyContext(t) ==
    /\ Starts(t) /\ lock = None
    /\ \E c \in Context :
          /\ contexts[c] # None
          /\ \A u \in Thread \ {t} : current[u].context # c
          /\ contexts' = [contexts EXCEPT ![c] = None]
          /\ LET w == contexts[c]
                 mine == current[t].context = c
                 b == IF mine THEN [bound EXCEPT ![t] = Unbound] ELSE bound
             IN  /\ IF mine THEN Forget(t) ELSE UNCHANGED current
                 /\ IF windows[w] = "none"
                    THEN bound' = b /\ UNCHANGED <<tasks, windows, lock, pc>>
                    ELSE dropIfUnused(t, w, contexts', b)
    /\ UNCHANGED <<sdl, held, watchdog>>

-----------------------------------------------------------------------------
(* After the process has ended nothing happens.                            *)
Ended == watchdog = "exited" /\ UNCHANGED vars

Next ==
    \/ RunMain \/ Halt \/ Ended
    \/ \E t \in Thread :
          \/ ReuseWindow(t) \/ CreateWindow(t) \/ created(t) \/ DestroyWindow(t)
          \/ windowGone(t) \/ Unviewed(t) \/ armExitWatchdog(t) \/ Destroyed(t)
          \/ EnterGL(t) \/ Viewed(t) \/ createContext(t) \/ makeCurrent(t)
          \/ MakeNoneCurrent(t) \/ destroyContext(t) \/ GiveUp(t)

(* A thread goes on with a call it has begun, and a wait with a limit ends *)
(* somehow; the watchdog's threads sleep for a time that ends; a thread    *)
(* that wants a monitor which is free again and again gets it. Nothing is  *)
(* assumed of the main thread, nor that the game starts any call.          *)
Continues(t) ==
    GiveUp(t) \/ Unviewed(t) \/ armExitWatchdog(t) \/ Viewed(t)
    \/ createContext(t) \/ makeCurrent(t)

Fairness ==
    /\ \A t \in Thread :
          WF_vars(Continues(t)) /\ SF_vars(windowGone(t))
    /\ WF_vars(Halt)

Spec == Init /\ [][Next]_vars /\ Fairness

-----------------------------------------------------------------------------
Task == [by : Thread \cup {None}, fn : {"create", "createView", "destroyView", "destroy"},
         window : Window \cup {None}]
Step == [at : {"idle", "creating", "gone", "leaving", "arm", "destroying",
               "viewing", "windowed", "dropping"},
         window : Window \cup {None}, context : Context \cup {None},
         answer : {"none", "pending", "yes", "no"}]

(* Every variable has its type, the lock is held exactly in the parts of   *)
(* SDL3GLContext that hold it, and an answer is pending exactly while a    *)
(* block of the thread is queued.                                          *)
TypeOK ==
    /\ tasks \in Seq(Task)
    /\ exists \subseteq Window /\ views \subseteq Window
    /\ live \in [Window -> 0..(MaxUse * Cardinality(Thread))]
    /\ uses \in [Thread -> [Window -> 0..MaxUse]]
    /\ windows \in [Window -> {"none", "view", "surface"}]
    /\ contexts \in [Context -> Window \cup {None}]
    /\ current \in [Thread -> [window : Window \cup {None}, context : Context \cup {None}]]
    /\ bound \in [Thread -> [surface : Window \cup {None, Freed},
                             context : Context \cup {None}]]
    /\ pc \in [Thread -> Step]
    /\ \A t \in Thread :
          /\ lock = t <=> pc[t].at \in {"leaving", "viewing", "windowed", "dropping"}
          /\ pc[t].answer = "pending" <=> \E i \in DOMAIN tasks : tasks[i].by = t
    /\ lock \in Thread \cup {None}
    /\ watchdog \in {"off", "armed", "exited"}

(* "true when this was the last user and the window should really be       *)
(* destroyed" (SDL3Windows.java:31): no window of SDL goes while a thread  *)
(* of the game still holds it, however creations and releases of several   *)
(* threads fall between the creation of a window and its entry in the map. *)
DestroyedUnused ==
    [][\A w \in exists \ exists', t \in Thread : uses[t][w] = 0]_vars

(* "the window is about to be destroyed for real, its surface and metal    *)
(* view go first" (SDL3GLContext.java:539): when SDL destroys a window, no *)
(* view that the bridge was given is left on it and no thread has its      *)
(* surface bound alive, also when the main thread was given up on.         *)
ViewsGoFirst ==
    [][\A w \in exists \ exists' :
          /\ w \notin views
          /\ \A t \in Thread : bound[t].surface # w]_vars

(* makeCurrent answers from what it believes to be current                 *)
(* (SDL3GLContext.java:446) and swap draws to a surface it read under the  *)
(* lock (465-475): until a window is really destroyed, a thread that       *)
(* believes a context current on the window it was made for, and holds     *)
(* that window, has that context bound, to a surface that exists.          *)
CurrentIsBound ==
    \A t \in Thread :
       LET w == current[t].window
           c == current[t].context
       IN  w # None /\ contexts[c] = w /\ uses[t][w] > 0 /\ watchdog = "off"
           => bound[t] = [surface |-> w, context |-> c] /\ windows[w] = "surface"

(* "after the window is destroyed there is nothing left to wait for. if    *)
(* the normal shutdown path hangs (it does on ios), force the jvm out"     *)
(* (SDL3Bridge.java:586): once the last user of a window destroys it, the  *)
(* process ends, even if the main thread never runs another block.         *)
ShutsDown == (\E t \in Thread : pc[t].at = "gone") ~> watchdog = "exited"

=============================================================================
