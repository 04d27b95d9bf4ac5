----------------------------- MODULE FrameGate -----------------------------
(***************************************************************************)
(* The frames of the OSMesa (Zink) bridge, between the render thread of    *)
(* the game and the main thread: osm_bridge.m, and the foreground gate of  *)
(* utils.m that every swap passes.                                         *)
(*                                                                         *)
(* osm_swap_buffers waits until the app is in the foreground, adapts the   *)
(* pixel buffer to the size of the game window, and queues one frame for   *)
(* the main thread, which shows it. A swap while a frame is queued is      *)
(* dropped. The main thread also handles the notifications that close and  *)
(* open the gate, and the changes of the window size.                      *)
(*                                                                         *)
(* A size stands for windowWidth and windowHeight together.                *)
(* updateSavedResolution stores them one after the other, and rounds them  *)
(* in place: each store is a Resize of its own, and the sizes in between   *)
(* are members of Size.                                                    *)
(***************************************************************************)
EXTENDS Naturals, Sequences

CONSTANTS
    Size,       \* sizes of the game window
    NoSize,     \* size of a window without a buffer, and of freed memory
    Buffer,     \* addresses of pixel buffers
    NoBuffer    \* NULL

ASSUME FrameAssumption == NoSize \notin Size /\ NoBuffer \notin Buffer

VARIABLES
    phase,              \* state of the app, as UIKit sees it
    main,               \* what the main thread is doing
    appIsForeground, mutex,
    window,             \* windowWidth and windowHeight
    pc, swapping,       \* the render thread; inside a swap or a make-current
    bound,              \* currentBundle is not NULL
    size, buffer,       \* of the current bundle
    memory,             \* size of each allocated buffer
    osm_frame_pending,
    queue,              \* frames queued for the main thread
    calm                \* history: no resize or unbind since a swap began on a sound bundle

gate == <<appIsForeground, mutex>>
render == <<pc, swapping>>
bundle == <<bound, size, buffer, memory>>
frames == <<osm_frame_pending, queue>>
vars == <<phase, main, gate, window, render, bundle, frames, calm>>

Frame == [size : Size \cup {NoSize}, buffer : Buffer \cup {NoBuffer}]

Init ==
    /\ phase = "active" /\ main = "free"
    /\ appIsForeground = TRUE /\ mutex = "free"
    /\ window \in Size
    /\ pc = "draw" /\ swapping = FALSE
    /\ bound = FALSE /\ size = NoSize /\ buffer = NoBuffer
    /\ memory = [b \in Buffer |-> NoSize]
    /\ osm_frame_pending = FALSE /\ queue = <<>>
    /\ calm = TRUE

-----------------------------------------------------------------------------
(* UIKit: the app resigns active, goes to the background, and comes back.  *)
(* Each notification is handled before the next change.                    *)
Notify(from, to) ==
    /\ main = "free" /\ phase = from
    /\ phase' = to /\ main' = to
    /\ UNCHANGED <<gate, window, render, bundle, frames, calm>>

WillResignActive == Notify("active", "inactive")
DidBecomeActive == Notify("inactive", "active")

ChangeGround ==
    /\ main = "free"
    /\ \/ phase = "inactive" /\ phase' = "background"
       \/ phase = "background" /\ phase' = "inactive"
    /\ UNCHANGED <<main, gate, window, render, bundle, frames, calm>>

(* pojavSetAppForeground: store and broadcast, under the mutex.            *)
SetAppForegroundQuietly ==  \* mutant: does not wake the render thread
    /\ main \in {"active", "inactive"} /\ mutex = "free"
    /\ appIsForeground' = (main = "active")
    /\ main' = "free"
    /\ UNCHANGED <<phase, mutex, window, render, bundle, frames, calm>>

SetAppForeground ==
    /\ main \in {"active", "inactive"} /\ mutex = "free"
    /\ appIsForeground' = (main = "active")
    /\ pc' = IF pc = "asleep" THEN "lock" ELSE pc
    /\ main' = "free"
    /\ UNCHANGED <<phase, mutex, window, swapping, bundle, frames, calm>>

(* The player rotates the device, or sets another resolution.              *)
Resize ==
    /\ main = "free"
    /\ window' \in Size \ {window}
    /\ calm' = FALSE
    /\ UNCHANGED <<phase, main, gate, render, bundle, frames>>

(* The queued block makes an image of the frame's buffer and shows it.     *)
ShowFrame ==
    /\ main = "free" /\ queue # <<>>
    /\ main' = "frame"
    /\ UNCHANGED <<phase, gate, window, render, bundle, frames, calm>>

FrameShown ==
    /\ main = "frame"
    /\ main' = "free"
    /\ osm_frame_pending' = FALSE /\ queue' = Tail(queue)
    /\ UNCHANGED <<phase, gate, window, render, bundle, calm>>

-----------------------------------------------------------------------------
(* The game calls the swap after every frame it draws.                     *)
Sound == bound => memory[buffer] = size

SwapBuffers ==
    /\ pc = "draw"
    /\ pc' = "gate" /\ swapping' = TRUE
    /\ calm' = (calm \/ (~osm_frame_pending /\ Sound))
    /\ UNCHANGED <<phase, main, gate, window, bundle, frames>>

(* pojavWaitForAppForeground: a look without the mutex, then with it, and  *)
(* a condition variable that may also wake up for no reason.               *)
Passed == IF bound THEN pc' = "size" ELSE pc' = "draw"

Look ==
    /\ pc = "gate"
    /\ IF appIsForeground THEN Passed ELSE pc' = "lock"
    /\ UNCHANGED <<phase, main, gate, window, swapping, bundle, frames, calm>>

Lock ==
    /\ pc = "lock" /\ mutex = "free"
    /\ mutex' = "render" /\ pc' = "check"
    /\ UNCHANGED <<phase, main, appIsForeground, window, swapping, bundle, frames, calm>>

Check ==
    /\ pc = "check"
    /\ IF appIsForeground THEN Passed ELSE pc' = "asleep"
    /\ mutex' = "free"
    /\ UNCHANGED <<phase, main, appIsForeground, window, swapping, bundle, frames, calm>>

WakeUpOnce ==               \* mutant: goes on without a second look at the gate
    /\ pc = "asleep"
    /\ IF bound THEN pc' = "size" ELSE pc' = "draw"
    /\ UNCHANGED <<phase, main, gate, window, swapping, bundle, frames, calm>>

WakeUp ==
    /\ pc = "asleep" /\ pc' = "lock"
    /\ UNCHANGED <<phase, main, gate, window, swapping, bundle, frames, calm>>

(* osm_apply_current_ll: nothing to do for the same size; otherwise the    *)
(* size is noted, then reallocf reads it again. reallocf keeps the address *)
(* or frees it and takes another.                                          *)
Applied == IF swapping THEN pc' = "exchange" ELSE pc' = "draw"

ApplySizeAlways ==          \* mutant: reallocates for the same size, too
    /\ pc = "size"
    /\ size' = window /\ pc' = "buffer"
    /\ UNCHANGED <<phase, main, gate, window, swapping, bound, buffer, memory, frames, calm>>

ApplySize ==
    /\ pc = "size"
    /\ IF size = window THEN Applied /\ UNCHANGED size
       ELSE size' = window /\ pc' = "buffer"
    /\ UNCHANGED <<phase, main, gate, window, swapping, bound, buffer, memory, frames, calm>>

ApplyBuffer ==
    /\ pc = "buffer"
    /\ \E b \in Buffer :
          /\ b = buffer \/ memory[b] = NoSize
          /\ buffer' = b
          /\ memory' = [a \in Buffer |-> IF a = b THEN window
                                         ELSE IF a = buffer THEN NoSize ELSE memory[a]]
    /\ Applied
    /\ UNCHANGED <<phase, main, gate, window, swapping, bound, size, frames, calm>>

(* atomic_exchange(&osm_frame_pending, true): drop the frame if it was set.*)
ExchangeAnyway ==           \* mutant: stacks up frames
    /\ pc = "exchange"
    /\ osm_frame_pending' = TRUE /\ pc' = "finish"
    /\ UNCHANGED <<phase, main, gate, window, swapping, bundle, queue, calm>>

Exchange ==
    /\ pc = "exchange"
    /\ osm_frame_pending' = TRUE
    /\ pc' = IF osm_frame_pending THEN "draw" ELSE "finish"
    /\ UNCHANGED <<phase, main, gate, window, swapping, bundle, queue, calm>>

(* glFinish hands the frame to the GPU and waits for it.                   *)
Finish ==
    /\ pc = "finish" /\ pc' = "dispatch"
    /\ UNCHANGED <<phase, main, gate, window, swapping, bundle, frames, calm>>

Dispatch ==
    /\ pc = "dispatch" /\ pc' = "draw"
    /\ queue' = Append(queue, [size |-> size, buffer |-> buffer])
    /\ UNCHANGED <<phase, main, gate, window, swapping, bundle, osm_frame_pending, calm>>

(* osm_make_current, with a bundle and with NULL.                          *)
MakeCurrentBare ==          \* mutant: binds the bundle and gives it no buffer
    /\ pc = "draw"
    /\ bound' = TRUE /\ swapping' = FALSE
    /\ UNCHANGED <<phase, main, gate, window, pc, size, buffer, memory, frames, calm>>

MakeCurrent ==
    /\ pc = "draw"
    /\ bound' = TRUE /\ pc' = "size" /\ swapping' = FALSE
    /\ UNCHANGED <<phase, main, gate, window, size, buffer, memory, frames, calm>>

MakeCurrentNull ==
    /\ pc = "draw" /\ bound
    /\ bound' = FALSE /\ size' = NoSize /\ buffer' = NoBuffer
    /\ memory' = [b \in Buffer |-> IF b = buffer THEN NoSize ELSE memory[b]]
    /\ calm' = FALSE
    /\ UNCHANGED <<phase, main, gate, window, render, frames>>

-----------------------------------------------------------------------------
Wait == Look \/ Lock \/ Check
Swap == Wait \/ ApplySize \/ ApplyBuffer \/ Exchange \/ Finish \/ Dispatch
MainQueue == SetAppForeground \/ ShowFrame \/ FrameShown

Next ==
    \/ WillResignActive \/ DidBecomeActive \/ ChangeGround \/ Resize \/ MainQueue
    \/ SwapBuffers \/ Swap \/ WakeUp \/ MakeCurrent \/ MakeCurrentNull

(* The main run loop turns, and the game draws frame after frame. Wake-ups  *)
(* without a reason never happen or happen forever, but do not keep the    *)
(* main thread from the mutex forever: hence strong fairness there.        *)
Fairness ==
    /\ SF_vars(SetAppForeground) /\ WF_vars(ShowFrame \/ FrameShown)
    /\ SF_vars(SwapBuffers) /\ WF_vars(Swap)

Spec == Init /\ [][Next]_vars /\ Fairness

-----------------------------------------------------------------------------
(* Every variable has its type, and a bound bundle has a size and a buffer *)
(* whenever the game may draw.                                             *)
TypeOK ==
    /\ phase \in {"active", "inactive", "background"}
    /\ main \in {"free", "active", "inactive", "frame"}
    /\ appIsForeground \in BOOLEAN /\ mutex \in {"free", "render"}
    /\ window \in Size
    /\ pc \in {"draw", "gate", "lock", "check", "asleep", "size", "buffer",
               "exchange", "finish", "dispatch"}
    /\ swapping \in BOOLEAN
    /\ bound \in BOOLEAN
    /\ size \in Size \cup {NoSize} /\ buffer \in Buffer \cup {NoBuffer}
    /\ bound /\ pc \in {"draw", "exchange", "finish", "dispatch"} =>
          size \in Size /\ buffer \in Buffer
    /\ memory \in [Buffer -> Size \cup {NoSize}]
    /\ osm_frame_pending \in BOOLEAN
    /\ queue \in Seq(Frame)
    /\ calm \in BOOLEAN

(* "set while a frame is queued for the main thread, the next swap is      *)
(* dropped instead of stacking up blocks" (osm_bridge.m:79).               *)
OneFrame ==
    /\ osm_frame_pending <=> queue # <<>> \/ pc \in {"finish", "dispatch"}
    /\ Len(queue) <= 1
    /\ pc \in {"finish", "dispatch"} => queue = <<>>

(* The main thread reads the pixels of a queued frame in a buffer that is  *)
(* allocated, and of the size the frame says. The code keeps this only as  *)
(* long as the window is not resized or unbound while the frame waits.     *)
FrameReadable ==
    \A f \in {queue[n] : n \in DOMAIN queue} :
        f.buffer # NoBuffer /\ memory[f.buffer] = f.size

FrameReadableIfCalm == calm => FrameReadable

(* While the app stays active and a context stays bound, frames keep being *)
(* shown: the render thread is not left asleep, nor its frames dropped.    *)
FramesKeepComing ==
    <>[](phase = "active" /\ bound) => []<>(main = "frame")

(* "When this goes NO the render bridges block in swap [...] until the app *)
(* is active again" (environ.h:60): once the gate stays closed, the render *)
(* thread stops handing work to the GPU, whatever wakes it. The gate is    *)
(* looked at once in a swap, so the swap that has passed it still finishes *)
(* its frame, if need be in the background.                                *)
StopsInBackground ==
    <>[](~appIsForeground) => <>[](pc \notin {"finish", "dispatch"})
=============================================================================
