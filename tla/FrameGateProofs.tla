--------------------------- MODULE FrameGateProofs ---------------------------
(***************************************************************************)
(* Proofs about FrameGate, for every set of window sizes and buffers: type *)
(* correctness, that at most one frame waits for the main thread, and that *)
(* a frame is readable as long as the window is left alone.                *)
(***************************************************************************)
EXTENDS FrameGate, SequenceTheorems, TLAPS

USE FrameAssumption

-----------------------------------------------------------------------------
(* Type correctness needs to know where in a swap the bundle is complete:  *)
(* only between noting a size and reallocating has it a size and perhaps   *)
(* no buffer.                                                              *)
BundleInv ==
    /\ pc \in {"size", "buffer", "exchange", "finish", "dispatch"} => bound
    /\ pc = "buffer" => size \in Size
    /\ pc # "buffer" /\ size \in Size => buffer \in Buffer
    /\ ~bound => size = NoSize

(* The main thread shows the first frame of the queue.                     *)
ShowInv == main = "frame" => queue # <<>>

TInv == TypeOK /\ BundleInv /\ ShowInv

(* A first start: no context is bound and nothing waits.                   *)
LEMMA TypeInit == Init => TInv
<1> SUFFICES ASSUME Init PROVE TInv
    OBVIOUS
<1>1. queue \in Seq(Frame)
    BY DEF Init
<1>2. memory \in [Buffer -> Size \cup {NoSize}]
    BY DEF Init
<1>3. BundleInv
    BY FrameAssumption DEF Init, BundleInv
<1> QED BY <1>1, <1>2, <1>3 DEF Init, TInv, TypeOK, ShowInv

(* The steps of UIKit and of the main thread keep the types.               *)
LEMMA TypeMain ==
    ASSUME TInv,
           \/ WillResignActive \/ DidBecomeActive \/ ChangeGround \/ Resize
           \/ MainQueue
    PROVE  TInv'
<1> USE DEF TInv, TypeOK, BundleInv, ShowInv, gate, render, bundle, frames
<1>1. CASE WillResignActive \/ DidBecomeActive
    BY <1>1 DEF WillResignActive, DidBecomeActive, Notify
<1>2. CASE ChangeGround
    BY <1>2 DEF ChangeGround
<1>3. CASE Resize
    <2>1. window' \in Size /\ calm' \in BOOLEAN
        BY <1>3 DEF Resize
    <2>2. UNCHANGED <<phase, main, gate, render, bundle, frames>>
        BY <1>3 DEF Resize
    <2> QED BY <2>1, <2>2
<1>4. CASE SetAppForeground
    <2>1. appIsForeground' \in BOOLEAN
        BY <1>4 DEF SetAppForeground
    <2>2. pc' = IF pc = "asleep" THEN "lock" ELSE pc
        BY <1>4 DEF SetAppForeground
    <2>3. UNCHANGED <<phase, mutex, window, swapping, bundle, frames, calm>> /\ main' = "free"
        BY <1>4 DEF SetAppForeground
    <2>4. pc' \in {"draw", "gate", "lock", "check", "asleep", "size", "buffer",
                    "exchange", "finish", "dispatch"}
        BY <2>2
    <2>5. \A l \in {"draw", "size", "buffer", "exchange", "finish", "dispatch"} :
              pc' = l <=> pc = l
        BY <2>2
    <2> HIDE DEF TInv, TypeOK
    <2>6. TypeOK'
        BY <2>1, <2>3, <2>4, <2>5 DEF TInv, TypeOK
    <2>7. BundleInv'
        BY <2>3, <2>5 DEF TInv
    <2> QED BY <2>3, <2>6, <2>7 DEF TInv
<1>5. CASE ShowFrame
    BY <1>5 DEF ShowFrame
<1>6. CASE FrameShown
    <2>1. queue # <<>> => Tail(queue) \in Seq(Frame)
        OBVIOUS
    <2>2. main' = "free" /\ osm_frame_pending' \in BOOLEAN
        BY <1>6 DEF FrameShown
    <2>3. UNCHANGED <<phase, gate, window, render, bundle, calm>>
        BY <1>6 DEF FrameShown
    <2>4. queue' \in Seq(Frame)
        BY <1>6, <2>1 DEF FrameShown
    <2> HIDE DEF TInv, TypeOK
    <2>5. TypeOK'
        BY <2>2, <2>3, <2>4 DEF TInv, TypeOK
    <2> QED BY <2>2, <2>3, <2>5 DEF TInv
<1> QED BY <1>1, <1>2, <1>3, <1>4, <1>5, <1>6 DEF MainQueue

(* The steps of the render thread keep the types.                          *)
LEMMA TypeRender ==
    ASSUME TInv, SwapBuffers \/ Swap \/ WakeUp \/ MakeCurrent \/ MakeCurrentNull
    PROVE  TInv'
<1> USE DEF TInv, TypeOK, BundleInv, ShowInv, gate, render, bundle, frames
<1>1. CASE SwapBuffers
    BY <1>1 DEF SwapBuffers, Sound
<1>2. CASE Look
    BY <1>2 DEF Look, Passed
<1>3. CASE Lock
    BY <1>3 DEF Lock
<1>4. CASE Check
    BY <1>4 DEF Check, Passed
<1>5. CASE ApplySize
    BY <1>5 DEF ApplySize, Applied
<1>6. CASE ApplyBuffer
    BY <1>6 DEF ApplyBuffer, Applied
<1>7. CASE Exchange
    BY <1>7 DEF Exchange
<1>8. CASE Finish
    BY <1>8 DEF Finish
<1>9. CASE Dispatch
    <2>1. [size |-> size, buffer |-> buffer] \in Frame
        BY DEF Frame
    <2>2. queue' \in Seq(Frame) /\ queue' # <<>>
        BY <1>9, <2>1 DEF Dispatch
    <2> QED BY <1>9, <2>2 DEF Dispatch
<1>10. CASE WakeUp
    BY <1>10 DEF WakeUp
<1>11. CASE MakeCurrent
    <2>1. BundleInv' /\ ShowInv'
        BY <1>11 DEF MakeCurrent
    <2>2. TypeOK /\ pc' = "size" /\ bound' = TRUE /\ swapping' = FALSE
          /\ UNCHANGED <<phase, main, gate, window, size, buffer, memory, frames, calm>>
        BY <1>11 DEF MakeCurrent
    <2> HIDE DEF TInv
    <2>3. TypeOK'
        BY <2>2
    <2> QED BY <2>1, <2>3 DEF TInv
<1>12. CASE MakeCurrentNull
    BY <1>12 DEF MakeCurrentNull
<1> QED BY <1>1, <1>2, <1>3, <1>4, <1>5, <1>6, <1>7, <1>8, <1>9, <1>10, <1>11,
           <1>12 DEF Swap, Wait

(* Every step keeps the types.                                             *)
LEMMA TypeStep == TInv /\ [Next]_vars => TInv'
<1> SUFFICES ASSUME TInv, [Next]_vars PROVE TInv'
    OBVIOUS
<1>1. CASE UNCHANGED vars
    BY <1>1 DEF vars, TInv, TypeOK, BundleInv, ShowInv, gate, render, bundle, frames
<1>2. CASE Next
    BY <1>2, TypeMain, TypeRender DEF Next
<1> QED BY <1>1, <1>2

(* Every variable of the frame gate keeps its type, and a bound bundle has *)
(* a size and a buffer whenever the game draws, for all constants.         *)
THEOREM TypeCorrect == Spec => []TypeOK
<1>1. Spec => []TInv
    BY TypeInit, TypeStep, PTL DEF Spec
<1>2. TInv => TypeOK
    BY DEF TInv
<1> QED BY <1>1, <1>2, PTL

-----------------------------------------------------------------------------
(* One frame at a time.                                                    *)

(* A queue of at most one frame is empty once its first frame is gone.     *)
LEMMA TailOfOne ==
    ASSUME NEW S, NEW q \in Seq(S), Len(q) <= 1, q # <<>>
    PROVE  Tail(q) = <<>>
<1>1. Len(q) \in Nat /\ Len(q) # 0
    BY EmptySeq
<1>2. Tail(q) \in Seq(S) /\ Len(Tail(q)) = Len(q) - 1
    BY <1>1
<1> QED BY <1>1, <1>2, EmptySeq

(* A step that leaves the queue and the flag alone, and neither enters nor *)
(* leaves the part of a swap that owns the flag.                           *)
LEMMA OneFrameKept ==
    ASSUME OneFrame, UNCHANGED frames,
           pc' \in {"finish", "dispatch"} <=> pc \in {"finish", "dispatch"}
    PROVE  OneFrame'
BY DEF OneFrame, frames

(* No step breaks OneFrame.                                                *)
LEMMA OneFrameStep == TInv /\ OneFrame /\ [Next]_vars => OneFrame'
<1> SUFFICES ASSUME TInv, OneFrame, [Next]_vars PROVE OneFrame'
    OBVIOUS
<1>1. CASE \/ WillResignActive \/ DidBecomeActive \/ ChangeGround \/ Resize
           \/ ShowFrame \/ MakeCurrentNull \/ UNCHANGED vars
    <2>1. UNCHANGED frames /\ pc' = pc
        BY <1>1 DEF WillResignActive, DidBecomeActive, Notify, ChangeGround, Resize,
           ShowFrame, MakeCurrentNull, vars, render
    <2> QED BY <2>1, OneFrameKept
<1>2. CASE SetAppForeground
    <2>1. UNCHANGED frames /\ pc' = IF pc = "asleep" THEN "lock" ELSE pc
        BY <1>2 DEF SetAppForeground
    <2> QED BY <2>1, OneFrameKept
<1>3. CASE FrameShown
    <2>1. queue # <<>> /\ queue \in Seq(Frame) /\ Len(queue) <= 1
        BY <1>3 DEF FrameShown, TInv, TypeOK, ShowInv, OneFrame
    <2>2. Tail(queue) = <<>>
        BY <2>1, TailOfOne
    <2>3. pc \notin {"finish", "dispatch"}
        BY <2>1 DEF OneFrame
    <2>4. queue' = <<>> /\ osm_frame_pending' = FALSE /\ pc' = pc
        BY <1>3, <2>2 DEF FrameShown, render
    <2> QED BY <2>3, <2>4 DEF OneFrame
<1>4. CASE SwapBuffers \/ Look \/ Lock \/ Check \/ WakeUp \/ MakeCurrent \/ Finish
    <2>1. UNCHANGED frames
        BY <1>4 DEF SwapBuffers, Look, Lock, Check, WakeUp, MakeCurrent, Finish
    <2>2. pc' \in {"finish", "dispatch"} <=> pc \in {"finish", "dispatch"}
        BY <1>4 DEF SwapBuffers, Look, Lock, Check, WakeUp, MakeCurrent, Finish, Passed
    <2> QED BY <2>1, <2>2, OneFrameKept
<1>5. CASE ApplySize \/ ApplyBuffer
    <2>1. UNCHANGED frames
        BY <1>5 DEF ApplySize, ApplyBuffer
    <2>2. pc' \in {"finish", "dispatch"} <=> pc \in {"finish", "dispatch"}
        BY <1>5 DEF ApplySize, ApplyBuffer, Applied
    <2> QED BY <2>1, <2>2, OneFrameKept
<1>6. CASE Exchange
    BY <1>6 DEF Exchange, OneFrame
<1>7. CASE Dispatch
    <2>1. queue = <<>> /\ osm_frame_pending
        BY <1>7 DEF Dispatch, OneFrame
    <2>2. /\ queue' = <<[size |-> size, buffer |-> buffer]>>
          /\ osm_frame_pending' = osm_frame_pending /\ pc' = "draw"
        BY <1>7, <2>1 DEF Dispatch
    <2> QED BY <2>1, <2>2 DEF OneFrame
<1> QED BY <1>1, <1>2, <1>3, <1>4, <1>5, <1>6, <1>7
        DEF Next, Swap, Wait, MainQueue

(* "the next swap is dropped instead of stacking up blocks": at most one   *)
(* frame waits for the main thread, and the flag says so exactly.          *)
THEOREM OneFrameCorrect == Spec => []OneFrame
<1>1. Init => OneFrame
    BY DEF Init, OneFrame
<1>2. Spec => [](TInv /\ OneFrame)
    BY <1>1, TypeInit, TypeStep, OneFrameStep, PTL DEF Spec
<1> QED BY <1>2, PTL

-----------------------------------------------------------------------------
(* Frames are readable while the window is left alone.                     *)

(* While calm, the bound bundle has a buffer of its own size, a bundle     *)
(* being reallocated has the size of the window, and so has a frame that   *)
(* was let through: the frame in the queue is the bundle.                  *)
Current(f) == f.size = size /\ f.buffer = buffer

CalmInv ==
    calm =>
        /\ pc # "buffer" /\ size \in Size => memory[buffer] = size
        /\ pc \in {"buffer", "exchange"} => size = window
        /\ osm_frame_pending => bound /\ size = window /\ pc # "buffer"
        /\ \A n \in DOMAIN queue : Current(queue[n])

FInv == TInv /\ OneFrame /\ CalmInv

(* The render thread's steps, when calm, keep CalmInv.                     *)
LEMMA CalmRender ==
    ASSUME FInv, SwapBuffers \/ Swap \/ WakeUp \/ MakeCurrent \/ MakeCurrentNull
    PROVE  CalmInv'
<1> SUFFICES ASSUME calm' PROVE CalmInv'
    BY DEF CalmInv
<1> USE DEF FInv, TInv, BundleInv, CalmInv, Current, frames, bundle
<1>1. CASE SwapBuffers
    <2>1. CASE calm
        BY <1>1, <2>1 DEF SwapBuffers
    <2>2. CASE ~calm
        <3>1. ~osm_frame_pending /\ Sound /\ pc = "draw" /\ pc' = "gate"
            BY <1>1, <2>2 DEF SwapBuffers
        <3>2. queue = <<>>
            BY <3>1 DEF OneFrame
        <3>3. size \in Size => memory[buffer] = size
            BY <3>1, FrameAssumption DEF Sound
        <3> QED BY <1>1, <3>1, <3>2, <3>3 DEF SwapBuffers
    <2> QED BY <2>1, <2>2
<1>2. CASE Look \/ Check \/ Lock \/ WakeUp
    BY <1>2 DEF Look, Lock, Check, WakeUp, Passed, gate
<1>3. CASE ApplySize
    <2>1. CASE size = window
        BY <1>3, <2>1 DEF ApplySize, Applied
    <2>2. CASE size # window
        <3>1. ~osm_frame_pending /\ queue = <<>>
            BY <1>3, <2>2 DEF ApplySize, OneFrame
        <3>2. size' = window /\ pc' = "buffer" /\ UNCHANGED <<window, frames>>
            BY <1>3, <2>2 DEF ApplySize
        <3> QED BY <3>1, <3>2
    <2> QED BY <2>1, <2>2
<1>4. CASE ApplyBuffer
    <2>1. ~osm_frame_pending /\ queue = <<>> /\ size = window
        BY <1>4 DEF ApplyBuffer, OneFrame
    <2>2. memory'[buffer'] = window
        BY <1>4 DEF ApplyBuffer
    <2>3. calm' = calm /\ size' = size /\ window' = window /\ pc' # "buffer"
        BY <1>4 DEF ApplyBuffer, Applied
    <2>4. osm_frame_pending' = osm_frame_pending /\ queue' = queue
        BY <1>4 DEF ApplyBuffer
    <2> QED BY <2>1, <2>2, <2>3, <2>4
<1>5. CASE Exchange
    BY <1>5 DEF Exchange
<1>6. CASE Finish
    BY <1>6 DEF Finish
<1>7. CASE Dispatch
    <2>1. queue = <<>> /\ osm_frame_pending
        BY <1>7 DEF Dispatch, OneFrame
    <2>2. queue' = <<[size |-> size, buffer |-> buffer]>>
        BY <1>7, <2>1 DEF Dispatch
    <2>3. UNCHANGED <<window, bound, size, buffer, memory, osm_frame_pending, calm>>
        BY <1>7 DEF Dispatch
    <2>4. pc = "dispatch" /\ pc' = "draw"
        BY <1>7 DEF Dispatch
    <2>5. \A n \in DOMAIN queue' : queue'[n].size = size /\ queue'[n].buffer = buffer
        BY <2>2
    <2> QED BY <2>1, <2>3, <2>4, <2>5
<1>8. CASE MakeCurrent
    BY <1>8 DEF MakeCurrent
<1>9. CASE MakeCurrentNull
    BY <1>9 DEF MakeCurrentNull
<1> QED BY <1>1, <1>2, <1>3, <1>4, <1>5, <1>6, <1>7, <1>8, <1>9 DEF Swap, Wait

(* No step breaks CalmInv.                                                 *)
LEMMA CalmStep == FInv /\ [Next]_vars => CalmInv'
<1> SUFFICES ASSUME FInv, [Next]_vars PROVE CalmInv'
    OBVIOUS
<1> USE DEF FInv, TInv, CalmInv, Current
<1>1. CASE \/ WillResignActive \/ DidBecomeActive \/ ChangeGround \/ ShowFrame
           \/ UNCHANGED vars
    <2>1. UNCHANGED <<window, render, bundle, frames, calm>>
        BY <1>1 DEF WillResignActive, DidBecomeActive, Notify, ChangeGround, ShowFrame, vars
    <2> QED BY <2>1 DEF render, bundle, frames
<1>2. CASE Resize
    BY <1>2 DEF Resize
<1>3. CASE SetAppForeground
    <2>1. UNCHANGED <<window, bundle, frames, calm>>
        BY <1>3 DEF SetAppForeground
    <2>2. pc' = IF pc = "asleep" THEN "lock" ELSE pc
        BY <1>3 DEF SetAppForeground
    <2>3. \A l \in {"buffer", "exchange"} : pc' = l <=> pc = l
        BY <2>2
    <2> QED BY <2>1, <2>3 DEF bundle, frames
<1>4. CASE FrameShown
    <2>1. queue # <<>> /\ queue \in Seq(Frame) /\ Len(queue) <= 1
        BY <1>4 DEF FrameShown, TypeOK, ShowInv, OneFrame
    <2>2. Tail(queue) = <<>>
        BY <2>1, TailOfOne
    <2>3. queue' = <<>> /\ osm_frame_pending' = FALSE
        BY <1>4, <2>2 DEF FrameShown
    <2>4. UNCHANGED <<window, render, bundle, calm>>
        BY <1>4 DEF FrameShown
    <2> QED BY <2>3, <2>4 DEF render, bundle
<1> QED BY <1>1, <1>2, <1>3, <1>4, CalmRender DEF Next, MainQueue

(* The main thread reads a queued frame in memory of the frame's size,     *)
(* unless the window was resized or the context unbound since the last     *)
(* swap that began on a sound bundle with no frame waiting.                *)
THEOREM FrameReadableCorrect == Spec => []FrameReadableIfCalm
<1>1. Init => FInv
    <2>1. Init => TInv
        BY TypeInit
    <2>2. Init => OneFrame
        BY DEF Init, OneFrame
    <2>3. Init => CalmInv
        BY FrameAssumption DEF Init, CalmInv
    <2> QED BY <2>1, <2>2, <2>3 DEF FInv
<1>2. FInv /\ [Next]_vars => FInv'
    BY TypeStep, OneFrameStep, CalmStep DEF FInv
<1>3. FInv => FrameReadableIfCalm
    <2> SUFFICES ASSUME FInv, calm, NEW n \in DOMAIN queue
                 PROVE  queue[n].buffer # NoBuffer /\ memory[queue[n].buffer] = queue[n].size
        BY DEF FrameReadableIfCalm, FrameReadable
    <2>1. osm_frame_pending
        BY DEF FInv, OneFrame
    <2>2. pc # "buffer" /\ size \in Size /\ buffer \in Buffer /\ memory[buffer] = size
        BY <2>1 DEF FInv, TInv, TypeOK, BundleInv, CalmInv
    <2>3. queue[n].size = size /\ queue[n].buffer = buffer
        BY DEF FInv, CalmInv, Current
    <2> QED BY <2>2, <2>3, FrameAssumption
<1>4. Spec => []FInv
    BY <1>1, <1>2, PTL DEF Spec
<1> QED BY <1>3, <1>4, PTL
=============================================================================
