-------------------------- MODULE InputQueueProofs --------------------------
(***************************************************************************)
(* Proofs about InputQueue: its types, that no accepted event is lost, and *)
(* that the windows receive one stream (InputStream).                      *)
(*                                                                         *)
(* The lock tells who may touch the queue; the poll tells how far each     *)
(* window has got; together they place every event of the stream either in *)
(* the polls that ended, in pollEvents, or in events, at a known slot.     *)
(***************************************************************************)
EXTENDS InputQueue, SequenceTheorems, TLAPS

USE QueueAssumption

(* eventLock is held by the producer inside sendData, or by the poll that  *)
(* drains the queue. A producer read the counter it will store.            *)
LockInv ==
    /\ \A p \in Producer : sending[p].step # "idle" <=> lock = p
    /\ lock = Render <=> pc \in {"copy", "reset"}
    /\ \A p \in Producer : sending[p].step = "fill" =>
          sending[p].event \in 1 .. MaxSent /\ sending[p].counter = eventCounter

(* The queue is drained by the first pump of a poll, and only there.       *)
PollInv ==
    /\ pc \in {"idle", "take", "copy", "reset"} => ~pollTaken
    /\ pc \in {"cursor", "tell", "deliver"} => pollTaken
    /\ ~pollTaken /\ pc # "reset" => pollCount = 0
    /\ pc = "deliver" => next \in 1 .. pollCount + 1
    /\ pc \in {"idle", "windows"} <=> win = NoWindow

(* The n events in the queue are the last of the stream, after those of    *)
(* the poll and of the polls before.                                       *)
Kept(n) ==
    /\ Len(stream) = base + pollCount + n
    /\ \A i \in 1 .. n : events[i] = stream[base + pollCount + i]

CountInv ==
    /\ pc # "reset" /\ (\A p \in Producer : sending[p].step # "store") => Kept(eventCounter)
    /\ \A p \in Producer : sending[p].step = "store" => Kept(sending[p].counter)
    /\ pc = "reset" => Kept(0)
    /\ \A i \in 1 .. pollCount : pollEvents[i] = stream[base + i]

(* The windows a poll has pumped are pollCount events ahead of those it    *)
(* has not; the one it is pumping is on its way.                           *)
Position(w) == joined[w] + Len(received[w])

WindowInv ==
    /\ left \subseteq open /\ win \notin left
    /\ pc = "idle" => left = {}
    /\ win # NoWindow => win \in open
    /\ pollTaken => open # {}
    /\ pc = "windows" /\ ~pollTaken => left = open
    /\ pc \in {"take", "copy", "reset"} => open = left \cup {win}
    /\ \A w \in Window \ open : joined[w] = 0 /\ received[w] = <<>>
    /\ \A w \in left : Position(w) = base
    /\ pc \in {"take", "copy", "reset", "cursor", "tell"} => Position(win) = base
    /\ pc = "deliver" => Position(win) = base + next - 1
    /\ \A w \in open \ (left \cup {win}) : Position(w) = base + pollCount

IInv == TypeOK /\ LockInv /\ PollInv /\ CountInv /\ WindowInv

-----------------------------------------------------------------------------
(* An application just started, with no window and nothing sent.           *)
LEMMA InvInit == Init => IInv
<1> SUFFICES ASSUME Init PROVE IInv
    OBVIOUS
<1> USE DEF Init
<1>1. TypeOK
    <2>1. sending \in [Producer -> [step : {"idle", "fill", "store"},
                                    event : 0 .. MaxSent, counter : 0 .. Capacity]]
        BY DEF Quiet
    <2>2. events \in [Slots -> 0 .. MaxSent] /\ pollEvents \in [Slots -> 0 .. MaxSent]
        OBVIOUS
    <2>3. stream \in Seq(1 .. MaxSent) /\ received \in [Window -> Seq(1 .. MaxSent)]
        OBVIOUS
    <2>4. joined \in [Window -> Nat]
        OBVIOUS
    <2>5. eventCounter \in 0 .. Capacity /\ pollCount \in 0 .. Capacity
          /\ next \in 0 .. Capacity + 1 /\ sent \in 0 .. MaxSent /\ base \in Nat
        OBVIOUS
    <2>6. lock \in Producer \cup {Render, Nobody} /\ win \in Window \cup {NoWindow}
          /\ cursor \in Place /\ cLast \in Place /\ told \in Place
        OBVIOUS
    <2>7. pc = "idle" /\ left = {} /\ open = {} /\ pollTaken = FALSE /\ torn = FALSE
        OBVIOUS
    <2> HIDE DEF Init
    <2> QED BY <2>1, <2>2, <2>3, <2>4, <2>5, <2>6, <2>7 DEF TypeOK
<1>2. LockInv /\ PollInv
    BY DEF LockInv, PollInv, Quiet
<1>3. CountInv
    BY DEF CountInv, Kept, Quiet
<1>4. WindowInv
    BY DEF WindowInv, Position
<1> QED BY <1>1, <1>2, <1>3, <1>4 DEF IInv

(* The list of the poll never runs ahead of the stream.                    *)
LEMMA StreamLength ==
    ASSUME IInv
    PROVE  Len(stream) \in Nat /\ Len(stream) >= base + pollCount
<1>1. \E n \in Nat : Kept(n)
    <2>1. CASE pc = "reset"
        BY <2>1 DEF IInv, CountInv
    <2>2. CASE pc # "reset" /\ \A p \in Producer : sending[p].step # "store"
        BY <2>2 DEF IInv, CountInv, TypeOK
    <2>3. ASSUME NEW p \in Producer, sending[p].step = "store" PROVE Kept(sending[p].counter)
        BY <2>3 DEF IInv, CountInv
    <2>4. \A p \in Producer : sending[p].counter \in Nat
        BY DEF IInv, TypeOK
    <2> QED BY <2>1, <2>2, <2>3, <2>4
<1>2. base \in Nat /\ pollCount \in Nat
    BY DEF IInv, TypeOK
<1> QED BY <1>1, <1>2 DEF Kept

(* A thread takes eventLock and reads the counter.                         *)
LEMMA SendLockStep ==
    ASSUME IInv, NEW p \in Producer, SendLock(p)
    PROVE  IInv'
<1> USE DEF IInv, SendLock, poll, mouse, history
<1>1. sending'[p] = [step |-> "fill", event |-> sent + 1, counter |-> eventCounter]
      /\ \A q \in Producer \ {p} : sending'[q] = sending[q]
    BY DEF TypeOK
<1>2. TypeOK'
    <2>1. sent + 1 \in 1 .. MaxSent
        BY DEF TypeOK
    <2>2. sending' \in [Producer -> [step : {"idle", "fill", "store"},
                                     event : 0 .. MaxSent, counter : 0 .. Capacity]]
        BY <2>1 DEF TypeOK
    <2> QED BY <2>1, <2>2 DEF TypeOK
<1>3. LockInv'
    BY <1>1 DEF LockInv, TypeOK
<1>4. PollInv'
    BY DEF PollInv
<1>5. CountInv'
    BY <1>1 DEF CountInv, Kept, LockInv
<1>6. WindowInv'
    BY DEF WindowInv, Position
<1> QED BY <1>2, <1>3, <1>4, <1>5, <1>6

(* The event goes into the slot after the others, or is dropped.           *)
LEMMA FillStep ==
    ASSUME IInv, NEW p \in Producer, Fill(p)
    PROVE  IInv'
<1> USE DEF IInv, Fill, poll, mouse, history
<1> DEFINE n == eventCounter
           e == sending[p].event
<1>1. /\ sending[p].step = "fill" /\ sending[p].counter = n /\ e \in 1 .. MaxSent
      /\ lock = p /\ pc \notin {"copy", "reset"}
      /\ \A q \in Producer \ {p} : sending[q].step = "idle"
    BY DEF LockInv
<1>2. Kept(n)
    BY <1>1 DEF CountInv
<1>3. n \in 0 .. Capacity /\ sending[p] \in [step : {"idle", "fill", "store"},
                                 event : 0 .. MaxSent, counter : 0 .. Capacity]
    BY DEF TypeOK
<1>4. CASE n < Capacity
    <2>1. /\ events' = [events EXCEPT ![n + 1] = e]
          /\ stream' = Append(stream, e)
          /\ sending' = [sending EXCEPT ![p].step = "store", ![p].counter = @ + 1]
        BY <1>1, <1>4
    <2>2. sending'[p] = [step |-> "store", event |-> e, counter |-> n + 1]
          /\ \A q \in Producer \ {p} : sending'[q] = sending[q]
        BY <2>1, <1>1, <1>3 DEF TypeOK
    <2>3. sending' \in [Producer -> [step : {"idle", "fill", "store"},
                                     event : 0 .. MaxSent, counter : 0 .. Capacity]]
        <3>1. n + 1 \in 0 .. Capacity
            BY <1>3, <1>4
        <3>2. \A q \in Producer :
                  sending'[q] \in [step : {"idle", "fill", "store"},
                                  event : 0 .. MaxSent, counter : 0 .. Capacity]
            <4>1. \A q \in Producer :
                      sending[q] \in [step : {"idle", "fill", "store"},
                                     event : 0 .. MaxSent, counter : 0 .. Capacity]
                BY DEF TypeOK
            <4>2. e \in 0 .. MaxSent
                BY <1>3
            <4> HIDE DEF Fill, IInv, n, e
            <4> QED BY <2>2, <3>1, <4>1, <4>2
        <3> HIDE DEF Fill, IInv
        <3>3. sending' = [q \in Producer |-> sending'[q]]
            BY <2>1 DEF TypeOK, IInv
        <3> QED BY <3>2, <3>3
    <2>4. /\ stream' \in Seq(1 .. MaxSent) /\ Len(stream') = Len(stream) + 1
          /\ stream'[Len(stream) + 1] = e
          /\ \A i \in 1 .. Len(stream) : stream'[i] = stream[i]
        BY <2>1, <1>1 DEF TypeOK
    <2>5. events' \in [Slots -> 0 .. MaxSent]
        BY <2>1, <1>1, <1>4 DEF TypeOK
    <2>6. TypeOK'
        BY <2>3, <2>4, <2>5 DEF TypeOK
    <2>7. events'[n + 1] = e /\ \A i \in 1 .. n : events'[i] = events[i]
        <3>1. events \in [1 .. Capacity -> 0 .. MaxSent]
            BY DEF TypeOK, Slots
        <3> HIDE DEF Fill, IInv, n
        <3>2. n + 1 \in 1 .. Capacity /\ \A i \in 1 .. n : i \in 1 .. Capacity /\ i # n + 1
            BY <1>3, <1>4
        <3> QED BY <2>1, <3>1, <3>2
    <2>8. CountInv'
        <3>1. UNCHANGED <<base, pollCount, pollEvents, pc>> /\ base \in Nat /\ pollCount \in Nat
            BY DEF TypeOK
        <3>2. Len(stream) = base + pollCount + n /\ Len(stream) \in Nat
            BY <1>2 DEF Kept, TypeOK
        <3>3. \A i \in 1 .. n + 1 : events'[i] = stream'[base + pollCount + i]
            <4> SUFFICES ASSUME NEW i \in 1 .. n + 1
                         PROVE  events'[i] = stream'[base + pollCount + i]
                OBVIOUS
            <4> HIDE DEF Fill, IInv, n
            <4>1. CASE i = n + 1
                BY <4>1, <2>4, <2>7, <3>1, <3>2, <1>3
            <4>2. CASE i \in 1 .. n
                <5>1. base + pollCount + i \in 1 .. Len(stream)
                    BY <4>2, <3>1, <3>2, <1>3
                <5>2. events[i] = stream[base + pollCount + i]
                    BY <4>2, <1>2 DEF Kept
                <5> QED BY <4>2, <5>1, <5>2, <2>4, <2>7
            <4> QED BY <4>1, <4>2, <1>3
        <3>4. Len(stream') = base' + pollCount' + (n + 1)
            BY <2>4, <3>1, <3>2, <1>3
        <3>5. \A i \in 1 .. pollCount : pollEvents'[i] = stream'[base + i]
            <4> SUFFICES ASSUME NEW i \in 1 .. pollCount PROVE pollEvents'[i] = stream'[base + i]
                OBVIOUS
            <4>1. base + i \in 1 .. Len(stream)
                <5> HIDE DEF Fill, IInv, n
                <5> QED BY <3>1, <3>2, <1>3
            <4> QED BY <4>1, <2>4, <3>1 DEF CountInv
        <3>6. \A q \in Producer : sending'[q].step = "store" =>
                  q = p /\ sending'[q].counter = n + 1
            BY <2>2, <1>1
        <3>7. sending'[p].step = "store" /\ pc' # "reset"
            BY <3>1, <2>2, <1>1
        <3> HIDE DEF Fill, IInv, n
        <3> QED BY <3>1, <3>3, <3>4, <3>5, <3>6, <3>7 DEF CountInv, Kept
    <2> QED BY <2>2, <2>6, <2>8, <1>1 DEF LockInv, PollInv, WindowInv, Position
<1>5. CASE ~(n < Capacity)
    <2>1. /\ UNCHANGED <<events, stream>>
          /\ sending' = [sending EXCEPT ![p].step = "store"]
        BY <1>1, <1>5
    <2>2. sending'[p] = [step |-> "store", event |-> e, counter |-> n]
          /\ \A q \in Producer \ {p} : sending'[q] = sending[q]
        BY <2>1, <1>1, <1>3 DEF TypeOK
    <2>3. sending' \in [Producer -> [step : {"idle", "fill", "store"},
                                     event : 0 .. MaxSent, counter : 0 .. Capacity]]
        BY <2>1, <2>2, <1>3 DEF TypeOK
    <2>4. TypeOK'
        BY <2>1, <2>3 DEF TypeOK
    <2>5. CountInv'
        BY <2>1, <2>2, <1>1, <1>2 DEF CountInv, Kept
    <2> QED BY <2>2, <2>4, <2>5, <1>1 DEF LockInv, PollInv, WindowInv, Position
<1> QED BY <1>4, <1>5

(* The counter now counts the event, and the lock is free.                 *)
LEMMA StoreStep ==
    ASSUME IInv, NEW p \in Producer, Store(p)
    PROVE  IInv'
<1> USE DEF IInv, Store, poll, mouse, history
<1>1. /\ sending[p].step = "store" /\ lock = p /\ pc \notin {"copy", "reset"}
      /\ \A q \in Producer \ {p} : sending[q].step = "idle"
    BY DEF LockInv
<1>2. /\ sending'[p].step = "idle"
      /\ \A q \in Producer \ {p} : sending'[q] = sending[q]
    BY DEF TypeOK, Quiet
<1>3. TypeOK'
    <2>1. eventCounter' \in 0 .. Capacity
        BY DEF TypeOK
    <2>2. sending' \in [Producer -> [step : {"idle", "fill", "store"},
                                     event : 0 .. MaxSent, counter : 0 .. Capacity]]
        <3>1. Quiet \in [step : {"idle", "fill", "store"},
                         event : 0 .. MaxSent, counter : 0 .. Capacity]
            BY DEF Quiet
        <3>2. sending' = [sending EXCEPT ![p] = Quiet]
            OBVIOUS
        <3>3. sending \in [Producer -> [step : {"idle", "fill", "store"},
                                        event : 0 .. MaxSent, counter : 0 .. Capacity]]
            BY DEF TypeOK
        <3> HIDE DEF IInv, Store
        <3> QED BY <3>1, <3>2, <3>3
    <2>3. lock' = Nobody
          /\ UNCHANGED <<events, poll, mouse, sent, stream, history, open>>
        OBVIOUS
    <2> HIDE DEF Store
    <2> QED BY <2>1, <2>2, <2>3 DEF TypeOK
<1>4. LockInv'
    BY <1>1, <1>2 DEF LockInv
<1>5. CountInv'
    BY <1>1, <1>2 DEF CountInv, Kept
<1> QED BY <1>3, <1>4, <1>5 DEF PollInv, WindowInv, Position

(* The cursor position is no part of the queue.                            *)
LEMMA CursorStep ==
    ASSUME IInv, SendCursorPos \/ SetCursorPos
    PROVE  IInv'
<1> USE DEF IInv, SendCursorPos, SetCursorPos, shared, poll, history
<1>1. TypeOK'
    BY DEF TypeOK
<1>2. LockInv' /\ PollInv'
    BY DEF LockInv, PollInv
<1>3. CountInv'
    BY DEF CountInv, Kept
<1>4. WindowInv'
    BY DEF WindowInv, Position
<1> QED BY <1>1, <1>2, <1>3, <1>4

(* A new window joins at the base, where the polls have got to.            *)
LEMMA CreateStep ==
    ASSUME IInv, NEW w \in Window, CreateWindow(w)
    PROVE  IInv'
<1> USE DEF IInv, CreateWindow, shared, poll, mouse
<1>1. ~pollTaken /\ pollCount = 0 /\ win = NoWindow /\ left = {}
    BY DEF PollInv, WindowInv
<1>2. TypeOK'
    BY DEF TypeOK
<1>3. joined'[w] = base /\ received'[w] = <<>>
      /\ \A v \in Window \ {w} : joined'[v] = joined[v] /\ received'[v] = received[v]
    BY DEF TypeOK, WindowInv
<1>4. Position(w)' = base /\ \A v \in Window \ {w} : Position(v)' = Position(v)
    BY <1>3 DEF Position, TypeOK
<1>5. WindowInv'
    BY <1>1, <1>3, <1>4 DEF WindowInv, TypeOK
<1>6. CountInv'
    BY DEF CountInv, Kept
<1> QED BY <1>2, <1>5, <1>6 DEF LockInv, PollInv

(* A window that is gone forgets what it received.                         *)
LEMMA DestroyStep ==
    ASSUME IInv, NEW w \in Window, DestroyWindow(w)
    PROVE  IInv'
<1> USE DEF IInv, DestroyWindow, shared, poll, mouse
<1>1. ~pollTaken /\ pollCount = 0 /\ win = NoWindow /\ left = {}
    BY DEF PollInv, WindowInv
<1>2. TypeOK'
    BY DEF TypeOK
<1>3. joined'[w] = 0 /\ received'[w] = <<>>
      /\ \A v \in Window \ {w} : joined'[v] = joined[v] /\ received'[v] = received[v]
    BY DEF TypeOK
<1>4. \A v \in Window \ {w} : Position(v)' = Position(v)
    BY <1>3 DEF Position
<1>5. WindowInv'
    BY <1>1, <1>3, <1>4 DEF WindowInv, TypeOK
<1>6. CountInv'
    BY DEF CountInv, Kept
<1> QED BY <1>2, <1>5, <1>6 DEF LockInv, PollInv

(* A poll begins, and turns to its first or its next window.               *)
LEMMA PumpStep ==
    ASSUME IInv, PollEvents \/ PumpEvents \/ CompareCursor \/ TellCursor
    PROVE  IInv'
<1> USE DEF IInv, shared, mouse, history
<1>1. CASE PollEvents
    <2>1. TypeOK'
        BY <1>1 DEF PollEvents, TypeOK
    <2>2. LockInv' /\ PollInv'
        BY <1>1 DEF PollEvents, LockInv, PollInv
    <2>3. CountInv'
        BY <1>1 DEF PollEvents, CountInv, Kept
    <2>4. WindowInv'
        BY <1>1 DEF PollEvents, WindowInv, Position, PollInv, TypeOK
    <2> QED BY <2>1, <2>2, <2>3, <2>4
<1>2. CASE PumpEvents
    <2>1. PICK w \in left : win' = w /\ left' = left \ {w}
        BY <1>2 DEF PumpEvents
    <2>2. w \in Window /\ w \in open /\ w # NoWindow /\ win = NoWindow
        BY <2>1, <1>2 DEF TypeOK, WindowInv, PollInv, PumpEvents
    <2>3. TypeOK'
        BY <2>1, <2>2, <1>2 DEF PumpEvents, TypeOK
    <2>4. LockInv' /\ CountInv'
        BY <1>2 DEF PumpEvents, LockInv, CountInv, Kept
    <2>5. PollInv'
        BY <2>1, <2>2, <1>2 DEF PumpEvents, PollInv
    <2>6. /\ pc' = IF pollTaken THEN "cursor" ELSE "take"
          /\ UNCHANGED <<open, joined, received, base, pollCount, pollTaken, next>>
        BY <1>2 DEF PumpEvents, poll
    <2>7. \A v \in Window : Position(v)' = Position(v)
        BY <2>6 DEF Position
    <2>8. ~pollTaken => left = open
        BY <1>2 DEF PumpEvents, WindowInv
    <2>9. WindowInv'
        BY <2>1, <2>2, <2>6, <2>7, <2>8 DEF WindowInv, TypeOK
    <2> QED BY <2>3, <2>4, <2>5, <2>9
<1>3. CASE CompareCursor
    <2>1. pc' \in {"tell", "deliver"} /\ next' \in 0 .. Capacity + 1
          /\ cLast' \in Place /\ torn' \in BOOLEAN
        <3>1. next \in 0 .. Capacity + 1 /\ 1 \in 0 .. Capacity + 1 /\ cursor \in Place
              /\ cLast \in Place /\ torn \in BOOLEAN
            BY DEF TypeOK
        <3> HIDE DEF IInv
        <3> QED BY <1>3, <3>1 DEF CompareCursor
    <2>2. TypeOK'
        BY <1>3, <2>1 DEF CompareCursor, TypeOK
    <2>3. LockInv' /\ CountInv'
        BY <1>3 DEF CompareCursor, LockInv, CountInv, Kept
    <2>4. /\ pollTaken /\ win # NoWindow /\ pollCount \in Nat
          /\ pc' = "deliver" => next' = 1
          /\ UNCHANGED <<win, left, pollTaken, pollCount, open, joined, received, base>>
        BY <1>3 DEF CompareCursor, PollInv, TypeOK
    <2>5. PollInv'
        BY <2>1, <2>4 DEF PollInv
    <2>6. Position(win) = base /\ base \in Nat /\ win \in open
        BY <1>3, <2>4 DEF CompareCursor, WindowInv, TypeOK
    <2>7. \A v \in Window : Position(v)' = Position(v)
        BY <2>4 DEF Position
    <2>8. Position(win)' = Position(win)
        BY <2>4 DEF Position
    <2>9. WindowInv'
        <3>1. WindowInv /\ open \subseteq Window /\ left \subseteq Window
            BY DEF TypeOK
        <3> HIDE DEF IInv
        <3> QED BY <3>1, <2>1, <2>4, <2>6, <2>7, <2>8 DEF WindowInv
    <2> QED BY <2>2, <2>3, <2>5, <2>9
<1>4. CASE TellCursor
    <2>1. TypeOK'
        BY <1>4 DEF TellCursor, TypeOK
    <2>2. LockInv' /\ CountInv'
        BY <1>4 DEF TellCursor, LockInv, CountInv, Kept
    <2>3. PollInv'
        BY <1>4 DEF TellCursor, PollInv, TypeOK
    <2>4. WindowInv'
        BY <1>4 DEF TellCursor, WindowInv, Position, PollInv, TypeOK
    <2> QED BY <2>1, <2>2, <2>3, <2>4
<1> QED BY <1>1, <1>2, <1>3, <1>4

(* The drain: under the lock the queue becomes the list of the poll.       *)
LEMMA DrainStep ==
    ASSUME IInv, Lock \/ Copy \/ Reset
    PROVE  IInv'
<1> USE DEF IInv, shared, mouse, history
<1>1. CASE Lock
    <2>1. TypeOK' /\ LockInv' /\ PollInv'
        BY <1>1 DEF Lock, TypeOK, LockInv, PollInv
    <2>2. CountInv' /\ WindowInv'
        BY <1>1 DEF Lock, CountInv, Kept, WindowInv, Position
    <2> QED BY <2>1, <2>2
<1>2. CASE Copy
    <2> USE DEF Copy
    <2>1. pollCount = 0 /\ ~pollTaken
        BY <1>2 DEF PollInv
    <2>2. \A q \in Producer : sending[q].step = "idle"
        BY <1>2 DEF LockInv
    <2>3. Kept(eventCounter)
        BY <1>2, <2>2 DEF CountInv
    <2>4. \A i \in 1 .. eventCounter : pollEvents'[i] = events[i]
        BY <1>2 DEF TypeOK, Slots
    <2>5. CountInv'
        <3>1. /\ pc' = "reset" /\ pollCount' = eventCounter
              /\ UNCHANGED <<sending, stream, base>> /\ base \in Nat /\ eventCounter \in Nat
            BY <1>2 DEF TypeOK
        <3>2. Len(stream) = base + eventCounter
              /\ \A i \in 1 .. eventCounter : events[i] = stream[base + i]
            BY <2>1, <2>3, <3>1 DEF Kept
        <3>3. Kept(0)'
            BY <3>1, <3>2 DEF Kept
        <3>4. \A i \in 1 .. pollCount' : pollEvents'[i] = stream'[base' + i]
            BY <2>4, <3>1, <3>2
        <3> HIDE DEF IInv, Copy
        <3> QED BY <2>2, <3>1, <3>3, <3>4 DEF CountInv
    <2>6. pollEvents' \in [Slots -> 0 .. MaxSent]
        BY <1>2 DEF TypeOK
    <2>7. TypeOK'
        BY <1>2, <2>6 DEF TypeOK
    <2>8. LockInv' /\ PollInv'
        BY <1>2, <2>1 DEF LockInv, PollInv
    <2>9. WindowInv'
        BY <1>2 DEF WindowInv, Position, TypeOK
    <2> QED BY <2>5, <2>7, <2>8, <2>9
<1>3. CASE Reset
    <2> USE DEF Reset
    <2>1. TypeOK'
        BY <1>3 DEF TypeOK
    <2>2. LockInv' /\ PollInv'
        BY <1>3 DEF LockInv, PollInv
    <2>3. CountInv'
        BY <1>3 DEF CountInv, Kept, LockInv
    <2>4. WindowInv'
        BY <1>3 DEF WindowInv, Position, PollInv
    <2> QED BY <2>1, <2>2, <2>3, <2>4
<1> QED BY <1>1, <1>2, <1>3

(* The window receives the next event of the list.                         *)
LEMMA DeliverStep ==
    ASSUME IInv, Deliver
    PROVE  IInv'
<1> USE DEF IInv, Deliver, shared, mouse
<1>1. /\ win \in open /\ win \in Window /\ win \notin left /\ next \in 1 .. pollCount
      /\ Position(win) = base + next - 1
    BY DEF PollInv, WindowInv, TypeOK
<1>2. pollEvents[next] \in 1 .. MaxSent
    <2>1. base + next \in 1 .. Len(stream)
        <3>1. base \in Nat /\ pollCount \in Nat
            BY DEF TypeOK
        <3>2. Len(stream) \in Nat /\ Len(stream) >= base + pollCount
            BY StreamLength
        <3> HIDE DEF IInv, Deliver
        <3> QED BY <1>1, <3>1, <3>2
    <2>2. pollEvents[next] = stream[base + next]
        BY <1>1 DEF CountInv
    <2> QED BY <2>1, <2>2 DEF TypeOK
<1>3. /\ Len(received'[win]) = Len(received[win]) + 1
      /\ \A v \in Window \ {win} : received'[v] = received[v]
      /\ received' \in [Window -> Seq(1 .. MaxSent)]
    BY <1>1, <1>2 DEF TypeOK
<1>4. TypeOK'
    <2>1. next' \in 0 .. Capacity + 1
        BY <1>1 DEF TypeOK
    <2>2. UNCHANGED <<shared, sending, pc, win, left, pollTaken, pollCount, pollEvents, mouse,
                      sent, stream, base, joined, open>>
        OBVIOUS
    <2> HIDE DEF Deliver
    <2> QED BY <1>3, <2>1, <2>2 DEF TypeOK
<1>5. LockInv' /\ PollInv' /\ CountInv'
    BY <1>1 DEF LockInv, PollInv, CountInv, Kept, TypeOK
<1>6. Position(win)' = base' + next' - 1 /\ \A v \in Window \ {win} : Position(v)' = Position(v)
    <2>1. joined[win] \in Nat /\ Len(received[win]) \in Nat /\ base \in Nat
        BY <1>1 DEF TypeOK
    <2>2. win' = win /\ base' = base /\ joined' = joined /\ next' = next + 1
        OBVIOUS
    <2>3. Position(win)' = joined[win] + (Len(received[win]) + 1)
        BY <1>3, <2>2 DEF Position
    <2>4. \A v \in Window \ {win} : Position(v)' = Position(v)
        BY <1>3, <2>2 DEF Position
    <2>5. joined[win] + Len(received[win]) = base + next - 1 /\ next \in Nat
        BY <1>1 DEF Position
    <2> HIDE DEF IInv, Deliver
    <2> QED BY <2>1, <2>2, <2>3, <2>4, <2>5
<1>7. WindowInv'
    <2>1. WindowInv /\ open \subseteq Window /\ left \subseteq Window
          /\ pc = "deliver" /\ win # NoWindow
        BY <1>1 DEF TypeOK
    <2>2. UNCHANGED <<pc, win, left, pollTaken, pollCount, base, joined, open>>
        OBVIOUS
    <2> HIDE DEF IInv, Deliver
    <2> QED BY <1>1, <1>3, <1>6, <2>1, <2>2 DEF WindowInv
<1> QED BY <1>4, <1>5, <1>7

(* A window that has the whole list is done, and the poll turns to the     *)
(* next one.                                                               *)
LEMMA PumpedStep ==
    ASSUME IInv, Pumped
    PROVE  IInv'
<1> USE DEF IInv, Pumped, shared, mouse, history
<1>1. next = pollCount + 1 /\ win \in open /\ Position(win) = base + pollCount
    BY DEF PollInv, WindowInv, TypeOK
<1>2. TypeOK'
    BY DEF TypeOK
<1>3. LockInv' /\ PollInv' /\ CountInv'
    BY DEF LockInv, PollInv, CountInv, Kept
<1>4. \A v \in Window : Position(v)' = Position(v)
    BY DEF Position
<1>5. WindowInv'
    BY <1>1, <1>4 DEF WindowInv, TypeOK, PollInv
<1> QED BY <1>2, <1>3, <1>5

(* The end of a poll: every window is pollCount events beyond the base.    *)
LEMMA RewindStep ==
    ASSUME IInv, RewindEvents
    PROVE  IInv'
<1> USE DEF IInv, RewindEvents, shared, mouse
<1>1. TypeOK'
    <2>1. base' \in Nat /\ pollCount' \in 0 .. Capacity
        BY DEF TypeOK
    <2>2. pc' = "idle" /\ pollTaken' = FALSE
        OBVIOUS
    <2>3. UNCHANGED <<shared, sending, win, left, next, pollEvents, mouse, sent, stream,
                      joined, received, open>>
        OBVIOUS
    <2> HIDE DEF RewindEvents
    <2> QED BY <2>1, <2>2, <2>3 DEF TypeOK
<1>2. LockInv' /\ PollInv'
    BY DEF LockInv, PollInv
<1>3. CountInv'
    <2>1. base' + pollCount' = base + pollCount /\ pollCount' = 0
        BY DEF TypeOK
    <2>2. \A n \in Nat : Kept(n) => Kept(n)'
        BY <2>1 DEF Kept
    <2> QED BY <2>1, <2>2 DEF CountInv, TypeOK
<1>4. \A v \in Window : Position(v)' = Position(v)
    BY DEF Position
<1>5. WindowInv'
    BY <1>4 DEF WindowInv, TypeOK, PollInv
<1> QED BY <1>1, <1>2, <1>3, <1>5

(* Every step keeps the invariant.                                         *)
LEMMA InvStep == IInv /\ [Next]_vars => IInv'
<1> SUFFICES ASSUME IInv, [Next]_vars PROVE IInv'
    OBVIOUS
<1>1. CASE UNCHANGED vars
    <2>1. TypeOK' /\ LockInv' /\ PollInv'
        BY <1>1 DEF vars, shared, poll, mouse, history, IInv, TypeOK, LockInv, PollInv
    <2>2. CountInv' /\ WindowInv'
        BY <1>1 DEF vars, shared, poll, mouse, history, IInv, CountInv, Kept, WindowInv, Position
    <2> QED BY <2>1, <2>2 DEF IInv
<1>2. CASE \E p \in Producer : SendData(p)
    BY <1>2, SendLockStep, FillStep, StoreStep DEF SendData
<1>3. CASE \E w \in Window : CreateWindow(w) \/ DestroyWindow(w)
    BY <1>3, CreateStep, DestroyStep
<1>4. CASE SendCursorPos \/ SetCursorPos
    BY <1>4, CursorStep
<1>5. CASE Polling
    BY <1>5, PumpStep, DrainStep, DeliverStep, PumpedStep, RewindStep DEF Polling
<1> QED BY <1>1, <1>2, <1>3, <1>4, <1>5 DEF Next

(* The invariant holds of every behaviour of the two sides of the queue.   *)
THEOREM InvCorrect == Spec => []IInv
<1> QED BY InvInit, InvStep, PTL DEF Spec

(* The counter, the slots and the list of the poll stay within the arrays  *)
(* of input_bridge_v3.m, whatever the capacity.                            *)
THEOREM TypeCorrect == Spec => []TypeOK
<1>1. IInv => TypeOK
    BY DEF IInv
<1> QED BY InvCorrect, <1>1, PTL

-----------------------------------------------------------------------------
(* A sequence is known from its two parts.                                 *)
LEMMA Joined ==
    ASSUME NEW s \in Seq(Nat), NEW u \in Seq(Nat), NEW v \in Seq(Nat),
           Len(s) = Len(u) + Len(v),
           \A i \in 1 .. Len(u) : s[i] = u[i],
           \A i \in 1 .. Len(v) : s[Len(u) + i] = v[i]
    PROVE  s = u \o v
<1>1. /\ u \o v \in Seq(Nat) /\ Len(u \o v) = Len(u) + Len(v)
      /\ \A i \in 1 .. Len(u) + Len(v) :
            (u \o v)[i] = IF i <= Len(u) THEN u[i] ELSE v[i - Len(u)]
    BY ConcatProperties
<1>2. ASSUME NEW i \in 1 .. Len(s) PROVE s[i] = (u \o v)[i]
    <2>1. CASE i <= Len(u)
        BY <1>1, <2>1
    <2>2. CASE ~(i <= Len(u))
        <3>1. i - Len(u) \in 1 .. Len(v) /\ Len(u) + (i - Len(u)) = i
            BY <2>2
        <3>2. s[Len(u) + (i - Len(u))] = v[i - Len(u)]
            BY <3>1
        <3> QED BY <1>1, <2>2, <3>1, <3>2
    <2> QED BY <2>1, <2>2
<1> QED BY <1>1, <1>2, SeqEqual

(* Where the lock is free, the stream is what ended polls handed out, then *)
(* the list of the poll, then the queue.                                   *)
LEMMA NothingLostHolds ==
    ASSUME IInv
    PROVE  NothingLost
<1> USE DEF IInv
<1> SUFFICES ASSUME lock = Nobody
             PROVE  stream = SubSeq(stream, 1, base) \o SubSeq(pollEvents, 1, pollCount)
                                \o Waiting
    BY DEF NothingLost
<1>1. pc # "reset" /\ \A p \in Producer : sending[p].step # "store"
    BY DEF LockInv
<1>2. Kept(eventCounter) /\ \A i \in 1 .. pollCount : pollEvents[i] = stream[base + i]
    BY <1>1 DEF CountInv
<1>3. /\ base \in Nat /\ pollCount \in Nat /\ eventCounter \in Nat
      /\ pollCount <= Capacity /\ eventCounter <= Capacity
      /\ stream \in Seq(Nat)
    BY DEF TypeOK
<1>4. events \in Seq(Nat) /\ pollEvents \in Seq(Nat)
      /\ Len(events) = Capacity /\ Len(pollEvents) = Capacity
    <2>1. events \in [1 .. Capacity -> Nat] /\ pollEvents \in [1 .. Capacity -> Nat]
        BY DEF TypeOK, Slots
    <2>2. Capacity \in Nat
        OBVIOUS
    <2> HIDE DEF IInv
    <2> QED BY <2>1, <2>2
<1>5. Len(stream) = base + pollCount + eventCounter
    BY <1>2 DEF Kept
<1> DEFINE a == SubSeq(stream, 1, base)
           b == SubSeq(pollEvents, 1, pollCount)
           c == SubSeq(events, 1, eventCounter)
           d == SubSeq(stream, 1, base + pollCount)
<1>6. a \in Seq(Nat) /\ Len(a) = base /\ \A i \in 1 .. base : a[i] = stream[i]
    BY <1>3, <1>5
<1>7. b \in Seq(Nat) /\ Len(b) = pollCount /\ \A i \in 1 .. pollCount : b[i] = pollEvents[i]
    BY <1>3, <1>4
<1>8. c \in Seq(Nat) /\ Len(c) = eventCounter /\ \A i \in 1 .. eventCounter : c[i] = events[i]
    BY <1>3, <1>4
<1>9. /\ d \in Seq(Nat) /\ Len(d) = base + pollCount
      /\ \A i \in 1 .. base + pollCount : d[i] = stream[i]
    <2>1. base + pollCount \in 0 .. Len(stream)
        BY <1>3, <1>5
    <2> QED BY <1>3, <2>1
<1> HIDE DEF IInv, a, b, c, d
<1>10. d = a \o b
    <2>1. Len(d) = Len(a) + Len(b)
        BY <1>6, <1>7, <1>9
    <2>2. ASSUME NEW i \in 1 .. Len(a) PROVE d[i] = a[i]
        <3>1. i \in 1 .. base /\ i \in 1 .. base + pollCount
            BY <1>3, <1>6
        <3> QED BY <3>1, <1>6, <1>9
    <2>3. ASSUME NEW i \in 1 .. Len(b) PROVE d[Len(a) + i] = b[i]
        <3>1. i \in 1 .. pollCount /\ base + i \in 1 .. base + pollCount
            BY <1>3, <1>7
        <3> QED BY <3>1, <1>2, <1>6, <1>7, <1>9
    <2> QED BY <1>6, <1>7, <1>9, <2>1, <2>2, <2>3, Joined
<1>11. stream = d \o c
    <2>1. Len(stream) = Len(d) + Len(c)
        BY <1>5, <1>8, <1>9
    <2>2. ASSUME NEW i \in 1 .. Len(d) PROVE stream[i] = d[i]
        BY <1>9
    <2>3. ASSUME NEW i \in 1 .. Len(c) PROVE stream[Len(d) + i] = c[i]
        BY <1>2, <1>8, <1>9 DEF Kept
    <2> QED BY <1>3, <1>8, <1>9, <2>1, <2>2, <2>3, Joined
<1> QED BY <1>10, <1>11 DEF a, b, c, Waiting

(* "draining here keeps events that land between pump and rewind for the   *)
(* next poll" (input_bridge_v3.m:375), for any number of threads, windows  *)
(* and slots.                                                              *)
THEOREM NothingLostCorrect == Spec => []NothingLost
<1> QED BY InvCorrect, NothingLostHolds, PTL

-----------------------------------------------------------------------------
(* Every step of the queue is one of the stream, or none.                  *)
LEMMA StreamStep ==
    ASSUME IInv, [Next]_vars
    PROVE  [Stream!Next]_(Stream!vars)
<1> USE DEF Stream!vars
<1>1. CASE UNCHANGED <<stream, open, history>>
    BY <1>1 DEF history
<1>2. ASSUME NEW p \in Producer, Fill(p) PROVE Stream!Accept \/ UNCHANGED Stream!vars
    <2>1. sending[p].event \in 1 .. MaxSent
        BY <1>2 DEF IInv, LockInv, Fill
    <2>2. UNCHANGED <<open, base, joined, received>>
        BY <1>2 DEF Fill, history
    <2>3. stream' = Append(stream, sending[p].event) \/ UNCHANGED stream
        BY <1>2 DEF Fill
    <2> QED BY <2>1, <2>2, <2>3 DEF Stream!Accept
<1>3. ASSUME NEW w \in Window, CreateWindow(w) PROVE Stream!Open(w)
    <2>1. received[w] = <<>> /\ received = [received EXCEPT ![w] = <<>>]
        BY <1>3 DEF IInv, WindowInv, CreateWindow, TypeOK
    <2> QED BY <1>3, <2>1 DEF CreateWindow, Stream!Open
<1>4. ASSUME NEW w \in Window, DestroyWindow(w) PROVE Stream!Close(w)
    BY <1>4 DEF DestroyWindow, Stream!Close
<1>5. ASSUME Deliver PROVE win \in Window /\ Stream!Deliver(win)
    <2>1. /\ win \in open /\ win \in Window /\ next \in 1 .. pollCount
          /\ Position(win) = base + next - 1
        BY <1>5 DEF Deliver, IInv, PollInv, WindowInv, TypeOK
    <2>2. pollEvents[next] = stream[Position(win) + 1] /\ Position(win) < Len(stream)
        BY <2>1, StreamLength DEF IInv, CountInv, TypeOK
    <2> QED BY <1>5, <2>1, <2>2 DEF Deliver, Stream!Deliver, Stream!Position, Position
<1>6. ASSUME RewindEvents PROVE Stream!EndPoll \/ UNCHANGED Stream!vars
    <2>1. UNCHANGED <<stream, open, joined, received>> /\ base' = base + pollCount
        BY <1>6 DEF RewindEvents
    <2>2. CASE open = {}
        BY <2>1, <2>2, <1>6 DEF IInv, WindowInv, PollInv, RewindEvents, TypeOK
    <2>3. CASE open # {}
        <3>1. \A w \in open : Position(w) = base + pollCount
            BY <1>6 DEF RewindEvents, IInv, WindowInv, PollInv, TypeOK
        <3> QED BY <2>1, <2>3, <3>1, StreamLength DEF Stream!EndPoll, Stream!Position, Position,
                                             IInv, TypeOK
    <2> QED BY <2>2, <2>3
<1>7. CASE Next
    BY <1>1, <1>2, <1>3, <1>4, <1>5, <1>6, <1>7
       DEF Next, SendData, Polling, SendLock, Store, SendCursorPos, SetCursorPos, PollEvents,
           PumpEvents, Lock, Copy, Reset, CompareCursor, TellCursor, Pumped, Stream!Next
<1>8. CASE UNCHANGED vars
    BY <1>1, <1>8 DEF vars, history
<1> QED BY <1>7, <1>8

(* "events taken for the current poll, every window gets the same list     *)
(* until rewind" (input_bridge_v3.m:360): the queue implements the stream. *)
THEOREM OneStreamCorrect == Spec => OneStream
<1>1. Init => Stream!Init
    BY DEF Init, Stream!Init
<1> QED BY <1>1, InvCorrect, StreamStep, PTL DEF Spec, OneStream, Stream!Spec
=============================================================================
