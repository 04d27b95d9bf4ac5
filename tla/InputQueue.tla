----------------------------- MODULE InputQueue -----------------------------
(***************************************************************************)
(* The event queue of input_bridge_v3.m, between the UIKit threads that    *)
(* produce input and the render thread of the game, which polls it.        *)
(*                                                                         *)
(* sendData appends an event under eventLock, or drops it when the queue   *)
(* is full. glfwPollEvents (GLFW.java) pumps every window and rewinds: the *)
(* first pump drains the queue into pollEvents, and every window gets that *)
(* list; what is sent in the meantime waits for the next poll. The cursor  *)
(* position is no event: pumps compare it to the last one they reported.   *)
(*                                                                         *)
(* An event is known by its number in the order of sending.                *)
(***************************************************************************)
EXTENDS Naturals, Sequences

CONSTANTS
    Producer,   \* threads that send input
    Window,     \* windows the game may open
    NoWindow,   \* no window is being pumped
    Nobody,     \* nobody holds eventLock
    Render,     \* the render thread, as a holder of eventLock
    Capacity,   \* events the queue takes, 7999
    MaxSent,    \* bound on the events sent
    Place       \* cursor positions

ASSUME QueueAssumption ==
    /\ NoWindow \notin Window
    /\ {Nobody, Render} \cap Producer = {} /\ Nobody # Render
    /\ Capacity \in Nat \ {0}
    /\ MaxSent \in Nat

VARIABLES
    lock, events, eventCounter,                 \* shared
    sending,                                    \* producers inside sendData
    pc, win, left, next,                        \* the poll of the render thread
    pollTaken, pollCount, pollEvents,
    cursor, cLast,                              \* shared, without a lock
    sent, stream, base, joined, received,       \* history: events
    told, torn,                                 \* history: the position reported
    open                                        \* mGLFWWindowMap

shared == <<lock, events, eventCounter>>
poll == <<pc, win, left, next, pollTaken, pollCount, pollEvents>>
mouse == <<cursor, cLast, told, torn>>
history == <<base, joined, received>>
vars == <<shared, sending, poll, mouse, sent, stream, history, open>>

Slots == 1 .. Capacity
Quiet == [step |-> "idle", event |-> 0, counter |-> 0]

Init ==
    /\ lock = Nobody /\ events = [s \in Slots |-> 0] /\ eventCounter = 0
    /\ sending = [p \in Producer |-> Quiet]
    /\ pc = "idle" /\ win = NoWindow /\ left = {} /\ next = 0
    /\ pollTaken = FALSE /\ pollCount = 0 /\ pollEvents = [s \in Slots |-> 0]
    /\ cursor \in Place /\ cLast = cursor /\ told = cursor /\ torn = FALSE
    /\ sent = 0 /\ stream = <<>> /\ base = 0
    /\ joined = [w \in Window |-> 0] /\ received = [w \in Window |-> <<>>]
    /\ open = {}

-----------------------------------------------------------------------------
(* sendData, one critical section: read the counter, fill the slot, store  *)
(* the counter.                                                            *)
SendLock(p) ==
    /\ sending[p].step = "idle" /\ sent < MaxSent
    /\ lock = Nobody /\ lock' = p
    /\ sent' = sent + 1
    /\ sending' = [sending EXCEPT ![p] =
          [step |-> "fill", event |-> sent + 1, counter |-> eventCounter]]
    /\ UNCHANGED <<events, eventCounter, poll, mouse, stream, history, open>>

FillOneMore(p) ==           \* mutant: takes one event more than there are slots
    /\ sending[p].step = "fill"
    /\ IF sending[p].counter <= Capacity
       THEN /\ events' = [events EXCEPT ![sending[p].counter + 1] = sending[p].event]
            /\ sending' = [sending EXCEPT ![p].step = "store", ![p].counter = @ + 1]
            /\ stream' = Append(stream, sending[p].event)
       ELSE /\ sending' = [sending EXCEPT ![p].step = "store"]
            /\ UNCHANGED <<events, stream>>
    /\ UNCHANGED <<lock, eventCounter, poll, mouse, sent, history, open>>

Fill(p) ==
    /\ sending[p].step = "fill"
    /\ IF sending[p].counter < Capacity
       THEN /\ events' = [events EXCEPT ![sending[p].counter + 1] = sending[p].event]
            /\ sending' = [sending EXCEPT ![p].step = "store", ![p].counter = @ + 1]
            /\ stream' = Append(stream, sending[p].event)
       ELSE /\ sending' = [sending EXCEPT ![p].step = "store"]
            /\ UNCHANGED <<events, stream>>
    /\ UNCHANGED <<lock, eventCounter, poll, mouse, sent, history, open>>

Store(p) ==
    /\ sending[p].step = "store"
    /\ eventCounter' = sending[p].counter
    /\ lock' = Nobody
    /\ sending' = [sending EXCEPT ![p] = Quiet]
    /\ UNCHANGED <<events, poll, mouse, sent, stream, history, open>>

(* nativeSendCursorPos writes the position, without a lock.                *)
SendCursorPos ==
    /\ cursor' \in Place \ {cursor}
    /\ torn' = (torn \/ pc = "tell")
    /\ UNCHANGED <<shared, sending, poll, cLast, told, sent, stream, history, open>>

-----------------------------------------------------------------------------
(* The render thread between two polls.                                    *)
CreateWindow(w) ==
    /\ pc = "idle" /\ w \notin open
    /\ open' = open \cup {w}
    /\ joined' = [joined EXCEPT ![w] = base]
    /\ UNCHANGED <<shared, sending, poll, mouse, sent, stream, base, received>>

DestroyWindow(w) ==
    /\ pc = "idle" /\ w \in open
    /\ open' = open \ {w}
    /\ joined' = [joined EXCEPT ![w] = 0]
    /\ received' = [received EXCEPT ![w] = <<>>]
    /\ UNCHANGED <<shared, sending, poll, mouse, sent, stream, base>>

SetCursorPos ==
    /\ pc = "idle"
    /\ \E x \in Place : cursor' = x /\ cLast' = x /\ told' = x
    /\ torn' = FALSE
    /\ UNCHANGED <<shared, sending, poll, sent, stream, history, open>>

(* glfwPollEvents: for each window pojavPumpEvents, then the rewind.       *)
PollEvents ==
    /\ pc = "idle"
    /\ pc' = "windows" /\ left' = open
    /\ UNCHANGED <<shared, sending, win, next, pollTaken, pollCount, pollEvents,
                   mouse, sent, stream, history, open>>

PumpEventsAnew ==           \* mutant: drains the queue for every window
    /\ pc = "windows"
    /\ \E w \in left : win' = w /\ left' = left \ {w}
    /\ pc' = "take"
    /\ UNCHANGED <<shared, sending, next, pollTaken, pollCount, pollEvents,
                   mouse, sent, stream, history, open>>

PumpEvents ==
    /\ pc = "windows"
    /\ \E w \in left : win' = w /\ left' = left \ {w}
    /\ pc' = IF pollTaken THEN "cursor" ELSE "take"
    /\ UNCHANGED <<shared, sending, next, pollTaken, pollCount, pollEvents,
                   mouse, sent, stream, history, open>>

LockNothing ==              \* mutant: drains the queue without the lock
    /\ pc = "take" /\ pc' = "copy"
    /\ UNCHANGED <<shared, sending, win, left, next, pollTaken, pollCount,
                   pollEvents, mouse, sent, stream, history, open>>

Lock ==
    /\ pc = "take" /\ lock = Nobody
    /\ lock' = Render /\ pc' = "copy"
    /\ UNCHANGED <<events, eventCounter, sending, win, left, next, pollTaken, pollCount,
                   pollEvents, mouse, sent, stream, history, open>>

Copy ==
    /\ pc = "copy"
    /\ pollCount' = eventCounter
    /\ pollEvents' = [s \in Slots |-> IF s <= eventCounter THEN events[s] ELSE pollEvents[s]]
    /\ pc' = "reset"
    /\ UNCHANGED <<shared, sending, win, left, next, pollTaken, mouse, sent, stream,
                   history, open>>

Reset ==
    /\ pc = "reset"
    /\ eventCounter' = 0 /\ lock' = Nobody
    /\ pollTaken' = TRUE /\ pc' = "cursor"
    /\ UNCHANGED <<events, sending, win, left, next, pollCount, pollEvents, mouse, sent,
                   stream, history, open>>

CompareCursorOnly ==        \* mutant: notes a new position, and forgets to report it
    /\ pc = "cursor"
    /\ cLast' = cursor /\ torn' = FALSE
    /\ pc' = "deliver" /\ next' = 1
    /\ UNCHANGED <<shared, sending, win, left, pollTaken, pollCount, pollEvents, cursor,
                   told, sent, stream, history, open>>

(* The position is compared and noted first, and read again to be passed   *)
(* on.                                                                     *)
CompareCursor ==
    /\ pc = "cursor"
    /\ IF cLast # cursor
       THEN cLast' = cursor /\ torn' = FALSE /\ pc' = "tell" /\ UNCHANGED next
       ELSE pc' = "deliver" /\ next' = 1 /\ UNCHANGED <<cLast, torn>>
    /\ UNCHANGED <<shared, sending, win, left, pollTaken, pollCount, pollEvents, cursor,
                   told, sent, stream, history, open>>

TellCursor ==
    /\ pc = "tell"
    /\ told' = cursor
    /\ pc' = "deliver" /\ next' = 1
    /\ UNCHANGED <<shared, sending, win, left, pollTaken, pollCount, pollEvents, cursor,
                   cLast, torn, sent, stream, history, open>>

Deliver ==
    /\ pc = "deliver" /\ next <= pollCount
    /\ received' = [received EXCEPT ![win] = Append(@, pollEvents[next])]
    /\ next' = next + 1
    /\ UNCHANGED <<shared, sending, pc, win, left, pollTaken, pollCount, pollEvents, mouse,
                   sent, stream, base, joined, open>>

Pumped ==
    /\ pc = "deliver" /\ next > pollCount
    /\ pc' = "windows" /\ win' = NoWindow /\ next' = 0
    /\ UNCHANGED <<shared, sending, left, pollTaken, pollCount, pollEvents, mouse, sent,
                   stream, history, open>>

RewindEventsClear ==        \* mutant: the rewind empties the queue
    /\ pc = "windows" /\ left = {}
    /\ pollTaken' = FALSE /\ pollCount' = 0 /\ pc' = "idle"
    /\ base' = base + pollCount /\ eventCounter' = 0
    /\ UNCHANGED <<lock, events, sending, win, left, next, pollEvents, mouse, sent,
                   stream, joined, received, open>>

RewindEvents ==
    /\ pc = "windows" /\ left = {}
    /\ pollTaken' = FALSE /\ pollCount' = 0 /\ pc' = "idle"
    /\ base' = base + pollCount
    /\ UNCHANGED <<shared, sending, win, left, next, pollEvents, mouse, sent, stream,
                   joined, received, open>>

-----------------------------------------------------------------------------
SendData(p) == SendLock(p) \/ Fill(p) \/ Store(p)

Polling ==
    \/ PollEvents \/ PumpEvents \/ Lock \/ Copy \/ Reset \/ CompareCursor \/ TellCursor
    \/ Deliver \/ Pumped \/ RewindEvents

Next ==
    \/ \E p \in Producer : SendData(p)
    \/ \E w \in Window : CreateWindow(w) \/ DestroyWindow(w)
    \/ SendCursorPos \/ SetCursorPos \/ Polling

(* A thread inside sendData goes on, and the game keeps polling.           *)
Fairness ==
    /\ \A p \in Producer : WF_vars(Fill(p) \/ Store(p))
    /\ WF_vars(Polling)

Spec == Init /\ [][Next]_vars /\ Fairness

-----------------------------------------------------------------------------
(* Every variable has its type; a window receives only what was sent.      *)
TypeOK ==
    /\ lock \in Producer \cup {Render, Nobody}
    /\ events \in [Slots -> 0 .. MaxSent]
    /\ eventCounter \in 0 .. Capacity
    /\ sending \in [Producer -> [step : {"idle", "fill", "store"},
                                 event : 0 .. MaxSent, counter : 0 .. Capacity]]
    /\ pc \in {"idle", "windows", "take", "copy", "reset", "cursor", "tell", "deliver"}
    /\ win \in Window \cup {NoWindow}
    /\ left \in SUBSET Window
    /\ next \in 0 .. Capacity + 1
    /\ pollTaken \in BOOLEAN
    /\ pollCount \in 0 .. Capacity
    /\ pollEvents \in [Slots -> 0 .. MaxSent]
    /\ cursor \in Place /\ cLast \in Place /\ told \in Place /\ torn \in BOOLEAN
    /\ sent \in 0 .. MaxSent
    /\ stream \in Seq(1 .. MaxSent)
    /\ base \in Nat
    /\ joined \in [Window -> Nat]
    /\ received \in [Window -> Seq(1 .. MaxSent)]
    /\ open \in SUBSET Window

Stream == INSTANCE InputStream WITH Event <- 1 .. MaxSent

(* "events taken for the current poll, every window gets the same list     *)
(* until rewind" (input_bridge_v3.m:360): the windows receive one stream.  *)
OneStream == Stream!Spec

(* "draining here keeps events that land between pump and rewind for the   *)
(* next poll" (input_bridge_v3.m:375): every accepted event is on its way. *)
Waiting == SubSeq(events, 1, eventCounter)
NothingLost ==
    lock = Nobody =>
        stream = SubSeq(stream, 1, base) \o SubSeq(pollEvents, 1, pollCount) \o Waiting

(* Every event reaches every window that stays open.                       *)
Delivered ==
    \A w \in Window, n \in 1 .. MaxSent :
        Len(stream) >= n /\ w \in open /\ joined[w] < n
            ~> w \notin open \/ joined[w] + Len(received[w]) >= n

(* A cursor that has stopped is reported to the game as it is, unless it   *)
(* moved between the comparison of the last report and the report itself:  *)
(* coming back to the compared position, it would not be reported again.   *)
CursorTold ==
    (<>[][cursor' = cursor]_cursor /\ <>[](open # {})) => <>[](told = cursor \/ torn)
=============================================================================
