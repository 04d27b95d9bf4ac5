---------------------------- MODULE InputStream ----------------------------
(***************************************************************************)
(* What the game may rely on for its input: one stream of events, of which *)
(* every window receives the same part, in order and without a gap, and    *)
(* which the windows leave at the same event when a poll ends. A window    *)
(* joins the stream where the polls have got to.                           *)
(***************************************************************************)
EXTENDS Naturals, Sequences

CONSTANTS Event, Window

VARIABLES
    stream,     \* the events accepted so far
    open,       \* windows of the game
    base,       \* number of events that ended polls have handed out
    joined,     \* where in the stream each window joined
    received    \* what each window has received since

vars == <<stream, open, base, joined, received>>

Position(w) == joined[w] + Len(received[w])

Init ==
    /\ stream = <<>> /\ open = {} /\ base = 0
    /\ joined = [w \in Window |-> 0]
    /\ received = [w \in Window |-> <<>>]

Accept ==
    /\ \E e \in Event : stream' = Append(stream, e)
    /\ UNCHANGED <<open, base, joined, received>>

Deliver(w) ==
    /\ w \in open /\ Position(w) < Len(stream)
    /\ received' = [received EXCEPT ![w] = Append(@, stream[Position(w) + 1])]
    /\ UNCHANGED <<stream, open, base, joined>>

(* A poll ends with every window at the same event.                        *)
EndPoll ==
    /\ open # {}
    /\ base' \in base .. Len(stream)
    /\ \A w \in open : Position(w) = base'
    /\ UNCHANGED <<stream, open, joined, received>>

Open(w) ==
    /\ w \notin open
    /\ open' = open \cup {w}
    /\ joined' = [joined EXCEPT ![w] = base]
    /\ received' = [received EXCEPT ![w] = <<>>]
    /\ UNCHANGED <<stream, base>>

Close(w) ==
    /\ w \in open
    /\ open' = open \ {w}
    /\ joined' = [joined EXCEPT ![w] = 0]
    /\ received' = [received EXCEPT ![w] = <<>>]
    /\ UNCHANGED <<stream, base>>

Next ==
    \/ Accept \/ EndPoll
    \/ \E w \in Window : Deliver(w) \/ Open(w) \/ Close(w)

Spec == Init /\ [][Next]_vars
=============================================================================
