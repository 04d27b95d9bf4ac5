---------------------------- MODULE MCInputQueue ----------------------------
(* InputQueue with two producers and two windows, a queue of two events    *)
(* and three events sent: the queue fills, and an event is dropped.        *)
EXTENDS InputQueue
=============================================================================
