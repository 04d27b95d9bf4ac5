---------------------------- MODULE MCSDLBridge ----------------------------
(* SDLBridge with two threads that share or duplicate two windows, and one *)
(* context: a second user of it has to take it over.                       *)
EXTENDS SDLBridge
=============================================================================
