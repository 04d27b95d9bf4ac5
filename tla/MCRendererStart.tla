--------------------------- MODULE MCRendererStart ---------------------------
(* RendererStart with every kind of renderer, two launches in a process,   *)
(* and four conditions of a driver: sound, absent, without the entry point *)
(* that the shim adds, and without a surface extension.                    *)
EXTENDS RendererStart

MCProfile == Kind
MCFault == {"none", "load", "layers", "surface"}
=============================================================================
