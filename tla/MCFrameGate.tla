----------------------------- MODULE MCFrameGate -----------------------------
(* FrameGate with two window sizes and three addresses for buffers: the    *)
(* one in use, one that was freed, and a fresh one.                        *)
EXTENDS FrameGate
=============================================================================
