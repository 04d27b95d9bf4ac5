--------------------------- MODULE MCPackInstall ---------------------------
(* PackInstall with the pages of two projects: a has two versions, b one.  *)
(* Two file names: an update may keep the name of the pack or change it,   *)
(* and may meet the other project's file.                                  *)
EXTENDS PackInstall, TLC

CONSTANTS a, b, a1, a2, b1

MCData == {a1, a2, b1}
MCInstallations == {a, b}
MCProjectOf == (a1 :> a) @@ (a2 :> a) @@ (b1 :> b)

(* Bound: changes by hand as long as nothing has gone wrong without a      *)
(* word. After that, the properties they matter to promise nothing.        *)
EditsWhileCalm == edits = 0 \/ Calm

Symmetry == Permutations(Names)
=============================================================================
