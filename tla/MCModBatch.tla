----------------------------- MODULE MCModBatch -----------------------------
(* ModBatch on two names and two contents: a target may replace a file in  *)
(* place, take the other name, or do both. Two batch directories: one left *)
(* behind by a failed commit, or overlooked by a recovery, and one more.   *)
EXTENDS ModBatch, TLC

(* Bound: changes by hand as long as no commit began over an overlooked    *)
(* journal. After that, the properties they matter to promise nothing.     *)
EditsWhileRead == edits = 0 \/ ~unread

Symmetry == Permutations(BatchId) \cup Permutations(Data) \cup Permutations(Names)
=============================================================================
