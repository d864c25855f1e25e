--------------------------- MODULE MCMessageQueue ---------------------------
(* Instance of MessageQueue for TLC. *)
EXTENDS MessageQueue, TLC

\* No operator tells one task from another.
Symmetry == Permutations(Tasks)

=============================================================================
