------------------------------ MODULE MCEvent ------------------------------
(* Instance of Event for TLC. *)
EXTENDS Event

\* No operator tells one task from another.
Symmetry == Permutations(Tasks)

=============================================================================
