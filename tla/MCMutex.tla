------------------------------- MODULE MCMutex -------------------------------
(* Instance of Mutex for TLC. *)
EXTENDS Mutex, TLC

\* Tasks are alike.
Symmetry == Permutations(Tasks)

=============================================================================
