----------------------------- MODULE MCSemaphore -----------------------------
(* Instance of Semaphore for TLC. *)
EXTENDS Semaphore, TLC

\* uint32_t initial values 0, 1, 2^31 (negative as int32_t) and the maximum.
Initials == {-1, 0, 1, MaxValue}

Symmetry == Permutations(Tasks)

=============================================================================
