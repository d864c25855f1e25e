--------------------------- MODULE MCSharedMemory ---------------------------
(* Instance of SharedMemory for TLC. *)
EXTENDS SharedMemory

\* One page for each of the two regions of init_shared_memory_system.
TwoRegions == <<1, 1>>

\* Frames are alike.
Symmetry == Permutations(Frames)

=============================================================================
