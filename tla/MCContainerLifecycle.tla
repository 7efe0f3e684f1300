------------------------ MODULE MCContainerLifecycle ------------------------
(* Small instances of ContainerLifecycle for TLC. *)
EXTENDS ContainerLifecycle, TLC

\* The goroutines that serve calls are interchangeable.  Used by safety runs only.
Symmetry == Permutations(Threads)

=============================================================================
