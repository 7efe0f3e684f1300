---------------------------- MODULE MCPodSandbox ----------------------------
(* A small instance of PodSandbox for TLC. *)
EXTENDS PodSandbox, TLC

\* The goroutines that serve calls are interchangeable.
Symmetry == Permutations(Threads)

=============================================================================
