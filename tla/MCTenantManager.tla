-------------------------- MODULE MCTenantManager --------------------------
(* Instances of TenantManager for TLC. *)
EXTENDS TenantManager, TLC

\* Paths and threads are interchangeable (safety runs only).
Symmetry == Permutations(Paths) \cup Permutations(Threads)
=============================================================================
