---------------------------- MODULE MCLifecycle ----------------------------
(* Instances of Lifecycle for TLC. *)
EXTENDS Lifecycle, TLC

\* Any two rakaia sockets, and any two psock allocations, can be exchanged.
LifecycleSymmetry == Permutations(Ksks) \cup Permutations(Psocks)
=============================================================================
