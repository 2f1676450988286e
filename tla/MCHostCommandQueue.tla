-------------------------- MODULE MCHostCommandQueue --------------------------
(* Small instances of HostCommandQueue.                                    *)
EXTENDS HostCommandQueue, TLC

Symmetry == Permutations(Requests) \cup Permutations(Clients) \cup Permutations(Workers)

=============================================================================
