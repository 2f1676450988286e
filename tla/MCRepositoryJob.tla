-------------------------- MODULE MCRepositoryJob ---------------------------
(* Small instances of RepositoryJob for TLC.                               *)
EXTENDS RepositoryJob, TLC

AllRequests == RequestKinds
OwnerRequests == {"cancel", "cleanup", "prepare", "create", "readback"}

\* Threads of one kind are interchangeable (safety runs only).
Symmetry == Permutations(Reconcilers) \cup Permutations(Handlers)

=============================================================================
