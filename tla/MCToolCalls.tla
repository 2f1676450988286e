---------------------------- MODULE MCToolCalls ----------------------------
(* Small instances of ToolCalls.                                           *)
EXTENDS ToolCalls, TLC

Symmetry == Permutations(Workers)

=============================================================================
