---------------------------- MODULE MCChatBilling ----------------------------
(* Small instances of ChatBilling for TLC: a paid route reserves 2 credits   *)
(* and turns out to cost nothing, 1, 2 or 3 of them.                         *)
EXTENDS ChatBilling, TLC

ChatCosts == 0..3
Symmetry == Permutations(Posts) \cup Permutations(Requests)

=============================================================================
