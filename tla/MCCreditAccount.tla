--------------------------- MODULE MCCreditAccount ---------------------------
(* Small instances of CreditAccount for TLC.  A stage reserves 2 credits and *)
(* may cost nothing, less, or one more than it reserved; a purchase pays for *)
(* one stage and half of another; a bonus pays for one Draft PR.             *)
EXTENDS CreditAccount, TLC

StageCosts == {0, 1, 3}
Symmetry == Permutations(Stages) \cup Permutations(Creators)
                \cup Permutations(Jobs) \cup Permutations(Purchases)

=============================================================================
