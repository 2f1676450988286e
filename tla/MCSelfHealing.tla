---------------------------- MODULE MCSelfHealing ----------------------------
(* Small instances of SelfHealing.                                         *)
EXTENDS SelfHealing, TLC

CONSTANTS w1, w2, one, two, late

OneFamily == [c \in Cases |-> 1]
UpToTwo == [c \in Cases |-> IF c = two THEN 2 ELSE 1]
UpToThree == [c \in Cases |-> IF c = two THEN 3 ELSE 1]

Symmetry == Permutations(Workers)

=============================================================================
