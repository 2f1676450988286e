--------------------------- MODULE LeasedResults ---------------------------
(***************************************************************************)
(* What the resume lease of an agent run promises, without its row: one    *)
(* lease at a time, and of each lease at most one result, accepted while   *)
(* it is the newest and has neither expired nor been revoked.              *)
(***************************************************************************)
EXTENDS Naturals

VARIABLES
  granted,   \* number of leases given out; the newest bears this number
  open,      \* the newest lease is in force
  results    \* the leases a result was accepted of

vars == <<granted, open, results>>

Init ==
  /\ granted = 0
  /\ open = FALSE
  /\ results = {}

Grant ==
  /\ ~open
  /\ granted' = granted + 1
  /\ open' = TRUE
  /\ UNCHANGED results

Accept ==
  /\ open
  /\ open' = FALSE
  /\ results' = results \cup {granted}
  /\ UNCHANGED granted

\* It expires, or the owner takes it away.
Void ==
  /\ open
  /\ open' = FALSE
  /\ UNCHANGED <<granted, results>>

Next == Grant \/ Accept \/ Void

Spec == Init /\ [][Next]_vars

=============================================================================
