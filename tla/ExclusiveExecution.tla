------------------------- MODULE ExclusiveExecution -------------------------
(***************************************************************************)
(* What the external_ref column of a repository job promises, without the  *)
(* column: the job is queued at most once, one thread executes it, one     *)
(* thread at a time closes it out, and work that its owner abandons (a     *)
(* crash, a blocked run) is never handed to somebody else.                 *)
(***************************************************************************)
EXTENDS Naturals

CONSTANT Threads

VARIABLES
  phase,    \* how far the job got
  working   \* the threads with a claim on it: none, or one

vars == <<phase, working>>

Phases == {"new", "queued", "executing", "executed", "closing"}

TypeOK ==
  /\ phase \in Phases
  /\ working \in SUBSET Threads

Init ==
  /\ phase = "new"
  /\ working = {}

Queue ==
  /\ phase = "new"
  /\ phase' = "queued"
  /\ UNCHANGED working

Execute(t) ==
  /\ phase = "queued"
  /\ working = {}
  /\ phase' = "executing"
  /\ working' = {t}

Executed ==
  /\ phase = "executing"
  /\ working # {}
  /\ phase' = "executed"
  /\ working' = {}

CloseOut(t) ==
  /\ phase = "executed"
  /\ working = {}
  /\ phase' = "closing"
  /\ working' = {t}

ClosedOut ==
  /\ phase = "closing"
  /\ working # {}
  /\ phase' = "executed"
  /\ working' = {}

\* The owner stops without handing the job back: the phase is stuck for good.
Abandon ==
  /\ working # {}
  /\ working' = {}
  /\ UNCHANGED phase

Next ==
  \/ Queue
  \/ Executed
  \/ ClosedOut
  \/ Abandon
  \/ \E t \in Threads : Execute(t) \/ CloseOut(t)

Spec == Init /\ [][Next]_vars

=============================================================================
