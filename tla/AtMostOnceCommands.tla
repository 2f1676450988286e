------------------------ MODULE AtMostOnceCommands ------------------------
(***************************************************************************)
(* What the host command queue promises of a mutation, without its files:  *)
(* it is carried out at most once, it may be withdrawn until it is taken   *)
(* up, and what a caller is told of its end is so ("Job truth" in          *)
(* tools/sovereign-chatgpt-mcp/CONTROL_PLANE_TRUTH.md).                    *)
(***************************************************************************)
CONSTANT Requests

VARIABLES
  fate,   \* what became of each request
  told    \* <<request, verdict>>: what callers have been told of it

vars == <<fate, told>>

Fates == {"none", "queued", "withdrawn", "running", "finished", "stopped"}
Final == {"result", "uncertain", "cancelled"}
Verdicts == Final \cup {"queued", "in_progress", "unknown", "not_found", "unreadable"}

\* What may be said of a request: a final verdict tells its fate, and a result
\* that cannot be read is the result of one that is over.
Truth(r, verdict) ==
  /\ verdict = "cancelled" => fate'[r] = "withdrawn"
  /\ verdict = "result" => fate[r] = "finished"
  /\ verdict \in {"uncertain", "unreadable"} => fate[r] \in {"stopped", "finished"}

Init ==
  /\ fate = [r \in Requests |-> "none"]
  /\ told = {}

Become(r, old, new) == fate[r] = old /\ fate' = [fate EXCEPT ![r] = new]

Admit(r) == Become(r, "none", "queued") /\ UNCHANGED told
Withdraw(r) == Become(r, "queued", "withdrawn") /\ told' = told \cup {<<r, "cancelled">>}
TakeUp(r) == Become(r, "queued", "running") /\ UNCHANGED told
Finish(r) == Become(r, "running", "finished") /\ UNCHANGED told
Stop(r) == Become(r, "running", "stopped") /\ UNCHANGED told
Tell(r, verdict) ==
  /\ Truth(r, verdict)
  /\ told' = told \cup {<<r, verdict>>}
  /\ UNCHANGED fate

Next == \E r \in Requests :
  \/ Admit(r) \/ Withdraw(r) \/ TakeUp(r) \/ Finish(r) \/ Stop(r)
  \/ \E verdict \in Verdicts : Tell(r, verdict)

Spec == Init /\ [][Next]_vars

=============================================================================
