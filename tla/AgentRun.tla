------------------------------- MODULE AgentRun -------------------------------
(***************************************************************************)
(* One row of agent_runs: the threads that execute it (the swarm that      *)
(* created it and holds no lease, the detached single agent, the resume    *)
(* calls), its resume lease with the recovery tasks, the owner's approvals *)
(* and the owner's cancel.  Each function of cognitive_run_store.py is one *)
(* transaction on the locked row and one step here.                        *)
(***************************************************************************)
EXTENDS Integers, Sequences, FiniteSets

CONSTANTS
  Executors,      \* threads of the server
  MaxIterations,  \* the row's max_iterations
  MaxFaults       \* bound: threads that end early, leases that expire under one

ASSUME BudgetAssumption == MaxIterations \in Nat \ {0} /\ MaxFaults \in Nat

VARIABLES
  run,         \* the row
  tasks,       \* status of the recovery task of each claim; claim n has token n
  approvals,   \* rows of agent_approvals
  unresolved,  \* agent_failures has an unresolved recoverable failure
  exec,        \* locals of the executors
  accepted,    \* history: tokens under which a result was written
  writer,      \* history: who wrote the row last
  faults

vars == <<run, tasks, approvals, unresolved, exec, accepted, writer, faults>>

Terminal == {"FAILED_FINAL", "COMPLETED"}
NonResumable == Terminal \cup {"READY_FOR_DRAFT_PR", "WAITING_FOR_OWNER"}
Active == {"RUNNING", "VERIFYING"}
Resolving == {"BLOCKED", "WAITING_FOR_OWNER", "READY_FOR_DRAFT_PR", "COMPLETED"}
Statuses == NonResumable \cup Active \cup {"ABSENT", "RECEIVED", "BLOCKED", "FAILED_RECOVERABLE"}
Places == {"idle", "starting", "working", "failed", "recording", "checked", "limited"}
Idle == [place |-> "idle", token |-> 0, task |-> 0]

Init ==
  /\ run = [status |-> "ABSENT", cancelled |-> FALSE, iteration |-> 0,
            lease |-> 0, live |-> FALSE, task |-> 0]
  /\ tasks = <<>> /\ approvals = <<>>
  /\ unresolved = FALSE
  /\ exec = [e \in Executors |-> Idle]
  /\ accepted = {} /\ writer = "none" /\ faults = 0

-----------------------------------------------------------------------------
(* The row                                                                 *)

\* Mutant of Held: the expiry of the lease is not looked at.
HeldOnceClaimed(token) == IF token = 0 THEN ~run.live ELSE run.lease = token

\* Mutant of Held: only that a token was given, not which.
HeldBySomeone(token) == token # 0 \/ ~run.live

\* lease_clause: with a token, that lease in force; without one, no lease in force.
Held(token) == run.live = (token # 0) /\ (token # 0 => run.lease = token)

\* LEAST(iteration_count + 1, max_iterations)
Bump(n) == IF n < MaxIterations THEN n + 1 ELSE n

WithTask(k, status) == IF k = 0 THEN tasks ELSE [tasks EXCEPT ![k] = status]

\* Mutant of Released: the iteration is not counted.
ReleasedUncounted(status) ==
  [run EXCEPT !.status = status, !.cancelled = FALSE, !.lease = 0, !.live = FALSE, !.task = 0]

Released(status) ==
  [run EXCEPT !.status = status, !.cancelled = FALSE, !.iteration = Bump(@),
              !.lease = 0, !.live = FALSE, !.task = 0]

By(token) == writer' = IF token = 0 THEN "unleased" ELSE "leased"

\* transition_agent_run and the row of request_agent_approval
Settle(token, task, status) ==
  /\ Held(token)
  /\ run' = Released(status)
  /\ tasks' = WithTask(task, status)
  /\ unresolved' = (unresolved /\ status \notin Resolving)
  /\ accepted' = accepted \cup ({token} \ {0})
  /\ By(token)
  /\ UNCHANGED faults

Kept == <<run, tasks, approvals, unresolved, accepted, writer, faults>>

Go(e, place) == exec' = [exec EXCEPT ![e].place = place]
End(e) == exec' = [exec EXCEPT ![e] = Idle]
At(e, place) == exec[e].place = place

\* _single_agent_run_cancelled
Cancelled == run.status = "BLOCKED" /\ run.cancelled

\* Mutant of Resumable: a lease that expired still stands in the way.
ResumableOnceFree == run.status \notin NonResumable \cup {"ABSENT"} /\ run.lease = 0

Resumable == run.status \notin NonResumable \cup {"ABSENT"} /\ ~run.live

WithinLimit == run.iteration < MaxIterations

\* claim_agent_run_for_resume: next_action stays, so a cancelled run keeps its mark.
Claim ==
  LET previous == IF run.task # 0 /\ tasks[run.task] = "RUNNING"
                  THEN WithTask(run.task, "FAILED_RECOVERABLE") ELSE tasks
  IN /\ Resumable /\ WithinLimit
     /\ tasks' = Append(previous, "RUNNING")
     /\ run' = [run EXCEPT !.status = "RUNNING", !.lease = Len(tasks) + 1, !.live = TRUE,
                           !.task = Len(tasks) + 1]
     /\ writer' = "claim"
     /\ UNCHANGED <<approvals, unresolved, accepted, faults>>

-----------------------------------------------------------------------------
(* The swarm: start_cognitive_swarm_run without a lease, and the resume    *)
(* with one; both end in execute_persisted_swarm.                          *)

Create(e, place) ==
  /\ At(e, "idle")
  /\ run.status = "ABSENT"
  /\ run' = [run EXCEPT !.status = "RECEIVED"]
  /\ Go(e, place)
  /\ writer' = "owner"
  /\ UNCHANGED <<tasks, approvals, unresolved, accepted, faults>>

StartSwarm(e) == Create(e, "working")

Resume(e) ==
  /\ At(e, "idle")
  /\ Resumable
  /\ IF WithinLimit
     THEN /\ Claim
          /\ exec' = [exec EXCEPT ![e] = [place |-> "working", token |-> Len(tasks) + 1,
                                          task |-> Len(tasks) + 1]]
     ELSE /\ exec' = [exec EXCEPT ![e] = [place |-> "limited", token |-> 0, task |-> run.task]]
          /\ UNCHANGED Kept

\* The claim was refused for the budget: the run is given up in a transaction of its own.
GiveUp(e) ==
  /\ At(e, "limited")
  /\ \/ Settle(0, exec[e].task, "FAILED_FINAL") /\ UNCHANGED approvals
     \/ ~Held(0) /\ UNCHANGED Kept
  /\ End(e)

\* A detached single agent: it has a lease, but no task.
Single(e) == exec[e].token # 0 /\ exec[e].task = 0
Working(e) == At(e, "working") /\ ~Single(e)

\* record_agent_stage_event: any stage may report, and a refused report is a failure.
Stage(e, status) ==
  /\ Working(e)
  /\ Held(exec[e].token)
  /\ run' = [run EXCEPT !.status = IF status \in Active THEN status ELSE @, !.cancelled = FALSE]
  /\ tasks' = WithTask(exec[e].task, status)
  /\ By(exec[e].token)
  /\ UNCHANGED <<approvals, unresolved, exec, accepted, faults>>

\* A stage fails, or one of its reports or the verdict is refused.
StageFails(e) ==
  /\ Working(e)
  /\ Go(e, "failed")
  /\ UNCHANGED Kept

\* The judge's verdict, or a blocker found before the first stage.
Verdict(e, status) ==
  /\ Working(e)
  /\ Settle(exec[e].token, exec[e].task, status)
  /\ End(e)
  /\ UNCHANGED approvals

\* request_agent_approval
RequestApproval(e) ==
  /\ Working(e)
  /\ Settle(exec[e].token, exec[e].task, "WAITING_FOR_OWNER")
  /\ approvals' = Append(approvals, [task |-> exec[e].task, status |-> "WAITING_FOR_OWNER"])
  /\ End(e)

\* The failure is persisted first as the run's state, then in agent_failures.
PersistFailure(e) ==
  /\ At(e, "failed")
  /\ \/ /\ Settle(exec[e].token, exec[e].task, "BLOCKED")
        /\ End(e)
     \/ /\ Settle(exec[e].token, exec[e].task, "FAILED_RECOVERABLE")
        /\ Go(e, "recording")
     \/ ~Held(exec[e].token) /\ End(e) /\ UNCHANGED <<run, tasks, unresolved, accepted, writer, faults>>
  /\ UNCHANGED approvals

RecordFailure(e) ==
  /\ At(e, "recording")
  /\ unresolved' = TRUE
  /\ End(e)
  /\ UNCHANGED <<run, tasks, approvals, accepted, writer, faults>>

-----------------------------------------------------------------------------
(* The detached single agent                                               *)

StartSingle(e) == Create(e, "starting")

SingleClaims(e) ==
  /\ At(e, "starting")
  /\ IF Resumable /\ WithinLimit
     THEN /\ Claim
          /\ exec' = [exec EXCEPT ![e] = [place |-> "working", token |-> Len(tasks) + 1, task |-> 0]]
     ELSE End(e) /\ UNCHANGED Kept

\* The mission returns or fails (or the claim could not be made): it looks
\* whether the run was cancelled before it writes.
SingleReturns(e) ==
  /\ \/ At(e, "working") /\ Single(e)
     \/ At(e, "starting")
  /\ IF Cancelled THEN End(e) ELSE Go(e, "checked")
  /\ UNCHANGED Kept

\* The result, or the failure.
SingleWrites(e) ==
  /\ At(e, "checked")
  /\ \E status \in {"COMPLETED", "BLOCKED", "FAILED_RECOVERABLE"} :
       Settle(exec[e].token, 0, status)
  /\ End(e)
  /\ UNCHANGED approvals

\* Refused: it tries the mission again on the next route, or stops.
SingleRefused(e) ==
  /\ At(e, "checked")
  /\ ~Held(exec[e].token)
  /\ \/ End(e)
     \/ exec[e].token # 0 /\ Go(e, "working")
  /\ UNCHANGED Kept

\* The blockers before the mission are written without the lease's token.
SingleRouteBlocked(e) ==
  /\ At(e, "working") /\ Single(e)
  /\ Settle(0, 0, "BLOCKED")
  /\ End(e)
  /\ UNCHANGED approvals

-----------------------------------------------------------------------------
(* The owner, the clock, the server                                        *)

\* Mutant of Cancel: it costs no iteration.
CancelForFree ==
  /\ run.status \notin Terminal \cup {"ABSENT"}
  /\ run' = [Released("BLOCKED") EXCEPT !.cancelled = TRUE, !.iteration = run.iteration]
  /\ tasks' = WithTask(run.task, "BLOCKED")
  /\ writer' = "owner"
  /\ UNCHANGED <<approvals, unresolved, exec, accepted, faults>>

\* cancel_agent_run
Cancel ==
  /\ run.status \notin Terminal \cup {"ABSENT"}
  /\ run' = [Released("BLOCKED") EXCEPT !.cancelled = TRUE]
  /\ tasks' = WithTask(run.task, "BLOCKED")
  /\ writer' = "owner"
  /\ UNCHANGED <<approvals, unresolved, exec, accepted, faults>>

\* controller_approval_decision: the approval's row and the run's row, or neither.
Decide(i, approve) ==
  /\ approvals[i].status = "WAITING_FOR_OWNER"
  /\ run.status = "WAITING_FOR_OWNER"
  /\ LET status == IF approve THEN "READY_FOR_DRAFT_PR" ELSE "BLOCKED"
         k == approvals[i].task
     IN /\ run' = [run EXCEPT !.status = status, !.cancelled = FALSE,
                              !.lease = 0, !.live = FALSE, !.task = 0]
        /\ tasks' = IF k # 0 /\ tasks[k] = "WAITING_FOR_OWNER" THEN WithTask(k, status) ELSE tasks
        /\ approvals' = [approvals EXCEPT ![i].status = IF approve THEN "APPROVED" ELSE "REJECTED"]
  /\ writer' = "owner"
  /\ UNCHANGED <<unresolved, exec, accepted, faults>>

HolderAtWork == \E e \in Executors : exec[e].token = run.lease /\ exec[e].token # 0

\* lease_expires_at passes: after its holder ended, or (a fault) under it.
LeaseExpires ==
  /\ run.live
  /\ run' = [run EXCEPT !.live = FALSE]
  /\ faults' = IF HolderAtWork THEN faults + 1 ELSE faults
  /\ faults' <= MaxFaults
  /\ UNCHANGED <<tasks, approvals, unresolved, exec, accepted, writer>>

\* The thread ends without a write: the server stops, or a return that persists nothing.
Stop(e) ==
  /\ ~At(e, "idle")
  /\ faults < MaxFaults
  /\ faults' = faults + 1
  /\ End(e)
  /\ UNCHANGED <<run, tasks, approvals, unresolved, accepted, writer>>

ExecutorStep(e) ==
  \/ StageFails(e) \/ RequestApproval(e) \/ GiveUp(e)
  \/ \E status \in {"BLOCKED", "READY_FOR_DRAFT_PR", "COMPLETED"} : Verdict(e, status)
  \/ PersistFailure(e) \/ RecordFailure(e)
  \/ SingleClaims(e) \/ SingleReturns(e) \/ SingleWrites(e) \/ SingleRefused(e)
  \/ SingleRouteBlocked(e)

Next ==
  \/ Cancel \/ LeaseExpires
  \/ \E i \in 1..Len(approvals), approve \in BOOLEAN : Decide(i, approve)
  \/ \E e \in Executors :
       \/ StartSwarm(e) \/ StartSingle(e) \/ Resume(e) \/ Stop(e)
       \/ \E status \in Active \cup {"COMPLETED", "BLOCKED"} : Stage(e, status)
       \/ ExecutorStep(e)

Spec == Init /\ [][Next]_vars

\* Threads run on, time passes, and the owner asks for a resume as long as one is offered.
Fairness ==
  /\ WF_vars(LeaseExpires)
  /\ \A e \in Executors : WF_vars(ExecutorStep(e)) /\ WF_vars(Resume(e))

FairSpec == Spec /\ Fairness

-----------------------------------------------------------------------------
(* Properties                                                              *)

TypeOK ==
  /\ run \in [status : Statuses, cancelled : BOOLEAN, iteration : 0..MaxIterations,
              lease : 0..Len(tasks), live : BOOLEAN, task : 0..Len(tasks)]
  /\ tasks \in Seq(Statuses)
  /\ approvals \in Seq([task : 0..Len(tasks),
                        status : {"WAITING_FOR_OWNER", "APPROVED", "REJECTED"}])
  /\ unresolved \in BOOLEAN
  /\ exec \in [Executors -> [place : Places, token : 0..Len(tasks), task : 0..Len(tasks)]]
  /\ accepted \subseteq 1..Len(tasks)
  /\ writer \in {"none", "unleased", "leased", "owner", "claim"}
  /\ faults \in 0..MaxFaults

\* Every write of the row that ends or suspends a run (transition, approval,
\* cancel, decision) takes the lease with it: a run under a lease is active, has
\* budget left, and the lease and its task are those of the newest claim.
LeasedRunIsActive ==
  run.lease # 0 => /\ run.status \in Active
                   /\ run.iteration < MaxIterations
                   /\ run.lease = Len(tasks) /\ run.task = run.lease

\* max_iterations bounds the results: no more are accepted from lease holders
\* than the row has counted, whatever expires, restarts or is cancelled between.
ResultsWithinBudget == Cardinality(accepted) <= run.iteration

\* A claim does not count against max_iterations, its end does; what the budget
\* bounds is executions that end, and each further one has cost a thread or a lease.
ClaimsWithinBudget == Len(tasks) <= MaxIterations + faults

\* An executor that claimed the run never changes it after its end (a terminal
\* status) or the owner's cancel; only writers without a lease do.
HoldersRespectTheEnd ==
  [][/\ run.status \in Terminal /\ run' # run => writer' = "unleased"
     /\ Cancelled /\ run' # run => writer' # "leased"]_vars

\* The lease keeps its promise.
Lease == INSTANCE LeasedResults WITH
  granted <- Len(tasks), open <- run.live, results <- accepted
ResultsAreLeased == Lease!Spec

\* A run the owner keeps resuming does not stay received or active for ever.
RunComesToRest ==
  run.status \in {"RECEIVED"} \cup Active ~> run.status \notin {"RECEIVED"} \cup Active

\* The comment of cancel_agent_run: a cancel "clears the active lease so a stale
\* executor can no longer persist the terminal result"; what undoes it is a resume.
CancelIsFinal == [][Cancelled /\ run' # run => writer' \in {"owner", "claim"}]_vars

\* A terminal status is final.
TerminalIsFinal == [][run.status \in Terminal => run'.status = run.status]_vars

\* The owner's decision is about the request the run is waiting for.
NewestApprovalDecides ==
  [][\A i \in 1..Len(approvals) : approvals'[i] # approvals[i] => i = Len(approvals)]_vars

\* A recovery task is running only while its claim has the run.
NoTaskLeftRunning == \A k \in 1..Len(tasks) : tasks[k] = "RUNNING" => run.task = k

\* No recoverable failure stays open on a completed run.
FailuresResolved == run.status = "COMPLETED" => ~unresolved

=============================================================================
