--------------------------- MODULE AgentRun_proofs ---------------------------
(* What holds of AgentRun for any number of executors and any budget.        *)
EXTENDS AgentRun, FiniteSetTheorems, TLAPS

(* The invariant.                                                            *)

N == Len(tasks)

Rows(n) == [status : Statuses, cancelled : BOOLEAN, iteration : 0..MaxIterations,
            lease : 0..n, live : BOOLEAN, task : 0..n]
Requests(n) == [task : 0..n, status : {"WAITING_FOR_OWNER", "APPROVED", "REJECTED"}]
Locals(n) == [place : Places, token : 0..n, task : 0..n]

\* A lease in force is a lease of the row.
LiveIsLeased == run.live => run.lease # 0

\* The token of a result that is being recorded is spent; who has not claimed has none.
Unclaimed == {"idle", "starting", "limited"}
SpentTokens ==
  \A e \in Executors :
    /\ At(e, "recording") /\ exec[e].token # 0 => exec[e].token # run.lease
    /\ exec[e].place \in Unclaimed => exec[e].token = 0

\* The newest claim is not yet counted, nor lost, while its holder works.
InWork == IF run.live /\ HolderAtWork THEN 1 ELSE 0
ClaimsCounted == Len(tasks) <= run.iteration + faults + InWork

RunInv == TypeOK /\ LeasedRunIsActive /\ LiveIsLeased

-----------------------------------------------------------------------------
(* Types.                                                                    *)

LEMMA TypeParts ==
  /\ TypeOK <=> /\ run \in Rows(N) /\ tasks \in Seq(Statuses)
                /\ approvals \in Seq(Requests(N)) /\ unresolved \in BOOLEAN
                /\ exec \in [Executors -> Locals(N)] /\ accepted \subseteq 1..N
                /\ writer \in {"none", "unleased", "leased", "owner", "claim"}
                /\ faults \in 0..MaxFaults
  /\ TypeOK' <=> /\ run' \in Rows(N') /\ tasks' \in Seq(Statuses)
                 /\ approvals' \in Seq(Requests(N')) /\ unresolved' \in BOOLEAN
                 /\ exec' \in [Executors -> Locals(N')] /\ accepted' \subseteq 1..N'
                 /\ writer' \in {"none", "unleased", "leased", "owner", "claim"}
                 /\ faults' \in 0..MaxFaults
  BY DEF TypeOK, Rows, Requests, Locals, N

LEMMA StatusesIn ==
  /\ Terminal \subseteq Statuses /\ Active \subseteq Statuses /\ Resolving \subseteq Statuses
  /\ Active \cap (NonResumable \cup {"ABSENT", "RECEIVED", "BLOCKED", "FAILED_RECOVERABLE"}) = {}
  /\ {"ABSENT", "RECEIVED", "BLOCKED", "FAILED_RECOVERABLE", "FAILED_FINAL", "COMPLETED",
      "WAITING_FOR_OWNER", "READY_FOR_DRAFT_PR", "RUNNING", "VERIFYING"} = Statuses
  BY DEF Terminal, Active, Resolving, NonResumable, Statuses

LEMMA PlacesIn ==
  /\ "idle" \in Places /\ "starting" \in Places /\ "working" \in Places /\ "failed" \in Places
  /\ "recording" \in Places /\ "checked" \in Places /\ "limited" \in Places
  BY DEF Places

LEMMA BumpStays ==
  ASSUME NEW n \in 0..MaxIterations
  PROVE  /\ Bump(n) \in 0..MaxIterations /\ n <= Bump(n)
         /\ n < MaxIterations => Bump(n) = n + 1
  BY BudgetAssumption DEF Bump

LEMMA TaskWritten ==
  ASSUME tasks \in Seq(Statuses), NEW k \in 0..N, NEW status \in Statuses
  PROVE  WithTask(k, status) \in Seq(Statuses) /\ Len(WithTask(k, status)) = N
  BY DEF WithTask, N

LEMMA NIsNat == tasks \in Seq(Statuses) => N \in Nat
  BY DEF N

LEMMA RowReleased ==
  ASSUME run \in Rows(N), tasks \in Seq(Statuses), NEW status \in Statuses
  PROVE  /\ Released(status) \in Rows(N)
         /\ Released(status).status = status /\ Released(status).cancelled = FALSE
         /\ Released(status).iteration = Bump(run.iteration)
         /\ Released(status).lease = 0 /\ Released(status).live = FALSE
         /\ Released(status).task = 0
<1>1. Bump(run.iteration) \in 0..MaxIterations
  BY BumpStays DEF Rows
<1>2. 0 \in 0..N
  BY NIsNat
<1> QED
  BY <1>1, <1>2 DEF Released, Rows

\* Local state only ever comes to be about claims there are.
LEMMA RowsGrow ==
  ASSUME NEW n \in Nat
  PROVE  /\ Rows(n) \subseteq Rows(n + 1) /\ Locals(n) \subseteq Locals(n + 1)
         /\ Requests(n) \subseteq Requests(n + 1)
<1>1. 0..n \subseteq 0..(n + 1)
  OBVIOUS
<1> QED
  BY <1>1 DEF Rows, Locals, Requests

LEMMA LocalWritten ==
  ASSUME NEW n \in Nat, NEW l \in Locals(n), NEW place \in Places
  PROVE  [l EXCEPT !.place = place] \in Locals(n) /\ Idle \in Locals(n)
  BY PlacesIn DEF Locals, Idle

LEMMA ExecWritten ==
  ASSUME NEW n \in Nat, exec \in [Executors -> Locals(n)], NEW e \in Executors, NEW l \in Locals(n)
  PROVE  [exec EXCEPT ![e] = l] \in [Executors -> Locals(n)]
  OBVIOUS

LEMMA Gone ==
  ASSUME NEW n \in Nat, exec \in [Executors -> Locals(n)], NEW e \in Executors,
         NEW place \in Places
  PROVE  /\ Go(e, place) => exec' \in [Executors -> Locals(n)]
         /\ End(e) => exec' \in [Executors -> Locals(n)]
<1>1. exec[e] \in Locals(n)
  OBVIOUS
<1>2. [exec[e] EXCEPT !.place = place] \in Locals(n) /\ Idle \in Locals(n)
  BY <1>1, LocalWritten
<1>3. ASSUME Go(e, place)
      PROVE  exec' = [exec EXCEPT ![e] = [exec[e] EXCEPT !.place = place]]
  BY <1>3 DEF Go
<1>4. [exec EXCEPT ![e] = [exec[e] EXCEPT !.place = place]] \in [Executors -> Locals(n)]
  BY <1>2, ExecWritten
<1>5. [exec EXCEPT ![e] = Idle] \in [Executors -> Locals(n)]
  BY <1>2, ExecWritten
<1> QED
  BY <1>3, <1>4, <1>5 DEF End

-----------------------------------------------------------------------------
(* What the writes of the row do.                                            *)

\* A result or a suspension, with or without a lease.
LEMMA SettleStep ==
  ASSUME RunInv, NEW token \in 0..N, NEW k \in 0..N, NEW status \in Statuses,
         Settle(token, k, status)
  PROVE  /\ run' \in Rows(N) /\ tasks' \in Seq(Statuses) /\ N' = N
         /\ unresolved' \in BOOLEAN /\ accepted' \subseteq 1..N
         /\ writer' \in {"unleased", "leased"} /\ faults' = faults
         /\ run'.lease = 0 /\ run'.live = FALSE
         /\ run'.iteration = Bump(run.iteration)
         /\ \/ token = 0 /\ ~run.live /\ accepted' = accepted /\ writer' = "unleased"
            \/ /\ token = N /\ N # 0 /\ run.live /\ run.lease = N
               /\ run.status \in Active /\ run.iteration < MaxIterations
               /\ accepted' = accepted \cup {N}
<1>1. /\ run \in Rows(N) /\ tasks \in Seq(Statuses) /\ unresolved \in BOOLEAN
      /\ accepted \subseteq 1..N /\ N \in Nat /\ run.live \in BOOLEAN
  BY TypeParts, NIsNat DEF RunInv, Rows
<1>2. run' \in Rows(N) /\ run'.lease = 0 /\ run'.live = FALSE
      /\ run'.iteration = Bump(run.iteration)
  BY <1>1, RowReleased DEF Settle
<1>3. tasks' \in Seq(Statuses) /\ N' = N
  BY <1>1, TaskWritten DEF Settle, N
<1>4. unresolved' \in BOOLEAN /\ faults' = faults
  BY <1>1 DEF Settle
<1>5. writer' \in {"unleased", "leased"} /\ (token = 0 => writer' = "unleased")
  BY DEF Settle, By
<1>6. CASE token = 0
  <2>1. ~run.live
    BY <1>1, <1>6 DEF Settle, Held
  <2>2. accepted' = accepted
    BY <1>6 DEF Settle
  <2> QED
    BY <1>1, <1>2, <1>3, <1>4, <1>5, <1>6, <2>1, <2>2
<1>7. CASE token # 0
  <2>1. run.live /\ run.lease = token
    BY <1>1, <1>7 DEF Settle, Held
  <2>2. /\ run.lease = N /\ run.status \in Active /\ run.iteration < MaxIterations
    BY <1>7, <2>1 DEF RunInv, LeasedRunIsActive, N
  <2>3. accepted' = accepted \cup {N}
    BY <1>7, <2>1, <2>2 DEF Settle
  <2>4. accepted' \subseteq 1..N
    BY <1>1, <1>7, <2>1, <2>2, <2>3
  <2> QED
    BY <1>1, <1>2, <1>3, <1>4, <1>5, <1>7, <2>1, <2>2, <2>3, <2>4
<1> QED
  BY <1>6, <1>7

\* A claim.
LEMMA ClaimStep ==
  ASSUME RunInv, Claim
  PROVE  /\ run' \in Rows(N + 1) /\ tasks' \in Seq(Statuses) /\ N' = N + 1
         /\ run'.status \in Active /\ run'.lease = N + 1 /\ run'.live = TRUE
         /\ run'.task = N + 1 /\ run'.iteration = run.iteration
         /\ run.iteration < MaxIterations /\ ~run.live
         /\ run.status \notin NonResumable
         /\ writer' = "claim" /\ approvals' = approvals /\ unresolved' = unresolved
         /\ accepted' = accepted /\ faults' = faults
<1> DEFINE previous == IF run.task # 0 /\ tasks[run.task] = "RUNNING"
                       THEN WithTask(run.task, "FAILED_RECOVERABLE") ELSE tasks
<1>1. run \in Rows(N) /\ tasks \in Seq(Statuses) /\ N \in Nat
  BY TypeParts, NIsNat DEF RunInv
<1>2. run.task \in 0..N
  BY <1>1 DEF Rows
<1>3. "FAILED_RECOVERABLE" \in Statuses /\ "RUNNING" \in Statuses /\ "RUNNING" \in Active
  BY StatusesIn DEF Active
<1>4. previous \in Seq(Statuses) /\ Len(previous) = N
  BY <1>1, <1>2, <1>3, TaskWritten DEF N
<1>5. tasks' = Append(previous, "RUNNING")
  BY DEF Claim
<1>6. tasks' \in Seq(Statuses) /\ Len(tasks') = N + 1
  BY <1>3, <1>4, <1>5
<1>7. run \in Rows(N + 1) /\ N + 1 \in 0..(N + 1)
  BY <1>1, RowsGrow
<1>8. run' = [run EXCEPT !.status = "RUNNING", !.lease = N + 1, !.live = TRUE, !.task = N + 1]
  BY DEF Claim, N
<1>9. /\ run' \in Rows(N + 1) /\ run'.status = "RUNNING" /\ run'.lease = N + 1
      /\ run'.live = TRUE /\ run'.task = N + 1 /\ run'.iteration = run.iteration
  BY <1>3, <1>7, <1>8 DEF Rows
<1>10. run.iteration < MaxIterations /\ ~run.live /\ run.status \notin NonResumable
  BY DEF Claim, Resumable, WithinLimit
<1> QED
  BY <1>3, <1>6, <1>9, <1>10 DEF Claim, N

\* The owner's cancel.
LEMMA CancelStep ==
  ASSUME RunInv, Cancel
  PROVE  /\ run' \in Rows(N) /\ tasks' \in Seq(Statuses) /\ N' = N
         /\ run'.lease = 0 /\ run'.live = FALSE /\ run'.iteration = Bump(run.iteration)
         /\ run.status \notin Terminal /\ writer' = "owner"
         /\ UNCHANGED <<approvals, unresolved, exec, accepted, faults>>
<1>1. run \in Rows(N) /\ tasks \in Seq(Statuses) /\ "BLOCKED" \in Statuses
  BY TypeParts, StatusesIn DEF RunInv
<1>2. run.task \in 0..N
  BY <1>1 DEF Rows
<1>3. tasks' \in Seq(Statuses) /\ N' = N
  BY <1>1, <1>2, TaskWritten DEF Cancel, N
<1>4. PICK r \in Rows(N) : /\ r = Released("BLOCKED")
                          /\ r.lease = 0 /\ r.live = FALSE /\ r.iteration = Bump(run.iteration)
  BY <1>1, RowReleased
<1>5. run' = [r EXCEPT !.cancelled = TRUE]
  BY <1>4 DEF Cancel
<1>6. /\ run' \in Rows(N) /\ run'.lease = 0 /\ run'.live = FALSE
      /\ run'.iteration = Bump(run.iteration)
  BY <1>4, <1>5 DEF Rows
<1> QED
  BY <1>3, <1>6 DEF Cancel

\* The owner's decision.
LEMMA DecideStep ==
  ASSUME RunInv, NEW i \in 1..Len(approvals), NEW approve \in BOOLEAN, Decide(i, approve)
  PROVE  /\ run' \in Rows(N) /\ tasks' \in Seq(Statuses) /\ N' = N
         /\ approvals' \in Seq(Requests(N))
         /\ run'.lease = 0 /\ run'.live = FALSE /\ run'.iteration = run.iteration
         /\ run.status = "WAITING_FOR_OWNER" /\ ~run.live /\ run.lease = 0
         /\ writer' = "owner" /\ UNCHANGED <<unresolved, exec, accepted, faults>>
<1> DEFINE status == IF approve THEN "READY_FOR_DRAFT_PR" ELSE "BLOCKED"
<1>1. /\ run \in Rows(N) /\ tasks \in Seq(Statuses) /\ approvals \in Seq(Requests(N))
      /\ N \in Nat /\ status \in Statuses
  BY TypeParts, StatusesIn, NIsNat DEF RunInv
<1>2. approvals[i] \in Requests(N)
  BY <1>1
<1>3. approvals[i].task \in 0..N
  BY <1>2 DEF Requests
<1>4. tasks' \in {tasks, WithTask(approvals[i].task, status)}
  BY DEF Decide
<1>5. tasks' \in Seq(Statuses) /\ N' = N
  BY <1>1, <1>3, <1>4, TaskWritten DEF N
<1>6. [approvals[i] EXCEPT !.status = IF approve THEN "APPROVED" ELSE "REJECTED"] \in Requests(N)
  BY <1>2 DEF Requests
<1>7. approvals' = [approvals EXCEPT ![i] =
                     [approvals[i] EXCEPT !.status = IF approve THEN "APPROVED" ELSE "REJECTED"]]
  BY DEF Decide
<1>8. approvals' \in Seq(Requests(N))
  BY <1>1, <1>6, <1>7
<1>9. run' = [run EXCEPT !.status = status, !.cancelled = FALSE,
                         !.lease = 0, !.live = FALSE, !.task = 0]
  BY DEF Decide
<1>10. run' \in Rows(N) /\ run'.lease = 0 /\ run'.live = FALSE /\ run'.iteration = run.iteration
  <2>1. 0 \in 0..N
    BY <1>1
  <2> QED
    BY <1>1, <1>9, <2>1 DEF Rows
<1>11. run.status = "WAITING_FOR_OWNER"
  BY DEF Decide
<1>12. run.lease = 0 /\ ~run.live
  BY <1>11 DEF RunInv, LeasedRunIsActive, LiveIsLeased, Active
<1> QED
  BY <1>5, <1>8, <1>10, <1>11, <1>12 DEF Decide

\* A report of a stage.
LEMMA StageStep ==
  ASSUME RunInv, NEW e \in Executors,
         NEW status \in Active \cup {"COMPLETED", "BLOCKED"}, Stage(e, status)
  PROVE  /\ run' \in Rows(N) /\ tasks' \in Seq(Statuses) /\ N' = N
         /\ run'.lease = run.lease /\ run'.live = run.live /\ run'.task = run.task
         /\ run'.iteration = run.iteration
         /\ run.status \in Active => run'.status \in Active
         /\ writer' \in {"unleased", "leased"}
         /\ writer' = "leased" => run.status \in Active
         /\ run.lease # 0 => run.status \in Active
         /\ UNCHANGED <<approvals, unresolved, exec, accepted, faults>>
<1>1. /\ run \in Rows(N) /\ tasks \in Seq(Statuses) /\ status \in Statuses
      /\ exec[e] \in Locals(N) /\ run.live \in BOOLEAN
  BY TypeParts, StatusesIn DEF RunInv, Rows
<1>2. exec[e].task \in 0..N /\ exec[e].token \in 0..N
  BY <1>1 DEF Locals
<1>3. tasks' \in Seq(Statuses) /\ N' = N
  BY <1>1, <1>2, TaskWritten DEF Stage, N
<1>4. /\ run' \in Rows(N) /\ run'.lease = run.lease /\ run'.live = run.live
      /\ run'.task = run.task /\ run'.iteration = run.iteration
      /\ run.status \in Active => run'.status \in Active
  BY <1>1 DEF Stage, Rows
<1>5. /\ run.lease # 0 => run.status \in Active
      /\ UNCHANGED <<approvals, unresolved, exec, accepted, faults>>
  BY DEF RunInv, LeasedRunIsActive, Stage
<1>6. writer' \in {"unleased", "leased"} /\ (exec[e].token = 0 => writer' = "unleased")
  BY DEF Stage, By
<1>7. exec[e].token # 0 => run.lease # 0
  BY DEF Stage, Held
<1>8. writer' = "leased" => run.status \in Active
  BY <1>5, <1>6, <1>7
<1> QED
  BY <1>3, <1>4, <1>5, <1>6, <1>8

\* A lease runs out.
LEMMA ExpiryStep ==
  ASSUME RunInv, LeaseExpires
  PROVE  /\ run' \in Rows(N) /\ N' = N /\ run.live /\ run.lease # 0 /\ run.status \in Active
         /\ run'.status = run.status /\ run'.iteration = run.iteration
         /\ run'.lease = run.lease /\ run'.live = FALSE /\ run'.task = run.task
         /\ faults' \in 0..MaxFaults
         /\ UNCHANGED <<tasks, approvals, unresolved, exec, accepted, writer>>
<1>1. run \in Rows(N) /\ faults \in 0..MaxFaults /\ MaxFaults \in Nat
  BY TypeParts, BudgetAssumption DEF RunInv
<1>2. run' = [run EXCEPT !.live = FALSE] /\ run.live
  BY DEF LeaseExpires
<1>3. run' \in Rows(N) /\ run'.live = FALSE /\ run'.lease = run.lease /\ run'.task = run.task
      /\ run'.status = run.status /\ run'.iteration = run.iteration
  BY <1>1, <1>2 DEF Rows
<1>4. run.lease # 0 /\ run.status \in Active
  BY <1>2 DEF RunInv, LiveIsLeased, LeasedRunIsActive
<1>5. faults' \in 0..MaxFaults
  BY <1>1 DEF LeaseExpires
<1> QED
  BY <1>2, <1>3, <1>4, <1>5 DEF LeaseExpires, N

Settles == \E token \in 0..N, k \in 0..N, status \in Statuses : Settle(token, k, status)
Decides == \E i \in 1..Len(approvals), approve \in BOOLEAN : Decide(i, approve)
Reports == \E e \in Executors, status \in Active \cup {"COMPLETED", "BLOCKED"} : Stage(e, status)
Creates ==
  /\ run.status = "ABSENT" /\ run' = [run EXCEPT !.status = "RECEIVED"] /\ writer' = "owner"
  /\ UNCHANGED <<tasks, approvals, unresolved, accepted, faults>>
Quiet == UNCHANGED <<run, tasks, accepted, writer>>

\* Every step is one of the eight writes of the row, or leaves it alone.
LEMMA StepKinds ==
  ASSUME RunInv, Next
  PROVE  Settles \/ Claim \/ Cancel \/ Decides \/ Reports \/ LeaseExpires \/ Creates \/ Quiet
<1>1. CASE Cancel \/ LeaseExpires
  BY <1>1
<1>2. CASE \E i \in 1..Len(approvals), approve \in BOOLEAN : Decide(i, approve)
  BY <1>2 DEF Decides
<1>3. ASSUME NEW e \in Executors,
             \/ StartSwarm(e) \/ StartSingle(e) \/ Resume(e) \/ Stop(e)
             \/ \E status \in Active \cup {"COMPLETED", "BLOCKED"} : Stage(e, status)
             \/ ExecutorStep(e)
      PROVE  Settles \/ Claim \/ Reports \/ Creates \/ Quiet
  <2>1. exec[e].token \in 0..N /\ exec[e].task \in 0..N /\ 0 \in 0..N
    BY TypeParts, NIsNat DEF RunInv, Locals
  <2>2. CASE StartSwarm(e) \/ StartSingle(e)
    BY <2>2 DEF StartSwarm, StartSingle, Create, Creates
  <2>3. CASE Resume(e)
    BY <2>3 DEF Resume, Kept, Quiet
  <2>4. CASE Stop(e)
    BY <2>4 DEF Stop, Quiet
  <2>5. CASE \E status \in Active \cup {"COMPLETED", "BLOCKED"} : Stage(e, status)
    BY <2>5 DEF Reports
  <2>6. CASE StageFails(e) \/ RecordFailure(e) \/ SingleReturns(e) \/ SingleRefused(e)
    BY <2>6 DEF StageFails, RecordFailure, SingleReturns, SingleRefused, Kept, Quiet
  <2>7. CASE RequestApproval(e)
    BY <2>1, <2>7, StatusesIn DEF RequestApproval, Settles
  <2>8. CASE GiveUp(e)
    BY <2>1, <2>8, StatusesIn DEF GiveUp, Settles, Kept, Quiet
  <2>9. CASE \E status \in {"BLOCKED", "READY_FOR_DRAFT_PR", "COMPLETED"} : Verdict(e, status)
    BY <2>1, <2>9, StatusesIn DEF Verdict, Settles
  <2>10. CASE PersistFailure(e)
    BY <2>1, <2>10, StatusesIn DEF PersistFailure, Settles, Quiet
  <2>11. CASE SingleClaims(e)
    BY <2>11 DEF SingleClaims, Kept, Quiet
  <2>12. CASE SingleWrites(e)
    BY <2>1, <2>12, StatusesIn DEF SingleWrites, Settles
  <2>13. CASE SingleRouteBlocked(e)
    BY <2>1, <2>13, StatusesIn DEF SingleRouteBlocked, Settles
  <2> QED
    BY <1>3, <2>2, <2>3, <2>4, <2>5, <2>6, <2>7, <2>8, <2>9, <2>10, <2>11, <2>12, <2>13
    DEF ExecutorStep
<1> QED
  BY <1>1, <1>2, <1>3 DEF Next

-----------------------------------------------------------------------------
(* The invariant is inductive.                                               *)

LEMMA InitInv == Init => RunInv
<1> SUFFICES ASSUME Init PROVE RunInv
  OBVIOUS
<1>1. tasks = <<>> /\ N = 0 /\ approvals = <<>>
  BY DEF Init, N
<1>2. run \in Rows(N)
  BY <1>1, BudgetAssumption, StatusesIn DEF Init, Rows
<1>3. exec \in [Executors -> Locals(N)]
  BY <1>1, PlacesIn DEF Init, Locals, Idle
<1>4. tasks \in Seq(Statuses) /\ approvals \in Seq(Requests(N))
  BY <1>1
<1>5. faults \in 0..MaxFaults /\ accepted \subseteq 1..N /\ unresolved \in BOOLEAN
      /\ writer \in {"none", "unleased", "leased", "owner", "claim"}
  <2>1. faults = 0 /\ accepted = {} /\ unresolved = FALSE /\ writer = "none"
    BY DEF Init
  <2>2. 0 \in 0..MaxFaults
    BY BudgetAssumption
  <2> QED
    BY <2>1, <2>2
<1>6. TypeOK
  BY <1>2, <1>3, <1>4, <1>5, TypeParts
<1> QED
  BY <1>6 DEF Init, RunInv, LeasedRunIsActive, LiveIsLeased

LEMMA TypeStep ==
  ASSUME RunInv, Next
  PROVE  TypeOK'
<1> USE DEF RunInv
<1>1. /\ run \in Rows(N) /\ tasks \in Seq(Statuses) /\ N \in Nat
      /\ approvals \in Seq(Requests(N)) /\ unresolved \in BOOLEAN
      /\ exec \in [Executors -> Locals(N)] /\ accepted \subseteq 1..N
      /\ writer \in {"none", "unleased", "leased", "owner", "claim"}
      /\ faults \in 0..MaxFaults
  BY TypeParts, NIsNat
<1>2. CASE Cancel
  BY <1>1, <1>2, CancelStep, TypeParts
<1>3. CASE LeaseExpires
  BY <1>1, <1>3, ExpiryStep, TypeParts
<1>4. ASSUME NEW i \in 1..Len(approvals), NEW approve \in BOOLEAN, Decide(i, approve)
      PROVE  TypeOK'
  BY <1>1, <1>4, DecideStep, TypeParts
<1>5. ASSUME NEW e \in Executors, NEW status \in Active \cup {"COMPLETED", "BLOCKED"},
             Stage(e, status)
      PROVE  TypeOK'
  BY <1>1, <1>5, StageStep, TypeParts
<1>6. ASSUME NEW e \in Executors, UNCHANGED <<run, tasks, approvals, accepted, writer>>,
             unresolved' \in BOOLEAN, faults' \in 0..MaxFaults,
             exec' \in [Executors -> Locals(N)]
      PROVE  TypeOK'
  <2>1. N' = N
    BY <1>6 DEF N
  <2> QED
    BY <1>1, <1>6, <2>1, TypeParts
<1>7. ASSUME NEW e \in Executors, NEW token \in 0..N, NEW k \in 0..N, NEW status \in Statuses,
             Settle(token, k, status),
             approvals' \in Seq(Requests(N)), exec' \in [Executors -> Locals(N)]
      PROVE  TypeOK'
  BY <1>1, <1>7, SettleStep, TypeParts
<1>8. ASSUME NEW e \in Executors, Claim, NEW l \in Locals(N + 1), exec' = [exec EXCEPT ![e] = l]
      PROVE  TypeOK'
  <2>1. /\ run' \in Rows(N + 1) /\ tasks' \in Seq(Statuses) /\ N' = N + 1
        /\ writer' = "claim" /\ UNCHANGED <<approvals, unresolved, accepted, faults>>
    BY <1>8, ClaimStep
  <2>2. exec \in [Executors -> Locals(N + 1)] /\ approvals \in Seq(Requests(N + 1))
    BY <1>1, RowsGrow
  <2>3. exec' \in [Executors -> Locals(N + 1)]
    BY <1>8, <2>2
  <2>4. accepted \subseteq 1..(N + 1)
    BY <1>1
  <2> QED
    BY <1>1, <2>1, <2>2, <2>3, <2>4, TypeParts
<1>9. ASSUME NEW e \in Executors,
             \/ StartSwarm(e) \/ StartSingle(e) \/ Resume(e) \/ Stop(e) \/ ExecutorStep(e)
      PROVE  TypeOK'
  <2>1. /\ exec[e].token \in 0..N /\ exec[e].task \in 0..N /\ 0 \in 0..N /\ run.task \in 0..N
        /\ End(e) => exec' \in [Executors -> Locals(N)]
    <3>1. End(e) => exec' \in [Executors -> Locals(N)]
      BY <1>1, Gone, PlacesIn
    <3>2. exec[e] \in Locals(N)
      BY <1>1
    <3>3. run.task \in 0..N /\ 0 \in 0..N
      BY <1>1 DEF Rows
    <3> QED
      BY <3>1, <3>2, <3>3 DEF Locals
  <2>2. \A place \in Places : Go(e, place) => exec' \in [Executors -> Locals(N)]
    BY <1>1, Gone
  <2>3. CASE StartSwarm(e) \/ StartSingle(e)
    <3>1. exec' \in [Executors -> Locals(N)]
      BY <2>2, <2>3, PlacesIn DEF StartSwarm, StartSingle, Create
    <3>2. run' = [run EXCEPT !.status = "RECEIVED"] /\ writer' = "owner"
          /\ UNCHANGED <<tasks, approvals, unresolved, accepted, faults>>
      BY <2>3 DEF StartSwarm, StartSingle, Create
    <3>3. run' \in Rows(N) /\ N' = N
      BY <1>1, <3>2, StatusesIn DEF Rows, N
    <3> QED
      BY <1>1, <3>1, <3>2, <3>3, TypeParts
  <2>4. CASE Resume(e)
    <3>1. CASE WithinLimit
      <4> DEFINE l == [place |-> "working", token |-> N + 1, task |-> N + 1]
      <4>1. Claim /\ exec' = [exec EXCEPT ![e] = l]
        BY <2>4, <3>1 DEF Resume, N
      <4>2. l \in Locals(N + 1)
        BY <1>1, PlacesIn DEF Locals
      <4> QED
        BY <1>8, <4>1, <4>2
    <3>2. CASE ~WithinLimit
      <4> DEFINE l == [place |-> "limited", token |-> 0, task |-> run.task]
      <4>1. UNCHANGED Kept /\ exec' = [exec EXCEPT ![e] = l]
        BY <2>4, <3>2 DEF Resume
      <4>2. l \in Locals(N)
        BY <2>1, PlacesIn DEF Locals
      <4>3. exec' \in [Executors -> Locals(N)]
        BY <1>1, <4>1, <4>2
      <4> QED
        BY <1>1, <1>6, <4>1, <4>3 DEF Kept
    <3> QED
      BY <3>1, <3>2
  <2>5. CASE Stop(e)
    <3>1. faults' \in 0..MaxFaults
      BY <1>1, <2>5, BudgetAssumption DEF Stop
    <3> QED
      BY <1>1, <1>6, <2>1, <2>5, <3>1 DEF Stop
  <2>6. CASE StageFails(e)
    BY <1>1, <1>6, <2>2, <2>6, PlacesIn DEF StageFails, Kept
  <2>7. CASE RecordFailure(e)
    BY <1>1, <1>6, <2>1, <2>7 DEF RecordFailure
  <2>8. CASE SingleReturns(e) \/ SingleRefused(e)
    BY <1>1, <1>6, <2>1, <2>2, <2>8, PlacesIn DEF SingleReturns, SingleRefused, Kept
  <2>9. CASE RequestApproval(e)
    <3>1. [task |-> exec[e].task, status |-> "WAITING_FOR_OWNER"] \in Requests(N)
      BY <2>1 DEF Requests
    <3>2. approvals' \in Seq(Requests(N))
      BY <1>1, <2>9, <3>1 DEF RequestApproval
    <3> QED
      BY <1>7, <2>1, <2>9, <3>2, StatusesIn DEF RequestApproval
  <2>10. CASE GiveUp(e)
    <3>1. CASE Settle(0, exec[e].task, "FAILED_FINAL") /\ UNCHANGED approvals
      BY <1>1, <1>7, <2>1, <2>10, <3>1, StatusesIn DEF GiveUp
    <3>2. CASE ~Held(0) /\ UNCHANGED Kept
      BY <1>1, <1>6, <2>1, <2>10, <3>2 DEF GiveUp, Kept
    <3> QED
      BY <2>10, <3>1, <3>2 DEF GiveUp
  <2>11. CASE \E status \in {"BLOCKED", "READY_FOR_DRAFT_PR", "COMPLETED"} : Verdict(e, status)
    BY <1>1, <1>7, <2>1, <2>11, StatusesIn DEF Verdict
  <2>12. CASE PersistFailure(e)
    <3>1. CASE Settle(exec[e].token, exec[e].task, "BLOCKED") /\ End(e)
      BY <1>1, <1>7, <2>1, <2>12, <3>1, StatusesIn DEF PersistFailure
    <3>2. CASE Settle(exec[e].token, exec[e].task, "FAILED_RECOVERABLE") /\ Go(e, "recording")
      BY <1>1, <1>7, <2>1, <2>2, <2>12, <3>2, StatusesIn, PlacesIn DEF PersistFailure
    <3>3. CASE /\ ~Held(exec[e].token) /\ End(e)
               /\ UNCHANGED <<run, tasks, unresolved, accepted, writer, faults>>
      BY <1>1, <1>6, <2>1, <2>12, <3>3 DEF PersistFailure
    <3> QED
      BY <2>12, <3>1, <3>2, <3>3 DEF PersistFailure
  <2>13. CASE SingleClaims(e)
    <3>1. CASE Resumable /\ WithinLimit
      <4> DEFINE l == [place |-> "working", token |-> N + 1, task |-> 0]
      <4>1. Claim /\ exec' = [exec EXCEPT ![e] = l]
        BY <2>13, <3>1 DEF SingleClaims, N
      <4>2. l \in Locals(N + 1)
        BY <1>1, PlacesIn DEF Locals
      <4> QED
        BY <1>8, <4>1, <4>2
    <3>2. CASE ~(Resumable /\ WithinLimit)
      BY <1>1, <1>6, <2>1, <2>13, <3>2 DEF SingleClaims, Kept
    <3> QED
      BY <3>1, <3>2
  <2>14. CASE SingleWrites(e)
    <3>1. PICK status \in {"COMPLETED", "BLOCKED", "FAILED_RECOVERABLE"} :
            Settle(exec[e].token, 0, status)
      BY <2>14 DEF SingleWrites
    <3> QED
      BY <1>1, <1>7, <2>1, <2>14, <3>1, StatusesIn DEF SingleWrites
  <2>15. CASE SingleRouteBlocked(e)
    BY <1>1, <1>7, <2>1, <2>15, StatusesIn DEF SingleRouteBlocked
  <2> QED
    BY <1>9, <2>3, <2>4, <2>5, <2>6, <2>7, <2>8, <2>9, <2>10, <2>11, <2>12, <2>13, <2>14, <2>15
    DEF ExecutorStep
<1> QED
  BY <1>2, <1>3, <1>4, <1>5, <1>9 DEF Next

LEMMA InvStep ==
  ASSUME RunInv, [Next]_vars
  PROVE  RunInv'
<1>1. CASE Next
  <2>1. TypeOK'
    BY <1>1, TypeStep
  <2>2. CASE Settles
    <3>1. run'.lease = 0 /\ run'.live = FALSE
      BY <2>2, SettleStep DEF Settles
    <3> QED
      BY <2>1, <3>1 DEF RunInv, LeasedRunIsActive, LiveIsLeased
  <2>3. CASE Claim
    <3>1. /\ run'.status \in Active /\ run'.iteration < MaxIterations
          /\ run'.lease = N' /\ run'.task = run'.lease /\ run'.lease # 0
      BY <2>3, ClaimStep, TypeParts, NIsNat DEF RunInv
    <3> QED
      BY <2>1, <3>1 DEF RunInv, LeasedRunIsActive, LiveIsLeased, N
  <2>4. CASE Cancel \/ Decides
    <3>1. run'.lease = 0 /\ run'.live = FALSE
      BY <2>4, CancelStep, DecideStep DEF Decides
    <3> QED
      BY <2>1, <3>1 DEF RunInv, LeasedRunIsActive, LiveIsLeased
  <2>5. CASE Reports
    <3>1. /\ run'.lease = run.lease /\ run'.live = run.live /\ run'.task = run.task
          /\ run'.iteration = run.iteration /\ N' = N
          /\ run.status \in Active => run'.status \in Active
      BY <2>5, StageStep DEF Reports
    <3> QED
      BY <2>1, <3>1 DEF RunInv, LeasedRunIsActive, LiveIsLeased, N
  <2>6. CASE LeaseExpires
    <3>1. /\ run'.lease = run.lease /\ run'.live = FALSE /\ run'.task = run.task
          /\ run'.iteration = run.iteration /\ run'.status = run.status /\ N' = N
      BY <2>6, ExpiryStep
    <3> QED
      BY <2>1, <3>1 DEF RunInv, LeasedRunIsActive, LiveIsLeased, N
  <2>7. CASE Creates
    <3>1. run \in Rows(N) /\ run' = [run EXCEPT !.status = "RECEIVED"]
      BY <2>7, TypeParts DEF Creates, RunInv
    <3>2. run'.lease = run.lease /\ run'.live = run.live /\ run.lease = 0
      BY <2>7, <3>1 DEF Creates, RunInv, LeasedRunIsActive, Active, Rows
    <3> QED
      BY <2>1, <3>2 DEF RunInv, LeasedRunIsActive, LiveIsLeased
  <2>8. CASE Quiet
    BY <2>1, <2>8 DEF Quiet, RunInv, LeasedRunIsActive, LiveIsLeased
  <2> QED
    BY <1>1, StepKinds, <2>2, <2>3, <2>4, <2>5, <2>6, <2>7, <2>8
<1>2. CASE UNCHANGED vars
  BY <1>2 DEF vars, RunInv, TypeOK, LeasedRunIsActive, LiveIsLeased
<1> QED
  BY <1>1, <1>2

\* The run's row, its tasks, its approvals and its executors are always of their
\* types; whatever the server's threads, the owner and the clock do to it.
THEOREM Typed == Spec => []TypeOK
<1>1. RunInv => TypeOK
  BY DEF RunInv
<1> QED
  BY InitInv, InvStep, <1>1, PTL DEF Spec

\* What ends or suspends a run takes the lease with it: a run under a lease is
\* active, has an iteration left, and is held by the newest claim.
THEOREM LeasedIsActive == Spec => []LeasedRunIsActive
<1>1. RunInv => LeasedRunIsActive
  BY DEF RunInv
<1> QED
  BY InitInv, InvStep, <1>1, PTL DEF Spec

-----------------------------------------------------------------------------
(* What a step may not do.                                                   *)

\* Whoever claimed a run never changes it after it ended or the owner cancelled it.
THEOREM EndRespected == Spec => HoldersRespectTheEnd
<1> DEFINE A == /\ run.status \in Terminal /\ run' # run => writer' = "unleased"
                /\ Cancelled /\ run' # run => writer' # "leased"
<1>1. ASSUME RunInv, [Next]_vars
      PROVE  [A]_vars
  <2>1. Terminal \cap Active = {} /\ "BLOCKED" \notin Active /\ "ABSENT" \notin Terminal
        /\ Terminal \subseteq NonResumable /\ "WAITING_FOR_OWNER" \notin Terminal
    BY DEF Terminal, Active, NonResumable
  <2>2. Cancelled => run.status = "BLOCKED"
    BY DEF Cancelled
  <2>3. CASE Settles
    <3>1. writer' \in {"unleased", "leased"} /\ (writer' = "unleased" \/ run.status \in Active)
      BY <1>1, <2>3, SettleStep DEF Settles
    <3> QED
      BY <2>1, <2>2, <3>1
  <2>4. CASE Claim
    BY <1>1, <2>1, <2>4, ClaimStep
  <2>5. CASE Cancel
    BY <1>1, <2>5, CancelStep
  <2>6. CASE Decides
    <3>1. run.status = "WAITING_FOR_OWNER" /\ writer' = "owner"
      BY <1>1, <2>6, DecideStep DEF Decides
    <3> QED
      BY <2>1, <3>1
  <2>7. CASE Reports
    <3>1. writer' \in {"unleased", "leased"} /\ (writer' = "leased" => run.status \in Active)
      BY <1>1, <2>7, StageStep DEF Reports
    <3> QED
      BY <2>1, <2>2, <3>1
  <2>8. CASE LeaseExpires
    <3>1. run.status \in Active
      BY <1>1, <2>8, ExpiryStep
    <3> QED
      BY <2>1, <2>2, <3>1
  <2>9. CASE Creates
    BY <2>1, <2>9 DEF Creates
  <2>10. CASE Quiet
    BY <2>10 DEF Quiet
  <2> QED
    BY <1>1, StepKinds, <2>3, <2>4, <2>5, <2>6, <2>7, <2>8, <2>9, <2>10
<1> QED
  BY InitInv, InvStep, <1>1, PTL DEF Spec, HoldersRespectTheEnd

-----------------------------------------------------------------------------
(* The lease keeps its promise.                                              *)

LEMMA LeaseStep ==
  ASSUME RunInv, [Next]_vars
  PROVE  [Lease!Next]_(Lease!vars)
<1>1. CASE UNCHANGED vars
  BY <1>1 DEF vars, Lease!vars
<1>2. CASE Next
  <2>1. run.live \in BOOLEAN /\ N \in Nat
    BY TypeParts, NIsNat DEF RunInv, Rows
  <2>2. CASE Settles
    <3>1. PICK token \in 0..N, k \in 0..N, status \in Statuses : Settle(token, k, status)
      BY <2>2 DEF Settles
    <3>2. /\ N' = N /\ run'.live = FALSE
          /\ \/ ~run.live /\ accepted' = accepted
             \/ run.live /\ accepted' = accepted \cup {N}
      BY <3>1, SettleStep
    <3>3. CASE ~run.live /\ accepted' = accepted
      BY <2>1, <3>2, <3>3 DEF Lease!vars, N
    <3>4. CASE run.live /\ accepted' = accepted \cup {N}
      <4>1. Lease!Accept
        BY <3>2, <3>4 DEF Lease!Accept, N
      <4> QED
        BY <4>1 DEF Lease!Next
    <3> QED
      BY <3>2, <3>3, <3>4
  <2>3. CASE Claim
    <3>1. N' = N + 1 /\ run'.live = TRUE /\ ~run.live /\ accepted' = accepted
      BY <2>3, ClaimStep
    <3>2. Lease!Grant
      BY <3>1 DEF Lease!Grant, N
    <3> QED
      BY <3>2 DEF Lease!Next
  <2>4. CASE Cancel \/ Decides \/ LeaseExpires
    <3>1. N' = N /\ run'.live = FALSE /\ accepted' = accepted
      BY <2>4, CancelStep, DecideStep, ExpiryStep DEF Decides
    <3>2. CASE run.live
      <4>1. Lease!Void
        BY <3>1, <3>2 DEF Lease!Void, N
      <4> QED
        BY <4>1 DEF Lease!Next
    <3>3. CASE ~run.live
      BY <2>1, <3>1, <3>3 DEF Lease!vars, N
    <3> QED
      BY <3>2, <3>3
  <2>5. CASE Reports
    <3>1. N' = N /\ run'.live = run.live /\ accepted' = accepted
      BY <2>5, StageStep DEF Reports
    <3> QED
      BY <3>1 DEF Lease!vars, N
  <2>6. CASE Creates
    <3>1. run \in Rows(N) /\ run' = [run EXCEPT !.status = "RECEIVED"]
      BY <2>6, TypeParts DEF Creates, RunInv
    <3>2. run'.live = run.live
      BY <3>1 DEF Rows
    <3> QED
      BY <2>6, <3>2 DEF Creates, Lease!vars
  <2>7. CASE Quiet
    BY <2>7 DEF Quiet, Lease!vars
  <2> QED
    BY <1>2, StepKinds, <2>2, <2>3, <2>4, <2>5, <2>6, <2>7
<1> QED
  BY <1>1, <1>2

\* Refinement: the row's lease is an exclusive lease of which, whatever the other
\* writers do, at most one result is accepted, and only while it is in force.
THEOREM LeaseRefined == Spec => ResultsAreLeased
<1>1. Init => Lease!Init
  BY DEF Init, Lease!Init
<1> QED
  BY InitInv, InvStep, LeaseStep, <1>1, PTL DEF Spec, ResultsAreLeased, Lease!Spec

-----------------------------------------------------------------------------
(* The budget.                                                               *)

BudgetInv == RunInv /\ IsFiniteSet(accepted) /\ ResultsWithinBudget

LEMMA BudgetStep ==
  ASSUME BudgetInv, [Next]_vars
  PROVE  BudgetInv'
<1>1. RunInv /\ RunInv'
  BY InvStep DEF BudgetInv
<1>2. /\ run.iteration \in 0..MaxIterations /\ run \in Rows(N) /\ tasks \in Seq(Statuses)
      /\ IsFiniteSet(accepted) /\ Cardinality(accepted) \in Nat
      /\ Cardinality(accepted) <= run.iteration /\ run.iteration \in Nat
  BY <1>1, TypeParts, FS_CardinalityType, BudgetAssumption DEF RunInv, Rows, BudgetInv, ResultsWithinBudget
<1>3. run.iteration <= Bump(run.iteration) /\ Bump(run.iteration) \in Nat
  BY <1>2, BumpStays, BudgetAssumption
<1>4. ASSUME accepted' = accepted, run'.iteration \in Nat, run.iteration <= run'.iteration
      PROVE  BudgetInv'
  BY <1>1, <1>2, <1>4 DEF BudgetInv, ResultsWithinBudget
<1>5. CASE Next
  <2>1. CASE Settles
    <3>1. PICK token \in 0..N, k \in 0..N, status \in Statuses : Settle(token, k, status)
      BY <2>1 DEF Settles
    <3>2. /\ run'.iteration = Bump(run.iteration)
          /\ \/ accepted' = accepted
             \/ run.iteration < MaxIterations /\ accepted' = accepted \cup {N}
      BY <1>1, <3>1, SettleStep
    <3>3. CASE accepted' = accepted
      BY <1>2, <1>3, <1>4, <3>2, <3>3
    <3>4. CASE run.iteration < MaxIterations /\ accepted' = accepted \cup {N}
      <4>1. run'.iteration = run.iteration + 1
        BY <1>2, <3>2, <3>4, BumpStays
      <4>2. /\ IsFiniteSet(accepted \cup {N})
            /\ Cardinality(accepted \cup {N}) = IF N \in accepted THEN Cardinality(accepted)
                                                ELSE Cardinality(accepted) + 1
        BY <1>2, FS_AddElement
      <4> QED
        BY <1>1, <1>2, <3>4, <4>1, <4>2 DEF BudgetInv, ResultsWithinBudget
    <3> QED
      BY <3>2, <3>3, <3>4
  <2>2. CASE Cancel
    BY <1>1, <1>2, <1>3, <1>4, <2>2, CancelStep
  <2>3. CASE Claim \/ Decides \/ Reports \/ LeaseExpires
    <3>1. accepted' = accepted /\ run'.iteration = run.iteration
      BY <1>1, <2>3, ClaimStep, DecideStep, StageStep, ExpiryStep DEF Decides, Reports
    <3> QED
      BY <1>2, <1>4, <3>1
  <2>4. CASE Creates \/ Quiet
    <3>1. accepted' = accepted /\ run'.iteration = run.iteration
      BY <1>2, <2>4 DEF Creates, Quiet, Rows
    <3> QED
      BY <1>2, <1>4, <3>1
  <2> QED
    BY <1>1, <1>5, StepKinds, <2>1, <2>2, <2>3, <2>4
<1>6. CASE UNCHANGED vars
  BY <1>1, <1>6 DEF vars, BudgetInv, ResultsWithinBudget
<1> QED
  BY <1>5, <1>6

\* max_iterations bounds the results: no more are accepted from those who claimed
\* the run than the row has counted, whatever expires or is cancelled between.
THEOREM ResultsBounded == Spec => []ResultsWithinBudget
<1>1. Init => BudgetInv
  <2>1. Init => accepted = {} /\ run.iteration = 0
    BY DEF Init
  <2> QED
    BY InitInv, <2>1, FS_EmptySet DEF BudgetInv, ResultsWithinBudget
<1>2. BudgetInv => ResultsWithinBudget
  BY DEF BudgetInv
<1> QED
  BY <1>1, BudgetStep, <1>2, PTL DEF Spec

ClaimInv == RunInv /\ SpentTokens /\ ClaimsCounted

LEMMA Numbers ==
  ASSUME RunInv
  PROVE  /\ N \in Nat /\ Len(tasks) = N /\ run.iteration \in Nat /\ MaxIterations \in Nat
         /\ run.iteration <= MaxIterations /\ faults \in Nat /\ run.live \in BOOLEAN
         /\ run.lease \in 0..N /\ exec \in [Executors -> Locals(N)]
         /\ run.live => run.lease # 0 /\ run.iteration < MaxIterations
         /\ InWork \in {0, 1} /\ (~run.live => InWork = 0)
<1>1. /\ run \in Rows(N) /\ N \in Nat /\ exec \in [Executors -> Locals(N)]
      /\ faults \in 0..MaxFaults /\ MaxIterations \in Nat /\ MaxFaults \in Nat
  BY TypeParts, NIsNat, BudgetAssumption DEF RunInv
<1>2. /\ run.iteration \in 0..MaxIterations /\ run.live \in BOOLEAN /\ run.lease \in 0..N
  BY <1>1 DEF Rows
<1>3. run.live => run.lease # 0 /\ run.iteration < MaxIterations
  BY DEF RunInv, LiveIsLeased, LeasedRunIsActive
<1>4. InWork \in {0, 1} /\ (~run.live => InWork = 0)
  BY DEF InWork
<1> QED
  BY <1>1, <1>2, <1>3, <1>4 DEF N

LEMMA Replaced ==
  ASSUME NEW S, exec \in [Executors -> S], NEW e \in Executors, NEW l,
         exec' = [exec EXCEPT ![e] = l]
  PROVE  exec'[e] = l /\ \A x \in Executors \ {e} : exec'[x] = exec[x]
  OBVIOUS

\* An executor goes on while the row stays.
LEMMA LocalClaims ==
  ASSUME ClaimInv, run' = run, tasks' = tasks, faults' = faults, NEW e \in Executors, NEW l,
         exec' = [exec EXCEPT ![e] = l],
         run.live /\ exec[e].token = run.lease => l.token = run.lease,
         l.place = "recording" /\ l.token # 0 => l.token # run.lease,
         l.place \in Unclaimed => l.token = 0
  PROVE  SpentTokens' /\ ClaimsCounted'
<1>1. RunInv /\ SpentTokens /\ ClaimsCounted
  BY DEF ClaimInv
<1>2. exec \in [Executors -> Locals(N)]
  BY <1>1, Numbers
<1>3. exec'[e] = l /\ \A x \in Executors \ {e} : exec'[x] = exec[x]
  BY <1>2, Replaced
<1>4. SpentTokens'
  BY <1>1, <1>3 DEF SpentTokens, At
<1>5. ASSUME run.live, HolderAtWork PROVE HolderAtWork'
  <2>1. PICK x \in Executors : exec[x].token = run.lease /\ exec[x].token # 0
    BY <1>5 DEF HolderAtWork
  <2>2. exec'[x].token = run.lease
    BY <1>3, <1>5, <2>1
  <2> QED
    BY <2>1, <2>2 DEF HolderAtWork
<1>6. InWork' = 1 \/ InWork = 0
  BY <1>5 DEF InWork
<1>7. InWork \in {0, 1} /\ InWork' \in {0, 1}
  BY DEF InWork
<1>8. ClaimsCounted'
  <2>1. Len(tasks) \in Nat /\ run.iteration \in Nat /\ faults \in Nat
    BY <1>1, Numbers
  <2>2. Len(tasks)' = Len(tasks) /\ run'.iteration = run.iteration /\ InWork <= InWork'
    BY <1>6, <1>7
  <2> QED
    BY <1>1, <1>7, <2>1, <2>2 DEF ClaimsCounted
<1> QED
  BY <1>4, <1>8

\* A result, a suspension or a cancel: the claim is counted as an iteration.
LEMMA CountedClaims ==
  ASSUME ClaimInv, N' = N, faults' = faults,
         run'.lease = 0, run'.live = FALSE, run'.iteration = Bump(run.iteration)
  PROVE  ClaimsCounted'
<1>1. RunInv /\ ClaimsCounted
  BY DEF ClaimInv
<1>2. /\ Bump(run.iteration) \in Nat /\ run.iteration <= Bump(run.iteration)
      /\ run.iteration < MaxIterations => Bump(run.iteration) = run.iteration + 1
  BY <1>1, Numbers, BumpStays
<1>3. InWork' = 0
  BY DEF InWork
<1>4. InWork = 0 \/ (run.iteration < MaxIterations /\ InWork = 1)
  <2>1. CASE run.live
    BY <1>1, <2>1, Numbers
  <2>2. CASE ~run.live
    BY <1>1, <2>2, Numbers
  <2> QED
    BY <2>1, <2>2
<1> QED
  BY <1>1, <1>2, <1>3, <1>4, Numbers DEF ClaimsCounted, N

LEMMA SettleClaims ==
  ASSUME ClaimInv, NEW token \in 0..N, NEW k \in 0..N, NEW status \in Statuses,
         Settle(token, k, status), NEW e \in Executors, NEW l,
         exec' = [exec EXCEPT ![e] = l], l.place \in Unclaimed => l.token = 0
  PROVE  SpentTokens' /\ ClaimsCounted'
<1>1. RunInv /\ SpentTokens
  BY DEF ClaimInv
<1>2. /\ N' = N /\ faults' = faults /\ run'.lease = 0 /\ run'.live = FALSE
      /\ run'.iteration = Bump(run.iteration)
  BY <1>1, SettleStep
<1>3. ClaimsCounted'
  BY <1>2, CountedClaims
<1>4. exec'[e] = l /\ \A x \in Executors \ {e} : exec'[x] = exec[x]
  BY <1>1, Numbers
<1>5. SpentTokens'
  BY <1>1, <1>2, <1>4 DEF SpentTokens, At
<1> QED
  BY <1>3, <1>5

LEMMA ClaimClaims ==
  ASSUME ClaimInv, Claim, NEW e \in Executors, NEW l, exec' = [exec EXCEPT ![e] = l],
         l.place = "working", l.token = N + 1
  PROVE  SpentTokens' /\ ClaimsCounted'
<1>1. RunInv /\ SpentTokens /\ ClaimsCounted
  BY DEF ClaimInv
<1>2. /\ N' = N + 1 /\ run'.lease = N + 1 /\ run'.live = TRUE /\ ~run.live
      /\ run'.iteration = run.iteration /\ faults' = faults
  BY <1>1, ClaimStep
<1>3. exec \in [Executors -> Locals(N)] /\ N \in Nat
  BY <1>1, Numbers
<1>4. exec'[e] = l /\ \A x \in Executors \ {e} : exec'[x] = exec[x]
  BY <1>3
<1>5. \A x \in Executors : exec[x].token \in 0..N
  BY <1>3 DEF Locals
<1>6. SpentTokens'
  BY <1>1, <1>2, <1>3, <1>4, <1>5 DEF SpentTokens, At, Unclaimed
<1>7. HolderAtWork'
  BY <1>2, <1>3, <1>4 DEF HolderAtWork
<1>8. InWork' = 1
  BY <1>2, <1>7 DEF InWork
<1>9. ClaimsCounted'
  BY <1>1, <1>2, <1>8, Numbers DEF ClaimsCounted, N
<1> QED
  BY <1>6, <1>9

LEMMA ClaimInvStep ==
  ASSUME ClaimInv, [Next]_vars
  PROVE  ClaimInv'
<1>1. RunInv /\ RunInv' /\ SpentTokens /\ ClaimsCounted
  BY InvStep DEF ClaimInv
<1>2. exec \in [Executors -> Locals(N)] /\ N \in Nat
  BY <1>1, Numbers
<1> SUFFICES SpentTokens' /\ ClaimsCounted'
  BY <1>1 DEF ClaimInv
<1>3. CASE UNCHANGED vars
  BY <1>1, <1>3 DEF vars, SpentTokens, At, ClaimsCounted, InWork, HolderAtWork
<1>4. ASSUME exec' = exec, run'.lease = 0 PROVE SpentTokens'
  BY <1>1, <1>4 DEF SpentTokens, At
<1>5. CASE Cancel
  BY <1>1, <1>4, <1>5, CancelStep, CountedClaims
<1>6. ASSUME NEW i \in 1..Len(approvals), NEW approve \in BOOLEAN, Decide(i, approve)
      PROVE  SpentTokens' /\ ClaimsCounted'
  <2>1. /\ N' = N /\ run'.lease = 0 /\ run'.live = FALSE /\ run'.iteration = run.iteration
        /\ ~run.live /\ exec' = exec /\ faults' = faults
    BY <1>1, <1>6, DecideStep
  <2>2. InWork = 0 /\ InWork' = 0
    BY <2>1 DEF InWork
  <2> QED
    BY <1>1, <1>4, <2>1, <2>2 DEF ClaimsCounted, N
<1>7. ASSUME NEW e \in Executors, NEW status \in Active \cup {"COMPLETED", "BLOCKED"},
             Stage(e, status)
      PROVE  SpentTokens' /\ ClaimsCounted'
  <2>1. /\ N' = N /\ run'.lease = run.lease /\ run'.live = run.live
        /\ run'.iteration = run.iteration /\ exec' = exec /\ faults' = faults
    BY <1>1, <1>7, StageStep
  <2>2. InWork' = InWork
    BY <2>1 DEF InWork, HolderAtWork
  <2> QED
    BY <1>1, <2>1, <2>2 DEF SpentTokens, At, ClaimsCounted, N
<1>8. CASE LeaseExpires
  <2>1. /\ N' = N /\ run'.lease = run.lease /\ run'.live = FALSE /\ run.live
        /\ run'.iteration = run.iteration /\ exec' = exec
    BY <1>1, <1>8, ExpiryStep
  <2>2. faults' = faults + InWork /\ InWork' = 0
    BY <1>1, <1>8, <2>1, Numbers DEF LeaseExpires, InWork
  <2>3. Len(tasks)' <= run'.iteration + faults' + InWork'
    BY <1>1, <2>1, <2>2, Numbers DEF ClaimsCounted, N
  <2> QED
    BY <1>1, <2>1, <2>3 DEF SpentTokens, At, ClaimsCounted
<1>9. ASSUME NEW e \in Executors,
             \/ StartSwarm(e) \/ StartSingle(e) \/ Resume(e) \/ Stop(e) \/ ExecutorStep(e)
      PROVE  SpentTokens' /\ ClaimsCounted'
  <2> DEFINE at(place) == [exec[e] EXCEPT !.place = place]
  <2>1. exec[e] \in Locals(N)
    BY <1>2
  <2>2. /\ exec[e].token \in 0..N /\ exec[e].task \in 0..N /\ 0 \in 0..N
        /\ exec[e].place \in Unclaimed => exec[e].token = 0
        /\ Idle.place = "idle" /\ Idle.token = 0
        /\ run.live \in BOOLEAN /\ (run.live => run.lease # 0)
    BY <1>1, <1>2, <2>1, Numbers DEF Locals, SpentTokens, Idle
  <2>3. \A place \in Places : /\ at(place).place = place /\ at(place).token = exec[e].token
                              /\ Go(e, place) <=> exec' = [exec EXCEPT ![e] = at(place)]
    BY <2>1 DEF Go, Locals
  <2>4. End(e) <=> exec' = [exec EXCEPT ![e] = Idle]
    BY DEF End
  \* A thread that ends without a write does not end with the lease.
  <2>5. ASSUME UNCHANGED Kept, End(e), ~run.live \/ exec[e].token # run.lease
        PROVE  SpentTokens' /\ ClaimsCounted'
    BY <2>2, <2>4, <2>5, LocalClaims DEF Kept, Unclaimed
  <2>6. ASSUME UNCHANGED Kept, NEW place \in Places, Go(e, place), place # "recording",
               place \in Unclaimed => exec[e].token = 0
        PROVE  SpentTokens' /\ ClaimsCounted'
    <3>1. PICK l : /\ l.place = place /\ l.token = exec[e].token
                   /\ exec' = [exec EXCEPT ![e] = l]
      BY <2>3, <2>6
    <3>2. run' = run /\ tasks' = tasks /\ faults' = faults
      BY <2>6 DEF Kept
    <3> QED
      BY <2>6, <3>1, <3>2, LocalClaims
  <2>7. ASSUME NEW token \in 0..N, NEW k \in 0..N, NEW status \in Statuses,
               Settle(token, k, status), End(e) \/ Go(e, "recording")
        PROVE  SpentTokens' /\ ClaimsCounted'
    <3>1. CASE End(e)
      BY <2>2, <2>4, <2>7, <3>1, SettleClaims
    <3>2. CASE Go(e, "recording")
      <4>1. PICK l : l.place = "recording" /\ exec' = [exec EXCEPT ![e] = l]
        BY <2>3, <3>2, PlacesIn
      <4>2. l.place \notin Unclaimed
        BY <4>1 DEF Unclaimed
      <4> QED
        BY <2>7, <4>1, <4>2, SettleClaims
    <3> QED
      BY <2>7, <3>1, <3>2
  <2>8. ~Held(exec[e].token) => ~run.live \/ exec[e].token # run.lease
    BY <2>2 DEF Held
  <2>9. CASE StartSwarm(e) \/ StartSingle(e)
    <3>1. PICK place \in {"working", "starting"} : Create(e, place)
      BY <2>9 DEF StartSwarm, StartSingle
    <3>2. /\ run.status = "ABSENT" /\ run' = [run EXCEPT !.status = "RECEIVED"]
          /\ tasks' = tasks /\ faults' = faults /\ exec[e].place = "idle"
          /\ exec' = [exec EXCEPT ![e] = at(place)]
      BY <3>1, <2>3, PlacesIn DEF Create, At
    <3>3. run \in Rows(N)
      BY <1>1, TypeParts DEF RunInv
    <3>4. /\ run'.lease = run.lease /\ run'.live = run.live /\ run'.iteration = run.iteration
          /\ ~run.live
      BY <1>1, <3>2, <3>3 DEF Rows, RunInv, LeasedRunIsActive, LiveIsLeased, Active
    <3>5. InWork = 0 /\ InWork' = 0
      BY <3>4 DEF InWork
    <3>6. ClaimsCounted'
      BY <1>1, <3>2, <3>4, <3>5 DEF ClaimsCounted
    <3>7. at(place).token = 0 /\ at(place).place = place
      BY <2>2, <2>3, <3>2, PlacesIn DEF Unclaimed
    <3>8. exec'[e] = at(place) /\ \A x \in Executors \ {e} : exec'[x] = exec[x]
      BY <1>2, <3>2, Replaced
    <3>9. SpentTokens'
      BY <1>1, <3>4, <3>7, <3>8 DEF SpentTokens, At
    <3> QED
      BY <3>6, <3>9
  <2>10. CASE Resume(e)
    <3>1. CASE WithinLimit
      <4> DEFINE l == [place |-> "working", token |-> N + 1, task |-> N + 1]
      <4>1. Claim /\ exec' = [exec EXCEPT ![e] = l]
        BY <2>10, <3>1 DEF Resume, N
      <4>2. l.place = "working" /\ l.token = N + 1
        OBVIOUS
      <4> HIDE DEF l
      <4> QED
        BY <4>1, <4>2, ClaimClaims
    <3>2. CASE ~WithinLimit
      <4> DEFINE l == [place |-> "limited", token |-> 0, task |-> run.task]
      <4>1. /\ run' = run /\ tasks' = tasks /\ faults' = faults /\ exec' = [exec EXCEPT ![e] = l]
            /\ exec[e].place = "idle"
        BY <2>10, <3>2 DEF Resume, Kept, At
      <4>2. l.place = "limited" /\ l.token = 0 /\ exec[e].token = 0
        BY <2>2, <4>1 DEF Unclaimed
      <4> HIDE DEF l
      <4> QED
        BY <2>2, <4>1, <4>2, LocalClaims
    <3> QED
      BY <3>1, <3>2
  <2>11. CASE Stop(e)
    <3>1. /\ run' = run /\ tasks' = tasks /\ faults' = faults + 1
          /\ exec' = [exec EXCEPT ![e] = Idle]
      BY <2>4, <2>11 DEF Stop
    <3>2. exec'[e] = Idle /\ \A x \in Executors \ {e} : exec'[x] = exec[x]
      BY <1>2, <3>1, Replaced
    <3>3. SpentTokens'
      BY <1>1, <2>2, <3>1, <3>2 DEF SpentTokens, At
    <3>4. InWork \in {0, 1} /\ InWork' \in {0, 1}
      BY DEF InWork
    <3>5. ClaimsCounted'
      <4>1. Len(tasks)' = Len(tasks) /\ run'.iteration = run.iteration /\ faults' = faults + 1
        BY <3>1
      <4>2. Len(tasks) \in Nat /\ run.iteration \in Nat /\ faults \in Nat
        BY <1>1, Numbers
      <4>3. Len(tasks) <= run.iteration + faults + InWork
        BY <1>1 DEF ClaimsCounted
      <4>4. Len(tasks)' <= run'.iteration + faults' + InWork'
        BY <3>4, <4>1, <4>2, <4>3, SMTT(30)
      <4> QED
        BY <4>4 DEF ClaimsCounted
    <3> QED
      BY <3>3, <3>5
  <2>12. CASE StageFails(e)
    BY <2>6, <2>12, PlacesIn DEF StageFails, Unclaimed
  <2>13. CASE RecordFailure(e)
    <3>1. /\ run' = run /\ tasks' = tasks /\ faults' = faults
          /\ exec' = [exec EXCEPT ![e] = Idle] /\ exec[e].place = "recording"
      BY <2>4, <2>13 DEF RecordFailure, At
    <3>2. exec[e].token # 0 => exec[e].token # run.lease
      BY <1>1, <3>1 DEF SpentTokens, At
    <3> QED
      BY <2>2, <3>1, <3>2, LocalClaims
  <2>14. CASE SingleReturns(e)
    <3>1. UNCHANGED Kept /\ ((Cancelled /\ End(e)) \/ Go(e, "checked"))
      BY <2>14 DEF SingleReturns
    <3>2. Cancelled => ~run.live
      BY <1>1 DEF Cancelled, RunInv, LiveIsLeased, LeasedRunIsActive, Active
    <3> QED
      BY <2>5, <2>6, <3>1, <3>2, PlacesIn DEF Unclaimed
  <2>15. CASE SingleRefused(e)
    BY <2>5, <2>6, <2>8, <2>15, PlacesIn DEF SingleRefused, Unclaimed
  <2>16. CASE RequestApproval(e)
    BY <2>2, <2>7, <2>16, StatusesIn DEF RequestApproval
  <2>17. CASE GiveUp(e)
    <3>1. exec[e].token = 0
      BY <2>2, <2>17 DEF GiveUp, At, Unclaimed
    <3>2. CASE Settle(0, exec[e].task, "FAILED_FINAL")
      BY <2>2, <2>7, <2>17, <3>2, StatusesIn DEF GiveUp
    <3>3. CASE UNCHANGED Kept
      BY <2>2, <2>5, <2>17, <3>1, <3>3 DEF GiveUp
    <3> QED
      BY <2>17, <3>2, <3>3 DEF GiveUp
  <2>18. CASE \E status \in {"BLOCKED", "READY_FOR_DRAFT_PR", "COMPLETED"} : Verdict(e, status)
    BY <2>2, <2>7, <2>18, StatusesIn DEF Verdict
  <2>19. CASE PersistFailure(e)
    <3>1. CASE Settle(exec[e].token, exec[e].task, "BLOCKED") /\ End(e)
      BY <2>2, <2>7, <3>1, StatusesIn
    <3>2. CASE Settle(exec[e].token, exec[e].task, "FAILED_RECOVERABLE") /\ Go(e, "recording")
      BY <2>2, <2>7, <3>2, StatusesIn
    <3>3. CASE /\ ~Held(exec[e].token) /\ End(e)
               /\ UNCHANGED <<run, tasks, unresolved, accepted, writer, faults>>
      BY <2>5, <2>8, <2>19, <3>3 DEF PersistFailure, Kept
    <3> QED
      BY <2>19, <3>1, <3>2, <3>3 DEF PersistFailure
  <2>20. CASE SingleClaims(e)
    <3>1. exec[e].token = 0
      BY <2>2, <2>20 DEF SingleClaims, At, Unclaimed
    <3>2. CASE Resumable /\ WithinLimit
      <4> DEFINE l == [place |-> "working", token |-> N + 1, task |-> 0]
      <4>1. Claim /\ exec' = [exec EXCEPT ![e] = l]
        BY <2>20, <3>2 DEF SingleClaims, N
      <4>2. l.place = "working" /\ l.token = N + 1
        OBVIOUS
      <4> HIDE DEF l
      <4> QED
        BY <4>1, <4>2, ClaimClaims
    <3>3. CASE ~(Resumable /\ WithinLimit)
      BY <2>2, <2>5, <2>20, <3>1, <3>3 DEF SingleClaims
    <3> QED
      BY <3>2, <3>3
  <2>21. CASE SingleWrites(e)
    <3>1. PICK status \in {"COMPLETED", "BLOCKED", "FAILED_RECOVERABLE"} :
            Settle(exec[e].token, 0, status)
      BY <2>21 DEF SingleWrites
    <3> QED
      BY <2>2, <2>7, <2>21, <3>1, StatusesIn DEF SingleWrites
  <2>22. CASE SingleRouteBlocked(e)
    BY <2>2, <2>7, <2>22, StatusesIn DEF SingleRouteBlocked
  <2> QED
    BY <1>9, <2>9, <2>10, <2>11, <2>12, <2>13, <2>14, <2>15, <2>16, <2>17, <2>18, <2>19,
       <2>20, <2>21, <2>22 DEF ExecutorStep
<1> QED
  BY <1>3, <1>5, <1>6, <1>7, <1>8, <1>9 DEF Next

\* A claim is an execution the user's max_iterations allows, or it replaces one
\* that was lost with its thread or its lease: the number of claims is bounded.
THEOREM ClaimsBounded == Spec => []ClaimsWithinBudget
<1>1. Init => ClaimInv
  <2>1. ASSUME Init PROVE SpentTokens /\ ClaimsCounted
    <3>1. exec = [e \in Executors |-> Idle] /\ tasks = <<>> /\ run.iteration = 0 /\ faults = 0
          /\ run.live = FALSE
      BY <2>1 DEF Init
    <3>2. InWork = 0
      BY <3>1 DEF InWork
    <3> QED
      BY <3>1, <3>2 DEF SpentTokens, ClaimsCounted, At, Idle
  <2> QED
    BY InitInv, <2>1 DEF ClaimInv
<1>2. ClaimInv => ClaimsWithinBudget
  <2> SUFFICES ASSUME ClaimInv PROVE Len(tasks) <= MaxIterations + faults
    BY DEF ClaimsWithinBudget
  <2>1. RunInv /\ Len(tasks) <= run.iteration + faults + InWork
    BY DEF ClaimInv, ClaimsCounted
  <2>2. CASE run.live
    BY <2>1, <2>2, Numbers
  <2>3. CASE ~run.live
    BY <2>1, <2>3, Numbers
  <2> QED
    BY <2>2, <2>3
<1> QED
  BY <1>1, ClaimInvStep, <1>2, PTL DEF Spec

=============================================================================
