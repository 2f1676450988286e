# Verification of Sovereign Studio ATO: agent runtime, billing, command queue, self-healing

This directory holds TLA+ models of the parts of Sovereign Studio ATO whose correctness
depends on what several threads, processes and transactions do to the same rows and files,
the TLC configurations that check them on small instances, and TLAPS proofs of their most
important properties for every value of the constants. Paths below are relative to `src/`.

    tlasany M.tla                              parses a module
    tlc -config MCX_run.cfg MCX.tla            model-checks one run
    tlapm X_proofs.tla                         checks the proofs of a module

`PROJECT.json` is the index: the components, the runs, one mutant per property, the map from
definitions to source lines, the findings, the hazards and the theorems.

- 1 Inventory of the system
- 2 Plan
- 3 The modules and the code
- 4 The runs, their bounds and what they show
- 5 Fairness
- 6 What is proved, and how
- 7 Where the code and its documents disagree
- 8 What the models leave out

## 1 Inventory of the system

Sovereign Studio ATO is a Flask backend on Postgres (`scripts/sovereign-backend`, with the
agent runtime in `backend/agent_runtime` mirrored beside it), an MCP control plane with a
worker on the host (`tools/sovereign-chatgpt-mcp`), web, mobile and edge front ends, and a
number of prototypes. A user hands it a *mission* for a GitHub repository; the runtime
clones the repository, lets a language model edit and test it, collects evidence, prepares
and creates a Draft PR, and charges credits for it. Users also chat with routed models, paid
by the same credits; owners run host commands through the MCP server.

Every backend process serves requests in threads and runs one reconciler daemon. Nothing is
shared in memory: the parts meet in database rows (most writes are transactions of a single
statement), in directories of the host, and at GitHub and the model providers.

| Part | State it keeps | Operations | Meets | What is hard | What makes it correct |
|---|---|---|---|---|---|
| Repository execution (`repository_execution`, `job_store`, `job_lifecycle`, `tool_events`, `evidence_gate`) | job row: status, `external_ref` (queue, claim, binding), evidence, Draft-PR state; the workspace | start, list, claim, execute a turn, rotate routes, finalise, close out, restore, recover, cancel, tool run, prepare, create, read back, clean up | reconcilers of several processes and request threads on one row; account; GitHub | stale listings, claims taken by compare-and-swap on values read earlier, writes that do not look at the status, crashes under a claim | one thread at a time works on a job; a job is executed at most once and never replayed after a change; publication needs evidence; a job does not say running for ever |
| Credit account (`cognitive_usage_billing`, `routes` create, `app._apply_credit_delta`) | `admin_users.credits`, the bought part of it, the ledger, settlement rows | purchase, bonus, fee, reserve, settle, refund, charge for a Draft PR | swarm stages, create requests, payment webhooks | external calls between two transactions or inside one, partial usage, duplicate deliveries, cancelled sibling stages | cache = ledger; no credit refunded twice or lost; what was created was paid, once |
| Chat completion (`app.public_llm_chat` and helpers) | receipts, settlement row, account | approve, reserve, call, retry, settle, adjust, refund, mark | the same account; providers; clients that repeat a request id | four to six separate transactions around a call, each with a failure path of its own | the rows say what was booked; refunds never exceed reservations; calls are covered |
| Host command queue (`command_queue`, `command_worker`) | files in inbox, processing and outbox | submit, enqueue, status; claim, execute, answer, release, recover | MCP server threads and a systemd service, through the file system only | rename against unlink, looks that are not atomic, a worker killed at any step | a command runs at most once; *cancelled* means it does not run; no admitted request disappears |
| Durable permissions, revocation (`durable_workflow*`, `revocation_closure`) | append-only permission and execution receipts, authority head | request, approve, bind, revoke, close | executor, operator | check to use, boundaries of validity, order of receipts | no effect after a revocation; receipts form one chain |
| Progress leases (`causal_progress_lease`, `job_store`) | chain of progress receipts | append, list | executor, reader | a fingerprint reused, readers without the lock | a chain stays readable; progress is not claimed twice |
| Fleet (`fleet_attempts`, `fleet_attempt_worktrees`, `fleet_supervisor`) | attempts, worktrees, leases | plan, provision, transition, discard, verdict | worker processes, Git | evidence of a superseded attempt, crash while provisioning | one active attempt per lane; disjoint write sets |
| Agents SDK runs (`cognitive_run_store`, `cognitive_swarm_*`) | run row with its resume lease, recovery tasks, approvals, failures | create, report a stage, end, ask for approval, claim for resume, cancel, decide | request threads, detached threads, the owner, the repository executor | writers without a lease against lease holders, leases that expire under their holder, limits found in one transaction and recorded in another | at most one result per claim, within the budget; a lease holder never writes over an end or a cancel; a run does not stay active for ever |
| Tool calls (`cognitive_repository_tools`, `agent_run_receipts`, tables of `cognitive_run_store`) | tool-call rows, task row, chain of receipts, circuit, count of mutations | start, run the tool, save its evidence, read the workspace back, finish with a receipt | the SDK's worker threads, the workspace, the executor's replay, Rescue's proof pack | parallel calls of one model response, failures after the effect, an aborted connection | one chain; a settled call has one receipt; the last receipt names the workspace; a counted change is receipted; a changed workspace is not replayed |
| Self-healing (`cag_self_healing_runtime`, `cag_self_healing`) | incident rows, the owner's grant, manual approvals, action receipts | detect, claim and ask the CAG provider, store evidence, consult grant and limit, claim, recheck, start and record a repair; grant, revoke, approve | a scanner thread in every Gunicorn worker, on the same rows; the owner | status writes that look at nothing, a limit read before the claim and fed after the effect, a grant that changes during a scan, a worker that ends between effect and record | the provider is asked once; repairs are bounded, permitted and paid for by an approval each; an incident is decided |
| Routing (`llm_revolver`, `llm_route_scanner`, `free_revolver_*`, `openrouter_*`) | routes, cooldowns, quotas | select, record, cool down, activate | chat, swarm | concurrent quota use | quotas hold; a failing route rests |
| Owner input, passkeys, step-up (`owner_input_runtime`, `security_runtime`) | one-time requests and approvals | create, answer, consume, expire | chat, purchases, MCP | consumption racing expiry | a one-time value is used once |
| Live Workspace, desktop, A2A, Agent Zero, integration plans, Wolfram lane, memory, Observatory, evidence gates, front ends, prototypes | see `PROJECT.json` | | | | mostly pure contracts, projections and external I/O |

## 2 Plan

Order of work, the most important behaviour first. The modules of 1 to 7 are built, checked and
proved; the rest is what later work extends the project with.

1. `ExclusiveExecution`, `RepositoryJob`: the job row under its claim, against everything that
   writes it. Abstract specification: who executes a job.
2. `CreditAccount`: one account under purchases, stages and Draft-PR charges.
3. `ChatBilling`: the chat handler's reservation protocol, transaction by transaction.
4. `AtMostOnceCommands`, `HostCommandQueue`: the spool directories of host commands. Abstract
   specification: at-most-once execution with truthful verdicts.
5. `LeasedResults`, `AgentRun`: the run row under its resume lease, against everything that
   writes it. Abstract specification: one lease at a time and at most one result of each.
6. `ToolCalls`: the calls of a model's tools, their rows and receipts, down to the replay of a
   turn that `RepositoryJob` decides on the count of changes.
7. `SelfHealing`: the scanners of several processes over the incident rows, under a grant that
   comes and goes, a limit and manual approvals.
8. `PermissionChain`: permission receipts, the authority head, revocation and closure, the use
   of a permission by the executor, the boundaries of validity. Theorem: no effect is
   authorised by a chain that ends in a revocation.
9. `ProgressChain`: progress receipts appended under `FOR UPDATE`, read without it; the limit
   of 2048 receipts. Theorem: a chain once readable stays readable, or the finding that it
   does not.
10. `FleetAttempts`: attempts and worktrees of a lane, with the supervisor's pair conflicts and
   plan as operators checked against their definition over small sets.
11. Rescue and the verification gateway as further actors of `CreditAccount`; the publication
   steps of `RepositoryJob` composed with the charge of `CreditAccount`, with each of the two
   shown to implement its part.
12. Workspace admission, owner input, the revolver's quotas.

Runs stay within about three minutes: two actors of each kind, two or three objects, one or two
faults. The listed runs are kept to a dozen, so that all of them are rerun on every change; a new
module's runs take the place of counterexamples, which then stand beside them (section 7). Each
further module gets one safety run over the whole next-state relation, with the refinement where
an abstract specification exists, a liveness run where the code's scheduling justifies
fairness, a mutant for each property, and proofs of its invariants.

## 3 The modules and the code

A step of a model is one committed statement or transaction, one file operation, or one call
to the outside. Locals that a thread keeps between steps are in a record per thread with its
place in the handler; everything else it could use is read again, as in the code.

### RepositoryJob (with ExclusiveExecution, MCRepositoryJob)

One job. `status`, `ref` (`external_ref`), `evidence`, `pr`, `draft` are the row; `pc`
and `local` the threads, `Reconcilers` (the daemons' loops) and `Handlers` (request threads).
`Provision` to `QueuePending` is `start_repository_execution` and its caller; `ListPending`,
`ClaimSubmit`, `CheckAuthority`, `MarkStarted`, `Admit`, the turn (`AgentEdits`, `AgentTests`,
`TurnCompletes`, `RotateRoute`, `TurnFails`), `Finalize` and `Block` are
`_submit_pending_repository_job` and `_submit_after_claim`; `ListBound` to `Restore` is
`reconcile_repository_execution` with `_closeout_repository_job`; `ReceiveCancel` to
`Reconcile` are the routes, each with the read that precedes its write as a step of its own,
because the write does not look at the row again. `Crash` ends a process's thread
anywhere; its locals are gone and the row stays. A status that a tool route computed from
the row it read earlier is carried in `local`.

`ref` has the five forms of the column: none, pending, a submit claim, bound, a closeout
claim. Claims carry an id, as the uuid in the column does, so that a swap on a value of an
earlier claim fails. `ExclusiveExecution` is the promise without a column: a phase and the
set of threads at work.

A model turn is abstracted to its effects: `AgentEdits` is an edit the toolset counted,
`AgentEditsUncounted` one whose call raised after the effect, `AgentTests` a test. `NoReplay`
is about the counted ones, as the executor's own test is; what the count is worth is the
question of `ToolCalls`.

### CreditAccount (with MCCreditAccount)

`credits`, `funded`, `ledger` are the account and the ledger's sum, `settlement` the rows of
`llm_usage_settlements`, `prState` and `draft` the job's and GitHub's idea of its Draft PR.
A transaction that takes the row lock first is one step. The create request alone keeps the
lock over a call to GitHub: `Enter` (session lock), `CheckCredits` (`FOR UPDATE`), `Publish`,
`Charge`; while it holds the lock, `RowFree` keeps every other transaction out. A stage is
reserved, answered by its provider up to `MaxAnswers` times, and settled, refunded,
or marked, as `_run_stage` does from the exception it sees.

### ChatBilling (with MCChatBilling)

A handler (`post`) goes through the places of `public_llm_chat`: approval, settlement row,
reservation, mark, candidate routes with the truncation retry and the contract retry,
settlement with adjustment or partial refund, the row's closing status, the refund path. Each
transaction has a companion action in which it raises (`...Fails`, `...Raises`), with the
`except` clause the code has there; `Die` ends the handler anywhere. `moved` is a history of
what was booked per request id.

`SignedReceipts` says whether `credit_receipts` admits negative amounts. As migrated it does
not (`CHECK (credits > 0)`, migration 011), and then no paid request gets past its
reservation: `MCChatBilling_reservable.cfg` shows that. To say anything about the protocol that
follows a reservation, `chat_safety` checks it on a table that admits them; the theorems hold
for both.

### HostCommandQueue (with AtMostOnceCommands, MCHostCommandQueue)

`inbox`, `processing` and `outbox` are the directories; each look, rename, write and unlink is
a step. `Enqueue` to `GiveUp` is `submit` (a caller may also take only `enqueue`'s part, or
lose the id when `enqueue` raises after the write), `Ask` to `Clear` is `status`,
`Start`, `Sweep`, `Claim`, `Begin`, `End`, `Refuse`, `WriteResult`, `Release` are `serve_forever`
and `process_once`; a worker that starts needs the `flock`. `Crash` ends a worker at any
place. `Read` and `Clear` are `_read_result`: a result is removed by whoever reads it, also when
the reading fails (too large, an I/O error, not UTF-8, not JSON), and then the caller is told
*unreadable* and the verdict is gone. The same answer leaves the file alone when there is no
regular file, or when the call raises. `AtMostOnceCommands` is the "Job truth" of `CONTROL_PLANE_TRUTH.md` without files.

### AgentRun (with LeasedResults, MCAgentRun)

`run`, `tasks`, `approvals`, `unresolved` are the row of `agent_runs` and its dependants. Each
function of `cognitive_run_store` is one transaction on the locked row and one action:
`Settle` is `transition_agent_run` with its lease clause (`Held`), `Claim` is
`claim_agent_run_for_resume`, `Cancel` is `cancel_agent_run`, `Decide` the owner's route in
`controller_board`. The executors are threads: `StartSwarm` executes the run it created
without a lease (`token` 0), `Resume` claims it first (`token` and `task` of its claim), and
`StartSingle` answers at once and leaves a detached thread that claims and executes
(`SingleClaims` to `SingleWrites`, a token without a task). What the stages say is open: a
stage may report any status, a verdict may be any. `Stop` ends a thread anywhere,
`LeaseExpires` lets time pass, as a fault when the holder is still at work. Of `next_action` only
whether it says *cancelled* matters.

`LeasedResults` is the promise of the lease without a row: leases are granted one at a time, and
of each at most one result is accepted, while it is the newest and in force.

### ToolCalls (with MCToolCalls)

The model is given its tools as synchronous functions, and the SDK runs the tool calls of one
response side by side, each in a thread: the `Workers`. A worker's call goes through
`Open` (the circuit, the job's evidence, the identity of the workspace before), `Start`
(`start_agent_tool_call` with the task's budget), `RunTool`, `Save`, `ReadBack` (the identity
after, and whether that is a mutation), `Look` and `Insert` (`finish_agent_tool_call`: the call
must be RUNNING, the last receipt gives sequence and predecessor, the constraint on the
sequence decides) and `Count`; `HandleFailure` is the `except` clause, which may go through
`Look` and `Insert` once more. `Look` locks the last receipt, but who waited for the lock gets
the same receipt, hence the two steps. Faults are a commit whose outcome is lost, an error of
the database (which leaves the connection in an aborted transaction, so that the `except`
clause cannot finish the call), a failing readback, an effect of a tool that then reports
failure.

`turn` is the executor's loop, a route at a time: `BeginRoute` (the stage `agent_started`),
`Complete` (`agent_completed`), `Replay` (the next free route with the same toolset), `Verify`
(the run is VERIFYING) and `Close` (`_block_job`, after whatever else ended the turn, an
exception of the stage observer among it). Each stage is written to the row of the same task the
calls write to, so its status says what happened last: RUNNING before the first call, RUNNING
again over a failure of the route before. `turn.since` is history, the receipts there were when
the route began. The SDK joins its threads before `asyncio.run` returns, hence `AllIdle`.

Data is abstracted to what the code distinguishes: three tools (one that looks, one that
writes, one that tests), results that are done or not, a gate that passes or not, the content
of the workspace as one of `Contents`.

### SelfHealing (with MCSelfHealing)

`row` is `sovereign_self_healing_incidents`, a row per case and failure family; a case is one
observation of one job, so that the unique key of the table is the index of `row`. `authority`,
`approval` and `receipts` are the owner's grant, the unused manual approvals of a case and the
action receipts that the limits count. Each scanner (`worker`, one per Gunicorn process) goes
through `process_cag_self_healing_once`, whose `connection.commit()` after every statement
makes each of them a step: `Pick` is the observation of a candidate, `Upsert` its incidents one
by one, `LeaveAlone` to `Reuse` the decisions on the rows as they were *read*, `ClaimForCag` and
`CagAnswers` the claim and the provider's answer, `MarkFailed`, `MarkVerified` and `Review` the
loops over the incidents, `StoreContract` to `AddReceipt` the repair of a single failure. The
locals are the statuses read (`seen`), the loop index (`at`), the evidence (`answer`) and whether
the limit was exhausted; everything else is read again, as there. `Fail` is a process that ends or
an exception that leaves the case, `StartRepair` may raise before and after the job exists.

The two limits (hour, day) are one, and the receipts in the window at the start are any number up
to it. `permitted` is history: whether the grant has permitted the repair at some time since the
claim. `Stalled` cases are those of jobs that count as timed out; the code gives them up with a
`NameError` (section 7), and so does `Pick`.

## 4 The runs, their bounds and what they show

Deadlock is checked in the runs of `SelfHealing`, whose scanners never stop, and nowhere else
(`CHECK_DEADLOCK FALSE`): a server without requests stops legitimately, and here so does one whose
bounds are used up. That work does not stop half-way is what the liveness properties are about.

| Run | Instance | Shows |
|---|---|---|
| `job_safety` | 2 reconcilers, 2 handlers, 3 requests of any kind, 2 routes, 4 claims, 1 crash, closeout faults | `ClaimHeld`, `SubmitOnce`, `PublishedWithEvidence`, `NoTurnWithoutPermission`, `AbandonedForGood`; the column implements `ExclusiveExecution`, and so one thread works at a time |
| `job_liveness` | 2 requests of the owner, no crashes or faults, fair | `RunSettles`, `NoPerpetualRunning` |
| `account_safety` | 2 stages, 2 create requests, 2 jobs, 2 purchases, bonus, fee, GitHub failures, 1 death | every credit is accounted for once, creation is paid and charged once per preparation, no race between check and charge |
| `chat_safety` | 2 handlers, 1 or 2 ids, 2 calls, 2 faults, 1 death, bills 0..3 around a reservation of 2 | at most one handler per id, covered calls, rows that say what was booked, final amounts |
| `queue_safety` | 2 requests, 1 caller, 2 workers, 1 poll, 2 crashes, fair | at most once, verdicts final, no request without a trace before a caller knows that it is over; the files implement `AtMostOnceCommands`; the queue drains, every call returns |
| `run_safety` | 2 executors, 2 iterations, 2 faults, fair | at most one result per claim, results and claims within the budget, no lease holder writes over an end or a cancel; the row implements `LeasedResults`; a run that is received or active comes to rest |
| `calls_safety` | 2 workers, 2 calls, 2 routes, 1 fault, the circuit at 2, fair | the chain is whole, settled calls and receipts are one to one, the task tells a failure while a route runs, the last receipt names the workspace, a counted change is receipted, the circuit's overshoot is bounded; the turn ends |
| `calls_replay` | 2 workers, 2 calls, 2 routes, no fault | counterexample: a turn is replayed on a changed workspace (section 7) |
| `heal_safety` | 2 scanners, a case with one failure and one with three, limit 1, 1 approval, 1 fault | the provider is asked once, repairs and the overshoot of the limit are bounded, every repair is under the grant and beyond the limit paid for by an approval |
| `heal_live` | 2 scanners, a case with one failure and one with two, limit 1, 1 approval, no fault, fair | every incident is decided |
| `heal_duplicate` | 2 scanners, one case, no fault | counterexample: two repair jobs for one incident (section 7) |
| `job_cancel_overridden` | smallest instance | counterexample: a turn starts after the cancel (section 7) |

Why these bounds are enough. Every race the code guards against is between two
threads over one row or file: a claimant and a late claimant, an owner and a canceller, a
caller at its deadline and the worker. Two threads of each kind give all of them, with a
third party (the crash, the third request) to disturb. `MaxClaims` 4 allows a submit,
two closeouts and a lost claim. Amounts are chosen so that each comparison falls
both ways: a bill below, at and above the reservation, a balance with and without bonus
credits, enough for one charge and not for two. Two faults let the failure path of a failure
path be taken. Two crashes of a worker let the recovery itself be interrupted. The safety
theorems of section 6 do not depend on any of these bounds: two readers racing for one result,
for instance, need a second poll, which `queue_safety` leaves out and `NoJobIsLost` covers.
`queue_safety` has one caller because its liveness properties are checked on the same instance;
its safety properties hold with two (checked by hand) and, as theorems, with any number.

For a run row two lease holders and a writer without a lease are what its clauses tell apart,
and two iterations let a claim be the last one or not. For tool calls two workers give every
order of two calls, one fault the failure path (two faults were checked once, with the same
result), and a circuit that opens at 2 instead of the code's 3 lets it open within two calls and
their replay; the budget of 2 stands for the code's 40 and is reached. The theorems hold for any.

For the self-healing two scanners give every order of two claims. A case with one failure is the
only kind that is repaired; one with two is the smallest with a loop; three are needed for stored
evidence to diverge, which takes two calls of the provider about one case. The limit 1 is reached
by one repair, or at the start. One fault can hit any step of either scanner; the theorems hold
for any number of scanners, cases, families, approvals and faults.

For a run row `run_safety` has two executors because its liveness property is checked on the same
instance; its safety properties were also checked with three.

Symmetry is used in safety runs only, over sets whose members are interchangeable.

Each property has a mutant in the module of the code it could break (the definitions
commented "Mutant of"), a bug of the kind one would commit there; TLC finds the property
violated with it under the same configuration.

## 5 Fairness

Fairness is assumed only in `FairSpec` and `RetrySpec`.

- `RepositoryJob!FairSpec`: each reconciler polls for ever (`start_repository_reconciler` is a
  daemon loop that catches every exception) and a thread in the middle of a handler proceeds.
  A model turn ends since every provider call has a timeout and routes are finitely many; the
  run has no crashes and no closeout faults, since the code leaves a claim behind after one
  (`AbandonedForGood`) and then nothing would settle it.
- `HostCommandQueue!FairSpec`: some worker serves (systemd, `Restart=always`) and crashes are
  finitely many; a caller's time runs out. A handler returns: the worker has no timeout
  for one, and with a handler that hangs neither property would hold.
- `CreditAccount!RetrySpec` (only in a configuration run by hand, section 7): a user who tries
  again and requests that are served. It is the most favourable assumption, used to show that
  even then `RetryRecovers` fails.
- `AgentRun!FairSpec`: threads run on, time passes (a lease is over some day), and the owner
  asks for a resume as long as one is offered; nothing in the code resumes a run by itself.
  Stages are not fair, a provider may answer forever, but the verdict after them comes.
- `ToolCalls!FairSpec`: a worker's thread runs on (every tool has a timeout), and the executor
  gets on when no call is under way, since the SDK bounds a route by `max_turns` and the routes
  are finitely many. Whether the
  model asks for another tool is up to the model: `TurnEnds` needs budget and circuit to stop it.

- `SelfHealing!FairSpec`: a scanner in the middle of a case proceeds (it is a daemon loop that
  catches every exception, and the provider's call has a timeout), and every case is picked up
  again: each pass looks at the recent candidates one after the other. Whether a scanner is idle
  comes and goes, hence strong fairness, of some scanner and not of each. `CasesDecided` is about
  behaviours without a fault: after a process that ends between claim and repair an incident
  stays REPAIR_CLAIMED, or CAG_VERIFYING, and no pass takes it up again.

Fairness is weak everywhere else: none of the code waits for a condition that comes and goes.

## 6 What is proved, and how

All theorems hold for any sets of threads, requests, stages, jobs, any amounts and any bounds
that meet the modules' named assumptions. Four say more in their statement: `RunningIsWorkedOn`
excludes what `job_liveness` excludes, `OneScannerKeepsItsWord` has one scanner, and `NeverRicher`
and `QueueWorkRunsOut` need finite sets to sum over, as the assumptions of `CreditAccount` and
`ToolCalls` give them. TLC had checked each inductive invariant, and each variant below, before.
The type invariant of every component is a theorem and is not repeated by the runs. So are
`OneWorker` (one thread works on a job), `NoReplay` (no turn after a counted change),
`LedgerMatches` (cache and ledger agree), `FundedCovered` (the bought part never exceeds the
balance), `RefundWithinReservation`, `CancelledNeverRuns` and `LeasedRunIsActive`.

- **RepositoryJob_proofs**. `ClaimHeld` alone is not inductive: that a thread with a claim
  is the one in the row depends on claim ids never being used again and on what each place
  of a thread says of its `local`. `ExecutionInv` adds these, and the relation of the row's
  form to the phase of the job. Nearly every action keeps the *shape* of the executor's state,
  which one lemma shows once; the proof has a step for each of the remaining ones. From it
  follow `OneWorker`, `SubmitOnce`, the action properties `NoReplay`,
  `NoTurnWithoutPermission` and `AbandonedForGood`, and the refinement of
  `ExclusiveExecution`. `PublishedWithEvidence` has an invariant of its own about what a
  request thread that passed the gate remembers.

  Two facts go to the cause of what the runs find. `OrphansHaveACause`: a running row under a
  claim loses its last worker by a death, a closeout that raises, a tool route or a recovery, and
  by nothing else. Without these (`Undisturbed`) `NoPerpetualRunning` is an invariant,
  `RunningIsWorkedOn`; with them TLC breaks it (section 7). `CancelStandsOnceBegun`: once the
  executor has marked its start, only a tool route or a recovery calls a cancelled row running
  again, and no turn starts till then; `job_cancel_overridden` happens before that mark.
- **CreditAccount_proofs**. `AccountInv` (types, `LedgerMatches`, `FundedCovered`) is
  inductive. `CreateInv` adds that one create request works on a job (the session lock), one
  holds the row, what a request that entered found, what it can afford, and that a charge made
  and a charge under way are covered by preparations; it gives `CreatedIsPaid`,
  `ChargePerPreparation` and `NoSettlementRace`. `BooksInv` adds to `BooksBalance` that
  the receipts are finitely many, that a stage not yet reserved has no row, and that one whose
  call is open has a reserved one; a step then changes one summand, or records one receipt, and
  `BooksStayBalanced` follows from what a sum does then.
- **ChatBilling_proofs**. `ChatInv` says for each request id, by the place of the handler that
  owns it, what has been booked and what the row says; a handler that owns nothing has
  booked nothing. The lemma `OneHandler` reduces a step to the id of the handler that takes
  it. The types, `RefundWithinReservation` and the four properties of `chat_safety` follow.
  Two theorems are about all requests together: every step books once for one request or not at
  all, hence `AccountIsReceipted` (the account is what was bought, granted and receipted), and
  `NeverRicher`: as long as the handler's own flaw has not struck (`unearned`, see
  `MCChatBilling_minted.cfg`), all refunds together stay within what was taken.
- **HostCommandQueue_proofs**. `QueueInv` relates the place of the one worker past its lock to
  the directories (`WorkInHand`), and says that queued and cancelled requests were never
  carried out and that every admitted request has a file or is over for some caller: its end is
  known, unknown for good, or went with a result nobody could read (`Over`). Steps of callers that
  touch no file and steps of the worker alone are shown harmless as classes. The refinement
  uses `FateMeans`: what the state says when the mapping gives a fate. `QueueWorkRunsOut` gives a
  variant: a request not yet submitted pays for its call and its way through the directories, a
  crash for the restart it makes necessary, a place of a caller or the worker for the steps that
  can follow. Every step makes it smaller, crashes and restarts included, because a request that
  was submitted once counts as submitted ever after and a rename never goes back.
- **AgentRun_proofs**. `RunInv` (types, `LeasedRunIsActive`, a lease in force is the row's) is
  inductive; `StepKinds` shows that every action writes the row in one of a few ways, so that
  each further property is proved on those. The refinement adds that the token of a result
  being recorded is spent, `ResultsWithinBudget` an argument about cardinalities, and
  `ClaimsWithinBudget` that the newest claim is counted, lost, or still being worked on.
- **ToolCalls_proofs**. `CallInv` says what a worker's locals tell of its call and its receipt,
  that no two workers have the same call, and that settled calls and receipts are one to one.
  `StepMoves` shows for each action that the rows only grow and the locals stay good, from which
  types and `SettledCallsAreReceipted` follow. `LedgerInv` is `LedgerFollowsWorkspace` while a
  call is under way: the diff about to be receipted is the workspace's, because nobody else
  is at work. `TaskInv` is `TaskTellsFailure` while calls are under way: a call that is not
  settled, no receipt since the route began, or a last one that is completed. The executor's
  writes keep it because only `BeginRoute` enters a running route. `CircuitInv` counts the calls that may still be counted as failures: each failure
  past the limit has used up one of them. `WorkRunsOut` gives a variant of the turn, to which the
  budget, the circuit, the routes, the phase of the route and each worker's place contribute. `ReplayNeedsACause` is the
  other side of `calls_replay`: a turn is replayed on a changed workspace only after two calls
  were under way at once or something failed. Its invariant `TouchInv` says that until then
  what a worker read of the workspace is current and a change is counted or in a worker's hand.
- **SelfHealing_proofs**. `TypeInv` (rows, locals, and that the worker at a claim looks at row 1)
  is inductive. The steps of a scanner fall into *quiet* ones, which take it to no place of a
  repair and move no row back (`QuietStep`), and eight others, of each of which `RepairSteps` says
  where it leads. On these the further invariants are proved one by one: `AskedInv` (calls and
  families nobody has claimed are at most the families), `GrantInv`, `ApprovalInv` (approvals used,
  in hand and open are at most those granted), `RepairInv` and `LimitInv`. The last two count
  workers at a place: a claim succeeds only on a row without a repair, and then every repair so far
  is with a worker that is about to record it or was lost with a fault; the same of the receipts
  when a worker is let through under the limit. With one scanner and no fault the bounds come down
  to what the scanner's docstring says, `OneScannerKeepsItsWord`: the second scanner is what
  `heal_duplicate` and `MCSelfHealing_budget.cfg` need.
- **FiniteSums** has the lemmas on the community modules' sums over a function that the four
  proofs of books and variants share: the sum of none, of one more, of equals, of
  numbers, monotonicity, and what a change of one summand does. Induction over the subsets of a
  finite set is done with a set of counterexamples and the well-foundedness of the strict
  subsets, since an induction theorem that takes a predicate cannot be instantiated.

Only model-checked: `RunSettles`, `QueueDrains`, `CallsReturn`, `RunComesToRest`, `TurnEnds` and
`CasesDecided`, being liveness under fairness, whose rules need ENABLED. For the queue and
the turn the variants prove what is not about fairness: no behaviour goes on for ever. That
the end it comes to is the right one, and not a step that is never taken, is what TLC adds.

## 7 Where the code and its documents disagree

Three are runs with a counterexample; `PROJECT.json` has the lines and the quotes.

- `job_cancel_overridden`: a cancellation between the submit claim and the executor's start
  is overwritten, and a model turn starts after it.
- `calls_replay`: two tool calls of one response end at once; the second receipt breaks the
  constraint on the sequence, its write counts as a failure without a mutation, and the turn is
  replayed on the changed workspace. The comment at the replay says that it never is.
- `heal_duplicate`: a scanner that read an incident as verified writes CAG_VERIFIED over the claim
  of another one, whose repair is being started, and claims it again: two repair jobs for one
  incident. The scanner's docstring says that the claims prevent duplicate effects.

The others were met on the way. Their properties are in the modules and their configurations
beside the listed ones, to be run by hand (`tlc -config MCX_name.cfg MCX.tla`); each ends in a
counterexample.

| Configuration | Property | What happens |
|---|---|---|
| `MCRepositoryJob_orphan.cfg` | `NoPerpetualRunning` | a tool route sets a blocked job that keeps its claim back to running; nobody holds the claim and no reconciler lists the job |
| `MCCreditAccount_retry.cfg` | `RetryRecovers` | with a bought balance the charge of a Draft PR breaks a constraint after GitHub has created it, and so does every retry |
| `MCChatBilling_minted.cfg` | `RefundOnlyReserved` | when the step-up approval raises, the chat handler gives back what it has not reserved |
| `MCChatBilling_reservable.cfg` | `PaidIsReservable` | on the schema as migrated a paid chat request cannot reserve |
| `MCHostCommandQueue_unknown.cfg` | `UnknownIsUnaccounted` | `submit` answers UNKNOWN about a request whose result is there |
| `MCAgentRun_cancel.cfg` | `CancelIsFinal` | a thread without a lease reports its result over the owner's cancel |
| `MCAgentRun_terminal.cfg` | `TerminalIsFinal` | the same over a completed or failed run |
| `MCAgentRun_approval.cfg` | `NewestApprovalDecides` | a decision about an earlier request ends the wait for a later one |
| `MCAgentRun_task.cfg` | `NoTaskLeftRunning` | a recovery task stays RUNNING when its lease expires and another claim takes the run |
| `MCAgentRun_failure.cfg` | `FailuresResolved` | a failure recorded late stays open on a completed run |
| `MCToolCalls_proof.cfg` | `TestedChangeIsProvable` | a test run by the agent never gives a qualifying receipt, because its path reports neither command nor framework; the proof pack stays blocked for every tested change |
| `MCSelfHealing_budget.cfg` | `WithinLimit` | two scanners read the limit before either has fed it: more repairs without an approval than the limit |
| `MCSelfHealing_calls.cfg` | `OneCallAtATime` | a scanner that looks while another one marks a case failed, family by family, finds one still DETECTED and asks again; the marking goes over its claim, its process ends, and the next scanner asks about a third family at the same time |
| `MCSelfHealing_stalled.cfg` | `StalledIsFiled` | a job that timed out never gets an incident: `_readback_available_for_timeout` calls `run_agent_job_tool`, which the module does not import, so the branch that recovers such jobs cannot run |
| `MCCreditAccount_refund.cfg` | `RefundedUnused` | a stage of several provider requests is refunded in full when a later one is rejected |
| `MCCreditAccount_stranded.cfg` | `NothingStranded` | a stage whose actual cost the account cannot pay stays reserved |
| `MCCreditAccount_charged.cfg` | `ChargedOnce` | preparing a job again after its Draft PR was created makes the next create request charge again |
| `MCChatBilling_usage.cfg` | `UsageNotRefunded` | an attempt that reported usage is refunded when recording it fails |
| `MCHostCommandQueue_found.cfg` | `FoundWhileThere` | `status` answers NOT_FOUND about a request that moves on while it looks |
| `MCHostCommandQueue_repeats.cfg` | `StatusRepeats` | the read-only `status` removes the result it reads |
| `MCHostCommandQueue_kept.cfg` | `ResultKept` | a restart overwrites a result that was written with an uncertain one |

Beside these, two statements one might expect are weaker than they look. A verdict need not
reach anybody: `_read_result` removes a result it cannot read, so `NoJobLost` asks only that the
caller is told so, and with `Settled` for `Over` it fails. And a task's status does not keep
a failure: the next route's start is written over it, so `TaskTellsFailure` is about one route.

## 8 What the models leave out

- *RepositoryJob*: wording of blockers and events, the linked Agents SDK run, the free mode's
  further routes (`Routes` counts attempts; paid mode is `Routes` 1), Agent Zero's
  asynchronous execution. Some file operations and the row update that follows are one step
  when nothing else reads the file; for bound jobs listing and reading again are merged, since
  only the second read is used. The branches for a failing swap in `Finalize` and `Restore`
  are left out: `ClaimHeld` shows that they are not reached. That evidence is about the latest
  edit is not modelled, as the code does not track it.
- *CreditAccount*: administrators, unlimited accounts and rescue jobs, whose charge is nil;
  the 32-bit width of the columns; the calculation of prices.
- *ChatBilling*: the ledger (CreditAccount keeps it); a commit whose outcome is unknown to the
  client; selection of providers, whose order is nondeterministic up to `MaxCalls`.
- *HostCommandQueue*: loss of power on the host (the code's `fsync`s), what an action does.
  Validity and size of a request are the choice between `Begin` and `Refuse`. Why a result cannot
  be read is left open: any attempt may fail. A caller that dies is one that takes no further step;
  unlinking a result and returning it are one step, so a caller that dies between the two is
  not covered. Requests are claimed in any order, which includes the code's order by id.
- *AgentRun*: evidence and event rows, what the agents say, routing, the billing of stages
  (`CreditAccount`), the run a repository job is linked to, which its executor writes by itself.
  The operator's routes in `controller_board` repeat the user's and are the same actions.
- *ToolCalls*: a retry of the job, which takes up the task's row with its count and the chain where
  they are; what the resume of a run writes to `agent_tasks` (`AgentRun`); the fleet's lanes and attempts, which share the tables; how a verdict and a gate
  are computed from data; the live-workspace projection after a call; tools the user runs on
  the workspace meanwhile (they are in `RepositoryJob`). A blocked result and an error are one
  result, their statuses and gates one status and one gate, since nothing here tells them apart.
- *SelfHealing*: which failures an observation shows (`detect_failures` is pure; here a constant),
  the contents of contract and receipts, the receipts that nothing reads, the readback branch of
  timed-out jobs, which never runs. The owner's mode ASK_FIRST, which the interface offers
  (`SelfHealingAuthorityCard.tsx`), permits nothing in `authority_allows` and is a grant that is
  off. A manual approval is given in one step, which does not check for another one in its own
  transaction's snapshot: the model allows any number up to `MaxApprovals`.
- The remaining components: see their notes in `PROJECT.json`.
