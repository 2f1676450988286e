--------------------------- MODULE RepositoryJob ----------------------------
(***************************************************************************)
(* One row of sovereign_agent_jobs that runs a repository mission, and the *)
(* server threads that compete for it (agent_runtime/repository_execution, *)
(* job_store, job_lifecycle, routes, tool_events and the recovery call of  *)
(* cag_self_healing_runtime).                                              *)
(*                                                                         *)
(* Every database call of the code commits on its own, so every call is an *)
(* action and a thread keeps its place between calls in pc.  Only the      *)
(* external_ref column is ever compared and swapped; the status column is  *)
(* overwritten by whoever writes last.  The blocker text, the event log    *)
(* and the linked agent run are left out: no decision modelled here reads  *)
(* them.                                                                   *)
(***************************************************************************)
EXTENDS Naturals, FiniteSets

CONSTANTS
  Reconcilers,   \* daemon threads that poll the table, one per server process
  Handlers,      \* request threads, and the self-healing daemon
  Requests,      \* the kinds of request that arrive
  Routes,        \* how many free model routes a submission may rotate through
  MaxRequests,   \* bound: requests that arrive after the start request
  MaxCrashes,    \* bound: thread deaths
  MaxClaims,     \* bound: claims issued
  CloseoutFaults \* may a closeout raise an unexpected exception?

RequestKinds ==
  {"cancel", "cleanup", "tool", "prepare", "create", "readback", "recover"}

ASSUME ThreadsAssumption == Reconcilers \cap Handlers = {}
ASSUME BoundsAssumption ==
  /\ Requests \subseteq RequestKinds
  /\ Routes \in Nat \ {0}
  /\ MaxRequests \in Nat
  /\ MaxCrashes \in Nat
  /\ MaxClaims \in Nat
  /\ CloseoutFaults \in BOOLEAN

Threads == Reconcilers \cup Handlers

VARIABLES
  \* The job row.
  status, ref, evidence, prState,
  \* What it refers to: the permission chain and the workspace directory.
  permission, workspace,
  \* Where each thread is, and its local variables.
  pc, local,
  \* Claims issued so far (uuid4), requests received, threads that died.
  issued, requests, crashes,
  \* History: submit claims won, whether a change by a model turn was ever
  \* counted, whether a cancellation was acknowledged, and whether the
  \* permission was already dead when the submit was claimed.
  submits, mutated, promised, refused

row == <<status, ref, evidence, prState>>
bounds == <<issued, requests, crashes>>
history == <<submits, mutated, promised, refused>>
vars == <<row, permission, workspace, pc, local, bounds, history>>

-----------------------------------------------------------------------------
Statuses == {"queued", "provisioning", "running", "validating",
             "blocked", "failed", "completed", "cleaned"}

Terminal == {"completed", "failed", "blocked", "cleaned"}

\* The evidence gate wants a change (files and diff) and a test summary.
Evidence == {"change", "test"}
GatePasses(found) == found = Evidence

\* The values of external_ref: NULL, sovereign-local-runner:pending-submit:..,
\* sovereign-local-runner:claim:submit:.. and :claim:closeout:.., and the
\* bound reference sovereign-local-runner:<job>.
RefKinds == {"none", "pending", "submit", "bound", "closeout"}
NoRef == [kind |-> "none", id |-> 0]
Pending == [kind |-> "pending", id |-> 0]
Bound == [kind |-> "bound", id |-> 0]
Claim(kind, id) == [kind |-> kind, id |-> id]
IsClaim(r) == r.kind \in {"submit", "closeout"}
IsExecutorRef(r) == r.kind # "none"

SubmitPCs == {"authority", "start", "admit", "model", "finalize"}
CloseoutPCs == {"inspect", "observe", "regress", "evidence", "mark", "restore"}
\* A thread at one of these has won a claim and not yet given it up.
OwnerPCs == SubmitPCs \cup CloseoutPCs \cup {"block"}
StartPCs == {"provision", "clone", "checked", "hunt", "hunt_block", "bind", "queue"}
RequestPCs == {"cancel_user", "cancel_executor", "cleanup_remove", "cleanup_write",
               "tool", "prepare", "publish", "stalled", "recover", "reconcile"}
PCs == {"idle", "submit_cas", "closeout_cas"} \cup OwnerPCs \cup StartPCs \cup RequestPCs

Fresh == [claim |-> NoRef, seen |-> {}, edited |-> FALSE, route |-> 1]

Init ==
  /\ status = "queued"
  /\ ref = NoRef
  /\ evidence = {}
  /\ prState = "none"
  /\ permission = "unbound"
  /\ workspace = "absent"
  /\ \E h \in Handlers : pc = [t \in Threads |-> IF t = h THEN "provision" ELSE "idle"]
  /\ local = [t \in Threads |-> Fresh]
  /\ issued = 0 /\ requests = 0 /\ crashes = 0
  /\ submits = 0 /\ mutated = FALSE /\ promised = FALSE /\ refused = FALSE

-----------------------------------------------------------------------------
(* Steps of a thread.                                                      *)

At(t, place) == pc[t] = place
Goto(t, place) == pc' = [pc EXCEPT ![t] = place]
Stay == UNCHANGED <<pc, local>>
Leave(t) ==
  /\ pc' = [pc EXCEPT ![t] = "idle"]
  /\ local' = [local EXCEPT ![t] = Fresh]

\* update_agent_job_state: the status is set whatever it was, and evidence is
\* only ever added to.
Write(s, found) ==
  /\ status' = s
  /\ evidence' = evidence \cup found
  /\ UNCHANGED <<ref, prState>>

\* mark_draft_pr_prepared: unconditional too.
MarkPrepared ==
  /\ status' = "validating"
  /\ prState' = "ready"
  /\ UNCHANGED <<ref, evidence>>

\* compare_and_swap_agent_job_external_ref, when it wins.
SwapRef(old, new) ==
  /\ ref = old
  /\ ref' = new
  /\ UNCHANGED <<status, evidence, prState>>

-----------------------------------------------------------------------------
(* start_repository_execution: provision, clone, hunt, bind and queue.     *)

Provision(h) ==
  /\ At(h, "provision")
  /\ \/ /\ workspace' = "clean"
        /\ Write("provisioning", {})
        /\ Goto(h, "clone")
        /\ UNCHANGED local
     \/ /\ Write("blocked", {})
        /\ Leave(h)
        /\ UNCHANGED workspace
  /\ UNCHANGED <<permission, bounds, history>>

CloneRepo(h) ==
  /\ At(h, "clone")
  /\ \/ /\ workspace # "absent"
        /\ Write("running", {})
        /\ Goto(h, "checked")
        /\ UNCHANGED local
     \/ /\ \E s \in {"blocked", "failed"} : Write(s, {})
        /\ Leave(h)
  /\ UNCHANGED <<permission, workspace, bounds, history>>

\* The row is read back; a job that is no longer running is returned as it is.
ReadBack(h) ==
  /\ At(h, "checked")
  /\ IF status = "running"
     THEN Goto(h, "hunt") /\ UNCHANGED local
     ELSE Leave(h)
  /\ UNCHANGED <<row, permission, workspace, bounds, history>>

CodeHunt(h) ==
  /\ At(h, "hunt")
  /\ \E next \in {"bind", "hunt_block"} : Goto(h, next)
  /\ UNCHANGED <<row, permission, workspace, local, bounds, history>>

CodeHuntBlocks(h) ==
  /\ At(h, "hunt_block")
  /\ Write("blocked", {})
  /\ Leave(h)
  /\ UNCHANGED <<permission, workspace, bounds, history>>

BindPermission(h) ==
  /\ At(h, "bind")
  /\ permission' = "live"
  /\ Goto(h, "queue")
  /\ UNCHANGED <<row, workspace, local, bounds, history>>

\* The row's status is not looked at again before the reference is queued.
QueuePending(h) ==
  /\ At(h, "queue")
  /\ SwapRef(NoRef, Pending)
  /\ Leave(h)
  /\ UNCHANGED <<permission, workspace, bounds, history>>

StartStep(h) ==
  \/ Provision(h) \/ CloneRepo(h) \/ ReadBack(h)
  \/ CodeHunt(h) \/ CodeHuntBlocks(h)
  \/ BindPermission(h) \/ QueuePending(h)

-----------------------------------------------------------------------------
(* _submit_pending_repository_job and _submit_after_claim.                 *)

\* list_reconcilable_repository_jobs: what it returns is used after the
\* listing connection is closed.
ListPending(r) ==
  /\ At(r, "idle")
  /\ status = "running"
  /\ ref = Pending
  /\ Goto(r, "submit_cas")
  /\ UNCHANGED <<row, permission, workspace, local, bounds, history>>

ClaimSubmit(r) ==
  /\ At(r, "submit_cas")
  /\ issued < MaxClaims
  /\ SwapRef(Pending, Claim("submit", issued + 1))
  /\ local' = [local EXCEPT ![r].claim = ref']
  /\ Goto(r, "authority")
  /\ issued' = issued + 1
  /\ submits' = submits + 1
  /\ refused' = (permission # "live")
  /\ UNCHANGED <<permission, workspace, requests, crashes, mutated, promised>>

\* The compare-and-swap finds another value: somebody else has the job.
ClaimLost(t) ==
  /\ \/ At(t, "submit_cas") /\ ref # Pending
     \/ At(t, "closeout_cas") /\ ref # Bound
  /\ Leave(t)
  /\ UNCHANGED <<row, permission, workspace, bounds, history>>

\* Mutant of CheckAuthority: only the workspace is looked at.
CheckWorkspaceOnly(r) ==
  /\ At(r, "authority")
  /\ Goto(r, IF workspace # "absent" THEN "start" ELSE "block")
  /\ UNCHANGED <<row, permission, workspace, local, bounds, history>>

CheckAuthority(r) ==
  /\ At(r, "authority")
  /\ IF permission = "live" /\ workspace # "absent"
     THEN Goto(r, "start")
     ELSE Goto(r, "block")
  /\ UNCHANGED <<row, permission, workspace, local, bounds, history>>

MarkStarted(r) ==
  /\ At(r, "start")
  /\ Write("running", {})
  /\ Goto(r, "admit")
  /\ UNCHANGED <<permission, workspace, local, bounds, history>>

\* The first heartbeat of an invocation wants a running row and this claim.
Admit(r) ==
  /\ At(r, "admit")
  /\ status = "running"
  /\ ref = local[r].claim
  /\ Goto(r, "model")
  /\ UNCHANGED <<row, permission, workspace, local, bounds, history>>

\* No run, no verified route, or no heartbeat: the submission is blocked.
AdmissionFails(r) ==
  /\ At(r, "admit")
  /\ Goto(r, "block")
  /\ UNCHANGED <<row, permission, workspace, local, bounds, history>>

\* A tool the model calls: it adds evidence and leaves the status alone.
AgentEdits(r) ==
  /\ At(r, "model")
  /\ workspace # "absent"
  /\ workspace' = "changed"
  /\ evidence' = evidence \cup {"change"}
  /\ local' = [local EXCEPT ![r].edited = TRUE]
  /\ mutated' = TRUE
  /\ UNCHANGED <<status, ref, prState, permission, pc, bounds, submits, promised, refused>>

\* The same, but the call raises after its effect, before or after it added its
\* evidence: it is counted as a failure and not as a change.
AgentEditsUncounted(r) ==
  /\ At(r, "model")
  /\ workspace # "absent"
  /\ workspace' = "changed"
  /\ \/ evidence' = evidence \cup {"change"}
     \/ UNCHANGED evidence
  /\ UNCHANGED <<status, ref, prState, permission, pc, local, bounds, history>>

AgentTests(r) ==
  /\ At(r, "model")
  /\ workspace # "absent"
  /\ evidence' = evidence \cup {"test"}
  /\ UNCHANGED <<status, ref, prState, permission, workspace, pc, local, bounds, history>>

\* A turn that completed after changing the workspace.
TurnCompletes(r) ==
  /\ At(r, "model")
  /\ local[r].edited
  /\ Goto(r, "finalize")
  /\ UNCHANGED <<row, permission, workspace, local, bounds, history>>

\* A turn without a repository effect, or a retryable failure before one, is
\* tried on the next route; the next invocation needs its own heartbeat.
RotateRoute(r) ==
  /\ At(r, "model")
  /\ ~local[r].edited
  /\ local[r].route < Routes
  /\ local' = [local EXCEPT ![r].route = @ + 1]
  /\ Goto(r, "admit")
  /\ UNCHANGED <<row, permission, workspace, bounds, history>>

\* Any other outcome: blocked by the model, billing, an error, no route left.
TurnFails(r) ==
  /\ At(r, "model")
  /\ Goto(r, "block")
  /\ UNCHANGED <<row, permission, workspace, local, bounds, history>>

\* The claim becomes the bound reference, or the run is blocked.
Finalize(r) ==
  /\ At(r, "finalize")
  /\ IF ref = local[r].claim
     THEN SwapRef(local[r].claim, Bound) /\ Leave(r)
     ELSE Goto(r, "block") /\ UNCHANGED <<row, local>>
  /\ UNCHANGED <<permission, workspace, bounds, history>>

\* Mutants of Block: the submission is queued again; the row keeps its status.
BlockAndRequeue(t) ==
  /\ At(t, "block")
  /\ status' = "blocked"
  /\ ref' = Pending
  /\ Leave(t)
  /\ UNCHANGED <<evidence, prState, permission, workspace, bounds, history>>

BlockSilently(t) ==
  /\ At(t, "block")
  /\ Leave(t)
  /\ UNCHANGED <<row, permission, workspace, bounds, history>>

\* _block_job: the reference keeps the claim.
Block(t) ==
  /\ At(t, "block")
  /\ Write("blocked", {})
  /\ Leave(t)
  /\ UNCHANGED <<permission, workspace, bounds, history>>

SubmitStep(r) ==
  \/ ClaimSubmit(r) \/ CheckAuthority(r) \/ MarkStarted(r)
  \/ Admit(r) \/ AdmissionFails(r)
  \/ TurnCompletes(r) \/ RotateRoute(r) \/ TurnFails(r)
  \/ Finalize(r)

AgentTool(r) == AgentEdits(r) \/ AgentEditsUncounted(r) \/ AgentTests(r)

-----------------------------------------------------------------------------
(* reconcile_repository_execution and _closeout_repository_job.            *)

\* Read by the reconciler, by a request for the job, and after a recovery.
ReadBound(t) ==
  /\ status = "running"
  /\ ref = Bound
  /\ Goto(t, "closeout_cas")
  /\ UNCHANGED <<row, permission, workspace, local, bounds, history>>

ListBound(r) == At(r, "idle") /\ ReadBound(r)

ClaimCloseout(t) ==
  /\ At(t, "closeout_cas")
  /\ issued < MaxClaims
  /\ SwapRef(Bound, Claim("closeout", issued + 1))
  /\ local' = [local EXCEPT ![t].claim = ref']
  /\ Goto(t, "inspect")
  /\ issued' = issued + 1
  /\ UNCHANGED <<permission, workspace, requests, crashes, history>>

\* git status, git diff, diff --check and the janitor, in that order.
Inspect(t) ==
  /\ At(t, "inspect")
  /\ \/ workspace = "changed" /\ Goto(t, "observe")
     \/ Goto(t, "block")
  /\ UNCHANGED <<row, permission, workspace, local, bounds, history>>

RecordObserved(t) ==
  /\ At(t, "observe")
  /\ Write("running", {"change"})
  /\ Goto(t, "regress")
  /\ UNCHANGED <<permission, workspace, local, bounds, history>>

Regress(t) ==
  /\ At(t, "regress")
  /\ \/ workspace # "absent" /\ Goto(t, "evidence")
     \/ Goto(t, "block")
  /\ UNCHANGED <<row, permission, workspace, local, bounds, history>>

RecordEvidence(t) ==
  /\ At(t, "evidence")
  /\ Write("running", Evidence)
  /\ Goto(t, "mark")
  /\ UNCHANGED <<permission, workspace, local, bounds, history>>

\* Mutant of PrepareCloseout: the status is left at running.
PrepareRunning(t) ==
  /\ At(t, "mark")
  /\ \/ /\ GatePasses(evidence)
        /\ prState' = "ready"
        /\ Goto(t, "restore")
        /\ UNCHANGED <<status, ref, evidence>>
     \/ Goto(t, "block") /\ UNCHANGED row
  /\ UNCHANGED <<permission, workspace, local, bounds, history>>

\* prepare_draft_pr on the row read back, then mark_draft_pr_prepared.
PrepareCloseout(t) ==
  /\ At(t, "mark")
  /\ \/ GatePasses(evidence) /\ MarkPrepared /\ Goto(t, "restore")
     \/ Goto(t, "block") /\ UNCHANGED row
  /\ UNCHANGED <<permission, workspace, local, bounds, history>>

Restore(t) ==
  /\ At(t, "restore")
  /\ IF ref = local[t].claim
     THEN SwapRef(local[t].claim, Bound) /\ Leave(t)
     ELSE Goto(t, "block") /\ UNCHANGED <<row, local>>
  /\ UNCHANGED <<permission, workspace, bounds, history>>

\* Nothing in the closeout catches an exception of its own calls: the caller
\* logs it or answers 500, and the row keeps the claim.
CloseoutRaises(t) ==
  /\ CloseoutFaults
  /\ pc[t] \in CloseoutPCs
  /\ Leave(t)
  /\ UNCHANGED <<row, permission, workspace, bounds, history>>

CloseoutStep(t) ==
  \/ ClaimCloseout(t) \/ Inspect(t) \/ RecordObserved(t) \/ Regress(t)
  \/ RecordEvidence(t) \/ PrepareCloseout(t) \/ Restore(t)

-----------------------------------------------------------------------------
(* Requests for the job.  Each reads the row first and writes it later.    *)

Receive(h, kind) ==
  /\ At(h, "idle")
  /\ kind \in Requests
  /\ requests < MaxRequests
  /\ requests' = requests + 1
  /\ UNCHANGED <<row, permission, workspace, issued, crashes, history>>

\* The cancel route, and cancel_repository_execution for a job with a reference.
ReceiveCancel(h) ==
  /\ Receive(h, "cancel")
  /\ status \notin Terminal
  /\ Goto(h, IF IsExecutorRef(ref) THEN "cancel_executor" ELSE "cancel_user")
  /\ UNCHANGED local

\* Mutant of Cancel: the reference is taken away from its owner.
CancelAndUnbind(h) ==
  /\ pc[h] \in {"cancel_user", "cancel_executor"}
  /\ status' = "blocked"
  /\ ref' = NoRef
  /\ promised' = (promised \/ At(h, "cancel_executor"))
  /\ Leave(h)
  /\ UNCHANGED <<evidence, prState, permission, workspace, bounds, submits, mutated, refused>>

Cancel(h) ==
  /\ pc[h] \in {"cancel_user", "cancel_executor"}
  /\ Write("blocked", {})
  /\ promised' = (promised \/ At(h, "cancel_executor"))
  /\ Leave(h)
  /\ UNCHANGED <<permission, workspace, bounds, submits, mutated, refused>>

ReceiveCleanup(h) ==
  /\ Receive(h, "cleanup")
  /\ status \in Terminal
  /\ Goto(h, "cleanup_remove")
  /\ UNCHANGED local

RemoveWorkspace(h) ==
  /\ At(h, "cleanup_remove")
  /\ \/ workspace' = "absent" /\ Goto(h, "cleanup_write") /\ UNCHANGED local
     \/ UNCHANGED workspace /\ Leave(h)
  /\ UNCHANGED <<row, permission, bounds, history>>

MarkCleaned(h) ==
  /\ At(h, "cleanup_write")
  /\ Write("cleaned", {})
  /\ Leave(h)
  /\ UNCHANGED <<permission, workspace, bounds, history>>

\* A tool route merges what the tool found into the evidence it read before
\* the tool ran; a janitor fix is not merged.
ReceiveTool(h) ==
  /\ Receive(h, "tool")
  /\ Goto(h, "tool")
  /\ local' = [local EXCEPT ![h].seen = evidence]

\* append_tool_result_to_job without preserve_job_state: the gate's verdict
\* on this result becomes the job's status.
RecordTool(h, found, merged) ==
  /\ At(h, "tool")
  /\ workspace # "absent"
  /\ workspace' = IF "change" \in found THEN "changed" ELSE workspace
  /\ LET shown == IF merged THEN local[h].seen \cup found ELSE found
     IN  Write(IF GatePasses(shown) THEN "validating" ELSE "running", shown)
  /\ Leave(h)
  /\ UNCHANGED <<permission, bounds, history>>

RecordFailedTool(h) ==
  /\ At(h, "tool")
  /\ Write("blocked", {})
  /\ Leave(h)
  /\ UNCHANGED <<permission, workspace, bounds, history>>

ToolResult(h) ==
  \/ \E merged \in BOOLEAN : RecordTool(h, {}, merged) \/ RecordTool(h, {"change"}, merged)
  \/ RecordTool(h, {"test"}, TRUE)
  \/ RecordFailedTool(h)

\* Mutant of ReceivePrepare: the gate is not asked.
PrepareUngated(h) ==
  /\ Receive(h, "prepare")
  /\ Goto(h, "prepare")
  /\ UNCHANGED local

\* The prepare route reviews the diff between reading the row and marking it.
ReceivePrepare(h) ==
  /\ Receive(h, "prepare")
  /\ GatePasses(evidence)
  /\ Goto(h, "prepare")
  /\ UNCHANGED local

Prepare(h) ==
  /\ At(h, "prepare")
  /\ MarkPrepared
  /\ Leave(h)
  /\ UNCHANGED <<permission, workspace, bounds, history>>

\* The create route holds an advisory lock from its read to its commit.
ReceiveCreate(h) ==
  /\ Receive(h, "create")
  /\ \A other \in Handlers : ~At(other, "publish")
  /\ prState = "ready"
  /\ GatePasses(evidence)
  /\ workspace # "absent"
  /\ Goto(h, "publish")
  /\ UNCHANGED local

Publish(h) ==
  /\ At(h, "publish")
  /\ \/ /\ status' = "completed"
        /\ prState' = "created"
        /\ UNCHANGED <<ref, evidence>>
     \/ UNCHANGED row
  /\ Leave(h)
  /\ UNCHANGED <<permission, workspace, bounds, history>>

\* Reading a job reconciles it.
ReceiveReadback(h) ==
  /\ "readback" \in Requests
  /\ requests < MaxRequests
  /\ requests' = requests + 1
  /\ At(h, "idle")
  /\ status = "running"
  /\ ref = Bound
  /\ Goto(h, "closeout_cas")
  /\ UNCHANGED <<row, permission, workspace, local, issued, crashes, history>>

\* Self-healing sees a running job that shows no progress...
ObserveStall(h) ==
  /\ Receive(h, "recover")
  /\ status = "running"
  /\ IsExecutorRef(ref)
  /\ Goto(h, "stalled")
  /\ UNCHANGED local

\* ...and recovers it when, read again, it is blocked with a changed workspace.
ReadStalled(h) ==
  /\ At(h, "stalled")
  /\ IF status = "blocked" /\ IsExecutorRef(ref) /\ workspace = "changed"
     THEN Goto(h, "recover") /\ UNCHANGED local
     ELSE Leave(h)
  /\ UNCHANGED <<row, permission, workspace, bounds, history>>

\* Mutant of Recover: the stalled claim is handed back for a closeout.
RecoverAndRebind(h) ==
  /\ At(h, "recover")
  /\ status' = "running"
  /\ ref' = Bound
  /\ Goto(h, "reconcile")
  /\ UNCHANGED <<evidence, prState, permission, workspace, local, bounds, history>>

Recover(h) ==
  /\ At(h, "recover")
  /\ Write("running", {})
  /\ Goto(h, "reconcile")
  /\ UNCHANGED <<permission, workspace, local, bounds, history>>

Reconcile(h) ==
  /\ At(h, "reconcile")
  /\ \/ ReadBound(h)
     \/ /\ ~(status = "running" /\ ref = Bound)
        /\ Leave(h)
        /\ UNCHANGED <<row, permission, workspace, bounds, history>>

ReceiveRequest(h) ==
  \/ ReceiveCancel(h) \/ ReceiveCleanup(h) \/ ReceiveTool(h)
  \/ ReceivePrepare(h) \/ ReceiveCreate(h) \/ ReceiveReadback(h)
  \/ ObserveStall(h)

RequestStep(h) ==
  \/ Cancel(h) \/ RemoveWorkspace(h) \/ MarkCleaned(h) \/ ToolResult(h)
  \/ Prepare(h) \/ Publish(h)
  \/ ReadStalled(h) \/ Recover(h) \/ Reconcile(h)

-----------------------------------------------------------------------------
(* The environment.                                                        *)

\* The permission's validity ends, or a revocation receipt is appended.
PermissionEnds ==
  /\ permission = "live"
  /\ permission' = "dead"
  /\ UNCHANGED <<row, workspace, pc, local, bounds, history>>

\* The process dies; the row and the directory stay as they are.
Crash(t) ==
  /\ crashes < MaxCrashes
  /\ ~At(t, "idle")
  /\ Leave(t)
  /\ crashes' = crashes + 1
  /\ UNCHANGED <<row, permission, workspace, issued, requests, history>>

-----------------------------------------------------------------------------
Next ==
  \/ \E r \in Reconcilers :
       ListPending(r) \/ ListBound(r) \/ SubmitStep(r) \/ AgentTool(r)
  \/ \E h \in Handlers : StartStep(h) \/ ReceiveRequest(h) \/ RequestStep(h)
  \/ \E t \in Threads :
       ClaimLost(t) \/ CloseoutStep(t) \/ CloseoutRaises(t) \/ Block(t) \/ Crash(t)
  \/ PermissionEnds

Spec == Init /\ [][Next]_vars

\* A daemon keeps polling, a thread that has begun keeps going and a model
\* call returns; what the model does meanwhile, who asks for what and what
\* ends a permission is nobody's obligation.
Poll(r) == ListPending(r) \/ ListBound(r)
Proceed(t) ==
  \/ ClaimLost(t) \/ CloseoutStep(t) \/ Block(t)
  \/ t \in Reconcilers /\ SubmitStep(t)
  \/ t \in Handlers /\ (StartStep(t) \/ RequestStep(t))

FairSpec ==
  /\ Spec
  /\ \A r \in Reconcilers : WF_vars(Poll(r))
  /\ \A t \in Threads : WF_vars(Proceed(t))

-----------------------------------------------------------------------------
(* Properties.                                                             *)

\* The job row, the threads and the rest have their types.
RowOK ==
  /\ status \in Statuses
  /\ ref \in [kind : RefKinds, id : Nat]
  /\ evidence \in SUBSET Evidence
  /\ prState \in {"none", "ready", "created"}

Locals == [claim : [kind : RefKinds, id : Nat], seen : SUBSET Evidence,
           edited : BOOLEAN, route : 1..Routes]

ThreadsOK ==
  /\ pc \in [Threads -> PCs]
  /\ local \in [Threads -> Locals]

TypeOK ==
  /\ RowOK
  /\ ThreadsOK
  /\ permission \in {"unbound", "live", "dead"}
  /\ workspace \in {"absent", "clean", "changed"}
  /\ issued \in Nat /\ requests \in Nat /\ crashes \in Nat
  /\ submits \in Nat
  /\ mutated \in BOOLEAN /\ promised \in BOOLEAN /\ refused \in BOOLEAN

Working == {t \in Threads : pc[t] \in OwnerPCs}

\* While a thread works under a claim the row carries that claim and no
\* other: neither a cancellation, a tool route, a recovery nor another
\* reconciler takes the job away, so the branches for a binding that cannot
\* be finalized or restored are never taken.
ClaimHeld == \A t \in Working : IsClaim(ref) /\ ref = local[t].claim

\* Two threads never execute or close out the same job at the same time.
OneWorker == \A t, u \in Working : t = u

\* However reconcilers, crashes, cancellations, tool routes and recoveries
\* interleave, the job is claimed for submission at most once.
SubmitOnce == submits <= 1

\* A job is ready for, or has, a Draft PR only with the evidence the gate
\* asks for, and completed is said of no job without a created Draft PR.
PublishedWithEvidence ==
  /\ prState # "none" => GatePasses(evidence)
  /\ status = "completed" => prState = "created"

TurnStarts == \E r \in Reconcilers : pc[r] = "admit" /\ pc'[r] = "model"

\* No model turn starts once the toolset has counted a change of the workspace
\* ("exactly-once effects outrank failover").  What it fails to count is in
\* ToolCalls.
NoReplay == [][TurnStarts => ~mutated]_vars

\* No model turn starts for a job whose permission was dead when its
\* submission was claimed.
NoTurnWithoutPermission == [][TurnStarts => ~refused]_vars

\* A claim whose thread is gone is never replaced by anybody.
AbandonedForGood == [][IsClaim(ref) /\ Working = {} => ref' = ref]_vars

\* A row that says running under a claim has a thread working on it.
NoPerpetualRunning == status = "running" /\ IsClaim(ref) => Working # {}

\* "Cancelled by owner; Sovereign-local-runner will perform no further work."
NoTurnAfterCancel == [][TurnStarts => ~promised]_vars

\* A queued or bound job does not say running for ever.
RunSettles == (status = "running" /\ IsExecutorRef(ref)) ~> (status # "running")

\* The reference implements the exclusive-execution promise.
PhaseOf(r) ==
  CASE r.kind = "none" -> "new"
    [] r.kind = "pending" -> "queued"
    [] r.kind = "submit" -> "executing"
    [] r.kind = "bound" -> "executed"
    [] r.kind = "closeout" -> "closing"

Exclusive == INSTANCE ExclusiveExecution WITH
  Threads <- Threads, phase <- PhaseOf(ref), working <- Working

ImplementsExclusive == Exclusive!Spec

=============================================================================
