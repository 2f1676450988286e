------------------------------ MODULE ToolCalls -------------------------------
(***************************************************************************)
(* The tool calls of one single-agent repository run: the toolset the      *)
(* model is given (cognitive_repository_tools.BoundRepositoryToolset), the *)
(* rows each call writes (start_ and finish_agent_tool_call of             *)
(* cognitive_run_store), the chain of receipts (agent_run_receipts), and   *)
(* the executor that may replay the turn on the next free route, telling   *)
(* the task's row what the agent is at (_submit_after_claim).              *)
(*                                                                         *)
(* The Agents SDK runs the tool calls of one model response side by side,  *)
(* each in a thread: the Workers.  Contents stands for the digests of the  *)
(* workspace's diff.  A step named Fault(..) takes one of MaxFaults.       *)
(***************************************************************************)
EXTENDS Naturals, Sequences, FiniteSets

CONSTANTS
  Workers,       \* threads that run tool calls
  Contents,      \* what the workspace may hold
  Clean,         \* the checked out revision, with no change
  MaxCalls,      \* max_tool_calls of the task
  FailureLimit,  \* consecutive failures that open the circuit
  Routes,        \* free routes the turn may be tried on
  Earlier,       \* what earlier runs may have left in the job row
  MaxFaults      \* bound: database and git failures, effects of a failed tool

Evidence == {"changed", "diff", "tests"}

ASSUME DataAssumption == Clean \in Contents /\ Earlier \subseteq SUBSET Evidence
ASSUME WorkersAssumption == IsFiniteSet(Workers)
ASSUME LimitAssumption ==
  MaxCalls \in Nat /\ FailureLimit \in Nat \ {0} /\ Routes \in Nat \ {0} /\ MaxFaults \in Nat

VARIABLES
  content,   \* the workspace
  evidence,  \* what the job row has of changed files, diff and test summary
  task,      \* the agent_tasks row
  calls,     \* agent_tool_calls, numbered as they are started
  receipts,  \* agent_run_receipts, as they are inserted
  exec,      \* locals of the workers
  breaker,   \* the toolset's failures in a row, and whether the circuit is open
  counted,   \* the toolset has counted a mutation
  turn,      \* the route the turn runs on, how far it is there, and (history)
             \* the number of receipts when it began
  overlap,   \* history: two calls were under way at once
  touched,   \* history: a write changed the workspace
  faults

vars == <<content, evidence, task, calls, receipts, exec, breaker, counted, turn,
          overlap, touched, faults>>

Tools == {"look", "write", "test"}

\* "failed" is the result blocked or error, FAILED the status BLOCKED or
\* FAILED_RECOVERABLE, FAIL the gate BLOCKED or FAIL: nothing here depends on which.
Results == {"done", "failed"}
CallStatuses == {"RUNNING", "COMPLETED", "FAILED"}
TaskStatuses == CallStatuses \cup {"VERIFYING"}
Phases == {"starting", "running", "completed", "over"}
Gates == {"PASS", "FAIL"}

Places == {"idle", "opened", "tool", "save", "readback", "finish", "append", "count", "raised"}

\* Locals start over where the code has no more use for them.
Idle == [place |-> "idle", tool |-> "look", call |-> 0, found |-> {}, before |-> Clean,
         result |-> "done", gate |-> "FAIL", mutation |-> FALSE, diff |-> Clean,
         last |-> 0, failing |-> FALSE]

\* _ensure_local_single_agent_run has made the task's row and written RUNNING to it.
Init ==
  /\ content = Clean
  /\ evidence \in Earlier
  /\ task = [count |-> 0, status |-> "RUNNING"]
  /\ calls = <<>> /\ receipts = <<>>
  /\ exec = [w \in Workers |-> Idle]
  /\ breaker = [failures |-> 0, open |-> FALSE]
  /\ counted = FALSE
  /\ turn = [route |-> 1, at |-> "starting", since |-> 0]
  /\ overlap = FALSE /\ touched = FALSE /\ faults = 0

-----------------------------------------------------------------------------
At(w, place) == exec[w].place = place
Become(w, locals) == exec' = [exec EXCEPT ![w] = locals]
Go(w, place) == exec' = [exec EXCEPT ![w].place = place]
Fault == faults < MaxFaults /\ faults' = faults + 1
NoFault == UNCHANGED faults

\* An exception: into the except clause of _execute; inside of it, swallowed.
Raise(w) ==
  Become(w, IF exec[w].failing THEN Idle
            ELSE [Idle EXCEPT !.place = "raised", !.call = exec[w].call])

\* Mutant of Recorded: the circuit opens one failure late.
RecordedLate(failed) ==
  IF failed THEN [failures |-> breaker.failures + 1,
                  open |-> breaker.open \/ breaker.failures >= FailureLimit]
  ELSE [breaker EXCEPT !.failures = 0]

\* Mutant of Recorded: nothing is counted.
NotRecorded(failed) == breaker

\* _record_call
Recorded(failed) ==
  IF failed THEN [failures |-> breaker.failures + 1,
                  open |-> breaker.open \/ breaker.failures + 1 >= FailureLimit]
  ELSE [breaker EXCEPT !.failures = 0]

-----------------------------------------------------------------------------
(* A call.                                                                 *)

\* _execute up to start_agent_tool_call: the circuit, the job's evidence and the
\* identity of the workspace before the call.
Open(w, tool) ==
  /\ At(w, "idle") /\ turn.at = "running" /\ ~breaker.open
  /\ Become(w, [Idle EXCEPT !.place = "opened", !.tool = tool, !.found = evidence,
                            !.before = content])
  /\ overlap' = (overlap \/ \E v \in Workers \ {w} : ~At(v, "idle"))
  /\ UNCHANGED <<content, evidence, task, calls, receipts, breaker, counted, turn,
                 touched, faults>>

WithinBudget == task.count < MaxCalls

\* The two rows of start_agent_tool_call.
CallStarted(tool) ==
  /\ WithinBudget
  /\ task' = [count |-> task.count + 1, status |-> "RUNNING"]
  /\ calls' = Append(calls, [tool |-> tool, status |-> "RUNNING"])

\* start_agent_tool_call, with what fails before it; a commit may be lost on its
\* way back, and then nobody knows the call.
Start(w) ==
  /\ At(w, "opened")
  /\ \/ /\ CallStarted(exec[w].tool) /\ NoFault
        /\ Become(w, [exec[w] EXCEPT !.place = "tool", !.call = Len(calls) + 1])
     \/ CallStarted(exec[w].tool) /\ Fault /\ Raise(w)
     \/ /\ (~WithinBudget /\ NoFault) \/ Fault
        /\ Raise(w)
        /\ UNCHANGED <<task, calls>>
  /\ UNCHANGED <<content, evidence, receipts, breaker, counted, turn, overlap, touched>>

\* What a tool that ended with this result adds to the evidence.  The output of a
\* test is its summary whatever the result, also when no command was run.
Finds(tool, result) ==
  CASE tool = "look" -> IF result = "done" /\ content # Clean
                        THEN {{}, {"changed"}, {"diff"}} ELSE {{}}
    [] tool = "write" -> IF result = "done"
                         THEN {{"changed"}, {"changed", "diff"}} ELSE {{}}
    [] OTHER -> {{}, {"tests"}}

\* run_agent_job_tool.  A test run may leave files behind, and so may, as a fault,
\* a write that is then reported as blocked or as an error.
RunTool(w) ==
  LET tool == exec[w].tool
  IN /\ At(w, "tool")
     /\ \E result \in Results, new \in Contents :
          /\ \/ /\ NoFault
                /\ new = content \/ tool = "test" \/ (tool = "write" /\ result = "done")
             \/ Fault /\ tool = "write" /\ result # "done"
          /\ content' = new
          /\ touched' = (touched \/ (tool = "write" /\ new # content))
          /\ \E found \in Finds(tool, result) :
               Become(w, [exec[w] EXCEPT !.place = "save", !.result = result,
                                         !.found = @ \cup found])
  /\ UNCHANGED <<evidence, task, calls, receipts, breaker, counted, turn, overlap>>

\* evaluate_agent_evidence for a tool that is done; one that is not never passes.
GateResult(result, merged) ==
  IF result = "done" /\ merged = Evidence THEN "PASS" ELSE "FAIL"

\* append_tool_result_to_job of what _merge_job_evidence made of the job's evidence
\* and the tool's.  A statement that fails leaves the connection in an aborted
\* transaction: the except clause cannot finish the call, it is forgotten.
Save(w) ==
  /\ At(w, "save")
  /\ \/ /\ evidence' = evidence \cup exec[w].found /\ NoFault
        /\ Become(w, [exec[w] EXCEPT !.place = "readback", !.found = {},
                                     !.gate = GateResult(exec[w].result, exec[w].found)])
     \/ /\ evidence' \in {evidence, evidence \cup exec[w].found} /\ Fault
        /\ Become(w, [Idle EXCEPT !.place = "raised"])
  /\ UNCHANGED <<content, task, calls, receipts, breaker, counted, turn, overlap, touched>>

\* Mutant of Identity: the one read before the tool is used again.
IdentityBefore(w) == exec[w].before

\* read_git_workspace_identity
Identity(w) == content

\* The identity after the tool, and mutation_performed.
ReadBack(w) ==
  /\ At(w, "readback")
  /\ \/ /\ NoFault
        /\ Become(w, [exec[w] EXCEPT
                        !.place = "finish", !.diff = Identity(w), !.before = Clean,
                        !.mutation = /\ exec[w].tool = "write"
                                     /\ exec[w].result = "done"
                                     /\ exec[w].before # Identity(w)])
     \/ Fault /\ Raise(w)
  /\ UNCHANGED <<content, evidence, task, calls, receipts, breaker, counted, turn,
                 overlap, touched>>

-----------------------------------------------------------------------------
(* finish_agent_tool_call                                                  *)

\* Mutant of StillRunning: a finished call may be finished again.
AnyCall(call) == call \in DOMAIN calls

StillRunning(call) == calls[call].status = "RUNNING"

\* The call must be RUNNING; the last receipt gives sequence and predecessor.  Its
\* lock makes the others wait, but hands them the same receipt afterwards.
Look(w) ==
  /\ At(w, "finish")
  /\ IF StillRunning(exec[w].call)
     THEN Become(w, [exec[w] EXCEPT !.place = "append", !.last = Len(receipts)])
     ELSE Raise(w)
  /\ UNCHANGED <<content, evidence, task, calls, receipts, breaker, counted, turn,
                 overlap, touched, faults>>

Verdict(w) == IF exec[w].result = "done" THEN "COMPLETED" ELSE "FAILED"

\* _qualified_test_execution_kind asks for the framework or for the command.  The
\* agent's tests all take _run_custom_command, which names neither: its metadata
\* has no command, and "custom" for the framework.
QualifyingFrameworks == {"pytest", "jest", "vitest", "go_test", "cargo_test", "npm"}
ReportedFramework == "custom"

TestKind(tool) ==
  CASE tool # "test" -> "none"
    [] tool = "test" /\ ReportedFramework \in QualifyingFrameworks -> "qualifying"
    [] OTHER -> "nonqualifying"

\* Mutant of Free: no unique constraint on the sequence.
FreeAnyway(last) == last <= Len(receipts)

\* UNIQUE (agent_run_id, sequence): nobody inserted since the last receipt was read.
Free(last) == last = Len(receipts)

\* Mutant of WithVerdict: the task is not told.
WithoutVerdict(status) == task

WithVerdict(status) == IF status = "COMPLETED" THEN task ELSE [task EXCEPT !.status = status]

\* Mutant of Inserted: ON CONFLICT DO NOTHING.
InsertedOrNot(w) ==
  /\ receipts' = IF Free(exec[w].last)
       THEN Append(receipts,
         [sequence |-> exec[w].last, previous |-> exec[w].last, call |-> exec[w].call,
          kind |-> TestKind(calls[exec[w].call].tool), gate |-> exec[w].gate,
          mutation |-> exec[w].mutation, diff |-> exec[w].diff])
       ELSE receipts
  /\ calls' = [calls EXCEPT ![exec[w].call].status = Verdict(w)]
  /\ task' = WithVerdict(Verdict(w))

\* The transaction that inserts the receipt and settles the call and the task.
Inserted(w) ==
  /\ Free(exec[w].last)
  /\ receipts' = Append(receipts,
       [sequence |-> exec[w].last, previous |-> exec[w].last, call |-> exec[w].call,
        kind |-> TestKind(calls[exec[w].call].tool), gate |-> exec[w].gate,
        mutation |-> exec[w].mutation, diff |-> exec[w].diff])
  /\ calls' = [calls EXCEPT ![exec[w].call].status = Verdict(w)]
  /\ task' = WithVerdict(Verdict(w))

\* Either of the two outcomes of the commit may reach the caller as an exception.
Insert(w) ==
  /\ At(w, "append")
  /\ \/ /\ Inserted(w) /\ NoFault
        /\ Become(w, IF exec[w].failing THEN Idle
                     ELSE [Idle EXCEPT !.place = "count", !.result = exec[w].result,
                                       !.mutation = exec[w].mutation])
     \/ Inserted(w) /\ Fault /\ Raise(w)
     \/ /\ (~Free(exec[w].last) /\ NoFault) \/ Fault
        /\ Raise(w)
        /\ UNCHANGED <<receipts, calls, task>>
  /\ UNCHANGED <<content, evidence, breaker, counted, turn, overlap, touched>>

\* Mutant of Mutated: whatever is done counts.
Finished(w) == exec[w].result = "done"

Mutated(w) == exec[w].mutation

\* _record_call after the receipt is committed.
Count(w) ==
  /\ At(w, "count")
  /\ breaker' = Recorded(exec[w].result # "done")
  /\ counted' = (counted \/ Mutated(w))
  /\ Become(w, Idle)
  /\ UNCHANGED <<content, evidence, task, calls, receipts, turn, overlap, touched, faults>>

\* The except clause: a failure without a mutation is counted, and the call is
\* finished as failed if the workspace and the connection can still be used.
HandleFailure(w) ==
  /\ At(w, "raised")
  /\ breaker' = Recorded(TRUE)
  /\ \/ /\ exec[w].call # 0 /\ NoFault
        /\ Become(w, [exec[w] EXCEPT !.place = "finish", !.result = "failed",
                                     !.diff = content, !.failing = TRUE])
     \/ /\ (exec[w].call = 0 /\ NoFault) \/ Fault
        /\ Become(w, Idle)
  /\ UNCHANGED <<content, evidence, task, calls, receipts, counted, turn, overlap, touched>>

-----------------------------------------------------------------------------
(* The executor's loop.                                                    *)

AllIdle == \A w \in Workers : At(w, "idle")
TaskReads(status) == task' = [task EXCEPT !.status = status]

\* agent_started: before the model is asked, the stage observer writes RUNNING,
\* over what a call of the route before has left there.
BeginRoute ==
  /\ turn.at = "starting"
  /\ turn' = [turn EXCEPT !.at = "running", !.since = Len(receipts)]
  /\ TaskReads("RUNNING")
  /\ UNCHANGED <<content, evidence, calls, receipts, exec, breaker, counted,
                 overlap, touched, faults>>

\* agent_completed: the model has given its answer, whatever its calls came to.
Complete ==
  /\ turn.at = "running" /\ AllIdle
  /\ turn' = [turn EXCEPT !.at = "completed"]
  /\ TaskReads("COMPLETED")
  /\ UNCHANGED <<content, evidence, calls, receipts, exec, breaker, counted,
                 overlap, touched, faults>>

\* Completed without a counted mutation, or a retryable failure before one.
Replay ==
  /\ turn.at \in {"running", "completed"} /\ AllIdle
  /\ ~counted /\ turn.route < Routes
  /\ turn' = [turn EXCEPT !.route = @ + 1, !.at = "starting"]
  /\ UNCHANGED <<content, evidence, task, calls, receipts, exec, breaker, counted,
                 overlap, touched, faults>>

\* Completed with one: the run is VERIFYING, unless the claim was lost meanwhile.
Verify ==
  /\ turn.at = "completed" /\ counted
  /\ turn' = [turn EXCEPT !.at = "over"]
  /\ \E status \in {"VERIFYING", "FAILED"} : TaskReads(status)
  /\ UNCHANGED <<content, evidence, calls, receipts, exec, breaker, counted,
                 overlap, touched, faults>>

\* Any other end, an exception of the stage observer among them: _block_job, which
\* writes BLOCKED unless the run has ended already or the write fails.
Close ==
  /\ turn.at # "over" /\ AllIdle
  /\ IF turn.at = "completed" /\ counted THEN Fault ELSE NoFault
  /\ turn' = [turn EXCEPT !.at = "over"]
  /\ \E status \in {task.status, "FAILED"} : TaskReads(status)
  /\ UNCHANGED <<content, evidence, calls, receipts, exec, breaker, counted,
                 overlap, touched>>

Executor == BeginRoute \/ Complete \/ Replay \/ Verify \/ Close

Step(w) ==
  \/ Start(w) \/ RunTool(w) \/ Save(w) \/ ReadBack(w) \/ Look(w) \/ Insert(w)
  \/ Count(w) \/ HandleFailure(w)

Next ==
  \/ \E w \in Workers : Step(w) \/ \E tool \in Tools : Open(w, tool)
  \/ Executor

Spec == Init /\ [][Next]_vars

\* A thread runs on, and the turn has an end: the SDK bounds it by max_turns.
FairSpec == Spec /\ (\A w \in Workers : WF_vars(Step(w))) /\ WF_vars(Executor)

-----------------------------------------------------------------------------
(* Properties                                                              *)

CallRow == [tool : Tools, status : CallStatuses]
Receipt == [sequence : Nat, previous : Nat, call : Nat, gate : Gates, mutation : BOOLEAN,
            kind : {"none", "qualifying", "nonqualifying"}, diff : Contents]
Locals == [place : Places, tool : Tools, call : Nat, found : SUBSET Evidence,
           before : Contents, result : Results, gate : Gates, mutation : BOOLEAN,
           diff : Contents, last : Nat, failing : BOOLEAN]

TypeOK ==
  /\ content \in Contents /\ evidence \subseteq Evidence
  /\ task \in [count : 0..MaxCalls, status : TaskStatuses]
  /\ calls \in Seq(CallRow) /\ receipts \in Seq(Receipt)
  /\ exec \in [Workers -> Locals]
  /\ breaker \in [failures : Nat, open : BOOLEAN]
  /\ turn \in [route : 1..Routes, at : Phases, since : Nat]
  /\ counted \in BOOLEAN /\ overlap \in BOOLEAN /\ touched \in BOOLEAN
  /\ faults \in 0..MaxFaults

Forgotten(tools) ==
  \E c \in DOMAIN calls : calls[c].status = "RUNNING" /\ calls[c].tool \in tools

\* The chain a verifier reads back is always whole: verify_agent_run_receipt_chain
\* finds no gap, no fork and no wrong predecessor, however many calls end at once.
ChainVerifies ==
  \A k \in DOMAIN receipts : receipts[k].sequence = k - 1 /\ receipts[k].previous = k - 1

\* A call is settled if and only if the chain has its receipt, exactly one, and
\* only a completed write has a receipt that claims a mutation.
SettledCallsAreReceipted ==
  /\ \A c \in DOMAIN calls :
       calls[c].status # "RUNNING" <=> \E k \in DOMAIN receipts : receipts[k].call = c
  /\ \A k, l \in DOMAIN receipts : receipts[k].call = receipts[l].call => k = l
  /\ \A k \in DOMAIN receipts :
       receipts[k].mutation => calls[receipts[k].call] = [tool |-> "write", status |-> "COMPLETED"]

\* When every call is settled while a route runs, a task that reads RUNNING has no
\* result since the route began, or had its last one completed: a failure is never
\* hidden by a call that was started before it.  (The start of the next route, and
\* the end of this one, are written over it.)
TaskTellsFailure ==
  turn.at = "running" /\ AllIdle /\ ~Forgotten(Tools) /\ task.status = "RUNNING" =>
    \/ Len(receipts) = turn.since
    \/ calls[receipts[Len(receipts)].call].status = "COMPLETED"

\* One call at a time, the chain ends at what the workspace holds, unless a call
\* that may have changed it never was settled.
LedgerFollowsWorkspace ==
  ~overlap /\ AllIdle /\ ~Forgotten({"write", "test"}) =>
    content = IF receipts = <<>> THEN Clean ELSE receipts[Len(receipts)].diff

\* The replay of a turn trusts the toolset's count; a count is durable evidence.
CountedMutationIsReceipted == counted => \E k \in DOMAIN receipts : receipts[k].mutation

\* The circuit is checked when a call begins and opened when one ends: no more
\* failures in a row than the limit and the calls then under way.
CircuitBoundsFailures == breaker.failures < FailureLimit + Cardinality(Workers)

\* A model that never stops asking for tools is stopped by the budget and the
\* circuit, which the replays share: the executor gets through.
TurnEnds == <>(turn.at = "over")

\* "Never replay a model turn after a repository mutation may already have happened"
NeverReplaysAMutation == [][turn'.route # turn.route => ~touched \/ content = Clean]_vars

\* The mutation the proof pack starts from, the last one.
Terminal(k) ==
  receipts[k].mutation /\ \A l \in (k + 1)..Len(receipts) : ~receipts[l].mutation

\* The receipt it is proven by.
Proves(t, k) ==
  /\ t > k /\ receipts[t].kind = "qualifying" /\ receipts[t].gate = "PASS"
  /\ receipts[t].diff = receipts[k].diff

\* A change whose test passed on the content it left can be proven.
TestedChangeIsProvable ==
  \A k, t \in DOMAIN receipts :
    /\ Terminal(k) /\ t > k /\ calls[receipts[t].call] = [tool |-> "test", status |-> "COMPLETED"]
    /\ receipts[t].gate = "PASS" /\ receipts[t].diff = receipts[k].diff
    => Proves(t, k)

=============================================================================
