------------------------ MODULE RepositoryJob_proofs ------------------------
(* What holds of RepositoryJob for any threads, requests and bounds.       *)
EXTENDS RepositoryJob, TLAPS

-----------------------------------------------------------------------------
(* Type correctness.                                                       *)

\* The locals a thread starts with, and goes back to, have their type.
LEMMA FreshType == Fresh \in Locals
  BY BoundsAssumption DEF Fresh, NoRef, RefKinds, Evidence, Locals

LEMMA InitType == Init => TypeOK
<1> SUFFICES ASSUME Init PROVE TypeOK
  OBVIOUS
<1>1. RowOK
  BY DEF Init, RowOK, Statuses, NoRef, RefKinds, Evidence
<1>2. pc \in [Threads -> PCs]
  BY DEF Init, PCs, StartPCs
<1>3. local \in [Threads -> Locals]
  BY FreshType DEF Init
<1> QED
  BY <1>1, <1>2, <1>3 DEF Init, TypeOK, ThreadsOK

\* A thread that leaves keeps the types of all threads.
LEMMA LeaveType ==
  ASSUME ThreadsOK, NEW t \in Threads, Leave(t)
  PROVE  ThreadsOK'
  BY FreshType DEF ThreadsOK, Leave, PCs

LEMMA GotoType ==
  ASSUME ThreadsOK, NEW t \in Threads, NEW p \in PCs, Goto(t, p), UNCHANGED local
  PROVE  ThreadsOK'
  BY DEF ThreadsOK, Goto

\* A thread that notes an edit keeps the type of its locals.
LEMMA EditedType ==
  ASSUME NEW l \in Locals
  PROVE  [l EXCEPT !.edited = TRUE] \in Locals
  BY DEF Locals

LEMMA StepType == TypeOK /\ [Next]_vars => TypeOK'
<1> SUFFICES ASSUME TypeOK, [Next]_vars PROVE TypeOK'
  OBVIOUS
<1> USE BoundsAssumption
    DEF TypeOK, RowOK, Write, SwapRef, MarkPrepared, Receive,
        row, bounds, history, Threads, Statuses, RefKinds, Evidence,
        PCs, OwnerPCs, SubmitPCs, CloseoutPCs, StartPCs, RequestPCs
<1>1. ASSUME NEW r \in Reconcilers, ListPending(r) PROVE TypeOK'
  BY <1>1 DEF ListPending, Goto, ThreadsOK
<1>2. ASSUME NEW r \in Reconcilers, ListBound(r) PROVE TypeOK'
  BY <1>2 DEF ListBound, Goto, ReadBound, ThreadsOK
<1>3. ASSUME NEW r \in Reconcilers, ClaimSubmit(r) PROVE TypeOK'
  BY <1>3 DEF ClaimSubmit, Goto, Claim, Locals, Pending, ThreadsOK
<1>4. ASSUME NEW r \in Reconcilers, CheckAuthority(r) PROVE TypeOK'
  BY <1>4 DEF CheckAuthority, Goto, ThreadsOK
<1>5. ASSUME NEW r \in Reconcilers, MarkStarted(r) PROVE TypeOK'
  BY <1>5 DEF MarkStarted, Goto, ThreadsOK
<1>6. ASSUME NEW r \in Reconcilers, Admit(r) PROVE TypeOK'
  BY <1>6 DEF Admit, Goto, ThreadsOK
<1>7. ASSUME NEW r \in Reconcilers, AdmissionFails(r) PROVE TypeOK'
  BY <1>7 DEF AdmissionFails, Goto, ThreadsOK
<1>8. ASSUME NEW r \in Reconcilers, TurnCompletes(r) PROVE TypeOK'
  BY <1>8 DEF TurnCompletes, Goto, ThreadsOK
<1>9. ASSUME NEW r \in Reconcilers, RotateRoute(r) PROVE TypeOK'
  BY <1>9 DEF RotateRoute, Goto, Locals, ThreadsOK
<1>10. ASSUME NEW r \in Reconcilers, TurnFails(r) PROVE TypeOK'
  BY <1>10 DEF TurnFails, Goto, ThreadsOK
<1>11. ASSUME NEW r \in Reconcilers, Finalize(r) PROVE TypeOK'
  <2>1. CASE SwapRef(local[r].claim, Bound) /\ Leave(r)
    <3>1. ThreadsOK'
      BY <2>1, LeaveType
    <3> QED
      BY <1>11, <2>1, <3>1 DEF Finalize, Bound
  <2>2. CASE Goto(r, "block") /\ UNCHANGED <<row, local>>
    <3>1. ThreadsOK'
      BY <2>2, GotoType
    <3> QED
      BY <1>11, <2>2, <3>1 DEF Finalize
  <2> QED
    BY <1>11, <2>1, <2>2 DEF Finalize
<1>12. ASSUME NEW r \in Reconcilers, AgentEdits(r) PROVE TypeOK'
  <2>1. local' = [local EXCEPT ![r] = [local[r] EXCEPT !.edited = TRUE]]
    BY <1>12 DEF AgentEdits, ThreadsOK
  <2>2. [local[r] EXCEPT !.edited = TRUE] \in Locals
    BY EditedType DEF ThreadsOK
  <2>3. local' \in [Threads -> Locals]
    BY <2>1, <2>2 DEF ThreadsOK
  <2>4. ThreadsOK'
    BY <1>12, <2>3 DEF AgentEdits, ThreadsOK
  <2> QED
    BY <1>12, <2>4 DEF AgentEdits
<1>13. ASSUME NEW r \in Reconcilers, AgentTests(r) PROVE TypeOK'
  BY <1>13 DEF AgentTests, ThreadsOK
<1>50. ASSUME NEW r \in Reconcilers, AgentEditsUncounted(r) PROVE TypeOK'
  <2>1. evidence' \subseteq Evidence
    BY <1>50 DEF AgentEditsUncounted, Evidence
  <2>2. ThreadsOK'
    BY <1>50 DEF AgentEditsUncounted, ThreadsOK
  <2> QED
    BY <1>50, <2>1, <2>2 DEF AgentEditsUncounted
<1>14. ASSUME NEW h \in Handlers, Provision(h) PROVE TypeOK'
  <2>1. CASE workspace' = "clean" /\ Write("provisioning", {}) /\ Goto(h, "clone") /\ UNCHANGED local
    <3>1. ThreadsOK'
      BY <2>1, GotoType
    <3> QED
      BY <1>14, <2>1, <3>1 DEF Provision
  <2>2. CASE Write("blocked", {}) /\ Leave(h) /\ UNCHANGED workspace
    <3>1. ThreadsOK'
      BY <2>2, LeaveType
    <3> QED
      BY <1>14, <2>2, <3>1 DEF Provision
  <2> QED
    BY <1>14, <2>1, <2>2 DEF Provision
<1>15. ASSUME NEW h \in Handlers, CloneRepo(h) PROVE TypeOK'
  <2>1. CASE Write("running", {}) /\ Goto(h, "checked") /\ UNCHANGED local
    <3>1. ThreadsOK'
      BY <2>1, GotoType
    <3> QED
      BY <1>15, <2>1, <3>1 DEF CloneRepo
  <2>2. CASE (\E s \in {"blocked", "failed"} : Write(s, {})) /\ Leave(h)
    <3>1. ThreadsOK'
      BY <2>2, LeaveType
    <3> QED
      BY <1>15, <2>2, <3>1 DEF CloneRepo
  <2> QED
    BY <1>15, <2>1, <2>2 DEF CloneRepo
<1>16. ASSUME NEW h \in Handlers, ReadBack(h) PROVE TypeOK'
  BY <1>16, FreshType DEF ReadBack, Leave, Goto, ThreadsOK
<1>17. ASSUME NEW h \in Handlers, CodeHunt(h) PROVE TypeOK'
  BY <1>17 DEF CodeHunt, Goto, ThreadsOK
<1>18. ASSUME NEW h \in Handlers, CodeHuntBlocks(h) PROVE TypeOK'
  BY <1>18, FreshType DEF CodeHuntBlocks, Leave, ThreadsOK
<1>19. ASSUME NEW h \in Handlers, BindPermission(h) PROVE TypeOK'
  BY <1>19 DEF BindPermission, Goto, ThreadsOK
<1>20. ASSUME NEW h \in Handlers, QueuePending(h) PROVE TypeOK'
  BY <1>20, FreshType DEF QueuePending, Leave, Pending, ThreadsOK
<1>21. ASSUME NEW h \in Handlers, ReceiveCancel(h) PROVE TypeOK'
  BY <1>21 DEF ReceiveCancel, Goto, ThreadsOK
<1>22. ASSUME NEW h \in Handlers, ReceiveCleanup(h) PROVE TypeOK'
  BY <1>22 DEF ReceiveCleanup, Goto, ThreadsOK
<1>23. ASSUME NEW h \in Handlers, ReceiveTool(h) PROVE TypeOK'
  BY <1>23 DEF ReceiveTool, Goto, Locals, ThreadsOK
<1>24. ASSUME NEW h \in Handlers, ReceivePrepare(h) PROVE TypeOK'
  BY <1>24 DEF ReceivePrepare, Goto, ThreadsOK
<1>25. ASSUME NEW h \in Handlers, ReceiveCreate(h) PROVE TypeOK'
  BY <1>25 DEF ReceiveCreate, Goto, ThreadsOK
<1>26. ASSUME NEW h \in Handlers, ReceiveReadback(h) PROVE TypeOK'
  BY <1>26 DEF ReceiveReadback, Goto, ThreadsOK
<1>27. ASSUME NEW h \in Handlers, ObserveStall(h) PROVE TypeOK'
  BY <1>27 DEF ObserveStall, Goto, ThreadsOK
<1>28. ASSUME NEW h \in Handlers, Cancel(h) PROVE TypeOK'
  BY <1>28, FreshType DEF Cancel, Leave, ThreadsOK
<1>29. ASSUME NEW h \in Handlers, RemoveWorkspace(h) PROVE TypeOK'
  <2>1. CASE workspace' = "absent" /\ Goto(h, "cleanup_write") /\ UNCHANGED local
    <3>1. ThreadsOK'
      BY <2>1, GotoType
    <3> QED
      BY <1>29, <2>1, <3>1 DEF RemoveWorkspace
  <2>2. CASE UNCHANGED workspace /\ Leave(h)
    <3>1. ThreadsOK'
      BY <2>2, LeaveType
    <3> QED
      BY <1>29, <2>2, <3>1 DEF RemoveWorkspace
  <2> QED
    BY <1>29, <2>1, <2>2 DEF RemoveWorkspace
<1>30. ASSUME NEW h \in Handlers, MarkCleaned(h) PROVE TypeOK'
  BY <1>30, FreshType DEF MarkCleaned, Leave, ThreadsOK
<1>31. ASSUME NEW h \in Handlers, ToolResult(h) PROVE TypeOK'
  <2>1. ThreadsOK'
    BY <1>31, LeaveType DEF ToolResult, RecordTool, RecordFailedTool
  <2>2. ASSUME NEW found \in SUBSET Evidence, NEW merged \in BOOLEAN, RecordTool(h, found, merged)
        PROVE  RowOK' /\ workspace' \in {"absent", "clean", "changed"}
    <3>1. local[h].seen \in SUBSET Evidence
      BY DEF ThreadsOK, Locals
    <3> QED
      BY <2>2, <3>1 DEF RecordTool
  <2>3. RowOK' /\ workspace' \in {"absent", "clean", "changed"}
    BY <1>31, <2>2 DEF ToolResult, RecordFailedTool
  <2> QED
    BY <1>31, <2>1, <2>3 DEF ToolResult, RecordTool, RecordFailedTool
<1>32. ASSUME NEW h \in Handlers, Prepare(h) PROVE TypeOK'
  BY <1>32, FreshType DEF Prepare, Leave, ThreadsOK
<1>33. ASSUME NEW h \in Handlers, Publish(h) PROVE TypeOK'
  <2>1. ThreadsOK'
    BY <1>33, LeaveType DEF Publish
  <2> QED
    BY <1>33, <2>1, ZenonT(60) DEF Publish
<1>34. ASSUME NEW h \in Handlers, ReadStalled(h) PROVE TypeOK'
  BY <1>34, FreshType DEF ReadStalled, Leave, Goto, ThreadsOK
<1>35. ASSUME NEW h \in Handlers, Recover(h) PROVE TypeOK'
  BY <1>35 DEF Recover, Goto, ThreadsOK
<1>36. ASSUME NEW h \in Handlers, Reconcile(h) PROVE TypeOK'
  <2>1. CASE ReadBound(h)
    <3>1. ThreadsOK'
      BY <2>1, GotoType DEF ReadBound
    <3> QED
      BY <2>1, <3>1 DEF ReadBound
  <2>2. CASE ~ReadBound(h)
    <3>1. ThreadsOK'
      BY <1>36, <2>2, LeaveType DEF Reconcile
    <3> QED
      BY <1>36, <2>2, <3>1, ZenonT(60) DEF Reconcile
  <2> QED
    BY <2>1, <2>2
<1>37. ASSUME NEW t \in Threads, ClaimLost(t) PROVE TypeOK'
  BY <1>37, FreshType DEF ClaimLost, Leave, ThreadsOK
<1>38. ASSUME NEW t \in Threads, ClaimCloseout(t) PROVE TypeOK'
  BY <1>38 DEF ClaimCloseout, Goto, Claim, Locals, Bound, ThreadsOK
<1>39. ASSUME NEW t \in Threads, Inspect(t) PROVE TypeOK'
  BY <1>39 DEF Inspect, Goto, ThreadsOK
<1>40. ASSUME NEW t \in Threads, RecordObserved(t) PROVE TypeOK'
  BY <1>40 DEF RecordObserved, Goto, ThreadsOK
<1>41. ASSUME NEW t \in Threads, Regress(t) PROVE TypeOK'
  BY <1>41 DEF Regress, Goto, ThreadsOK
<1>42. ASSUME NEW t \in Threads, RecordEvidence(t) PROVE TypeOK'
  BY <1>42 DEF RecordEvidence, Goto, ThreadsOK
<1>43. ASSUME NEW t \in Threads, PrepareCloseout(t) PROVE TypeOK'
  <2>1. ThreadsOK'
    <3>1. "restore" \in PCs /\ "block" \in PCs
      OBVIOUS
    <3> QED
      BY <1>43, <3>1, GotoType DEF PrepareCloseout
  <2> QED
    BY <1>43, <2>1, ZenonT(60) DEF PrepareCloseout
<1>44. ASSUME NEW t \in Threads, Restore(t) PROVE TypeOK'
  <2>1. CASE SwapRef(local[t].claim, Bound) /\ Leave(t)
    <3>1. ThreadsOK'
      BY <2>1, LeaveType
    <3> QED
      BY <1>44, <2>1, <3>1 DEF Restore, Bound
  <2>2. CASE Goto(t, "block") /\ UNCHANGED <<row, local>>
    <3>1. ThreadsOK'
      BY <2>2, GotoType
    <3> QED
      BY <1>44, <2>2, <3>1 DEF Restore
  <2> QED
    BY <1>44, <2>1, <2>2 DEF Restore
<1>45. ASSUME NEW t \in Threads, CloseoutRaises(t) PROVE TypeOK'
  BY <1>45, FreshType DEF CloseoutRaises, Leave, ThreadsOK
<1>46. ASSUME NEW t \in Threads, Block(t) PROVE TypeOK'
  BY <1>46, FreshType DEF Block, Leave, ThreadsOK
<1>47. ASSUME NEW t \in Threads, Crash(t) PROVE TypeOK'
  BY <1>47, FreshType DEF Crash, Leave, ThreadsOK
<1>48. CASE PermissionEnds
  BY <1>48 DEF PermissionEnds, ThreadsOK
<1>49. CASE UNCHANGED vars
  BY <1>49 DEF vars, ThreadsOK
<1> QED
    BY <1>1, <1>2, <1>3, <1>4, <1>5, <1>6, <1>7, <1>8, <1>9, <1>10, <1>11, <1>12, <1>13, <1>14,
       <1>50,
     <1>15, <1>16, <1>17, <1>18, <1>19, <1>20, <1>21, <1>22, <1>23, <1>24, <1>25, <1>26, <1>27,
     <1>28, <1>29, <1>30, <1>31, <1>32, <1>33, <1>34, <1>35, <1>36, <1>37, <1>38, <1>39, <1>40,
     <1>41, <1>42, <1>43, <1>44, <1>45, <1>46, <1>47, <1>48, <1>49
     DEF Next, StartStep, SubmitStep, AgentTool, CloseoutStep, ReceiveRequest, RequestStep

\* Every variable has its type.
THEOREM TypeCorrect == Spec => []TypeOK
  BY InitType, StepType, PTL DEF Spec

-----------------------------------------------------------------------------
(* Every step has one of five shapes, as far as external_ref is concerned. *)
(* The invariants and the refinement below follow from the shapes alone.   *)

\* Places between the permission check and the end of the submission.
EffectPCs == {"start", "admit", "model", "finalize"}

\* A step of one thread that leaves the reference alone: a thread enters no
\* part of the protocol that is guarded by a claim, executes only if the
\* permission was live, and starts a turn only out of an admission.
Ordinary(t) ==
  /\ UNCHANGED <<ref, submits, refused>>
  /\ \A u \in Threads \ {t} : pc'[u] = pc[u] /\ local'[u] = local[u]
  /\ pc'[t] \in OwnerPCs => pc[t] \in OwnerPCs /\ local'[t].claim = local[t].claim
  /\ pc'[t] \in SubmitPCs => pc[t] \in SubmitPCs
  /\ pc'[t] \in CloseoutPCs => pc[t] \in CloseoutPCs
  /\ pc'[t] \in StartPCs => pc[t] \in StartPCs
  /\ pc'[t] \in EffectPCs => pc[t] \in EffectPCs \/ permission = "live"
  /\ permission' = "live" => permission = "live" \/ pc[t] = "bind"
  /\ pc'[t] \in {"authority", "start", "admit"} =>
       \/ pc[t] \in {"authority", "start", "admit"}
       \/ pc[t] = "model" /\ ~local[t].edited
  /\ pc'[t] = "model" =>
       \/ pc[t] = "admit" /\ status = "running"
       \/ pc[t] = "model" /\ (local[t].edited => local'[t].edited)
  /\ mutated' # mutated => pc[t] = "model" /\ pc'[t] = "model" /\ local'[t].edited

\* The owner of a claim turns it into the bound reference.
Releases(t) ==
  /\ UNCHANGED <<submits, mutated, refused, permission>>
  /\ t \in Working
  /\ ref = local[t].claim
  /\ ref' = Bound
  /\ pc' = [pc EXCEPT ![t] = "idle"]
  /\ \A u \in Threads \ {t} : local'[u] = local[u]

\* Nothing the protocol depends on changes, except that a permission may end.
Outside ==
  /\ UNCHANGED <<ref, submits, mutated, refused, pc, local>>
  /\ permission' = permission \/ permission' = "dead"

Shape ==
  \/ Outside
  \/ \E t \in Threads : Ordinary(t) \/ Releases(t) \/ ClaimCloseout(t)
  \/ \E r \in Reconcilers : ClaimSubmit(r)
  \/ \E h \in Handlers : QueuePending(h)

LEMMA StepShape == ThreadsOK /\ [Next]_vars => Shape
<1> SUFFICES ASSUME ThreadsOK, [Next]_vars PROVE Shape
  OBVIOUS
<1> USE DEF ThreadsOK, At, Goto, Leave, Write, SwapRef, MarkPrepared, Receive,
            row, bounds, history, Threads, Locals
<1>1. ASSUME NEW r \in Reconcilers, ListPending(r) PROVE Ordinary(r)
  BY <1>1 DEF ListPending, Ordinary, EffectPCs, OwnerPCs, SubmitPCs, CloseoutPCs,
              StartPCs
<1>2. ASSUME NEW r \in Reconcilers, ListBound(r) PROVE Ordinary(r)
  BY <1>2 DEF ListBound, ReadBound, Ordinary, EffectPCs, OwnerPCs, SubmitPCs, CloseoutPCs,
              StartPCs
<1>3. ASSUME NEW r \in Reconcilers, CheckAuthority(r) PROVE Ordinary(r)
  BY <1>3 DEF CheckAuthority, Ordinary, EffectPCs, OwnerPCs, SubmitPCs, CloseoutPCs,
              StartPCs
<1>4. ASSUME NEW r \in Reconcilers, MarkStarted(r) PROVE Ordinary(r)
  BY <1>4 DEF MarkStarted, Ordinary, EffectPCs, OwnerPCs, SubmitPCs, CloseoutPCs,
              StartPCs
<1>5. ASSUME NEW r \in Reconcilers, Admit(r) PROVE Ordinary(r)
  BY <1>5 DEF Admit, Ordinary, EffectPCs, OwnerPCs, SubmitPCs, CloseoutPCs,
              StartPCs
<1>6. ASSUME NEW r \in Reconcilers, AdmissionFails(r) PROVE Ordinary(r)
  BY <1>6 DEF AdmissionFails, Ordinary, EffectPCs, OwnerPCs, SubmitPCs, CloseoutPCs,
              StartPCs
<1>7. ASSUME NEW r \in Reconcilers, TurnCompletes(r) PROVE Ordinary(r)
  BY <1>7 DEF TurnCompletes, Ordinary, EffectPCs, OwnerPCs, SubmitPCs, CloseoutPCs,
              StartPCs
<1>8. ASSUME NEW r \in Reconcilers, RotateRoute(r) PROVE Ordinary(r)
  BY <1>8 DEF RotateRoute, Ordinary, EffectPCs, OwnerPCs, SubmitPCs, CloseoutPCs,
              StartPCs
<1>9. ASSUME NEW r \in Reconcilers, TurnFails(r) PROVE Ordinary(r)
  BY <1>9 DEF TurnFails, Ordinary, EffectPCs, OwnerPCs, SubmitPCs, CloseoutPCs,
              StartPCs
<1>10. ASSUME NEW r \in Reconcilers, Finalize(r) PROVE Ordinary(r) \/ Releases(r)
  <2>1. CASE ref = local[r].claim
    BY <1>10, <2>1 DEF Finalize, Releases, Working, OwnerPCs, SubmitPCs
  <2>2. CASE ref # local[r].claim
    BY <1>10, <2>2 DEF Finalize, Ordinary, EffectPCs, OwnerPCs, SubmitPCs, CloseoutPCs, StartPCs
  <2> QED
    BY <2>1, <2>2
<1>11. ASSUME NEW r \in Reconcilers, AgentEdits(r) PROVE Ordinary(r)
  BY <1>11 DEF AgentEdits, Ordinary, EffectPCs, OwnerPCs, SubmitPCs, CloseoutPCs,
              StartPCs
<1>12. ASSUME NEW r \in Reconcilers, AgentTests(r) PROVE Ordinary(r)
  BY <1>12 DEF AgentTests, Ordinary, EffectPCs, OwnerPCs, SubmitPCs, CloseoutPCs,
              StartPCs
<1>50. ASSUME NEW r \in Reconcilers, AgentEditsUncounted(r) PROVE Ordinary(r)
  BY <1>50 DEF AgentEditsUncounted, Ordinary, EffectPCs, OwnerPCs, SubmitPCs, CloseoutPCs,
                StartPCs
<1>13. ASSUME NEW h \in Handlers, Provision(h) PROVE Ordinary(h)
  BY <1>13 DEF Provision, Fresh, Ordinary, EffectPCs, OwnerPCs, SubmitPCs, CloseoutPCs,
              StartPCs
<1>14. ASSUME NEW h \in Handlers, CloneRepo(h) PROVE Ordinary(h)
  BY <1>14 DEF CloneRepo, Fresh, Ordinary, EffectPCs, OwnerPCs, SubmitPCs, CloseoutPCs,
              StartPCs
<1>15. ASSUME NEW h \in Handlers, ReadBack(h) PROVE Ordinary(h)
  BY <1>15 DEF ReadBack, Fresh, Ordinary, EffectPCs, OwnerPCs, SubmitPCs, CloseoutPCs,
              StartPCs
<1>16. ASSUME NEW h \in Handlers, CodeHunt(h) PROVE Ordinary(h)
  BY <1>16 DEF CodeHunt, Ordinary, EffectPCs, OwnerPCs, SubmitPCs, CloseoutPCs,
              StartPCs
<1>17. ASSUME NEW h \in Handlers, CodeHuntBlocks(h) PROVE Ordinary(h)
  BY <1>17 DEF CodeHuntBlocks, Fresh, Ordinary, EffectPCs, OwnerPCs, SubmitPCs, CloseoutPCs,
              StartPCs
<1>18. ASSUME NEW h \in Handlers, BindPermission(h) PROVE Ordinary(h)
  BY <1>18 DEF BindPermission, Ordinary, EffectPCs, OwnerPCs, SubmitPCs, CloseoutPCs,
              StartPCs
<1>19. ASSUME NEW h \in Handlers, ReceiveCancel(h) PROVE Ordinary(h)
  BY <1>19 DEF ReceiveCancel, Ordinary, EffectPCs, OwnerPCs, SubmitPCs, CloseoutPCs,
              StartPCs
<1>20. ASSUME NEW h \in Handlers, ReceiveCleanup(h) PROVE Ordinary(h)
  BY <1>20 DEF ReceiveCleanup, Ordinary, EffectPCs, OwnerPCs, SubmitPCs, CloseoutPCs,
              StartPCs
<1>21. ASSUME NEW h \in Handlers, ReceiveTool(h) PROVE Ordinary(h)
  BY <1>21 DEF ReceiveTool, Ordinary, EffectPCs, OwnerPCs, SubmitPCs, CloseoutPCs,
              StartPCs
<1>22. ASSUME NEW h \in Handlers, ReceivePrepare(h) PROVE Ordinary(h)
  BY <1>22 DEF ReceivePrepare, Ordinary, EffectPCs, OwnerPCs, SubmitPCs, CloseoutPCs,
              StartPCs
<1>23. ASSUME NEW h \in Handlers, ReceiveCreate(h) PROVE Ordinary(h)
  BY <1>23 DEF ReceiveCreate, Ordinary, EffectPCs, OwnerPCs, SubmitPCs, CloseoutPCs,
              StartPCs
<1>24. ASSUME NEW h \in Handlers, ReceiveReadback(h) PROVE Ordinary(h)
  BY <1>24 DEF ReceiveReadback, Ordinary, EffectPCs, OwnerPCs, SubmitPCs, CloseoutPCs,
              StartPCs
<1>25. ASSUME NEW h \in Handlers, ObserveStall(h) PROVE Ordinary(h)
  BY <1>25 DEF ObserveStall, Ordinary, EffectPCs, OwnerPCs, SubmitPCs, CloseoutPCs,
              StartPCs
<1>26. ASSUME NEW h \in Handlers, Cancel(h) PROVE Ordinary(h)
  BY <1>26 DEF Cancel, Fresh, Ordinary, EffectPCs, OwnerPCs, SubmitPCs, CloseoutPCs,
              StartPCs
<1>27. ASSUME NEW h \in Handlers, RemoveWorkspace(h) PROVE Ordinary(h)
  BY <1>27 DEF RemoveWorkspace, Fresh, Ordinary, EffectPCs, OwnerPCs, SubmitPCs, CloseoutPCs,
              StartPCs
<1>28. ASSUME NEW h \in Handlers, MarkCleaned(h) PROVE Ordinary(h)
  BY <1>28 DEF MarkCleaned, Fresh, Ordinary, EffectPCs, OwnerPCs, SubmitPCs, CloseoutPCs,
              StartPCs
<1>29. ASSUME NEW h \in Handlers, ToolResult(h) PROVE Ordinary(h)
  BY <1>29 DEF ToolResult, RecordTool, RecordFailedTool, Fresh, Ordinary, EffectPCs, OwnerPCs,
         SubmitPCs, CloseoutPCs,
              StartPCs
<1>30. ASSUME NEW h \in Handlers, Prepare(h) PROVE Ordinary(h)
  BY <1>30 DEF Prepare, Fresh, Ordinary, EffectPCs, OwnerPCs, SubmitPCs, CloseoutPCs,
              StartPCs
<1>31. ASSUME NEW h \in Handlers, Publish(h) PROVE Ordinary(h)
  BY <1>31 DEF Publish, Fresh, Ordinary, EffectPCs, OwnerPCs, SubmitPCs, CloseoutPCs,
              StartPCs
<1>32. ASSUME NEW h \in Handlers, ReadStalled(h) PROVE Ordinary(h)
  BY <1>32 DEF ReadStalled, Fresh, Ordinary, EffectPCs, OwnerPCs, SubmitPCs, CloseoutPCs,
              StartPCs
<1>33. ASSUME NEW h \in Handlers, Recover(h) PROVE Ordinary(h)
  BY <1>33 DEF Recover, Ordinary, EffectPCs, OwnerPCs, SubmitPCs, CloseoutPCs,
              StartPCs
<1>34. ASSUME NEW h \in Handlers, Reconcile(h) PROVE Ordinary(h)
  BY <1>34 DEF Reconcile, ReadBound, Fresh, Ordinary, EffectPCs, OwnerPCs, SubmitPCs, CloseoutPCs,
              StartPCs
<1>35. ASSUME NEW t \in Threads, ClaimLost(t) PROVE Ordinary(t)
  BY <1>35 DEF ClaimLost, Fresh, Ordinary, EffectPCs, OwnerPCs, SubmitPCs, CloseoutPCs,
              StartPCs
<1>36. ASSUME NEW t \in Threads, Inspect(t) PROVE Ordinary(t)
  BY <1>36 DEF Inspect, Ordinary, EffectPCs, OwnerPCs, SubmitPCs, CloseoutPCs,
              StartPCs
<1>37. ASSUME NEW t \in Threads, RecordObserved(t) PROVE Ordinary(t)
  BY <1>37 DEF RecordObserved, Ordinary, EffectPCs, OwnerPCs, SubmitPCs, CloseoutPCs,
              StartPCs
<1>38. ASSUME NEW t \in Threads, Regress(t) PROVE Ordinary(t)
  BY <1>38 DEF Regress, Ordinary, EffectPCs, OwnerPCs, SubmitPCs, CloseoutPCs,
              StartPCs
<1>39. ASSUME NEW t \in Threads, RecordEvidence(t) PROVE Ordinary(t)
  BY <1>39 DEF RecordEvidence, Ordinary, EffectPCs, OwnerPCs, SubmitPCs, CloseoutPCs,
              StartPCs
<1>40. ASSUME NEW t \in Threads, PrepareCloseout(t) PROVE Ordinary(t)
  BY <1>40 DEF PrepareCloseout, Ordinary, EffectPCs, OwnerPCs, SubmitPCs, CloseoutPCs,
              StartPCs
<1>41. ASSUME NEW t \in Threads, Restore(t) PROVE Ordinary(t) \/ Releases(t)
  <2>1. CASE ref = local[t].claim
    BY <1>41, <2>1 DEF Restore, Releases, Working, OwnerPCs, CloseoutPCs
  <2>2. CASE ref # local[t].claim
    BY <1>41, <2>2 DEF Restore, Ordinary, EffectPCs, OwnerPCs, SubmitPCs, CloseoutPCs, StartPCs
  <2> QED
    BY <2>1, <2>2
<1>42. ASSUME NEW t \in Threads, CloseoutRaises(t) PROVE Ordinary(t)
  BY <1>42 DEF CloseoutRaises, Fresh, Ordinary, EffectPCs, OwnerPCs, SubmitPCs, CloseoutPCs,
              StartPCs
<1>43. ASSUME NEW t \in Threads, Block(t) PROVE Ordinary(t)
  BY <1>43 DEF Block, Fresh, Ordinary, EffectPCs, OwnerPCs, SubmitPCs, CloseoutPCs,
              StartPCs
<1>44. ASSUME NEW t \in Threads, Crash(t) PROVE Ordinary(t)
  BY <1>44 DEF Crash, Fresh, Ordinary, EffectPCs, OwnerPCs, SubmitPCs, CloseoutPCs,
              StartPCs
<1>45. CASE PermissionEnds
  BY <1>45 DEF PermissionEnds, Shape, Outside
<1>46. CASE UNCHANGED vars
  BY <1>46 DEF vars, Shape, Outside
<1>47. \A t \in Reconcilers \cup Handlers : t \in Threads
  OBVIOUS
<1> QED
    BY <1>1, <1>2, <1>3, <1>4, <1>5, <1>6, <1>7, <1>8, <1>9, <1>10, <1>11, <1>12, <1>13, <1>14,
       <1>50,
     <1>15, <1>16, <1>17, <1>18, <1>19, <1>20, <1>21, <1>22, <1>23, <1>24, <1>25, <1>26, <1>27,
     <1>28, <1>29, <1>30, <1>31, <1>32, <1>33, <1>34, <1>35, <1>36, <1>37, <1>38, <1>39, <1>40,
     <1>41, <1>42, <1>43, <1>44, <1>45, <1>46, <1>47
     DEF Next, StartStep, SubmitStep, AgentTool, CloseoutStep, ReceiveRequest, RequestStep, Shape

-----------------------------------------------------------------------------
(* One execution, by one thread, under one claim.                          *)

\* A thread executes under a submit claim and closes out under a closeout
\* claim.
KindHeld ==
  \A t \in Threads :
    /\ pc[t] \in SubmitPCs => ref.kind = "submit"
    /\ pc[t] \in CloseoutPCs => ref.kind = "closeout"

\* Before the first claim nothing was executed.
Unsubmitted ==
  ref.kind \in {"none", "pending"} => submits = 0 /\ mutated = FALSE /\ refused = FALSE

\* Only one thread starts the job, and until it is done nothing is queued.
Starting ==
  \A t, u \in Threads :
    pc[t] \in StartPCs => ref = NoRef /\ (pc[u] \in StartPCs => t = u)

\* A submission whose permission was dead never gets past the check.
Permitted ==
  /\ refused => permission # "live"
  /\ \A t \in Threads : pc[t] \in EffectPCs => ~refused

\* Until its first change a submission may still ask for a turn.
Unedited ==
  \A t \in Threads :
    \/ pc[t] \in {"authority", "start", "admit"}
    \/ pc[t] = "model" /\ ~local[t].edited
    => ~mutated

ExecutionInv ==
  /\ ClaimHeld /\ OneWorker /\ SubmitOnce
  /\ KindHeld /\ Unsubmitted /\ Starting /\ Permitted /\ Unedited

LEMMA InitExecution == Init => ExecutionInv
  BY DEF Init, ExecutionInv, ClaimHeld, OneWorker, SubmitOnce, KindHeld, Unsubmitted, Starting,
         Permitted, Unedited, Working, OwnerPCs, SubmitPCs, CloseoutPCs, StartPCs, EffectPCs, NoRef

LEMMA StepExecution == TypeOK /\ ExecutionInv /\ Shape => ExecutionInv'
<1> SUFFICES ASSUME TypeOK, ExecutionInv, Shape PROVE ExecutionInv'
  OBVIOUS
<1> USE DEF TypeOK, RowOK, ThreadsOK, ExecutionInv, ClaimHeld, OneWorker, SubmitOnce, KindHeld,
            Unsubmitted, Starting, Permitted, Unedited, Working
<1>1. CASE Outside
  BY <1>1 DEF Outside
<1>2. ASSUME NEW t \in Threads, Ordinary(t) PROVE ExecutionInv'
  BY <1>2 DEF Ordinary, OwnerPCs, SubmitPCs, CloseoutPCs, StartPCs, EffectPCs, NoRef
<1>3. ASSUME NEW t \in Threads, Releases(t) PROVE ExecutionInv'
  BY <1>3 DEF Releases, Bound, NoRef, IsClaim, OwnerPCs, SubmitPCs, CloseoutPCs, StartPCs, EffectPCs
<1>4. ASSUME NEW t \in Threads, ClaimCloseout(t) PROVE ExecutionInv'
  BY <1>4 DEF ClaimCloseout, At, Goto, SwapRef, Claim, Bound, history, NoRef, IsClaim, OwnerPCs,
         SubmitPCs, CloseoutPCs, StartPCs, EffectPCs
<1>5. ASSUME NEW r \in Reconcilers, ClaimSubmit(r) PROVE ExecutionInv'
  BY <1>5 DEF ClaimSubmit, At, Goto, SwapRef, Claim, Pending, history, NoRef, IsClaim, OwnerPCs,
         SubmitPCs, CloseoutPCs, StartPCs, EffectPCs, Threads
<1>6. ASSUME NEW h \in Handlers, QueuePending(h) PROVE ExecutionInv'
  BY <1>6 DEF QueuePending, At, Leave, SwapRef, Pending, history, bounds, NoRef, IsClaim,
         OwnerPCs, SubmitPCs, CloseoutPCs, StartPCs, EffectPCs, Threads
<1> QED
  BY <1>1, <1>2, <1>3, <1>4, <1>5, <1>6 DEF Shape


LEMMA ExecutionInvariant == Spec => []ExecutionInv
<1>1. TypeOK /\ ExecutionInv /\ [Next]_vars => ExecutionInv'
  BY StepShape, StepExecution DEF TypeOK
<1> QED
  BY InitExecution, TypeCorrect, <1>1, PTL DEF Spec

\* While a thread works under a claim the row carries that claim: nothing
\* takes a job away from the thread that executes it or closes it out.
THEOREM ClaimStaysHeld == Spec => []ClaimHeld
<1>1. ExecutionInv => ClaimHeld
  BY DEF ExecutionInv
<1> QED
  BY ExecutionInvariant, <1>1, PTL

\* However many threads poll and reconcile, one at most works on the job.
THEOREM OneWorkerAtATime == Spec => []OneWorker
<1>1. ExecutionInv => OneWorker
  BY DEF ExecutionInv
<1> QED
  BY ExecutionInvariant, <1>1, PTL

\* The job is claimed for submission at most once, crashes, cancellations,
\* tool routes and recoveries notwithstanding.
THEOREM SubmittedOnce == Spec => []SubmitOnce
<1>1. ExecutionInv => SubmitOnce
  BY DEF ExecutionInv
<1> QED
  BY ExecutionInvariant, <1>1, PTL

\* No model turn starts once a turn of this job has changed the workspace.
THEOREM NeverReplayed == Spec => NoReplay
<1>1. TypeOK /\ ExecutionInv => [TurnStarts => ~mutated]_vars
  BY DEF ExecutionInv, Unedited, TurnStarts, Threads
<1> QED
  BY TypeCorrect, ExecutionInvariant, <1>1, PTL DEF NoReplay

\* No model turn starts for a job whose permission was dead when it was claimed.
THEOREM TurnsArePermitted == Spec => NoTurnWithoutPermission
<1>1. TypeOK /\ ExecutionInv => [TurnStarts => ~refused]_vars
  BY DEF ExecutionInv, Permitted, TurnStarts, Threads, EffectPCs
<1> QED
  BY TypeCorrect, ExecutionInvariant, <1>1, PTL DEF NoTurnWithoutPermission

\* A claim whose thread is gone stays on the row for good.
THEOREM AbandonedClaimsStay == Spec => AbandonedForGood
<1>1. TypeOK /\ Shape => [IsClaim(ref) /\ Working = {} => ref' = ref]_vars
  BY DEF Shape, Outside, Ordinary, Releases, ClaimCloseout, ClaimSubmit, QueuePending, SwapRef,
         IsClaim, NoRef, Pending, Bound
<1> QED
  BY TypeCorrect, StepShape, <1>1, PTL DEF AbandonedForGood, Spec, TypeOK

\* The reference implements the abstract promise: the job is queued once,
\* executed once, closed out by one thread at a time, and what its owner
\* abandons is handed to nobody.
THEOREM Implementation == Spec => ImplementsExclusive
<1>1. Init => Exclusive!Init
  BY DEF Init, Exclusive!Init, PhaseOf, NoRef, Working, OwnerPCs, SubmitPCs, CloseoutPCs
<1>2. TypeOK /\ ExecutionInv /\ Shape => [Exclusive!Next]_(Exclusive!vars)
  <2> SUFFICES ASSUME TypeOK, ExecutionInv, Shape
               PROVE  [Exclusive!Next]_(Exclusive!vars)
    OBVIOUS
  <2> USE DEF TypeOK, ThreadsOK, ExecutionInv, ClaimHeld, OneWorker, KindHeld
  <2>1. CASE Outside
    BY <2>1 DEF Outside, Working, Exclusive!vars
  <2>2. ASSUME NEW t \in Threads, Ordinary(t)
        PROVE  [Exclusive!Next]_(Exclusive!vars)
    <3>1. Working' = Working \/ Working' = {}
      BY <2>2 DEF Ordinary, Working
    <3>2. PhaseOf(ref)' = PhaseOf(ref)
      BY <2>2 DEF Ordinary
    <3> QED
      BY <3>1, <3>2 DEF Exclusive!Next, Exclusive!Abandon, Exclusive!vars
  <2>3. ASSUME NEW t \in Threads, Releases(t)
        PROVE  [Exclusive!Next]_(Exclusive!vars)
    <3>1. Working # {} /\ Working' = {}
      BY <2>3 DEF Releases, Working, OwnerPCs, SubmitPCs, CloseoutPCs
    <3>2. PhaseOf(ref) \in {"executing", "closing"} /\ PhaseOf(ref)' = "executed"
      BY <2>3 DEF Releases, PhaseOf, Bound, IsClaim
    <3> QED
      BY <3>1, <3>2 DEF Exclusive!Next, Exclusive!Executed, Exclusive!ClosedOut
  <2>4. ASSUME NEW t \in Threads, ClaimCloseout(t)
        PROVE  [Exclusive!Next]_(Exclusive!vars)
    <3>1. Working = {} /\ Working' = {t}
      BY <2>4 DEF ClaimCloseout, SwapRef, Goto, At, Working, Bound, IsClaim, OwnerPCs, SubmitPCs,
             CloseoutPCs
    <3>2. PhaseOf(ref) = "executed" /\ PhaseOf(ref)' = "closing"
      BY <2>4 DEF ClaimCloseout, SwapRef, PhaseOf, Bound, Claim
    <3> QED
      BY <3>1, <3>2 DEF Exclusive!Next, Exclusive!CloseOut
  <2>5. ASSUME NEW r \in Reconcilers, ClaimSubmit(r)
        PROVE  [Exclusive!Next]_(Exclusive!vars)
    <3>1. Working = {} /\ Working' = {r}
      BY <2>5 DEF ClaimSubmit, SwapRef, Goto, At, Working, Pending, IsClaim, OwnerPCs, SubmitPCs,
             CloseoutPCs, Threads
    <3>2. PhaseOf(ref) = "queued" /\ PhaseOf(ref)' = "executing"
      BY <2>5 DEF ClaimSubmit, SwapRef, PhaseOf, Pending, Claim
    <3> QED
      BY <3>1, <3>2 DEF Exclusive!Next, Exclusive!Execute, Threads
  <2>6. ASSUME NEW h \in Handlers, QueuePending(h)
        PROVE  [Exclusive!Next]_(Exclusive!vars)
    <3>1. Working' = Working
      BY <2>6 DEF QueuePending, Leave, At, Working, OwnerPCs, SubmitPCs, CloseoutPCs, Threads
    <3>2. PhaseOf(ref) = "new" /\ PhaseOf(ref)' = "queued"
      BY <2>6 DEF QueuePending, SwapRef, PhaseOf, Pending, NoRef
    <3> QED
      BY <3>1, <3>2 DEF Exclusive!Next, Exclusive!Queue
  <2> QED
    BY <2>1, <2>2, <2>3, <2>4, <2>5, <2>6 DEF Shape
<1>3. TypeOK => ThreadsOK
  BY DEF TypeOK
<1> QED
  BY <1>1, <1>2, <1>3, StepShape, TypeCorrect, ExecutionInvariant, PTL
     DEF Spec, ImplementsExclusive, Exclusive!Spec


-----------------------------------------------------------------------------
(* Publication.                                                            *)

\* A thread that is about to prepare or to publish has seen all the evidence,
\* and evidence is never taken away.
PublicationInv ==
  /\ PublishedWithEvidence
  /\ \A t \in Threads : pc[t] \in {"prepare", "publish"} => GatePasses(evidence)

LEMMA StepPublication == TypeOK /\ PublicationInv /\ [Next]_vars => PublicationInv'
<1> SUFFICES ASSUME TypeOK, PublicationInv, [Next]_vars PROVE PublicationInv'
  OBVIOUS
<1> USE DEF TypeOK, RowOK, ThreadsOK, PublicationInv, PublishedWithEvidence, GatePasses, Threads,
            At, Goto, Leave, Write, SwapRef, MarkPrepared, Receive, row, bounds, history
<1>1. ASSUME NEW r \in Reconcilers, ListPending(r) PROVE PublicationInv'
  BY <1>1 DEF ListPending
<1>2. ASSUME NEW r \in Reconcilers, ListBound(r) PROVE PublicationInv'
  BY <1>2 DEF ListBound, ReadBound
<1>3. ASSUME NEW r \in Reconcilers, ClaimSubmit(r) PROVE PublicationInv'
  BY <1>3 DEF ClaimSubmit
<1>4. ASSUME NEW r \in Reconcilers, CheckAuthority(r) PROVE PublicationInv'
  BY <1>4 DEF CheckAuthority
<1>5. ASSUME NEW r \in Reconcilers, MarkStarted(r) PROVE PublicationInv'
  BY <1>5 DEF MarkStarted
<1>6. ASSUME NEW r \in Reconcilers, Admit(r) PROVE PublicationInv'
  BY <1>6 DEF Admit
<1>7. ASSUME NEW r \in Reconcilers, AdmissionFails(r) PROVE PublicationInv'
  BY <1>7 DEF AdmissionFails
<1>8. ASSUME NEW r \in Reconcilers, TurnCompletes(r) PROVE PublicationInv'
  BY <1>8 DEF TurnCompletes
<1>9. ASSUME NEW r \in Reconcilers, RotateRoute(r) PROVE PublicationInv'
  BY <1>9 DEF RotateRoute
<1>10. ASSUME NEW r \in Reconcilers, TurnFails(r) PROVE PublicationInv'
  BY <1>10 DEF TurnFails
<1>11. ASSUME NEW r \in Reconcilers, Finalize(r) PROVE PublicationInv'
  BY <1>11 DEF Finalize
<1>12. ASSUME NEW r \in Reconcilers, AgentEdits(r) PROVE PublicationInv'
  BY <1>12 DEF AgentEdits, Evidence
<1>13. ASSUME NEW r \in Reconcilers, AgentTests(r) PROVE PublicationInv'
  BY <1>13 DEF AgentTests, Evidence
<1>50. ASSUME NEW r \in Reconcilers, AgentEditsUncounted(r) PROVE PublicationInv'
  BY <1>50 DEF AgentEditsUncounted, Evidence
<1>14. ASSUME NEW h \in Handlers, Provision(h) PROVE PublicationInv'
  BY <1>14 DEF Provision
<1>15. ASSUME NEW h \in Handlers, CloneRepo(h) PROVE PublicationInv'
  BY <1>15 DEF CloneRepo
<1>16. ASSUME NEW h \in Handlers, ReadBack(h) PROVE PublicationInv'
  BY <1>16 DEF ReadBack
<1>17. ASSUME NEW h \in Handlers, CodeHunt(h) PROVE PublicationInv'
  BY <1>17 DEF CodeHunt
<1>18. ASSUME NEW h \in Handlers, CodeHuntBlocks(h) PROVE PublicationInv'
  BY <1>18 DEF CodeHuntBlocks
<1>19. ASSUME NEW h \in Handlers, BindPermission(h) PROVE PublicationInv'
  BY <1>19 DEF BindPermission
<1>20. ASSUME NEW h \in Handlers, QueuePending(h) PROVE PublicationInv'
  BY <1>20 DEF QueuePending
<1>21. ASSUME NEW h \in Handlers, ReceiveCancel(h) PROVE PublicationInv'
  BY <1>21 DEF ReceiveCancel
<1>22. ASSUME NEW h \in Handlers, ReceiveCleanup(h) PROVE PublicationInv'
  BY <1>22 DEF ReceiveCleanup
<1>23. ASSUME NEW h \in Handlers, ReceiveTool(h) PROVE PublicationInv'
  BY <1>23 DEF ReceiveTool
<1>24. ASSUME NEW h \in Handlers, ReceivePrepare(h) PROVE PublicationInv'
  BY <1>24 DEF ReceivePrepare
<1>25. ASSUME NEW h \in Handlers, ReceiveCreate(h) PROVE PublicationInv'
  BY <1>25 DEF ReceiveCreate
<1>26. ASSUME NEW h \in Handlers, ReceiveReadback(h) PROVE PublicationInv'
  BY <1>26 DEF ReceiveReadback
<1>27. ASSUME NEW h \in Handlers, ObserveStall(h) PROVE PublicationInv'
  BY <1>27 DEF ObserveStall
<1>28. ASSUME NEW h \in Handlers, Cancel(h) PROVE PublicationInv'
  BY <1>28 DEF Cancel
<1>29. ASSUME NEW h \in Handlers, RemoveWorkspace(h) PROVE PublicationInv'
  BY <1>29 DEF RemoveWorkspace
<1>30. ASSUME NEW h \in Handlers, MarkCleaned(h) PROVE PublicationInv'
  BY <1>30 DEF MarkCleaned
<1>31. ASSUME NEW h \in Handlers, ToolResult(h) PROVE PublicationInv'
  <2>1. ASSUME NEW found \in SUBSET Evidence, NEW merged \in BOOLEAN, RecordTool(h, found, merged)
        PROVE  PublicationInv'
    <3>1. local[h].seen \in SUBSET Evidence
      BY DEF Locals
    <3> QED
      BY <2>1, <3>1 DEF RecordTool
  <2>2. CASE RecordFailedTool(h)
    BY <2>2 DEF RecordFailedTool
  <2>3. {} \in SUBSET Evidence /\ {"change"} \in SUBSET Evidence /\ {"test"} \in SUBSET Evidence
    BY DEF Evidence
  <2> QED
    BY <1>31, <2>1, <2>2, <2>3 DEF ToolResult
<1>32. ASSUME NEW h \in Handlers, Prepare(h) PROVE PublicationInv'
  BY <1>32 DEF Prepare
<1>33. ASSUME NEW h \in Handlers, Publish(h) PROVE PublicationInv'
  BY <1>33 DEF Publish
<1>34. ASSUME NEW h \in Handlers, ReadStalled(h) PROVE PublicationInv'
  BY <1>34 DEF ReadStalled
<1>35. ASSUME NEW h \in Handlers, Recover(h) PROVE PublicationInv'
  BY <1>35 DEF Recover
<1>36. ASSUME NEW h \in Handlers, Reconcile(h) PROVE PublicationInv'
  BY <1>36 DEF Reconcile, ReadBound
<1>37. ASSUME NEW t \in Threads, ClaimLost(t) PROVE PublicationInv'
  BY <1>37 DEF ClaimLost
<1>38. ASSUME NEW t \in Threads, ClaimCloseout(t) PROVE PublicationInv'
  BY <1>38 DEF ClaimCloseout
<1>39. ASSUME NEW t \in Threads, Inspect(t) PROVE PublicationInv'
  BY <1>39 DEF Inspect
<1>40. ASSUME NEW t \in Threads, RecordObserved(t) PROVE PublicationInv'
  BY <1>40 DEF RecordObserved, Evidence
<1>41. ASSUME NEW t \in Threads, Regress(t) PROVE PublicationInv'
  BY <1>41 DEF Regress
<1>42. ASSUME NEW t \in Threads, RecordEvidence(t) PROVE PublicationInv'
  BY <1>42 DEF RecordEvidence
<1>43. ASSUME NEW t \in Threads, PrepareCloseout(t) PROVE PublicationInv'
  BY <1>43 DEF PrepareCloseout
<1>44. ASSUME NEW t \in Threads, Restore(t) PROVE PublicationInv'
  BY <1>44 DEF Restore
<1>45. ASSUME NEW t \in Threads, CloseoutRaises(t) PROVE PublicationInv'
  BY <1>45 DEF CloseoutRaises
<1>46. ASSUME NEW t \in Threads, Block(t) PROVE PublicationInv'
  BY <1>46 DEF Block
<1>47. ASSUME NEW t \in Threads, Crash(t) PROVE PublicationInv'
  BY <1>47 DEF Crash
<1>48. CASE PermissionEnds
  BY <1>48 DEF PermissionEnds
<1>49. CASE UNCHANGED vars
  BY <1>49 DEF vars
<1> QED
    BY <1>1, <1>2, <1>3, <1>4, <1>5, <1>6, <1>7, <1>8, <1>9, <1>10, <1>11, <1>12, <1>13, <1>14,
       <1>50,
     <1>15, <1>16, <1>17, <1>18, <1>19, <1>20, <1>21, <1>22, <1>23, <1>24, <1>25, <1>26, <1>27,
     <1>28, <1>29, <1>30, <1>31, <1>32, <1>33, <1>34, <1>35, <1>36, <1>37, <1>38, <1>39, <1>40,
     <1>41, <1>42, <1>43, <1>44, <1>45, <1>46, <1>47, <1>48, <1>49
     DEF Next, StartStep, SubmitStep, AgentTool, CloseoutStep, ReceiveRequest, RequestStep

\* A job is ready for, or has, a Draft PR only with all the evidence, and only
\* a job with a created Draft PR is called completed.
THEOREM PublicationIsEvidenced == Spec => []PublishedWithEvidence
<1>1. Init => PublicationInv
  BY DEF Init, PublicationInv, PublishedWithEvidence
<1>2. PublicationInv => PublishedWithEvidence
  BY DEF PublicationInv
<1> QED
  BY <1>1, <1>2, StepPublication, TypeCorrect, PTL DEF Spec

-----------------------------------------------------------------------------
(* Who works on a row that says running under a claim.                     *)

\* Such a row with nobody at work on it.
Orphaned == status = "running" /\ IsClaim(ref) /\ Working = {}

\* The four ways the code leaves one behind: the thread that holds the claim
\* dies, its closeout raises, a tool route writes its verdict over the row, and
\* a recovery calls a blocked row running again.
Orphans(t) ==
  \/ pc[t] \in OwnerPCs /\ (Crash(t) \/ CloseoutRaises(t))
  \/ \E found \in SUBSET Evidence, merged \in BOOLEAN : RecordTool(t, found, merged)
  \/ Recover(t)

\* A step of t moves t alone, and takes it into a tool call or a recovery only
\* where such requests arrive.
Arrives(t) ==
  /\ \A u \in Threads \ {t} : pc'[u] = pc[u]
  /\ pc'[t] = "tool" => "tool" \in Requests
  /\ pc'[t] \in {"stalled", "recover"} =>
       pc[t] \in {"stalled", "recover"} \/ "recover" \in Requests

\* A step of t leaves the row running under a claim only at work on it itself,
\* or having found it so.
Keeps(t) ==
  status' = "running" /\ IsClaim(ref') =>
    \/ pc'[t] \in OwnerPCs
    \/ status = "running" /\ IsClaim(ref) /\ pc[t] \notin OwnerPCs

Settles(t) == Arrives(t) /\ (Keeps(t) \/ Orphans(t))

LEMMA StepSettles ==
  ThreadsOK /\ Starting /\ [Next]_vars =>
    (\E t \in Threads : Settles(t)) \/ UNCHANGED <<status, ref, pc>>
<1> SUFFICES ASSUME ThreadsOK, Starting, [Next]_vars
             PROVE  (\E t \in Threads : Settles(t)) \/ UNCHANGED <<status, ref, pc>>
  OBVIOUS
<1> USE DEF ThreadsOK, Starting, At, Goto, Leave, Write, SwapRef, MarkPrepared, Receive, row,
            Threads, NoRef, IsClaim, OwnerPCs, SubmitPCs, CloseoutPCs, StartPCs
<1>1. ASSUME NEW r \in Reconcilers, ListPending(r) PROVE Settles(r)
  BY <1>1 DEF ListPending, Settles, Arrives, Keeps
<1>2. ASSUME NEW r \in Reconcilers, ListBound(r) PROVE Settles(r)
  BY <1>2 DEF ListBound, ReadBound, Settles, Arrives, Keeps
<1>3. ASSUME NEW r \in Reconcilers, ClaimSubmit(r) PROVE Settles(r)
  BY <1>3 DEF ClaimSubmit, Claim, Settles, Arrives, Keeps
<1>4. ASSUME NEW r \in Reconcilers, CheckAuthority(r) PROVE Settles(r)
  BY <1>4 DEF CheckAuthority, Settles, Arrives, Keeps
<1>5. ASSUME NEW r \in Reconcilers, MarkStarted(r) PROVE Settles(r)
  BY <1>5 DEF MarkStarted, Settles, Arrives, Keeps
<1>6. ASSUME NEW r \in Reconcilers, Admit(r) PROVE Settles(r)
  BY <1>6 DEF Admit, Settles, Arrives, Keeps
<1>7. ASSUME NEW r \in Reconcilers, AdmissionFails(r) PROVE Settles(r)
  BY <1>7 DEF AdmissionFails, Settles, Arrives, Keeps
<1>8. ASSUME NEW r \in Reconcilers, TurnCompletes(r) PROVE Settles(r)
  BY <1>8 DEF TurnCompletes, Settles, Arrives, Keeps
<1>9. ASSUME NEW r \in Reconcilers, RotateRoute(r) PROVE Settles(r)
  BY <1>9 DEF RotateRoute, Settles, Arrives, Keeps
<1>10. ASSUME NEW r \in Reconcilers, TurnFails(r) PROVE Settles(r)
  BY <1>10 DEF TurnFails, Settles, Arrives, Keeps
<1>11. ASSUME NEW r \in Reconcilers, Finalize(r) PROVE Settles(r)
  BY <1>11 DEF Finalize, Bound, Settles, Arrives, Keeps
<1>12. ASSUME NEW r \in Reconcilers, AgentEdits(r) PROVE Settles(r)
  BY <1>12 DEF AgentEdits, Settles, Arrives, Keeps
<1>13. ASSUME NEW r \in Reconcilers, AgentEditsUncounted(r) PROVE Settles(r)
  BY <1>13 DEF AgentEditsUncounted, Settles, Arrives, Keeps
<1>14. ASSUME NEW r \in Reconcilers, AgentTests(r) PROVE Settles(r)
  BY <1>14 DEF AgentTests, Settles, Arrives, Keeps
<1>15. ASSUME NEW h \in Handlers, Provision(h) PROVE Settles(h)
  BY <1>15 DEF Provision, Settles, Arrives, Keeps
<1>16. ASSUME NEW h \in Handlers, CloneRepo(h) PROVE Settles(h)
  BY <1>16 DEF CloneRepo, Settles, Arrives, Keeps
<1>17. ASSUME NEW h \in Handlers, ReadBack(h) PROVE Settles(h)
  BY <1>17 DEF ReadBack, Settles, Arrives, Keeps
<1>18. ASSUME NEW h \in Handlers, CodeHunt(h) PROVE Settles(h)
  BY <1>18 DEF CodeHunt, Settles, Arrives, Keeps
<1>19. ASSUME NEW h \in Handlers, CodeHuntBlocks(h) PROVE Settles(h)
  BY <1>19 DEF CodeHuntBlocks, Settles, Arrives, Keeps
<1>20. ASSUME NEW h \in Handlers, BindPermission(h) PROVE Settles(h)
  BY <1>20 DEF BindPermission, Settles, Arrives, Keeps
<1>21. ASSUME NEW h \in Handlers, QueuePending(h) PROVE Settles(h)
  BY <1>21 DEF QueuePending, Pending, Settles, Arrives, Keeps
<1>22. ASSUME NEW h \in Handlers, ReceiveCancel(h) PROVE Settles(h)
  BY <1>22 DEF ReceiveCancel, Settles, Arrives, Keeps
<1>23. ASSUME NEW h \in Handlers, ReceiveCleanup(h) PROVE Settles(h)
  BY <1>23 DEF ReceiveCleanup, Settles, Arrives, Keeps
<1>24. ASSUME NEW h \in Handlers, ReceiveTool(h) PROVE Settles(h)
  BY <1>24 DEF ReceiveTool, Settles, Arrives, Keeps
<1>25. ASSUME NEW h \in Handlers, ReceivePrepare(h) PROVE Settles(h)
  BY <1>25 DEF ReceivePrepare, Settles, Arrives, Keeps
<1>26. ASSUME NEW h \in Handlers, ReceiveCreate(h) PROVE Settles(h)
  BY <1>26 DEF ReceiveCreate, Settles, Arrives, Keeps
<1>27. ASSUME NEW h \in Handlers, ReceiveReadback(h) PROVE Settles(h)
  BY <1>27 DEF ReceiveReadback, Settles, Arrives, Keeps
<1>28. ASSUME NEW h \in Handlers, ObserveStall(h) PROVE Settles(h)
  BY <1>28 DEF ObserveStall, Settles, Arrives, Keeps
<1>29. ASSUME NEW h \in Handlers, Cancel(h) PROVE Settles(h)
  BY <1>29 DEF Cancel, Settles, Arrives, Keeps
<1>30. ASSUME NEW h \in Handlers, RemoveWorkspace(h) PROVE Settles(h)
  BY <1>30 DEF RemoveWorkspace, Settles, Arrives, Keeps
<1>31. ASSUME NEW h \in Handlers, MarkCleaned(h) PROVE Settles(h)
  BY <1>31 DEF MarkCleaned, Settles, Arrives, Keeps
<1>32. ASSUME NEW h \in Handlers, ToolResult(h) PROVE Settles(h)
  <2>1. Arrives(h)
    BY <1>32 DEF ToolResult, RecordTool, RecordFailedTool, Arrives
  <2>2. CASE RecordFailedTool(h)
    BY <2>1, <2>2 DEF RecordFailedTool, Settles, Keeps
  <2>3. CASE \E found \in SUBSET Evidence, merged \in BOOLEAN : RecordTool(h, found, merged)
    BY <2>1, <2>3 DEF Settles, Orphans
  <2>4. {} \in SUBSET Evidence /\ {"change"} \in SUBSET Evidence /\ {"test"} \in SUBSET Evidence
    BY DEF Evidence
  <2> QED
    BY <1>32, <2>2, <2>3, <2>4 DEF ToolResult
<1>33. ASSUME NEW h \in Handlers, Prepare(h) PROVE Settles(h)
  BY <1>33 DEF Prepare, Settles, Arrives, Keeps
<1>34. ASSUME NEW h \in Handlers, Publish(h) PROVE Settles(h)
  BY <1>34 DEF Publish, Settles, Arrives, Keeps
<1>35. ASSUME NEW h \in Handlers, ReadStalled(h) PROVE Settles(h)
  BY <1>35 DEF ReadStalled, Settles, Arrives, Keeps
<1>36. ASSUME NEW h \in Handlers, Recover(h) PROVE Settles(h)
  BY <1>36 DEF Recover, Orphans, Settles, Arrives, Keeps
<1>37. ASSUME NEW h \in Handlers, Reconcile(h) PROVE Settles(h)
  BY <1>37 DEF Reconcile, ReadBound, Settles, Arrives, Keeps
<1>38. ASSUME NEW t \in Threads, ClaimLost(t) PROVE Settles(t)
  BY <1>38 DEF ClaimLost, Settles, Arrives, Keeps
<1>39. ASSUME NEW t \in Threads, ClaimCloseout(t) PROVE Settles(t)
  BY <1>39 DEF ClaimCloseout, Claim, Settles, Arrives, Keeps
<1>40. ASSUME NEW t \in Threads, Inspect(t) PROVE Settles(t)
  BY <1>40 DEF Inspect, Settles, Arrives, Keeps
<1>41. ASSUME NEW t \in Threads, RecordObserved(t) PROVE Settles(t)
  BY <1>41 DEF RecordObserved, Settles, Arrives, Keeps
<1>42. ASSUME NEW t \in Threads, Regress(t) PROVE Settles(t)
  BY <1>42 DEF Regress, Settles, Arrives, Keeps
<1>43. ASSUME NEW t \in Threads, RecordEvidence(t) PROVE Settles(t)
  BY <1>43 DEF RecordEvidence, Settles, Arrives, Keeps
<1>44. ASSUME NEW t \in Threads, PrepareCloseout(t) PROVE Settles(t)
  BY <1>44 DEF PrepareCloseout, Settles, Arrives, Keeps
<1>45. ASSUME NEW t \in Threads, Restore(t) PROVE Settles(t)
  BY <1>45 DEF Restore, Bound, Settles, Arrives, Keeps
<1>46. ASSUME NEW t \in Threads, CloseoutRaises(t) PROVE Settles(t)
  BY <1>46 DEF CloseoutRaises, Orphans, Settles, Arrives, Keeps
<1>47. ASSUME NEW t \in Threads, Block(t) PROVE Settles(t)
  BY <1>47 DEF Block, Settles, Arrives, Keeps
<1>48. ASSUME NEW t \in Threads, Crash(t) PROVE Settles(t)
  BY <1>48 DEF Crash, Orphans, Settles, Arrives, Keeps
<1>49. CASE PermissionEnds
  BY <1>49 DEF PermissionEnds
<1>50. CASE UNCHANGED vars
  BY <1>50 DEF vars
<1> QED
  BY <1>1, <1>2, <1>3, <1>4, <1>5, <1>6, <1>7, <1>8, <1>9, <1>10, <1>11, <1>12, <1>13, <1>14, <1>15, <1>16, <1>17, <1>18, <1>19, <1>20, <1>21, <1>22, <1>23, <1>24, <1>25, <1>26, <1>27, <1>28, <1>29, <1>30, <1>31, <1>32, <1>33, <1>34, <1>35, <1>36, <1>37, <1>38, <1>39, <1>40, <1>41, <1>42, <1>43, <1>44, <1>45, <1>46, <1>47, <1>48, <1>49, <1>50
     DEF Next, StartStep, SubmitStep, AgentTool, CloseoutStep, ReceiveRequest, RequestStep

\* A step that only settles leaves no row behind without its worker.
LEMMA SettledStays ==
  ASSUME ThreadsOK, NEW t \in Threads, Arrives(t), Keeps(t)
  PROVE  Orphaned' => Orphaned
  BY DEF ThreadsOK, Arrives, Keeps, Orphaned, Working

\* Whatever the requests and the faults, a row that says running under a claim
\* loses the last thread working on it in those four ways and in no other.
THEOREM OrphansHaveACause ==
  Spec => [][Orphaned' => Orphaned \/ \E t \in Threads : Orphans(t)]_vars
<1>1. TypeOK /\ ExecutionInv /\ [Next]_vars =>
        [Orphaned' => Orphaned \/ \E t \in Threads : Orphans(t)]_vars
  <2> SUFFICES ASSUME TypeOK, ExecutionInv, [Next]_vars, Orphaned', ~Orphaned
               PROVE  \E t \in Threads : Orphans(t)
    OBVIOUS
  <2>1. PICK t \in Threads : Settles(t)
    BY StepSettles DEF TypeOK, ExecutionInv, Orphaned, Working
  <2>2. ~Keeps(t)
    BY <2>1, SettledStays DEF TypeOK, Settles
  <2> QED
    BY <2>1, <2>2 DEF Settles
<1> QED
  BY TypeCorrect, ExecutionInvariant, <1>1, PTL DEF Spec

\* No thread dies, no closeout raises, and nobody asks for a tool or a recovery.
Undisturbed ==
  MaxCrashes = 0 /\ ~CloseoutFaults /\ Requests \cap {"tool", "recover"} = {}

\* No thread is then in a tool call or a recovery.
NobodyDisturbs == \A t \in Threads : pc[t] \notin {"tool", "stalled", "recover"}

\* Where nothing disturbs it, a row that says running under a claim has a thread
\* working on it, whatever is cancelled, cleaned up, prepared, published or
\* read back meanwhile.
THEOREM RunningIsWorkedOn == ASSUME Undisturbed PROVE Spec => []NoPerpetualRunning
<1>1. Init => NoPerpetualRunning /\ NobodyDisturbs
  BY DEF Init, NoPerpetualRunning, NobodyDisturbs
<1>2. TypeOK /\ ExecutionInv /\ NoPerpetualRunning /\ NobodyDisturbs /\ [Next]_vars =>
        (NoPerpetualRunning /\ NobodyDisturbs)'
  <2> SUFFICES ASSUME TypeOK, ExecutionInv, NoPerpetualRunning, NobodyDisturbs, [Next]_vars
               PROVE  (NoPerpetualRunning /\ NobodyDisturbs)'
    OBVIOUS
  <2>1. CASE UNCHANGED <<status, ref, pc>>
    BY <2>1 DEF NoPerpetualRunning, NobodyDisturbs, Working
  <2>2. ASSUME NEW t \in Threads, Settles(t)
        PROVE  (NoPerpetualRunning /\ NobodyDisturbs)'
    <3>1. NobodyDisturbs'
      BY <2>2 DEF Settles, Arrives, NobodyDisturbs, Undisturbed
    <3>2. ~Orphans(t)
      <4>1. pc[t] \notin {"tool", "recover"}
        BY DEF NobodyDisturbs
      <4>2. ~Crash(t)
        BY BoundsAssumption DEF TypeOK, Undisturbed, Crash
      <4>3. ~CloseoutRaises(t)
        BY DEF Undisturbed, CloseoutRaises
      <4> QED
        BY <4>1, <4>2, <4>3 DEF Orphans, RecordTool, Recover, At
    <3>3. ~Orphaned
      BY DEF NoPerpetualRunning, Orphaned
    <3>4. ~Orphaned'
      BY <2>2, <3>2, <3>3, SettledStays DEF Settles, TypeOK
    <3> QED
      BY <3>1, <3>4 DEF NoPerpetualRunning, Orphaned
  <2> QED
    BY <2>1, <2>2, StepSettles DEF TypeOK, ExecutionInv
<1> QED
  BY <1>1, <1>2, TypeCorrect, ExecutionInvariant, PTL DEF Spec

-----------------------------------------------------------------------------
(* What does hold of a cancellation.                                         *)

\* A tool route or a recovery calls the row running again.
Retakes ==
  \E h \in Handlers :
    \/ \E found \in SUBSET Evidence, merged \in BOOLEAN : RecordTool(h, found, merged)
    \/ Recover(h)

\* Where a thread calls the row running on the job's own way.
RunningPCs == {"clone", "start", "observe", "evidence"}

LEMMA StepRuns ==
  [Next]_vars /\ status' = "running" =>
    status = "running" \/ Retakes \/ \E t \in Threads : pc[t] \in RunningPCs
<1> SUFFICES ASSUME [Next]_vars, status' = "running", status # "running"
             PROVE  Retakes \/ \E t \in Threads : pc[t] \in RunningPCs
  OBVIOUS
<1> USE DEF At, Write, SwapRef, MarkPrepared, Receive, row, Threads, RunningPCs
<1>1. ASSUME NEW r \in Reconcilers, ListPending(r) \/ ListBound(r) \/ SubmitStep(r) \/ AgentTool(r)
      PROVE  \E t \in Threads : pc[t] \in RunningPCs
  BY <1>1 DEF ListPending, ListBound, ReadBound, SubmitStep, ClaimSubmit, CheckAuthority,
     MarkStarted, Admit, AdmissionFails, TurnCompletes, RotateRoute, TurnFails, Finalize,
     AgentTool, AgentEdits, AgentEditsUncounted, AgentTests
<1>2. ASSUME NEW h \in Handlers, StartStep(h)
      PROVE  \E t \in Threads : pc[t] \in RunningPCs
  BY <1>2 DEF StartStep, Provision, CloneRepo, ReadBack, CodeHunt, CodeHuntBlocks,
     BindPermission, QueuePending
<1>3. ASSUME NEW h \in Handlers, ReceiveRequest(h)
      PROVE  FALSE
  BY <1>3 DEF ReceiveRequest, ReceiveCancel, ReceiveCleanup, ReceiveTool, ReceivePrepare,
     ReceiveCreate, ReceiveReadback, ObserveStall
<1>4. ASSUME NEW h \in Handlers, RequestStep(h)
      PROVE  Retakes
  <2>1. CASE ToolResult(h)
    <3>1. {} \in SUBSET Evidence /\ {"change"} \in SUBSET Evidence /\ {"test"} \in SUBSET Evidence
      BY DEF Evidence
    <3>2. ~RecordFailedTool(h)
      BY DEF RecordFailedTool
    <3> QED
      BY <2>1, <3>1, <3>2 DEF ToolResult, Retakes
  <2>2. CASE Recover(h)
    BY <2>2 DEF Retakes
  <2>3. ~Cancel(h) /\ ~RemoveWorkspace(h) /\ ~MarkCleaned(h) /\ ~Prepare(h) /\ ~Publish(h)
        /\ ~ReadStalled(h) /\ ~Reconcile(h)
    BY DEF Cancel, RemoveWorkspace, MarkCleaned, Prepare, Publish, ReadStalled, Reconcile, ReadBound
  <2> QED
    BY <1>4, <2>1, <2>2, <2>3 DEF RequestStep
<1>5. ASSUME NEW t \in Threads,
             ClaimLost(t) \/ CloseoutStep(t) \/ CloseoutRaises(t) \/ Block(t) \/ Crash(t)
      PROVE  \E u \in Threads : pc[u] \in RunningPCs
  BY <1>5 DEF ClaimLost, CloseoutStep, ClaimCloseout, Inspect, RecordObserved, Regress,
     RecordEvidence, PrepareCloseout, Restore, CloseoutRaises, Block, Crash
<1>6. ~PermissionEnds /\ ~UNCHANGED vars
  BY DEF PermissionEnds, vars
<1> QED
  BY <1>1, <1>2, <1>3, <1>4, <1>5, <1>6 DEF Next

\* A turn starts on a running row.
LEMMA TurnsStartRunning ==
  ASSUME TypeOK, Shape, TurnStarts
  PROVE  status = "running"
<1>1. PICK r \in Reconcilers : pc[r] = "admit" /\ pc'[r] = "model"
  BY DEF TurnStarts
<1> USE DEF Threads, TypeOK, ThreadsOK
<1>2. CASE Outside
  BY <1>1, <1>2 DEF Outside
<1>3. ASSUME NEW t \in Threads, Ordinary(t)
      PROVE  status = "running"
  BY <1>1, <1>3 DEF Ordinary
<1>4. ASSUME NEW t \in Threads, Releases(t)
      PROVE  FALSE
  BY <1>1, <1>4 DEF Releases
<1>5. ASSUME NEW t \in Threads, ClaimCloseout(t)
      PROVE  FALSE
  BY <1>1, <1>5 DEF ClaimCloseout, Goto
<1>6. ASSUME NEW t \in Reconcilers, ClaimSubmit(t)
      PROVE  FALSE
  BY <1>1, <1>6 DEF ClaimSubmit, Goto
<1>7. ASSUME NEW t \in Handlers, QueuePending(t)
      PROVE  FALSE
  BY <1>1, <1>7 DEF QueuePending, Leave
<1> QED
  BY <1>2, <1>3, <1>4, <1>5, <1>6, <1>7 DEF Shape

\* The executor has marked its start.
Begun == \E r \in Reconcilers : pc[r] \in {"admit", "model", "finalize"}

\* Once it has, a cancellation stands: while the executor is on its turns nothing but a
\* tool route or a recovery calls the row running again, and until then no turn starts.
THEOREM CancelStandsOnceBegun ==
  Spec => [][Begun /\ status # "running" /\ ~Retakes => status' # "running" /\ ~TurnStarts]_vars
<1>1. TypeOK /\ ExecutionInv /\ [Next]_vars =>
        [Begun /\ status # "running" /\ ~Retakes => status' # "running" /\ ~TurnStarts]_vars
  <2> SUFFICES ASSUME TypeOK, ExecutionInv, [Next]_vars, Begun, status # "running", ~Retakes
               PROVE  status' # "running" /\ ~TurnStarts
    OBVIOUS
  <2>1. ~TurnStarts
    BY TurnsStartRunning, StepShape DEF TypeOK
  <2>2. PICK r \in Reconcilers : pc[r] \in {"admit", "model", "finalize"}
    BY DEF Begun
  <2>3. r \in Working /\ IsClaim(ref) /\ ref.kind = "submit"
    BY <2>2 DEF Working, Threads, ExecutionInv, ClaimHeld, KindHeld, OwnerPCs, SubmitPCs
  <2>4. ASSUME NEW t \in Threads, pc[t] \in RunningPCs
        PROVE  FALSE
    <3>1. pc[t] # "clone"
      BY <2>3 DEF ExecutionInv, Starting, StartPCs, IsClaim, NoRef
    <3>2. pc[t] \notin {"observe", "evidence"}
      BY <2>3 DEF ExecutionInv, KindHeld, CloseoutPCs
    <3>3. pc[t] # "start"
      BY <2>2, <2>3 DEF ExecutionInv, OneWorker, Working, OwnerPCs, SubmitPCs
    <3> QED
      BY <2>4, <3>1, <3>2, <3>3 DEF RunningPCs
  <2> QED
    BY <2>1, <2>4, StepRuns
<1> QED
  BY <1>1, TypeCorrect, ExecutionInvariant, PTL DEF Spec

=============================================================================
