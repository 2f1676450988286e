-------------------------- MODULE ToolCalls_proofs --------------------------
(* What holds of ToolCalls for any number of workers, any budget, any limit  *)
(* of the circuit and any number of faults.                                  *)
EXTENDS ToolCalls, FiniteSums

(* The invariant.                                                            *)

Called == {"tool", "save", "readback", "finish", "append"}
MutationReceipted(rs) == \E k \in DOMAIN rs : rs[k].mutation

\* What a worker's locals say about the call it works on, and about its receipt.
Good(l, cs, rs) ==
  /\ l.place \in {"idle", "opened", "count"} => l.call = 0
  /\ l.place \in Called => l.call # 0
  /\ l.call # 0 => l.call \in DOMAIN cs
  /\ l.place \in Called \ {"finish"} => cs[l.call].status = "RUNNING"
  /\ l.place \in {"tool", "save", "readback"} => cs[l.call].tool = l.tool
  /\ l.mutation => \/ /\ l.place \in {"finish", "append"} /\ ~l.failing
                      /\ l.result = "done" /\ cs[l.call].tool = "write"
                   \/ l.place = "count" /\ MutationReceipted(rs)
  /\ l.failing => l.place \in {"finish", "append"}

LocalsGood == \A w \in Workers : Good(exec[w], calls, receipts)

\* No two workers have the same call.
CallsApart == \A v, w \in Workers : exec[v].call = exec[w].call /\ v # w => exec[v].call = 0

ReceiptsOfCalls == \A k \in DOMAIN receipts : receipts[k].call \in DOMAIN calls

CallInv == LocalsGood /\ CallsApart /\ ReceiptsOfCalls /\ SettledCallsAreReceipted

TaskInv ==
  turn.at = "running" /\ task.status = "RUNNING" =>
    \/ Forgotten(Tools)
    \/ Len(receipts) = turn.since
    \/ receipts # <<>> /\ calls[receipts[Len(receipts)].call].status = "COMPLETED"

\* What LedgerFollowsWorkspace becomes while a call is under way.
LastDiff == IF receipts = <<>> THEN Clean ELSE receipts[Len(receipts)].diff
Alone == \A v, w \in Workers : v # w => At(v, "idle") \/ At(w, "idle")
DiffsFresh == \A w \in Workers : exec[w].place \in {"finish", "append"} => exec[w].diff = content
LedgerInv ==
  ~overlap => /\ Alone /\ DiffsFresh
              /\ Forgotten({"write", "test"}) \/ content = LastDiff

\* The calls that may still be counted as failures.
Uncounted == {w \in Workers : ~At(w, "idle") /\ ~exec[w].failing}
CircuitInv ==
  IF breaker.open
  THEN breaker.failures + Cardinality(Uncounted) < FailureLimit + Cardinality(Workers)
  ELSE breaker.failures < FailureLimit

-----------------------------------------------------------------------------
(* Types.                                                                    *)

\* What an exception makes of the locals, and what Open makes of them.
Raised(l) == IF l.failing THEN Idle ELSE [Idle EXCEPT !.place = "raised", !.call = l.call]

LEMMA RaiseBecomes ==
  ASSUME NEW w \in Workers
  PROVE  Raise(w) <=> Become(w, Raised(exec[w]))
  BY DEF Raise, Raised

LEMMA IdleTyped == Idle \in Locals
  BY DataAssumption DEF Idle, Locals, Places, Tools, Results, Gates

LEMMA RaisedTyped ==
  ASSUME NEW l \in Locals
  PROVE  Raised(l) \in Locals /\ Raised(l).call \in {0, l.call}
  BY IdleTyped DEF Raised, Locals, Idle, Places

LEMMA Becomes ==
  ASSUME exec \in [Workers -> Locals], NEW w \in Workers, NEW l \in Locals, Become(w, l)
  PROVE  /\ exec' \in [Workers -> Locals]
         /\ exec'[w] = l
         /\ \A v \in Workers \ {w} : exec'[v] = exec[v]
  BY DEF Become

\* A row that is appended, and a status that is set.
LEMMA Appended ==
  ASSUME NEW S, NEW s \in Seq(S), NEW x \in S
  PROVE  /\ Append(s, x) \in Seq(S) /\ Len(Append(s, x)) = Len(s) + 1
         /\ DOMAIN s = 1..Len(s) /\ DOMAIN Append(s, x) = 1..(Len(s) + 1)
         /\ \A i \in DOMAIN s : Append(s, x)[i] = s[i]
         /\ Append(s, x)[Len(s) + 1] = x /\ Append(s, x) # <<>>
  OBVIOUS

LEMMA Updated ==
  ASSUME NEW S, NEW s \in Seq(S), NEW c \in DOMAIN s, NEW x \in S
  PROVE  [s EXCEPT ![c] = x] \in Seq(S) /\ Len([s EXCEPT ![c] = x]) = Len(s)
  OBVIOUS

WithStatus(s, c, status) == [s EXCEPT ![c].status = status]

LEMMA Settled ==
  ASSUME NEW s \in Seq(CallRow), NEW c \in DOMAIN s, NEW status \in CallStatuses
  PROVE  /\ WithStatus(s, c, status) \in Seq(CallRow)
         /\ DOMAIN WithStatus(s, c, status) = DOMAIN s
         /\ WithStatus(s, c, status)[c] = [tool |-> s[c].tool, status |-> status]
         /\ \A d \in DOMAIN s : d # c => WithStatus(s, c, status)[d] = s[d]
         /\ \A d \in DOMAIN s : WithStatus(s, c, status)[d].tool = s[d].tool
<1>. DEFINE t == WithStatus(s, c, status)
<1>1. \A d \in DOMAIN s : s[d] \in CallRow
  OBVIOUS
<1>2. [s[c] EXCEPT !.status = status] = [tool |-> s[c].tool, status |-> status]
  BY <1>1 DEF CallRow
<1>3. [tool |-> s[c].tool, status |-> status] \in CallRow
  BY <1>1 DEF CallRow
<1>4. t = [s EXCEPT ![c] = [tool |-> s[c].tool, status |-> status]]
  BY <1>2 DEF WithStatus
<1>. HIDE DEF t
<1>5. DOMAIN t = DOMAIN s /\ t[c] = [tool |-> s[c].tool, status |-> status]
  BY <1>4
<1>6. \A d \in DOMAIN s : d # c => t[d] = s[d]
  BY <1>4
<1>7. t \in Seq(CallRow)
  <2>1. PICK row \in CallRow : t = [s EXCEPT ![c] = row]
    BY <1>3, <1>4
  <2>. QED  BY <2>1, Updated
<1>8. \A d \in DOMAIN s : t[d].tool = s[d].tool
  <2>1. t[c].tool = s[c].tool
    BY <1>5
  <2>. QED  BY <2>1, <1>6
<1>. QED  BY <1>5, <1>6, <1>7, <1>8 DEF t

-----------------------------------------------------------------------------
(* A worker's step.                                                          *)

\* The rows only grow, and of those there are only this worker's call may change.
Grown(w) ==
  /\ DOMAIN calls \subseteq DOMAIN calls'
  /\ \A c \in DOMAIN calls : /\ calls'[c].tool = calls[c].tool
                             /\ c # exec[w].call => calls'[c] = calls[c]
  /\ MutationReceipted(receipts) => MutationReceipted(receipts')

\* A diff that is to be receipted is the workspace's if the last one was.
KeepsFresh(w, l) ==
  l.place \in {"finish", "append"} =>
    \/ l.diff = content'
    \/ exec[w].place \in {"finish", "append"} /\ l.diff = exec[w].diff /\ content' = content

KeepsCount(w, l) == l.place # "idle" /\ ~l.failing => ~At(w, "idle") /\ ~exec[w].failing

Moves(w, l) ==
  /\ l \in Locals /\ Become(w, l)
  /\ l.call \in {0, exec[w].call} \cup (DOMAIN calls' \ DOMAIN calls)
  /\ Good(l, calls', receipts')
  /\ KeepsFresh(w, l)

Works(w, l) == Moves(w, l) /\ KeepsCount(w, l)

LEMMA QuietGrows ==
  ASSUME NEW w \in Workers, UNCHANGED <<calls, receipts>>
  PROVE  Grown(w)
  BY DEF Grown

LEMMA GoodStays ==
  ASSUME TypeOK, NEW w \in Workers, NEW v \in Workers, Grown(w), LocalsGood, CallsApart, v # w
  PROVE  Good(exec[v], calls', receipts')
<1>1. Good(exec[v], calls, receipts) /\ Good(exec[w], calls, receipts)
  BY DEF LocalsGood
<1>2. exec[v].call # 0 => /\ exec[v].call \in DOMAIN calls /\ exec[v].call \in DOMAIN calls'
                          /\ calls'[exec[v].call] = calls[exec[v].call]
  BY <1>1 DEF Grown, CallsApart, Good
<1>3. exec[v].place \in Called => exec[v].call # 0
  BY <1>1 DEF Good
<1>. QED  BY <1>1, <1>2, <1>3 DEF Good, Grown, Called

LEMMA LocalsKeep ==
  ASSUME TypeOK, NEW w \in Workers, NEW l, Moves(w, l), Grown(w), LocalsGood, CallsApart
  PROVE  exec' \in [Workers -> Locals] /\ LocalsGood' /\ CallsApart'
<1>1. /\ exec' \in [Workers -> Locals] /\ exec'[w] = l
      /\ \A v \in Workers \ {w} : exec'[v] = exec[v]
  BY Becomes DEF Moves, TypeOK
<1>2. \A v \in Workers : Good(exec'[v], calls', receipts')
  <2>1. Good(exec'[w], calls', receipts')
    BY <1>1 DEF Moves
  <2>2. \A v \in Workers \ {w} : Good(exec'[v], calls', receipts')
    BY <1>1, GoodStays
  <2>. QED  BY <2>1, <2>2
<1>3. \A v \in Workers \ {w} : exec[v].call # 0 => exec[v].call \in DOMAIN calls /\ exec[v].call # l.call
  BY DEF Moves, LocalsGood, Good, CallsApart
<1>4. CallsApart'
  <2>. SUFFICES ASSUME NEW u \in Workers, NEW v \in Workers, exec'[u].call = exec'[v].call, u # v
                PROVE  exec'[u].call = 0
    BY DEF CallsApart
  <2>1. CASE u = w
    BY <2>1, <1>1, <1>3
  <2>2. CASE v = w
    BY <2>2, <1>1, <1>3
  <2>3. CASE u # w /\ v # w
    BY <2>3, <1>1 DEF CallsApart
  <2>. QED  BY <2>1, <2>2, <2>3
<1>. QED  BY <1>1, <1>2, <1>4 DEF LocalsGood

LEMMA RaiseMoves ==
  ASSUME TypeOK, NEW w \in Workers, Grown(w), LocalsGood, Raise(w), ~At(w, "idle")
  PROVE  Works(w, Raised(exec[w]))
<1>1. exec[w] \in Locals /\ Good(exec[w], calls, receipts)
  BY DEF TypeOK, LocalsGood
<1>2. /\ Raised(exec[w]) \in Locals /\ Raised(exec[w]).call \in {0, exec[w].call}
      /\ Raised(exec[w]).place \in {"idle", "raised"}
      /\ Raised(exec[w]).place = "idle" => Raised(exec[w]).call = 0
      /\ ~Raised(exec[w]).mutation /\ ~Raised(exec[w]).failing
  BY <1>1, RaisedTyped DEF Raised, Idle
<1>3. Raised(exec[w]).call # 0 => Raised(exec[w]).call \in DOMAIN calls'
  BY <1>1, <1>2 DEF Good, Grown
<1>4. Good(Raised(exec[w]), calls', receipts')
  BY <1>2, <1>3 DEF Good, Called
<1>5. KeepsCount(w, Raised(exec[w]))
  BY DEF KeepsCount, Raised, Idle
<1>. QED  BY <1>2, <1>4, <1>5, RaiseBecomes DEF Works, Moves, KeepsFresh

LEMMA IdleMoves ==
  ASSUME TypeOK, NEW w \in Workers, Become(w, Idle)
  PROVE  Works(w, Idle)
  BY IdleTyped DEF Works, Moves, Good, Called, KeepsFresh, KeepsCount, Idle

LEMMA OpenMoves ==
  ASSUME TypeOK, NEW w \in Workers, NEW tool \in Tools, Open(w, tool)
  PROVE  Grown(w) /\ \E l : Moves(w, l)
<1>1. Grown(w)
  BY QuietGrows DEF Open
<1>2. PICK l : l = [Idle EXCEPT !.place = "opened", !.tool = tool, !.found = evidence,
                                !.before = content]
  OBVIOUS
<1>3. l \in Locals /\ l.place = "opened" /\ l.call = 0 /\ ~l.mutation /\ ~l.failing
  BY <1>2, IdleTyped DEF TypeOK, Locals, Idle, Places
<1>4. Moves(w, l)
  BY <1>2, <1>3 DEF Moves, Good, Called, KeepsFresh, Open
<1>. QED  BY <1>1, <1>4

LEMMA StartedMoves ==
  ASSUME TypeOK, LocalsGood, NEW w \in Workers, At(w, "opened"), CallStarted(exec[w].tool),
         receipts' = receipts
  PROVE  /\ Grown(w)
         /\ Become(w, [exec[w] EXCEPT !.place = "tool", !.call = Len(calls) + 1])
              => \E l : Works(w, l)
<1>1. exec[w] \in Locals /\ Good(exec[w], calls, receipts)
  BY DEF TypeOK, LocalsGood
<1>2. [tool |-> exec[w].tool, status |-> "RUNNING"] \in CallRow
  BY <1>1 DEF Locals, CallRow, CallStatuses
<1>3. /\ DOMAIN calls = 1..Len(calls) /\ DOMAIN calls' = 1..(Len(calls) + 1)
      /\ \A c \in DOMAIN calls : calls'[c] = calls[c]
      /\ calls'[Len(calls) + 1] = [tool |-> exec[w].tool, status |-> "RUNNING"]
  BY <1>2, Appended DEF TypeOK, CallStarted
<1>4. Len(calls) \in Nat
  BY DEF TypeOK
<1>5. Grown(w)
  BY <1>3, <1>4 DEF Grown
<1>6. ASSUME Become(w, [exec[w] EXCEPT !.place = "tool", !.call = Len(calls) + 1])
      PROVE  \E l : Works(w, l)
  <2>. PICK n \in Nat : n = Len(calls) + 1
    BY <1>4
  <2>1. PICK l : l = [exec[w] EXCEPT !.place = "tool", !.call = n]
    OBVIOUS
  <2>2. /\ l \in Locals /\ l.place = "tool" /\ l.call = n
        /\ l.tool = exec[w].tool /\ l.mutation = exec[w].mutation /\ l.failing = exec[w].failing
    BY <1>1, <2>1 DEF Locals, Places
  <2>3. Good(l, calls', receipts')
    BY <1>1, <1>3, <1>4, <2>2 DEF Good, Called, At
  <2>4. Works(w, l)
    BY <1>1, <1>3, <1>4, <1>6, <2>1, <2>2, <2>3 DEF Works, Moves, KeepsFresh, KeepsCount, Good, At
  <2>. QED  BY <2>4
<1>. QED  BY <1>5, <1>6

LEMMA StartMoves ==
  ASSUME TypeOK, LocalsGood, NEW w \in Workers, Start(w)
  PROVE  Grown(w) /\ \E l : Works(w, l)
<1>1. At(w, "opened") /\ receipts' = receipts /\ ~At(w, "idle")
  BY DEF Start, At
<1>2. CASE /\ CallStarted(exec[w].tool)
           /\ Become(w, [exec[w] EXCEPT !.place = "tool", !.call = Len(calls) + 1])
  BY <1>1, <1>2, StartedMoves
<1>3. CASE CallStarted(exec[w].tool) /\ Raise(w)
  BY <1>1, <1>3, StartedMoves, RaiseMoves
<1>4. CASE Raise(w) /\ calls' = calls
  BY <1>1, <1>4, QuietGrows, RaiseMoves
<1>. QED  BY <1>2, <1>3, <1>4 DEF Start

LEMMA RunToolMoves ==
  ASSUME TypeOK, LocalsGood, NEW w \in Workers, RunTool(w)
  PROVE  Grown(w) /\ \E l : Works(w, l)
<1>1. Grown(w)
  BY QuietGrows DEF RunTool
<1>2. exec[w] \in Locals /\ Good(exec[w], calls, receipts) /\ At(w, "tool")
  BY DEF TypeOK, LocalsGood, RunTool
<1>3. PICK result \in Results, found \in SUBSET Evidence :
        Become(w, [exec[w] EXCEPT !.place = "save", !.result = result,
                                  !.found = exec[w].found \cup found])
  <2>1. \A result \in Results : Finds(exec[w].tool, result) \subseteq SUBSET Evidence
    BY DEF Finds, Evidence
  <2>. QED  BY <2>1 DEF RunTool
<1>4. PICK l : l = [exec[w] EXCEPT !.place = "save", !.result = result,
                                   !.found = exec[w].found \cup found]
  OBVIOUS
<1>5. /\ l \in Locals /\ l.place = "save" /\ l.call = exec[w].call
      /\ l.tool = exec[w].tool /\ l.mutation = exec[w].mutation /\ l.failing = exec[w].failing
  BY <1>2, <1>4 DEF Locals, Places
<1>6. Good(l, calls', receipts')
  BY <1>2, <1>5 DEF Good, Called, At, RunTool
<1>7. Works(w, l)
  BY <1>2, <1>3, <1>4, <1>5, <1>6 DEF Works, Moves, KeepsFresh, KeepsCount, At
<1>. QED  BY <1>1, <1>7

LEMMA SaveMoves ==
  ASSUME TypeOK, LocalsGood, NEW w \in Workers, Save(w)
  PROVE  Grown(w) /\ \E l : Works(w, l)
<1>1. Grown(w)
  BY QuietGrows DEF Save
<1>2. exec[w] \in Locals /\ Good(exec[w], calls, receipts) /\ At(w, "save")
  BY DEF TypeOK, LocalsGood, Save
<1>3. CASE Become(w, [exec[w] EXCEPT !.place = "readback", !.found = {},
                                     !.gate = GateResult(exec[w].result, exec[w].found)])
  <2>1. PICK gate \in Gates : gate = GateResult(exec[w].result, exec[w].found)
    BY DEF GateResult, Gates
  <2>2. PICK l : l = [exec[w] EXCEPT !.place = "readback", !.found = {}, !.gate = gate]
    OBVIOUS
  <2>3. /\ l \in Locals /\ l.place = "readback" /\ l.call = exec[w].call
        /\ l.tool = exec[w].tool /\ l.mutation = exec[w].mutation /\ l.failing = exec[w].failing
    BY <1>2, <2>2 DEF Locals, Places
  <2>4. Good(l, calls', receipts')
    BY <1>2, <2>3 DEF Good, Called, At, Save
  <2>5. Works(w, l)
    BY <1>2, <1>3, <2>1, <2>2, <2>3, <2>4 DEF Works, Moves, KeepsFresh, KeepsCount, At
  <2>. QED  BY <1>1, <2>5
<1>4. CASE Become(w, [Idle EXCEPT !.place = "raised"])
  <2>1. PICK l : l = [Idle EXCEPT !.place = "raised"]
    OBVIOUS
  <2>2. l \in Locals /\ l.place = "raised" /\ l.call = 0 /\ ~l.mutation /\ ~l.failing
    BY <2>1, IdleTyped DEF Locals, Idle, Places
  <2>3. ~exec[w].failing
    BY <1>2 DEF Good, At
  <2>4. Works(w, l)
    BY <1>2, <1>4, <2>1, <2>2, <2>3 DEF Works, Moves, Good, Called, KeepsFresh, KeepsCount, At
  <2>. QED  BY <1>1, <2>4
<1>. QED  BY <1>3, <1>4 DEF Save

LEMMA ReadBackMoves ==
  ASSUME TypeOK, LocalsGood, NEW w \in Workers, ReadBack(w)
  PROVE  Grown(w) /\ \E l : Works(w, l)
<1>1. Grown(w)
  BY QuietGrows DEF ReadBack
<1>2. /\ exec[w] \in Locals /\ Good(exec[w], calls, receipts) /\ At(w, "readback")
      /\ content \in Contents
  BY DEF TypeOK, LocalsGood, ReadBack
<1>3. CASE Raise(w)
  BY <1>1, <1>2, <1>3, RaiseMoves DEF At
<1>4. ASSUME NEW m \in BOOLEAN,
             m => exec[w].tool = "write" /\ exec[w].result = "done",
             Become(w, [exec[w] EXCEPT !.place = "finish", !.diff = content,
                                       !.before = Clean, !.mutation = m])
      PROVE  \E l : Works(w, l)
  <2>1. PICK l : l = [exec[w] EXCEPT !.place = "finish", !.diff = content, !.before = Clean,
                                     !.mutation = m]
    OBVIOUS
  <2>2. /\ l \in Locals /\ l.place = "finish" /\ l.call = exec[w].call /\ l.mutation = m
        /\ l.tool = exec[w].tool /\ l.failing = exec[w].failing /\ l.result = exec[w].result
        /\ l.diff = content
    BY <1>2, <2>1, DataAssumption DEF Locals, Places
  <2>3. Good(l, calls', receipts')
    BY <1>2, <1>4, <2>2 DEF Good, Called, At, ReadBack
  <2>4. KeepsFresh(w, l) /\ KeepsCount(w, l)
    BY <1>2, <2>2 DEF KeepsFresh, KeepsCount, At, ReadBack
  <2>. QED  BY <1>4, <2>1, <2>2, <2>3, <2>4 DEF Works, Moves
<1>5. CASE ~Raise(w)
  <2>. DEFINE m == exec[w].tool = "write" /\ exec[w].result = "done" /\ exec[w].before # content
  <2>1. Become(w, [exec[w] EXCEPT !.place = "finish", !.diff = content,
                                  !.before = Clean, !.mutation = m])
    BY <1>5 DEF ReadBack, Identity
  <2>. QED  BY <1>1, <1>4, <2>1
<1>. QED  BY <1>1, <1>3, <1>5

LEMMA LookMoves ==
  ASSUME TypeOK, LocalsGood, NEW w \in Workers, Look(w)
  PROVE  Grown(w) /\ \E l : Works(w, l)
<1>1. Grown(w)
  BY QuietGrows DEF Look
<1>2. exec[w] \in Locals /\ Good(exec[w], calls, receipts) /\ At(w, "finish")
  BY DEF TypeOK, LocalsGood, Look
<1>3. CASE Raise(w)
  BY <1>1, <1>2, <1>3, RaiseMoves DEF At
<1>4. CASE /\ calls[exec[w].call].status = "RUNNING"
           /\ Become(w, [exec[w] EXCEPT !.place = "append", !.last = Len(receipts)])
  <2>. PICK n \in Nat : n = Len(receipts)
    BY DEF TypeOK
  <2>1. PICK l : l = [exec[w] EXCEPT !.place = "append", !.last = n]
    OBVIOUS
  <2>2. /\ l \in Locals /\ l.place = "append" /\ l.call = exec[w].call
        /\ l.mutation = exec[w].mutation /\ l.failing = exec[w].failing
        /\ l.result = exec[w].result /\ l.diff = exec[w].diff
    BY <1>2, <2>1 DEF Locals, Places
  <2>3. Good(l, calls', receipts')
    BY <1>2, <1>4, <2>2 DEF Good, Called, At, Look
  <2>4. KeepsFresh(w, l) /\ KeepsCount(w, l)
    BY <1>2, <2>2 DEF KeepsFresh, KeepsCount, At, Look
  <2>. QED  BY <1>1, <1>4, <2>1, <2>2, <2>3, <2>4 DEF Works, Moves
<1>. QED  BY <1>3, <1>4 DEF Look, StillRunning

LEMMA CountMoves ==
  ASSUME TypeOK, NEW w \in Workers, Count(w)
  PROVE  Grown(w) /\ Become(w, Idle) /\ Works(w, Idle)
  BY QuietGrows, IdleMoves DEF Count

LEMMA HandleFailureMoves ==
  ASSUME TypeOK, LocalsGood, NEW w \in Workers, HandleFailure(w)
  PROVE  Grown(w) /\ \E l : Works(w, l) /\ (l.place = "idle" \/ l.failing)
<1>1. Grown(w)
  BY QuietGrows DEF HandleFailure
<1>2. /\ exec[w] \in Locals /\ Good(exec[w], calls, receipts) /\ At(w, "raised")
      /\ content \in Contents
  BY DEF TypeOK, LocalsGood, HandleFailure
<1>3. CASE Become(w, Idle)
  <2>1. Idle.place = "idle"
    BY DEF Idle
  <2>2. Works(w, Idle)
    BY <1>3, IdleMoves
  <2>. QED  BY <1>1, <2>1, <2>2
<1>4. CASE /\ exec[w].call # 0
           /\ Become(w, [exec[w] EXCEPT !.place = "finish", !.result = "failed",
                                        !.diff = content, !.failing = TRUE])
  <2>1. PICK l : l = [exec[w] EXCEPT !.place = "finish", !.result = "failed",
                                     !.diff = content, !.failing = TRUE]
    OBVIOUS
  <2>2. /\ l \in Locals /\ l.place = "finish" /\ l.call = exec[w].call
        /\ l.mutation = exec[w].mutation /\ l.failing /\ l.diff = content
    BY <1>2, <2>1 DEF Locals, Places, Results
  <2>3. Good(l, calls', receipts')
    BY <1>2, <1>4, <2>2 DEF Good, Called, At, HandleFailure
  <2>4. KeepsFresh(w, l) /\ KeepsCount(w, l)
    BY <1>2, <2>2 DEF KeepsFresh, KeepsCount, At, HandleFailure
  <2>. QED  BY <1>1, <1>4, <2>1, <2>2, <2>3, <2>4 DEF Works, Moves
<1>. QED  BY <1>3, <1>4 DEF HandleFailure

LEMMA InsertedGrows ==
  ASSUME TypeOK, LocalsGood, NEW w \in Workers, At(w, "append"), Inserted(w)
  PROVE  /\ exec[w].call \in DOMAIN calls /\ calls[exec[w].call].status = "RUNNING"
         /\ Verdict(w) \in {"COMPLETED", "FAILED"}
         /\ calls' \in Seq(CallRow) /\ DOMAIN calls' = DOMAIN calls
         /\ calls'[exec[w].call] = [tool |-> calls[exec[w].call].tool, status |-> Verdict(w)]
         /\ \A c \in DOMAIN calls : c # exec[w].call => calls'[c] = calls[c]
         /\ receipts' \in Seq(Receipt) /\ DOMAIN receipts = 1..Len(receipts)
         /\ Len(receipts) \in Nat /\ Len(receipts') = Len(receipts) + 1
         /\ DOMAIN receipts' = 1..(Len(receipts) + 1) /\ receipts' # <<>>
         /\ \A k \in DOMAIN receipts : receipts'[k] = receipts[k]
         /\ \E x \in Receipt :
              /\ receipts' = Append(receipts, x) /\ receipts'[Len(receipts) + 1] = x
              /\ x.sequence = exec[w].last /\ x.previous = exec[w].last
              /\ x.call = exec[w].call /\ x.mutation = exec[w].mutation /\ x.diff = exec[w].diff
         /\ Grown(w)
<1>1. /\ exec[w] \in Locals /\ Good(exec[w], calls, receipts)
      /\ calls \in Seq(CallRow) /\ receipts \in Seq(Receipt)
  BY DEF TypeOK, LocalsGood
<1>2. exec[w].call \in DOMAIN calls /\ calls[exec[w].call].status = "RUNNING"
  BY <1>1 DEF Good, Called, At
<1>3. Verdict(w) \in {"COMPLETED", "FAILED"} /\ Verdict(w) \in CallStatuses
  BY DEF Verdict, CallStatuses
<1>4. /\ calls' \in Seq(CallRow) /\ DOMAIN calls' = DOMAIN calls
      /\ calls'[exec[w].call] = [tool |-> calls[exec[w].call].tool, status |-> Verdict(w)]
      /\ \A c \in DOMAIN calls : c # exec[w].call => calls'[c] = calls[c]
      /\ \A c \in DOMAIN calls : calls'[c].tool = calls[c].tool
  <2>1. PICK c \in DOMAIN calls : c = exec[w].call
    BY <1>2
  <2>2. calls' = WithStatus(calls, c, Verdict(w))
    BY <2>1 DEF Inserted, WithStatus
  <2>. QED  BY <1>1, <1>3, <2>1, <2>2, Settled
<1>5. PICK x \in Receipt :
        x = [sequence |-> exec[w].last, previous |-> exec[w].last, call |-> exec[w].call,
             kind |-> TestKind(calls[exec[w].call].tool), gate |-> exec[w].gate,
             mutation |-> exec[w].mutation, diff |-> exec[w].diff]
  <2>1. TestKind(calls[exec[w].call].tool) \in {"none", "qualifying", "nonqualifying"}
    BY DEF TestKind
  <2>. QED  BY <1>1, <2>1 DEF Receipt, Locals
<1>6. receipts' = Append(receipts, x)
  BY <1>5 DEF Inserted
<1>7. /\ receipts' \in Seq(Receipt) /\ DOMAIN receipts = 1..Len(receipts)
      /\ Len(receipts') = Len(receipts) + 1
      /\ DOMAIN receipts' = 1..(Len(receipts) + 1) /\ receipts' # <<>>
      /\ \A k \in DOMAIN receipts : receipts'[k] = receipts[k]
      /\ receipts'[Len(receipts) + 1] = x
  BY <1>1, <1>6, Appended
<1>8. Len(receipts) \in Nat
  BY <1>1
<1>9. Grown(w)
  <2>1. MutationReceipted(receipts) => MutationReceipted(receipts')
    BY <1>7, <1>8 DEF MutationReceipted
  <2>. QED  BY <1>4, <2>1 DEF Grown
<1>10. /\ x.sequence = exec[w].last /\ x.previous = exec[w].last
       /\ x.call = exec[w].call /\ x.mutation = exec[w].mutation /\ x.diff = exec[w].diff
  BY <1>5
<1>. QED  BY <1>2, <1>3, <1>4, <1>6, <1>7, <1>8, <1>9, <1>10

LEMMA InsertMoves ==
  ASSUME TypeOK, LocalsGood, NEW w \in Workers, Insert(w)
  PROVE  Grown(w) /\ \E l : Works(w, l)
<1>1. /\ exec[w] \in Locals /\ Good(exec[w], calls, receipts) /\ At(w, "append")
      /\ ~At(w, "idle")
  BY DEF TypeOK, LocalsGood, Insert, At
<1>2. CASE Raise(w) /\ (Inserted(w) \/ UNCHANGED <<receipts, calls>>)
  BY <1>1, <1>2, InsertedGrows, QuietGrows, RaiseMoves
<1>3. CASE /\ Inserted(w)
           /\ Become(w, IF exec[w].failing THEN Idle
                        ELSE [Idle EXCEPT !.place = "count", !.result = exec[w].result,
                                          !.mutation = exec[w].mutation])
  <2>1. CASE exec[w].failing
    BY <1>1, <1>3, <2>1, InsertedGrows, IdleMoves
  <2>2. CASE ~exec[w].failing
    <3>1. PICK l : l = [Idle EXCEPT !.place = "count", !.result = exec[w].result,
                                    !.mutation = exec[w].mutation]
      OBVIOUS
    <3>2. /\ l \in Locals /\ l.place = "count" /\ l.call = 0 /\ ~l.failing
          /\ l.mutation = exec[w].mutation
      BY <1>1, <3>1, IdleTyped DEF Locals, Idle, Places
    <3>3. exec[w].mutation => MutationReceipted(receipts')
      <4>1. PICK x \in Receipt : /\ receipts'[Len(receipts) + 1] = x
                                 /\ x.mutation = exec[w].mutation
        BY <1>1, <1>3, InsertedGrows
      <4>2. Len(receipts) + 1 \in DOMAIN receipts'
        <5>1. Len(receipts) \in Nat /\ DOMAIN receipts' = 1..(Len(receipts) + 1)
          BY <1>1, <1>3, InsertedGrows
        <5>. QED  BY <5>1
      <4>. QED  BY <4>1, <4>2 DEF MutationReceipted
    <3>4. Good(l, calls', receipts')
      BY <3>2, <3>3 DEF Good, Called
    <3>5. KeepsFresh(w, l) /\ KeepsCount(w, l)
      BY <1>1, <2>2, <3>2 DEF KeepsFresh, KeepsCount, At
    <3>6. Become(w, l)
      BY <1>3, <2>2, <3>1
    <3>. QED  BY <1>1, <1>3, <3>2, <3>4, <3>5, <3>6, InsertedGrows DEF Works, Moves
  <2>. QED  BY <2>1, <2>2
<1>. QED  BY <1>2, <1>3 DEF Insert

LEMMA StepMoves ==
  ASSUME TypeOK, LocalsGood, NEW w \in Workers, Step(w)
  PROVE  Grown(w) /\ \E l : Works(w, l)
  BY StartMoves, RunToolMoves, SaveMoves, ReadBackMoves, LookMoves, InsertMoves, CountMoves,
     HandleFailureMoves DEF Step

-----------------------------------------------------------------------------
(* Calls and receipts.                                                       *)

RowsOK == ReceiptsOfCalls /\ SettledCallsAreReceipted

LEMMA RowsChange ==
  ASSUME NEW w \in Workers, Step(w)
  PROVE  \/ UNCHANGED <<task, calls, receipts>>
         \/ At(w, "opened") /\ CallStarted(exec[w].tool) /\ UNCHANGED receipts
         \/ At(w, "append") /\ Inserted(w)
<1>1. ASSUME Start(w)
      PROVE  \/ UNCHANGED <<task, calls, receipts>>
             \/ At(w, "opened") /\ CallStarted(exec[w].tool) /\ UNCHANGED receipts
  BY <1>1 DEF Start
<1>2. ASSUME Insert(w)
      PROVE  UNCHANGED <<task, calls, receipts>> \/ (At(w, "append") /\ Inserted(w))
  BY <1>2 DEF Insert
<1>3. ASSUME ~Start(w), ~Insert(w)
      PROVE  UNCHANGED <<task, calls, receipts>>
  BY <1>3 DEF Step, RunTool, Save, ReadBack, Look, Count, HandleFailure
<1>. QED  BY <1>1, <1>2, <1>3

LEMMA RowsQuiet ==
  ASSUME RowsOK, UNCHANGED <<calls, receipts>>
  PROVE  RowsOK'
  BY DEF RowsOK, ReceiptsOfCalls, SettledCallsAreReceipted

\* What CallStarted does to the rows.
LEMMA StartedRows ==
  ASSUME TypeOK, NEW tool \in Tools, CallStarted(tool)
  PROVE  /\ Len(calls) \in Nat /\ DOMAIN calls = 1..Len(calls)
         /\ calls' \in Seq(CallRow) /\ DOMAIN calls' = 1..(Len(calls) + 1)
         /\ \A c \in DOMAIN calls : calls'[c] = calls[c]
         /\ calls'[Len(calls) + 1] = [tool |-> tool, status |-> "RUNNING"]
<1>1. PICK row \in CallRow : row = [tool |-> tool, status |-> "RUNNING"]
  BY DEF CallRow, CallStatuses
<1>2. calls' = Append(calls, row) /\ calls \in Seq(CallRow)
  BY <1>1 DEF CallStarted, TypeOK
<1>3. Len(calls) \in Nat
  BY <1>2
<1>. QED  BY <1>1, <1>2, <1>3, Appended

LEMMA RowsStarted ==
  ASSUME TypeOK, RowsOK, NEW tool \in Tools, CallStarted(tool), UNCHANGED receipts
  PROVE  RowsOK'
<1>. DEFINE n == Len(calls) + 1
<1>1. /\ DOMAIN calls' = DOMAIN calls \cup {n} /\ n \notin DOMAIN calls
      /\ \A c \in DOMAIN calls : calls'[c] = calls[c]
      /\ calls'[n] = [tool |-> tool, status |-> "RUNNING"]
  <2>1. Len(calls) \in Nat /\ DOMAIN calls = 1..Len(calls) /\ DOMAIN calls' = 1..(Len(calls) + 1)
    BY StartedRows
  <2>2. DOMAIN calls' = DOMAIN calls \cup {n} /\ n \notin DOMAIN calls
    BY <2>1
  <2>. QED  BY <2>2, StartedRows
<1>. HIDE DEF n
<1>2. \A k \in DOMAIN receipts : receipts[k].call \in DOMAIN calls /\ receipts[k].call # n
  BY <1>1 DEF RowsOK, ReceiptsOfCalls
<1>3. \A c \in DOMAIN calls' :
        calls'[c].status # "RUNNING" <=> \E k \in DOMAIN receipts : receipts[k].call = c
  <2>1. calls'[n].status = "RUNNING"
    BY <1>1
  <2>. QED  BY <1>1, <1>2, <2>1 DEF RowsOK, SettledCallsAreReceipted
<1>4. \A k \in DOMAIN receipts :
        receipts[k].mutation => calls'[receipts[k].call] = [tool |-> "write", status |-> "COMPLETED"]
  BY <1>1, <1>2 DEF RowsOK, SettledCallsAreReceipted
<1>. QED  BY <1>1, <1>2, <1>3, <1>4 DEF RowsOK, ReceiptsOfCalls, SettledCallsAreReceipted

LEMMA RowsInserted ==
  ASSUME TypeOK, LocalsGood, RowsOK, NEW w \in Workers, At(w, "append"), Inserted(w)
  PROVE  RowsOK'
<1>. DEFINE c == exec[w].call
            n == Len(receipts) + 1
<1>1. /\ c \in DOMAIN calls /\ calls[c].status = "RUNNING"
      /\ DOMAIN calls' = DOMAIN calls
      /\ calls'[c] = [tool |-> calls[c].tool, status |-> Verdict(w)]
      /\ Verdict(w) \in {"COMPLETED", "FAILED"}
      /\ \A d \in DOMAIN calls : d # c => calls'[d] = calls[d]
  BY InsertedGrows
<1>2. /\ DOMAIN receipts' = DOMAIN receipts \cup {n} /\ n \notin DOMAIN receipts
      /\ \A k \in DOMAIN receipts : receipts'[k] = receipts[k]
  <2>1. /\ Len(receipts) \in Nat /\ DOMAIN receipts = 1..Len(receipts)
        /\ DOMAIN receipts' = 1..(Len(receipts) + 1)
    BY InsertedGrows
  <2>2. DOMAIN receipts' = DOMAIN receipts \cup {n} /\ n \notin DOMAIN receipts
    BY <2>1
  <2>. QED  BY <2>2, InsertedGrows
<1>3. receipts'[n].call = c /\ receipts'[n].mutation = exec[w].mutation
  BY InsertedGrows
<1>4. exec[w].mutation => calls'[c] = [tool |-> "write", status |-> "COMPLETED"]
  <2>1. exec[w].mutation => exec[w].result = "done" /\ calls[c].tool = "write"
    BY DEF LocalsGood, Good, At
  <2>. QED  BY <1>1, <2>1 DEF Verdict
<1>. HIDE DEF c, n
<1>5. \A k \in DOMAIN receipts : receipts[k].call \in DOMAIN calls /\ receipts[k].call # c
  BY <1>1 DEF RowsOK, ReceiptsOfCalls, SettledCallsAreReceipted
<1>6. \A d \in DOMAIN calls' :
        calls'[d].status # "RUNNING" <=> \E k \in DOMAIN receipts' : receipts'[k].call = d
  <2>1. calls'[c].status # "RUNNING" /\ \E k \in DOMAIN receipts' : receipts'[k].call = c
    BY <1>1, <1>2, <1>3
  <2>2. ASSUME NEW d \in DOMAIN calls, d # c
        PROVE  calls'[d].status # "RUNNING" <=> \E k \in DOMAIN receipts' : receipts'[k].call = d
    <3>1. (\E k \in DOMAIN receipts' : receipts'[k].call = d) <=>
          (\E k \in DOMAIN receipts : receipts[k].call = d)
      BY <1>2, <1>3, <2>2
    <3>. QED  BY <1>1, <2>2, <3>1 DEF RowsOK, SettledCallsAreReceipted
  <2>. QED  BY <1>1, <2>1, <2>2
<1>7. \A k, l \in DOMAIN receipts' : receipts'[k].call = receipts'[l].call => k = l
  BY <1>2, <1>3, <1>5 DEF RowsOK, SettledCallsAreReceipted
<1>8. \A k \in DOMAIN receipts' : receipts'[k].call \in DOMAIN calls' /\
        (receipts'[k].mutation =>
           calls'[receipts'[k].call] = [tool |-> "write", status |-> "COMPLETED"])
  <2>1. /\ receipts'[n].call \in DOMAIN calls'
        /\ receipts'[n].mutation =>
             calls'[receipts'[n].call] = [tool |-> "write", status |-> "COMPLETED"]
    BY <1>1, <1>3, <1>4
  <2>2. ASSUME NEW k \in DOMAIN receipts
        PROVE  /\ receipts'[k].call \in DOMAIN calls'
               /\ receipts'[k].mutation =>
                    calls'[receipts'[k].call] = [tool |-> "write", status |-> "COMPLETED"]
    <3>1. receipts'[k] = receipts[k] /\ calls'[receipts[k].call] = calls[receipts[k].call]
      BY <1>1, <1>2, <1>5
    <3>. QED  BY <1>1, <1>5, <3>1 DEF RowsOK, SettledCallsAreReceipted
  <2>. QED  BY <1>2, <2>1, <2>2
<1>. QED  BY <1>6, <1>7, <1>8 DEF RowsOK, ReceiptsOfCalls, SettledCallsAreReceipted

\* The executor touches neither the calls nor what they work on.
LEMMA ExecutorLeaves ==
  ASSUME Executor
  PROVE  UNCHANGED <<content, evidence, calls, receipts, exec, breaker, counted,
                     overlap, touched>>
  BY DEF Executor, BeginRoute, Complete, Replay, Verify, Close

\* A call does not touch the turn.
LEMMA StepKeepsTurn ==
  ASSUME NEW w \in Workers, Step(w)
  PROVE  UNCHANGED turn
  BY DEF Step, Start, RunTool, Save, ReadBack, Look, Insert, Count, HandleFailure

LEMMA CallStep == TypeOK /\ CallInv /\ [Next]_vars => exec' \in [Workers -> Locals] /\ CallInv'
<1>. SUFFICES ASSUME TypeOK, CallInv, [Next]_vars
              PROVE  exec' \in [Workers -> Locals] /\ CallInv'
  OBVIOUS
<1>. USE DEF CallInv
<1>1. RowsOK
  BY DEF RowsOK
<1>2. ASSUME NEW w \in Workers, Step(w)
      PROVE  exec' \in [Workers -> Locals] /\ CallInv'
  <2>1. PICK l : Moves(w, l) /\ Grown(w)
    BY <1>2, StepMoves DEF Works
  <2>2. exec' \in [Workers -> Locals] /\ LocalsGood' /\ CallsApart'
    BY <2>1, LocalsKeep
  <2>3. RowsOK'
    <3>1. exec[w].tool \in Tools
      BY DEF TypeOK, Locals
    <3>. QED  BY <1>1, <1>2, <3>1, RowsChange, RowsQuiet, RowsStarted, RowsInserted
  <2>. QED  BY <2>2, <2>3 DEF RowsOK
<1>3. ASSUME NEW w \in Workers, NEW tool \in Tools, Open(w, tool)
      PROVE  exec' \in [Workers -> Locals] /\ CallInv'
  <2>1. PICK l : Moves(w, l) /\ Grown(w)
    BY <1>3, OpenMoves
  <2>2. exec' \in [Workers -> Locals] /\ LocalsGood' /\ CallsApart'
    BY <2>1, LocalsKeep
  <2>3. RowsOK'
    BY <1>1, <1>3, RowsQuiet DEF Open
  <2>. QED  BY <2>2, <2>3 DEF RowsOK
<1>4. ASSUME UNCHANGED <<exec, calls, receipts>>
      PROVE  exec' \in [Workers -> Locals] /\ CallInv'
  <2>1. RowsOK'
    BY <1>1, <1>4, RowsQuiet
  <2>2. exec' \in [Workers -> Locals] /\ LocalsGood' /\ CallsApart'
    BY <1>4 DEF TypeOK, LocalsGood, CallsApart
  <2>. QED  BY <2>1, <2>2 DEF RowsOK
<1>5. CASE Executor \/ UNCHANGED vars
  BY <1>4, <1>5, ExecutorLeaves DEF vars
<1>. QED  BY <1>2, <1>3, <1>5 DEF Next

-----------------------------------------------------------------------------
(* Types of the rest.                                                        *)

RowTypes == /\ task \in [count : 0..MaxCalls, status : TaskStatuses]
            /\ calls \in Seq(CallRow) /\ receipts \in Seq(Receipt)

LEMMA RecordedTyped ==
  ASSUME TypeOK, NEW failed \in BOOLEAN
  PROVE  Recorded(failed) \in [failures : Nat, open : BOOLEAN]
  BY DEF TypeOK, Recorded

LEMMA RowTypesStep ==
  ASSUME TypeOK, LocalsGood, NEW w \in Workers, Step(w)
  PROVE  RowTypes'
<1>1. RowTypes /\ exec[w] \in Locals
  BY DEF TypeOK, RowTypes
<1>2. CASE CallStarted(exec[w].tool) /\ UNCHANGED receipts
  <2>1. exec[w].tool \in Tools
    BY <1>1 DEF Locals
  <2>2. calls' \in Seq(CallRow)
    BY <1>2, <2>1, StartedRows
  <2>3. task.count + 1 \in 0..MaxCalls
    BY <1>1, <1>2, LimitAssumption DEF RowTypes, CallStarted, WithinBudget
  <2>4. task' \in [count : 0..MaxCalls, status : TaskStatuses]
    BY <1>2, <2>3 DEF CallStarted, TaskStatuses, CallStatuses
  <2>. QED  BY <1>1, <1>2, <2>2, <2>4 DEF RowTypes
<1>3. CASE At(w, "append") /\ Inserted(w)
  <2>1. calls' \in Seq(CallRow) /\ receipts' \in Seq(Receipt)
        /\ Verdict(w) \in {"COMPLETED", "FAILED"}
    BY <1>3, InsertedGrows
  <2>2. WithVerdict(Verdict(w)) \in [count : 0..MaxCalls, status : TaskStatuses]
    BY <1>1, <2>1 DEF RowTypes, WithVerdict, TaskStatuses, CallStatuses
  <2>. QED  BY <1>3, <2>1, <2>2 DEF RowTypes, Inserted
<1>4. CASE UNCHANGED <<task, calls, receipts>>
  BY <1>1, <1>4 DEF RowTypes
<1>. QED  BY <1>2, <1>3, <1>4, RowsChange

OtherTypes ==
  /\ content \in Contents /\ evidence \subseteq Evidence
  /\ breaker \in [failures : Nat, open : BOOLEAN]
  /\ turn \in [route : 1..Routes, at : Phases, since : Nat]
  /\ counted \in BOOLEAN /\ overlap \in BOOLEAN /\ touched \in BOOLEAN
  /\ faults \in 0..MaxFaults

LEMMA TypeParts ==
  /\ TypeOK <=> OtherTypes /\ RowTypes /\ exec \in [Workers -> Locals]
  /\ TypeOK' <=> OtherTypes' /\ RowTypes' /\ exec' \in [Workers -> Locals]
  BY DEF TypeOK, OtherTypes, RowTypes

LEMMA FaultTyped == OtherTypes => /\ Fault => faults' \in 0..MaxFaults
                                  /\ NoFault => faults' \in 0..MaxFaults
  BY LimitAssumption DEF OtherTypes, Fault, NoFault

LEMMA OtherTypesStep ==
  ASSUME TypeOK, NEW w \in Workers, Step(w)
  PROVE  OtherTypes'
<1>1. OtherTypes /\ exec[w] \in Locals
  BY DEF TypeOK, OtherTypes
<1>. USE DEF OtherTypes
<1>2. CASE Start(w)
  <2>1. faults' \in 0..MaxFaults
    BY <1>1, <1>2, FaultTyped DEF Start
  <2>. QED  BY <1>1, <1>2, <2>1 DEF Start
<1>3. CASE RunTool(w)
  <2>1. faults' \in 0..MaxFaults
    BY <1>1, <1>3, FaultTyped DEF RunTool
  <2>2. content' \in Contents
    BY <1>3 DEF RunTool
  <2>3. touched' \in BOOLEAN
    <3>1. PICK new \in Contents : touched' = (touched \/ (exec[w].tool = "write" /\ new # content))
      BY <1>3 DEF RunTool
    <3>. QED  BY <3>1
  <2>. QED  BY <1>1, <1>3, <2>1, <2>2, <2>3 DEF RunTool
<1>4. CASE Save(w)
  <2>1. faults' \in 0..MaxFaults
    BY <1>1, <1>4, FaultTyped DEF Save
  <2>2. evidence' \subseteq Evidence
    BY <1>1, <1>4 DEF Save, Locals
  <2>. QED  BY <1>1, <1>4, <2>1, <2>2 DEF Save
<1>5. CASE ReadBack(w)
  <2>1. faults' \in 0..MaxFaults
    BY <1>1, <1>5, FaultTyped DEF ReadBack
  <2>. QED  BY <1>1, <1>5, <2>1 DEF ReadBack
<1>6. CASE Look(w)
  BY <1>1, <1>6 DEF Look
<1>7. CASE Insert(w)
  <2>1. faults' \in 0..MaxFaults
    BY <1>1, <1>7, FaultTyped DEF Insert
  <2>. QED  BY <1>1, <1>7, <2>1 DEF Insert
<1>8. CASE Count(w)
  <2>1. breaker' \in [failures : Nat, open : BOOLEAN]
    BY <1>8, RecordedTyped DEF Count
  <2>2. counted' \in BOOLEAN
    BY <1>8 DEF Count
  <2>. QED  BY <1>1, <1>8, <2>1, <2>2 DEF Count
<1>9. CASE HandleFailure(w)
  <2>1. breaker' \in [failures : Nat, open : BOOLEAN]
    BY <1>9, RecordedTyped DEF HandleFailure
  <2>2. faults' \in 0..MaxFaults
    BY <1>1, <1>9, FaultTyped DEF HandleFailure
  <2>. QED  BY <1>1, <1>9, <2>1, <2>2 DEF HandleFailure
<1>. QED  BY <1>2, <1>3, <1>4, <1>5, <1>6, <1>7, <1>8, <1>9 DEF Step

LEMMA ExecutorTyped ==
  ASSUME OtherTypes, RowTypes, Executor
  PROVE  /\ turn' \in [route : 1..Routes, at : Phases, since : Nat]
         /\ task' \in [count : 0..MaxCalls, status : TaskStatuses]
         /\ faults' \in 0..MaxFaults
<1>1. /\ turn \in [route : 1..Routes, at : Phases, since : Nat] /\ Len(receipts) \in Nat
      /\ task \in [count : 0..MaxCalls, status : TaskStatuses] /\ faults \in 0..MaxFaults
  BY DEF OtherTypes, RowTypes
<1>. USE DEF TaskStatuses, CallStatuses, Phases, TaskReads
<1>2. CASE BeginRoute
  BY <1>1, <1>2 DEF BeginRoute
<1>3. CASE Complete
  BY <1>1, <1>3 DEF Complete
<1>4. CASE Replay
  <2>1. turn.route + 1 \in 1..Routes
    BY <1>1, <1>4, LimitAssumption DEF Replay
  <2>. QED  BY <1>1, <1>4, <2>1 DEF Replay
<1>5. CASE Verify
  BY <1>1, <1>5 DEF Verify
<1>6. CASE Close
  <2>1. faults' \in 0..MaxFaults
    BY <1>6, FaultTyped DEF Close
  <2>. QED  BY <1>1, <1>6, <2>1 DEF Close
<1>. QED  BY <1>2, <1>3, <1>4, <1>5, <1>6 DEF Executor

LEMMA TypeStep == TypeOK /\ CallInv /\ [Next]_vars => TypeOK'
<1>. SUFFICES ASSUME TypeOK, CallInv, [Next]_vars
              PROVE  TypeOK'
  OBVIOUS
<1>1. exec' \in [Workers -> Locals]
  BY CallStep
<1>2. OtherTypes /\ RowTypes
  BY TypeParts
<1>3. ASSUME NEW w \in Workers, Step(w)
      PROVE  TypeOK'
  BY <1>1, <1>3, RowTypesStep, OtherTypesStep, TypeParts DEF CallInv
<1>4. ASSUME NEW w \in Workers, NEW tool \in Tools, Open(w, tool)
      PROVE  TypeOK'
  <2>1. overlap' \in BOOLEAN
    BY <1>4 DEF Open
  <2>2. OtherTypes' /\ RowTypes'
    BY <1>2, <1>4, <2>1 DEF Open, OtherTypes, RowTypes
  <2>. QED  BY <1>1, <2>2, TypeParts
<1>5. CASE Executor
  <2>1. /\ turn' \in [route : 1..Routes, at : Phases, since : Nat]
        /\ task' \in [count : 0..MaxCalls, status : TaskStatuses] /\ faults' \in 0..MaxFaults
    BY <1>2, <1>5, ExecutorTyped
  <2>2. OtherTypes' /\ RowTypes'
    BY <1>2, <1>5, <2>1, ExecutorLeaves DEF OtherTypes, RowTypes
  <2>. QED  BY <1>1, <2>2, TypeParts
<1>6. CASE UNCHANGED vars
  BY <1>2, <1>6, <1>1, TypeParts DEF vars, OtherTypes, RowTypes
<1>. QED  BY <1>3, <1>4, <1>5, <1>6 DEF Next

LEMMA InitInv == Init => TypeOK /\ CallInv
<1>. SUFFICES ASSUME Init
              PROVE  TypeOK /\ CallInv
  OBVIOUS
<1>1. exec \in [Workers -> Locals] /\ \A w \in Workers : exec[w] = Idle
  BY IdleTyped DEF Init
<1>2. RowTypes
  BY LimitAssumption DEF Init, RowTypes, TaskStatuses, CallStatuses
<1>3. OtherTypes
  <2>1. turn \in [route : 1..Routes, at : Phases, since : Nat]
    BY LimitAssumption DEF Init, Phases
  <2>2. faults \in 0..MaxFaults /\ breaker \in [failures : Nat, open : BOOLEAN]
    BY LimitAssumption DEF Init
  <2>3. evidence \subseteq Evidence /\ content \in Contents
    BY DataAssumption DEF Init
  <2>. QED  BY <2>1, <2>2, <2>3 DEF Init, OtherTypes
<1>4. LocalsGood /\ CallsApart
  BY <1>1 DEF LocalsGood, CallsApart, Good, Called, Idle
<1>5. RowsOK
  BY DEF Init, RowsOK, ReceiptsOfCalls, SettledCallsAreReceipted
<1>. QED  BY <1>1, <1>2, <1>3, <1>4, <1>5, TypeParts DEF CallInv, RowsOK

LEMMA CallsInvariant == Spec => [](TypeOK /\ CallInv)
<1>1. TypeOK /\ CallInv /\ [Next]_vars => (TypeOK /\ CallInv)'
  BY TypeStep, CallStep
<1>. QED  BY <1>1, InitInv, PTL DEF Spec

\* Every row, local and counter keeps its type, for any number of workers.
THEOREM TypeCorrect == Spec => []TypeOK
  BY CallsInvariant, PTL

\* Settled calls and receipts are one to one, and only a completed write has a receipt
\* that claims a mutation, however the calls interleave and wherever they fail.
THEOREM CallsAreReceipted == Spec => []SettledCallsAreReceipted
<1>1. CallInv => SettledCallsAreReceipted
  BY DEF CallInv
<1>. QED  BY <1>1, CallsInvariant, PTL

-----------------------------------------------------------------------------
(* The chain.                                                                *)

\* The receipts a verifier reads back have consecutive numbers and right predecessors.
THEOREM ChainIsWhole == Spec => []ChainVerifies
<1>1. Init => ChainVerifies
  BY DEF Init, ChainVerifies
<1>2. TypeOK /\ CallInv /\ ChainVerifies /\ [Next]_vars => ChainVerifies'
  <2>. SUFFICES ASSUME TypeOK, CallInv, ChainVerifies, [Next]_vars
                PROVE  ChainVerifies'
    OBVIOUS
  <2>1. CASE UNCHANGED receipts
    BY <2>1 DEF ChainVerifies
  <2>2. ASSUME NEW w \in Workers, At(w, "append"), Inserted(w)
        PROVE  ChainVerifies'
    <3>. DEFINE n == Len(receipts) + 1
    <3>1. /\ DOMAIN receipts' = DOMAIN receipts \cup {n} /\ n - 1 = Len(receipts)
      <4>1. Len(receipts) \in Nat /\ DOMAIN receipts = 1..Len(receipts)
            /\ DOMAIN receipts' = 1..(Len(receipts) + 1)
        BY <2>2, InsertedGrows DEF CallInv
      <4>. QED  BY <4>1
    <3>2. \A k \in DOMAIN receipts : receipts'[k] = receipts[k]
      BY <2>2, InsertedGrows DEF CallInv
    <3>3. receipts'[n].sequence = exec[w].last /\ receipts'[n].previous = exec[w].last
      BY <2>2, InsertedGrows DEF CallInv
    <3>4. exec[w].last = Len(receipts)
      BY <2>2 DEF Inserted, Free
    <3>. HIDE DEF n
    <3>. QED  BY <3>1, <3>2, <3>3, <3>4 DEF ChainVerifies
  <2>3. ASSUME NEW w \in Workers, Step(w)
        PROVE  ChainVerifies'
    BY <2>1, <2>2, <2>3, RowsChange
  <2>4. ASSUME NEW w \in Workers, NEW tool \in Tools, Open(w, tool)
        PROVE  ChainVerifies'
    BY <2>1, <2>4 DEF Open
  <2>5. CASE Executor \/ UNCHANGED vars
    BY <2>1, <2>5, ExecutorLeaves DEF vars
  <2>. QED  BY <2>3, <2>4, <2>5 DEF Next
<1>. QED  BY <1>1, <1>2, CallsInvariant, PTL DEF Spec

-----------------------------------------------------------------------------
(* The task.                                                                 *)

LEMMA ForgottenStarted ==
  ASSUME TypeOK, NEW tools, NEW tool \in Tools, CallStarted(tool)
  PROVE  /\ Forgotten(tools) => Forgotten(tools)'
         /\ tool \in tools => Forgotten(tools)'
<1>. DEFINE n == Len(calls) + 1
<1>1. DOMAIN calls' = DOMAIN calls \cup {n}
  <2>1. Len(calls) \in Nat /\ DOMAIN calls = 1..Len(calls) /\ DOMAIN calls' = 1..(Len(calls) + 1)
    BY StartedRows
  <2>. QED  BY <2>1
<1>2. /\ \A c \in DOMAIN calls : calls'[c] = calls[c]
      /\ calls'[n] = [tool |-> tool, status |-> "RUNNING"]
  BY StartedRows
<1>. HIDE DEF n
<1>. QED  BY <1>1, <1>2 DEF Forgotten

LEMMA TaskInvStep == TypeOK /\ CallInv /\ TaskInv /\ [Next]_vars => TaskInv'
<1>. SUFFICES ASSUME TypeOK, CallInv, TaskInv, [Next]_vars
              PROVE  TaskInv'
  OBVIOUS
<1>1. CASE UNCHANGED <<task, calls, receipts, turn>>
  BY <1>1 DEF TaskInv, Forgotten
<1>2. ASSUME NEW tool \in Tools, CallStarted(tool)
      PROVE  TaskInv'
  <2>1. Forgotten(Tools)'
    BY <1>2, ForgottenStarted
  <2>. QED  BY <2>1 DEF TaskInv
<1>3. ASSUME NEW w \in Workers, At(w, "append"), Inserted(w)
      PROVE  TaskInv'
  <2>1. /\ receipts' # <<>> /\ Len(receipts') = Len(receipts) + 1
        /\ receipts'[Len(receipts) + 1].call = exec[w].call
        /\ calls'[exec[w].call] = [tool |-> calls[exec[w].call].tool, status |-> Verdict(w)]
        /\ Verdict(w) \in {"COMPLETED", "FAILED"}
    BY <1>3, InsertedGrows DEF CallInv
  <2>2. calls'[receipts'[Len(receipts')].call].status = Verdict(w)
    BY <2>1
  <2>3. Verdict(w) = "FAILED" => task'.status = "FAILED"
    BY <1>3 DEF Inserted, WithVerdict, TypeOK
  <2>. QED  BY <2>1, <2>2, <2>3 DEF TaskInv
<1>4. ASSUME NEW w \in Workers, Step(w)
      PROVE  TaskInv'
  <2>1. exec[w].tool \in Tools
    BY DEF TypeOK, Locals
  <2>. QED  BY <1>1, <1>2, <1>3, <1>4, <2>1, RowsChange, StepKeepsTurn
<1>5. ASSUME NEW w \in Workers, NEW tool \in Tools, Open(w, tool)
      PROVE  TaskInv'
  BY <1>1, <1>5 DEF Open
<1>6. CASE Executor
  <2>1. turn \in [route : 1..Routes, at : Phases, since : Nat]
    BY DEF TypeOK
  <2>2. turn'.at = "running" => turn'.since = Len(receipts) /\ receipts' = receipts
    BY <1>6, <2>1 DEF Executor, BeginRoute, Complete, Replay, Verify, Close
  <2>. QED  BY <2>2 DEF TaskInv
<1>7. CASE UNCHANGED vars
  BY <1>1, <1>7 DEF vars
<1>. QED  BY <1>4, <1>5, <1>6, <1>7 DEF Next

\* While a route runs, a task whose calls are all settled does not hide that the last
\* one the route made failed.
THEOREM TaskIsTold == Spec => []TaskTellsFailure
<1>1. Init => TaskInv
  BY DEF Init, TaskInv
<1>2. TaskInv => TaskTellsFailure
  BY DEF TaskInv, TaskTellsFailure
<1>. QED  BY <1>1, <1>2, TaskInvStep, CallsInvariant, PTL DEF Spec

-----------------------------------------------------------------------------
(* The workspace.                                                            *)

Writing == {"write", "test"}

LEMMA ContentStep ==
  ASSUME TypeOK, LocalsGood, NEW w \in Workers, Step(w)
  PROVE  /\ overlap' = overlap /\ ~At(w, "idle")
         /\ \/ content' = content
            \/ UNCHANGED <<calls, receipts>> /\ Forgotten(Writing)'
<1>1. overlap' = overlap /\ ~At(w, "idle")
  BY DEF Step, Start, RunTool, Save, ReadBack, Look, Insert, Count, HandleFailure, At
<1>2. CASE RunTool(w)
  <2>1. Good(exec[w], calls, receipts) /\ At(w, "tool") /\ UNCHANGED <<calls, receipts>>
    BY <1>2 DEF LocalsGood, RunTool
  <2>2. exec[w].call \in DOMAIN calls /\ calls[exec[w].call].status = "RUNNING"
        /\ calls[exec[w].call].tool = exec[w].tool
    BY <2>1 DEF Good, Called, At
  <2>3. content' = content \/ exec[w].tool \in Writing
    BY <1>2 DEF RunTool, Writing
  <2>. QED  BY <1>1, <2>1, <2>2, <2>3 DEF Forgotten
<1>3. ASSUME ~RunTool(w)
      PROVE  content' = content
  BY <1>3 DEF Step, Start, Save, ReadBack, Look, Insert, Count, HandleFailure
<1>. QED  BY <1>1, <1>2, <1>3

LEMMA LedgerInvStep == TypeOK /\ CallInv /\ LedgerInv /\ [Next]_vars => LedgerInv'
<1>. SUFFICES ASSUME TypeOK, CallInv, LedgerInv, [Next]_vars, ~overlap'
              PROVE  /\ Alone' /\ DiffsFresh'
                     /\ Forgotten(Writing)' \/ content' = LastDiff'
  BY DEF LedgerInv, Writing
<1>1. ~overlap => Alone /\ DiffsFresh /\ (Forgotten(Writing) \/ content = LastDiff)
  BY DEF LedgerInv, Writing
<1>2. UNCHANGED <<content, calls, receipts>> /\ (Forgotten(Writing) \/ content = LastDiff) =>
        Forgotten(Writing)' \/ content' = LastDiff'
  BY DEF Forgotten, LastDiff
<1>3. ASSUME NEW w \in Workers, Step(w)
      PROVE  Alone' /\ DiffsFresh' /\ (Forgotten(Writing)' \/ content' = LastDiff')
  <2>1. PICK l : Moves(w, l) /\ Grown(w)
    BY <1>3, StepMoves DEF Works, CallInv
  <2>2. /\ exec'[w] = l /\ \A v \in Workers \ {w} : exec'[v] = exec[v]
    BY <2>1, Becomes DEF Moves, TypeOK
  <2>3. /\ ~overlap /\ ~At(w, "idle")
        /\ \/ content' = content
           \/ UNCHANGED <<calls, receipts>> /\ Forgotten(Writing)'
    BY <1>3, ContentStep DEF CallInv
  <2>4. \A v \in Workers \ {w} : exec[v].place = "idle"
    BY <1>1, <2>3 DEF Alone, At
  <2>5. Alone'
    BY <2>2, <2>4 DEF Alone, At
  <2>6. DiffsFresh'
    <3>1. l.place \in {"finish", "append"} => l.diff = content'
      BY <1>1, <2>1, <2>3 DEF Moves, KeepsFresh, DiffsFresh
    <3>. QED  BY <2>2, <2>4, <3>1 DEF DiffsFresh
  <2>7. Forgotten(Writing)' \/ content' = LastDiff'
    <3>1. CASE ~(UNCHANGED content)
      BY <2>3, <3>1
    <3>2. CASE UNCHANGED <<content, calls, receipts>>
      BY <1>1, <1>2, <2>3, <3>2
    <3>3. CASE CallStarted(exec[w].tool) /\ UNCHANGED <<content, receipts>>
      <4>1. exec[w].tool \in Tools
        BY DEF TypeOK, Locals
      <4>2. Forgotten(Writing) => Forgotten(Writing)'
        BY <3>3, <4>1, ForgottenStarted
      <4>3. LastDiff' = LastDiff
        BY <3>3 DEF LastDiff
      <4>. QED  BY <1>1, <2>3, <3>3, <4>2, <4>3
    <3>4. CASE At(w, "append") /\ Inserted(w) /\ UNCHANGED content
      <4>1. /\ receipts' # <<>> /\ Len(receipts') = Len(receipts) + 1
            /\ receipts'[Len(receipts) + 1].diff = exec[w].diff
        BY <3>4, InsertedGrows DEF CallInv
      <4>2. exec[w].diff = content
        BY <1>1, <2>3, <3>4 DEF DiffsFresh, At
      <4>. QED  BY <3>4, <4>1, <4>2 DEF LastDiff
    <3>. QED  BY <1>3, <3>1, <3>2, <3>3, <3>4, RowsChange
  <2>. QED  BY <2>5, <2>6, <2>7
<1>4. ASSUME NEW w \in Workers, NEW tool \in Tools, Open(w, tool)
      PROVE  Alone' /\ DiffsFresh' /\ (Forgotten(Writing)' \/ content' = LastDiff')
  <2>1. PICK l : Moves(w, l) /\ Grown(w)
    BY <1>4, OpenMoves
  <2>2. /\ exec'[w] = l /\ \A v \in Workers \ {w} : exec'[v] = exec[v]
    BY <2>1, Becomes DEF Moves, TypeOK
  <2>3. /\ ~overlap /\ \A v \in Workers \ {w} : exec[v].place = "idle"
        /\ UNCHANGED <<content, calls, receipts>> /\ exec[w].place = "idle"
    BY <1>4 DEF Open, At
  <2>4. Alone'
    BY <2>2, <2>3 DEF Alone, At
  <2>5. DiffsFresh'
    <3>1. l.place \notin {"finish", "append"} \/ l.diff = content'
      BY <2>1, <2>3 DEF Moves, KeepsFresh
    <3>. QED  BY <2>2, <2>3, <3>1 DEF DiffsFresh
  <2>. QED  BY <1>1, <1>2, <2>3, <2>4, <2>5
<1>5. ASSUME UNCHANGED <<content, calls, receipts, exec, overlap>>
      PROVE  Alone' /\ DiffsFresh' /\ (Forgotten(Writing)' \/ content' = LastDiff')
  BY <1>1, <1>2, <1>5 DEF Alone, DiffsFresh, At
<1>6. CASE Executor \/ UNCHANGED vars
  BY <1>5, <1>6, ExecutorLeaves DEF vars
<1>. QED  BY <1>3, <1>4, <1>6 DEF Next

\* Without calls side by side, the last receipt names what the workspace holds, unless
\* a call that could change it was forgotten.
THEOREM LedgerIsCurrent == Spec => []LedgerFollowsWorkspace
<1>1. Init => LedgerInv
  BY DEF Init, LedgerInv, Alone, DiffsFresh, LastDiff, At, Idle
<1>2. LedgerInv => LedgerFollowsWorkspace
  BY DEF LedgerInv, LedgerFollowsWorkspace, LastDiff
<1>. QED  BY <1>1, <1>2, LedgerInvStep, CallsInvariant, PTL DEF Spec

-----------------------------------------------------------------------------
(* The circuit.                                                              *)

LEMMA UncountedFinite ==
  /\ IsFiniteSet(Uncounted) /\ IsFiniteSet(Uncounted')
  /\ Cardinality(Workers) \in Nat /\ Cardinality(Uncounted) \in Nat
  /\ Cardinality(Uncounted) <= Cardinality(Workers)
  /\ Cardinality(Uncounted') \in Nat /\ Cardinality(Uncounted') <= Cardinality(Workers)
<1>1. Uncounted \subseteq Workers /\ Uncounted' \subseteq Workers
  BY DEF Uncounted
<1>2. \A S \in SUBSET Workers : IsFiniteSet(S) /\ Cardinality(S) <= Cardinality(Workers)
  BY WorkersAssumption, FS_Subset
<1>. QED  BY <1>1, <1>2, WorkersAssumption, FS_CardinalityType

LEMMA UncountedShrinks ==
  ASSUME TypeOK, NEW w \in Workers, NEW l, Works(w, l)
  PROVE  /\ Uncounted' \subseteq Uncounted
         /\ ~At(w, "idle") /\ ~exec[w].failing /\ (l.place = "idle" \/ l.failing) =>
              Cardinality(Uncounted') + 1 <= Cardinality(Uncounted)
<1>1. /\ exec'[w] = l /\ \A v \in Workers \ {w} : exec'[v] = exec[v]
  BY Becomes DEF Works, Moves, TypeOK
<1>2. Uncounted' \subseteq Uncounted
  BY <1>1 DEF Uncounted, Works, KeepsCount, At
<1>3. ASSUME ~At(w, "idle"), ~exec[w].failing, l.place = "idle" \/ l.failing
      PROVE  Cardinality(Uncounted') + 1 <= Cardinality(Uncounted)
  <2>1. w \in Uncounted /\ Uncounted' \subseteq Uncounted \ {w}
    BY <1>1, <1>2, <1>3 DEF Uncounted, At
  <2>2. /\ IsFiniteSet(Uncounted \ {w})
        /\ Cardinality(Uncounted \ {w}) = Cardinality(Uncounted) - 1
    BY <2>1, UncountedFinite, FS_RemoveElement
  <2>3. Cardinality(Uncounted') <= Cardinality(Uncounted \ {w})
    BY <2>1, <2>2, FS_Subset
  <2>. QED  BY <2>2, <2>3, UncountedFinite
<1>. QED  BY <1>2, <1>3

LEMMA CircuitInvStep == TypeOK /\ CallInv /\ CircuitInv /\ [Next]_vars => CircuitInv'
<1>. SUFFICES ASSUME TypeOK, CallInv, CircuitInv, [Next]_vars
              PROVE  CircuitInv'
  OBVIOUS
<1>1. breaker \in [failures : Nat, open : BOOLEAN] /\ FailureLimit \in Nat \ {0}
  BY LimitAssumption DEF TypeOK
<1>2. ASSUME UNCHANGED breaker, Uncounted' \subseteq Uncounted
      PROVE  CircuitInv'
  <2>1. Cardinality(Uncounted') <= Cardinality(Uncounted)
    BY <1>2, UncountedFinite, FS_Subset
  <2>. QED  BY <1>1, <1>2, <2>1, UncountedFinite DEF CircuitInv
<1>3. ASSUME NEW failed \in BOOLEAN, breaker' = Recorded(failed),
             Cardinality(Uncounted') + 1 <= Cardinality(Uncounted)
      PROVE  CircuitInv'
  <2>1. CASE failed
    <3>1. breaker'.failures = breaker.failures + 1
      BY <1>3, <2>1 DEF Recorded
    <3>2. breaker'.open <=> breaker.open \/ breaker.failures + 1 >= FailureLimit
      BY <1>3, <2>1 DEF Recorded
    <3>3. CASE breaker.open
      BY <1>1, <1>3, <3>1, <3>2, <3>3, UncountedFinite DEF CircuitInv
    <3>4. CASE ~breaker.open
      BY <1>1, <1>3, <3>1, <3>2, <3>4, UncountedFinite DEF CircuitInv
    <3>. QED  BY <3>3, <3>4
  <2>2. CASE ~failed
    BY <1>1, <1>3, <2>2, UncountedFinite DEF CircuitInv, Recorded
  <2>. QED  BY <2>1, <2>2
<1>4. ASSUME NEW w \in Workers, Count(w)
      PROVE  CircuitInv'
  <2>1. Works(w, Idle) /\ Idle.place = "idle" /\ ~At(w, "idle")
    BY <1>4, CountMoves DEF Idle, Count, At
  <2>2. ~exec[w].failing
    BY <1>4 DEF CallInv, LocalsGood, Good, Count, At
  <2>3. Cardinality(Uncounted') + 1 <= Cardinality(Uncounted)
    BY <2>1, <2>2, UncountedShrinks
  <2>. QED  BY <1>3, <1>4, <2>3 DEF Count
<1>5. ASSUME NEW w \in Workers, HandleFailure(w)
      PROVE  CircuitInv'
  <2>1. PICK l : Works(w, l) /\ (l.place = "idle" \/ l.failing)
    BY <1>5, HandleFailureMoves DEF CallInv
  <2>2. ~exec[w].failing /\ ~At(w, "idle")
    BY <1>5 DEF CallInv, LocalsGood, Good, HandleFailure, At
  <2>3. Cardinality(Uncounted') + 1 <= Cardinality(Uncounted)
    BY <2>1, <2>2, UncountedShrinks
  <2>. QED  BY <1>3, <1>5, <2>3 DEF HandleFailure
<1>6. ASSUME NEW w \in Workers, Step(w), ~Count(w), ~HandleFailure(w)
      PROVE  CircuitInv'
  <2>1. PICK l : Works(w, l)
    BY <1>6, StepMoves DEF CallInv
  <2>2. UNCHANGED breaker
    BY <1>6 DEF Step, Start, RunTool, Save, ReadBack, Look, Insert
  <2>. QED  BY <1>2, <2>1, <2>2, UncountedShrinks
<1>7. ASSUME NEW w \in Workers, NEW tool \in Tools, Open(w, tool)
      PROVE  CircuitInv'
  BY <1>7 DEF Open, CircuitInv
<1>8. CASE Executor \/ UNCHANGED vars
  <2>1. UNCHANGED <<breaker, exec>>
    BY <1>8, ExecutorLeaves DEF vars
  <2>. QED  BY <1>2, <2>1 DEF Uncounted, At
<1>. QED  BY <1>4, <1>5, <1>6, <1>7, <1>8 DEF Next

\* The circuit lets through no more than the calls that were under way when it opened.
THEOREM CircuitHolds == Spec => []CircuitBoundsFailures
<1>1. Init => CircuitInv
  BY LimitAssumption DEF Init, CircuitInv
<1>2. TypeOK /\ CircuitInv => CircuitBoundsFailures
  BY UncountedFinite, LimitAssumption DEF TypeOK, CircuitInv, CircuitBoundsFailures
<1>. QED  BY <1>1, <1>2, CircuitInvStep, CallsInvariant, PTL DEF Spec

-----------------------------------------------------------------------------
(* The count.                                                                *)

\* A counted mutation has its receipt, with whatever failures and however many calls.
THEOREM CountIsReceipted == Spec => []CountedMutationIsReceipted
<1>1. Init => CountedMutationIsReceipted
  BY DEF Init, CountedMutationIsReceipted
<1>2. TypeOK /\ CallInv /\ CountedMutationIsReceipted /\ [Next]_vars => CountedMutationIsReceipted'
  <2>. SUFFICES ASSUME TypeOK, CallInv, CountedMutationIsReceipted, [Next]_vars
                PROVE  CountedMutationIsReceipted'
    OBVIOUS
  <2>. USE DEF CountedMutationIsReceipted, MutationReceipted
  <2>1. CASE UNCHANGED <<counted, receipts>>
    BY <2>1
  <2>2. ASSUME NEW w \in Workers, Count(w)
        PROVE  CountedMutationIsReceipted'
    <3>1. exec[w].mutation => MutationReceipted(receipts)
      BY <2>2 DEF CallInv, LocalsGood, Good, Count, At
    <3>. QED  BY <2>2, <3>1 DEF Count, Mutated
  <2>3. ASSUME NEW w \in Workers, Step(w), ~Count(w)
        PROVE  CountedMutationIsReceipted'
    <3>1. Grown(w)
      BY <2>3, StepMoves DEF CallInv
    <3>2. UNCHANGED counted
      BY <2>3 DEF Step, Start, RunTool, Save, ReadBack, Look, Insert, HandleFailure
    <3>. QED  BY <3>1, <3>2 DEF Grown
  <2>4. ASSUME NEW w \in Workers, NEW tool \in Tools, Open(w, tool)
        PROVE  CountedMutationIsReceipted'
    BY <2>1, <2>4 DEF Open
  <2>5. CASE Executor \/ UNCHANGED vars
    BY <2>1, <2>5, ExecutorLeaves DEF vars
  <2>. QED  BY <2>2, <2>3, <2>4, <2>5 DEF Next
<1>. QED  BY <1>1, <1>2, CallsInvariant, PTL DEF Spec

-----------------------------------------------------------------------------
(* What is left of the turn: a number that every step makes smaller.         *)

\* New calls may begin.
Accepts == ~breaker.open /\ turn.at # "over"

\* The steps a worker has before it at most, but for a call it begins anew.
Rank(l) ==
  CASE l.place = "idle" -> 0
    [] l.place = "count" -> 1
    [] l.place = "raised" -> 3
    [] l.place = "append" -> IF l.failing THEN 1 ELSE 4
    [] l.place = "finish" -> IF l.failing THEN 2 ELSE 5
    [] l.place = "readback" -> 6
    [] l.place = "save" -> 7
    [] l.place = "tool" -> 8
    [] l.place = "opened" -> 9

\* A call that may still be counted as done, and make the failures start over.
MayReset(l) == ~l.failing /\ l.place \notin {"idle", "opened", "raised"}

\* A failure is worth more than a worker's way from idle to idle, a call of the
\* budget more than all the failures it may bring back.
Failure == 13
Call == Failure * (FailureLimit + 1)

Cost(l, accepts) ==
  Rank(l) + (IF accepts /\ (l.failing \/ l.place = "idle") THEN 10 ELSE 0)
          + (IF accepts /\ MayReset(l) THEN Call ELSE 0)

Pool(count, failures, accepts) ==
  IF accepts THEN Call * (MaxCalls - count) + Failure * (FailureLimit - failures) ELSE 0

\* The executor's steps: three to a route, and as many as its phase leaves of this one.
PhaseRank(at) ==
  CASE at = "starting" -> 3
    [] at = "running" -> 2
    [] at = "completed" -> 1
    [] at = "over" -> 0

RoutesLeft == 3 * (Routes - turn.route) + PhaseRank(turn.at)

Effort == [w \in Workers |-> Cost(exec[w], Accepts)]
Left == Pool(task.count, breaker.failures, Accepts) + RoutesLeft
WorkLeft == SumFunctionOnSet(Effort, Workers) + Left

LEMMA CallIsNumber == Call \in Nat /\ Call = Failure * FailureLimit + Failure
  BY LimitAssumption DEF Call, Failure

LEMMA RankIsNumber == ASSUME NEW l \in Locals PROVE Rank(l) \in Nat
  BY DEF Rank, Locals, Places

LEMMA CostIsNumber ==
  ASSUME NEW l \in Locals, NEW accepts \in BOOLEAN
  PROVE  Cost(l, accepts) \in Nat
<1>1. Rank(l) \in Nat /\ Call \in Nat
  BY RankIsNumber, CallIsNumber
<1> QED
  BY <1>1 DEF Cost

LEMMA RoutesLeftIsNumber == TypeOK => RoutesLeft \in Nat
<1>. SUFFICES ASSUME TypeOK PROVE RoutesLeft \in Nat
  OBVIOUS
<1>1. 3 * (Routes - turn.route) \in Nat
  BY LimitAssumption DEF TypeOK
<1>2. PhaseRank(turn.at) \in Nat
  BY DEF TypeOK, Phases, PhaseRank
<1>. QED  BY <1>1, <1>2 DEF RoutesLeft

LEMMA EffortIsNumber ==
  TypeOK => \A w \in Workers : Effort[w] = Cost(exec[w], Accepts) /\ Effort[w] \in Nat
  BY CostIsNumber DEF TypeOK, Effort, Accepts

\* As long as calls may begin the budget and the limit are not used up.
LEMMA PoolIsNumber ==
  TypeOK /\ CircuitInv => Pool(task.count, breaker.failures, Accepts) \in Nat
<1> SUFFICES ASSUME TypeOK, CircuitInv, Accepts
             PROVE  Pool(task.count, breaker.failures, Accepts) \in Nat
  BY DEF Pool
<1>1. MaxCalls - task.count \in Nat /\ FailureLimit - breaker.failures \in Nat
  BY LimitAssumption DEF TypeOK, CircuitInv, Accepts
<1>2. Call * (MaxCalls - task.count) \in Nat
  BY <1>1, CallIsNumber
<1>3. Failure * (FailureLimit - breaker.failures) \in Nat
  BY <1>1 DEF Failure
<1> QED
  BY <1>2, <1>3 DEF Pool

LEMMA WorkLeftIsNumber == TypeOK /\ CircuitInv => WorkLeft \in Nat
<1> SUFFICES ASSUME TypeOK, CircuitInv PROVE WorkLeft \in Nat
  OBVIOUS
<1>1. SumFunctionOnSet(Effort, Workers) \in Nat
  <2>1. \A w \in Workers : Effort[w] \in Nat
    BY EffortIsNumber
  <2> QED
    BY <2>1, WorkersAssumption, SumIsNatural
<1>2. RoutesLeft \in Nat
  BY RoutesLeftIsNumber
<1> QED
  BY <1>1, <1>2, PoolIsNumber DEF WorkLeft, Left

\* The steps that neither take a call of the budget nor count a failure.
Falls(l, m) ==
  \/ /\ ~l.failing /\ ~m.failing
     /\ \/ l.place = "opened" /\ m.place = "raised"
        \/ l.place = "tool" /\ m.place = "save"
        \/ l.place = "save" /\ m.place \in {"readback", "raised"}
        \/ l.place = "readback" /\ m.place \in {"finish", "raised"}
        \/ l.place = "finish" /\ m.place \in {"append", "raised"}
        \/ l.place = "append" /\ m.place \in {"count", "raised"}
  \/ l.failing /\ l.place = "finish" /\ m.failing /\ m.place = "append"
  \/ l.failing /\ l.place \in {"finish", "append"} /\ ~m.failing /\ m.place = "idle"

LEMMA FallCosts ==
  ASSUME NEW l \in Locals, NEW m \in Locals, Falls(l, m), NEW accepts \in BOOLEAN
  PROVE  Cost(m, accepts) < Cost(l, accepts)
<1>1. Rank(m) < Rank(l) /\ Rank(m) \in Nat /\ Rank(l) \in Nat
  BY DEF Falls, Rank
<1>2. m.failing \/ m.place = "idle" => l.failing
  BY DEF Falls
<1>3. MayReset(m) => MayReset(l)
  BY DEF Falls, MayReset
<1> QED
  BY <1>1, <1>2, <1>3, CallIsNumber DEF Cost

\* What one step of a worker takes away, when every other worker stays as it is.
Spends(w) ==
  /\ Accepts' => Accepts
  /\ \A v \in Workers \ {w} : exec'[v] = exec[v]
  /\ Cost(exec'[w], Accepts') + Left' < Cost(exec[w], Accepts) + Left

LEMMA LocalsAfter ==
  ASSUME TypeOK, NEW w \in Workers, NEW l, Become(w, l)
  PROVE  exec'[w] = l /\ \A v \in Workers \ {w} : exec'[v] = exec[v]
  BY DEF TypeOK, Become

LEMMA LeftIsNumber == TypeOK /\ CircuitInv => Left \in Int
  BY PoolIsNumber, RoutesLeftIsNumber DEF Left

\* The same of the next state.
LEMMA LeftIsNumberNext == (TypeOK /\ CircuitInv => Left \in Int)'
  BY LeftIsNumber, PTL

LEMMA EffortIsNumberNext ==
  (TypeOK => \A w \in Workers : Effort[w] = Cost(exec[w], Accepts) /\ Effort[w] \in Nat)'
  BY EffortIsNumber, PTL

LEMMA WorkLeftIsNumberNext == (TypeOK /\ CircuitInv => WorkLeft \in Nat)'
  BY WorkLeftIsNumber, PTL

LEMMA FallSpends ==
  ASSUME TypeOK, TypeOK', CircuitInv, NEW w \in Workers, UNCHANGED <<breaker, turn>>,
         task'.count = task.count, \A v \in Workers \ {w} : exec'[v] = exec[v],
         Falls(exec[w], exec'[w])
  PROVE  Spends(w)
<1>1. Left' = Left /\ Accepts' = Accepts /\ Accepts \in BOOLEAN
  BY DEF Left, Accepts, Pool, RoutesLeft
<1>2. Left \in Int
  BY LeftIsNumber
<1>4. exec[w] \in Locals /\ exec'[w] \in Locals
  BY DEF TypeOK
<1>5. Cost(exec'[w], Accepts) < Cost(exec[w], Accepts)
  BY <1>1, <1>4, FallCosts
<1>6. Cost(exec'[w], Accepts) \in Nat /\ Cost(exec[w], Accepts) \in Nat
  BY <1>1, <1>4, CostIsNumber
<1>7. Cost(exec'[w], Accepts') = Cost(exec'[w], Accepts)
  BY <1>1
<1> QED
  BY <1>1, <1>2, <1>5, <1>6, <1>7 DEF Spends

\* A worker that raises falls, whatever it was doing under a call.
LEMMA RaiseFalls ==
  ASSUME TypeOK, CallInv, NEW w \in Workers, Raise(w),
         exec[w].place \in {"opened", "save", "readback", "finish", "append"}
  PROVE  Falls(exec[w], exec'[w]) /\ \A v \in Workers \ {w} : exec'[v] = exec[v]
<1>1. exec[w].failing => exec[w].place \in {"finish", "append"}
  BY DEF CallInv, LocalsGood, Good
<1>2. exec'[w] = Raised(exec[w]) /\ \A v \in Workers \ {w} : exec'[v] = exec[v]
  BY RaiseBecomes, LocalsAfter
<1>3. CASE exec[w].failing
  <2>1. exec'[w].place = "idle" /\ ~exec'[w].failing
    BY <1>2, <1>3 DEF Raised, Idle
  <2> QED
    BY <1>1, <1>2, <1>3, <2>1 DEF Falls
<1>4. CASE ~exec[w].failing
  <2>1. exec'[w].place = "raised" /\ ~exec'[w].failing
    BY <1>2, <1>4 DEF Raised, Idle
  <2> QED
    BY <1>2, <1>4, <2>1 DEF Falls
<1> QED
  BY <1>3, <1>4

\* What becomes of a worker in a step that neither takes a call of the budget nor
\* counts a failure.
FallsAlone(w) ==
  /\ Falls(exec[w], exec'[w])
  /\ \A v \in Workers \ {w} : exec'[v] = exec[v]
  /\ UNCHANGED <<breaker, turn>> /\ task'.count = task.count

LEMMA RunToolFalls ==
  ASSUME TypeOK, CallInv, NEW w \in Workers, RunTool(w) PROVE FallsAlone(w)
<1>1. UNCHANGED <<breaker, turn, task>> /\ exec[w].place = "tool"
  BY DEF RunTool, At
<1>2. exec[w] \in Locals /\ ~exec[w].failing
  BY <1>1 DEF TypeOK, CallInv, LocalsGood, Good
<1>3. \A result \in Results : Finds(exec[w].tool, result) \subseteq SUBSET Evidence
  BY DEF Finds, Evidence
<1>4. PICK result \in Results, found \in SUBSET Evidence :
        Become(w, [exec[w] EXCEPT !.place = "save", !.result = result,
                                  !.found = exec[w].found \cup found])
  BY <1>3 DEF RunTool
<1>5. exec'[w] = [exec[w] EXCEPT !.place = "save", !.result = result,
                                 !.found = exec[w].found \cup found]
  BY <1>4, LocalsAfter
<1>6. exec'[w].place = "save" /\ ~exec'[w].failing
  BY <1>2, <1>5 DEF Locals
<1> QED
  BY <1>1, <1>2, <1>4, <1>6, LocalsAfter DEF FallsAlone, Falls

LEMMA SaveFalls ==
  ASSUME TypeOK, CallInv, NEW w \in Workers, Save(w) PROVE FallsAlone(w)
<1>1. UNCHANGED <<breaker, turn, task>> /\ exec[w].place = "save"
  BY DEF Save, At
<1>2. exec[w] \in Locals /\ ~exec[w].failing
  BY <1>1 DEF TypeOK, CallInv, LocalsGood, Good
<1>3. \/ exec'[w] = [exec[w] EXCEPT !.place = "readback", !.found = {},
                       !.gate = GateResult(exec[w].result, exec[w].found)]
      \/ exec'[w] = [Idle EXCEPT !.place = "raised"]
  BY LocalsAfter DEF Save
<1>4. CASE exec'[w] = [exec[w] EXCEPT !.place = "readback", !.found = {},
                         !.gate = GateResult(exec[w].result, exec[w].found)]
  <2>1. exec'[w].place = "readback" /\ ~exec'[w].failing
    BY <1>2, <1>4 DEF Locals
  <2> QED
    BY <1>1, <1>2, <2>1, LocalsAfter DEF Save, FallsAlone, Falls
<1>5. CASE exec'[w] = [Idle EXCEPT !.place = "raised"]
  <2>1. exec'[w].place = "raised" /\ ~exec'[w].failing
    BY <1>5 DEF Idle
  <2> QED
    BY <1>1, <1>2, <2>1, LocalsAfter DEF Save, FallsAlone, Falls
<1> QED
  BY <1>3, <1>4, <1>5

LEMMA ReadBackFalls ==
  ASSUME TypeOK, CallInv, NEW w \in Workers, ReadBack(w) PROVE FallsAlone(w)
<1>1. UNCHANGED <<breaker, turn, task>> /\ exec[w].place = "readback"
  BY DEF ReadBack, At
<1>2. exec[w] \in Locals /\ ~exec[w].failing
  BY <1>1 DEF TypeOK, CallInv, LocalsGood, Good
<1>3. CASE Raise(w)
  BY <1>1, <1>3, RaiseFalls DEF FallsAlone
<1>4. CASE ~Raise(w)
  <2> DEFINE mutation == /\ exec[w].tool = "write" /\ exec[w].result = "done"
                         /\ exec[w].before # Identity(w)
  <2>1. Become(w, [exec[w] EXCEPT !.place = "finish", !.diff = Identity(w),
                                  !.before = Clean, !.mutation = mutation])
    BY <1>4 DEF ReadBack
  <2>2. exec'[w] = [exec[w] EXCEPT !.place = "finish", !.diff = Identity(w),
                                   !.before = Clean, !.mutation = mutation]
    BY <2>1, LocalsAfter
  <2>3. exec'[w].place = "finish" /\ ~exec'[w].failing
    BY <1>2, <2>2 DEF Locals
  <2> QED
    BY <1>1, <1>2, <2>1, <2>3, LocalsAfter DEF FallsAlone, Falls
<1> QED
  BY <1>3, <1>4

LEMMA LookFalls ==
  ASSUME TypeOK, CallInv, NEW w \in Workers, Look(w) PROVE FallsAlone(w)
<1>1. UNCHANGED <<breaker, turn, task>> /\ exec[w].place = "finish"
  BY DEF Look, At
<1>2. exec[w] \in Locals
  BY DEF TypeOK
<1>3. CASE Raise(w)
  BY <1>1, <1>3, RaiseFalls DEF FallsAlone
<1>4. CASE ~Raise(w)
  <2>1. Become(w, [exec[w] EXCEPT !.place = "append", !.last = Len(receipts)])
    BY <1>4 DEF Look
  <2>2. exec'[w] = [exec[w] EXCEPT !.place = "append", !.last = Len(receipts)]
    BY <2>1, LocalsAfter
  <2>3. exec'[w].place = "append" /\ exec'[w].failing = exec[w].failing
    BY <1>2, <2>2 DEF Locals
  <2> QED
    BY <1>1, <1>2, <2>1, <2>3, LocalsAfter DEF FallsAlone, Falls
<1> QED
  BY <1>3, <1>4

LEMMA InsertFalls ==
  ASSUME TypeOK, CallInv, NEW w \in Workers, Insert(w) PROVE FallsAlone(w)
<1>1. UNCHANGED <<breaker, turn>> /\ exec[w].place = "append"
  BY DEF Insert, At
<1>2. task'.count = task.count
  <2>1. task' = task \/ task' = WithVerdict(Verdict(w))
    BY DEF Insert, Inserted
  <2> QED
    BY <2>1 DEF TypeOK, WithVerdict
<1>3. CASE Raise(w)
  BY <1>1, <1>2, <1>3, RaiseFalls DEF FallsAlone
<1>4. CASE ~Raise(w)
  <2>1. Become(w, IF exec[w].failing THEN Idle
                  ELSE [Idle EXCEPT !.place = "count", !.result = exec[w].result,
                                    !.mutation = exec[w].mutation])
    BY <1>4 DEF Insert
  <2>2. exec'[w] = IF exec[w].failing THEN Idle
                   ELSE [Idle EXCEPT !.place = "count", !.result = exec[w].result,
                                     !.mutation = exec[w].mutation]
    BY <2>1, LocalsAfter
  <2>3. /\ exec[w].failing => exec'[w].place = "idle" /\ ~exec'[w].failing
        /\ ~exec[w].failing => exec'[w].place = "count" /\ ~exec'[w].failing
    BY <2>2 DEF Idle
  <2> QED
    BY <1>1, <1>2, <2>1, <2>3, LocalsAfter DEF FallsAlone, Falls
<1> QED
  BY <1>3, <1>4

LEMMA QuietSpends ==
  ASSUME TypeOK, TypeOK', CallInv, CircuitInv, NEW w \in Workers,
         RunTool(w) \/ Save(w) \/ ReadBack(w) \/ Look(w) \/ Insert(w)
  PROVE  Spends(w)
<1>1. FallsAlone(w)
  BY RunToolFalls, SaveFalls, ReadBackFalls, LookFalls, InsertFalls
<1> QED
  BY <1>1, FallSpends DEF FallsAlone

\* A call of the budget pays for a call that may be counted as done.
LEMMA StartSpends ==
  ASSUME TypeOK, TypeOK', CallInv, CircuitInv, NEW w \in Workers, Start(w) PROVE Spends(w)
<1>1. UNCHANGED <<breaker, turn>> /\ exec[w].place = "opened"
  BY DEF Start, At
<1>2. exec[w] \in Locals /\ exec'[w] \in Locals /\ ~exec[w].failing
  BY <1>1 DEF TypeOK, CallInv, LocalsGood, Good
<1>3. CASE CallStarted(exec[w].tool)
  <2>1. task'.count = task.count + 1 /\ MaxCalls - task.count \in Nat
    BY <1>3, LimitAssumption DEF CallStarted, TypeOK
  <2>2. Left' = IF Accepts THEN Left - Call ELSE Left
    <3>1. Accepts' = Accepts /\ turn' = turn /\ breaker' = breaker
      BY <1>1 DEF Accepts
    <3>2. Call * (MaxCalls - task'.count) = Call * (MaxCalls - task.count) - Call
      <4>1. MaxCalls \in Nat /\ task.count \in Nat /\ Call \in Nat
        BY LimitAssumption, CallIsNumber DEF TypeOK
      <4> QED
        BY <2>1, <4>1
    <3>3. Call * (MaxCalls - task.count) \in Int
      BY <2>1, CallIsNumber
    <3>4. /\ Failure * (FailureLimit - breaker.failures) \in Int
          /\ RoutesLeft \in Nat /\ RoutesLeft' = RoutesLeft
      BY <3>1, LimitAssumption, RoutesLeftIsNumber DEF TypeOK, Failure, RoutesLeft
    <3> QED
      BY <3>1, <3>2, <3>3, <3>4, CallIsNumber DEF Left, Pool
  <2>3. \/ exec'[w].place = "tool" /\ ~exec'[w].failing
        \/ exec'[w].place = "raised" /\ ~exec'[w].failing
    <3>1. \/ exec'[w] = [exec[w] EXCEPT !.place = "tool", !.call = Len(calls) + 1]
          \/ Raise(w)
      BY <1>3, LocalsAfter DEF Start
    <3>2. CASE exec'[w] = [exec[w] EXCEPT !.place = "tool", !.call = Len(calls) + 1]
      BY <1>2, <3>2 DEF Locals
    <3>3. CASE Raise(w)
      BY <1>1, <1>2, <3>3, RaiseFalls DEF Falls
    <3> QED
      BY <3>1, <3>2, <3>3
  <2>4. Cost(exec'[w], Accepts) < Cost(exec[w], Accepts) + (IF Accepts THEN Call ELSE 0)
    BY <1>1, <1>2, <2>3, CallIsNumber DEF Cost, Rank, MayReset
  <2>5. Cost(exec'[w], Accepts) \in Nat /\ Cost(exec[w], Accepts) \in Nat
    BY <1>2, CostIsNumber DEF Accepts, TypeOK
  <2>6. Accepts' = Accepts /\ Cost(exec'[w], Accepts') = Cost(exec'[w], Accepts)
    BY <1>1 DEF Accepts
  <2>7. \A v \in Workers \ {w} : exec'[v] = exec[v]
    BY LocalsAfter, RaiseBecomes DEF Start
  <2> QED
    BY <2>2, <2>4, <2>5, <2>6, <2>7, CallIsNumber, LeftIsNumber DEF Spends
<1>4. CASE ~CallStarted(exec[w].tool)
  <2>1. Raise(w) /\ UNCHANGED task
    BY <1>4 DEF Start
  <2> QED
    BY <1>1, <2>1, RaiseFalls, FallSpends
<1> QED
  BY <1>3, <1>4

\* The first step of a worker costs no more than what an idle one is worth.
LEMMA OpenSpends ==
  ASSUME TypeOK, TypeOK', CallInv, CircuitInv, NEW w \in Workers, NEW tool \in Tools, Open(w, tool)
  PROVE  Spends(w)
<1>1. UNCHANGED <<breaker, turn, task>> /\ exec[w].place = "idle" /\ Accepts
  BY DEF Open, At, Accepts
<1>2. exec[w] \in Locals /\ exec'[w] \in Locals /\ ~exec[w].failing
  BY <1>1 DEF TypeOK, CallInv, LocalsGood, Good
<1>3. exec'[w] = [Idle EXCEPT !.place = "opened", !.tool = tool, !.found = evidence,
                              !.before = content]
      /\ \A v \in Workers \ {w} : exec'[v] = exec[v]
  BY LocalsAfter DEF Open
<1>4. exec'[w].place = "opened" /\ ~exec'[w].failing
  BY <1>3 DEF Idle
<1>5. Left' = Left /\ Accepts' = Accepts
  BY <1>1 DEF Left, Accepts, Pool, RoutesLeft
<1>6. Cost(exec'[w], Accepts') = 9 /\ Cost(exec[w], Accepts) = 10
  BY <1>1, <1>2, <1>4, <1>5 DEF Cost, Rank, MayReset
<1> QED
  BY <1>3, <1>5, <1>6, LeftIsNumber DEF Spends

\* What counting a call as failed or done leaves of the pool.
LEMMA RecordedLeft ==
  ASSUME TypeOK, TypeOK', CircuitInv, CircuitInv', UNCHANGED <<turn, task>>,
         NEW failed \in BOOLEAN, breaker' = Recorded(failed)
  PROVE  /\ Accepts' => Accepts
         /\ ~Accepts => Left' = Left
         /\ Accepts /\ (failed \/ ~Accepts') => Left' <= Left - Failure
         /\ Accepts' /\ ~failed => Left' <= Left + Failure * FailureLimit - Failure
<1>1. /\ Call \in Nat /\ MaxCalls - task.count \in Nat /\ RoutesLeft \in Nat
      /\ FailureLimit \in Nat \ {0} /\ breaker.failures \in Nat /\ breaker'.failures \in Nat
      /\ turn' = turn /\ task' = task
  BY CallIsNumber, LimitAssumption, RoutesLeftIsNumber DEF TypeOK
<1>2. PICK calling \in Nat : calling = Call * (MaxCalls - task.count)
  BY <1>1
<1>3. /\ Left = (IF Accepts THEN calling + Failure * (FailureLimit - breaker.failures) ELSE 0)
                 + RoutesLeft
      /\ Left' = (IF Accepts' THEN calling + Failure * (FailureLimit - breaker'.failures) ELSE 0)
                  + RoutesLeft
  <2>1. RoutesLeft' = RoutesLeft
    BY <1>1 DEF RoutesLeft
  <2>. QED  BY <1>1, <1>2, <2>1 DEF Left, Pool
<1>4. /\ failed => breaker'.failures = breaker.failures + 1
      /\ ~failed => breaker'.failures = 0
      /\ breaker.open => breaker'.open
  BY DEF Recorded, TypeOK
<1>5. Accepts' => Accepts
  BY <1>1, <1>4 DEF Accepts
<1>6. Accepts => breaker.failures < FailureLimit
  BY DEF Accepts, CircuitInv
<1> QED
  BY <1>1, <1>3, <1>4, <1>5, <1>6 DEF Failure

LEMMA CountSpends ==
  ASSUME TypeOK, TypeOK', CallInv, CircuitInv, CircuitInv', NEW w \in Workers, Count(w)
  PROVE  Spends(w)
<1>1. UNCHANGED <<turn, task>> /\ exec[w].place = "count"
  BY DEF Count, At
<1>2. exec[w] \in Locals /\ ~exec[w].failing
  BY <1>1 DEF TypeOK, CallInv, LocalsGood, Good
<1>3. exec'[w].place = "idle" /\ ~exec'[w].failing /\ \A v \in Workers \ {w} : exec'[v] = exec[v]
  BY LocalsAfter DEF Count, Idle
<1>4. PICK failed \in BOOLEAN : breaker' = Recorded(failed)
  BY DEF Count
<1>5. Cost(exec[w], Accepts) = IF Accepts THEN 1 + Call ELSE 1
  BY <1>1, <1>2, CallIsNumber DEF Cost, Rank, MayReset
<1>6. Cost(exec'[w], Accepts') = IF Accepts' THEN 10 ELSE 0
  BY <1>3 DEF Cost, Rank, MayReset
<1>7. /\ Accepts' => Accepts
      /\ ~Accepts => Left' = Left
      /\ Accepts /\ (failed \/ ~Accepts') => Left' <= Left - Failure
      /\ Accepts' /\ ~failed => Left' <= Left + Failure * FailureLimit - Failure
  BY <1>1, <1>4, RecordedLeft
<1>8. Left \in Int /\ Left' \in Int
  BY LeftIsNumber, LeftIsNumberNext
<1>9. /\ Failure * FailureLimit \in Nat /\ Failure = 13
      /\ Call = Failure * FailureLimit + Failure
  BY LimitAssumption, CallIsNumber DEF Failure
<1>10. CASE Accepts /\ Accepts' /\ ~failed
  BY <1>3, <1>5, <1>6, <1>7, <1>8, <1>9, <1>10 DEF Spends
<1>11. CASE Accepts /\ (failed \/ ~Accepts')
  BY <1>3, <1>5, <1>6, <1>7, <1>8, <1>9, <1>11 DEF Spends
<1>12. CASE ~Accepts
  BY <1>3, <1>5, <1>6, <1>7, <1>8, <1>12 DEF Spends
<1> QED
  BY <1>10, <1>11, <1>12

LEMMA HandleFailureSpends ==
  ASSUME TypeOK, TypeOK', CallInv, CircuitInv, CircuitInv', NEW w \in Workers, HandleFailure(w)
  PROVE  Spends(w)
<1>1. UNCHANGED <<turn, task>> /\ exec[w].place = "raised" /\ breaker' = Recorded(TRUE)
  BY DEF HandleFailure, At
<1>2. exec[w] \in Locals /\ ~exec[w].failing
  BY <1>1 DEF TypeOK, CallInv, LocalsGood, Good
<1>3. /\ \A v \in Workers \ {w} : exec'[v] = exec[v]
      /\ \/ exec'[w] = [exec[w] EXCEPT !.place = "finish", !.result = "failed",
                                       !.diff = content, !.failing = TRUE]
         \/ exec'[w] = Idle
  BY LocalsAfter DEF HandleFailure
<1>4. \/ exec'[w].place = "finish" /\ exec'[w].failing
      \/ exec'[w].place = "idle" /\ ~exec'[w].failing
  <2>1. CASE exec'[w] = [exec[w] EXCEPT !.place = "finish", !.result = "failed",
                                        !.diff = content, !.failing = TRUE]
    BY <1>2, <2>1 DEF Locals
  <2>2. CASE exec'[w] = Idle
    BY <2>2 DEF Idle
  <2> QED
    BY <1>3, <2>1, <2>2
<1>5. Cost(exec[w], Accepts) = 3
  BY <1>1, <1>2 DEF Cost, Rank, MayReset
<1>6. /\ Cost(exec'[w], Accepts') \in Int
      /\ Cost(exec'[w], Accepts') <= IF Accepts' THEN 12 ELSE 2
  BY <1>4 DEF Cost, Rank, MayReset
<1>7. /\ Accepts' => Accepts
      /\ ~Accepts => Left' = Left
      /\ Accepts => Left' <= Left - Failure
  BY <1>1, RecordedLeft
<1>8. Left \in Int /\ Left' \in Int
  BY LeftIsNumber, LeftIsNumberNext
<1> QED
  BY <1>3, <1>5, <1>6, <1>7, <1>8 DEF Spends, Failure

\* What one worker spends is gone from the whole.
LEMMA SpendsWork ==
  ASSUME TypeOK, TypeOK', CircuitInv, CircuitInv', NEW w \in Workers, Spends(w)
  PROVE  WorkLeft' < WorkLeft
<1>1. \A v \in Workers : Effort[v] = Cost(exec[v], Accepts) /\ Effort[v] \in Int
  BY EffortIsNumber
<1>2. \A v \in Workers : Effort'[v] = Cost(exec[v], Accepts)' /\ Effort'[v] \in Int
  BY EffortIsNumberNext
<1>3. \A v \in Workers \ {w} : Effort'[v] <= Effort[v]
  <2> TAKE v \in Workers \ {w}
  <2>1. exec'[v] = exec[v] /\ (Accepts' => Accepts) /\ exec[v] \in Locals
    BY DEF Spends, TypeOK
  <2>2. Cost(exec[v], Accepts') <= Cost(exec[v], Accepts)
    BY <2>1, RankIsNumber, CallIsNumber DEF Cost
  <2> QED
    BY <1>1, <1>2, <2>1, <2>2
<1> DEFINE before == Effort
           after == Effort'
<1>4. /\ \A v \in Workers : before[v] \in Int /\ after[v] \in Int
      /\ \A v \in Workers \ {w} : after[v] <= before[v]
  BY <1>1, <1>2, <1>3
<1>5. WorkLeft = SumFunctionOnSet(before, Workers) + Left
  BY DEF WorkLeft
<1>6. WorkLeft' = SumFunctionOnSet(after, Workers) + Left'
  BY DEF WorkLeft
<1>7. after[w] + Left' < before[w] + Left
  BY <1>1, <1>2 DEF Spends
<1> HIDE DEF before, after
<1>8. /\ SumFunctionOnSet(after, Workers) - after[w] <= SumFunctionOnSet(before, Workers) - before[w]
      /\ SumFunctionOnSet(after, Workers) \in Int /\ SumFunctionOnSet(before, Workers) \in Int
  BY <1>4, WorkersAssumption, SumFollows, SumIsInteger
<1>9. Left \in Int /\ Left' \in Int /\ before[w] \in Int /\ after[w] \in Int
  BY <1>4, LeftIsNumber, LeftIsNumberNext
<1> QED
  BY <1>5, <1>6, <1>7, <1>8, <1>9

LEMMA RouteSpends ==
  ASSUME TypeOK, Executor
  PROVE  RoutesLeft' \in Int /\ RoutesLeft' < RoutesLeft
<1>1. turn \in [route : 1..Routes, at : Phases, since : Nat] /\ Routes \in Nat
  BY LimitAssumption DEF TypeOK
<1>2. RoutesLeft' = 3 * (Routes - turn'.route) + PhaseRank(turn'.at)
  BY DEF RoutesLeft
<1>3. /\ PhaseRank("starting") = 3 /\ PhaseRank("running") = 2
      /\ PhaseRank("completed") = 1 /\ PhaseRank("over") = 0
  BY DEF PhaseRank
<1>4. CASE Replay
  <2>1. turn' = [turn EXCEPT !.route = turn.route + 1, !.at = "starting"]
        /\ turn.at \in {"running", "completed"}
    BY <1>4 DEF Replay
  <2>2. turn'.route = turn.route + 1 /\ turn'.at = "starting"
    BY <1>1, <2>1
  <2>. QED  BY <1>1, <1>2, <1>3, <2>1, <2>2 DEF RoutesLeft
<1>5. ASSUME turn'.route = turn.route, PhaseRank(turn'.at) < PhaseRank(turn.at),
             PhaseRank(turn'.at) \in Nat, PhaseRank(turn.at) \in Nat
      PROVE  RoutesLeft' \in Int /\ RoutesLeft' < RoutesLeft
  BY <1>1, <1>2, <1>5 DEF RoutesLeft
<1>6. CASE BeginRoute
  BY <1>1, <1>3, <1>5, <1>6 DEF BeginRoute
<1>7. CASE Complete
  BY <1>1, <1>3, <1>5, <1>7 DEF Complete
<1>8. CASE Verify
  BY <1>1, <1>3, <1>5, <1>8 DEF Verify
<1>9. CASE Close
  <2>1. turn'.route = turn.route /\ turn'.at = "over" /\ turn.at \in Phases \ {"over"}
    BY <1>1, <1>9 DEF Close
  <2>2. PhaseRank(turn.at) \in 1..3
    BY <1>3, <2>1 DEF Phases
  <2>. QED  BY <1>3, <1>5, <2>1, <2>2
<1>. QED  BY <1>4, <1>6, <1>7, <1>8, <1>9 DEF Executor

\* A step of the executor uses up a phase of the route, or a route; ending the turn
\* the chance to begin a call.
LEMMA ExecutorSpends ==
  ASSUME TypeOK, TypeOK', CircuitInv, CircuitInv', Executor
  PROVE  WorkLeft' < WorkLeft
<1>1. exec' = exec /\ breaker' = breaker /\ task'.count = task.count
  <2>1. task' = task \/ \E status \in TaskStatuses : TaskReads(status)
    BY DEF Executor, BeginRoute, Complete, Replay, Verify, Close, TaskStatuses, CallStatuses,
           TypeOK
  <2>2. task'.count = task.count
    BY <2>1 DEF TaskReads, TypeOK
  <2>. QED  BY <2>2, ExecutorLeaves
<1>2. Accepts' => Accepts
  BY <1>1 DEF Executor, BeginRoute, Complete, Replay, Verify, Close, Accepts, TypeOK
<1>3. Left' < Left
  <2>1. PICK pool \in Nat : pool = Pool(task.count, breaker.failures, Accepts)
    BY PoolIsNumber
  <2>2. Left = pool + RoutesLeft /\ RoutesLeft \in Nat
    BY <2>1, RoutesLeftIsNumber DEF Left
  <2>3. Left' = (IF Accepts' THEN pool ELSE 0) + RoutesLeft'
    BY <1>1, <1>2, <2>1 DEF Left, Pool
  <2>4. RoutesLeft' \in Int /\ RoutesLeft' < RoutesLeft
    BY RouteSpends
  <2> QED
    BY <2>1, <2>2, <2>3, <2>4
<1>4. \A w \in Workers : Effort'[w] \in Int /\ Effort[w] \in Int /\ Effort'[w] <= Effort[w]
  <2> TAKE w \in Workers
  <2>1. exec'[w] = exec[w] /\ exec[w] \in Locals
    BY <1>1 DEF TypeOK
  <2>2. Cost(exec[w], Accepts') <= Cost(exec[w], Accepts)
    BY <1>2, <2>1, RankIsNumber, CallIsNumber DEF Cost
  <2>3. /\ Effort'[w] = Cost(exec[w], Accepts)' /\ Effort'[w] \in Int
        /\ Effort[w] = Cost(exec[w], Accepts) /\ Effort[w] \in Int
    BY EffortIsNumber, EffortIsNumberNext
  <2>4. Cost(exec[w], Accepts)' = Cost(exec[w], Accepts')
    BY <2>1
  <2> QED
    BY <2>2, <2>3, <2>4
<1> DEFINE before == Effort
           after == Effort'
<1>5. WorkLeft = SumFunctionOnSet(before, Workers) + Left
  BY DEF WorkLeft
<1>6. WorkLeft' = SumFunctionOnSet(after, Workers) + Left'
  BY DEF WorkLeft
<1>7. \A w \in Workers : after[w] \in Int /\ before[w] \in Int /\ after[w] <= before[w]
  BY <1>4
<1> HIDE DEF before, after
<1>8. /\ SumFunctionOnSet(after, Workers) <= SumFunctionOnSet(before, Workers)
      /\ SumFunctionOnSet(after, Workers) \in Int /\ SumFunctionOnSet(before, Workers) \in Int
  BY <1>7, WorkersAssumption, SumIsMonotone, SumIsInteger
<1>9. Left \in Int /\ Left' \in Int
  BY LeftIsNumber, LeftIsNumberNext
<1> QED
  BY <1>3, <1>5, <1>6, <1>8, <1>9

\* Whatever the model asks for, however its calls overlap, whatever fails and
\* however often the turn is replayed: every step leaves less to be done, so the
\* turn cannot go on for ever.
THEOREM WorkRunsOut ==
  Spec => [][/\ WorkLeft \in Nat /\ WorkLeft' \in Nat
            /\ WorkLeft' < WorkLeft]_vars
<1>1. /\ TypeOK /\ TypeOK' /\ CallInv /\ CircuitInv /\ CircuitInv' /\ [Next]_vars
      => [/\ WorkLeft \in Nat /\ WorkLeft' \in Nat
          /\ WorkLeft' < WorkLeft]_vars
  <2> SUFFICES ASSUME TypeOK, TypeOK', CallInv, CircuitInv, CircuitInv', Next
               PROVE  WorkLeft \in Nat /\ WorkLeft' \in Nat /\ WorkLeft' < WorkLeft
    OBVIOUS
  <2>1. WorkLeft \in Nat /\ WorkLeft' \in Nat
    BY WorkLeftIsNumber, WorkLeftIsNumberNext
  <2>2. ASSUME NEW w \in Workers, Step(w) \/ \E tool \in Tools : Open(w, tool)
        PROVE  WorkLeft' < WorkLeft
    <3>1. Spends(w)
      BY <2>2, QuietSpends, StartSpends, CountSpends, HandleFailureSpends, OpenSpends DEF Step
    <3> QED
      BY <3>1, SpendsWork
  <2>3. CASE Executor
    BY <2>1, <2>3, ExecutorSpends
  <2> QED
    BY <2>1, <2>2, <2>3 DEF Next
<1>2. Init => CircuitInv
  BY LimitAssumption DEF Init, CircuitInv
<1> QED
  BY <1>1, <1>2, CircuitInvStep, CallsInvariant, PTL DEF Spec

-----------------------------------------------------------------------------
(* A replay after a write: what it takes.                                    *)

\* A write of the call under way changed the workspace, and the toolset will count it.
Held(l) ==
  \/ l.place \in {"save", "readback"} /\ l.tool = "write" /\ l.result = "done" /\ l.before # content
  \/ l.mutation

\* What a lone worker read is still true.
Current(w) ==
  /\ exec[w].place \in {"opened", "tool"} => exec[w].before = content
  /\ exec[w].place = "finish" /\ ~exec[w].failing => StillRunning(exec[w].call)
  /\ exec[w].place = "append" => exec[w].last = Len(receipts)

TouchInv ==
  ~overlap /\ faults = 0 =>
    /\ \A w \in Workers : Current(w)
    /\ touched => counted \/ \E w \in Workers : Held(exec[w])

\* What TouchInv says when every worker but w is idle.
Counts(w) == Current(w) /\ (touched => counted \/ Held(exec[w]))

LEMMA OnlyHeld ==
  ASSUME TypeOK, LocalsGood, NEW w \in Workers, NEW v \in Workers, v # w, At(v, "idle")
  PROVE  Current(v) /\ ~Held(exec[v])
BY DEF LocalsGood, Good, Current, Held, At

\* The steps of a call, no failure and no other call disturbing it.
LEMMA StartCounts ==
  ASSUME TypeOK, LocalsGood, NEW w \in Workers, Counts(w), Start(w), NoFault, faults = 0
  PROVE  Counts(w)'
<1>1. exec[w].place = "opened" /\ ~exec[w].mutation /\ UNCHANGED <<content, touched, counted>>
  BY DEF Start, At, LocalsGood, Good
<1>2. exec[w].before = content /\ (touched => counted)
  BY <1>1 DEF Counts, Current, Held
<1>3. \/ exec' = [exec EXCEPT ![w] = [exec[w] EXCEPT !.place = "tool", !.call = Len(calls) + 1]]
      \/ Become(w, Raised(exec[w]))
  BY RaiseBecomes DEF Start, Become, Fault, NoFault
<1>4. /\ exec'[w].place \in {"tool", "raised", "idle"}
      /\ exec'[w].place = "tool" => exec'[w].before = content
  <2>1. CASE Become(w, Raised(exec[w]))
    BY <2>1 DEF Become, Raised, Idle, TypeOK
  <2>2. CASE exec' = [exec EXCEPT ![w] = [exec[w] EXCEPT !.place = "tool", !.call = Len(calls) + 1]]
    BY <1>2, <2>2 DEF TypeOK, Locals
  <2>. QED  BY <1>3, <2>1, <2>2
<1>. QED  BY <1>1, <1>2, <1>4 DEF Counts, Current

LEMMA RunToolCounts ==
  ASSUME TypeOK, LocalsGood, NEW w \in Workers, Counts(w), RunTool(w), NoFault, faults = 0
  PROVE  Counts(w)'
<1>1. exec[w].place = "tool" /\ ~exec[w].mutation /\ UNCHANGED counted
  BY DEF RunTool, At, LocalsGood, Good
<1>2. exec[w].before = content /\ (touched => counted)
  BY <1>1 DEF Counts, Current, Held
<1>. ~Fault
  BY DEF Fault, NoFault
<1>3. PICK result \in Results, new \in Contents :
        /\ new = content \/ exec[w].tool = "test" \/ (exec[w].tool = "write" /\ result = "done")
        /\ content' = new
        /\ touched' = (touched \/ (exec[w].tool = "write" /\ new # content))
        /\ \E found \in Finds(exec[w].tool, result) :
             Become(w, [exec[w] EXCEPT !.place = "save", !.result = result,
                                       !.found = @ \cup found])
  BY DEF RunTool
<1>4. /\ exec'[w].place = "save" /\ exec'[w].result = result
      /\ exec'[w].tool = exec[w].tool /\ exec'[w].before = exec[w].before
  BY <1>3 DEF Become, TypeOK, Locals
<1>. QED  BY <1>1, <1>2, <1>3, <1>4 DEF Counts, Current, Held

LEMMA SaveCounts ==
  ASSUME TypeOK, LocalsGood, NEW w \in Workers, Counts(w), Save(w), NoFault, faults = 0
  PROVE  Counts(w)'
<1>1. exec[w].place = "save" /\ ~exec[w].mutation /\ UNCHANGED <<content, touched, counted>>
  BY DEF Save, At, LocalsGood, Good
<1>2. exec' = [exec EXCEPT ![w] = [exec[w] EXCEPT !.place = "readback", !.found = {},
                 !.gate = GateResult(exec[w].result, exec[w].found)]]
  BY DEF Save, Become, Fault, NoFault
<1>3. /\ exec'[w].place = "readback" /\ exec'[w].tool = exec[w].tool
      /\ exec'[w].result = exec[w].result /\ exec'[w].before = exec[w].before
  BY <1>2 DEF TypeOK, Locals
<1>. QED  BY <1>1, <1>3 DEF Counts, Current, Held

LEMMA ReadBackCounts ==
  ASSUME TypeOK, LocalsGood, NEW w \in Workers, Counts(w), ReadBack(w), NoFault, faults = 0
  PROVE  Counts(w)'
<1>1. /\ exec[w].place = "readback" /\ ~exec[w].mutation
      /\ UNCHANGED <<content, calls, touched, counted>>
      /\ calls[exec[w].call].status = "RUNNING"
  BY DEF ReadBack, At, LocalsGood, Good, Called
<1>2. exec' = [exec EXCEPT ![w] = [exec[w] EXCEPT
                 !.place = "finish", !.diff = content, !.before = Clean,
                 !.mutation = /\ exec[w].tool = "write" /\ exec[w].result = "done"
                              /\ exec[w].before # content]]
  BY DEF ReadBack, Become, Identity, Fault, NoFault
<1>3. /\ exec'[w].place = "finish" /\ exec'[w].call = exec[w].call
      /\ exec'[w].mutation = (/\ exec[w].tool = "write" /\ exec[w].result = "done"
                              /\ exec[w].before # content)
  BY <1>2 DEF TypeOK, Locals
<1>. QED  BY <1>1, <1>3 DEF Counts, Current, Held, StillRunning

LEMMA LookCounts ==
  ASSUME TypeOK, LocalsGood, NEW w \in Workers, Counts(w), Look(w)
  PROVE  Counts(w)'
<1>1. exec[w].place = "finish" /\ UNCHANGED <<content, calls, receipts, touched, counted>>
  BY DEF Look, At
<1>2. CASE StillRunning(exec[w].call)
  <2>1. exec' = [exec EXCEPT ![w] = [exec[w] EXCEPT !.place = "append", !.last = Len(receipts)]]
    BY <1>2 DEF Look, Become
  <2>2. /\ exec'[w].place = "append" /\ exec'[w].last = Len(receipts)
        /\ exec'[w].mutation = exec[w].mutation
    BY <2>1 DEF TypeOK, Locals
  <2>. QED  BY <1>1, <2>2 DEF Counts, Current, Held
<1>3. CASE ~StillRunning(exec[w].call)
  <2>1. exec[w].failing
    BY <1>1, <1>3 DEF Counts, Current
  <2>2. ~exec[w].mutation
    BY <1>1, <2>1 DEF LocalsGood, Good
  <2>3. Become(w, Raised(exec[w]))
    BY <1>3, RaiseBecomes DEF Look
  <2>4. exec'[w].place = "idle"
    BY <2>1, <2>3 DEF Become, Raised, Idle, TypeOK
  <2>. QED  BY <1>1, <2>2, <2>4 DEF Counts, Current, Held
<1>. QED  BY <1>2, <1>3

LEMMA InsertCounts ==
  ASSUME TypeOK, LocalsGood, NEW w \in Workers, Counts(w), Insert(w), NoFault, faults = 0
  PROVE  Counts(w)'
<1>1. exec[w].place = "append" /\ UNCHANGED <<content, touched, counted>>
  BY DEF Insert, At
<1>2. Free(exec[w].last)
  BY <1>1 DEF Counts, Current, Free
<1>3. exec' = [exec EXCEPT ![w] = IF exec[w].failing THEN Idle
                 ELSE [Idle EXCEPT !.place = "count", !.result = exec[w].result,
                                   !.mutation = exec[w].mutation]]
  BY <1>2 DEF Insert, Become, Fault, NoFault
<1>4. exec[w].failing => ~exec[w].mutation
  BY <1>1 DEF LocalsGood, Good
<1>5. exec'[w].place \in {"idle", "count"} /\ (exec[w].mutation => exec'[w].mutation)
  BY <1>3, <1>4 DEF Idle, TypeOK
<1>. QED  BY <1>1, <1>5 DEF Counts, Current, Held

LEMMA CountCounts ==
  ASSUME TypeOK, NEW w \in Workers, Counts(w), Count(w)
  PROVE  Counts(w)'
<1>1. exec[w].place = "count" /\ UNCHANGED touched /\ counted' = (counted \/ exec[w].mutation)
  BY DEF Count, At, Mutated
<1>2. exec'[w].place = "idle"
  BY DEF Count, Become, Idle, TypeOK
<1>. QED  BY <1>1, <1>2 DEF Counts, Current, Held

LEMMA HandleFailureCounts ==
  ASSUME TypeOK, LocalsGood, NEW w \in Workers, Counts(w), HandleFailure(w)
  PROVE  Counts(w)'
<1>1. exec[w].place = "raised" /\ ~exec[w].mutation /\ UNCHANGED <<touched, counted>>
  BY DEF HandleFailure, At, LocalsGood, Good
<1>2. \/ exec' = [exec EXCEPT ![w] = [exec[w] EXCEPT !.place = "finish", !.result = "failed",
                                                    !.diff = content, !.failing = TRUE]]
      \/ exec' = [exec EXCEPT ![w] = Idle]
  BY DEF HandleFailure, Become
<1>3. exec'[w].place = "idle" \/ (exec'[w].place = "finish" /\ exec'[w].failing)
  <2>1. CASE exec' = [exec EXCEPT ![w] = Idle]
    BY <2>1 DEF Idle, TypeOK
  <2>2. CASE exec' = [exec EXCEPT ![w] = [exec[w] EXCEPT !.place = "finish", !.result = "failed",
                                                         !.diff = content, !.failing = TRUE]]
    BY <2>2 DEF TypeOK, Locals
  <2>. QED  BY <1>2, <2>1, <2>2
<1>. QED  BY <1>1, <1>3 DEF Counts, Current, Held

\* A step that leaves the number of failures at 0 is none.
LEMMA NoFailure ==
  ASSUME TypeOK, NEW w \in Workers, Step(w), faults' = 0
  PROVE  faults = 0 /\ NoFault
<1>1. faults \in Nat
  BY LimitAssumption DEF TypeOK
<1>2. faults' = faults + 1 \/ faults' = faults
  BY DEF Step, Start, RunTool, Save, ReadBack, Look, Insert, Count, HandleFailure, Fault, NoFault
<1>. QED  BY <1>1, <1>2 DEF NoFault

LEMMA TouchInvStep == TypeOK /\ CallInv /\ LedgerInv /\ TouchInv /\ [Next]_vars => TouchInv'
<1>. SUFFICES ASSUME TypeOK, TypeOK', CallInv, CallInv', LedgerInv, LedgerInv', TouchInv,
                     [Next]_vars, ~overlap', faults' = 0
              PROVE  /\ \A w \in Workers : Current(w)'
                     /\ touched' => counted' \/ \E w \in Workers : Held(exec[w])'
  BY TypeStep, CallStep, LedgerInvStep DEF TouchInv
<1>1. (Alone /\ Alone') \/ overlap
  BY DEF LedgerInv
<1>2. ASSUME NEW w \in Workers, Step(w)
      PROVE  /\ \A v \in Workers : Current(v)'
             /\ touched' => counted' \/ \E v \in Workers : Held(exec[v])'
  <2>1. ~overlap /\ ~At(w, "idle") /\ faults = 0 /\ NoFault
    BY <1>2, ContentStep, NoFailure DEF CallInv
  <2>2. \A v \in Workers \ {w} : At(v, "idle")
    BY <1>1, <2>1 DEF Alone
  <2>3. Counts(w)
    BY <2>1, <2>2, OnlyHeld DEF TouchInv, Counts, CallInv
  <2>4. Counts(w)'
    BY <1>2, <2>1, <2>3, StartCounts, RunToolCounts, SaveCounts, ReadBackCounts, LookCounts,
       InsertCounts, CountCounts, HandleFailureCounts DEF Step, CallInv
  <2>5. PICK l : Moves(w, l)
    BY <1>2, StepMoves DEF CallInv, Works
  <2>6. \A v \in Workers \ {w} : exec'[v] = exec[v]
    BY <2>5, Becomes DEF Moves, TypeOK
  <2>7. \A v \in Workers \ {w} : Current(v)'
    BY <2>2, <2>6 DEF Current, At
  <2>. QED  BY <2>4, <2>7 DEF Counts
<1>3. ASSUME NEW w \in Workers, NEW tool \in Tools, Open(w, tool)
      PROVE  /\ \A v \in Workers : Current(v)'
             /\ touched' => counted' \/ \E v \in Workers : Held(exec[v])'
  <2>1. /\ ~overlap /\ faults = 0 /\ \A v \in Workers : exec[v].place = "idle"
        /\ UNCHANGED <<content, touched, counted>>
    BY <1>3 DEF Open, At
  <2>2. \A v \in Workers : ~Held(exec[v])
    BY <2>1 DEF CallInv, LocalsGood, Good, Held
  <2>3. touched => counted
    BY <2>1, <2>2 DEF TouchInv
  <2>4. exec' = [exec EXCEPT ![w] = [Idle EXCEPT !.place = "opened", !.tool = tool,
                                       !.found = evidence, !.before = content]]
    BY <1>3 DEF Open, Become
  <2>5. /\ exec'[w].place = "opened" /\ exec'[w].before = content
        /\ \A v \in Workers \ {w} : exec'[v] = exec[v]
    BY <2>4 DEF Idle, TypeOK
  <2>. QED  BY <2>1, <2>3, <2>5 DEF Current
<1>4. CASE Executor \/ UNCHANGED vars
  <2>1. /\ UNCHANGED <<content, calls, receipts, exec, counted, overlap, touched>>
        /\ faults = 0
    <3>1. faults \in Nat /\ (faults' = faults + 1 \/ faults' = faults)
      BY <1>4, LimitAssumption DEF Executor, BeginRoute, Complete, Replay, Verify, Close, Fault,
             NoFault, TypeOK, vars
    <3>. QED  BY <1>4, <3>1, ExecutorLeaves DEF vars
  <2>. QED  BY <2>1 DEF TouchInv, Current, Held, StillRunning
<1>. QED  BY <1>2, <1>3, <1>4 DEF Next

\* A turn is replayed after a write changed the workspace only when two calls were under
\* way at once or something failed: with neither, the count the executor trusts is right.
THEOREM ReplayNeedsACause ==
  Spec => [][turn'.route # turn.route => ~touched \/ overlap \/ faults # 0]_vars
<1>1. Init => LedgerInv /\ TouchInv
  BY DEF Init, LedgerInv, Alone, DiffsFresh, LastDiff, TouchInv, Current, At, Idle
<1>2. TypeOK /\ CallInv /\ TouchInv /\ [Next]_vars =>
        [turn'.route # turn.route => ~touched \/ overlap \/ faults # 0]_vars
  <2>. SUFFICES ASSUME TypeOK, CallInv, TouchInv, [Next]_vars, turn'.route # turn.route
                PROVE  ~touched \/ overlap \/ faults # 0
    OBVIOUS
  <2>1. Replay
    BY DEF Next, Step, Start, RunTool, Save, ReadBack, Look, Insert, Count, HandleFailure,
       Open, Executor, BeginRoute, Complete, Verify, Close, TypeOK, vars
  <2>2. ~counted /\ \A w \in Workers : exec[w].place = "idle"
    BY <2>1 DEF Replay, AllIdle, At
  <2>3. \A w \in Workers : ~Held(exec[w])
    BY <2>2 DEF CallInv, LocalsGood, Good, Held
  <2>. QED  BY <2>2, <2>3 DEF TouchInv
<1>. QED  BY <1>1, <1>2, TouchInvStep, LedgerInvStep, CallsInvariant, PTL DEF Spec

=============================================================================
