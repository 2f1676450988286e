------------------------- MODULE SelfHealing_proofs -------------------------
(* What holds of SelfHealing for any finite number of scanners, any cases,   *)
(* families, limit, approvals and faults.                                    *)
EXTENDS SelfHealing, FiniteSetTheorems, TLAPS

RowsOK == DOMAIN row = Cases /\ \A c \in Cases : row[c] \in [Families(c) -> Rows]

\* Of the locals also what is left of the loop of upserts, and that the repair is
\* of row 1.
LocalOK(l) ==
  /\ l \in Locals /\ l.at \in Families(l.case)
  /\ l.place = "upsert" => Len(l.seen) < Width[l.case]
  /\ l.place \in {"budget", "act"} => l.at = 1

LocalsOK == worker \in [Workers -> Locals] /\ \A w \in Workers : LocalOK(worker[w])

CountersOK ==
  /\ authority \in BOOLEAN
  /\ approval \in [Singles -> Nat]
  /\ receipts \in Nat /\ unapproved \in Nat /\ faults \in Nat
  /\ asked \in [Cases -> Nat] /\ repairs \in [Cases -> Nat]
  /\ approved \in [Cases -> Nat] /\ granted \in [Singles -> Nat]

\* A row that is not there has no repair.
AbsentOK ==
  \A c \in Cases : \A i \in Families(c) : row[c][i].status = "absent" => ~row[c][i].repair

TypeInv == RowsOK /\ AbsentOK /\ LocalsOK /\ CountersOK

\* The scanners other than w stay where they are.
Stay(w) == \A v \in Workers \ {w} : worker'[v] = worker[v]

\* No row becomes one that nobody has asked about, and no repair is forgotten.
New == {"absent", "DETECTED"}
Onwards ==
  /\ RowsOK' /\ AbsentOK'
  /\ \A c \in Cases : \A i \in Families(c) :
       /\ row'[c][i].status \in New => row[c][i].status \in New
       /\ row[c][i].repair => row'[c][i].repair

-----------------------------------------------------------------------------
(* Types.                                                                    *)

\* What becomes of the rows when one of them is replaced.
LEMMA RowReplaced ==
  ASSUME RowsOK, NEW c \in Cases, NEW i \in Families(c), NEW r \in Rows
  PROVE  LET u == [row EXCEPT ![c][i] = r]
         IN /\ DOMAIN u = Cases /\ \A d \in Cases : u[d] \in [Families(d) -> Rows]
            /\ u[c][i] = r
            /\ \A d \in Cases : \A j \in Families(d) : d # c \/ j # i => u[d][j] = row[d][j]
<1> DEFINE u == [row EXCEPT ![c][i] = r]
<1>1. u = [d \in Cases |-> IF d = c THEN [row[c] EXCEPT ![i] = r] ELSE row[d]]
  BY DEF RowsOK
<1>2. row[c] \in [Families(c) -> Rows]
  BY DEF RowsOK
<1>3. [row[c] EXCEPT ![i] = r] \in [Families(c) -> Rows]
  BY <1>2
<1>4. \A d \in Cases : u[d] \in [Families(d) -> Rows]
  BY <1>1, <1>3 DEF RowsOK
<1>5. u[c][i] = r
  BY <1>1, <1>2
<1>6. \A d \in Cases : \A j \in Families(d) : d # c \/ j # i => u[d][j] = row[d][j]
  BY <1>1, <1>2
<1> QED
  BY <1>1, <1>4, <1>5, <1>6

\* What becomes of them when some columns of one are: nothing but these change.
SameBut(u, c, i) ==
  /\ DOMAIN u = Cases /\ \A d \in Cases : u[d] \in [Families(d) -> Rows]
  /\ \A d \in Cases : \A j \in Families(d) : d # c \/ j # i => u[d][j] = row[d][j]

LEMMA StatusReplaced ==
  ASSUME RowsOK, NEW c \in Cases, NEW i \in Families(c), NEW s \in Statuses
  PROVE  LET u == [row EXCEPT ![c][i].status = s]
         IN SameBut(u, c, i) /\ u[c][i] = [row[c][i] EXCEPT !.status = s]
<1> DEFINE r == [row[c][i] EXCEPT !.status = s]
<1>1. row[c][i] \in Rows
  BY DEF RowsOK
<1>2. r \in Rows
  BY <1>1 DEF Rows
<1>3. [row EXCEPT ![c][i].status = s] = [row EXCEPT ![c][i] = r]
  OBVIOUS
<1> QED
  BY <1>2, <1>3, RowReplaced DEF SameBut

LEMMA IdleTyped == Idle \in Locals /\ Idle.place = "idle" /\ Idle.at = 1 /\ 1 \in Families(Idle.case)
<1>1. (CHOOSE d \in Cases : TRUE) \in Cases
  BY CasesAssumption
<1>2. Width[CHOOSE d \in Cases : TRUE] \in Nat \ {0}
  BY <1>1, CasesAssumption
<1> QED
  BY <1>1, <1>2 DEF Idle, Locals, Places, Families

LEMMA FreshTyped ==
  ASSUME NEW c \in Cases, NEW place \in Places
  PROVE  /\ Fresh(c, place) \in Locals
         /\ Fresh(c, place).at = 1 /\ Fresh(c, place).seen = <<>>
         /\ Fresh(c, place).case = c /\ Fresh(c, place).place = place
         /\ ~Fresh(c, place).exhausted
         /\ 1 \in Families(c) /\ Width[c] \in Nat \ {0}
<1>1. Width[c] \in Nat \ {0} /\ 1 \in Families(c)
  BY CasesAssumption DEF Families
<1>2. Fresh(c, place) \in Locals
  BY IdleTyped DEF Fresh, Locals
<1>3. /\ Fresh(c, place).at = 1 /\ Fresh(c, place).seen = <<>>
      /\ Fresh(c, place).case = c /\ Fresh(c, place).place = place
      /\ ~Fresh(c, place).exhausted
  BY DEF Fresh, Idle
<1> QED
  BY <1>1, <1>2, <1>3

LEMMA Becoming ==
  ASSUME LocalsOK, NEW w \in Workers, NEW l, LocalOK(l), Become(w, l)
  PROVE  LocalsOK' /\ Stay(w) /\ worker'[w] = l
<1>1. l \in Locals
  BY DEF LocalOK
<1> QED
  BY <1>1 DEF LocalsOK, Become, Stay

\* Idle and fresh locals are in order; so are others with another place.
LEMMA LocalsInOrder ==
  /\ LocalOK(Idle)
  /\ \A c \in Cases, place \in Places : LocalOK(Fresh(c, place))
  /\ \A l, place : LocalOK(l) /\ place \in Places \ {"upsert", "budget", "act"}
                     => LocalOK([l EXCEPT !.place = place])
<1>1. LocalOK(Idle)
  <2>1. Idle \in Locals /\ Idle.place = "idle" /\ Idle.at \in Families(Idle.case)
    BY IdleTyped
  <2> QED
    BY <2>1 DEF LocalOK
<1>2. ASSUME NEW c \in Cases, NEW place \in Places
      PROVE  LocalOK(Fresh(c, place))
  <2> DEFINE l == Fresh(c, place)
  <2>1. /\ l \in Locals /\ l.at = 1 /\ l.case = c /\ 1 \in Families(c)
        /\ l.seen = <<>> /\ Width[c] \in Nat \ {0}
    BY FreshTyped
  <2>2. Len(l.seen) < Width[l.case]
    BY <2>1
  <2> HIDE DEF l
  <2> QED
    BY <2>1, <2>2 DEF LocalOK, l
<1>3. ASSUME NEW l, NEW place \in Places \ {"upsert", "budget", "act"}, LocalOK(l)
      PROVE  LocalOK([l EXCEPT !.place = place])
  BY <1>3 DEF LocalOK, Locals
<1> QED
  BY <1>1, <1>2, <1>3

\* What Go, Proceed, Done and Onward make of the locals.
LEMMA Moving ==
  ASSUME LocalsOK, NEW w \in Workers
  PROVE  /\ \A place \in Places \ {"upsert", "budget", "act"} :
              Go(w, place) => /\ LocalsOK' /\ Stay(w)
                              /\ worker'[w] = [worker[w] EXCEPT !.place = place]
         /\ \A place \in Places :
              Proceed(w, place) => /\ LocalsOK' /\ Stay(w)
                                   /\ worker'[w] = Fresh(Case(w), place)
         /\ Done(w) => LocalsOK' /\ Stay(w) /\ worker'[w] = Idle
<1>1. LocalOK(worker[w]) /\ Case(w) \in Cases
  BY DEF LocalsOK, LocalOK, Locals, Case
<1>2. \A place : Go(w, place) => Become(w, [worker[w] EXCEPT !.place = place])
  BY DEF Go, Become, LocalsOK
<1>3. ASSUME NEW place \in Places \ {"upsert", "budget", "act"}, Go(w, place)
      PROVE  LocalsOK' /\ Stay(w) /\ worker'[w] = [worker[w] EXCEPT !.place = place]
  BY <1>1, <1>2, <1>3, LocalsInOrder, Becoming
<1>4. ASSUME NEW place \in Places, Proceed(w, place)
      PROVE  LocalsOK' /\ Stay(w) /\ worker'[w] = Fresh(Case(w), place)
  BY <1>1, <1>4, LocalsInOrder, Becoming DEF Proceed
<1>5. ASSUME Done(w)
      PROVE  LocalsOK' /\ Stay(w) /\ worker'[w] = Idle
  BY <1>5, LocalsInOrder, Becoming DEF Done
<1> QED
  BY <1>3, <1>4, <1>5

\* What a status write does to the rows, and what leaving them alone does.
LEMMA StatusSet ==
  ASSUME RowsOK, AbsentOK, NEW c \in Cases, NEW i \in Families(c), NEW s \in Statuses \ New,
         row' = [row EXCEPT ![c][i].status = s]
  PROVE  Onwards
<1>1. SameBut(row', c, i) /\ row'[c][i] = [row[c][i] EXCEPT !.status = s]
  <2>1. s \in Statuses
    OBVIOUS
  <2> DEFINE u == [row EXCEPT ![c][i].status = s]
  <2>2. SameBut(u, c, i) /\ u[c][i] = [row[c][i] EXCEPT !.status = s]
    BY <2>1, StatusReplaced DEF RowsOK
  <2> QED
    BY <2>2
<1>2. row[c][i] \in Rows
  BY DEF RowsOK
<1>3. row'[c][i].status = s /\ row'[c][i].repair = row[c][i].repair
  BY <1>1, <1>2 DEF Rows
<1>4. \A d \in Cases : \A k \in Families(d) :
        /\ row'[d][k].status \in New => row[d][k].status \in New
        /\ row'[d][k].repair = row[d][k].repair
        /\ row'[d][k].status = "absent" => row[d][k].status = "absent"
  BY <1>1, <1>3 DEF SameBut, New
<1> QED
  BY <1>1, <1>4 DEF SameBut, Onwards, RowsOK, AbsentOK

Verified(r, e) == [r EXCEPT !.status = "CAG_VERIFIED", !.evidence = e]

LEMMA EvidenceSet ==
  ASSUME RowsOK, AbsentOK, NEW c \in Cases, NEW i \in Families(c), NEW e \in Nat
  PROVE  row' = [row EXCEPT ![c][i] = Verified(row[c][i], e)] => Onwards
<1> DEFINE r == Verified(row[c][i], e)
           u == [row EXCEPT ![c][i] = r]
<1>0. row[c][i] \in Rows
  BY DEF RowsOK
<1>1. r \in Rows
  BY <1>0 DEF Rows, Statuses, Verified
<1> HIDE DEF r
<1>2. SameBut(u, c, i) /\ u[c][i] = r
  BY <1>1, RowReplaced DEF SameBut
<1> HIDE DEF u
<1> SUFFICES ASSUME row' = u
             PROVE  Onwards
  BY DEF u, r
<1>3. row[c][i] \in Rows
  BY DEF RowsOK
<1>4. row'[c][i].status = "CAG_VERIFIED" /\ row'[c][i].repair = row[c][i].repair
  BY <1>2, <1>3 DEF Rows, r, Verified
<1>5. \A d \in Cases : \A k \in Families(d) : d # c \/ k # i => row'[d][k] = row[d][k]
  BY <1>2 DEF SameBut
<1>6. RowsOK'
  BY <1>2 DEF SameBut, RowsOK
<1>7. AbsentOK'
  BY <1>4, <1>5 DEF AbsentOK
<1>8. \A d \in Cases : \A k \in Families(d) :
        /\ row'[d][k].status \in New => row[d][k].status \in New
        /\ row[d][k].repair => row'[d][k].repair
  BY <1>4, <1>5 DEF New
<1> QED
  BY <1>6, <1>7, <1>8 DEF Onwards

Started(r) == [r EXCEPT !.status = "REPAIR_STARTED", !.repair = TRUE]

LEMMA RepairSet ==
  ASSUME RowsOK, AbsentOK, NEW c \in Cases, NEW i \in Families(c)
  PROVE  row' = [row EXCEPT ![c][i] = Started(row[c][i])] => Onwards /\ row'[c][i].repair
<1> DEFINE r == Started(row[c][i])
           u == [row EXCEPT ![c][i] = r]
<1>0. row[c][i] \in Rows
  BY DEF RowsOK
<1>1. r \in Rows
  BY <1>0 DEF Rows, Statuses, Started
<1> HIDE DEF r
<1>2. SameBut(u, c, i) /\ u[c][i] = r
  BY <1>1, RowReplaced DEF SameBut
<1> HIDE DEF u
<1> SUFFICES ASSUME row' = u
             PROVE  Onwards /\ row'[c][i].repair
  BY DEF u, r
<1>3. row[c][i] \in Rows
  BY DEF RowsOK
<1>4. row'[c][i].status = "REPAIR_STARTED" /\ row'[c][i].repair
  BY <1>2, <1>3 DEF Rows, r, Started
<1>5. \A d \in Cases : \A k \in Families(d) : d # c \/ k # i => row'[d][k] = row[d][k]
  BY <1>2 DEF SameBut
<1>6. RowsOK'
  BY <1>2 DEF SameBut, RowsOK
<1>7. AbsentOK'
  BY <1>4, <1>5 DEF AbsentOK
<1>8. \A d \in Cases : \A k \in Families(d) :
        /\ row'[d][k].status \in New => row[d][k].status \in New
        /\ row[d][k].repair => row'[d][k].repair
  BY <1>4, <1>5 DEF New
<1> QED
  BY <1>4, <1>6, <1>7, <1>8 DEF Onwards

LEMMA RowsLeft ==
  ASSUME RowsOK, AbsentOK, UNCHANGED row
  PROVE  Onwards
  BY DEF RowsOK, AbsentOK, Onwards

-----------------------------------------------------------------------------
(* The steps of a scanner that do not concern a repair.                      *)

Busy == {"act", "recheck", "approve", "start", "record", "receipt"}
Quiet(w) ==
  \/ \E c \in Cases : Pick(w, c)
  \/ Upsert(w) \/ LeaveAlone(w) \/ Diverged(w) \/ Reuse(w) \/ ClaimForCag(w)
  \/ CagAnswers(w) \/ MarkFailed(w) \/ MarkVerified(w) \/ Review(w) \/ StoreContract(w)
  \/ Consult(w) \/ Wait(w) \/ Block(w)

Aside(w) ==
  /\ LocalsOK' /\ Stay(w)
  /\ worker[w].place \notin Busy /\ worker'[w].place \notin Busy

LEMMA Sidelined ==
  ASSUME LocalsOK, NEW w \in Workers, worker[w].place \notin Busy
  PROVE  /\ \A place \in Places \ (Busy \cup {"upsert", "budget"}) : Go(w, place) => Aside(w)
         /\ \A place \in Places \ Busy : Proceed(w, place) => Aside(w)
         /\ Done(w) => Aside(w)
<1>1. LocalOK(worker[w]) /\ Case(w) \in Cases
  BY DEF LocalsOK, LocalOK, Locals, Case
<1>2. ASSUME NEW place \in Places \ (Busy \cup {"upsert", "budget"}), Go(w, place)
      PROVE  Aside(w)
  <2>1. LocalsOK' /\ Stay(w) /\ worker'[w] = [worker[w] EXCEPT !.place = place]
    BY <1>2, Moving DEF Busy
  <2> QED
    BY <1>1, <2>1 DEF Aside, LocalOK, Locals
<1>3. ASSUME NEW place \in Places \ Busy, Proceed(w, place)
      PROVE  Aside(w)
  <2>1. LocalsOK' /\ Stay(w) /\ worker'[w] = Fresh(Case(w), place)
    BY <1>3, Moving
  <2>2. Fresh(Case(w), place).place = place
    BY <1>1, FreshTyped
  <2> QED
    BY <2>1, <2>2 DEF Aside
<1>4. ASSUME Done(w)
      PROVE  Aside(w)
  BY <1>4, Moving, IdleTyped DEF Aside, Busy
<1> QED
  BY <1>2, <1>3, <1>4

\* A loop goes on at the same place, or ends.
LEMMA Looped ==
  ASSUME LocalsOK, NEW w \in Workers, NEW place \in Places \ Busy, Onward(w, place),
         worker[w].place \in {"fail", "verify", "review"}
  PROVE  Aside(w)
<1>1. LocalOK(worker[w]) /\ Case(w) \in Cases /\ worker[w] \in Locals
  BY DEF LocalsOK, LocalOK, Locals, Case
<1>2. CASE worker[w].at < Width[Case(w)]
  <2> DEFINE l == [worker[w] EXCEPT !.at = @ + 1]
  <2>1. Become(w, l)
    BY <1>2 DEF Onward, Become
  <2>2. Width[Case(w)] \in Nat /\ worker[w].at \in 1..Width[Case(w)]
    BY <1>1, CasesAssumption DEF LocalOK, Families, Case
  <2>3. l \in Locals /\ l.place = worker[w].place /\ l.case = Case(w) /\ l.at = worker[w].at + 1
    BY <1>1, <2>2 DEF Locals, Case
  <2>4. LocalOK(l)
    BY <1>2, <2>2, <2>3 DEF LocalOK, Families
  <2> HIDE DEF l
  <2>5. LocalsOK' /\ Stay(w) /\ worker'[w] = l
    BY <2>1, <2>4, Becoming
  <2> QED
    BY <2>3, <2>5 DEF Aside, Busy
<1>3. CASE ~(worker[w].at < Width[Case(w)])
  BY <1>3, Sidelined DEF Onward, Busy
<1> QED
  BY <1>2, <1>3

\* Such a step leaves every worker out of the repair, and forgets no repair.
LEMMA QuietStep ==
  ASSUME TypeInv, NEW w \in Workers, Quiet(w)
  PROVE  Aside(w) /\ Onwards
<1>1. /\ RowsOK /\ AbsentOK /\ LocalsOK /\ LocalOK(worker[w])
      /\ Case(w) \in Cases /\ worker[w].at \in Families(Case(w))
      /\ worker[w] \in Locals
  BY DEF TypeInv, LocalsOK, LocalOK, Locals, Case
<1>2. ASSUME NEW c \in Cases, Pick(w, c)
      PROVE  Aside(w) /\ Onwards
  <2>1. UNCHANGED row
    BY <1>2 DEF Pick
  <2>2. CASE UNCHANGED worker
    <3>1. LocalsOK'
      BY <1>1, <2>2 DEF LocalsOK
    <3> QED
      BY <1>1, <1>2, <2>1, <2>2, <3>1, RowsLeft DEF Pick, At, Aside, Stay, Busy
  <2>3. CASE Become(w, Fresh(c, "upsert"))
    <3>1. LocalOK(Fresh(c, "upsert")) /\ Fresh(c, "upsert").place = "upsert"
      BY LocalsInOrder, FreshTyped DEF Places
    <3>2. LocalsOK' /\ Stay(w) /\ worker'[w] = Fresh(c, "upsert")
      BY <1>1, <2>3, <3>1, Becoming
    <3> QED
      BY <1>1, <1>2, <2>1, <3>1, <3>2, RowsLeft DEF Pick, At, Aside, Busy
  <2> QED
    BY <1>2, <2>2, <2>3 DEF Pick
<1>3. ASSUME LeaveAlone(w)
      PROVE  Aside(w) /\ Onwards
  <2>1. Aside(w)
    BY <1>3, <1>1, Sidelined DEF LeaveAlone, At, Busy, Places
  <2>2. Onwards
    BY <1>3, <1>1, <2>1, RowsLeft DEF LeaveAlone
  <2> QED
    BY <2>1, <2>2
<1>4. ASSUME Diverged(w)
      PROVE  Aside(w) /\ Onwards
  <2>1. Aside(w)
    BY <1>4, <1>1, Sidelined DEF Diverged, At, Busy, Places, Unfinished
  <2>2. Onwards
    BY <1>4, <1>1, <2>1, RowsLeft DEF Diverged
  <2> QED
    BY <2>1, <2>2
<1>5. ASSUME CagAnswers(w)
      PROVE  Aside(w) /\ Onwards
  <2>1. Aside(w)
    BY <1>5, <1>1, Sidelined DEF CagAnswers, At, Busy, Places
  <2>2. Onwards
    BY <1>5, <1>1, <2>1, RowsLeft DEF CagAnswers
  <2> QED
    BY <2>1, <2>2
<1>6. ASSUME MarkFailed(w)
      PROVE  Aside(w) /\ Onwards
  <2>1. Aside(w)
    BY <1>6, <1>1, Looped, Sidelined DEF MarkFailed, At, Busy, Places
  <2>2. Onwards
    BY <1>6, <1>1, <2>1, StatusSet DEF MarkFailed, SetStatus, Statuses, New
  <2> QED
    BY <2>1, <2>2
<1>7. ASSUME Review(w)
      PROVE  Aside(w) /\ Onwards
  <2>1. Aside(w)
    BY <1>7, <1>1, Looped DEF Review, At, Busy, Places
  <2>2. Onwards
    BY <1>7, <1>1, <2>1, StatusSet DEF Review, SetStatus, Statuses, New
  <2> QED
    BY <2>1, <2>2
<1>8. ASSUME StoreContract(w)
      PROVE  Aside(w) /\ Onwards
  <2>1. Aside(w)
    BY <1>8, <1>1, Sidelined DEF StoreContract, At, Busy, Places
  <2>2. Onwards
    BY <1>8, <1>1, <2>1, StatusSet DEF StoreContract, SetStatus, Statuses, New
  <2> QED
    BY <2>1, <2>2
<1>9. ASSUME Consult(w)
      PROVE  Aside(w) /\ Onwards
  <2>1. Aside(w)
    BY <1>9, <1>1, Sidelined DEF Consult, At, Busy, Places
  <2>2. Onwards
    BY <1>9, <1>1, <2>1, RowsLeft DEF Consult
  <2> QED
    BY <2>1, <2>2
<1>10. ASSUME Wait(w)
      PROVE  Aside(w) /\ Onwards
  <2>1. Aside(w)
    BY <1>10, <1>1, Sidelined DEF Wait, At, Busy, Places
  <2>2. Onwards
    BY <1>10, <1>1, <2>1, StatusSet DEF Wait, SetStatus, Statuses, New
  <2> QED
    BY <2>1, <2>2
<1>11. ASSUME Block(w)
      PROVE  Aside(w) /\ Onwards
  <2>1. Aside(w)
    BY <1>11, <1>1, Sidelined DEF Block, At, Busy, Places
  <2>2. Onwards
    BY <1>11, <1>1, <2>1, StatusSet DEF Block, SetStatus, Statuses, New
  <2> QED
    BY <2>1, <2>2
<1>12. ASSUME Upsert(w)
      PROVE  Aside(w) /\ Onwards
  <2> DEFINE c == Case(w)
             i == Len(worker[w].seen) + 1
             found == IF row[c][i].status = "absent" THEN [NoRow EXCEPT !.status = "DETECTED"]
                      ELSE row[c][i]
             l == [worker[w] EXCEPT !.seen = Append(@, found),
                                    !.place = IF i = Width[c] THEN "assess" ELSE "upsert"]
  <2>1. i \in Families(c) /\ i <= Width[c] /\ Width[c] \in Nat
    BY <1>1, <1>12, CasesAssumption DEF Upsert, At, LocalOK, Locals, Families, Case
  <2>2. row[c][i] \in Rows
    BY <1>1, <2>1 DEF RowsOK
  <2>3. /\ found \in Rows /\ found.status # "absent"
        /\ found.status \in New => row[c][i].status \in New
        /\ found.repair = row[c][i].repair
    BY <1>1, <2>1, <2>2 DEF Rows, NoRow, Statuses, New, AbsentOK
  <2>4. row' = [row EXCEPT ![c][i] = found] /\ Become(w, l) /\ worker[w].place = "upsert"
    BY <1>12 DEF Upsert, Become, At
  <2>5. l \in Locals /\ Len(l.seen) = i /\ l.case = c /\ l.at = worker[w].at
        /\ l.place = IF i = Width[c] THEN "assess" ELSE "upsert"
    <3>1. Append(worker[w].seen, found) \in Seq(Rows) /\ Len(Append(worker[w].seen, found)) = i
      BY <1>1, <2>3 DEF Locals
    <3> HIDE DEF found, i
    <3> QED
      BY <1>1, <3>1 DEF Locals, Places, Case
  <2> HIDE DEF l, found, i
  <2>6. LocalOK(l)
    BY <1>1, <2>1, <2>5 DEF LocalOK
  <2>7. LocalsOK' /\ Stay(w) /\ worker'[w] = l
    BY <1>1, <2>4, <2>6, Becoming
  <2>8. Aside(w)
    BY <2>4, <2>5, <2>7 DEF Aside, Busy
  <2>9. SameBut(row', c, i) /\ row'[c][i] = found
    BY <1>1, <2>1, <2>3, <2>4, RowReplaced DEF SameBut
  <2>10. Onwards
    BY <1>1, <2>3, <2>9 DEF SameBut, Onwards, RowsOK, AbsentOK
  <2> QED
    BY <2>8, <2>10
<1>13. ASSUME Reuse(w)
      PROVE  Aside(w) /\ Onwards
  <2>1. PICK e \in Evidence(w) : Become(w, [Fresh(Case(w), "verify") EXCEPT !.answer = e])
    BY <1>13 DEF Reuse
  <2>2. e \in Nat
    <3>1. worker[w].seen \in Seq(Rows)
      BY <1>1 DEF Locals
    <3>2. \A k \in DOMAIN worker[w].seen : worker[w].seen[k] \in Rows
      BY <3>1
    <3> QED
      BY <2>1, <3>2 DEF Evidence, Rows
  <2> DEFINE l == [Fresh(Case(w), "verify") EXCEPT !.answer = e]
  <2>3. LocalOK(Fresh(Case(w), "verify")) /\ Fresh(Case(w), "verify").place = "verify"
    BY <1>1, LocalsInOrder, FreshTyped DEF Places
  <2>4. LocalOK(l) /\ l.place = "verify"
    BY <2>2, <2>3 DEF LocalOK, Locals
  <2> HIDE DEF l
  <2>5. LocalsOK' /\ Stay(w) /\ worker'[w] = l
    BY <1>1, <2>1, <2>4, Becoming DEF l
  <2>6. UNCHANGED row
    BY <1>13 DEF Reuse
  <2> QED
    BY <1>1, <1>13, <2>4, <2>5, <2>6, RowsLeft DEF Reuse, Unfinished, At, Aside, Busy
<1>14. ASSUME ClaimForCag(w)
      PROVE  Aside(w) /\ Onwards
  <2>1. PICK i \in Families(Case(w)) :
          IF Unasked(row[Case(w)][i])
          THEN /\ row' = [row EXCEPT ![Case(w)][i].status = "CAG_VERIFYING"]
               /\ asked' = [asked EXCEPT ![Case(w)] = @ + 1]
               /\ Become(w, [Fresh(Case(w), "call") EXCEPT !.answer = asked'[Case(w)]])
          ELSE Done(w) /\ UNCHANGED <<row, asked>>
    BY <1>14 DEF ClaimForCag
  <2>2. worker[w].place = "assess"
    BY <1>14 DEF ClaimForCag, NobodyAsks, Unfinished, At
  <2>3. CASE Unasked(row[Case(w)][i])
    <3> DEFINE l == [Fresh(Case(w), "call") EXCEPT !.answer = asked'[Case(w)]]
    <3>1. asked'[Case(w)] \in Nat
      BY <1>1, <2>1, <2>3 DEF TypeInv, CountersOK
    <3>2. LocalOK(Fresh(Case(w), "call")) /\ Fresh(Case(w), "call").place = "call"
      BY <1>1, LocalsInOrder, FreshTyped DEF Places
    <3>3. LocalOK(l) /\ l.place = "call"
      BY <3>1, <3>2 DEF LocalOK, Locals
    <3> HIDE DEF l
    <3>4. LocalsOK' /\ Stay(w) /\ worker'[w] = l
      BY <1>1, <2>1, <2>3, <3>3, Becoming DEF l
    <3>5. Onwards
      BY <1>1, <2>1, <2>3, StatusSet DEF Statuses, New
    <3> QED
      BY <2>2, <3>3, <3>4, <3>5 DEF Aside, Busy
  <2>4. CASE ~Unasked(row[Case(w)][i])
    BY <1>1, <2>1, <2>2, <2>4, Sidelined, RowsLeft DEF Busy
  <2> QED
    BY <2>3, <2>4
<1>15. ASSUME MarkVerified(w)
      PROVE  Aside(w) /\ Onwards
  <2>1. Aside(w)
    BY <1>1, <1>15, Looped DEF MarkVerified, At, Busy, Places
  <2>2. worker[w].answer \in Nat
    BY <1>1 DEF Locals
  <2> DEFINE c == Case(w)
             i == worker[w].at
             e == worker[w].answer
  <2>3. row' = [row EXCEPT ![c][i] = Verified(row[c][i], e)]
    BY <1>15 DEF MarkVerified, Verified
  <2>4. c \in Cases /\ i \in Families(c) /\ e \in Nat /\ RowsOK /\ AbsentOK
    BY <1>1, <2>2
  <2> HIDE DEF c, i, e
  <2>5. Onwards
    BY <2>3, <2>4, EvidenceSet
  <2> QED
    BY <2>1, <2>5
<1> QED
  BY <1>2, <1>3, <1>4, <1>5, <1>6, <1>7, <1>8, <1>9, <1>10, <1>11, <1>12, <1>13, <1>14, <1>15
  DEF Quiet

-----------------------------------------------------------------------------
(* The steps of a repair.                                                    *)

\* What every step of a scanner keeps.
Frame(w) == LocalsOK' /\ Stay(w) /\ Onwards
Kept(w) == worker'[w].case = worker[w].case /\ worker'[w].exhausted = worker[w].exhausted

LEMMA RepairSteps ==
  ASSUME TypeInv, NEW w \in Workers
  PROVE
    /\ CheckBudget(w) =>
         /\ Frame(w) /\ worker[w].place = "budget"
         /\ \/ worker'[w].place = "wait"
            \/ /\ worker'[w].place = "act" /\ worker'[w].exhausted = Exhausted
    /\ ClaimForAction(w) =>
         /\ Frame(w) /\ worker[w].place = "act"
         /\ \/ worker'[w].place = "idle"
            \/ /\ Claimable(row[Case(w)][1])
               /\ Kept(w) /\ worker'[w].place = "recheck" /\ worker'[w].permitted = authority
    /\ Recheck(w) =>
         /\ Frame(w) /\ worker[w].place = "recheck"
         /\ \/ worker'[w].place = "wait"
            \/ /\ authority /\ Kept(w) /\ worker'[w].place \in {"approve", "start"}
               /\ worker'[w].place = "start" => ~worker'[w].exhausted
               /\ worker'[w].permitted = worker[w].permitted
    /\ UseApproval(w) =>
         /\ Frame(w) /\ worker[w].place = "approve"
         /\ \/ worker'[w].place = "wait" /\ UNCHANGED approval
            \/ /\ approval[Case(w)] > 0 /\ approval' = Consumed(Case(w))
               /\ Kept(w) /\ worker'[w].place = "start" /\ worker'[w].permitted = worker[w].permitted
    /\ StartRepair(w) =>
         /\ Frame(w) /\ worker[w].place = "start"
         /\ worker'[w].case = Case(w)
         /\ \/ worker'[w].place = "record" /\ RepairQueued(w) /\ UNCHANGED faults
            \/ worker'[w].place = "block" /\ RepairQueued(w) /\ Fault
            \/ worker'[w].place = "block" /\ UNCHANGED <<repairs, unapproved, approved, faults>>
    /\ Record(w) =>
         /\ Frame(w) /\ worker[w].place = "record" /\ worker'[w].place = "receipt"
         /\ row'[Case(w)][1].repair
    /\ AddReceipt(w) =>
         /\ Frame(w) /\ worker[w].place = "receipt" /\ worker'[w].place = "idle"
    /\ Fail(w) => Frame(w) /\ worker'[w].place = "idle"
<1>1. /\ RowsOK /\ AbsentOK /\ LocalsOK /\ LocalOK(worker[w])
      /\ Case(w) \in Cases /\ worker[w].at \in Families(Case(w))
      /\ worker[w] \in Locals /\ 1 \in Families(Case(w))
  <2>1. /\ RowsOK /\ AbsentOK /\ LocalsOK /\ LocalOK(worker[w])
        /\ Case(w) \in Cases /\ worker[w].at \in Families(Case(w)) /\ worker[w] \in Locals
    BY DEF TypeInv, LocalsOK, LocalOK, Locals, Case
  <2> QED
    BY <2>1, FreshTyped DEF Places
<1>2. UNCHANGED row => Onwards
  BY <1>1, RowsLeft
<1>3. \A place \in Places : Proceed(w, place) =>
        /\ LocalsOK' /\ Stay(w) /\ worker'[w].place = place /\ worker'[w].case = Case(w)
  BY <1>1, Moving, FreshTyped
<1>4. Done(w) => LocalsOK' /\ Stay(w) /\ worker'[w].place = "idle"
  BY <1>1, Moving, IdleTyped
<1>5. ASSUME CheckBudget(w)
      PROVE  /\ Frame(w) /\ worker[w].place = "budget"
             /\ \/ worker'[w].place = "wait"
                \/ worker'[w].place = "act" /\ worker'[w].exhausted = Exhausted
  <2>1. UNCHANGED row /\ worker[w].place = "budget"
    BY <1>5 DEF CheckBudget, At
  <2>2. CASE Proceed(w, "wait")
    BY <1>2, <1>3, <2>1, <2>2 DEF Frame, Places
  <2>3. CASE worker' = [worker EXCEPT ![w].place = "act", ![w].exhausted = Exhausted]
    <3> DEFINE l == [worker[w] EXCEPT !.place = "act", !.exhausted = Exhausted]
    <3>1. Become(w, l)
      BY <2>3 DEF Become
    <3>2. Exhausted \in BOOLEAN
      BY DEF Exhausted
    <3>3. LocalOK(l) /\ l.place = "act" /\ l.exhausted = Exhausted
      BY <1>1, <2>1, <3>2 DEF LocalOK, Locals, Places
    <3> HIDE DEF l
    <3>4. LocalsOK' /\ Stay(w) /\ worker'[w] = l
      BY <1>1, <3>1, <3>3, Becoming
    <3> QED
      BY <1>2, <2>1, <3>3, <3>4 DEF Frame
  <2> QED
    BY <1>5, <2>2, <2>3 DEF CheckBudget
<1>6. ASSUME ClaimForAction(w)
      PROVE  /\ Frame(w) /\ worker[w].place = "act"
             /\ \/ worker'[w].place = "idle"
                \/ /\ Claimable(row[Case(w)][1])
                   /\ Kept(w) /\ worker'[w].place = "recheck" /\ worker'[w].permitted = authority
  <2>1. worker[w].place = "act" /\ worker[w].at = 1
    BY <1>1, <1>6 DEF ClaimForAction, At, LocalOK
  <2>2. CASE Claimable(Here(w))
    <3> DEFINE l == [worker[w] EXCEPT !.place = "recheck", !.permitted = authority]
    <3>1. Become(w, l)
      BY <1>6, <2>2 DEF ClaimForAction, Become
    <3>2. LocalOK(l)
      BY <1>1 DEF TypeInv, CountersOK, LocalOK, Locals, Places
    <3>5. /\ l.place = "recheck" /\ l.permitted = authority
          /\ l.case = worker[w].case /\ l.exhausted = worker[w].exhausted
      BY <1>1 DEF Locals
    <3> HIDE DEF l
    <3>3. LocalsOK' /\ Stay(w) /\ worker'[w] = l
      BY <1>1, <3>1, <3>2, Becoming
    <3>4. Onwards
      BY <1>1, <1>6, <2>2, StatusSet DEF ClaimForAction, SetStatus, Statuses, New
    <3> QED
      BY <2>1, <2>2, <3>3, <3>4, <3>5 DEF Frame, Kept, Here
  <2>3. CASE ~Claimable(Here(w))
    BY <1>2, <1>4, <1>6, <2>1, <2>3 DEF ClaimForAction, Frame
  <2> QED
    BY <2>2, <2>3
<1>7. ASSUME Recheck(w)
      PROVE  /\ Frame(w) /\ worker[w].place = "recheck"
             /\ \/ worker'[w].place = "wait"
                \/ /\ authority /\ Kept(w) /\ worker'[w].place \in {"approve", "start"}
                   /\ worker'[w].place = "start" => ~worker'[w].exhausted
                   /\ worker'[w].permitted = worker[w].permitted
  <2>1. UNCHANGED row /\ worker[w].place = "recheck"
    BY <1>7 DEF Recheck, At
  <2>2. CASE authority
    <3> DEFINE place == IF worker[w].exhausted THEN "approve" ELSE "start"
    <3>1. Go(w, place)
      BY <1>7, <2>2 DEF Recheck, StillPermits
    <3>2. place \in Places \ {"upsert", "budget", "act"}
      BY DEF Places
    <3> HIDE DEF place
    <3>3. LocalsOK' /\ Stay(w) /\ worker'[w] = [worker[w] EXCEPT !.place = place]
      BY <1>1, <3>1, <3>2, Moving
    <3>4. worker'[w].place = place /\ Kept(w) /\ worker'[w].permitted = worker[w].permitted
      BY <1>1, <3>3 DEF Locals, Kept
    <3> QED
      BY <1>2, <2>1, <2>2, <3>3, <3>4 DEF Frame, Kept, place
  <2>3. CASE ~authority
    BY <1>2, <1>3, <1>7, <2>1, <2>3 DEF Recheck, StillPermits, Frame, Places
  <2> QED
    BY <2>2, <2>3
<1>8. ASSUME UseApproval(w)
      PROVE  /\ Frame(w) /\ worker[w].place = "approve"
             /\ \/ worker'[w].place = "wait" /\ UNCHANGED approval
                \/ /\ approval[Case(w)] > 0 /\ approval' = Consumed(Case(w))
                   /\ Kept(w) /\ worker'[w].place = "start" /\ worker'[w].permitted = worker[w].permitted
  <2>1. UNCHANGED row /\ worker[w].place = "approve"
    BY <1>8 DEF UseApproval, At
  <2>2. CASE approval[Case(w)] > 0
    <3>1. Go(w, "start") /\ approval' = Consumed(Case(w))
      BY <1>8, <2>2 DEF UseApproval
    <3>2. LocalsOK' /\ Stay(w) /\ worker'[w] = [worker[w] EXCEPT !.place = "start"]
      BY <1>1, <3>1, Moving DEF Places
    <3>3. /\ Kept(w) /\ worker'[w].place = "start"
          /\ worker'[w].permitted = worker[w].permitted
      BY <1>1, <3>2 DEF Locals, Kept
    <3> QED
      BY <1>2, <2>1, <2>2, <3>1, <3>2, <3>3 DEF Frame
  <2>3. CASE ~(approval[Case(w)] > 0)
    BY <1>2, <1>3, <1>8, <2>1, <2>3 DEF UseApproval, Frame, Places
  <2> QED
    BY <2>2, <2>3
<1>9. ASSUME StartRepair(w)
      PROVE  /\ Frame(w) /\ worker[w].place = "start"
             /\ worker'[w].case = Case(w)
             /\ \/ worker'[w].place = "record" /\ RepairQueued(w) /\ UNCHANGED faults
                \/ worker'[w].place = "block" /\ RepairQueued(w) /\ Fault
                \/ /\ worker'[w].place = "block"
                   /\ UNCHANGED <<repairs, unapproved, approved, faults>>
  <2>1. UNCHANGED row /\ worker[w].place = "start"
    BY <1>9 DEF StartRepair, At
  <2>2. Proceed(w, "record") =>
          Frame(w) /\ worker'[w].place = "record" /\ worker'[w].case = Case(w)
    BY <1>2, <1>3, <2>1 DEF Frame, Places
  <2>3. Proceed(w, "block") =>
          Frame(w) /\ worker'[w].place = "block" /\ worker'[w].case = Case(w)
    BY <1>2, <1>3, <2>1 DEF Frame, Places
  <2>4. \/ Proceed(w, "record") /\ RepairQueued(w) /\ UNCHANGED faults
        \/ Proceed(w, "block") /\ RepairQueued(w) /\ Fault
        \/ Proceed(w, "block") /\ UNCHANGED <<repairs, unapproved, approved, faults>>
    BY <1>9 DEF StartRepair
  <2> QED
    BY <2>1, <2>2, <2>3, <2>4
<1>10. ASSUME Record(w)
       PROVE  /\ Frame(w) /\ worker[w].place = "record" /\ worker'[w].place = "receipt"
              /\ row'[Case(w)][1].repair
  <2>1. worker[w].place = "record" /\ Go(w, "receipt")
    BY <1>10 DEF Record, At
  <2>2. LocalsOK' /\ Stay(w) /\ worker'[w] = [worker[w] EXCEPT !.place = "receipt"]
    BY <1>1, <2>1, Moving DEF Places
  <2> DEFINE c == Case(w)
  <2>3. row' = [row EXCEPT ![c][1] = Started(row[c][1])]
    BY <1>10 DEF Record, Started
  <2> HIDE DEF c
  <2>4. Onwards /\ row'[c][1].repair
    BY <1>1, <2>3, RepairSet DEF c
  <2>5. worker'[w].place = "receipt"
    BY <1>1, <2>2 DEF Locals
  <2> QED
    BY <2>1, <2>2, <2>4, <2>5 DEF Frame, c
<1>11. ASSUME AddReceipt(w)
       PROVE  Frame(w) /\ worker[w].place = "receipt" /\ worker'[w].place = "idle"
  BY <1>2, <1>4, <1>11 DEF AddReceipt, At, Frame
<1>12. ASSUME Fail(w)
       PROVE  Frame(w) /\ worker'[w].place = "idle"
  BY <1>2, <1>4, <1>12 DEF Fail, Frame
<1> QED
  BY <1>5, <1>6, <1>7, <1>8, <1>9, <1>10, <1>11, <1>12

-----------------------------------------------------------------------------
(* The type invariant.                                                       *)

\* A step of Next: of a scanner, or of the owner, who leaves the rows alone and
\* changes no local but permitted.
OwnerStep == Grant \/ Revoke \/ (\E c \in Singles : Approve(c) \/ Expire(c)) \/ UNCHANGED vars
Repairing(w) ==
  \/ CheckBudget(w) \/ ClaimForAction(w) \/ Recheck(w) \/ UseApproval(w) \/ StartRepair(w)
  \/ Record(w) \/ AddReceipt(w) \/ Fail(w)

LEMMA StepKinds ==
  ASSUME [Next]_vars
  PROVE  OwnerStep \/ \E w \in Workers : Quiet(w) \/ Repairing(w)
  BY DEF Next, Scan, OwnerStep, Quiet, Repairing

LEMMA OwnerMoves ==
  ASSUME TypeInv, OwnerStep
  PROVE  /\ LocalsOK' /\ Onwards /\ UNCHANGED <<row, effects, asked, faults>>
         /\ \A w \in Workers : /\ worker'[w].place = worker[w].place
                               /\ worker'[w].case = worker[w].case
                               /\ worker'[w].exhausted = worker[w].exhausted
<1>1. UNCHANGED <<row, effects, asked, faults>>
  BY DEF OwnerStep, Grant, Revoke, Approve, Expire, vars, effects
<1>2. RowsOK /\ AbsentOK /\ LocalsOK
  BY DEF TypeInv
<1>3. Onwards
  BY <1>1, <1>2, RowsLeft
<1>4. CASE Grant
  <2>1. worker' = [w \in Workers |-> [worker[w] EXCEPT !.permitted = worker[w].place \in Claimed]]
    BY <1>4 DEF Grant
  <2>2. ASSUME NEW w \in Workers
        PROVE  /\ LocalOK(worker'[w]) /\ worker'[w].place = worker[w].place
               /\ worker'[w].case = worker[w].case /\ worker'[w].exhausted = worker[w].exhausted
    <3>1. LocalOK(worker[w]) /\ (worker[w].place \in Claimed) \in BOOLEAN
      BY <1>2 DEF LocalsOK
    <3> DEFINE b == worker[w].place \in Claimed
    <3>2. worker'[w] = [worker[w] EXCEPT !.permitted = b] /\ b \in BOOLEAN
      BY <2>1, <3>1
    <3> HIDE DEF b
    <3> QED
      BY <3>1, <3>2 DEF LocalOK, Locals
  <2>3. LocalsOK'
    BY <2>1, <2>2 DEF LocalsOK, LocalOK
  <2> QED
    BY <1>1, <1>3, <2>2, <2>3
<1>5. CASE UNCHANGED worker
  BY <1>1, <1>2, <1>3, <1>5 DEF LocalsOK
<1> QED
  BY <1>4, <1>5 DEF OwnerStep, Revoke, Approve, Expire, vars

LEMMA QuietCounters ==
  ASSUME NEW w \in Workers, Quiet(w)
  PROVE  UNCHANGED <<owner, effects, faults>>
  BY DEF Quiet, Pick, Upsert, LeaveAlone, Diverged, Reuse, ClaimForCag, CagAnswers, MarkFailed,
         MarkVerified, Review, StoreContract, Consult, Wait, Block

LEMMA AskedTyped ==
  ASSUME TypeInv, NEW w \in Workers, Quiet(w)
  PROVE  asked' \in [Cases -> Nat]
<1>1. asked \in [Cases -> Nat]
  BY DEF TypeInv, CountersOK
<1>2. CASE ClaimForCag(w)
  BY <1>1, <1>2 DEF ClaimForCag
<1>3. CASE UNCHANGED asked
  BY <1>1, <1>3
<1> QED
  BY <1>2, <1>3 DEF Quiet, Pick, Upsert, LeaveAlone, Diverged, Reuse, CagAnswers, MarkFailed,
         MarkVerified, Review, StoreContract, Consult, Wait, Block

LEMMA CaseTyped ==
  ASSUME TypeInv
  PROVE  \A w \in Workers : Case(w) \in Cases
  BY DEF TypeInv, LocalsOK, LocalOK, Locals, Case

LEMMA CountersTyped ==
  ASSUME TypeInv, [Next]_vars
  PROVE  CountersOK'
<1>1. CountersOK
  BY DEF TypeInv
<1>2. CASE OwnerStep
  <2>1. CASE Grant \/ Revoke \/ UNCHANGED vars
    BY <1>1, <2>1 DEF CountersOK, Grant, Revoke, vars, effects
  <2>2. ASSUME NEW c \in Singles, Approve(c)
        PROVE  CountersOK'
    BY <1>1, <2>2 DEF CountersOK, Approve, effects
  <2>3. ASSUME NEW c \in Singles, Expire(c)
        PROVE  CountersOK'
    <3>1. approval[c] - 1 \in Nat
      BY <1>1, <2>3 DEF CountersOK, Expire
    <3> QED
      BY <1>1, <2>3, <3>1 DEF CountersOK, Expire, effects
  <2> QED
    BY <1>2, <2>1, <2>2, <2>3 DEF OwnerStep
<1>3. ASSUME NEW w \in Workers, Quiet(w)
      PROVE  CountersOK'
  BY <1>1, <1>3, QuietCounters, AskedTyped DEF CountersOK, owner, effects
<1>4. ASSUME NEW w \in Workers, CheckBudget(w) \/ ClaimForAction(w) \/ Recheck(w) \/ Record(w)
      PROVE  CountersOK'
  BY <1>1, <1>4 DEF CountersOK, CheckBudget, ClaimForAction, Recheck, Record, owner, effects
<1>5. ASSUME NEW w \in Workers, UseApproval(w)
      PROVE  CountersOK'
  <2>1. CASE UNCHANGED approval
    BY <1>1, <1>5, <2>1 DEF CountersOK, UseApproval, effects
  <2>2. CASE approval[Case(w)] > 0 /\ approval' = Consumed(Case(w))
    <3>1. \A c \in Singles : c = Case(w) => approval[c] - 1 \in Nat
      BY <1>1, <2>2 DEF CountersOK
    <3>2. approval' \in [Singles -> Nat]
      BY <1>1, <2>2, <3>1 DEF CountersOK, Consumed
    <3> QED
      BY <1>1, <1>5, <3>2 DEF CountersOK, UseApproval, effects
  <2> QED
    BY <1>5, <2>1, <2>2 DEF UseApproval
<1>6. ASSUME NEW w \in Workers, StartRepair(w)
      PROVE  CountersOK'
  <2>1. CASE RepairQueued(w)
    <3>1. repairs' \in [Cases -> Nat]
      BY <1>1, <2>1, CaseTyped DEF CountersOK, RepairQueued
    <3>2. unapproved' \in Nat /\ approved' \in [Cases -> Nat]
      <4>1. CASE worker[w].exhausted
        BY <1>1, <2>1, <4>1 DEF CountersOK, RepairQueued
      <4>2. CASE ~worker[w].exhausted
        BY <1>1, <2>1, <4>2 DEF CountersOK, RepairQueued
      <4> QED
        BY <4>1, <4>2
    <3>3. faults' \in Nat
      BY <1>1, <1>6 DEF CountersOK, StartRepair, Fault
    <3> QED
      BY <1>1, <1>6, <3>1, <3>2, <3>3 DEF CountersOK, StartRepair, owner
  <2>2. CASE UNCHANGED <<repairs, unapproved, approved, faults>>
    BY <1>1, <1>6, <2>2 DEF CountersOK, StartRepair, owner
  <2> QED
    BY <1>6, <2>1, <2>2 DEF StartRepair
<1>7. ASSUME NEW w \in Workers, AddReceipt(w) \/ Fail(w)
      PROVE  CountersOK'
  BY <1>1, <1>7 DEF CountersOK, AddReceipt, Fail, Fault, owner, effects
<1> QED
  BY <1>2, <1>3, <1>4, <1>5, <1>6, <1>7, StepKinds DEF Repairing

LEMMA TypeStep ==
  ASSUME TypeInv, [Next]_vars
  PROVE  TypeInv' /\ Onwards
<1>1. Onwards /\ LocalsOK'
  <2>1. CASE OwnerStep
    BY <2>1, OwnerMoves
  <2>2. ASSUME NEW w \in Workers, Quiet(w)
        PROVE  Onwards /\ LocalsOK'
    BY <2>2, QuietStep DEF Aside
  <2>3. ASSUME NEW w \in Workers, Repairing(w)
        PROVE  Onwards /\ LocalsOK'
    <3>1. Frame(w)
      <4>1. CASE CheckBudget(w)
        BY <4>1, RepairSteps
      <4>2. CASE ClaimForAction(w)
        BY <4>2, RepairSteps
      <4>3. CASE Recheck(w)
        BY <4>3, RepairSteps
      <4>4. CASE UseApproval(w)
        BY <4>4, RepairSteps
      <4>5. CASE StartRepair(w)
        BY <4>5, RepairSteps
      <4>6. CASE Record(w)
        BY <4>6, RepairSteps
      <4>7. CASE AddReceipt(w)
        BY <4>7, RepairSteps
      <4>8. CASE Fail(w)
        BY <4>8, RepairSteps
      <4> QED
        BY <2>3, <4>1, <4>2, <4>3, <4>4, <4>5, <4>6, <4>7, <4>8 DEF Repairing
    <3> QED
      BY <3>1 DEF Frame
  <2> QED
    BY <2>1, <2>2, <2>3, StepKinds
<1> QED
  BY <1>1, CountersTyped DEF TypeInv, Onwards

LEMMA TypeInit ==
  ASSUME Init
  PROVE  TypeInv
<1>1. NoRow \in Rows
  BY DEF NoRow, Rows, Statuses
<1>2. RowsOK /\ AbsentOK
  BY <1>1 DEF Init, RowsOK, AbsentOK, NoRow
<1>3. LocalsOK
  BY LocalsInOrder DEF Init, LocalsOK, LocalOK
<1>4. CountersOK
  BY LimitAssumption DEF Init, CountersOK
<1> QED
  BY <1>2, <1>3, <1>4 DEF TypeInv

\* TypeOK: rows, locals and counters keep their types, and no loop leaves the
\* families of its case.
THEOREM TypeCorrect == Spec => []TypeOK
<1>1. Init => TypeInv
  BY TypeInit
<1>2. TypeInv /\ [Next]_vars => TypeInv'
  BY TypeStep
<1>3. TypeInv => TypeOK
  BY DEF TypeInv, RowsOK, LocalsOK, LocalOK, CountersOK, TypeOK, Case
<1> QED
  BY <1>1, <1>2, <1>3, PTL DEF Spec

-----------------------------------------------------------------------------
(* The grant.                                                                *)

\* A worker with the claim may be about to see the grant only if it has permitted
\* the repair since the claim.
GrantInv ==
  \A w \in Workers :
    /\ worker[w].place \in {"approve", "start"} => worker[w].permitted
    /\ worker[w].place = "recheck" /\ authority => worker[w].permitted

LEMMA GrantStep ==
  ASSUME TypeInv, GrantInv, [Next]_vars
  PROVE  GrantInv'
<1>1. CASE OwnerStep
  <2>1. CASE Grant
    <3>1. \A w \in Workers :
            /\ worker'[w].place = worker[w].place
            /\ worker'[w].permitted = (worker[w].place \in Claimed)
      <4>1. worker \in [Workers -> Locals]
        BY DEF TypeInv, LocalsOK
      <4> QED
        BY <2>1, <4>1 DEF Grant, Locals
    <3> QED
      BY <3>1 DEF GrantInv, Claimed
  <2>2. CASE Revoke
    BY <2>2 DEF GrantInv, Revoke
  <2>3. CASE (\E c \in Singles : Approve(c) \/ Expire(c)) \/ UNCHANGED vars
    BY <2>3 DEF GrantInv, Approve, Expire, vars
  <2> QED
    BY <1>1, <2>1, <2>2, <2>3 DEF OwnerStep
<1>2. ASSUME NEW w \in Workers, Quiet(w)
      PROVE  GrantInv'
  <2>1. Aside(w) /\ UNCHANGED authority
    BY <1>2, QuietStep, QuietCounters DEF owner
  <2> QED
    BY <2>1 DEF Aside, Stay, Busy, GrantInv
<1>3. ASSUME NEW w \in Workers, Repairing(w)
      PROVE  GrantInv'
  <2>1. UNCHANGED authority
    BY <1>3 DEF Repairing, CheckBudget, ClaimForAction, Recheck, UseApproval, StartRepair,
                Record, AddReceipt, Fail, owner
  <2>2. CASE CheckBudget(w) \/ StartRepair(w) \/ Record(w) \/ AddReceipt(w) \/ Fail(w)
    <3>1. Stay(w) /\ worker'[w].place \in {"wait", "act", "record", "block", "receipt", "idle"}
      <4>1. CASE CheckBudget(w)
        BY <4>1, RepairSteps DEF Frame
      <4>2. CASE StartRepair(w)
        BY <4>2, RepairSteps DEF Frame
      <4>3. CASE Record(w) \/ AddReceipt(w) \/ Fail(w)
        BY <4>3, RepairSteps DEF Frame
      <4> QED
        BY <2>2, <4>1, <4>2, <4>3
    <3> QED
      BY <2>1, <3>1 DEF Stay, GrantInv
  <2>3. CASE ClaimForAction(w)
    <3>1. /\ Stay(w)
          /\ worker'[w].place = "idle" \/ (worker'[w].place = "recheck" /\ worker'[w].permitted = authority)
      BY <2>3, RepairSteps DEF Frame
    <3> QED
      BY <2>1, <3>1 DEF Stay, GrantInv
  <2>4. CASE Recheck(w)
    <3>1. /\ Stay(w) /\ worker[w].place = "recheck"
          /\ worker'[w].place = "wait" \/ (authority /\ worker'[w].permitted = worker[w].permitted)
      BY <2>4, RepairSteps DEF Frame
    <3> QED
      BY <2>1, <3>1 DEF Stay, GrantInv
  <2>5. CASE UseApproval(w)
    <3>1. /\ Stay(w) /\ worker[w].place = "approve"
          /\ worker'[w].place = "wait" \/ worker'[w].permitted = worker[w].permitted
          /\ worker'[w].place \in {"wait", "start"}
      BY <2>5, RepairSteps DEF Frame
    <3> QED
      BY <2>1, <3>1 DEF Stay, GrantInv
  <2> QED
    BY <1>3, <2>2, <2>3, <2>4, <2>5 DEF Repairing
<1> QED
  BY <1>1, <1>2, <1>3, StepKinds

\* RepairedUnderGrant: no repair is started unless the grant has permitted it at
\* some time since the claim of the worker that starts it.
THEOREM RepairsUnderGrant == Spec => []RepairedUnderGrant
<1>1. Init => TypeInv /\ GrantInv
  <2>1. Init => GrantInv
    BY IdleTyped DEF Init, GrantInv
  <2> QED
    BY <2>1, TypeInit
<1>2. TypeInv /\ GrantInv /\ [Next]_vars => (TypeInv /\ GrantInv)'
  BY TypeStep, GrantStep
<1>3. GrantInv => RepairedUnderGrant
  BY DEF GrantInv, RepairedUnderGrant
<1> QED
  BY <1>1, <1>2, <1>3, PTL DEF Spec

-----------------------------------------------------------------------------
(* The provider.                                                             *)

\* The families of a case that nobody has asked about, and every call took one.
Unclaimed(c) == {i \in Families(c) : row[c][i].status \in New}
AskedInv == \A c \in Cases : asked[c] + Cardinality(Unclaimed(c)) <= Width[c]

LEMMA FamiliesFinite ==
  ASSUME NEW c \in Cases
  PROVE  /\ IsFiniteSet(Families(c)) /\ Cardinality(Families(c)) = Width[c]
         /\ \A S \in SUBSET Families(c) :
              IsFiniteSet(S) /\ Cardinality(S) \in Nat /\ Cardinality(S) <= Width[c]
<1>1. Width[c] \in Nat \ {0}
  BY CasesAssumption
<1>2. IsFiniteSet(Families(c)) /\ Cardinality(Families(c)) = Width[c]
  <2>1. 1 \in Int /\ Width[c] \in Int /\ ~(1 > Width[c])
    BY <1>1
  <2>2. IsFiniteSet(1..Width[c]) /\ Cardinality(1..Width[c]) = Width[c] - 1 + 1
    BY <2>1, FS_Interval
  <2> QED
    BY <1>1, <2>2 DEF Families
<1> QED
  BY <1>2, FS_Subset, FS_CardinalityType

LEMMA AskedStep ==
  ASSUME TypeInv, AskedInv, [Next]_vars
  PROVE  AskedInv'
<1>1. Onwards /\ TypeInv'
  BY TypeStep
<1> SUFFICES ASSUME NEW c \in Cases
             PROVE  asked'[c] + Cardinality(Unclaimed(c)') <= Width[c]
  BY DEF AskedInv
<1> DEFINE S == {i \in Families(c) : row[c][i].status \in New}
           T == {i \in Families(c) : row'[c][i].status \in New}
<1>2. T \subseteq S /\ S \subseteq Families(c)
  BY <1>1 DEF Onwards
<1>3. /\ IsFiniteSet(S) /\ Cardinality(S) \in Nat /\ Cardinality(T) \in Nat
      /\ Cardinality(T) <= Cardinality(S)
  BY <1>2, FamiliesFinite, FS_Subset
<1>4. /\ asked[c] \in Nat /\ asked'[c] \in Nat /\ Width[c] \in Nat
      /\ asked[c] + Cardinality(S) <= Width[c]
  BY <1>1, CasesAssumption DEF TypeInv, CountersOK, AskedInv, Unclaimed
<1>5. asked'[c] + Cardinality(T) <= asked[c] + Cardinality(S)
  <2>1. CASE asked'[c] = asked[c]
    BY <1>3, <1>4, <2>1
  <2>2. ASSUME NEW w \in Workers, ClaimForCag(w), asked'[c] # asked[c]
        PROVE  asked'[c] + Cardinality(T) <= asked[c] + Cardinality(S)
    <3>1. PICK i \in Families(Case(w)) :
            /\ Unasked(row[Case(w)][i])
            /\ row' = [row EXCEPT ![Case(w)][i].status = "CAG_VERIFYING"]
            /\ asked' = [asked EXCEPT ![Case(w)] = @ + 1]
      BY <2>2 DEF ClaimForCag
    <3>2. Case(w) = c /\ asked'[c] = asked[c] + 1
      BY <2>2, <3>1 DEF TypeInv, CountersOK
    <3>3. i \in S
      BY <3>1, <3>2 DEF Unasked, New
    <3>4. row'[c][i].status = "CAG_VERIFYING"
      <4> DEFINE u == [row EXCEPT ![c][i].status = "CAG_VERIFYING"]
      <4>1. u[c][i] = [row[c][i] EXCEPT !.status = "CAG_VERIFYING"]
        <5>1. RowsOK /\ "CAG_VERIFYING" \in Statuses /\ i \in Families(c)
          BY <3>1, <3>2 DEF TypeInv, Statuses
        <5> QED
          BY <5>1, StatusReplaced DEF RowsOK
      <4>2. row[c][i] \in Rows
        BY <3>1, <3>2 DEF TypeInv, RowsOK
      <4>3. row' = u
        BY <3>1, <3>2
      <4> HIDE DEF u
      <4> QED
        BY <4>1, <4>2, <4>3 DEF Rows
    <3>5. T \subseteq S \ {i}
      BY <1>2, <3>4 DEF New
    <3> HIDE DEF S, T
    <3>6. IsFiniteSet(S \ {i}) /\ Cardinality(S \ {i}) = Cardinality(S) - 1
      BY <1>3, <3>3, FS_RemoveElement
    <3>7. Cardinality(T) <= Cardinality(S) - 1
      BY <3>5, <3>6, FS_Subset
    <3> QED
      BY <1>3, <1>4, <3>2, <3>7
  <2>3. UNCHANGED asked \/ \E w \in Workers : ClaimForCag(w)
    <3>1. OwnerStep => UNCHANGED asked
      BY OwnerMoves
    <3>2. ASSUME NEW w \in Workers, Quiet(w), ~ClaimForCag(w)
          PROVE  UNCHANGED asked
      BY <3>2 DEF Quiet, Pick, Upsert, LeaveAlone, Diverged, Reuse, CagAnswers, MarkFailed,
                  MarkVerified, Review, StoreContract, Consult, Wait, Block
    <3>3. ASSUME NEW w \in Workers, Repairing(w)
          PROVE  UNCHANGED asked
      BY <3>3 DEF Repairing, CheckBudget, ClaimForAction, Recheck, UseApproval, StartRepair,
                  Record, AddReceipt, Fail
    <3> QED
      BY <3>1, <3>2, <3>3, StepKinds
  <2> QED
    BY <2>1, <2>2, <2>3
<1> QED
  BY <1>3, <1>4, <1>5 DEF Unclaimed

\* AskedOnce: the provider is asked at most once about each incident, whatever the
\* workers do in between.
THEOREM NeverAskedAgain == Spec => []AskedOnce
<1>1. Init => AskedInv
  <2> SUFFICES ASSUME Init, NEW c \in Cases
               PROVE  asked[c] + Cardinality(Unclaimed(c)) <= Width[c]
    BY DEF AskedInv
  <2>1. Unclaimed(c) \in SUBSET Families(c)
    BY DEF Unclaimed
  <2> QED
    BY <2>1, FamiliesFinite, CasesAssumption DEF Init
<1>2. TypeInv /\ AskedInv /\ [Next]_vars => (TypeInv /\ AskedInv)'
  BY TypeStep, AskedStep
<1>3. TypeInv /\ AskedInv => AskedOnce
  <2> SUFFICES ASSUME TypeInv, AskedInv, NEW c \in Cases
               PROVE  asked[c] <= Width[c]
    BY DEF AskedOnce
  <2>1. Unclaimed(c) \in SUBSET Families(c) /\ asked[c] \in Nat /\ Width[c] \in Nat
    BY CasesAssumption DEF Unclaimed, TypeInv, CountersOK
  <2>2. Cardinality(Unclaimed(c)) \in Nat
    BY <2>1, FamiliesFinite
  <2> QED
    BY <2>1, <2>2 DEF AskedInv
<1>4. Init => TypeInv
  BY TypeInit
<1> QED
  BY <1>1, <1>2, <1>3, <1>4, PTL DEF Spec

-----------------------------------------------------------------------------
(* Counting the workers at a place.                                          *)

LEMMA WorkersCounted ==
  /\ Cardinality(Workers) \in Nat \ {0}
  /\ \A S \in SUBSET Workers :
       IsFiniteSet(S) /\ Cardinality(S) \in Nat /\ Cardinality(S) <= Cardinality(Workers)
<1>1. Cardinality(Workers) \in Nat /\ Cardinality(Workers) # 0
  BY WorkersAssumption, FS_CardinalityType, FS_EmptySet
<1>2. ASSUME NEW S \in SUBSET Workers
      PROVE  IsFiniteSet(S) /\ Cardinality(S) \in Nat /\ Cardinality(S) <= Cardinality(Workers)
  BY WorkersAssumption, FS_Subset, FS_CardinalityType
<1> QED
  BY <1>1, <1>2

LEMMA Apart ==
  ASSUME NEW S \in SUBSET Workers, NEW T \in SUBSET Workers, S \cap T = {}
  PROVE  Cardinality(S) + Cardinality(T) <= Cardinality(Workers)
<1>1. /\ IsFiniteSet(S) /\ Cardinality(S) \in Nat /\ IsFiniteSet(T) /\ Cardinality(T) \in Nat
      /\ S \cup T \in SUBSET Workers
  BY WorkersCounted
<1>2. Cardinality(S \cup T) = Cardinality(S) + Cardinality(T)
  <2>1. Cardinality(S \cap T) = 0
    BY FS_EmptySet
  <2>2. Cardinality(S \cup T) = Cardinality(S) + Cardinality(T) - Cardinality(S \cap T)
    BY <1>1, FS_Union
  <2> QED
    BY <1>1, <2>1, <2>2
<1>3. Cardinality(S \cup T) <= Cardinality(Workers)
  BY <1>1, WorkersCounted
<1> QED
  BY <1>2, <1>3

\* The same set but perhaps for w.
LEMMA OneMoved ==
  ASSUME NEW w \in Workers, NEW S \in SUBSET Workers, NEW T \in SUBSET Workers, S \ {w} = T \ {w}
  PROVE  /\ Cardinality(S) \in Nat /\ Cardinality(T) \in Nat
         /\ Cardinality(T) >= Cardinality(S) - 1
         /\ w \notin T => Cardinality(T) <= Cardinality(S)
         /\ w \notin S => Cardinality(T) >= Cardinality(S)
         /\ w \in S => Cardinality(T) <= Cardinality(S)
         /\ w \in S /\ w \notin T => Cardinality(T) = Cardinality(S) - 1
         /\ w \notin S /\ w \in T => Cardinality(T) = Cardinality(S) + 1
         /\ (w \in S <=> w \in T) => Cardinality(T) = Cardinality(S)
<1>1. IsFiniteSet(S) /\ Cardinality(S) \in Nat /\ IsFiniteSet(T) /\ Cardinality(T) \in Nat
  BY WorkersCounted
<1>2. Cardinality(S \ {w}) = IF w \in S THEN Cardinality(S) - 1 ELSE Cardinality(S)
  BY <1>1, FS_RemoveElement
<1>3. Cardinality(T \ {w}) = IF w \in T THEN Cardinality(T) - 1 ELSE Cardinality(T)
  BY <1>1, FS_RemoveElement
<1>4. Cardinality(S \ {w}) = Cardinality(T \ {w})
  OBVIOUS
<1>5. CASE w \in S
  BY <1>1, <1>2, <1>3, <1>4, <1>5
<1>6. CASE w \notin S
  BY <1>1, <1>2, <1>3, <1>4, <1>6
<1> QED
  BY <1>5, <1>6

-----------------------------------------------------------------------------
(* The manual approvals.                                                     *)

\* Those that have taken an approval of the case and not yet used it.
Paying(c) == {w \in Workers : worker[w].place = "start" /\ worker[w].exhausted /\ worker[w].case = c}
ApprovalInv ==
  \A c \in Singles : approved[c] + Cardinality(Paying(c)) + approval[c] <= granted[c]

LEMMA ApprovalStep ==
  ASSUME TypeInv, ApprovalInv, [Next]_vars
  PROVE  ApprovalInv'
<1> SUFFICES ASSUME NEW c \in Singles
             PROVE  approved'[c] + Cardinality(Paying(c)') + approval'[c] <= granted'[c]
  BY DEF ApprovalInv
<1> DEFINE S == {v \in Workers : worker[v].place = "start" /\ worker[v].exhausted
                                   /\ worker[v].case = c}
           T == {v \in Workers : worker'[v].place = "start" /\ worker'[v].exhausted
                                   /\ worker'[v].case = c}
<1>1. c \in Cases
  BY DEF Singles
<1>2. /\ approved[c] \in Nat /\ approval[c] \in Nat /\ granted[c] \in Nat
      /\ approved'[c] \in Nat /\ approval'[c] \in Nat /\ granted'[c] \in Nat
      /\ approved[c] + Cardinality(S) + approval[c] <= granted[c]
      /\ Cardinality(S) \in Nat /\ Cardinality(T) \in Nat
  <2>1. /\ approved[c] \in Nat /\ approval[c] \in Nat /\ granted[c] \in Nat
        /\ approved'[c] \in Nat /\ approval'[c] \in Nat /\ granted'[c] \in Nat
    BY <1>1, CountersTyped DEF TypeInv, CountersOK
  <2>2. Cardinality(S) \in Nat /\ Cardinality(T) \in Nat
    BY WorkersCounted
  <2> QED
    BY <2>1, <2>2 DEF ApprovalInv, Paying
<1>3. CASE OwnerStep
  <2>1. S = T
    BY <1>3, OwnerMoves
  <2>2. UNCHANGED approved
    BY <1>3, OwnerMoves DEF effects
  <2> HIDE DEF S, T
  <2>3. ASSUME Grant \/ Revoke \/ UNCHANGED vars
        PROVE  approved'[c] + Cardinality(T) + approval'[c] <= granted'[c]
    <3>1. approval'[c] = approval[c] /\ granted'[c] = granted[c] /\ approved'[c] = approved[c]
      BY <2>2, <2>3 DEF Grant, Revoke, vars
    <3> QED
      BY <1>2, <2>1, <3>1
  <2>4. ASSUME NEW d \in Singles, Approve(d)
        PROVE  approved'[c] + Cardinality(T) + approval'[c] <= granted'[c]
    <3>1. approval'[c] - approval[c] = granted'[c] - granted[c]
      BY <1>2, <2>4 DEF Approve, TypeInv, CountersOK
    <3> QED
      BY <1>2, <2>1, <2>2, <3>1
  <2>5. ASSUME NEW d \in Singles, Expire(d)
        PROVE  approved'[c] + Cardinality(T) + approval'[c] <= granted'[c]
    <3>1. approval'[c] <= approval[c] /\ granted'[c] = granted[c]
      BY <1>2, <2>5 DEF Expire, TypeInv, CountersOK
    <3> QED
      BY <1>2, <2>1, <2>2, <3>1
  <2> QED
    BY <1>3, <2>3, <2>4, <2>5 DEF OwnerStep, Paying, S, T
<1>4. ASSUME NEW w \in Workers, Stay(w), w \notin T, UNCHANGED <<approved, approval, granted>>
      PROVE  approved'[c] + Cardinality(T) + approval'[c] <= granted'[c]
  <2>1. S \ {w} = T \ {w}
    BY <1>4 DEF Stay
  <2> HIDE DEF S, T
  <2>2. Cardinality(T) <= Cardinality(S)
    <3>1. S \in SUBSET Workers /\ T \in SUBSET Workers
      BY DEF S, T
    <3> QED
      BY <1>4, <2>1, <3>1, OneMoved
  <2> QED
    BY <1>2, <1>4, <2>2
<1>5. ASSUME NEW w \in Workers, Quiet(w)
      PROVE  approved'[c] + Cardinality(T) + approval'[c] <= granted'[c]
  <2>1. Aside(w) /\ UNCHANGED <<approved, approval, granted>>
    BY <1>5, QuietStep, QuietCounters DEF owner, effects
  <2> QED
    BY <1>4, <2>1 DEF Aside, Busy
<1>6. ASSUME NEW w \in Workers,
             CheckBudget(w) \/ ClaimForAction(w) \/ Record(w) \/ AddReceipt(w) \/ Fail(w)
      PROVE  approved'[c] + Cardinality(T) + approval'[c] <= granted'[c]
  <2>1. UNCHANGED <<approved, approval, granted>>
    BY <1>6 DEF CheckBudget, ClaimForAction, Record, AddReceipt, Fail, owner, effects
  <2>2. Stay(w) /\ worker'[w].place # "start"
    <3>1. CASE CheckBudget(w) \/ ClaimForAction(w)
      BY <3>1, RepairSteps DEF Frame
    <3>2. CASE Record(w) \/ AddReceipt(w) \/ Fail(w)
      BY <3>2, RepairSteps DEF Frame
    <3> QED
      BY <1>6, <3>1, <3>2
  <2> QED
    BY <1>4, <2>1, <2>2
<1>7. ASSUME NEW w \in Workers, Recheck(w)
      PROVE  approved'[c] + Cardinality(T) + approval'[c] <= granted'[c]
  <2>1. UNCHANGED <<approved, approval, granted>>
    BY <1>7 DEF Recheck, owner, effects
  <2>2. Stay(w) /\ w \notin T
    BY <1>7, RepairSteps DEF Frame
  <2> QED
    BY <1>4, <2>1, <2>2
<1>8. ASSUME NEW w \in Workers, UseApproval(w)
      PROVE  approved'[c] + Cardinality(T) + approval'[c] <= granted'[c]
  <2>1. Stay(w) /\ worker[w].place = "approve" /\ UNCHANGED <<approved, granted>>
    BY <1>8, RepairSteps DEF Frame, UseApproval, effects
  <2>2. CASE worker'[w].place = "wait" /\ UNCHANGED approval
    BY <1>4, <2>1, <2>2
  <2>3. CASE approval[Case(w)] > 0 /\ approval' = Consumed(Case(w)) /\ Kept(w)
    <3>1. CASE Case(w) = c
      <4>1. approval'[c] = approval[c] - 1
        BY <2>3, <3>1 DEF Consumed, TypeInv, CountersOK
      <4>2. S \ {w} = T \ {w} /\ w \notin S
        BY <2>1 DEF Stay
      <4> HIDE DEF S, T
      <4>3. Cardinality(T) <= Cardinality(S) + 1
        <5>1. S \in SUBSET Workers /\ T \in SUBSET Workers
          BY DEF S, T
        <5> QED
          BY <1>2, <4>2, <5>1, OneMoved
      <4> QED
        BY <1>2, <2>1, <4>1, <4>3
    <3>2. CASE Case(w) # c
      <4>1. UNCHANGED <<approved, granted>> /\ approval'[c] = approval[c]
        BY <2>1, <2>3, <3>2 DEF Consumed, TypeInv, CountersOK
      <4>2. S \ {w} = T \ {w} /\ w \notin T
        BY <2>1, <2>3, <3>2 DEF Stay, Kept, Case
      <4> HIDE DEF S, T
      <4>3. Cardinality(T) <= Cardinality(S)
        <5>1. S \in SUBSET Workers /\ T \in SUBSET Workers
          BY DEF S, T
        <5> QED
          BY <4>2, <5>1, OneMoved
      <4> QED
        BY <1>2, <4>1, <4>3
    <3> QED
      BY <3>1, <3>2
  <2> QED
    BY <1>8, <2>2, <2>3, RepairSteps
<1>9. ASSUME NEW w \in Workers, StartRepair(w)
      PROVE  approved'[c] + Cardinality(T) + approval'[c] <= granted'[c]
  <2>1. Stay(w) /\ worker[w].place = "start" /\ w \notin T
    BY <1>9, RepairSteps DEF Frame
  <2>2. UNCHANGED <<approval, granted>>
    BY <1>9 DEF StartRepair, owner
  <2>3. \/ UNCHANGED approved
        \/ worker[w].exhausted /\ approved' = [approved EXCEPT ![Case(w)] = @ + 1]
    BY <1>9 DEF StartRepair, RepairQueued
  <2>4. CASE approved'[c] = approved[c]
    <3>1. S \ {w} = T \ {w}
      BY <2>1 DEF Stay
    <3> HIDE DEF S, T
    <3>2. Cardinality(T) <= Cardinality(S)
      <4>1. S \in SUBSET Workers /\ T \in SUBSET Workers
        BY DEF S, T
      <4> QED
        BY <2>1, <3>1, <4>1, OneMoved
    <3> QED
      BY <1>2, <2>2, <2>4, <3>2
  <2>5. CASE approved'[c] # approved[c]
    <3>1. worker[w].exhausted /\ Case(w) = c /\ approved'[c] = approved[c] + 1
      BY <1>1, <2>3, <2>5 DEF TypeInv, CountersOK
    <3>2. S \ {w} = T \ {w} /\ w \in S
      BY <2>1, <3>1 DEF Stay, Case
    <3> HIDE DEF S, T
    <3>3. Cardinality(T) = Cardinality(S) - 1
      <4>1. S \in SUBSET Workers /\ T \in SUBSET Workers
        BY DEF S, T
      <4> QED
        BY <2>1, <3>2, <4>1, OneMoved
    <3> QED
      BY <1>2, <2>2, <3>1, <3>3
  <2> QED
    BY <2>4, <2>5
<1> QED
  BY <1>3, <1>5, <1>6, <1>7, <1>8, <1>9, StepKinds DEF Repairing, Paying

\* ApprovalsCover: every repair beyond the limit took a manual approval of its own,
\* given for its incident.
THEOREM ApprovalsSpentOnce == Spec => []ApprovalsCover
<1>1. Init => TypeInv /\ ApprovalInv
  <2>1. ASSUME Init, NEW c \in Singles
        PROVE  approved[c] + Cardinality(Paying(c)) + approval[c] <= granted[c]
    <3>1. Paying(c) = {} /\ c \in Cases
      BY <2>1, IdleTyped DEF Init, Paying, Singles
    <3> QED
      BY <2>1, <3>1, FS_EmptySet DEF Init
  <2> QED
    BY <2>1, TypeInit DEF ApprovalInv
<1>2. TypeInv /\ ApprovalInv /\ [Next]_vars => (TypeInv /\ ApprovalInv)'
  BY TypeStep, ApprovalStep
<1>3. TypeInv /\ ApprovalInv => ApprovalsCover
  <2> SUFFICES ASSUME TypeInv, ApprovalInv, NEW c \in Singles
               PROVE  approved[c] <= granted[c]
    BY DEF ApprovalsCover
  <2>1. Paying(c) \in SUBSET Workers /\ c \in Cases
    BY DEF Paying, Singles
  <2>2. /\ Cardinality(Paying(c)) \in Nat /\ approved[c] \in Nat /\ approval[c] \in Nat
        /\ granted[c] \in Nat
    BY <2>1, WorkersCounted DEF TypeInv, CountersOK
  <2> QED
    BY <2>2 DEF ApprovalInv
<1> QED
  BY <1>1, <1>2, <1>3, PTL DEF Spec

-----------------------------------------------------------------------------
(* The number of repairs of a case.                                          *)

Recording(c) == {w \in Workers : worker[w].place = "record" /\ worker[w].case = c}
Claiming(c) == {w \in Workers : worker[w].place \in Claimed /\ worker[w].case = c}

\* A case whose row shows no repair has had none but those that a worker is about
\* to record and those lost with a fault.  That is when a claim succeeds, so every
\* claim under way and every repair has a worker or a fault to itself.
RepairInv ==
  \A c \in Cases :
    /\ ~row[c][1].repair => repairs[c] <= Cardinality(Recording(c)) + faults
    /\ repairs[c] + Cardinality(Claiming(c)) <= Cardinality(Workers) + faults

LEMMA RepairStep ==
  ASSUME TypeInv, RepairInv, [Next]_vars
  PROVE  RepairInv'
<1> SUFFICES ASSUME NEW c \in Cases
             PROVE  /\ ~row'[c][1].repair => repairs'[c] <= Cardinality(Recording(c)') + faults'
                    /\ repairs'[c] + Cardinality(Claiming(c)') <= Cardinality(Workers) + faults'
  BY DEF RepairInv
<1> DEFINE R == {v \in Workers : worker[v].place = "record" /\ worker[v].case = c}
           R2 == {v \in Workers : worker'[v].place = "record" /\ worker'[v].case = c}
           K == {v \in Workers : worker[v].place \in Claimed /\ worker[v].case = c}
           K2 == {v \in Workers : worker'[v].place \in Claimed /\ worker'[v].case = c}
           Goal == /\ ~row'[c][1].repair => repairs'[c] <= Cardinality(R2) + faults'
                   /\ repairs'[c] + Cardinality(K2) <= Cardinality(Workers) + faults'
<1>1. /\ repairs[c] \in Nat /\ repairs'[c] \in Nat /\ faults \in Nat /\ faults' \in Nat
      /\ Cardinality(Workers) \in Nat
  BY CountersTyped, WorkersCounted DEF TypeInv, CountersOK
<1>2. /\ ~row[c][1].repair => repairs[c] <= Cardinality(R) + faults
      /\ repairs[c] + Cardinality(K) <= Cardinality(Workers) + faults
  BY DEF RepairInv, Recording, Claiming
<1>3. /\ R \in SUBSET Workers /\ R2 \in SUBSET Workers
      /\ K \in SUBSET Workers /\ K2 \in SUBSET Workers /\ R2 \cap K2 = {}
  BY DEF Claimed
<1>4. /\ Cardinality(R) \in Nat /\ Cardinality(R2) \in Nat
      /\ Cardinality(K) \in Nat /\ Cardinality(K2) \in Nat
      /\ Cardinality(R2) + Cardinality(K2) <= Cardinality(Workers)
  BY <1>3, WorkersCounted, Apart
<1>5. ~row'[c][1].repair => ~row[c][1].repair
  <2>1. 1 \in Families(c)
    BY FreshTyped DEF Places
  <2> QED
    BY <2>1, TypeStep DEF Onwards
<1>6. \A w \in Workers : Stay(w) => R \ {w} = R2 \ {w} /\ K \ {w} = K2 \ {w}
  BY DEF Stay
<1>7. CASE OwnerStep
  <2>1. R2 = R /\ K2 = K
    BY <1>7, OwnerMoves
  <2>2. repairs' = repairs /\ faults' = faults
    BY <1>7, OwnerMoves DEF effects
  <2> HIDE DEF R, R2, K, K2
  <2>3. Goal
    BY <1>1, <1>2, <1>4, <1>5, <2>1, <2>2
  <2> QED
    BY <2>3 DEF Recording, Claiming, R2, K2
\* Neither the repairs nor the workers that record one change in number.
<1>8. ASSUME NEW w \in Workers, Stay(w), repairs'[c] = repairs[c], faults' = faults,
             w \notin R, w \notin R2, w \notin K2 \/ w \in K
      PROVE  Goal
  <2> HIDE DEF R, R2, K, K2
  <2>1. Cardinality(R2) = Cardinality(R) /\ Cardinality(K2) <= Cardinality(K)
    BY <1>3, <1>6, <1>8, OneMoved
  <2> QED
    BY <1>1, <1>2, <1>4, <1>5, <1>8, <2>1
<1>9. ASSUME NEW w \in Workers, Quiet(w)
      PROVE  Goal
  <2>1. Aside(w) /\ repairs' = repairs /\ faults' = faults
    BY <1>9, QuietStep, QuietCounters DEF effects
  <2> QED
    BY <1>8, <2>1 DEF Aside, Busy, Claimed
<1>10. ASSUME NEW w \in Workers,
              CheckBudget(w) \/ Recheck(w) \/ UseApproval(w) \/ AddReceipt(w)
       PROVE  Goal
  <2>1. repairs' = repairs /\ faults' = faults
    BY <1>10 DEF CheckBudget, Recheck, UseApproval, AddReceipt, effects
  <2>2. Stay(w) /\ w \notin R /\ w \notin R2 /\ (w \notin K2 \/ w \in K)
    <3>1. CASE CheckBudget(w) \/ AddReceipt(w)
      BY <3>1, RepairSteps DEF Frame, Claimed
    <3>2. CASE Recheck(w)
      BY <3>2, RepairSteps DEF Frame, Claimed, Kept
    <3>3. CASE UseApproval(w)
      BY <3>3, RepairSteps DEF Frame, Claimed, Kept
    <3> QED
      BY <1>10, <3>1, <3>2, <3>3
  <2> QED
    BY <1>8, <2>1, <2>2
<1>11. ASSUME NEW w \in Workers, ClaimForAction(w)
       PROVE  Goal
  <2>1. repairs' = repairs /\ faults' = faults
    BY <1>11 DEF ClaimForAction, effects
  <2>2. Stay(w) /\ w \notin R /\ w \notin R2
    BY <1>11, RepairSteps DEF Frame
  <2>3. w \in K2 => ~row[c][1].repair
    BY <1>11, RepairSteps DEF Kept, Claimable, Claimed, Case
  <2>4. CASE w \in K2
    <3> HIDE DEF R, R2, K, K2
    <3>1. Cardinality(R2) = Cardinality(R)
      BY <1>3, <1>6, <2>2, OneMoved
    <3> QED
      BY <1>1, <1>2, <1>4, <2>1, <2>3, <2>4, <3>1
  <2>5. CASE w \notin K2
    BY <1>8, <2>1, <2>2, <2>5
  <2> QED
    BY <2>4, <2>5
<1>12. ASSUME NEW w \in Workers, StartRepair(w)
       PROVE  Goal
  <2>1. /\ Stay(w) /\ w \notin R /\ w \notin K2
        /\ worker[w].place = "start" /\ worker'[w].case = Case(w)
    BY <1>12, RepairSteps DEF Frame, Claimed
  <2>2. /\ Cardinality(R2) >= Cardinality(R)
        /\ Cardinality(K2) <= Cardinality(K)
        /\ w \in R2 => Cardinality(R2) = Cardinality(R) + 1
        /\ w \in K => Cardinality(K2) = Cardinality(K) - 1
    <3> HIDE DEF R, R2, K, K2
    <3> QED
      BY <1>3, <1>4, <1>6, <2>1, OneMoved
  <2>3. faults' = faults \/ faults' = faults + 1
    BY <1>12, RepairSteps DEF Fault
  <2>4. CASE repairs'[c] = repairs[c]
    <3> HIDE DEF R, R2, K, K2
    <3> QED
      BY <1>1, <1>2, <1>4, <1>5, <2>2, <2>3, <2>4
  <2>5. CASE repairs'[c] # repairs[c]
    <3>1. RepairQueued(w)
      BY <1>12, <2>5 DEF StartRepair
    <3>2. repairs'[c] = repairs[c] + 1 /\ Case(w) = c
      BY <1>1, <2>5, <3>1 DEF RepairQueued, TypeInv, CountersOK
    <3>3. w \in K
      BY <2>1, <3>2 DEF Claimed, Case
    <3>4. w \in R2 \/ faults' = faults + 1
      <4>1. \/ worker'[w].place = "record"
            \/ worker'[w].place = "block" /\ Fault
            \/ worker'[w].place = "block" /\ UNCHANGED repairs
        BY <1>12, RepairSteps
      <4> QED
        BY <2>1, <2>5, <3>2, <4>1 DEF Fault
    <3> HIDE DEF R, R2, K, K2
    <3> QED
      BY <1>1, <1>2, <1>4, <1>5, <2>2, <2>3, <3>2, <3>3, <3>4
  <2> QED
    BY <2>4, <2>5
<1>13. ASSUME NEW w \in Workers, Record(w)
       PROVE  Goal
  <2>1. repairs' = repairs /\ faults' = faults
    BY <1>13 DEF Record, effects
  <2>2. /\ Stay(w) /\ worker[w].place = "record" /\ worker'[w].place = "receipt"
        /\ row'[Case(w)][1].repair
    BY <1>13, RepairSteps DEF Frame
  <2>3. w \notin K2 /\ w \notin R2 /\ (w \in R => row'[c][1].repair)
    BY <2>2 DEF Claimed, Case
  <2>4. CASE w \in R
    <3> HIDE DEF R, R2, K, K2
    <3>1. Cardinality(K2) <= Cardinality(K)
      BY <1>3, <1>6, <2>2, <2>3, OneMoved
    <3> QED
      BY <1>1, <1>2, <1>4, <2>1, <2>3, <2>4, <3>1
  <2>5. CASE w \notin R
    BY <1>8, <2>1, <2>2, <2>3, <2>5
  <2> QED
    BY <2>4, <2>5
<1>14. ASSUME NEW w \in Workers, Fail(w)
       PROVE  Goal
  <2>1. repairs' = repairs /\ faults' = faults + 1
    BY <1>14 DEF Fail, Fault, effects
  <2>2. Stay(w) /\ w \notin K2
    BY <1>14, RepairSteps DEF Frame, Claimed
  <2> HIDE DEF R, R2, K, K2
  <2>3. Cardinality(R2) >= Cardinality(R) - 1 /\ Cardinality(K2) <= Cardinality(K)
    BY <1>3, <1>6, <2>2, OneMoved
  <2> QED
    BY <1>1, <1>2, <1>4, <1>5, <2>1, <2>3
<1>15. ASSUME Goal
       PROVE  /\ ~row'[c][1].repair => repairs'[c] <= Cardinality(Recording(c)') + faults'
              /\ repairs'[c] + Cardinality(Claiming(c)') <= Cardinality(Workers) + faults'
  BY <1>15 DEF Recording, Claiming
<1> HIDE DEF Goal
<1> QED
  BY <1>7, <1>9, <1>10, <1>11, <1>12, <1>13, <1>14, <1>15, StepKinds DEF Repairing

\* RepairsBounded: one failure is repaired at most once by each worker and once by
\* each that ends, however often it is scanned.
THEOREM RepairsAreBounded == Spec => []RepairsBounded
<1>1. Init => TypeInv /\ RepairInv
  <2>1. ASSUME Init, NEW c \in Cases
        PROVE  /\ ~row[c][1].repair => repairs[c] <= Cardinality(Recording(c)) + faults
               /\ repairs[c] + Cardinality(Claiming(c)) <= Cardinality(Workers) + faults
    <3>1. Recording(c) = {} /\ Claiming(c) = {}
      BY <2>1, IdleTyped DEF Init, Recording, Claiming, Claimed
    <3>2. repairs[c] = 0 /\ faults = 0
      BY <2>1 DEF Init
    <3> QED
      BY <3>1, <3>2, FS_EmptySet, WorkersCounted
  <2> QED
    BY <2>1, TypeInit DEF RepairInv
<1>2. TypeInv /\ RepairInv /\ [Next]_vars => (TypeInv /\ RepairInv)'
  BY TypeStep, RepairStep
<1>3. TypeInv /\ RepairInv => RepairsBounded
  <2> SUFFICES ASSUME TypeInv, RepairInv, NEW c \in Cases
               PROVE  repairs[c] <= Cardinality(Workers) + faults
    BY DEF RepairsBounded
  <2>1. Claiming(c) \in SUBSET Workers
    BY DEF Claiming
  <2>2. /\ Cardinality(Claiming(c)) \in Nat /\ repairs[c] \in Nat /\ faults \in Nat
        /\ Cardinality(Workers) \in Nat
    BY <2>1, WorkersCounted DEF TypeInv, CountersOK
  <2> QED
    BY <2>2 DEF RepairInv
<1> QED
  BY <1>1, <1>2, <1>3, PTL DEF Spec

-----------------------------------------------------------------------------
(* The limit.                                                                *)

\* Those whose repair has no receipt yet, and those the limit has let through.
Feeding == {w \in Workers : worker[w].place \in {"record", "receipt"}}
Acting == {w \in Workers : worker[w].place \in Claimed \cup {"act"} /\ ~worker[w].exhausted}

\* The receipts fall short of the repairs by what is being fed and what was lost;
\* when the limit lets a worker through, these and all it has let through before
\* are on other workers.
LimitInv ==
  /\ unapproved <= receipts + Cardinality(Feeding) + faults
  /\ unapproved + Cardinality(Acting) <= Limit + Cardinality(Workers) - 1 + faults

LEMMA LimitStep ==
  ASSUME TypeInv, LimitInv, [Next]_vars
  PROVE  LimitInv'
<1> DEFINE F == {v \in Workers : worker[v].place \in {"record", "receipt"}}
           F2 == {v \in Workers : worker'[v].place \in {"record", "receipt"}}
           A == {v \in Workers : worker[v].place \in Claimed \cup {"act"} /\ ~worker[v].exhausted}
           A2 == {v \in Workers : worker'[v].place \in Claimed \cup {"act"} /\ ~worker'[v].exhausted}
           Goal == /\ unapproved' <= receipts' + Cardinality(F2) + faults'
                   /\ unapproved' + Cardinality(A2) <= Limit + Cardinality(Workers) - 1 + faults'
<1>1. /\ unapproved \in Nat /\ unapproved' \in Nat /\ faults \in Nat /\ faults' \in Nat
      /\ receipts \in Nat /\ receipts' \in Nat /\ Limit \in Nat /\ Cardinality(Workers) \in Nat
  BY CountersTyped, WorkersCounted, LimitAssumption DEF TypeInv, CountersOK
<1>2. /\ unapproved <= receipts + Cardinality(F) + faults
      /\ unapproved + Cardinality(A) <= Limit + Cardinality(Workers) - 1 + faults
  BY DEF LimitInv, Feeding, Acting
<1>3. /\ F \in SUBSET Workers /\ F2 \in SUBSET Workers
      /\ A \in SUBSET Workers /\ A2 \in SUBSET Workers /\ F2 \cap A2 = {}
  BY DEF Claimed
<1>4. /\ Cardinality(F) \in Nat /\ Cardinality(F2) \in Nat
      /\ Cardinality(A) \in Nat /\ Cardinality(A2) \in Nat
      /\ Cardinality(F2) + Cardinality(A2) <= Cardinality(Workers)
  BY <1>3, WorkersCounted, Apart
<1>5. \A w \in Workers : Stay(w) => F \ {w} = F2 \ {w} /\ A \ {w} = A2 \ {w}
  BY DEF Stay
<1>6. CASE OwnerStep
  <2>1. F2 = F /\ A2 = A
    BY <1>6, OwnerMoves
  <2>2. unapproved' = unapproved /\ receipts' = receipts /\ faults' = faults
    BY <1>6, OwnerMoves DEF effects
  <2> HIDE DEF F, F2, A, A2
  <2>3. Goal
    BY <1>2, <2>1, <2>2
  <2> QED
    BY <2>3 DEF LimitInv, Feeding, Acting, F2, A2
\* Neither the repairs nor the workers that feed the receipts change in number.
<1>7. ASSUME NEW w \in Workers, Stay(w),
             unapproved' = unapproved, receipts' = receipts, faults' = faults,
             w \in F <=> w \in F2, w \notin A2 \/ w \in A
      PROVE  Goal
  <2> HIDE DEF F, F2, A, A2
  <2>1. Cardinality(F2) = Cardinality(F) /\ Cardinality(A2) <= Cardinality(A)
    BY <1>3, <1>5, <1>7, OneMoved
  <2> QED
    BY <1>1, <1>2, <1>4, <1>7, <2>1
<1>8. ASSUME NEW w \in Workers, Quiet(w)
      PROVE  Goal
  <2>1. Aside(w) /\ unapproved' = unapproved /\ receipts' = receipts /\ faults' = faults
    BY <1>8, QuietStep, QuietCounters DEF effects
  <2> QED
    BY <1>7, <2>1 DEF Aside, Busy, Claimed
<1>9. ASSUME NEW w \in Workers,
             ClaimForAction(w) \/ Recheck(w) \/ UseApproval(w) \/ Record(w)
      PROVE  Goal
  <2>1. unapproved' = unapproved /\ receipts' = receipts /\ faults' = faults
    BY <1>9 DEF ClaimForAction, Recheck, UseApproval, Record, effects
  <2>2. Stay(w) /\ (w \in F <=> w \in F2) /\ (w \notin A2 \/ w \in A)
    <3>1. CASE ClaimForAction(w)
      BY <3>1, RepairSteps DEF Frame, Claimed, Kept
    <3>2. CASE Recheck(w)
      BY <3>2, RepairSteps DEF Frame, Claimed, Kept
    <3>3. CASE UseApproval(w)
      BY <3>3, RepairSteps DEF Frame, Claimed, Kept
    <3>4. CASE Record(w)
      BY <3>4, RepairSteps DEF Frame, Claimed
    <3> QED
      BY <1>9, <3>1, <3>2, <3>3, <3>4
  <2> QED
    BY <1>7, <2>1, <2>2
<1>10. ASSUME NEW w \in Workers, CheckBudget(w)
       PROVE  Goal
  <2>1. unapproved' = unapproved /\ receipts' = receipts /\ faults' = faults
    BY <1>10 DEF CheckBudget, effects
  <2>2. Stay(w) /\ w \notin F /\ w \notin F2
    BY <1>10, RepairSteps DEF Frame
  <2>3. w \in A2 => receipts < Limit
    <3>1. worker'[w].place = "wait" \/ worker'[w].exhausted = Exhausted
      BY <1>10, RepairSteps
    <3>2. w \in A2 => ~Exhausted
      BY <3>1 DEF Claimed
    <3> QED
      BY <1>1, <3>2 DEF Exhausted
  <2>4. CASE w \in A2
    <3> HIDE DEF F, F2, A, A2
    <3>1. Cardinality(F2) = Cardinality(F)
      BY <1>3, <1>5, <2>2, OneMoved
    <3> QED
      BY <1>1, <1>2, <1>4, <2>1, <2>3, <2>4, <3>1
  <2>5. CASE w \notin A2
    BY <1>7, <2>1, <2>2, <2>5
  <2> QED
    BY <2>4, <2>5
<1>11. ASSUME NEW w \in Workers, StartRepair(w)
       PROVE  Goal
  <2>1. Stay(w) /\ w \notin F /\ w \notin A2 /\ worker[w].place = "start"
    BY <1>11, RepairSteps DEF Frame, Claimed
  <2>2. /\ Cardinality(F2) >= Cardinality(F) /\ Cardinality(A2) <= Cardinality(A)
        /\ w \in F2 => Cardinality(F2) = Cardinality(F) + 1
        /\ w \in A => Cardinality(A2) = Cardinality(A) - 1
    <3> HIDE DEF F, F2, A, A2
    <3> QED
      BY <1>3, <1>4, <1>5, <2>1, OneMoved
  <2>3. receipts' = receipts /\ (faults' = faults \/ faults' = faults + 1)
    BY <1>11, RepairSteps DEF StartRepair, Fault
  <2>4. CASE unapproved' = unapproved
    <3> HIDE DEF F, F2, A, A2
    <3> QED
      BY <1>1, <1>2, <1>4, <2>2, <2>3, <2>4
  <2>5. CASE unapproved' # unapproved
    <3>1. ~worker[w].exhausted /\ unapproved' = unapproved + 1
      BY <1>11, <2>5 DEF StartRepair, RepairQueued
    <3>2. w \in A
      BY <2>1, <3>1 DEF Claimed
    <3>3. w \in F2 \/ faults' = faults + 1
      <4>1. \/ worker'[w].place = "record"
            \/ worker'[w].place = "block" /\ Fault
            \/ worker'[w].place = "block" /\ UNCHANGED unapproved
        BY <1>11, RepairSteps
      <4> QED
        BY <2>5, <4>1 DEF Fault
    <3> HIDE DEF F, F2, A, A2
    <3> QED
      BY <1>1, <1>2, <1>4, <2>2, <2>3, <3>1, <3>2, <3>3
  <2> QED
    BY <2>4, <2>5
<1>12. ASSUME NEW w \in Workers, AddReceipt(w)
       PROVE  Goal
  <2>1. unapproved' = unapproved /\ receipts' = receipts + 1 /\ faults' = faults
    BY <1>12 DEF AddReceipt
  <2>2. Stay(w) /\ w \notin A2
    BY <1>12, RepairSteps DEF Frame, Claimed
  <2> HIDE DEF F, F2, A, A2
  <2>3. Cardinality(F2) >= Cardinality(F) - 1 /\ Cardinality(A2) <= Cardinality(A)
    BY <1>3, <1>5, <2>2, OneMoved
  <2> QED
    BY <1>1, <1>2, <1>4, <2>1, <2>3
<1>13. ASSUME NEW w \in Workers, Fail(w)
       PROVE  Goal
  <2>1. unapproved' = unapproved /\ receipts' = receipts /\ faults' = faults + 1
    BY <1>13 DEF Fail, Fault, effects
  <2>2. Stay(w) /\ w \notin A2
    BY <1>13, RepairSteps DEF Frame, Claimed
  <2> HIDE DEF F, F2, A, A2
  <2>3. Cardinality(F2) >= Cardinality(F) - 1 /\ Cardinality(A2) <= Cardinality(A)
    BY <1>3, <1>5, <2>2, OneMoved
  <2> QED
    BY <1>1, <1>2, <1>4, <2>1, <2>3
<1>14. ASSUME Goal
       PROVE  LimitInv'
  BY <1>14 DEF LimitInv, Feeding, Acting
<1> HIDE DEF Goal
<1> QED
  BY <1>6, <1>8, <1>9, <1>10, <1>11, <1>12, <1>13, <1>14, StepKinds DEF Repairing

\* OvershootBounded: without a manual approval no more repairs are started than the
\* limit, the other workers and the faults account for.
THEOREM OvershootIsBounded == Spec => []OvershootBounded
<1>1. Init => TypeInv /\ LimitInv
  <2>1. ASSUME Init
        PROVE  LimitInv
    <3>1. Acting = {} /\ Feeding = {}
      BY <2>1, IdleTyped DEF Init, Acting, Feeding, Claimed
    <3>2. /\ unapproved = receipts /\ receipts \in Nat /\ receipts <= Limit /\ faults = 0
          /\ Limit \in Nat
      BY <2>1, LimitAssumption DEF Init
    <3>3. Cardinality(Workers) \in Nat \ {0}
      BY WorkersCounted
    <3>4. Cardinality(Acting) = 0 /\ Cardinality(Feeding) = 0
      BY <3>1, FS_EmptySet
    <3> QED
      BY <3>2, <3>3, <3>4 DEF LimitInv
  <2> QED
    BY <2>1, TypeInit
<1>2. TypeInv /\ LimitInv /\ [Next]_vars => (TypeInv /\ LimitInv)'
  BY TypeStep, LimitStep
<1>3. TypeInv /\ LimitInv => OvershootBounded
  <2> SUFFICES ASSUME TypeInv, LimitInv
               PROVE  OvershootBounded
    OBVIOUS
  <2>1. Acting \in SUBSET Workers
    BY DEF Acting
  <2>2. /\ Cardinality(Acting) \in Nat /\ unapproved \in Nat /\ faults \in Nat
        /\ Cardinality(Workers) \in Nat /\ Limit \in Nat
    BY <2>1, WorkersCounted, LimitAssumption DEF TypeInv, CountersOK
  <2> QED
    BY <2>2 DEF LimitInv, OvershootBounded
<1> QED
  BY <1>1, <1>2, <1>3, PTL DEF Spec

\* With one scanner, until a process ends or an exception leaves a case, what the
\* scanner's docstring says does hold: one repair for an incident, and without approvals
\* no more than the limit.  Two scanners are what it takes to break it.
THEOREM OneScannerKeepsItsWord ==
  ASSUME Cardinality(Workers) = 1
  PROVE  Spec => [](faults = 0 => OneRepair /\ WithinLimit)
<1>1. TypeOK /\ RepairsBounded /\ OvershootBounded => (faults = 0 => OneRepair /\ WithinLimit)
  BY LimitAssumption DEF TypeOK, RepairsBounded, OvershootBounded, OneRepair, WithinLimit
<1> QED
  BY <1>1, TypeCorrect, RepairsAreBounded, OvershootIsBounded, PTL

=============================================================================
