-------------------------- MODULE ChatBilling_proofs --------------------------
(***************************************************************************)
(* What holds of ChatBilling for any number of handlers and requests, any  *)
(* amounts and bounds, and either form of the receipts table.  The         *)
(* properties are about finished bookings; the invariant below says what   *)
(* is booked at every place a handler can be at.                           *)
(***************************************************************************)
EXTENDS ChatBilling, FiniteSums

Fresh(r) ==
  /\ moved[r] = 0 /\ row[r].settled = Unknown
  /\ Booked(r, "reservation") = {}
  /\ Booked(r, "adjustment") = {}
  /\ Booked(r, "refund") = {}

StillHeld(p) ==
  /\ moved[post[p].req] = -Held(p)
  /\ row[post[p].req].settled = Unknown
  /\ Booked(post[p].req, "adjustment") = {}
  /\ Booked(post[p].req, "refund") = {}

GivenBack(p) ==
  /\ moved[post[p].req] = 0
  /\ row[post[p].req].settled \in {Unknown, 0}

\* What the owner of a request knows of the account at each place.
Account(p) ==
  /\ post[p].place = "reserving" => Fresh(post[p].req)
  /\ post[p].place \in {"marking", "calling", "answered", "settling"} => StillHeld(p)
  /\ post[p].place = "closing" =>
       /\ moved[post[p].req] = -post[p].bill
       /\ row[post[p].req].settled = Unknown
  /\ post[p].place = "violated" =>
       /\ moved[post[p].req] = -post[p].bill
       /\ row[post[p].req].settled = post[p].bill
  /\ post[p].place \in {"closing", "violated"} /\ post[p].bill < Held(p)
       => Booked(post[p].req, "refund") # {}
  /\ post[p].place = "refunding" =>
       \/ StillHeld(p)
       \/ post[p].paid /\ GivenBack(p) /\ Booked(post[p].req, "refund") # {}
  /\ post[p].place = "refunded" => GivenBack(p)

\* Where a handler can be, and what its locals say.
Fits(p) ==
  /\ post[p].owns => /\ post[p].place \notin {"idle", "approving", "creating"}
                     /\ row[post[p].req].status # "none"
  /\ ~post[p].owns =>
       post[p].place \in {"idle", "approving", "creating", "refunding", "refunded",
                          "failing", "over"}
  /\ ~post[p].owns /\ post[p].place = "refunding" => post[p].paid
  /\ ~post[p].owns /\ post[p].place = "refunded" => post[p].req \in unearned
  /\ post[p].used => post[p].seen
  /\ post[p].place \in {"closing", "violated"} /\ ~post[p].seen => post[p].bill = 0

RequestOK(r) ==
  /\ row[r].status = "none" => Fresh(r)
  /\ moved[r] <= 0
  /\ row[r].settled # Unknown => moved[r] = -row[r].settled

ChatInv ==
  /\ TypeOK
  /\ OneOwner
  /\ \A p \in Posts : Fits(p)
  /\ \A r \in Requests \ unearned : RequestOK(r)
  /\ \A p \in Posts : post[p].owns /\ post[p].req \notin unearned => Account(p)


-----------------------------------------------------------------------------
(* Bookings.                                                               *)

\* A booking changes its own request only, by its amount unless it is booked.
LEMMA BookEffect ==
  ASSUME TypeOK, NEW r \in Requests, NEW k \in Kinds, NEW amount \in Int,
         Book(r, k, amount)
  PROVE  /\ credits' \in Nat /\ funded' \in Nat
         /\ receipts' \subseteq [req : Requests, kind : Kinds, amount : Int]
         /\ moved' \in [Requests -> Int]
         /\ \A s \in Requests : s # r => moved'[s] = moved[s]
         /\ \A s \in Requests, j \in Kinds :
              s # r \/ j # k => Booked(s, j)' = Booked(s, j)
         /\ Booked(r, k)' # {}
         /\ Booked(r, k) = {} => moved'[r] = moved[r] + amount
         /\ Booked(r, k) # {} => moved'[r] = moved[r]
<1>1. CASE Booked(r, k) # {}
  <2>1. UNCHANGED <<credits, funded, receipts, moved>>
    BY <1>1 DEF Book
  <2>2. \A s \in Requests, j \in Kinds : Booked(s, j)' = Booked(s, j)
    BY <2>1 DEF Booked
  <2> QED
    BY <1>1, <2>1, <2>2 DEF TypeOK
<1>2. CASE Booked(r, k) = {}
  <2>1. /\ credits' = credits + amount /\ funded' = funded + amount
        /\ receipts' = receipts \cup {Receipt(r, k, amount)}
        /\ moved' = [moved EXCEPT ![r] = @ + amount]
        /\ credits + amount >= 0 /\ funded + amount >= 0
    BY <1>2 DEF Book, Accepted
  <2>2. Receipt(r, k, amount) \in [req : Requests, kind : Kinds, amount : Int]
    BY DEF Receipt
  <2>3. Receipt(r, k, amount) \in Booked(r, k)'
    BY <2>1 DEF Booked, Receipt
  <2>4. \A s \in Requests, j \in Kinds :
          s # r \/ j # k => Booked(s, j)' = Booked(s, j)
    BY <2>1 DEF Booked, Receipt
  <2> QED
    BY <1>2, <2>1, <2>2, <2>3, <2>4 DEF TypeOK
<1> QED
  BY <1>1, <1>2

-----------------------------------------------------------------------------
(* Types.                                                                  *)

LEMMA WriteType ==
  ASSUME TypeOK, NEW r \in Requests, NEW s \in Statuses,
         NEW n \in Nat \cup {Unknown}, Write(r, s, n)
  PROVE  row' \in [Requests -> [status : Statuses, settled : Nat \cup {Unknown}]]
BY DEF TypeOK, Write

LEMMA GoType ==
  ASSUME TypeOK, NEW p \in Posts, NEW place \in Places, Go(p, place)
  PROVE  post' \in [Posts -> Locals]
BY DEF TypeOK, Go, Locals

LEMMA GoOwnsType ==
  ASSUME TypeOK, NEW p \in Posts, NEW place \in Places, NEW x \in BOOLEAN,
         post' = [post EXCEPT ![p].place = place, ![p].owns = x]
  PROVE  post' \in [Posts -> Locals]
<1> DEFINE new == [post[p] EXCEPT !.place = place, !.owns = x]
<1>1. new \in Locals
  BY ZenonT(60) DEF TypeOK, Locals
<1>2. post' = [post EXCEPT ![p] = new]
  BY DEF TypeOK, Locals
<1> QED
  BY <1>1, <1>2 DEF TypeOK

LEMMA GoRecoveredType ==
  ASSUME TypeOK, NEW p \in Posts, NEW place \in Places, NEW x \in BOOLEAN,
         post' = [post EXCEPT ![p].place = place, ![p].recovered = x]
  PROVE  post' \in [Posts -> Locals]
<1> DEFINE new == [post[p] EXCEPT !.place = place, !.recovered = x]
<1>1. new \in Locals
  BY ZenonT(60) DEF TypeOK, Locals
<1>2. post' = [post EXCEPT ![p] = new]
  BY DEF TypeOK, Locals
<1> QED
  BY <1>1, <1>2 DEF TypeOK

LEMMA GoFallbackType ==
  ASSUME TypeOK, NEW p \in Posts, NEW place \in Places, NEW x \in BOOLEAN,
         post' = [post EXCEPT ![p].place = place, ![p].fallback = x]
  PROVE  post' \in [Posts -> Locals]
<1> DEFINE new == [post[p] EXCEPT !.place = place, !.fallback = x]
<1>1. new \in Locals
  BY ZenonT(60) DEF TypeOK, Locals
<1>2. post' = [post EXCEPT ![p] = new]
  BY DEF TypeOK, Locals
<1> QED
  BY <1>1, <1>2 DEF TypeOK

LEMMA GoBillType ==
  ASSUME TypeOK, NEW p \in Posts, NEW place \in Places, NEW x \in Nat,
         post' = [post EXCEPT ![p].place = place, ![p].bill = x]
  PROVE  post' \in [Posts -> Locals]
<1> DEFINE new == [post[p] EXCEPT !.place = place, !.bill = x]
<1>1. new \in Locals
  BY ZenonT(60) DEF TypeOK, Locals
<1>2. post' = [post EXCEPT ![p] = new]
  BY DEF TypeOK, Locals
<1> QED
  BY <1>1, <1>2 DEF TypeOK

LEMMA UnwindType ==
  ASSUME TypeOK, NEW p \in Posts, Unwind(p)
  PROVE  post' \in [Posts -> Locals]
BY GoType DEF Unwind, Places

LEMMA SetStatusType ==
  ASSUME TypeOK, NEW p \in Posts, NEW s \in Statuses, SetStatus(post[p].req, s)
  PROVE  row' \in [Requests -> [status : Statuses, settled : Nat \cup {Unknown}]]
<1>1. post[p].req \in Requests
  BY DEF TypeOK, Locals
<1>2. row[post[p].req].settled \in Nat \cup {Unknown}
  BY <1>1 DEF TypeOK
<1> QED
  BY <1>1, <1>2, WriteType DEF SetStatus

LEMMA TypeStep == TypeOK /\ [Next]_vars => TypeOK'
<1> SUFFICES ASSUME TypeOK, [Next]_vars PROVE TypeOK'
  OBVIOUS
<1> USE ChatAmountsAssumption, ChatBoundsAssumption
    DEF Places
<1>1. ASSUME NEW p \in Posts,
             \/ Arrive(p) \/ Approve(p) \/ ApprovalRaises(p) \/ CreateRaises(p)
             \/ ReservationRefused(p) \/ ReservationRaises(p) \/ MarkRaises(p)
             \/ CallRaises(p) \/ StopCalling(p) \/ RecordRaises(p)
             \/ \E b \in Bills \cup {0} : RefundRestFails(p, b)
             \/ CloseRaises(p) \/ MarkViolatedRaises(p)
             \/ RefundAllFails(p) \/ CloseRefundRaises(p) \/ Die(p)
      PROVE  TypeOK'
  <2>1. /\ (\E place \in Places : Go(p, place)) \/ Unwind(p)
        /\ UNCHANGED <<account, row>>
        /\ UNCHANGED bounds \/ Fault \/ (deaths' = deaths + 1 /\ UNCHANGED faults)
    BY <1>1 DEF Arrive, Approve, ApprovalRaises, CreateRaises, ReservationRefused,
       ReservationRaises, MarkRaises, CallRaises, StopCalling, RecordRaises,
       RefundRestFails, CloseRaises, MarkViolatedRaises, RefundAllFails,
       CloseRefundRaises, Die
  <2>2. post' \in [Posts -> Locals]
    BY <2>1, GoType, UnwindType
  <2> QED
    BY <2>1, <2>2 DEF TypeOK, Fault, account, bounds
<1>2. ASSUME NEW p \in Posts, RecoverTruncated(p) PROVE TypeOK'
  <2>1. post' \in [Posts -> Locals]
    BY <1>2, GoRecoveredType DEF RecoverTruncated
  <2> QED
    BY <1>2, <2>1 DEF RecoverTruncated, TypeOK, Fault, account, bounds
<1>3. ASSUME NEW p \in Posts, TryNextRoute(p) PROVE TypeOK'
  <2>1. post' \in [Posts -> Locals]
    BY <1>3, GoFallbackType DEF TryNextRoute
  <2> QED
    BY <1>3, <2>1 DEF TryNextRoute, TypeOK, Fault, account, bounds
<1>4. ASSUME NEW p \in Posts, SettleExactly(p) PROVE TypeOK'
  <2>1. post' \in [Posts -> Locals]
    <3>1. Held(p) \in Nat
      BY DEF Held
    <3> QED
      BY <1>4, <3>1, GoBillType DEF SettleExactly
  <2> QED
    BY <1>4, <2>1 DEF SettleExactly, TypeOK, Fault, account, bounds
<1>5. ASSUME NEW p \in Posts, CreateRow(p) PROVE TypeOK'
  <2>1. post' \in [Posts -> Locals]
    BY <1>5, GoType, GoOwnsType DEF CreateRow
  <2>2. row' \in [Requests -> [status : Statuses, settled : Nat \cup {Unknown}]]
    BY <1>5 DEF CreateRow, TypeOK, Statuses
  <2> QED
    BY <1>5, <2>1, <2>2 DEF CreateRow, TypeOK, Fault, account, bounds
<1>6. ASSUME NEW p \in Posts, MarkReserved(p) PROVE TypeOK'
  <2>1. post' \in [Posts -> Locals]
    BY <1>6, GoType, GoFallbackType DEF MarkReserved
  <2>2. row' \in [Requests -> [status : Statuses, settled : Nat \cup {Unknown}]]
    BY <1>6, SetStatusType DEF MarkReserved, TypeOK, Statuses
  <2> QED
    BY <1>6, <2>1, <2>2 DEF MarkReserved, TypeOK, Fault, account, bounds
<1>7. ASSUME NEW p \in Posts, NotBillable(p) PROVE TypeOK'
  <2>1. post' \in [Posts -> Locals]
    BY <1>7, GoType DEF NotBillable, SetAside
  <2>2. row' \in [Requests -> [status : Statuses, settled : Nat \cup {Unknown}]]
    BY <1>7, WriteType DEF NotBillable, TypeOK, Statuses, SetAside, Held, Locals
  <2> QED
    BY <1>7, <2>1, <2>2 DEF NotBillable, TypeOK, Fault, account, bounds, SetAside
<1>8. ASSUME NEW p \in Posts, Close(p) PROVE TypeOK'
  <2>1. post' \in [Posts -> Locals]
    BY <1>8, GoType DEF Close
  <2>2. row' \in [Requests -> [status : Statuses, settled : Nat \cup {Unknown}]]
    BY <1>8, WriteType DEF Close, TypeOK, Statuses, Locals
  <2> QED
    BY <1>8, <2>1, <2>2 DEF Close, TypeOK, Fault, account, bounds
<1>9. ASSUME NEW p \in Posts, MarkViolated(p) PROVE TypeOK'
  <2>1. post' \in [Posts -> Locals]
    BY <1>9, GoType DEF MarkViolated
  <2>2. row' \in [Requests -> [status : Statuses, settled : Nat \cup {Unknown}]]
    BY <1>9, SetStatusType DEF MarkViolated, TypeOK, Statuses
  <2> QED
    BY <1>9, <2>1, <2>2 DEF MarkViolated, TypeOK, Fault, account, bounds
<1>10. ASSUME NEW p \in Posts, CloseRefund(p) PROVE TypeOK'
  <2>1. post' \in [Posts -> Locals]
    BY <1>10, GoType DEF CloseRefund
  <2>2. row' \in [Requests -> [status : Statuses, settled : Nat \cup {Unknown}]]
    BY <1>10, WriteType DEF CloseRefund, TypeOK, Statuses, Locals
  <2> QED
    BY <1>10, <2>1, <2>2 DEF CloseRefund, TypeOK, Fault, account, bounds
<1>11. ASSUME NEW p \in Posts, MarkFailed(p) PROVE TypeOK'
  <2>1. post' \in [Posts -> Locals]
    BY <1>11, GoType DEF MarkFailed
  <2>2. row' \in [Requests -> [status : Statuses, settled : Nat \cup {Unknown}]]
    BY <1>11, SetStatusType DEF MarkFailed, TypeOK, Statuses
  <2> QED
    BY <1>11, <2>1, <2>2 DEF MarkFailed, TypeOK, Fault, account, bounds
<1>12. ASSUME NEW p \in Posts, NEW b \in Bills \cup {0}, AdjustFails(p, b) PROVE TypeOK'
  <2>1. post' \in [Posts -> Locals]
    BY <1>12, GoType DEF AdjustFails, SetAside
  <2>2. row' \in [Requests -> [status : Statuses, settled : Nat \cup {Unknown}]]
    BY <1>12, WriteType DEF AdjustFails, TypeOK, Locals, Statuses, SetAside, Held
  <2> QED
    BY <1>12, <2>1, <2>2 DEF AdjustFails, TypeOK, Fault, account, bounds, SetAside
<1>13. ASSUME NEW p \in Posts, NEW answer \in Answers \ {"none"}, NEW used \in BOOLEAN, Call(p, answer, used) PROVE TypeOK'
  <2>1. post' \in [Posts -> Locals]
    BY <1>13 DEF Call, TypeOK, Locals
  <2> QED
    BY <1>13, <2>1 DEF Call, TypeOK, Fault, account, bounds
<1>14. ASSUME NEW p \in Posts, Reserve(p) PROVE TypeOK'
  <2>1. post' \in [Posts -> Locals]
    BY <1>14, GoType DEF Reserve
  <2>2. /\ credits' \in Nat /\ funded' \in Nat
        /\ receipts' \subseteq [req : Requests, kind : Kinds, amount : Int]
        /\ moved' \in [Requests -> Int]
    <3>1. CASE post[p].paid
      BY <1>14, <3>1, BookEffect DEF Reserve, TypeOK, Locals, Kinds
    <3>2. CASE ~post[p].paid
      BY <1>14, <3>2 DEF Reserve, TypeOK, account
    <3> QED
      BY <3>1, <3>2
  <2>3. unearned' \subseteq Requests
    BY <1>14 DEF Reserve, TypeOK, Locals, account
  <2> QED
    BY <1>14, <2>1, <2>2, <2>3 DEF Reserve, TypeOK, Fault, account, bounds
<1>15. ASSUME NEW p \in Posts, RefundAll(p) PROVE TypeOK'
  <2>1. post' \in [Posts -> Locals]
    BY <1>15, GoType DEF RefundAll
  <2>2. /\ credits' \in Nat /\ funded' \in Nat
        /\ receipts' \subseteq [req : Requests, kind : Kinds, amount : Int]
        /\ moved' \in [Requests -> Int]
    <3>1. CASE post[p].paid
      BY <1>15, <3>1, BookEffect DEF RefundAll, TypeOK, Locals, Kinds
    <3>2. CASE ~post[p].paid
      BY <1>15, <3>2 DEF RefundAll, TypeOK, account
    <3> QED
      BY <3>1, <3>2
  <2>3. unearned' \subseteq Requests
    BY <1>15 DEF RefundAll, TypeOK, Locals, account
  <2> QED
    BY <1>15, <2>1, <2>2, <2>3 DEF RefundAll, TypeOK, Fault, account, bounds
<1>16. ASSUME NEW p \in Posts, NEW b \in Bills \cup {0}, Adjust(p, b) PROVE TypeOK'
  <2>1. post' \in [Posts -> Locals]
    <3>1. b \in Nat
      OBVIOUS
    <3> QED
      BY <1>16, <3>1, GoBillType DEF Adjust
  <2>2. /\ credits' \in Nat /\ funded' \in Nat
        /\ receipts' \subseteq [req : Requests, kind : Kinds, amount : Int]
        /\ moved' \in [Requests -> Int]
    BY <1>16, BookEffect DEF Adjust, TypeOK, Locals, Kinds, Held
  <2> QED
    BY <1>16, <2>1, <2>2, SMTT(30) DEF Adjust, TypeOK, Fault, account, bounds
<1>17. ASSUME NEW p \in Posts, NEW b \in Bills \cup {0}, RefundRest(p, b) PROVE TypeOK'
  <2>1. post' \in [Posts -> Locals]
    <3>1. b \in Nat
      OBVIOUS
    <3> QED
      BY <1>17, <3>1, GoBillType DEF RefundRest
  <2>2. /\ credits' \in Nat /\ funded' \in Nat
        /\ receipts' \subseteq [req : Requests, kind : Kinds, amount : Int]
        /\ moved' \in [Requests -> Int]
    BY <1>17, BookEffect DEF RefundRest, TypeOK, Locals, Kinds, Held
  <2> QED
    BY <1>17, <2>1, <2>2 DEF RefundRest, TypeOK, Fault, account, bounds
<1>18. CASE UNCHANGED vars
  BY <1>18 DEF vars, TypeOK, Fault, account, bounds
<1> QED
  BY <1>1, <1>2, <1>3, <1>4, <1>5, <1>6, <1>7, <1>8, <1>9, <1>10, <1>11,
     <1>12, <1>13, <1>14, <1>15, <1>16, <1>17, <1>18
     DEF Next, Begin, Attempt, SettleUsage, GiveUp

-----------------------------------------------------------------------------
(* One handler moves.                                                      *)

Others(p) == \A q \in Posts : q # p => post'[q] = post[q]
Kept(p) == /\ post'[p].req = post[p].req /\ post'[p].paid = post[p].paid
           /\ post'[p].owns = post[p].owns

LEMMA GoEffect ==
  ASSUME TypeOK, NEW p \in Posts, NEW place, Go(p, place)
  PROVE  /\ Others(p) /\ Kept(p)
         /\ post'[p].place = place
         /\ post'[p].used = post[p].used /\ post'[p].seen = post[p].seen
         /\ post'[p].bill = post[p].bill
BY DEF TypeOK, Go, Others, Kept, Locals

LEMMA UnwindEffect ==
  ASSUME TypeOK, NEW p \in Posts, Unwind(p)
  PROVE  /\ Others(p) /\ Kept(p)
         /\ post'[p].place = IF post[p].paid /\ ~post[p].seen
                             THEN "refunding" ELSE "failing"
         /\ post'[p].used = post[p].used /\ post'[p].seen = post[p].seen
         /\ post'[p].bill = post[p].bill
BY GoEffect DEF Unwind

LEMMA BillEffect ==
  ASSUME TypeOK, NEW p \in Posts, NEW n,
         post' = [post EXCEPT ![p].place = "closing", ![p].bill = n]
  PROVE  /\ Others(p) /\ Kept(p)
         /\ post'[p].place = "closing" /\ post'[p].bill = n
         /\ post'[p].used = post[p].used /\ post'[p].seen = post[p].seen
BY DEF TypeOK, Others, Kept, Locals

\* The books of one request.
SameBooks(r) ==
  /\ row'[r].settled = row[r].settled /\ moved'[r] = moved[r]
  /\ \A k \in Kinds : Booked(r, k)' = Booked(r, k)

LEMMA SameAccount ==
  ASSUME NEW p \in Posts, SameBooks(post[p].req), Kept(p)
  PROVE  /\ Fresh(post[p].req)' <=> Fresh(post[p].req)
         /\ StillHeld(p)' <=> StillHeld(p)
         /\ GivenBack(p)' <=> GivenBack(p)
         /\ Held(p)' = Held(p)
         /\ Booked(post[p].req, "refund")' = Booked(post[p].req, "refund")
<1>1. /\ post'[p].req = post[p].req /\ post'[p].paid = post[p].paid
      /\ row'[post[p].req].settled = row[post[p].req].settled
      /\ moved'[post[p].req] = moved[post[p].req]
  BY DEF SameBooks, Kept
<1>2. /\ Booked(post[p].req, "reservation")' = Booked(post[p].req, "reservation")
      /\ Booked(post[p].req, "adjustment")' = Booked(post[p].req, "adjustment")
      /\ Booked(post[p].req, "refund")' = Booked(post[p].req, "refund")
  BY <1>1 DEF SameBooks, Kinds
<1>3. Held(p)' = Held(p)
  BY <1>1 DEF Held
<1>4. Fresh(post[p].req)' <=> Fresh(post[p].req)
  BY <1>1, <1>2 DEF Fresh
<1>5. StillHeld(p)' <=> StillHeld(p)
  BY <1>1, <1>2, <1>3 DEF StillHeld
<1>6. GivenBack(p)' <=> GivenBack(p)
  BY <1>1 DEF GivenBack
<1> QED
  BY <1>2, <1>3, <1>4, <1>5, <1>6

\* What a step of one handler has to show of its own request.
LEMMA OneHandler ==
  ASSUME ChatInv, TypeOK', NEW p \in Posts, Others(p),
         post'[p].req = post[p].req,
         \A r \in Requests : r # post[p].req =>
           SameBooks(r) /\ row'[r] = row[r] /\ (r \in unearned' <=> r \in unearned),
         unearned \subseteq unearned',
         row[post[p].req].status # "none" => row'[post[p].req].status # "none",
         post'[p].owns => post[p].owns \/ row[post[p].req].status = "none",
         Fits(p)',
         post[p].req \notin unearned' => RequestOK(post[p].req)',
         post'[p].owns /\ post[p].req \notin unearned' => Account(p)',
         \/ post'[p].owns
         \/ post[p].req \in unearned'
         \/ SameBooks(post[p].req)
  PROVE  ChatInv'
<1> \A q \in Posts : post[q].req \in Requests
  BY DEF ChatInv, TypeOK, Locals
<1>1. OneOwner'
  BY DEF ChatInv, OneOwner, Others, Fits
<1>2. ASSUME NEW q \in Posts PROVE Fits(q)'
  <2>1. CASE q # p
    <3>1. post'[q] = post[q] /\ Fits(q)
      BY <2>1 DEF Others, ChatInv
    <3>2. row[post[q].req].status # "none" => row'[post[q].req].status # "none"
      OBVIOUS
    <3> QED
      BY <3>1, <3>2 DEF Fits
  <2> QED
    BY <2>1
<1>3. ASSUME NEW r \in Requests, r \notin unearned' PROVE RequestOK(r)'
  <2>1. CASE r # post[p].req
    <3>1. SameBooks(r) /\ row'[r] = row[r] /\ RequestOK(r)
      BY <1>3, <2>1 DEF ChatInv
    <3>2. Fresh(r)' <=> Fresh(r)
      BY <3>1 DEF Fresh, SameBooks, Kinds
    <3> QED
      BY <3>1, <3>2 DEF RequestOK, SameBooks
  <2> QED
    BY <1>3, <2>1
<1>4. ASSUME NEW q \in Posts, post'[q].owns, post'[q].req \notin unearned'
      PROVE  Account(q)'
  <2>1. CASE q # p
    <3>1. post'[q] = post[q] /\ post[q].owns /\ post[q].req \notin unearned
      BY <1>4, <2>1 DEF Others
    <3>2. Account(q)
      BY <3>1 DEF ChatInv
    <3>3. SameBooks(post[q].req)
      BY <1>1, <1>4, <2>1, <3>1 DEF OneOwner
    <3>4. Kept(q)
      BY <3>1 DEF Kept
    <3>5. /\ moved'[post[q].req] = moved[post[q].req]
          /\ row'[post[q].req].settled = row[post[q].req].settled
      BY <3>3 DEF SameBooks
    <3> QED
      BY <3>1, <3>2, <3>3, <3>4, <3>5, SameAccount DEF Account
  <2> QED
    BY <1>4, <2>1
<1> QED
  BY <1>1, <1>2, <1>3, <1>4 DEF ChatInv

LEMMA QuietStep ==
  ASSUME ChatInv, TypeOK', NEW p \in Posts, UNCHANGED <<account, row>>,
         Others(p), Kept(p), Fits(p)',
         post[p].owns /\ post[p].req \notin unearned => Account(p)'
  PROVE  ChatInv'
<1>1. /\ moved' = moved /\ receipts' = receipts /\ unearned' = unearned /\ row' = row
  BY DEF account
<1>2. \A r \in Requests : SameBooks(r)
  BY <1>1 DEF SameBooks, Booked
<1>3. post[p].req \in Requests /\ post'[p].req = post[p].req
  BY DEF ChatInv, TypeOK, Locals, Kept
<1>4. Fresh(post[p].req)' <=> Fresh(post[p].req)
  BY <1>2, <1>3, SameAccount
<1>5. post[p].req \notin unearned => RequestOK(post[p].req)
  BY <1>3 DEF ChatInv
<1>6. post[p].req \notin unearned' => RequestOK(post[p].req)'
  BY <1>1, <1>3, <1>4, <1>5 DEF RequestOK
<1> QED
  BY <1>1, <1>2, <1>3, <1>6, OneHandler DEF Kept

\* A step that books nothing and writes no row finds the books as they were.
LEMMA QuietBooks ==
  ASSUME ChatInv, NEW p \in Posts, UNCHANGED <<account, row>>, Kept(p)
  PROVE  /\ SameBooks(post[p].req)
         /\ row' = row /\ moved' = moved /\ unearned' = unearned
<1>1. moved' = moved /\ receipts' = receipts /\ unearned' = unearned /\ row' = row
  BY DEF account
<1> QED
  BY <1>1 DEF SameBooks, Booked, Kept

SameUsage(p) == post'[p].used = post[p].used /\ post'[p].seen = post[p].seen

\* A handler may give up anywhere.
LEMMA QuietEnd ==
  ASSUME ChatInv, TypeOK', NEW p \in Posts, UNCHANGED <<account, row>>,
         Others(p), Kept(p), SameUsage(p), post'[p].place \in {"failing", "over"}
  PROVE  ChatInv'
<1>1. row' = row /\ Fits(p)
  BY DEF ChatInv
<1>2. Fits(p)'
  BY <1>1 DEF Fits, Kept, SameUsage
<1>3. Account(p)'
  BY DEF Account
<1> QED
  BY <1>2, <1>3, QuietStep

\* A handler that still holds its reservation may go on calling.
LEMMA QuietCalling ==
  ASSUME ChatInv, TypeOK', NEW p \in Posts, UNCHANGED <<account, row>>,
         Others(p), Kept(p), post'[p].used => post'[p].seen,
         post[p].place \in {"marking", "calling", "answered"},
         post'[p].place \in {"calling", "answered", "settling"}
  PROVE  ChatInv'
<1>1. row' = row /\ Fits(p)
  BY DEF ChatInv
<1>2. Fits(p)'
  BY <1>1 DEF Fits, Kept
<1>3. ASSUME post[p].owns, post[p].req \notin unearned PROVE Account(p)'
  <2>1. StillHeld(p)
    BY <1>3 DEF ChatInv, Account
  <2>2. StillHeld(p)'
    BY <2>1, QuietBooks, SameAccount
  <2> QED
    BY <2>2 DEF Account
<1> QED
  BY <1>2, <1>3, QuietStep

\* The refund path is taken by an owner whose reservation is held or given
\* back, and otherwise by a handler that is after a paid route.
LEMMA QuietRefunding ==
  ASSUME ChatInv, TypeOK', NEW p \in Posts, UNCHANGED <<account, row>>,
         Others(p), Kept(p), SameUsage(p), post'[p].place = "refunding",
         post[p].owns \/ post[p].paid,
         post[p].owns /\ post[p].req \notin unearned =>
           \/ StillHeld(p)
           \/ post[p].paid /\ GivenBack(p) /\ Booked(post[p].req, "refund") # {}
  PROVE  ChatInv'
<1>1. row' = row /\ Fits(p)
  BY DEF ChatInv
<1>2. Fits(p)'
  BY <1>1 DEF Fits, Kept, SameUsage
<1>3. ASSUME post[p].owns, post[p].req \notin unearned PROVE Account(p)'
  <2>1. /\ StillHeld(p)' <=> StillHeld(p)
        /\ GivenBack(p)' <=> GivenBack(p)
        /\ Booked(post[p].req, "refund")' = Booked(post[p].req, "refund")
        /\ post'[p].req = post[p].req /\ post'[p].paid = post[p].paid
    BY QuietBooks, SameAccount DEF Kept
  <2> QED
    BY <1>3, <2>1 DEF Account
<1> QED
  BY <1>2, <1>3, QuietStep

\* What an owner at a place may rely on.
LEMMA OwnerAt ==
  ASSUME ChatInv, NEW p \in Posts
  PROVE  /\ post[p].req \in Requests /\ post[p].owns \in BOOLEAN
         /\ post[p].paid \in BOOLEAN /\ post[p].bill \in Nat
         /\ Held(p) \in Nat /\ (post[p].paid => Held(p) = Cost /\ Cost > 0)
         /\ post[p].place \in {"reserving", "marking", "calling", "answered",
                               "settling", "closing", "violated"} => post[p].owns
         /\ post[p].owns /\ post[p].req \notin unearned => Account(p)
         /\ post[p].owns => row[post[p].req].status # "none"
<1>1. Fits(p) /\ post[p] \in Locals
  BY DEF ChatInv, TypeOK
<1>2. post[p].req \in Requests /\ post[p].owns \in BOOLEAN
      /\ post[p].paid \in BOOLEAN /\ post[p].bill \in Nat
  BY <1>1 DEF Locals
<1>3. Held(p) \in Nat /\ (post[p].paid => Held(p) = Cost /\ Cost > 0)
  BY <1>2, ChatAmountsAssumption DEF Held
<1> QED
  BY <1>1, <1>2, <1>3 DEF Fits, ChatInv

-----------------------------------------------------------------------------
(* The steps that book nothing and write no row.                           *)

LEMMA QuietBegin ==
  ASSUME ChatInv, TypeOK', NEW p \in Posts,
         \/ Arrive(p) \/ Approve(p) \/ ApprovalRaises(p) \/ CreateRaises(p)
         \/ ReservationRefused(p) \/ ReservationRaises(p) \/ MarkRaises(p)
  PROVE  ChatInv'
<1> USE DEF ChatInv
<1>1. CASE Arrive(p)
  <2>1. /\ Others(p) /\ Kept(p) /\ SameUsage(p)
        /\ post'[p].place \in {"approving", "creating"}
        /\ At(p, "idle") /\ UNCHANGED <<account, row>>
    BY <1>1, GoEffect DEF Arrive, SameUsage
  <2>2. Fits(p)'
    BY <2>1 DEF Fits, Kept, SameUsage, At
  <2>3. Account(p)'
    BY <2>1 DEF Account
  <2> QED
    BY <2>1, <2>2, <2>3, QuietStep
<1>2. CASE Approve(p)
  <2>1. /\ Others(p) /\ Kept(p) /\ SameUsage(p)
        /\ post'[p].place \in {"creating", "over"}
        /\ At(p, "approving") /\ UNCHANGED <<account, row>>
    BY <1>2, GoEffect DEF Approve, SameUsage
  <2>2. Fits(p)'
    BY <2>1 DEF Fits, Kept, SameUsage, At
  <2>3. Account(p)'
    BY <2>1 DEF Account
  <2> QED
    BY <2>1, <2>2, <2>3, QuietStep
<1>3. CASE ApprovalRaises(p)
  <2>1. /\ Others(p) /\ Kept(p) /\ SameUsage(p)
        /\ post'[p].place = IF post[p].paid /\ ~post[p].seen
                            THEN "refunding" ELSE "failing"
        /\ At(p, "approving") /\ UNCHANGED <<account, row>>
    BY <1>3, UnwindEffect DEF ApprovalRaises, SameUsage
  <2>2. ~post[p].owns
    BY <2>1 DEF Fits, At
  <2> QED
    BY <2>1, <2>2, QuietEnd, QuietRefunding
<1>4. CASE CreateRaises(p) \/ ReservationRefused(p) \/ ReservationRaises(p)
  <2>1. /\ Others(p) /\ Kept(p) /\ SameUsage(p)
        /\ post'[p].place \in {"failing", "over"} /\ UNCHANGED <<account, row>>
    BY <1>4, GoEffect DEF CreateRaises, ReservationRefused, ReservationRaises, SameUsage
  <2> QED
    BY <2>1, QuietEnd
<1>5. CASE MarkRaises(p)
  <2>1. /\ Others(p) /\ Kept(p) /\ SameUsage(p)
        /\ post'[p].place = "refunding"
        /\ At(p, "marking") /\ UNCHANGED <<account, row>>
    BY <1>5, GoEffect DEF MarkRaises, SameUsage
  <2>2. post[p].owns /\ (post[p].req \notin unearned => StillHeld(p))
    BY <2>1, OwnerAt DEF At, Account
  <2> QED
    BY <2>1, <2>2, QuietRefunding
<1> QED
  BY <1>1, <1>2, <1>3, <1>4, <1>5

LEMMA QuietAttempt ==
  ASSUME ChatInv, TypeOK', NEW p \in Posts, Attempt(p)
  PROVE  ChatInv'
<1> USE DEF ChatInv
<1>1. ASSUME NEW answer \in Answers \ {"none"}, NEW used \in BOOLEAN,
             Call(p, answer, used)
      PROVE  ChatInv'
  <2>1. /\ Others(p) /\ Kept(p) /\ post'[p].place = "answered"
        /\ post'[p].used => post'[p].seen
    BY <1>1 DEF Call, TypeOK, Locals, Others, Kept
  <2> QED
    BY <1>1, <2>1, QuietCalling DEF Call, At
<1>2. CASE CallRaises(p)
  <2>1. /\ Others(p) /\ Kept(p) /\ SameUsage(p)
        /\ post'[p].place = IF post[p].paid /\ ~post[p].seen
                            THEN "refunding" ELSE "failing"
        /\ At(p, "calling") /\ UNCHANGED <<account, row>>
    BY <1>2, UnwindEffect DEF CallRaises, SameUsage
  <2>2. post[p].owns /\ (post[p].req \notin unearned => StillHeld(p))
    BY <2>1, OwnerAt, SMTT(30) DEF At, Account
  <2> QED
    BY <2>1, <2>2, QuietEnd, QuietRefunding
<1>3. CASE RecoverTruncated(p)
  <2>1. /\ Others(p) /\ Kept(p) /\ SameUsage(p) /\ post'[p].place = "calling"
    BY <1>3 DEF RecoverTruncated, TypeOK, Locals, Others, Kept, SameUsage
  <2>2. Fits(p)
    OBVIOUS
  <2> QED
    BY <1>3, <2>1, <2>2, QuietCalling DEF RecoverTruncated, At, SameUsage, Fits
<1>4. CASE TryNextRoute(p)
  <2>1. /\ Others(p) /\ Kept(p) /\ SameUsage(p) /\ post'[p].place = "calling"
    BY <1>4 DEF TryNextRoute, TypeOK, Locals, Others, Kept, SameUsage
  <2>2. Fits(p)
    OBVIOUS
  <2> QED
    BY <1>4, <2>1, <2>2, QuietCalling DEF TryNextRoute, At, SameUsage, Fits
<1>5. CASE StopCalling(p) \/ RecordRaises(p)
  <2>1. /\ Others(p) /\ Kept(p) /\ SameUsage(p)
        /\ post'[p].place \in {"refunding", "settling", "failing"}
        /\ At(p, "answered") /\ UNCHANGED <<account, row>>
    BY <1>5, GoEffect DEF StopCalling, RecordRaises, SameUsage
  <2>2. post[p].owns /\ (post[p].req \notin unearned => StillHeld(p))
    BY <2>1, OwnerAt DEF At, Account
  <2>3. post'[p].used => post'[p].seen
    BY <2>1 DEF Fits, SameUsage
  <2> QED
    BY <2>1, <2>2, <2>3, QuietEnd, QuietRefunding, QuietCalling DEF At
<1> QED
  BY <1>1, <1>2, <1>3, <1>4, <1>5 DEF Attempt

LEMMA QuietEnding ==
  ASSUME ChatInv, TypeOK', NEW p \in Posts,
         \/ SettleExactly(p) \/ \E b \in Bills \cup {0} : RefundRestFails(p, b)
         \/ CloseRaises(p) \/ MarkViolatedRaises(p)
         \/ RefundAllFails(p) \/ CloseRefundRaises(p) \/ Die(p)
  PROVE  ChatInv'
<1> USE DEF ChatInv
<1>1. CASE SettleExactly(p)
  <2>1. /\ Others(p) /\ Kept(p) /\ SameUsage(p)
        /\ post'[p].place = "closing" /\ post'[p].bill = Held(p)
        /\ At(p, "settling") /\ UNCHANGED <<account, row>>
        /\ Held(p) \in PossibleBills(p)
    BY <1>1, BillEffect DEF SettleExactly, SameUsage
  <2>2. post[p].owns /\ (post[p].req \notin unearned => StillHeld(p))
    BY <2>1, OwnerAt DEF At, Account
  <2>3. ~post[p].seen => Held(p) = 0
    BY <2>1, OwnerAt DEF PossibleBills, Fits
  <2>4. Fits(p)'
    BY <2>1, <2>2, <2>3 DEF Fits, Kept, SameUsage
  <2>5. ASSUME post[p].req \notin unearned PROVE Account(p)'
    <3>1. StillHeld(p)' /\ Held(p)' = Held(p)
      BY <2>1, <2>2, <2>5, QuietBooks, SameAccount
    <3>2. ~(post'[p].bill < Held(p)')
      BY <2>1, <3>1, OwnerAt
    <3> QED
      BY <2>1, <3>1, <3>2 DEF Account, StillHeld
  <2> QED
    BY <2>1, <2>4, <2>5, QuietStep
<1>2. CASE \/ \E b \in Bills \cup {0} : RefundRestFails(p, b)
           \/ CloseRaises(p) \/ RefundAllFails(p) \/ CloseRefundRaises(p) \/ Die(p)
  <2>1. /\ Others(p) /\ Kept(p) /\ SameUsage(p)
        /\ post'[p].place \in {"failing", "over"} /\ UNCHANGED <<account, row>>
    BY <1>2, GoEffect DEF RefundRestFails, CloseRaises, RefundAllFails,
       CloseRefundRaises, Die, SameUsage
  <2> QED
    BY <2>1, QuietEnd
<1>3. CASE MarkViolatedRaises(p)
  <2>1. /\ Others(p) /\ Kept(p) /\ SameUsage(p)
        /\ post'[p].place = IF post[p].paid /\ ~post[p].seen
                            THEN "refunding" ELSE "failing"
        /\ At(p, "violated") /\ UNCHANGED <<account, row>>
    BY <1>3, UnwindEffect DEF MarkViolatedRaises, SameUsage
  <2>2. post[p].owns
    BY <2>1, OwnerAt DEF At
  <2>3. ASSUME post[p].req \notin unearned, post[p].paid, ~post[p].seen
        PROVE  GivenBack(p) /\ Booked(post[p].req, "refund") # {}
    <3>1. Account(p) /\ post[p].bill = 0 /\ Held(p) = Cost /\ Cost > 0 /\ Cost \in Nat
      BY <2>1, <2>2, <2>3, OwnerAt, ChatAmountsAssumption DEF Fits, At
    <3> QED
      BY <2>1, <3>1 DEF Account, At, GivenBack
  <2> QED
    BY <2>1, <2>2, <2>3, QuietEnd, QuietRefunding
<1> QED
  BY <1>1, <1>2, <1>3

-----------------------------------------------------------------------------
(* The steps that write the row.                                           *)

\* An update writes the row of its own request, and only if there is one.
LEMMA WriteEffect ==
  ASSUME TypeOK, NEW r \in Requests, NEW s, NEW n, Write(r, s, n)
  PROVE  /\ \A q \in Requests : q # r => row'[q] = row[q]
         /\ row[r].status = "none" => row'[r] = row[r]
         /\ row[r].status # "none" => row'[r].status = s /\ row'[r].settled = n
BY DEF TypeOK, Write

\* What a step that writes the row of its own request has to show.
LEMMA RowStep ==
  ASSUME ChatInv, TypeOK', NEW p \in Posts, UNCHANGED account,
         Others(p), Kept(p), SameUsage(p),
         \A q \in Requests : q # post[p].req => row'[q] = row[q],
         row[post[p].req].status # "none" <=> row'[post[p].req].status # "none",
         post'[p].place \in {"calling", "refunding", "violated", "failing", "over"},
         ~post[p].owns => post'[p].place = "over",
         post'[p].place = "violated" => (~post[p].seen => post'[p].bill = 0),
         post[p].req \notin unearned =>
           \/ row'[post[p].req].settled = row[post[p].req].settled
           \/ /\ post[p].owns
              /\ moved[post[p].req] = -row'[post[p].req].settled,
         post[p].owns /\ post[p].req \notin unearned => Account(p)'
  PROVE  ChatInv'
<1>1. /\ moved' = moved /\ receipts' = receipts /\ unearned' = unearned
  BY DEF account
<1>2. \A r \in Requests, k \in Kinds : Booked(r, k)' = Booked(r, k)
  BY <1>1 DEF Booked
<1>3. post[p].req \in Requests /\ post'[p].req = post[p].req
  BY OwnerAt DEF Kept
<1>4. \A r \in Requests : r # post[p].req => SameBooks(r)
  BY <1>1, <1>2 DEF SameBooks
<1>5. Fits(p)'
  BY DEF ChatInv, Fits, Kept, SameUsage
<1>6. ASSUME post[p].req \notin unearned PROVE RequestOK(post[p].req)'
  <2>1. RequestOK(post[p].req)
    BY <1>3, <1>6 DEF ChatInv
  <2>2. CASE row'[post[p].req].settled = row[post[p].req].settled
    <3>1. Fresh(post[p].req)' <=> Fresh(post[p].req)
      BY <1>1, <1>2, <1>3, <2>2 DEF Fresh, Kinds
    <3> QED
      BY <1>1, <1>3, <2>1, <2>2, <3>1 DEF RequestOK
  <2>3. CASE /\ post[p].owns
             /\ moved[post[p].req] = -row'[post[p].req].settled
    <3>1. row[post[p].req].status # "none"
      BY <2>3, OwnerAt
    <3> QED
      BY <1>1, <1>3, <2>1, <2>3, <3>1 DEF RequestOK
  <2> QED
    BY <1>6, <2>2, <2>3
<1>7. post'[p].owns \/ post[p].req \in unearned' \/ SameBooks(post[p].req)
  <2> SUFFICES ASSUME ~post[p].owns, post[p].req \notin unearned
               PROVE  SameBooks(post[p].req)
    BY <1>1 DEF Kept
  <2>1. row'[post[p].req].settled = row[post[p].req].settled
    OBVIOUS
  <2> QED
    BY <1>1, <1>2, <1>3, <2>1 DEF SameBooks
<1> QED
  BY <1>1, <1>3, <1>4, <1>5, <1>6, <1>7, OneHandler DEF Kept

LEMMA CreateRowStep ==
  ASSUME ChatInv, TypeOK', NEW p \in Posts, CreateRow(p)
  PROVE  ChatInv'
<1> USE DEF ChatInv
<1>1. CASE row[post[p].req].status # "none"
  <2>1. Others(p) /\ Kept(p) /\ SameUsage(p) /\ post'[p].place = "over"
    BY <1>1, GoEffect DEF CreateRow, SameUsage
  <2> QED
    BY <1>1, <2>1, QuietEnd DEF CreateRow
<1>2. CASE row[post[p].req].status = "none"
  <2>1. /\ Others(p) /\ SameUsage(p) /\ post'[p].place = "reserving"
        /\ post'[p].owns /\ post'[p].req = post[p].req
    BY <1>2 DEF CreateRow, TypeOK, Locals, Others, SameUsage
  <2>2. post[p].req \in Requests
    BY OwnerAt
  <2>3. /\ row' = [row EXCEPT ![post[p].req].status = "created"]
        /\ moved' = moved /\ receipts' = receipts /\ unearned' = unearned
    BY <1>2 DEF CreateRow, account
  <2>4. /\ row'[post[p].req].status = "created"
        /\ row'[post[p].req].settled = row[post[p].req].settled
        /\ \A r \in Requests : r # post[p].req => row'[r] = row[r]
    BY <2>2, <2>3 DEF TypeOK
  <2>5. \A r \in Requests, k \in Kinds : Booked(r, k)' = Booked(r, k)
    BY <2>3 DEF Booked
  <2>6. \A r \in Requests : r # post[p].req => SameBooks(r)
    BY <2>3, <2>4, <2>5 DEF SameBooks
  <2>7. Fits(p)'
    BY <2>1, <2>4 DEF Fits, SameUsage
  <2>8. ASSUME post[p].req \notin unearned PROVE Fresh(post[p].req)'
    <3>1. Fresh(post[p].req)
      BY <1>2, <2>2, <2>8 DEF RequestOK
    <3> QED
      BY <2>1, <2>2, <2>3, <2>4, <2>5, <3>1 DEF Fresh, Kinds
  <2>9. ASSUME post[p].req \notin unearned PROVE RequestOK(post[p].req)'
    <3>1. moved'[post[p].req] = 0 /\ row'[post[p].req].settled = Unknown
      BY <2>1, <2>8, <2>9 DEF Fresh
    <3> QED
      BY <2>1, <2>4, <3>1 DEF RequestOK
  <2>10. ASSUME post[p].req \notin unearned PROVE Account(p)'
    BY <2>1, <2>8, <2>10 DEF Account
  <2> QED
    BY <1>2, <2>1, <2>2, <2>3, <2>4, <2>6, <2>7, <2>9, <2>10, OneHandler
<1> QED
  BY <1>1, <1>2

LEMMA MarkReservedStep ==
  ASSUME ChatInv, TypeOK', NEW p \in Posts, MarkReserved(p)
  PROVE  ChatInv'
<1> USE DEF ChatInv
<1>1. /\ Others(p) /\ Kept(p) /\ SameUsage(p)
      /\ post'[p].place \in {"calling", "refunding"}
  <2>1. CASE Go(p, "calling") \/ Go(p, "refunding")
    BY <2>1, GoEffect DEF SameUsage
  <2>2. CASE post' = [post EXCEPT ![p].place = "calling", ![p].fallback = TRUE]
    BY <2>2 DEF TypeOK, Locals, Others, Kept, SameUsage
  <2> QED
    BY <2>1, <2>2 DEF MarkReserved
<1>2. UNCHANGED account /\ At(p, "marking")
  BY DEF MarkReserved
<1>3. /\ post[p].owns /\ row[post[p].req].status # "none" /\ post[p].req \in Requests
      /\ post[p].req \notin unearned => StillHeld(p)
  BY <1>2, OwnerAt DEF At, Account
<1>4. /\ \A q \in Requests : q # post[p].req => row'[q] = row[q]
      /\ row'[post[p].req].status # "none"
      /\ row'[post[p].req].settled = row[post[p].req].settled
  BY <1>3, WriteEffect DEF MarkReserved, SetStatus
<1>5. ASSUME post[p].req \notin unearned PROVE Account(p)'
  <2>1. SameBooks(post[p].req)
    BY <1>1, <1>2, <1>4 DEF SameBooks, Booked, account, Kept
  <2>2. StillHeld(p)'
    BY <1>1, <1>3, <1>5, <2>1, SameAccount
  <2> QED
    BY <1>1, <2>2 DEF Account
<1> QED
  BY <1>1, <1>2, <1>3, <1>4, <1>5, RowStep

LEMMA SetAsideStep ==
  ASSUME ChatInv, TypeOK', NEW p \in Posts,
         NotBillable(p) \/ \E b \in Bills \cup {0} : AdjustFails(p, b)
  PROVE  ChatInv'
<1> USE DEF ChatInv
<1>1. /\ Write(post[p].req, "reconciliation_required", Held(p)) \/ UNCHANGED row
      /\ Go(p, "failing") /\ UNCHANGED account /\ At(p, "settling")
  BY DEF NotBillable, AdjustFails, SetAside
<1>2. Others(p) /\ Kept(p) /\ SameUsage(p) /\ post'[p].place = "failing"
  BY <1>1, GoEffect DEF SameUsage
<1>3. CASE UNCHANGED row
  BY <1>1, <1>2, <1>3, QuietEnd
<1>4. CASE Write(post[p].req, "reconciliation_required", Held(p))
  <2>1. /\ post[p].owns /\ row[post[p].req].status # "none" /\ post[p].req \in Requests
        /\ post[p].req \notin unearned => StillHeld(p)
        /\ Held(p) \in Nat
    BY <1>1, OwnerAt DEF At, Account
  <2>2. /\ \A q \in Requests : q # post[p].req => row'[q] = row[q]
        /\ row'[post[p].req].status # "none"
        /\ row'[post[p].req].settled = Held(p)
    BY <1>4, <2>1, WriteEffect
  <2>3. Account(p)'
    BY <1>2 DEF Account
  <2> QED
    BY <1>1, <1>2, <2>1, <2>2, <2>3, RowStep DEF StillHeld
<1> QED
  BY <1>1, <1>3, <1>4

LEMMA CloseStep ==
  ASSUME ChatInv, TypeOK', NEW p \in Posts, Close(p)
  PROVE  ChatInv'
<1> USE DEF ChatInv
<1>1. /\ Others(p) /\ Kept(p) /\ SameUsage(p)
      /\ post'[p].place \in {"violated", "over"} /\ post'[p].bill = post[p].bill
      /\ UNCHANGED account /\ At(p, "closing")
  BY GoEffect DEF Close, SameUsage
<1>2. /\ post[p].owns /\ row[post[p].req].status # "none" /\ post[p].req \in Requests
      /\ post[p].req \notin unearned => Account(p)
      /\ ~post[p].seen => post[p].bill = 0
  BY <1>1, OwnerAt DEF At, Fits
<1>3. /\ \A q \in Requests : q # post[p].req => row'[q] = row[q]
      /\ row'[post[p].req].status # "none"
      /\ row'[post[p].req].settled = post[p].bill
  BY <1>2, WriteEffect DEF Close
<1>4. ASSUME post[p].req \notin unearned
      PROVE  Account(p)' /\ moved[post[p].req] = -row'[post[p].req].settled
  <2>1. /\ moved[post[p].req] = -post[p].bill
        /\ post[p].bill < Held(p) => Booked(post[p].req, "refund") # {}
    BY <1>1, <1>2, <1>4 DEF Account, At
  <2>2. /\ moved' = moved /\ Held(p)' = Held(p) /\ post'[p].req = post[p].req
        /\ Booked(post[p].req, "refund")' = Booked(post[p].req, "refund")
    BY <1>1 DEF account, Kept, Held, Booked
  <2> QED
    BY <1>1, <1>3, <2>1, <2>2 DEF Account
<1> QED
  BY <1>1, <1>2, <1>3, <1>4, RowStep

LEMMA LastRowStep ==
  ASSUME ChatInv, TypeOK', NEW p \in Posts,
         MarkViolated(p) \/ CloseRefund(p) \/ MarkFailed(p)
  PROVE  ChatInv'
<1> USE DEF ChatInv
<1>1. /\ Go(p, "over") /\ UNCHANGED account
  BY DEF MarkViolated, CloseRefund, MarkFailed
<1>2. Others(p) /\ Kept(p) /\ SameUsage(p) /\ post'[p].place = "over"
  BY <1>1, GoEffect DEF SameUsage
<1>3. Account(p)'
  BY <1>2 DEF Account
<1>4. post[p].req \in Requests
  BY OwnerAt
<1>5. CASE UNCHANGED row
  BY <1>1, <1>2, <1>5, QuietEnd
<1>6. CASE SetStatus(post[p].req, "failed")
  <2>1. /\ \A q \in Requests : q # post[p].req => row'[q] = row[q]
        /\ row[post[p].req].status # "none" <=> row'[post[p].req].status # "none"
        /\ row'[post[p].req].settled = row[post[p].req].settled
    BY <1>4, <1>6, WriteEffect DEF SetStatus
  <2> QED
    BY <1>1, <1>2, <1>3, <2>1, RowStep
<1>7. CASE CloseRefund(p)
  <2>1. /\ \A q \in Requests : q # post[p].req => row'[q] = row[q]
        /\ row[post[p].req].status # "none" <=> row'[post[p].req].status # "none"
        /\ row'[post[p].req].settled \in {0, row[post[p].req].settled}
    BY <1>4, <1>7, WriteEffect DEF CloseRefund
  <2>2. post[p].req \notin unearned => post[p].owns /\ moved[post[p].req] = 0
    BY <1>7, OwnerAt DEF CloseRefund, At, Fits, Account, GivenBack
  <2> QED
    BY <1>1, <1>2, <1>3, <2>1, <2>2, RowStep
<1> QED
  BY <1>5, <1>6, <1>7 DEF MarkViolated, MarkFailed

-----------------------------------------------------------------------------
(* The steps that book.                                                    *)

\* What a booking has to show of its own request.
LEMMA BookStep ==
  ASSUME ChatInv, TypeOK', NEW p \in Posts, UNCHANGED row,
         Others(p), Kept(p), Fits(p)',
         \A r \in Requests : r # post[p].req =>
           /\ moved'[r] = moved[r] /\ (r \in unearned' <=> r \in unearned)
           /\ \A k \in Kinds : Booked(r, k)' = Booked(r, k),
         unearned \subseteq unearned',
         post[p].owns \/ post[p].req \in unearned',
         post[p].req \notin unearned' =>
           /\ moved'[post[p].req] <= 0
           /\ \/ row[post[p].req].settled = Unknown
              \/ moved'[post[p].req] = -row[post[p].req].settled
           /\ Account(p)'
  PROVE  ChatInv'
<1>1. row' = row /\ post'[p].req = post[p].req /\ post'[p].owns = post[p].owns
  BY DEF Kept
<1>2. \A r \in Requests : r # post[p].req => SameBooks(r)
  BY <1>1 DEF SameBooks
<1>3. ASSUME post[p].req \notin unearned' PROVE RequestOK(post[p].req)'
  <2>1. row[post[p].req].status # "none"
    BY <1>3, OwnerAt
  <2> QED
    BY <1>1, <1>3, <2>1 DEF RequestOK
<1> QED
  BY <1>1, <1>2, <1>3, OneHandler

LEMMA ReserveStep ==
  ASSUME ChatInv, TypeOK', NEW p \in Posts, Reserve(p)
  PROVE  ChatInv'
<1> USE DEF ChatInv
<1>1. /\ Others(p) /\ Kept(p) /\ SameUsage(p) /\ post'[p].place = "marking"
      /\ UNCHANGED <<row, unearned>> /\ At(p, "reserving")
  BY GoEffect DEF Reserve, SameUsage
<1>2. /\ post[p].owns /\ row[post[p].req].status # "none" /\ post[p].req \in Requests
      /\ post[p].req \notin unearned => Fresh(post[p].req)
  BY <1>1, OwnerAt DEF At, Account
<1>3. Fits(p)'
  BY <1>1, <1>2 DEF Fits, Kept, SameUsage
<1>4. post'[p].req = post[p].req /\ Held(p)' = Held(p)
  BY <1>1 DEF Kept, Held
<1>5. CASE post[p].paid
  <2>1. Book(post[p].req, "reservation", -Cost) /\ -Cost \in Int /\ Held(p) = Cost
    BY <1>5, ChatAmountsAssumption DEF Reserve, Held
  <2>2. "reservation" \in Kinds /\ "adjustment" \in Kinds /\ "refund" \in Kinds
    BY DEF Kinds
  <2>3. /\ \A r \in Requests : r # post[p].req =>
             /\ moved'[r] = moved[r]
             /\ \A k \in Kinds : Booked(r, k)' = Booked(r, k)
        /\ \A j \in Kinds \ {"reservation"} :
             \A r \in Requests : Booked(r, j)' = Booked(r, j)
        /\ Booked(post[p].req, "reservation") = {}
             => moved'[post[p].req] = moved[post[p].req] + (-Cost)
    BY <1>2, <2>1, <2>2, BookEffect DEF TypeOK
  <2>4. ASSUME post[p].req \notin unearned
        PROVE  /\ moved'[post[p].req] = -Cost
               /\ row[post[p].req].settled = Unknown
               /\ StillHeld(p)'
    <3>1. moved'[post[p].req] = -Cost /\ row[post[p].req].settled = Unknown
      BY <1>2, <2>1, <2>3, <2>4, ChatAmountsAssumption DEF Fresh
    <3>2. /\ Booked(post[p].req, "adjustment")' = {}
          /\ Booked(post[p].req, "refund")' = {}
      BY <1>2, <1>4, <2>2, <2>3, <2>4 DEF Fresh
    <3> QED
      BY <1>1, <1>4, <2>1, <3>1, <3>2 DEF StillHeld
  <2>5. post[p].req \notin unearned => Account(p)'
    BY <1>1, <2>4 DEF Account
  <2> QED
    BY <1>1, <1>2, <1>3, <2>3, <2>4, <2>5, BookStep, ChatAmountsAssumption
<1>6. CASE ~post[p].paid
  <2>1. UNCHANGED <<account, row>>
    BY <1>1, <1>6 DEF Reserve, account
  <2>2. ASSUME post[p].req \notin unearned PROVE Account(p)'
    <3>1. StillHeld(p)
      BY <1>2, <1>6, <2>2 DEF Fresh, StillHeld, Held
    <3>2. StillHeld(p)'
      BY <1>1, <2>1, <3>1, QuietBooks, SameAccount
    <3> QED
      BY <1>1, <3>2 DEF Account
  <2> QED
    BY <1>1, <1>3, <2>1, <2>2, QuietStep
<1> QED
  BY <1>5, <1>6

\* The settlement brings what the request moved from the reservation to the bill.
LEMMA SettleStep ==
  ASSUME ChatInv, TypeOK', NEW p \in Posts, NEW b \in Bills \cup {0},
         Adjust(p, b) \/ RefundRest(p, b)
  PROVE  ChatInv'
<1> USE DEF ChatInv
<1>1. /\ Others(p) /\ Kept(p) /\ SameUsage(p)
      /\ post'[p].place = "closing" /\ post'[p].bill = b
      /\ UNCHANGED <<row, unearned>> /\ At(p, "settling") /\ b \in PossibleBills(p)
  BY BillEffect DEF Adjust, RefundRest, SameUsage
<1>2. b \in Nat
  BY ChatAmountsAssumption
<1>3. /\ post[p].owns /\ row[post[p].req].status # "none" /\ post[p].req \in Requests
      /\ Held(p) \in Nat
      /\ post[p].req \notin unearned => StillHeld(p)
  BY <1>1, OwnerAt DEF At, Account
<1>4. ~post[p].seen => b = 0
  BY <1>1, <1>2 DEF PossibleBills, Fits
<1>5. Fits(p)'
  BY <1>1, <1>3, <1>4 DEF Fits, Kept, SameUsage
<1>6. post'[p].req = post[p].req /\ Held(p)' = Held(p)
  BY <1>1 DEF Kept, Held
<1>7. PICK k \in {"adjustment", "refund"} :
        /\ Book(post[p].req, k, Held(p) - b)
        /\ b < Held(p) => k = "refund"
  BY <1>2, <1>3 DEF Adjust, RefundRest
<1>8. k \in Kinds /\ Held(p) - b \in Int
  BY <1>2, <1>3 DEF Kinds
<1>9. /\ \A r \in Requests : r # post[p].req =>
           /\ moved'[r] = moved[r]
           /\ \A j \in Kinds : Booked(r, j)' = Booked(r, j)
      /\ Booked(post[p].req, k) = {}
           => moved'[post[p].req] = moved[post[p].req] + (Held(p) - b)
  BY <1>3, <1>7, <1>8, BookEffect DEF TypeOK
<1>10. \A r \in Requests : r = post[p].req => \E x \in receipts' : x.req = r /\ x.kind = k
  <2>1. \A r \in Requests : r = post[p].req => Booked(r, k)' # {}
    BY <1>3, <1>7, <1>8, BookEffect
  <2> QED
    BY <2>1 DEF Booked
<1>11. ASSUME post[p].req \notin unearned
       PROVE  moved'[post[p].req] = -b /\ row[post[p].req].settled = Unknown
  BY <1>2, <1>3, <1>7, <1>9, <1>11 DEF StillHeld, TypeOK
<1>12. ASSUME post[p].req \notin unearned PROVE Account(p)'
  <2>1. b < Held(p) => Booked(post[p].req, "refund")' # {}
    BY <1>3, <1>6, <1>7, <1>10 DEF Booked
  <2> QED
    BY <1>1, <1>6, <1>11, <1>12, <2>1 DEF Account
<1> QED
  BY <1>1, <1>2, <1>3, <1>5, <1>9, <1>11, <1>12, BookStep

LEMMA RefundAllStep ==
  ASSUME ChatInv, TypeOK', NEW p \in Posts, RefundAll(p)
  PROVE  ChatInv'
<1> USE DEF ChatInv
<1>1. /\ Others(p) /\ Kept(p) /\ SameUsage(p) /\ post'[p].place = "refunded"
      /\ UNCHANGED row /\ At(p, "refunding")
  BY GoEffect DEF RefundAll, SameUsage
<1>2. /\ post[p].req \in Requests /\ Held(p) \in Nat
      /\ post[p].owns => row[post[p].req].status # "none"
      /\ post[p].owns /\ post[p].req \notin unearned =>
           \/ StillHeld(p)
           \/ post[p].paid /\ GivenBack(p) /\ Booked(post[p].req, "refund") # {}
  BY <1>1, OwnerAt DEF At, Account
<1>3. post'[p].req = post[p].req
  BY <1>1 DEF Kept
<1>4. CASE post[p].paid
  <2>1. /\ Book(post[p].req, "refund", Cost) /\ Cost \in Int /\ Held(p) = Cost
        /\ unearned' = IF post[p].owns THEN unearned ELSE unearned \cup {post[p].req}
    BY <1>4, ChatAmountsAssumption DEF RefundAll, Held
  <2>2. "refund" \in Kinds
    BY DEF Kinds
  <2>3. /\ \A r \in Requests : r # post[p].req =>
             /\ moved'[r] = moved[r]
             /\ \A j \in Kinds : Booked(r, j)' = Booked(r, j)
        /\ Booked(post[p].req, "refund") = {}
             => moved'[post[p].req] = moved[post[p].req] + Cost
        /\ Booked(post[p].req, "refund") # {}
             => moved'[post[p].req] = moved[post[p].req]
    BY <1>2, <2>1, <2>2, BookEffect DEF TypeOK
  <2>4. Fits(p)'
    BY <1>1, <1>2, <1>3, <2>1 DEF Fits, Kept, SameUsage
  <2>5. ASSUME post[p].owns, post[p].req \notin unearned
        PROVE  /\ moved'[post[p].req] = 0
               /\ row[post[p].req].settled \in {Unknown, 0}
    <3>1. CASE StillHeld(p)
      BY <2>1, <2>3, <3>1, ChatAmountsAssumption DEF StillHeld
    <3>2. CASE GivenBack(p) /\ Booked(post[p].req, "refund") # {}
      BY <2>3, <3>2 DEF GivenBack
    <3> QED
      BY <1>2, <2>5, <3>1, <3>2
  <2>6. ASSUME post[p].owns, post[p].req \notin unearned PROVE Account(p)'
    BY <1>1, <1>3, <2>5, <2>6 DEF Account, GivenBack
  <2> QED
    BY <1>1, <1>2, <2>1, <2>3, <2>4, <2>5, <2>6, BookStep
<1>5. CASE ~post[p].paid
  <2>1. UNCHANGED <<account, row>> /\ post[p].owns
    BY <1>1, <1>5 DEF RefundAll, Fits, At
  <2>2. Fits(p)'
    BY <1>1, <1>2, <1>3, <2>1 DEF Fits, Kept, SameUsage
  <2>3. ASSUME post[p].req \notin unearned PROVE Account(p)'
    <3>1. GivenBack(p)
      BY <1>2, <1>5, <2>1, <2>3 DEF StillHeld, GivenBack, Held
    <3>2. GivenBack(p)'
      BY <1>1, <2>1, <3>1, QuietBooks, SameAccount
    <3> QED
      BY <1>1, <3>2 DEF Account
  <2> QED
    BY <1>1, <2>1, <2>2, <2>3, QuietStep
<1> QED
  BY <1>4, <1>5

-----------------------------------------------------------------------------
(* The invariant.                                                          *)

LEMMA InitChat == Init => ChatInv
<1> SUFFICES ASSUME Init PROVE ChatInv
  OBVIOUS
<1>1. post \in [Posts -> Locals]
  <2>1. "idle" \in Places /\ "none" \in Answers
    BY DEF Places, Answers
  <2>2. /\ {"idle"} \subseteq Places /\ {"none"} \subseteq Answers
        /\ {FALSE} \subseteq BOOLEAN /\ {0} \subseteq Nat
    BY <2>1
  <2>3. \A P, A, B, N :
          P \subseteq Places /\ A \subseteq Answers /\ B \subseteq BOOLEAN /\ N \subseteq Nat
            => [place : P, req : Requests, paid : BOOLEAN, contract : BOOLEAN,
                owns : B, seen : B, used : B, answer : A, calls : N,
                recovered : B, fallback : B, bill : N] \subseteq Locals
    BY ZenonT(60) DEF Locals
  <2>4. [place : {"idle"}, req : Requests, paid : BOOLEAN, contract : BOOLEAN,
         owns : {FALSE}, seen : {FALSE}, used : {FALSE}, answer : {"none"},
         calls : {0}, recovered : {FALSE}, fallback : {FALSE}, bill : {0}]
          \subseteq Locals
    BY <2>2, <2>3, ZenonT(60)
  <2> QED
    BY <2>4 DEF Init
<1>2. \A p \in Posts : /\ post[p].place = "idle" /\ post[p].owns = FALSE
                       /\ post[p].used = FALSE
  BY DEF Init
<1>3. TypeOK
  BY <1>1, ChatAmountsAssumption DEF Init, TypeOK, NoRow, Statuses
<1>4. OneOwner
  BY <1>2 DEF OneOwner
<1>5. \A p \in Posts : Fits(p)
  BY <1>2 DEF Fits
<1>6. \A r \in Requests : RequestOK(r)
  BY DEF Init, RequestOK, Fresh, NoRow, Booked
<1> QED
  BY <1>2, <1>3, <1>4, <1>5, <1>6 DEF ChatInv

LEMMA StepChat == ChatInv /\ [Next]_vars => ChatInv'
<1> SUFFICES ASSUME ChatInv, [Next]_vars PROVE ChatInv'
  OBVIOUS
<1>1. TypeOK'
  BY TypeStep DEF ChatInv
<1>2. ASSUME NEW p \in Posts, Begin(p) PROVE ChatInv'
  BY <1>1, <1>2, QuietBegin, CreateRowStep, ReserveStep, MarkReservedStep DEF Begin
<1>3. ASSUME NEW p \in Posts, Attempt(p) PROVE ChatInv'
  BY <1>1, <1>3, QuietAttempt
<1>4. ASSUME NEW p \in Posts, SettleUsage(p) PROVE ChatInv'
  BY <1>1, <1>4, QuietEnding, SetAsideStep, SettleStep, CloseStep, LastRowStep
     DEF SettleUsage
<1>5. ASSUME NEW p \in Posts, GiveUp(p) PROVE ChatInv'
  BY <1>1, <1>5, QuietEnding, RefundAllStep, LastRowStep DEF GiveUp
<1>6. CASE UNCHANGED vars
  BY <1>6 DEF vars, account, bounds, ChatInv, TypeOK, OneOwner, Fits, RequestOK,
     Account, Fresh, StillHeld, GivenBack, Held, Booked
<1> QED
  BY <1>2, <1>3, <1>4, <1>5, <1>6 DEF Next

-----------------------------------------------------------------------------
(* The theorems.                                                           *)

\* What is booked for a request at every place its handler can be at
\* (public_llm_chat, _settle_llm_usage, refund_failed_run).
THEOREM ChatInvariant == Spec => []ChatInv
BY InitChat, StepChat, PTL DEF Spec

\* Every variable keeps its type: neither credits nor funded credits go below
\* nothing (_apply_credit_delta).
THEOREM ChatTypes == Spec => []TypeOK
<1>1. ChatInv => TypeOK
  BY DEF ChatInv
<1> QED
  BY <1>1, ChatInvariant, PTL

\* One handler of a request id gets past its settlement row
\* (_create_llm_usage_settlement).
THEOREM OneHandlerOwns == Spec => []OneOwner
<1>1. ChatInv => OneOwner
  BY DEF ChatInv
<1> QED
  BY <1>1, ChatInvariant, PTL

\* Providers are called, and usage is settled, with the reservation held
\* (public_llm_chat).
THEOREM CallsCovered == Spec => []CallsAreCovered
<1>1. ChatInv => CallsAreCovered
  <2> SUFFICES ASSUME ChatInv, NEW p \in Posts,
                      post[p].place \in {"calling", "answered", "settling"},
                      post[p].req \notin unearned
               PROVE  moved[post[p].req] = -Held(p)
    BY DEF CallsAreCovered
  <2>1. Account(p)
    BY OwnerAt
  <2> QED
    BY <2>1 DEF Account, StillHeld
<1> QED
  BY <1>1, ChatInvariant, PTL

\* No order of settlements, refunds and failures gives a request back more than
\* it took (_settle_llm_usage, refund_failed_run).
THEOREM RefundsWithinReservation == Spec => []RefundWithinReservation
<1>1. ChatInv => RefundWithinReservation
  BY DEF ChatInv, RequestOK, RefundWithinReservation
<1> QED
  BY <1>1, ChatInvariant, PTL

\* A settlement row that names an amount names what was taken
\* (_update_llm_usage_settlement).
THEOREM RowsTellTheTruth == Spec => []BookedAsRecorded
<1>1. ChatInv => BookedAsRecorded
  BY DEF ChatInv, RequestOK, BookedAsRecorded
<1> QED
  BY <1>1, ChatInvariant, PTL

\* The amount a row names is written once
\* (_update_llm_usage_settlement, _mark_llm_settlement_failed).
THEOREM AmountsAreFinal == Spec => AmountsFinal
<1> DEFINE Final ==
      \A r \in Requests : row[r].settled # Unknown /\ r \notin unearned
                            => row'[r].settled = row[r].settled
<1>1. ChatInv /\ [Next]_vars => Final
  <2> SUFFICES ASSUME ChatInv, [Next]_vars, NEW r \in Requests,
                      row[r].settled # Unknown, r \notin unearned
               PROVE  row'[r].settled = row[r].settled
    OBVIOUS
  <2> USE DEF ChatInv
  <2>1. ASSUME NEW p \in Posts, NEW s, NEW n, Write(post[p].req, s, n),
               post[p].req = r => n = row[r].settled
        PROVE  row'[r].settled = row[r].settled
    BY <2>1, OwnerAt, WriteEffect
  <2>2. ASSUME NEW p \in Posts, NEW s, SetStatus(post[p].req, s)
        PROVE  row'[r].settled = row[r].settled
    BY <2>1, <2>2 DEF SetStatus
  <2>3. ASSUME NEW p \in Posts, At(p, "settling") \/ At(p, "closing"),
               post[p].req = r
        PROVE  FALSE
    BY <2>3, OwnerAt DEF At, Account, StillHeld
  <2>4. ASSUME NEW p \in Posts, CreateRow(p) PROVE row'[r].settled = row[r].settled
    <3>1. post[p].req \in Requests
      BY OwnerAt
    <3> QED
      BY <2>4, <3>1 DEF CreateRow, TypeOK
  <2>5. ASSUME NEW p \in Posts, NotBillable(p) \/ \E b \in Bills \cup {0} : AdjustFails(p, b)
        PROVE  row'[r].settled = row[r].settled
    <3>1. /\ Write(post[p].req, "reconciliation_required", Held(p)) \/ UNCHANGED row
          /\ At(p, "settling")
      BY <2>5 DEF NotBillable, AdjustFails, SetAside
    <3> QED
      BY <2>1, <2>3, <3>1
  <2>6. ASSUME NEW p \in Posts, Close(p) PROVE row'[r].settled = row[r].settled
    BY <2>1, <2>3, <2>6 DEF Close
  <2>7. ASSUME NEW p \in Posts, CloseRefund(p) PROVE row'[r].settled = row[r].settled
    <3>1. post[p].req = r => row[r].settled = 0
      BY <2>7, OwnerAt DEF CloseRefund, At, Fits, Account, GivenBack
    <3> QED
      BY <2>1, <2>7, <3>1 DEF CloseRefund
  <2>8. ASSUME NEW p \in Posts, MarkReserved(p) \/ MarkViolated(p) \/ MarkFailed(p)
        PROVE  row'[r].settled = row[r].settled
    BY <2>2, <2>8 DEF MarkReserved, MarkViolated, MarkFailed
  <2>9. CASE UNCHANGED row
    BY <2>9
  <2>10. ASSUME NEW p \in Posts, Begin(p) PROVE row'[r].settled = row[r].settled
    BY <2>4, <2>8, <2>9, <2>10 DEF Begin, Arrive, Approve, ApprovalRaises, CreateRaises,
       Reserve, ReservationRefused, ReservationRaises, MarkRaises
  <2>11. ASSUME NEW p \in Posts, Attempt(p) PROVE row'[r].settled = row[r].settled
    <3>1. ASSUME NEW answer, NEW used, Call(p, answer, used) PROVE row' = row
      BY <3>1 DEF Call
    <3>2. CASE \/ CallRaises(p) \/ RecoverTruncated(p) \/ TryNextRoute(p)
               \/ StopCalling(p) \/ RecordRaises(p)
      BY <3>2 DEF CallRaises, RecoverTruncated, TryNextRoute, StopCalling, RecordRaises
    <3> QED
      BY <2>11, <3>1, <3>2 DEF Attempt
  <2>12. ASSUME NEW p \in Posts, SettleUsage(p) PROVE row'[r].settled = row[r].settled
    BY <2>5, <2>6, <2>8, <2>9, <2>12 DEF SettleUsage, SettleExactly, Adjust,
       RefundRest, RefundRestFails, CloseRaises, MarkViolatedRaises
  <2>13. ASSUME NEW p \in Posts, GiveUp(p) PROVE row'[r].settled = row[r].settled
    BY <2>7, <2>8, <2>9, <2>13 DEF GiveUp, RefundAll, RefundAllFails,
       CloseRefundRaises, Die
  <2> QED
    BY <2>9, <2>10, <2>11, <2>12, <2>13 DEF Next, vars
<1> QED
  BY <1>1, ChatInvariant, PTL DEF Spec, AmountsFinal

-----------------------------------------------------------------------------
(* The account and its receipts.                                           *)

AmountOf == [x \in [req : Requests, kind : Kinds, amount : Int] |-> x.amount]

\* What all receipts come to, and what all requests moved.
ReceiptSum == SumFunctionOnSet(AmountOf, receipts)
MovedSum == SumFunctionOnSet(moved, Requests)

\* The account is what was bought and granted and what its receipts come to: a
\* balance is never changed without a receipt, nor twice under one.
AccountMatchesReceipts ==
  /\ IsFiniteSet(receipts)
  /\ credits = Bought + Bonus + ReceiptSum
  /\ funded = Bought + ReceiptSum

\* One booking: the account, its funded part and the request move alike, under a
\* receipt there was not before.
Booking(r, a) ==
  /\ credits' = credits + a /\ funded' = funded + a
  /\ moved' = [moved EXCEPT ![r] = moved[r] + a]
  /\ \E kind \in Kinds : /\ Receipt(r, kind, a) \notin receipts
                         /\ receipts' = receipts \cup {Receipt(r, kind, a)}

\* A step books once, for its own request, or not at all.
BooksOnce(r) ==
  \/ UNCHANGED <<credits, funded, receipts, moved>>
  \/ \E a \in Int : Booking(r, a)

LEMMA BookBooks ==
  ASSUME NEW r \in Requests, NEW kind \in Kinds, NEW amount \in Int, Book(r, kind, amount)
  PROVE  BooksOnce(r)
<1>1. Booked(r, kind) = {} => Receipt(r, kind, amount) \notin receipts
  BY DEF Booked, Receipt
<1> QED
  BY <1>1 DEF Book, BooksOnce, Booking

LEMMA StepBooks ==
  TypeOK /\ [Next]_vars =>
    UNCHANGED <<credits, funded, receipts, moved>> \/ \E r \in Requests, a \in Int : Booking(r, a)
<1> SUFFICES ASSUME TypeOK, [Next]_vars, ~UNCHANGED <<credits, funded, receipts, moved>>
             PROVE  \E r \in Requests, a \in Int : Booking(r, a)
  OBVIOUS
<1>1. PICK p \in Posts : Begin(p) \/ Attempt(p) \/ SettleUsage(p) \/ GiveUp(p)
  BY DEF Next, vars, account
<1>2. post[p].req \in Requests /\ Held(p) \in Int /\ Cost \in Int
  BY ChatAmountsAssumption DEF TypeOK, Locals, Held
<1>3. {"reservation", "adjustment", "refund"} = Kinds
  BY DEF Kinds
<1>4. ASSUME Begin(p) PROVE BooksOnce(post[p].req)
  <2>1. CASE Reserve(p)
    <3>1. -Cost \in Int
      BY <1>2
    <3> QED
      BY <1>2, <1>3, <2>1, <3>1, BookBooks DEF Reserve, BooksOnce
  <2>2. CASE ~Reserve(p)
    BY <1>4, <2>2 DEF Begin, Arrive, Approve, ApprovalRaises, CreateRow, CreateRaises,
       ReservationRefused, ReservationRaises, MarkReserved, MarkRaises, account
  <2> QED
    BY <2>1, <2>2
<1>5. ASSUME Attempt(p) PROVE UNCHANGED account
  <2>1. ASSUME NEW answer, NEW used, Call(p, answer, used) PROVE UNCHANGED account
    BY <2>1 DEF Call
  <2> QED
    BY <1>5, <2>1 DEF Attempt, CallRaises, RecoverTruncated, TryNextRoute, StopCalling, RecordRaises
<1>6. ASSUME SettleUsage(p) PROVE BooksOnce(post[p].req)
  <2>1. ASSUME NEW bill \in Bills \cup {0}, Adjust(p, bill) \/ RefundRest(p, bill)
        PROVE  BooksOnce(post[p].req)
    <3>1. Held(p) - bill \in Int
      BY <1>2, ChatAmountsAssumption
    <3> QED
      BY <1>2, <1>3, <2>1, <3>1, BookBooks DEF Adjust, RefundRest
  <2>2. ASSUME NEW bill, AdjustFails(p, bill) \/ RefundRestFails(p, bill) PROVE UNCHANGED account
    BY <2>2 DEF AdjustFails, RefundRestFails
  <2>3. CASE \/ NotBillable(p) \/ SettleExactly(p) \/ Close(p) \/ CloseRaises(p)
             \/ MarkViolated(p) \/ MarkViolatedRaises(p)
    BY <2>3 DEF NotBillable, SettleExactly, Close, CloseRaises, MarkViolated, MarkViolatedRaises,
       account, BooksOnce
  <2> QED
    BY <1>6, <2>1, <2>2, <2>3 DEF SettleUsage, account, BooksOnce
<1>7. ASSUME GiveUp(p) PROVE BooksOnce(post[p].req)
  <2>1. CASE RefundAll(p)
    BY <1>2, <1>3, <2>1, BookBooks DEF RefundAll, BooksOnce, account
  <2>2. CASE ~RefundAll(p)
    BY <1>7, <2>2 DEF GiveUp, RefundAllFails, CloseRefund, CloseRefundRaises, MarkFailed, Die,
       account, BooksOnce
  <2> QED
    BY <2>1, <2>2
<1>8. BooksOnce(post[p].req)
  BY <1>1, <1>4, <1>5, <1>6, <1>7 DEF account, BooksOnce
<1> QED
  BY <1>2, <1>8 DEF BooksOnce

\* The account is what was bought and granted and what its receipts come to,
\* however handlers, duplicates, failures and deaths interleave
\* (_apply_credit_delta).
THEOREM AccountIsReceipted == Spec => []AccountMatchesReceipts
<1>1. Init => AccountMatchesReceipts
  BY FS_EmptySet, SumOfNone, ChatAmountsAssumption DEF Init, AccountMatchesReceipts, ReceiptSum
<1>2. TypeOK /\ TypeOK' /\ AccountMatchesReceipts /\ [Next]_vars => AccountMatchesReceipts'
  <2> SUFFICES ASSUME TypeOK, TypeOK', AccountMatchesReceipts, [Next]_vars
               PROVE  AccountMatchesReceipts'
    OBVIOUS
  <2>1. CASE UNCHANGED <<credits, funded, receipts, moved>>
    BY <2>1 DEF AccountMatchesReceipts, ReceiptSum
  <2>2. ASSUME NEW r \in Requests, NEW a \in Int, Booking(r, a)
        PROVE  AccountMatchesReceipts'
    <3>1. PICK kind \in Kinds : /\ Receipt(r, kind, a) \notin receipts
                               /\ receipts' = receipts \cup {Receipt(r, kind, a)}
      BY <2>2 DEF Booking
    <3>2. \A x \in receipts' : AmountOf[x] = x.amount /\ AmountOf[x] \in Int
      BY DEF TypeOK, AmountOf
    <3>3. AmountOf[Receipt(r, kind, a)] = a
      BY <3>1, <3>2 DEF Receipt
    <3> DEFINE new == Receipt(r, kind, a)
    <3>4. /\ new \notin receipts /\ receipts' = receipts \cup {new}
          /\ AmountOf[new] = a /\ \A y \in receipts \cup {new} : AmountOf[y] \in Int
      BY <3>1, <3>2, <3>3
    <3> HIDE DEF new
    <3>5. /\ IsFiniteSet(receipts \cup {new})
          /\ SumFunctionOnSet(AmountOf, receipts \cup {new})
               = SumFunctionOnSet(AmountOf, receipts) + AmountOf[new]
          /\ SumFunctionOnSet(AmountOf, receipts) \in Int
      BY <3>4, SumGrows, SumIsInteger DEF AccountMatchesReceipts
    <3>6. IsFiniteSet(receipts') /\ ReceiptSum' = ReceiptSum + a /\ ReceiptSum \in Int
      BY <3>4, <3>5 DEF ReceiptSum
    <3>7. credits' = credits + a /\ funded' = funded + a
      BY <2>2 DEF Booking
    <3> QED
      BY <3>6, <3>7, ChatAmountsAssumption DEF AccountMatchesReceipts
  <2> QED
    BY <2>1, <2>2, StepBooks
<1> QED
  BY <1>1, <1>2, ChatTypes, PTL DEF Spec

\* As long as nothing was refunded that had not been reserved, the account never
\* holds more than was bought and granted, nor its funded part more than was
\* bought: all requests together give back no more than they took.
THEOREM NeverRicher ==
  ASSUME IsFiniteSet(Requests)
  PROVE  Spec => [](unearned = {} => credits <= Bought + Bonus /\ funded <= Bought)
<1> DEFINE Moved == credits = Bought + Bonus + MovedSum /\ funded = Bought + MovedSum
<1>1. Init => Moved
  BY SumOfZeros, ChatAmountsAssumption DEF Init, MovedSum
<1>2. TypeOK /\ TypeOK' /\ Moved /\ [Next]_vars => Moved'
  <2> SUFFICES ASSUME TypeOK, TypeOK', Moved, [Next]_vars PROVE Moved'
    OBVIOUS
  <2>1. CASE UNCHANGED <<credits, funded, receipts, moved>>
    BY <2>1 DEF MovedSum
  <2>2. ASSUME NEW r \in Requests, NEW a \in Int, Booking(r, a) PROVE Moved'
    <3>1. /\ \A y \in Requests : moved[y] \in Int /\ moved'[y] \in Int
          /\ \A y \in Requests \ {r} : moved'[y] = moved[y]
          /\ moved'[r] = moved[r] + a
      BY <2>2 DEF TypeOK, Booking
    <3>2. SumFunctionOnSet(moved', Requests) = SumFunctionOnSet(moved, Requests) + moved'[r] - moved[r]
      BY <3>1, SumMoves
    <3>3. SumFunctionOnSet(moved, Requests) \in Int
      BY <3>1, SumIsInteger
    <3>4. MovedSum' = MovedSum + a /\ MovedSum \in Int
      BY <3>1, <3>2, <3>3 DEF MovedSum
    <3>5. credits' = credits + a /\ funded' = funded + a
      BY <2>2 DEF Booking
    <3> QED
      BY <3>4, <3>5, ChatAmountsAssumption
  <2> QED
    BY <2>1, <2>2, StepBooks
<1>3. ChatInv /\ Moved => (unearned = {} => credits <= Bought + Bonus /\ funded <= Bought)
  <2> SUFFICES ASSUME ChatInv, Moved, unearned = {}
               PROVE  credits <= Bought + Bonus /\ funded <= Bought
    OBVIOUS
  <2>1. \A r \in Requests : moved[r] \in Int /\ moved[r] <= 0
    BY DEF ChatInv, TypeOK, RequestOK
  <2> DEFINE zero == [r \in Requests |-> 0]
  <2>2. SumFunctionOnSet(zero, Requests) = 0
    BY SumOfZeros
  <2>3. \A r \in Requests : moved[r] \in Int /\ zero[r] \in Int /\ moved[r] <= zero[r]
    BY <2>1
  <2> HIDE DEF zero
  <2>4. MovedSum <= 0 /\ MovedSum \in Int
    BY <2>2, <2>3, SumIsMonotone, SumIsInteger DEF MovedSum
  <2> QED
    BY <2>4, ChatAmountsAssumption
<1> HIDE DEF Moved
<1> QED
  BY <1>1, <1>2, <1>3, ChatInvariant, ChatTypes, PTL DEF Spec

=============================================================================
