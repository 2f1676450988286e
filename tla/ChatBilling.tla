------------------------------ MODULE ChatBilling ------------------------------
(***************************************************************************)
(* Billing of POST /api/llm/chat (public_llm_chat and its helpers).  A     *)
(* handler reserves credits for a paid route, calls the provider, and      *)
(* settles the reservation from the usage the provider reported or gives   *)
(* it back.  The settlement row, the reservation, the adjustment, the      *)
(* refund and every later status of the row are transactions of their own, *)
(* so handlers interleave between them, any of them may raise (Fault), and *)
(* a handler may die between any two (Die).                                *)
(*                                                                         *)
(* One account.  The ledger that CreditAccount keeps is left out; what a   *)
(* request moved on it is `moved`.                                         *)
(***************************************************************************)
EXTENDS Integers, FiniteSets

CONSTANTS
  Posts,          \* executions of the handler
  Requests,       \* request ids, chosen by the client
  Cost,           \* what a paid route reserves: an upper bound
  Bills,          \* what an answered request may turn out to cost
  Bought,         \* credits bought, which may pay providers
  Bonus,          \* credits granted, which may not
  MaxCalls,       \* bound: candidate routes of a request
  MaxFaults,      \* bound: transactions that raise
  MaxDeaths,      \* bound: handlers that die
  SignedReceipts  \* does credit_receipts admit a negative amount?

ASSUME ChatAmountsAssumption ==
  /\ Cost \in Nat \ {0} /\ Bills \subseteq Nat
  /\ Bought \in Nat /\ Bonus \in Nat
ASSUME ChatBoundsAssumption ==
  /\ MaxCalls \in Nat \ {0} /\ MaxFaults \in Nat /\ MaxDeaths \in Nat
  /\ SignedReceipts \in BOOLEAN

VARIABLES
  credits, funded,  \* admin_users
  receipts,         \* credit_receipts of provider llm-runtime
  row,              \* llm_usage_settlements
  post,             \* locals of the handlers
  moved,            \* history: credits moved under each request id
  unearned,         \* history: ids refunded by a handler that reserved nothing
  faults, deaths

account == <<credits, funded, receipts, moved, unearned>>
bounds == <<faults, deaths>>
vars == <<account, row, post, bounds>>

Unknown == -1
Statuses == {"none", "created", "reserved", "settled_usage", "refunded",
             "failed", "reconciliation_required"}
Places == {"idle", "approving", "creating", "reserving", "marking", "calling",
           "answered", "settling", "closing", "violated", "refunding",
           "refunded", "failing", "over"}
Answers == {"none", "good", "invalid", "truncated", "refused"}
Kinds == {"reservation", "adjustment", "refund"}
Locals == [place : Places, req : Requests, paid : BOOLEAN, contract : BOOLEAN,
           owns : BOOLEAN, seen : BOOLEAN, used : BOOLEAN, answer : Answers,
           calls : Nat, recovered : BOOLEAN, fallback : BOOLEAN, bill : Nat]
NoRow == [status |-> "none", settled |-> Unknown]

Init ==
  /\ credits = Bought + Bonus /\ funded = Bought
  /\ receipts = {}
  /\ row = [r \in Requests |-> NoRow]
  /\ post \in [Posts -> [place : {"idle"}, req : Requests, paid : BOOLEAN,
                         contract : BOOLEAN, owns : {FALSE}, seen : {FALSE},
                         used : {FALSE}, answer : {"none"}, calls : {0},
                         recovered : {FALSE}, fallback : {FALSE}, bill : {0}]]
  /\ moved = [r \in Requests |-> 0]
  /\ unearned = {}
  /\ faults = 0 /\ deaths = 0

-----------------------------------------------------------------------------
(* Transactions.                                                           *)

Held(p) == IF post[p].paid THEN Cost ELSE 0
At(p, place) == post[p].place = place
Go(p, place) == post' = [post EXCEPT ![p].place = place]
Fault == faults < MaxFaults /\ faults' = faults + 1 /\ UNCHANGED deaths

Booked(r, kind) == {x \in receipts : x.req = r /\ x.kind = kind}
Receipt(r, kind, amount) == [req |-> r, kind |-> kind, amount |-> amount]

\* Is the change booked, now or by an earlier delivery of the same identity?
Accepted(r, kind, amount) ==
  IF Booked(r, kind) # {}
  THEN Receipt(r, kind, amount) \in receipts
  ELSE /\ amount > 0 \/ SignedReceipts
       /\ credits + amount >= 0
       /\ funded + amount >= 0

\* _apply_credit_delta, with provider_funded_delta = amount.
Book(r, kind, amount) ==
  /\ Accepted(r, kind, amount)
  /\ IF Booked(r, kind) # {}
     THEN UNCHANGED <<credits, funded, receipts, moved>>
     ELSE /\ credits' = credits + amount
          /\ funded' = funded + amount
          /\ receipts' = receipts \cup {Receipt(r, kind, amount)}
          /\ moved' = [moved EXCEPT ![r] = @ + amount]

\* UPDATE llm_usage_settlements ... WHERE request_id: nothing without a row.
Write(r, status, settled) ==
  row' = IF row[r].status = "none" THEN row
         ELSE [row EXCEPT ![r] = [status |-> status, settled |-> settled]]

\* Mutant of SetStatus: columns that are not given are cleared.
SetStatusOnly(r, status) == Write(r, status, Unknown)

SetStatus(r, status) == Write(r, status, row[r].settled)

\* The handler's last except clause: give the reservation back unless the
\* provider has reported usage.
Unwind(p) ==
  IF post[p].paid /\ ~post[p].seen THEN Go(p, "refunding") ELSE Go(p, "failing")

-----------------------------------------------------------------------------
(* Approval, settlement row, reservation.                                  *)

Arrive(p) ==
  /\ At(p, "idle")
  /\ Go(p, IF post[p].paid THEN "approving" ELSE "creating")
  /\ UNCHANGED <<account, row, bounds>>

\* consume_step_up_approval
Approve(p) ==
  /\ At(p, "approving")
  /\ Go(p, "creating") \/ Go(p, "over")
  /\ UNCHANGED <<account, row, bounds>>

ApprovalRaises(p) ==
  /\ At(p, "approving")
  /\ Fault
  /\ Unwind(p)
  /\ UNCHANGED <<account, row>>

\* Mutant of CreateRow: the id's earlier row is taken over.
CreateRowAgain(p) ==
  /\ At(p, "creating")
  /\ row' = [row EXCEPT ![post[p].req] = [status |-> "created", settled |-> Unknown]]
  /\ post' = [post EXCEPT ![p].place = "reserving", ![p].owns = TRUE]
  /\ UNCHANGED <<account, bounds>>

\* INSERT ... ON CONFLICT (request_id) DO NOTHING; 409 for a known id.
CreateRow(p) ==
  /\ At(p, "creating")
  /\ IF row[post[p].req].status = "none"
     THEN /\ row' = [row EXCEPT ![post[p].req].status = "created"]
          /\ post' = [post EXCEPT ![p].place = "reserving", ![p].owns = TRUE]
     ELSE Go(p, "over") /\ UNCHANGED row
  /\ UNCHANGED <<account, bounds>>

CreateRaises(p) ==
  /\ At(p, "creating")
  /\ Fault
  /\ Go(p, "over")
  /\ UNCHANGED <<account, row>>

Reserve(p) ==
  /\ At(p, "reserving")
  /\ IF post[p].paid
     THEN Book(post[p].req, "reservation", -Cost)
     ELSE UNCHANGED <<credits, funded, receipts, moved>>
  /\ Go(p, "marking")
  /\ UNCHANGED <<unearned, row, bounds>>

\* Mutant of ReservationRefused: the handler goes on.
ReservationIgnored(p) ==
  /\ At(p, "reserving")
  /\ post[p].paid
  /\ ~Accepted(post[p].req, "reservation", -Cost)
  /\ Go(p, "marking")
  /\ UNCHANGED <<account, row, bounds>>

ReservationRefused(p) ==
  /\ At(p, "reserving")
  /\ post[p].paid
  /\ ~Accepted(post[p].req, "reservation", -Cost)
  /\ Go(p, "failing")
  /\ UNCHANGED <<account, row, bounds>>

ReservationRaises(p) ==
  /\ At(p, "reserving")
  /\ Fault
  /\ Go(p, "failing")
  /\ UNCHANGED <<account, row>>

\* The row says 'reserved'.  Without a candidate route, or on an unknown
\* transport, the request is given up; a paid route in its cooldown has been
\* left out of the candidates, and the first of them is free.
MarkReserved(p) ==
  /\ At(p, "marking")
  /\ SetStatus(post[p].req, "reserved")
  /\ \/ Go(p, "calling") \/ Go(p, "refunding")
     \/ post' = [post EXCEPT ![p].place = "calling", ![p].fallback = TRUE]
  /\ UNCHANGED <<account, bounds>>

MarkRaises(p) ==
  /\ At(p, "marking")
  /\ Fault
  /\ Go(p, "refunding")
  /\ UNCHANGED <<account, row>>

-----------------------------------------------------------------------------
(* The attempts at the candidate routes.                                   *)

\* One provider call.  Whether it reported usage, and what it answered, is the
\* provider's choice; only a request with an output contract can be invalid.
Call(p, answer, used) ==
  /\ At(p, "calling")
  /\ answer \in {"invalid", "truncated"} => post[p].contract
  /\ post' = [post EXCEPT ![p].place = "answered", ![p].answer = answer,
                          ![p].used = used, ![p].seen = @ \/ used,
                          ![p].calls = @ + 1]
  /\ UNCHANGED <<account, row, bounds>>

CallRaises(p) ==
  /\ At(p, "calling")
  /\ Fault
  /\ Unwind(p)
  /\ UNCHANGED <<account, row>>

Candidates(p) == MaxCalls + (IF post[p].recovered THEN 1 ELSE 0)
Violates(p) == post[p].answer \in {"invalid", "truncated"}

\* A truncated answer is asked for again on the same route, once.
RecoverTruncated(p) ==
  /\ At(p, "answered")
  /\ post[p].answer = "truncated" /\ ~post[p].recovered
  /\ post' = [post EXCEPT ![p].place = "calling", ![p].recovered = TRUE]
  /\ UNCHANGED <<account, row, bounds>>

\* Before usage, an unavailable route is followed by the next candidate, and
\* an invalid answer of a free route by the next free one.
TryNextRoute(p) ==
  /\ At(p, "answered")
  /\ ~post[p].used
  /\ post[p].calls < Candidates(p)
  /\ \/ post[p].answer = "refused"
     \/ Violates(p) /\ (post[p].paid => post[p].fallback)
  /\ ~(post[p].answer = "truncated" /\ ~post[p].recovered)
  /\ post' = [post EXCEPT ![p].place = "calling", ![p].fallback = TRUE]
  /\ UNCHANGED <<account, row, bounds>>

\* No further route, or none that may be tried.
StopCalling(p) ==
  /\ At(p, "answered")
  /\ ~(post[p].answer = "truncated" /\ ~post[p].recovered)
  /\ Go(p, IF post[p].answer = "refused" /\ ~post[p].used
           THEN "refunding" ELSE "settling")
  /\ UNCHANGED <<account, row, bounds>>

\* _record_llm_revolver_attempt raises.  After an answer usage forbids the
\* refund; after a refusal nothing is asked.
RecordRaises(p) ==
  /\ At(p, "answered")
  /\ MaxCalls > 1 \/ (post[p].contract /\ post[p].answer # "refused")
  /\ Fault
  /\ Go(p, IF post[p].used /\ post[p].answer # "refused"
           THEN "failing" ELSE "refunding")
  /\ UNCHANGED <<account, row>>

-----------------------------------------------------------------------------
(* _settle_llm_usage                                                       *)

OnPaidRoute(p) == post[p].paid /\ ~post[p].fallback
PossibleBills(p) ==
  IF OnPaidRoute(p) THEN {b \in Bills : b > 0 => post[p].used} ELSE {0}

\* The row is set aside for reconciliation (best effort), and the caller is
\* told of an error.
SetAside(p) ==
  /\ \/ Write(post[p].req, "reconciliation_required", Held(p)) /\ UNCHANGED bounds
     \/ Fault /\ UNCHANGED row
  /\ Go(p, "failing")

\* A paid route reported neither cost nor usage, or a free one a cost.
NotBillable(p) ==
  /\ At(p, "settling")
  /\ IF OnPaidRoute(p) THEN ~post[p].used ELSE post[p].used
  /\ SetAside(p)
  /\ UNCHANGED account

SettleExactly(p) ==
  /\ At(p, "settling")
  /\ Held(p) \in PossibleBills(p)
  /\ post' = [post EXCEPT ![p].place = "closing", ![p].bill = Held(p)]
  /\ UNCHANGED <<account, row, bounds>>

\* The call cost more than was reserved.
Adjust(p, bill) ==
  /\ At(p, "settling")
  /\ bill \in PossibleBills(p) /\ bill > Held(p)
  /\ Book(post[p].req, "adjustment", Held(p) - bill)
  /\ post' = [post EXCEPT ![p].place = "closing", ![p].bill = bill]
  /\ UNCHANGED <<unearned, row, bounds>>

AdjustFails(p, bill) ==
  /\ At(p, "settling")
  /\ bill \in PossibleBills(p) /\ bill > Held(p)
  /\ \/ ~Accepted(post[p].req, "adjustment", Held(p) - bill) /\ SetAside(p)
     \/ /\ Fault
        /\ Write(post[p].req, "reconciliation_required", Held(p))
        /\ Go(p, "failing")
  /\ UNCHANGED account

\* Mutant of RefundRest: the whole reservation goes back.
RefundHeld(p, bill) ==
  /\ At(p, "settling")
  /\ bill \in PossibleBills(p) /\ bill < Held(p)
  /\ Book(post[p].req, "refund", Held(p))
  /\ post' = [post EXCEPT ![p].place = "closing", ![p].bill = bill]
  /\ UNCHANGED <<unearned, row, bounds>>

\* The call cost less than was reserved.
RefundRest(p, bill) ==
  /\ At(p, "settling")
  /\ bill \in PossibleBills(p) /\ bill < Held(p)
  /\ Book(post[p].req, "refund", Held(p) - bill)
  /\ post' = [post EXCEPT ![p].place = "closing", ![p].bill = bill]
  /\ UNCHANGED <<unearned, row, bounds>>

RefundRestFails(p, bill) ==
  /\ At(p, "settling")
  /\ bill \in PossibleBills(p) /\ bill < Held(p)
  /\ \/ ~Accepted(post[p].req, "refund", Held(p) - bill) /\ UNCHANGED bounds
     \/ Fault
  /\ Go(p, "failing")
  /\ UNCHANGED <<account, row>>

Close(p) ==
  /\ At(p, "closing")
  /\ Write(post[p].req, IF post[p].bill < Held(p) THEN "refunded" ELSE "settled_usage",
           post[p].bill)
  /\ Go(p, IF Violates(p) THEN "violated" ELSE "over")
  /\ UNCHANGED <<account, bounds>>

CloseRaises(p) ==
  /\ At(p, "closing")
  /\ Fault
  /\ Go(p, "failing")
  /\ UNCHANGED <<account, row>>

\* The answer was billed but broke the output contract.
MarkViolated(p) ==
  /\ At(p, "violated")
  /\ SetStatus(post[p].req, "failed")
  /\ Go(p, "over")
  /\ UNCHANGED <<account, bounds>>

MarkViolatedRaises(p) ==
  /\ At(p, "violated")
  /\ Fault
  /\ Unwind(p)
  /\ UNCHANGED <<account, row>>

-----------------------------------------------------------------------------
(* refund_failed_run and _mark_llm_settlement_failed.                      *)

\* The whole amount goes back, whether or not anything was reserved.
RefundAll(p) ==
  /\ At(p, "refunding")
  /\ IF post[p].paid
     THEN /\ Book(post[p].req, "refund", Cost)
          /\ unearned' = IF post[p].owns THEN unearned
                         ELSE unearned \cup {post[p].req}
     ELSE UNCHANGED account
  /\ Go(p, "refunded")
  /\ UNCHANGED <<row, bounds>>

RefundAllFails(p) ==
  /\ At(p, "refunding")
  /\ \/ post[p].paid /\ ~Accepted(post[p].req, "refund", Cost) /\ UNCHANGED bounds
     \/ Fault
  /\ Go(p, "failing")
  /\ UNCHANGED <<account, row>>

CloseRefund(p) ==
  /\ At(p, "refunded")
  /\ Write(post[p].req, "failed", 0)
  /\ Go(p, "over")
  /\ UNCHANGED <<account, bounds>>

CloseRefundRaises(p) ==
  /\ At(p, "refunded")
  /\ Fault
  /\ Go(p, "over")
  /\ UNCHANGED <<account, row>>

\* Best effort: a failed update is passed over.
MarkFailed(p) ==
  /\ At(p, "failing")
  /\ \/ SetStatus(post[p].req, "failed") /\ UNCHANGED bounds
     \/ Fault /\ UNCHANGED row
  /\ Go(p, "over")
  /\ UNCHANGED account

\* The worker dies, or the client's connection takes it along.
Die(p) ==
  /\ ~At(p, "idle") /\ ~At(p, "over")
  /\ deaths < MaxDeaths
  /\ deaths' = deaths + 1
  /\ Go(p, "over")
  /\ UNCHANGED <<account, row, faults>>

-----------------------------------------------------------------------------

Begin(p) ==
  \/ Arrive(p) \/ Approve(p) \/ ApprovalRaises(p)
  \/ CreateRow(p) \/ CreateRaises(p)
  \/ Reserve(p) \/ ReservationRefused(p) \/ ReservationRaises(p)
  \/ MarkReserved(p) \/ MarkRaises(p)

Attempt(p) ==
  \/ \E answer \in Answers \ {"none"}, used \in BOOLEAN : Call(p, answer, used)
  \/ CallRaises(p) \/ RecoverTruncated(p) \/ TryNextRoute(p)
  \/ StopCalling(p) \/ RecordRaises(p)

SettleUsage(p) ==
  \/ NotBillable(p) \/ SettleExactly(p)
  \/ \E bill \in Bills \cup {0} : \/ Adjust(p, bill) \/ AdjustFails(p, bill)
                                  \/ RefundRest(p, bill) \/ RefundRestFails(p, bill)
  \/ Close(p) \/ CloseRaises(p) \/ MarkViolated(p) \/ MarkViolatedRaises(p)

GiveUp(p) ==
  \/ RefundAll(p) \/ RefundAllFails(p)
  \/ CloseRefund(p) \/ CloseRefundRaises(p)
  \/ MarkFailed(p) \/ Die(p)

Next == \E p \in Posts : Begin(p) \/ Attempt(p) \/ SettleUsage(p) \/ GiveUp(p)

Spec == Init /\ [][Next]_vars

-----------------------------------------------------------------------------
(* Properties.                                                             *)

\* Every variable keeps its type, and the account never goes below nothing.
TypeOK ==
  /\ credits \in Nat /\ funded \in Nat
  /\ receipts \subseteq [req : Requests, kind : Kinds, amount : Int]
  /\ row \in [Requests -> [status : Statuses, settled : Nat \cup {Unknown}]]
  /\ post \in [Posts -> Locals]
  /\ moved \in [Requests -> Int]
  /\ unearned \subseteq Requests
  /\ faults \in Nat /\ deaths \in Nat

\* Of the handlers that a client sends one request id to, together or one after
\* the other, a single one gets past the settlement row
\* (_create_llm_usage_settlement, "duplicate_llm_request_id").
OneOwner ==
  \A p, q \in Posts : post[p].owns /\ post[q].owns /\ post[p].req = post[q].req
                        => p = q

\* A paid provider call is made, and its usage settled, only while the whole
\* reservation is held, whatever other handlers of the id do
\* (public_llm_chat: reserve, mark, then call).
CallsAreCovered ==
  \A p \in Posts :
    post[p].place \in {"calling", "answered", "settling"}
      => \/ moved[post[p].req] = -Held(p)
         \/ post[p].req \in unearned

\* Unless it was refunded without a reservation, a request never leaves the
\* account richer than it found it, however its transactions fail.
RefundWithinReservation ==
  \A r \in Requests \ unearned : moved[r] <= 0

\* The credits a settlement row says were settled are those the request took
\* from the account, reservation, adjustment and refund together.
BookedAsRecorded ==
  \A r \in Requests \ unearned :
    row[r].settled # Unknown => moved[r] = -row[r].settled

\* Once a row says what was settled, no later failure path says otherwise:
\* "Billing truth is retained even though the product request failed".
AmountsFinal ==
  [][\A r \in Requests :
       row[r].settled # Unknown /\ r \notin unearned
         => row'[r].settled = row[r].settled]_vars

\* "Every post-reservation failure runs the refund path"
\* (test_chat_reserves_credits_before_provider_and_refunds_failures): a request
\* is refunded what it reserved, and nothing else.
RefundOnlyReserved == \A r \in Requests : moved[r] <= 0

\* "Usage must never disappear behind an unearned refund": a handler whose
\* provider has reported usage does not take the refund path.
UsageNotRefunded ==
  \A p \in Posts : post[p].place \in {"refunding", "refunded"} => ~post[p].seen

\* "Provider-finanzierte Credits werden vor dem Provideraufruf reserviert": an
\* account with enough bought credits can reserve them.
PaidIsReservable ==
  [][\A p \in Posts :
       At(p, "reserving") /\ post'[p].place = "failing"
         => credits < Cost \/ funded < Cost]_vars

=============================================================================
