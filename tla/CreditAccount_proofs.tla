------------------------ MODULE CreditAccount_proofs -------------------------
(* What holds of CreditAccount for any stages, requests, jobs, amounts and   *)
(* bounds.                                                                   *)
EXTENDS CreditAccount, FiniteSums

-----------------------------------------------------------------------------
(* The account.  That a balance is a natural number rests on the cache being *)
(* the ledger's sum, and on the bought part being no more than the balance.  *)

AccountInv == TypeOK /\ LedgerMatches /\ FundedCovered

LEMMA InitAccount == Init => AccountInv
  BY DEF Init, AccountInv, TypeOK, LedgerMatches, FundedCovered, Unsettled,
         SettlementStates, StagePlaces, CreatorPlaces

LEMMA StepAccount == AccountInv /\ [Next]_vars => AccountInv'
<1> SUFFICES ASSUME AccountInv, [Next]_vars PROVE AccountInv'
  OBVIOUS
<1> USE AmountsAssumption, AccountBoundsAssumption
    DEF AccountInv, TypeOK, LedgerMatches, FundedCovered, Covered, Post, Move, Close, Step,
        account, outside, stages, publication,
        SettlementStates, StagePlaces, CreatorPlaces
<1>1. ASSUME NEW p \in Purchases, Purchase(p) PROVE AccountInv'
  BY <1>1 DEF Purchase
<1>2. CASE Grant
  BY <1>2 DEF Grant
<1>3. CASE TakeFee
  BY <1>3 DEF TakeFee
<1>4. ASSUME NEW s \in Stages, Reserve(s) PROVE AccountInv'
  BY <1>4 DEF Reserve
<1>5. ASSUME NEW s \in Stages, RefuseReservation(s) PROVE AccountInv'
  BY <1>5 DEF RefuseReservation
<1>6. ASSUME NEW s \in Stages, Answer(s) PROVE AccountInv'
  BY <1>6 DEF Answer
<1>7. ASSUME NEW s \in Stages, CallEnds(s) PROVE AccountInv'
  BY <1>7 DEF CallEnds
<1>8. ASSUME NEW s \in Stages, NEW bill \in Bills, Settle(s, bill) PROVE AccountInv'
  <2> bill \in Nat /\ Hold \in Nat
    OBVIOUS
  <2>1. CASE settlement' = settlement /\ UNCHANGED account
    BY <1>8, <2>1 DEF Settle
  <2>2. CASE /\ bill - Hold <= credits /\ bill - Hold <= funded
             /\ Post(Hold - bill, Hold - bill) /\ Close(s, "settled_usage", bill)
    <3>1. credits' \in Nat /\ funded' \in Nat /\ ledger' \in Nat
          /\ credits' = ledger' /\ funded' <= credits'
      BY <2>2
    <3>2. settlement' \in [Stages -> [status : SettlementStates, settled : Nat]]
      BY <2>2
    <3> QED
      BY <1>8, <3>1, <3>2 DEF Settle
  <2> QED
    BY <1>8, <2>1, <2>2 DEF Settle
<1>9. ASSUME NEW s \in Stages, RefundFailedBeforeUsage(s) PROVE AccountInv'
  BY <1>9 DEF RefundFailedBeforeUsage
<1>10. ASSUME NEW s \in Stages, MarkReconciliationRequired(s) PROVE AccountInv'
  BY <1>10 DEF MarkReconciliationRequired
<1>11. ASSUME NEW s \in Stages, AbortStage(s) PROVE AccountInv'
  BY <1>11 DEF AbortStage
<1>12. ASSUME NEW j \in Jobs, Prepare(j) PROVE AccountInv'
  BY <1>12 DEF Prepare
<1>13. ASSUME NEW q \in Creators, NEW j \in Jobs, Enter(q, j) PROVE AccountInv'
  BY <1>13 DEF Enter
<1>14. ASSUME NEW q \in Creators, CheckCredits(q) PROVE AccountInv'
  BY <1>14 DEF CheckCredits
<1>15. ASSUME NEW q \in Creators, Publish(q) PROVE AccountInv'
  BY <1>15 DEF Publish
<1>16. ASSUME NEW q \in Creators, PublishFails(q) PROVE AccountInv'
  BY <1>16, ZenonT(30) DEF PublishFails
<1>17. ASSUME NEW q \in Creators, Charge(q) PROVE AccountInv'
  BY <1>17 DEF Charge
<1>18. ASSUME NEW q \in Creators, ChargeRefused(q) PROVE AccountInv'
  BY <1>18 DEF ChargeRefused
<1>19. ASSUME NEW q \in Creators, AbortCreate(q) PROVE AccountInv'
  BY <1>19, SMTT(30) DEF AbortCreate
<1>20. CASE UNCHANGED vars
  BY <1>20 DEF vars
<1> QED
  BY <1>1, <1>2, <1>3, <1>4, <1>5, <1>6, <1>7, <1>8, <1>9, <1>10, <1>11,
     <1>12, <1>13, <1>14, <1>15, <1>16, <1>17, <1>18, <1>19, <1>20
     DEF Next, StageStep, CreateStep

\* Balances stay natural numbers and everything keeps its type.
THEOREM TypeCorrect == Spec => []TypeOK
<1>1. AccountInv => TypeOK
  BY DEF AccountInv
<1> QED
  BY <1>1, InitAccount, StepAccount, PTL DEF Spec

\* The cached balance is the ledger's sum, whichever transactions run.
THEOREM LedgerStaysInStep == Spec => []LedgerMatches
<1>1. AccountInv => LedgerMatches
  BY DEF AccountInv
<1> QED
  BY <1>1, InitAccount, StepAccount, PTL DEF Spec

\* No transaction leaves more bought credits than credits.
THEOREM BoughtPartCovered == Spec => []FundedCovered
<1>1. AccountInv => FundedCovered
  BY DEF AccountInv
<1> QED
  BY <1>1, InitAccount, StepAccount, PTL DEF Spec

-----------------------------------------------------------------------------
(* Publication.  A request that has entered excludes the others from its job *)
(* and holds its preparation until it charges it or gives up; one that has   *)
(* checked the balance excludes everything that would change it.             *)

Entered(q) == creator[q].place # "idle"
HoldsRow(q) == creator[q].place \in {"checked", "published"}

OnePerJob ==
  \A q, o \in Creators :
    Entered(q) /\ Entered(o) /\ creator[q].job = creator[o].job => q = o
OneRowHolder == \A q, o \in Creators : HoldsRow(q) /\ HoldsRow(o) => q = o
EnteredReady == \A q \in Creators : Entered(q) => prState[creator[q].job] = "ready"
Affordable == \A q \in Creators : HoldsRow(q) => credits >= PrCost
PublishedDraft ==
  \A q \in Creators : creator[q].place = "published" => draft[creator[q].job]
\* A preparation that is not used up yet counts on the side of the charges.
Unused(j) == IF prState[j] = "ready" THEN 1 ELSE 0
PreparationsCover == \A j \in Jobs : charges[j] + Unused(j) <= prepares[j]

CreateInv ==
  /\ OnePerJob /\ OneRowHolder /\ EnteredReady /\ Affordable
  /\ PublishedDraft /\ PreparationsCover /\ CreatedIsPaid

LEMMA InitCreate == Init => CreateInv
  BY DEF Init, CreateInv, OnePerJob, OneRowHolder, EnteredReady, Affordable, PublishedDraft,
         PreparationsCover, CreatedIsPaid, Entered, HoldsRow, Unused

LEMMA StepCreate == TypeOK /\ CreateInv /\ [Next]_vars => CreateInv'
<1> SUFFICES ASSUME TypeOK, CreateInv, [Next]_vars PROVE CreateInv'
  OBVIOUS
<1> USE AmountsAssumption, AccountBoundsAssumption
    DEF CreateInv, OnePerJob, OneRowHolder, EnteredReady, Affordable, PublishedDraft,
        PreparationsCover, CreatedIsPaid, Entered, HoldsRow, Unused, RowFree, Covered, Post, Step,
        account, outside, stages, publication, TypeOK, CreatorPlaces
<1>1. ASSUME NEW p \in Purchases, Purchase(p) PROVE CreateInv'
  BY <1>1 DEF Purchase
<1>2. CASE Grant
  BY <1>2 DEF Grant
<1>3. CASE TakeFee
  BY <1>3 DEF TakeFee
<1>4. ASSUME NEW s \in Stages, Reserve(s) PROVE CreateInv'
  BY <1>4 DEF Reserve
<1>5. ASSUME NEW s \in Stages, RefuseReservation(s) PROVE CreateInv'
  BY <1>5 DEF RefuseReservation
<1>6. ASSUME NEW s \in Stages, Answer(s) PROVE CreateInv'
  BY <1>6 DEF Answer
<1>7. ASSUME NEW s \in Stages, CallEnds(s) PROVE CreateInv'
  BY <1>7 DEF CallEnds
<1>8. ASSUME NEW s \in Stages, NEW bill \in Bills, Settle(s, bill) PROVE CreateInv'
  BY <1>8 DEF Settle
<1>9. ASSUME NEW s \in Stages, RefundFailedBeforeUsage(s) PROVE CreateInv'
  BY <1>9 DEF RefundFailedBeforeUsage
<1>10. ASSUME NEW s \in Stages, MarkReconciliationRequired(s) PROVE CreateInv'
  BY <1>10 DEF MarkReconciliationRequired
<1>11. ASSUME NEW s \in Stages, AbortStage(s) PROVE CreateInv'
  BY <1>11 DEF AbortStage
<1>12. ASSUME NEW j \in Jobs, Prepare(j) PROVE CreateInv'
  BY <1>12 DEF Prepare
<1>13. ASSUME NEW q \in Creators, NEW j \in Jobs, Enter(q, j) PROVE CreateInv'
  BY <1>13 DEF Enter
<1>14. ASSUME NEW q \in Creators, CheckCredits(q) PROVE CreateInv'
  BY <1>14 DEF CheckCredits
<1>15. ASSUME NEW q \in Creators, Publish(q) PROVE CreateInv'
  BY <1>15 DEF Publish
<1>16. ASSUME NEW q \in Creators, PublishFails(q) PROVE CreateInv'
  BY <1>16 DEF PublishFails
<1>17. ASSUME NEW q \in Creators, Charge(q) PROVE CreateInv'
  BY <1>17 DEF Charge
<1>18. ASSUME NEW q \in Creators, ChargeRefused(q) PROVE CreateInv'
  BY <1>18 DEF ChargeRefused
<1>19. ASSUME NEW q \in Creators, AbortCreate(q) PROVE CreateInv'
  BY <1>19 DEF AbortCreate
<1>20. CASE UNCHANGED vars
  BY <1>20 DEF vars
<1> QED
  BY <1>1, <1>2, <1>3, <1>4, <1>5, <1>6, <1>7, <1>8, <1>9, <1>10, <1>11,
     <1>12, <1>13, <1>14, <1>15, <1>16, <1>17, <1>18, <1>19, <1>20
     DEF Next, StageStep, CreateStep

\* A Draft PR recorded as created exists on GitHub and was paid for.
THEOREM CreatedIsPaidFor == Spec => []CreatedIsPaid
<1>1. CreateInv => CreatedIsPaid
  BY DEF CreateInv
<1> QED
  BY <1>1, InitCreate, StepCreate, TypeCorrect, PTL DEF Spec

\* Requests, retries and deaths charge a preparation at most once.
THEOREM ChargedPerPreparation == Spec => []ChargePerPreparation
<1>1. TypeOK /\ CreateInv => ChargePerPreparation
  <2> SUFFICES ASSUME TypeOK, CreateInv, NEW j \in Jobs PROVE charges[j] <= prepares[j]
    BY DEF ChargePerPreparation
  <2>1. charges[j] \in Nat /\ prepares[j] \in Nat /\ Unused(j) \in {0, 1}
    BY DEF TypeOK, Unused
  <2>2. charges[j] + Unused(j) <= prepares[j]
    BY DEF CreateInv, PreparationsCover
  <2> QED
    BY <2>1, <2>2
<1> QED
  BY <1>1, InitCreate, StepCreate, TypeCorrect, PTL DEF Spec

\* The balance a create request checked is still there when it charges.
THEOREM NoRaceForCredits == Spec => []NoSettlementRace
<1>1. CreateInv => NoSettlementRace
  BY DEF CreateInv, Affordable, NoSettlementRace, HoldsRow
<1> QED
  BY <1>1, InitCreate, StepCreate, TypeCorrect, PTL DEF Spec

-----------------------------------------------------------------------------
(* The books.  What the settlement rows have taken and what Draft PRs have   *)
(* cost are sums; a step moves at most one term of one of them.              *)

NetOf == [s \in Stages |-> Net(s)]

\* The row of a stage before its reservation, and while its call is open.
RowFollowsStage ==
  \A s \in Stages :
    /\ stage[s] = "idle" => settlement[s].status = "none"
    /\ stage[s] \in {"calling", "returned", "rejected", "failed"}
         => settlement[s].status = "reserved"

BooksInv == IsFiniteSet(receipts) /\ RowFollowsStage /\ BooksBalance

LEMMA NetIsNumber == TypeOK => \A s \in Stages : Net(s) \in Nat
  BY AmountsAssumption DEF TypeOK, Net

LEMMA NetStaysNumber == TypeOK' => \A s \in Stages : Net(s)' \in Nat
  BY AmountsAssumption DEF TypeOK, Net

LEMMA TakenMoves ==
  ASSUME TypeOK, TypeOK', NEW s \in Stages, NEW new,
         settlement' = [settlement EXCEPT ![s] = new]
  PROVE  SumFunction(NetOf)' = SumFunction(NetOf) + Net(s)' - Net(s)
<1>1. \A t \in Stages : NetOf[t] \in Int /\ NetOf'[t] \in Int
  BY NetIsNumber, NetStaysNumber DEF NetOf
<1>2. \A t \in Stages \ {s} : NetOf'[t] = NetOf[t]
  BY DEF NetOf, Net, TypeOK
<1>3. SumFunctionOnSet(NetOf', Stages) = SumFunctionOnSet(NetOf, Stages) + NetOf'[s] - NetOf[s]
  BY <1>1, <1>2, FiniteAssumption, SumMoves
<1>4. DOMAIN NetOf = Stages /\ DOMAIN NetOf' = Stages
  BY DEF NetOf
<1>5. NetOf'[s] = Net(s)' /\ NetOf[s] = Net(s)
  BY DEF NetOf
<1> QED
  BY <1>3, <1>4, <1>5 DEF SumFunction

LEMMA TakenStays ==
  ASSUME settlement' = settlement PROVE SumFunction(NetOf)' = SumFunction(NetOf)
<1>1. NetOf' = NetOf
  BY DEF NetOf, Net
<1> QED
  BY <1>1

LEMMA ChargedMoves ==
  ASSUME TypeOK, TypeOK', NEW j \in Jobs,
         \A k \in Jobs : charges'[k] = IF k = j THEN charges[k] + 1 ELSE charges[k]
  PROVE  SumFunction(charges)' = SumFunction(charges) + 1
<1>1. \A k \in Jobs : charges[k] \in Int /\ charges'[k] \in Int
  BY DEF TypeOK
<1>2. \A k \in Jobs \ {j} : charges'[k] = charges[k]
  OBVIOUS
<1>3. SumFunctionOnSet(charges', Jobs) = SumFunctionOnSet(charges, Jobs) + charges'[j] - charges[j]
  BY <1>1, <1>2, FiniteAssumption, SumMoves
<1>4. charges'[j] = charges[j] + 1 /\ DOMAIN charges = Jobs /\ DOMAIN charges' = Jobs
  BY DEF TypeOK
<1>5. SumFunctionOnSet(charges, Jobs) \in Int
  BY <1>1, FiniteAssumption, SumIsInteger
<1> QED
  BY <1>1, <1>3, <1>4, <1>5 DEF SumFunction

LEMMA TakenStaysInteger ==
  ASSUME TypeOK' PROVE SumFunction(NetOf)' \in Int
<1>1. SumFunctionOnSet(NetOf', Stages) \in Int
  BY NetStaysNumber, FiniteAssumption, SumIsInteger DEF NetOf
<1> QED
  BY <1>1 DEF SumFunction, NetOf

LEMMA SumsAreIntegers ==
  ASSUME TypeOK PROVE SumFunction(NetOf) \in Int /\ SumFunction(charges) \in Int
<1>1. SumFunctionOnSet(NetOf, Stages) \in Int
  BY NetIsNumber, FiniteAssumption, SumIsInteger DEF NetOf
<1>2. SumFunctionOnSet(charges, Jobs) \in Int
  BY FiniteAssumption, SumIsInteger DEF TypeOK
<1> QED
  BY <1>1, <1>2 DEF SumFunction, NetOf, TypeOK

LEMMA InitBooks == Init => BooksInv
<1> SUFFICES ASSUME Init PROVE BooksInv
  OBVIOUS
<1>1. IsFiniteSet(receipts) /\ Cardinality(receipts) = 0
  BY FS_EmptySet DEF Init
<1>2. RowFollowsStage
  BY DEF Init, RowFollowsStage, Unsettled
<1>3. DOMAIN NetOf = Stages /\ \A s \in Stages : NetOf[s] = 0
  BY DEF Init, NetOf, Net, Unsettled
<1>4. SumFunction(NetOf) = 0
  BY <1>3, FiniteAssumption, SumOfZeros DEF SumFunction
<1>5. SumFunction(charges) = 0
  BY FiniteAssumption, SumOfZeros DEF SumFunction, Init
<1>6. BooksBalance
  BY <1>1, <1>4, <1>5, AmountsAssumption DEF BooksBalance, NetOf, Init
<1> QED
  BY <1>1, <1>2, <1>6 DEF BooksInv

LEMMA StepBooks == TypeOK /\ TypeOK' /\ BooksInv /\ [Next]_vars => BooksInv'
<1> SUFFICES ASSUME TypeOK, TypeOK', BooksInv, [Next]_vars PROVE BooksInv'
  OBVIOUS
<1> DEFINE taken == SumFunction(NetOf)
           charged == SumFunction(charges)
           count == Cardinality(receipts)
<1>1. taken \in Int /\ charged \in Int /\ count \in Nat
  BY SumsAreIntegers, FS_CardinalityType DEF BooksInv
<1>2. /\ funded = Bought * count - taken
      /\ credits = funded + Granted * grants - Fee * fees - PrCost * charged
  BY DEF BooksInv, BooksBalance, NetOf
<1>3. credits \in Nat /\ funded \in Nat /\ grants \in Nat /\ fees \in Nat
      /\ credits' \in Nat /\ funded' \in Nat /\ grants' \in Nat /\ fees' \in Nat
  BY DEF TypeOK
<1>4. SUFFICES /\ IsFiniteSet(receipts') /\ RowFollowsStage'
               /\ funded' = Bought * count' - taken'
               /\ credits' = funded' + Granted * grants' - Fee * fees' - PrCost * charged'
  BY DEF BooksInv, BooksBalance, NetOf
<1> DEFINE Goal == /\ IsFiniteSet(receipts') /\ RowFollowsStage'
                   /\ funded' = Bought * count' - taken'
                   /\ credits' = funded' + Granted * grants' - Fee * fees' - PrCost * charged'
           StagesKept == RowFollowsStage' /\ taken' = taken
<1> HIDE DEF taken, charged, count
<1>5. ASSUME UNCHANGED stages PROVE StagesKept
  BY <1>5, TakenStays DEF stages, BooksInv, RowFollowsStage, taken
<1>6. ASSUME UNCHANGED receipts PROVE IsFiniteSet(receipts') /\ count' = count
  BY <1>6 DEF BooksInv, count
<1>7. ASSUME UNCHANGED charges PROVE charged' = charged
  BY <1>7 DEF charged
<1>8. ASSUME NEW p \in Purchases, Purchase(p) PROVE Goal
  <2>1. IsFiniteSet(receipts') /\ count' = count + 1
    BY <1>8, FS_AddElement DEF Purchase, BooksInv, count
  <2>2. Bought * count' = Bought * count + Bought
    BY <2>1, <1>1, AmountsAssumption
  <2>3. UNCHANGED <<stages, charges, grants, fees>>
    BY <1>8 DEF Purchase, publication
  <2>4. credits' = credits + Bought /\ funded' = funded + Bought
    BY <1>8 DEF Purchase, Post
  <2>5. StagesKept /\ charged' = charged
    BY <2>3, <1>5, <1>7
  <2> QED
    BY <2>1, <2>2, <2>3, <2>4, <2>5, <1>1, <1>2, <1>3, AmountsAssumption
<1>9. CASE Grant
  <2>1. UNCHANGED <<stages, charges, receipts, fees>> /\ grants' = grants + 1
        /\ credits' = credits + Granted /\ funded' = funded
    BY <1>9, <1>3 DEF Grant, publication, Post
  <2>2. Granted * grants' = Granted * grants + Granted
    BY <2>1, <1>3, AmountsAssumption
  <2>3. StagesKept /\ charged' = charged /\ IsFiniteSet(receipts') /\ count' = count
    BY <2>1, <1>5, <1>6, <1>7
  <2> QED
    BY <2>1, <2>2, <2>3, <1>1, <1>2, <1>3, AmountsAssumption
<1>10. CASE TakeFee
  <2>1. UNCHANGED <<stages, charges, receipts, grants>> /\ fees' = fees + 1
        /\ credits' = credits - Fee /\ funded' = funded
    BY <1>10, <1>3, AmountsAssumption DEF TakeFee, publication, Post
  <2>2. Fee * fees' = Fee * fees + Fee
    BY <2>1, <1>3, AmountsAssumption
  <2>3. StagesKept /\ charged' = charged /\ IsFiniteSet(receipts') /\ count' = count
    BY <2>1, <1>5, <1>6, <1>7
  <2> QED
    BY <2>1, <2>2, <2>3, <1>1, <1>2, <1>3, AmountsAssumption
<1>11. ASSUME NEW s \in Stages, StageStep(s) PROVE Goal
  <2>1. UNCHANGED <<charges, receipts, grants, fees>>
    BY <1>11 DEF StageStep, Reserve, RefuseReservation, Answer, CallEnds, Settle,
                 RefundFailedBeforeUsage, MarkReconciliationRequired, AbortStage,
                 outside, publication
  <2>2. charged' = charged /\ IsFiniteSet(receipts') /\ count' = count
    BY <2>1, <1>6, <1>7
  \* What a stage takes is what the account loses.
  <2>3. RowFollowsStage' /\ credits' = credits + taken - taken' /\ funded' = funded + taken - taken'
    <3> USE DEF TypeOK, BooksInv, RowFollowsStage, Move, Close, Post, StagePlaces
    <3>0. ASSUME UNCHANGED settlement PROVE taken' = taken
      BY <3>0, TakenStays DEF taken
    <3>1. ASSUME NEW new, settlement' = [settlement EXCEPT ![s] = new]
          PROVE  taken' = taken + Net(s)' - Net(s)
      BY <3>1, TakenMoves DEF taken
    <3>2. CASE Reserve(s)
      <4>1. Net(s) = 0 /\ Net(s)' = Hold
        BY <3>2 DEF Reserve, Net
      <4>2. taken' = taken + Net(s)' - Net(s)
        BY <3>2, <3>1 DEF Reserve
      <4>3. RowFollowsStage'
        BY <3>2 DEF Reserve
      <4>4. credits' = credits - Hold /\ funded' = funded - Hold
        BY <3>2, AmountsAssumption DEF Reserve
      <4> QED
        BY <4>1, <4>2, <4>3, <4>4, <1>1, <1>3, AmountsAssumption
    <3>3. CASE RefuseReservation(s)
      BY <3>3, <3>0, <1>1, <1>3 DEF RefuseReservation, account
    <3>4. CASE Answer(s)
      BY <3>4, <3>0, <1>1, <1>3 DEF Answer, account
    <3>5. CASE CallEnds(s)
      BY <3>5, <3>0, <1>1, <1>3 DEF CallEnds, account
    <3>6. ASSUME NEW bill \in Bills, Settle(s, bill)
          PROVE  /\ RowFollowsStage'
                 /\ credits' = credits + taken - taken' /\ funded' = funded + taken - taken'
      <4>1. RowFollowsStage'
        BY <3>6 DEF Settle
      <4>2. CASE UNCHANGED <<account, settlement>>
        BY <4>1, <4>2, <3>0, <1>1, <1>3 DEF account
      <4>3. CASE Post(Hold - bill, Hold - bill) /\ Close(s, "settled_usage", bill)
        <5>1. Net(s) = Hold /\ Net(s)' = bill
          BY <3>6, <4>3 DEF Settle, Net
        <5>2. taken' = taken + Net(s)' - Net(s)
          BY <4>3, <3>1
        <5>3. bill \in Nat /\ Hold \in Nat
          BY AmountsAssumption
        <5> QED
          BY <4>1, <4>3, <5>1, <5>2, <5>3, <1>1, <1>3
      <4> QED
        BY <4>2, <4>3, <3>6 DEF Settle
    <3>7. CASE RefundFailedBeforeUsage(s)
      <4>1. Net(s) = Hold /\ Net(s)' = 0
        BY <3>7 DEF RefundFailedBeforeUsage, Net
      <4>2. taken' = taken + Net(s)' - Net(s)
        BY <3>7, <3>1 DEF RefundFailedBeforeUsage
      <4>3. RowFollowsStage'
        BY <3>7 DEF RefundFailedBeforeUsage
      <4>4. credits' = credits + Hold /\ funded' = funded + Hold
        BY <3>7 DEF RefundFailedBeforeUsage
      <4> QED
        BY <4>1, <4>2, <4>3, <4>4, <1>1, <1>3, AmountsAssumption
    <3>8. CASE MarkReconciliationRequired(s)
      <4>1. Net(s) = Hold /\ Net(s)' = Hold
        BY <3>8 DEF MarkReconciliationRequired, Net
      <4>2. taken' = taken + Net(s)' - Net(s)
        BY <3>8, <3>1 DEF MarkReconciliationRequired
      <4>3. RowFollowsStage'
        BY <3>8 DEF MarkReconciliationRequired
      <4> QED
        BY <3>8, <4>1, <4>2, <4>3, <1>1, <1>3, AmountsAssumption
           DEF MarkReconciliationRequired, account
    <3>9. CASE AbortStage(s)
      BY <3>9, <3>0, <1>1, <1>3 DEF AbortStage, account
    <3> QED
      BY <1>11, <3>2, <3>3, <3>4, <3>5, <3>6, <3>7, <3>8, <3>9 DEF StageStep
  <2>4. taken' \in Int
    BY TakenStaysInteger DEF taken
  <2> QED
    BY <2>1, <2>2, <2>3, <2>4, <1>1, <1>2, <1>3, AmountsAssumption
<1>12. ASSUME NEW q \in Creators, Charge(q) PROVE Goal
  <2>1. /\ UNCHANGED <<stages, receipts, grants, fees>>
        /\ charges' = [charges EXCEPT ![creator[q].job] = @ + 1]
        /\ credits' = credits - PrCost /\ funded' = funded
    BY <1>12, <1>3, AmountsAssumption DEF Charge, outside, Post
  <2>2. creator[q].job \in Jobs
    BY DEF TypeOK
  <2>3. charged' = charged + 1
    <3>1. \A k \in Jobs :
            charges'[k] = IF k = creator[q].job THEN charges[k] + 1 ELSE charges[k]
      BY <2>1, <2>2 DEF TypeOK
    <3> QED
      BY <2>2, <3>1, ChargedMoves DEF charged
  <2>4. PrCost * charged' = PrCost * charged + PrCost
    BY <2>3, <1>1, AmountsAssumption
  <2>5. StagesKept /\ IsFiniteSet(receipts') /\ count' = count
    BY <2>1, <1>5, <1>6
  <2> QED
    BY <2>1, <2>4, <2>5, <1>1, <1>2, <1>3, AmountsAssumption
\* The rest of a publication, and a stuttering step, move no money.
<1>13. ASSUME UNCHANGED <<account, outside, stages, charges>> PROVE Goal
  <2>1. StagesKept /\ IsFiniteSet(receipts') /\ count' = count /\ charged' = charged
    BY <1>13, <1>5, <1>6, <1>7 DEF outside
  <2> QED
    BY <1>13, <2>1, <1>2 DEF account, outside
<1>14. ASSUME NEW j \in Jobs, Prepare(j) PROVE Goal
  BY <1>14, <1>13 DEF Prepare
<1>15. ASSUME NEW q \in Creators, NEW j \in Jobs, Enter(q, j) PROVE Goal
  BY <1>15, <1>13 DEF Enter
<1>16. ASSUME NEW q \in Creators,
              CheckCredits(q) \/ Publish(q) \/ PublishFails(q) \/ ChargeRefused(q) \/ AbortCreate(q)
       PROVE  Goal
  <2>1. UNCHANGED <<account, outside, stages, charges>>
    BY <1>16 DEF CheckCredits, Publish, PublishFails, ChargeRefused, AbortCreate
  <2> QED
    BY <2>1, <1>13
<1>17. CASE UNCHANGED vars
  BY <1>17, <1>13 DEF vars, publication
<1> QED
  BY <1>8, <1>9, <1>10, <1>11, <1>12, <1>14, <1>15, <1>16, <1>17 DEF Next, CreateStep

\* Every bought credit is in the account or in one settlement row, and every
\* other movement of the balance is recorded: nothing is lost, refunded twice or
\* bought twice, however stages, charges, payments and deaths interleave.
THEOREM BooksStayBalanced == Spec => []BooksBalance
<1>1. BooksInv => BooksBalance
  BY DEF BooksInv
<1> QED
  BY <1>1, InitBooks, StepBooks, TypeCorrect, PTL DEF Spec

=============================================================================
