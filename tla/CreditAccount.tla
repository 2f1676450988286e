---------------------------- MODULE CreditAccount ----------------------------
(***************************************************************************)
(* The credits of one account (agent_runtime/cognitive_usage_billing, the  *)
(* stages of cognitive_swarm_agents, the Draft PR create route and the     *)
(* credit functions of the backend).  The account has a balance, the part  *)
(* of it that was bought and may pay model providers, and an append-only   *)
(* ledger.  Every transaction begins by locking the account's row, so each *)
(* is one action; the create route alone keeps that lock while it talks to *)
(* GitHub.  A model stage takes credits before it calls the provider and   *)
(* gives back, or takes more of, what the call turned out to cost.         *)
(*                                                                         *)
(* The account is an ordinary one: administrators and rescue repairs are   *)
(* not charged for a Draft PR.                                             *)
(***************************************************************************)
EXTENDS Integers, FiniteSets, Functions

CONSTANTS
  Stages,      \* billed model stages: workers, judge, single agent, ...
  Creators,    \* request threads that create Draft PRs
  Jobs,        \* jobs a Draft PR may be created for
  Purchases,   \* identities of purchase transactions
  Hold,        \* what a stage reserves: an upper bound of its cost
  Bills,       \* what a stage may turn out to cost
  PrCost,      \* what a Draft PR costs
  Bought,      \* what a purchase adds
  Granted,     \* what a bonus adds
  Fee,         \* what a tool, a verification takes
  MaxAnswers,  \* bound: answers a provider gives to one stage
  MaxPrepares, \* bound: preparations of one job
  MaxChanges,  \* bound: bonuses and fees
  MaxAborts,   \* bound: processes that die, and cancelled stages
  GithubFails  \* may a publication fail?

ASSUME AmountsAssumption ==
  /\ Hold \in Nat \ {0} /\ PrCost \in Nat \ {0} /\ Fee \in Nat \ {0}
  /\ Bought \in Nat \ {0} /\ Granted \in Nat \ {0}
  /\ Bills \subseteq Nat
ASSUME AccountBoundsAssumption ==
  /\ MaxAnswers \in Nat /\ MaxPrepares \in Nat
  /\ MaxChanges \in Nat /\ MaxAborts \in Nat
  /\ GithubFails \in BOOLEAN
ASSUME FiniteAssumption == IsFiniteSet(Stages) /\ IsFiniteSet(Jobs)

VARIABLES
  credits, funded, ledger,         \* admin_users row, and the ledger's sum
  receipts, grants, fees,          \* what else moved the balance
  settlement, stage, answers,      \* llm_usage_settlements; the stages
  prState, draft, creator,         \* jobs, GitHub, and the create requests
  prepares, charges,               \* history: preparations and charges
  aborts

account == <<credits, funded, ledger>>
outside == <<receipts, grants, fees>>
stages == <<settlement, stage, answers>>
publication == <<prState, draft, creator, prepares, charges>>
vars == <<account, outside, stages, publication, aborts>>

StagePlaces == {"idle", "calling", "returned", "rejected", "failed", "over"}
SettlementStates == {"none", "reserved", "settled_usage", "refunded",
                     "reconciliation_required"}
CreatorPlaces == {"idle", "entered", "checked", "published"}
Unsettled == [status |-> "none", settled |-> 0]

Init ==
  /\ credits = 0 /\ funded = 0 /\ ledger = 0
  /\ receipts = {} /\ grants = 0 /\ fees = 0
  /\ settlement = [s \in Stages |-> Unsettled]
  /\ stage = [s \in Stages |-> "idle"]
  /\ answers = [s \in Stages |-> 0]
  /\ prState = [j \in Jobs |-> "none"]
  /\ draft = [j \in Jobs |-> FALSE]
  /\ creator \in [Creators -> [place : {"idle"}, job : Jobs]]
  /\ prepares = [j \in Jobs |-> 0]
  /\ charges = [j \in Jobs |-> 0]
  /\ aborts = 0

-----------------------------------------------------------------------------
(* The account row and its lock.                                           *)

\* Mutant of RowFree: the lock is given up before GitHub is called.
RowFreeEarly == \A q \in Creators : creator[q].place # "published"

\* SELECT ... FOR UPDATE: the create request holds the row from its check to
\* its commit; every other transaction is a single step.
RowFree == \A q \in Creators : creator[q].place \notin {"checked", "published"}

Post(amount, fundedAmount) ==
  /\ credits' = credits + amount
  /\ ledger' = ledger + amount
  /\ funded' = funded + fundedAmount

\* CHECK (provider_funded_credits <= credits) of migration 022.
Covered(taken) == funded <= credits - taken

-----------------------------------------------------------------------------
(* Purchases, bonuses and fees: _apply_credit_delta and its like.          *)

\* Mutant of Purchase: the receipt of an earlier delivery is not looked for.
PurchaseAgain(p) ==
  /\ RowFree
  /\ credits < 2 * Bought
  /\ receipts' = receipts \cup {p}
  /\ Post(Bought, Bought)
  /\ UNCHANGED <<grants, fees, stages, publication, aborts>>

\* A purchase confirmed twice finds its receipt and changes nothing.
Purchase(p) ==
  /\ RowFree
  /\ p \notin receipts
  /\ credits = ledger
  /\ receipts' = receipts \cup {p}
  /\ Post(Bought, Bought)
  /\ UNCHANGED <<grants, fees, stages, publication, aborts>>

Grant ==
  /\ RowFree
  /\ grants + fees < MaxChanges
  /\ credits = ledger
  /\ grants' = grants + 1
  /\ Post(Granted, 0)
  /\ UNCHANGED <<receipts, fees, stages, publication, aborts>>

\* A fee never takes from the bought part: refused, or rolled back by the CHECK.
TakeFee ==
  /\ RowFree
  /\ grants + fees < MaxChanges
  /\ credits >= Fee
  /\ Covered(Fee)
  /\ fees' = fees + 1
  /\ Post(-Fee, 0)
  /\ UNCHANGED <<receipts, grants, stages, publication, aborts>>

-----------------------------------------------------------------------------
(* A billed model stage: _run_stage and AgentStageBilling.                 *)

Move(s, place) == stage' = [stage EXCEPT ![s] = place]
Close(s, state, amount) ==
  settlement' = [settlement EXCEPT ![s] = [status |-> state, settled |-> amount]]

Reserve(s) ==
  /\ stage[s] = "idle"
  /\ RowFree
  /\ credits = ledger
  /\ funded >= Hold
  /\ credits >= Hold
  /\ Close(s, "reserved", 0)
  /\ Post(-Hold, -Hold)
  /\ Move(s, "calling")
  /\ UNCHANGED <<answers, outside, publication, aborts>>

RefuseReservation(s) ==
  /\ stage[s] = "idle"
  /\ RowFree
  /\ credits # ledger \/ funded < Hold \/ credits < Hold
  /\ Move(s, "over")
  /\ UNCHANGED <<settlement, answers, account, outside, publication, aborts>>

\* The provider answers one request of the stage, and has been used.
Answer(s) ==
  /\ stage[s] = "calling"
  /\ answers[s] < MaxAnswers
  /\ answers' = [answers EXCEPT ![s] = @ + 1]
  /\ UNCHANGED <<settlement, stage, account, outside, publication, aborts>>

\* Runner.run returns, or raises: with a status that means the request was
\* rejected (400, 401, 403, 404, 429), or in any other way.
CallEnds(s) ==
  /\ stage[s] = "calling"
  /\ \/ answers[s] > 0 /\ Move(s, "returned")
     \/ Move(s, "rejected")
     \/ Move(s, "failed")
  /\ UNCHANGED <<settlement, answers, account, outside, publication, aborts>>

\* The actual cost replaces the reservation.  When it is more than the account
\* can add, settle raises and the reservation stays as it is.
Settle(s, bill) ==
  /\ stage[s] = "returned"
  /\ RowFree
  /\ \/ /\ bill - Hold <= credits
        /\ bill - Hold <= funded
        /\ Post(Hold - bill, Hold - bill)
        /\ Close(s, "settled_usage", bill)
     \/ /\ bill - Hold > credits \/ bill - Hold > funded
        /\ UNCHANGED <<account, settlement>>
  /\ Move(s, "over")
  /\ UNCHANGED <<answers, outside, publication, aborts>>

RefundFailedBeforeUsage(s) ==
  /\ stage[s] = "rejected"
  /\ settlement[s].status = "reserved"
  /\ RowFree
  /\ Post(Hold, Hold)
  /\ Close(s, "refunded", 0)
  /\ Move(s, "over")
  /\ UNCHANGED <<answers, outside, publication, aborts>>

MarkReconciliationRequired(s) ==
  /\ stage[s] = "failed"
  /\ settlement[s].status = "reserved"
  /\ Close(s, "reconciliation_required", 0)
  /\ Move(s, "over")
  /\ UNCHANGED <<answers, account, outside, publication, aborts>>

\* The process dies, or asyncio.run cancels the stage because another one
\* raised: a CancelledError is no Exception and no handler sees it.
AbortStage(s) ==
  /\ aborts < MaxAborts
  /\ stage[s] \notin {"idle", "over"}
  /\ aborts' = aborts + 1
  /\ Move(s, "over")
  /\ UNCHANGED <<settlement, answers, account, outside, publication>>

StageStep(s) ==
  \/ Reserve(s) \/ RefuseReservation(s) \/ Answer(s) \/ CallEnds(s)
  \/ \E bill \in Bills : Settle(s, bill)
  \/ RefundFailedBeforeUsage(s) \/ MarkReconciliationRequired(s)
  \/ AbortStage(s)

-----------------------------------------------------------------------------
(* user_prepare_agent_draft_pr and user_create_agent_draft_pr.             *)

\* mark_draft_pr_prepared, whatever the job's pr_state was; the prepare route
\* takes no lock.
Prepare(j) ==
  /\ prepares[j] < MaxPrepares
  /\ prepares' = [prepares EXCEPT ![j] = @ + 1]
  /\ prState' = [prState EXCEPT ![j] = "ready"]
  /\ UNCHANGED <<draft, creator, charges, account, outside, stages, aborts>>

Step(q, place) == creator' = [creator EXCEPT ![q].place = place]

\* Mutant of Enter: no advisory lock.
EnterUnlocked(q, j) ==
  /\ creator[q].place = "idle"
  /\ prState[j] = "ready"
  /\ creator' = [creator EXCEPT ![q] = [place |-> "entered", job |-> j]]
  /\ UNCHANGED <<prState, draft, prepares, charges, account, outside, stages, aborts>>

\* pg_advisory_xact_lock on the job, then the job is read; a job that is not
\* ready, or already created, is answered without a change.
Enter(q, j) ==
  /\ creator[q].place = "idle"
  /\ \A o \in Creators : creator[o].place = "idle" \/ creator[o].job # j
  /\ prState[j] = "ready"
  /\ creator' = [creator EXCEPT ![q] = [place |-> "entered", job |-> j]]
  /\ UNCHANGED <<prState, draft, prepares, charges, account, outside, stages, aborts>>

CheckCredits(q) ==
  /\ creator[q].place = "entered"
  /\ RowFree
  /\ Step(q, IF credits >= PrCost THEN "checked" ELSE "idle")
  /\ UNCHANGED <<prState, draft, prepares, charges, account, outside, stages, aborts>>

\* create_draft_pr pushes the branch and finds or creates its Draft PR.
Publish(q) ==
  /\ creator[q].place = "checked"
  /\ draft' = [draft EXCEPT ![creator[q].job] = TRUE]
  /\ Step(q, "published")
  /\ UNCHANGED <<prState, prepares, charges, account, outside, stages, aborts>>

\* GitHub refuses, or the Draft PR exists and its readback fails.
PublishFails(q) ==
  /\ GithubFails
  /\ creator[q].place = "checked"
  /\ \/ draft' = [draft EXCEPT ![creator[q].job] = TRUE]
     \/ UNCHANGED draft
  /\ Step(q, "idle")
  /\ UNCHANGED <<prState, prepares, charges, account, outside, stages, aborts>>

\* Mutant of Charge: the job is marked although the charge was refused.
ChargeOrNot(q) ==
  /\ creator[q].place = "published"
  /\ prState' = [prState EXCEPT ![creator[q].job] = "created"]
  /\ IF credits >= PrCost /\ Covered(PrCost)
     THEN Post(-PrCost, 0) /\ charges' = [charges EXCEPT ![creator[q].job] = @ + 1]
     ELSE UNCHANGED <<account, charges>>
  /\ Step(q, "idle")
  /\ UNCHANGED <<draft, prepares, outside, stages, aborts>>

\* The charge, the ledger entry and the job's new state, in one commit.
Charge(q) ==
  /\ creator[q].place = "published"
  /\ credits >= PrCost /\ Covered(PrCost)
  /\ Post(-PrCost, 0)
  /\ prState' = [prState EXCEPT ![creator[q].job] = "created"]
  /\ charges' = [charges EXCEPT ![creator[q].job] = @ + 1]
  /\ Step(q, "idle")
  /\ UNCHANGED <<draft, prepares, outside, stages, aborts>>

\* The balance has changed, or the CHECK fails: the transaction is rolled back
\* and the Draft PR stays.
ChargeRefused(q) ==
  /\ creator[q].place = "published"
  /\ credits < PrCost \/ ~Covered(PrCost)
  /\ Step(q, "idle")
  /\ UNCHANGED <<prState, draft, prepares, charges, account, outside, stages, aborts>>

\* The process dies, or a statement before the commit fails: the locks are
\* released and nothing is kept of the transaction.
AbortCreate(q) ==
  /\ aborts < MaxAborts
  /\ creator[q].place # "idle"
  /\ aborts' = aborts + 1
  /\ Step(q, "idle")
  /\ UNCHANGED <<prState, draft, prepares, charges, account, outside, stages>>

CreateStep(q) ==
  CheckCredits(q) \/ Publish(q) \/ PublishFails(q) \/ Charge(q) \/ ChargeRefused(q)

-----------------------------------------------------------------------------
Next ==
  \/ \E p \in Purchases : Purchase(p)
  \/ Grant
  \/ TakeFee
  \/ \E s \in Stages : StageStep(s)
  \/ \E j \in Jobs : Prepare(j)
  \/ \E q \in Creators : (\E j \in Jobs : Enter(q, j)) \/ CreateStep(q) \/ AbortCreate(q)

Spec == Init /\ [][Next]_vars

\* A user who retries, and requests that are served.
RetrySpec ==
  /\ Spec
  /\ \A q \in Creators : WF_vars(CreateStep(q))
  /\ \A q \in Creators, j \in Jobs : WF_vars(Enter(q, j))

-----------------------------------------------------------------------------
(* Properties.                                                             *)

\* Balances are natural numbers, and everything else has its type.
TypeOK ==
  /\ credits \in Nat /\ funded \in Nat /\ ledger \in Nat
  /\ receipts \subseteq Purchases /\ grants \in Nat /\ fees \in Nat
  /\ settlement \in [Stages -> [status : SettlementStates, settled : Nat]]
  /\ stage \in [Stages -> StagePlaces]
  /\ answers \in [Stages -> Nat]
  /\ prState \in [Jobs -> {"none", "ready", "created"}]
  /\ draft \in [Jobs -> BOOLEAN]
  /\ creator \in [Creators -> [place : CreatorPlaces, job : Jobs]]
  /\ prepares \in [Jobs -> Nat] /\ charges \in [Jobs -> Nat]
  /\ aborts \in Nat

\* "balance is SUM(amount) per user; admin_users.credits is a cache": the cache
\* and the ledger never part, whichever of the transactions run.
LedgerMatches == credits = ledger

\* No settlement, refund, purchase or charge leaves more bought credits than
\* credits; the database's CHECK is needed by the fixed charges alone.
FundedCovered == funded <= credits

\* What a stage has taken from the account, as its settlement row says.
Net(s) ==
  CASE settlement[s].status \in {"reserved", "reconciliation_required"} -> Hold
    [] settlement[s].status = "settled_usage" -> settlement[s].settled
    [] OTHER -> 0

\* Every bought credit is in the account or in exactly one settlement row, and
\* every other movement of the balance has been recorded: nothing is refunded
\* twice, bought twice or lost, whatever stages, charges and deaths interleave.
BooksBalance ==
  LET taken == SumFunction([s \in Stages |-> Net(s)])
  IN  /\ funded = Bought * Cardinality(receipts) - taken
      /\ credits = funded + Granted * grants - Fee * fees
                          - PrCost * SumFunction(charges)

\* A Draft PR recorded as created exists and was paid for.
CreatedIsPaid ==
  \A j \in Jobs : prState[j] = "created" => draft[j] /\ charges[j] > 0

\* Each charge has a preparation of its own: two requests, or a retry after a
\* death between GitHub's answer and the commit, are charged once.
ChargePerPreparation == \A j \in Jobs : charges[j] <= prepares[j]

\* "credit_settlement_race" never happens: what the create route checked before
\* it called GitHub still holds when it takes its price.
NoSettlementRace ==
  \A q \in Creators : creator[q].place = "published" => credits >= PrCost

\* "Atomically release one reservation when OpenRouter rejected before usage."
RefundedUnused ==
  \A s \in Stages : settlement[s].status = "refunded" => answers[s] = 0

\* "Reserve paid credits before each OpenRouter stage and settle actual usage":
\* a stage that is over has no open reservation.
NothingStranded ==
  \A s \in Stages : stage[s] = "over" => settlement[s].status # "reserved"

\* A job's Draft PR is charged once (test_non_admin_success_charges_once...).
ChargedOnce == \A j \in Jobs : charges[j] <= 1

\* "Holding the transaction-scoped lock lets a retry recover an existing Draft
\* PR before one atomic job-state + credit settlement commit."
RetryRecovers == \A j \in Jobs : draft[j] ~> prState[j] = "created"

=============================================================================
