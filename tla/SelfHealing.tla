----------------------------- MODULE SelfHealing ------------------------------
(***************************************************************************)
(* The self-healing controller (cag_self_healing_runtime): every Gunicorn  *)
(* worker runs the scanner thread of start_cag_self_healing_reconciler,    *)
(* which looks at the recent repository jobs, files an incident for every  *)
(* failure family it finds, has the finding recomputed by the CAG          *)
(* provider, and under a standing authority of the owner starts a repair   *)
(* job.  Nothing but the rows of the database keeps the workers apart.     *)
(*                                                                         *)
(* A case is one observation of one job.  A job that goes on is another    *)
(* case; a listing may be old by the time its jobs are looked at, so any   *)
(* case may be looked at at any time.  The hourly and the daily limit are  *)
(* one Limit: all receipts fall into one window.                           *)
(***************************************************************************)
EXTENDS Naturals, Sequences, FiniteSets

CONSTANTS
  Workers,       \* Gunicorn processes, each with one scanner
  Cases,         \* observations of jobs that violate something
  Width,         \* how many failure families each of them shows
  Stalled,       \* those of jobs that count as timed out
  Limit,         \* max_auto_repairs_per_hour
  MaxApprovals,  \* bound: manual approvals of an incident
  MaxFaults      \* bound: processes that end and exceptions out of a case

ASSUME WorkersAssumption == IsFiniteSet(Workers) /\ Workers # {}
ASSUME CasesAssumption == Cases # {} /\ Width \in [Cases -> Nat \ {0}] /\ Stalled \subseteq Cases
ASSUME LimitAssumption == Limit \in Nat \ {0} /\ MaxApprovals \in Nat /\ MaxFaults \in Nat

VARIABLES
  row,        \* sovereign_self_healing_incidents, by case and failure family
  worker,     \* locals of the scanners
  authority,  \* the owner's grant permits the repairs
  approval,   \* manual approvals that are neither consumed nor over, by case
  receipts,   \* receipts of started repairs, which the limits count, with
              \* those the window holds at the start
  asked,      \* calls of the provider that were claimed
  repairs,    \* history: repair jobs that were started
  unapproved, \* history: how many of them without a manual approval, with those
              \* whose receipts were there at the start
  approved,   \* history: how many with one
  granted,    \* history: manual approvals
  faults

vars == <<row, worker, authority, approval, receipts, asked, repairs,
          unapproved, approved, granted, faults>>
owner == <<authority, approval, granted>>
effects == <<receipts, repairs, unapproved, approved>>

\* Of the terminal ones REPAIR_STARTED alone is ever written: READBACK_RECOVERED
\* needs a stalled case, see Pick, and nothing writes RESOLVED.
Statuses == {"absent", "DETECTED", "CAG_VERIFYING", "CAG_VERIFIED", "WAITING_FOR_AUTHORITY",
             "REPAIR_CLAIMED", "REPAIR_STARTED", "REPAIR_BLOCKED", "FAILED"}

Places == {"idle", "upsert", "assess", "call", "fail", "verify", "review", "contract",
           "consult", "budget", "wait", "act", "recheck", "approve", "start", "block",
           "record", "receipt"}

\* Where a worker is between the claim of the repair and the repair.
Claimed == {"recheck", "approve", "start"}

Families(c) == 1..Width[c]
Singles == {c \in Cases : Width[c] = 1}

\* evidence 0 is cag_verified = FALSE.
NoRow == [status |-> "absent", evidence |-> 0, repair |-> FALSE]
Idle == [place |-> "idle", case |-> CHOOSE c \in Cases : TRUE, seen |-> <<>>, at |-> 1,
         answer |-> 0, exhausted |-> FALSE, permitted |-> FALSE]

Init ==
  /\ row = [c \in Cases |-> [i \in Families(c) |-> NoRow]]
  /\ worker = [w \in Workers |-> Idle]
  /\ authority \in BOOLEAN
  /\ approval = [c \in Singles |-> 0]
  /\ receipts \in 0..Limit /\ unapproved = receipts /\ faults = 0
  /\ asked = [c \in Cases |-> 0] /\ repairs = [c \in Cases |-> 0]
  /\ approved = [c \in Cases |-> 0] /\ granted = [c \in Singles |-> 0]

-----------------------------------------------------------------------------
At(w, place) == worker[w].place = place
Case(w) == worker[w].case
Become(w, locals) == worker' = [worker EXCEPT ![w] = locals]
Go(w, place) == worker' = [worker EXCEPT ![w].place = place]
Fresh(c, place) == [Idle EXCEPT !.case = c, !.place = place]
Done(w) == Become(w, Idle)
\* On to place, where the locals so far are of no use.
Proceed(w, place) == Become(w, Fresh(Case(w), place))
Fault == faults < MaxFaults /\ faults' = faults + 1

Here(w) == row[Case(w)][worker[w].at]
SetStatus(w, status) == row' = [row EXCEPT ![Case(w)][worker[w].at].status = status]

\* Mutant of Onward: the loop ends after its first incident.
OnwardOnce(w, place) == IF place = "idle" THEN Done(w) ELSE Proceed(w, place)

\* A loop over the incidents of the case: on to the next, or after the last to place.
Onward(w, place) ==
  IF worker[w].at < Width[Case(w)]
  THEN worker' = [worker EXCEPT ![w].at = @ + 1]
  ELSE IF place = "idle" THEN Done(w) ELSE Proceed(w, place)

-----------------------------------------------------------------------------
(* What a scan finds out.                                                  *)

\* _build_observation of a candidate, which looks at the job and writes nothing.
\* For one that timed out _readback_available_for_timeout calls run_agent_job_tool,
\* which the module does not import: the candidate is given up with a NameError.
Pick(w, c) ==
  /\ At(w, "idle")
  /\ IF c \in Stalled THEN UNCHANGED worker ELSE Become(w, Fresh(c, "upsert"))
  /\ UNCHANGED <<row, owner, effects, asked, faults>>

\* _upsert_detected_incident, one incident after the other.
Upsert(w) ==
  LET c == Case(w)
      i == Len(worker[w].seen) + 1
      found == IF row[c][i].status = "absent" THEN [NoRow EXCEPT !.status = "DETECTED"]
               ELSE row[c][i]
  IN /\ At(w, "upsert")
     /\ row' = [row EXCEPT ![c][i] = found]
     /\ worker' = [worker EXCEPT ![w].seen = Append(@, found),
                                 ![w].place = IF i = Width[c] THEN "assess" ELSE "upsert"]
     /\ UNCHANGED <<owner, effects, asked, faults>>

Seen(w, status) == \E i \in DOMAIN worker[w].seen : worker[w].seen[i].status = status
Evidence(w) == {worker[w].seen[i].evidence : i \in DOMAIN worker[w].seen} \ {0}

Unfinished(w) == At(w, "assess") /\ ~Seen(w, "REPAIR_STARTED")
NobodyAsks(w) == Unfinished(w) /\ Evidence(w) = {} /\ ~Seen(w, "CAG_VERIFYING")

\* Nothing is done once a repair was started, while another worker asks the
\* provider, and when it was asked in vain.
LeaveAlone(w) ==
  /\ At(w, "assess")
  /\ \/ Seen(w, "REPAIR_STARTED")
     \/ Evidence(w) = {} /\ (Seen(w, "CAG_VERIFYING") \/ ~Seen(w, "DETECTED"))
  /\ Done(w)
  /\ UNCHANGED <<row, owner, effects, asked, faults>>

\* _persisted_cag_evidence: verified rows of one case do not agree.
Diverged(w) ==
  /\ Unfinished(w)
  /\ \E e, f \in Evidence(w) : e # f
  /\ Proceed(w, "fail")
  /\ UNCHANGED <<row, owner, effects, asked, faults>>

\* _persisted_cag_evidence: what was verified is used again.
Reuse(w) ==
  /\ Unfinished(w)
  /\ \E e \in Evidence(w) : /\ Evidence(w) = {e}
                          /\ Become(w, [Fresh(Case(w), "verify") EXCEPT !.answer = e])
  /\ UNCHANGED <<row, owner, effects, asked, faults>>

-----------------------------------------------------------------------------
(* The provider.                                                           *)

\* Mutant of Unasked: the claim does not look at the status.
UnaskedOrFailed(r) == r.evidence = 0

Unasked(r) == r.status = "DETECTED" /\ r.evidence = 0

\* The first of the incidents that were read as DETECTED.
Target(w, i) ==
  /\ i \in DOMAIN worker[w].seen /\ worker[w].seen[i].status = "DETECTED"
  /\ \A j \in 1..(i - 1) : worker[w].seen[j].status # "DETECTED"

\* _claim_incident_for_cag
ClaimForCag(w) ==
  LET c == Case(w)
  IN /\ NobodyAsks(w)
     /\ \E i \in Families(c) :
          /\ Target(w, i)
          /\ IF Unasked(row[c][i])
             THEN /\ row' = [row EXCEPT ![c][i].status = "CAG_VERIFYING"]
                  /\ asked' = [asked EXCEPT ![c] = @ + 1]
                  /\ Become(w, [Fresh(c, "call") EXCEPT !.answer = asked'[c]])
             ELSE Done(w) /\ UNCHANGED <<row, asked>>
     /\ UNCHANGED <<owner, effects, faults>>

\* _cag_verify_observation: the mask agrees, or there is none, or another one.
CagAnswers(w) ==
  /\ At(w, "call")
  /\ Go(w, "verify") \/ Proceed(w, "fail")
  /\ UNCHANGED <<row, owner, effects, asked, faults>>

\* The incidents of a failed verification, or of diverging evidence.
MarkFailed(w) ==
  /\ At(w, "fail")
  /\ SetStatus(w, "FAILED")
  /\ Onward(w, "idle")
  /\ UNCHANGED <<owner, effects, asked, faults>>

\* The loop that stores the evidence, whatever has become of the rows.
MarkVerified(w) ==
  /\ At(w, "verify")
  /\ row' = [row EXCEPT ![Case(w)][worker[w].at] =
                 [@ EXCEPT !.status = "CAG_VERIFIED", !.evidence = worker[w].answer]]
  /\ Onward(w, IF Width[Case(w)] = 1 THEN "contract" ELSE "review")
  /\ UNCHANGED <<owner, effects, asked, faults>>

\* MULTIPLE_FAILURE_FAMILIES_REQUIRE_OWNER_REVIEW
Review(w) ==
  /\ At(w, "review")
  /\ SetStatus(w, "WAITING_FOR_AUTHORITY")
  /\ Onward(w, "idle")
  /\ UNCHANGED <<owner, effects, asked, faults>>

-----------------------------------------------------------------------------
(* The repair of a single failure.                                         *)

\* The row gets the repair contract, and its status a second time.
StoreContract(w) ==
  /\ At(w, "contract")
  /\ SetStatus(w, "CAG_VERIFIED")
  /\ Proceed(w, "consult")
  /\ UNCHANGED <<owner, effects, asked, faults>>

\* _authority_row and _authority_permits, before the claim.
Consult(w) ==
  /\ At(w, "consult")
  /\ Proceed(w, IF authority THEN "budget" ELSE "wait")
  /\ UNCHANGED <<row, owner, effects, asked, faults>>

\* Mutant of Exhausted: off by one.
ExhaustedLate == receipts > Limit

\* _recent_action_count
Exhausted == receipts >= Limit

\* An exhausted limit needs a manual approval, which is consumed later.
CheckBudget(w) ==
  /\ At(w, "budget")
  /\ IF Exhausted /\ approval[Case(w)] = 0 THEN Proceed(w, "wait")
     ELSE worker' = [worker EXCEPT ![w].place = "act", ![w].exhausted = Exhausted]
  /\ UNCHANGED <<row, owner, effects, asked, faults>>

Wait(w) ==
  /\ At(w, "wait")
  /\ SetStatus(w, "WAITING_FOR_AUTHORITY")
  /\ Done(w)
  /\ UNCHANGED <<owner, effects, asked, faults>>

\* Mutant of Claimable: without repair_job_id IS NULL.
ClaimableAgain(r) == r.status \in {"CAG_VERIFIED", "WAITING_FOR_AUTHORITY"}

Claimable(r) == r.status \in {"CAG_VERIFIED", "WAITING_FOR_AUTHORITY"} /\ ~r.repair

\* _claim_incident_for_action; permitted is history.
ClaimForAction(w) ==
  /\ At(w, "act")
  /\ IF Claimable(Here(w))
     THEN /\ SetStatus(w, "REPAIR_CLAIMED")
          /\ worker' = [worker EXCEPT ![w].place = "recheck", ![w].permitted = authority]
     ELSE Done(w) /\ UNCHANGED row
  /\ UNCHANGED <<owner, effects, asked, faults>>

\* Mutant of StillPermits: the grant read before the claim is used again.
PermittedBefore(w) == TRUE

StillPermits(w) == authority

\* "Consent revocation/expiry is re-read after the effect claim".
Recheck(w) ==
  /\ At(w, "recheck")
  /\ IF StillPermits(w) THEN Go(w, IF worker[w].exhausted THEN "approve" ELSE "start")
     ELSE Proceed(w, "wait")
  /\ UNCHANGED <<row, owner, effects, asked, faults>>

\* Mutant of Consumed: it is only read.
NotConsumed(c) == approval

Consumed(c) == [approval EXCEPT ![c] = @ - 1]

\* _claim_manual_approval
UseApproval(w) ==
  /\ At(w, "approve")
  /\ IF approval[Case(w)] > 0
     THEN approval' = Consumed(Case(w)) /\ Go(w, "start")
     ELSE Proceed(w, "wait") /\ UNCHANGED approval
  /\ UNCHANGED <<row, authority, granted, effects, asked, faults>>

RepairQueued(w) ==
  /\ repairs' = [repairs EXCEPT ![Case(w)] = @ + 1]
  /\ IF worker[w].exhausted
     THEN approved' = [approved EXCEPT ![Case(w)] = @ + 1] /\ UNCHANGED unapproved
     ELSE unapproved' = unapproved + 1 /\ UNCHANGED approved

\* _start_code_repair; it may raise before the job is queued, and after it.
StartRepair(w) ==
  /\ At(w, "start")
  /\ \/ RepairQueued(w) /\ Proceed(w, "record") /\ UNCHANGED faults
     \/ Proceed(w, "block") /\ UNCHANGED <<repairs, unapproved, approved, faults>>
     \/ RepairQueued(w) /\ Proceed(w, "block") /\ Fault
  /\ UNCHANGED <<row, owner, receipts, asked>>

Block(w) ==
  /\ At(w, "block")
  /\ SetStatus(w, "REPAIR_BLOCKED")
  /\ Done(w)
  /\ UNCHANGED <<owner, effects, asked, faults>>

\* The status, the owner and the id of the repair job.
Record(w) ==
  /\ At(w, "record")
  /\ row' = [row EXCEPT ![Case(w)][1] = [@ EXCEPT !.status = "REPAIR_STARTED", !.repair = TRUE]]
  /\ Go(w, "receipt")
  /\ UNCHANGED <<owner, effects, asked, faults>>

\* The receipt REPAIR_JOB_STARTED, from here on counted by _recent_action_count.
AddReceipt(w) ==
  /\ At(w, "receipt")
  /\ receipts' = receipts + 1
  /\ Done(w)
  /\ UNCHANGED <<row, owner, repairs, unapproved, approved, asked, faults>>

\* The process ends, or an exception leaves the case: either way the next scan
\* starts from the rows.
Fail(w) ==
  /\ ~At(w, "idle")
  /\ Fault
  /\ Done(w)
  /\ UNCHANGED <<row, owner, effects, asked>>

-----------------------------------------------------------------------------
(* The owner.                                                              *)

\* _upsert_authority with a grant that covers the repairs.
Grant ==
  /\ authority' = TRUE
  /\ worker' = [w \in Workers |-> [worker[w] EXCEPT !.permitted = worker[w].place \in Claimed]]
  /\ UNCHANGED <<row, approval, granted, effects, asked, faults>>

\* _revoke_authority; a grant that is paused, narrower or over permits as little.
Revoke ==
  /\ authority' = FALSE
  /\ UNCHANGED <<row, worker, approval, granted, effects, asked, faults>>

\* _grant_manual_incident_approval, in one step.  A request that finds a valid
\* approval changes nothing; of two that overlap each may find none and insert its own.
Approve(c) ==
  /\ row[c][1].status = "WAITING_FOR_AUTHORITY" /\ row[c][1].evidence # 0
  /\ granted[c] < MaxApprovals
  /\ approval' = [approval EXCEPT ![c] = @ + 1]
  /\ granted' = [granted EXCEPT ![c] = @ + 1]
  /\ UNCHANGED <<row, worker, authority, effects, asked, faults>>

\* An approval is over.
Expire(c) ==
  /\ approval[c] > 0
  /\ approval' = [approval EXCEPT ![c] = @ - 1]
  /\ UNCHANGED <<row, worker, authority, granted, effects, asked, faults>>

-----------------------------------------------------------------------------

Scan(w) ==
  \/ Upsert(w) \/ LeaveAlone(w) \/ Diverged(w) \/ Reuse(w)
  \/ ClaimForCag(w) \/ CagAnswers(w) \/ MarkFailed(w) \/ MarkVerified(w) \/ Review(w)
  \/ StoreContract(w) \/ Consult(w) \/ CheckBudget(w) \/ Wait(w) \/ ClaimForAction(w)
  \/ Recheck(w) \/ UseApproval(w) \/ StartRepair(w) \/ Block(w) \/ Record(w)
  \/ AddReceipt(w)

Next ==
  \/ \E w \in Workers : Scan(w) \/ Fail(w) \/ \E c \in Cases : Pick(w, c)
  \/ Grant \/ Revoke
  \/ \E c \in Singles : Approve(c) \/ Expire(c)

Spec == Init /\ [][Next]_vars

\* The scanner is a loop without an end, and the passes take up every candidate.
FairSpec ==
  /\ Spec
  /\ \A w \in Workers : WF_vars(Scan(w))
  /\ \A c \in Cases : SF_vars(\E w \in Workers : Pick(w, c))

-----------------------------------------------------------------------------
(* Properties                                                              *)

Rows == [status : Statuses, evidence : Nat, repair : BOOLEAN]
Locals == [place : Places, case : Cases, seen : Seq(Rows), at : Nat, answer : Nat,
           exhausted : BOOLEAN, permitted : BOOLEAN]

TypeOK ==
  /\ DOMAIN row = Cases /\ \A c \in Cases : row[c] \in [Families(c) -> Rows]
  /\ worker \in [Workers -> Locals]
  /\ \A w \in Workers : worker[w].at \in Families(Case(w))
  /\ authority \in BOOLEAN
  /\ approval \in [Singles -> Nat]
  /\ receipts \in Nat /\ unapproved \in Nat /\ faults \in Nat
  /\ asked \in [Cases -> Nat] /\ repairs \in [Cases -> Nat]
  /\ approved \in [Cases -> Nat] /\ granted \in [Singles -> Nat]

\* The provider is asked at most once about each incident, for a single failure
\* therefore once for good, whoever else asks, fails, ends and starts again.
AskedOnce == \A c \in Cases : asked[c] <= Width[c]

\* The claim on an incident does not keep two workers from repairing it; what the
\* code does keep is that each worker, and each that ends, repairs it once at most.
RepairsBounded == \A c \in Cases : repairs[c] <= Cardinality(Workers) + faults

\* The limit is read before the claim and fed after the repair: without approvals
\* no more repairs are started than the workers can have under way beyond it.
OvershootBounded == unapproved <= Limit + Cardinality(Workers) - 1 + faults

\* A worker starts no repair unless the grant has permitted it at some time since
\* its claim: a grant revoked before that is honoured, however old the scan is.
RepairedUnderGrant ==
  \A w \in Workers : worker[w].place \in {"approve", "start"} => worker[w].permitted

\* No manual approval pays for two repairs, and none for another incident's.
ApprovalsCover == \A c \in Singles : approved[c] <= granted[c]

\* While no process ends, every case is decided or handed to the owner: also the
\* incident that each loop over the families comes to last.
Decided(r) ==
  r.repair \/ r.status \in {"WAITING_FOR_AUTHORITY", "REPAIR_BLOCKED", "FAILED"}

CasesDecided ==
  [](faults = 0) => \A c \in Cases : row[c][Width[c]].status = "DETECTED"
                                        ~> Decided(row[c][Width[c]])

\* "DB claims prevent duplicate effects": one incident, one repair job.
OneRepair == \A c \in Cases : repairs[c] <= 1

\* "rate-limited": without an approval no more repairs than the limit.
WithinLimit == unapproved <= Limit

\* "Never duplicate the Wolfram request": one worker at a time asks about a case.
OneCallAtATime ==
  \A v, w \in Workers : At(v, "call") /\ At(w, "call") /\ Case(v) = Case(w) => v = w

\* A job that has timed out gets its incident.
StalledIsFiled == \A c \in Stalled : <>(row[c][1].status # "absent")

=============================================================================
