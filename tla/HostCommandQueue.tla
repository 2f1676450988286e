--------------------------- MODULE HostCommandQueue ---------------------------
(***************************************************************************)
(* The queue of mutating host commands: the files of its three directories,*)
(* HostCommandQueueClient (submit, enqueue, status) in the processes that  *)
(* ask for commands, and HostCommandWorker on the host.  Every look at a   *)
(* directory, every rename, write and unlink is a step of its own, and the *)
(* worker may end at any of them; systemd starts it again.                 *)
(***************************************************************************)
EXTENDS Integers, FiniteSets

CONSTANTS
  Requests,    \* request ids, one for each call of enqueue
  Clients,     \* callers of submit, enqueue and status
  Workers,     \* processes that run serve_forever
  None,        \* no request
  MaxPolls,    \* bound: calls of status
  MaxCrashes   \* bound: ends of a worker process

ASSUME QueueAssumption ==
  /\ None \notin Requests
  /\ MaxPolls \in Nat /\ MaxCrashes \in Nat

VARIABLES
  inbox, processing,  \* the requests that have a file there
  outbox,             \* what the file there says of each request
  call,               \* locals of the clients
  worker,             \* locals of the workers
  known,              \* requests whose id a caller has been given
  told,               \* history: <<request, verdict>> given to callers
  begun,              \* history: how often a command was carried out
  ended,              \* history: requests the worker is done with
  polls, crashes

files == <<inbox, processing, outbox>>
callers == <<call, known, told, polls>>
host == <<worker, begun, ended, crashes>>
vars == <<files, callers, host>>

Contents == {"none", "result", "uncertain"}
ClientPlaces == {"idle", "waiting", "lastlook", "withdrawing", "unlinking", "lost",
                 "asking", "asking_processing", "asking_inbox", "reading", "clearing"}
WorkerPlaces == {"down", "idle", "sweeping", "claimed", "running", "ran", "written"}

Init ==
  /\ inbox = {} /\ processing = {}
  /\ outbox = [r \in Requests |-> "none"]
  /\ call = [c \in Clients |-> [place |-> "idle", req |-> None, found |-> "none"]]
  /\ worker = [w \in Workers |-> [place |-> "down", req |-> None]]
  /\ known = {} /\ told = {}
  /\ begun = [r \in Requests |-> 0]
  /\ ended = {}
  /\ polls = 0 /\ crashes = 0

-----------------------------------------------------------------------------
(* HostCommandQueueClient                                                  *)

\* An id that was drawn is not drawn again.
Submitted == {r \in Requests : \/ r \in inbox \cup processing \cup known \cup ended
                               \/ outbox[r] # "none"
                               \/ <<r, "unreadable">> \in told}
At(c, place) == call[c].place = place
Go(c, place) == call' = [call EXCEPT ![c].place = place]

\* The call returns a verdict and the request's id; a result comes without it.
Reply(c, verdict) ==
  /\ told' = told \cup {<<call[c].req, verdict>>}
  /\ known' = IF verdict \in {"result", "unreadable"} THEN known
              ELSE known \cup {call[c].req}
  /\ Go(c, "idle")

\* enqueue: on its own, in submit, or raising after the file is in place
\* (which leaves the caller without the id).
Enqueue(c, r) ==
  /\ At(c, "idle")
  /\ r \notin Submitted
  /\ inbox' = inbox \cup {r}
  /\ \/ /\ call' = [call EXCEPT ![c].place = "waiting", ![c].req = r]
        /\ UNCHANGED known
     \/ /\ call' = [call EXCEPT ![c].req = r]
        /\ known' \in {known, known \cup {r}}
  /\ UNCHANGED <<processing, outbox, told, polls, host>>

\* submit looks every tenth of a second until its time is up.
FindResult(c) ==
  /\ At(c, "waiting") \/ At(c, "lastlook")
  /\ outbox[call[c].req] # "none"
  /\ Go(c, "reading")
  /\ UNCHANGED <<files, known, told, polls, host>>

TimeIsUp(c) ==
  /\ At(c, "waiting")
  /\ Go(c, "lastlook")
  /\ UNCHANGED <<files, known, told, polls, host>>

FindNothing(c) ==
  /\ At(c, "lastlook")
  /\ outbox[call[c].req] = "none"
  /\ Go(c, "withdrawing")
  /\ UNCHANGED <<files, known, told, polls, host>>

LookInInbox(c) ==
  /\ At(c, "withdrawing")
  /\ Go(c, IF call[c].req \in inbox THEN "unlinking" ELSE "lost")
  /\ UNCHANGED <<files, known, told, polls, host>>

Withdraw(c) ==
  /\ At(c, "unlinking")
  /\ IF call[c].req \in inbox
     THEN inbox' = inbox \ {call[c].req} /\ Reply(c, "cancelled")
     ELSE Go(c, "lost") /\ UNCHANGED <<inbox, known, told>>
  /\ UNCHANGED <<processing, outbox, polls, host>>

\* Mutant of GiveUp: what cannot be found counts as cancelled.
GiveUpAsCancelled(c) ==
  /\ At(c, "lost")
  /\ Reply(c, IF call[c].req \in processing THEN "in_progress" ELSE "cancelled")
  /\ UNCHANGED <<files, polls, host>>

GiveUp(c) ==
  /\ At(c, "lost")
  /\ Reply(c, IF call[c].req \in processing THEN "in_progress" ELSE "unknown")
  /\ UNCHANGED <<files, polls, host>>

\* status: the outbox, then processing, then the inbox.
Ask(c, r) ==
  /\ At(c, "idle")
  /\ r \in known
  /\ polls < MaxPolls
  /\ polls' = polls + 1
  /\ call' = [call EXCEPT ![c].place = "asking", ![c].req = r]
  /\ UNCHANGED <<files, known, told, host>>

AskOutbox(c) ==
  /\ At(c, "asking")
  /\ Go(c, IF outbox[call[c].req] # "none" THEN "reading" ELSE "asking_processing")
  /\ UNCHANGED <<files, known, told, polls, host>>

AskProcessing(c) ==
  /\ At(c, "asking_processing")
  /\ IF call[c].req \in processing THEN Reply(c, "in_progress")
     ELSE Go(c, "asking_inbox") /\ UNCHANGED <<known, told>>
  /\ UNCHANGED <<files, polls, host>>

\* Mutant of AskInbox: a request that is not found is looked for again.
AskAgain(c) ==
  /\ At(c, "asking_inbox")
  /\ IF call[c].req \in inbox THEN Reply(c, "queued")
     ELSE Go(c, "asking") /\ UNCHANGED <<known, told>>
  /\ UNCHANGED <<files, polls, host>>

AskInbox(c) ==
  /\ At(c, "asking_inbox")
  /\ Reply(c, IF call[c].req \in inbox THEN "queued" ELSE "not_found")
  /\ UNCHANGED <<files, polls, host>>

\* _read_result: there is nothing (another caller has removed it since it was
\* seen), or the call raises, and the file stays; or what is there is read, and
\* may turn out unreadable: too large, an OSError, no UTF-8, no JSON, not this
\* request's.  Then the file goes just the same.
Read(c) ==
  /\ At(c, "reading")
  /\ \/ Reply(c, "unreadable")
     \/ \E found \in {outbox[call[c].req], "unreadable"} \ {"none"} :
          /\ call' = [call EXCEPT ![c].place = "clearing", ![c].found = found]
          /\ UNCHANGED <<known, told>>
  /\ UNCHANGED <<files, polls, host>>

\* Whatever is there by now is removed.
Clear(c) ==
  /\ At(c, "clearing")
  /\ outbox' = [outbox EXCEPT ![call[c].req] = "none"]
  /\ Reply(c, call[c].found)
  /\ UNCHANGED <<inbox, processing, polls, host>>

-----------------------------------------------------------------------------
(* HostCommandWorker                                                       *)

Doing(w, place) == worker[w].place = place
Step(w, place) == worker' = [worker EXCEPT ![w].place = place]
LetGo(w, place) == worker' = [worker EXCEPT ![w] = [place |-> place, req |-> None]]

\* Mutant of Start: without the flock.
StartUnlocked(w) ==
  /\ Doing(w, "down")
  /\ Step(w, "idle")
  /\ UNCHANGED <<files, callers, begun, ended, crashes>>

\* serve_forever: the process that finds worker.lock taken ends.
Start(w) ==
  /\ Doing(w, "down")
  /\ \A v \in Workers : Doing(v, "down")
  /\ Step(w, "idle")
  /\ UNCHANGED <<files, callers, begun, ended, crashes>>

\* Mutant of Sweep: the command is tried again.
SweepAndRetry(w, r) ==
  /\ Doing(w, "idle")
  /\ r \in processing
  /\ worker' = [worker EXCEPT ![w] = [place |-> "claimed", req |-> r]]
  /\ UNCHANGED <<files, callers, begun, ended, crashes>>

\* A file in processing was left there by a process that ended.
Sweep(w, r) ==
  /\ Doing(w, "idle")
  /\ r \in processing
  /\ outbox' = [outbox EXCEPT ![r] = "uncertain"]
  /\ worker' = [worker EXCEPT ![w] = [place |-> "sweeping", req |-> r]]
  /\ UNCHANGED <<inbox, processing, callers, begun, ended, crashes>>

Claim(w, r) ==
  /\ Doing(w, "idle")
  /\ processing = {}
  /\ r \in inbox
  /\ inbox' = inbox \ {r}
  /\ processing' = processing \cup {r}
  /\ worker' = [worker EXCEPT ![w] = [place |-> "claimed", req |-> r]]
  /\ UNCHANGED <<outbox, callers, begun, ended, crashes>>

\* dispatch refuses the command.
Refuse(w) ==
  /\ Doing(w, "claimed")
  /\ Step(w, "ran")
  /\ ended' = ended \cup {worker[w].req}
  /\ UNCHANGED <<files, callers, begun, crashes>>

Begin(w) ==
  /\ Doing(w, "claimed")
  /\ Step(w, "running")
  /\ begun' = [begun EXCEPT ![worker[w].req] = @ + 1]
  /\ UNCHANGED <<files, callers, ended, crashes>>

\* The command ends or raises; either is its result.
End(w) ==
  /\ Doing(w, "running")
  /\ Step(w, "ran")
  /\ ended' = ended \cup {worker[w].req}
  /\ UNCHANGED <<files, callers, begun, crashes>>

\* Mutant of WriteResult: the claim is given up before the result is there.
ReleaseFirst(w) ==
  /\ Doing(w, "ran")
  /\ IF worker[w].req \in processing
     THEN processing' = processing \ {worker[w].req} /\ UNCHANGED <<outbox, worker>>
     ELSE /\ outbox' = [outbox EXCEPT ![worker[w].req] = "result"]
          /\ Step(w, "idle")
          /\ UNCHANGED processing
  /\ UNCHANGED <<inbox, callers, begun, ended, crashes>>

WriteResult(w) ==
  /\ Doing(w, "ran")
  /\ outbox' = [outbox EXCEPT ![worker[w].req] = "result"]
  /\ Step(w, "written")
  /\ UNCHANGED <<inbox, processing, callers, begun, ended, crashes>>

\* Mutant of Release: the file stays in processing.
ReleaseWithFile(w) ==
  /\ Doing(w, "written") \/ Doing(w, "sweeping")
  /\ Step(w, "idle")
  /\ UNCHANGED <<files, callers, begun, ended, crashes>>

Release(w) ==
  /\ Doing(w, "written") \/ Doing(w, "sweeping")
  /\ processing' = processing \ {worker[w].req}
  /\ LetGo(w, "idle")
  /\ UNCHANGED <<inbox, outbox, callers, begun, ended, crashes>>

\* The process ends: killed, or by an exception that process_once lets out.
Crash(w) ==
  /\ ~Doing(w, "down")
  /\ crashes < MaxCrashes
  /\ crashes' = crashes + 1
  /\ LetGo(w, "down")
  /\ UNCHANGED <<files, callers, begun, ended>>

-----------------------------------------------------------------------------

Answer(c) ==
  \/ FindResult(c) \/ TimeIsUp(c) \/ FindNothing(c) \/ LookInInbox(c)
  \/ Withdraw(c) \/ GiveUp(c)
  \/ AskOutbox(c) \/ AskProcessing(c) \/ AskInbox(c) \/ Read(c) \/ Clear(c)

Serve(w) ==
  \/ Start(w) \/ (\E r \in Requests : Sweep(w, r) \/ Claim(w, r))
  \/ Refuse(w) \/ Begin(w) \/ End(w) \/ WriteResult(w) \/ Release(w)

Next ==
  \/ \E c \in Clients : Answer(c) \/ \E r \in Requests : Enqueue(c, r) \/ Ask(c, r)
  \/ \E w \in Workers : Serve(w) \/ Crash(w)

Spec == Init /\ [][Next]_vars

\* systemd starts the worker again (Restart=always), the handlers return, and
\* a caller's time runs out.
FairSpec ==
  /\ Spec
  /\ \A c \in Clients : WF_vars(Answer(c))
  /\ WF_vars(\E w \in Workers : Serve(w))

-----------------------------------------------------------------------------
(* Properties.                                                             *)

Active(r) == \E w \in Workers : worker[w].req = r /\ worker[w].place \in {"claimed", "running"}

Fate(r) ==
  CASE r \in inbox -> "queued"
    [] <<r, "cancelled">> \in told -> "withdrawn"
    [] r \in ended -> "finished"
    [] Active(r) -> "running"
    [] r \notin Submitted -> "none"
    [] OTHER -> "stopped"

Promise == INSTANCE AtMostOnceCommands WITH fate <- [r \in Requests |-> Fate(r)]

\* A caller has been told how r ended.
Settled(r) == \E v \in Promise!Final : <<r, v>> \in told

\* A caller has been told that r is over: how it ended, or that its result
\* cannot be read.
Over(r) == Settled(r) \/ <<r, "unreadable">> \in told

\* Every variable keeps its type, and a request's file is in one place at most
\* before it has a result.
TypeOK ==
  /\ inbox \subseteq Requests /\ processing \subseteq Requests
  /\ inbox \cap processing = {}
  /\ outbox \in [Requests -> Contents]
  /\ call \in [Clients -> [place : ClientPlaces, req : Requests \cup {None},
                           found : Contents \cup {"unreadable"}]]
  /\ worker \in [Workers -> [place : WorkerPlaces, req : Requests \cup {None}]]
  /\ known \subseteq Requests /\ told \subseteq Requests \X Promise!Verdicts
  /\ begun \in [Requests -> Nat] /\ ended \subseteq Requests
  /\ polls \in Nat /\ crashes \in Nat

\* "The job is never automatically executed again", whatever ends the worker
\* and whenever (process_once).
AtMostOnce == \A r \in Requests : begun[r] <= 1

\* "CANCELLED: timeout happened before the worker claim; execution did not
\* start" - nor does it start later (submit against process_once).
CancelledNeverRuns ==
  \A r \in Requests : <<r, "cancelled">> \in told
                        => begun[r] = 0 /\ r \notin inbox \cup processing

\* A request of which a caller was told that it is over, if only by a result
\* that could not be read, is not under way, and does not get under way: the
\* owner may look at the target's state now
\* ("inspect_target_state_before_any_manual_retry").
FinalVerdictsHold ==
  [][\A r \in Requests :
       Over(r)
         => begun'[r] = begun[r] /\ (r \in ended' <=> r \in ended)]_vars

\* Until a caller has been told that it is over, some file tells of a request
\* that was admitted (process_once writes the result before it gives up the
\* claim; _read_result never removes one without telling the caller something).
NoJobLost ==
  \A r \in Submitted :
    \/ r \in inbox \cup processing
    \/ outbox[r] # "none"
    \/ Over(r)

\* The files and the processes keep the promise of AtMostOnceCommands.
KeepsPromise == Promise!Spec

\* Every request that is queued is withdrawn, carried out or reported uncertain.
QueueDrains == \A r \in Requests : r \in inbox ~> r \notin inbox \cup processing

\* Every call returns.
CallsReturn == \A c \in Clients : ~At(c, "idle") ~> At(c, "idle")

NewlyTold(r, verdict) == <<r, verdict>> \in told' \ told
NoFile(r) == r \notin inbox \cup processing /\ outbox[r] = "none"

\* "Job ist weder in Queue, Verarbeitung noch Ergebnisablage auffindbar"
UnknownIsUnaccounted ==
  [][\A r \in Requests : NewlyTold(r, "unknown") => NoFile(r)]_vars

\* "A queued job has one of these states": status finds a request that is there.
FoundWhileThere ==
  [][\A r \in Requests : NewlyTold(r, "not_found") => NoFile(r)]_vars

\* mcp_host_command_status is registered READ_ONLY, idempotent: a result that
\* was read can be read again.
StatusRepeats ==
  [][\A r \in Requests : NewlyTold(r, "not_found") => <<r, "result">> \notin told]_vars

\* "Host-Worker wurde während der Ausführung neu gestartet": a result that was
\* written is not taken for an interrupted command.
ResultKept ==
  [][\A r \in Requests : outbox[r] = "result" => outbox'[r] # "uncertain"]_vars

=============================================================================
