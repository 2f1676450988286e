---------------------- MODULE HostCommandQueue_proofs -----------------------
(* What holds of HostCommandQueue for any requests, callers, workers and     *)
(* bounds.                                                                   *)
EXTENDS HostCommandQueue, FiniteSums

(* The invariant.                                                            *)

Busy(c) == ~At(c, "idle")

\* c has seen a result of r.
Found(c, r) == (At(c, "reading") \/ At(c, "clearing")) /\ call[c].req = r

\* A file, or a caller, knows of r.
Tracked(r) == r \in inbox \cup processing \/ outbox[r] # "none" \/ Over(r)

\* No worker has come near r.
Untouched(r) ==
  /\ r \notin processing /\ outbox[r] = "none"
  /\ begun[r] = 0 /\ r \notin ended
  /\ \A c \in Clients : ~Found(c, r)

\* Nothing has been made of r yet that a caller could be told.
Open(r) ==
  /\ outbox[r] = "none" /\ r \notin ended
  /\ ~Over(r)
  /\ \A c \in Clients : ~Found(c, r)

\* worker.lock.
OneWorker == \A v, w \in Workers : Doing(v, "down") \/ Doing(w, "down") \/ v = w

QueuedUntouched == \A r \in inbox : Untouched(r) /\ ~Over(r)

CancelledUntouched ==
  \A r \in Requests : <<r, "cancelled">> \in told => Untouched(r) /\ r \notin inbox

\* What the place of a worker says of the request it has.
InHand(w) ==
  LET r == worker[w].req IN
  /\ ~Doing(w, "down") /\ ~Doing(w, "idle") => r \in processing
  /\ Doing(w, "claimed") => begun[r] = 0 /\ Open(r)
  /\ Doing(w, "running") => begun[r] = 1 /\ Open(r)
  /\ Doing(w, "ran") \/ Doing(w, "written") => r \in ended
  /\ Doing(w, "written") \/ Doing(w, "sweeping") => outbox[r] # "none" \/ Over(r)

WorkInHand == \A w \in Workers : InHand(w)

AllTracked ==
  /\ \A r \in Requests : r \in known \cup ended \/ begun[r] > 0 => Tracked(r)
  /\ \A c \in Clients : Busy(c) => call[c].req \in Requests /\ Tracked(call[c].req)
  /\ \A r \in Requests : Settled(r) => r \in known \cup ended

ResultsAreOfEnded ==
  /\ \A r \in Requests : outbox[r] = "result" \/ <<r, "result">> \in told => r \in ended
  /\ \A c \in Clients : At(c, "clearing") =>
       /\ call[c].found \in {"result", "uncertain", "unreadable"}
       /\ call[c].found = "result" => call[c].req \in ended

Inv ==
  /\ OneWorker /\ QueuedUntouched /\ CancelledUntouched /\ WorkInHand
  /\ AtMostOnce /\ AllTracked /\ ResultsAreOfEnded

QueueInv == TypeOK /\ Inv

-----------------------------------------------------------------------------
(* Types.                                                                    *)

LEMMA VerdictsAre ==
  /\ Promise!Final = {"result", "uncertain", "cancelled"}
  /\ Promise!Verdicts = {"result", "uncertain", "cancelled", "queued", "in_progress",
                         "unknown", "not_found", "unreadable"}
  BY DEF Promise!Final, Promise!Verdicts

LEMMA SettledMeans ==
  ASSUME NEW r
  PROVE  /\ Settled(r) <=> \/ <<r, "result">> \in told \/ <<r, "uncertain">> \in told
                          \/ <<r, "cancelled">> \in told
         /\ Settled(r)' <=> \/ <<r, "result">> \in told' \/ <<r, "uncertain">> \in told'
                           \/ <<r, "cancelled">> \in told'
         /\ Over(r) <=> Settled(r) \/ <<r, "unreadable">> \in told
         /\ Over(r)' <=> Settled(r)' \/ <<r, "unreadable">> \in told'
<1>1. Settled(r) <=> \/ <<r, "result">> \in told \/ <<r, "uncertain">> \in told
                    \/ <<r, "cancelled">> \in told
  BY VerdictsAre DEF Settled
<1>2. Settled(r)' <=> \/ <<r, "result">> \in told' \/ <<r, "uncertain">> \in told'
                     \/ <<r, "cancelled">> \in told'
  BY VerdictsAre DEF Settled
<1> QED
  BY <1>1, <1>2 DEF Over

LEMMA InitTypes == Init => TypeOK
  BY QueueAssumption DEF Init, TypeOK, Contents, ClientPlaces, WorkerPlaces

LEMMA VerdictsIn ==
  /\ "result" \in Promise!Verdicts /\ "uncertain" \in Promise!Verdicts
  /\ "cancelled" \in Promise!Verdicts /\ "queued" \in Promise!Verdicts
  /\ "in_progress" \in Promise!Verdicts /\ "unknown" \in Promise!Verdicts
  /\ "not_found" \in Promise!Verdicts /\ "unreadable" \in Promise!Verdicts
  BY VerdictsAre

LEMMA PlacesIn ==
  /\ "idle" \in ClientPlaces /\ "waiting" \in ClientPlaces /\ "lastlook" \in ClientPlaces
  /\ "withdrawing" \in ClientPlaces /\ "unlinking" \in ClientPlaces /\ "lost" \in ClientPlaces
  /\ "asking" \in ClientPlaces /\ "asking_processing" \in ClientPlaces
  /\ "asking_inbox" \in ClientPlaces /\ "reading" \in ClientPlaces
  /\ "clearing" \in ClientPlaces
  /\ "down" \in WorkerPlaces /\ "idle" \in WorkerPlaces /\ "sweeping" \in WorkerPlaces
  /\ "claimed" \in WorkerPlaces /\ "running" \in WorkerPlaces /\ "ran" \in WorkerPlaces
  /\ "written" \in WorkerPlaces
  /\ "none" \in Contents /\ "result" \in Contents /\ "uncertain" \in Contents
  BY DEF ClientPlaces, WorkerPlaces, Contents

Call == [place : ClientPlaces, req : Requests \cup {None}, found : Contents \cup {"unreadable"}]
Calls == [Clients -> Call]
Works == [Workers -> [place : WorkerPlaces, req : Requests \cup {None}]]

LEMMA CallTypes ==
  ASSUME TypeOK, NEW c \in Clients, NEW new \in Call, call' = [call EXCEPT ![c] = new]
  PROVE  call' \in Calls
  BY DEF TypeOK, Calls, Call

LEMMA GoTypes ==
  ASSUME TypeOK, NEW c \in Clients, NEW place \in ClientPlaces, Go(c, place)
  PROVE  call' \in Calls
<1> DEFINE new == [call[c] EXCEPT !.place = place]
<1>1. new \in Call
  BY DEF TypeOK, Call
<1>2. call' = [call EXCEPT ![c] = new]
  BY DEF Go
<1> HIDE DEF new
<1> QED
  BY <1>1, <1>2, CallTypes

LEMMA ReplyTypes ==
  ASSUME TypeOK, NEW c \in Clients, NEW v \in Promise!Verdicts, call[c].req \in Requests,
         Reply(c, v)
  PROVE  call' \in Calls /\ known' \subseteq Requests
         /\ told' \subseteq Requests \X Promise!Verdicts
<1>1. call' \in Calls
  BY GoTypes, PlacesIn DEF Reply
<1>2. known' \subseteq Requests
  BY DEF TypeOK, Reply
<1>3. told' \subseteq Requests \X Promise!Verdicts
  BY DEF TypeOK, Reply
<1> QED
  BY <1>1, <1>2, <1>3

LEMMA StepTypes == QueueInv /\ [Next]_vars => TypeOK'
<1> SUFFICES ASSUME QueueInv, [Next]_vars PROVE TypeOK'
  OBVIOUS
<1> USE QueueAssumption, VerdictsIn, PlacesIn
    DEF QueueInv, Inv, TypeOK, files, callers, host, At, Doing
<1>1. ASSUME NEW c \in Clients, NEW r \in Requests, Enqueue(c, r) PROVE TypeOK'
  <2>1. inbox' \subseteq Requests /\ inbox' \cap processing' = {} /\ known' \subseteq Requests
    BY <1>1 DEF Enqueue, Submitted
  <2>2. call' \in Calls
    <3>1. CASE call' = [call EXCEPT ![c].place = "waiting", ![c].req = r]
      <4> DEFINE new == [call[c] EXCEPT !.place = "waiting", !.req = r]
      <4>0. call[c] \in Call /\ "waiting" \in ClientPlaces
        BY DEF Call
      <4>1. new \in Call
        BY <4>0 DEF Call
      <4>2. call' = [call EXCEPT ![c] = new]
        BY <3>1
      <4> HIDE DEF new
      <4> QED
        BY <4>1, <4>2, CallTypes
    <3>2. CASE call' = [call EXCEPT ![c].req = r]
      <4> DEFINE new == [call[c] EXCEPT !.req = r]
      <4>1. new \in Call
        BY DEF Call
      <4>2. call' = [call EXCEPT ![c] = new]
        BY <3>2
      <4> HIDE DEF new
      <4> QED
        BY <4>1, <4>2, CallTypes
    <3> QED
      BY <1>1, <3>1, <3>2 DEF Enqueue
  <2> QED
    BY <1>1, <2>1, <2>2 DEF Enqueue, Calls, Call
<1>2. ASSUME NEW c \in Clients, NEW r \in Requests, Ask(c, r) PROVE TypeOK'
  <2> DEFINE new == [call[c] EXCEPT !.place = "asking", !.req = r]
  <2>0. call[c] \in Call /\ "asking" \in ClientPlaces
    BY DEF Call
  <2>1. new \in Call
    BY <2>0 DEF Call
  <2>3. call' = [call EXCEPT ![c] = new]
    BY <1>2 DEF Ask
  <2> HIDE DEF new
  <2>2. call' \in Calls
    BY <2>1, <2>3, CallTypes
  <2> QED
    BY <1>2, <2>2 DEF Ask, Calls, Call
<1>3. ASSUME NEW c \in Clients, Answer(c) PROVE TypeOK'
  <2>0. call[c].req \in Requests
    BY <1>3 DEF AllTracked, Busy, Answer, FindResult, TimeIsUp, FindNothing, LookInInbox,
                Withdraw, GiveUp, AskOutbox, AskProcessing, AskInbox, Read, Clear
  <2>1. CASE FindResult(c) \/ TimeIsUp(c) \/ FindNothing(c) \/ LookInInbox(c) \/ AskOutbox(c)
    <3>1. PICK place \in ClientPlaces : Go(c, place)
      BY <2>1 DEF FindResult, TimeIsUp, FindNothing, LookInInbox, AskOutbox
    <3> QED
      BY <2>1, <3>1, GoTypes
         DEF FindResult, TimeIsUp, FindNothing, LookInInbox, AskOutbox, Calls, Call
  <2>2. CASE Withdraw(c)
    BY <2>0, <2>2, GoTypes, ReplyTypes DEF Withdraw, Calls, Call
  <2>3. CASE GiveUp(c) \/ AskInbox(c)
    <3>1. PICK v \in Promise!Verdicts : Reply(c, v)
      BY <2>3 DEF GiveUp, AskInbox
    <3> QED
      BY <2>0, <2>3, <3>1, ReplyTypes DEF GiveUp, AskInbox, Calls, Call
  <2>4. CASE AskProcessing(c)
    BY <2>0, <2>4, GoTypes, ReplyTypes DEF AskProcessing, Calls, Call
  <2>5. CASE Read(c)
    <3>1. CASE Reply(c, "unreadable")
      BY <2>0, <2>5, <3>1, ReplyTypes DEF Read, Calls, Call
    <3>2. ASSUME NEW found \in {outbox[call[c].req], "unreadable"} \ {"none"},
                 call' = [call EXCEPT ![c].place = "clearing", ![c].found = found],
                 UNCHANGED <<known, told>>
          PROVE  TypeOK'
      <4>0. outbox[call[c].req] \in Contents
        BY <2>0
      <4>1. call' \in Calls
        <5> DEFINE new == [call[c] EXCEPT !.place = "clearing", !.found = found]
        <5>1. new \in Call
          BY <4>0, ZenonT(60) DEF Call
        <5>2. call' = [call EXCEPT ![c] = new]
          BY <3>2
        <5> HIDE DEF new
        <5> QED
          BY <5>1, <5>2, CallTypes
      <4> QED
        BY <2>5, <3>2, <4>1 DEF Read, Calls, Call
    <3> QED
      BY <2>5, <3>1, <3>2 DEF Read
  <2>6. CASE Clear(c)
    <3>1. call[c].found \in Promise!Verdicts
      BY <2>6 DEF Clear, ResultsAreOfEnded
    <3> QED
      BY <2>0, <2>6, <3>1, ReplyTypes DEF Clear, Calls, Call
  <2> QED
    BY <1>3, <2>1, <2>2, <2>3, <2>4, <2>5, <2>6 DEF Answer
<1>4. ASSUME NEW w \in Workers, Start(w) \/ Crash(w) PROVE TypeOK'
  BY <1>4, SMTT(30) DEF Start, Crash, Step, LetGo
<1>5. ASSUME NEW w \in Workers, NEW r \in Requests, Sweep(w, r) \/ Claim(w, r) PROVE TypeOK'
  BY <1>5, SMTT(30) DEF Sweep, Claim
<1>6. ASSUME NEW w \in Workers, Refuse(w) \/ Begin(w) \/ End(w) PROVE TypeOK'
  <2>1. worker' \in Works
    BY <1>6 DEF Refuse, Begin, End, Step, Works
  <2>2. worker[w].req \in Requests
    BY <1>6 DEF Refuse, Begin, End, WorkInHand, InHand
  <2>3. begun' \in [Requests -> Nat] /\ ended' \subseteq Requests
    BY <1>6, <2>2 DEF Refuse, Begin, End
  <2> QED
    BY <1>6, <2>1, <2>3 DEF Refuse, Begin, End, Works
<1>7. ASSUME NEW w \in Workers, WriteResult(w) \/ Release(w) PROVE TypeOK'
  BY <1>7, SMTT(30) DEF WriteResult, Release, Step, LetGo
<1>8. CASE UNCHANGED vars
  BY <1>8 DEF vars
<1> QED
  BY <1>1, <1>2, <1>3, <1>4, <1>5, <1>6, <1>7, <1>8 DEF Next, Serve

-----------------------------------------------------------------------------
(* The invariant is kept.                                                    *)

LEMMA InitInv == Init => QueueInv
<1> SUFFICES ASSUME Init PROVE QueueInv
  OBVIOUS
<1>1. TypeOK
  BY InitTypes
<1>2. \A r \in Requests : ~Settled(r) /\ ~Over(r)
  BY DEF Init, Settled, Over
<1>3. OneWorker /\ QueuedUntouched /\ CancelledUntouched /\ WorkInHand /\ AtMostOnce
      /\ ResultsAreOfEnded
  BY DEF Init, OneWorker, QueuedUntouched, CancelledUntouched, WorkInHand, InHand, AtMostOnce,
         ResultsAreOfEnded, Doing, At
<1>4. AllTracked
  BY <1>2 DEF Init, AllTracked, Busy, At
<1> QED
  BY <1>1, <1>3, <1>4 DEF QueueInv, Inv

\* A caller looks, asks, or gives an answer that leaves the end of r open.
Quiet(c) ==
  /\ UNCHANGED <<files, host>>
  /\ \A d \in Clients \ {c} : call'[d] = call[d]
  /\ call'[c].place # "clearing"
  /\ call'[c].place = "reading" => outbox[call'[c].req] # "none"
  /\ call'[c].place # "idle" => call'[c].req \in Requests /\ Tracked(call'[c].req)
  /\ known \subseteq known' /\ \A r \in known' : r \in known \/ Tracked(r)
  /\ told \subseteq told'
  /\ \A r \in Requests, v \in {"result", "uncertain", "cancelled", "unreadable"} :
       <<r, v>> \in told' => <<r, v>> \in told

LEMMA QuietStep ==
  ASSUME QueueInv, NEW c \in Clients, Quiet(c)
  PROVE  Inv'
<1> USE DEF QueueInv, Inv, Quiet, files, host, Doing, At
<1>1. ASSUME NEW r \in Requests
      PROVE  /\ Settled(r)' <=> Settled(r)
             /\ Over(r)' <=> Over(r)
             /\ <<r, "cancelled">> \in told' <=> <<r, "cancelled">> \in told
             /\ <<r, "result">> \in told' <=> <<r, "result">> \in told
  <2>1. /\ <<r, "cancelled">> \in told' <=> <<r, "cancelled">> \in told
        /\ <<r, "uncertain">> \in told' <=> <<r, "uncertain">> \in told
        /\ <<r, "result">> \in told' <=> <<r, "result">> \in told
        /\ <<r, "unreadable">> \in told' <=> <<r, "unreadable">> \in told
    OBVIOUS
  <2> QED
    BY <2>1, SettledMeans
<1>2. \A r \in Requests : Tracked(r)' <=> Tracked(r)
  BY <1>1 DEF Tracked
<1>3. \A r \in Requests, d \in Clients : Found(d, r)' => Found(d, r) \/ outbox[r] # "none"
  BY DEF Found
<1>4. \A r \in Requests : Untouched(r) => Untouched(r)'
  BY <1>3 DEF Untouched
<1>5. \A r \in Requests : Open(r) => Open(r)'
  BY <1>1, <1>3 DEF Open
<1>6. OneWorker'
  BY DEF OneWorker
<1>7. QueuedUntouched'
  BY <1>1, <1>4 DEF QueuedUntouched, TypeOK
<1>8. CancelledUntouched'
  BY <1>1, <1>4 DEF CancelledUntouched
<1>9. WorkInHand'
  BY <1>1, <1>5 DEF WorkInHand, InHand, TypeOK
<1>10. AtMostOnce'
  BY DEF AtMostOnce
<1>11. AllTracked'
  BY <1>1, <1>2 DEF AllTracked, Busy
<1>12. ResultsAreOfEnded'
  BY <1>1 DEF ResultsAreOfEnded
<1> QED
  BY <1>6, <1>7, <1>8, <1>9, <1>10, <1>11, <1>12

\* The steps of a caller that leave the files alone.
LEMMA CallersAreQuiet ==
  ASSUME QueueInv, NEW c \in Clients,
         \/ FindResult(c) \/ TimeIsUp(c) \/ FindNothing(c) \/ LookInInbox(c) \/ GiveUp(c)
         \/ AskOutbox(c) \/ AskProcessing(c) \/ AskInbox(c)
  PROVE  Quiet(c)
<1> USE DEF QueueInv, Inv, Quiet, files, host, TypeOK, At
<1>0. Busy(c) => call[c].req \in Requests /\ Tracked(call[c].req)
  BY DEF AllTracked
<1>1. CASE FindResult(c) \/ TimeIsUp(c) \/ FindNothing(c) \/ LookInInbox(c) \/ AskOutbox(c)
  BY <1>0, <1>1 DEF FindResult, TimeIsUp, FindNothing, LookInInbox, AskOutbox, Go, Busy
<1>2. CASE GiveUp(c) \/ AskInbox(c)
  BY <1>0, <1>2, VerdictsAre DEF GiveUp, AskInbox, Reply, Go, Busy
<1>3. CASE AskProcessing(c)
  BY <1>0, <1>3, VerdictsAre DEF AskProcessing, Reply, Go, Busy
<1> QED
  BY <1>1, <1>2, <1>3

LEMMA AskingIsQuiet ==
  ASSUME QueueInv, NEW c \in Clients, NEW r \in Requests, Ask(c, r)
  PROVE  Quiet(c)
<1>1. Tracked(r)
  BY DEF QueueInv, Inv, Ask, AllTracked
<1> QED
  BY <1>1 DEF QueueInv, TypeOK, Ask, Quiet, files, host

\* A request that is admitted is a fresh one.
LEMMA NewRequest ==
  ASSUME QueueInv, NEW r \in Requests, r \notin Submitted
  PROVE  ~Tracked(r) /\ Untouched(r) /\ (\A c \in Clients : Busy(c) => call[c].req # r)
<1> USE DEF QueueInv, Inv, TypeOK
<1>1. ~Tracked(r)
  BY DEF Submitted, Tracked, AllTracked, Over
<1>2. begun[r] = 0 /\ \A c \in Clients : Busy(c) => call[c].req # r
  BY <1>1 DEF AllTracked
<1> QED
  BY <1>1, <1>2 DEF Submitted, Untouched, Found, Busy, At

LEMMA EnqueueStep ==
  ASSUME QueueInv, NEW c \in Clients, NEW r \in Requests, Enqueue(c, r)
  PROVE  Inv'
<1> USE DEF QueueInv, Inv, files, callers, host, Doing, At
<1>0. /\ inbox' = inbox \cup {r} /\ UNCHANGED <<processing, outbox, told, host>>
      /\ known \subseteq known' /\ known' \subseteq known \cup {r}
      /\ At(c, "idle") /\ r \notin Submitted
  BY DEF Enqueue
<1>1. /\ \A d \in Clients \ {c} : call'[d] = call[d]
      /\ call'[c].place # "clearing" /\ call'[c].place # "reading"
      /\ call'[c].place # "idle" => call'[c].req = r
  BY DEF Enqueue, TypeOK
<1>2. ~Tracked(r) /\ Untouched(r) /\ (\A d \in Clients : Busy(d) => call[d].req # r)
  BY <1>0, NewRequest
<1>3. ASSUME NEW q \in Requests PROVE (Settled(q)' <=> Settled(q)) /\ (Over(q)' <=> Over(q))
  BY <1>0 DEF Settled, Over
<1>4. ASSUME NEW q \in Requests PROVE Tracked(q) \/ q = r => Tracked(q)'
  BY <1>0, <1>3 DEF Tracked
<1>5. ASSUME NEW q \in Requests, NEW d \in Clients PROVE Found(d, q)' => Found(d, q)
  BY <1>1 DEF Found
<1>6. ASSUME NEW q \in Requests PROVE Untouched(q) => Untouched(q)'
  BY <1>0, <1>5 DEF Untouched
<1>7. ASSUME NEW q \in Requests PROVE Open(q) => Open(q)'
  BY <1>0, <1>3, <1>5 DEF Open
<1>8. OneWorker'
  BY <1>0 DEF OneWorker
<1>9. QueuedUntouched'
  BY <1>0, <1>2, <1>3, <1>6 DEF QueuedUntouched, TypeOK, Tracked
<1>10. CancelledUntouched'
  BY <1>0, <1>2, <1>6, SettledMeans DEF CancelledUntouched, Tracked
<1>11. WorkInHand'
  BY <1>0, <1>3, <1>7 DEF WorkInHand, InHand, TypeOK
<1>12. AtMostOnce'
  BY <1>0 DEF AtMostOnce
<1>13. AllTracked'
  BY <1>0, <1>1, <1>3, <1>4 DEF AllTracked, Busy
<1>14. ResultsAreOfEnded'
  BY <1>0, <1>1 DEF ResultsAreOfEnded
<1> QED
  BY <1>8, <1>9, <1>10, <1>11, <1>12, <1>13, <1>14

LEMMA WithdrawStep ==
  ASSUME QueueInv, NEW c \in Clients, Withdraw(c)
  PROVE  Inv'
<1> USE DEF QueueInv, Inv, files, callers, host, Doing, At
<1> DEFINE r == call[c].req
<1>0. r \in Requests /\ Tracked(r)
  BY DEF Withdraw, AllTracked, Busy
<1>1. CASE r \notin inbox
  <2> Quiet(c)
    BY <1>0, <1>1 DEF Withdraw, Go, Quiet, TypeOK
  <2> QED
    BY QuietStep
<1>2. CASE r \in inbox
  <2>0. /\ inbox' = inbox \ {r} /\ UNCHANGED <<processing, outbox, host>>
        /\ told' = told \cup {<<r, "cancelled">>}
        /\ known' = known \cup {r}
    BY <1>2 DEF Withdraw, Reply
  <2>1. /\ \A d \in Clients \ {c} : call'[d] = call[d]
        /\ call'[c].place = "idle"
    BY <1>2 DEF Withdraw, Reply, Go, TypeOK
  <2>2. Untouched(r) /\ ~Over(r)
    BY <1>2 DEF QueuedUntouched
  <2>3. ASSUME NEW q \in Requests
        PROVE  (Settled(q)' <=> Settled(q) \/ q = r) /\ (Over(q)' <=> Over(q) \/ q = r)
    BY <2>0, SettledMeans
  <2>4. ASSUME NEW q \in Requests PROVE Tracked(q) => Tracked(q)'
    BY <2>0, <2>3 DEF Tracked
  <2>5. ASSUME NEW q \in Requests, NEW d \in Clients PROVE Found(d, q)' => Found(d, q)
    BY <2>1 DEF Found
  <2>6. ASSUME NEW q \in Requests PROVE Untouched(q) => Untouched(q)'
    BY <2>0, <2>5 DEF Untouched
  <2>7. ASSUME NEW q \in Requests PROVE q \in processing /\ Open(q) => Open(q)'
    BY <2>0, <2>2, <2>3, <2>5 DEF Open, Untouched
  <2>8. OneWorker'
    BY <2>0 DEF OneWorker
  <2>9. QueuedUntouched'
    BY <2>0, <2>3, <2>6 DEF QueuedUntouched, TypeOK
  <2>10. CancelledUntouched'
    BY <2>0, <2>2, <2>6 DEF CancelledUntouched, TypeOK
  <2>11. WorkInHand'
    BY <2>0, <2>3, <2>7 DEF WorkInHand, InHand, TypeOK
  <2>12. AtMostOnce'
    BY <2>0 DEF AtMostOnce
  <2>13. AllTracked'
    BY <1>0, <2>0, <2>1, <2>3, <2>4 DEF AllTracked, Busy
  <2>14. ResultsAreOfEnded'
    BY <2>0, <2>1 DEF ResultsAreOfEnded
  <2> QED
    BY <2>8, <2>9, <2>10, <2>11, <2>12, <2>13, <2>14
<1> QED
  BY <1>1, <1>2

\* What is found is taken in.
LEMMA ReadStep ==
  ASSUME QueueInv, NEW c \in Clients, Read(c), ~At(c, "idle")'
  PROVE  Inv'
<1> USE DEF QueueInv, Inv, files, callers, host, Doing, At
<1> DEFINE r == call[c].req
<1>0. r \in Requests /\ Tracked(r) /\ Found(c, r)
  BY DEF Read, AllTracked, Busy, Found
<1>1. PICK found \in {outbox[r], "unreadable"} \ {"none"} :
        /\ call' = [call EXCEPT ![c].place = "clearing", ![c].found = found]
        /\ UNCHANGED <<files, host, known, told>>
  <2>1. ~Reply(c, "unreadable")
    BY DEF Reply, Go, TypeOK
  <2> QED
    BY <2>1 DEF Read
<1>2. /\ \A d \in Clients \ {c} : call'[d] = call[d]
      /\ call'[c].place = "clearing" /\ call'[c].req = r /\ call'[c].found = found
  BY <1>1 DEF TypeOK
<1>3. /\ found \in {"result", "uncertain", "unreadable"}
      /\ found = "result" => outbox[r] = "result"
  BY <1>0 DEF TypeOK, Contents
<1>4. ASSUME NEW q \in Requests
      PROVE  /\ Settled(q)' <=> Settled(q)
             /\ Over(q)' <=> Over(q)
             /\ Tracked(q)' <=> Tracked(q)
  BY <1>1 DEF Settled, Over, Tracked
<1>5. ASSUME NEW q \in Requests, NEW d \in Clients PROVE Found(d, q)' => Found(d, q)
  BY <1>0, <1>2 DEF Found
<1>6. ASSUME NEW q \in Requests PROVE Untouched(q) => Untouched(q)'
  BY <1>1, <1>5 DEF Untouched
<1>7. ASSUME NEW q \in Requests PROVE Open(q) => Open(q)'
  BY <1>1, <1>4, <1>5 DEF Open
<1>8. OneWorker'
  BY <1>1 DEF OneWorker
<1>9. QueuedUntouched'
  BY <1>1, <1>4, <1>6 DEF QueuedUntouched, TypeOK
<1>10. CancelledUntouched'
  BY <1>1, <1>6 DEF CancelledUntouched
<1>11. WorkInHand'
  BY <1>1, <1>4, <1>7 DEF WorkInHand, InHand, TypeOK
<1>12. AtMostOnce'
  BY <1>1 DEF AtMostOnce
<1>13. AllTracked'
  BY <1>0, <1>1, <1>2, <1>4 DEF AllTracked, Busy
<1>14. ResultsAreOfEnded'
  <2>1. UNCHANGED <<outbox, told, ended>>
    BY <1>1
  <2>2. found = "result" => r \in ended
    BY <1>0, <1>3 DEF ResultsAreOfEnded
  <2> QED
    BY <1>2, <1>3, <2>1, <2>2 DEF ResultsAreOfEnded
<1> QED
  BY <1>8, <1>9, <1>10, <1>11, <1>12, <1>13, <1>14

\* A call of c that saw a result returns: with what it said, or without.
Returns(c, v) ==
  LET r == call[c].req IN
  /\ r \in Requests /\ Found(c, r)
  /\ v \in {"uncertain", "result", "unreadable"} /\ (v = "result" => r \in ended)
  /\ outbox' = outbox \/ outbox' = [outbox EXCEPT ![r] = "none"]
  /\ UNCHANGED <<inbox, processing, host>>
  /\ told' = told \cup {<<r, v>>}
  /\ known \subseteq known' /\ known' \subseteq known \cup {r}
  /\ v = "uncertain" => r \in known'
  /\ \A d \in Clients \ {c} : call'[d] = call[d]
  /\ call'[c].place = "idle"

LEMMA ResultReturns ==
  ASSUME QueueInv, NEW c \in Clients, Clear(c) \/ (Read(c) /\ Reply(c, "unreadable"))
  PROVE  \E v \in {"uncertain", "result", "unreadable"} : Returns(c, v)
<1> USE DEF QueueInv, Inv, files, callers, host, At
<1>1. CASE Clear(c)
  <2> DEFINE v == call[c].found
  <2>1. call[c].req \in Requests /\ Found(c, call[c].req)
    BY <1>1 DEF Clear, AllTracked, Busy, Found
  <2>2. v \in {"uncertain", "result", "unreadable"} /\ (v = "result" => call[c].req \in ended)
    BY <1>1 DEF Clear, ResultsAreOfEnded
  <2>3. (\A d \in Clients \ {c} : call'[d] = call[d]) /\ call'[c].place = "idle"
    BY <1>1 DEF Clear, Reply, Go, TypeOK
  <2>4. /\ outbox' = [outbox EXCEPT ![call[c].req] = "none"]
        /\ UNCHANGED <<inbox, processing, host>>
        /\ told' = told \cup {<<call[c].req, v>>}
        /\ known \subseteq known' /\ known' \subseteq known \cup {call[c].req}
        /\ v = "uncertain" => call[c].req \in known'
    BY <1>1 DEF Clear, Reply
  <2> QED
    BY <2>1, <2>2, <2>3, <2>4 DEF Returns
<1>2. CASE Read(c) /\ Reply(c, "unreadable")
  <2>1. call[c].req \in Requests /\ Found(c, call[c].req)
    BY <1>2 DEF Read, AllTracked, Busy, Found
  <2>2. (\A d \in Clients \ {c} : call'[d] = call[d]) /\ call'[c].place = "idle"
    BY <1>2 DEF Reply, Go, TypeOK
  <2>3. /\ UNCHANGED <<outbox, inbox, processing, host>>
        /\ told' = told \cup {<<call[c].req, "unreadable">>} /\ known' = known
    BY <1>2 DEF Read, Reply
  <2> QED
    BY <2>1, <2>2, <2>3 DEF Returns
<1> QED
  BY <1>1, <1>2

LEMMA ReturnStep ==
  ASSUME QueueInv, NEW c \in Clients, NEW v, Returns(c, v)
  PROVE  Inv'
<1> USE DEF QueueInv, Inv, host, Doing, At
<1> DEFINE r == call[c].req
<1>0. /\ r \in Requests /\ Found(c, r)
      /\ v \in {"uncertain", "result", "unreadable"} /\ (v = "result" => r \in ended)
  BY DEF Returns
<1>1. /\ outbox' = outbox \/ outbox' = [outbox EXCEPT ![r] = "none"]
      /\ UNCHANGED <<inbox, processing, host>>
      /\ told' = told \cup {<<r, v>>}
      /\ known \subseteq known' /\ known' \subseteq known \cup {r}
      /\ v = "uncertain" => r \in known'
  BY DEF Returns
<1>2. /\ \A d \in Clients \ {c} : call'[d] = call[d]
      /\ call'[c].place = "idle"
  BY DEF Returns
<1> HIDE DEF r
<1>3. ASSUME NEW q \in Requests
      PROVE  /\ Over(q)' <=> Over(q) \/ q = r
             /\ Settled(q) => Settled(q)'
             /\ Settled(q)' => Settled(q) \/ (q = r /\ v # "unreadable")
  BY <1>0, <1>1, SettledMeans
<1>4. ASSUME NEW q \in Requests PROVE Tracked(q) => Tracked(q)'
  BY <1>1, <1>3 DEF Tracked, TypeOK
<1>5. ASSUME NEW q \in Requests, NEW d \in Clients PROVE Found(d, q)' => Found(d, q)
  BY <1>2 DEF Found
<1>6. ASSUME NEW q \in Requests PROVE Untouched(q) => Untouched(q)' /\ q # r
  BY <1>0, <1>1, <1>5 DEF Untouched, TypeOK
<1>7. ASSUME NEW q \in Requests PROVE Open(q) => Open(q)'
  BY <1>0, <1>1, <1>3, <1>5 DEF Open, TypeOK
<1>8. OneWorker'
  BY <1>1 DEF OneWorker
<1>9. QueuedUntouched'
  BY <1>1, <1>3, <1>6 DEF QueuedUntouched, TypeOK
<1>10. CancelledUntouched'
  BY <1>0, <1>1, <1>6 DEF CancelledUntouched
<1>11. WorkInHand'
  BY <1>0, <1>1, <1>3, <1>7 DEF WorkInHand, InHand, TypeOK
<1>12. AtMostOnce'
  BY <1>1 DEF AtMostOnce
<1>13. AllTracked'
  <2>1. \A q \in Requests : q \in known' \cup ended' \/ begun'[q] > 0 => Tracked(q)'
    BY <1>1, <1>3, <1>4 DEF AllTracked, Tracked
  <2>2. \A d \in Clients : call'[d].place # "idle" => call'[d].req \in Requests /\ Tracked(call[d].req)'
    BY <1>2, <1>4 DEF AllTracked, Busy
  <2>3. \A q \in Requests : Settled(q)' => q \in known' \cup ended'
    BY <1>0, <1>1, <1>3 DEF AllTracked
  <2> QED
    BY <1>2, <2>1, <2>2, <2>3 DEF AllTracked, Busy
<1>14. ResultsAreOfEnded'
  BY <1>0, <1>1, <1>2 DEF ResultsAreOfEnded, TypeOK
<1> QED
  BY <1>8, <1>9, <1>10, <1>11, <1>12, <1>13, <1>14

\* A step of w that has the lock, and of w alone.
Alone(w) ==
  /\ UNCHANGED <<call, known, told>>
  /\ \A v \in Workers \ {w} : worker'[v] = worker[v] /\ Doing(v, "down")

Serves(w) ==
  \/ Start(w) \/ (\E r \in Requests : Sweep(w, r) \/ Claim(w, r))
  \/ Refuse(w) \/ Begin(w) \/ End(w) \/ WriteResult(w) \/ Release(w) \/ Crash(w)

LEMMA WorkerAlone ==
  ASSUME QueueInv, NEW w \in Workers, Serves(w)
  PROVE  Alone(w)
<1> USE DEF QueueInv, Inv, TypeOK, OneWorker, callers, Doing, Step, LetGo, Alone
<1>1. CASE Start(w) \/ Crash(w)
  BY <1>1 DEF Start, Crash
<1>2. ASSUME NEW r \in Requests, Sweep(w, r) \/ Claim(w, r) PROVE Alone(w)
  BY <1>2 DEF Sweep, Claim
<1>3. CASE Refuse(w) \/ Begin(w) \/ End(w) \/ WriteResult(w) \/ Release(w)
  BY <1>3 DEF Refuse, Begin, End, WriteResult, Release
<1> QED
  BY <1>1, <1>2, <1>3 DEF Serves

LEMMA AloneKeeps ==
  ASSUME NEW w \in Workers, Alone(w), NEW q \in Requests
  PROVE  /\ Settled(q)' <=> Settled(q)
         /\ Over(q)' <=> Over(q)
         /\ \A d \in Clients : Found(d, q)' <=> Found(d, q)
  BY DEF Alone, Settled, Over, Found, At

\* What is left to show of a step of the worker.
LEMMA WorkerStep ==
  ASSUME QueueInv, TypeOK', NEW w \in Workers, Alone(w), InHand(w)', inbox' \subseteq inbox,
         \A q \in Requests : Untouched(q) /\ (q \notin inbox \/ q \in inbox') => Untouched(q)',
         \A q \in Requests : Tracked(q) => Tracked(q)',
         \A q \in Requests : begun'[q] <= 1 /\ (begun'[q] > 0 \/ q \in ended' => Tracked(q)'),
         ended \subseteq ended',
         \A q \in Requests : outbox'[q] = "result" => q \in ended'
  PROVE  Inv'
<1> USE DEF QueueInv, Inv, Alone, Doing, At
<1>1. ASSUME NEW q \in Requests PROVE (Settled(q)' <=> Settled(q)) /\ (Over(q)' <=> Over(q))
  BY AloneKeeps
<1>2. OneWorker'
  BY DEF OneWorker
<1>3. QueuedUntouched'
  BY <1>1 DEF QueuedUntouched, TypeOK
<1>4. CancelledUntouched'
  BY DEF CancelledUntouched
<1>5. WorkInHand'
  BY DEF WorkInHand, InHand
<1>6. AtMostOnce'
  BY DEF AtMostOnce
<1>7. AllTracked'
  BY <1>1 DEF AllTracked, Busy
<1>8. ResultsAreOfEnded'
  BY DEF ResultsAreOfEnded
<1> QED
  BY <1>2, <1>3, <1>4, <1>5, <1>6, <1>7, <1>8

LEMMA ServingStep ==
  ASSUME QueueInv, TypeOK', NEW w \in Workers, Serves(w)
  PROVE  Inv'
<1> DEFINE r == worker[w].req
<1> USE DEF QueueInv, Inv, TypeOK, files, callers, host, Doing, Step, LetGo, Tracked, Untouched
<1>0. Alone(w) /\ (~Doing(w, "down") /\ ~Doing(w, "idle") => r \in processing) /\ InHand(w)
  BY WorkerAlone DEF WorkInHand, InHand
<1>1. ASSUME NEW q \in Requests
      PROVE  /\ Settled(q)' <=> Settled(q)
             /\ Over(q)' <=> Over(q)
             /\ \A d \in Clients : Found(d, q)' <=> Found(d, q)
  BY <1>0, AloneKeeps
<1>2. CASE Start(w) \/ Crash(w)
  <2>1. InHand(w)'
    BY <1>2 DEF Start, Crash, InHand
  <2> QED
    BY <1>0, <1>1, <1>2, <2>1, WorkerStep DEF Start, Crash, AtMostOnce, AllTracked, ResultsAreOfEnded
<1>3. ASSUME NEW q \in Requests, Sweep(w, q) PROVE Inv'
  <2>1. InHand(w)'
    BY <1>3 DEF Sweep, InHand
  <2>2. inbox' \subseteq inbox /\ ended \subseteq ended'
    BY <1>3 DEF Sweep
  <2>3. \A p \in Requests : Untouched(p) /\ (p \notin inbox \/ p \in inbox') => Untouched(p)'
    BY <1>0, <1>1, <1>3 DEF Sweep
  <2>4. \A p \in Requests : Tracked(p) => Tracked(p)'
    BY <1>1, <1>3 DEF Sweep
  <2>5. \A p \in Requests : begun'[p] <= 1 /\ (begun'[p] > 0 \/ p \in ended' => Tracked(p)')
    BY <1>0, <1>3, <2>4 DEF Sweep, InHand, AtMostOnce, AllTracked
  <2>6. \A p \in Requests : outbox'[p] = "result" => p \in ended'
    BY <1>0, <1>3 DEF Sweep, InHand, ResultsAreOfEnded
  <2> QED
    BY <1>0, <2>1, <2>2, <2>3, <2>4, <2>5, <2>6, WorkerStep
<1>4. ASSUME NEW q \in Requests, Claim(w, q) PROVE Inv'
  <2>1. Untouched(q) /\ ~Over(q)
    BY <1>4 DEF Claim, QueuedUntouched
  <2>2. InHand(w)'
    BY <1>1, <1>4, <2>1 DEF Claim, InHand, Open
  <2> QED
    BY <1>0, <1>1, <1>4, <2>2, WorkerStep, ZenonT(60) DEF Claim, AtMostOnce, AllTracked, ResultsAreOfEnded
<1>5. CASE Refuse(w) \/ End(w)
  <2>1. InHand(w)'
    BY <1>0, <1>5 DEF Refuse, End, InHand
  <2> QED
    BY <1>0, <1>1, <1>5, <2>1, WorkerStep, ZenonT(60)
       DEF Refuse, End, AtMostOnce, AllTracked, ResultsAreOfEnded
<1>6. CASE Begin(w)
  <2>1. InHand(w)'
    BY <1>0, <1>1, <1>6 DEF Begin, InHand, Open
  <2>2. inbox' \subseteq inbox /\ ended \subseteq ended'
    BY <1>6 DEF Begin
  <2>3. \A p \in Requests : Untouched(p) /\ (p \notin inbox \/ p \in inbox') => Untouched(p)'
    BY <1>0, <1>1, <1>6 DEF Begin
  <2>4. \A p \in Requests : Tracked(p) => Tracked(p)'
    BY <1>1, <1>6 DEF Begin
  <2>5. \A p \in Requests : begun'[p] <= 1 /\ (begun'[p] > 0 \/ p \in ended' => Tracked(p)')
    BY <1>0, <1>6, <2>4 DEF Begin, InHand, AtMostOnce, AllTracked
  <2>6. \A p \in Requests : outbox'[p] = "result" => p \in ended'
    BY <1>0, <1>6 DEF Begin, InHand, ResultsAreOfEnded
  <2> QED
    BY <1>0, <2>1, <2>2, <2>3, <2>4, <2>5, <2>6, WorkerStep
<1>7. CASE WriteResult(w)
  <2>1. InHand(w)'
    BY <1>0, <1>7 DEF WriteResult, InHand
  <2>2. inbox' \subseteq inbox /\ ended \subseteq ended'
    BY <1>7 DEF WriteResult
  <2>3. \A p \in Requests : Untouched(p) /\ (p \notin inbox \/ p \in inbox') => Untouched(p)'
    BY <1>0, <1>1, <1>7 DEF WriteResult
  <2>4. \A p \in Requests : Tracked(p) => Tracked(p)'
    BY <1>1, <1>7 DEF WriteResult
  <2>5. \A p \in Requests : begun'[p] <= 1 /\ (begun'[p] > 0 \/ p \in ended' => Tracked(p)')
    BY <1>0, <1>7, <2>4 DEF WriteResult, InHand, AtMostOnce, AllTracked
  <2>6. \A p \in Requests : outbox'[p] = "result" => p \in ended'
    BY <1>0, <1>7 DEF WriteResult, InHand, ResultsAreOfEnded
  <2> QED
    BY <1>0, <2>1, <2>2, <2>3, <2>4, <2>5, <2>6, WorkerStep
<1>8. CASE Release(w)
  <2>1. InHand(w)'
    BY <1>8 DEF Release, InHand
  <2>2. inbox' \subseteq inbox /\ ended \subseteq ended'
    BY <1>8 DEF Release
  <2>3. \A p \in Requests : Untouched(p) /\ (p \notin inbox \/ p \in inbox') => Untouched(p)'
    BY <1>0, <1>1, <1>8 DEF Release
  <2>4. \A p \in Requests : Tracked(p) => Tracked(p)'
    BY <1>0, <1>1, <1>8 DEF Release, InHand
  <2>5. \A p \in Requests : begun'[p] <= 1 /\ (begun'[p] > 0 \/ p \in ended' => Tracked(p)')
    BY <1>0, <1>8, <2>4 DEF Release, InHand, AtMostOnce, AllTracked
  <2>6. \A p \in Requests : outbox'[p] = "result" => p \in ended'
    BY <1>0, <1>8 DEF Release, InHand, ResultsAreOfEnded
  <2> QED
    BY <1>0, <2>1, <2>2, <2>3, <2>4, <2>5, <2>6, WorkerStep
<1> QED
  BY <1>2, <1>3, <1>4, <1>5, <1>6, <1>7, <1>8 DEF Serves

LEMMA StutterKeeps ==
  ASSUME QueueInv, UNCHANGED vars
  PROVE  Inv'
  BY SMTT(40) DEF QueueInv, Inv, vars, files, callers, host, OneWorker, QueuedUntouched,
         CancelledUntouched, WorkInHand, InHand, AtMostOnce, AllTracked, ResultsAreOfEnded,
         Untouched, Open, Tracked, Settled, Over, Found, Busy, Doing, At

LEMMA StepInv == QueueInv /\ [Next]_vars => QueueInv'
<1> SUFFICES ASSUME QueueInv, [Next]_vars PROVE QueueInv'
  OBVIOUS
<1>1. TypeOK'
  BY StepTypes
<1>2. ASSUME NEW c \in Clients, Answer(c) PROVE Inv'
  <2>1. CASE Read(c)
    <3>1. Reply(c, "unreadable") \/ call'[c].place = "clearing"
      BY <2>1 DEF Read, QueueInv, TypeOK
    <3> QED
      BY <2>1, <3>1, ReadStep, ResultReturns, ReturnStep DEF At
  <2> QED
    BY <1>2, <2>1, CallersAreQuiet, QuietStep, WithdrawStep, ResultReturns, ReturnStep DEF Answer
<1>3. ASSUME NEW c \in Clients, NEW r \in Requests, Enqueue(c, r) \/ Ask(c, r) PROVE Inv'
  BY <1>3, EnqueueStep, AskingIsQuiet, QuietStep
<1>4. ASSUME NEW w \in Workers, Serve(w) \/ Crash(w) PROVE Inv'
  BY <1>1, <1>4, ServingStep DEF Serve, Serves
<1>5. CASE UNCHANGED vars
  BY <1>1, <1>5, StutterKeeps DEF QueueInv
<1> QED
  BY <1>1, <1>2, <1>3, <1>4, <1>5 DEF Next, QueueInv

THEOREM QueueInvariant == Spec => []QueueInv
<1>1. QueueInv /\ [Next]_vars => QueueInv'
  BY StepInv
<1> QED
  BY InitInv, <1>1, PTL DEF Spec

-----------------------------------------------------------------------------
(* What follows from it.                                                     *)

\* Every variable keeps its type, and no request lies in two directories.
THEOREM QueueTypes == Spec => []TypeOK
<1>1. QueueInv => TypeOK
  BY DEF QueueInv
<1> QED
  BY QueueInvariant, <1>1, PTL

\* No command is carried out twice, however often the worker ends, and wherever.
THEOREM CommandsRunOnce == Spec => []AtMostOnce
<1>1. QueueInv => AtMostOnce
  BY DEF QueueInv, Inv
<1> QED
  BY QueueInvariant, <1>1, PTL

\* A request that submit reports as cancelled has not been carried out and is
\* in no directory from which it could be.
THEOREM CancelledCommandsNeverRun == Spec => []CancelledNeverRuns
<1>1. QueueInv => CancelledNeverRuns
  BY DEF QueueInv, Inv, CancelledUntouched, CancelledNeverRuns, Untouched
<1> QED
  BY QueueInvariant, <1>1, PTL

\* A request that was admitted is in one of the directories until a caller has
\* been told that it is over: how it ended, or that its result cannot be read
\* (which is when the result itself may be gone, unread).
THEOREM NoJobIsLost == Spec => []NoJobLost
<1>1. QueueInv => NoJobLost
  BY DEF QueueInv, Inv, AllTracked, Tracked, NoJobLost, Submitted, Over
<1> QED
  BY QueueInvariant, <1>1, PTL

\* A request of which a caller was told that it is over, if only by a result that
\* could not be read, is not carried out from then on.
THEOREM VerdictsAreFinal == Spec => FinalVerdictsHold
<1>1. QueueInv /\ [Next]_vars
      => [\A r \in Requests : Over(r) => begun'[r] = begun[r] /\ (r \in ended' <=> r \in ended)]_vars
  <2> SUFFICES ASSUME QueueInv, Next, NEW r \in Requests, Over(r)
      PROVE  begun'[r] = begun[r] /\ (r \in ended' <=> r \in ended)
    OBVIOUS
  <2> USE DEF QueueInv, Inv, TypeOK, host
  <2>1. ASSUME NEW c \in Clients, Answer(c) \/ (\E q \in Requests : Enqueue(c, q) \/ Ask(c, q))
        PROVE  UNCHANGED <<begun, ended>>
    BY <2>1 DEF Answer, FindResult, TimeIsUp, FindNothing, LookInInbox, Withdraw, GiveUp,
                AskOutbox, AskProcessing, AskInbox, Read, Clear, Enqueue, Ask
  <2>2. ASSUME NEW w \in Workers,
               \/ Start(w) \/ WriteResult(w) \/ Release(w) \/ Crash(w)
               \/ \E q \in Requests : Sweep(w, q) \/ Claim(w, q)
        PROVE  UNCHANGED <<begun, ended>>
    BY <2>2 DEF Start, WriteResult, Release, Crash, Sweep, Claim
  <2>3. ASSUME NEW w \in Workers, Refuse(w) \/ Begin(w) \/ End(w)
        PROVE  begun'[r] = begun[r] /\ (r \in ended' <=> r \in ended)
    <3>1. worker[w].req # r
      BY <2>3 DEF Refuse, Begin, End, WorkInHand, InHand, Open
    <3> QED
      BY <2>3, <3>1 DEF Refuse, Begin, End
  <2> QED
    BY <2>1, <2>2, <2>3 DEF Next, Serve
<1> QED
  BY QueueInvariant, <1>1, PTL DEF Spec, FinalVerdictsHold

-----------------------------------------------------------------------------
(* The promise of AtMostOnceCommands.                                        *)

Cancelled(r) == <<r, "cancelled">> \in told

\* Exactly one of the cases of Fate applies.
FateMeans(r) ==
  /\ r \in inbox => Fate(r) = "queued"
  /\ Cancelled(r) => Fate(r) = "withdrawn"
  /\ r \in ended => Fate(r) = "finished"
  /\ Active(r) => Fate(r) = "running"
  /\ ~Tracked(r) => Fate(r) = "none"
  /\ r \notin inbox /\ ~Cancelled(r) /\ r \notin ended /\ ~Active(r) /\ Tracked(r)
       => Fate(r) = "stopped"

LEMMA FatesAreClear == QueueInv => \A r \in Requests : FateMeans(r)
<1> SUFFICES ASSUME QueueInv, NEW r \in Requests PROVE FateMeans(r)
  OBVIOUS
<1> USE DEF QueueInv, Inv
<1>1. r \in Submitted <=> Tracked(r)
  BY DEF AllTracked, Submitted, Tracked, Over
<1>2. r \in inbox => ~Cancelled(r) /\ r \notin ended /\ ~Active(r) /\ Tracked(r)
  BY SettledMeans
     DEF QueuedUntouched, Untouched, Cancelled, Active, WorkInHand, InHand, Doing, Tracked, Over
<1>3. Cancelled(r) => r \notin ended /\ ~Active(r) /\ Tracked(r)
  BY SettledMeans
     DEF CancelledUntouched, Untouched, Cancelled, Active, WorkInHand, InHand, Doing, Tracked, Over
<1>4. r \in ended => ~Active(r) /\ Tracked(r)
  BY DEF AllTracked, Active, WorkInHand, InHand, Open, Doing
<1>5. Active(r) => Tracked(r)
  BY DEF Active, WorkInHand, InHand, Doing, Tracked, Over
<1>6. CASE r \in inbox
  BY <1>1, <1>2, <1>6 DEF FateMeans, Fate, Cancelled
<1>7. CASE Cancelled(r)
  BY <1>1, <1>2, <1>3, <1>7 DEF FateMeans, Fate, Cancelled
<1>8. CASE r \in ended
  BY <1>1, <1>2, <1>3, <1>4, <1>8 DEF FateMeans, Fate, Cancelled
<1>9. CASE Active(r)
  BY <1>1, <1>2, <1>3, <1>4, <1>5, <1>9 DEF FateMeans, Fate, Cancelled
<1>10. CASE r \notin inbox /\ ~Cancelled(r) /\ r \notin ended /\ ~Active(r)
  BY <1>1, <1>10 DEF FateMeans, Fate, Cancelled
<1> QED
  BY <1>6, <1>7, <1>8, <1>9, <1>10

LEMMA FatesStayClear == QueueInv' => (\A r \in Requests : FateMeans(r))'
  BY FatesAreClear, PTL

\* Nothing that Fate looks at changes for r.
SameFate(r) ==
  /\ r \in inbox' <=> r \in inbox
  /\ Cancelled(r)' <=> Cancelled(r)
  /\ r \in ended' <=> r \in ended
  /\ Active(r)' <=> Active(r)
  /\ Tracked(r)' <=> Tracked(r)

LEMMA SameFateKept ==
  ASSUME QueueInv, QueueInv', NEW r \in Requests, SameFate(r)
  PROVE  Fate(r)' = Fate(r)
  BY FatesAreClear, FatesStayClear DEF SameFate, FateMeans

\* The fates that AtMostOnceCommands is given.
LEMMA FateStutters ==
  ASSUME QueueInv, QueueInv', told' = told, \A r \in Requests : SameFate(r)
  PROVE  UNCHANGED Promise!vars
<1>1. \A r \in Requests : Fate(r)' = Fate(r)
  BY SameFateKept
<1> QED
  BY <1>1 DEF Promise!vars

LEMMA FateBecomes ==
  ASSUME NEW r \in Requests, NEW old \in Promise!Fates, NEW new \in Promise!Fates,
         Fate(r) = old, Fate(r)' = new,
         \A q \in Requests : q # r => Fate(q)' = Fate(q)
  PROVE  Promise!Become(r, old, new)
  BY DEF Promise!Become

LEMMA Tells ==
  ASSUME QueueInv, QueueInv', NEW r \in Requests, NEW v \in Promise!Verdicts,
         told' = told \cup {<<r, v>>}, Promise!Truth(r, v),
         \A q \in Requests : SameFate(q)
  PROVE  Promise!Next
<1>1. \A q \in Requests : Fate(q)' = Fate(q)
  BY SameFateKept
<1>2. Promise!Tell(r, v)
  BY <1>1 DEF Promise!Tell
<1> QED
  BY <1>2 DEF Promise!Next

Says(c) ==
  \/ told' = told
  \/ /\ Busy(c)
     /\ \E v \in {"queued", "in_progress", "unknown", "not_found"} :
          told' = told \cup {<<call[c].req, v>>}

LEMMA QuietKeepsPromise ==
  ASSUME QueueInv, QueueInv', NEW c \in Clients, Quiet(c), Says(c)
  PROVE  [Promise!Next]_(Promise!vars)
<1>1. ASSUME NEW r \in Requests PROVE SameFate(r)
  <2>1. Over(r)' <=> Over(r)
    BY SettledMeans DEF Quiet
  <2> QED
    BY <2>1 DEF Quiet, SameFate, files, host, Cancelled, Tracked, Active
<1>2. CASE told' = told
  BY <1>1, <1>2, FateStutters
<1>3. CASE Busy(c) /\ \E v \in {"queued", "in_progress", "unknown", "not_found"} :
                        told' = told \cup {<<call[c].req, v>>}
  <2>1. PICK v \in {"queued", "in_progress", "unknown", "not_found"} :
               told' = told \cup {<<call[c].req, v>>}
    BY <1>3
  <2>2. v \in Promise!Verdicts /\ Promise!Truth(call[c].req, v)
    BY VerdictsAre DEF Promise!Truth
  <2>3. call[c].req \in Requests
    BY <1>3 DEF QueueInv, Inv, AllTracked
  <2> QED
    BY <1>1, <2>1, <2>2, <2>3, Tells
<1> QED
  BY <1>2, <1>3 DEF Says

LEMMA CallersKeepPromise ==
  ASSUME QueueInv, QueueInv', NEW c \in Clients, Answer(c)
  PROVE  [Promise!Next]_(Promise!vars)
<1> USE DEF At, Busy
<1>1. CASE \/ FindResult(c) \/ TimeIsUp(c) \/ FindNothing(c) \/ LookInInbox(c) \/ GiveUp(c)
           \/ AskOutbox(c) \/ AskProcessing(c) \/ AskInbox(c)
  <2>1. Says(c)
    BY <1>1 DEF Says, FindResult, TimeIsUp, FindNothing, LookInInbox, GiveUp, AskOutbox,
                AskProcessing, AskInbox, Reply
  <2> QED
    BY <1>1, <2>1, CallersAreQuiet, QuietKeepsPromise
<1>2. CASE Withdraw(c) /\ call[c].req \notin inbox
  <2>1. Quiet(c) /\ Says(c)
    BY <1>2 DEF Withdraw, Go, Quiet, Says, QueueInv, Inv, TypeOK, AllTracked, files, host
  <2> QED
    BY <2>1, QuietKeepsPromise
<1>3. CASE Read(c) /\ ~Reply(c, "unreadable")
  <2>1. UNCHANGED <<files, host, known, told>>
    BY <1>3 DEF Read
  <2>2. ASSUME NEW r \in Requests PROVE SameFate(r)
    BY <2>1 DEF SameFate, files, host, Cancelled, Tracked, Settled, Over, Active
  <2> QED
    BY <2>1, <2>2, FateStutters
<1>5. CASE Withdraw(c) /\ call[c].req \in inbox
  <2> PICK r \in Requests : r = call[c].req
    BY <1>5 DEF Withdraw, QueueInv, Inv, AllTracked
  <2>0. /\ r \in Requests /\ r \in inbox /\ inbox' = inbox \ {r}
        /\ UNCHANGED <<processing, outbox, host>>
        /\ told' = told \cup {<<r, "cancelled">>}
    BY <1>5 DEF Withdraw, Reply
  <2>1. Fate(r) = "queued"
    BY <2>0, FatesAreClear DEF FateMeans
  <2>5. Fate(r)' = "withdrawn"
    <3>1. Cancelled(r)'
      BY <2>0 DEF Cancelled
    <3>2. FateMeans(r)'
      BY <2>0, FatesStayClear
    <3> QED
      BY <3>1, <3>2 DEF FateMeans
  <2>2. ASSUME NEW q \in Requests \ {r} PROVE SameFate(q)
    <3>1. Over(q)' <=> Over(q)
      BY <2>0, SettledMeans
    <3> QED
      BY <2>0, <3>1 DEF SameFate, host, Cancelled, Tracked, Active
  <2>3. \A q \in Requests : q # r => Fate(q)' = Fate(q)
    BY <2>2, SameFateKept
  <2>4. Promise!Become(r, "queued", "withdrawn")
    <3>1. "queued" \in Promise!Fates /\ "withdrawn" \in Promise!Fates
      BY DEF Promise!Fates
    <3> QED
      BY <2>0, <2>1, <2>3, <2>5, <3>1, FateBecomes
  <2> QED
    BY <2>0, <2>4 DEF Promise!Next, Promise!Withdraw
<1>4. CASE Clear(c) \/ (Read(c) /\ Reply(c, "unreadable"))
  <2> PICK v \in {"uncertain", "result", "unreadable"} : Returns(c, v)
    BY <1>4, ResultReturns
  <2> DEFINE r == call[c].req
  <2>0. /\ r \in Requests /\ Found(c, r)
        /\ v \in {"uncertain", "result", "unreadable"} /\ (v = "result" => r \in ended)
    BY DEF Returns
  <2>1. /\ outbox' = outbox \/ outbox' = [outbox EXCEPT ![r] = "none"]
        /\ UNCHANGED <<inbox, processing, host>>
        /\ told' = told \cup {<<r, v>>}
    BY DEF Returns
  <2> HIDE DEF r
  <2>2. ASSUME NEW q \in Requests PROVE SameFate(q)
    <3>1. Over(q)' <=> Over(q) \/ q = r
      BY <2>0, <2>1, SettledMeans
    <3>2. Found(c, q) => Tracked(q)
      BY DEF Found, QueueInv, Inv, AllTracked
    <3>3. Tracked(q)' <=> Tracked(q)
      BY <2>0, <2>1, <3>1, <3>2 DEF Tracked, QueueInv, TypeOK
    <3> QED
      BY <2>0, <2>1, <3>3 DEF SameFate, host, Cancelled, Active
  <2>3. r \in ended => Fate(r) = "finished"
    BY <2>0, FatesAreClear DEF FateMeans
  <2>4. r \notin ended => Fate(r) = "stopped"
    <3>1. r \notin inbox /\ ~Cancelled(r) /\ ~Active(r) /\ Tracked(r)
      BY <2>0 DEF QueueInv, Inv, QueuedUntouched, CancelledUntouched, WorkInHand, InHand, Untouched,
                  Open, Cancelled, Active, Doing, Found, AllTracked
    <3> QED
      BY <2>0, <3>1, FatesAreClear DEF FateMeans
  <2>5. v \in Promise!Verdicts /\ Promise!Truth(r, v)
    BY <2>0, <2>3, <2>4, VerdictsAre DEF Promise!Truth
  <2> QED
    BY <2>0, <2>1, <2>2, <2>5, Tells
<1> QED
  BY <1>1, <1>2, <1>3, <1>4, <1>5 DEF Answer

LEMMA EnqueueKeepsPromise ==
  ASSUME QueueInv, QueueInv', NEW c \in Clients, NEW r \in Requests, Enqueue(c, r)
  PROVE  Promise!Next
<1>1. /\ inbox' = inbox \cup {r} /\ UNCHANGED <<processing, outbox, told, host>>
      /\ r \notin Submitted
  BY DEF Enqueue
<1>2. Fate(r) = "none" /\ Fate(r)' = "queued"
  <2>1. ~Tracked(r)
    BY <1>1, NewRequest
  <2>2. FateMeans(r) /\ FateMeans(r)'
    BY FatesAreClear, FatesStayClear
  <2> QED
    BY <1>1, <2>1, <2>2 DEF FateMeans
<1>3. ASSUME NEW q \in Requests, q # r PROVE SameFate(q)
  BY <1>1, <1>3 DEF SameFate, host, Cancelled, Tracked, Settled, Over, Active
<1>4. \A q \in Requests : q # r => Fate(q)' = Fate(q)
  BY <1>3, SameFateKept
<1>5. "none" \in Promise!Fates /\ "queued" \in Promise!Fates
  BY DEF Promise!Fates
<1>6. Promise!Become(r, "none", "queued")
  BY <1>2, <1>4, <1>5, FateBecomes
<1> QED
  BY <1>1, <1>6 DEF Promise!Next, Promise!Admit

\* What Fate looks at when the worker w moves.
LEMMA ServingFates ==
  ASSUME QueueInv, NEW w \in Workers, Alone(w), NEW q \in Requests
  PROVE  /\ Cancelled(q)' <=> Cancelled(q)
         /\ Active(q) <=> worker[w].req = q /\ worker[w].place \in {"claimed", "running"}
         /\ Active(q)' <=> worker'[w].req = q /\ worker'[w].place \in {"claimed", "running"}
  BY DEF Alone, Cancelled, Active, Doing

\* The worker takes r up, or is done with it; the others keep their fate.
LEMMA ServingBecomes ==
  ASSUME QueueInv, QueueInv', NEW r \in Requests, NEW old \in Promise!Fates,
         NEW new \in Promise!Fates, Fate(r) = old, Fate(r)' = new,
         \A q \in Requests : q # r => SameFate(q)
  PROVE  Promise!Become(r, old, new)
<1>1. \A q \in Requests : q # r => Fate(q)' = Fate(q)
  BY SameFateKept
<1> QED
  BY <1>1, FateBecomes

LEMMA ServingKeepsPromise ==
  ASSUME QueueInv, QueueInv', NEW w \in Workers, Serves(w)
  PROVE  [Promise!Next]_(Promise!vars)
<1> USE DEF files, callers, host, Doing, Step, LetGo, Tracked
<1>0. /\ Alone(w) /\ TypeOK /\ TypeOK'
      /\ (~Doing(w, "down") /\ ~Doing(w, "idle") => worker[w].req \in processing)
      /\ InHand(w)
  BY WorkerAlone DEF QueueInv, Inv, WorkInHand, InHand
<1>1. ASSUME NEW q \in Requests
      PROVE  /\ Over(q)' <=> Over(q)
             /\ Cancelled(q)' <=> Cancelled(q)
             /\ Active(q) <=> worker[w].req = q /\ worker[w].place \in {"claimed", "running"}
             /\ Active(q)' <=> worker'[w].req = q /\ worker'[w].place \in {"claimed", "running"}
  BY <1>0, AloneKeeps, ServingFates
<1>2. told' = told
  BY <1>0 DEF Alone
<1>3. CASE Start(w) \/ WriteResult(w) \/ Release(w)
  <2>1. ASSUME NEW q \in Requests PROVE SameFate(q)
    BY <1>0, <1>1, <1>3 DEF Start, WriteResult, Release, SameFate, TypeOK, InHand
  <2> QED
    BY <1>2, <2>1, FateStutters
<1>4. CASE Begin(w)
  <2>1. ASSUME NEW q \in Requests PROVE SameFate(q)
    BY <1>0, <1>1, <1>4 DEF Begin, SameFate, TypeOK
  <2> QED
    BY <1>2, <2>1, FateStutters
<1>5. ASSUME NEW r \in Requests, Sweep(w, r) PROVE UNCHANGED Promise!vars
  <2>1. ASSUME NEW q \in Requests PROVE SameFate(q)
    BY <1>0, <1>1, <1>5 DEF Sweep, SameFate, TypeOK
  <2> QED
    BY <1>2, <2>1, FateStutters
<1>6. CASE Crash(w) /\ ~Doing(w, "claimed") /\ ~Doing(w, "running")
  <2>1. ASSUME NEW q \in Requests PROVE SameFate(q)
    BY <1>0, <1>1, <1>6 DEF Crash, SameFate, TypeOK
  <2> QED
    BY <1>2, <2>1, FateStutters
<1>7. CASE Crash(w) /\ (Doing(w, "claimed") \/ Doing(w, "running"))
  <2> PICK r \in Requests : r = worker[w].req
    BY <1>0, <1>7 DEF TypeOK
  <2>1. UNCHANGED <<files, ended>> /\ worker'[w].place = "down"
    BY <1>0, <1>7 DEF Crash, TypeOK
  <2>2. Active(r) /\ ~Active(r)'
    BY <1>1, <1>7, <2>1
  <2>3. r \notin inbox /\ ~Cancelled(r) /\ r \notin ended /\ Tracked(r)
    <3>1. FateMeans(r)
      BY FatesAreClear DEF QueueInv
    <3> QED
      BY <1>0, <1>7, <2>2, <3>1 DEF FateMeans
  <2>4. Fate(r) = "running" /\ Fate(r)' = "stopped"
    <3>1. FateMeans(r) /\ FateMeans(r)'
      BY FatesAreClear, FatesStayClear
    <3> QED
      BY <1>1, <2>1, <2>2, <2>3, <3>1 DEF FateMeans
  <2>5. ASSUME NEW q \in Requests, q # r PROVE SameFate(q)
    BY <1>1, <1>7, <2>1, <2>5 DEF Crash, SameFate, TypeOK
  <2>6. "running" \in Promise!Fates /\ "stopped" \in Promise!Fates
    BY DEF Promise!Fates
  <2>7. Promise!Become(r, "running", "stopped")
    BY <2>4, <2>5, <2>6, ServingBecomes
  <2> QED
    BY <1>2, <2>7 DEF Promise!Next, Promise!Stop
<1>8. ASSUME NEW r \in Requests, Claim(w, r) PROVE Promise!Next
  <2>1. /\ UNCHANGED <<outbox, ended>>
        /\ r \in inbox /\ inbox' = inbox \ {r} /\ processing' = processing \cup {r}
        /\ worker'[w].place = "claimed" /\ worker'[w].req = r /\ Doing(w, "idle")
    BY <1>0, <1>8 DEF Claim, TypeOK
  <2>2. Fate(r) = "queued" /\ Fate(r)' = "running"
    <3>1. FateMeans(r) /\ FateMeans(r)'
      BY FatesAreClear, FatesStayClear
    <3> QED
      BY <1>1, <2>1, <3>1 DEF FateMeans
  <2>3. ASSUME NEW q \in Requests, q # r PROVE SameFate(q)
    BY <1>1, <2>1, <2>3 DEF SameFate
  <2>4. "queued" \in Promise!Fates /\ "running" \in Promise!Fates
    BY DEF Promise!Fates
  <2>5. Promise!Become(r, "queued", "running")
    BY <2>2, <2>3, <2>4, ServingBecomes
  <2> QED
    BY <1>2, <2>5 DEF Promise!Next, Promise!TakeUp
<1>9. CASE Refuse(w) \/ End(w)
  <2>0. Doing(w, "claimed") \/ Doing(w, "running")
    BY <1>9 DEF Refuse, End
  <2> PICK r \in Requests : r = worker[w].req
    BY <1>0, <2>0 DEF TypeOK
  <2>1. /\ UNCHANGED files /\ ended' = ended \cup {r} /\ worker'[w].place = "ran"
    BY <1>0, <1>9 DEF Refuse, End, TypeOK
  <2>2. Fate(r) = "running" /\ Fate(r)' = "finished"
    <3>1. FateMeans(r) /\ FateMeans(r)'
      BY FatesAreClear, FatesStayClear
    <3> QED
      BY <1>1, <2>0, <2>1, <3>1 DEF FateMeans
  <2>3. ASSUME NEW q \in Requests, q # r PROVE SameFate(q)
    BY <1>1, <1>9, <2>1, <2>3 DEF Refuse, End, SameFate, TypeOK
  <2>4. "running" \in Promise!Fates /\ "finished" \in Promise!Fates
    BY DEF Promise!Fates
  <2>5. Promise!Become(r, "running", "finished")
    BY <2>2, <2>3, <2>4, ServingBecomes
  <2> QED
    BY <1>2, <2>5 DEF Promise!Next, Promise!Finish
<1> QED
  BY <1>3, <1>4, <1>5, <1>6, <1>7, <1>8, <1>9 DEF Serves

LEMMA InitKeepsPromise == Init => Promise!Init
<1> SUFFICES ASSUME Init PROVE Promise!Init
  OBVIOUS
<1>1. ASSUME NEW r \in Requests PROVE Fate(r) = "none"
  BY DEF Init, Fate, Submitted, Active
<1> QED
  BY <1>1 DEF Init, Promise!Init

\* The files and the processes keep the promise: every request has one fate,
\* and every final verdict is that fate.
THEOREM QueueKeepsItsPromise == Spec => KeepsPromise
<1>1. QueueInv /\ QueueInv' /\ [Next]_vars => [Promise!Next]_(Promise!vars)
  <2> SUFFICES ASSUME QueueInv, QueueInv', [Next]_vars PROVE [Promise!Next]_(Promise!vars)
    OBVIOUS
  <2>1. ASSUME NEW c \in Clients, Answer(c) PROVE [Promise!Next]_(Promise!vars)
    BY <2>1, CallersKeepPromise
  <2>2. ASSUME NEW c \in Clients, NEW r \in Requests, Enqueue(c, r)
        PROVE  [Promise!Next]_(Promise!vars)
    BY <2>2, EnqueueKeepsPromise
  <2>3. ASSUME NEW c \in Clients, NEW r \in Requests, Ask(c, r)
        PROVE  [Promise!Next]_(Promise!vars)
    BY <2>3, AskingIsQuiet, QuietKeepsPromise DEF Ask, Says
  <2>4. ASSUME NEW w \in Workers, Serve(w) \/ Crash(w) PROVE [Promise!Next]_(Promise!vars)
    BY <2>4, ServingKeepsPromise DEF Serve, Serves
  <2>5. CASE UNCHANGED vars
    <3>1. ASSUME NEW q \in Requests PROVE SameFate(q)
      BY <2>5 DEF vars, files, callers, host, SameFate, Cancelled, Tracked, Settled,
                              Over, Active
    <3> QED
      BY <2>5, <3>1, FateStutters DEF vars, callers
  <2> QED
    BY <2>1, <2>2, <2>3, <2>4, <2>5 DEF Next
<1> QED
  BY QueueInvariant, InitKeepsPromise, <1>1, PTL DEF Spec, KeepsPromise, Promise!Spec

-----------------------------------------------------------------------------
(* What is left to do: a number that every step makes smaller.               *)

\* The steps a call has before it at most.
CallRank(place) ==
  CASE place = "idle" -> 0
    [] place = "clearing" -> 1
    [] place = "reading" -> 2
    [] place \in {"lost", "asking_inbox"} -> 3
    [] place \in {"unlinking", "asking_processing"} -> 4
    [] place \in {"withdrawing", "asking"} -> 5
    [] place = "lastlook" -> 6
    [] place = "waiting" -> 7

\* Those of the worker; a request pays for the way back to the next one.
HostRank(place) ==
  CASE place = "sweeping" -> 0
    [] place = "idle" -> 1
    [] place \in {"down", "written"} -> 2
    [] place = "ran" -> 3
    [] place = "running" -> 4
    [] place = "claimed" -> 5

\* What a request may still cost the callers and the worker.
Ahead(r) ==
  IF r \notin Submitted THEN 15
  ELSE IF r \in inbox THEN 7 ELSE IF r \in processing THEN 2 ELSE 0

ToCarryOut == SumFunctionOnSet([r \in Requests |-> Ahead(r)], Requests)
ToAnswer == SumFunctionOnSet([c \in Clients |-> CallRank(call[c].place)], Clients)
ToServe == SumFunctionOnSet([w \in Workers |-> HostRank(worker[w].place)], Workers)
ToHappen == 6 * (MaxPolls - polls) + 3 * (MaxCrashes - crashes)
WorkLeft == ToCarryOut + ToAnswer + ToServe + ToHappen

WithinBounds == polls <= MaxPolls /\ crashes <= MaxCrashes

\* The sums are numbers, and one of their members that moves alone moves them.
LEMMA CarryOutMoves ==
  ASSUME IsFiniteSet(Requests), NEW r \in Requests,
         \A q \in Requests \ {r} : Ahead(q)' <= Ahead(q)
  PROVE  /\ ToCarryOut \in Int /\ ToCarryOut' \in Int
         /\ ToCarryOut' - Ahead(r)' <= ToCarryOut - Ahead(r)
<1> DEFINE before == [q \in Requests |-> Ahead(q)]
           after == [q \in Requests |-> Ahead(q)']
<1>1. \A q \in Requests : Ahead(q) \in Int /\ Ahead(q)' \in Int
  BY DEF Ahead
<1>2. /\ \A q \in Requests : before[q] \in Int /\ after[q] \in Int
      /\ \A q \in Requests \ {r} : after[q] <= before[q]
      /\ before[r] = Ahead(r) /\ after[r] = Ahead(r)'
  BY <1>1
<1>3. /\ ToCarryOut = SumFunctionOnSet(before, Requests)
      /\ ToCarryOut' = SumFunctionOnSet(after, Requests)
  BY DEF ToCarryOut
<1> HIDE DEF before, after
<1> QED
  BY <1>2, <1>3, SumFollows, SumIsInteger

LEMMA CarryOutFalls ==
  ASSUME IsFiniteSet(Requests), \A q \in Requests : Ahead(q)' <= Ahead(q)
  PROVE  ToCarryOut \in Int /\ ToCarryOut' \in Int /\ ToCarryOut' <= ToCarryOut
<1> DEFINE before == [q \in Requests |-> Ahead(q)]
           after == [q \in Requests |-> Ahead(q)']
<1>1. \A q \in Requests : Ahead(q) \in Int /\ Ahead(q)' \in Int
  BY DEF Ahead
<1>2. \A q \in Requests : before[q] \in Int /\ after[q] \in Int /\ after[q] <= before[q]
  BY <1>1
<1>3. /\ ToCarryOut = SumFunctionOnSet(before, Requests)
      /\ ToCarryOut' = SumFunctionOnSet(after, Requests)
  BY DEF ToCarryOut
<1> HIDE DEF before, after
<1> QED
  BY <1>2, <1>3, SumIsMonotone, SumIsInteger

LEMMA CallRanks ==
  TypeOK => \A c \in Clients : CallRank(call[c].place) \in 0..7
  BY DEF TypeOK, ClientPlaces, CallRank

LEMMA CallRanksNext == (TypeOK => \A c \in Clients : CallRank(call[c].place) \in 0..7)'
  BY CallRanks, PTL

LEMMA HostRanks ==
  TypeOK => \A w \in Workers : HostRank(worker[w].place) \in 0..5
  BY DEF TypeOK, WorkerPlaces, HostRank

LEMMA HostRanksNext == (TypeOK => \A w \in Workers : HostRank(worker[w].place) \in 0..5)'
  BY HostRanks, PTL

LEMMA AnswerMoves ==
  ASSUME IsFiniteSet(Clients), TypeOK, TypeOK', NEW c \in Clients,
         \A d \in Clients \ {c} : call'[d].place = call[d].place
  PROVE  /\ ToAnswer \in Int
         /\ ToAnswer' = ToAnswer + CallRank(call'[c].place) - CallRank(call[c].place)
<1> DEFINE before == [d \in Clients |-> CallRank(call[d].place)]
           after == [d \in Clients |-> CallRank(call'[d].place)]
<1>1. /\ \A d \in Clients : before[d] \in Int /\ after[d] \in Int
      /\ \A d \in Clients \ {c} : after[d] = before[d]
      /\ before[c] = CallRank(call[c].place) /\ after[c] = CallRank(call'[c].place)
  BY CallRanks, CallRanksNext
<1>2. /\ ToAnswer = SumFunctionOnSet(before, Clients)
      /\ ToAnswer' = SumFunctionOnSet(after, Clients)
  BY DEF ToAnswer
<1> HIDE DEF before, after
<1> QED
  BY <1>1, <1>2, SumMoves, SumIsInteger

LEMMA ServeMoves ==
  ASSUME IsFiniteSet(Workers), TypeOK, TypeOK', NEW w \in Workers,
         \A v \in Workers \ {w} : worker'[v].place = worker[v].place
  PROVE  /\ ToServe \in Int
         /\ ToServe' = ToServe + HostRank(worker'[w].place) - HostRank(worker[w].place)
<1> DEFINE before == [v \in Workers |-> HostRank(worker[v].place)]
           after == [v \in Workers |-> HostRank(worker'[v].place)]
<1>1. /\ \A v \in Workers : before[v] \in Int /\ after[v] \in Int
      /\ \A v \in Workers \ {w} : after[v] = before[v]
      /\ before[w] = HostRank(worker[w].place) /\ after[w] = HostRank(worker'[w].place)
  BY HostRanks, HostRanksNext
<1>2. /\ ToServe = SumFunctionOnSet(before, Workers)
      /\ ToServe' = SumFunctionOnSet(after, Workers)
  BY DEF ToServe
<1> HIDE DEF before, after
<1> QED
  BY <1>1, <1>2, SumMoves, SumIsInteger

LEMMA AnswerIsNumber == ASSUME IsFiniteSet(Clients), TypeOK PROVE ToAnswer \in Nat
<1>1. \A c \in Clients : [d \in Clients |-> CallRank(call[d].place)][c] \in Nat
  BY CallRanks
<1> QED
  BY <1>1, SumIsNatural DEF ToAnswer

LEMMA ServeIsNumber == ASSUME IsFiniteSet(Workers), TypeOK PROVE ToServe \in Nat
<1>1. \A w \in Workers : [v \in Workers |-> HostRank(worker[v].place)][w] \in Nat
  BY HostRanks
<1> QED
  BY <1>1, SumIsNatural DEF ToServe

LEMMA WorkIsNumber ==
  ASSUME IsFiniteSet(Requests), IsFiniteSet(Clients), IsFiniteSet(Workers), TypeOK, WithinBounds
  PROVE  WorkLeft \in Nat
<1>1. \A r \in Requests : [q \in Requests |-> Ahead(q)][r] \in Nat
  BY DEF Ahead
<1>2. ToCarryOut \in Nat
  BY <1>1, SumIsNatural DEF ToCarryOut
<1>3. ToHappen \in Nat
  BY QueueAssumption DEF ToHappen, WithinBounds, TypeOK
<1> QED
  BY <1>2, <1>3, AnswerIsNumber, ServeIsNumber DEF WorkLeft

LEMMA WorkIsNumberNext ==
  ASSUME IsFiniteSet(Requests), IsFiniteSet(Clients), IsFiniteSet(Workers)
  PROVE  (TypeOK /\ WithinBounds => WorkLeft \in Nat)'
<1>1. TypeOK /\ WithinBounds => WorkLeft \in Nat
  BY WorkIsNumber
<1> QED
  BY <1>1, PTL

\* A request that was submitted once counts as submitted ever after.
LEMMA SubmittedStays ==
  ASSUME QueueInv, Next, NEW r \in Requests, r \in Submitted
  PROVE  r \in Submitted'
<1> USE DEF QueueInv, Inv, TypeOK, host, callers, files
<1> DEFINE Was == \/ r \in inbox \cup processing \cup known \cup ended \/ outbox[r] # "none"
                  \/ <<r, "unreadable">> \in told
           Is == \/ r \in inbox' \cup processing' \cup known' \cup ended' \/ outbox'[r] # "none"
                 \/ <<r, "unreadable">> \in told'
<1>1. Was
  BY DEF Submitted
<1>2. SUFFICES Is
  BY DEF Submitted
<1>3. ASSUME NEW c \in Clients, Clear(c)
      PROVE  Is
  <2>1. /\ UNCHANGED <<inbox, processing, ended>> /\ known \subseteq known'
        /\ outbox' = [outbox EXCEPT ![call[c].req] = "none"]
        /\ told' = told \cup {<<call[c].req, call[c].found>>}
    BY <1>3 DEF Clear, Reply
  <2>2. CASE call[c].req # r
    BY <1>1, <2>1, <2>2
  <2>3. CASE call[c].req = r /\ call[c].found = "result"
    BY <1>3, <2>1, <2>3 DEF Clear, ResultsAreOfEnded
  <2>4. CASE call[c].req = r /\ call[c].found # "result"
    <3>1. call[c].found \in {"uncertain", "unreadable"}
      BY <1>3, <2>4 DEF Clear, ResultsAreOfEnded
    <3> QED
      BY <1>3, <2>1, <2>4, <3>1 DEF Clear, Reply
  <2> QED
    BY <2>2, <2>3, <2>4
<1>4. ASSUME NEW c \in Clients, Withdraw(c)
      PROVE  Is
  BY <1>1, <1>4 DEF Withdraw, Reply
<1>5. ASSUME NEW c \in Clients, Answer(c), ~Clear(c), ~Withdraw(c)
      PROVE  Is
  BY <1>1, <1>5 DEF Answer, FindResult, TimeIsUp, FindNothing, LookInInbox, GiveUp,
     AskOutbox, AskProcessing, AskInbox, Read, Reply
<1>6. ASSUME NEW c \in Clients, NEW q \in Requests, Enqueue(c, q) \/ Ask(c, q)
      PROVE  Is
  BY <1>1, <1>6 DEF Enqueue, Ask
<1>7. ASSUME NEW w \in Workers, NEW q \in Requests, Sweep(w, q)
      PROVE  Is
  BY <1>1, <1>7 DEF Sweep
<1>8. ASSUME NEW w \in Workers, NEW q \in Requests, Claim(w, q)
      PROVE  Is
  BY <1>1, <1>8 DEF Claim
<1>9. ASSUME NEW w \in Workers, Release(w)
      PROVE  Is
  <2>1. /\ processing' = processing \ {worker[w].req}
        /\ UNCHANGED <<inbox, outbox, known, ended, told>>
    BY <1>9 DEF Release
  <2>2. CASE worker[w].req # r
    BY <1>1, <2>1, <2>2
  <2>3. CASE worker[w].req = r
    <3>1. outbox[r] # "none" \/ Over(r)
      BY <1>9, <2>3 DEF Release, WorkInHand, InHand
    <3>2. Over(r) => r \in known \cup ended \/ <<r, "unreadable">> \in told
      BY DEF AllTracked, Over
    <3> QED
      BY <2>1, <3>1, <3>2
  <2> QED
    BY <2>2, <2>3
<1>10. ASSUME NEW w \in Workers,
              Start(w) \/ Refuse(w) \/ Begin(w) \/ End(w) \/ WriteResult(w) \/ Crash(w)
       PROVE  Is
  BY <1>1, <1>10 DEF Start, Refuse, Begin, End, WriteResult, Crash
<1> QED
  BY <1>3, <1>4, <1>5, <1>6, <1>7, <1>8, <1>9, <1>10 DEF Next, Serve

\* A request that is not put anywhere new costs no more than before.
LEMMA AheadFalls ==
  ASSUME QueueInv, Next, NEW r \in Requests,
         r \in inbox' => r \in inbox, r \in processing' => r \in inbox \cup processing
  PROVE  Ahead(r)' <= Ahead(r)
<1>1. r \in Submitted => r \in Submitted'
  BY SubmittedStays
<1>2. r \in inbox \cup processing => r \in Submitted
  BY DEF Submitted
<1> QED
  BY <1>1, <1>2 DEF Ahead

\* The steps of a call.
LEMMA Gone ==
  ASSUME TypeOK, NEW c \in Clients, NEW place, Go(c, place)
  PROVE  call'[c].place = place /\ \A d \in Clients \ {c} : call'[d] = call[d]
  BY DEF TypeOK, Go

LEMMA AnswerFalls ==
  ASSUME TypeOK, NEW c \in Clients, Answer(c)
  PROVE  /\ CallRank(call'[c].place) < CallRank(call[c].place)
         /\ \A d \in Clients \ {c} : call'[d] = call[d]
         /\ inbox' \subseteq inbox /\ UNCHANGED <<processing, worker, polls, crashes>>
<1> USE DEF At, host, files, callers
<1>1. inbox' \subseteq inbox /\ UNCHANGED <<processing, worker, polls, crashes>>
  BY DEF Answer, FindResult, TimeIsUp, FindNothing, LookInInbox, Withdraw, GiveUp,
     AskOutbox, AskProcessing, AskInbox, Read, Clear
<1>2. CASE FindResult(c)
  BY <1>1, <1>2, Gone DEF FindResult, CallRank
<1>3. CASE TimeIsUp(c)
  BY <1>1, <1>3, Gone DEF TimeIsUp, CallRank
<1>4. CASE FindNothing(c)
  BY <1>1, <1>4, Gone DEF FindNothing, CallRank
<1>5. CASE LookInInbox(c)
  BY <1>1, <1>5, Gone DEF LookInInbox, CallRank
<1>6. CASE Withdraw(c)
  BY <1>1, <1>6, Gone DEF Withdraw, Reply, CallRank
<1>7. CASE GiveUp(c)
  BY <1>1, <1>7, Gone DEF GiveUp, Reply, CallRank
<1>8. CASE AskOutbox(c)
  BY <1>1, <1>8, Gone DEF AskOutbox, CallRank
<1>9. CASE AskProcessing(c)
  BY <1>1, <1>9, Gone DEF AskProcessing, Reply, CallRank
<1>10. CASE AskInbox(c)
  BY <1>1, <1>10, Gone DEF AskInbox, Reply, CallRank
<1>11. CASE Read(c)
  <2>1. CASE Reply(c, "unreadable")
    BY <1>1, <1>11, <2>1, Gone DEF Read, Reply, CallRank
  <2>2. ASSUME NEW found, call' = [call EXCEPT ![c].place = "clearing", ![c].found = found]
        PROVE  /\ CallRank(call'[c].place) < CallRank(call[c].place)
               /\ \A d \in Clients \ {c} : call'[d] = call[d]
    <3>1. call[c].place = "reading"
      BY <1>11 DEF Read
    <3>2. call'[c].place = "clearing" /\ \A d \in Clients \ {c} : call'[d] = call[d]
      BY <2>2 DEF TypeOK
    <3> QED
      BY <3>1, <3>2 DEF CallRank
  <2> QED
    BY <1>1, <1>11, <2>1, <2>2 DEF Read
<1>12. CASE Clear(c)
  BY <1>1, <1>12, Gone DEF Clear, Reply, CallRank
<1> QED
  BY <1>2, <1>3, <1>4, <1>5, <1>6, <1>7, <1>8, <1>9, <1>10, <1>11, <1>12 DEF Answer

\* The steps of the worker between the claim of a request and its release.
LEMMA Stepped ==
  ASSUME TypeOK, NEW w \in Workers, NEW place, Step(w, place) \/ LetGo(w, place)
  PROVE  worker'[w].place = place /\ \A v \in Workers \ {w} : worker'[v] = worker[v]
  BY DEF TypeOK, Step, LetGo

LEMMA ServeFalls ==
  ASSUME TypeOK, NEW w \in Workers,
         \/ Start(w) \/ (\E r \in Requests : Sweep(w, r))
         \/ Refuse(w) \/ Begin(w) \/ End(w) \/ WriteResult(w)
  PROVE  /\ HostRank(worker'[w].place) < HostRank(worker[w].place)
         /\ \A v \in Workers \ {w} : worker'[v] = worker[v]
         /\ UNCHANGED <<inbox, processing, call, polls, crashes>>
<1> USE DEF Doing, HostRank, files, callers
<1>1. CASE Start(w)
  BY <1>1, Stepped DEF Start
<1>2. ASSUME NEW r \in Requests, Sweep(w, r)
      PROVE  /\ HostRank(worker'[w].place) < HostRank(worker[w].place)
             /\ \A v \in Workers \ {w} : worker'[v] = worker[v]
             /\ UNCHANGED <<inbox, processing, call, polls, crashes>>
  BY <1>2 DEF Sweep, TypeOK
<1>3. CASE Refuse(w)
  BY <1>3, Stepped DEF Refuse
<1>4. CASE Begin(w)
  BY <1>4, Stepped DEF Begin
<1>5. CASE End(w)
  BY <1>5, Stepped DEF End
<1>6. CASE WriteResult(w)
  BY <1>6, Stepped DEF WriteResult
<1> QED
  BY <1>1, <1>2, <1>3, <1>4, <1>5, <1>6

\* What the steps that move a request cost and pay.
LEMMA Prices == \A before, after \in Int :
  /\ after - 7 <= before - 15 => after <= before - 8
  /\ after - 2 <= before - 7 => after <= before - 5
  /\ after - 0 <= before - 2 => after <= before - 2
  OBVIOUS

LEMMA Balance == \A o, o1, a, a1, s, s1, h \in Int :
  \/ o1 <= o - 8 /\ a1 <= a + 7 /\ s1 = s
  \/ o1 <= o - 5 /\ a1 = a /\ s1 <= s + 4
  \/ o1 <= o - 2 /\ a1 = a /\ s1 <= s + 1
  => o1 + a1 + s1 + h < o + a + s + h
  OBVIOUS

LEMMA ToHappenFalls ==
  ASSUME polls \in Nat, crashes \in Nat
  PROVE  /\ ToHappen \in Int
         /\ UNCHANGED <<polls, crashes>> => ToHappen' = ToHappen
         /\ polls' = polls + 1 /\ crashes' = crashes => ToHappen' = ToHappen - 6
         /\ crashes' = crashes + 1 /\ polls' = polls => ToHappen' = ToHappen - 3
<1>1. MaxPolls \in Nat /\ MaxCrashes \in Nat
  BY QueueAssumption
<1>2. ToHappen \in Int
  BY <1>1 DEF ToHappen
<1>3. UNCHANGED <<polls, crashes>> => ToHappen' = ToHappen
  BY DEF ToHappen
<1>4. ASSUME polls' = polls + 1, crashes' = crashes PROVE ToHappen' = ToHappen - 6
  BY <1>1, <1>4 DEF ToHappen
<1>5. ASSUME crashes' = crashes + 1, polls' = polls PROVE ToHappen' = ToHappen - 3
  BY <1>1, <1>5 DEF ToHappen
<1> QED
  BY <1>2, <1>3, <1>4, <1>5

\* Every step spends something.
LEMMA StepSpends ==
  ASSUME IsFiniteSet(Requests), IsFiniteSet(Clients), IsFiniteSet(Workers),
         QueueInv, QueueInv', Next
  PROVE  WorkLeft' < WorkLeft
<1>1. TypeOK /\ TypeOK' /\ polls \in Nat /\ crashes \in Nat
  BY DEF QueueInv, TypeOK
<1>2. /\ ToHappen \in Int
      /\ UNCHANGED <<polls, crashes>> => ToHappen' = ToHappen
      /\ polls' = polls + 1 /\ crashes' = crashes => ToHappen' = ToHappen - 6
      /\ crashes' = crashes + 1 /\ polls' = polls => ToHappen' = ToHappen - 3
  BY <1>1, ToHappenFalls
<1>3. inbox' \subseteq inbox /\ processing' \subseteq inbox \cup processing =>
        ToCarryOut \in Int /\ ToCarryOut' \in Int /\ ToCarryOut' <= ToCarryOut
  BY AheadFalls, CarryOutFalls
<1>4. UNCHANGED worker => ToServe' = ToServe
  BY DEF ToServe
<1>5. UNCHANGED call => ToAnswer' = ToAnswer
  BY DEF ToAnswer
<1>6. \A c \in Clients : CallRank(call[c].place) \in 0..7 /\ CallRank(call'[c].place) \in 0..7
  BY <1>1, CallRanks, CallRanksNext
<1>7. \A w \in Workers : HostRank(worker[w].place) \in 0..5 /\ HostRank(worker'[w].place) \in 0..5
  BY <1>1, HostRanks, HostRanksNext
<1>8. ASSUME NEW c \in Clients, Answer(c)
      PROVE  WorkLeft' < WorkLeft
  <2>1. /\ CallRank(call'[c].place) < CallRank(call[c].place)
        /\ \A d \in Clients \ {c} : call'[d].place = call[d].place
        /\ inbox' \subseteq inbox /\ UNCHANGED <<processing, worker, polls, crashes>>
    BY <1>1, <1>8, AnswerFalls
  <2>2. /\ ToAnswer \in Int
        /\ ToAnswer' = ToAnswer + CallRank(call'[c].place) - CallRank(call[c].place)
    BY <1>1, <2>1, AnswerMoves
  <2>3. ToServe \in Int
    BY <1>1, ServeIsNumber
  <2> QED
    BY <1>3, <1>4, <1>6, <1>2, <2>1, <2>2, <2>3 DEF WorkLeft
<1>9. ASSUME NEW c \in Clients, NEW r \in Requests, Enqueue(c, r)
      PROVE  WorkLeft' < WorkLeft
  <2>1. /\ r \notin Submitted /\ inbox' = inbox \cup {r}
        /\ UNCHANGED <<processing, worker, polls, crashes>>
    BY <1>9 DEF Enqueue, host
  <2>2. Ahead(r) = 15 /\ Ahead(r)' = 7
    BY <2>1 DEF Ahead, Submitted
  <2>3. \A q \in Requests \ {r} : Ahead(q)' <= Ahead(q)
    BY <2>1, AheadFalls
  <2>4. ToCarryOut \in Int /\ ToCarryOut' \in Int /\ ToCarryOut' <= ToCarryOut - 8
    <3>1. ToCarryOut \in Int /\ ToCarryOut' \in Int /\ ToCarryOut' - 7 <= ToCarryOut - 15
      BY <2>2, <2>3, CarryOutMoves
    <3> QED
      BY <3>1, Prices
  <2>5. \A d \in Clients \ {c} : call'[d].place = call[d].place
    BY <1>1, <1>9 DEF Enqueue, TypeOK
  <2>6. ToAnswer \in Int /\ ToAnswer' \in Int /\ ToAnswer' <= ToAnswer + 7
    <3>1. /\ ToAnswer \in Int
          /\ ToAnswer' = ToAnswer + CallRank(call'[c].place) - CallRank(call[c].place)
      BY <1>1, <2>5, AnswerMoves
    <3> QED
      BY <1>6, <3>1
  <2>7. ToServe \in Int
    BY <1>1, ServeIsNumber
  <2>8. ToServe' = ToServe /\ ToHappen \in Int /\ ToHappen' = ToHappen
    BY <1>4, <1>2, <2>1
  <2> QED
    BY <2>4, <2>6, <2>7, <2>8, Balance DEF WorkLeft
<1>10. ASSUME NEW c \in Clients, NEW r \in Requests, Ask(c, r)
      PROVE  WorkLeft' < WorkLeft
  <2>1. UNCHANGED <<inbox, processing, worker, crashes>> /\ polls' = polls + 1
    BY <1>10 DEF Ask, files, host
  <2>2. /\ call[c].place = "idle" /\ call'[c].place = "asking"
        /\ \A d \in Clients \ {c} : call'[d].place = call[d].place
    BY <1>1, <1>10 DEF Ask, At, TypeOK
  <2>3. ToAnswer \in Int /\ ToAnswer' = ToAnswer + 5
    BY <1>1, <2>2, AnswerMoves DEF CallRank
  <2>4. ToServe \in Int
    BY <1>1, ServeIsNumber
  <2> QED
    BY <1>3, <1>4, <1>2, <2>1, <2>3, <2>4 DEF WorkLeft
<1>11. ASSUME NEW w \in Workers, NEW r \in Requests, Claim(w, r)
       PROVE  WorkLeft' < WorkLeft
  <2>1. /\ r \in inbox /\ inbox' = inbox \ {r} /\ processing' = processing \cup {r}
        /\ UNCHANGED <<call, polls, crashes>>
    BY <1>11 DEF Claim, callers
  <2>2. Ahead(r) = 7 /\ Ahead(r)' = 2
    BY <2>1 DEF Ahead, Submitted
  <2>3. \A q \in Requests \ {r} : Ahead(q)' <= Ahead(q)
    BY <2>1, AheadFalls
  <2>4. ToCarryOut \in Int /\ ToCarryOut' \in Int /\ ToCarryOut' <= ToCarryOut - 5
    <3>1. ToCarryOut \in Int /\ ToCarryOut' \in Int /\ ToCarryOut' - 2 <= ToCarryOut - 7
      BY <2>2, <2>3, CarryOutMoves
    <3> QED
      BY <3>1, Prices
  <2>5. /\ worker[w].place = "idle" /\ worker'[w].place = "claimed"
        /\ \A v \in Workers \ {w} : worker'[v].place = worker[v].place
    BY <1>1, <1>11 DEF Claim, Doing, TypeOK
  <2>6. ToServe \in Int /\ ToServe' \in Int /\ ToServe' <= ToServe + 4
    BY <1>1, <2>5, ServeMoves DEF HostRank
  <2>7. ToAnswer \in Int
    BY <1>1, AnswerIsNumber
  <2>8. ToAnswer' = ToAnswer /\ ToHappen \in Int /\ ToHappen' = ToHappen
    BY <1>5, <1>2, <2>1
  <2> QED
    BY <2>4, <2>6, <2>7, <2>8, Balance DEF WorkLeft
<1>12. ASSUME NEW w \in Workers, Release(w)
       PROVE  WorkLeft' < WorkLeft
  <2>0. PICK r : r = worker[w].req
    OBVIOUS
  <2>1. /\ r \in processing /\ r \in Requests
        /\ processing' = processing \ {r} /\ UNCHANGED <<inbox, call, polls, crashes>>
    BY <1>1, <1>12, <2>0 DEF Release, QueueInv, Inv, WorkInHand, InHand, Doing, TypeOK, callers
  <2>2. Ahead(r) = 2 /\ Ahead(r)' = 0
    <3>1. r \notin inbox /\ r \in Submitted
      BY <1>1, <2>1 DEF TypeOK, Submitted
    <3>2. r \in Submitted'
      BY <2>1, <3>1, SubmittedStays
    <3> QED
      BY <2>1, <3>1, <3>2 DEF Ahead
  <2>3. \A q \in Requests \ {r} : Ahead(q)' <= Ahead(q)
    BY <2>1, AheadFalls
  <2>4. ToCarryOut \in Int /\ ToCarryOut' \in Int /\ ToCarryOut' <= ToCarryOut - 2
    <3>1. ToCarryOut \in Int /\ ToCarryOut' \in Int /\ ToCarryOut' - 0 <= ToCarryOut - 2
      BY <2>1, <2>2, <2>3, CarryOutMoves
    <3> QED
      BY <3>1, Prices
  <2>5. /\ worker[w].place \in {"written", "sweeping"} /\ worker'[w].place = "idle"
        /\ \A v \in Workers \ {w} : worker'[v].place = worker[v].place
    BY <1>1, <1>12, Stepped DEF Release, Doing
  <2>6. ToServe \in Int /\ ToServe' <= ToServe + 1 /\ ToServe' \in Int
    BY <1>1, <2>5, ServeMoves DEF HostRank
  <2>7. ToAnswer \in Int
    BY <1>1, AnswerIsNumber
  <2>8. ToAnswer' = ToAnswer /\ ToHappen \in Int /\ ToHappen' = ToHappen
    BY <1>5, <1>2, <2>1
  <2> QED
    BY <2>4, <2>6, <2>7, <2>8, Balance DEF WorkLeft
<1>13. ASSUME NEW w \in Workers, Crash(w)
       PROVE  WorkLeft' < WorkLeft
  <2>1. UNCHANGED <<inbox, processing, call, polls>> /\ crashes' = crashes + 1
    BY <1>13 DEF Crash, files, callers
  <2>2. worker'[w].place = "down" /\ \A v \in Workers \ {w} : worker'[v].place = worker[v].place
    BY <1>1, <1>13, Stepped DEF Crash
  <2>3. ToServe \in Int /\ ToServe' = ToServe + 2 - HostRank(worker[w].place)
    BY <1>1, <2>2, ServeMoves DEF HostRank
  <2>4. ToAnswer \in Int
    BY <1>1, AnswerIsNumber
  <2> QED
    BY <1>3, <1>5, <1>7, <1>2, <2>1, <2>3, <2>4 DEF WorkLeft
<1>14. ASSUME NEW w \in Workers,
              \/ Start(w) \/ (\E r \in Requests : Sweep(w, r))
              \/ Refuse(w) \/ Begin(w) \/ End(w) \/ WriteResult(w)
       PROVE  WorkLeft' < WorkLeft
  <2>1. /\ HostRank(worker'[w].place) < HostRank(worker[w].place)
        /\ \A v \in Workers \ {w} : worker'[v].place = worker[v].place
        /\ UNCHANGED <<inbox, processing, call, polls, crashes>>
    BY <1>1, <1>14, ServeFalls
  <2>2. /\ ToServe \in Int
        /\ ToServe' = ToServe + HostRank(worker'[w].place) - HostRank(worker[w].place)
    BY <1>1, <2>1, ServeMoves
  <2>3. ToAnswer \in Int
    BY <1>1, AnswerIsNumber
  <2> QED
    BY <1>3, <1>5, <1>7, <1>2, <2>1, <2>2, <2>3 DEF WorkLeft
<1> QED
  BY <1>8, <1>9, <1>10, <1>11, <1>12, <1>13, <1>14 DEF Next, Serve

\* With finitely many requests, callers and worker processes every step, a restart and a
\* repeated call of status among them, leaves less to be done: nothing in the queue goes
\* on for ever, and what is left where the worker starts again is carried out or swept.
THEOREM QueueWorkRunsOut ==
  ASSUME IsFiniteSet(Requests), IsFiniteSet(Clients), IsFiniteSet(Workers)
  PROVE  Spec => [][/\ WorkLeft \in Nat /\ WorkLeft' \in Nat
                    /\ WorkLeft' < WorkLeft]_vars
<1>1. Init => WithinBounds
  BY QueueAssumption DEF Init, WithinBounds
<1>2. TypeOK /\ WithinBounds /\ [Next]_vars => WithinBounds'
  <2> SUFFICES ASSUME TypeOK, WithinBounds, [Next]_vars PROVE WithinBounds'
    OBVIOUS
  <2>1. ASSUME UNCHANGED <<polls, crashes>>
        PROVE  WithinBounds'
    BY <2>1 DEF WithinBounds
  <2>2. ASSUME NEW c \in Clients, Answer(c)
        PROVE  WithinBounds'
    BY <2>1, <2>2, AnswerFalls
  <2>3. ASSUME NEW c \in Clients, NEW r \in Requests, Enqueue(c, r)
        PROVE  WithinBounds'
    BY <2>1, <2>3 DEF Enqueue, host
  <2>4. ASSUME NEW c \in Clients, NEW r \in Requests, Ask(c, r)
        PROVE  WithinBounds'
    BY <2>4, QueueAssumption DEF Ask, host, TypeOK, WithinBounds
  <2>5. ASSUME NEW w \in Workers, Crash(w)
        PROVE  WithinBounds'
    BY <2>5, QueueAssumption DEF Crash, callers, TypeOK, WithinBounds
  <2>6. ASSUME NEW w \in Workers, (\E r \in Requests : Claim(w, r)) \/ Release(w)
        PROVE  WithinBounds'
    BY <2>1, <2>6 DEF Claim, Release, callers
  <2>7. ASSUME NEW w \in Workers,
               \/ Start(w) \/ (\E r \in Requests : Sweep(w, r))
               \/ Refuse(w) \/ Begin(w) \/ End(w) \/ WriteResult(w)
        PROVE  WithinBounds'
    BY <2>1, <2>7, ServeFalls
  <2>8. CASE UNCHANGED vars
    BY <2>8 DEF vars, callers, host, WithinBounds
  <2> QED
    BY <2>2, <2>3, <2>4, <2>5, <2>6, <2>7, <2>8 DEF Next, Serve
<1>3. QueueInv => TypeOK
  BY DEF QueueInv
<1>4. QueueInv /\ QueueInv' /\ WithinBounds /\ WithinBounds' /\ [Next]_vars =>
        [/\ WorkLeft \in Nat /\ WorkLeft' \in Nat
         /\ WorkLeft' < WorkLeft]_vars
  BY WorkIsNumber, WorkIsNumberNext, StepSpends DEF QueueInv
<1> QED
  BY <1>1, <1>2, <1>3, <1>4, QueueInvariant, PTL DEF Spec

=============================================================================
