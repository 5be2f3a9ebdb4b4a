---------------------------- MODULE BillingProofs ----------------------------
(***************************************************************************)
(* Theorems about Billing, for any subscriptions, requests, trial, billing *)
(* intervals and circumstances: the types, that a trial is never given     *)
(* again whatever overlaps, fails or comes late, that the period of a row  *)
(* never goes back while one event is handled at a time, that the row then *)
(* names the only mandate that can be charged and says of it what Razorpay *)
(* says, and that the second half of the start rule starts the first sync. *)
(***************************************************************************)
EXTENDS Billing, TLAPS

-----------------------------------------------------------------------------
(* Types *)

LEMMA Constants == NoRow \in Row /\ NoReq \in Req /\ Absent \in Remote
  BY BillingAssumption DEF NoRow, Row, NoReq, Req, Absent, Remote, Status, Op

\* What a session writes back is a row: each column is the row's or its own.
LEMMA SavedRow ==
    ASSUME row \in Row, NEW seen \in Row, NEW new \in Row
    PROVE  Saved(seen, new) \in Row
  BY DEF Saved, Row

LEMMA WithoutType ==
    ASSUME wire \in Seq(Event), NEW i \in DOMAIN wire
    PROVE  Without(i) \in Seq(Event)
  BY DEF Without

LEMMA SendType ==
    ASSUME wire \in Seq(Event), NEW s \in Sub, NEW status \in Status, NEW end \in Nat,
           Send(s, status, end)
    PROVE  wire' \in Seq(Event)
  <1>1. [sub |-> s, status |-> status, end |-> end, claimed |-> FALSE] \in Event
    BY DEF Event
  <1> QED
    BY <1>1 DEF Send

\* A handler about to cancel a subscription knows which.
Named(r) ==
    /\ pc[r] = "replace" => req[r].new.sub # NoSub
    /\ pc[r] = "stop" => req[r].seen.sub # NoSub

LEMMA TypeInit == Init => TypeOK
  <1> SUFFICES ASSUME Init PROVE TypeOK
    OBVIOUS
  <1>1. row \in Row
    BY Constants, BillingAssumption DEF Init, Row, NoRow, Status
  <1>2. rz \in [Sub -> Remote] /\ req \in [Request -> Req]
    BY Constants DEF Init
  <1>3. wire \in Seq(Event) /\ pc \in [Request -> Step]
    BY DEF Init, Step
  <1>4. faults \subseteq Circumstance /\ now \in 0 .. Horizon
    BY BillingAssumption DEF Init
  <1> QED
    BY <1>1, <1>2, <1>3, <1>4 DEF Init, TypeOK

\* A handler moves on or returns.
LEMMA StepType ==
    ASSUME TypeOK, NEW r \in Request, NEW step \in Step, Goto(r, step)
    PROVE  pc' \in [Request -> Step]
  BY DEF TypeOK, Goto

LEMMA ReturnType ==
    ASSUME TypeOK, NEW r \in Request, Return(r)
    PROVE  pc' \in [Request -> Step] /\ req' \in [Request -> Req]
  BY Constants DEF TypeOK, Return, Goto, Step

LEMMA CancelNowType ==
    ASSUME TypeOK, NEW s \in Sub, CancelNow(s)
    PROVE  rz' \in [Sub -> Remote] /\ wire' \in Seq(Event)
  <1>1. rz[s] \in Remote /\ "cancelled" \in Status
    BY DEF TypeOK, Status
  <1>2. [rz[s] EXCEPT !.status = "cancelled"] \in Remote /\ rz[s].end \in Nat
    BY <1>1 DEF Remote
  <1>3. wire' \in Seq(Event)
    BY <1>1, <1>2, SendType DEF CancelNow, TypeOK
  <1> QED
    BY <1>2, <1>3 DEF CancelNow, TypeOK

LEMMA CheckoutType ==
    ASSUME TypeOK, NEW r \in Request, Named(r),
           \/ BeginCheckout(r) \/ Refuse(r) \/ PassGuard(r) \/ Replace(r) \/ Insert(r)
           \/ Create(r) \/ CreateFails(r) \/ Write(r)
    PROVE  TypeOK'
  <1>1. CASE BeginCheckout(r)
    <2> DEFINE new == IF row.made THEN row
                      ELSE [NoRow EXCEPT !.made = TRUE, !.status = "authenticated",
                                         !.trialEnds = now + Trial]
    <2>1. now + Trial \in Nat
      BY BillingAssumption DEF TypeOK
    <2>2. new \in Row
      BY <2>1, Constants, BillingAssumption DEF TypeOK, Row, NoRow, Status
    <2>3. [NoReq EXCEPT !.op = "checkout", !.seen = row, !.new = new] \in Req
      BY <2>2, Constants DEF Req, NoReq, Op, TypeOK
    <2>4. req' \in [Request -> Req]
      BY <1>1, <2>3 DEF BeginCheckout, TypeOK
    <2>5. pc' \in [Request -> Step]
      BY <1>1, StepType DEF BeginCheckout, Step
    <2> QED
      BY <1>1, <2>4, <2>5 DEF BeginCheckout, TypeOK, others
  <1>2. CASE Refuse(r) \/ CreateFails(r)
    BY <1>2, ReturnType DEF Refuse, CreateFails, TypeOK, others
  <1>3. CASE PassGuard(r)
    <2>1. pc' \in [Request -> Step]
      BY <1>3, StepType DEF PassGuard, Step
    <2> QED
      BY <1>3, <2>1 DEF PassGuard, TypeOK, others
  <1>4. CASE Replace(r)
    <2> DEFINE s == req[r].new.sub
    <2>1. req[r].new \in Row /\ s \in Sub
      BY <1>4 DEF Replace, Named, TypeOK, Req, Row
    <2>2. rz' \in [Sub -> Remote] /\ wire' \in Seq(Event)
      BY <1>4, <2>1, CancelNowType DEF Replace, TypeOK
    <2>3. pc' \in [Request -> Step]
      BY <1>4, StepType DEF Replace, Step
    <2> QED
      BY <1>4, <2>2, <2>3 DEF Replace, TypeOK, others
  <1>5. CASE Insert(r)
    <2>1. req[r] \in Req /\ req[r].new \in Row
      BY DEF TypeOK, Req
    <2>2. [req[r] EXCEPT !.seen = req[r].new] \in Req
      BY <2>1 DEF Req
    <2>3. row' \in Row
      BY <1>5, <2>1 DEF Insert, TypeOK
    <2>4. req' \in [Request -> Req]
      BY <1>5, <2>2, ReturnType DEF Insert, TypeOK
    <2>5. pc' \in [Request -> Step]
      BY <1>5, StepType, ReturnType DEF Insert, Step
    <2> QED
      BY <1>5, <2>3, <2>4, <2>5 DEF Insert, TypeOK, others
  <1>6. CASE Create(r)
    <2>1. req[r] \in Req /\ req[r].new \in Row /\ TrialEnds(r) \in Nat
      BY DEF TypeOK, Req, Row, TrialEnds
    <2>2. PICK s \in {t \in Sub : rz[t].status = "absent"}, c \in Cycles :
            /\ rz' = [rz EXCEPT ![s] = [Absent EXCEPT !.status = "created", !.cycle = c,
                                                      !.startAt = TrialEnds(r)]]
            /\ req' = [req EXCEPT ![r].new.sub = s]
      BY <1>6 DEF Create
    <2>3. [Absent EXCEPT !.status = "created", !.cycle = c, !.startAt = TrialEnds(r)] \in Remote
      BY <2>1, Constants DEF Remote, Status
    <2>4. rz' \in [Sub -> Remote]
      BY <2>2, <2>3 DEF TypeOK
    <2>5. [req[r].new EXCEPT !.sub = s] \in Row
      BY <2>1 DEF Row
    <2>6. [req[r] EXCEPT !.new = [req[r].new EXCEPT !.sub = s]] \in Req
      BY <2>1, <2>5 DEF Req
    <2>7. req' \in [Request -> Req]
      BY <2>2, <2>6 DEF TypeOK
    <2>8. pc' \in [Request -> Step]
      BY <1>6, StepType DEF Create, Step
    <2> QED
      BY <1>6, <2>4, <2>7, <2>8 DEF Create, TypeOK, others
  <1>7. CASE Write(r)
    <2>1. req[r] \in Req /\ req[r].new \in Row /\ req[r].seen \in Row /\ TrialEnds(r) \in Nat
      BY DEF TypeOK, Req, Row, TrialEnds
    <2>2. [req[r].new EXCEPT !.trialEnds = TrialEnds(r), !.ends = FALSE] \in Row
      BY <2>1 DEF Row
    <2>3. row' \in Row
      BY <1>7, <2>1, <2>2, SavedRow DEF Write, TypeOK
    <2>4. \A s \in Sub : [rz[s] EXCEPT !.shown = TRUE] \in Remote
      BY DEF TypeOK, Remote
    <2>5. rz' \in [Sub -> Remote]
      BY <1>7, <2>4 DEF Write, TypeOK
    <2> QED
      BY <1>7, <2>3, <2>5, ReturnType DEF Write, TypeOK, others
  <1> QED
    BY <1>1, <1>2, <1>3, <1>4, <1>5, <1>6, <1>7

LEMMA CancelType ==
    ASSUME TypeOK, NEW r \in Request, Named(r), BeginCancel(r) \/ Stop(r) \/ Mark(r)
    PROVE  TypeOK'
  <1>1. CASE BeginCancel(r)
    <2>1. [NoReq EXCEPT !.op = "cancel", !.seen = row, !.new = row] \in Req
      BY Constants DEF TypeOK, Req, Op
    <2>2. req' \in [Request -> Req] /\ pc' \in [Request -> Step]
      BY <1>1, <2>1, StepType DEF BeginCancel, TypeOK, Step
    <2> QED
      BY <1>1, <2>2 DEF BeginCancel, TypeOK, others
  <1>2. CASE Stop(r)
    <2> DEFINE s == req[r].seen.sub
    <2>1. req[r].seen \in Row /\ s \in Sub
      BY <1>2 DEF Stop, Named, TypeOK, Req, Row
    <2>2. [rz[s] EXCEPT !.stops = TRUE] \in Remote
      <3>1. PICK z \in Remote : z = rz[s]
        BY <2>1 DEF TypeOK
      <3>2. [z EXCEPT !.stops = TRUE] \in Remote
        BY DEF Remote
      <3> QED
        BY <3>1, <3>2
    <2>3. CASE /\ rz[s].status \in Cancellable
               /\ IF AtCycleEnd(r) THEN rz' = [rz EXCEPT ![s].stops = TRUE] /\ UNCHANGED wire
                                   ELSE CancelNow(s)
               /\ Goto(r, "mark")
               /\ UNCHANGED req
      <3>1. rz' \in [Sub -> Remote] /\ wire' \in Seq(Event)
        BY <2>1, <2>2, <2>3, CancelNowType DEF TypeOK
      <3>2. pc' \in [Request -> Step]
        BY <2>3, StepType DEF Step
      <3> QED
        BY <1>2, <2>3, <3>1, <3>2 DEF Stop, TypeOK, others
    <2>4. CASE Return(r) /\ UNCHANGED <<rz, wire>>
      BY <1>2, <2>4, ReturnType DEF Stop, TypeOK, others
    <2> QED
      BY <1>2, <2>3, <2>4 DEF Stop
  <1>3. CASE Mark(r)
    <2>1. req[r].new \in Row /\ req[r].seen \in Row
      BY DEF TypeOK, Req
    <2>2. [req[r].new EXCEPT !.ends = TRUE] \in Row /\ Cancelled(req[r].new) \in Row
      BY <2>1 DEF Row, Cancelled, Status
    <2>3. row' \in Row
      BY <1>3, <2>1, <2>2, SavedRow DEF Mark, TypeOK
    <2> QED
      BY <1>3, <2>3, ReturnType DEF Mark, TypeOK, others
  <1> QED
    BY <1>1, <1>2, <1>3

LEMMA ReceiveType ==
    ASSUME TypeOK, NEW r \in Request, NEW i \in DOMAIN wire, Receive(r, i)
    PROVE  TypeOK'
  <1> USE DEF TypeOK
  <1>1. wire[i] \in Event /\ Without(i) \in Seq(Event)
    BY WithoutType
  <1>2. [wire[i] EXCEPT !.claimed = TRUE] \in Event
    BY <1>1 DEF Event
  <1> DEFINE claimed == [wire EXCEPT ![i] = [wire[i] EXCEPT !.claimed = TRUE]]
  <1>3. wire' = Without(i) \/ wire' = claimed
    BY DEF Receive
  <1>4. claimed \in Seq(Event)
    BY <1>2
  <1>5. wire' \in Seq(Event)
    BY <1>1, <1>3, <1>4
  <1>6. [row EXCEPT !.sub = wire[i].sub] \in Row
    BY <1>1 DEF Row, Event
  <1>7. [op |-> "event", seen |-> row, new |-> [row EXCEPT !.sub = wire[i].sub],
         status |-> wire[i].status, end |-> wire[i].end] \in Req
    BY <1>1, <1>6 DEF Req, Event, Op
  <1>8. req' \in [Request -> Req] /\ pc' \in [Request -> Step]
    BY <1>7, StepType DEF Receive, Step
  <1>9. relinked' \in BOOLEAN
    BY DEF Receive
  <1> QED
    BY <1>5, <1>8, <1>9 DEF Receive

LEMMA JudgeType ==
    ASSUME TypeOK, NEW r \in Request, Judge(r) \/ Apply(r)
    PROVE  TypeOK'
  <1> USE DEF TypeOK
  <1>1. CASE Judge(r)
    <2> DEFINE new == [req[r].new EXCEPT !.status = req[r].status,
                                         !.periodEnd = IF req[r].end = 0 THEN @ ELSE req[r].end]
    <2>1. req[r] \in Req /\ req[r].new \in Row /\ req[r].status \in Status /\ req[r].end \in Nat
      BY DEF Req
    <2>2. new \in Row
      BY <2>1 DEF Row
    <2>3. [req[r] EXCEPT !.new = new] \in Req
      BY <2>1, <2>2 DEF Req
    <2>4. req' = req \/ req' = [req EXCEPT ![r].new = new]
      BY <1>1 DEF Judge
    <2>6. req' \in [Request -> Req]
      BY <2>3, <2>4
    <2>7. pc' \in [Request -> Step]
      BY <1>1, StepType DEF Judge, Step
    <2>5. sync' \in {"no", "queued", "missed", "done"}
      BY <1>1 DEF Judge, StartSync
    <2> QED
      BY <1>1, <2>5, <2>6, <2>7 DEF Judge
  <1>2. CASE Apply(r)
    <2>1. row' \in Row
      BY <1>2, SavedRow DEF Apply, Req
    <2> QED
      BY <1>2, <2>1, ReturnType DEF Apply, others
  <1> QED
    BY <1>1, <1>2

LEMMA OnboardType ==
    ASSUME TypeOK, NEW r \in Request, BeginOnboard(r) \/ Finish(r) \/ Sync \/ Crash(r)
    PROVE  TypeOK'
  <1> USE DEF TypeOK
  <1>1. CASE BeginOnboard(r)
    <2>1. [req[r] EXCEPT !.op = "onboard"] \in Req
      BY DEF Req, Op
    <2>2. req' \in [Request -> Req] /\ pc' \in [Request -> Step]
      BY <1>1, <2>1, StepType DEF BeginOnboard, Step
    <2> QED
      BY <1>1, <2>2 DEF BeginOnboard, StartSync
  <1>2. CASE Finish(r)
    BY <1>2, ReturnType DEF Finish
  <1>3. CASE Sync
    BY <1>3 DEF Sync
  <1>4. CASE Crash(r)
    BY <1>4, ReturnType DEF Crash, others
  <1> QED
    BY <1>1, <1>2, <1>3, <1>4

LEMMA ChangeType ==
    ASSUME TypeOK, NEW s \in Sub, NEW status \in Status, NEW end \in Nat,
           Change(s, status, end)
    PROVE  TypeOK'
  <1>1. [rz[s] EXCEPT !.status = status, !.end = end] \in Remote
    BY DEF TypeOK, Remote
  <1>2. rz' \in [Sub -> Remote]
    BY <1>1 DEF Change, TypeOK
  <1>3. wire' \in Seq(Event)
    BY SendType DEF Change, TypeOK
  <1> QED
    BY <1>2, <1>3 DEF Change, remoteOnly, others, TypeOK

LEMMA RemoteType ==
    ASSUME TypeOK, NEW s \in Sub,
           Sign(s) \/ Charge(s) \/ Retry(s) \/ CycleEnd(s) \/ EndEarly(s)
    PROVE  TypeOK'
  <1>0. rz[s] \in Remote
    BY DEF TypeOK
  <1>4. rz[s].cycle \in Cycles /\ rz[s].end \in Nat
    BY <1>0 DEF Remote
  <1>5. now \in Nat
    BY BillingAssumption DEF TypeOK
  <1>1. now \in Nat /\ rz[s].end \in Nat /\ rz[s].cycle \in Nat
    BY <1>4, <1>5, BillingAssumption
  <1>2. now + rz[s].cycle \in Nat
    BY <1>1
  <1>3. \E status \in Status, end \in Nat : Change(s, status, end)
    <2>1. {"authenticated", "active", "pending", "halted", "cancelled"} \subseteq Status /\ 0 \in Nat
      BY DEF Status
    <2>2. CASE Sign(s)
      BY <1>2, <2>1, <2>2 DEF Sign
    <2>3. CASE Charge(s) \/ Retry(s)
      BY <1>1, <1>2, <2>1, <2>3 DEF Charge, Retry
    <2>4. CASE CycleEnd(s) \/ EndEarly(s)
      BY <1>1, <2>1, <2>4 DEF CycleEnd, EndEarly
    <2> QED
      BY <2>2, <2>3, <2>4
  <1> QED
    BY <1>3, ChangeType

LEMMA DayType ==
    ASSUME TypeOK, NextDay
    PROVE  TypeOK'
  BY BillingAssumption DEF TypeOK, NextDay

-----------------------------------------------------------------------------
(* What a handler is about to write *)

\* A handler that found a row writes the trial it read; only an event brings
\* another period, and not an earlier one.
Draft(r) ==
    /\ pc[r] \in {"guard", "replace", "insert"} /\ req[r].seen.made => req[r].new = req[r].seen
    /\ pc[r] \in {"create", "write", "stop", "mark", "judge", "apply"} =>
         req[r].new.trialEnds = req[r].seen.trialEnds
    /\ pc[r] \in {"create", "write", "stop", "mark", "judge"} =>
         req[r].new.periodEnd = req[r].seen.periodEnd
    /\ pc[r] = "apply" => req[r].new.periodEnd >= req[r].seen.periodEnd

\* Without overlap an event is judged by the row it will be written to: beside
\* it there is at most a checkout between its two transactions.
Turn(r) ==
    "overlap" \notin faults /\ pc[r] \in {"judge", "apply"} =>
        /\ req[r].op = "event"
        /\ req[r].seen.periodEnd = row.periodEnd
        /\ \A q \in Request \ {r} : pc[q] = "idle" \/ Between(q)

Inv ==
    /\ TypeOK
    /\ \A r \in Request : Named(r)
    /\ \A r \in Request : Draft(r)
    /\ \A r \in Request : Turn(r)

Handler(r) ==
    \/ BeginCheckout(r) \/ Refuse(r) \/ PassGuard(r) \/ Replace(r) \/ Insert(r)
    \/ Create(r) \/ CreateFails(r) \/ Write(r)
    \/ BeginCancel(r) \/ Stop(r) \/ Mark(r)
    \/ \E i \in DOMAIN wire : Receive(r, i)
    \/ Judge(r) \/ Apply(r)
    \/ BeginOnboard(r) \/ Finish(r) \/ Crash(r)

Outside ==
    \/ \E i \in DOMAIN wire : Duplicate(i)
    \/ Sync
    \/ \E s \in Sub : Sign(s) \/ Charge(s) \/ Retry(s) \/ CycleEnd(s) \/ EndEarly(s)
    \/ NextDay

\* Every step is a handler's, or leaves the handlers and the row alone.
LEMMA Steps ==
    ASSUME Next
    PROVE  (\E r \in Request : Handler(r)) \/ Outside
  BY DEF Next, Handler, Outside

LEMMA OutsideFrame ==
    ASSUME Outside
    PROVE  UNCHANGED <<faults, row, pc, req>>
  BY DEF Outside, Duplicate, Sync, Sign, Charge, Retry, CycleEnd, EndEarly, Change, NextDay,
         remoteOnly, others

LEMMA HandlerFrame ==
    ASSUME TypeOK, NEW r \in Request, Handler(r)
    PROVE  /\ faults' = faults
           /\ \A q \in Request \ {r} : pc'[q] = pc[q] /\ req'[q] = req[q]
  <1>1. CASE BeginCheckout(r) \/ Refuse(r) \/ PassGuard(r) \/ Replace(r) \/ Insert(r)
    BY <1>1 DEF BeginCheckout, Refuse, PassGuard, Replace, Insert, Goto, Return, others, TypeOK
  <1>2. CASE Create(r) \/ CreateFails(r) \/ Write(r)
    BY <1>2 DEF Create, CreateFails, Write, Goto, Return, others, TypeOK
  <1>3. CASE BeginCancel(r) \/ Stop(r) \/ Mark(r)
    BY <1>3 DEF BeginCancel, Stop, Mark, Goto, Return, others, TypeOK
  <1>4. CASE (\E i \in DOMAIN wire : Receive(r, i)) \/ Judge(r) \/ Apply(r)
    BY <1>4 DEF Receive, Judge, Apply, Goto, Return, others, TypeOK
  <1>5. CASE BeginOnboard(r) \/ Finish(r) \/ Crash(r)
    BY <1>5 DEF BeginOnboard, Finish, Crash, Goto, Return, others, TypeOK
  <1> QED
    BY <1>1, <1>2, <1>3, <1>4, <1>5 DEF Handler

\* What the handler's own step makes of its draft.
LEMMA OwnDraft ==
    ASSUME TypeOK, NEW r \in Request, Named(r), Draft(r), Handler(r)
    PROVE  Named(r)' /\ Draft(r)'
  <1>0. req[r] \in Req /\ req[r].new \in Row /\ req[r].seen \in Row /\ row \in Row
    BY DEF TypeOK, Req
  <1>1. CASE BeginCheckout(r)
    BY <1>0, <1>1 DEF BeginCheckout, Goto, Named, Draft, TypeOK, NoReq
  <1>2. CASE pc'[r] = "idle"
    BY <1>2 DEF Named, Draft
  <1>3. CASE PassGuard(r)
    BY <1>3 DEF PassGuard, Goto, Named, Draft, TypeOK
  <1>4. CASE Replace(r)
    BY <1>4 DEF Replace, Goto, Named, Draft, TypeOK
  <1>5. CASE Insert(r)
    <2>1. CASE req[r].seen.made
      BY <1>5, <2>1 DEF Insert, Goto, Named, Draft, TypeOK
    <2>2. CASE ~req[r].seen.made /\ ~row.made
      <3>1. req'[r] = [req[r] EXCEPT !.seen = req[r].new] /\ pc'[r] = "create"
        BY <1>5, <2>2 DEF Insert, Goto, TypeOK
      <3>2. req'[r].seen = req[r].new /\ req'[r].new = req[r].new
        BY <1>0, <3>1 DEF Req
      <3> QED
        BY <3>1, <3>2 DEF Named, Draft
    <2>3. CASE ~req[r].seen.made /\ row.made
      BY <1>5, <1>2, <2>3 DEF Insert, Return, Goto, TypeOK
    <2> QED
      BY <2>1, <2>2, <2>3
  <1>6. CASE Create(r)
    <2>1. PICK s \in Sub : req' = [req EXCEPT ![r].new.sub = s]
      BY <1>6 DEF Create
    <2>2. /\ req'[r].seen = req[r].seen
          /\ req'[r].new.trialEnds = req[r].new.trialEnds
          /\ req'[r].new.periodEnd = req[r].new.periodEnd
      BY <1>0, <2>1 DEF TypeOK, Req, Row
    <2> QED
      BY <1>6, <2>2 DEF Create, Goto, Named, Draft, TypeOK
  <1>7. CASE BeginCancel(r)
    BY <1>0, <1>7 DEF BeginCancel, Goto, Named, Draft, TypeOK, NoReq
  <1>8. CASE Stop(r)
    <2>1. CASE Goto(r, "mark") /\ UNCHANGED req
      BY <1>8, <2>1 DEF Stop, Goto, Named, Draft, TypeOK
    <2>2. CASE Return(r)
      BY <1>2, <2>2 DEF Return, Goto, TypeOK
    <2> QED
      BY <1>8, <2>1, <2>2 DEF Stop
  <1>9. CASE \E i \in DOMAIN wire : Receive(r, i)
    <2>1. PICK i \in DOMAIN wire : Receive(r, i)
      BY <1>9
    <2>2. req'[r].seen = row /\ req'[r].new = [row EXCEPT !.sub = wire[i].sub] /\ pc'[r] = "judge"
      BY <2>1 DEF Receive, Goto, TypeOK
    <2> QED
      BY <1>0, <2>2 DEF Named, Draft, Row
  <1>10. CASE Judge(r)
    <2>1. pc[r] = "judge" /\ pc'[r] = "apply"
      BY <1>10 DEF Judge, Goto, TypeOK
    <2>2. CASE Stale(r)
      BY <1>0, <1>10, <2>1, <2>2 DEF Judge, Named, Draft, Row
    <2>3. CASE ~Stale(r)
      <3> DEFINE end == IF req[r].end = 0 THEN req[r].new.periodEnd ELSE req[r].end
      <3>1. req'[r] = [req[r] EXCEPT !.new = [req[r].new EXCEPT !.status = req[r].status,
                                                               !.periodEnd = end]]
        BY <1>0, <1>10, <2>3 DEF Judge, TypeOK, Req, Row
      <3>2. /\ req'[r].seen = req[r].seen
            /\ req'[r].new.trialEnds = req[r].new.trialEnds
            /\ req'[r].new.periodEnd = end
        BY <1>0, <3>1 DEF Req, Row
      <3>3. end >= req[r].new.periodEnd
        BY <1>0, <2>3 DEF Stale, Req, Row
      <3> QED
        BY <2>1, <3>2, <3>3 DEF Named, Draft
    <2> QED
      BY <2>2, <2>3
  <1>11. CASE BeginOnboard(r)
    BY <1>11 DEF BeginOnboard, Goto, Named, Draft, TypeOK
  <1>12. CASE Refuse(r) \/ CreateFails(r) \/ Write(r) \/ Mark(r) \/ Apply(r) \/ Finish(r) \/ Crash(r)
    BY <1>2, <1>12 DEF Refuse, CreateFails, Write, Mark, Apply, Finish, Crash, Return, Goto, TypeOK
  <1> QED
    BY <1>1, <1>3, <1>4, <1>5, <1>6, <1>7, <1>8, <1>9, <1>10, <1>11, <1>12 DEF Handler

\* A handler that is not the one whose turn it is changes nothing an event
\* under way relies on.
LEMMA TurnKept ==
    ASSUME TypeOK, NEW r \in Request, Handler(r), "overlap" \notin faults,
           NEW q \in Request \ {r}, pc[q] \in {"judge", "apply"}, Turn(q)
    PROVE  row' = row /\ pc'[r] \in {"idle", "create", "write"}
  <1>1. pc[r] \in {"idle", "create", "write"}
    BY DEF Turn, Between
  <1>2. pc[q] \notin {"idle", "create", "write"}
    OBVIOUS
  <1>3. ~Free(r) /\ ~Write(r)
    BY <1>2 DEF Free, Quiet, Write, Alone
  <1>4. ~\E i \in DOMAIN wire : Receive(r, i)
    BY <1>2 DEF Receive, Between
  <1>6. Create(r) \/ CreateFails(r) \/ Crash(r)
    BY <1>1, <1>3, <1>4
    DEF Handler, BeginCheckout, Refuse, PassGuard, Replace, Insert, BeginCancel, Stop,
        Mark, Judge, Apply, BeginOnboard, Finish
  <1> QED
    BY <1>6 DEF Create, CreateFails, Crash, Return, Goto, others, TypeOK

LEMMA TurnStep ==
    ASSUME TypeOK, \A q \in Request : Turn(q), NEW r \in Request, Handler(r),
           NEW q \in Request
    PROVE  Turn(q)'
  <1> SUFFICES ASSUME "overlap" \notin faults, pc'[q] \in {"judge", "apply"}
               PROVE  /\ req'[q].op = "event"
                      /\ req'[q].seen.periodEnd = row'.periodEnd
                      /\ \A p \in Request \ {q} : pc'[p] \in {"idle", "create", "write"}
    BY HandlerFrame DEF Turn, Between
  <1>1. CASE q # r
    <2>1. pc[q] \in {"judge", "apply"} /\ req'[q] = req[q]
      BY <1>1, HandlerFrame
    <2>2. row' = row /\ pc'[r] \in {"idle", "create", "write"}
      BY <1>1, <2>1, TurnKept
    <2> QED
      BY <1>1, <2>1, <2>2, HandlerFrame DEF Turn, Between
  <1>2. CASE q = r
    <2>1. (\E i \in DOMAIN wire : Receive(r, i)) \/ Judge(r)
      BY <1>2 DEF Handler, BeginCheckout, Refuse, PassGuard, Replace, Insert, Create, CreateFails,
                  Write, BeginCancel, Stop, Mark, Apply, BeginOnboard, Finish, Crash, Return,
                  Goto, TypeOK
    <2>2. \A p \in Request \ {q} : pc'[p] = pc[p]
      BY <1>2, HandlerFrame
    <2>3. CASE \E i \in DOMAIN wire : Receive(r, i)
      <3>1. PICK i \in DOMAIN wire : Receive(r, i)
        BY <2>3
      <3>2. req'[r].op = "event" /\ req'[r].seen = row /\ row' = row
        BY <3>1 DEF Receive, TypeOK
      <3>3. \A p \in Request : pc[p] = "idle" \/ Between(p)
        BY <3>1 DEF Receive
      <3> QED
        BY <1>2, <2>2, <3>2, <3>3 DEF Between
    <2>4. CASE Judge(r)
      <3>1. pc[r] = "judge" /\ row' = row
        BY <2>4 DEF Judge
      <3>2. req'[r].op = req[r].op /\ req'[r].seen = req[r].seen
        BY <2>4 DEF Judge, TypeOK, Req
      <3> QED
        BY <1>2, <2>2, <3>1, <3>2 DEF Turn, Between
    <2> QED
      BY <2>1, <2>3, <2>4
  <1> QED
    BY <1>1, <1>2

LEMMA HandlerType ==
    ASSUME TypeOK, NEW r \in Request, Named(r), Handler(r)
    PROVE  TypeOK'
  <1>1. CASE \/ BeginCheckout(r) \/ Refuse(r) \/ PassGuard(r) \/ Replace(r) \/ Insert(r)
             \/ Create(r) \/ CreateFails(r) \/ Write(r)
    BY <1>1, CheckoutType
  <1>2. CASE BeginCancel(r) \/ Stop(r) \/ Mark(r)
    BY <1>2, CancelType
  <1>3. CASE \E i \in DOMAIN wire : Receive(r, i)
    BY <1>3, ReceiveType
  <1>4. CASE Judge(r) \/ Apply(r)
    BY <1>4, JudgeType
  <1>5. CASE BeginOnboard(r) \/ Finish(r) \/ Crash(r)
    BY <1>5, OnboardType
  <1> QED
    BY <1>1, <1>2, <1>3, <1>4, <1>5 DEF Handler

LEMMA OutsideType ==
    ASSUME TypeOK, Outside
    PROVE  TypeOK'
  <1>1. CASE Sync
    BY <1>1 DEF TypeOK, Sync
  <1>2. CASE \E i \in DOMAIN wire : Duplicate(i)
    BY <1>2, WithoutType DEF TypeOK, Duplicate, others
  <1> QED
    BY <1>1, <1>2, RemoteType, DayType DEF Outside

-----------------------------------------------------------------------------
(* The theorems *)

LEMMA InvInit == Init => Inv
  BY TypeInit DEF Init, Inv, Named, Draft, Turn, Between

LEMMA InvStep == Inv /\ [Next]_vars => Inv'
  <1> SUFFICES ASSUME Inv, [Next]_vars
               PROVE  Inv'
    OBVIOUS
  <1>1. CASE \E r \in Request : Handler(r)
    <2>1. PICK r \in Request : Handler(r)
      BY <1>1
    <2>2. TypeOK'
      BY <2>1, HandlerType DEF Inv
    <2>3. \A q \in Request : Named(q)' /\ Draft(q)'
      BY <2>1, OwnDraft, HandlerFrame DEF Inv, Named, Draft
    <2>4. \A q \in Request : Turn(q)'
      BY <2>1, TurnStep DEF Inv
    <2> QED
      BY <2>2, <2>3, <2>4 DEF Inv
  <1>2. CASE Outside
    BY <1>2, OutsideType, OutsideFrame DEF Inv, Named, Draft, Turn, Between
  <1>3. CASE UNCHANGED vars
    BY <1>3 DEF vars, Inv, Named, Draft, Turn, Between, TypeOK
  <1> QED
    BY <1>1, <1>2, <1>3, Steps

\* The row, the subscriptions at Razorpay, the events and what each handler
\* holds keep their types.
THEOREM BillingTypeCorrect == Spec => []TypeOK
  <1>1. Inv => TypeOK
    BY DEF Inv
  <1> QED
    BY <1>1, InvInit, InvStep, PTL DEF Spec

\* The steps that write the row.
LEMMA RowWrites ==
    ASSUME [Next]_vars, row' # row
    PROVE  \E r \in Request : Insert(r) \/ Write(r) \/ Mark(r) \/ Apply(r)
  <1>1. PICK r \in Request : Handler(r)
    BY Steps, OutsideFrame DEF vars
  <1> QED
    BY <1>1 DEF Handler, BeginCheckout, Refuse, PassGuard, Replace, Create, CreateFails,
                BeginCancel, Stop, Receive, Judge, BeginOnboard, Finish, Crash, others

\* What a handler puts into a column: the row's value, or its own.
LEMMA Columns ==
    ASSUME TypeOK, NEW r \in Request, Write(r) \/ Mark(r) \/ Apply(r)
    PROVE  /\ \/ row'.trialEnds = row.trialEnds
              \/ /\ Write(r)
                 /\ row'.trialEnds = TrialEnds(r)
                 /\ TrialEnds(r) # req[r].seen.trialEnds
              \/ req[r].new.trialEnds # req[r].seen.trialEnds
           /\ \/ row'.periodEnd = row.periodEnd
              \/ req[r].new.periodEnd # req[r].seen.periodEnd /\ row'.periodEnd = req[r].new.periodEnd
  <1>1. req[r].new \in Row /\ req[r].seen \in Row /\ row \in Row
    BY DEF TypeOK, Req
  <1>2. CASE Write(r)
    BY <1>1, <1>2 DEF Write, Saved, Row
  <1>3. CASE Mark(r)
    <2> DEFINE new == IF AtCycleEnd(r) THEN [req[r].new EXCEPT !.ends = TRUE]
                      ELSE Cancelled(req[r].new)
    <2>1. new.trialEnds = req[r].new.trialEnds /\ new.periodEnd = req[r].new.periodEnd
      BY <1>1 DEF Row, Cancelled
    <2>2. row' = Saved(req[r].seen, new)
      BY <1>3 DEF Mark
    <2> QED
      BY <1>1, <2>1, <2>2 DEF Saved, Row
  <1>4. CASE Apply(r)
    BY <1>1, <1>4 DEF Apply, Saved, Row
  <1> QED
    BY <1>2, <1>3, <1>4

\* "Trials are once per customer": whatever overlaps, fails or comes late, no
\* step gives a row a later trial that is still to come.
THEOREM TrialsAreOnce == Spec => TrialOnce
  <1>1. ASSUME Inv, [Next]_vars, row.made, row'.trialEnds > row.trialEnds
        PROVE  row'.trialEnds <= now
    <2>1. row.trialEnds \in Nat /\ now \in Nat
      BY <1>1, BillingAssumption DEF Inv, TypeOK, Row
    <2>2. row' # row
      BY <1>1, <2>1
    <2>3. PICK r \in Request : Insert(r) \/ Write(r) \/ Mark(r) \/ Apply(r)
      BY <1>1, <2>2, RowWrites
    <2>4. ~Insert(r)
      BY <1>1, <2>2 DEF Insert
    <2>5. req[r].new.trialEnds = req[r].seen.trialEnds /\ req[r].new.trialEnds \in Nat
      BY <1>1, <2>3, <2>4 DEF Inv, Draft, Write, Mark, Apply, TypeOK, Req, Row
    <2>6. row'.trialEnds # row.trialEnds
      BY <1>1, <2>1
    <2>7. row'.trialEnds = TrialEnds(r) /\ TrialEnds(r) # req[r].seen.trialEnds
      BY <1>1, <2>3, <2>4, <2>5, <2>6, Columns DEF Inv
    <2> QED
      BY <2>1, <2>5, <2>7 DEF TrialEnds
  <1>2. Inv /\ [Next]_vars =>
          [row.made /\ row'.trialEnds > row.trialEnds => row'.trialEnds <= now]_vars
    BY <1>1
  <1> QED
    BY <1>2, InvInit, InvStep, PTL DEF Spec, TrialOnce

\* "a late redelivery cannot resurrect a period that has already advanced":
\* handled one at a time, in whatever order they come, events never take the
\* row's period back.
THEOREM PeriodsAdvance == Spec => PeriodForward
  <1>1. ASSUME Inv, [Next]_vars, row.made, "overlap" \notin faults
        PROVE  row'.periodEnd >= row.periodEnd
    <2>1. row.periodEnd \in Nat
      BY <1>1 DEF Inv, TypeOK, Row
    <2>2. CASE row' = row
      BY <2>1, <2>2
    <2>3. CASE row' # row
      <3>1. PICK r \in Request : Insert(r) \/ Write(r) \/ Mark(r) \/ Apply(r)
        BY <1>1, <2>3, RowWrites
      <3>2. ~Insert(r)
        BY <1>1, <2>3 DEF Insert
      <3>3. CASE Write(r) \/ Mark(r)
        <4>1. req[r].new.periodEnd = req[r].seen.periodEnd
          BY <1>1, <3>3 DEF Inv, Draft, Write, Mark
        <4>2. row'.periodEnd = row.periodEnd
          BY <1>1, <3>3, <4>1, Columns DEF Inv
        <4> QED
          BY <2>1, <4>2
      <3>4. CASE Apply(r)
        <4>1. /\ req[r].new.periodEnd >= req[r].seen.periodEnd
              /\ req[r].seen.periodEnd = row.periodEnd
          BY <1>1, <3>4 DEF Inv, Draft, Turn, Apply
        <4> QED
          BY <1>1, <2>1, <3>4, <4>1, Columns DEF Inv
      <3> QED
        BY <3>1, <3>2, <3>3, <3>4
    <2> QED
      BY <2>2, <2>3
  <1>2. Inv /\ [Next]_vars =>
          [row.made /\ "overlap" \notin faults => row'.periodEnd >= row.periodEnd]_vars
    BY <1>1
  <1> QED
    BY <1>2, InvInit, InvStep, PTL DEF Spec, PeriodForward
-----------------------------------------------------------------------------
(* One handler at a time *)

\* What a session writes back, column by column.
LEMMA SavedIs ==
    ASSUME row \in Row, NEW seen \in Row, NEW new \in Row
    PROVE  /\ Saved(seen, new).made = IF new.made = seen.made THEN row.made ELSE new.made
           /\ Saved(seen, new).sub = IF new.sub = seen.sub THEN row.sub ELSE new.sub
           /\ Saved(seen, new).status = IF new.status = seen.status THEN row.status ELSE new.status
           /\ Saved(seen, new).periodEnd =
                IF new.periodEnd = seen.periodEnd THEN row.periodEnd ELSE new.periodEnd
  BY DEF Saved, Row

\* What a handler holds is a row that is there, or the trial row it will insert;
\* it changes no more than the subscription until it writes.
Shape(r) ==
    /\ pc[r] \in {"guard", "replace", "insert"} =>
         /\ req[r].new.made
         /\ \/ req[r].seen.made
            \/ pc[r] # "replace" /\ req[r].new.sub = NoSub /\ req[r].new.status = "authenticated"
              /\ req[r].new.periodEnd = 0
    /\ pc[r] \in {"create", "write", "stop", "mark", "judge", "apply"} =>
         req[r].seen.made /\ req[r].new.made
    /\ pc[r] \in {"create", "stop", "mark"} => req[r].new = req[r].seen
    /\ pc[r] \in {"write", "judge"} =>
         req[r].new.status = req[r].seen.status /\ req[r].new.periodEnd = req[r].seen.periodEnd

\* Until there is a row nothing has been bought.
RowMade ==
    ~row.made =>
        /\ row = NoRow /\ wire = <<>>
        /\ \A s \in Sub : rz[s].status = "absent"
        /\ \A r \in Request : pc[r] \in {"idle", "guard", "insert", "finish"}
        /\ \A r \in Request : pc[r] \in {"guard", "insert"} => ~req[r].seen.made

\* A handler runs alone, and what it read is what the row says, but for an event
\* between the two transactions of a checkout.
Serial ==
    "overlap" \notin faults =>
        \A r \in Request :
            /\ pc[r] \notin {"idle", "create", "write", "judge", "apply"} => Alone(r)
            /\ Between(r) => \A q \in Request \ {r} : pc[q] \in {"idle", "judge", "apply"}
            /\ pc[r] \in {"guard", "replace", "insert", "stop", "mark", "judge", "apply"} =>
                 req[r].seen = row

\* An event that is not stale brings its status and, if it has one, its period.
LEMMA JudgeIs ==
    ASSUME TypeOK, NEW r \in Request, Judge(r)
    PROVE  /\ pc[r] = "judge" /\ pc'[r] = "apply"
           /\ UNCHANGED <<faults, now, onboarded, row, rz, wire>>
           /\ req'[r].seen = req[r].seen
           /\ req'[r].new.made = req[r].new.made /\ req'[r].new.sub = req[r].new.sub
           /\ Stale(r) => req'[r] = req[r]
           /\ ~Stale(r) =>
                /\ req'[r].new.status = req[r].status
                /\ req'[r].new.periodEnd =
                     IF req[r].end = 0 THEN req[r].new.periodEnd ELSE req[r].end
  <1>0. req[r] \in Req /\ req[r].new \in Row /\ req[r].end \in Nat /\ req[r].status \in Status
    BY DEF TypeOK, Req
  <1>1. /\ pc[r] = "judge" /\ pc'[r] = "apply"
        /\ UNCHANGED <<faults, now, onboarded, row, rz, wire>>
    BY DEF Judge, Goto, TypeOK
  <1>2. CASE Stale(r)
    BY <1>1, <1>2 DEF Judge
  <1>3. CASE ~Stale(r)
    <2> DEFINE end == IF req[r].end = 0 THEN req[r].new.periodEnd ELSE req[r].end
    <2>1. req'[r] = [req[r] EXCEPT !.new = [req[r].new EXCEPT !.status = req[r].status,
                                                             !.periodEnd = end]]
      BY <1>0, <1>3 DEF Judge, TypeOK, Req, Row
    <2>2. /\ req'[r].seen = req[r].seen
          /\ req'[r].new = [req[r].new EXCEPT !.status = req[r].status, !.periodEnd = end]
      BY <1>0, <2>1 DEF Req
    <2>3. /\ req'[r].new.made = req[r].new.made /\ req'[r].new.sub = req[r].new.sub
          /\ req'[r].new.status = req[r].status /\ req'[r].new.periodEnd = end
      BY <1>0, <2>2 DEF Row
    <2> QED
      BY <1>1, <1>3, <2>2, <2>3
  <1> QED
    BY <1>2, <1>3

LEMMA OwnShape ==
    ASSUME TypeOK, RowMade, NEW r \in Request, Draft(r), Shape(r), Handler(r)
    PROVE  Shape(r)'
  <1>0. req[r] \in Req /\ req[r].new \in Row /\ req[r].seen \in Row /\ row \in Row
    BY DEF TypeOK, Req
  <1>1. CASE BeginCheckout(r)
    <2>1. /\ pc'[r] = "guard" /\ req'[r].seen = row
          /\ req'[r].new = IF row.made THEN row
                           ELSE [NoRow EXCEPT !.made = TRUE, !.status = "authenticated",
                                              !.trialEnds = now + Trial]
      BY <1>1 DEF BeginCheckout, Goto, TypeOK, NoReq
    <2> QED
      BY <2>1 DEF Shape, NoRow
  <1>2. CASE pc'[r] = "idle" \/ pc'[r] = "finish"
    BY <1>2 DEF Shape
  <1>3. CASE PassGuard(r)
    <2>1. pc'[r] = (IF req[r].new.sub = NoSub THEN "insert" ELSE "replace") /\ pc[r] = "guard"
          /\ req' = req
      BY <1>3 DEF PassGuard, Goto, TypeOK
    <2> QED
      BY <2>1 DEF Shape
  <1>4. CASE Replace(r)
    BY <1>4 DEF Replace, Goto, Shape, TypeOK
  <1>5. CASE Insert(r)
    <2>1. CASE req[r].seen.made
      BY <1>5, <2>1 DEF Insert, Goto, Shape, Draft, TypeOK
    <2>2. CASE ~req[r].seen.made /\ ~row.made
      <3>1. req'[r] = [req[r] EXCEPT !.seen = req[r].new] /\ pc'[r] = "create" /\ pc[r] = "insert"
        BY <1>5, <2>2 DEF Insert, Goto, TypeOK
      <3>2. req'[r].seen = req[r].new /\ req'[r].new = req[r].new
        BY <1>0, <3>1 DEF Req
      <3> QED
        BY <3>1, <3>2 DEF Shape
    <2>3. CASE ~req[r].seen.made /\ row.made
      BY <1>5, <1>2, <2>3 DEF Insert, Return, Goto, TypeOK
    <2> QED
      BY <2>1, <2>2, <2>3
  <1>6. CASE Create(r)
    <2>1. PICK s \in Sub : req' = [req EXCEPT ![r].new.sub = s]
      BY <1>6 DEF Create
    <2>2. /\ req'[r].seen = req[r].seen
          /\ req'[r].new.made = req[r].new.made
          /\ req'[r].new.status = req[r].new.status
          /\ req'[r].new.periodEnd = req[r].new.periodEnd
      BY <1>0, <2>1 DEF TypeOK, Req, Row
    <2> QED
      BY <1>6, <2>2 DEF Create, Goto, Shape, TypeOK
  <1>7. CASE BeginCancel(r)
    BY <1>0, <1>7 DEF BeginCancel, Goto, Shape, TypeOK, NoReq
  <1>8. CASE Stop(r)
    <2>1. CASE Goto(r, "mark") /\ UNCHANGED req
      BY <1>8, <2>1 DEF Stop, Goto, Shape, TypeOK
    <2>2. CASE Return(r)
      BY <1>2, <2>2 DEF Return, Goto, TypeOK
    <2> QED
      BY <1>8, <2>1, <2>2 DEF Stop
  <1>9. CASE \E i \in DOMAIN wire : Receive(r, i)
    <2>1. PICK i \in DOMAIN wire : Receive(r, i)
      BY <1>9
    <2>2. req'[r].seen = row /\ req'[r].new = [row EXCEPT !.sub = wire[i].sub] /\ pc'[r] = "judge"
      BY <2>1 DEF Receive, Goto, TypeOK
    <2>3. row.made
      BY <2>1 DEF RowMade
    <2> QED
      BY <1>0, <2>2, <2>3 DEF Shape, Row
  <1>10. CASE Judge(r)
    <2>1. pc[r] = "judge" /\ pc'[r] = "apply"
      BY <1>10 DEF Judge, Goto, TypeOK
    <2>2. req'[r].seen = req[r].seen /\ req'[r].new.made = req[r].new.made
      BY <1>0, <1>10, JudgeIs
    <2> QED
      BY <2>1, <2>2 DEF Shape
  <1>11. CASE BeginOnboard(r)
    BY <1>2, <1>11 DEF BeginOnboard, Goto, TypeOK
  <1>12. CASE Refuse(r) \/ CreateFails(r) \/ Write(r) \/ Mark(r) \/ Apply(r) \/ Finish(r) \/ Crash(r)
    BY <1>2, <1>12 DEF Refuse, CreateFails, Write, Mark, Apply, Finish, Crash, Return, Goto, TypeOK
  <1> QED
    BY <1>1, <1>3, <1>4, <1>5, <1>6, <1>7, <1>8, <1>9, <1>10, <1>11, <1>12 DEF Handler

\* What each write makes of the row.
LEMMA WriteIs ==
    ASSUME TypeOK, NEW r \in Request, Write(r)
    PROVE  LET seen == req[r].seen
               new == req[r].new
           IN /\ row'.made = IF new.made = seen.made THEN row.made ELSE new.made
              /\ row'.sub = IF new.sub = seen.sub THEN row.sub ELSE new.sub
              /\ row'.status = IF new.status = seen.status THEN row.status ELSE new.status
              /\ row'.periodEnd =
                   IF new.periodEnd = seen.periodEnd THEN row.periodEnd ELSE new.periodEnd
  <1>0. req[r] \in Req /\ req[r].new \in Row /\ req[r].seen \in Row /\ row \in Row
    BY DEF TypeOK, Req
  <1>1. TrialEnds(r) \in Nat
    BY <1>0, BillingAssumption DEF TrialEnds, Row, TypeOK
  <1>2. \E new \in Row :
          /\ new.made = req[r].new.made /\ new.sub = req[r].new.sub
          /\ new.status = req[r].new.status /\ new.periodEnd = req[r].new.periodEnd
          /\ row' = Saved(req[r].seen, new)
    <2> DEFINE new == [req[r].new EXCEPT !.trialEnds = TrialEnds(r), !.ends = FALSE]
    <2>1. new \in Row
      BY <1>0, <1>1 DEF Row
    <2>2. /\ new.made = req[r].new.made /\ new.sub = req[r].new.sub
          /\ new.status = req[r].new.status /\ new.periodEnd = req[r].new.periodEnd
      BY <1>0 DEF Row
    <2>3. row' = Saved(req[r].seen, new)
      BY DEF Write
    <2> HIDE DEF new
    <2> QED
      BY <2>1, <2>2, <2>3
  <1> QED
    BY <1>0, <1>2, SavedIs

LEMMA MarkIs ==
    ASSUME TypeOK, NEW r \in Request, Mark(r)
    PROVE  LET seen == req[r].seen
               new == req[r].new
               status == IF AtCycleEnd(r) THEN new.status ELSE "cancelled"
           IN /\ row'.made = IF new.made = seen.made THEN row.made ELSE new.made
              /\ row'.sub = IF new.sub = seen.sub THEN row.sub ELSE new.sub
              /\ row'.status = IF status = seen.status THEN row.status ELSE status
              /\ row'.periodEnd =
                   IF new.periodEnd = seen.periodEnd THEN row.periodEnd ELSE new.periodEnd
  <1>0. req[r] \in Req /\ req[r].new \in Row /\ req[r].seen \in Row /\ row \in Row
    BY DEF TypeOK, Req
  <1>1. CASE AtCycleEnd(r)
    <2> DEFINE new == [req[r].new EXCEPT !.ends = TRUE]
    <2>1. /\ new \in Row /\ new.made = req[r].new.made /\ new.sub = req[r].new.sub
          /\ new.status = req[r].new.status /\ new.periodEnd = req[r].new.periodEnd
      BY <1>0 DEF Row
    <2>2. row' = Saved(req[r].seen, new)
      BY <1>1 DEF Mark
    <2> HIDE DEF new
    <2> QED
      BY <1>0, <1>1, <2>1, <2>2, SavedIs
  <1>2. CASE ~AtCycleEnd(r)
    <2> DEFINE new == Cancelled(req[r].new)
    <2>1. /\ new \in Row /\ new.made = req[r].new.made /\ new.sub = req[r].new.sub
          /\ new.status = "cancelled" /\ new.periodEnd = req[r].new.periodEnd
      BY <1>0 DEF Row, Cancelled, Status
    <2>2. row' = Saved(req[r].seen, new)
      BY <1>2 DEF Mark
    <2> HIDE DEF new
    <2> QED
      BY <1>0, <1>2, <2>1, <2>2, SavedIs
  <1> QED
    BY <1>1, <1>2

LEMMA ApplyIs ==
    ASSUME TypeOK, NEW r \in Request, Apply(r)
    PROVE  LET seen == req[r].seen
               new == req[r].new
           IN /\ row'.made = IF new.made = seen.made THEN row.made ELSE new.made
              /\ row'.sub = IF new.sub = seen.sub THEN row.sub ELSE new.sub
              /\ row'.status = IF new.status = seen.status THEN row.status ELSE new.status
              /\ row'.periodEnd =
                   IF new.periodEnd = seen.periodEnd THEN row.periodEnd ELSE new.periodEnd
  <1>0. req[r] \in Req /\ req[r].new \in Row /\ req[r].seen \in Row /\ row \in Row
    BY DEF TypeOK, Req
  <1> QED
    BY <1>0, SavedIs DEF Apply

\* The other handlers' steps leave the row alone, but for the first row.
LEMMA RowAlone ==
    ASSUME TypeOK, NEW r \in Request, Handler(r), ~Write(r), ~Mark(r), ~Apply(r), row' # row
    PROVE  /\ Insert(r) /\ ~req[r].seen.made /\ ~row.made
           /\ row' = req[r].new
  BY DEF Handler, BeginCheckout, Refuse, PassGuard, Replace, Insert, Create, CreateFails, BeginCancel,
         Stop, Receive, Judge, BeginOnboard, Finish, Crash, others

\* Every write of the row is by a handler that holds a row.
LEMMA StaysMade ==
    ASSUME TypeOK, NEW r \in Request, Shape(r), Handler(r), row.made
    PROVE  row'.made
  BY WriteIs, MarkIs, ApplyIs, RowAlone DEF Shape, Write, Mark, Apply

LEMMA RowMadeStep ==
    ASSUME Inv, RowMade, \A q \in Request : Shape(q), NEW r \in Request, Handler(r)
    PROVE  RowMade'
  <1> SUFFICES ASSUME ~row'.made PROVE RowMade'
    BY DEF RowMade
  <1>0. TypeOK /\ \A q \in Request : Shape(q) /\ Draft(q)
    BY DEF Inv
  <1>1. /\ ~row.made /\ row = NoRow /\ wire = <<>>
        /\ \A s \in Sub : rz[s].status = "absent"
        /\ \A q \in Request : pc[q] \in {"idle", "guard", "insert", "finish"}
        /\ \A q \in Request : pc[q] \in {"guard", "insert"} => ~req[q].seen.made
    BY <1>0, StaysMade DEF RowMade
  <1>2. /\ \A q \in Request \ {r} : pc'[q] = pc[q] /\ req'[q] = req[q]
    BY <1>0, HandlerFrame
  <1>3. CASE /\ UNCHANGED <<row, rz, wire>>
             /\ pc'[r] \in {"idle", "guard", "insert", "finish"}
             /\ pc'[r] \in {"guard", "insert"} => ~req'[r].seen.made
    BY <1>1, <1>2, <1>3 DEF RowMade
  <1>4. CASE BeginCheckout(r)
    <2>1. pc'[r] = "guard" /\ req'[r].seen = row /\ UNCHANGED <<row, rz, wire>>
      BY <1>0, <1>4 DEF BeginCheckout, Goto, TypeOK, NoReq
    <2> QED
      BY <1>1, <1>3, <2>1
  <1>5. CASE PassGuard(r)
    <2>1. pc[r] = "guard" /\ req' = req /\ UNCHANGED <<row, rz, wire>>
          /\ pc'[r] = (IF req[r].new.sub = NoSub THEN "insert" ELSE "replace")
      BY <1>0, <1>5 DEF PassGuard, Goto, TypeOK
    <2>2. req[r].new.sub = NoSub
      BY <1>0, <1>1, <2>1 DEF Shape
    <2> QED
      BY <1>1, <1>3, <2>1, <2>2
  <1>6. CASE Insert(r)
    BY <1>0, <1>1, <1>6 DEF Insert, Shape
  <1>7. CASE BeginOnboard(r) \/ Finish(r) \/ Refuse(r) \/ Crash(r)
    <2>1. pc'[r] \in {"idle", "finish"} /\ UNCHANGED <<row, rz, wire>>
      BY <1>0, <1>7 DEF BeginOnboard, Finish, Refuse, Crash, Return, Goto, TypeOK
    <2> QED
      BY <1>3, <2>1
  <1>8. ~BeginCancel(r) /\ ~\E i \in DOMAIN wire : Receive(r, i)
    BY <1>1 DEF BeginCancel
  <1> QED
    BY <1>1, <1>4, <1>5, <1>6, <1>7, <1>8
    DEF Handler, Replace, Create, CreateFails, Write, Stop, Mark, Judge, Apply

LEMMA RowMadeOutside ==
    ASSUME RowMade, Outside
    PROVE  RowMade'
  <1> SUFFICES ASSUME ~row.made PROVE UNCHANGED <<rz, wire>>
    BY OutsideFrame DEF RowMade
  <1>1. wire = <<>> /\ \A s \in Sub : rz[s].status = "absent"
    BY DEF RowMade
  <1> QED
    BY <1>1 DEF Outside, Duplicate, Sync, Sign, Charge, Retry, CycleEnd, EndEarly, NextDay

\* Beside a handler that is not idle, only an event is handled, or a checkout
\* asks Razorpay or is given up.
LEMMA Beside ==
    ASSUME Inv, Serial, "overlap" \notin faults, NEW r \in Request, Handler(r),
           NEW q \in Request \ {r}, pc[q] # "idle"
    PROVE  \/ /\ pc[q] \in {"judge", "apply"} /\ Between(r)
              /\ Create(r) \/ CreateFails(r) \/ Crash(r)
           \/ /\ Between(q)
              /\ (\E i \in DOMAIN wire : Receive(r, i)) \/ Judge(r) \/ Apply(r) \/ Crash(r)
  <1>0. TypeOK /\ \A p \in Request : Turn(p)
    BY DEF Inv
  <1>1. ~Free(r) /\ ~Write(r)
    BY DEF Free, Quiet, Write, Alone
  <1>2. CASE pc[q] \in {"judge", "apply"}
    <2>1. pc[r] = "idle" \/ Between(r)
      BY <1>0, <1>2 DEF Turn
    <2>2. ~\E i \in DOMAIN wire : Receive(r, i)
      BY <1>2 DEF Receive, Between
    <2> QED
      BY <1>1, <1>2, <2>1, <2>2
      DEF Handler, BeginCheckout, Refuse, PassGuard, Replace, Insert, CreateFails, Create, Crash,
          BeginCancel, Stop, Mark, Judge, Apply, BeginOnboard, Finish, Between
  <1>3. CASE Between(q)
    <2>1. pc[r] \in {"idle", "judge", "apply"}
      BY <1>3 DEF Serial
    <2> QED
      BY <1>1, <1>3, <2>1
      DEF Handler, BeginCheckout, Refuse, PassGuard, Replace, Insert, Create, CreateFails,
          BeginCancel, Stop, Mark, BeginOnboard, Finish
  <1>4. CASE pc[q] \notin {"judge", "apply"} /\ ~Between(q)
    <2>1. pc[r] = "idle"
      BY <1>4 DEF Serial, Alone, Between
    <2>2. ~\E i \in DOMAIN wire : Receive(r, i)
      BY <1>4 DEF Receive
    <2> QED
      BY <1>1, <2>1, <2>2
      DEF Handler, BeginCheckout, Refuse, PassGuard, Replace, Insert, Create, CreateFails,
          BeginCancel, Stop, Mark, Judge, Apply, BeginOnboard, Finish, Crash
  <1> QED
    BY <1>2, <1>3, <1>4

\* A handler that goes on alone was alone, or had nobody beside it.
LEMMA GoesOnAlone ==
    ASSUME Inv, Serial, "overlap" \notin faults, NEW r \in Request, Handler(r),
           pc'[r] \notin {"idle", "write", "judge", "apply"}
    PROVE  Alone(r)
  <1> SUFFICES ASSUME NEW q \in Request \ {r}, pc[q] # "idle" PROVE FALSE
    BY DEF Alone
  <1>1. TypeOK
    BY DEF Inv
  <1>2. \/ Create(r) \/ CreateFails(r) \/ Crash(r) \/ Judge(r) \/ Apply(r)
        \/ \E i \in DOMAIN wire : Receive(r, i)
    BY Beside
  <1>3. CASE Create(r) \/ CreateFails(r) \/ Crash(r) \/ Judge(r) \/ Apply(r)
    BY <1>1, <1>3 DEF Create, CreateFails, Crash, Judge, Apply, Return, Goto, TypeOK
  <1>4. CASE \E i \in DOMAIN wire : Receive(r, i)
    BY <1>1, <1>4 DEF Receive, Goto, TypeOK
  <1> QED
    BY <1>2, <1>3, <1>4

\* A checkout at Razorpay has at most an event beside it.
LEMMA CreatesBeside ==
    ASSUME Inv, Serial, "overlap" \notin faults, NEW r \in Request, Handler(r), pc'[r] = "write",
           NEW q \in Request \ {r}
    PROVE  pc[q] \in {"idle", "judge", "apply"}
  <1>1. TypeOK
    BY DEF Inv
  <1>2. Create(r)
    BY <1>1
    DEF Handler, BeginCheckout, Refuse, PassGuard, Replace, Insert, CreateFails, Write, BeginCancel,
        Stop, Mark, Receive, Judge, Apply, BeginOnboard, Finish, Crash, Return, Goto, TypeOK
  <1> QED
    BY <1>2 DEF Create, Serial, Between

\* A handler that has not written yet still holds what it read.
LEMMA StillRead ==
    ASSUME Inv, Serial, "overlap" \notin faults, NEW r \in Request, Handler(r),
           pc'[r] \in {"guard", "replace", "insert", "stop", "mark", "judge", "apply"}
    PROVE  req'[r].seen = row'
  <1>0. TypeOK
    BY DEF Inv
  <1>1. CASE BeginCheckout(r) \/ BeginCancel(r) \/ \E i \in DOMAIN wire : Receive(r, i)
    <2>1. CASE BeginCheckout(r)
      BY <1>0, <2>1 DEF BeginCheckout, TypeOK, NoReq
    <2>2. CASE BeginCancel(r)
      BY <1>0, <2>2 DEF BeginCancel, TypeOK, NoReq
    <2>3. CASE \E i \in DOMAIN wire : Receive(r, i)
      BY <1>0, <2>3 DEF Receive, TypeOK
    <2> QED
      BY <1>1, <2>1, <2>2, <2>3
  <1>2. CASE PassGuard(r) \/ Replace(r)
    BY <1>0, <1>2 DEF PassGuard, Replace, Serial, others
  <1>3. CASE Stop(r)
    BY <1>0, <1>3 DEF Stop, Serial, Return, Goto, TypeOK
  <1>4. CASE Judge(r)
    BY <1>0, <1>4, JudgeIs DEF Serial
  <1>5. CASE BeginOnboard(r) \/ Insert(r) \/ Create(r)
    BY <1>0, <1>5 DEF BeginOnboard, Insert, Create, Return, Goto, TypeOK
  <1>6. CASE Refuse(r) \/ CreateFails(r) \/ Write(r) \/ Mark(r) \/ Apply(r) \/ Finish(r) \/ Crash(r)
    BY <1>0, <1>6 DEF Refuse, CreateFails, Write, Mark, Apply, Finish, Crash, Return, Goto, TypeOK
  <1> QED
    BY <1>1, <1>2, <1>3, <1>4, <1>5, <1>6 DEF Handler

LEMMA SerialStep ==
    ASSUME Inv, Serial, NEW r \in Request, Handler(r)
    PROVE  Serial'
  <1>0. TypeOK /\ faults' = faults /\ \A q \in Request \ {r} : pc'[q] = pc[q] /\ req'[q] = req[q]
    BY HandlerFrame DEF Inv
  <1> SUFFICES ASSUME "overlap" \notin faults, NEW p \in Request
               PROVE  /\ pc'[p] \notin {"idle", "create", "write", "judge", "apply"} => Alone(p)'
                      /\ pc'[p] \in {"create", "write"} =>
                           \A q \in Request \ {p} : pc'[q] \in {"idle", "judge", "apply"}
                      /\ pc'[p] \in {"guard", "replace", "insert", "stop", "mark", "judge", "apply"} =>
                           req'[p].seen = row'
    BY <1>0 DEF Serial, Between
  <1>1. CASE p = r
    <2>1. pc'[r] \notin {"idle", "write", "judge", "apply"} =>
            \A q \in Request \ {r} : pc'[q] = "idle"
      BY <1>0, GoesOnAlone DEF Alone
    <2>2. pc'[r] = "write" => \A q \in Request \ {r} : pc'[q] \in {"idle", "judge", "apply"}
      BY <1>0, CreatesBeside
    <2> QED
      BY <1>1, <2>1, <2>2, StillRead DEF Alone
  <1>2. CASE p # r
    <2>1. pc'[p] = pc[p] /\ req'[p] = req[p]
      BY <1>0, <1>2
    <2>2. CASE pc[p] = "idle"
      BY <2>1, <2>2
    <2>3. CASE pc[p] \in {"judge", "apply"}
      <3>1. row' = row
        BY <1>2, <2>3, Beside DEF Create, CreateFails, Crash, others, Between
      <3> QED
        BY <2>1, <2>3, <3>1 DEF Serial
    <2>4. CASE pc[p] \notin {"idle", "judge", "apply"}
      <3>1. /\ pc[p] \in {"create", "write"}
            /\ (\E i \in DOMAIN wire : Receive(r, i)) \/ Judge(r) \/ Apply(r) \/ Crash(r)
        BY <1>2, <2>4, Beside DEF Between
      <3>2. pc'[r] \in {"idle", "judge", "apply"}
        BY <1>0, <3>1 DEF Receive, Judge, Apply, Crash, Return, Goto, TypeOK
      <3>3. \A q \in Request \ {p} : pc[q] \in {"idle", "judge", "apply"}
        BY <3>1 DEF Serial, Between
      <3> QED
        BY <1>0, <2>1, <3>1, <3>2, <3>3
    <2> QED
      BY <2>2, <2>3, <2>4
  <1> QED
    BY <1>1, <1>2

\* One handler at a time, with what each holds.
Orderly == Inv /\ (\A r \in Request : Shape(r)) /\ RowMade /\ Serial

LEMMA OrderlyInit == Init => Orderly
  <1> SUFFICES ASSUME Init PROVE Orderly
    OBVIOUS
  <1>1. Inv
    BY InvInit
  <1>2. (\A r \in Request : Shape(r)) /\ Serial
    BY DEF Init, Shape, Serial, Between
  <1>3. RowMade
    BY DEF Init, RowMade, Absent, NoRow
  <1> QED
    BY <1>1, <1>2, <1>3 DEF Orderly

LEMMA OrderlyStep == Orderly /\ [Next]_vars => Orderly'
  <1> SUFFICES ASSUME Orderly, [Next]_vars PROVE Orderly'
    OBVIOUS
  <1>0. Inv'
    BY InvStep DEF Orderly
  <1>1. CASE \E r \in Request : Handler(r)
    <2>1. PICK r \in Request : Handler(r)
      BY <1>1
    <2>2. RowMade' /\ Serial'
      BY <2>1, RowMadeStep, SerialStep DEF Orderly
    <2>3. \A q \in Request : Shape(q)'
      BY <2>1, OwnShape, HandlerFrame DEF Orderly, Inv, Shape
    <2> QED
      BY <1>0, <2>2, <2>3 DEF Orderly
  <1>2. CASE Outside
    <2>1. RowMade'
      BY <1>2, RowMadeOutside DEF Orderly
    <2> QED
      BY <1>0, <1>2, <2>1, OutsideFrame DEF Orderly, Shape, Serial, Alone, Between
  <1>3. CASE UNCHANGED vars
    BY <1>0, <1>3 DEF vars, Orderly, Shape, RowMade, Serial, Alone, Between
  <1> QED
    BY <1>1, <1>2, <1>3, Steps

-----------------------------------------------------------------------------
(* The first sync *)

Charged == {"active", "pending"}

\* Whoever brings the second half in has started the sync before it shows.
SyncInv ==
    "overlap" \notin faults =>
        /\ "hasty" \notin faults => sync # "missed"
        /\ onboarded /\ row.status \in Charged => sync # "no"
        /\ \A r \in Request :
             /\ pc[r] = "finish" /\ row.status \in Charged => sync # "no"
             /\ pc[r] = "apply" /\ onboarded /\ req[r].new.status \in Charged => sync # "no"

\* What handlers do to the sync and the user.
LEMMA SyncKept ==
    ASSUME TypeOK, NEW r \in Request, Handler(r)
    PROVE  /\ sync # "no" => sync' # "no"
           /\ sync' = "missed" => sync = "missed"
           /\ ~Finish(r) => onboarded' = onboarded
  BY DEF Handler, BeginCheckout, Refuse, PassGuard, Replace, Insert, Create, CreateFails, Write,
         BeginCancel, Stop, Mark, Receive, Judge, Apply, BeginOnboard, Finish, Crash, StartSync, others

\* A step makes the row's status charged only as an event does.
LEMMA StatusWritten ==
    ASSUME Orderly, NEW r \in Request, Handler(r), row'.status \in Charged
    PROVE  row'.status = row.status \/ (Apply(r) /\ row'.status = req[r].new.status)
  <1>0. TypeOK /\ Shape(r)
    BY DEF Orderly, Inv
  <1>1. CASE Write(r)
    BY <1>0, <1>1, WriteIs DEF Shape, Write
  <1>2. CASE Mark(r)
    BY <1>0, <1>2, MarkIs DEF Shape, Mark, Charged
  <1>3. CASE Apply(r)
    BY <1>0, <1>3, ApplyIs
  <1>4. CASE ~Write(r) /\ ~Mark(r) /\ ~Apply(r) /\ row' # row
    <2>1. Insert(r) /\ ~req[r].seen.made /\ row' = req[r].new
      BY <1>0, <1>4, RowAlone
    <2>2. row'.status = "authenticated"
      BY <1>0, <2>1 DEF Shape, Insert
    <2> QED
      BY <2>2 DEF Charged
  <1> QED
    BY <1>1, <1>2, <1>3, <1>4

\* A charged row, as a session sees it, serves the user.
LEMMA ChargedServes ==
    ASSUME NEW rw \in Row, rw.made, rw.status \in Charged
    PROVE  Entitled(rw)
  BY DEF Entitled, Charged, EntitledStatuses

LEMMA SyncStep ==
    ASSUME Orderly, SyncInv, NEW r \in Request, Handler(r)
    PROVE  SyncInv'
  <1>0. /\ TypeOK /\ faults' = faults /\ \A q \in Request \ {r} : pc'[q] = pc[q] /\ req'[q] = req[q]
        /\ Serial /\ Inv /\ RowMade /\ \A q \in Request : Shape(q)
    BY HandlerFrame DEF Orderly, Inv
  <1> SUFFICES ASSUME "overlap" \notin faults, sync' = "no"
               PROVE  /\ ~(onboarded' /\ row'.status \in Charged)
                      /\ \A q \in Request :
                           /\ ~(pc'[q] = "finish" /\ row'.status \in Charged)
                           /\ ~(pc'[q] = "apply" /\ onboarded' /\ req'[q].new.status \in Charged)
    BY <1>0, SyncKept DEF SyncInv
  <1>1. sync = "no" /\ (~Finish(r) => onboarded' = onboarded)
    BY <1>0, SyncKept
  <1>2. /\ ~(onboarded /\ row.status \in Charged)
        /\ \A q \in Request :
             /\ ~(pc[q] = "finish" /\ row.status \in Charged)
             /\ ~(pc[q] = "apply" /\ onboarded /\ req[q].new.status \in Charged)
    BY <1>1 DEF SyncInv
  <1>3. ~(onboarded' /\ row'.status \in Charged)
    <2> SUFFICES ASSUME onboarded', row'.status \in Charged PROVE FALSE
      OBVIOUS
    <2>1. CASE Finish(r)
      BY <1>2, <2>1 DEF Finish
    <2>2. CASE ~Finish(r) /\ row'.status = row.status
      BY <1>1, <1>2, <2>2
    <2>3. CASE Apply(r) /\ row'.status = req[r].new.status
      BY <1>1, <1>2, <2>3 DEF Apply, others
    <2> QED
      BY <2>1, <2>2, <2>3, StatusWritten DEF Finish
  <1>4. ASSUME NEW q \in Request, pc'[q] = "finish", row'.status \in Charged PROVE FALSE
    <2>1. CASE q = r
      <3>1. BeginOnboard(r)
        BY <1>0, <1>4, <2>1
        DEF Handler, BeginCheckout, Refuse, PassGuard, Replace, Insert, Create, CreateFails, Write,
            BeginCancel, Stop, Mark, Receive, Judge, Apply, Finish, Crash, Return, Goto, TypeOK
      <3>2. row \in Row /\ row' = row /\ row.status \in Charged
        BY <1>0, <1>4, <3>1 DEF BeginOnboard, TypeOK
      <3>3. row.made
        BY <1>0, <3>2 DEF RowMade, NoRow, Charged
      <3>4. sync' = "queued"
        BY <1>1, <3>1, <3>2, <3>3, ChargedServes DEF BeginOnboard, StartSync
      <3> QED
        BY <3>4
    <2>2. CASE q # r
      <3>1. pc[q] = "finish"
        BY <1>0, <1>4, <2>2
      <3> QED
        BY <1>0, <2>2, <3>1, Beside DEF Between
    <2> QED
      BY <2>1, <2>2
  <1>5. ASSUME NEW q \in Request, pc'[q] = "apply", onboarded', req'[q].new.status \in Charged
        PROVE  FALSE
    <2>1. CASE q = r
      <3>1. Judge(r)
        BY <1>0, <1>5, <2>1
        DEF Handler, BeginCheckout, Refuse, PassGuard, Replace, Insert, Create, CreateFails, Write,
            BeginCancel, Stop, Mark, Receive, BeginOnboard, Apply, Finish, Crash, Return, Goto, TypeOK
      <3>2. onboarded /\ row' = row /\ pc[r] = "judge"
        BY <1>0, <1>5, <3>1, JudgeIs
      <3>3. CASE Stale(r)
        <4>1. req'[r] = req[r]
          BY <1>0, <3>1, <3>3, JudgeIs
        <4>2. req[r].seen = row
          BY <1>0, <3>2 DEF Serial
        <4>3. req[r].new.status = req[r].seen.status
          BY <1>0, <3>2 DEF Shape
        <4> QED
          BY <1>2, <1>5, <2>1, <3>2, <4>1, <4>2, <4>3
      <3>4. CASE ~Stale(r)
        <4>1. PICK new \in Row : new = req'[r].new /\ StartSync(new, onboarded)
          <5> DEFINE new == [req[r].new EXCEPT !.status = req[r].status,
                                 !.periodEnd = IF req[r].end = 0 THEN @ ELSE req[r].end]
          <5>1. req' = [req EXCEPT ![r].new = new] /\ StartSync(new, onboarded)
            BY <3>1, <3>4 DEF Judge
          <5>2. req[r] \in Req /\ TypeOK'
            BY <1>0, <3>1, JudgeType DEF TypeOK
          <5>3. req'[r].new = new
            BY <1>0, <5>1, <5>2 DEF TypeOK, Req
          <5>4. req'[r].new \in Row
            BY <5>2 DEF TypeOK, Req
          <5> QED
            BY <5>1, <5>3, <5>4
        <4>2. req'[r].new.made
          BY <1>0, <3>1, <3>2, JudgeIs DEF Shape
        <4>3. Entitled(new)
          BY <1>5, <2>1, <4>1, <4>2, ChargedServes
        <4> QED
          BY <1>1, <3>2, <4>1, <4>3 DEF StartSync
      <3> QED
        BY <3>3, <3>4
    <2>2. CASE q # r
      <3>1. pc[q] = "apply" /\ req'[q] = req[q]
        BY <1>0, <1>5, <2>2
      <3>2. ~Finish(r)
        BY <1>0, <2>2, <3>1, Beside DEF Finish, Between
      <3> QED
        BY <1>1, <1>2, <1>5, <3>1, <3>2
    <2> QED
      BY <2>1, <2>2
  <1> QED
    BY <1>3, <1>4, <1>5

LEMMA SyncOutside ==
    ASSUME Orderly, SyncInv, Outside
    PROVE  SyncInv'
  <1>0. TypeOK /\ RowMade /\ UNCHANGED <<faults, row, pc, req>>
    BY OutsideFrame DEF Orderly, Inv
  <1>1. CASE Sync
    <2>1. CASE ~Quiet
      BY <1>0, <1>1, <2>1 DEF Sync, SyncInv
    <2>2. CASE Quiet
      <3>1. (\A r \in Request : pc[r] = "idle") /\ onboarded' = onboarded /\ sync' # "missed"
        BY <1>1, <2>2 DEF Sync, Quiet
      <3>2. ASSUME onboarded, row.status \in Charged PROVE sync' # "no"
        <4>1. row \in Row /\ row.made
          BY <1>0, <3>2 DEF TypeOK, RowMade, NoRow, Charged
        <4>2. Entitled(row)
          BY <3>2, <4>1, ChargedServes
        <4> QED
          BY <1>1, <3>2, <4>2 DEF Sync
      <3> QED
        BY <1>0, <3>1, <3>2 DEF SyncInv
    <2> QED
      BY <2>1, <2>2
  <1>2. CASE UNCHANGED <<onboarded, sync>>
    BY <1>0, <1>2 DEF SyncInv
  <1> QED
    BY <1>1, <1>2 DEF Outside, Duplicate, Sign, Charge, Retry, CycleEnd, EndEarly, Change, NextDay,
                      remoteOnly, others

LEMMA SyncNext == Orderly /\ SyncInv /\ [Next]_vars => SyncInv'
  <1> SUFFICES ASSUME Orderly, SyncInv, [Next]_vars PROVE SyncInv'
    OBVIOUS
  <1>1. CASE UNCHANGED vars
    BY <1>1 DEF vars, SyncInv
  <1> QED
    BY <1>1, Steps, SyncStep, SyncOutside

\* Of a paid subscription and the end of onboarding, in whatever order, the
\* second starts the first sync (services/billing/gate.maybe_start_mail_sync),
\* but for a task that runs before the commit of the request that queued it.
THEOREM SecondHalfStarts == Spec => []SyncStarts
  <1>1. Init => Orderly /\ SyncInv
    BY OrderlyInit DEF Init, SyncInv
  <1>2. Orderly /\ SyncInv => SyncStarts
    BY DEF Orderly, Inv, TypeOK, SyncInv, SyncStarts, Charged
  <1> QED
    BY <1>1, <1>2, OrderlyStep, SyncNext, PTL DEF Spec

-----------------------------------------------------------------------------
(* One mandate *)

LEMMA SentIs ==
    ASSUME wire \in Seq(Event), NEW s, NEW status, NEW end, Send(s, status, end)
    PROVE  /\ Len(wire') = Len(wire) + 1 /\ DOMAIN wire' = 1 .. (Len(wire) + 1)
           /\ wire'[Len(wire) + 1] =
                [sub |-> s, status |-> status, end |-> end, claimed |-> FALSE]
           /\ \A i \in 1 .. Len(wire) : wire'[i] = wire[i]
  BY DEF Send

LEMMA WithoutIs ==
    ASSUME wire \in Seq(Event), NEW i \in DOMAIN wire
    PROVE  /\ Without(i) \in Seq(Event) /\ Len(Without(i)) = Len(wire) - 1
           /\ \A j \in 1 .. Len(Without(i)) :
                Without(i)[j] = IF j < i THEN wire[j] ELSE wire[j + 1]
  <1> DEFINE a == SubSeq(wire, 1, i - 1)
             b == SubSeq(wire, i + 1, Len(wire))
  <1>1. i \in 1 .. Len(wire) /\ Len(wire) \in Nat
    OBVIOUS
  <1>2. a \in Seq(Event) /\ Len(a) = i - 1 /\ \A j \in 1 .. (i - 1) : a[j] = wire[j]
    BY <1>1
  <1>3. /\ b \in Seq(Event) /\ Len(b) = Len(wire) - i
        /\ \A j \in 1 .. (Len(wire) - i) : b[j] = wire[i + j]
    BY <1>1
  <1>4. Without(i) = a \o b
    BY DEF Without
  <1> HIDE DEF a, b
  <1>5. Without(i) \in Seq(Event) /\ Len(Without(i)) = Len(wire) - 1
    BY <1>1, <1>2, <1>3, <1>4
  <1>6. ASSUME NEW j \in 1 .. (Len(wire) - 1)
        PROVE  Without(i)[j] = IF j < i THEN wire[j] ELSE wire[j + 1]
    <2>1. CASE j < i
      BY <1>1, <1>2, <1>3, <1>4, <1>5, <2>1
    <2>2. CASE ~(j < i)
      <3>1. j - (i - 1) \in 1 .. (Len(wire) - i) /\ i + (j - (i - 1)) = j + 1
        BY <1>1, <2>2
      <3>2. Without(i)[j] = b[j - (i - 1)]
        <4>1. \A x, y \in Seq(Event) : \A k \in (Len(x) + 1) .. (Len(x) + Len(y)) :
                (x \o y)[k] = y[k - Len(x)]
          OBVIOUS
        <4>2. j \in (Len(a) + 1) .. (Len(a) + Len(b))
          BY <1>1, <1>2, <1>3, <2>2
        <4> QED
          <5>1. (a \o b)[j] = b[j - Len(a)]
            BY <1>2, <1>3, <4>1, <4>2, Zenon
          <5> QED
            BY <1>2, <1>4, <5>1
      <3> QED
        BY <1>3, <2>2, <3>1, <3>2
    <2> QED
      BY <2>1, <2>2
  <1> QED
    BY <1>5, <1>6

Calm == faults \cap {"overlap", "late", "provider"} = {}

\* A subscription nobody can be charged for, or can sign.
Unsold(s) ==
    rz[s].status \in {"absent", "cancelled"} \/ (rz[s].status = "created" /\ ~rz[s].shown)

\* What each handler knows of the subscription the row names.
Knows(r) ==
    /\ pc[r] \in {"insert", "create", "write"} =>
         row.sub = NoSub \/ rz[row.sub].status = "cancelled"
    /\ pc[r] \in {"guard", "replace", "insert", "create", "stop", "mark", "judge", "apply"} =>
         req[r].seen.sub = row.sub /\ req[r].new.sub = row.sub
    /\ pc[r] = "write" =>
         /\ req[r].seen.sub = row.sub
         /\ req[r].new.sub \in Sub /\ rz[req[r].new.sub].status = "created"

Mandated ==
    /\ \A s \in Sub : s # row.sub => Unsold(s)
    /\ row.sub # NoSub => rz[row.sub].status # "absent"
    /\ \A r \in Request : Knows(r)

\* While Razorpay's side and the row's subscription stay, only the handler that
\* moved has to be looked at.
LEMMA MandateFrame ==
    ASSUME Mandated, NEW r \in Request,
           \A q \in Request \ {r} : pc'[q] = pc[q] /\ req'[q] = req[q],
           row'.sub = row.sub, rz' = rz, Knows(r)'
    PROVE  Mandated'
  <1>1. \A q \in Request \ {r} : Knows(q)'
    BY DEF Mandated, Knows
  <1> QED
    BY <1>1 DEF Mandated, Unsold

\* Cancelling the subscription the row names, with nobody beside.
LEMMA MandateCancel ==
    ASSUME TypeOK, Mandated, NEW r \in Request, NEW s \in Sub, s = row.sub, CancelNow(s),
           \A q \in Request \ {r} : pc'[q] = "idle",
           row' = row, Knows(r)'
    PROVE  Mandated'
  <1>1. rz' = [rz EXCEPT ![s].status = "cancelled"] /\ Send(s, "cancelled", rz[s].end)
    BY DEF CancelNow
  <1>2. rz'[s].status = "cancelled" /\ \A t \in Sub \ {s} : rz'[t] = rz[t]
    BY <1>1 DEF TypeOK, Remote
  <1>4. \A q \in Request \ {r} : Knows(q)'
    BY DEF Knows
  <1> QED
    BY <1>2, <1>4 DEF Mandated, Unsold

\* The row's subscription changes only where checkout writes a new one.
LEMMA SubKept ==
    ASSUME Orderly, Mandated, NEW r \in Request, Handler(r), ~Write(r)
    PROVE  row'.sub = row.sub
  <1>0. TypeOK /\ RowMade /\ Shape(r) /\ Knows(r)
    BY DEF Orderly, Inv, Mandated
  <1>1. CASE Mark(r)
    BY <1>0, <1>1, MarkIs DEF Mark, Knows
  <1>2. CASE Apply(r)
    BY <1>0, <1>2, ApplyIs DEF Apply, Knows
  <1>3. CASE ~Mark(r) /\ ~Apply(r) /\ row' # row
    <2>1. Insert(r) /\ row' = req[r].new
      BY <1>0, <1>3, RowAlone
    <2> QED
      BY <1>0, <2>1 DEF Insert, Knows
  <1> QED
    BY <1>1, <1>2, <1>3

LEMMA MandateStep ==
    ASSUME Orderly, Calm, Mandated, ~relinked', NEW r \in Request, Handler(r)
    PROVE  Mandated'
  <1>0. /\ TypeOK /\ RowMade /\ Serial /\ Inv /\ Shape(r) /\ Knows(r)
        /\ "overlap" \notin faults /\ "late" \notin faults /\ "provider" \notin faults
        /\ \A q \in Request \ {r} : pc'[q] = pc[q] /\ req'[q] = req[q]
    BY HandlerFrame DEF Orderly, Inv, Mandated, Calm
  <1>1. ASSUME row'.sub = row.sub, rz' = rz, Knows(r)' PROVE Mandated'
    BY <1>0, <1>1, MandateFrame
  <1>2. CASE pc'[r] \in {"idle", "finish"} /\ rz' = rz /\ ~Write(r)
    <2>1. Knows(r)'
      BY <1>2 DEF Knows
    <2> QED
      BY <1>1, <1>2, <2>1, SubKept
  <1>3. CASE BeginCheckout(r)
    <2>1. pc'[r] = "guard" /\ UNCHANGED <<row, rz, wire>>
      BY <1>0, <1>3 DEF BeginCheckout, Goto, TypeOK
    <2>2. /\ req'[r].seen = row
          /\ req'[r].new = IF row.made THEN row
                           ELSE [NoRow EXCEPT !.made = TRUE, !.status = "authenticated",
                                              !.trialEnds = now + Trial]
      BY <1>0, <1>3 DEF BeginCheckout, TypeOK, NoReq
    <2>3. req'[r].new.sub = row.sub
      BY <1>0, <2>2 DEF RowMade, NoRow
    <2>4. Knows(r)'
      BY <2>1, <2>2, <2>3 DEF Knows
    <2> QED
      BY <1>1, <2>1, <2>4
  <1>4. CASE PassGuard(r)
    <2>1. pc[r] = "guard" /\ UNCHANGED <<row, rz, wire, req>>
          /\ pc'[r] = (IF req[r].new.sub = NoSub THEN "insert" ELSE "replace")
      BY <1>0, <1>4 DEF PassGuard, Goto, TypeOK, others
    <2>2. Knows(r)'
      BY <1>0, <2>1 DEF Knows
    <2> QED
      BY <1>1, <2>1, <2>2
  <1>5. CASE Replace(r)
    <2>1. /\ pc[r] = "replace" /\ pc'[r] = "insert" /\ req' = req /\ row' = row
      BY <1>0, <1>5 DEF Replace, Goto, TypeOK, others
    <2>2. req[r].new.sub = row.sub /\ req[r].seen.sub = row.sub /\ row.sub \in Sub
      BY <1>0, <2>1 DEF Knows, Inv, Named, TypeOK, Row
    <2>3. \A q \in Request \ {r} : pc'[q] = "idle"
      BY <1>0, <2>1, GoesOnAlone DEF Alone
    <2>4. CASE CancelNow(row.sub)
      <3>1. rz'[row.sub].status = "cancelled"
        BY <1>0, <2>2, <2>4 DEF CancelNow, TypeOK, Remote
      <3>2. Knows(r)'
        BY <2>1, <2>2, <3>1 DEF Knows
      <3> QED
        BY <1>0, <2>1, <2>2, <2>3, <2>4, <3>2, MandateCancel
    <2>5. CASE ~CancelNow(row.sub)
      <3>1. rz' = rz /\ wire' = wire /\ rz[row.sub].status \notin Cancellable
        BY <1>0, <1>5, <2>2, <2>5 DEF Replace
      <3>2. rz[row.sub].status = "cancelled"
        <4>1. rz[row.sub].status \in Status \cup {"absent"}
          BY <1>0, <2>2 DEF TypeOK, Remote
        <4>2. rz[row.sub].status # "absent"
          BY <2>2, BillingAssumption DEF Mandated
        <4> QED
          BY <3>1, <4>1, <4>2 DEF Status, Cancellable
      <3>3. Knows(r)'
        BY <2>1, <2>2, <3>1, <3>2 DEF Knows
      <3> QED
        BY <1>1, <2>1, <3>1, <3>3
    <2> QED
      BY <2>4, <2>5
  <1>6. CASE Insert(r)
    <2>1. rz' = rz /\ wire' = wire /\ pc[r] = "insert" /\ row'.sub = row.sub
      BY <1>6, SubKept DEF Insert, Write
    <2>2. CASE pc'[r] = "create"
      <3>1. req'[r].new = req[r].new
            /\ (req'[r].seen = req[r].seen \/ req'[r].seen = req[r].new)
        BY <1>0, <1>6, <2>2 DEF Insert, Return, Goto, TypeOK, Req
      <3>2. Knows(r)'
        BY <1>0, <2>1, <2>2, <3>1 DEF Knows
      <3> QED
        BY <1>1, <2>1, <3>2
    <2>3. CASE pc'[r] # "create"
      <3>1. pc'[r] = "idle"
        BY <1>0, <1>6, <2>3 DEF Insert, Return, Goto, TypeOK
      <3> QED
        BY <1>2, <1>6, <2>1, <3>1 DEF Write, Insert
    <2> QED
      BY <2>2, <2>3
  <1>7. CASE Create(r)
    <2>1. pc[r] = "create" /\ pc'[r] = "write" /\ row' = row
      BY <1>0, <1>7 DEF Create, Goto, TypeOK, others
    <2>3. PICK s \in Sub, c \in Cycles :
            /\ rz[s].status = "absent"
            /\ rz' = [rz EXCEPT ![s] = [Absent EXCEPT !.status = "created", !.cycle = c,
                                                      !.startAt = TrialEnds(r)]]
            /\ req' = [req EXCEPT ![r].new.sub = s]
      BY <1>7 DEF Create
    <2>4. /\ rz'[s].status = "created" /\ ~rz'[s].shown
          /\ \A t \in Sub \ {s} : rz'[t] = rz[t]
      BY <1>0, <2>3 DEF TypeOK, Absent
    <2>5. s # row.sub
      BY <2>3, BillingAssumption DEF Mandated
    <2>6. req'[r].new.sub = s /\ req'[r].seen = req[r].seen
      BY <1>0, <2>3 DEF TypeOK, Req, Row
    <2>7. \A q \in Request \ {r} : pc'[q] = pc[q] /\ req'[q] = req[q]
                                     /\ pc[q] \in {"idle", "judge", "apply"}
      BY <1>0, <2>1, CreatesBeside
    <2>8. row.sub = NoSub \/ (row.sub \in Sub \ {s} /\ rz'[row.sub].status = "cancelled")
      BY <1>0, <2>1, <2>4, <2>5 DEF Knows, TypeOK, Row
    <2>9. Knows(r)'
      BY <1>0, <2>1, <2>4, <2>6, <2>8 DEF Knows
    <2>10. \A q \in Request : Knows(q)'
      <3>1. \A q \in Request \ {r} : Knows(q)'
        BY <2>1, <2>7 DEF Knows, Mandated
      <3> QED
        BY <2>9, <3>1
    <2>11. \A t \in Sub : t # row'.sub => Unsold(t)'
      BY <2>1, <2>4 DEF Mandated, Unsold
    <2> QED
      BY <2>1, <2>8, <2>10, <2>11 DEF Mandated
  <1>8. CASE Write(r)
    <2>1. pc[r] = "write" /\ pc'[r] = "idle"
          /\ rz' = [rz EXCEPT ![req[r].new.sub].shown = TRUE]
      BY <1>0, <1>8 DEF Write, Return, Goto, TypeOK
    <2>2. /\ req[r].seen.sub = row.sub
          /\ req[r].new.sub \in Sub /\ rz[req[r].new.sub].status = "created"
          /\ row.sub = NoSub \/ rz[row.sub].status = "cancelled"
      BY <1>0, <2>1 DEF Knows
    <2>3. row'.sub = req[r].new.sub
      BY <1>0, <1>8, <2>2, WriteIs
    <2>4. \A q \in Request : pc'[q] = "idle"
      BY <1>0, <1>8, <2>1 DEF Write, Alone
    <2>5. PICK s \in Sub : s = req[r].new.sub
      BY <2>2
    <2>6. rz'[s].status = "created" /\ \A t \in Sub \ {s} : rz'[t] = rz[t]
      BY <1>0, <2>1, <2>2, <2>5 DEF TypeOK, Remote
    <2>7. \A t \in Sub : t # s => Unsold(t)'
      <3>1. \A t \in Sub : t # s => Unsold(t)
        BY <2>2, BillingAssumption DEF Mandated, Unsold
      <3> QED
        BY <2>6, <3>1 DEF Unsold
    <2>8. \A q \in Request : Knows(q)'
      BY <2>4 DEF Knows
    <2> QED
      BY <2>1, <2>2, <2>3, <2>5, <2>6, <2>7, <2>8 DEF Mandated
  <1>9. CASE BeginCancel(r)
    <2>1. pc'[r] = "stop" /\ UNCHANGED <<row, rz, wire>> /\ req'[r].seen = row /\ req'[r].new = row
      BY <1>0, <1>9 DEF BeginCancel, Goto, TypeOK, NoReq
    <2>2. Knows(r)'
      BY <2>1 DEF Knows
    <2> QED
      BY <1>1, <2>1, <2>2
  <1>10. CASE Stop(r)
    <2>1. pc[r] = "stop" /\ row' = row
      BY <1>10 DEF Stop, others
    <2>2. req[r].new.sub = row.sub /\ req[r].seen.sub = row.sub /\ row.sub \in Sub
      BY <1>0, <2>1 DEF Knows, Inv, Named, TypeOK, Row
    <2>3. CASE pc'[r] # "mark"
      <3>1. Return(r) /\ UNCHANGED <<rz, wire>>
        BY <1>0, <1>10, <2>3 DEF Stop, Goto, TypeOK
      <3>2. pc'[r] = "idle"
        BY <1>0, <3>1 DEF Return, Goto, TypeOK
      <3> QED
        BY <1>2, <2>1, <3>1, <3>2 DEF Write
    <2>4. CASE pc'[r] = "mark"
      <3>1. /\ req' = req
            /\ \/ CancelNow(row.sub)
               \/ rz' = [rz EXCEPT ![row.sub].stops = TRUE] /\ wire' = wire
        BY <1>0, <1>10, <2>2, <2>4 DEF Stop, Return, Goto, TypeOK
      <3>2. Knows(r)'
        BY <2>1, <2>2, <2>4, <3>1 DEF Knows
      <3>3. \A q \in Request \ {r} : pc'[q] = "idle"
        BY <1>0, <2>4, GoesOnAlone DEF Alone
      <3>4. CASE CancelNow(row.sub)
        BY <1>0, <2>1, <2>2, <3>2, <3>3, <3>4, MandateCancel
      <3>5. CASE rz' = [rz EXCEPT ![row.sub].stops = TRUE] /\ wire' = wire
        <4>1. /\ \A t \in Sub \ {row.sub} : rz'[t] = rz[t]
              /\ rz'[row.sub].status = rz[row.sub].status
          BY <1>0, <2>2, <3>5 DEF TypeOK, Remote
        <4>2. \A q \in Request \ {r} : Knows(q)'
          BY <3>3 DEF Knows
        <4> QED
          BY <2>1, <2>2, <3>2, <3>5, <4>1, <4>2 DEF Mandated, Unsold
      <3> QED
        BY <3>1, <3>4, <3>5
    <2> QED
      BY <2>3, <2>4
  <1>11. CASE \E i \in DOMAIN wire : Receive(r, i)
    <2>1. PICK i \in DOMAIN wire : Receive(r, i)
      BY <1>11
    <2>2. /\ pc'[r] = "judge" /\ UNCHANGED <<row, rz>>
          /\ req'[r].seen = row /\ req'[r].new = [row EXCEPT !.sub = wire[i].sub]
      BY <1>0, <2>1 DEF Receive, Goto, TypeOK
    <2>3. wire[i].sub = row.sub
      BY <2>1 DEF Receive
    <2>4. req'[r].new.sub = row.sub
      BY <1>0, <2>2, <2>3 DEF TypeOK, Row
    <2>5. Knows(r)'
      BY <2>2, <2>4 DEF Knows
    <2> QED
      BY <1>1, <2>2, <2>5
  <1>12. CASE Judge(r)
    <2>1. /\ pc[r] = "judge" /\ pc'[r] = "apply" /\ UNCHANGED <<row, rz, wire>>
          /\ req'[r].seen = req[r].seen /\ req'[r].new.sub = req[r].new.sub
      BY <1>0, <1>12, JudgeIs
    <2>2. Knows(r)'
      BY <1>0, <2>1 DEF Knows
    <2> QED
      BY <1>1, <2>1, <2>2
  <1>13. CASE Refuse(r) \/ CreateFails(r) \/ Mark(r) \/ Apply(r) \/ BeginOnboard(r) \/ Finish(r) \/ Crash(r)
    <2>1. pc'[r] \in {"idle", "finish"} /\ rz' = rz
      BY <1>0, <1>13 DEF Refuse, CreateFails, Mark, Apply, BeginOnboard, Finish, Crash, Return, Goto,
                         TypeOK
    <2> QED
      BY <1>2, <1>8, <2>1
  <1> QED
    BY <1>3, <1>4, <1>5, <1>6, <1>7, <1>8, <1>9, <1>10, <1>11, <1>12, <1>13 DEF Handler

\* Razorpay changes only what was sold.
LEMMA RemoteIs ==
    ASSUME TypeOK, NEW s \in Sub, Sign(s) \/ Charge(s) \/ Retry(s) \/ CycleEnd(s) \/ EndEarly(s)
    PROVE  \E status \in Status, end \in Nat : Change(s, status, end) /\ ~Unsold(s)
  <1>0. rz[s] \in Remote /\ now \in Nat
    BY BillingAssumption DEF TypeOK
  <1>1. rz[s].end \in Nat /\ rz[s].cycle \in Nat
    BY <1>0, BillingAssumption DEF Remote
  <1>2. now + rz[s].cycle \in Nat /\ 0 \in Nat
    BY <1>0, <1>1
  <1>3. {"authenticated", "active", "pending", "halted", "cancelled"} \subseteq Status
    BY DEF Status
  <1>4. CASE Sign(s)
    BY <1>2, <1>3, <1>4 DEF Sign, Unsold
  <1>5. CASE Charge(s) \/ Retry(s)
    BY <1>1, <1>2, <1>3, <1>5 DEF Charge, Retry, Unsold
  <1>6. CASE CycleEnd(s) \/ EndEarly(s)
    BY <1>1, <1>3, <1>6 DEF CycleEnd, EndEarly, Unsold
  <1> QED
    BY <1>4, <1>5, <1>6

LEMMA MandateOutside ==
    ASSUME Orderly, Calm, Mandated, Outside
    PROVE  Mandated'
  <1>0. TypeOK /\ UNCHANGED <<faults, row, pc, req>> /\ "late" \notin faults /\ wire \in Seq(Event)
    BY OutsideFrame DEF Orderly, Inv, Calm, TypeOK
  <1>1. CASE rz' = rz
    BY <1>0, <1>1 DEF Mandated, Unsold, Knows
  <1>3. ASSUME NEW s \in Sub, Sign(s) \/ Charge(s) \/ Retry(s) \/ CycleEnd(s) \/ EndEarly(s)
        PROVE  Mandated'
    <2>1. PICK status \in Status, end \in Nat : Change(s, status, end) /\ ~Unsold(s)
      BY <1>0, <1>3, RemoteIs
    <2>2. s = row.sub
      BY <2>1 DEF Mandated
    <2>3. \A q \in Request : pc'[q] = "idle"
      BY <1>0, <2>1 DEF Change, Quiet
    <2>4. rz' = [rz EXCEPT ![s].status = status, ![s].end = end]
      BY <2>1 DEF Change
    <2>5. rz'[s].status = status /\ \A t \in Sub \ {s} : rz'[t] = rz[t]
      BY <1>0, <2>4 DEF TypeOK, Remote
    <2>7. status # "absent"
      BY DEF Status
    <2> QED
      BY <1>0, <2>2, <2>3, <2>5, <2>7 DEF Mandated, Unsold, Knows
  <1> QED
    BY <1>0, <1>1, <1>3 DEF Outside, Duplicate, Sync, NextDay

\* Once an event has moved the row back, it may name a subscription that is over.
LEMMA StaysRelinked ==
    ASSUME [Next]_vars, ~relinked'
    PROVE  ~relinked
  <1>1. CASE UNCHANGED vars
    BY <1>1 DEF vars
  <1>2. CASE Outside
    BY <1>2 DEF Outside, Duplicate, Sync, Sign, Charge, Retry, CycleEnd, EndEarly, Change, NextDay,
                remoteOnly, others
  <1>3. CASE \E r \in Request : Handler(r)
    BY <1>3 DEF Handler, BeginCheckout, Refuse, PassGuard, Replace, Insert, Create, CreateFails, Write,
                BeginCancel, Stop, Mark, Receive, Judge, Apply, BeginOnboard, Finish, Crash, others
  <1> QED
    BY <1>1, <1>2, <1>3, Steps

MandateInv == Calm /\ ~relinked => Mandated

LEMMA MandateNext == Orderly /\ MandateInv /\ [Next]_vars => MandateInv'
  <1> SUFFICES ASSUME Orderly, Calm', ~relinked', MandateInv, [Next]_vars PROVE Mandated'
    BY DEF MandateInv
  <1>0. ~relinked
    BY StaysRelinked
  <1>1. CASE UNCHANGED vars
    BY <1>0, <1>1 DEF vars, MandateInv, Calm, Mandated, Unsold, Knows
  <1>2. ASSUME NEW r \in Request, Handler(r) PROVE Mandated'
    <2>1. Calm
      BY <1>2, HandlerFrame DEF Calm, Orderly, Inv
    <2> QED
      BY <1>0, <1>2, <2>1, MandateStep DEF MandateInv
  <1>3. CASE Outside
    <2>1. Calm
      BY <1>3, OutsideFrame DEF Calm
    <2> QED
      BY <1>0, <1>3, <2>1, MandateOutside DEF MandateInv
  <1> QED
    BY <1>1, <1>2, <1>3, Steps

LEMMA MandateInit == Init => MandateInv
  <1> SUFFICES ASSUME Init PROVE Mandated
    BY DEF MandateInv
  <1>1. row.sub = NoSub
    <2>1. CASE row = NoRow
      BY <2>1 DEF NoRow
    <2>2. CASE row = [NoRow EXCEPT !.made = TRUE, !.status = "authenticated", !.trialEnds = Trial]
      BY <2>2 DEF NoRow
    <2> QED
      BY <2>1, <2>2 DEF Init
  <1>2. \A s \in Sub : Unsold(s)
    BY DEF Init, Unsold, Absent
  <1>3. \A r \in Request : pc[r] = "idle"
    BY DEF Init
  <1> QED
    BY <1>1, <1>2, <1>3 DEF Mandated, Knows

LEMMA MandateHolds == Mandated => \A s \in Sub : Live(s) => row.sub = s
  BY DEF Mandated, Unsold, Live

-----------------------------------------------------------------------------
(* The mirror *)

\* The subscription the row names, and news of it that is still on the wire.
Followed == rz[row.sub]
News == wire # <<>> /\ ~wire[Len(wire)].claimed /\ wire[Len(wire)].sub = row.sub
EventUp == \E r \in Request : pc[r] \in {"judge", "apply"}

\* All of it is of the subscription the row names.
Own == \A i \in DOMAIN wire : wire[i].sub = row.sub

\* A period Razorpay has already announced.
Announced(end) == IF Followed.end = 0 THEN end <= now ELSE end <= Followed.end

\* What each handler knows of the subscription's state.
Sees(r) ==
    /\ pc[r] = "judge" =>
         /\ req[r].end <= Followed.end
         /\ ~News => req[r].status = Followed.status /\ req[r].end = Followed.end
    /\ pc[r] = "apply" =>
         /\ Announced(req[r].new.periodEnd)
         /\ ~News => req[r].new.status = Followed.status /\ req[r].new.periodEnd >= Followed.end
    /\ pc[r] \in {"guard", "replace", "stop"} => wire = <<>>
    /\ pc[r] \in {"insert", "create", "write"} => Len(wire) <= 1 /\ Own
    /\ pc[r] = "replace" => Followed.status # "active"
    /\ pc[r] = "mark" /\ ~AtCycleEnd(r) => Followed.status = "cancelled"

\* The last word on the wire, or in hand, or in the row, is what Razorpay says;
\* at most the first event is of the subscription before.
Mirrored ==
    /\ row.sub = NoSub => row.periodEnd = 0 /\ ~EventUp /\ wire = <<>>
    /\ \A r \in Request : pc[r] = "write" => rz[req[r].new.sub].end = 0
    /\ row.sub # NoSub =>
        /\ \A i \in DOMAIN wire : wire[i].claimed \/ wire[i].sub # row.sub => i = 1
        /\ \A i \in DOMAIN wire : wire[i].sub = row.sub => wire[i].end <= Followed.end
        /\ News => /\ wire[Len(wire)].status = Followed.status
                   /\ wire[Len(wire)].end = Followed.end
        /\ ~News /\ ~EventUp =>
             \/ Followed.status \in {"created", "cancelled"}
             \/ row.status = Followed.status /\ row.periodEnd >= Followed.end
        /\ Announced(row.periodEnd)
        /\ Followed.status # "active" => Followed.end <= now
        /\ Followed.status = "created" => Followed.end = 0
        /\ \A r \in Request : Sees(r)

Gentle == faults \subseteq {"again"}

LEMMA GentleIs ==
    ASSUME Gentle
    PROVE  /\ Calm
           /\ \A f \in {"overlap", "late", "provider", "crash", "reorder", "early"} : f \notin faults
  BY DEF Gentle, Calm

\* While the row, Razorpay's side and the wire stay, and no event is taken or done.
LEMMA MirrorFrame ==
    ASSUME Mirrored, NEW r \in Request,
           \A q \in Request \ {r} : pc'[q] = pc[q] /\ req'[q] = req[q],
           UNCHANGED <<row, rz, wire, now>>,
           pc[r] \notin {"judge", "apply"}, pc'[r] \notin {"judge", "apply", "write"},
           row.sub # NoSub => Sees(r)'
    PROVE  Mirrored'
  <1>1. EventUp' <=> EventUp
    BY DEF EventUp
  <1>2. (News' <=> News) /\ (Own' <=> Own)
    BY DEF News, Own
  <1>3. \A end : Announced(end)' <=> Announced(end)
    BY DEF Announced, Followed
  <1>4. Followed' = Followed
    BY DEF Followed
  <1>5. row.sub # NoSub => \A q \in Request \ {r} : Sees(q)'
    BY <1>2, <1>3, <1>4 DEF Mirrored, Sees, AtCycleEnd, Announced
  <1> QED
    BY <1>1, <1>2, <1>3, <1>4, <1>5 DEF Mirrored, Announced

\* Everything known of a gentle run.
Fair == Orderly /\ Mandated /\ Gentle /\ Mirrored

LEMMA FairIs ==
    ASSUME Fair
    PROVE  /\ TypeOK /\ Inv /\ RowMade /\ Serial /\ Mandated /\ Mirrored
           /\ \A r \in Request : Draft(r) /\ Shape(r) /\ Knows(r) /\ Named(r) /\ Turn(r)
           /\ \A f \in {"overlap", "late", "provider", "crash", "reorder", "early"} : f \notin faults
           /\ row \in Row /\ wire \in Seq(Event) /\ now \in Nat
           /\ row.periodEnd \in Nat /\ row.sub \in Sub \cup {NoSub}
           /\ \A s \in Sub : rz[s] \in Remote /\ rz[s].end \in Nat
  BY GentleIs, BillingAssumption DEF Fair, Orderly, Inv, Mandated, TypeOK, Row, Remote

\* Nothing on the wire and nobody at work: the row says what Razorpay says.
LEMMA Settled ==
    ASSUME Fair, row.sub # NoSub, wire = <<>>, NEW r \in Request, Alone(r),
           pc[r] \notin {"judge", "apply"}
    PROVE  \/ Followed.status \in {"created", "cancelled"}
           \/ row.status = Followed.status
  BY FairIs DEF Mirrored, News, EventUp, Alone

\* Steps of a request that change neither the row nor Razorpay's side.
LEMMA MirrorRequest ==
    ASSUME Fair, NEW r \in Request, Handler(r),
           \/ BeginCheckout(r) \/ Refuse(r) \/ PassGuard(r) \/ CreateFails(r)
           \/ BeginCancel(r) \/ BeginOnboard(r) \/ Finish(r)
    PROVE  Mirrored'
  <1>0. \A q \in Request \ {r} : pc'[q] = pc[q] /\ req'[q] = req[q]
    BY FairIs, HandlerFrame
  <1>1. TypeOK /\ Mirrored /\ Serial /\ Draft(r) /\ Shape(r) /\ "late" \notin faults
    BY FairIs
  <1>2. UNCHANGED <<row, rz, wire, now>>
    BY DEF BeginCheckout, Refuse, PassGuard, CreateFails, BeginCancel, BeginOnboard, Finish, others
  <1>3. CASE BeginCheckout(r) \/ BeginCancel(r)
    <2>1. pc[r] = "idle" /\ pc'[r] \in {"guard", "stop"} /\ wire = <<>>
      BY <1>1, <1>3 DEF BeginCheckout, BeginCancel, Free, Goto, TypeOK
    <2>2. Sees(r)'
      BY <1>2, <2>1 DEF Sees
    <2> QED
      BY <1>0, <1>1, <1>2, <2>1, <2>2, MirrorFrame
  <1>4. CASE PassGuard(r)
    <2>1. /\ pc[r] = "guard" /\ ~InService(req[r].new) /\ req' = req
          /\ pc'[r] = (IF req[r].new.sub = NoSub THEN "insert" ELSE "replace")
      BY <1>1, <1>4 DEF PassGuard, Goto, TypeOK
    <2>2. ASSUME row.sub # NoSub PROVE Sees(r)'
      <3>1. wire = <<>>
        BY <1>1, <2>1, <2>2 DEF Mirrored, Sees
      <3>2. Alone(r) /\ req[r].seen = row
        BY <2>1, FairIs DEF Serial
      <3>3. row.made
        BY <1>1, <2>2, FairIs DEF RowMade, NoRow
      <3>4. req[r].new = row
        BY <1>1, <2>1, <3>2, <3>3 DEF Draft
      <3>5. row.status # "active"
        BY <2>1, <2>2, <3>3, <3>4 DEF InService, Entitled, EntitledStatuses
      <3>6. Followed.status # "active"
        BY <2>1, <2>2, <3>1, <3>2, <3>5, Settled
      <3>7. Followed' = Followed
        BY <1>2 DEF Followed
      <3> QED
        BY <1>2, <2>1, <2>2, <3>1, <3>6, <3>7 DEF Sees, Own
    <2> QED
      BY <1>0, <1>1, <1>2, <2>1, <2>2, MirrorFrame
  <1>5. CASE Refuse(r) \/ CreateFails(r) \/ BeginOnboard(r) \/ Finish(r)
    <2>1. pc[r] \in {"idle", "guard", "create", "finish"} /\ pc'[r] \in {"idle", "finish"}
      BY <1>1, <1>5 DEF Refuse, CreateFails, BeginOnboard, Finish, Free, Return, Goto, TypeOK
    <2>2. Sees(r)'
      BY <2>1 DEF Sees
    <2> QED
      BY <1>0, <1>1, <1>2, <2>1, <2>2, MirrorFrame
  <1> QED
    BY <1>3, <1>4, <1>5

LEMMA MirrorInsert ==
    ASSUME Fair, NEW r \in Request, Insert(r), Handler(r)
    PROVE  Mirrored'
  <1>0. \A q \in Request \ {r} : pc'[q] = pc[q] /\ req'[q] = req[q]
    BY FairIs, HandlerFrame
  <1>1. /\ TypeOK /\ Mirrored /\ RowMade /\ Shape(r) /\ Alone(r) /\ pc[r] = "insert"
        /\ UNCHANGED <<rz, wire, now>> /\ pc'[r] \in {"create", "idle"}
    BY FairIs DEF Insert, Serial, Goto, Return, TypeOK, others
  <1>2. CASE row' = row
    <2>1. row.sub # NoSub => Sees(r)'
      BY <1>1, <1>2 DEF Mirrored, Sees, Own
    <2> QED
      BY <1>0, <1>1, <1>2, <2>1, MirrorFrame
  <1>3. CASE row' # row
    <2>1. row' = req[r].new /\ ~req[r].seen.made /\ ~row.made
      BY <1>3 DEF Insert
    <2>2. row'.sub = NoSub /\ row'.periodEnd = 0 /\ wire = <<>>
      BY <1>1, <2>1 DEF Shape, RowMade
    <2>3. \A q \in Request : pc'[q] \notin {"write", "judge", "apply"}
      BY <1>0, <1>1 DEF Alone
    <2> QED
      BY <1>1, <2>2, <2>3 DEF Mirrored, EventUp
  <1> QED
    BY <1>2, <1>3

LEMMA MirrorCreate ==
    ASSUME Fair, NEW r \in Request, Create(r), Handler(r)
    PROVE  Mirrored'
  <1>0. \A q \in Request \ {r} : pc'[q] = pc[q] /\ req'[q] = req[q]
    BY FairIs, HandlerFrame
  <1>1. /\ TypeOK /\ Inv /\ Serial /\ Mirrored /\ Mandated /\ pc[r] = "create" /\ pc'[r] = "write"
        /\ UNCHANGED <<row, wire, now>>
    BY FairIs DEF Create, Goto, TypeOK, others
  <1>2. PICK s \in Sub, c \in Cycles :
          /\ rz[s].status = "absent"
          /\ rz' = [rz EXCEPT ![s] = [Absent EXCEPT !.status = "created", !.cycle = c,
                                                    !.startAt = TrialEnds(r)]]
          /\ req' = [req EXCEPT ![r].new.sub = s]
    BY DEF Create
  <1>3. /\ rz'[s].end = 0 /\ \A t \in Sub \ {s} : rz'[t] = rz[t]
        /\ req'[r].new.sub = s
    BY <1>1, <1>2 DEF TypeOK, Absent, Req, Row
  <1>5. \A q \in Request \ {r} : pc'[q] = pc[q] /\ req'[q] = req[q]
                                  /\ pc[q] \in {"idle", "judge", "apply"}
    BY <1>0, <1>1, FairIs, CreatesBeside
  <1>6. row.sub # s
    BY <1>1, <1>2, BillingAssumption DEF Mandated
  <1>7. row.sub # NoSub => Followed' = Followed
    BY <1>1, <1>3, <1>6, FairIs DEF Followed
  <1>8. (EventUp' <=> EventUp) /\ (News' <=> News) /\ (Own' <=> Own)
    BY <1>1, <1>5 DEF EventUp, News, Own
  <1>12. row.sub # NoSub => Sees(r)'
    BY <1>1, <1>8 DEF Mirrored, Sees
  <1>13. row.sub # NoSub => \A q \in Request \ {r} : Sees(q)'
    BY <1>1, <1>5, <1>7, <1>8 DEF Mirrored, Sees, Announced
  <1>9. row.sub # NoSub => \A q \in Request : Sees(q)'
    BY <1>12, <1>13
  <1>10. \A q \in Request : pc'[q] = "write" => rz'[req'[q].new.sub].end = 0
    BY <1>3, <1>5
  <1>11. row.sub # NoSub => (Announced(row.periodEnd)' <=> Announced(row.periodEnd))
    BY <1>1, <1>7 DEF Announced
  <1> QED
    BY <1>1, <1>7, <1>8, <1>9, <1>10, <1>11 DEF Mirrored

LEMMA MirrorWrite ==
    ASSUME Fair, NEW r \in Request, Write(r), Handler(r)
    PROVE  Mirrored'
  <1>0. \A q \in Request \ {r} : pc'[q] = pc[q] /\ req'[q] = req[q]
    BY FairIs, HandlerFrame
  <1>1. /\ TypeOK /\ Mirrored /\ Knows(r) /\ Shape(r) /\ Alone(r) /\ pc[r] = "write"
        /\ pc'[r] = "idle" /\ UNCHANGED <<wire, now>>
        /\ rz' = [rz EXCEPT ![req[r].new.sub].shown = TRUE]
    BY FairIs DEF Write, Return, Goto, TypeOK, others
  <1>2. /\ req[r].new.sub \in Sub /\ rz[req[r].new.sub].status = "created"
        /\ req[r].seen.sub = row.sub
        /\ row.sub = NoSub \/ rz[row.sub].status = "cancelled"
    BY <1>1 DEF Knows
  <1>3. PICK s \in Sub : s = req[r].new.sub
    BY <1>2
  <1>4. row'.sub = s /\ row'.periodEnd = row.periodEnd
    BY <1>1, <1>2, <1>3, WriteIs DEF Shape
  <1>5. rz'[s].status = "created" /\ rz'[s].end = 0
    BY <1>1, <1>2, <1>3 DEF TypeOK, Remote, Mirrored
  <1>6. \A q \in Request : pc'[q] = "idle"
    BY <1>0, <1>1 DEF Alone
  <1>7. row.periodEnd <= now
    <2>1. CASE row.sub = NoSub
      BY <1>1, <2>1, FairIs DEF Mirrored
    <2>2. CASE row.sub # NoSub
      <3>1. Followed.end <= now /\ Announced(row.periodEnd)
        BY <1>1, <1>2, <2>2 DEF Mirrored, Followed
      <3>2. Followed.end \in Nat
        BY <2>2, FairIs DEF Followed
      <3> QED
        BY <3>1, <3>2, FairIs DEF Announced
    <2> QED
      BY <2>1, <2>2
  <1>8. Followed'.status = "created" /\ Followed'.end = 0
    BY <1>4, <1>5 DEF Followed
  <1>9. Announced(row.periodEnd)'
    BY <1>1, <1>4, <1>7, <1>8 DEF Announced
  <1>13. row.sub # s
    BY <1>2, <1>3, BillingAssumption
  <1>14. Len(wire) <= 1 /\ \A i \in DOMAIN wire : wire[i].sub = row.sub
    <2>1. CASE row.sub = NoSub
      BY <1>1, <2>1 DEF Mirrored
    <2>2. CASE row.sub # NoSub
      BY <1>1, <2>2 DEF Mirrored, Sees, Own
    <2> QED
      BY <2>1, <2>2
  <1>15. DOMAIN wire = 1 .. Len(wire) /\ Len(wire) \in Nat
    BY FairIs
  <1>16. wire # <<>> => Len(wire) \in DOMAIN wire
    BY <1>15, FairIs
  <1>10. /\ ~News' /\ \A i \in DOMAIN wire' : i = 1 /\ wire'[i].sub # row'.sub
    BY <1>1, <1>4, <1>13, <1>14, <1>15, <1>16 DEF News
  <1>11. \A q \in Request : Sees(q)'
    BY <1>6 DEF Sees
  <1>12. row'.sub # NoSub /\ 0 <= now'
    BY <1>1, <1>4, BillingAssumption, FairIs
  <1> QED
    BY <1>6, <1>8, <1>9, <1>10, <1>11, <1>12 DEF Mirrored

\* What an event just sent adds to the wire.
LEMMA SentLast ==
    ASSUME wire \in Seq(Event), NEW s, NEW status, NEW end, Send(s, status, end)
    PROVE  /\ wire' # <<>> /\ wire'[Len(wire')].status = status /\ wire'[Len(wire')].end = end
           /\ ~wire'[Len(wire')].claimed /\ wire'[Len(wire')].sub = s
           /\ Len(wire') = Len(wire) + 1
           /\ \A i \in DOMAIN wire' :
                \/ i \in DOMAIN wire /\ wire'[i] = wire[i]
                \/ ~wire'[i].claimed /\ wire'[i].end = end /\ wire'[i].sub = s
  <1>1. PICK n \in Nat : n = Len(wire)
    OBVIOUS
  <1>2. /\ Len(wire') = n + 1 /\ DOMAIN wire' = 1 .. (n + 1)
        /\ wire'[n + 1] = [sub |-> s, status |-> status, end |-> end, claimed |-> FALSE]
        /\ \A i \in 1 .. n : wire'[i] = wire[i]
    BY <1>1, SentIs
  <1>3. /\ wire'[n + 1].status = status /\ wire'[n + 1].end = end /\ ~wire'[n + 1].claimed
        /\ wire'[n + 1].sub = s
    BY <1>2
  <1>4. DOMAIN wire = 1 .. n
    BY <1>1
  <1>5. \A i \in 1 .. (n + 1) : i \in 1 .. n \/ i = n + 1
    OBVIOUS
  <1>6. wire' # <<>>
    BY <1>1, <1>2
  <1> QED
    BY <1>1, <1>2, <1>3, <1>4, <1>5, <1>6

\* Cancelling the subscription the row names, when it is not in a paid period.
LEMMA MirrorCancel ==
    ASSUME Fair, NEW r \in Request, NEW s \in Sub, s = row.sub, CancelNow(s),
           Followed.status # "active", UNCHANGED <<row, now>>, wire = <<>>,
           \A q \in Request \ {r} : pc'[q] = "idle", pc'[r] \in {"insert", "mark"}
    PROVE  Mirrored'
  <1>1. rz' = [rz EXCEPT ![s].status = "cancelled"] /\ Send(s, "cancelled", rz[s].end)
    BY DEF CancelNow
  <1>2. /\ TypeOK /\ Mirrored /\ row.sub # NoSub /\ wire \in Seq(Event)
        /\ row'.sub = s /\ row'.periodEnd = row.periodEnd
    BY FairIs, BillingAssumption
  <1>3. rz'[s].status = "cancelled" /\ rz'[s].end = rz[s].end
    BY <1>1, <1>2 DEF TypeOK, Remote
  <1>4. Followed'.status = "cancelled" /\ Followed'.end = Followed.end /\ Followed.end = rz[s].end
    BY <1>2, <1>3 DEF Followed
  <1>5. News' /\ wire'[Len(wire')].status = Followed'.status /\ wire'[Len(wire')].end = Followed'.end
    BY <1>1, <1>2, <1>4, SentLast DEF News
  <1>6. \A i \in DOMAIN wire' :
          ~wire'[i].claimed /\ wire'[i].end = Followed.end /\ wire'[i].sub = row'.sub
    BY <1>1, <1>2, <1>4, SentLast
  <1>7. Followed.end \in Nat
    BY <1>4, FairIs
  <1>8. \A i \in DOMAIN wire' :
          /\ wire'[i].claimed \/ wire'[i].sub # row'.sub => i = 1
          /\ wire'[i].end <= Followed'.end
    BY <1>4, <1>6, <1>7
  <1>11. Len(wire') <= 1 /\ Own'
    <2>1. Len(wire) = 0
      OBVIOUS
    <2>2. Len(wire') = 1
      BY <1>1, <1>2, <2>1, SentLast
    <2> QED
      BY <1>6, <2>2 DEF Own
  <1>9. Announced(row.periodEnd)' /\ Followed'.end <= now'
    BY <1>2, <1>4 DEF Mirrored, Announced
  <1>10. \A q \in Request : Sees(q)' /\ pc'[q] # "write"
    BY <1>4, <1>11 DEF Sees
  <1> QED
    BY <1>2, <1>4, <1>5, <1>8, <1>9, <1>10 DEF Mirrored

LEMMA MirrorReplace ==
    ASSUME Fair, NEW r \in Request, Replace(r), Handler(r)
    PROVE  Mirrored'
  <1>0. \A q \in Request \ {r} : pc'[q] = pc[q] /\ req'[q] = req[q]
    BY FairIs, HandlerFrame
  <1>1. /\ TypeOK /\ Mirrored /\ Alone(r) /\ pc[r] = "replace" /\ pc'[r] = "insert"
        /\ UNCHANGED <<row, now>>
    BY FairIs DEF Replace, Serial, Goto, TypeOK, others
  <1>2. req[r].new.sub = row.sub /\ row.sub \in Sub /\ row.sub # NoSub
    BY <1>1, FairIs, BillingAssumption DEF Knows, Named
  <1>3. CASE CancelNow(row.sub)
    <2>1. Followed.status # "active" /\ wire = <<>>
      BY <1>1, <1>2 DEF Mirrored, Sees
    <2>2. \A q \in Request \ {r} : pc'[q] = "idle"
      BY <1>0, <1>1 DEF Alone
    <2> QED
      BY <1>1, <1>2, <1>3, <2>1, <2>2, MirrorCancel
  <1>4. CASE ~CancelNow(row.sub)
    <2>1. UNCHANGED <<rz, wire>>
      BY <1>2, <1>4 DEF Replace
    <2>3. wire = <<>>
      BY <1>1, <1>2 DEF Mirrored, Sees
    <2>4. Len(wire') <= 1 /\ Own'
      BY <2>1, <2>3 DEF Own
    <2>2. Sees(r)'
      BY <1>1, <2>4 DEF Sees
    <2> QED
      BY <1>0, <1>1, <2>1, <2>2, MirrorFrame
  <1> QED
    BY <1>3, <1>4

LEMMA MirrorStop ==
    ASSUME Fair, NEW r \in Request, Stop(r), Handler(r)
    PROVE  Mirrored'
  <1>0. \A q \in Request \ {r} : pc'[q] = pc[q] /\ req'[q] = req[q]
    BY FairIs, HandlerFrame
  <1>1. /\ TypeOK /\ Mirrored /\ Alone(r) /\ pc[r] = "stop" /\ req[r].seen = row
        /\ UNCHANGED <<row, now>>
    BY FairIs DEF Stop, Serial, others
  <1>2. req[r].seen.sub = row.sub /\ row.sub \in Sub /\ row.sub # NoSub
    BY <1>1, FairIs, BillingAssumption DEF Knows, Named
  <1>3. CASE Return(r) /\ UNCHANGED <<rz, wire>>
    <2>1. pc'[r] = "idle"
      BY <1>1, <1>3 DEF Return, Goto, TypeOK
    <2>2. Sees(r)'
      BY <2>1 DEF Sees
    <2> QED
      BY <1>0, <1>1, <1>3, <2>1, <2>2, MirrorFrame
  <1>4. CASE ~(Return(r) /\ UNCHANGED <<rz, wire>>)
    <2>1. /\ pc'[r] = "mark" /\ req' = req
          /\ IF AtCycleEnd(r) THEN rz' = [rz EXCEPT ![row.sub].stops = TRUE] /\ wire' = wire
                              ELSE CancelNow(row.sub)
      BY <1>1, <1>2, <1>4 DEF Stop, Goto, TypeOK
    <2>2. \A q \in Request \ {r} : pc'[q] = "idle"
      BY <1>0, <1>1 DEF Alone
    <2>3. CASE ~AtCycleEnd(r)
      <3>1. wire = <<>>
        BY <1>1, <1>2 DEF Mirrored, Sees
      <3>2. row.status # "active"
        BY <1>1, <2>3 DEF AtCycleEnd
      <3>3. Followed.status # "active"
        BY <1>1, <1>2, <3>1, <3>2, Settled
      <3> QED
        BY <1>1, <1>2, <2>1, <2>2, <2>3, <3>1, <3>3, MirrorCancel
    <2>4. CASE AtCycleEnd(r)
      <3>1. rz'[row.sub].status = rz[row.sub].status /\ rz'[row.sub].end = rz[row.sub].end
        BY <1>1, <1>2, <2>1, <2>4 DEF TypeOK, Remote
      <3>2. Followed'.status = Followed.status /\ Followed'.end = Followed.end
        BY <1>1, <3>1 DEF Followed
      <3>3. wire' = wire /\ (News' <=> News) /\ ~EventUp /\ ~EventUp'
        BY <1>1, <2>1, <2>2, <2>4 DEF News, EventUp, Alone
      <3>4. \A q \in Request : Sees(q)' /\ pc'[q] # "write"
        BY <2>1, <2>2, <2>4 DEF Sees, AtCycleEnd
      <3>5. Announced(row.periodEnd)' <=> Announced(row.periodEnd)
        BY <1>1, <3>2 DEF Announced
      <3> QED
        BY <1>1, <1>2, <3>2, <3>3, <3>4, <3>5 DEF Mirrored
    <2> QED
      BY <2>3, <2>4
  <1> QED
    BY <1>3, <1>4

LEMMA MirrorMark ==
    ASSUME Fair, NEW r \in Request, Mark(r), Handler(r)
    PROVE  Mirrored'
  <1>0. \A q \in Request \ {r} : pc'[q] = pc[q] /\ req'[q] = req[q]
    BY FairIs, HandlerFrame
  <1>1. /\ TypeOK /\ Mirrored /\ Alone(r) /\ pc[r] = "mark" /\ req[r].new = req[r].seen
        /\ pc'[r] = "idle" /\ UNCHANGED <<rz, wire, now>>
    BY FairIs DEF Mark, Serial, Shape, Return, Goto, TypeOK, others
  <1>2. /\ row'.sub = row.sub /\ row'.periodEnd = row.periodEnd
        /\ AtCycleEnd(r) => row'.status = row.status
    BY <1>1, MarkIs
  <1>3. \A q \in Request : pc'[q] = "idle" /\ Sees(q)'
    BY <1>0, <1>1 DEF Alone, Sees
  <1>4. Followed' = Followed /\ (News' <=> News) /\ ~EventUp /\ ~EventUp'
    BY <1>1, <1>2, <1>3 DEF Followed, News, EventUp, Alone
  <1>5. row.sub # NoSub /\ ~AtCycleEnd(r) => Followed.status = "cancelled"
    BY <1>1 DEF Mirrored, Sees
  <1>6. row.sub # NoSub => Announced(row.periodEnd)'
    BY <1>1, <1>2, <1>4 DEF Announced, Mirrored
  <1> QED
    BY <1>1, <1>2, <1>3, <1>4, <1>5, <1>6 DEF Mirrored

\* An event taken off the wire is in hand.
LEMMA MirrorReceive ==
    ASSUME Fair, ~relinked', NEW r \in Request, wire # <<>>, Receive(r, 1), Handler(r)
    PROVE  Mirrored'
  <1>0. \A q \in Request \ {r} : pc'[q] = pc[q] /\ req'[q] = req[q]
    BY FairIs, HandlerFrame
  <1>1. /\ TypeOK /\ Mirrored /\ Mandated /\ wire \in Seq(Event) /\ "overlap" \notin faults
        /\ UNCHANGED <<row, rz, now>> /\ pc[r] = "idle" /\ pc'[r] = "judge" /\ ~wire[1].claimed
        /\ req'[r].status = wire[1].status /\ req'[r].end = wire[1].end
    BY FairIs DEF Receive, Goto, TypeOK, others
  <1>2. PICK n \in Nat \ {0} : n = Len(wire) /\ DOMAIN wire = 1 .. n
    BY <1>1
  <1>3. 1 \in 1 .. n /\ n \in 1 .. n
    BY <1>2
  <1>4. wire[1].sub = row.sub /\ wire[1] \in Event
    <2>1. wire[1].sub = row.sub
      BY DEF Receive
    <2>2. wire[1] \in Event
      BY <1>1, <1>2, <1>3
    <2> QED
      BY <2>1, <2>2
  <1>5. row.sub # NoSub
    BY <1>4, BillingAssumption DEF Event
  <1>6. /\ \A i \in 1 .. n :
             ~wire[i].claimed /\ wire[i].end <= Followed.end /\ wire[i].sub = row.sub
        /\ wire[n].status = Followed.status /\ wire[n].end = Followed.end
    <2>1. \A i \in 1 .. n : ~wire[i].claimed /\ wire[i].sub = row.sub
      BY <1>1, <1>2, <1>3, <1>4, <1>5 DEF Mirrored
    <2>2. News
      BY <1>2, <1>3, <2>1 DEF News
    <2> QED
      BY <1>1, <1>2, <1>3, <1>5, <2>1, <2>2 DEF Mirrored
  <1>7. \A q \in Request \ {r} : pc[q] \in {"idle", "create", "write"}
    BY <1>1 DEF Receive, Between
  <1>8. Followed' = Followed /\ EventUp'
    BY <1>1 DEF Followed, EventUp
  <1>9. /\ \A i \in DOMAIN wire' : /\ wire'[i].claimed => i = 1
                                   /\ wire'[i].end <= Followed.end /\ wire'[i].sub = row.sub
        /\ Len(wire') <= n
        /\ News' => wire'[Len(wire')].status = Followed.status /\ wire'[Len(wire')].end = Followed.end
        /\ ~News' => n = 1
    <2>1. CASE wire' = Without(1)
      <3>1. PICK w \in Seq(Event) :
              /\ w = Without(1) /\ Len(w) = n - 1
              /\ \A j \in 1 .. Len(w) : w[j] = IF j < 1 THEN wire[j] ELSE wire[j + 1]
        BY <1>1, <1>2, <1>3, WithoutIs
      <3>2. DOMAIN w = 1 .. (n - 1) /\ \A j \in 1 .. (n - 1) : w[j] = wire[j + 1] /\ j + 1 \in 1 .. n
        BY <1>2, <3>1
      <3>3. \A j \in DOMAIN w :
              ~w[j].claimed /\ w[j].end <= Followed.end /\ w[j].sub = row.sub
        BY <1>6, <3>2
      <3>4. CASE n = 1
        BY <2>1, <3>1, <3>3, <3>4 DEF News
      <3>5. CASE n # 1
        <4>1. n - 1 \in 1 .. (n - 1) /\ (n - 1) + 1 = n /\ w # <<>>
          BY <1>2, <3>1, <3>5
        <4>2. w[n - 1] = wire[n]
          BY <3>2, <4>1
        <4>3. w[Len(w)] = wire[n]
          BY <3>1, <4>2
        <4> QED
          <5>1. w[Len(w)].status = Followed.status /\ w[Len(w)].end = Followed.end
                /\ ~w[Len(w)].claimed /\ w[Len(w)].sub = row.sub /\ Len(w) <= n
            BY <1>2, <1>3, <1>6, <3>1, <4>3
          <5> QED
            BY <1>1, <2>1, <3>1, <3>3, <4>1, <5>1 DEF News
      <3> QED
        BY <3>4, <3>5
    <2>2. CASE wire' = [wire EXCEPT ![1].claimed = TRUE]
      <3>1. PICK w \in Seq(Event) : w = wire' /\ Len(w) = n /\ DOMAIN w = 1 .. n
        <4>1. [wire[1] EXCEPT !.claimed = TRUE] \in Event
          BY <1>4 DEF Event
        <4>2. [wire EXCEPT ![1].claimed = TRUE] \in Seq(Event)
          BY <1>1, <1>2, <1>3, <4>1
        <4>3. /\ Len([wire EXCEPT ![1].claimed = TRUE]) = n
              /\ DOMAIN [wire EXCEPT ![1].claimed = TRUE] = 1 .. n
          BY <1>1, <1>2
        <4>4. PICK w \in Seq(Event) : w = [wire EXCEPT ![1].claimed = TRUE]
          BY <4>2
        <4> QED
          BY <2>2, <4>3, <4>4
      <3>2. /\ \A j \in 1 .. n : j # 1 => w[j] = wire[j]
            /\ w[1] = [wire[1] EXCEPT !.claimed = TRUE]
        BY <1>1, <1>2, <1>3, <2>2, <3>1
      <3>3. w[1].end = wire[1].end /\ w[1].sub = wire[1].sub /\ w[1].claimed
        BY <1>4, <3>2 DEF Event
      <3>4. \A j \in DOMAIN w : /\ w[j].claimed => j = 1
                                /\ w[j].end <= Followed.end /\ w[j].sub = row.sub
        <4> SUFFICES ASSUME NEW j \in 1 .. n
                     PROVE  /\ w[j].claimed => j = 1
                            /\ w[j].end <= Followed.end /\ w[j].sub = row.sub
          BY <3>1
        <4>1. CASE j = 1
          BY <1>3, <1>6, <3>3, <4>1
        <4>2. CASE j # 1
          BY <1>6, <3>2, <4>2
        <4> QED
          BY <4>1, <4>2
      <3>5. CASE n = 1
        BY <3>1, <3>3, <3>4, <3>5 DEF News
      <3>6. CASE n # 1
        <4>1. w[Len(w)] = wire[n] /\ w # <<>>
          BY <1>3, <3>1, <3>2, <3>6
        <4> QED
          <5>1. w[Len(w)].status = Followed.status /\ w[Len(w)].end = Followed.end
                /\ ~w[Len(w)].claimed /\ w[Len(w)].sub = row.sub /\ Len(w) <= n
            BY <1>2, <1>3, <1>6, <3>1, <4>1
          <5> QED
            BY <1>1, <3>1, <3>4, <4>1, <5>1 DEF News
      <3> QED
        BY <3>5, <3>6
    <2> QED
      BY <2>1, <2>2 DEF Receive
  <1>10. Sees(r)'
    <2>1. ~News' => req'[r].status = Followed.status /\ req'[r].end = Followed.end
      BY <1>1, <1>6, <1>9
    <2>2. req'[r].end <= Followed.end
      BY <1>1, <1>3, <1>6
    <2> QED
      BY <1>1, <1>8, <2>1, <2>2 DEF Sees
  <1>13. Own'
    BY <1>1, <1>9 DEF Own
  <1>11. \A q \in Request : Sees(q)'
    <2>1. ASSUME NEW q \in Request \ {r}, pc[q] \in {"create", "write"} PROVE Len(wire') <= 1
      <3>1. n <= 1
        BY <1>1, <1>2, <1>5, <2>1 DEF Mirrored, Sees
      <3> QED
        BY <1>2, <1>9, <3>1
    <2> QED
      BY <1>0, <1>1, <1>7, <1>10, <1>13, <2>1 DEF Sees
  <1>14. \A q \in Request : pc'[q] = "write" => rz'[req'[q].new.sub].end = 0
    BY <1>0, <1>1 DEF Mirrored
  <1>12. Announced(row.periodEnd)' <=> Announced(row.periodEnd)
    BY <1>1, <1>8 DEF Announced
  <1> QED
    BY <1>1, <1>5, <1>8, <1>9, <1>11, <1>12, <1>14 DEF Mirrored

LEMMA MirrorJudge ==
    ASSUME Fair, NEW r \in Request, Judge(r), Handler(r)
    PROVE  Mirrored'
  <1>0. \A q \in Request \ {r} : pc'[q] = pc[q] /\ req'[q] = req[q]
    BY FairIs, HandlerFrame
  <1>1. TypeOK /\ Mirrored /\ "overlap" \notin faults /\ req[r].end \in Nat
    BY FairIs DEF TypeOK, Req
  <1>2. /\ pc[r] = "judge" /\ pc'[r] = "apply" /\ UNCHANGED <<row, rz, wire, now>>
        /\ Stale(r) => req'[r] = req[r]
        /\ ~Stale(r) =>
             /\ req'[r].new.status = req[r].status
             /\ req'[r].new.periodEnd = IF req[r].end = 0 THEN req[r].new.periodEnd ELSE req[r].end
    BY <1>1, JudgeIs
  <1>3. req[r].new.periodEnd = row.periodEnd
    BY <1>1, <1>2, FairIs DEF Serial, Shape
  <1>4. \A q \in Request \ {r} : pc[q] \in {"idle", "create", "write"}
    BY <1>1, <1>2, FairIs DEF Turn, Between
  <1>5. Followed' = Followed /\ (News' <=> News) /\ (Own' <=> Own) /\ EventUp /\ EventUp'
    BY <1>2 DEF Followed, News, Own, EventUp
  <1>6. ASSUME row.sub # NoSub PROVE Sees(r)'
    <2>1. /\ Announced(row.periodEnd) /\ req[r].end <= Followed.end
          /\ ~News => req[r].status = Followed.status /\ req[r].end = Followed.end
      BY <1>1, <1>2, <1>6 DEF Mirrored, Sees
    <2>2. Followed.end \in Nat /\ row.periodEnd \in Nat
      BY <1>6, FairIs DEF Followed
    <2>3. CASE Stale(r)
      <3>1. req[r].end # 0 /\ req[r].end < row.periodEnd
        BY <1>3, <2>3 DEF Stale
      <3>2. row.periodEnd <= Followed.end
        BY <1>1, <2>1, <2>2, <3>1 DEF Announced
      <3>3. News
        BY <1>1, <2>1, <2>2, <3>1, <3>2
      <3>4. Announced(req[r].new.periodEnd)
        BY <1>3, <2>1
      <3>5. Announced(req[r].new.periodEnd)'
        BY <1>2, <1>5, <2>3, <3>4 DEF Announced
      <3> QED
        BY <1>2, <1>5, <3>3, <3>5 DEF Sees
    <2>4. CASE ~Stale(r)
      <3>1. Announced(req[r].new.periodEnd)'
        BY <1>1, <1>2, <1>3, <1>5, <2>1, <2>2, <2>4 DEF Announced
      <3>2. ~News => req'[r].new.status = Followed.status /\ req'[r].new.periodEnd >= Followed.end
        BY <1>1, <1>2, <1>3, <2>1, <2>2, <2>4
      <3> QED
        BY <1>2, <1>5, <3>1, <3>2 DEF Sees
    <2> QED
      BY <2>3, <2>4
  <1>7. row.sub # NoSub => \A q \in Request \ {r} : Sees(q)'
    BY <1>0, <1>1, <1>2, <1>4, <1>5 DEF Mirrored, Sees
  <1>9. \A q \in Request : pc'[q] = "write" => rz'[req'[q].new.sub].end = 0
    BY <1>0, <1>1, <1>2 DEF Mirrored
  <1>8. Announced(row.periodEnd)' <=> Announced(row.periodEnd)
    BY <1>2, <1>5 DEF Announced
  <1> QED
    BY <1>1, <1>2, <1>5, <1>6, <1>7, <1>8, <1>9 DEF Mirrored

LEMMA MirrorApply ==
    ASSUME Fair, NEW r \in Request, Apply(r), Handler(r)
    PROVE  Mirrored'
  <1>0. \A q \in Request \ {r} : pc'[q] = pc[q] /\ req'[q] = req[q]
    BY FairIs, HandlerFrame
  <1>1. /\ TypeOK /\ Mirrored /\ pc[r] = "apply" /\ pc'[r] = "idle" /\ UNCHANGED <<rz, wire, now>>
        /\ req[r].seen = row /\ req[r].new.sub = row.sub
    BY FairIs DEF Apply, Serial, Knows, Return, Goto, TypeOK, others
  <1>2. /\ row'.sub = row.sub /\ row'.status = req[r].new.status
        /\ row'.periodEnd = req[r].new.periodEnd
    BY <1>1, ApplyIs
  <1>3. \A q \in Request \ {r} : pc[q] \in {"idle", "create", "write"}
    BY <1>1, FairIs DEF Turn, Between
  <1>5. Followed' = Followed /\ (News' <=> News) /\ (Own' <=> Own)
    BY <1>1, <1>2 DEF Followed, News, Own
  <1>4. row.sub # NoSub => \A q \in Request : Sees(q)'
    BY <1>0, <1>1, <1>3, <1>5 DEF Mirrored, Sees
  <1>9. \A q \in Request :
          /\ pc'[q] \notin {"judge", "apply"}
          /\ pc'[q] = "write" => rz'[req'[q].new.sub].end = 0
    BY <1>0, <1>1, <1>3 DEF Mirrored
  <1>10. ~EventUp'
    BY <1>9 DEF EventUp
  <1>6. row.sub # NoSub =>
          /\ Announced(req[r].new.periodEnd)
          /\ ~News => req[r].new.status = Followed.status /\ req[r].new.periodEnd >= Followed.end
    BY <1>1 DEF Mirrored, Sees
  <1>7. row.sub # NoSub => Announced(row.periodEnd)'
    BY <1>1, <1>2, <1>5, <1>6 DEF Announced
  <1>8. row.sub # NoSub
    BY <1>1 DEF Mirrored, EventUp
  <1> QED
    BY <1>1, <1>2, <1>4, <1>5, <1>6, <1>7, <1>8, <1>9, <1>10 DEF Mirrored

\* A claimed event that comes again is dropped.
LEMMA MirrorDuplicate ==
    ASSUME Fair, NEW i \in DOMAIN wire, Duplicate(i)
    PROVE  Mirrored'
  <1>1. /\ TypeOK /\ Mirrored /\ Mandated /\ wire \in Seq(Event) /\ wire[i].claimed
        /\ UNCHANGED <<row, rz, now, pc, req>> /\ wire' = Without(i)
    BY FairIs DEF Duplicate, others
  <1>2. PICK n \in Nat \ {0} : n = Len(wire) /\ DOMAIN wire = 1 .. n
    BY <1>1
  <1>3. 1 \in 1 .. n /\ n \in 1 .. n
    BY <1>2
  <1>5. row.sub # NoSub
    BY <1>1, <1>2 DEF Mirrored
  <1>6. i = 1 /\ \A j \in 1 .. n : /\ wire[j].claimed \/ wire[j].sub # row.sub => j = 1
                                   /\ wire[j].sub = row.sub => wire[j].end <= Followed.end
    BY <1>1, <1>2, <1>5 DEF Mirrored
  <1>7. PICK w \in Seq(Event) :
          /\ w = Without(1) /\ Len(w) = n - 1
          /\ \A j \in 1 .. Len(w) : w[j] = IF j < 1 THEN wire[j] ELSE wire[j + 1]
    BY <1>1, <1>2, <1>3, WithoutIs
  <1>8. DOMAIN w = 1 .. (n - 1) /\ \A j \in 1 .. (n - 1) : w[j] = wire[j + 1] /\ j + 1 \in 2 .. n
    <2>1. w \in Seq(Event) /\ Len(w) = n - 1 /\ n - 1 \in Nat
      BY <1>2, <1>7
    <2>2. DOMAIN w = 1 .. (n - 1)
      BY <2>1
    <2>3. ASSUME NEW j \in 1 .. (n - 1) PROVE w[j] = wire[j + 1] /\ j + 1 \in 2 .. n
      <3>1. j \in Nat /\ ~(j < 1) /\ j + 1 \in 2 .. n
        BY <1>2
      <3> QED
        BY <1>7, <2>1, <3>1
    <2> QED
      BY <2>2, <2>3
  <1>9. \A j \in DOMAIN w : ~w[j].claimed /\ w[j].end <= Followed.end /\ w[j].sub = row.sub
    <2> SUFFICES ASSUME NEW j \in 1 .. (n - 1)
                 PROVE  ~w[j].claimed /\ w[j].end <= Followed.end /\ w[j].sub = row.sub
      BY <1>8
    <2>1. w[j] = wire[j + 1] /\ j + 1 \in 1 .. n /\ j + 1 # 1
      BY <1>2, <1>8
    <2>2. ~wire[j + 1].claimed /\ wire[j + 1].sub = row.sub /\ wire[j + 1].end <= Followed.end
      <3>1. PICK k \in 1 .. n : k = j + 1 /\ k # 1
        BY <2>1
      <3> QED
        BY <1>6, <3>1
    <2> QED
      BY <2>1, <2>2
  <1>10. wire' = w
    BY <1>1, <1>6, <1>7
  <1>11. (News' <=> News) /\ (News' => w[Len(w)] = wire[n])
    <2>1. CASE n = 1
      BY <1>1, <1>2, <1>6, <1>7, <1>10, <2>1 DEF News
    <2>2. CASE n # 1
      <3>1. n - 1 \in 1 .. (n - 1) /\ (n - 1) + 1 = n /\ w # <<>>
        BY <1>2, <1>7, <2>2
      <3>2. w[Len(w)] = wire[n]
        BY <1>7, <1>8, <3>1
      <3>3. wire # <<>>
        BY <1>2
      <3>4. ~wire[n].claimed /\ wire[n].sub = row.sub
        BY <1>3, <1>6, <2>2
      <3> QED
        BY <1>1, <1>2, <1>10, <3>1, <3>2, <3>3, <3>4 DEF News
    <2> QED
      BY <2>1, <2>2
  <1>12. Followed' = Followed /\ (EventUp' <=> EventUp)
    BY <1>1 DEF Followed, EventUp
  <1>13. wire # <<>>
    BY <1>2
  <1>16. Own' /\ Len(wire') <= n - 1
    BY <1>1, <1>7, <1>9, <1>10 DEF Own
  <1>14. \A r \in Request : Sees(r)'
    <2>1. ASSUME NEW r \in Request, pc[r] \in {"insert", "create", "write"} PROVE Len(wire') <= 1
      <3>1. n <= 1
        BY <1>1, <1>2, <1>5, <2>1 DEF Mirrored, Sees
      <3> QED
        BY <1>2, <1>10, <1>7, <3>1
    <2> QED
      BY <1>1, <1>5, <1>11, <1>12, <1>13, <1>16, <2>1 DEF Mirrored, Sees, AtCycleEnd, Announced
  <1>15. Announced(row.periodEnd)' <=> Announced(row.periodEnd)
    BY <1>1, <1>12 DEF Announced
  <1> QED
    BY <1>1, <1>2, <1>5, <1>9, <1>10, <1>11, <1>12, <1>14, <1>15 DEF Mirrored

\* Razorpay renews a period that is over, or leaves it.
LEMMA RemoteMoves ==
    ASSUME Fair, NEW s \in Sub, Sign(s) \/ Charge(s) \/ Retry(s) \/ CycleEnd(s),
           rz[s].status # "active" => rz[s].end <= now,
           rz[s].status = "created" => rz[s].end = 0
    PROVE  \E status \in Status, end \in Nat :
             /\ Change(s, status, end)
             /\ status # "created"
             /\ rz[s].end <= now
             /\ end = rz[s].end \/ end > now
             /\ status # "active" => end <= now
  <1>0. rz[s] \in Remote /\ now \in Nat /\ rz[s].end \in Nat
    BY FairIs
  <1>1. rz[s].cycle \in Nat \ {0}
    BY <1>0, BillingAssumption DEF Remote
  <1>2. now + rz[s].cycle \in Nat /\ now + rz[s].cycle > now /\ 0 \in Nat
    BY <1>0, <1>1
  <1>3. {"authenticated", "active", "pending", "halted", "cancelled"} \subseteq Status
    BY DEF Status
  <1>4. CASE Sign(s)
    <2>1. rz[s].end = 0 /\ 0 <= now
      BY <1>0, <1>4 DEF Sign
    <2>2. Change(s, "authenticated", 0) \/ Change(s, "active", now + rz[s].cycle)
      BY <1>4 DEF Sign
    <2> QED
      BY <1>2, <1>3, <2>1, <2>2
  <1>5. CASE Charge(s) \/ Retry(s)
    <2>1. rz[s].end <= now
      BY <1>0, <1>5 DEF Charge, Retry
    <2>2. \/ Change(s, "active", now + rz[s].cycle)
          \/ Change(s, "pending", rz[s].end) \/ Change(s, "halted", rz[s].end)
      BY <1>5 DEF Charge, Retry
    <2> QED
      BY <1>0, <1>2, <1>3, <2>1, <2>2
  <1>6. CASE CycleEnd(s)
    <2>1. rz[s].end <= now /\ Change(s, "cancelled", rz[s].end)
      BY <1>0, <1>6 DEF CycleEnd
    <2> QED
      BY <1>0, <1>3, <2>1
  <1> QED
    BY <1>4, <1>5, <1>6

LEMMA MirrorRemote ==
    ASSUME Fair, NEW s \in Sub, Sign(s) \/ Charge(s) \/ Retry(s) \/ CycleEnd(s)
    PROVE  Mirrored'
  <1>0. TypeOK /\ Mirrored /\ Mandated /\ "late" \notin faults /\ wire \in Seq(Event) /\ now \in Nat
    BY FairIs
  <1>1. s = row.sub /\ s # NoSub
    BY <1>0, RemoteIs, BillingAssumption DEF Mandated
  <1>2. rz[s] = Followed /\ rz[s].end \in Nat
    BY <1>1, FairIs DEF Followed
  <1>3. PICK status \in Status, end \in Nat :
          /\ Change(s, status, end)
          /\ status # "created"
          /\ rz[s].end <= now
          /\ end = rz[s].end \/ end > now
          /\ status # "active" => end <= now
    BY <1>0, <1>1, <1>2, RemoteMoves DEF Mirrored
  <1>4. /\ rz' = [rz EXCEPT ![s].status = status, ![s].end = end] /\ Send(s, status, end)
        /\ UNCHANGED <<row, now, pc, req>> /\ \A r \in Request : pc[r] = "idle"
    BY <1>0, <1>3 DEF Change, remoteOnly, others, Quiet
  <1>5. Followed'.status = status /\ Followed'.end = end
    BY <1>0, <1>1, <1>4 DEF TypeOK, Remote, Followed
  <1>6. News' /\ wire'[Len(wire')].status = status /\ wire'[Len(wire')].end = end
    BY <1>0, <1>1, <1>4, SentLast DEF News
  <1>7. \A i \in DOMAIN wire' :
          \/ i \in DOMAIN wire /\ wire'[i] = wire[i]
          \/ ~wire'[i].claimed /\ wire'[i].end = end /\ wire'[i].sub = row.sub
    BY <1>0, <1>1, <1>4, SentLast
  <1>8. rz[s].end <= end
    BY <1>0, <1>2, <1>3
  <1>9. \A i \in DOMAIN wire : wire[i].end \in Nat
    <2>1. \A i \in DOMAIN wire : wire[i] \in Event
      BY <1>0
    <2> QED
      BY <2>1 DEF Event
  <1>10. \A i \in DOMAIN wire' : /\ wire'[i].claimed \/ wire'[i].sub # row.sub => i = 1
                                 /\ wire'[i].sub = row.sub => wire'[i].end <= end
    BY <1>0, <1>1, <1>2, <1>7, <1>8, <1>9 DEF Mirrored
  <1>11. Announced(row.periodEnd)'
    <2>1. Announced(row.periodEnd) /\ row.periodEnd \in Nat
      BY <1>0, <1>1, FairIs DEF Mirrored
    <2> QED
      BY <1>0, <1>2, <1>3, <1>4, <1>5, <2>1 DEF Announced
  <1>12. \A r \in Request : Sees(r)' /\ pc'[r] # "write"
    BY <1>4 DEF Sees
  <1> QED
    BY <1>1, <1>3, <1>4, <1>5, <1>6, <1>10, <1>11, <1>12 DEF Mirrored

LEMMA MirrorDay ==
    ASSUME Fair, NextDay
    PROVE  Mirrored'
  <1>1. /\ Mirrored /\ now \in Nat /\ now' = now + 1 /\ UNCHANGED <<row, rz, wire, pc, req>>
        /\ \A r \in Request : pc[r] = "idle"
    BY FairIs DEF NextDay, Quiet
  <1>2. Followed' = Followed /\ (News' <=> News) /\ (EventUp' <=> EventUp)
    BY <1>1 DEF Followed, News, EventUp
  <1>3. row.sub # NoSub => Followed.end \in Nat /\ row.periodEnd \in Nat
    BY FairIs DEF Followed
  <1>4. row.sub # NoSub /\ Followed.end <= now => Followed.end <= now'
    BY <1>1, <1>3
  <1>5. row.sub # NoSub /\ Announced(row.periodEnd) => Announced(row.periodEnd)'
    BY <1>1, <1>2, <1>3 DEF Announced
  <1>6. \A r \in Request : Sees(r)' /\ pc'[r] # "write"
    BY <1>1 DEF Sees
  <1> QED
    BY <1>1, <1>2, <1>4, <1>5, <1>6 DEF Mirrored

\* A handler's step, but for taking an event.
Moves(r) ==
    \/ BeginCheckout(r) \/ Refuse(r) \/ PassGuard(r) \/ Replace(r) \/ Insert(r)
    \/ Create(r) \/ CreateFails(r) \/ Write(r)
    \/ BeginCancel(r) \/ Stop(r) \/ Mark(r)
    \/ Judge(r) \/ Apply(r)
    \/ BeginOnboard(r) \/ Finish(r) \/ Crash(r)

\* Events are taken in the order they were sent.
LEMMA InOrder ==
    ASSUME Fair, [Next]_vars
    PROVE  \/ UNCHANGED vars
           \/ Outside
           \/ \E r \in Request : Handler(r) /\ Moves(r)
           \/ \E r \in Request : Handler(r) /\ wire # <<>> /\ Receive(r, 1)
  <1>1. ASSUME NEW r \in Request, NEW i \in DOMAIN wire, Deliverable(i), Receive(r, i)
        PROVE  Handler(r) /\ wire # <<>> /\ Receive(r, 1)
    BY <1>1, FairIs DEF Deliverable, Handler
  <1>2. CASE \E r \in Request : \E i \in DOMAIN wire : Deliverable(i) /\ Receive(r, i)
    BY <1>1, <1>2
  <1>3. CASE ~\E r \in Request : \E i \in DOMAIN wire : Deliverable(i) /\ Receive(r, i)
    <2>1. ASSUME NEW r \in Request, Moves(r) PROVE Handler(r)
      BY <2>1 DEF Moves, Handler
    <2>2. UNCHANGED vars \/ Outside \/ \E r \in Request : Moves(r)
      BY <1>3 DEF Next, Moves, Outside
    <2> QED
      BY <2>1, <2>2
  <1> QED
    BY <1>2, <1>3

LEMMA MirrorNext == Fair /\ ~relinked' /\ [Next]_vars => Mirrored'
  <1> SUFFICES ASSUME Fair, ~relinked', [Next]_vars PROVE Mirrored'
    OBVIOUS
  <1>1. CASE UNCHANGED vars
    BY <1>1, FairIs
    DEF vars, Mirrored, Sees, News, Own, EventUp, Followed, Announced, AtCycleEnd
  <1>2. ASSUME NEW r \in Request, Handler(r), Moves(r) PROVE Mirrored'
    <2>1. ~Crash(r)
      BY FairIs DEF Crash
    <2> QED
      BY <1>2, <2>1, MirrorRequest, MirrorInsert, MirrorCreate, MirrorWrite, MirrorReplace,
         MirrorStop, MirrorMark, MirrorJudge, MirrorApply DEF Moves
  <1>3. CASE Outside
    <2>1. ASSUME Sync PROVE Mirrored'
      BY <2>1, FairIs
      DEF Sync, Mirrored, Sees, News, Own, EventUp, Followed, Announced, AtCycleEnd
    <2>2. \A s \in Sub : ~EndEarly(s)
      BY FairIs DEF EndEarly
    <2> QED
      BY <1>3, <2>1, <2>2, MirrorDuplicate, MirrorRemote, MirrorDay DEF Outside
  <1> QED
    BY <1>1, <1>2, <1>3, InOrder, MirrorReceive

LEMMA MirrorInit == Init => Mirrored
  <1> SUFFICES ASSUME Init PROVE Mirrored
    OBVIOUS
  <1>1. row.sub = NoSub /\ row.periodEnd = 0
    <2>1. CASE row = NoRow
      BY <2>1 DEF NoRow
    <2>2. CASE row = [NoRow EXCEPT !.made = TRUE, !.status = "authenticated", !.trialEnds = Trial]
      BY <2>2 DEF NoRow
    <2> QED
      BY <2>1, <2>2 DEF Init
  <1>2. wire = <<>> /\ \A r \in Request : pc[r] = "idle"
    BY DEF Init
  <1> QED
    BY <1>1, <1>2 DEF Mirrored, EventUp

LEMMA MirrorHolds == Fair => Mirrors
  <1> SUFFICES ASSUME Fair, Quiet, wire = <<>>, row.sub # NoSub,
                      Followed.status \in {"authenticated", "active", "pending", "halted"}
               PROVE  row.status = Followed.status /\ row.periodEnd >= Followed.end
    BY DEF Mirrors, Followed
  <1>1. ~News /\ ~EventUp
    BY DEF News, EventUp, Quiet
  <1> QED
    BY <1>1, FairIs DEF Mirrored

FollowInv == Orderly /\ MandateInv /\ (Gentle /\ ~relinked => Mirrored)

LEMMA FollowNext == FollowInv /\ [Next]_vars => FollowInv'
  <1> SUFFICES ASSUME FollowInv, [Next]_vars PROVE FollowInv'
    OBVIOUS
  <1>1. Orderly' /\ MandateInv'
    BY OrderlyStep, MandateNext DEF FollowInv
  <1>2. Gentle' => Gentle
    <2>1. faults' = faults
      BY Steps, HandlerFrame, OutsideFrame DEF vars, FollowInv, Orderly, Inv
    <2> QED
      BY <2>1 DEF Gentle
  <1>3. Gentle /\ ~relinked => Fair
    BY GentleIs DEF FollowInv, MandateInv, Fair
  <1> QED
    BY <1>1, <1>2, <1>3, MirrorNext, StaysRelinked DEF FollowInv

\* The row follows Razorpay: with transactions one at a time, and Razorpay's
\* answers and events in, every mandate that can be charged is the one the row
\* names; and where nothing fails or comes out of order, the row says of it what
\* Razorpay says (start_checkout, webhooks.handle_event).  Both hold until an
\* event of a replaced subscription comes after the checkout that replaced it
\* and moves the row back by its notes (webhooks._link_by_notes).
THEOREM RowFollowsRazorpay == Spec => []FollowsRazorpay
  <1>1. Init => FollowInv
    BY OrderlyInit, MandateInit, MirrorInit DEF FollowInv
  <1>2. FollowInv => FollowsRazorpay
    <2> SUFFICES ASSUME FollowInv PROVE OneMandate /\ Mirrors
      BY DEF FollowsRazorpay
    <2>1. OneMandate
      BY MandateHolds DEF FollowInv, MandateInv, Calm, OneMandate
    <2>2. Gentle /\ ~relinked => Fair
      BY GentleIs DEF FollowInv, MandateInv, Fair
    <2>3. Mirrors
      BY <2>2, MirrorHolds DEF Mirrors, Gentle
    <2> QED
      BY <2>1, <2>3
  <1> QED
    BY <1>1, <1>2, FollowNext, PTL DEF Spec
=============================================================================
