------------------------------- MODULE Billing -------------------------------
(***************************************************************************)
(* Subscriptions: checkout and cancel of api/v1/billing.py, the Razorpay   *)
(* events of api/v1/webhooks.py and services/billing/webhooks.py, access   *)
(* as services/billing/access.py resolves it, and the first mailbox sync   *)
(* that services/billing/gate.py starts from either side.                  *)
(*                                                                         *)
(* One user, not comped.  Every request and event has a session of its     *)
(* own, which reads the row once and commits the columns it changed.       *)
(* Plan, prices and customer ids do not matter here.  trial_consumed is    *)
(* TRUE in every row these handlers make and in the backfilled ones.       *)
(* Razorpay is external: one event per change of a subscription's status.  *)
(***************************************************************************)
EXTENDS Integers, Sequences, FiniteSets

CONSTANTS
    Sub,        \* subscriptions Razorpay may create
    Request,    \* requests and events being handled at once
    NoSub,      \* razorpay_subscription_id is None
    Trial,      \* TRIAL_DAYS
    Cycles,     \* lengths of the billing intervals
    Horizon,    \* bound on the days of a behaviour
    Scenarios   \* the combinations of circumstances the instance allows

\* "overlap"   the transactions of user requests and events overlap
\* "late"      a checkout or a cancel begins while Razorpay's news of the
\*             subscription is still under way
\* "reorder"   events arrive in another order than they were sent
\* "again"     an event is delivered again
\* "provider"  a Razorpay call fails
\* "crash"     a handler fails or dies before its commit
\* "early"     Razorpay ends a subscription before its paid period is over
\* "hasty"     the first sync's task runs before the request that queued it commits
Circumstance ==
    {"overlap", "late", "reorder", "again", "provider", "crash", "early", "hasty"}

ASSUME BillingAssumption ==
    /\ NoSub \notin Sub
    /\ Trial \in Nat \ {0}
    /\ Cycles \subseteq Nat \ {0} /\ Cycles # {}
    /\ Horizon \in Nat
    /\ Scenarios \subseteq SUBSET Circumstance

VARIABLES
    faults,     \* the circumstances of this behaviour
    now,        \* the day
    row,        \* the user's row of subscriptions
    rz,         \* the subscriptions at Razorpay
    wire,       \* the events sent and not yet answered
    pc,         \* where each handler is
    req,        \* what each handler has read and is about to write
    onboarded,  \* users.onboarded_at is set
    sync,       \* the first mailbox sync: users.initial_sync_at and its task
    relinked    \* an event's notes have moved the row to another subscription

vars == <<faults, now, row, rz, wire, pc, req, onboarded, sync, relinked>>
others == <<faults, now, onboarded, sync, relinked>>

\* paused and completed are as locked as halted and cancelled, and expired as
\* created: the code does not tell them apart.
Status == {"created", "authenticated", "active", "pending", "halted", "cancelled"}
EntitledStatuses == {"authenticated", "active", "pending"}

Row == [made: BOOLEAN, sub: Sub \cup {NoSub}, status: Status, trialEnds: Nat,
        periodEnd: Nat, ends: BOOLEAN]
Event == [sub: Sub, status: Status, end: Nat, claimed: BOOLEAN]
Remote == [status: Status \cup {"absent"}, shown: BOOLEAN, startAt: Nat,
           cycle: Cycles, end: Nat, stops: BOOLEAN]
Op == {"none", "checkout", "cancel", "event", "onboard"}
Step == {"idle", "guard", "replace", "insert", "create", "write",
         "stop", "mark", "judge", "apply", "finish"}

\* What a handler has read, what it will write, and its event's content.
Req == [op: Op, seen: Row, new: Row, status: Status, end: Nat]

NoRow == [made |-> FALSE, sub |-> NoSub, status |-> "created", trialEnds |-> 0,
          periodEnd |-> 0, ends |-> FALSE]
Absent == [status |-> "absent", shown |-> FALSE, startAt |-> 0,
           cycle |-> CHOOSE c \in Cycles : TRUE, end |-> 0, stops |-> FALSE]
NoReq == [op |-> "none", seen |-> NoRow, new |-> NoRow, status |-> "created", end |-> 0]

TypeOK ==
    /\ faults \subseteq Circumstance
    /\ now \in 0 .. Horizon
    /\ row \in Row
    /\ rz \in [Sub -> Remote]
    /\ wire \in Seq(Event)
    /\ pc \in [Request -> Step]
    /\ req \in [Request -> Req]
    /\ onboarded \in BOOLEAN
    /\ sync \in {"no", "queued", "missed", "done"}
    /\ relinked \in BOOLEAN

\* A new user, or one the migrations put on a trial without Razorpay.
Init ==
    /\ faults \in Scenarios
    /\ now = 0
    /\ row \in {NoRow, [NoRow EXCEPT !.made = TRUE, !.status = "authenticated",
                                     !.trialEnds = Trial]}
    /\ rz = [s \in Sub |-> Absent]
    /\ wire = <<>>
    /\ pc = [r \in Request |-> "idle"]
    /\ req = [r \in Request |-> NoReq]
    /\ onboarded = FALSE
    /\ sync = "no"
    /\ relinked = FALSE

-----------------------------------------------------------------------------
(* access.py *)

\* resolve_access; without a row it is locked.
Entitled(rw) ==
    /\ rw.made
    /\ rw.status \in EntitledStatuses
    /\ rw.status = "authenticated" => now < rw.trialEnds

-----------------------------------------------------------------------------
(* Sessions *)

Quiet == \A r \in Request : pc[r] = "idle"

Alone(r) == \A q \in Request \ {r} : pc[q] = "idle"

\* A checkout whose first transaction is over, and whose second has not begun.
Between(r) == pc[r] \in {"create", "write"}

\* A request may begin.
Free(r) ==
    /\ pc[r] = "idle"
    /\ "overlap" \in faults \/ Quiet

Goto(r, step) == pc' = [pc EXCEPT ![r] = step]
Return(r) == Goto(r, "idle") /\ req' = [req EXCEPT ![r] = NoReq]

\* The columns whose value differs from the one that was read.
Saved(seen, new) ==
    [f \in DOMAIN row |-> IF new[f] = seen[f] THEN row[f] ELSE new[f]]

Send(s, status, end) ==
    wire' = Append(wire, [sub |-> s, status |-> status, end |-> end, claimed |-> FALSE])

Without(i) == SubSeq(wire, 1, i - 1) \o SubSeq(wire, i + 1, Len(wire))

Cancellable == {"created", "authenticated", "active", "pending", "halted"}

\* Razorpay cancels a subscription at once and says so.
CancelNow(s) ==
    /\ rz' = [rz EXCEPT ![s].status = "cancelled"]
    /\ Send(s, "cancelled", rz[s].end)

-----------------------------------------------------------------------------
(* checkout *)

\* The bound Sub leaves a subscription for every checkout that is under way.
CanCreate == Cardinality({s \in Sub : rz[s].status = "absent"})
                > Cardinality({r \in Request : req[r].op = "checkout" /\ pc[r] # "write"})

\* get_or_create_subscription: a first row is a trial, not committed yet.
BeginCheckout(r) ==
    /\ Free(r)
    /\ "late" \in faults \/ wire = <<>>
    /\ CanCreate
    /\ req' = [req EXCEPT ![r] = [NoReq EXCEPT
         !.op = "checkout",
         !.seen = row,
         !.new = IF row.made THEN row
                 ELSE [NoRow EXCEPT !.made = TRUE, !.status = "authenticated",
                                    !.trialEnds = now + Trial]]]
    /\ Goto(r, "guard")
    /\ UNCHANGED <<others, row, rz, wire>>

InService(rw) == rw.sub # NoSub /\ Entitled(rw)

\* 409: the subscription is serving the user.
Refuse(r) ==
    /\ pc[r] = "guard"
    /\ InService(req[r].new)
    /\ Return(r)
    /\ UNCHANGED <<others, row, rz, wire>>

PassGuard(r) ==
    /\ pc[r] = "guard"
    /\ ~InService(req[r].new)
    /\ Goto(r, IF req[r].new.sub = NoSub THEN "insert" ELSE "replace")
    /\ UNCHANGED <<others, row, rz, wire, req>>

\* Mutant of Replace: the old subscription is left alone.
Replace_Kept(r) ==
    /\ pc[r] = "replace"
    /\ Goto(r, "insert")
    /\ UNCHANGED <<others, row, rz, wire, req>>

\* The old subscription is cancelled at once, as far as Razorpay lets us.
Replace(r) ==
    /\ pc[r] = "replace"
    /\ \/ /\ rz[req[r].new.sub].status \in Cancellable
          /\ CancelNow(req[r].new.sub)
       \/ /\ rz[req[r].new.sub].status \notin Cancellable \/ "provider" \in faults
          /\ UNCHANGED <<rz, wire>>
    /\ Goto(r, "insert")
    /\ UNCHANGED <<others, row, req>>

\* The trial row is committed before Razorpay is called; the second of two
\* first rows violates the user's uniqueness and ends the request.
Insert(r) ==
    /\ pc[r] = "insert"
    /\ IF req[r].seen.made THEN Goto(r, "create") /\ UNCHANGED <<row, req>>
       ELSE IF row.made THEN Return(r) /\ UNCHANGED row
       ELSE /\ row' = req[r].new
            /\ req' = [req EXCEPT ![r].seen = req[r].new]
            /\ Goto(r, "create")
    /\ UNCHANGED <<others, rz, wire>>

\* Mutant of TrialEnds: every checkout computes a trial of its own.
TrialEnds_Fresh(r) == now + Trial

\* A trial that is running goes on, the one just granted too; one that has
\* elapsed is not given again.
TrialEnds(r) == IF req[r].new.trialEnds > now THEN req[r].new.trialEnds ELSE now

\* create_subscription, with start_at at the end of the trial.
Create(r) ==
    /\ pc[r] = "create"
    /\ \E s \in {t \in Sub : rz[t].status = "absent"}, c \in Cycles :
        /\ rz' = [rz EXCEPT ![s] = [Absent EXCEPT !.status = "created", !.cycle = c,
                                                  !.startAt = TrialEnds(r)]]
        /\ req' = [req EXCEPT ![r].new.sub = s]
    /\ Goto(r, "write")
    /\ UNCHANGED <<others, row, wire>>

CreateFails(r) ==
    /\ "provider" \in faults
    /\ pc[r] = "create"
    /\ Return(r)
    /\ UNCHANGED <<others, row, rz, wire>>

\* The second transaction: the row follows the new subscription, whose id the
\* browser gets.
Write(r) ==
    /\ pc[r] = "write"
    /\ "overlap" \in faults \/ Alone(r)
    /\ row' = Saved(req[r].seen, [req[r].new EXCEPT !.trialEnds = TrialEnds(r), !.ends = FALSE])
    /\ rz' = [rz EXCEPT ![req[r].new.sub].shown = TRUE]
    /\ Return(r)
    /\ UNCHANGED <<others, wire>>

-----------------------------------------------------------------------------
(* cancel *)

BeginCancel(r) ==
    /\ Free(r)
    /\ "late" \in faults \/ wire = <<>>
    /\ row.made /\ row.sub # NoSub
    /\ req' = [req EXCEPT ![r] = [NoReq EXCEPT !.op = "cancel", !.seen = row, !.new = row]]
    /\ Goto(r, "stop")
    /\ UNCHANGED <<others, row, rz, wire>>

Cancelled(rw) == [rw EXCEPT !.ends = FALSE, !.status = "cancelled"]

AtCycleEnd(r) == req[r].seen.status \in {"active", "pending"}

\* cancel_subscription: what Razorpay refuses ends the request.
Stop(r) ==
    /\ pc[r] = "stop"
    /\ LET s == req[r].seen.sub
       IN \/ /\ rz[s].status \in Cancellable
             /\ IF AtCycleEnd(r) THEN rz' = [rz EXCEPT ![s].stops = TRUE] /\ UNCHANGED wire
                                 ELSE CancelNow(s)
             /\ Goto(r, "mark")
             /\ UNCHANGED req
          \/ /\ rz[s].status \notin Cancellable \/ "provider" \in faults
             /\ Return(r)
             /\ UNCHANGED <<rz, wire>>
    /\ UNCHANGED <<others, row>>

Mark(r) ==
    /\ pc[r] = "mark"
    /\ row' = Saved(req[r].seen, IF AtCycleEnd(r) THEN [req[r].new EXCEPT !.ends = TRUE]
                                 ELSE Cancelled(req[r].new))
    /\ Return(r)
    /\ UNCHANGED <<others, rz, wire>>

-----------------------------------------------------------------------------
(* Razorpay events *)

\* claim_event: a claimed event is answered as a duplicate.
Duplicate(i) ==
    /\ wire[i].claimed
    /\ wire' = Without(i)
    /\ UNCHANGED <<others, row, rz, pc, req>>

\* The claim, and the row: by the subscription's id, else by the user's id in
\* its notes, which moves the row to this subscription.  An event may come
\* between the two transactions of a checkout.
Receive(r, i) ==
    /\ pc[r] = "idle"
    /\ "overlap" \in faults \/ \A q \in Request : pc[q] = "idle" \/ Between(q)
    /\ ~wire[i].claimed
    /\ \/ wire' = Without(i)
       \/ "again" \in faults /\ wire' = [wire EXCEPT ![i].claimed = TRUE]
    /\ req' = [req EXCEPT ![r] = [op |-> "event", seen |-> row,
                                  new |-> [row EXCEPT !.sub = wire[i].sub],
                                  status |-> wire[i].status, end |-> wire[i].end]]
    /\ relinked' = (relinked \/ wire[i].sub # row.sub)
    /\ Goto(r, "judge")
    /\ UNCHANGED <<faults, now, onboarded, sync, row, rz>>

\* Mutant of StartSync: only a trial starts it.
StartSync_TrialOnly(rw, ready) ==
    IF sync \in {"no", "missed"} /\ ready /\ Entitled(rw) /\ rw.status = "authenticated"
    THEN sync' = "queued" ELSE UNCHANGED sync

\* maybe_start_mail_sync, as this session sees the subscription.
StartSync(rw, ready) ==
    IF sync \in {"no", "missed"} /\ ready /\ Entitled(rw)
    THEN sync' = "queued" ELSE UNCHANGED sync

\* Mutant of Stale: every event is applied.
Stale_Never(r) == FALSE

\* An event whose period ended earlier; the row has its subscription all the same.
Stale(r) ==
    /\ req[r].end # 0
    /\ req[r].new.periodEnd # 0
    /\ req[r].end < req[r].new.periodEnd

\* handle_event
Judge(r) ==
    /\ pc[r] = "judge"
    /\ Goto(r, "apply")
    /\ IF Stale(r) THEN UNCHANGED <<req, sync>>
       ELSE LET new == [req[r].new EXCEPT !.status = req[r].status,
                                          !.periodEnd = IF req[r].end = 0 THEN @ ELSE req[r].end]
            IN /\ req' = [req EXCEPT ![r].new = new]
               /\ StartSync(new, onboarded)
    /\ UNCHANGED <<faults, now, onboarded, relinked, row, rz, wire>>

Apply(r) ==
    /\ pc[r] = "apply"
    /\ row' = Saved(req[r].seen, req[r].new)
    /\ Return(r)
    /\ UNCHANGED <<others, rz, wire>>

-----------------------------------------------------------------------------
(* Onboarding and the first sync *)

\* complete_onboarding: the other half of the start rule.  A repeat is harmless;
\* to bound the instances it runs alone.
BeginOnboard(r) ==
    /\ Free(r)
    /\ onboarded => Quiet
    /\ req' = [req EXCEPT ![r].op = "onboard"]
    /\ StartSync(row, TRUE)
    /\ Goto(r, "finish")
    /\ UNCHANGED <<faults, now, onboarded, relinked, row, rz, wire>>

Finish(r) ==
    /\ pc[r] = "finish"
    /\ onboarded' = TRUE
    /\ Return(r)
    /\ UNCHANGED <<faults, now, sync, relinked, row, rz, wire>>

\* sync_last_7_days: the gate is asked again, of what was committed, five seconds
\* after the request queued the task.  A task that finds it closed gives up and is
\* not queued again by itself; it has "missed" when a request was still at work.
Sync ==
    /\ sync = "queued"
    /\ Quiet \/ "hasty" \in faults
    /\ sync' = IF onboarded /\ Entitled(row) THEN "done"
               ELSE IF Quiet THEN "no" ELSE "missed"
    /\ UNCHANGED <<faults, now, onboarded, relinked, row, rz, wire, pc, req>>

\* The handler fails before its commit.  The event stays claimed: delivered
\* again, it is a duplicate.
Crash(r) ==
    /\ "crash" \in faults
    /\ pc[r] # "idle"
    /\ Return(r)
    /\ UNCHANGED <<others, row, rz, wire>>

-----------------------------------------------------------------------------
(* Razorpay and the customer *)

remoteOnly == <<others, row, pc, req>>

Change(s, status, end) ==
    /\ "late" \in faults \/ Quiet
    /\ rz' = [rz EXCEPT ![s].status = status, ![s].end = end]
    /\ Send(s, status, end)
    /\ UNCHANGED remoteOnly

\* The customer signs the mandate in the browser.
Sign(s) ==
    /\ rz[s].status = "created" /\ rz[s].shown
    /\ IF rz[s].startAt > now THEN Change(s, "authenticated", 0)
       ELSE Change(s, "active", now + rz[s].cycle)

\* A charge is due: it succeeds, or is retried.
Charge(s) ==
    /\ \/ rz[s].status = "authenticated" /\ now >= rz[s].startAt
       \/ rz[s].status = "active" /\ now >= rz[s].end /\ ~rz[s].stops
    /\ Change(s, "active", now + rz[s].cycle) \/ Change(s, "pending", rz[s].end)

Retry(s) ==
    /\ rz[s].status = "pending"
    /\ Change(s, "active", now + rz[s].cycle) \/ Change(s, "halted", rz[s].end)

\* A subscription that was to stop at the end of its period stops.
CycleEnd(s) ==
    /\ rz[s].stops
    /\ rz[s].status \in {"authenticated", "active", "pending"}
    /\ now >= rz[s].end
    /\ Change(s, "cancelled", rz[s].end)

EndEarly(s) ==
    /\ "early" \in faults
    /\ rz[s].status \in {"authenticated", "active", "pending"}
    /\ Change(s, "cancelled", rz[s].end)

\* Requests are short; a day passes between them.
NextDay ==
    /\ Quiet
    /\ now < Horizon
    /\ now' = now + 1
    /\ UNCHANGED <<faults, row, rz, wire, pc, req, onboarded, sync, relinked>>

Deliverable(i) == i = 1 \/ "reorder" \in faults

Next ==
    \/ \E r \in Request :
        \/ BeginCheckout(r) \/ Refuse(r) \/ PassGuard(r) \/ Replace(r) \/ Insert(r)
        \/ Create(r) \/ CreateFails(r) \/ Write(r)
        \/ BeginCancel(r) \/ Stop(r) \/ Mark(r)
        \/ \E i \in DOMAIN wire : Deliverable(i) /\ Receive(r, i)
        \/ Judge(r) \/ Apply(r)
        \/ BeginOnboard(r) \/ Finish(r) \/ Crash(r)
    \/ \E i \in DOMAIN wire : Duplicate(i)
    \/ Sync
    \/ \E s \in Sub : Sign(s) \/ Charge(s) \/ Retry(s) \/ CycleEnd(s) \/ EndEarly(s)
    \/ NextDay

Spec == Init /\ [][Next]_vars

-----------------------------------------------------------------------------
(* Properties *)

\* "Trials are once per customer" (start_checkout): once there is a row, its
\* trial is never moved to a later day that is still to come.
TrialOnce ==
    [][row.made /\ row'.trialEnds > row.trialEnds => row'.trialEnds <= now]_vars

\* "a late redelivery cannot resurrect a period that has already advanced"
\* (webhooks.py): with events handled one at a time, in whatever order they
\* come and whatever fails, the period never goes back.
PeriodForward ==
    [][row.made /\ "overlap" \notin faults => row'.periodEnd >= row.periodEnd]_vars

Live(s) == rz[s].status \in {"authenticated", "active", "pending"}

\* "orphaning the first -- the risk the guard has always existed to prevent"
\* (start_checkout): every mandate that can be charged is the one the row
\* follows, when nothing overlaps, Razorpay answers, its events are not late and
\* none has moved the row back to a subscription a checkout replaced.
OneMandate ==
    faults \cap {"overlap", "late", "provider"} = {} /\ ~relinked =>
        \A s \in Sub : Live(s) => row.sub = s

\* The row mirrors Razorpay (models/billing.py) once the events are in: a
\* customer who signed is served as the subscription says.  Of two subscriptions
\* that live at once, or of one that ended early and its successor, the events of
\* one can hide those of the other.
Mirrors ==
    /\ Quiet
    /\ wire = <<>>
    /\ faults \subseteq {"again"} /\ ~relinked
    /\ row.sub # NoSub
    => LET s == rz[row.sub]
       IN s.status \in {"authenticated", "active", "pending", "halted"} =>
            row.status = s.status /\ row.periodEnd >= s.end

\* The row follows Razorpay: every mandate that can be charged is the one it
\* names, and it serves the customer as that subscription says.
FollowsRazorpay == OneMandate /\ Mirrors

\* "they complete in either order and only the second one matters"
\* (maybe_start_mail_sync): one at a time, once a paid subscription and the end
\* of onboarding are both in, the first sync is done or on its way, but for a
\* task that ran ahead of the commit of the request that queued it.
SyncStarts ==
    "overlap" \notin faults /\ onboarded /\ row.status \in {"active", "pending"}
        => sync \in {"queued", "done"} \/ (sync = "missed" /\ "hasty" \in faults)
=============================================================================
