------------------------------- MODULE Booking -------------------------------
(***************************************************************************)
(* Booking pages: services/scheduling/booking.py (create, cancel,          *)
(* reschedule), the availability re-check of services/scheduling/          *)
(* availability.py with its per-day cache, the exclusion constraint of     *)
(* models/scheduling.py and the host's Google calendar.                    *)
(*                                                                         *)
(* One host and one event type; bookings and calendars of different hosts  *)
(* share nothing.  Time is one day in ticks, and the cache is the entry of *)
(* that day.  Every request runs in a session of its own, reads its row    *)
(* once, and commits where the code does.                                  *)
(***************************************************************************)
EXTENDS Integers, FiniteSets

CONSTANTS
    Bookings,   \* rows of scheduling_bookings
    Request,    \* HTTP requests that may be in progress at once
    Slot,       \* the starts the host's hours offer (see Slots)
    Duration,   \* duration_minutes
    Pad,        \* buffer_before_minutes + buffer_after_minutes
    DayCap,     \* max_bookings_per_day
    HostTick,   \* ticks the host may fill with events of their own
    NoEvent,    \* no event on the calendar
    Uncached,   \* no busy entry in Redis
    Scenarios   \* the combinations of misfortunes the instance allows

\* "overlap"   a request arrives while another is in progress
\* "crash"     the API process dies in the middle of a request
\* "calendar"  a Google call fails, before or after it took effect
\* "redis"     the busy cache cannot be written or purged
\* "host"      the host adds events of their own
Fault == {"overlap", "crash", "calendar", "redis", "host"}

ASSUME TimeAssumption ==
    /\ Slot \subseteq Nat
    /\ HostTick \subseteq Nat
    /\ Duration \in Nat \ {0}
    /\ Pad \in Nat
    /\ DayCap \in Nat \ {0}
ASSUME NoEventAssumption == NoEvent \notin Slot
ASSUME BookingFaultAssumption == Scenarios \subseteq SUBSET Fault

VARIABLES
    faults,     \* the misfortunes that may occur, chosen once per behaviour
    status,     \* scheduling_bookings.status; "absent" before the insert
    start,      \* scheduling_bookings.starts_at
    recorded,   \* whether calendar_event_id is set
    calendar,   \* where each booking's event is on the Google calendar
    host,       \* ticks taken by events the host made
    cached,     \* the busy entry of the day in Redis
    pc,         \* where each request is
    req         \* what each request carries and has read

rowVars == <<faults, status, start, recorded>>
vars == <<faults, status, start, recorded, calendar, host, cached, pc, req>>

Status == {"absent", "pending", "confirmed", "cancelled", "failed"}
Step == {"idle", "look", "judge", "reserve", "call", "confirm", "fail",
         "withdraw", "mark", "patch"}

Ticks(s) == s .. (s + Duration - 1)
Overlap(s, t) == s < t + Duration /\ t < s + Duration

\* Mutant of Near: only the candidate is padded, and only on one side.
Near_OneSided(s) == s .. (s + Duration + Pad - 1)

\* What a slot needs to itself: buffers pad both sides of the comparison, the
\* meeting and the commitment beside it (slots.available_slots).
Near(s) == (s - Pad) .. (s + Duration + Pad - 1)

Live(b) == status[b] \in {"pending", "confirmed"}

\* calendar.list_events and the bounds of an event: those of bookings.
Listed == {b \in Bookings : calendar[b] # NoEvent}
EventTicks(b) == Ticks(calendar[b])

\* calendar.busy_windows: every timed event, whoever made it.
BusyNow == host \cup UNION {EventTicks(b) : b \in Listed}

Req == [op: {"none", "create", "cancel", "move"},
        b: Bookings \cup {NoEvent}, s: Slot \cup {NoEvent}, known: BOOLEAN,
        busy: SUBSET Int, fetched: BOOLEAN]
NoReq == [op |-> "none", b |-> NoEvent, s |-> NoEvent, known |-> FALSE,
          busy |-> {}, fetched |-> FALSE]

TypeOK ==
    /\ faults \subseteq Fault
    /\ status \in [Bookings -> Status]
    /\ start \in [Bookings -> Slot \cup {NoEvent}]
    /\ recorded \in [Bookings -> BOOLEAN]
    /\ calendar \in [Bookings -> Slot \cup {NoEvent}]
    /\ host \subseteq HostTick
    /\ cached \in {Uncached} \cup SUBSET Int
    /\ pc \in [Request -> Step]
    /\ \A b \in Bookings : status[b] # "absent" => start[b] \in Slot
    /\ req \in [Request -> Req]
    /\ \A r \in Request : pc[r] # "idle" =>
        /\ req[r].b \in Bookings
        /\ req[r].op # "cancel" => req[r].s \in Slot

Init ==
    /\ faults \in Scenarios
    /\ status = [b \in Bookings |-> "absent"]
    /\ start = [b \in Bookings |-> NoEvent]
    /\ recorded = [b \in Bookings |-> FALSE]
    /\ calendar = [b \in Bookings |-> NoEvent]
    /\ host = {}
    /\ cached = Uncached
    /\ pc = [r \in Request |-> "idle"]
    /\ req = [r \in Request |-> NoReq]

Goto(r, step) == pc' = [pc EXCEPT ![r] = step]

\* A request that is over forgets what it read.
Return(r) == Goto(r, "idle") /\ req' = [req EXCEPT ![r] = NoReq]

\* invalidate_busy: best effort.
Purge == \/ cached' = Uncached
         \/ "redis" \in faults /\ UNCHANGED cached

-----------------------------------------------------------------------------
(* Requests arrive *)

\* No request is in progress.
Quiet == \A r \in Request : pc[r] = "idle"

Start(r, op, b, s, step) ==
    /\ pc[r] = "idle"
    /\ "overlap" \in faults \/ Quiet
    /\ Goto(r, step)
    /\ req' = [req EXCEPT ![r] = [NoReq EXCEPT !.op = op, !.b = b, !.s = s,
                                               !.known = recorded[b]]]
    /\ UNCHANGED <<rowVars, calendar, host, cached>>

\* book: a guest asks for a slot; the row does not exist yet.
BeginCreate(r, b, s) ==
    /\ status[b] = "absent"
    /\ \A q \in Request : pc[q] # "idle" => req[q].b # b
    /\ Start(r, "create", b, s, "look")

\* cancel: the row is read once.
BeginCancel(r, b) ==
    /\ status[b] \in {"pending", "confirmed", "failed"}
    /\ Start(r, "cancel", b, NoEvent, IF recorded[b] THEN "withdraw" ELSE "mark")

\* Idempotent: cancelling a cancelled booking returns it unchanged.
CancelAgain(r, b) ==
    /\ pc[r] = "idle"
    /\ status[b] = "cancelled"
    /\ UNCHANGED vars

\* reschedule: the guest has the link, from the invitation or the confirmation.
BeginMove(r, b, s) ==
    /\ status[b] \in {"pending", "confirmed", "failed"}
    /\ status[b] = "confirmed" \/ calendar[b] # NoEvent
    /\ s # start[b]
    /\ Start(r, "move", b, s, "look")

-----------------------------------------------------------------------------
(* availability.is_bookable *)

\* _cached_days: what Redis holds of the day; nothing when it cannot be read.
CachedDay == {cached} \cup (IF "redis" \in faults THEN {Uncached} ELSE {})

\* busy_between: the cached day, or the calendar.
Look(r) ==
    /\ pc[r] = "look"
    /\ \E day \in CachedDay :
        req' = [req EXCEPT ![r].busy = IF day = Uncached THEN BusyNow ELSE day,
                           ![r].fetched = (day = Uncached)]
    /\ Goto(r, "judge")
    /\ UNCHANGED <<rowVars, calendar, host, cached>>

\* CalendarUnavailable: no answer is safe to give.
LookFails(r) ==
    /\ "calendar" \in faults
    /\ pc[r] = "look"
    /\ Uncached \in CachedDay
    /\ Return(r)
    /\ UNCHANGED <<rowVars, calendar, host, cached>>

\* The live bookings a request has to respect; a move ignores its own.
Others(r) == {b \in Bookings : Live(b) /\ ~(req[r].op = "move" /\ b = req[r].b)}

\* available_slots for the wanted start.
Offered(r) ==
    /\ Cardinality(Others(r)) < DayCap
    /\ Near(req[r].s) \cap (req[r].busy \cup UNION {Ticks(start[b]) : b \in Others(r)}) = {}

\* _store_days: what was fetched is cached, also if it was purged meanwhile.
Remember(r) ==
    \/ cached' = IF req[r].fetched THEN req[r].busy ELSE cached
    \/ "redis" \in faults /\ UNCHANGED cached

Accept(r) ==
    /\ pc[r] = "judge"
    /\ Offered(r)
    /\ Remember(r)
    /\ Goto(r, "reserve")
    /\ UNCHANGED <<rowVars, calendar, host, req>>

\* SlotTaken
Refuse(r) ==
    /\ pc[r] = "judge"
    /\ ~Offered(r)
    /\ Remember(r)
    /\ Return(r)
    /\ UNCHANGED <<rowVars, calendar, host>>

-----------------------------------------------------------------------------
(* create *)

\* Mutant of Admits: uniqueness of (user, start) rather than range exclusion.
Admits_SameStart(b, s) == \A c \in Bookings \ {b} : Live(c) => s # start[c]

\* The exclusion constraint no_overlap, for b as a live booking at s.
Admits(b, s) == \A c \in Bookings \ {b} : Live(c) => ~Overlap(s, start[c])

\* The insert as pending, committed before Google is called.
Reserve(r) ==
    /\ pc[r] = "reserve"
    /\ req[r].op = "create"
    /\ Admits(req[r].b, req[r].s)
    /\ status' = [status EXCEPT ![req[r].b] = "pending"]
    /\ start' = [start EXCEPT ![req[r].b] = req[r].s]
    /\ Purge
    /\ Goto(r, "call")
    /\ UNCHANGED <<faults, recorded, calendar, host, req>>

\* IntegrityError: somebody else was faster.
Outrun(r) ==
    /\ pc[r] = "reserve"
    /\ ~Admits(req[r].b, req[r].s)
    /\ req[r].op = "create" \/ Live(req[r].b)
    /\ Return(r)
    /\ UNCHANGED <<rowVars, calendar, host, cached>>

\* calendar.create_event
PutOnCalendar(r) ==
    /\ pc[r] = "call"
    /\ \/ Goto(r, "confirm") /\ calendar' = [calendar EXCEPT ![req[r].b] = req[r].s]
       \/ /\ "calendar" \in faults
          /\ Goto(r, "fail")
          /\ calendar' \in {calendar, [calendar EXCEPT ![req[r].b] = req[r].s]}
    /\ UNCHANGED <<rowVars, host, cached, req>>

\* Mutant of Confirm: the outcome is left to the end of the request, and lost.
Confirm_NotCommitted(r) ==
    /\ pc[r] = "confirm"
    /\ Return(r)
    /\ UNCHANGED <<rowVars, calendar, host, cached>>

\* The outcome, written whatever the row has become; the constraint still holds.
Confirm(r) ==
    /\ pc[r] = "confirm"
    /\ IF Admits(req[r].b, start[req[r].b])
       THEN /\ status' = [status EXCEPT ![req[r].b] = "confirmed"]
            /\ recorded' = [recorded EXCEPT ![req[r].b] = TRUE]
       ELSE UNCHANGED <<status, recorded>>
    /\ Return(r)
    /\ UNCHANGED <<faults, start, calendar, host, cached>>

\* CalendarFailed: the outcome is committed, then reported.
Fail(r) ==
    /\ pc[r] = "fail"
    /\ status' = [status EXCEPT ![req[r].b] = "failed"]
    /\ Return(r)
    /\ UNCHANGED <<faults, start, recorded, calendar, host, cached>>

-----------------------------------------------------------------------------
(* cancel *)

\* calendar.delete_event; a failure is logged and the cancellation goes on.
Withdraw(r) ==
    /\ pc[r] = "withdraw"
    /\ \/ calendar' = [calendar EXCEPT ![req[r].b] = NoEvent]
       \/ "calendar" \in faults /\ UNCHANGED calendar
    /\ Goto(r, "mark")
    /\ UNCHANGED <<rowVars, host, cached, req>>

MarkCancelled(r) ==
    /\ pc[r] = "mark"
    /\ status' = [status EXCEPT ![req[r].b] = "cancelled"]
    /\ Purge
    /\ Return(r)
    /\ UNCHANGED <<faults, start, recorded, calendar, host>>

-----------------------------------------------------------------------------
(* reschedule *)

\* The row moves.  Only a live booking is held to the constraint.
Move(r) ==
    /\ pc[r] = "reserve"
    /\ req[r].op = "move"
    /\ Live(req[r].b) => Admits(req[r].b, req[r].s)
    /\ start' = [start EXCEPT ![req[r].b] = req[r].s]
    /\ Purge
    /\ IF req[r].known THEN Goto(r, "patch") /\ UNCHANGED req ELSE Return(r)
    /\ UNCHANGED <<faults, status, recorded, calendar, host>>

\* calendar.update_event; an event that is gone, or a failure, is logged.
Patch(r) ==
    /\ pc[r] = "patch"
    /\ \/ calendar' = [calendar EXCEPT ![req[r].b] = IF @ = NoEvent THEN @ ELSE req[r].s]
       \/ "calendar" \in faults /\ UNCHANGED calendar
    /\ Return(r)
    /\ UNCHANGED <<rowVars, host, cached>>

-----------------------------------------------------------------------------
(* The world *)

Crash(r) ==
    /\ "crash" \in faults
    /\ pc[r] # "idle"
    /\ Return(r)
    /\ UNCHANGED <<rowVars, calendar, host, cached>>

\* The host adds an event of their own.
HostBooks(t) ==
    /\ "host" \in faults
    /\ t \notin host
    /\ host' = host \cup {t}
    /\ UNCHANGED <<rowVars, calendar, cached, pc, req>>

\* BUSY_CACHE_SECONDS
CacheExpires ==
    /\ cached # Uncached
    /\ cached' = Uncached
    /\ UNCHANGED <<rowVars, calendar, host, pc, req>>

Proceed(r) ==
    \/ Look(r) \/ Accept(r) \/ Refuse(r)
    \/ Reserve(r) \/ Outrun(r) \/ PutOnCalendar(r) \/ Confirm(r) \/ Fail(r)
    \/ Withdraw(r) \/ MarkCancelled(r)
    \/ Move(r) \/ Patch(r)

Begin(r) ==
    \E b \in Bookings :
        \/ BeginCancel(r, b) \/ CancelAgain(r, b)
        \/ \E s \in Slot : BeginCreate(r, b, s) \/ BeginMove(r, b, s)

Next ==
    \/ \E r \in Request : Begin(r) \/ Proceed(r) \/ LookFails(r) \/ Crash(r)
    \/ \E t \in HostTick : HostBooks(t)
    \/ CacheExpires

Spec == Init /\ [][Next]_vars

-----------------------------------------------------------------------------
(* Properties *)

\* Live bookings never overlap, whoever books, cancels, moves or is confirmed
\* at the same time (models/scheduling.SchedulingBooking, no_overlap).
NoDoubleBooking ==
    \A b, c \in Bookings : Live(b) /\ Live(c) /\ b # c => ~Overlap(start[b], start[c])

\* Booking implements the ledger of held slots.
Ledger == INSTANCE SlotLedger WITH
    Booking <- Bookings, NoSlot <- NoEvent,
    held <- [b \in Bookings |-> IF Live(b) THEN start[b] ELSE NoEvent]
LedgerSpec == Ledger!Spec

Cancelling(b) == \E r \in Request : pc[r] # "idle" /\ req[r].op = "cancel" /\ req[r].b = b

\* The meeting a guest was told is confirmed is on the calendar, until somebody
\* cancels it.
ConfirmedIsOnCalendar ==
    "crash" \notin faults =>
        \A b \in Bookings :
            status[b] = "confirmed" /\ ~Cancelling(b) => calendar[b] # NoEvent

\* A slot is not held by an undecided booking for ever (booking.create: "then
\* commit the outcome either way"): while no worker dies, a pending booking has
\* a request that is about to decide it.
PendingInHand ==
    "crash" \notin faults =>
        \A b \in Bookings : status[b] = "pending" =>
            \E r \in Request : pc[r] \in {"call", "confirm", "fail"} /\ req[r].b = b

\* With one request at a time and Google answering, the calendar shows what the
\* rows say when the request is over: a confirmed meeting where it is, and no
\* cancelled one.
CalendarAgrees ==
    Quiet /\ faults \subseteq {"redis", "host"} =>
        \A b \in Bookings :
            /\ status[b] = "confirmed" => calendar[b] = start[b]
            /\ status[b] = "cancelled" => calendar[b] = NoEvent

\* "A buffer is protection against any adjacent commitment"
\* (slots.available_slots): with one request at a time, live bookings keep it
\* between them.
BuffersKept ==
    "overlap" \notin faults =>
        \A b, c \in Bookings : Live(b) /\ Live(c) /\ b # c =>
            \/ start[b] + Duration + Pad <= start[c]
            \/ start[c] + Duration + Pad <= start[b]
=============================================================================
