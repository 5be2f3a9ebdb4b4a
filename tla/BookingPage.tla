----------------------------- MODULE BookingPage -----------------------------
(***************************************************************************)
(* The page around a booking (api/v1/scheduling_public.py,                 *)
(* api/v1/scheduling.py): the host's weekly hours and the override of the  *)
(* day, the meeting type being switched off or deleted, guests who look at *)
(* the free times, and the letters that tell a guest what became of the    *)
(* meeting (services/scheduling/notifications.py).                         *)
(*                                                                         *)
(* Every step of Booking is a step here with what the page adds to it.     *)
(* Notice and horizon are not modelled: the day is far enough away.        *)
(* confirmation_email is on, as it is by default.  A deleted meeting type  *)
(* is not created again.                                                   *)
(***************************************************************************)
EXTENDS Booking

CONSTANTS
    Hours,      \* what weekly_hours may offer of the day, as sets of starts
    Usual,      \* the day has no override
    NoView,     \* nobody is looking at the page
    CalledOff,  \* what a cancellation letter says
    PageScenarios

\* "view"      guests look at the free times
\* "hours"     the host edits the weekly hours and the override of the day
\* "type"      the host edits the meeting type
\* "mail"      Gmail does not send a letter
PageFault == {"view", "hours", "type", "mail"}

ASSUME PageAssumption ==
    /\ Hours \subseteq SUBSET Slot
    /\ PageScenarios \subseteq SUBSET (Fault \cup PageFault)

VARIABLES
    ways,       \* the part of the scenario Booking does not know
    weekly,     \* the starts weekly_hours offers on this day
    override,   \* the starts of the date override, or Usual
    kind,       \* the meeting type: "open", "disabled" or "deleted"
    viewing,    \* what a page view fetched and has not stored yet
    told        \* the last letter sent to the guest of each booking

\* What the host may set the meeting type and the day to.
EventType == {"open", "disabled", "deleted"}
DateOverride == Hours \cup {Usual}

hostVars == <<ways, weekly, override, kind>>
pageVars == <<ways, weekly, override, kind, viewing, told>>
allVars == <<vars, pageVars>>

PageTypeOK ==
    /\ TypeOK
    /\ ways \subseteq PageFault
    /\ weekly \in Hours
    /\ override \in DateOverride
    /\ kind \in EventType
    /\ viewing \in {NoView} \cup SUBSET Int
    /\ told \in [Bookings -> Slot \cup {NoEvent, CalledOff}]

PageInit ==
    /\ Init
    /\ \E s \in PageScenarios : faults = s \ PageFault /\ ways = s \cap PageFault
    /\ weekly = Slot /\ weekly \in Hours
    /\ override = Usual
    /\ kind = "open"
    /\ viewing = NoView
    /\ told = [b \in Bookings |-> NoEvent]

-----------------------------------------------------------------------------
(* The host's settings *)

\* windows_for: an override replaces the weekly pattern, an empty one is a day off.
Windows == IF override = Usual THEN weekly ELSE override

\* The host saves something; the save purges the busy cache.
Saves(what) ==
    /\ what \in ways
    /\ Purge
    /\ UNCHANGED <<rowVars, calendar, host, pc, req, ways, viewing, told>>

UpdateHours(w) == Saves("hours") /\ w # weekly /\ weekly' = w /\ UNCHANGED <<override, kind>>

UpsertOverride(w) == Saves("hours") /\ w # override /\ override' = w /\ UNCHANGED <<weekly, kind>>

DeleteOverride ==
    /\ override # Usual
    /\ Saves("hours")
    /\ override' = Usual
    /\ UNCHANGED <<weekly, kind>>

\* Of what the host can change about a meeting type, whether it is enabled; its
\* duration, buffers, notice and day cap stay as they are.
UpdateEventType(k) ==
    /\ {kind, k} = {"open", "disabled"}
    /\ Saves("type")
    /\ kind' = k
    /\ UNCHANGED <<weekly, override>>

\* Bookings survive, with event_type_id set to NULL.
DeleteEventType ==
    /\ "type" \in ways
    /\ kind # "deleted"
    /\ kind' = "deleted"
    /\ UNCHANGED <<vars, ways, weekly, override, viewing, told>>

-----------------------------------------------------------------------------
(* Letters *)

\* notifications.send: a letter that Gmail does not take is given up on.
Unsent == "mail" \in ways /\ UNCHANGED told

\* _notify: the letter is queued, or sent at once when the queue is down.
Tell(b, what) == told' = [told EXCEPT ![b] = what] \/ Unsent

\* Mutant of Moved: the letter is written from the time the booking had before.
Moved_OldTime(r) ==
    \/ /\ Move(r)
       /\ IF req[r].known THEN UNCHANGED told ELSE Tell(req[r].b, start[req[r].b])
    \/ Patch(r) /\ Tell(req[r].b, IF calendar[req[r].b] = NoEvent THEN req[r].s ELSE calendar[req[r].b])

\* reschedule ends with a letter, after the calendar when there is an event.
Moved(r) ==
    \/ Move(r) /\ (IF req[r].known THEN UNCHANGED told ELSE Tell(req[r].b, req[r].s))
    \/ Patch(r) /\ Tell(req[r].b, req[r].s)

\* create writes to the guest once the confirmation is committed.
Confirmed(r) ==
    /\ Confirm(r)
    /\ IF Admits(req[r].b, start[req[r].b])
       THEN Tell(req[r].b, start[req[r].b])
       ELSE UNCHANGED told

Cancelled(r) == MarkCancelled(r) /\ Tell(req[r].b, CalledOff)

-----------------------------------------------------------------------------
(* Requests *)

\* A booking page exists for an enabled type, and a move for one that exists.
Arrives(r) ==
    \E b \in Bookings :
        \/ BeginCancel(r, b) \/ CancelAgain(r, b)
        \/ \E s \in Slot :
            \/ kind = "open" /\ BeginCreate(r, b, s)
            \/ kind # "deleted" /\ BeginMove(r, b, s)

\* The wanted time is no longer among the day's windows.
OutOfHours(r) ==
    /\ pc[r] = "judge"
    /\ req[r].s \notin Windows
    /\ Remember(r)
    /\ Return(r)
    /\ UNCHANGED <<rowVars, calendar, host>>

\* The foreign key: the type was deleted since the request read it.
TypeGone(r) ==
    /\ pc[r] = "reserve"
    /\ req[r].op = "create"
    /\ kind = "deleted"
    /\ Return(r)
    /\ UNCHANGED <<rowVars, calendar, host, cached>>

\* What a request does that sends no letter.
Silent(r) ==
    \/ Look(r) \/ LookFails(r) \/ Refuse(r) \/ OutOfHours(r)
    \/ req[r].s \in Windows /\ Accept(r)
    \/ kind # "deleted" /\ Reserve(r)
    \/ TypeGone(r) \/ Outrun(r) \/ PutOnCalendar(r) \/ Fail(r) \/ Withdraw(r)
    \/ Crash(r)

-----------------------------------------------------------------------------
(* Guests look *)

\* What a view fetches when the day is not cached.
Fetch ==
    /\ "view" \in ways
    /\ viewing = NoView
    /\ cached = Uncached
    /\ viewing' = BusyNow
    /\ UNCHANGED <<vars, hostVars, told>>

ViewPage == kind = "open" /\ Fetch

\* The times a booking could move to.
ViewOtherTimes(b) == status[b] # "absent" /\ kind # "deleted" /\ Fetch

\* The view stores the day it fetched, whatever has happened since.
ViewDone ==
    /\ viewing # NoView
    /\ viewing' = NoView
    /\ \/ cached' = viewing
       \/ "redis" \in faults /\ UNCHANGED cached
    /\ UNCHANGED <<rowVars, calendar, host, pc, req, hostVars, told>>

PageNext ==
    \/ \E r \in Request :
        \/ (Arrives(r) \/ Silent(r)) /\ UNCHANGED pageVars
        \/ (Confirmed(r) \/ Cancelled(r) \/ Moved(r)) /\ UNCHANGED <<hostVars, viewing>>
    \/ (CacheExpires \/ \E t \in HostTick : HostBooks(t)) /\ UNCHANGED pageVars
    \/ \E w \in Hours : UpdateHours(w) \/ UpsertOverride(w)
    \/ DeleteOverride \/ DeleteEventType
    \/ \E k \in {"open", "disabled"} : UpdateEventType(k)
    \/ ViewPage \/ ViewDone \/ \E b \in Bookings : ViewOtherTimes(b)

PageSpec == PageInit /\ [][PageNext]_allVars

-----------------------------------------------------------------------------
(* Properties *)

\* The guest of a meeting was told where it is, or that it is off: with one
\* request at a time and Google answering, the last letter says what the row
\* says (booking.create, cancel and reschedule each end in one).
GuestKnows ==
    Quiet /\ faults \subseteq {"redis", "host"} /\ "mail" \notin ways =>
        \A b \in Bookings :
            /\ status[b] = "confirmed" => told[b] = start[b]
            /\ status[b] = "cancelled" => told[b] = CalledOff

\* Row, calendar and guest agree: what a guest was told is confirmed is on the
\* calendar until somebody cancels it, and with one request at a time the
\* calendar and the last letter say what the row says.
EverybodyAgrees == ConfirmedIsOnCalendar /\ CalendarAgrees /\ GuestKnows
=============================================================================
