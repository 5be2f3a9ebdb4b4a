------------------------------- MODULE Delivery -------------------------------
(***************************************************************************)
(* Mailman's delivery: the beat task of workers/jobs/mailman_tick.py with  *)
(* the slot and Do-Not-Disturb arithmetic of services/mailman/scheduler.py *)
(* and the batches of services/mailman/gmail_ops.py.                       *)
(*                                                                         *)
(* One user.  Time is the minute of the day in the user's timezone.  The   *)
(* filter that holds the mail is HoldFilter's; here mail that arrives      *)
(* while Mailman is active may be held.  A tick serves all users and       *)
(* commits their stamps together, so the stamp may come long after the     *)
(* mail was released.                                                      *)
(***************************************************************************)
EXTENDS Integers, FiniteSets

CONSTANTS
    Mail,              \* messages, each arriving at most once
    Day,               \* minutes in a day
    Schedules,         \* the settings the user chooses between
    Job,               \* ticks that may run at once
    Batch,             \* held_message_ids max_results
    Far,               \* minutes after which the time since a delivery stops mattering
    DeliveryScenarios  \* the combinations of misfortunes the instance allows

\* "slow"   a tick takes longer than a minute
\* "late"   no tick runs in some minute
\* "gmail"  a Gmail call of a tick fails
\* "crash"  the worker dies in the middle of a tick
Fault == {"slow", "late", "gmail", "crash"}

Minute == 0 .. (Day - 1)

\* mailman_settings: interval_minutes, times_per_day with its active window,
\* custom_times, and the DND window, which is off when it is empty.
Schedule == [mode: {"interval", "times", "custom_daily"}, interval: 0 .. Far,
             times: Nat, from: Minute, to: Minute, custom: SUBSET Minute,
             dndFrom: Minute, dndTo: Minute]

ASSUME DeliveryAssumption ==
    /\ Day \in Nat \ {0}
    /\ Batch \in Nat \ {0}
    /\ Far \in Nat /\ Far >= 2
    /\ Schedules \subseteq Schedule
    /\ DeliveryScenarios \subseteq SUBSET Fault

VARIABLES
    misfortunes,  \* the misfortunes that may occur
    clock,        \* the minute of the day
    ticked,       \* whether the beat's tick of this minute has run
    is_active,    \* mailman_settings.is_active
    schedule,     \* the rest of mailman_settings
    since,        \* minutes since last_delivery_at, Far when none or long ago
    mail,         \* where each message is
    job,          \* the ticks in progress
    shown         \* minutes since a tick last put mail into the inbox

settings == <<is_active, schedule>>
deliveryVars == <<misfortunes, clock, ticked, is_active, schedule, since, mail, job, shown>>

Task == [pc: {"idle", "look", "release", "stamp"}, schedule: Schedules,
         age: 0 .. Far, ids: SUBSET Mail]

\* "labelled": in the inbox, with the holding label still on
Place == {"absent", "held", "labelled", "inbox"}

DeliveryTypeOK ==
    /\ misfortunes \subseteq Fault
    /\ clock \in Minute
    /\ ticked \in BOOLEAN
    /\ is_active \in BOOLEAN
    /\ schedule \in Schedules
    /\ since \in 0 .. Far
    /\ mail \in [Mail -> Place]
    /\ job \in [Job -> Task]
    /\ shown \in 0 .. Far

AnySchedule == CHOOSE s \in Schedules : TRUE
Idle == [pc |-> "idle", schedule |-> AnySchedule, age |-> 0, ids |-> {}]

DeliveryInit ==
    /\ misfortunes \in DeliveryScenarios
    /\ clock = 0
    /\ ticked = FALSE
    /\ is_active = FALSE
    /\ schedule \in Schedules
    /\ since = Far
    /\ mail = [m \in Mail |-> "absent"]
    /\ job = [j \in Job |-> Idle]
    /\ shown = Far

\* What wears the holding label.
Held == {m \in Mail : mail[m] \in {"held", "labelled"}}

-----------------------------------------------------------------------------
(* scheduler.py *)

\* slot_minutes
SlotMinutes(s) ==
    LET span == s.to - s.from
    IN CASE s.mode = "custom_daily" -> s.custom
         [] s.mode = "times" /\ s.times = 0 -> {}
         [] s.mode = "times" /\ (s.times = 1 \/ (s.times > 0 /\ span <= 0)) -> {s.from}
         [] s.mode = "times" /\ s.times > 1 /\ span > 0 ->
                {s.from + i * (span \div s.times) : i \in 0 .. (s.times - 1)}
         [] OTHER -> {}

\* Mutant of InDnd: a window that wraps past midnight is never entered.
InDnd_NoWrap(s, now) == s.dndFrom <= now /\ now < s.dndTo

\* in_dnd: the window may wrap past midnight.
InDnd(s, now) ==
    \/ s.dndFrom < s.dndTo /\ s.dndFrom <= now /\ now < s.dndTo
    \/ s.dndFrom > s.dndTo /\ (now >= s.dndFrom \/ now < s.dndTo)

\* is_delivery_due
DeliveryDue(s, now, gap) ==
    /\ ~InDnd(s, now)
    /\ IF s.mode = "interval"
       THEN s.interval > 0 /\ gap >= s.interval
       ELSE now \in SlotMinutes(s)

-----------------------------------------------------------------------------
(* mailman_tick *)

Become(j, step) == job' = [job EXCEPT ![j].pc = step]

Done(j) == job' = [job EXCEPT ![j] = Idle]

\* "Don't fire twice for the same minute-granular slot": 90 seconds.
TooSoon == since < 2

\* Mutant of TickBegin: the slot is stamped before it is known to be due.
TickBegin_StampsAlways(j) ==
    /\ ~ticked
    /\ job[j].pc = "idle"
    /\ ticked' = TRUE
    /\ since' = IF is_active /\ ~TooSoon THEN 0 ELSE since
    /\ IF is_active /\ ~TooSoon /\ DeliveryDue(schedule, clock, since)
       THEN job' = [job EXCEPT ![j] = [pc |-> "look", schedule |-> schedule,
                                       age |-> 0, ids |-> {}]]
       ELSE UNCHANGED job
    /\ UNCHANGED <<misfortunes, clock, settings, mail, shown>>

\* list_active_settings, and the decision for this user.
TickBegin(j) ==
    /\ ~ticked
    /\ job[j].pc = "idle"
    /\ ticked' = TRUE
    /\ IF is_active /\ ~TooSoon /\ DeliveryDue(schedule, clock, since)
       THEN job' = [job EXCEPT ![j] = [pc |-> "look", schedule |-> schedule,
                                       age |-> 0, ids |-> {}]]
       ELSE UNCHANGED job
    /\ UNCHANGED <<misfortunes, clock, settings, since, mail, shown>>

\* held_message_ids: as many as one page holds.
TickLook(j) ==
    /\ job[j].pc = "look"
    /\ \E ids \in SUBSET Held :
        /\ Cardinality(ids) = Batch \/ (ids = Held /\ Cardinality(ids) <= Batch)
        /\ job' = [job EXCEPT ![j].ids = ids,
                              ![j].pc = IF ids = {} THEN "stamp" ELSE "release"]
    /\ UNCHANGED <<misfortunes, clock, ticked, settings, since, mail, shown>>

\* The lookup raised: this user is skipped, and not stamped.
TickLookFails(j) ==
    /\ "gmail" \in misfortunes
    /\ job[j].pc = "look"
    /\ Done(j)
    /\ UNCHANGED <<misfortunes, clock, ticked, settings, since, mail, shown>>

\* gmail_ops.release: the batch goes to the inbox and loses the holding label,
\* unless resolve_label_id could not list the labels to find its id.
TickRelease(j) ==
    /\ job[j].pc = "release"
    /\ \E place \in {"inbox"} \cup (IF "gmail" \in misfortunes THEN {"labelled"} ELSE {}) :
          mail' = [m \in Mail |-> IF m \in job[j].ids THEN place ELSE mail[m]]
    /\ shown' = 0
    /\ Become(j, "stamp")
    /\ UNCHANGED <<misfortunes, clock, ticked, settings, since>>

\* The release raised: the stamp stays.
TickReleaseFails(j) ==
    /\ "gmail" \in misfortunes
    /\ job[j].pc = "release"
    /\ Become(j, "stamp")
    /\ UNCHANGED <<misfortunes, clock, ticked, settings, since, mail, shown>>

\* Mutant of TickStamp: the session is closed without a commit.
TickStamp_NotCommitted(j) ==
    /\ job[j].pc = "stamp"
    /\ Done(j)
    /\ UNCHANGED <<misfortunes, clock, ticked, settings, since, mail, shown>>

\* last_delivery_at is the instant the tick began.
TickStamp(j) ==
    /\ job[j].pc = "stamp"
    /\ since' = job[j].age
    /\ Done(j)
    /\ UNCHANGED <<misfortunes, clock, ticked, settings, mail, shown>>

\* The session is lost with its stamps.
TickCrash(j) ==
    /\ "crash" \in misfortunes
    /\ job[j].pc # "idle"
    /\ Done(j)
    /\ UNCHANGED <<misfortunes, clock, ticked, settings, since, mail, shown>>

-----------------------------------------------------------------------------
(* The world *)

Older(n) == IF n = Far THEN Far ELSE n + 1

\* The beat sends one tick a minute.
NextMinute ==
    /\ ticked \/ "late" \in misfortunes
    /\ "slow" \in misfortunes \/ \A j \in Job : job[j].pc = "idle"
    /\ clock' = (clock + 1) % Day
    /\ ticked' = FALSE
    /\ since' = Older(since)
    /\ shown' = Older(shown)
    /\ job' = [j \in Job |-> IF job[j].pc = "idle" THEN Idle
                             ELSE [job[j] EXCEPT !.age = Older(@)]]
    /\ UNCHANGED <<misfortunes, settings, mail>>

\* Mail is held while Mailman is active, unless the sender is a VIP.
Arrive(m) ==
    /\ mail[m] = "absent"
    /\ mail' \in {[mail EXCEPT ![m] = w] : w \in IF is_active THEN {"held", "inbox"} ELSE {"inbox"}}
    /\ UNCHANGED <<misfortunes, clock, ticked, settings, since, job, shown>>

\* start and stop, without the filter (HoldFilter).
Toggle ==
    /\ is_active' = ~is_active
    /\ UNCHANGED <<misfortunes, clock, ticked, schedule, since, mail, job, shown>>

\* update_settings and set_routine
UpdateSettings(s) ==
    /\ s # schedule
    /\ schedule' = s
    /\ UNCHANGED <<misfortunes, clock, ticked, is_active, since, mail, job, shown>>

Tick(j) ==
    \/ TickBegin(j) \/ TickLook(j) \/ TickRelease(j) \/ TickStamp(j)

DeliveryNext ==
    \/ \E j \in Job : Tick(j) \/ TickLookFails(j) \/ TickReleaseFails(j) \/ TickCrash(j)
    \/ NextMinute
    \/ \E m \in Mail : Arrive(m)
    \/ Toggle
    \/ \E s \in Schedules : UpdateSettings(s)

\* Minutes pass, the beat sends a tick in each, and a worker runs it to the end.
DeliverySpec ==
    /\ DeliveryInit /\ [][DeliveryNext]_deliveryVars
    /\ WF_deliveryVars(NextMinute)
    /\ \A j \in Job : WF_deliveryVars(Tick(j))

-----------------------------------------------------------------------------
(* Properties *)

\* The schedule has a delivery slot outside Do-Not-Disturb.
Opens(s) ==
    \E now \in Minute : ~InDnd(s, now) /\ DeliveryDue(s, now, Far)

\* Held mail reaches the inbox at a slot (mailman_tick): once the user leaves
\* an active Mailman alone with a schedule that ever opens, nothing stays held,
\* although a tick takes one page and may run into the next minute.
HeldIsReleased ==
    \A s \in Schedules :
        <>[](misfortunes \subseteq {"slow"} /\ is_active /\ schedule = s /\ Opens(s))
            => \A m \in Mail : []<>(mail[m] # "held")

\* "Don't fire twice for the same minute-granular slot" (mailman_tick): unless
\* a tick overruns its minute or dies, two batches are more than a minute
\* apart, and at least the interval in interval mode.
BatchesApart ==
    [][\A j \in Job : TickRelease(j) /\ misfortunes \cap {"slow", "crash"} = {} =>
        /\ shown >= 2
        /\ job[j].schedule.mode = "interval" => shown >= job[j].schedule.interval]_deliveryVars

\* "DND suppresses all of the above" (is_delivery_due): no batch reaches the
\* inbox in the quiet hours it was judged by, unless the tick overran its minute.
QuietHoursKept ==
    [][\A j \in Job : TickRelease(j) /\ "slow" \notin misfortunes =>
        LET s == job[j].schedule
        IN ~(IF s.dndFrom <= s.dndTo THEN clock \in s.dndFrom .. (s.dndTo - 1)
             ELSE clock \notin s.dndTo .. (s.dndFrom - 1))]_deliveryVars
=============================================================================
