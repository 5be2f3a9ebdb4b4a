------------------------------ MODULE Notetaker ------------------------------
(***************************************************************************)
(* The notetaker of one calendar event or pasted link: the row of          *)
(* meetings, the bots at the provider, the sweep and join_now of           *)
(* workers/jobs/meetings_sweep.py, the routes of api/v1/meetings.py, the   *)
(* callbacks of api/v1/webhooks.py and workers/jobs/process_meeting.py     *)
(* with services/meetings/pipeline.py.                                     *)
(*                                                                         *)
(* Every task, request and callback has a database session of its own: it  *)
(* reads the row once, flushes and commits the columns it changed, and     *)
(* from its first flush to its end nobody else can write the row.  Media   *)
(* that users upload and retention are in MeetingMedia.                    *)
(***************************************************************************)
EXTENDS Integers, Sequences, FiniteSets

CONSTANTS
    Bot,        \* bots the provider may create
    Session,    \* tasks, requests and callbacks being handled at once
    NoBot,      \* bot_id is None
    NoSession,  \* nobody holds the row
    MaxRow,     \* bound on the rows one event has over its life
    MaxTurn,    \* bound on the user's requests
    MaxJob,     \* bound on the tasks queued
    MaxWire,    \* bound on the callbacks under way
    Retries,    \* max_retries of process_meeting
    Scenarios   \* the combinations of circumstances the instance allows

\* "overlap"   sessions run at the same time
\* "provider"  a call to the provider fails
\* "again"     a callback is delivered again
\* "reorder"   callbacks arrive in another order than they were sent
\* "crash"     a session dies before its commit
\* "twice"     the user enables a meeting that has its bot
\* "link"      the meeting is a pasted link and not an event of the calendar
\* "quota"     the plan has bot-seconds for one meeting
Circumstance == {"overlap", "provider", "again", "reorder", "crash", "twice", "link", "quota"}

ASSUME NotetakerAssumption ==
    /\ NoBot \notin Bot
    /\ NoSession \notin Session
    /\ MaxRow \in Nat \ {0} /\ MaxTurn \in Nat /\ MaxJob \in Nat /\ MaxWire \in Nat /\ Retries \in Nat
    /\ Scenarios \subseteq SUBSET Circumstance

VARIABLES
    faults,   \* the circumstances of this behaviour
    event,    \* the calendar: the user's rules let a bot attend, or skip it, or it is gone
    clock,    \* how far the meeting is
    row,      \* the row of meetings
    born,     \* rows made so far, each with an id of its own
    bots,     \* the bots at the provider
    wire,     \* callbacks sent and not yet answered
    jobs,     \* tasks queued
    pc,       \* where each session is
    ses,      \* what each session has read and is about to write
    lock,     \* the session that has flushed a change of the row
    turn,     \* user requests so far
    mailed,   \* recaps sent for each row
    metered,  \* times the bot's seconds were added for each row
    spared    \* bots that a deletion of their meeting left alone

vars == <<faults, event, clock, row, born, bots, wire, jobs, pc, ses,
          lock, turn, mailed, metered, spared>>
world == <<faults, event, clock>>
counts == <<turn, mailed, metered, spared>>

Status == {"pending", "scheduled", "joining", "recording", "ended", "recorded",
           "processed", "delivered", "failed", "cancelled"}
ActiveStatuses == {"scheduled", "joining", "recording", "ended"}
BotLockedStatuses == {"recording", "ended", "recorded", "processed", "delivered"}
TerminalStatuses == {"processed", "delivered"}

\* id 0 is no row; text is a stored transcript, timed a stored duration and
\* recapped a stored recap_sent_at.
Row == [id: 0 .. MaxRow, status: Status, bot: Bot \cup {NoBot},
        text: BOOLEAN, timed: BOOLEAN, recapped: BOOLEAN]
NoRow == [id |-> 0, status |-> "pending", bot |-> NoBot,
          text |-> FALSE, timed |-> FALSE, recapped |-> FALSE]

BotState == {"absent", "waiting", "joining", "recording", "left", "done",
             "failed", "deleted"}
Remote == [state: BotState, meeting: 0 .. MaxRow, heard: BOOLEAN]
Callback == [bot: Bot, status: Status, seen: BOOLEAN]
Job == [op: {"join", "process"}, id: 1 .. MaxRow, tries: 0 .. Retries]

Op == {"none", "sweep", "join", "enable", "upload", "cancel", "delete", "callback", "process"}
Step == {"idle", "flush", "book", "recall", "queue", "stop", "fetch", "send", "commit"}

\* here: the sweep saw the event on the calendar; tries: of the task.
Ses == [op: Op, seen: Row, new: Row, here: BOOLEAN, tries: 0 .. Retries]
NoSes == [op |-> "none", seen |-> NoRow, new |-> NoRow, here |-> FALSE, tries |-> 0]

TypeOK ==
    /\ faults \subseteq Circumstance
    /\ event \in {"attend", "skip", "gone"}
    /\ clock \in 0 .. 3
    /\ row \in Row
    /\ born \in 0 .. MaxRow
    /\ bots \in [Bot -> Remote]
    /\ wire \in Seq(Callback)
    /\ jobs \in Seq(Job)
    /\ pc \in [Session -> Step]
    /\ ses \in [Session -> Ses]
    /\ lock \in Session \cup {NoSession}
    /\ turn \in 0 .. MaxTurn
    /\ mailed \in [1 .. MaxRow -> Nat]
    /\ metered \in [1 .. MaxRow -> Nat]
    /\ spared \subseteq Bot

Calendar == "link" \notin faults

\* A pasted link carries the moment it was pasted, so it has always started.
Init ==
    /\ faults \in Scenarios
    /\ event = IF Calendar THEN "attend" ELSE "gone"
    /\ clock = IF Calendar THEN 0 ELSE 2
    /\ row = NoRow
    /\ born = 0
    /\ bots = [b \in Bot |-> [state |-> "absent", meeting |-> 0, heard |-> FALSE]]
    /\ wire = <<>>
    /\ jobs = <<>>
    /\ pc = [s \in Session |-> "idle"]
    /\ ses = [s \in Session |-> NoSes]
    /\ lock = NoSession
    /\ turn = 0
    /\ mailed = [i \in 1 .. MaxRow |-> 0]
    /\ metered = [i \in 1 .. MaxRow |-> 0]
    /\ spared = {}

-----------------------------------------------------------------------------
(* The clock: 0 before JOIN_LEAD_SECONDS, 1 within them, 2 started and within *)
(* BOOK_GRACE_MINUTES, 3 later.                                               *)

Upcoming == clock <= 1
Bookable == clock <= 2

-----------------------------------------------------------------------------
(* Sessions *)

Quiet == \A s \in Session : pc[s] = "idle"

\* A session may begin.
Free(s) ==
    /\ pc[s] = "idle"
    /\ "overlap" \in faults \/ Quiet

\* Nobody else has flushed a change of the row.
Writable(s) == lock \in {NoSession, s}

Changed(s) == ses[s].new # ses[s].seen

Goto(s, step) == pc' = [pc EXCEPT ![s] = step]
Start(s, op, seen, new, step) ==
    /\ ses' = [ses EXCEPT ![s] = [NoSes EXCEPT !.op = op, !.seen = seen, !.new = new]]
    /\ Goto(s, step)
Return(s) ==
    /\ Goto(s, "idle")
    /\ ses' = [ses EXCEPT ![s] = NoSes]
    /\ lock' = IF lock = s THEN NoSession ELSE lock

Draft(s, new) == ses' = [ses EXCEPT ![s].new = new]

\* The row as the session's queries find it: the committed one under the
\* columns it has changed.
Visible(s) ==
    LET seen == ses[s].seen
        new == ses[s].new
    IN  IF seen.id = 0 /\ new.id # 0 THEN new
        ELSE [f \in DOMAIN row |-> IF new[f] = seen[f] THEN row[f] ELSE new[f]]

Without(q, i) == SubSeq(q, 1, i - 1) \o SubSeq(q, i + 1, Len(q))
HasRoom == Len(jobs) < MaxJob
Queue(op, id, tries) == jobs' = Append(jobs, [op |-> op, id |-> id, tries |-> tries])

-----------------------------------------------------------------------------
(* The provider *)

Live == {"waiting", "joining", "recording"}

Send(b, status) == wire' = Append(wire, [bot |-> b, status |-> status, seen |-> FALSE])

\* schedule_bot, with the row's id as metadata.
Book(b, id) ==
    /\ bots[b].state = "absent"
    /\ bots' = [bots EXCEPT ![b].state = "waiting", ![b].meeting = id]

\* schedule_bot raises; the bound Bot is a provider that has no more of them.
BookFails ==
    /\ "provider" \in faults \/ \A b \in Bot : bots[b].state # "absent"
    /\ UNCHANGED bots

\* cancel_bot: a waiting bot is deleted, one in the call leaves, and there is
\* nothing to do about one that is over.
Recall(b) ==
    /\ bots' = [bots EXCEPT ![b].state = CASE @ = "waiting" -> "deleted"
                                           [] @ \in {"joining", "recording"} -> "left"
                                           [] OTHER -> @]
    /\ IF bots[b].state \in {"joining", "recording"} THEN Send(b, "ended")
       ELSE UNCHANGED wire

RecallFails ==
    /\ "provider" \in faults
    /\ UNCHANGED <<bots, wire>>

Becomes(b, from, to, status) ==
    /\ Len(wire) < MaxWire
    /\ bots[b].state = from
    /\ bots' = [bots EXCEPT ![b].state = to, ![b].heard = @ \/ to = "recording"]
    /\ Send(b, status)
    /\ UNCHANGED <<world, row, born, jobs, pc, ses, lock, counts>>

Arrives(b) == clock >= 1 /\ Becomes(b, "waiting", "joining", "joining")
Records(b) == Becomes(b, "joining", "recording", "recording")
Breaks(b) == Becomes(b, "joining", "failed", "failed")
Leaves(b) == \E from \in {"joining", "recording"} : Becomes(b, from, "left", "ended")
Finishes(b) == Becomes(b, "left", "done", "recorded")

-----------------------------------------------------------------------------
(* The sweep and join_now *)

\* upsert_from_event: the row of the event, made or put back in line.
Tracked(rw) ==
    IF rw.id = 0 THEN [NoRow EXCEPT !.id = born + 1]
    ELSE IF rw.status = "cancelled" /\ Upcoming
         THEN [rw EXCEPT !.status = "pending", !.bot = NoBot]
    ELSE rw

\* The bound MaxRow leaves an event untracked.
CanTrack(rw) == rw.id # 0 \/ born < MaxRow

\* rules.skip_reason: the event passes the user's rules and is not long started.
Attends == event = "attend" /\ Bookable

\* entitlements.check for a bot: what has been metered leaves room.
Allowed == "quota" \in faults => \A i \in 1 .. MaxRow : metered[i] = 0

\* One sweep at a time, under single_run.  It reads the calendar and the row; an
\* event it skips counts as seen.
BeginSweep(s) ==
    /\ Free(s)
    /\ \A q \in Session : ses[q].op # "sweep"
    /\ LET attends == Attends /\ CanTrack(row)
       IN  /\ ses' = [ses EXCEPT ![s] = [NoSes EXCEPT
                        !.op = "sweep", !.here = event # "gone",
                        !.seen = IF attends THEN row ELSE NoRow,
                        !.new = IF attends THEN Tracked(row) ELSE NoRow]]
           /\ Goto(s, IF attends /\ Tracked(row) # row THEN "flush" ELSE "book")
    /\ UNCHANGED <<world, row, born, bots, wire, jobs, lock, counts>>

\* A flush fails on a row that another session has made or deleted, and the
\* session with it.  The bound MaxRow fails an insert.
Gone(s) ==
    \/ ses[s].seen.id # 0 /\ row.id # ses[s].seen.id
    \/ ses[s].seen.id = 0 /\ lock # s /\ (row.id # 0 \/ born = MaxRow)

Lost(s) ==
    /\ pc[s] = "fetch" \/ (pc[s] = "flush" /\ Changed(s))
    /\ Gone(s)
    /\ Return(s)
    /\ UNCHANGED <<world, row, born, bots, wire, jobs, counts>>

\* What follows upsert_from_event.
After(op) == CASE op = "enable" -> "queue" [] op = "upload" -> "commit" [] OTHER -> "book"

\* A flush of what upsert_from_event changed.
Flush(s) ==
    /\ pc[s] = "flush"
    /\ Changed(s) => Writable(s) /\ ~Gone(s)
    /\ lock' = IF Changed(s) THEN s ELSE lock
    /\ IF ses[s].seen.id = 0
       THEN \* the row's id is drawn as it is inserted
            /\ born' = born + 1
            /\ ses' = [ses EXCEPT ![s].new.id = born + 1]
       ELSE UNCHANGED <<born, ses>>
    /\ Goto(s, After(ses[s].op))
    /\ UNCHANGED <<world, row, bots, wire, jobs, counts>>

\* list_awaiting_bots, as the database answers it.
Awaiting(rw) ==
    /\ rw.id # 0 /\ rw.status = "pending" /\ rw.bot = NoBot
    /\ Bookable \/ ~Calendar

\* list_scheduled_upcoming, less the events the sweep has seen.  Sessions do not
\* flush by themselves, so a bot booked in this pass is not in it.
Vanished(s) ==
    /\ row.id # 0 /\ row.status \in ActiveStatuses
    /\ Calendar /\ Upcoming
    /\ ~ses[s].here

\* The session loads the row if it has not.
Loaded(s) == IF ses[s].new.id = 0 THEN [ses[s] EXCEPT !.seen = row, !.new = row] ELSE ses[s]

\* _book_bot: of a row that still waits for the sweep, of any row for join_now.
\* Without quota the sweep withholds the bot.
BookBot(s) ==
    /\ pc[s] = "book"
    /\ LET l == Loaded(s)
           next == IF l.op = "sweep" THEN "recall" ELSE "commit"
           wanted == l.op = "sweep" => Awaiting(Visible(s)) /\ Allowed
       IN  \/ /\ wanted
              /\ \E b \in Bot :
                    /\ Book(b, l.new.id)
                    /\ ses' = [ses EXCEPT ![s] = [l EXCEPT !.new.bot = b,
                                                           !.new.status = "scheduled"]]
              /\ Goto(s, next)
           \/ /\ wanted
              /\ BookFails
              /\ Goto(s, next)
              /\ UNCHANGED ses
           \/ /\ ~wanted
              /\ Goto(s, next)
              /\ UNCHANGED <<bots, ses>>
    /\ UNCHANGED <<world, row, born, wire, jobs, lock, counts>>

\* A session that has changed a row since deleted fails at its commit.
Cancelled(s) ==
    IF Loaded(s).new.id = row.id THEN [Loaded(s) EXCEPT !.new.status = "cancelled"] ELSE ses[s]
BotOf(s) == IF Loaded(s).new.id = row.id THEN Loaded(s).new.bot ELSE row.bot

\* Mutant of RecallVanished: the row is marked and the bot is left.
RecallVanished_Marked(s) ==
    /\ pc[s] = "recall"
    /\ IF Vanished(s)
       THEN ses' = [ses EXCEPT ![s] = Cancelled(s)]
       ELSE UNCHANGED ses
    /\ Goto(s, "commit")
    /\ UNCHANGED <<world, row, born, bots, wire, jobs, lock, counts>>

\* _recall_bot: the row is cancelled whatever the provider says.
RecallVanished(s) ==
    /\ pc[s] = "recall"
    /\ IF Vanished(s)
       THEN /\ ses' = [ses EXCEPT ![s] = Cancelled(s)]
            /\ IF BotOf(s) = NoBot THEN UNCHANGED <<bots, wire>>
               ELSE Recall(BotOf(s)) \/ RecallFails
       ELSE UNCHANGED <<ses, bots, wire>>
    /\ Goto(s, "commit")
    /\ UNCHANGED <<world, row, born, jobs, lock, counts>>

\* join_now asks whether the meeting exists, has a bot, and the quota.
BeginJoin(s) ==
    /\ Free(s)
    /\ \E i \in DOMAIN jobs :
        /\ jobs[i].op = "join"
        /\ jobs' = Without(jobs, i)
        /\ IF row.id = jobs[i].id /\ row.bot = NoBot /\ Allowed
           THEN Start(s, "join", row, row, "book")
           ELSE UNCHANGED <<pc, ses>>
    /\ UNCHANGED <<world, row, born, bots, wire, lock, counts>>

-----------------------------------------------------------------------------
(* The user *)

CanAsk == turn < MaxTurn /\ HasRoom

\* join_meeting: a row for a pasted link; the bound is one link.
BeginLink(s) ==
    /\ ~Calendar /\ born = 0 /\ Free(s) /\ CanAsk /\ Allowed
    /\ born' = 1
    /\ Start(s, "enable", NoRow, [NoRow EXCEPT !.id = 1], "queue")
    /\ lock' = s
    /\ turn' = turn + 1
    /\ UNCHANGED <<world, row, bots, wire, jobs, mailed, metered, spared>>

\* enable_bot, of an event that is on the calendar and has not started.  The
\* rules are not asked, the quota is.
BeginEnable(s) ==
    /\ event # "gone" /\ Upcoming /\ Free(s) /\ CanAsk /\ CanTrack(row) /\ Allowed
    /\ row.id = 0 \/ row.status \notin BotLockedStatuses
    /\ "twice" \in faults \/ Tracked(row).bot = NoBot
    /\ Start(s, "enable", row, [Tracked(row) EXCEPT !.status = "pending"], "flush")
    /\ turn' = turn + 1
    /\ UNCHANGED <<world, row, born, bots, wire, jobs, lock, mailed, metered, spared>>

\* start_upload of a recording of the event, found on the calendar or not at
\* all: the row waits again, whatever it was.  The key it reserves and refuses
\* to have twice, and what becomes of the file, are in MeetingMedia.
BeginUpload(s) ==
    /\ event # "gone" /\ Free(s) /\ CanAsk /\ CanTrack(row) /\ Allowed
    /\ Start(s, "upload", row, [Tracked(row) EXCEPT !.status = "pending"], "flush")
    /\ turn' = turn + 1
    /\ UNCHANGED <<world, row, born, bots, wire, jobs, lock, mailed, metered, spared>>

\* join_now is queued before the request commits.
QueueJoin(s) ==
    /\ pc[s] = "queue"
    /\ Queue("join", ses[s].new.id, 0)
    /\ Goto(s, "commit")
    /\ UNCHANGED <<world, row, born, bots, wire, ses, lock, counts>>

\* Mutant of BeginCancel: a pending meeting has nothing to recall.
BeginCancel_Active(s) ==
    /\ Free(s) /\ CanAsk
    /\ row.id # 0 /\ row.status \in ActiveStatuses \cup {"pending"}
    /\ Start(s, "cancel", row, [row EXCEPT !.status = "cancelled"],
             IF row.bot = NoBot \/ row.status = "pending" THEN "commit" ELSE "stop")
    /\ turn' = turn + 1
    /\ UNCHANGED <<world, row, born, bots, wire, jobs, lock, mailed, metered, spared>>

\* cancel_bot of the API.
BeginCancel(s) ==
    /\ Free(s) /\ CanAsk
    /\ row.id # 0 /\ row.status \in ActiveStatuses \cup {"pending"}
    /\ Start(s, "cancel", row, [row EXCEPT !.status = "cancelled"],
             IF row.bot = NoBot THEN "commit" ELSE "stop")
    /\ turn' = turn + 1
    /\ UNCHANGED <<world, row, born, bots, wire, jobs, lock, mailed, metered, spared>>

\* delete_meeting takes only a meeting whose bot is booked or in the call to have
\* something to recall.
BeginDelete(s) ==
    /\ Free(s) /\ CanAsk
    /\ row.id # 0
    /\ Start(s, "delete", row, NoRow,
             IF row.bot # NoBot /\ row.status \in ActiveStatuses THEN "stop" ELSE "commit")
    /\ turn' = turn + 1
    /\ UNCHANGED <<world, row, born, bots, wire, jobs, lock, mailed, metered, spared>>

\* The bot goes first; 502 if the provider refuses.
StopBot(s) ==
    /\ pc[s] = "stop"
    /\ \/ /\ Recall(ses[s].seen.bot)
          /\ Goto(s, "commit")
          /\ UNCHANGED <<ses, lock>>
       \/ RecallFails /\ Return(s)
    /\ UNCHANGED <<world, row, born, jobs, counts>>

-----------------------------------------------------------------------------
(* Callbacks *)

\* By the meeting in the bot's metadata first, then by the bot.
Found(b) == row.id # 0 /\ (bots[b].meeting = row.id \/ row.bot = b)

\* Mutant of Ignored: a recap does not end the meeting.
Ignored_Never(b) == ~Found(b)

Ignored(b) == ~Found(b) \/ row.status \in TerminalStatuses

BeginCallback(s) ==
    /\ Free(s)
    /\ \E i \in DOMAIN wire :
        LET e == wire[i]
        IN  /\ i = 1 \/ "reorder" \in faults
            /\ wire' = IF "again" \in faults /\ ~e.seen
                       THEN [wire EXCEPT ![i].seen = TRUE] ELSE Without(wire, i)
            /\ IF Ignored(e.bot)
               THEN UNCHANGED <<pc, ses, jobs>>
               ELSE /\ Start(s, "callback", row,
                             [row EXCEPT !.status = e.status,
                                         !.bot = IF @ = NoBot THEN e.bot ELSE @], "commit")
                    /\ IF e.status = "recorded"
                       THEN HasRoom /\ Queue("process", row.id, 0)
                       ELSE UNCHANGED jobs
    /\ UNCHANGED <<world, row, born, bots, lock, counts>>

-----------------------------------------------------------------------------
(* process_meeting *)

\* Mutant of Skipped: a recap that went out is not asked about.
Skipped_NoBot(id) == row.id # id \/ row.bot = NoBot

Skipped(id) == row.id # id \/ row.recapped \/ row.bot = NoBot

BeginProcess(s) ==
    /\ Free(s)
    /\ \E i \in DOMAIN jobs :
        /\ jobs[i].op = "process"
        /\ jobs' = Without(jobs, i)
        /\ IF Skipped(jobs[i].id)
           THEN UNCHANGED <<pc, ses>>
           ELSE /\ ses' = [ses EXCEPT ![s] = [NoSes EXCEPT !.op = "process",
                             !.seen = row, !.new = row, !.tries = jobs[i].tries]]
                /\ Goto(s, "fetch")
    /\ UNCHANGED <<world, row, born, bots, wire, lock, counts>>

\* A silent call ends here; otherwise the transcript is kept and summarized,
\* or kept and left.  The first run that finds no duration writes it and meters.
Fetch(s) ==
    /\ pc[s] = "fetch" /\ Writable(s) /\ ~Gone(s)
    /\ ses[s].new.text \/ bots[ses[s].new.bot].heard
    /\ lock' = s
    /\ LET rw == [ses[s].new EXCEPT !.timed = TRUE]
       IN  \/ ~rw.text /\ Draft(s, [rw EXCEPT !.status = "processed"]) /\ Goto(s, "commit")
           \/ Draft(s, [rw EXCEPT !.text = TRUE]) /\ Goto(s, "commit")
           \/ Draft(s, [rw EXCEPT !.text = TRUE, !.status = "processed"]) /\ Goto(s, "send")
    /\ UNCHANGED <<world, row, born, bots, wire, jobs, counts>>

\* _fail, in a session of its own.
Fail(s) ==
    IF row.id = ses[s].seen.id
    THEN Start(s, "process", row, [row EXCEPT !.status = "failed"], "commit") /\ UNCHANGED lock
    ELSE Return(s)

\* MeetingNotRecorded: the bot was never admitted.
NotRecorded(s) ==
    /\ pc[s] = "fetch"
    /\ ~ses[s].new.text /\ ~bots[ses[s].new.bot].heard
    /\ Fail(s)
    /\ UNCHANGED <<world, row, born, bots, wire, jobs, counts>>

\* MeetingBotError: the task is tried again, max_retries times.
FetchFails(s) ==
    /\ pc[s] = "fetch" /\ ~ses[s].new.text
    /\ "provider" \in faults
    /\ IF ses[s].tries < Retries
       THEN /\ HasRoom /\ Queue("process", ses[s].seen.id, ses[s].tries + 1)
            /\ Return(s)
       ELSE Fail(s) /\ UNCHANGED jobs
    /\ UNCHANGED <<world, row, born, bots, wire, counts>>

\* The recap is sent before the commit, unless it is off or cannot be sent.
SendRecap(s) ==
    /\ pc[s] = "send"
    /\ \/ /\ mailed' = [mailed EXCEPT ![ses[s].seen.id] = @ + 1]
          /\ Draft(s, [ses[s].new EXCEPT !.recapped = TRUE, !.status = "delivered"])
       \/ UNCHANGED <<mailed, ses>>
    /\ Goto(s, "commit")
    /\ UNCHANGED <<world, row, born, bots, wire, jobs, lock, turn, metered, spared>>

-----------------------------------------------------------------------------
(* The end of a session *)

\* An update or a delete of a row that is gone fails the session.
Commits(s) == Changed(s) /\ ~Gone(s)

\* An earlier bot of the meeting has been in the call: its callbacks, late, are
\* taken for those of the bot that replaced it.
Haunted == \E b \in Bot : bots[b].meeting = row.id /\ row.bot # b
                            /\ bots[b].state \notin {"waiting", "deleted"}

\* A deletion leaves the bot of a meeting that was pending, enabled once more
\* than needed or given a recording, or that an earlier bot's callback had ended.
Spares(s) ==
    /\ Commits(s) /\ ses[s].op = "delete"
    /\ row.status = "pending" \/ (row.status \notin ActiveStatuses /\ Haunted)

\* add_bot_seconds, in the transaction that finalizes the row.
Meter == [metered EXCEPT ![row.id] = @ + 1]

Commit(s) ==
    /\ pc[s] = "commit"
    /\ Changed(s) => Writable(s)
    /\ row' = IF ~Commits(s) THEN row
              ELSE IF ses[s].op = "delete" THEN NoRow
              ELSE Visible(s)
    /\ metered' = IF Commits(s) /\ ses[s].new.timed /\ ~ses[s].seen.timed
                  THEN Meter ELSE metered
    /\ spared' = IF Spares(s) THEN spared \cup ({row.bot} \ {NoBot}) ELSE spared
    /\ Return(s)
    /\ UNCHANGED <<world, born, bots, wire, jobs, turn, mailed>>

Crash(s) ==
    /\ "crash" \in faults
    /\ pc[s] # "idle"
    /\ Return(s)
    /\ UNCHANGED <<world, row, born, bots, wire, jobs, counts>>

-----------------------------------------------------------------------------
(* The organiser and the clock *)

EventChanges ==
    /\ Calendar
    /\ event' \in {"attend", "skip", "gone"} \ {event}
    /\ UNCHANGED <<faults, clock, row, born, bots, wire, jobs, pc, ses, lock, counts>>

Tick ==
    /\ clock < 3
    /\ clock' = clock + 1
    /\ UNCHANGED <<faults, event, row, born, bots, wire, jobs, pc, ses, lock, counts>>

Next ==
    \/ \E s \in Session :
        \/ BeginSweep(s) \/ Flush(s) \/ BookBot(s) \/ RecallVanished(s) \/ BeginJoin(s)
        \/ BeginLink(s) \/ BeginEnable(s) \/ BeginUpload(s) \/ QueueJoin(s)
        \/ BeginCancel(s) \/ BeginDelete(s) \/ StopBot(s)
        \/ BeginCallback(s)
        \/ BeginProcess(s) \/ Fetch(s) \/ Lost(s) \/ NotRecorded(s) \/ FetchFails(s)
        \/ SendRecap(s) \/ Commit(s) \/ Crash(s)
    \/ \E b \in Bot : Arrives(b) \/ Records(b) \/ Breaks(b) \/ Leaves(b) \/ Finishes(b)
    \/ EventChanges
    \/ Tick

Spec == Init /\ [][Next]_vars

-----------------------------------------------------------------------------
(* Properties *)

\* A live bot is the one the row of its meeting names, so there is at most one and
\* cancelling and deleting can reach it, and a meeting cancelled by the user or by
\* the calendar, or deleted, has none; but a deletion spares the bot of a pending
\* meeting, or of one its earlier bot has ended.  Two sessions that book at once, a
\* session that dies after booking, and a recall that fails and is followed by a
\* reschedule leave another.
NoStrayBot ==
    Quiet /\ faults \cap {"overlap", "crash", "provider"} = {} =>
        \A b \in Bot : bots[b].state \in Live =>
            \/ bots[b].meeting = row.id /\ row.bot = b /\ row.status # "cancelled"
            \/ b \in spared

\* A sweep that does not find the event before it starts leaves no bot waiting
\* for it, unless the meeting was pending: enabled once more than needed, or
\* booked by this very sweep, which the next one recalls.
VanishedIsRecalled ==
    [][\A s \in Session :
        /\ pc[s] = "commit" /\ pc'[s] = "idle" /\ ses[s].op = "sweep"
        /\ Calendar /\ Upcoming /\ ~ses[s].here
        /\ faults \cap {"overlap", "crash", "provider"} = {}
        /\ ~Haunted /\ row.status # "pending"
        => \A b \in Bot : bots[b].meeting = row.id => bots[b].state # "waiting"]_vars

\* A meeting's recap is sent once and its bot-seconds are metered once, however
\* often and in whatever order the provider calls back and the task is retried.
\* Two runs at once do both twice.
AccountedOnce ==
    faults \cap {"overlap", "crash"} = {}
        => \A i \in 1 .. MaxRow : mailed[i] <= 1 /\ metered[i] <= 1

\* A delivered recap is never walked back, by a callback, a retry, a sweep or the
\* user, unless the user deletes the meeting or uploads a recording of its event.
NeverWalkedBack ==
    [][row.status = "delivered" /\ "overlap" \notin faults =>
        \/ row' = NoRow \/ row'.status = "delivered"
        \/ /\ row' = [row EXCEPT !.status = "pending"]
           /\ \E s \in Session : ses[s].op = "upload" /\ ses'[s].op = "none"]_vars
=============================================================================
