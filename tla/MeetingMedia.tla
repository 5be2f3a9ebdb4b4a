---------------------------- MODULE MeetingMedia ----------------------------
(***************************************************************************)
(* The media one meeting holds in the bucket: reserving a key and a URL to *)
(* upload to (services/meetings/media.py, api/v1/meetings.py), confirming  *)
(* the bytes, workers/jobs/transcribe_media.py, the link a page is given   *)
(* (services/meetings/recording.py), the janitor of meetings_sweep.py, the *)
(* retention sweep and the user's delete.                                  *)
(*                                                                         *)
(* Every request and task has a database session of its own, which reads   *)
(* the row once and writes the columns it changed; from its first flush to *)
(* its end nobody else can write the row.                                  *)
(***************************************************************************)
EXTENDS Integers, Sequences, FiniteSets

CONSTANTS
    Session,    \* requests and tasks being handled at once
    NoSession,  \* nobody holds the row
    MaxKey,     \* bound on the keys reserved
    MaxTurn,    \* bound on the user's requests
    MaxJob,     \* bound on the transcriptions queued
    Retries,    \* max_retries of transcribe_meeting_media
    Scenarios   \* the combinations of circumstances the instance allows

\* "overlap"   sessions run at the same time, transcriptions one by one
\* "workers"   transcriptions run at the same time
\* "fast"      a worker starts before the request that queued it commits
\* "services"  a call to the bucket, the models or the mailbox fails
\* "late"      a client uploads to a key the row has forgotten or is forgetting
\* "crash"     a session dies before its commit
Circumstance == {"overlap", "workers", "fast", "services", "late", "crash"}

ASSUME MediaAssumption ==
    /\ NoSession \notin Session
    /\ MaxKey \in Nat /\ MaxTurn \in Nat /\ MaxJob \in Nat /\ Retries \in Nat
    /\ Scenarios \subseteq SUBSET Circumstance

VARIABLES
    faults,   \* the circumstances of this behaviour
    source,   \* where the meeting comes from
    age,      \* 0: made within ABANDONED_MEDIA_HOURS, 1: before, 2: past its window
    row,      \* the row of meetings
    made,     \* the row has been made
    nkeys,    \* keys drawn so far
    bucket,   \* what is stored under each key
    urls,     \* keys whose upload URL a client holds and that still works
    jobs,     \* transcriptions queued, each with its tries
    pc,       \* where each session is
    ses,      \* what each session has read and is about to write
    lock,     \* the session that has flushed a change of the row
    turn,     \* user requests so far
    mailed,   \* recaps sent
    metered   \* times the media's seconds were added to the month

vars == <<faults, source, age, row, made, nkeys, bucket, urls, jobs, pc, ses, lock,
          turn, mailed, metered>>
world == <<faults, source, age>>
store == <<nkeys, bucket, urls>>
tally == <<mailed, metered>>

Key == 1 .. MaxKey
Status == {"pending", "recording", "recorded", "processed", "delivered", "failed"}
MediaReady == {"recorded", "processed", "delivered"}

\* key 0 is no key; rec is a recording_id and url a cached recording_url, of our
\* own object or of the bot's; bot is a bot_id.
Row == [here: BOOLEAN, status: Status, key: 0 .. MaxKey, confirmed: BOOLEAN,
        text: BOOLEAN, timed: BOOLEAN, recapped: BOOLEAN, pruned: BOOLEAN,
        bot: BOOLEAN, rec: BOOLEAN, url: {"none", "own", "bot"}]
NoRow == [here |-> FALSE, status |-> "pending", key |-> 0, confirmed |-> FALSE,
          text |-> FALSE, timed |-> FALSE, recapped |-> FALSE, pruned |-> FALSE,
          bot |-> FALSE, rec |-> FALSE, url |-> "none"]

\* An object with speech, without, with no audio track, or empty or too large.
Object == {"speech", "silence", "mute", "unfit"}

Op == {"none", "start", "complete", "delete", "page", "janitor", "prune",
       "transcribe", "fail"}
Step == {"idle", "track", "reserve", "head", "queue", "discard", "resolve",
         "stamp", "media", "recap", "commit"}
Ses == [op: Op, seen: Row, new: Row, tries: 0 .. Retries]
NoSes == [op |-> "none", seen |-> NoRow, new |-> NoRow, tries |-> 0]

TypeOK ==
    /\ faults \subseteq Circumstance
    /\ source \in {"event", "upload", "live"}
    /\ age \in 0 .. 2
    /\ row \in Row
    /\ made \in BOOLEAN
    /\ nkeys \in 0 .. MaxKey
    /\ bucket \in [Key -> Object \cup {"none"}]
    /\ urls \subseteq 1 .. nkeys
    /\ jobs \in Seq(0 .. Retries)
    /\ pc \in [Session -> Step]
    /\ ses \in [Session -> Ses]
    /\ lock \in Session \cup {NoSession}
    /\ turn \in 0 .. MaxTurn
    /\ mailed \in Nat
    /\ metered \in Nat

\* An event of the calendar may have been tracked before, and even attended by
\* a bot whose recap went out.
Attended == [NoRow EXCEPT !.here = TRUE, !.status = "delivered", !.bot = TRUE, !.rec = TRUE,
                          !.text = TRUE, !.timed = TRUE, !.recapped = TRUE]

Init ==
    /\ faults \in Scenarios
    /\ source \in {"event", "upload", "live"}
    /\ row \in IF source = "event"
               THEN {NoRow, [NoRow EXCEPT !.here = TRUE], Attended} ELSE {NoRow}
    /\ age \in IF row.here THEN {0, 1} ELSE {0}
    /\ made = row.here
    /\ nkeys = 0
    /\ bucket = [k \in Key |-> "none"]
    /\ urls = {}
    /\ jobs = <<>>
    /\ pc = [s \in Session |-> "idle"]
    /\ ses = [s \in Session |-> NoSes]
    /\ lock = NoSession
    /\ turn = 0
    /\ mailed = 0
    /\ metered = 0

-----------------------------------------------------------------------------
(* Sessions *)

Quiet == \A s \in Session : pc[s] = "idle"
Running(op) == \E s \in Session : ses[s].op = op

Free(s) == pc[s] = "idle" /\ ("overlap" \in faults \/ Quiet)

\* Nobody else has flushed a change of the row.
Writable(s) == lock \in {NoSession, s}
Changed(s) == ses[s].new # ses[s].seen
\* The row was deleted, or made by another session; the bound is one row.
Gone(s) == IF ses[s].seen.here THEN ~row.here ELSE made /\ lock # s

Goto(s, step) == pc' = [pc EXCEPT ![s] = step]
Begin(s, op, new, step) ==
    /\ ses' = [ses EXCEPT ![s] = [NoSes EXCEPT !.op = op, !.seen = row, !.new = new]]
    /\ Goto(s, step)
Draft(s, new, step) ==
    /\ ses' = [ses EXCEPT ![s].new = new]
    /\ Goto(s, step)
Return(s) ==
    /\ Goto(s, "idle")
    /\ ses' = [ses EXCEPT ![s] = NoSes]
    /\ lock' = IF lock = s THEN NoSession ELSE lock

\* A flush that writes waits for the row, and fails if it was deleted or made
\* by another session.
Flush(s) == Writable(s) /\ ~Gone(s) /\ lock' = s
FlushIf(s, changed) == IF changed THEN Flush(s) ELSE UNCHANGED lock

-----------------------------------------------------------------------------
(* The user *)

CanAsk(s) == Free(s) /\ turn < MaxTurn /\ turn' = turn + 1

\* start_upload for an event: its row is made or taken, unless it has media.
StartUpload(s) ==
    /\ CanAsk(s)
    /\ source = "event" /\ age < 2 /\ row.key = 0
    /\ row.here \/ ~made
    /\ Begin(s, "start", [row EXCEPT !.here = TRUE, !.status = "pending"], "track")
    /\ UNCHANGED <<world, row, made, store, jobs, lock, tally>>

\* start_upload of a file, and start_live_recording: a row of their own.
StartNew(s) ==
    /\ CanAsk(s)
    /\ source \in {"upload", "live"} /\ ~made
    /\ Begin(s, "start", [NoRow EXCEPT !.here = TRUE,
                            !.status = IF source = "live" THEN "recording" ELSE "pending"],
             "track")
    /\ UNCHANGED <<world, row, made, store, jobs, lock, tally>>

Track(s) ==
    /\ pc[s] = "track"
    /\ FlushIf(s, Changed(s))
    /\ made' = TRUE
    /\ Goto(s, "reserve")
    /\ UNCHANGED <<world, row, store, jobs, ses, turn, tally>>

\* reserve and reserve_for_live: a new key, whatever key the row has by now.
Reserve(s) ==
    /\ pc[s] = "reserve" /\ nkeys < MaxKey
    /\ Flush(s)
    /\ nkeys' = nkeys + 1
    /\ Draft(s, [ses[s].new EXCEPT !.key = nkeys + 1], "commit")
    /\ UNCHANGED <<world, row, made, bucket, urls, jobs, turn, tally>>

\* complete_upload of a meeting that is not confirmed yet.
BeginComplete(s) ==
    /\ CanAsk(s)
    /\ row.here /\ ~row.confirmed /\ row.key # 0
    /\ Begin(s, "complete", row, "head")
    /\ UNCHANGED <<world, row, made, store, jobs, lock, tally>>

Landed(k) == bucket[k] \notin {"none", "unfit"}

\* confirm: the bucket is asked, and the row is the meeting's no more to fail.
Confirm(s) ==
    /\ pc[s] = "head"
    /\ Landed(ses[s].new.key)
    /\ Flush(s)
    /\ Draft(s, [ses[s].new EXCEPT !.confirmed = TRUE, !.status = "recorded"], "queue")
    /\ UNCHANGED <<world, row, made, store, jobs, turn, tally>>

\* MediaRejected; the row is left for the janitor.
Reject(s) ==
    /\ pc[s] = "head"
    /\ ~Landed(ses[s].new.key)
    /\ Return(s)
    /\ UNCHANGED <<world, row, made, store, jobs, turn, tally>>

\* The transcription is queued before the request commits.
QueueTranscription(s) ==
    /\ pc[s] = "queue" /\ Len(jobs) < MaxJob
    /\ jobs' = Append(jobs, 0)
    /\ Goto(s, "commit")
    /\ UNCHANGED <<world, row, made, store, ses, lock, turn, tally>>

BeginDelete(s) ==
    /\ CanAsk(s)
    /\ row.here
    /\ Begin(s, "delete", NoRow, IF row.key = 0 THEN "commit" ELSE "discard")
    /\ UNCHANGED <<world, row, made, store, jobs, lock, tally>>

\* Mutant of Resolves: a pruned meeting's bot is asked once more.
Resolves_Pruned == row.bot /\ row.status \in MediaReady

\* resolve_recording_url has something to fetch or to sign.
Resolves ==
    /\ ~row.pruned
    /\ \/ row.confirmed /\ row.key # 0
       \/ row.bot /\ row.status \in MediaReady

\* get_meeting, when no fresh link is cached.
BeginPage(s) ==
    /\ CanAsk(s)
    /\ row.here /\ Resolves
    /\ Begin(s, "page", IF row.confirmed /\ row.key # 0 THEN [row EXCEPT !.url = "own"]
                        ELSE [row EXCEPT !.url = "bot", !.rec = TRUE], "resolve")
    /\ UNCHANGED <<world, row, made, store, jobs, lock, tally>>

Resolve(s) ==
    /\ pc[s] = "resolve"
    /\ FlushIf(s, Changed(s))
    /\ Goto(s, "commit")
    /\ UNCHANGED <<world, row, made, store, jobs, ses, turn, tally>>

-----------------------------------------------------------------------------
(* The sweeps, one of each at a time *)

\* list_abandoned_media and _expire_abandoned_media.  The key is kept.
BeginJanitor(s) ==
    /\ Free(s) /\ ~Running("janitor")
    /\ age >= 1
    /\ row.here /\ row.key # 0 /\ ~row.confirmed /\ row.status # "failed"
    /\ Begin(s, "janitor", [row EXCEPT !.status = "failed"], "discard")
    /\ UNCHANGED <<world, row, made, store, jobs, lock, turn, tally>>

Pruned(rw) ==
    [rw EXCEPT !.key = 0, !.confirmed = FALSE, !.rec = FALSE, !.url = "none",
               !.pruned = TRUE, !.text = FALSE]

\* prune_user of an account that is not locked: media and transcript, or the
\* transcript of a meeting that has no media.
BeginPrune(s) ==
    /\ Free(s) /\ ~Running("prune")
    /\ age = 2 /\ row.here
    /\ IF row.key # 0 \/ row.rec
       THEN Begin(s, "prune", Pruned(row), IF row.key = 0 THEN "commit" ELSE "discard")
       ELSE row.text /\ Begin(s, "prune", [row EXCEPT !.text = FALSE], "commit")
    /\ UNCHANGED <<world, row, made, store, jobs, lock, turn, tally>>

Discard(s) ==
    /\ pc[s] = "discard"
    /\ bucket' = [bucket EXCEPT ![ses[s].seen.key] = "none"]
    /\ Goto(s, "commit")
    /\ UNCHANGED <<world, row, made, nkeys, urls, jobs, ses, lock, turn, tally>>

\* Mutant of DiscardFails: delete_meeting goes on.
DiscardFails_Deleted(s) ==
    /\ "services" \in faults
    /\ pc[s] = "discard"
    /\ Goto(s, "commit")
    /\ UNCHANGED <<world, row, made, store, jobs, ses, lock, turn, tally>>

\* discard reports False: the user's delete is refused, the prune keeps the
\* media for another day, the janitor fails the row all the same.
DiscardFails(s) ==
    /\ "services" \in faults
    /\ pc[s] = "discard"
    /\ CASE ses[s].op = "delete" -> Return(s)
         [] ses[s].op = "prune" ->
               Draft(s, [ses[s].seen EXCEPT !.text = FALSE], "commit") /\ UNCHANGED lock
         [] OTHER -> Goto(s, "commit") /\ UNCHANGED <<ses, lock>>
    /\ UNCHANGED <<world, row, made, store, jobs, turn, tally>>

-----------------------------------------------------------------------------
(* transcribe_meeting_media *)

\* Mutant of Skipped: a recap that went out is not asked about.
Skipped_Unconfirmed == ~row.here \/ row.key = 0 \/ ~row.confirmed

Skipped == ~row.here \/ row.recapped \/ row.key = 0 \/ ~row.confirmed

\* Queued by a request that has not committed.
Early == \E s \in Session : ses[s].op = "complete" /\ pc[s] = "commit"

BeginTranscribe(s) ==
    /\ Free(s) /\ jobs # <<>>
    /\ "workers" \in faults \/ ~Running("transcribe")
    /\ "fast" \in faults \/ ~Early
    /\ jobs' = Tail(jobs)
    /\ IF Skipped THEN UNCHANGED <<pc, ses>>
       ELSE /\ ses' = [ses EXCEPT ![s] = [op |-> "transcribe", seen |-> row, new |-> row,
                                          tries |-> Head(jobs)]]
            /\ Goto(s, "stamp")
    /\ UNCHANGED <<world, row, made, store, lock, turn, tally>>

\* The retention windows are written by the first run, which writes the duration.
Stamp(s) ==
    /\ pc[s] = "stamp"
    /\ FlushIf(s, ~ses[s].new.timed)
    /\ Goto(s, IF ses[s].new.text THEN "recap" ELSE "media")
    /\ UNCHANGED <<world, row, made, store, jobs, ses, turn, tally>>

\* What transcribe_key makes of an object, unless a service fails: nothing to
\* download or no audio track in it, or audio in one request or in chunks, whose
\* text may be empty.
Unreadable(k) == bucket[k] \in {"none", "mute"}
Spoken(k) == bucket[k] = "speech"

\* transcribe_key: the object is fetched, transcoded and transcribed.
Transcribe(s) ==
    /\ pc[s] = "media"
    /\ LET rw == [ses[s].new EXCEPT !.timed = TRUE]
       IN  \/ /\ ~Unreadable(rw.key) /\ ~Spoken(rw.key)
              /\ Draft(s, [rw EXCEPT !.status = "processed"], "commit")
              /\ UNCHANGED lock
           \/ /\ Spoken(rw.key)
              /\ Flush(s)
              /\ Draft(s, [rw EXCEPT !.text = TRUE], "recap")
    /\ UNCHANGED <<world, row, made, store, jobs, turn, tally>>

\* Mutant of TranscribeFails: nothing marks the row when the retries are spent.
TranscribeFails_Silently(s) ==
    /\ pc[s] = "media"
    /\ "services" \in faults \/ Unreadable(ses[s].new.key)
    /\ jobs' = IF ses[s].tries < Retries THEN Append(jobs, ses[s].tries + 1) ELSE jobs
    /\ Return(s)
    /\ UNCHANGED <<world, row, made, store, turn, tally>>

\* TranscriptionError: another try, and in the end _mark_failed in a session of
\* its own.
TranscribeFails(s) ==
    /\ pc[s] = "media"
    /\ "services" \in faults \/ Unreadable(ses[s].new.key)
    /\ IF ses[s].tries < Retries
       THEN jobs' = Append(jobs, ses[s].tries + 1) /\ Return(s)
       ELSE /\ lock' = IF lock = s THEN NoSession ELSE lock
            /\ Begin(s, "fail", IF row.here THEN [row EXCEPT !.status = "failed"] ELSE row,
                     "commit")
            /\ UNCHANGED jobs
    /\ UNCHANGED <<world, row, made, store, turn, tally>>

\* summarize returns nothing.
SummaryFails == "services" \in faults

\* finalize: the summary may fail, and the mail may fail or be off.
Finalize(s) ==
    /\ pc[s] = "recap"
    /\ LET rw == [ses[s].new EXCEPT !.status = "processed"]
       IN  \/ /\ SummaryFails
              /\ Goto(s, "commit")
              /\ UNCHANGED <<ses, lock, mailed>>
           \/ /\ Flush(s)
              /\ Draft(s, rw, "commit")
              /\ UNCHANGED mailed
           \/ /\ Flush(s)
              /\ Draft(s, [rw EXCEPT !.recapped = TRUE, !.status = "delivered"], "commit")
              /\ mailed' = mailed + 1
    /\ UNCHANGED <<world, row, made, store, jobs, turn, metered>>

-----------------------------------------------------------------------------
(* The end of a session *)

\* The committed row under the columns the session changed.
Visible(s) ==
    IF ~row.here \/ ~ses[s].new.here THEN ses[s].new
    ELSE [f \in DOMAIN row |-> IF ses[s].new[f] = ses[s].seen[f] THEN row[f] ELSE ses[s].new[f]]

Commits(s) == Changed(s) /\ ~Gone(s)

\* The client of a reservation is given its URL.
Commit(s) ==
    /\ pc[s] = "commit"
    /\ Changed(s) => Writable(s)
    /\ row' = IF Commits(s) THEN Visible(s) ELSE row
    /\ urls' = IF Commits(s) /\ ses[s].op = "start" THEN urls \cup {ses[s].new.key} ELSE urls
    /\ metered' = IF Commits(s) /\ ses[s].new.timed /\ ~ses[s].seen.timed
                  THEN metered + 1 ELSE metered
    /\ Return(s)
    /\ UNCHANGED <<world, made, nkeys, bucket, jobs, turn, mailed>>

\* A call fails, or a flush finds the row deleted or made by another: the
\* session is rolled back.
Fails(s) ==
    /\ \/ pc[s] \in {"reserve", "head", "resolve"} /\ "services" \in faults
       \/ pc[s] \in {"track", "reserve", "head", "resolve", "stamp", "media", "recap"} /\ Gone(s)
    /\ Return(s)
    /\ UNCHANGED <<world, row, made, store, jobs, turn, tally>>

Crash(s) ==
    /\ "crash" \in faults
    /\ pc[s] # "idle"
    /\ Return(s)
    /\ UNCHANGED <<world, row, made, store, jobs, turn, tally>>

-----------------------------------------------------------------------------
(* The client and the clock *)

\* A session is about to discard the object.
Forgetting == \E s \in Session : ses[s].op \in {"delete", "janitor", "prune"}

\* An upload's length is signed and was checked; a recording's cannot be.
Put(k, object) ==
    /\ k \in urls /\ bucket[k] = "none"
    /\ "late" \in faults \/ (row.key = k /\ ~Forgetting)
    /\ object = "unfit" => source = "live"
    /\ bucket' = [bucket EXCEPT ![k] = object]
    /\ UNCHANGED <<world, row, made, nkeys, urls, jobs, pc, ses, lock, turn, tally>>

\* MEDIA_URL_TTL_SECONDS or MEDIA_LIVE_URL_TTL_SECONDS are over.
Expire(k) ==
    /\ k \in urls
    /\ urls' = urls \ {k}
    /\ UNCHANGED <<world, row, made, nkeys, bucket, jobs, pc, ses, lock, turn, tally>>

\* A URL lives for hours, a row for a day before the janitor asks about it, and
\* no task takes a week.
Tick ==
    /\ row.here /\ Quiet /\ urls = {} /\ age < 2
    /\ age = 1 => jobs = <<>>
    /\ age' = age + 1
    /\ UNCHANGED <<faults, source, row, made, store, jobs, pc, ses, lock, turn, tally>>

Next ==
    \/ \E s \in Session :
        \/ StartUpload(s) \/ StartNew(s) \/ Track(s) \/ Reserve(s)
        \/ BeginComplete(s) \/ Confirm(s) \/ Reject(s) \/ QueueTranscription(s)
        \/ BeginDelete(s) \/ BeginPage(s) \/ Resolve(s)
        \/ BeginJanitor(s) \/ BeginPrune(s) \/ Discard(s) \/ DiscardFails(s)
        \/ BeginTranscribe(s) \/ Stamp(s) \/ Transcribe(s) \/ TranscribeFails(s) \/ Finalize(s)
        \/ Commit(s) \/ Fails(s) \/ Crash(s)
    \/ \E k \in Key : Expire(k) \/ \E object \in Object : Put(k, object)
    \/ Tick

Spec == Init /\ [][Next]_vars

-----------------------------------------------------------------------------
(* Properties *)

Unless(circumstances) == faults \cap circumstances = {}

\* Between sessions the bucket and the row agree: no object is left that the
\* row does not name, and media the row holds confirmed is there.  It needs
\* every call to finish what it began: two tabs that reserve for one event, a
\* late upload and a session that dies after deleting break it.
BucketMatchesRow ==
    Quiet /\ Unless({"overlap", "late", "crash"}) =>
        /\ \A k \in Key : bucket[k] # "none" => row.here /\ row.key = k
        /\ row.confirmed => bucket[row.key] # "none"

\* Confirmed media is being transcribed, or was: a recording does not wait for
\* ever with nobody to fail it.  A worker faster than the commit that queued it,
\* media for a meeting whose recap has gone out and a summary that failed do
\* leave it waiting.
RecordedIsInHand ==
    /\ Unless({"fast", "crash", "overlap"})
    /\ row.here /\ row.confirmed /\ row.status = "recorded" /\ ~row.timed
    => jobs # <<>> \/ \E s \in Session : ses[s].op \in {"complete", "transcribe", "fail"}

\* One recap and one charge for the media, however often a client confirms it
\* and however its requests and the retries interleave, as long as its
\* transcriptions run one after the other.
AccountedOnce == Unless({"workers", "crash"}) => mailed <= 1 /\ metered <= 1

\* Nothing brings back what retention removed: no link, no media, no transcript.
PrunedStaysPruned ==
    row.pruned /\ Unless({"overlap"}) =>
        /\ row.url = "none" /\ row.key = 0 /\ ~row.rec /\ ~row.text
        /\ Unless({"late"}) => \A k \in Key : bucket[k] = "none"
=============================================================================
