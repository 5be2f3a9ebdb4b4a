------------------------------ MODULE Onboarding ------------------------------
(***************************************************************************)
(* How a mailbox comes under InboxPilot and stays there: the wizard and the *)
(* subscription open the gate, the first sync (sync_last_7_days) queues the *)
(* mail that is already there, seeds the history cursor and installs        *)
(* Gmail's push watch; from then on pushes and the reconciliation beat      *)
(* start the passes of MailArrival, and an hourly sweep renews the watch    *)
(* that Gmail lets lapse after a week.                                      *)
(*                                                                         *)
(* The module composes these with MailArrival: its passes, its mailbox and  *)
(* its cursor are the ones here.                                            *)
(***************************************************************************)
EXTENDS MailArrival

CONSTANTS
    Syncer,     \* worker slots that can run sync_last_7_days
    WatchLife,  \* the days Gmail keeps a watch
    Margin,     \* WATCH_RENEW_MARGIN, in days
    Outage,     \* the days in a row that renewals may fail
    Settings    \* the faults of passes that go with the setbacks below

\* "again"    the wizard's end or a Razorpay event is repeated before the first
\*            sync, after a commit or after one that failed
\* "twin"     first syncs that repeated requests queue run at the same time
\* "overlap"  the wizard's end and a Razorpay event are handled at the same time
\* "early"    a first sync starts before the request that queued it has committed,
\*            which then took longer than START_DELAY_SECONDS
\* "lapse"    the subscription lapses and is paid again
\* "sync"     the first sync fails at a Gmail call, or its worker dies
\* "push"     a watch cannot be installed or renewed
\* "outage"   the renewals of Outage days in a row fail
Setback == {"again", "twin", "overlap", "early", "lapse", "sync", "push", "outage"}

\* The requests that make up the start rule: complete_onboarding, and a Razorpay
\* event that leaves the account entitled.
Half == {"wizard", "payment"}

ASSUME SettingAssumption == Settings \subseteq Scenarios \X SUBSET Setback
ASSUME WatchAssumption ==
    /\ Margin \in Nat \ {0} /\ WatchLife \in Nat /\ WatchLife > Margin
    /\ Outage \in Nat /\ Outage < Margin

VARIABLES
    setbacks,   \* the setbacks that may occur, chosen with faults
    onboarded,  \* users.onboarded_at is set
    entitled,   \* the subscription grants access
    underway,   \* the halves that are handled and not committed
    seeded,     \* google_connections.history_id is not NULL
    before,     \* the messages older than the cursor first seeded
    synced,     \* users.initial_sync_at is set
    queued,     \* the messages the backfill queued for classification
    phase,      \* where each first sync is
    seen,       \* what it fetched, and the profile's position
    watch,      \* the days the push watch still has
    failing     \* the days in a row it was due for renewal and not renewed

committed == <<onboarded, entitled, gateOpen>>
userVars == <<setbacks, committed, underway>>
syncVars == <<synced, queued, phase, seen>>
mailboxVars == <<seeded, before>>
onboardingVars == <<setbacks, onboarded, entitled, underway, mailboxVars, syncVars, watch, failing>>
boxVars == <<vars, onboardingVars>>

\* Everything of MailArrival but the gate and the cursor.
passesAlone == <<faults, history, floor, redisVars, handed, passVars>>

Phase == {"idle", "queued", "fetch", "backfill", "profile", "seed", "watch", "stamp"}

Unseen == [mail |-> {}, at |-> 0]

OnboardingTypeOK ==
    /\ setbacks \subseteq Setback
    /\ onboarded \in BOOLEAN /\ entitled \in BOOLEAN
    /\ underway \subseteq Half
    /\ seeded \in BOOLEAN /\ synced \in BOOLEAN
    /\ before \subseteq Msg /\ queued \subseteq Msg
    /\ phase \in [Syncer -> Phase]
    /\ seen \in [Syncer -> [mail: SUBSET Msg, at: Nat]]
    /\ watch \in 0..WatchLife
    /\ failing \in 0..WatchLife

OnboardingInit ==
    /\ Untouched
    /\ \E s \in Settings : faults = s[1] /\ setbacks = s[2]
    /\ gateOpen = FALSE
    /\ onboarded = FALSE /\ entitled = FALSE /\ underway = {}
    /\ seeded = FALSE /\ before = {}
    /\ synced = FALSE /\ queued = {}
    /\ phase = [s \in Syncer |-> "idle"]
    /\ seen = [s \in Syncer |-> Unseen]
    /\ watch = 0 /\ failing = 0

-----------------------------------------------------------------------------
(* The gate: the wizard, the subscription, and who starts the first sync *)

\* may_process_mail
MayProcess(done, paid) == done /\ paid

Idlers == {s \in Syncer : phase[s] = "idle"}

\* maybe_start_mail_sync: only ever the first sync.  Syncer bounds the first
\* syncs that are under way at once, to one where there are no twins; which of
\* the free workers takes it makes no difference.
MaybeStart(open) ==
    IF open /\ ~synced
    THEN /\ Idlers # {}
         /\ {"again", "twin"} \subseteq setbacks \/ Idlers = Syncer
         /\ phase' = [phase EXCEPT ![CHOOSE s \in Idlers : TRUE] = "queued"]
    ELSE UNCHANGED phase

\* Everything but the requests and the first syncs they queue.
besidesRequests == <<setbacks, committed, cursor, passesAlone, mailboxVars, synced, queued, seen, watch, failing>>

\* The start rule is asked, and the sync queued, inside the request: of the other
\* half it sees what is committed.
Requested(half) ==
    /\ half \notin underway
    /\ underway = {} \/ "overlap" \in setbacks
    /\ underway' = underway \cup {half}

\* complete_onboarding
Complete ==
    /\ ~onboarded \/ ("again" \in setbacks /\ ~synced)
    /\ Requested("wizard")
    /\ MaybeStart(MayProcess(TRUE, entitled))
    /\ UNCHANGED besidesRequests

\* razorpay_webhook, handle_event: an event that leaves the account entitled.
Activate ==
    /\ ~entitled \/ ("again" \in setbacks /\ ~synced)
    /\ Requested("payment")
    /\ MaybeStart(MayProcess(onboarded, TRUE))
    /\ UNCHANGED besidesRequests

\* get_db commits once the route has returned ...
Commit(half) ==
    /\ half \in underway
    /\ underway' = underway \ {half}
    /\ onboarded' = (onboarded \/ half = "wizard")
    /\ entitled' = (entitled \/ half = "payment")
    /\ gateOpen' = MayProcess(onboarded', entitled')
    /\ UNCHANGED <<setbacks, cursor, passesAlone, mailboxVars, syncVars, watch, failing>>

\* ... or rolls back, and what the request queued stays queued.
RollBack(half) ==
    /\ "again" \in setbacks
    /\ half \in underway
    /\ underway' = underway \ {half}
    /\ UNCHANGED <<setbacks, committed, cursor, passesAlone, mailboxVars, syncVars, watch, failing>>

Lapse ==
    /\ "lapse" \in setbacks
    /\ entitled
    /\ entitled' = FALSE
    /\ gateOpen' = MayProcess(onboarded, FALSE)
    /\ UNCHANGED <<setbacks, onboarded, underway, cursor, passesAlone, mailboxVars, syncVars, watch, failing>>

-----------------------------------------------------------------------------
(* sync_last_7_days *)

Enters(s, next) == phase' = [phase EXCEPT ![s] = next]

gateAndPasses == <<userVars, passesAlone>>

\* The countdown START_DELAY_SECONDS outlasts the request, unless it does not.
Due == underway = {} \/ "early" \in setbacks

\* Mutant of StartSync: a sync that finds the gate closed counts as done.
StartSync_Stamped(s) ==
    /\ phase[s] = "queued"
    /\ Due
    /\ Enters(s, IF gateOpen THEN "fetch" ELSE "stamp")
    /\ UNCHANGED <<gateAndPasses, cursor, mailboxVars, synced, queued, seen, watch, failing>>

\* The gate is asked again, of what is committed, then ensure_labels, whose failure
\* is logged.
StartSync(s) ==
    /\ phase[s] = "queued"
    /\ Due
    /\ Enters(s, IF gateOpen THEN "fetch" ELSE "idle")
    /\ UNCHANGED <<gateAndPasses, cursor, mailboxVars, synced, queued, seen, watch, failing>>

\* fetch_recent_emails: newer_than:30d -from:me, which leaves out what the user
\* sent or drafted.
Received(m) == KindOf[m] \in {"inbox", "held"}

Fetch(s) ==
    /\ phase[s] = "fetch"
    /\ seen' = [seen EXCEPT ![s].mail = {m \in Arrived : Received(m)}]
    /\ Enters(s, "backfill")
    /\ UNCHANGED <<gateAndPasses, cursor, mailboxVars, synced, queued, watch, failing>>

\* queue_unlabelled; a message that two syncs fetch is queued by both.
Backfill(s) ==
    /\ phase[s] = "backfill"
    /\ queued' = queued \cup seen[s].mail
    /\ Enters(s, "profile")
    /\ UNCHANGED <<gateAndPasses, cursor, mailboxVars, synced, seen, watch, failing>>

\* _seed_history_cursor: get_profile ...
Profile(s) ==
    /\ phase[s] = "profile"
    /\ seen' = [seen EXCEPT ![s].at = Len(history)]
    /\ Enters(s, "seed")
    /\ UNCHANGED <<gateAndPasses, cursor, mailboxVars, synced, queued, watch, failing>>

\* Mutant of Seeds: the cursor is written whether or not it is set.
Seeds_Always == TRUE

\* set_history_id(only_if_unset=True)
Seeds == ~seeded

\* ... and the write.
Seed(s) ==
    /\ phase[s] = "seed"
    /\ cursor' = IF Seeds THEN seen[s].at ELSE cursor
    /\ before' = IF seeded THEN before ELSE {history[i] : i \in 1..seen[s].at}
    /\ seeded' = TRUE
    /\ Enters(s, "watch")
    /\ UNCHANGED <<gateAndPasses, synced, queued, seen, watch, failing>>

\* Whatever fails in _seed_history_cursor is logged, and the sync goes on.
SeedFails(s) ==
    /\ "sync" \in setbacks
    /\ phase[s] \in {"profile", "seed"}
    /\ Enters(s, "watch")
    /\ UNCHANGED <<gateAndPasses, cursor, mailboxVars, synced, queued, seen, watch, failing>>

\* set_watch_expiry
SetExpiry == watch' = WatchLife /\ failing' = 0

\* Mutant of Watched: the watch is taken out for anyone.
Watched_Ungated ==
    \/ SetExpiry
    \/ "push" \in setbacks /\ UNCHANGED <<watch, failing>>

\* install_watch: the gate, users.watch, set_watch_expiry.  It never raises.
Watched ==
    \/ gateOpen /\ SetExpiry
    \/ (gateOpen => "push" \in setbacks) /\ UNCHANGED <<watch, failing>>

InstallWatch(s) ==
    /\ phase[s] = "watch"
    /\ Watched
    /\ Enters(s, "stamp")
    /\ UNCHANGED <<gateAndPasses, cursor, mailboxVars, synced, queued, seen>>

\* _stamp_initial_sync
Stamp(s) ==
    /\ phase[s] = "stamp"
    /\ synced' = TRUE
    /\ Enters(s, "idle")
    /\ seen' = [seen EXCEPT ![s] = Unseen]
    /\ UNCHANGED <<gateAndPasses, cursor, mailboxVars, queued, watch, failing>>

\* The task dies, or the fetch raises; nothing starts it again but MaybeStart.
SyncDies(s) ==
    /\ "sync" \in setbacks
    /\ phase[s] # "idle"
    /\ Enters(s, "idle")
    /\ seen' = [seen EXCEPT ![s] = Unseen]
    /\ UNCHANGED <<gateAndPasses, cursor, mailboxVars, synced, queued, watch, failing>>

SyncStep(s) ==
    \/ StartSync(s) \/ Fetch(s) \/ Backfill(s) \/ Profile(s) \/ Seed(s)
    \/ InstallWatch(s) \/ Stamp(s)

-----------------------------------------------------------------------------
(* The watch, Gmail's pushes and the beat *)

\* Mutant of NeedsRenewal: the last day of the margin is left out.
NeedsRenewal_DayLate == seeded /\ watch < Margin

\* list_watches_needing_renewal
NeedsRenewal == seeded /\ watch <= Margin

\* renew_watches, hourly.
Renew ==
    /\ NeedsRenewal
    /\ Watched
    /\ UNCHANGED <<vars, setbacks, onboarded, entitled, underway, mailboxVars, syncVars>>

\* A day goes by.  A watch that is due is renewed in the course of it, unless all
\* of the day's renewals fail; that happens Outage days in a row at most, or for ever.
NextDay ==
    /\ watch > 0
    /\ watch' = watch - 1
    /\ IF NeedsRenewal /\ gateOpen /\ "push" \notin setbacks
       THEN "outage" \in setbacks /\ failing < Outage /\ failing' = failing + 1
       ELSE UNCHANGED failing
    /\ UNCHANGED <<vars, setbacks, onboarded, entitled, underway, mailboxVars, syncVars>>

\* _poll skips a mailbox without a cursor.
Pollable == seeded

\* A free worker takes the pass; which of them makes no difference.
BeginPass ==
    LET free == {p \in Poller : pc[p] = "idle"}
    IN  free # {} /\ Begin(CHOOSE p \in free : TRUE)

\* gmail_push: a notification is verified, parsed for its address alone, resolved
\* to the user and handed to poll_user, where a closed gate, a held lock or a NULL
\* cursor drops it.  It names no message and no position, and may be lost, late or
\* repeated: a watch means that one may come.
Push ==
    /\ watch > 0
    /\ Pollable
    /\ BeginPass
    /\ UNCHANGED onboardingVars

\* poll_all: every live connection with a cursor.
Beat ==
    /\ Pollable
    /\ BeginPass
    /\ UNCHANGED onboardingVars

OnboardingNext ==
    \/ \E m \in Msg : Arrive(m) /\ UNCHANGED onboardingVars
    \/ Complete \/ Activate \/ Lapse
    \/ \E half \in Half : Commit(half) \/ RollBack(half)
    \/ \E s \in Syncer : SyncStep(s) \/ SeedFails(s) \/ SyncDies(s)
    \/ Renew \/ NextDay
    \/ Push \/ Beat
    \/ \E p \in Poller : (PassStep(p) \/ PassFault(p)) /\ UNCHANGED onboardingVars
    \/ ExpireLock /\ UNCHANGED onboardingVars

OnboardingSpec == OnboardingInit /\ [][OnboardingNext]_boxVars

\* Celery beat starts a pass every minute (poll_all) and a renewal every hour, a
\* worker runs the task it has taken to its end, a request ends, Redis expires keys
\* and days pass.
Fairness ==
    /\ WF_boxVars(Beat)
    /\ \A p \in Poller : WF_boxVars(PassStep(p) /\ UNCHANGED onboardingVars)
    /\ WF_boxVars(ExpireLock /\ UNCHANGED onboardingVars)
    /\ \A s \in Syncer : WF_boxVars(SyncStep(s))
    /\ \A half \in Half : WF_boxVars(Commit(half) \/ RollBack(half))
    /\ WF_boxVars(Renew)
    /\ WF_boxVars(NextDay)

FairSpec == OnboardingSpec /\ Fairness

-----------------------------------------------------------------------------
(* Properties *)

\* The messages the next pass that starts here takes up: MAX_MESSAGES_PER_POLL of
\* them, beyond the cursor.
NextBatch == {history[i] : i \in {j \in 1..Len(history) : cursor < j /\ j <= cursor + BatchCap}}

\* A message that comes after the cursor is seeded, and within one batch of it,
\* reaches its task, although pushes are lost or find a pass running, first syncs
\* fail, die or run twice, passes overlap, each with its own idea of the cursor, and
\* outlast their lock; the gate has to stay open, and no pass may fail in the middle.
\* Nothing is promised of a longer backlog: _poll cuts it at the cap and moves the
\* cursor past the rest.
EveryMessageHanded ==
    <>[]gateOpen /\ faults \subseteq {"slow"} =>
        \A m \in Msg :
            (m \in NextBatch \ before /\ Wanted(m) /\ seeded) ~> handed[m] > 0

\* "an enqueue that races this request's commit (or survives its rollback) is
\* harmless" (complete_onboarding).  When the halves come one after the other and a
\* sync that fails comes to nothing, an account that stays entitled gets its cursor.
\* When a sync runs before the commit it finds the gate closed, and when the halves
\* overlap neither sees the other: then it takes a further request, and the account
\* gets its cursor as long as requests keep coming.
FirstSync ==
    /\ <>[]gateOpen
    /\ "sync" \notin setbacks
    /\ setbacks \cap {"early", "overlap"} = {} \/ []<><<Complete \/ Activate>>_boxVars
    => <>seeded

\* "the renewal sweep runs hourly, so this tolerates a long run of failures before
\* push actually stops" (gmail_poll.WATCH_RENEW_MARGIN): once installed, the watch of
\* a polled mailbox whose account does not lapse never runs out, although its
\* renewals fail for Outage days.  A sync that fails to seed the cursor installs a
\* watch that nobody renews, and a repeated sync may seed beside its last day.
WatchHolds ==
    [][ /\ watch > 0 /\ seeded /\ setbacks \cap {"lapse", "push"} = {}
        /\ ~({"again", "sync"} \subseteq setbacks)
        => watch' > 0 ]_boxVars

\* "a lapsed account stops generating push traffic instead of merely having it
\* discarded downstream" (install_watch).
LapsedGoesQuiet == <>[](onboarded /\ ~entitled) => <>[](watch = 0)
=============================================================================
