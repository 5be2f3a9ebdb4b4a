# InboxPilot in TLA+

This directory specifies InboxPilot, the mail assistant of this repository: TLA+
modules that model its components, TLC configurations that check them on small
instances, and theorems that TLAPS proves for every instance.

Source paths are relative to the application, `src/` of the repository, unless they
begin with `tests/`, `infra/` or `alembic/`.

## The system

InboxPilot is a FastAPI application and a set of Celery workers over Postgres and
Redis; RabbitMQ carries the tasks. It watches a user's Gmail mailbox, classifies
what comes in, holds mail and releases it in batches, drafts answers, runs commands
that users email to themselves or type into a chat, sends bots to meetings and mails
their recaps, takes bookings on public pages, and charges for it through Razorpay.

Requests, webhooks and tasks share state only through Postgres rows, Redis keys and
the external services. A request has one database session, committed when its handler
returns (`core/database.get_db`); most tasks have one or a few. Nothing takes row
locks explicitly; what keeps two of them apart is a Redis lock (`core/locks.single_run`),
a Redis claim (`core/idempotency`), a database constraint, or nothing.

### Inventory

| component | state | operations | meets | hard | correct when |
| --- | --- | --- | --- | --- | --- |
| mail arrival (`workers/jobs/gmail_poll.py`) | cursor in `google_connections`; lock and claims in Redis | beat and push start a pass; a pass walks the history, claims, enqueues, moves the cursor | Gmail's history, the tasks it enqueues, the billing gate | overlapping passes, lock expiry, death between claim and enqueue, expired history | each message reaches one task; nothing is passed over |
| first sync and push watch (`sync_last_7_days.py`, `install_watch`, `renew_watches`) | `initial_sync_at`, the first cursor, Gmail's watch | start, fetch, seed, install, renew, stop | the wizard, billing, mail arrival | repeated, failing and dying syncs; a watch that lapses silently | an entitled account gets its cursor, and its watch holds; a lapsed one falls silent |
| email commands (`handle_command_email.py`) | reply registrations and counters in Redis | start, act, cap, send, register, label | mail arrival, which reads the replies back | a reply taken for a command | bounded replies, no loop |
| bookings (`services/scheduling/*`, `api/v1/scheduling*.py`) | `scheduling_*` rows, busy cache, host's calendar, letters | create, cancel, reschedule, confirm, page views, the host's settings | Google Calendar, guests | read-then-insert races, half-done Google calls, stale cache | no double booking; rows, calendar and guests agree |
| mailman hold filter (`services/mailman/filters.py`) | settings row, Gmail filters | start, stop, VIP change, VIP command | Gmail, email commands, chat | delete-then-create against a transaction | one filter, with the stored rules, while active |
| mailman delivery (`mailman_tick.py`, `scheduler.py`, `gmail_ops.py`) | `last_delivered_at`, labels in Gmail | tick, release, settings | the hold filter's label, beat | missed and overlapping ticks, quiet hours | held mail comes out, in batches, never in the quiet hours |
| billing (`api/v1/billing.py`, `services/billing/*`) | `subscriptions`, `users.onboarded_at`, `initial_sync_at` | checkout, cancel, webhook, onboarding | Razorpay, the mail gate | reordered and repeated events, news later than a request | one trial, one mandate, a true mirror |
| meeting notetaker (`meetings_sweep.py`, `process_meeting.py`, `api/v1/meetings.py`) | `meetings` | sweep, join now, join link, enable, cancel, delete, callbacks, recap | Recall, the calendar, usage counters | bots booked outside the transaction, callbacks in any order | one bot per meeting, recalled when not wanted; one recap, metered once |
| meeting media and retention (`services/meetings/media.py`, `recording.py`, `retention_sweep.py`, `transcribe_media.py`) | media columns of `meetings`, the bucket | reserve, confirm, transcribe, link, sweep, prune, delete | the notetaker's rows, S3 | the object and the row are not written together | no orphaned object, no pruned media back, one recap, one charge |
| drafts (`drafts_sweep.py`, `services/drafts/*`) | `draft_settings`, `usage_counters`, a Gmail label | reply pass, follow-up pass, settings | Gmail, entitlements | a budget read once per pass under a lock that expires | within the monthly quota, no second draft |
| classification (`services/classify`, `services/categorization`) | taxonomy rows, Gmail labels | classify, relabel, reclassify, sync a category, edit the taxonomy | mail arrival, Gmail | a taxonomy edited under queued tasks that hold snapshots of it | one category label per thread; a whole taxonomy |
| Google grant (`integrations/google/credentials.py`, `client.py`) | `google_connections`, an in-process cache, a Redis lock | connect, refresh, call, revoke, disconnect | every Gmail and Calendar call | refresh against revocation and reconnect; a cache in every process | a fresh grant is not marked dead for an old one; a withdrawn one falls out of use |
| chat (`api/v1/chat.py`, `services/chat/*`, `services/commands/*`) | conversations and messages | ask, decide, delete | the hold filter, every component an action writes to | a stream that outlives its client; a crash between effects and commit | nothing runs twice or after a dismissal; no hole in the transcript |
| usage counters and entitlements (`services/billing/usage.py`, `entitlements.py`) | `usage_counters` | check, add | drafts, notetaker, media | tested before, counted after | within the quota |
| periodic user mail (`reminders_sweep.py`, `routines_sweep.py`, `scheduling_reminders.py`) | stamps on rows | three sweeps | Gmail | one commit after all sends | once each |
| sessions and invites (`services/auth`) | refresh tokens, invites | login, rotate, logout | — | — | sign-up stays gated |
| digests, dashboard, notes | rows of one user | — | model calls | — | texts |
| shell (`main.py`, `worker.py`, `beat_schedule.py`, `core/config.py`) | — | wiring; beat: mailman, poll, routines, reminders, meetings every 60 s, drafts and booking reminders every 300 s, follow-ups and watch renewal hourly, retention daily | all | — | — |

`PROJECT.json` lists each with its status, and the hazards with the properties that
cover them, or a note on why none does.

## Modules

| module | models | abstracts |
| --- | --- | --- |
| `MailArrival` | passes over one mailbox: history, gate, lock, the registry of our own messages and the claims, asked one after the other, cursor, enqueueing | what a message is is a `Kind` |
| `MailHandoff` | what mail arrival promises: at most one task per arrived message | |
| `Onboarding` | the wizard and the subscription as requests that queue the first sync and commit or roll back afterwards, first syncs, the push watch, pushes and the beat; EXTENDS `MailArrival` | days; the content of the backfill |
| `CommandEmail` | the command task, EXTENDS `MailArrival`: replies arrive as mail and may be read back | the command's meaning and the reply's text |
| `Booking` | rows, calendar, busy cache and the requests that create, cancel and move | one host, a day of a few ticks; time zones |
| `BookingPage` | the page around `Booking`, which it EXTENDS: weekly hours, the override of a day, the meeting type, views that fill the cache, letters | hours are a set of starts; slugs and questions |
| `SlotLedger` | what bookings promise: no overlapping slots, ever | |
| `HoldFilter` | the settings row, Gmail's filters and start, stop, VIP requests | VIP rules are one value |
| `Chat` | turns, proposals and decisions of one conversation; EXTENDS `HoldFilter`, which a VIP action rebuilds | what an action writes is one of three kinds |
| `Delivery` | the minute clock, the schedule's three modes, ticks, pages of mail | a day of five minutes; the kinds of label |
| `Billing` | checkout, cancel, Razorpay's events, access, the start of the first sync | plans, prices, customer ids |
| `Notetaker` | one event or one link: row, bots, callbacks, tasks, user requests, the bot quota; of an upload only what it does to the row | titles, attendees, texts |
| `MeetingMedia` | the media of one meeting: keys, bucket, upload URLs, transcriptions, janitor, retention | signatures, quotas, texts |
| `Drafts` | both draft passes over one mailbox: lock, budget, label, meter, month | prompts, the steering files |
| `Categorization` | the taxonomy, its requests, classification tasks, category syncs, the label command, Mailman's hold as far as it moves labelled mail | which message a rule matches; the mark-read and star actions |
| `Grant` | the row, processes with a cache each, refreshes under a lock, consents, disconnects, retried calls | scopes, encryption |
| `*Proofs` | the theorems about `MailArrival`, `CommandEmail`, `Onboarding` and `Categorization` (`MailArrivalProofs`), `Booking` and its page, `HoldFilter`, `Chat` and `Delivery` (`MailmanProofs`), `Billing`, `Grant`, `Drafts`, `MeetingMedia`, `Notetaker` | |
| `MC*` | constants of the small instances and the sets of scenarios | |

Each module translates whole handlers. A handler runs as a sequence of actions cut
where other actors can see it between two of its steps: at a commit, at a call of
an external service, at a Redis operation. What it read before such a point it keeps
in a record (`job`, `req`, `ses`, `pass`, `task`, `proc`) and writes from there, as the
code's ORM objects do. External services (Gmail, Google Calendar, Razorpay, Recall, S3)
are modelled as far as the code relies on them, and are marked external in the map where
they act by themselves.

How components meet: `Onboarding` and `CommandEmail` run the passes of `MailArrival` in
the same state, the first to feed them a gate, a cursor and pushes, the second to let
them read back what the command task sends. `BookingPage` makes every step of `Booking`
and adds hours, views and letters to it. `Chat` runs its VIP actions as requests of
`HoldFilter`. `Delivery` takes held mail as it comes; the subscription of `Billing` is the
gate of `MailArrival` and the plan of `Drafts` and `Notetaker`, where it changes freely.

### Scenarios

What can go wrong is a value, not a variant of the specification: `Init` chooses
`faults` (`circ`, `mishaps`, `setbacks`, `ways`) from the constant `Scenarios`, and an action that is
a misfortune is guarded by a member of it. One run therefore covers several combinations,
and a property that the code only keeps without some misfortune says so in its antecedent.
The combinations that a run leaves out are those that multiply states without a new
interplay; each misfortune occurs in at least one.

Where a property holds of all but certain things, a variable of the specification remembers
which those are, and nothing in the code reads it: `relinked` (`Billing`) that an event's notes
have moved the row, `spared` (`Notetaker`) the bots a delete left alone, `astray`
(`Categorization`) the labelled mail that a sync passed over or a release put into the inbox.

## Runs

| run | instance | shows |
| --- | --- | --- |
| `arrival` | 3 messages (received, a command, held), 2 passes, a batch of 2 | `NothingSkipped`, `CommandsAtMostOnce`, implements `MailHandoff` |
| `onboarding` | 2 messages around the first sync, 2 syncs, 2 passes, a batch of 1, 2 requests that may overlap and be slow to commit, a watch of 3 days renewed in its last 2, a day of failing renewals | `EveryMessageHanded`, `FirstSync`, `WatchHolds`, `LapsedGoesQuiet` |
| `commands` | 2 commands, 3 replies, cap of 1, 1 window's end | `CapHolds`, `RegisteredStaysOut` |
| `bookings` | 2 bookings, 2 requests, starts 0, 1, 3 of 2 ticks, a tick of buffer, a cap of 2, a host event | `PendingInHand`, `EverybodyAgrees`, `BuffersKept`, implements `SlotLedger` |
| `delivery` | a day of 5 minutes, 3 schedules, 2 messages, pages of 1, 2 ticks at once | `HeldIsReleased`, `BatchesApart`, `QuietHoursKept` |
| `billing` | 2 subscriptions, 2 handlers, 3 days, a trial of 1, periods of 1 and 2; 6 combinations of circumstances | `FollowsRazorpay`, `SyncStarts`, `TrialOnce`, `PeriodForward` |
| `notetaker` | 2 bots, 2 rows, 2 sessions, 2 user requests (joins, uploads, cancels, deletes), 1 retry | `NoStrayBot`, `AccountedOnce`, `VanishedIsRecalled`, `NeverWalkedBack` |
| `media` | 2 keys, 2 sessions, 4 user requests, 2 queued transcriptions, 1 retry | `BucketMatchesRow`, `RecordedIsInHand`, `AccountedOnce`, `PrunedStaysPruned` |
| `drafts` | 3 messages in 2 threads (1 of them sent), 2 passes, an allowance of 1, 2 months | `QuotaKept`, `DraftedOnce` |
| `categorization` | 2 messages of one thread, a built-in and a custom category, 2 workers, 2 sessions, syncs of 1 message; 13 combinations of requests and circumstances | `OneCategoryPerThread`, `TaxonomyIsWhole`, `InboxFollowsCategory` |
| `grant` | 2 processes, 2 consents, 3 ticks: a snapshot lives 2, a token 3 | `RowFollowsConsent`, `StaleForAMinute`, `SentAtMostOnce` |
| `chat` | 2 turns of up to 2 actions, 2 requests, 5 filter ids, 2 rule sets | `RunsOnce`, `TranscriptWhole`, `SuccessHolds`, `FilterAgrees` |

All runs pass, and all are exhaustive. Every property also has a mutant of the code, a
definition named `<Definition>_<Bug>` beside the one it would replace, under which it fails.

The bounds are the smallest at which the interesting cases happen. Two actors are
enough for a race on one row, one lock or one cache, since the code has no handler that
reacts to the number of others; three messages and a batch of two make a backlog, a page and
a replay, and two messages with a batch, a page or a sync of one exceed it; a replaced subscription, filter, bot, key or consent needs two (five filter ids,
because each failed request can leave one behind); three starts give an overlap, a missing
buffer and a kept one; two days after the first end a trial and a period; two messages of
one thread and two workers let a thread be labelled from two snapshots; a quota of one draft
is passed by the second. `MaxReplies`, `MaxWindows`, `Horizon`, `MaxRow`, `MaxKey`, `MaxTurn`,
`MaxJob`, `MaxWire`, `MaxDraft` and `MaxMonth` bound what the code does not: the cap is 5
an hour in the code and 1 here, and the rest count user actions, days, queued tasks
and callbacks under way.

`MC*` modules declare symmetry where identifiers are only compared for equality (passes,
requests, sessions, bookings, subscriptions, bots, consents, turns); the runs with liveness
have none. `chat` lets a new filter take only the first free id, by the action constraint
`InOrder`: ids are compared for equality only, so what is cut are renamings. Three
state constraints keep products of circumstances small: `OneTurn` tries a process that
may die with one turn of the chat; `OneCallback` lets callbacks of a meeting come one at
a time, but for a pasted link whose sessions do not overlap, and none come beside
overlapping sessions of a calendar event, which `OneRequest` tries with one request of the
user, as it does a quota; `Monthly` tries overlapping checkouts with one length of the billing interval. `onboarding`,
`bookings` and `media` do not check for deadlock, because their systems may stop: a
lapsed account whose watch has run out and whose mail has come waits for nothing, a host who
deleted the meeting type with no booking made has nothing left to do, and a deleted meeting
has no more requests.

### Fairness

Two runs are about liveness.

- `onboarding`: the beat enqueues a pass every minute and a renewal every hour
  (`beat_schedule.py`), a worker runs a task it has taken to its end, Redis expires keys and
  days pass, and a request ends, so a pass begun by the beat, each step of a pass or a sync, the end
  of a request (`Commit` or `RollBack`), `ExpireLock`, `Renew` and `NextDay` are weakly fair.
  Pushes, users, payments and misfortunes are not; a worker that
  dies and a Gmail call that fails are actions of their own and need never happen.
- `delivery`: minutes pass, and a tick that was sent is run to its end, so `NextMinute` and
  each `Tick(j)` are weakly fair. Users, mail and failures are not.

## What is proved

Theorems hold for every value of the constants that satisfies the module's assumptions
(any number of messages, passes, bookings, requests, subscriptions and days, any scenarios).

| module | theorems | argument |
| --- | --- | --- |
| `MailArrivalProofs` | `TypeCorrect`, `AtMostOnce`, `CommandsOnce`, `ImplementsHandoff`, `SinglePass`, `NothingLost`; with commands `CommandTypeCorrect`, `OursStayOut`, `CommandsOnceWithReplies`, `CapAlwaysHolds`; with the first sync `OnboardingTypeCorrect`, `CommandsOnceOnboarding`, `WatchNeverRunsOut`; of categorization `CategorizationTypeCorrect`, `OneLabelPerThread`, `TaxonomyStaysWhole`, `MailFollowsCategory` | `ClaimInv`: a handed-off message stays claimed, and between claim and enqueue exactly one pass has it in hand; `HandedAtMostOnce` is not inductive alone because it does not see the pass that holds a claim. `TodoArrived` (passes hold only mail that arrived) for the refinement, and that a running pass owns the lock for `SinglePass`. `SkipInv` for `NothingLost`: what a pass read of the history it has handed off or still has to do, up to the cursor it is about to write. With commands, every step is one of mail arrival's or one that leaves claims and hand-offs alone, so `ClaimInv` carries over; `OursStayOut` needs no more than what each step does to the registry and to the message a pass has in hand; `CapInv` counts replies sent against the permits of the counter and its windows; `CapLifts` is inductive with it. With the first sync, `WatchInv`: a polled watch has `Margin` days left or has lost of them what renewals have failed, and no watch is installed before the cursor is seeded, unless a sync fails. Of categorization, `LabelInv`: without the label command a label made for a category that has no row yet is on no mail and in no snapshot (`Fresh`), so the row can be committed beside both. `OneInv`: where the taxonomy does not grow under a snapshot and lookups answer, a snapshot holds the whole taxonomy, so the winner it files leaves no other label of it. `WholeInv`: what a request alone checked when it began is still so when it commits. `InboxInv`: mail that somebody wants out of the inbox is out, or is astray, or a sync that takes it out is on its way, and what a sync puts back nobody wants out |
| `BookingProofs` | `BookingTypeCorrect`, `PageTypeCorrect`, `NeverDoubleBooked`, `PendingIsDecided`, `ImplementsLedger`, `BuffersAreKept`, `AllAgree` | stated of `WideSpec`, whose steps are those of `Booking` with and without the page, so they hold of both. `RowStep`: any step changes at most one row, and a row that starts or moves to be live passes the constraint. `BufferInv`: a request alone judges by the rows it will write beside. `EventInv` ties rows to calendar events through what each request holds; `AgreeInv` and `ToldInv` tie letters to rows |
| `MailmanProofs` | `HoldFilterTypeCorrect`, `SuccessMeansHeld`, `ChatTypeCorrect`, `ChatSuccessMeansHeld`, `ChatKeepsFilter`, `ProposalRunsOnce`, `NoHoleInTranscript`; of delivery `DeliveryTypeCorrect`, `BatchesStayApart`, `QuietHours` | `LoneInv` and `SoloInv`: what a request that is alone has read is what the row still says, from its read to its commit, and a filter it is about to record has the rules it asked for; `OneInv` and `RulesInv` follow the filters each step leaves on Gmail; `ConvInv`, `OnceInv` and `TransInv` tie a turn's stage to its proposal's effects and to the transcript. Of delivery, `OneTick`: unless ticks are slow, the one in progress is of this minute, outside the quiet hours it read; `Judged`: what it judged due is due until it releases |
| `BillingProofs` | `BillingTypeCorrect`, `TrialsAreOnce`, `PeriodsAdvance`, `RowFollowsRazorpay`, `SecondHalfStarts` | `Draft`: a handler writes the trial it read, and no earlier period than it read; `Turn` and `Serial`: without overlap, what a handler read is what the row still says, but for an event between the two transactions of a checkout. `SyncInv`: who brings the second half has started the sync before it shows, and only a task ahead of a commit is missed. `Mandated`: until notes move the row, every subscription but the row's is unsold or over, and each handler knows which that is. `Mirrored`: the last event on the wire, or else the one in hand, or else the row, says what Razorpay says, and no period is known that Razorpay has not announced, which is why the staleness test drops no news |
| `GrantProofs` | `GrantTypeCorrect`, `SentOnce`, `RowIsItsConsents`, `StaleNoLonger` | `CoreInv`: a call that waits, refreshes or writes back holds a connection it could use. `NewInv`: unless stale refreshes meet rotated refresh tokens, the row is of a consent that was given and not disconnected, and each callback brings one of its own. `FreshInv`: without stale refreshes, what a process works with is of the connection that stands, or was when a snapshot's life had not passed since its withdrawal |
| `DraftsProofs` | `DraftsTypeCorrect`, `QuotaIsKept`, `NoSecondDraft` | `Alone`: unless passes outlast the lock, the one under way holds it. `Quota`: what a month counts and what passes are about to add to it stay within the allowance, so the counter does, although it is tested before the model is called and counted after. `Counted` adds up drafts, counts and unmetered passes (the sum of a function is the size of a disjoint union here, since sums by folds are out of the prover's reach). `Once`: a draft has its label or its pass is about to set it, and what a pass has still to consider has none |
| `MeetingMediaProofs` | `MediaTypeCorrect`, `MediaAccountedOnce`, `MediaBucketMatchesRow`, `MediaRecordedIsInHand`, `MediaPrunedStaysPruned` | `MakesInv` and `OnceInv`: the one row is made once, and a meeting is counted by the session that turns it to `recapped`. `SerialInv`: without tabs at once, a session holds what the row still says (`Sound`) or a version a merge will complete. `BucketInv`: a session that forgets a key has deleted its object, so a key of the row always has one. `HandInv`: a row that says a worker has it is in the hands of one, on the queue, or of the request about to queue it |
| `NotetakerProofs` | `NotetakerTypeCorrect`, `RecapNeverWalkedBack`, `NotetakerAccountedOnce`, `NoBotStrays`, `VanishedMeetingRecalled` | `NoteInv`: what each kind of session has read and drafted at each of its steps, and that a callback is of a bot that was called in. `SerialInv`: without overlap, one session at most is under way and it has read the row as it is, so that what it writes walks nothing back. `FinalInv`: a row, or a session's draft of it, that is delivered has its recap sent and a bot, so a callback or a task tried again leaves it. `OnceInv`: a row whose recap was mailed or whose seconds were added says so, or the one session that mailed it is about to write that it did. `StrayInv`: every live bot of the meeting is the one named by what its session is about to commit, and by the row when nobody is at work; `NoStrayBot` alone says nothing while a session has booked and not yet committed. `SpareInv` carries it beyond the end of a row: every live bot is of the row that is there or was spared, and what a delete is about to leave behind (`Deserts`) is what `Spares` says. `VisitInv`: a status past `scheduled` is of a bot that was called in, and so is a task to process; with `SweptInv`, what a sweep that misses the event has decided about the row it read, this gives the sweep's promise |

The type invariant of every component is a theorem, and so is every safety and action
property that a run checks.

The conditions in a property are part of its theorem: `FollowsRazorpay` speaks of
behaviours without overlap, late news and refusals in which no event's notes have moved the
row, and its second half of those with nothing but redeliveries; `NoStrayBot` leaves out the
bots a delete spared, `InboxFollowsCategory` the mail that is astray, `OneCategoryPerThread` and
`TaxonomyIsWhole` failing lookups and the label command; `FilterAgrees` of those in which the deletions and creations of
filters that may fail leave one; `RowFollowsConsent` and `NothingSkipped` of those their
antecedents name. The section after this one says what happens without them. Proofs moved
two conditions of `InboxFollowsCategory` from the instance into the property: without them,
`InboxInv` fails for two flips of one category that overlap, and for mail with two labels of
the taxonomy, and TLC shows both ways to archived mail in the inbox. `WatchHolds` got one
the same way: a sync that fails to seed the cursor installs a watch nobody renews, and a
repeated sync may seed beside its last day. The proof of `AccountedOnce` for media found the
model one action short of its bound: two tabs that read no row, one of which then inserts and
deletes, let the other insert a second, which the model's one row cannot hold; `Gone` now ends
that session, and the second row is outside the instance.

Only model-checked: liveness under fairness (`EveryMessageHanded`, `FirstSync`,
`LapsedGoesQuiet` and `HeldIsReleased`). Liveness and `ENABLED` are out of the prover's reach,
and so is what a recursive definition computes for every input.

## Where the code parts from its comments, and what it does not keep

Conditions on properties exclude behaviour that the code has and the models show when the
condition is dropped.

Against a comment, a docstring or a sibling:

- "Already-held mail keeps its `inboxos-later` label until the next delivery slot" after a
  stop of Mailman (`api/v1/mailman.py:104`), but `mailman_tick.py:34` serves active users only, so
  no slot comes before the next start;
- an abandoned payment modal "could be retried" (`api/v1/billing.py:96`), but while the trial
  of a first checkout runs the guard refuses the retry (`:254`);
- a checkout retried before Razorpay's news of the first arrives is "no worse for the user"
  (`api/v1/billing.py:108`), but the new subscription is written over the row that kept the
  period of the old one (`:348`), and its late events can leave a paying customer locked;
- `DELETE /meetings/{id}/bot` "already handles turning it off" (`api/v1/meetings.py:425`), but the
  next sweep puts a cancelled row whose event is still ahead back to pending, and books it
  (`services/meetings/store.py:90`);
- a thread can be nudged twice: the follow-up pass marks messages, and looks for threads
  (`services/drafts/follow_up.py:56`, `:63`, `:79`);
- "the connect callback seeds it too" (`sync_last_7_days.py:81`): it does not, so a sync whose
  profile read fails leaves the mailbox unpolled for good; and what arrives between the first
  sync's fetch and its seed is in neither;
- a backlog over the batch cap (`MAX_MESSAGES_PER_POLL`, `gmail_poll.py:208`) is cut and the cursor
  moved past it, against "the sweep still finds everything, just later" (`api/v1/webhooks.py:7`);
  `EveryMessageHanded` promises what lies within one batch of the cursor;
- "an enqueue that races this request's commit (or survives its rollback) is harmless"
  (`api/v1/users.py:31`): the first sync is queued before the commit with a countdown of five
  seconds (`services/billing/gate.py:32`); a task that still runs first finds the gate closed, returns
  "gated" (`sync_last_7_days.py:37`), and nothing queues it again but a further event or completion.
  `FirstSync` and `SyncStarts` say so (`early`, `hasty`);
- "running our own outgoing message as a command" is "not recoverable" (`gmail_poll.py:355`), but the
  registry is asked and the message claimed in two steps (`:359`, `:361`), and the reply is registered
  after it is sent: a reply registered between the two is run. `RegisteredStaysOut` is about passes
  that ask after the registration; `CapHolds` bounds what the others do;
- the row "mirrors Razorpay" (`models/billing.py`), but the `cancelled` event of a subscription
  that a checkout has replaced, when it comes after the checkout, is of no row's id, and the fallback to
  the notes, meant for "the first webhook" (`services/billing/webhooks.py:89`, `:131`), puts the row back
  on the cancelled subscription; the new mandate is then one the row does not name (`relinked`);
- deleting a meeting deletes "any bot still attending it" (`api/v1/meetings.py:378`), and "a pending or
  finished bot has nothing to recall" (`:392`): a row that enable or an upload put back to `pending`
  keeps its bot (`:242`, `:454`), and so does one that a late callback of an earlier bot has ended;
  deleting either recalls nothing, and the bot joins with no row left to find it by (`spared`);
- an upload of a recording for a delivered event takes the meeting back to `pending`
  (`api/v1/meetings.py:242`), although `_TERMINAL_STATUSES` (`api/v1/webhooks.py:67`) keeps callbacks
  from doing so; `NeverWalkedBack` names this one way;
- "One category per thread, always" (`services/categorization/pipeline.py:167`), but a name that does
  not resolve is skipped when the labels come off (`services/mailman/gmail_ops.py:148`), and a failed
  listing does not resolve either (`:48`): the winner goes on and the loser stays (`lookups`);
- a category's label is made with the category "so this cache never goes stale"
  (`services/classify/apply.py:26`), but the label command deletes any label by name
  (`services/commands/handlers.py:118`), and a worker that has provisioned the built-in labels once
  does not do so again: classifications then fail; and of a label made anew a worker still knows the
  old id, so it does not come off (`label`);
- "they mean their mailbox, not just future arrivals" (`sync_category_inbox.py:6`), but a sync moves 500
  messages at most (`:20`, `:41`) and nothing queues the rest, and Mailman's release puts mail that is
  already filed back into the inbox (`gmail_ops.py:194`); `InboxFollowsCategory` speaks of the rest.

Behaviour that conditions exclude:

- mail arrival: a pass that dies between claim and enqueue loses the message; with Redis
  failing, the walk over recent mail may hand one off twice;
- commands: a death between INCR and EXPIRE leaves a counter that never ends;
- onboarding: a sync that dies or cannot seed, repeated days later, may seed beside a watch that
  has run down unrenewed, and the watch can lapse before the next renewal;
- bookings: two guests at once may break the buffer and the daily cap; a booking cancelled while
  Google creates its event is confirmed again (`booking.py:158`); a pending row of a dead
  request keeps its slot; a move is judged against its own event on the calendar
  (`booking.py:248`);
- hold filter: a stop that overlaps a start leaves a filter on; one whose deletion fails
  does too;
- delivery: a tick slower than its minute may release in the quiet hours or twice; a release that
  cannot look up the hold label (`gmail_ops.py:192`) leaves it on mail that is in the inbox, and the
  next batch takes that mail again;
- billing: a failed cancellation leaves a second mandate; an event claimed before its
  handler failed is lost, since its redelivery is dropped; a reordered `authenticated` locks a
  payer; onboarding and the first event, at once, start no sync (`overlap`);
- notetaker: the sweep and `join_now` at once, or a sweep that dies before its one commit,
  book two bots; a row put back to `pending` with its bot id (`api/v1/meetings.py:454`) is never
  booked again, and the sweep does not recall its bot; late callbacks of a recalled bot set the
  status; two recap tasks at once mail and meter twice;
- media: two tabs that reserve for one event leave an object no row names; the janitor goes by
  the age of the row and not of the upload (`store.py:178`); a worker faster than the commit that
  queued it finds nothing to transcribe;
- drafts: a pass that outlasts its lock costs a draft over the quota and may draft a message
  again; `last_sweep_at` is stamped before the pass (`drafts_sweep.py:165`), so what a dying pass
  did not reach waits for the next one;
- categorization: a category committed while a task holds a snapshot without it may stay on a
  thread beside another, and if a flip of one then puts the mail back, the other no longer takes it
  out; two flips of one category at once can commit and sync in different orders; a rule can be
  pointed at a category that is being deleted;
- grant: a refresh that set out under an earlier consent marks the new connection dead when
  refused, and puts the earlier token back when answered; a disconnect acts on what its process
  had cached (`api/v1/integrations.py:160`); a snapshot is stamped just after it is read
  (`credentials.py:134`), which the model does in one step;
- chat: a client that leaves in mid-stream takes the answer with it; an approval that died before
  its commit can be given again, and what it did outside the database is then done again.

## Assumptions

- One mailbox, user, host, meeting or conversation: every key and row is per user, so they do
  not interact.
- The claims' TTL of a day and the registrations' of an hour outlast a behaviour; locks, the
  busy cache, snapshots and the reply counter expire by actions of their own. A message's
  labels do not change between history and fetch.
- Celery acknowledges early: a task whose worker dies is not run again.
- Billing: no comped users, `trial_consumed` is TRUE in every row the handlers make, a
  checkout begins only while a subscription id is left (`CanCreate`), onboarding repeats run
  alone, days pass only between requests.
- Notetaker and media: the sweep's lock holds for the length of a sweep; a session holds the row
  from its first flush to its end; a provider that has no bot left refuses.
- First sync: requests that overlap and tasks that run before a commit occur where the setbacks
  allow them; otherwise the countdown outlasts the request. `FirstSync` in the presence of these two
  needs completions or events to recur, which is stated in it and not assumed of the system.
- Delivery: mail arrives once; a schedule's minutes are those of the small day.
- Bookings: the day is past the minimum notice and within the horizon; a deleted meeting type is
  not made again.

## Not modelled

- Periodic user mail: three sweeps that send and stamp and commit once at the end. Their one
  hazard, a death between the sends and the commit, is listed; a module would restate the
  two lines it is in.
- Sessions, invites and sign-in: a token or an invite is a row spent in one short transaction
  that nothing else reads.
- Digests, dashboard, notes, activity: reads and single-row edits.
- Prompts, wording, parsing of model output, MIME, rendering; infrastructure and migrations.
- Clock changes and time zones in slots; the public endpoints' rate limits; the shell.
