-------------------------------- MODULE Drafts --------------------------------
(***************************************************************************)
(* The scheduled draft passes of one user: `drafts.sweep` writes replies   *)
(* to recent mail and `drafts.follow_up` writes nudges on threads that     *)
(* went quiet.  Both tasks share one Redis lock, read the settings and     *)
(* the month's remaining quota once, and then work through the mailbox.    *)
(* Nothing about a draft is stored: a label on the source message is all   *)
(* that keeps the next pass from drafting for it again.                    *)
(*                                                                         *)
(* Messages are numbers in the order of their dates.  A fresh message is   *)
(* inside the sweep's lookback, an aged one outside it and old enough to   *)
(* be chased.  The other users of a pass are left out: a user's pass       *)
(* touches nothing of theirs but the lock.                                 *)
(***************************************************************************)
EXTENDS Integers, FiniteSets, FiniteSetsExt

CONSTANTS
    Message,        \* dates: a finite set of naturals
    Sent,           \* those of them the user wrote
    Thread,         \* [Message -> thread]
    CategoryOf,     \* [Message -> category key]
    Pass,           \* task runs that may be alive at once
    Allowance,      \* Starter's drafts_per_month
    SweepCeiling,   \* SWEEP_SAFETY_CEILING
    NudgeCeiling,   \* MAX_PER_SWEEP
    MaxDraft,       \* bound: drafts of one message
    MaxMonth,       \* bound: billing months
    Scenarios       \* sets of circumstances a behaviour may meet

ASSUME DraftsAssumption ==
    /\ Message \subseteq Nat /\ IsFiniteSet(Message) /\ Message # {} /\ Sent \subseteq Message
    /\ IsFiniteSet(Pass)
    /\ Allowance \in Nat \ {0}
    /\ SweepCeiling \in Nat /\ NudgeCeiling \in Nat
    /\ MaxDraft \in Nat /\ MaxMonth \in Nat
    /\ Scenarios \subseteq SUBSET {"overrun", "services", "crash", "owner", "pro"}

VARIABLES
    circ,           \* what this behaviour may meet
    mail,           \* each message: not there yet, fresh or aged
    marked,         \* messages that carry DRAFTED_LABEL
    drafts,         \* Gmail drafts written for each message
    settings,       \* the draft_settings row
    plan,           \* what the subscription entitles to; "none" is locked
    last,           \* last_sweep_at and last_follow_up_at: due or done
    month,          \* the billing month
    used,           \* usage_counters.drafts_generated by month
    lock,           \* the Redis key lock:drafts.quota exists
    pc, pass        \* each task run: its place and what it carries

user == <<settings, plan>>
box  == <<mail, marked, drafts>>
task == <<lock, pc, pass>>
vars == <<circ, box, user, last, month, used, task>>

Kind      == {"sweep", "follow"}
Category  == {CategoryOf[m] : m \in Message}
Months    == 0..MaxMonth
Place     == {"idle", "load", "stamp", "replied", "query", "next",
              "write", "mark", "meter", "release"}
Payload   == [on: BOOLEAN, follow: BOOLEAN, keys: SUBSET Category]
PassType  == [kind: Kind, config: Payload, limit: Nat,
              skip: SUBSET {Thread[m] : m \in Message}, left: SUBSET Message, created: Nat]
NoPass    == [kind |-> "sweep", config |-> [on |-> FALSE, follow |-> FALSE, keys |-> {}],
              limit |-> 0, skip |-> {}, left |-> {}, created |-> 0]

TypeOK ==
    /\ circ \in Scenarios
    /\ mail \in [Message -> {"absent", "fresh", "aged"}]
    /\ marked \subseteq Message
    /\ drafts \in [Message -> 0..MaxDraft]
    /\ settings \in Payload /\ (settings.on => settings.keys # {})
    /\ plan \in {"none", "starter", "pro"}
    /\ last \in [Kind -> {"due", "done"}]
    /\ month \in Months
    /\ used \in [Months -> Nat]
    /\ lock \in BOOLEAN
    /\ pc \in [Pass -> Place]
    /\ pass \in [Pass -> PassType]
    /\ \A p \in Pass : pass[p].created <= pass[p].limit

Init ==
    /\ circ \in Scenarios
    /\ mail = [m \in Message |-> "absent"]
    /\ marked = {}
    /\ drafts = [m \in Message |-> 0]
    /\ settings = [on |-> TRUE, follow |-> TRUE, keys |-> Category]
    /\ plan = "starter"
    /\ last = [k \in Kind |-> "due"]
    /\ month = 0
    /\ used = [n \in Months |-> 0]
    /\ lock = FALSE
    /\ pc = [p \in Pass |-> "idle"]
    /\ pass = [p \in Pass |-> NoPass]

(***************************************************************************)
(* What the queries answer.                                                *)
(***************************************************************************)

\* check(FEATURE_DRAFT): an entitled subscription, and quota left this month.
Entitled ==
    \/ plan = "pro"
    \/ plan = "starter" /\ used[month] < Allowance

\* remaining_drafts: what is left of a metered plan's month.
Remaining == Max({0, Allowance - used[month]})

\* effective_limit: what a pass of this kind may create.
Limit(kind) ==
    LET ceiling == IF kind = "sweep" THEN SweepCeiling ELSE NudgeCeiling
    IN  IF plan = "pro" THEN ceiling ELSE Min({ceiling, Remaining})

\* A mutant: the query does not exclude DRAFTED_LABEL.
Candidates_Marked(key) ==
    {m \in Message \ Sent : mail[m] = "fresh" /\ CategoryOf[m] = key}

\* candidate_query for one category's label.
Candidates(key) ==
    {m \in Message \ Sent : /\ mail[m] = "fresh" /\ m \notin marked
                            /\ CategoryOf[m] = key}

RepliedThreads == {Thread[m] : m \in {n \in Sent : mail[n] = "fresh"}}

\* The newest unmarked sent message of each thread, where no inbound mail of
\* the thread is newer.
QuietThreads ==
    LET sent == {m \in Sent : mail[m] = "aged" /\ m \notin marked}
    IN  {m \in sent :
            /\ \A n \in sent : Thread[n] = Thread[m] => n <= m
            /\ \A n \in Message \ Sent :
                  Thread[n] = Thread[m] /\ mail[n] # "absent" => n < m}

(***************************************************************************)
(* A task run.                                                             *)
(***************************************************************************)

At(p, place) == pc[p] = place

Goto(p, place) == pc' = [pc EXCEPT ![p] = place]

\* The message in hand: candidates come newest first.
InHand(p) == Max(pass[p].left)

\* Done with the message in hand, whether or not a draft came of it.
Drop(p) ==
    /\ pass' = [pass EXCEPT ![p].left = @ \ {InHand(p)}]
    /\ Goto(p, "next")

\* A mutant: one key per task.
Start_OwnKey(p, kind) ==
    /\ At(p, "idle") /\ \A q \in Pass : At(q, "idle") \/ pass[q].kind # kind
    /\ lock' = TRUE
    /\ pass' = [pass EXCEPT ![p] = [NoPass EXCEPT !.kind = kind]]
    /\ Goto(p, "load")
    /\ UNCHANGED <<circ, box, user, last, month, used>>

\* single_run: the beat's task takes the free lock; a locked one returns.
Start(p, kind) ==
    /\ At(p, "idle") /\ ~lock
    /\ lock' = TRUE
    /\ pass' = [pass EXCEPT ![p] = [NoPass EXCEPT !.kind = kind]]
    /\ Goto(p, "load")
    /\ UNCHANGED <<circ, box, user, last, month, used>>

\* drafts_follow_up passes over a user without follow-ups, unstamped.
PassedOver(kind) == kind = "follow" /\ ~settings.follow

\* _due_users: settings and remaining quota are read once for the whole pass.
LoadDue(p) ==
    LET kind == pass[p].kind
        due  == settings.on /\ last[kind] = "due" /\ Entitled /\ ~PassedOver(kind)
    IN  /\ At(p, "load")
        /\ IF due THEN /\ pass' = [pass EXCEPT ![p].config = settings,
                                               ![p].limit = Limit(kind)]
                       /\ Goto(p, "stamp")
                  ELSE Goto(p, "release") /\ UNCHANGED pass
        /\ UNCHANGED <<circ, box, user, last, month, used, lock>>

\* Stamped before the work, in a transaction of its own.
Stamp(p) ==
    /\ At(p, "stamp")
    /\ last' = [last EXCEPT ![pass[p].kind] = "done"]
    /\ Goto(p, IF pass[p].kind = "sweep" THEN "replied" ELSE "query")
    /\ UNCHANGED <<circ, box, user, month, used, lock, pass>>

\* The threads the user answered by hand; none when the lookup fails.
LookUpReplied(p) ==
    /\ At(p, "replied")
    /\ \E skip \in {RepliedThreads} \cup IF "services" \in circ THEN {{}} ELSE {} :
          pass' = [pass EXCEPT ![p].skip = skip]
    /\ Goto(p, "query")
    /\ UNCHANGED <<circ, box, user, last, month, used, lock>>

\* One category's candidates; a category whose query fails is passed over.
QueryCategory(p) ==
    /\ At(p, "query") /\ pass[p].kind = "sweep"
    /\ pass[p].created < pass[p].limit
    /\ \E key \in pass[p].config.keys :
          \E found \in {Candidates(key)} \cup IF "services" \in circ THEN {{}} ELSE {} :
             pass' = [pass EXCEPT ![p].config.keys = @ \ {key}, ![p].left = found]
    /\ Goto(p, "next")
    /\ UNCHANGED <<circ, box, user, last, month, used, lock>>

\* The quiet threads, read once; when a query fails the pass is over.
FindQuiet(p) ==
    /\ At(p, "query") /\ pass[p].kind = "follow"
    /\ \/ /\ pass' = [pass EXCEPT ![p].left = QuietThreads]
          /\ Goto(p, "next")
       \/ /\ "services" \in circ
          /\ Goto(p, "release") /\ UNCHANGED pass
    /\ UNCHANGED <<circ, box, user, last, month, used, lock>>

\* The limit is reached, or nothing is left to query.
PassEnds(p) ==
    /\ \/ /\ At(p, "query") /\ pass[p].kind = "sweep"
          /\ pass[p].created >= pass[p].limit \/ pass[p].config.keys = {}
          /\ Goto(p, "release")
       \/ /\ At(p, "next")
          /\ \/ pass[p].left = {} /\ Goto(p, IF pass[p].kind = "sweep" THEN "query" ELSE "release")
             \/ /\ pass[p].left # {} /\ pass[p].created >= pass[p].limit
                /\ Goto(p, "release")
    /\ UNCHANGED <<circ, box, user, last, month, used, lock, pass>>

\* draft_reply and draft_follow_up up to the model call: an answered thread is
\* left alone, and the plan is asked again, live, for each message.
Consider(p) ==
    /\ At(p, "next") /\ pass[p].left # {} /\ pass[p].created < pass[p].limit
    /\ IF Thread[InHand(p)] \in pass[p].skip \/ ~Entitled
       THEN Drop(p)
       ELSE Goto(p, "write") /\ UNCHANGED pass
    /\ UNCHANGED <<circ, box, user, last, month, used, lock>>

\* The model declines: the message is marked all the same.
Decline(p) ==
    /\ At(p, "write")
    /\ \/ marked' = marked \cup {InHand(p)}
       \/ "services" \in circ /\ UNCHANGED marked
    /\ Drop(p)
    /\ UNCHANGED <<circ, mail, drafts, user, last, month, used, lock>>

\* The model or Gmail fails; Gmail may have made the draft before it did.
WriteFails(p) ==
    /\ At(p, "write") /\ "services" \in circ
    /\ \/ UNCHANGED drafts
       \/ /\ drafts[InHand(p)] < MaxDraft
          /\ drafts' = [drafts EXCEPT ![InHand(p)] = @ + 1]
    /\ Drop(p)
    /\ UNCHANGED <<circ, mail, marked, user, last, month, used, lock>>

CreateDraft(p) ==
    /\ At(p, "write") /\ drafts[InHand(p)] < MaxDraft
    /\ drafts' = [drafts EXCEPT ![InHand(p)] = @ + 1]
    /\ Goto(p, "mark")
    /\ UNCHANGED <<circ, mail, marked, user, last, month, used, lock, pass>>

\* A label that does not land raises, and the pass goes on without metering.
MarkDrafted(p) ==
    /\ At(p, "mark")
    /\ \/ /\ marked' = marked \cup {InHand(p)}
          /\ Goto(p, "meter") /\ UNCHANGED pass
       \/ "services" \in circ /\ UNCHANGED marked /\ Drop(p)
    /\ UNCHANGED <<circ, mail, drafts, user, last, month, used, lock>>

\* One atomic increment of the current month's counter, best effort.
MeterDraft(p) ==
    /\ At(p, "meter")
    /\ \/ used' = [used EXCEPT ![month] = @ + 1]
       \/ "services" \in circ /\ UNCHANGED used
    /\ pass' = [pass EXCEPT ![p].left = @ \ {InHand(p)}, ![p].created = @ + 1]
    /\ Goto(p, "next")
    /\ UNCHANGED <<circ, box, user, last, month, lock>>

\* The finally block deletes the key, whoever set it.
Release(p) ==
    /\ At(p, "release")
    /\ lock' = FALSE
    /\ Goto(p, "idle")
    /\ pass' = [pass EXCEPT ![p] = NoPass]
    /\ UNCHANGED <<circ, box, user, last, month, used>>

\* The worker is killed outright: no finally block runs.
Crash(p) ==
    /\ "crash" \in circ /\ ~At(p, "idle")
    /\ Goto(p, "idle")
    /\ pass' = [pass EXCEPT ![p] = NoPass]
    /\ UNCHANGED <<circ, box, user, last, month, used, lock>>

\* The key's TTL is longer than any pass, but for one that overruns.
LockExpires ==
    /\ lock /\ ("overrun" \in circ \/ \A p \in Pass : At(p, "idle"))
    /\ lock' = FALSE
    /\ UNCHANGED <<circ, box, user, last, month, used, pc, pass>>

(***************************************************************************)
(* The user, the mailbox and the clock.                                    *)
(***************************************************************************)

\* PUT /drafts/settings: drafting may not be on without a category.
UpdateSettings(s) ==
    /\ "owner" \in circ /\ s # settings
    /\ s.on => s.keys # {}
    /\ settings' = s
    /\ UNCHANGED <<circ, box, plan, last, month, used, task>>

ChangePlan(to) ==
    /\ to # plan
    /\ to = "none" => "owner" \in circ
    /\ to = "pro" => "pro" \in circ
    /\ plan' = to
    /\ UNCHANGED <<circ, box, settings, last, month, used, task>>

\* Mail is received or sent, and grows old, in the order of its dates.
MailMoves(m) ==
    /\ \/ /\ mail[m] = "absent" /\ \A n \in Message : n < m => mail[n] # "absent"
          /\ mail' = [mail EXCEPT ![m] = "fresh"]
       \/ /\ mail[m] = "fresh" /\ \A n \in Message : n < m => mail[n] = "aged"
          /\ mail' = [mail EXCEPT ![m] = "aged"]
    /\ UNCHANGED <<circ, marked, drafts, user, last, month, used, task>>

FallDue(kind) ==
    /\ last[kind] = "done"
    /\ last' = [last EXCEPT ![kind] = "due"]
    /\ UNCHANGED <<circ, box, user, month, used, task>>

TurnMonth ==
    /\ month < MaxMonth
    /\ month' = month + 1
    /\ UNCHANGED <<circ, box, user, last, used, task>>

PassStep(p) ==
    \/ \E kind \in Kind : Start(p, kind)
    \/ LoadDue(p) \/ Stamp(p) \/ LookUpReplied(p)
    \/ QueryCategory(p) \/ FindQuiet(p) \/ PassEnds(p)
    \/ Consider(p) \/ Decline(p) \/ WriteFails(p) \/ CreateDraft(p)
    \/ MarkDrafted(p) \/ MeterDraft(p) \/ Release(p) \/ Crash(p)

Next ==
    \/ \E p \in Pass : PassStep(p)
    \/ LockExpires
    \/ \E s \in Payload : UpdateSettings(s)
    \/ \E to \in {"none", "starter", "pro"} : ChangePlan(to)
    \/ \E m \in Message : MailMoves(m)
    \/ \E kind \in Kind : FallDue(kind)
    \/ TurnMonth

Spec == Init /\ [][Next]_vars

(***************************************************************************)
(* Properties.                                                             *)
(***************************************************************************)

\* The sum of a function to the naturals.
Units(f) == UNION {{x} \X (1 .. f[x]) : x \in DOMAIN f}
Total(f) == Cardinality(Units(f))

Unmetered == {p \in Pass : pc[p] \in {"mark", "meter"}}

\* No month's counter passes Starter's allowance, although the quota is read
\* once at the start of a pass, tested again before the model is called and
\* counted only after the draft exists: the lock the two tasks share is what
\* keeps it exact (drafts_sweep.py:48-60).  A pass that outlasts the lock
\* costs at most one draft for each pass beside it.  And where nothing fails
\* the counters hold every draft that was written, also across a month's end.
QuotaKept ==
    /\ "pro" \notin circ =>
          \A n \in Months :
             used[n] <= Allowance + IF "overrun" \in circ THEN Cardinality(Pass) - 1 ELSE 0
    /\ {"services", "crash"} \cap circ = {} =>
          Total(drafts) = Total(used) + Cardinality(Unmetered)

\* A message is drafted for at most once, by whichever of the two tasks, over
\* any number of passes: the label lands before the next query is sent
\* (create.py:137-143).  A failed label, a death between the two calls and a
\* second pass beside an overrun one are what the code does not survive.
DraftedOnce ==
    {"services", "crash", "overrun"} \cap circ = {} =>
        \A m \in Message : drafts[m] <= 1
=============================================================================
