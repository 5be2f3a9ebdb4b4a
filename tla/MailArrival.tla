----------------------------- MODULE MailArrival -----------------------------
(***************************************************************************)
(* How a new message enters InboxPilot (workers/jobs/gmail_poll.py): a     *)
(* poll_user pass walks one mailbox's Gmail history from a stored cursor,  *)
(* claims each message in Redis and hands it to the task that owns it.     *)
(*                                                                         *)
(* One mailbox.  Every key the code uses (the lock gmail-poll:<user>, the  *)
(* claims evt:<user>:<message>, the cursor on google_connections) is per   *)
(* user, so mailboxes do not interact.  A pass may be started by the       *)
(* 60-second reconciliation beat or by a push notification; both enqueue   *)
(* the same task, so a pass may begin at any time.                         *)
(***************************************************************************)
EXTENDS Naturals, Sequences

CONSTANTS
    Msg,        \* the message ids Gmail may give to this mailbox
    KindOf,     \* what each message is, read off its labels and recipients
    Poller,     \* worker slots that can run poll_user
    BatchCap,   \* MAX_MESSAGES_PER_POLL
    Scenarios   \* the combinations of misfortunes the instance allows

\* "inbox"  received mail with the INBOX label
\* "held"   received mail that Mailman's filter moved to the hold label
\* "note"   SENT, addressed to the user: a command
\* "sent"   SENT to somebody else
\* "draft"  DRAFT or TRASH: not processed
Kind == {"inbox", "held", "note", "sent", "draft"}

\* "crash"           a worker dies between two steps
\* "slow"            a pass outlasts the 120 s TTL of its lock
\* "redis"           a claim cannot be made, or its answer is lost
\* "gmail"           a Gmail call fails, with an error the pass catches or not
\* "hold_label"      the hold label's id cannot be resolved
\* "history_expiry"  Gmail forgets history the cursor has not passed
\* "lapse"           the subscription lapses and is paid again
Fault == {"crash", "slow", "redis", "gmail", "hold_label", "history_expiry", "lapse"}

ASSUME KindAssumption == KindOf \in [Msg -> Kind]
ASSUME CapAssumption == BatchCap \in Nat \ {0}
ASSUME FaultAssumption == Scenarios \subseteq SUBSET Fault

VARIABLES
    faults,     \* the misfortunes that may occur, chosen once per behaviour
    history,    \* the mailbox's messageAdded records, oldest first
    floor,      \* how many of them Gmail has expired
    gateOpen,   \* mail_gate_open: onboarded and entitled
    cursor,     \* google_connections.history_id, as a position in history
    lock,       \* the Redis key lock:gmail-poll:<user> exists
    claims,     \* messages whose evt: key exists
    ours,       \* messages whose ours: key exists
    handed,     \* how many tasks were enqueued for a message (2 = several)
    pc,         \* where each pass is
    job,        \* what a pass has read: cursor, target, hold label, kind of walk
    todo        \* the messages a pass has still to dispatch

arrivalVars == <<faults, history, floor, gateOpen>>
redisVars == <<lock, claims, ours>>
passVars == <<pc, job, todo>>
vars == <<faults, history, floor, gateOpen, cursor, lock, claims, ours, handed,
          pc, job, todo>>

Step == {"idle", "snapshot", "history", "profile", "reseed", "relist",
         "dispatch", "claim", "deliver", "release"}
Job == [since: Nat, upto: Nat, holdKnown: BOOLEAN, catchup: BOOLEAN]
NoJob == [since |-> 0, upto |-> 0, holdKnown |-> TRUE, catchup |-> FALSE]

Arrived == {history[i] : i \in 1..Len(history)}

\* SENT_LABEL \in label_ids
IsSent(m) == KindOf[m] \in {"note", "sent"}

\* Mutant of Interesting: mail under the hold label is not looked at.
Interesting_NoHeld(m, holdKnown) == KindOf[m] \in {"inbox", "note", "sent"}

\* gmail_poll._is_interesting: neither draft nor trash, and in the inbox, sent,
\* or under the hold label when its id could be resolved.
Interesting(m, holdKnown) ==
    \/ KindOf[m] \in {"inbox", "note", "sent"}
    \/ KindOf[m] = "held" /\ holdKnown

\* gmail_poll._enqueue: mail sent to somebody else is dropped, the rest is
\* handed to handle_command_email or classify_new_email.
Owned(m) == KindOf[m] # "sent"

\* The messages InboxPilot is there to process.
Wanted(m) == KindOf[m] \in {"inbox", "held", "note"}

\* Counters that only tell "once" from "more than once".
Saturate(n) == IF n < 2 THEN n + 1 ELSE n

FirstN(s, n) == IF Len(s) <= n THEN s ELSE SubSeq(s, 1, n)

\* Newest first, as users.messages.list answers.
Backwards(s) == [i \in 1..Len(s) |-> s[Len(s) + 1 - i]]

TypeOK ==
    /\ faults \subseteq Fault
    /\ history \in Seq(Msg)
    /\ floor \in Nat
    /\ gateOpen \in BOOLEAN
    /\ cursor \in Nat
    /\ lock \in BOOLEAN
    /\ claims \subseteq Msg
    /\ ours \subseteq Msg
    /\ handed \in [Msg -> 0..2]
    /\ pc \in [Poller -> Step]
    /\ job \in [Poller -> Job]
    /\ todo \in [Poller -> Seq(Msg)]

\* A mailbox no pass has visited.
Untouched ==
    /\ faults \in Scenarios
    /\ history = <<>>
    /\ floor = 0
    /\ cursor = 0
    /\ lock = FALSE
    /\ claims = {}
    /\ ours = {}
    /\ handed = [m \in Msg |-> 0]
    /\ pc = [p \in Poller |-> "idle"]
    /\ job = [p \in Poller |-> NoJob]
    /\ todo = [p \in Poller |-> <<>>]

Init == Untouched /\ gateOpen = TRUE

-----------------------------------------------------------------------------
(* The mailbox, Gmail and the subscription *)

Arrive(m) ==
    /\ m \notin Arrived
    /\ history' = Append(history, m)
    /\ UNCHANGED <<faults, floor, gateOpen, cursor, redisVars, handed, passVars>>

ExpireHistory ==
    /\ "history_expiry" \in faults
    /\ floor < Len(history)
    /\ floor' = floor + 1
    /\ UNCHANGED <<faults, history, gateOpen, cursor, redisVars, handed, passVars>>

FlipGate ==
    /\ "lapse" \in faults
    /\ gateOpen' = ~gateOpen
    /\ UNCHANGED <<faults, history, floor, cursor, redisVars, handed, passVars>>

-----------------------------------------------------------------------------
(* One pass: poll_user, _poll, _reset_cursor, _dispatch, _advance *)

\* poll_user: the gate, then single_run's SET NX EX.  A gated or locked-out
\* task returns and changes nothing.
Begin(p) ==
    /\ pc[p] = "idle"
    /\ gateOpen
    /\ ~lock
    /\ lock' = TRUE
    /\ pc' = [pc EXCEPT ![p] = "snapshot"]
    /\ UNCHANGED <<arrivalVars, cursor, claims, ours, handed, job, todo>>

\* _poll: get_connection(fresh=True)
Snapshot(p) ==
    /\ pc[p] = "snapshot"
    /\ job' = [job EXCEPT ![p] = [NoJob EXCEPT !.since = cursor]]
    /\ pc' = [pc EXCEPT ![p] = "history"]
    /\ UNCHANGED <<arrivalVars, cursor, redisVars, handed, todo>>

\* history_since, the slice to MAX_MESSAGES_PER_POLL and _hold_label_id.
WalkHistory(p) ==
    /\ pc[p] = "history"
    /\ job[p].since >= floor
    /\ \E known \in BOOLEAN :
        /\ known \/ "hold_label" \in faults
        /\ job' = [job EXCEPT ![p] = [since |-> job[p].since, upto |-> Len(history),
                                      holdKnown |-> known, catchup |-> FALSE]]
        /\ todo' = [todo EXCEPT ![p] =
                FirstN(SubSeq(history, job[p].since + 1, Len(history)), BatchCap)]
    /\ pc' = [pc EXCEPT ![p] = "dispatch"]
    /\ UNCHANGED <<arrivalVars, cursor, redisVars, handed>>

\* GoogleNotFound: Gmail no longer knows the cursor.
CursorAgedOut(p) ==
    /\ pc[p] = "history"
    /\ job[p].since < floor
    /\ pc' = [pc EXCEPT ![p] = "profile"]
    /\ UNCHANGED <<arrivalVars, cursor, redisVars, handed, job, todo>>

\* _reset_cursor: get_profile ...
ReadProfile(p) ==
    /\ pc[p] = "profile"
    /\ job' = [job EXCEPT ![p].upto = Len(history)]
    /\ pc' = [pc EXCEPT ![p] = "reseed"]
    /\ UNCHANGED <<arrivalVars, cursor, redisVars, handed, todo>>

\* ... set_history_id, which overwrites whatever is stored ...
Reseed(p) ==
    /\ pc[p] = "reseed"
    /\ cursor' = job[p].upto
    /\ pc' = [pc EXCEPT ![p] = "relist"]
    /\ UNCHANGED <<arrivalVars, redisVars, handed, job, todo>>

\* ... and the recent window, newest first, with the labels unknown.  Where the
\* hour begins is any point Gmail still has.
Relist(p) ==
    /\ pc[p] = "relist"
    /\ \E start \in floor..Len(history), known \in BOOLEAN :
        /\ known \/ "hold_label" \in faults
        /\ job' = [job EXCEPT ![p].holdKnown = known, ![p].catchup = TRUE]
        /\ todo' = [todo EXCEPT ![p] =
                FirstN(Backwards(SubSeq(history, start + 1, Len(history))), BatchCap)]
    /\ pc' = [pc EXCEPT ![p] = "dispatch"]
    /\ UNCHANGED <<arrivalVars, cursor, redisVars, handed>>

\* A Gmail call fails: the pass returns, or the exception leaves poll_user;
\* either way single_run's finally runs and the cursor stays.
Abandon(p) ==
    /\ "gmail" \in faults
    /\ pc[p] \in {"history", "profile", "relist", "deliver"}
    /\ pc' = [pc EXCEPT ![p] = "release"]
    /\ todo' = [todo EXCEPT ![p] = <<>>]
    /\ UNCHANGED <<arrivalVars, cursor, redisVars, handed, job>>

\* The label filter runs before the guard when the labels are known.
SkipUninteresting(p) ==
    /\ pc[p] = "dispatch"
    /\ todo[p] # <<>>
    /\ ~job[p].catchup
    /\ ~Interesting(Head(todo[p]), job[p].holdKnown)
    /\ todo' = [todo EXCEPT ![p] = Tail(@)]
    /\ UNCHANGED <<arrivalVars, cursor, redisVars, handed, pc, job>>

\* Whether a pass comes to the guard: labels unknown, or interesting ones.
Considered(p) ==
    /\ pc[p] = "dispatch"
    /\ todo[p] # <<>>
    /\ job[p].catchup \/ Interesting(Head(todo[p]), job[p].holdKnown)

\* _guard asks Redis twice, and returns None for one of our own messages, or for
\* one that is somebody else's already.
SkipGuarded(p) ==
    /\ \/ Considered(p) /\ Head(todo[p]) \in ours
       \/ pc[p] = "claim" /\ Head(todo[p]) \in claims
    /\ todo' = [todo EXCEPT ![p] = Tail(@)]
    /\ pc' = [pc EXCEPT ![p] = "dispatch"]
    /\ UNCHANGED <<arrivalVars, cursor, redisVars, handed, job>>

\* Mutant of LookUp: the registry of our own messages is not consulted.
LookUp_OursToo(p) ==
    /\ Considered(p)
    /\ pc' = [pc EXCEPT ![p] = "claim"]
    /\ UNCHANGED <<arrivalVars, cursor, redisVars, handed, job, todo>>

\* is_ours_sync: not one of ours, as far as the registry knows at this moment.
LookUp(p) ==
    /\ Considered(p)
    /\ Head(todo[p]) \notin ours
    /\ pc' = [pc EXCEPT ![p] = "claim"]
    /\ UNCHANGED <<arrivalVars, cursor, redisVars, handed, job, todo>>

\* Mutant of Claim: the message is looked up but not recorded.
Claim_NotRecorded(p) ==
    /\ pc[p] = "claim"
    /\ Head(todo[p]) \notin claims
    /\ pc' = [pc EXCEPT ![p] = "deliver"]
    /\ UNCHANGED <<arrivalVars, cursor, redisVars, handed, job, todo>>

\* claim_event_sync: SET NX succeeded, and _guard returns True.
Claim(p) ==
    /\ pc[p] = "claim"
    /\ Head(todo[p]) \notin claims
    /\ claims' = claims \cup {Head(todo[p])}
    /\ pc' = [pc EXCEPT ![p] = "deliver"]
    /\ UNCHANGED <<arrivalVars, cursor, lock, ours, handed, job, todo>>

\* Mutant of ClaimUnavailable: an unclaimed message goes through, command or not.
ClaimUnavailable_AnyMail(p) ==
    /\ "redis" \in faults
    /\ Considered(p) \/ pc[p] = "claim"
    /\ claims' \in {claims, claims \cup {Head(todo[p])}}
    /\ pc' = [pc EXCEPT ![p] = "deliver"]
    /\ UNCHANGED <<arrivalVars, cursor, lock, ours, handed, job, todo>>

\* _guard returns False: Redis raised, at the lookup, or at the claim, before or
\* after it took effect.  A message known to be a command is skipped; is_command
\* is read off the partial's labels, which the catch-up walk does not have.
ClaimUnavailable(p) ==
    /\ "redis" \in faults
    /\ Considered(p) \/ pc[p] = "claim"
    /\ LET m == Head(todo[p])
           isCommand == ~job[p].catchup /\ IsSent(m)
       IN /\ claims' \in {claims, IF pc[p] = "claim" THEN claims \cup {m} ELSE claims}
          /\ IF isCommand
             THEN /\ todo' = [todo EXCEPT ![p] = Tail(@)]
                  /\ pc' = [pc EXCEPT ![p] = "dispatch"]
             ELSE /\ pc' = [pc EXCEPT ![p] = "deliver"]
                  /\ UNCHANGED todo
    /\ UNCHANGED <<arrivalVars, cursor, lock, ours, handed, job>>

\* get_message answers; the catch-up walk filters now that it has the labels;
\* _enqueue hands the message on or drops it.
Deliver(p) ==
    /\ pc[p] = "deliver"
    /\ LET m == Head(todo[p])
       IN handed' = IF Interesting(m, job[p].holdKnown) /\ Owned(m)
                    THEN [handed EXCEPT ![m] = Saturate(@)]
                    ELSE handed
    /\ todo' = [todo EXCEPT ![p] = Tail(@)]
    /\ pc' = [pc EXCEPT ![p] = "dispatch"]
    /\ UNCHANGED <<arrivalVars, cursor, redisVars, job>>

\* get_message raises GoogleNotFound or GoogleAPIError: on to the next one.
Unreadable(p) ==
    /\ "gmail" \in faults
    /\ pc[p] = "deliver"
    /\ todo' = [todo EXCEPT ![p] = Tail(@)]
    /\ pc' = [pc EXCEPT ![p] = "dispatch"]
    /\ UNCHANGED <<arrivalVars, cursor, redisVars, handed, job>>

\* advance_history_id: a compare-and-set, and only forwards.
AdvancedCursor(p) ==
    IF job[p].upto > job[p].since /\ cursor = job[p].since THEN job[p].upto ELSE cursor

\* _advance after a walk of the history; the catch-up walk already reseeded.
Advance(p) ==
    /\ pc[p] = "dispatch"
    /\ todo[p] = <<>>
    /\ cursor' = IF job[p].catchup THEN cursor ELSE AdvancedCursor(p)
    /\ pc' = [pc EXCEPT ![p] = "release"]
    /\ UNCHANGED <<arrivalVars, redisVars, handed, job, todo>>

\* single_run's finally: DEL, whoever holds the key by now.
Release(p) ==
    /\ pc[p] = "release"
    /\ lock' = FALSE
    /\ pc' = [pc EXCEPT ![p] = "idle"]
    /\ job' = [job EXCEPT ![p] = NoJob]
    /\ UNCHANGED <<arrivalVars, cursor, claims, ours, handed, todo>>

\* The worker process dies; the lock waits for its TTL.
Crash(p) ==
    /\ "crash" \in faults
    /\ pc[p] # "idle"
    /\ pc' = [pc EXCEPT ![p] = "idle"]
    /\ job' = [job EXCEPT ![p] = NoJob]
    /\ todo' = [todo EXCEPT ![p] = <<>>]
    /\ UNCHANGED <<arrivalVars, cursor, redisVars, handed>>

Running == {p \in Poller : pc[p] # "idle"}

\* The 120 s TTL: only a dead pass is outlived by its lock, unless passes may
\* be slow.
ExpireLock ==
    /\ lock
    /\ Running = {} \/ "slow" \in faults
    /\ lock' = FALSE
    /\ UNCHANGED <<arrivalVars, cursor, claims, ours, handed, passVars>>

PassStep(p) ==
    \/ Snapshot(p) \/ WalkHistory(p) \/ CursorAgedOut(p)
    \/ ReadProfile(p) \/ Reseed(p) \/ Relist(p)
    \/ SkipUninteresting(p) \/ SkipGuarded(p) \/ LookUp(p)
    \/ Claim(p) \/ Deliver(p) \/ Advance(p) \/ Release(p)

PassFault(p) == Abandon(p) \/ ClaimUnavailable(p) \/ Unreadable(p) \/ Crash(p)

Next ==
    \/ \E m \in Msg : Arrive(m)
    \/ ExpireHistory
    \/ FlipGate
    \/ ExpireLock
    \/ \E p \in Poller : Begin(p) \/ PassStep(p) \/ PassFault(p)

Spec == Init /\ [][Next]_vars

-----------------------------------------------------------------------------
(* Properties *)

InFlight(m) == \E p \in Poller : pc[p] = "deliver" /\ Head(todo[p]) = m

\* While Redis answers, no message is handed to two tasks: replays, overlapping
\* passes and expired locks are absorbed by the claim
\* (core/idempotency.claim_event_sync).
HandedAtMostOnce == "redis" \notin faults => \A m \in Msg : handed[m] <= 1

\* A command runs at most once: it can send mail, so _guard never lets one
\* through without a claim, as long as the history walk, which knows what is a
\* command, is the only walk.
CommandsAtMostOnce ==
    ~({"redis", "history_expiry"} \subseteq faults) =>
        \A m \in Msg : KindOf[m] = "note" => handed[m] <= 1

\* "False means it was already handled" (core/idempotency.claim_event): when no
\* pass fails in the middle, a claim belongs to a message that was handed off,
\* that some pass has in hand, or that nobody wants.
ClaimMeansHandled ==
    faults \subseteq {"slow", "lapse"} =>
        \A m \in claims : Wanted(m) => handed[m] > 0 \/ InFlight(m)

\* When no pass fails and no backlog exceeds the cap, the cursor never passes a
\* message that was not handed off and is not in hand ("the sweep still finds
\* everything, just later", api/v1/webhooks.py).
CursorSkipsNothing ==
    faults \subseteq {"slow", "lapse"} /\ Len(history) <= BatchCap =>
        \A i \in 1..Len(history) :
            i <= cursor /\ Wanted(history[i]) =>
                handed[history[i]] > 0 \/ InFlight(history[i])

\* No message is lost between the claim, the task and the cursor.
NothingSkipped == ClaimMeansHandled /\ CursorSkipsNothing

\* "A burst of notifications for one mailbox collapses into one pass rather
\* than racing" (api/v1/webhooks.gmail_push), while no pass outlasts its lock.
OnePassAtATime == "slow" \notin faults => \A p, q \in Running : p = q

\* Mail arrival implements the handoff MailHandoff promises; while Redis fails no
\* promise is made, and no task is shown.
Handoff == INSTANCE MailHandoff WITH
    arrived <- Arrived,
    tasks <- IF "redis" \in faults THEN [m \in Msg |-> 0] ELSE handed
HandoffSpec == Handoff!Spec
=============================================================================
