----------------------------- MODULE CommandEmail -----------------------------
(***************************************************************************)
(* Commands the user emails to themselves: the task handle_command_email   *)
(* (workers/jobs/handle_command_email.py), composed with the poller that   *)
(* enqueues it.  The handler's reply is itself a self-addressed sent       *)
(* message, so it lands in the history the poller walks; the registry      *)
(* ours: and the chat label keep it from being run as a command, and the   *)
(* reply cap of core/idempotency bounds what happens when they do not.     *)
(*                                                                         *)
(* All messages are of one thread, the unit the reply cap counts by.       *)
(***************************************************************************)
EXTENDS MailArrival, FiniteSets

CONSTANTS
    Reply,          \* the messages replies are sent as (a subset of Msg)
    MaxReplies,     \* MAX_REPLIES_PER_THREAD
    MaxWindows,     \* bound: how many reply windows may expire
    HandlerScenarios,   \* the combinations of misfortunes handlers may meet
    None            \* no message

\* "crash"    the worker dies, or Redis or the database raises, mid-task
\* "compose"  the reply cannot be written, or the send is refused
\* "timeout"  the send is delivered and reported as failed
\* "label"    the chat label cannot be applied
HandlerFault == {"crash", "compose", "timeout", "label"}

ASSUME ReplyAssumption ==
    /\ Reply \subseteq Msg
    /\ \A r \in Reply : KindOf[r] = "note"
ASSUME HandlerAssumption ==
    /\ MaxReplies \in Nat \ {0}
    /\ MaxWindows \in Nat
    /\ None \notin Msg
    /\ HandlerScenarios \subseteq SUBSET HandlerFault

VARIABLES
    mishaps,    \* what may go wrong in handlers, chosen once per behaviour
    stage,      \* where the task of each message is
    labelSeen,  \* messages that carried the chat label when they were enqueued
    chat,       \* messages that carry the chat label in Gmail
    acted,      \* messages whose actions were executed
    replyOf,    \* the reply a handler has sent, until it is registered
    count,      \* the Redis counter reply:<thread>
    expiring,   \* whether that counter has a TTL
    windows     \* how many reply windows have expired

cmdVars == <<mishaps, stage, labelSeen, chat, acted, replyOf, count, expiring, windows>>
allVars == <<vars, cmdVars>>

Stage == {"waiting", "parsed", "acted", "counted", "cleared", "sent",
          "registered", "filing", "done"}

CmdTypeOK ==
    /\ TypeOK
    /\ mishaps \subseteq HandlerFault
    /\ stage \in [Msg -> Stage]
    /\ labelSeen \subseteq Msg
    /\ chat \subseteq Msg
    /\ acted \subseteq Msg
    /\ replyOf \in [Msg -> Reply \cup {None}]
    /\ count \in Nat
    /\ expiring \in BOOLEAN
    /\ windows \in 0..MaxWindows

CmdInit ==
    /\ Init
    /\ mishaps \in HandlerScenarios
    /\ stage = [m \in Msg |-> "waiting"]
    /\ labelSeen = {}
    /\ chat = {}
    /\ acted = {}
    /\ replyOf = [m \in Msg |-> None]
    /\ count = 0
    /\ expiring = FALSE
    /\ windows = 0

Goto(m, s) == stage' = [stage EXCEPT ![m] = s]

-----------------------------------------------------------------------------
(* The poller, which reads the labels the task is given *)

\* get_message answers with the labels of that moment: they go into the task.
DeliverWithLabels(p) ==
    /\ Deliver(p)
    /\ labelSeen' = labelSeen \cup ({Head(todo[p])} \cap chat)
    /\ UNCHANGED <<mishaps, stage, chat, acted, replyOf, count, expiring, windows>>

PollerStep ==
    \/ \E p \in Poller : DeliverWithLabels(p)
    \/ /\ \/ \E m \in Msg \ Reply : Arrive(m)
          \/ ExpireHistory \/ FlipGate \/ ExpireLock
          \/ \E p \in Poller : \/ Begin(p) \/ PassFault(p)
                               \/ Snapshot(p) \/ WalkHistory(p) \/ CursorAgedOut(p)
                               \/ ReadProfile(p) \/ Reseed(p) \/ Relist(p)
                               \/ SkipUninteresting(p) \/ SkipGuarded(p)
                               \/ LookUp(p) \/ Claim(p)
                               \/ Advance(p) \/ Release(p)
       /\ UNCHANGED cmdVars

-----------------------------------------------------------------------------
(* handle_command_email: one task per message handed off *)

\* _self_addressed: to the login address or to the mailbox that is polled.
SelfAddressed(m) == KindOf[m] = "note"

\* _handle: self-addressed, and the chat-label loop guard on the labels the task
\* was given.
Start(m) ==
    /\ handed[m] > 0
    /\ SelfAddressed(m)
    /\ stage[m] = "waiting"
    /\ Goto(m, IF m \in labelSeen THEN "done" ELSE "parsed")
    /\ UNCHANGED <<vars, mishaps, labelSeen, chat, acted, replyOf, count, expiring, windows>>

\* The actions run, each failure caught, and the transaction commits.
Act(m) ==
    /\ stage[m] = "parsed"
    /\ acted' = acted \cup {m}
    /\ Goto(m, "acted")
    /\ UNCHANGED <<vars, mishaps, labelSeen, chat, replyOf, count, expiring, windows>>

\* Mutant of CountReply: the cap admits one reply more.
CountReply_OneMore(m) ==
    /\ stage[m] = "acted"
    /\ count' = count + 1
    /\ Goto(m, CASE count = 0 -> "counted"
                 [] count > 0 /\ count <= MaxReplies -> "cleared"
                 [] OTHER -> "filing")
    /\ UNCHANGED <<vars, mishaps, labelSeen, chat, acted, replyOf, expiring, windows>>

\* allow_reply: INCR, then EXPIRE by whoever incremented it to one ...
CountReply(m) ==
    /\ stage[m] = "acted"
    /\ count' = count + 1
    /\ Goto(m, CASE count = 0 -> "counted"
                 [] count > 0 /\ count < MaxReplies -> "cleared"
                 [] OTHER -> "filing")
    /\ UNCHANGED <<vars, mishaps, labelSeen, chat, acted, replyOf, expiring, windows>>

\* ... in a second call.  EXPIRE on a key that is gone sets nothing.
SetWindow(m) ==
    /\ stage[m] = "counted"
    /\ expiring' = (count > 0)
    /\ Goto(m, "cleared")
    /\ UNCHANGED <<vars, mishaps, labelSeen, chat, acted, replyOf, count, windows>>

\* gmail.reply_in_thread: the reply is in the mailbox from here on, whatever the
\* call answers; it is never tried again.
Posted(r) == r \notin Arrived /\ history' = Append(history, r)

\* compose_reply or answer_question, then reply_in_thread.
SendReply(m) ==
    /\ stage[m] = "cleared"
    /\ \E r \in Reply :
        /\ Posted(r)
        /\ \/ /\ replyOf' = [replyOf EXCEPT ![m] = r]
              /\ Goto(m, "sent")
           \/ /\ "timeout" \in mishaps
              /\ Goto(m, "filing")
              /\ UNCHANGED replyOf
    /\ UNCHANGED <<faults, floor, gateOpen, cursor, redisVars, handed, passVars,
                   mishaps, labelSeen, chat, acted, count, expiring, windows>>

\* The reply could not be composed or was not accepted.
NoReply(m) ==
    /\ "compose" \in mishaps
    /\ stage[m] = "cleared"
    /\ Goto(m, "filing")
    /\ UNCHANGED <<vars, mishaps, labelSeen, chat, acted, replyOf, count, expiring, windows>>

\* remember_ours
RegisterReply(m) ==
    /\ stage[m] = "sent"
    /\ ours' = ours \cup {replyOf[m]}
    /\ Goto(m, "registered")
    /\ UNCHANGED <<arrivalVars, cursor, lock, claims, handed, passVars,
                   mishaps, labelSeen, chat, acted, replyOf, count, expiring, windows>>

\* add_label on the reply, best effort.
LabelReply(m) ==
    /\ stage[m] = "registered"
    /\ \/ chat' = chat \cup {replyOf[m]}
       \/ "label" \in mishaps /\ UNCHANGED chat
    /\ replyOf' = [replyOf EXCEPT ![m] = None]
    /\ Goto(m, "filing")
    /\ UNCHANGED <<vars, mishaps, labelSeen, acted, count, expiring, windows>>

\* add_label on the command itself, best effort.
FileCommand(m) ==
    /\ stage[m] = "filing"
    /\ \/ chat' = chat \cup {m}
       \/ "label" \in mishaps /\ UNCHANGED chat
    /\ Goto(m, "done")
    /\ UNCHANGED <<vars, mishaps, labelSeen, acted, replyOf, count, expiring, windows>>

\* The task is not retried: what it had not done stays undone.
CrashHandler(m) ==
    /\ "crash" \in mishaps
    /\ stage[m] \notin {"waiting", "done"}
    /\ replyOf' = [replyOf EXCEPT ![m] = None]
    /\ Goto(m, "done")
    /\ UNCHANGED <<vars, mishaps, labelSeen, chat, acted, count, expiring, windows>>

\* REPLY_WINDOW passes: Redis drops the counter, if it has a TTL.
WindowEnds ==
    /\ expiring
    /\ windows < MaxWindows
    /\ count' = 0
    /\ expiring' = FALSE
    /\ windows' = windows + 1
    /\ UNCHANGED <<vars, mishaps, stage, labelSeen, chat, acted, replyOf>>

HandlerStep(m) ==
    \/ Start(m) \/ Act(m) \/ CountReply(m) \/ SetWindow(m) \/ SendReply(m)
    \/ RegisterReply(m) \/ LabelReply(m) \/ FileCommand(m)

CmdNext ==
    \/ PollerStep
    \/ \E m \in Msg : HandlerStep(m) \/ NoReply(m) \/ CrashHandler(m)
    \/ WindowEnds

CmdSpec == CmdInit /\ [][CmdNext]_allVars

-----------------------------------------------------------------------------
(* Properties *)

Sent == Arrived \cap Reply

\* The circuit breaker: whatever the other guards miss, a thread gets at most
\* MaxReplies replies per window (core/idempotency.allow_reply).
RepliesCapped == Cardinality(Sent) <= MaxReplies * (windows + 1)

\* Pass p is past is_ours_sync with message m in hand.
PastLookup(p, m) == pc[p] \in {"claim", "deliver"} /\ Head(todo[p]) = m

\* A pass that asks after a reply is registered never takes the reply in hand, with
\* Redis failing in its face or not: _guard passes nothing that the history walk,
\* as long as it is the only walk, knows to be a command.  A pass that asked before
\* remember_ours may still claim it and hand it on as a command: the registry alone
\* does not close the loop.
RegisteredStaysOut ==
    [][~({"redis", "history_expiry"} \subseteq faults) =>
          \A r \in ours, p \in Poller : PastLookup(p, r)' => PastLookup(p, r)]_allVars

\* The cap is hourly (core/idempotency.allow_reply): while no worker dies between
\* INCR and EXPIRE, a counter that stands has a TTL, or a handler is about to set
\* it, so a capped thread is heard again.
CapLifts ==
    "crash" \notin mishaps /\ count > 0 =>
        expiring \/ \E m \in Msg : stage[m] = "counted"

\* The reply cap holds, and it is hourly.
CapHolds == RepliesCapped /\ CapLifts
=============================================================================
