-------------------------------- MODULE Chat --------------------------------
(***************************************************************************)
(* The web chat: a turn of a conversation (api/v1/chat.ask over            *)
(* services/chat/engine.py), the actions it may propose, and the user's    *)
(* decision on them (api/v1/chat.confirm over commands/handlers.execute),  *)
(* composed with the hold filter, which a VIP action rebuilds.             *)
(*                                                                         *)
(* A turn stores the question at once and the answer when the stream is    *)
(* over.  A decision reads the message once, runs the actions, which take  *)
(* effect outside the database as they run, and commits the rest with the  *)
(* status of the message.  One conversation.                               *)
(***************************************************************************)
EXTENDS HoldFilter, Sequences

CONSTANTS
    Turn,           \* questions the user may ask
    NoTurn,         \* a request that decides no proposal
    Proposals,      \* what the parser may make of a command's arguments
    ChatScenarios   \* the combinations of circumstances the instance allows

\* "gmail"  at once, outside the database: a label, a rule, a mail sent now
\* "row"    in the session: a reminder, a routine, the delivery settings
\* "vip"    both: the VIP rules in the session, the hold filter at once
ActionKind == {"gmail", "row", "vip"}

\* "chat"   the user chats
\* "leave"  the client goes away while a turn is streamed
\* "tabs"   the user asks, decides and deletes in several tabs at once
ChatCircumstance == {"chat", "leave", "tabs"}

ASSUME ChatAssumption ==
    /\ NoTurn \notin Turn
    /\ \A p \in Proposals :
        /\ p \in Seq(ActionKind)
        /\ p # <<>>
        /\ \A i \in 1..(Len(p) - 1) : p[i] # "vip"
    /\ \A s \in ChatScenarios :
        /\ s \subseteq Circumstance \cup ChatCircumstance
        /\ s \ ChatCircumstance \in Scenarios

VARIABLES
    ways,           \* the chat circumstances of this behaviour
    conversation,   \* whether the conversation is "new", "open" or "deleted"
    transcript,     \* its messages, in the order of created_at
    stage,          \* where each turn is
    text,           \* how the question reads that a turn is answering
    actions,        \* what each turn has proposed, until it is decided
    status,         \* action_status of each turn's answer, once it is stored
    deciding,       \* the proposal each request decides, and what is left of it
    outside,        \* the decisions on each proposal that took effect outside the database
    stored          \* those that took effect in it

turnVars == <<transcript, stage, text, actions>>
chatVars == <<ways, conversation, turnVars, status, deciding, outside, stored>>
allVars == <<vars, chatVars>>

\* slash.resolve: a command that is its action, one with arguments to parse, and
\* words that cannot act, be it prose, a call for help, or a command that is
\* unknown or lacks its arguments.
Text == {"words", "fixed", "args"}

\* left: the actions still to run; acted, wrote: one of them has worked outside
\* the database, or in it.
Decision == [turn: Turn \cup {NoTurn}, approve: BOOLEAN, left: Seq(ActionKind),
             acted: BOOLEAN, wrote: BOOLEAN]
Undecided == [turn |-> NoTurn, approve |-> FALSE, left |-> <<>>,
              acted |-> FALSE, wrote |-> FALSE]

ChatTypeOK ==
    /\ ways \subseteq ChatCircumstance
    /\ conversation \in {"new", "open", "deleted"}
    /\ transcript \in Seq(Turn \X {"user", "assistant"})
    /\ stage \in [Turn -> {"unasked", "answering", "answered", "over"}]
    /\ text \in [Turn -> Text]
    /\ actions \in [Turn -> Seq(ActionKind)]
    /\ status \in [Turn -> {"absent", "none", "pending", "confirmed", "rejected"}]
    /\ deciding \in [Request -> Decision]
    /\ outside \in [Turn -> 0..2]
    /\ stored \in [Turn -> 0..2]

ChatInit ==
    /\ Init
    /\ \E s \in ChatScenarios : faults = s \ ChatCircumstance /\ ways = s \cap ChatCircumstance
    /\ conversation = "new"
    /\ transcript = <<>>
    /\ stage = [t \in Turn |-> "unasked"]
    /\ text = [t \in Turn |-> "words"]
    /\ actions = [t \in Turn |-> <<>>]
    /\ status = [t \in Turn |-> "absent"]
    /\ deciding = [r \in Request |-> Undecided]
    /\ outside = [t \in Turn |-> 0]
    /\ stored = [t \in Turn |-> 0]

Reach(t, s) == stage' = [stage EXCEPT ![t] = s]
InProgress(t) == stage[t] \in {"answering", "answered"}

\* The user does one thing at a time, but for the other tabs.
Undisturbed == "tabs" \in ways \/ (Quiet /\ \A t \in Turn : ~InProgress(t))

\* Once, or more than once.
Again(n) == IF n = 0 THEN 1 ELSE 2

-----------------------------------------------------------------------------
(* A turn *)

\* _resolve_conversation: a new one, or one that is still there.
Found == conversation # "deleted"

\* add_message stamps the time itself: the order is that of the calls.
AddMessage(t, role) == transcript' = Append(transcript, <<t, role>>)

\* ask: the question is committed before anything is worked out.
Ask(t, x) ==
    /\ "chat" \in ways
    /\ stage[t] = "unasked"
    /\ Undisturbed
    /\ Found
    /\ conversation' = "open"
    /\ AddMessage(t, "user")
    /\ text' = [text EXCEPT ![t] = x]
    /\ Reach(t, "answering")
    /\ UNCHANGED <<vars, ways, actions, status, deciding, outside, stored>>

\* parse_command, which may find nothing to do and keeps what the command allows.
Parsed == Proposals \cup {<<>>}

\* _command_events: what a text may lead to.
Leads(x) == CASE x = "fixed" -> {<<"gmail">>}
              [] x = "args" -> Parsed
              [] OTHER -> {<<>>}

\* turn_events: the stream is produced.
Generate(t) ==
    /\ stage[t] = "answering"
    /\ \E p \in Leads(text[t]) : actions' = [actions EXCEPT ![t] = p]
    /\ text' = [text EXCEPT ![t] = "words"]
    /\ Reach(t, "answered")
    /\ UNCHANGED <<vars, ways, conversation, transcript, status, deciding, outside, stored>>

\* Mutant of GenerateFails: a failing turn is over, nothing of it is stored.
GenerateFails_Raises(t) ==
    /\ stage[t] = "answering"
    /\ text' = [text EXCEPT ![t] = "words"]
    /\ Reach(t, "over")
    /\ UNCHANGED <<vars, ways, conversation, transcript, actions, status, deciding, outside, stored>>

\* Whatever fails in the stream is told to the client, and proposes nothing.
GenerateFails(t) ==
    /\ stage[t] = "answering"
    /\ text' = [text EXCEPT ![t] = "words"]
    /\ Reach(t, "answered")
    /\ UNCHANGED <<vars, ways, conversation, transcript, actions, status, deciding, outside, stored>>

\* The answer is stored; there is nothing to store it under when the
\* conversation was deleted meanwhile.
Persist(t) ==
    /\ stage[t] = "answered"
    /\ IF conversation = "open"
       THEN /\ AddMessage(t, "assistant")
            /\ status' = [status EXCEPT ![t] = IF actions[t] = <<>> THEN "none" ELSE "pending"]
       ELSE UNCHANGED <<transcript, status>>
    /\ Reach(t, "over")
    /\ UNCHANGED <<vars, ways, conversation, text, actions, deciding, outside, stored>>

\* The generator is cancelled with its client, or dies with its process.
Abandon(t) ==
    /\ "leave" \in ways \/ "crash" \in faults
    /\ InProgress(t)
    /\ Reach(t, "over")
    /\ text' = [text EXCEPT ![t] = "words"]
    /\ actions' = [actions EXCEPT ![t] = <<>>]
    /\ UNCHANGED <<vars, ways, conversation, transcript, status, deciding, outside, stored>>

\* delete_conversation: the messages, then the conversation.
DeleteConversation ==
    /\ conversation = "open"
    /\ Undisturbed
    /\ conversation' = "deleted"
    /\ transcript' = <<>>
    /\ status' = [t \in Turn |-> "absent"]
    /\ UNCHANGED <<vars, ways, stage, text, actions, deciding, outside, stored>>

-----------------------------------------------------------------------------
(* A decision *)

Decides(r) == deciding[r].turn # NoTurn

\* confirm: the message is read once; only a pending one is decided.
Decide(r, t, approve) ==
    /\ Undisturbed
    /\ status[t] = "pending"
    /\ Begin(r, "command", vip, "parse")
    /\ deciding' = [deciding EXCEPT ![r] =
                      [turn |-> t, approve |-> approve, acted |-> FALSE, wrote |-> FALSE,
                       left |-> IF approve THEN actions[t] ELSE <<>>]]
    /\ UNCHANGED <<ways, conversation, turnVars, status, outside, stored>>

Running(r, kinds) ==
    /\ pc[r] = "parse"
    /\ Decides(r)
    /\ deciding[r].left # <<>>
    /\ Head(deciding[r].left) \in kinds

\* execute, for the next action; it may also fail, or be refused by the plan, and
\* then does not keep the others from running.
RunAction(r) ==
    /\ Running(r, {"gmail", "row"})
    /\ \E works \in BOOLEAN :
        LET t == deciding[r].turn
            kind == Head(deciding[r].left)
            acts == works /\ kind = "gmail"
        IN /\ outside' = IF acts /\ ~deciding[r].acted
                         THEN [outside EXCEPT ![t] = Again(@)] ELSE outside
           /\ deciding' = [deciding EXCEPT ![r].left = Tail(@),
                                           ![r].acted = @ \/ acts,
                                           ![r].wrote = @ \/ (works /\ kind = "row")]
    /\ UNCHANGED <<vars, ways, conversation, turnVars, status, stored>>

\* execute for add_vip and remove_vip, which read the rules and the settings here.
ChangeVip(r, v) ==
    /\ Running(r, {"vip"})
    /\ req' = [req EXCEPT ![r].active = active, ![r].recorded = recorded,
                          ![r].made = recorded, ![r].vip = vip, ![r].wanted = v]
    /\ Goto(r, IF active THEN "delete" ELSE "commit")
    /\ deciding' = [deciding EXCEPT ![r].left = <<>>]
    /\ UNCHANGED <<faults, row, live, last,
                   ways, conversation, turnVars, status, outside, stored>>

\* Mutant of Saved: the proposal stays open for the actions that failed.
Saved_StillPending(r) ==
    /\ conversation = "open"
    /\ stored' = IF deciding[r].wrote
                 THEN [stored EXCEPT ![deciding[r].turn] = Again(@)] ELSE stored
    /\ deciding' = [deciding EXCEPT ![r] = Undecided]
    /\ UNCHANGED <<ways, conversation, turnVars, status, outside>>

\* The session commits the status with what the actions wrote.
Saved(r) ==
    /\ conversation = "open"
    /\ LET t == deciding[r].turn
       IN /\ status' = [status EXCEPT ![t] =
                          IF deciding[r].approve THEN "confirmed" ELSE "rejected"]
          /\ stored' = IF deciding[r].wrote
                       THEN [stored EXCEPT ![t] = Again(@)] ELSE stored
          /\ actions' = [actions EXCEPT ![t] = <<>>]
    /\ deciding' = [deciding EXCEPT ![r] = Undecided]
    /\ UNCHANGED <<ways, conversation, transcript, stage, text, outside>>

\* A proposal without a VIP action, or one that was dismissed, is done.
Conclude(r) ==
    /\ pc[r] = "parse"
    /\ Decides(r)
    /\ deciding[r].left = <<>>
    /\ Saved(r)
    /\ Return(r, "mixed")
    /\ UNCHANGED <<faults, row, live>>

\* The VIP action has worked, or has failed and is reported as failed.
ConcludeVip(r) ==
    /\ Decides(r)
    /\ Commit(r) \/ InstallFails(r) \/ AdoptFails(r)
    /\ Saved(r)

\* The message is gone when its status is written: the transaction rolls back,
\* what was done outside stays.
Unsaved(r) ==
    /\ Decides(r)
    /\ conversation = "deleted"
    /\ \/ pc[r] = "commit"
       \/ pc[r] = "parse" /\ deciding[r].left = <<>>
       \/ pc[r] \in {"install", "adopt"} /\ "create" \in faults
       \/ pc[r] = "adopt" /\ Matching(req[r].wanted) = {}
    /\ Return(r, "failed")
    /\ deciding' = [deciding EXCEPT ![r] = Undecided]
    /\ UNCHANGED <<faults, row, live, ways, conversation, turnVars, status, outside, stored>>

CrashDeciding(r) ==
    /\ Crash(r)
    /\ deciding' = [deciding EXCEPT ![r] = Undecided]
    /\ UNCHANGED <<ways, conversation, turnVars, status, outside, stored>>

-----------------------------------------------------------------------------
TurnStep ==
    \/ \E t \in Turn :
        \/ \E x \in Text : Ask(t, x)
        \/ Generate(t) \/ GenerateFails(t) \/ Persist(t) \/ Abandon(t)
    \/ DeleteConversation

DecisionStep(r) ==
    \/ \E t \in Turn, approve \in BOOLEAN : Decide(r, t, approve)
    \/ RunAction(r)
    \/ \E v \in Rules : ChangeVip(r, v)
    \/ Conclude(r) \/ ConcludeVip(r) \/ Unsaved(r) \/ CrashDeciding(r)

\* What a decision shares with the requests of the hold filter.
FilterStep(r) ==
    \/ Delete(r) \/ Install(r) \/ Exists(r) \/ Adopt(r)

\* The requests of Mailman's API and the command emails.
MailmanStep(r) ==
    /\ ~Decides(r)
    /\ \/ BeginStart(r) \/ BeginStop(r) \/ BeginCommand(r)
       \/ \E v \in Rules : BeginVip(r, v) \/ Command(r, v)
       \/ Commit(r) \/ InstallFails(r) \/ AdoptFails(r) \/ Crash(r)

ChatNext ==
    \/ TurnStep
    \/ \E r \in Request :
        \/ DecisionStep(r)
        \/ (FilterStep(r) \/ MailmanStep(r)) /\ UNCHANGED chatVars

ChatSpec == ChatInit /\ [][ChatNext]_allVars

-----------------------------------------------------------------------------
(* Properties *)

\* "rejected: dismissed, never executed", "confirmed: approved and executed"
\* (models/chat.py): with decisions one at a time, what a proposal writes is
\* written at most once even if the process dies in the middle and the user
\* approves again, and never when it was dismissed.  What it does outside the
\* database is only held to that while no process dies.
RunsOnce ==
    "overlap" \notin faults =>
        \A t \in Turn :
            /\ stored[t] <= 1
            /\ status[t] = "rejected" => stored[t] = 0
            /\ "crash" \notin faults =>
                /\ outside[t] <= 1
                /\ status[t] = "rejected" => outside[t] = 0

\* "Persist whatever we produced, even on a partial failure, so the transcript
\* has no hole" (api/v1/chat._ask_stream): with one turn at a time and clients
\* that stay, every question but one in progress has its answer behind it.
TranscriptWhole ==
    "crash" \notin faults /\ ways \subseteq {"chat"} =>
        \A i \in 1..Len(transcript) :
            LET t == transcript[i][1]
            IN transcript[i][2] = "user" =>
                 \/ InProgress(t)
                 \/ i < Len(transcript) /\ transcript[i + 1] = <<t, "assistant">>

\* HoldFilter's OneFilter and RulesInForce, with VIP rules that are also changed
\* from the chat.  A conversation deleted in another tab rolls a decision back
\* whose filter is already on Gmail; and the chat, like a command email, may leave
\* the rules and the filter apart when Gmail refuses both calls.
FilterAgrees ==
    /\ "tabs" \in ways \/ OneFilter
    /\ ("chat" \in ways /\ {"delete", "create"} \subseteq faults) \/ RulesInForce
=============================================================================
