----------------------------- MODULE MailHandoff -----------------------------
(***************************************************************************)
(* What mail arrival promises, with no poller, lock, claim or cursor in    *)
(* sight: a message arrives, and at most one task is ever enqueued for it. *)
(***************************************************************************)
EXTENDS Naturals

CONSTANT Msg

VARIABLES
    arrived,    \* the messages in the mailbox
    tasks       \* how many tasks were enqueued for each message

vars == <<arrived, tasks>>

TypeOK == arrived \subseteq Msg /\ tasks \in [Msg -> 0..1]

Init == arrived = {} /\ tasks = [m \in Msg |-> 0]

Arrive(m) ==
    /\ m \notin arrived
    /\ arrived' = arrived \cup {m}
    /\ UNCHANGED tasks

HandOff(m) ==
    /\ m \in arrived
    /\ tasks[m] = 0
    /\ tasks' = [tasks EXCEPT ![m] = 1]
    /\ UNCHANGED arrived

Next == \E m \in Msg : Arrive(m) \/ HandOff(m)

Spec == Init /\ [][Next]_vars
=============================================================================
