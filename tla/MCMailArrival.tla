---------------------------- MODULE MCMailArrival ----------------------------
(* A small mailbox for MailArrival: received, held and self-sent mail.      *)
EXTENDS MailArrival, TLC

CONSTANTS m1, m2, m3

MCKindOf == m1 :> "inbox" @@ m2 :> "note" @@ m3 :> "held"

\* Passes that overlap and die, that lose their cursor, that Redis and Gmail fail;
\* nothing lost but the lock and the gate; everything but slow passes.
EveryMisfortune ==
    {{"slow", "crash"}, {"slow", "history_expiry"},
     {"slow", "redis", "gmail"},
     {"slow", "lapse"},
     {"crash", "redis", "gmail", "hold_label", "history_expiry", "lapse"}}

Passes == Permutations(Poller)
=============================================================================
