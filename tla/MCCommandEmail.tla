---------------------------- MODULE MCCommandEmail ----------------------------
(* Two commands in one thread, and the messages their replies may become.    *)
EXTENDS CommandEmail, TLC

CONSTANTS n1, n2, r1, r2, r3

MCKindOf == [m \in Msg |-> "note"]
RedisFails == {{"redis"}}
HandlersFail == {{"crash", "timeout", "label"}, {"compose", "timeout", "label"}}
Ids == Permutations({n1, n2}) \cup Permutations({r1, r2, r3})
=============================================================================
