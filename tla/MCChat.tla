------------------------------- MODULE MCChat -------------------------------
(* Two turns over the requests of the hold filter; and the hold filter alone *)
(* under every combination of its circumstances.                             *)
EXTENDS Chat, TLC

CONSTANTS f1, f2, f3, f4, f5, v1, v2, r1, r2, t1, t2

MCFilterId == {f1, f2, f3, f4, f5}
MCRules == {v1, v2}
MCRequest == {r1, r2}
MCTurn == {t1, t2}
MCProposals == {<<"gmail", "row">>, <<"row", "vip">>}

\* More circumstances have all the behaviours of fewer: these are the largest
\* sets each property speaks of.
Alone == {{"command"}, {"delete", "create", "crash"}, {"command", "delete", "crash"},
          {"command", "create", "crash"}, {"command", "delete", "create", "crash"}}
Together == {{"overlap"}}
Chatting == {{"chat"}, {"chat", "leave", "crash"}, {"chat", "create"}, {"chat", "tabs"}}
MCChatScenarios == Alone \cup Together \cup Chatting
MCScenarios == {s \ ChatCircumstance : s \in MCChatScenarios}

\* Gmail's ids mean nothing, so a new filter may as well take the first id that is
\* free: the behaviours left out differ in the names of ids alone.
InOrder == \A f \in Fresh : live'[f] # Gone => f = CHOOSE g \in Fresh : TRUE

\* A process that may die is tried with one turn, decided again and again.
OneTurn ==
    ways # {} /\ "crash" \in faults => \E t \in Turn : \A u \in Turn \ {t} : stage[u] = "unasked"

Symmetry == Permutations(MCRequest) \cup Permutations(MCTurn)
=============================================================================
