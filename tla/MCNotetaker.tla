----------------------------- MODULE MCNotetaker -----------------------------
EXTENDS Notetaker, TLC

CONSTANTS b1, b2, s1, s2

MCBot == {b1, b2}
MCSession == {s1, s2}

\* Bots and sessions are compared only for equality.
Interchangeable == Permutations(MCBot) \cup Permutations(MCSession)

MCScenarios ==
    {{"quota"}, {"twice"}, {"link", "overlap"}, {"overlap"},
     {"link", "crash"}, {"link", "again", "reorder"}, {"link", "again", "provider"}}

\* Callbacks come one at a time, but for a pasted link's with nothing overlapping;
\* beside the sweep and requests that overlap, none.
OneCallback ==
    Len(wire) <= (IF Calendar /\ "overlap" \in faults THEN 0
                  ELSE IF Calendar \/ "overlap" \in faults THEN 1 ELSE MaxWire)

\* Sessions that overlap, and a quota, are tried with one request of the user.
OneRequest == faults \cap {"overlap", "quota"} # {} => turn <= 1
=============================================================================
