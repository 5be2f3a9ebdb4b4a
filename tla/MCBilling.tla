------------------------------ MODULE MCBilling ------------------------------
EXTENDS Billing, TLC

CONSTANTS s1, s2, r1, r2

MCSub == {s1, s2}
MCRequest == {r1, r2}

\* Requests and subscriptions are compared only for equality.
Interchangeable == Permutations(MCSub) \cup Permutations(MCRequest)

MCScenarios ==
    {{"again"}, {"provider"}, {"early", "reorder", "crash"}, {"late"}, {"overlap"},
     {"hasty"}}

\* Requests that overlap are tried with one length of the billing interval.
Monthly == "overlap" \in faults => \A s \in Sub : rz[s].cycle = 1
=============================================================================
