--------------------------- MODULE MCMeetingMedia ---------------------------
EXTENDS MeetingMedia, TLC

CONSTANTS s1, s2

MCSession == {s1, s2}

\* Sessions are compared only for equality.
Interchangeable == Permutations(MCSession)

MCScenarios ==
    {{}, {"services"}, {"late"}, {"crash"}, {"overlap"}, {"overlap", "fast", "workers"},
     {"overlap", "services"}}
=============================================================================
