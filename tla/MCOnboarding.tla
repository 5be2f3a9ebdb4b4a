----------------------------- MODULE MCOnboarding -----------------------------
(* Small instances for Onboarding: mail received and self-sent around the     *)
(* first sync, two syncs and two passes.                                      *)
EXTENDS Onboarding, TLC

CONSTANTS m1, m2

MCKindOf == m1 :> "inbox" @@ m2 :> "note"

\* Passes that overlap; a start that is repeated, and one that is repeated by requests
\* that overlap or are slow to commit; syncs that die and renewals
\* that fail; an account that lapses and returns while no watch can be had.
MCSettings ==
    {<<{"slow"}, {}>>, <<{}, {"again", "twin"}>>, <<{}, {"again", "early", "overlap"}>>,
     <<{}, {"sync", "outage"}>>, <<{}, {"lapse", "push"}>>}
MCScenarios == {{}, {"slow"}}
=============================================================================
