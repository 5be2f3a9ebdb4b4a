------------------------------- MODULE MCGrant -------------------------------
(* Two processes and a user who consents twice.                              *)
EXTENDS Grant, TLC

\* Everything at once but the two that void a property; those, too.
Misfortunes ==
    {{"revoke", "disconnect", "crash"},
     {"revoke", "services"},
     {"disconnect", "stale"},
     {"stale", "rotates"}}

Alike == Permutations(Process) \cup Permutations(Consent)
=============================================================================
