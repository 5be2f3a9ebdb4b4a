------------------------------- MODULE MCDrafts -------------------------------
(* A mailbox of three messages for Drafts: the user writes in a thread that  *)
(* answers once, and one more message arrives in a thread of its own.        *)
EXTENDS Drafts, TLC

MCMessage == 1..3
MCSent == {1}
MCThread == 1 :> "a" @@ 2 :> "a" @@ 3 :> "b"
MCCategoryOf == 1 :> "to_do" @@ 2 :> "to_do" @@ 3 :> "to_do"

Circumstances == {{"overrun"}, {"services"}, {"crash"}, {"owner"}, {"pro"}}
Passes == Permutations(Pass)
=============================================================================
