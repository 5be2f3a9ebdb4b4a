-------------------------- MODULE MCCategorization --------------------------
(* Two messages of one conversation, a built-in category and a custom one.   *)
EXTENDS Categorization, TLC

CONSTANTS m1, m2

MCThread == m1 :> "a" @@ m2 :> "a"

\* The taxonomy and the flags edited under the tasks, one request at a time;
\* everything that names a category; requests that overlap and die; a taxonomy
\* that grows and flags that flip while tasks hold a snapshot; failing calls and
\* lookups; the label command; mail that Mailman holds.
Circumstances ==
    {{"create", "delete", "archive"},
     {"create", "delete", "rename"},
     {"create", "delete", "rule"}, {"create", "delete", "fallback"},
     {"create", "delete", "archive", "overlap"},
     {"create", "delete", "archive", "overlap", "crash"}, {"rename", "rule", "overlap"},
     {"create", "growth"}, {"archive", "flips"},
     {"create", "archive", "services"}, {"create", "lookups"},
     {"create", "delete", "label"}, {"archive", "mailman"}}

Alike == Permutations(Worker) \cup Permutations(Session)
=============================================================================
