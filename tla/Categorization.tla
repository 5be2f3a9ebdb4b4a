---------------------------- MODULE Categorization ----------------------------
(***************************************************************************)
(* One user's taxonomy and the tasks that label mail by it.  Requests add, *)
(* rename, delete and switch categories and point rules and the fallback   *)
(* at them; each runs in a session of its own, which reads, may call Gmail *)
(* and commits.  Meanwhile `classify.new_email` labels a message's whole   *)
(* thread by a snapshot of the taxonomy, and                               *)
(* `categorization.sync_category_inbox` moves the mail that wears a label  *)
(* when its archive flag is flipped.  Mailman's filter may hold arriving   *)
(* mail, which its tick releases into the inbox, and the label command of  *)
(* the chat and of mailed commands creates and deletes any Gmail label.    *)
(*                                                                         *)
(* A category's key, its Gmail label and the name it is created under are  *)
(* one value: create_category derives the first two from the third.  Which *)
(* message a rule matches is left open, and so is the model's verdict, the *)
(* categories that are switched off included.                              *)
(***************************************************************************)
EXTENDS Integers, FiniteSets

CONSTANTS
    Message, Thread,    \* messages, and [Message -> thread]
    Builtin, Custom,    \* keys of built-in and of custom categories
    Rule,               \* ids of the user's rules
    Worker, Session,    \* Celery workers and API sessions
    NoKey,
    SyncMax,            \* messages a sync lists at most
    CategoryScenarios   \* sets of requests and circumstances of a behaviour

Key == Builtin \cup Custom

ASSUME CategorizationAssumption ==
    /\ Builtin \cap Custom = {} /\ Builtin # {}
    /\ NoKey \notin Key \cup {"exclude"}
    /\ SyncMax \in Nat \ {0}
    /\ CategoryScenarios \subseteq SUBSET
          ({"create", "delete", "archive", "rename", "rule", "fallback", "label"} \cup
           {"growth", "flips", "overlap", "mailman", "lookups", "services", "crash"})

VARIABLES
    circ,           \* the requests this behaviour makes and what it may meet
    cats,           \* keys with a row in email_categories
    archive,        \* those whose mail leaves the inbox
    name,           \* their display names
    rules,          \* each rule: absent, "exclude", or the key it assigns
    fallback,       \* categorization_settings.fallback_category_key
    known,          \* labels that exist in Gmail
    mail,           \* messages in the mailbox
    labels,         \* the category labels each wears
    inbox,          \* messages in the inbox
    held,           \* messages that wear Mailman's label
    astray,         \* history: labelled mail that a sync passed over or a
                    \* release put into the inbox, and nothing took out since
    primed,         \* workers that have provisioned the built-in labels
    jobs,           \* messages with a classify.new_email queued
    syncs,          \* queued sync_category_inbox tasks
    task,           \* what each worker runs
    req             \* what each session is about to do

taxonomy == <<cats, archive, name>>
targets  == <<rules, fallback>>
gmail    == <<known, mail, labels, inbox, held, astray>>
queues   == <<primed, jobs, syncs>>
categoryVars == <<circ, taxonomy, targets, gmail, queues, task, req>>

Target   == Key \cup {NoKey, "exclude"}
SyncType == [key: Key, archive: BOOLEAN]
NoTask   == [kind |-> "idle"]
TaskType ==
    {NoTask}
    \cup [kind: {"classify"}, msg: Message, cats: SUBSET Key, archive: SUBSET Key,
          rules: [Rule -> Target], fallback: Key \cup {NoKey}]
    \cup [kind: {"sync"}, job: SyncType, ids: SUBSET Message]
NoReq    == [kind |-> "idle"]
ReqType  ==
    {NoReq}
    \cup [kind: {"create"}, key: Custom, labelled: BOOLEAN]
    \cup [kind: {"delete"}, key: Custom, rules: SUBSET Rule, isFallback: BOOLEAN]
    \cup [kind: {"archive"}, key: Key, leaves: BOOLEAN]
    \cup [kind: {"rename"}, key: Key, name: Key]
    \cup [kind: {"rule"}, rule: Rule, key: Target]
    \cup [kind: {"fallback"}, key: Key \cup {NoKey}]

CategoryTypeOK ==
    /\ circ \in CategoryScenarios
    /\ cats \subseteq Key /\ Builtin \subseteq cats
    /\ archive \subseteq cats
    /\ name \in [Key -> Key]
    /\ rules \in [Rule -> Target]
    /\ fallback \in Key \cup {NoKey}
    /\ known \subseteq Key
    /\ mail \subseteq Message /\ inbox \subseteq mail /\ jobs \subseteq mail
    /\ held \subseteq mail /\ astray \subseteq mail /\ primed \subseteq Worker
    /\ labels \in [Message -> SUBSET Key]
    /\ syncs \subseteq SyncType
    /\ task \in [Worker -> TaskType]
    /\ req \in [Session -> ReqType]

\* The taxonomy is seeded with the built-ins by whoever reads it first.
CategoryInit ==
    /\ circ \in CategoryScenarios
    /\ cats = Builtin /\ archive = {}
    /\ name = [k \in Key |-> k]
    /\ rules = [r \in Rule |-> NoKey] /\ fallback = NoKey
    /\ known = {} /\ mail = {} /\ inbox = {} /\ held = {} /\ astray = {}
    /\ labels = [m \in Message |-> {}]
    /\ primed = {} /\ jobs = {} /\ syncs = {}
    /\ task = [w \in Worker |-> NoTask]
    /\ req = [s \in Session |-> NoReq]

Idle(w) == task[w].kind = "idle"
Free(s) == req[s].kind = "idle"

Loaded == {w \in Worker : task[w].kind = "classify"}

Flipping == \E s \in Session : req[s].kind = "archive"

\* No request, queued sync or task has an archive flag in hand.
NoFlagInHand == ~Flipping /\ syncs = {} /\ \A w \in Worker : Idle(w)

\* A sync that puts mail back into the inbox is queued or runs.
PuttingBack ==
    \/ \E y \in syncs : ~y.archive
    \/ \E w \in Worker : task[w].kind = "sync" /\ ~task[w].job.archive

(***************************************************************************)
(* The mailbox and the tasks.                                              *)
(***************************************************************************)

\* A message arrives, in the inbox or into Mailman's hold, and its
\* classification is queued.
MailComes(m) ==
    /\ m \notin mail
    /\ mail' = mail \cup {m} /\ jobs' = jobs \cup {m}
    /\ \/ inbox' = inbox \cup {m} /\ UNCHANGED held
       \/ "mailman" \in circ /\ held' = held \cup {m} /\ UNCHANGED inbox
    /\ UNCHANGED <<circ, taxonomy, targets, known, labels, astray, primed, syncs, task, req>>

\* Mailman's tick returns held mail to the inbox, whatever label it wears.
ReleaseHeld ==
    \E batch \in SUBSET held \ {{}} :
        /\ inbox' = inbox \cup batch /\ held' = held \ batch
        /\ astray' = astray \cup {m \in batch : labels[m] # {}}
        /\ UNCHANGED <<circ, taxonomy, targets, known, mail, labels, queues, task, req>>

\* The label command creates and deletes Gmail labels by name and asks nobody
\* what they are for; a label that is deleted comes off all mail.
MakeLabel(k) ==
    /\ "label" \in circ /\ k \notin known
    /\ known' = known \cup {k}
    /\ UNCHANGED <<circ, taxonomy, targets, mail, labels, inbox, held, astray, queues, task, req>>

DeleteLabel(k) ==
    /\ "label" \in circ /\ k \in known
    /\ known' = known \ {k}
    /\ labels' = [m \in Message |-> labels[m] \ {k}]
    /\ UNCHANGED <<circ, taxonomy, targets, mail, inbox, held, astray, queues, task, req>>

\* ensure_labels: what is missing of the built-in labels is created.
Provisioned == known \cup Builtin

\* classify_and_label: the built-in labels are provisioned, by a process that
\* remembers having done so perhaps not again, and the whole configuration is
\* read into a snapshot.
LoadConfig(w, m) ==
    /\ Idle(w) /\ m \in jobs /\ ("flips" \in circ \/ ~(Flipping \/ PuttingBack))
    /\ jobs' = jobs \ {m}
    /\ known' = Provisioned \/ (w \in primed /\ known' = known)
    /\ primed' = primed \cup {w}
    /\ task' = [task EXCEPT ![w] =
          [kind |-> "classify", msg |-> m, cats |-> cats,
           archive |-> archive, rules |-> rules, fallback |-> fallback]]
    /\ UNCHANGED <<circ, taxonomy, targets, mail, labels, inbox, held, astray, syncs, req>>

\* first_match: the first rule that matches decides without the model.
Ruled(t) == {t.rules[r] : r \in Rule}

\* classify: a category the model is sure of, or else the fallback.
Picked(t) == t.cats \cup {t.fallback}

\* categorize_and_apply: a target that is not in the snapshot decides nothing.
Verdicts(t) == {IF k \in t.cats THEN k ELSE NoKey : k \in Ruled(t) \cup Picked(t)}

Mates(m) == {n \in mail : Thread[n] = Thread[m]}

\* resolve_label_id answers None when it cannot list the labels, and an id that
\* a process keeps of a label that was deleted and made anew takes nothing off.
Overlooked(t) == IF {"lookups", "label"} \cap circ = {} THEN {{}} ELSE SUBSET t.cats

\* apply_category: one call for the whole thread adds the winner's label and
\* takes off every other label of the snapshot's taxonomy, but for those whose
\* id it did not find.
Labelled(t, k, missed) ==
    [n \in Message |-> IF n \in Mates(t.msg) THEN (labels[n] \ (t.cats \ missed)) \cup {k}
                                             ELSE labels[n]]

Classify(w) ==
    /\ w \in Loaded
    /\ \E k \in Verdicts(task[w]), missed \in Overlooked(task[w]) :
          IF k = NoKey THEN UNCHANGED <<labels, inbox, astray>>
          ELSE LET leaving == IF k \in task[w].archive THEN Mates(task[w].msg) ELSE {}
               IN  /\ k \in known
                   /\ labels' = Labelled(task[w], k, missed)
                   /\ inbox' = inbox \ leaving /\ astray' = astray \ leaving
    /\ task' = [task EXCEPT ![w] = NoTask]
    /\ UNCHANGED <<circ, taxonomy, targets, known, mail, held, queues, req>>

\* A call fails, or the winner's label is not found: Celery repeats the task,
\* or its retries are spent.
ClassifyFails(w) ==
    /\ w \in Loaded /\ {"services", "lookups", "label"} \cap circ # {}
    /\ jobs' \in {jobs, jobs \cup {task[w].msg}}
    /\ task' = [task EXCEPT ![w] = NoTask]
    /\ UNCHANGED <<circ, taxonomy, targets, gmail, primed, syncs, req>>

\* The mail that wears a sync's label on the wrong side of the inbox.
WrongSide(y) == {m \in mail : y.key \in labels[m] /\ (m \in inbox <=> y.archive)}

\* SYNC_MAX messages of it are listed, or all...
BeginSync(w, y) ==
    /\ Idle(w) /\ y \in syncs
    /\ syncs' = syncs \ {y}
    /\ \E ids \in SUBSET WrongSide(y) :
          /\ Cardinality(ids) = SyncMax \/ (Cardinality(ids) < SyncMax /\ ids = WrongSide(y))
          /\ task' = [task EXCEPT ![w] = [kind |-> "sync", job |-> y, ids |-> ids]]
          /\ astray' = IF y.archive THEN astray \cup (WrongSide(y) \ ids) ELSE astray
    /\ UNCHANGED <<circ, taxonomy, targets, known, mail, labels, inbox, held, primed, jobs, req>>

\* ...and moved.
ApplySync(w) ==
    /\ task[w].kind = "sync"
    /\ IF task[w].job.archive
       THEN inbox' = inbox \ task[w].ids /\ astray' = astray \ task[w].ids
       ELSE inbox' = inbox \cup task[w].ids /\ UNCHANGED astray
    /\ task' = [task EXCEPT ![w] = NoTask]
    /\ UNCHANGED <<circ, taxonomy, targets, known, mail, labels, held, queues, req>>

SyncFails(w) ==
    /\ task[w].kind = "sync" /\ "services" \in circ
    /\ syncs' \in {syncs, syncs \cup {task[w].job}}
    /\ task' = [task EXCEPT ![w] = NoTask]
    /\ UNCHANGED <<circ, taxonomy, targets, gmail, primed, jobs, req>>

\* queue_unlabelled passes over mail that wears a label of the taxonomy, as
\* far as it finds the labels' ids.
Unlabelled == {m \in mail : "lookups" \in circ \/ labels[m] \cap cats = {}}

\* POST /reclassify: of the rest, the newest mail is queued again.
Reclassify ==
    /\ \E newest \in SUBSET Unlabelled : jobs' = jobs \cup newest
    /\ UNCHANGED <<circ, taxonomy, targets, gmail, primed, syncs, task, req>>

(***************************************************************************)
(* Requests: what is checked when one begins is not checked when it        *)
(* commits.                                                                *)
(***************************************************************************)

MayBegin(s, kind) ==
    /\ Free(s) /\ kind \in circ
    /\ "overlap" \in circ \/ \A t \in Session : Free(t)

Asks(s, r) == req' = [req EXCEPT ![s] = r]

Ends(s) == req' = [req EXCEPT ![s] = NoReq]

\* create_category: neither the key nor the name may be taken.
BeginCreate(s, k) ==
    /\ MayBegin(s, "create") /\ k \in Custom \ cats
    /\ \A c \in cats : name[c] # k
    /\ Asks(s, [kind |-> "create", key |-> k, labelled |-> FALSE])
    /\ UNCHANGED <<circ, taxonomy, targets, gmail, queues, task>>

\* A mutant: a label that exists already is taken over.
CreateLabel_Reused(s) ==
    /\ req[s].kind = "create" /\ ~req[s].labelled
    /\ known' = known \cup {req[s].key}
    /\ req' = [req EXCEPT ![s].labelled = TRUE]
    /\ UNCHANGED <<circ, taxonomy, targets, mail, labels, inbox, held, astray, queues, task>>

\* The Gmail label comes before the row; Gmail refuses a name that exists.
CreateLabel(s) ==
    /\ req[s].kind = "create" /\ ~req[s].labelled
    /\ IF req[s].key \in known
       THEN Ends(s) /\ UNCHANGED known
       ELSE /\ known' = known \cup {req[s].key}
            /\ req' = [req EXCEPT ![s].labelled = TRUE]
    /\ UNCHANGED <<circ, taxonomy, targets, mail, labels, inbox, held, astray, queues, task>>

\* The row is inserted, unless another request won the key.
CommitCreate(s, leaves) ==
    /\ req[s].kind = "create" /\ req[s].labelled
    /\ "growth" \in circ \/ Loaded = {}
    /\ IF req[s].key \in cats THEN UNCHANGED taxonomy
       ELSE LET k == req[s].key
            IN  /\ cats' = cats \cup {k}
                /\ archive' = IF leaves THEN archive \cup {k} ELSE archive
                /\ name' = [name EXCEPT ![k] = k]
    /\ Ends(s)
    /\ UNCHANGED <<circ, targets, gmail, queues, task>>

\* remove_category: the rules that assign the category are deleted and the
\* fallback is read; the label stays in Gmail.
BeginDelete(s, k) ==
    /\ MayBegin(s, "delete") /\ k \in cats \cap Custom
    /\ Asks(s, [kind |-> "delete", key |-> k,
                rules |-> {r \in Rule : rules[r] = k}, isFallback |-> fallback = k])
    /\ UNCHANGED <<circ, taxonomy, targets, gmail, queues, task>>

\* A mutant: only the rules that point at the category go with it.
CommitDelete_RulesOnly(s) ==
    /\ req[s].kind = "delete" /\ req[s].key \in cats
    /\ cats' = cats \ {req[s].key}
    /\ archive' = archive \ {req[s].key}
    /\ rules' = [r \in Rule |-> IF r \in req[s].rules THEN NoKey ELSE rules[r]]
    /\ Ends(s)
    /\ UNCHANGED <<circ, name, fallback, gmail, queues, task>>

CommitDelete(s) ==
    /\ req[s].kind = "delete" /\ req[s].key \in cats
    /\ cats' = cats \ {req[s].key}
    /\ archive' = archive \ {req[s].key}
    /\ rules' = [r \in Rule |-> IF r \in req[s].rules THEN NoKey ELSE rules[r]]
    /\ fallback' = IF req[s].isFallback THEN NoKey ELSE fallback
    /\ Ends(s)
    /\ UNCHANGED <<circ, name, gmail, queues, task>>

\* create_rule, update_rule, remove_rule and update_settings: what a rule
\* assigns and what the fallback names has to be in the taxonomy.
BeginTarget(s, r, k) ==
    /\ MayBegin(s, "rule") /\ k \in cats \cup {NoKey, "exclude"}
    /\ Asks(s, [kind |-> "rule", rule |-> r, key |-> k])
    /\ UNCHANGED <<circ, taxonomy, targets, gmail, queues, task>>

BeginFallback(s, k) ==
    /\ MayBegin(s, "fallback") /\ k \in cats \cup {NoKey}
    /\ Asks(s, [kind |-> "fallback", key |-> k])
    /\ UNCHANGED <<circ, taxonomy, targets, gmail, queues, task>>

CommitTarget(s) ==
    /\ \/ /\ req[s].kind = "rule"
          /\ rules' = [rules EXCEPT ![req[s].rule] = req[s].key]
          /\ UNCHANGED fallback
       \/ /\ req[s].kind = "fallback"
          /\ fallback' = req[s].key
          /\ UNCHANGED rules
    /\ Ends(s)
    /\ UNCHANGED <<circ, taxonomy, gmail, queues, task>>

\* A mutant: the flag changes for new mail only.
BeginArchive_NewMail(s, k, leaves) ==
    /\ MayBegin(s, "archive") /\ k \in cats /\ (k \in archive) # leaves
    /\ "flips" \in circ \/ NoFlagInHand
    /\ Asks(s, [kind |-> "archive", key |-> k, leaves |-> leaves])
    /\ UNCHANGED <<circ, taxonomy, targets, gmail, queues, task>>

\* update_category, the archive action: a flag that changes queues the sync
\* before the request commits.
BeginArchive(s, k, leaves) ==
    /\ MayBegin(s, "archive") /\ k \in cats /\ (k \in archive) # leaves
    /\ "flips" \in circ \/ NoFlagInHand
    /\ syncs' = syncs \cup {[key |-> k, archive |-> leaves]}
    /\ Asks(s, [kind |-> "archive", key |-> k, leaves |-> leaves])
    /\ UNCHANGED <<circ, taxonomy, targets, gmail, primed, jobs, task>>

CommitArchive(s) ==
    /\ req[s].kind = "archive"
    /\ archive' = IF req[s].key \in cats /\ req[s].leaves
                  THEN archive \cup {req[s].key} ELSE archive \ {req[s].key}
    /\ Ends(s)
    /\ UNCHANGED <<circ, cats, name, targets, gmail, queues, task>>

\* update_category, the display name: no other category may bear it.
BeginRename(s, k, n) ==
    /\ MayBegin(s, "rename") /\ k \in cats /\ n # name[k]
    /\ \A c \in cats \ {k} : name[c] # n
    /\ Asks(s, [kind |-> "rename", key |-> k, name |-> n])
    /\ UNCHANGED <<circ, taxonomy, targets, gmail, queues, task>>

CommitRename(s) ==
    /\ req[s].kind = "rename"
    /\ name' = IF req[s].key \in cats THEN [name EXCEPT ![req[s].key] = req[s].name] ELSE name
    /\ Ends(s)
    /\ UNCHANGED <<circ, cats, archive, targets, gmail, queues, task>>

\* The request fails or dies before its commit; a task it queued is queued.
Abort(s) ==
    /\ "crash" \in circ /\ ~Free(s)
    /\ Ends(s)
    /\ UNCHANGED <<circ, taxonomy, targets, gmail, queues, task>>

WorkerStep(w) ==
    \/ \E m \in Message : LoadConfig(w, m)
    \/ Classify(w) \/ ClassifyFails(w)
    \/ \E y \in syncs : BeginSync(w, y)
    \/ ApplySync(w) \/ SyncFails(w)

Request(s) ==
    \/ \E k \in Custom : BeginCreate(s, k) \/ BeginDelete(s, k)
    \/ CreateLabel(s) \/ CommitDelete(s) \/ CommitTarget(s)
    \/ CommitArchive(s) \/ CommitRename(s) \/ Abort(s)
    \/ \E leaves \in BOOLEAN : CommitCreate(s, leaves)
    \/ \E k \in Key, leaves \in BOOLEAN : BeginArchive(s, k, leaves)
    \/ \E k, n \in Key : BeginRename(s, k, n)
    \/ \E r \in Rule, k \in Target : BeginTarget(s, r, k)
    \/ \E k \in Target : BeginFallback(s, k)

CategoryNext ==
    \/ \E m \in Message : MailComes(m)
    \/ \E w \in Worker : WorkerStep(w)
    \/ \E s \in Session : Request(s)
    \/ \E k \in Key : MakeLabel(k) \/ DeleteLabel(k)
    \/ ReleaseHeld \/ Reclassify

CategorySpec == CategoryInit /\ [][CategoryNext]_categoryVars

(***************************************************************************)
(* Properties.                                                             *)
(***************************************************************************)

\* A conversation wears at most one label of the user's taxonomy
\* (pipeline.py:167-171), although its messages are decided one by one, by
\* tasks that overlap and repeat, off snapshots that requests have overtaken,
\* and although deleting a category leaves its label on the mail: the name of
\* a deleted category is not given out again.  Three things break it: a
\* category that is committed while a task holds a snapshot without it, a
\* label lookup that fails and is passed over, and a label that the label
\* command deletes and that is made anew.
OneCategoryPerThread ==
    {"growth", "lookups", "label"} \cap circ = {} =>
        \A m \in mail :
            Cardinality((UNION {labels[n] : n \in Mates(m)}) \cap cats) <= 1

\* A category in use has its Gmail label (create_category), unless the label
\* command deletes labels, and no two bear one name, or mail for the second
\* would be filed under the first; what rules and the fallback name is in the
\* taxonomy (delete_category), as long as requests do not overlap.
TaxonomyIsWhole ==
    /\ "label" \notin circ => cats \cap Custom \subseteq known
    /\ "overlap" \notin circ =>
          /\ \A c, d \in cats : name[c] = name[d] => c = d
          /\ {rules[r] : r \in Rule} \cup {fallback} \subseteq cats \cup {NoKey, "exclude"}

\* Once the syncs are done, mail that wears the label of a category that is
\* moved out of the inbox is out of the inbox, whether it was labelled before
\* the flag was set or after (sync_category_inbox.py:4-7): all of it but what
\* a sync passed over, since it lists no more than SYNC_MAX, and what Mailman
\* released with the label on.  A flip that meets another or overtakes a
\* classification, mail that wears two labels (see above) of which one puts it
\* back, a call that fails for good and a request that dies after its sync was
\* queued leave more behind.
InboxFollowsCategory ==
    {"flips", "growth", "lookups", "label", "services", "crash"} \cap circ = {} /\ NoFlagInHand
    => \A m \in mail \ astray : labels[m] \cap archive # {} => m \notin inbox
=============================================================================
