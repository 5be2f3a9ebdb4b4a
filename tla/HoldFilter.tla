------------------------------ MODULE HoldFilter ------------------------------
(***************************************************************************)
(* Mailman's hold filter: the requests of api/v1/mailman.py (start, stop,  *)
(* update_vip) and the VIP commands of services/commands/handlers.py, all  *)
(* of which replace or remove one server-side Gmail filter through         *)
(* services/mailman/filters.py and remember its id in mailman_settings.    *)
(*                                                                         *)
(* Gmail changes at once; the row changes when the request's session       *)
(* commits, and only in the columns the request really changed.  One user. *)
(* Gmail's ids are never reused; an id nobody knows any more is as good as *)
(* a new one, which is what keeps the ids finite here.                     *)
(***************************************************************************)
EXTENDS Naturals, FiniteSets

CONSTANTS
    FilterId,   \* ids Gmail gives to filters
    Rules,      \* VIP rules; the filter excludes what they match
    Request,    \* API requests and command emails in progress
    NoFilter,   \* gmail_filter_id is None
    Gone,       \* no filter with this id
    Scenarios   \* the combinations of circumstances the instance allows

\* "overlap"  a request arrives while another is in progress
\* "delete"   Gmail refuses to delete a filter
\* "create"   labels or filters cannot be created, or the answer is lost
\* "crash"    the process dies in the middle of a request
\* "command"  VIP rules are also changed by command emails
Circumstance == {"overlap", "delete", "create", "crash", "command"}

ASSUME HoldFilterAssumption ==
    /\ NoFilter \notin FilterId
    /\ Gone \notin Rules
    /\ Scenarios \subseteq SUBSET Circumstance

VARIABLES
    faults,     \* the circumstances of this behaviour
    active,     \* mailman_settings.is_active
    recorded,   \* mailman_settings.gmail_filter_id
    vip,        \* mailman_vip_rules
    live,       \* the filters on the Gmail account, by id
    pc,         \* where each request is
    req,        \* what each request has read and made
    last        \* how the last request ended: "ok" when it ran alone and
                \* reported success

row == <<active, recorded, vip>>
vars == <<faults, active, recorded, vip, live, pc, req, last>>

Op == {"none", "start", "stop", "vip", "command"}
Step == {"idle", "parse", "delete", "install", "adopt", "commit"}

Req == [op: Op, alone: BOOLEAN, active: BOOLEAN, recorded: FilterId \cup {NoFilter},
        vip: Rules, wanted: Rules, made: FilterId \cup {NoFilter}]

TypeOK ==
    /\ faults \subseteq Circumstance
    /\ active \in BOOLEAN
    /\ recorded \in FilterId \cup {NoFilter}
    /\ vip \in Rules
    /\ live \in [FilterId -> Rules \cup {Gone}]
    /\ pc \in [Request -> Step]
    /\ req \in [Request -> Req]
    /\ last \in {"none", "ok", "failed", "mixed"}

\* A request that is not in progress carries nothing.
AnyRules == CHOOSE v \in Rules : TRUE
NoReq == [op |-> "none", alone |-> FALSE, active |-> FALSE, recorded |-> NoFilter,
          vip |-> AnyRules, wanted |-> AnyRules, made |-> NoFilter]

Init ==
    /\ faults \in Scenarios
    /\ active = FALSE
    /\ recorded = NoFilter
    /\ vip \in Rules
    /\ live = [f \in FilterId |-> Gone]
    /\ pc = [r \in Request |-> "idle"]
    /\ req = [r \in Request |-> NoReq]
    /\ last = "none"

Quiet == \A r \in Request : pc[r] = "idle"

Goto(r, step) == pc' = [pc EXCEPT ![r] = step]

\* The live filters with these VIP rules; Gmail keeps at most one.
Matching(v) == {f \in FilterId : live[f] = v}

\* An id nobody has heard of.
Fresh ==
    {f \in FilterId : /\ live[f] = Gone
                      /\ f # recorded
                      /\ \A r \in Request : f \notin {req[r].recorded, req[r].made}}

\* A request ends, and its client is told.
Return(r, how) ==
    /\ Goto(r, "idle")
    /\ req' = [req EXCEPT ![r] = NoReq]
    /\ last' = IF req[r].alone THEN how ELSE "mixed"

-----------------------------------------------------------------------------
(* Requests arrive and read the row *)

\* The session keeps what it read: nothing is read twice.
Begin(r, op, v, step) ==
    /\ pc[r] = "idle"
    /\ "overlap" \in faults \/ Quiet
    /\ Goto(r, step)
    /\ req' = [q \in Request |->
                 IF q = r
                 THEN [op |-> op, alone |-> Quiet, active |-> active,
                       recorded |-> recorded, vip |-> vip, wanted |-> v,
                       made |-> recorded]
                 ELSE [req[q] EXCEPT !.alone = FALSE]]
    /\ UNCHANGED <<faults, row, live, last>>

BeginStart(r) == Begin(r, "start", vip, "delete")

BeginStop(r) == Begin(r, "stop", vip, "delete")

\* update_vip: the filter is only touched while Mailman is active.
BeginVip(r, v) == Begin(r, "vip", v, IF active THEN "delete" ELSE "commit")

\* handle_command_email reads the settings before it has the email parsed.
BeginCommand(r) ==
    /\ "command" \in faults
    /\ Begin(r, "command", vip, "parse")

\* add_vip, remove_vip: the VIP rules are read and changed.
Command(r, v) ==
    /\ pc[r] = "parse"
    /\ req' = [req EXCEPT ![r].vip = vip, ![r].wanted = v]
    /\ Goto(r, IF req[r].active THEN "delete" ELSE "commit")
    /\ UNCHANGED <<faults, row, live, last>>

-----------------------------------------------------------------------------
(* Gmail *)

\* delete_filter on the id the row had; a failure is logged and swallowed.
Delete(r) ==
    /\ pc[r] = "delete"
    /\ \/ live' = [f \in FilterId |-> IF f = req[r].recorded THEN Gone ELSE live[f]]
       \/ "delete" \in faults /\ UNCHANGED live
    /\ Goto(r, IF req[r].op = "stop" THEN "commit" ELSE "install")
    /\ UNCHANGED <<faults, row, req, last>>

\* create_hold_filter, when no live filter is the same.
Install(r) ==
    /\ pc[r] = "install"
    /\ Matching(req[r].wanted) = {}
    /\ \E f \in Fresh :
        /\ live' = [live EXCEPT ![f] = req[r].wanted]
        /\ req' = [req EXCEPT ![r].made = f]
    /\ Goto(r, "commit")
    /\ UNCHANGED <<faults, row, last>>

\* "Filter already exists"
Exists(r) ==
    /\ pc[r] = "install"
    /\ Matching(req[r].wanted) # {}
    /\ Goto(r, "adopt")
    /\ UNCHANGED <<faults, row, live, req, last>>

\* Mutant of Adopt: any hold filter will do, whatever VIP rules it has.
Adopt_AnyRules(r) ==
    /\ pc[r] = "adopt"
    /\ \E f \in {g \in FilterId : live[g] # Gone} : req' = [req EXCEPT ![r].made = f]
    /\ Goto(r, "commit")
    /\ UNCHANGED <<faults, row, live, last>>

\* find_hold_filter: the live filter with the same criteria.
Adopt(r) ==
    /\ pc[r] = "adopt"
    /\ \E f \in Matching(req[r].wanted) : req' = [req EXCEPT ![r].made = f]
    /\ Goto(r, "commit")
    /\ UNCHANGED <<faults, row, live, last>>

-----------------------------------------------------------------------------
(* The row *)

\* Mutant of Commit: the id of the new filter is not remembered.
Commit_IdLost(r) ==
    /\ pc[r] = "commit"
    /\ recorded' = IF req[r].op = "stop" THEN NoFilter ELSE recorded
    /\ active' = CASE req[r].op = "start" -> TRUE
                   [] req[r].op = "stop" -> FALSE
                   [] OTHER -> active
    /\ vip' = req[r].wanted
    /\ Return(r, "ok")
    /\ UNCHANGED <<faults, live>>

\* The session commits the columns whose value differs from the one it read.
Commit(r) ==
    /\ pc[r] = "commit"
    /\ LET made == IF req[r].op = "stop" THEN NoFilter ELSE req[r].made
           on == CASE req[r].op = "start" -> TRUE
                   [] req[r].op = "stop" -> FALSE
                   [] OTHER -> req[r].active
       IN /\ recorded' = IF made = req[r].recorded THEN recorded ELSE made
          /\ active' = IF on = req[r].active THEN active ELSE on
    /\ vip' = IF req[r].wanted = req[r].vip THEN vip ELSE req[r].wanted
    /\ Return(r, "ok")
    /\ UNCHANGED <<faults, live>>

\* The exception rolls an API request back, but a command email only reports
\* it and commits the VIP rules it had changed by then.
Rollback(r) ==
    /\ vip' = IF req[r].op # "command" \/ req[r].wanted = req[r].vip
              THEN vip ELSE req[r].wanted
    /\ Return(r, "failed")
    /\ UNCHANGED <<faults, active, recorded>>

\* ensure_labels or create_filter raises, also when the filter was created.
InstallFails(r) ==
    /\ "create" \in faults
    /\ pc[r] \in {"install", "adopt"}
    /\ \/ UNCHANGED live
       \/ /\ pc[r] = "install"
          /\ Matching(req[r].wanted) = {}
          /\ \E f \in Fresh : live' = [live EXCEPT ![f] = req[r].wanted]
    /\ Rollback(r)

\* The filter Gmail said exists was removed before it was looked up.
AdoptFails(r) ==
    /\ pc[r] = "adopt"
    /\ Matching(req[r].wanted) = {}
    /\ Rollback(r)
    /\ UNCHANGED live

Crash(r) ==
    /\ "crash" \in faults
    /\ pc[r] # "idle"
    /\ Return(r, "failed")
    /\ UNCHANGED <<faults, row, live>>

Next ==
    \E r \in Request :
        \/ BeginStart(r) \/ BeginStop(r) \/ BeginCommand(r)
        \/ \E v \in Rules : BeginVip(r, v) \/ Command(r, v)
        \/ Delete(r) \/ Install(r) \/ Exists(r) \/ Adopt(r)
        \/ Commit(r) \/ InstallFails(r) \/ AdoptFails(r) \/ Crash(r)

Spec == Init /\ [][Next]_vars

-----------------------------------------------------------------------------
(* Properties *)

\* "the VIP rules in it are the ones the caller just asked for, not stale ones"
\* (filters.create_hold_filter): whatever went wrong before, once a request
\* that had the user to itself has reported success and Mailman is active, the
\* recorded filter is on Gmail and has the stored VIP rules.
SuccessHolds == Quiet /\ last = "ok" /\ active => recorded \in Matching(vip)

\* "without it /mailman/stop could never remove the filter, leaving mail
\* skipping the inbox forever" (filters.create_hold_filter): while Gmail
\* answers and requests come one at a time, the filter is there exactly when
\* Mailman is active, and there is no second one.
OneFilter ==
    Quiet /\ faults \subseteq {"command"} =>
        {f \in FilterId : live[f] # Gone} = IF active THEN {recorded} ELSE {}

\* "Rebuild the live hold filter so VIP changes take effect now"
\* (handlers.execute): with requests one at a time, a recorded filter never
\* has other VIP rules than the stored ones, whichever request failed or died.
\* A command email may leave them apart when Gmail refuses both calls.
RulesInForce ==
    /\ Quiet
    /\ "overlap" \notin faults
    /\ ~({"command", "delete", "create"} \subseteq faults)
    /\ recorded \in FilterId
    => live[recorded] \in {vip, Gone}
=============================================================================
