---------------------------- MODULE MailmanProofs ----------------------------
(***************************************************************************)
(* Theorems about Mailman: about HoldFilter and about Chat, which composes *)
(* it with the turns and the decisions of the web chat, for any number of  *)
(* requests, turns, filters and VIP rules and any combination of           *)
(* circumstances; and about Delivery, for any day, schedules, mail and     *)
(* number of overlapping ticks.                                            *)
(***************************************************************************)
EXTENDS Chat, Delivery, TLAPS


LEMMA NoReqTyped == ASSUME TypeOK PROVE NoReq \in Req
  BY DEF TypeOK, NoReq, Req, Op, AnyRules

LEMMA ReturnTyped ==
  ASSUME TypeOK, NEW r \in Request, NEW how \in {"ok", "failed", "mixed"}, Return(r, how)
  PROVE  pc' \in [Request -> Step] /\ req' \in [Request -> Req]
         /\ last' \in {"none", "ok", "failed", "mixed"}
  BY NoReqTyped DEF TypeOK, Return, Goto, Step

LEMMA BeginTyped ==
  ASSUME TypeOK, NEW r \in Request, NEW op \in Op, NEW v \in Rules,
         NEW step \in Step, Begin(r, op, v, step)
  PROVE  TypeOK'
  <1>1. [op |-> op, alone |-> Quiet, active |-> active, recorded |-> recorded,
         vip |-> vip, wanted |-> v, made |-> recorded] \in Req
    BY DEF TypeOK, Req, Quiet
  <1>2. \A q \in Request : [req[q] EXCEPT !.alone = FALSE] \in Req
    BY DEF TypeOK, Req
  <1>3. req' \in [Request -> Req]
    BY <1>1, <1>2 DEF Begin
  <1> QED BY <1>3 DEF TypeOK, Begin, Goto, row

LEMMA RollbackTyped ==
  ASSUME TypeOK, NEW r \in Request, Rollback(r), live' \in [FilterId -> Rules \cup {Gone}]
  PROVE  TypeOK'
  <1>1. vip' \in Rules BY DEF TypeOK, Rollback, Req
  <1> QED BY <1>1, ReturnTyped DEF TypeOK, Rollback

LEMMA TypeStep == ASSUME TypeOK, [Next]_vars PROVE TypeOK'
  <1>1. CASE UNCHANGED vars
    BY <1>1 DEF TypeOK, vars, row
  <1>2. CASE Next
    <2> SUFFICES ASSUME NEW r \in Request,
                        \/ BeginStart(r) \/ BeginStop(r) \/ BeginCommand(r)
                        \/ \E v \in Rules : BeginVip(r, v) \/ Command(r, v)
                        \/ Delete(r) \/ Install(r) \/ Exists(r) \/ Adopt(r)
                        \/ Commit(r) \/ InstallFails(r) \/ AdoptFails(r) \/ Crash(r)
                 PROVE  TypeOK'
      BY <1>2 DEF Next
    <2>1. CASE BeginStart(r)
      BY <2>1, BeginTyped DEF BeginStart, Op, Step, TypeOK
    <2>2. CASE BeginStop(r)
      BY <2>2, BeginTyped DEF BeginStop, Op, Step, TypeOK
    <2>3. CASE BeginCommand(r)
      BY <2>3, BeginTyped DEF BeginCommand, Op, Step, TypeOK
    <2>4. ASSUME NEW v \in Rules, BeginVip(r, v) PROVE TypeOK'
      BY <2>4, BeginTyped DEF BeginVip, Op, Step
    <2>5. ASSUME NEW v \in Rules, Command(r, v) PROVE TypeOK'
      <3>1. [req[r] EXCEPT !.vip = vip, !.wanted = v] \in Req
        BY DEF TypeOK, Req
      <3>2. req' = [req EXCEPT ![r] = [req[r] EXCEPT !.vip = vip, !.wanted = v]]
        BY <2>5 DEF Command, TypeOK, Req
      <3> QED BY <2>5, <3>1, <3>2 DEF Command, TypeOK, Goto, Step, row
    <2>6. CASE Delete(r)
      BY <2>6 DEF Delete, TypeOK, Goto, Step, row
    <2>7. CASE Install(r)
      BY <2>7 DEF Install, Fresh, TypeOK, Goto, Step, row, Req
    <2>8. CASE Exists(r)
      BY <2>8 DEF Exists, TypeOK, Goto, Step, row
    <2>9. CASE Adopt(r)
      BY <2>9 DEF Adopt, Matching, TypeOK, Goto, Step, row, Req
    <2>10. CASE Commit(r)
      <3>1. recorded' \in FilterId \cup {NoFilter} /\ active' \in BOOLEAN /\ vip' \in Rules
        BY <2>10 DEF Commit, TypeOK, Req, Op
      <3> QED BY <2>10, <3>1, ReturnTyped DEF Commit, TypeOK
    <2>11. CASE InstallFails(r)
      <3>1. live' \in [FilterId -> Rules \cup {Gone}]
        BY <2>11 DEF InstallFails, Fresh, TypeOK, Req
      <3> QED BY <2>11, <3>1, RollbackTyped DEF InstallFails
    <2>12. CASE AdoptFails(r)
      BY <2>12, RollbackTyped DEF AdoptFails, TypeOK
    <2>13. CASE Crash(r)
      BY <2>13, ReturnTyped DEF Crash, TypeOK, row
    <2> QED BY <2>1, <2>2, <2>3, <2>4, <2>5, <2>6, <2>7, <2>8, <2>9, <2>10, <2>11,
               <2>12, <2>13
  <1> QED BY <1>1, <1>2 DEF vars

\* The state variables keep their types (mailman_settings, mailman_vip_rules
\* and the account's filters), whatever fails.
THEOREM HoldFilterTypeCorrect == Spec => []TypeOK
  <1>1. Init => TypeOK
    <2> SUFFICES ASSUME Init PROVE TypeOK OBVIOUS
    <2>1. NoReq \in Req
      BY DEF Init, NoReq, Req, Op, AnyRules
    <2> QED BY <2>1, HoldFilterAssumption DEF Init, TypeOK, Step
  <1> QED BY <1>1, TypeStep, PTL DEF Spec

-----------------------------------------------------------------------------
(* A request that is alone finds the row as it read it, and by the time it *)
(* commits a filter for an active Mailman, that filter is on Gmail.        *)

Lone(r) == pc[r] # "idle" /\ req[r].alone

\* Whether the request leaves Mailman active.
LeavesOn(r) == req[r].op = "start" \/ (req[r].op \in {"vip", "command"} /\ req[r].active)

AsRead(r) ==
    /\ \A q \in Request \ {r} : pc[q] = "idle"
    /\ req[r].active = active
    /\ req[r].recorded = recorded
    /\ req[r].vip = vip
    /\ req[r].op \in {"start", "stop", "vip", "command"}
    /\ pc[r] \in {"install", "adopt"} => req[r].op # "stop"
    /\ pc[r] = "parse" => req[r].op = "command"
    /\ pc[r] = "commit" /\ LeavesOn(r) => req[r].made \in Matching(req[r].wanted)

LoneInv == \A r \in Request : Lone(r) => AsRead(r)

IInv == TypeOK /\ LoneInv /\ SuccessHolds

LEMMA BeginStep ==
  ASSUME IInv, TypeOK', NEW r \in Request, NEW v \in Rules,
         NEW op \in {"start", "stop", "vip", "command"},
         NEW step \in {"parse", "delete", "commit"},
         Begin(r, op, v, step),
         step = "parse" => op = "command",
         step = "commit" => op = "vip" /\ ~active
  PROVE  LoneInv' /\ SuccessHolds'
  <1>1. pc'[r] = step /\ ~Quiet'
    BY DEF Begin, Goto, IInv, TypeOK, Quiet
  <1>2. ASSUME NEW q \in Request, Lone(q)' PROVE q = r /\ Quiet
    BY <1>2 DEF Begin, Goto, IInv, TypeOK, Req, Lone
  <1>3. LoneInv'
    <2> SUFFICES ASSUME Lone(r)', Quiet PROVE AsRead(r)'
      BY <1>2 DEF LoneInv
    <2>1. req'[r] = [op |-> op, alone |-> TRUE, active |-> active,
                     recorded |-> recorded, vip |-> vip, wanted |-> v, made |-> recorded]
      BY DEF Begin
    <2>2. \A q \in Request \ {r} : pc'[q] = "idle"
      BY DEF Begin, Goto, Quiet, IInv, TypeOK
    <2> QED BY <1>1, <2>1, <2>2 DEF Begin, row, LeavesOn, AsRead
  <1> QED BY <1>1, <1>3 DEF SuccessHolds

\* A step of a request that neither ends it nor touches the row.
LEMMA InnerStep ==
  ASSUME IInv, TypeOK', NEW r \in Request,
         pc[r] # "idle", pc'[r] # "idle",
         \A q \in Request \ {r} : pc'[q] = pc[q] /\ req'[q] = req[q],
         req'[r].alone = req[r].alone, UNCHANGED row,
         Lone(r) =>
           /\ req'[r].active = active
           /\ req'[r].recorded = recorded
           /\ req'[r].vip = vip
           /\ req'[r].op = req[r].op
           /\ pc'[r] \in {"install", "adopt"} => req[r].op # "stop"
           /\ pc'[r] # "parse"
           /\ pc'[r] = "commit" /\ LeavesOn(r)' => req'[r].made \in FilterId /\ live'[req'[r].made] = req'[r].wanted
  PROVE  LoneInv' /\ SuccessHolds'
  <1>1. ~Quiet' BY DEF Quiet
  <1>2. ASSUME NEW q \in Request, Lone(q)' PROVE q = r /\ Lone(r)
    BY <1>2 DEF Lone, IInv, LoneInv, AsRead
  <1>3. Lone(r) => AsRead(r)'
    BY DEF LoneInv, AsRead, IInv, row, Matching
  <1>4. LoneInv'
    BY <1>2, <1>3 DEF LoneInv
  <1> QED BY <1>1, <1>4 DEF SuccessHolds

\* A request that ends leaves no request alone.
LEMMA ReturnStep ==
  ASSUME IInv, NEW r \in Request, NEW how \in {"ok", "failed", "mixed"}, pc[r] # "idle",
         Return(r, how)
  PROVE  /\ LoneInv'
         /\ last' = "ok" => how = "ok" /\ Lone(r)
  <1>1. ASSUME NEW q \in Request, Lone(q)' PROVE FALSE
    <2>1. q # r BY <1>1 DEF Lone, Return, Goto, IInv, TypeOK
    <2>2. Lone(q) BY <1>1, <2>1 DEF Lone, Return, Goto, IInv, TypeOK
    <2> QED BY <2>1, <2>2 DEF IInv, LoneInv, AsRead, Lone
  <1>2. LoneInv' BY <1>1 DEF LoneInv
  <1> QED BY <1>2 DEF Return, Lone

LEMMA LoneStep == ASSUME IInv, TypeOK', [Next]_vars PROVE LoneInv' /\ SuccessHolds'
  <1>1. CASE UNCHANGED vars
    BY <1>1 DEF IInv, LoneInv, AsRead, SuccessHolds, Lone, LeavesOn, Matching, Quiet, vars, row
  <1>2. CASE Next
    <2> SUFFICES ASSUME NEW r \in Request,
                        \/ BeginStart(r) \/ BeginStop(r) \/ BeginCommand(r)
                        \/ \E v \in Rules : BeginVip(r, v) \/ Command(r, v)
                        \/ Delete(r) \/ Install(r) \/ Exists(r) \/ Adopt(r)
                        \/ Commit(r) \/ InstallFails(r) \/ AdoptFails(r) \/ Crash(r)
                 PROVE  LoneInv' /\ SuccessHolds'
      BY <1>2 DEF Next
    <2> USE DEF IInv
    <2>1. CASE BeginStart(r)
      BY <2>1, BeginStep DEF BeginStart, TypeOK
    <2>2. CASE BeginStop(r)
      BY <2>2, BeginStep DEF BeginStop, TypeOK
    <2>3. CASE BeginCommand(r)
      BY <2>3, BeginStep DEF BeginCommand, TypeOK
    <2>4. ASSUME NEW v \in Rules, BeginVip(r, v) PROVE LoneInv' /\ SuccessHolds'
      BY <2>4, BeginStep DEF BeginVip, TypeOK
    <2>5. ASSUME NEW v \in Rules, Command(r, v) PROVE LoneInv' /\ SuccessHolds'
      <3>1. req'[r] = [req[r] EXCEPT !.vip = vip, !.wanted = v]
        BY <2>5 DEF Command, TypeOK, Req
      <3>2. pc'[r] = IF req[r].active THEN "delete" ELSE "commit"
        BY <2>5 DEF Command, Goto, TypeOK
      <3>3. \A q \in Request \ {r} : pc'[q] = pc[q] /\ req'[q] = req[q]
        BY <2>5 DEF Command, Goto, TypeOK
      <3>4. pc[r] = "parse" /\ UNCHANGED row
        BY <2>5 DEF Command
      <3>5. req'[r].op = req[r].op /\ req'[r].active = req[r].active
            /\ req'[r].alone = req[r].alone /\ req'[r].recorded = req[r].recorded
            /\ req'[r].vip = vip
        BY <3>1 DEF TypeOK, Req
      <3>6. Lone(r) => req[r].op = "command" /\ req[r].active = active
                       /\ req[r].recorded = recorded
        BY <3>4 DEF LoneInv, AsRead
      <3> QED BY <3>2, <3>3, <3>4, <3>5, <3>6, InnerStep DEF LeavesOn
    <2>6. CASE Delete(r)
      <3>1. pc[r] = "delete" /\ UNCHANGED row /\ UNCHANGED req
        BY <2>6 DEF Delete
      <3>2. pc'[r] = IF req[r].op = "stop" THEN "commit" ELSE "install"
        BY <2>6 DEF Delete, Goto, TypeOK
      <3>3. \A q \in Request \ {r} : pc'[q] = pc[q]
        BY <2>6 DEF Delete, Goto, TypeOK
      <3> QED BY <3>1, <3>2, <3>3, InnerStep DEF LoneInv, AsRead, LeavesOn
    <2>7. CASE Install(r)
      <3> PICK f \in Fresh : live' = [live EXCEPT ![f] = req[r].wanted]
                             /\ req' = [req EXCEPT ![r].made = f]
        BY <2>7 DEF Install
      <3>1. pc[r] = "install" /\ UNCHANGED row /\ pc'[r] = "commit"
        BY <2>7 DEF Install, Goto, TypeOK
      <3>2. \A q \in Request \ {r} : pc'[q] = pc[q] /\ req'[q] = req[q]
        BY <2>7 DEF Install, Goto, TypeOK
      <3>3. req'[r] = [req[r] EXCEPT !.made = f]
        BY DEF TypeOK, Req
      <3>4. f \in FilterId /\ live'[f] = req'[r].wanted /\ req'[r].made = f
        BY <3>3 DEF Fresh, TypeOK, Req
      <3>5. req'[r].op = req[r].op /\ req'[r].active = req[r].active
            /\ req'[r].alone = req[r].alone /\ req'[r].recorded = req[r].recorded
            /\ req'[r].vip = req[r].vip
        BY <3>3 DEF TypeOK, Req
      <3>6. req'[r].made \in FilterId /\ live'[req'[r].made] = req'[r].wanted
        BY <3>4 DEF Matching
      <3> QED BY <3>1, <3>2, <3>5, <3>6, InnerStep DEF LoneInv, AsRead
    <2>8. CASE Exists(r)
      <3>1. pc[r] = "install" /\ UNCHANGED row /\ UNCHANGED req /\ pc'[r] = "adopt"
        BY <2>8 DEF Exists, Goto, TypeOK
      <3>2. \A q \in Request \ {r} : pc'[q] = pc[q]
        BY <2>8 DEF Exists, Goto, TypeOK
      <3> QED BY <3>1, <3>2, InnerStep DEF LoneInv, AsRead
    <2>9. CASE Adopt(r)
      <3> PICK f \in Matching(req[r].wanted) : req' = [req EXCEPT ![r].made = f]
        BY <2>9 DEF Adopt
      <3>1. pc[r] = "adopt" /\ UNCHANGED row /\ UNCHANGED live /\ pc'[r] = "commit"
        BY <2>9 DEF Adopt, Goto, TypeOK
      <3>2. \A q \in Request \ {r} : pc'[q] = pc[q] /\ req'[q] = req[q]
        BY <2>9 DEF Adopt, Goto, TypeOK
      <3>3. req'[r] = [req[r] EXCEPT !.made = f]
        BY DEF TypeOK, Req
      <3>4. req'[r].wanted = req[r].wanted /\ req'[r].made = f
            /\ req'[r].op = req[r].op /\ req'[r].active = req[r].active
            /\ req'[r].alone = req[r].alone /\ req'[r].recorded = req[r].recorded
            /\ req'[r].vip = req[r].vip
        BY <3>3 DEF TypeOK, Req
      <3>5. req'[r].made \in FilterId /\ live'[req'[r].made] = req'[r].wanted
        BY <3>1, <3>4 DEF Matching
      <3> QED BY <3>1, <3>2, <3>4, <3>5, InnerStep DEF LoneInv, AsRead
    <2>10. CASE Commit(r)
      <3>1. pc[r] = "commit" /\ Return(r, "ok") /\ UNCHANGED live
        BY <2>10 DEF Commit
      <3>2. ASSUME last' = "ok", active' PROVE recorded' \in FilterId /\ live'[recorded'] = vip'
        <4>1. Lone(r) BY <3>1, <3>2, ReturnStep
        <4>2. req[r].op \in {"start", "stop", "vip", "command"}
              /\ req[r].active = active /\ req[r].recorded = recorded /\ req[r].vip = vip
          BY <4>1 DEF LoneInv, AsRead
        <4>3. vip' = req[r].wanted BY <2>10, <4>2 DEF Commit
        <4>4. LeavesOn(r) BY <2>10, <3>2, <4>2 DEF Commit, LeavesOn
        <4>5. recorded' = req[r].made
          BY <2>10, <4>2, <4>4 DEF Commit, LeavesOn
        <4>6. req[r].made \in Matching(req[r].wanted)
          BY <3>1, <4>1, <4>4 DEF LoneInv, AsRead
        <4> QED BY <3>1, <4>3, <4>5, <4>6 DEF Matching
      <3> QED BY <3>1, <3>2, ReturnStep DEF SuccessHolds, Matching
    <2>11. CASE InstallFails(r)
      BY <2>11, ReturnStep DEF InstallFails, Rollback, SuccessHolds
    <2>12. CASE AdoptFails(r)
      BY <2>12, ReturnStep DEF AdoptFails, Rollback, SuccessHolds
    <2>13. CASE Crash(r)
      BY <2>13, ReturnStep DEF Crash, SuccessHolds
    <2> QED BY <2>1, <2>2, <2>3, <2>4, <2>5, <2>6, <2>7, <2>8, <2>9, <2>10, <2>11,
               <2>12, <2>13
  <1> QED BY <1>1, <1>2 DEF vars

\* Whatever failed, died or overlapped before, a request that was alone and
\* reported success leaves an active Mailman with a recorded filter that is on
\* Gmail and has the stored VIP rules (filters.create_hold_filter).
THEOREM SuccessMeansHeld == Spec => []SuccessHolds
  <1>1. Init => IInv
    <2> SUFFICES ASSUME Init PROVE IInv OBVIOUS
    <2>1. NoReq \in Req
      BY DEF Init, NoReq, Req, Op, AnyRules
    <2>2. TypeOK BY <2>1, HoldFilterAssumption DEF Init, TypeOK, Step
    <2> QED BY <2>2 DEF Init, IInv, LoneInv, Lone, SuccessHolds
  <1>2. IInv /\ [Next]_vars => IInv'
    BY TypeStep, LoneStep DEF IInv
  <1>3. IInv => SuccessHolds BY DEF IInv
  <1> QED BY <1>1, <1>2, <1>3, PTL DEF Spec
-----------------------------------------------------------------------------
(* What a step of the chat is to the hold filter: nothing, a step of its   *)
(* own, a decision that begins, a VIP action that reads the row again, or  *)
(* a request that ends with nothing more done.                             *)

Reread(r, v) ==
    /\ pc[r] = "parse"
    /\ req' = [req EXCEPT ![r].active = active, ![r].recorded = recorded,
                          ![r].made = recorded, ![r].vip = vip, ![r].wanted = v]
    /\ Goto(r, IF active THEN "delete" ELSE "commit")
    /\ UNCHANGED <<faults, row, live, last>>

GiveUp(r) ==
    /\ pc[r] # "idle"
    /\ Return(r, "mixed") \/ Return(r, "failed")
    /\ UNCHANGED <<faults, row, live>>

OwnPart ==
    \/ [Next]_vars
    \/ \E r \in Request :
        \/ "chat" \in ways /\ Begin(r, "command", vip, "parse")
        \/ \E v \in Rules : Reread(r, v)
        \/ GiveUp(r) /\ pc[r] = "parse"

FilterPart == OwnPart \/ \E r \in Request : GiveUp(r)

\* Only who chats has proposals to decide.
ChattersDecide == \A t \in Turn : status[t] = "pending" => "chat" \in ways

LEMMA ChatStepIsOwnPart ==
  ASSUME ChattersDecide, [ChatNext]_allVars PROVE OwnPart \/ \E r \in Request : Unsaved(r)
  <1>1. CASE UNCHANGED allVars
    BY <1>1 DEF allVars, OwnPart, vars
  <1>2. CASE TurnStep
    BY <1>2 DEF TurnStep, Ask, Generate, GenerateFails, Persist, Abandon,
                DeleteConversation, OwnPart
  <1>3. ASSUME NEW r \in Request, DecisionStep(r), ~Unsaved(r) PROVE OwnPart
    <2>1. ASSUME NEW t \in Turn, NEW approve \in BOOLEAN, Decide(r, t, approve)
          PROVE  OwnPart
      BY <2>1 DEF Decide, OwnPart, ChattersDecide
    <2>2. CASE RunAction(r)
      BY <2>2 DEF RunAction, OwnPart
    <2>3. ASSUME NEW v \in Rules, ChangeVip(r, v) PROVE OwnPart
      BY <2>3 DEF ChangeVip, Running, Reread, OwnPart
    <2>4. CASE Conclude(r)
      BY <2>4 DEF Conclude, GiveUp, OwnPart
    <2>5. CASE ConcludeVip(r)
      BY <2>5 DEF ConcludeVip, Next, OwnPart
    <2>6. CASE CrashDeciding(r)
      BY <2>6 DEF CrashDeciding, Next, OwnPart
    <2> QED BY <1>3, <2>1, <2>2, <2>3, <2>4, <2>5, <2>6 DEF DecisionStep
  <1>4. ASSUME NEW r \in Request, FilterStep(r) \/ MailmanStep(r) PROVE OwnPart
    BY <1>4 DEF FilterStep, MailmanStep, Next, OwnPart
  <1> QED BY <1>1, <1>2, <1>3, <1>4 DEF ChatNext

LEMMA ChatStepIsFilterPart == ASSUME ChattersDecide, [ChatNext]_allVars PROVE FilterPart
  <1>1. ASSUME NEW r \in Request, Unsaved(r) PROVE GiveUp(r)
    BY <1>1 DEF Unsaved, GiveUp
  <1> QED BY <1>1, ChatStepIsOwnPart DEF FilterPart

LEMMA PartTyped == ASSUME TypeOK, FilterPart PROVE TypeOK'
  <1>1. CASE [Next]_vars
    BY <1>1, TypeStep
  <1>2. ASSUME NEW r \in Request, Begin(r, "command", vip, "parse") PROVE TypeOK'
    BY <1>2, BeginTyped DEF TypeOK, Op, Step
  <1>3. ASSUME NEW r \in Request, NEW v \in Rules, Reread(r, v) PROVE TypeOK'
    <2>1. req' = [req EXCEPT ![r] = [req[r] EXCEPT !.active = active, !.recorded = recorded,
                                     !.made = recorded, !.vip = vip, !.wanted = v]]
      BY <1>3 DEF Reread, TypeOK, Req
    <2>2. [req[r] EXCEPT !.active = active, !.recorded = recorded,
                         !.made = recorded, !.vip = vip, !.wanted = v] \in Req
      BY DEF TypeOK, Req
    <2> QED BY <1>3, <2>1, <2>2 DEF Reread, TypeOK, Goto, Step, row
  <1>4. ASSUME NEW r \in Request, GiveUp(r) PROVE TypeOK'
    BY <1>4, ReturnTyped DEF GiveUp, TypeOK, row
  <1> QED BY <1>1, <1>2, <1>3, <1>4 DEF FilterPart, OwnPart

LEMMA PartLone == ASSUME IInv, TypeOK', FilterPart PROVE LoneInv' /\ SuccessHolds'
  <1> USE DEF IInv
  <1>1. CASE [Next]_vars
    BY <1>1, LoneStep
  <1>2. ASSUME NEW r \in Request, Begin(r, "command", vip, "parse")
        PROVE  LoneInv' /\ SuccessHolds'
    BY <1>2, BeginStep DEF TypeOK
  <1>3. ASSUME NEW r \in Request, NEW v \in Rules, Reread(r, v)
        PROVE  LoneInv' /\ SuccessHolds'
    <2>1. req'[r] = [req[r] EXCEPT !.active = active, !.recorded = recorded,
                                   !.made = recorded, !.vip = vip, !.wanted = v]
      BY <1>3 DEF Reread, TypeOK, Req
    <2>2. pc'[r] = IF active THEN "delete" ELSE "commit"
      BY <1>3 DEF Reread, Goto, TypeOK
    <2>3. \A q \in Request \ {r} : pc'[q] = pc[q] /\ req'[q] = req[q]
      BY <1>3 DEF Reread, Goto, TypeOK
    <2>4. pc[r] = "parse" /\ UNCHANGED row
      BY <1>3 DEF Reread
    <2>5. req'[r].op = req[r].op /\ req'[r].alone = req[r].alone
          /\ req'[r].active = active /\ req'[r].recorded = recorded /\ req'[r].vip = vip
      BY <2>1 DEF TypeOK, Req
    <2>6. Lone(r) => req[r].op = "command"
      BY <2>4 DEF LoneInv, AsRead
    <2> QED BY <2>2, <2>3, <2>4, <2>5, <2>6, InnerStep DEF LeavesOn
  <1>4. ASSUME NEW r \in Request, GiveUp(r) PROVE LoneInv' /\ SuccessHolds'
    BY <1>4, ReturnStep DEF GiveUp, SuccessHolds
  <1> QED BY <1>1, <1>2, <1>3, <1>4 DEF FilterPart, OwnPart
-----------------------------------------------------------------------------
(* Requests one at a time: whoever is in progress is alone.                *)

SoloInv == "overlap" \notin faults => \A r \in Request : pc[r] # "idle" => req[r].alone

\* A request in progress, where nothing overlaps: it read the row as it is, and
\* the others are idle.
LEMMA Solo ==
  ASSUME LoneInv, SoloInv, "overlap" \notin faults, NEW r \in Request, pc[r] # "idle"
  PROVE  AsRead(r) /\ ~Quiet
  BY DEF LoneInv, SoloInv, Lone, Quiet

LEMMA BeginSolo ==
  ASSUME TypeOK, "overlap" \notin faults, NEW r \in Request, NEW op \in Op,
         NEW v \in Rules, NEW step \in Step, Begin(r, op, v, step)
  PROVE  /\ Quiet
         /\ \A q \in Request \ {r} : pc[q] = "idle" /\ pc'[q] = "idle"
         /\ pc'[r] = step
         /\ req'[r].op = op /\ req'[r].alone /\ req'[r].active = active
         /\ req'[r].recorded = recorded /\ req'[r].made = recorded
         /\ req'[r].vip = vip /\ req'[r].wanted = v
  <1>1. Quiet BY DEF Begin
  <1>2. req'[r] = [op |-> op, alone |-> Quiet, active |-> active,
                   recorded |-> recorded, vip |-> vip, wanted |-> v, made |-> recorded]
    BY DEF Begin
  <1> QED BY <1>1, <1>2 DEF Begin, Quiet, Goto, TypeOK

LEMMA ReturnQuiet ==
  ASSUME TypeOK, LoneInv, SoloInv, "overlap" \notin faults, NEW r \in Request,
         pc[r] # "idle", NEW how, Return(r, how)
  PROVE  \A q \in Request : pc'[q] = "idle"
  BY Solo DEF AsRead, Return, Goto, TypeOK

\* What a step within a request leaves alone.
LEMMA InnerFacts ==
  ASSUME TypeOK, NEW r \in Request,
         \/ \E v \in Rules : Command(r, v)
         \/ \E v \in Rules : Reread(r, v)
         \/ Delete(r) \/ Install(r) \/ Exists(r) \/ Adopt(r)
  PROVE  /\ pc[r] # "idle" /\ pc'[r] # "idle"
         /\ \A q \in Request \ {r} : pc'[q] = pc[q] /\ req'[q] = req[q]
         /\ req'[r].alone = req[r].alone /\ req'[r].op = req[r].op
         /\ UNCHANGED <<faults, row>>
  <1>1. ASSUME NEW v \in Rules, Command(r, v) \/ Reread(r, v)
        PROVE  /\ req'[r].alone = req[r].alone /\ req'[r].op = req[r].op
               /\ \A q \in Request \ {r} : req'[q] = req[q]
    BY <1>1 DEF Command, Reread, TypeOK, Req
  <1>2. ASSUME Install(r) \/ Adopt(r)
        PROVE  /\ req'[r].alone = req[r].alone /\ req'[r].op = req[r].op
               /\ \A q \in Request \ {r} : req'[q] = req[q]
    BY <1>2 DEF Install, Adopt, TypeOK, Req
  <1>3. CASE \E v \in Rules : Command(r, v) \/ Reread(r, v)
    BY <1>1, <1>3 DEF Command, Reread, Goto, TypeOK
  <1>4. CASE Install(r) \/ Adopt(r)
    BY <1>2, <1>4 DEF Install, Adopt, Goto, TypeOK
  <1>5. CASE Delete(r) \/ Exists(r)
    BY <1>5 DEF Delete, Exists, Goto, TypeOK
  <1> QED BY <1>3, <1>4, <1>5

\* The ends of a request.
Ends(r) == Commit(r) \/ InstallFails(r) \/ AdoptFails(r) \/ Crash(r) \/ GiveUp(r)

LEMMA EndFacts ==
  ASSUME NEW r \in Request, Ends(r)
  PROVE  /\ pc[r] # "idle" /\ faults' = faults
         /\ Return(r, "ok") \/ Return(r, "failed") \/ Return(r, "mixed")
  BY DEF Ends, Commit, InstallFails, AdoptFails, Crash, GiveUp, Rollback

\* A VIP command comes by mail or from the chat.
MayCommand == "command" \in faults \/ "chat" \in ways

\* Every step begins a request, is a step within one, or ends one.
LEMMA PartCases ==
  ASSUME FilterPart
  PROVE  \/ UNCHANGED vars
         \/ \E r \in Request :
              \/ BeginStart(r) \/ BeginStop(r)
              \/ MayCommand /\ Begin(r, "command", vip, "parse")
              \/ \E v \in Rules : BeginVip(r, v) \/ Command(r, v) \/ Reread(r, v)
              \/ Delete(r) \/ Install(r) \/ Exists(r) \/ Adopt(r)
              \/ Ends(r)
  BY DEF FilterPart, OwnPart, Next, BeginCommand, Ends, MayCommand

LEMMA SoloStep == ASSUME TypeOK, LoneInv, SoloInv, FilterPart PROVE SoloInv'
  <1>1. CASE UNCHANGED vars
    BY <1>1 DEF SoloInv, vars
  <1>2. ASSUME NEW r \in Request, NEW op \in Op, NEW v \in Rules, NEW step \in Step,
               Begin(r, op, v, step)
        PROVE  SoloInv'
    BY <1>2, BeginSolo DEF SoloInv, Begin
  <1>3. ASSUME NEW r \in Request,
               \/ \E v \in Rules : Command(r, v) \/ Reread(r, v)
               \/ Delete(r) \/ Install(r) \/ Exists(r) \/ Adopt(r)
        PROVE  SoloInv'
    BY <1>3, InnerFacts DEF SoloInv
  <1>4. ASSUME NEW r \in Request, Ends(r) PROVE SoloInv'
    BY <1>4, EndFacts, ReturnQuiet DEF SoloInv
  <1>5. ASSUME NEW r \in Request,
               \/ BeginStart(r) \/ BeginStop(r) \/ Begin(r, "command", vip, "parse")
               \/ \E v \in Rules : BeginVip(r, v)
        PROVE  SoloInv'
    BY <1>2, <1>5 DEF BeginStart, BeginStop, BeginVip, TypeOK, Op, Step
  <1> QED BY <1>1, <1>3, <1>4, <1>5, PartCases
-----------------------------------------------------------------------------
(* OneFilter: while Gmail answers and requests come one at a time, what is *)
(* on the account at each step of a request.                               *)

LiveFilters == {f \in FilterId : live[f] # Gone}

\* The filter an active Mailman has.
Due == IF active THEN {recorded} ELSE {}

OneInv ==
    /\ Quiet => LiveFilters = Due
    /\ \A r \in Request :
        /\ pc[r] \in {"parse", "delete"} => LiveFilters = Due
        /\ pc[r] = "install" => LiveFilters = {}
        /\ pc[r] # "adopt"
        /\ pc[r] \in {"delete", "install"} => req[r].op = "stop" \/ LeavesOn(r)
        /\ pc[r] = "commit" => LiveFilters = IF LeavesOn(r) THEN {req[r].made} ELSE {}

LEMMA OneStep ==
  ASSUME TypeOK, TypeOK', LoneInv, SoloInv, faults \subseteq {"command"}, OneInv,
         OwnPart
  PROVE  OneInv'
  <1> USE HoldFilterAssumption
  <1>1. "overlap" \notin faults /\ "create" \notin faults /\ "delete" \notin faults
        /\ "crash" \notin faults
    OBVIOUS
  <1>2. CASE UNCHANGED vars
    BY <1>2 DEF vars, row, OneInv, Quiet, LiveFilters, Due, LeavesOn
  <1>3. ASSUME NEW r \in Request, NEW op \in {"start", "stop", "vip", "command"},
               NEW v \in Rules, NEW step \in {"parse", "delete", "commit"},
               Begin(r, op, v, step),
               step = "commit" => op = "vip" /\ ~active,
               step = "delete" => op \in {"start", "stop"} \/ active
        PROVE  OneInv'
    <2>1. /\ Quiet /\ pc'[r] = step /\ req'[r].op = op /\ req'[r].active = active
          /\ \A q \in Request \ {r} : pc'[q] = "idle"
      BY <1>1, <1>3, BeginSolo DEF Op, Step
    <2>2. LiveFilters' = LiveFilters /\ Due' = Due
      BY <1>3 DEF Begin, row, LiveFilters, Due
    <2> QED BY <1>3, <2>1, <2>2 DEF OneInv, Quiet, LeavesOn, Due
  <1>4. ASSUME NEW r \in Request, NEW v \in Rules, Command(r, v) \/ Reread(r, v)
        PROVE  OneInv'
    <2>1. AsRead(r) /\ \A q \in Request \ {r} : pc'[q] = "idle"
      BY <1>1, <1>4, Solo DEF Command, Reread, Goto, TypeOK, AsRead
    <2>2. pc[r] = "parse" /\ pc'[r] = IF active THEN "delete" ELSE "commit"
      BY <1>4, <2>1 DEF Command, Reread, Goto, TypeOK, AsRead
    <2>3. req'[r].op = "command" /\ req'[r].active = active
      <3>1. req[r].op = "command" /\ req[r].active = active
        BY <2>1, <2>2 DEF AsRead
      <3>2. CASE Command(r, v)
        <4>1. req'[r] = [req[r] EXCEPT !.vip = vip, !.wanted = v]
          BY <3>2 DEF Command, TypeOK, Req
        <4> QED BY <3>1, <4>1 DEF TypeOK, Req
      <3>3. CASE Reread(r, v)
        <4>1. req'[r] = [req[r] EXCEPT !.active = active, !.recorded = recorded,
                                       !.made = recorded, !.vip = vip, !.wanted = v]
          BY <3>3 DEF Reread, TypeOK, Req
        <4> QED BY <3>1, <4>1 DEF TypeOK, Req
      <3> QED BY <1>4, <3>2, <3>3
    <2>4. LiveFilters' = LiveFilters /\ Due' = Due
      <3>1. UNCHANGED live /\ UNCHANGED row
        BY <1>4 DEF Command, Reread
      <3> QED BY <3>1 DEF row, LiveFilters, Due
    <2>5. LeavesOn(r)' <=> active
      BY <2>3 DEF LeavesOn, TypeOK
    <2>6. LiveFilters = Due
      BY <2>2 DEF OneInv
    <2> QED BY <2>1, <2>2, <2>3, <2>4, <2>5, <2>6 DEF OneInv, Quiet, Due
  <1>5. ASSUME NEW r \in Request, Delete(r) PROVE OneInv'
    <2>1. AsRead(r) /\ \A q \in Request \ {r} : pc'[q] = "idle"
      BY <1>1, <1>5, Solo DEF Delete, Goto, TypeOK, AsRead
    <2>2. pc[r] = "delete" /\ pc'[r] = IF req[r].op = "stop" THEN "commit" ELSE "install"
      BY <1>5 DEF Delete, Goto, TypeOK
    <2>3. LiveFilters' = {}
      BY <1>1, <1>5, <2>1, <2>2 DEF Delete, AsRead, OneInv, LiveFilters, Due
    <2>4. LeavesOn(r)' = LeavesOn(r) /\ UNCHANGED req
      BY <1>5 DEF Delete, LeavesOn
    <2>5. req[r].op = "stop" => ~LeavesOn(r)
      BY DEF LeavesOn
    <2> QED BY <2>1, <2>2, <2>3, <2>4, <2>5 DEF OneInv, Quiet
  <1>6. ASSUME NEW r \in Request, Install(r) PROVE OneInv'
    <2>1. AsRead(r) /\ \A q \in Request \ {r} : pc'[q] = "idle"
      BY <1>1, <1>6, Solo DEF Install, Goto, TypeOK, AsRead
    <2>2. pc[r] = "install" /\ pc'[r] = "commit"
      BY <1>6 DEF Install, Goto, TypeOK
    <2> PICK f \in Fresh : live' = [live EXCEPT ![f] = req[r].wanted]
                           /\ req' = [req EXCEPT ![r].made = f]
      BY <1>6 DEF Install
    <2>3. LiveFilters' = {f}
      BY <2>2 DEF OneInv, LiveFilters, Fresh, TypeOK, Req
    <2>4. req'[r].made = f /\ req'[r].op = req[r].op /\ req'[r].active = req[r].active
      BY DEF TypeOK, Req
    <2>6. LeavesOn(r)'
      BY <2>1, <2>2, <2>4 DEF AsRead, LeavesOn, OneInv
    <2> QED BY <2>1, <2>2, <2>3, <2>4, <2>6 DEF OneInv, Quiet
  <1>7. ASSUME NEW r \in Request, Exists(r) \/ Adopt(r) PROVE FALSE
    BY <1>7 DEF Exists, Adopt, OneInv, Matching, LiveFilters, TypeOK, Req
  <1>8. ASSUME NEW r \in Request, Commit(r) PROVE OneInv'
    <2>1. AsRead(r) /\ \A q \in Request : pc'[q] = "idle"
      BY <1>1, <1>8, Solo, ReturnQuiet DEF Commit
    <2>2. LiveFilters' = LiveFilters
      BY <1>8 DEF Commit, LiveFilters
    <2>3. LiveFilters = IF LeavesOn(r) THEN {req[r].made} ELSE {}
      BY <1>8 DEF Commit, OneInv
    <2>4. active' = LeavesOn(r)
      BY <1>8, <2>1 DEF Commit, AsRead, LeavesOn, TypeOK
    <2>5. LeavesOn(r) => recorded' = req[r].made
      BY <1>8, <2>1 DEF Commit, AsRead, LeavesOn
    <2> QED BY <2>1, <2>2, <2>3, <2>4, <2>5 DEF OneInv, Quiet, Due
  <1>9. ASSUME NEW r \in Request, GiveUp(r), pc[r] = "parse" PROVE OneInv'
    <2>1. \A q \in Request : pc'[q] = "idle"
      BY <1>1, <1>9, ReturnQuiet DEF GiveUp
    <2>2. LiveFilters = Due
      BY <1>9 DEF OneInv
    <2> QED BY <1>9, <2>1, <2>2 DEF GiveUp, OneInv, Quiet, LiveFilters, Due, row
  <1>10. ASSUME NEW r \in Request, InstallFails(r) \/ AdoptFails(r) \/ Crash(r) PROVE FALSE
    BY <1>1, <1>10 DEF InstallFails, AdoptFails, Crash, OneInv
  <1>11. ASSUME NEW r \in Request,
                \/ BeginStart(r) \/ BeginStop(r) \/ Begin(r, "command", vip, "parse")
                \/ \E v \in Rules : BeginVip(r, v)
         PROVE  OneInv'
    BY <1>3, <1>11 DEF BeginStart, BeginStop, BeginVip, TypeOK
  <1>12. CASE [Next]_vars
    BY <1>2, <1>4, <1>5, <1>6, <1>7, <1>8, <1>10, <1>11, <1>12 DEF Next, BeginCommand
  <1> QED BY <1>4, <1>9, <1>11, <1>12 DEF OwnPart

LEMMA OneMeansOneFilter == ASSUME OneInv PROVE OneFilter
  BY DEF OneInv, OneFilter, LiveFilters, Due
-----------------------------------------------------------------------------
(* RulesInForce: where requests come one at a time and no command meets a   *)
(* Gmail that refuses both calls, whatever else fails or dies.              *)

Tame == "overlap" \notin faults /\ ~(MayCommand /\ {"delete", "create"} \subseteq faults)

\* The recorded filter is not on Gmail with other VIP rules than the stored ones.
InForce == recorded \in FilterId => live[recorded] \in {vip, Gone}

RulesAt(r) ==
    /\ pc[r] \in {"install", "adopt"} /\ "delete" \notin faults /\ recorded \in FilterId
         => live[recorded] = Gone
    /\ pc[r] = "adopt" => Matching(req[r].wanted) # {}
    /\ req[r].op \in {"vip", "command"} /\ (pc[r] = "parse" \/ (pc[r] = "commit" /\ ~active))
         => req[r].made = recorded
    /\ req[r].op \in {"vip", "command"} /\ pc[r] \in {"delete", "install", "adopt"} => active
    /\ req[r].op = "command" => MayCommand

RulesInv ==
    /\ ~active => recorded = NoFilter
    /\ InForce
    /\ \A r \in Request : pc[r] # "idle" => RulesAt(r)

\* A step that ends a request leaves nothing to say of it.
LEMMA RulesEnd ==
  ASSUME TypeOK, LoneInv, SoloInv, "overlap" \notin faults, NEW r \in Request, Ends(r),
         ~active' => recorded' = NoFilter, InForce'
  PROVE  RulesInv'
  BY EndFacts, ReturnQuiet DEF RulesInv

\* Nor does a step that leaves the row alone and changes one filter that is not
\* the recorded one disturb the other requests.
LEMMA RulesInner ==
  ASSUME TypeOK, LoneInv, SoloInv, "overlap" \notin faults, RulesInv, NEW r \in Request,
         \/ \E v \in Rules : Command(r, v) \/ Reread(r, v)
         \/ Delete(r) \/ Install(r) \/ Exists(r) \/ Adopt(r),
         InForce', RulesAt(r)'
  PROVE  RulesInv'
  <1>1. AsRead(r) /\ \A q \in Request \ {r} : pc'[q] = "idle"
    BY InnerFacts, Solo DEF AsRead
  <1> QED BY <1>1, InnerFacts DEF RulesInv, row

LEMMA RulesStep ==
  ASSUME TypeOK, TypeOK', LoneInv, SoloInv, Tame, RulesInv, ways' = ways, FilterPart
  PROVE  RulesInv'
  <1> USE HoldFilterAssumption
  <1>1. "overlap" \notin faults
    BY DEF Tame
  <1>2. CASE UNCHANGED vars
    BY <1>2 DEF vars, row, RulesInv, InForce, RulesAt, Matching, MayCommand
  <1>3. ASSUME NEW r \in Request, NEW op \in {"start", "stop", "vip", "command"},
               NEW v \in Rules, NEW step \in {"parse", "delete", "commit"},
               Begin(r, op, v, step), op = "command" => MayCommand,
               step = "delete" => op \in {"start", "stop"} \/ active
        PROVE  RulesInv'
    <2>1. /\ pc'[r] = step /\ req'[r].op = op /\ req'[r].made = recorded
          /\ \A q \in Request \ {r} : pc'[q] = "idle"
      BY <1>1, <1>3, BeginSolo DEF Op, Step
    <2>2. UNCHANGED <<faults, live, active, recorded, vip>>
      BY <1>3 DEF Begin, row
    <2>3. MayCommand' = MayCommand
      BY <2>2 DEF MayCommand
    <2> QED BY <1>3, <2>1, <2>2, <2>3 DEF RulesInv, InForce, RulesAt
  <1>4. ASSUME NEW r \in Request, NEW v \in Rules, Command(r, v) PROVE RulesInv'
    <2>1. AsRead(r) /\ RulesAt(r) /\ pc[r] = "parse"
      BY <1>1, <1>4, Solo DEF Command, RulesInv
    <2>2. req'[r] = [req[r] EXCEPT !.vip = vip, !.wanted = v]
      BY <1>4 DEF Command, TypeOK, Req
    <2>3. req'[r].made = req[r].made /\ req'[r].op = req[r].op
      BY <2>2 DEF TypeOK, Req
    <2>4. /\ pc'[r] = (IF active THEN "delete" ELSE "commit")
          /\ UNCHANGED <<faults, row, live>>
      BY <2>1, <1>4 DEF Command, Goto, TypeOK, AsRead
    <2>5. InForce' /\ RulesAt(r)'
      BY <2>1, <2>3, <2>4 DEF AsRead, RulesAt, RulesInv, InForce, row, MayCommand
    <2> QED BY <1>1, <1>4, <2>5, RulesInner
  <1>5. ASSUME NEW r \in Request, NEW v \in Rules, Reread(r, v) PROVE RulesInv'
    <2>1. AsRead(r) /\ RulesAt(r) /\ pc[r] = "parse"
      BY <1>1, <1>5, Solo DEF Reread, RulesInv
    <2>2. req'[r] = [req[r] EXCEPT !.active = active, !.recorded = recorded,
                                   !.made = recorded, !.vip = vip, !.wanted = v]
      BY <1>5 DEF Reread, TypeOK, Req
    <2>3. req'[r].made = recorded /\ req'[r].op = req[r].op
      BY <2>2 DEF TypeOK, Req
    <2>4. /\ pc'[r] = (IF active THEN "delete" ELSE "commit")
          /\ UNCHANGED <<faults, row, live>>
      BY <2>1, <1>5 DEF Reread, Goto, TypeOK, AsRead
    <2>5. InForce' /\ RulesAt(r)'
      BY <2>1, <2>3, <2>4 DEF AsRead, RulesAt, RulesInv, InForce, row, MayCommand
    <2> QED BY <1>1, <1>5, <2>5, RulesInner
  <1>6. ASSUME NEW r \in Request, Delete(r) PROVE RulesInv'
    <2>1. AsRead(r) /\ RulesAt(r)
      BY <1>1, <1>6, Solo DEF Delete, RulesInv
    <2>2. /\ pc[r] = "delete" /\ pc'[r] \in {"commit", "install"}
          /\ UNCHANGED <<faults, row, req>>
          /\ pc'[r] = "commit" => req[r].op = "stop"
      BY <1>6 DEF Delete, Goto, TypeOK
    <2>3. recorded \in FilterId =>
            live'[recorded] = Gone \/ ("delete" \in faults /\ live' = live)
      BY <1>6, <2>1 DEF Delete, AsRead
    <2>4. InForce' /\ RulesAt(r)'
      BY <2>1, <2>2, <2>3 DEF RulesAt, RulesInv, InForce, row, MayCommand
    <2> QED BY <1>1, <1>6, <2>4, RulesInner
  <1>7. ASSUME NEW r \in Request, Install(r) PROVE RulesInv'
    <2>1. AsRead(r) /\ RulesAt(r)
      BY <1>1, <1>7, Solo DEF Install, RulesInv
    <2>2. pc[r] = "install" /\ pc'[r] = "commit" /\ UNCHANGED <<faults, row>>
      BY <1>7 DEF Install, Goto, TypeOK
    <2> PICK f \in Fresh : live' = [live EXCEPT ![f] = req[r].wanted]
                           /\ req' = [req EXCEPT ![r].made = f]
      BY <1>7 DEF Install
    <2>3. recorded \in FilterId => live'[recorded] = live[recorded]
      BY DEF Fresh, TypeOK
    <2>4. req'[r].op = req[r].op
      BY DEF TypeOK, Req
    <2>5. req[r].op \in {"vip", "command"} => active
      BY <2>1, <2>2 DEF RulesAt
    <2>6. InForce' /\ RulesAt(r)'
      BY <2>1, <2>2, <2>3, <2>4, <2>5 DEF RulesAt, RulesInv, InForce, row, MayCommand
    <2> QED BY <1>1, <1>7, <2>6, RulesInner
  <1>8. ASSUME NEW r \in Request, Exists(r) PROVE RulesInv'
    <2>1. AsRead(r) /\ RulesAt(r)
      BY <1>1, <1>8, Solo DEF Exists, RulesInv
    <2>2. pc[r] = "install" /\ pc'[r] = "adopt" /\ UNCHANGED <<faults, row, live, req>>
      BY <1>8 DEF Exists, Goto, TypeOK
    <2>3. Matching(req[r].wanted)' = Matching(req[r].wanted) /\ Matching(req[r].wanted) # {}
      BY <1>8, <2>2 DEF Exists, Matching
    <2>4. InForce' /\ RulesAt(r)'
      BY <2>1, <2>2, <2>3 DEF RulesAt, RulesInv, InForce, row, MayCommand
    <2> QED BY <1>1, <1>8, <2>4, RulesInner
  <1>9. ASSUME NEW r \in Request, Adopt(r) PROVE RulesInv'
    <2>1. AsRead(r) /\ RulesAt(r)
      BY <1>1, <1>9, Solo DEF Adopt, RulesInv
    <2>2. pc[r] = "adopt" /\ pc'[r] = "commit" /\ UNCHANGED <<faults, row, live>>
      BY <1>9 DEF Adopt, Goto, TypeOK
    <2>3. req'[r].op = req[r].op
      BY <1>9 DEF Adopt, TypeOK, Req
    <2>4. InForce' /\ RulesAt(r)'
      BY <2>1, <2>2, <2>3 DEF RulesAt, RulesInv, InForce, row, MayCommand
    <2> QED BY <1>1, <1>9, <2>4, RulesInner
  <1>10. ASSUME NEW r \in Request, Commit(r) PROVE RulesInv'
    <2>1. AsRead(r) /\ RulesAt(r) /\ pc[r] = "commit"
      BY <1>1, <1>10, Solo DEF Commit, RulesInv
    <2>2. UNCHANGED live /\ vip' = req[r].wanted
      BY <1>10, <2>1 DEF Commit, AsRead
    <2>3. recorded' = IF req[r].op = "stop" THEN NoFilter ELSE req[r].made
      BY <1>10, <2>1 DEF Commit, AsRead
    <2>4. active' <=> LeavesOn(r)
      BY <1>10, <2>1 DEF Commit, AsRead, LeavesOn, TypeOK
    <2>5. LeavesOn(r) => live[req[r].made] = req[r].wanted
      BY <2>1 DEF AsRead, Matching
    <2>6. ~LeavesOn(r) => recorded' = NoFilter
      BY <2>1, <2>3 DEF AsRead, LeavesOn, RulesAt, RulesInv
    <2>7. InForce' /\ (~active' => recorded' = NoFilter)
      BY <2>1, <2>2, <2>3, <2>4, <2>5, <2>6 DEF InForce, LeavesOn, AsRead
    <2> QED BY <1>1, <1>10, <2>7, RulesEnd DEF Ends
  <1>11. ASSUME NEW r \in Request, InstallFails(r) \/ AdoptFails(r) PROVE RulesInv'
    <2>1. AsRead(r) /\ RulesAt(r) /\ pc[r] \in {"install", "adopt"}
      BY <1>1, <1>11, Solo DEF InstallFails, AdoptFails, RulesInv
    <2>2. InstallFails(r) /\ "create" \in faults
      BY <1>11, <2>1 DEF InstallFails, AdoptFails, RulesAt
    <2>3. recorded \in FilterId => live'[recorded] = live[recorded]
      BY <2>2 DEF InstallFails, Fresh, TypeOK
    <2>4. UNCHANGED <<active, recorded>> /\ vip' \in {vip, req[r].wanted}
      BY <2>2 DEF InstallFails, Rollback
    <2>5. vip' = vip \/ req[r].op = "command"
      BY <2>2 DEF InstallFails, Rollback
    <2>6. req[r].op = "command" => "delete" \notin faults
      BY <2>1, <2>2 DEF RulesAt, Tame
    <2>7. InForce' /\ (~active' => recorded' = NoFilter)
      BY <2>1, <2>3, <2>4, <2>5, <2>6 DEF InForce, RulesAt, RulesInv
    <2> QED BY <1>1, <1>11, <2>7, RulesEnd DEF Ends
  <1>12. ASSUME NEW r \in Request, Crash(r) \/ GiveUp(r) PROVE RulesInv'
    <2>1. UNCHANGED <<faults, row, live>>
      BY <1>12 DEF Crash, GiveUp
    <2>2. InForce' /\ (~active' => recorded' = NoFilter)
      BY <2>1 DEF RulesInv, InForce, row
    <2> QED BY <1>1, <1>12, <2>2, RulesEnd DEF Ends
  <1>13. ASSUME NEW r \in Request,
                \/ BeginStart(r) \/ BeginStop(r)
                \/ MayCommand /\ Begin(r, "command", vip, "parse")
                \/ \E v \in Rules : BeginVip(r, v)
         PROVE  RulesInv'
    BY <1>3, <1>13 DEF BeginStart, BeginStop, BeginVip, TypeOK
  <1> QED BY <1>2, <1>4, <1>5, <1>6, <1>7, <1>8, <1>9, <1>10, <1>11, <1>12, <1>13,
             PartCases DEF Ends

LEMMA TameMeansInForce == ASSUME Tame => RulesInv
  PROVE ("chat" \in ways /\ {"delete", "create"} \subseteq faults) \/ RulesInForce
  BY DEF Tame, MayCommand, RulesInv, InForce, RulesInForce
-----------------------------------------------------------------------------
(* The chat: the types of its state, and what ties a decision to its turn. *)

LEMMA AppendTyped ==
  ASSUME NEW S, NEW s \in Seq(S), NEW e \in S PROVE Append(s, e) \in Seq(S)
  OBVIOUS

LEMMA ChatTypeStep == ASSUME TypeOK, ChatTypeOK, [ChatNext]_allVars PROVE ChatTypeOK'
  <1> USE ChatAssumption DEF ChatTypeOK
  <1>1. CASE UNCHANGED allVars
    BY <1>1 DEF allVars, chatVars, turnVars
  <1>2. ASSUME NEW t \in Turn, NEW x \in Text, Ask(t, x) PROVE ChatTypeOK'
    BY <1>2 DEF Ask, AddMessage, Reach
  <1>3. ASSUME NEW t \in Turn, Generate(t) PROVE ChatTypeOK'
    <2>1. <<"gmail">> \in Seq(ActionKind) /\ <<>> \in Seq(ActionKind)
      BY DEF ActionKind
    <2>2. \A p \in Proposals : p \in Seq(ActionKind)
      OBVIOUS
    <2>3. ASSUME text[t] = "fixed" PROVE Leads(text[t]) = {<<"gmail">>}
      BY <2>3 DEF Leads
    <2>4. ASSUME text[t] = "args" PROVE Leads(text[t]) = Parsed
      BY <2>4 DEF Leads
    <2>5. ASSUME text[t] \notin {"fixed", "args"} PROVE Leads(text[t]) = {<<>>}
      BY <2>5 DEF Leads
    <2>6. \A p \in Leads(text[t]) : p \in Seq(ActionKind)
      BY <2>1, <2>2, <2>3, <2>4, <2>5 DEF Parsed
    <2> QED BY <1>3, <2>6 DEF Generate, Reach, Text
  <1>4. ASSUME NEW t \in Turn, GenerateFails(t) \/ Abandon(t) PROVE ChatTypeOK'
    <2>1. <<>> \in Seq(ActionKind) /\ "words" \in Text
      BY DEF Text
    <2>2. CASE GenerateFails(t)
      BY <2>1, <2>2 DEF GenerateFails, Reach
    <2>3. CASE Abandon(t)
      BY <2>1, <2>3 DEF Abandon, Reach
    <2> QED BY <1>4, <2>2, <2>3
  <1>5. ASSUME NEW t \in Turn, Persist(t) PROVE ChatTypeOK'
    <2>1. transcript' \in Seq(Turn \X {"user", "assistant"})
      <3> DEFINE Entry == Turn \X {"user", "assistant"}
      <3>1. <<t, "assistant">> \in Entry /\ transcript \in Seq(Entry)
        OBVIOUS
      <3>2. transcript' \in {transcript, Append(transcript, <<t, "assistant">>)}
        BY <1>5 DEF Persist, AddMessage
      <3> HIDE DEF Entry
      <3>3. Append(transcript, <<t, "assistant">>) \in Seq(Entry)
        BY <3>1, AppendTyped, Zenon
      <3>4. transcript' \in Seq(Entry)
        BY <3>1, <3>2, <3>3
      <3> QED BY <3>4 DEF Entry
    <2>2. status' \in [Turn -> {"absent", "none", "pending", "confirmed", "rejected"}]
      BY <1>5 DEF Persist
    <2> QED BY <1>5, <2>1, <2>2 DEF Persist, Reach
  <1>6. CASE DeleteConversation
    BY <1>6 DEF DeleteConversation
  <1>7. ASSUME NEW r \in Request, NEW t \in Turn, NEW approve \in BOOLEAN,
               Decide(r, t, approve)
        PROVE  ChatTypeOK'
    <2>1. [turn |-> t, approve |-> approve, acted |-> FALSE, wrote |-> FALSE,
           left |-> IF approve THEN actions[t] ELSE <<>>] \in Decision
      BY DEF Decision
    <2> QED BY <1>7, <2>1 DEF Decide, turnVars
  <1>8. ASSUME NEW r \in Request, RunAction(r) PROVE ChatTypeOK'
    <2> PICK works \in BOOLEAN :
              LET t == deciding[r].turn
                  kind == Head(deciding[r].left)
                  acts == works /\ kind = "gmail"
              IN /\ outside' = IF acts /\ ~deciding[r].acted
                               THEN [outside EXCEPT ![t] = Again(@)] ELSE outside
                 /\ deciding' = [deciding EXCEPT ![r].left = Tail(@),
                                                 ![r].acted = @ \/ acts,
                                                 ![r].wrote = @ \/ (works /\ kind = "row")]
      BY <1>8 DEF RunAction
    <2>1. deciding[r] \in Decision /\ Tail(deciding[r].left) \in Seq(ActionKind)
      BY <1>8 DEF RunAction, Running, Decision
    <2>2. deciding' = [deciding EXCEPT ![r] =
             [deciding[r] EXCEPT !.left = Tail(deciding[r].left),
                !.acted = deciding[r].acted \/ (works /\ Head(deciding[r].left) = "gmail"),
                !.wrote = deciding[r].wrote \/ (works /\ Head(deciding[r].left) = "row")]]
      BY DEF Decision
    <2>3. [deciding[r] EXCEPT !.left = Tail(deciding[r].left),
             !.acted = deciding[r].acted \/ (works /\ Head(deciding[r].left) = "gmail"),
             !.wrote = deciding[r].wrote \/ (works /\ Head(deciding[r].left) = "row")]
          \in Decision
      BY <2>1 DEF Decision
    <2>4. \A n \in 0..2 : Again(n) \in 0..2
      BY DEF Again
    <2>5. outside' = outside \/ \E t : outside' = [outside EXCEPT ![t] = Again(@)]
      OBVIOUS
    <2>6. outside' \in [Turn -> 0..2]
      BY <2>4, <2>5
    <2>7. deciding' \in [Request -> Decision]
      BY <2>2, <2>3
    <2> QED BY <1>8, <2>6, <2>7 DEF RunAction, turnVars
  <1>9. ASSUME NEW r \in Request, NEW v \in Rules, ChangeVip(r, v) PROVE ChatTypeOK'
    <2>1. deciding' = [deciding EXCEPT ![r] = [deciding[r] EXCEPT !.left = <<>>]]
      BY <1>9 DEF ChangeVip, Decision
    <2>2. <<>> \in Seq(ActionKind)
      OBVIOUS
    <2>3. [deciding[r] EXCEPT !.left = <<>>] \in Decision
      BY <2>2 DEF Decision
    <2> QED BY <1>9, <2>1, <2>3 DEF ChangeVip, turnVars
  <1>10. ASSUME NEW r \in Request, Saved(r), Decides(r) PROVE ChatTypeOK'
    <2>1. Undecided \in Decision BY DEF Undecided, Decision
    <2>2. deciding[r].turn \in Turn BY <1>10 DEF Decides, Decision
    <2> QED BY <1>10, <2>1, <2>2 DEF Saved, Again
  <1>11. ASSUME NEW r \in Request, Unsaved(r) \/ CrashDeciding(r) PROVE ChatTypeOK'
    <2>1. Undecided \in Decision BY DEF Undecided, Decision
    <2> QED BY <1>11, <2>1 DEF Unsaved, CrashDeciding, turnVars
  <1>12. CASE UNCHANGED chatVars
    BY <1>12 DEF chatVars, turnVars
  <1> QED BY <1>1, <1>2, <1>3, <1>4, <1>5, <1>6, <1>7, <1>8, <1>9, <1>10, <1>11, <1>12
          DEF ChatNext, TurnStep, DecisionStep, Conclude, ConcludeVip

ConvInv ==
    /\ \A r \in Request : Decides(r) => pc[r] # "idle" /\ stage[deciding[r].turn] = "over"
    /\ \A t \in Turn : status[t] # "absent" => stage[t] = "over" /\ conversation = "open"
    /\ \A t \in Turn : stage[t] # "unasked" => "chat" \in ways
    /\ "tabs" \notin ways => \A r \in Request : Decides(r) => conversation = "open"

LEMMA ConvStep ==
  ASSUME TypeOK, ChatTypeOK, ConvInv, [ChatNext]_allVars
  PROVE  ConvInv'
  <1> USE ChatAssumption DEF ConvInv, Decides
  <1>a. \A r \in Request : Decides(r) => deciding[r].turn \in Turn
    BY DEF ChatTypeOK, Decision
  <1>1. CASE UNCHANGED allVars
    BY <1>1 DEF allVars, vars, chatVars, turnVars
  <1>2. ASSUME NEW t \in Turn, NEW x \in Text, Ask(t, x) PROVE ConvInv'
    BY <1>a, <1>2 DEF Ask, Reach, Found, ChatTypeOK, vars
  <1>3. ASSUME NEW t \in Turn, Generate(t) \/ GenerateFails(t) \/ Abandon(t) PROVE ConvInv'
    <2>1. stage[t] # "over" /\ stage[t] # "unasked"
      BY <1>3 DEF Generate, GenerateFails, Abandon, InProgress
    <2> PICK s \in {"answered", "over"} : stage' = [stage EXCEPT ![t] = s]
      BY <1>3 DEF Generate, GenerateFails, Abandon, Reach
    <2>2. UNCHANGED <<pc, ways, conversation, status, deciding>>
      BY <1>3 DEF Generate, GenerateFails, Abandon, vars
    <2>3. \A u \in Turn : stage'[u] = IF u = t THEN s ELSE stage[u]
      BY DEF ChatTypeOK
    <2>4. \A u \in Turn : /\ stage[u] = "over" => stage'[u] = "over"
                          /\ stage'[u] # "unasked" => stage[u] # "unasked"
      BY <2>1, <2>3
    <2> QED BY <1>a, <2>2, <2>4
  <1>4. ASSUME NEW t \in Turn, Persist(t) PROVE ConvInv'
    BY <1>a, <1>4 DEF Persist, Reach, ChatTypeOK, vars
  <1>5. CASE DeleteConversation
    BY <1>5 DEF DeleteConversation, Undisturbed, Quiet, vars
  <1>6. ASSUME NEW r \in Request, NEW t \in Turn, NEW approve \in BOOLEAN,
               Decide(r, t, approve)
        PROVE  ConvInv'
    BY <1>6 DEF Decide, Begin, Goto, TypeOK, ChatTypeOK, turnVars
  <1>7. ASSUME NEW r \in Request, RunAction(r) PROVE ConvInv'
    <2>1. \A q \in Request : deciding'[q].turn = deciding[q].turn
      BY <1>7 DEF RunAction, ChatTypeOK, Decision
    <2> QED BY <1>7, <2>1 DEF RunAction, vars, turnVars
  <1>8. ASSUME NEW r \in Request, NEW v \in Rules, ChangeVip(r, v) PROVE ConvInv'
    <2>1. \A q \in Request : deciding'[q].turn = deciding[q].turn
      BY <1>8 DEF ChangeVip, ChatTypeOK, Decision
    <2>2. \A q \in Request : pc[q] # "idle" => pc'[q] # "idle"
      BY <1>8 DEF ChangeVip, Goto, TypeOK
    <2> QED BY <1>8, <2>1, <2>2 DEF ChangeVip, turnVars
  <1>9. ASSUME NEW r \in Request, Conclude(r) \/ ConcludeVip(r) PROVE ConvInv'
    <2>1. \A q \in Request \ {r} : pc'[q] = pc[q]
      BY <1>9 DEF Conclude, ConcludeVip, Commit, InstallFails, AdoptFails, Rollback,
                  Return, Goto, TypeOK
    <2>2. /\ Saved(r) /\ Decides(r)
          /\ conversation = "open"
          /\ \A q \in Request : deciding'[q] = IF q = r THEN Undecided ELSE deciding[q]
      BY <1>9 DEF Conclude, ConcludeVip, Saved, ChatTypeOK
    <2>3. \A t \in Turn : status'[t] # "absent" => status[t] # "absent" \/ t = deciding[r].turn
      BY <2>2 DEF Saved, ChatTypeOK
    <2>4. \A q \in Request : Decides(q)' => q # r /\ Decides(q)
      BY <2>2 DEF Undecided
    <2>5. UNCHANGED <<ways, conversation, stage>>
      BY <2>2 DEF Saved
    <2>6. stage[deciding[r].turn] = "over" /\ deciding[r].turn \in Turn
      BY <1>a, <2>2
    <2>7. \A q \in Request : Decides(q)' => deciding'[q] = deciding[q] /\ pc'[q] = pc[q]
      BY <2>1, <2>2, <2>4
    <2> QED BY <2>2, <2>3, <2>4, <2>5, <2>6, <2>7
  <1>10. ASSUME NEW r \in Request, Unsaved(r) \/ CrashDeciding(r) PROVE ConvInv'
    <2>1. \A q \in Request \ {r} : pc'[q] = pc[q]
      BY <1>10 DEF Unsaved, CrashDeciding, Crash, Return, Goto, TypeOK
    <2>2. \A q \in Request : deciding'[q] = IF q = r THEN Undecided ELSE deciding[q]
      BY <1>10 DEF Unsaved, CrashDeciding, ChatTypeOK
    <2> QED BY <1>10, <2>1, <2>2 DEF Unsaved, CrashDeciding, Undecided, turnVars
  <1>11. ASSUME NEW r \in Request, FilterStep(r) \/ MailmanStep(r), UNCHANGED chatVars
         PROVE  ConvInv'
    <2>1. \A q \in Request \ {r} : pc'[q] = pc[q]
      BY <1>11 DEF FilterStep, MailmanStep, BeginStart, BeginStop, BeginCommand, BeginVip,
                   Begin, Command, Delete, Install, Exists, Adopt, Commit, InstallFails,
                   AdoptFails, Crash, Rollback, Return, Goto, TypeOK
    <2>2. pc'[r] # "idle" \/ ~Decides(r)
      BY <1>11 DEF FilterStep, MailmanStep, Delete, Install, Exists, Adopt, Goto, TypeOK
    <2> QED BY <1>11, <2>1, <2>2 DEF chatVars, turnVars
  <1> QED BY <1>1, <1>2, <1>3, <1>4, <1>5, <1>6, <1>7, <1>8, <1>9, <1>10, <1>11
          DEF ChatNext, TurnStep, DecisionStep
-----------------------------------------------------------------------------
(* RunsOnce: what a proposal may have done at each point of its life.      *)

\* A decision that was not an approval does nothing; one that has not acted
\* leaves its proposal without effect.
DecisionAt(r) ==
    LET t == deciding[r].turn
    IN  /\ ~deciding[r].approve =>
              deciding[r].left = <<>> /\ ~deciding[r].acted /\ ~deciding[r].wrote
        /\ stored[t] = 0
        /\ conversation # "deleted" => status[t] = "pending"
        /\ "crash" \notin faults /\ ~deciding[r].acted => outside[t] = 0

\* A turn whose proposal is not confirmed has had no effect, but for what a
\* decision under way has done.
TurnAt(t) ==
    /\ stored[t] <= 1
    /\ "crash" \notin faults => outside[t] <= 1
    /\ stage[t] # "over" \/ (conversation # "deleted" /\ status[t] # "confirmed") =>
          /\ stored[t] = 0
          /\ "crash" \notin faults =>
                outside[t] = 0 \/ \E r \in Request : deciding[r].turn = t /\ deciding[r].acted

OnceInv ==
    /\ \A r \in Request : Decides(r) => DecisionAt(r)
    /\ \A t \in Turn : TurnAt(t)

LEMMA OnceMeansRunsOnce ==
  ASSUME ChatTypeOK, ConvInv, "overlap" \notin faults => OnceInv
  PROVE  RunsOnce
  <1> SUFFICES ASSUME "overlap" \notin faults, NEW t \in Turn
               PROVE  /\ stored[t] <= 1
                      /\ status[t] = "rejected" => stored[t] = 0
                      /\ "crash" \notin faults =>
                            /\ outside[t] <= 1
                            /\ status[t] = "rejected" => outside[t] = 0
    BY DEF RunsOnce
  <1>1. TurnAt(t) BY DEF OnceInv
  <1>2. status[t] = "rejected" => conversation # "deleted"
    BY DEF ConvInv
  <1>3. ASSUME NEW r \in Request, deciding[r].turn = t, status[t] = "rejected" PROVE FALSE
    <2>1. Decides(r) BY <1>3, ChatAssumption DEF Decides
    <2> QED BY <1>2, <1>3, <2>1 DEF OnceInv, DecisionAt
  <1> QED BY <1>1, <1>2, <1>3 DEF TurnAt

\* Where nothing overlaps there is one decision at a time.
LEMMA OneDecision ==
  ASSUME LoneInv, SoloInv, ConvInv, "overlap" \notin faults,
         NEW r \in Request, NEW q \in Request, Decides(r), Decides(q)
  PROVE  q = r
  BY Solo DEF ConvInv, AsRead

LEMMA OnceStep ==
  ASSUME TypeOK, LoneInv, SoloInv, ChatTypeOK, ConvInv, OnceInv, "overlap" \notin faults,
         faults' = faults, [ChatNext]_allVars
  PROVE  OnceInv'
  <1> USE ChatAssumption
  <1>a. \A r \in Request : Decides(r) => deciding[r].turn \in Turn
    BY DEF Decides, ChatTypeOK, Decision
  <1>b. \A r \in Request : deciding[r].turn \in Turn => Decides(r)
    BY DEF Decides
  <1>1. CASE UNCHANGED chatVars
    BY <1>1 DEF chatVars, turnVars, OnceInv, DecisionAt, TurnAt, Decides
  <1>2. ASSUME NEW t \in Turn, NEW s, stage[t] # "over", stage' = [stage EXCEPT ![t] = s],
               conversation # "deleted" <=> conversation' # "deleted",
               UNCHANGED <<status, deciding, outside, stored>>
        PROVE  OnceInv'
    <2>1. \A u \in Turn : stage'[u] # "over" => stage[u] # "over"
      BY <1>2 DEF ChatTypeOK
    <2>2. \A r \in Request : Decides(r)' => Decides(r) /\ DecisionAt(r)'
      BY <1>2 DEF OnceInv, DecisionAt, Decides
    <2>3. \A u \in Turn : TurnAt(u)'
      BY <1>2, <2>1 DEF OnceInv, TurnAt
    <2> QED BY <2>2, <2>3 DEF OnceInv
  <1>3. ASSUME NEW t \in Turn, NEW x \in Text, Ask(t, x) PROVE OnceInv'
    BY <1>2, <1>3 DEF Ask, Reach, Found
  <1>4. ASSUME NEW t \in Turn, Generate(t) \/ GenerateFails(t) \/ Abandon(t) PROVE OnceInv'
    BY <1>2, <1>4 DEF Generate, GenerateFails, Abandon, InProgress, Reach
  <1>5. ASSUME NEW t \in Turn, Persist(t) PROVE OnceInv'
    <2>1. /\ stage[t] = "answered" /\ UNCHANGED <<conversation, deciding, outside, stored>>
          /\ \A u \in Turn \ {t} : status'[u] = status[u] /\ stage'[u] = stage[u]
      BY <1>5 DEF Persist, Reach, ChatTypeOK
    <2>2. \A r \in Request : Decides(r) => deciding[r].turn \in Turn \ {t}
      BY <1>a, <2>1 DEF ConvInv
    <2>3. \A r \in Request : Decides(r)' => DecisionAt(r)'
      BY <2>1, <2>2 DEF OnceInv, DecisionAt, Decides
    <2>4. \A u \in Turn : TurnAt(u)'
      BY <2>1 DEF OnceInv, TurnAt
    <2> QED BY <2>3, <2>4 DEF OnceInv
  <1>6. CASE DeleteConversation
    BY <1>6 DEF DeleteConversation, OnceInv, DecisionAt, TurnAt, Decides
  <1>7. ASSUME NEW r \in Request, NEW t \in Turn, NEW approve \in BOOLEAN,
               Decide(r, t, approve)
        PROVE  OnceInv'
    <2>1. Quiet
      BY <1>7, BeginSolo DEF Decide, TypeOK, Op, Step
    <2>2. \A q \in Request : ~Decides(q)
      BY <2>1 DEF ConvInv, Quiet
    <2>3. /\ status[t] = "pending" /\ UNCHANGED <<conversation, stage, status, outside, stored>>
          /\ deciding'[r] = [turn |-> t, approve |-> approve, acted |-> FALSE, wrote |-> FALSE,
                             left |-> IF approve THEN actions[t] ELSE <<>>]
          /\ \A q \in Request \ {r} : deciding'[q] = deciding[q]
      BY <1>7 DEF Decide, turnVars, ChatTypeOK
    <2>4. conversation # "deleted"
      BY <2>3 DEF ConvInv
    <2>5. \A u \in Turn : ~\E q \in Request : deciding[q].turn = u /\ deciding[q].acted
      BY <1>b, <2>2
    <2>6. stored[t] = 0 /\ ("crash" \notin faults => outside[t] = 0)
      BY <2>3, <2>4, <2>5 DEF OnceInv, TurnAt
    <2>7. \A q \in Request : Decides(q)' => DecisionAt(q)'
      BY <2>2, <2>3, <2>4, <2>6 DEF DecisionAt, Decides
    <2>8. \A u \in Turn : TurnAt(u)'
      BY <2>3, <2>5 DEF OnceInv, TurnAt
    <2> QED BY <2>7, <2>8 DEF OnceInv
  <1>8. ASSUME NEW r \in Request, RunAction(r) PROVE OnceInv'
    <2>0. Decides(r) /\ deciding[r].turn \in Turn /\ deciding[r].left # <<>>
      BY <1>a, <1>8 DEF RunAction, Running
    <2> PICK t \in Turn : t = deciding[r].turn
      BY <2>0
    <2>1. Decides(r) /\ t \in Turn /\ deciding[r].left # <<>> /\ t = deciding[r].turn
      BY <2>0
    <2>2. UNCHANGED <<conversation, stage, status, stored>>
      BY <1>8 DEF RunAction, turnVars
    <2>3. \A q \in Request \ {r} : ~Decides(q) /\ deciding'[q] = deciding[q]
      BY <1>8, <2>1, OneDecision DEF RunAction, ChatTypeOK
    <2>4. /\ deciding'[r].turn = t /\ deciding'[r].approve = deciding[r].approve
          /\ deciding[r].acted => deciding'[r].acted
          /\ \/ outside' = outside /\ (deciding[r].acted => deciding'[r].acted)
             \/ /\ outside' = [outside EXCEPT ![t] = Again(@)]
                /\ ~deciding[r].acted /\ deciding'[r].acted
      <3> PICK works \in BOOLEAN :
                /\ outside' = IF works /\ Head(deciding[r].left) = "gmail" /\ ~deciding[r].acted
                              THEN [outside EXCEPT ![t] = Again(@)] ELSE outside
                /\ deciding' = [deciding EXCEPT
                      ![r].left = Tail(@),
                      ![r].acted = @ \/ (works /\ Head(deciding[r].left) = "gmail"),
                      ![r].wrote = @ \/ (works /\ Head(deciding[r].left) = "row")]
        BY <1>8 DEF RunAction
      <3>1. /\ deciding'[r].turn = t /\ deciding'[r].approve = deciding[r].approve
            /\ deciding'[r].acted <=>
                 deciding[r].acted \/ (works /\ Head(deciding[r].left) = "gmail")
        BY DEF ChatTypeOK, Decision
      <3> QED BY <3>1
    <2>5. DecisionAt(r) /\ deciding[r].approve
      BY <2>1 DEF OnceInv, DecisionAt
    <2>6. \A u \in Turn : outside'[u] = IF u = t /\ outside' # outside THEN Again(outside[t])
                                        ELSE outside[u]
      BY <2>1, <2>4 DEF ChatTypeOK
    <2>7. \A q \in Request : Decides(q)' => DecisionAt(q)'
      <3>1. DecisionAt(r)'
        <4>1. stored'[t] = 0 /\ (conversation' # "deleted" => status'[t] = "pending")
          BY <2>2, <2>5 DEF DecisionAt
        <4>2. "crash" \notin faults' /\ ~deciding'[r].acted => outside'[t] = 0
          BY <2>4, <2>5 DEF DecisionAt
        <4> QED BY <2>4, <2>5, <4>1, <4>2 DEF DecisionAt
      <3>2. \A q \in Request \ {r} : ~Decides(q)'
        BY <2>3 DEF Decides
      <3> QED BY <3>1, <3>2
    <2>8. ASSUME NEW u \in Turn \ {t} PROVE TurnAt(u)'
      <3>1. ~\E q \in Request : deciding[q].turn = u /\ deciding[q].acted
        BY <1>b, <2>3
      <3> QED BY <2>2, <2>6, <3>1 DEF OnceInv, TurnAt
    <2>9. TurnAt(t)'
      <3>1. CASE outside' = outside
        <4>1. ASSUME NEW q \in Request, deciding[q].turn = t, deciding[q].acted
              PROVE  deciding'[r].turn = t /\ deciding'[r].acted
          <5>1. q = r BY <1>b, <2>1, <2>3, <4>1
          <5> QED BY <2>4, <4>1, <5>1
        <4>2. TurnAt(t) BY <2>1 DEF OnceInv
        <4> QED BY <2>2, <3>1, <4>1, <4>2 DEF TurnAt
      <3>2. CASE outside' # outside
        <4>1. ~deciding[r].acted /\ deciding'[r].acted
          BY <2>4, <3>2
        <4>2. "crash" \notin faults => outside'[t] = 1
          BY <2>1, <2>5, <2>6, <3>2, <4>1 DEF DecisionAt, Again
        <4>3. stored[t] = 0 /\ deciding'[r].turn = t
          BY <2>4, <2>5 DEF DecisionAt
        <4> QED BY <2>2, <4>1, <4>2, <4>3 DEF TurnAt
      <3> QED BY <3>1, <3>2
    <2> QED BY <2>7, <2>8, <2>9 DEF OnceInv
  <1>9. ASSUME NEW r \in Request, NEW v \in Rules, ChangeVip(r, v) PROVE OnceInv'
    <2>1. \A q \in Request :
             /\ deciding'[q].turn = deciding[q].turn /\ deciding'[q].approve = deciding[q].approve
             /\ deciding'[q].acted = deciding[q].acted /\ deciding'[q].wrote = deciding[q].wrote
             /\ deciding'[q].left = IF q = r THEN <<>> ELSE deciding[q].left
      BY <1>9 DEF ChangeVip, ChatTypeOK, Decision
    <2>2. UNCHANGED <<conversation, stage, status, outside, stored>>
      BY <1>9 DEF ChangeVip, turnVars
    <2>3. \A q \in Request : Decides(q)' => DecisionAt(q)'
      BY <2>1, <2>2 DEF OnceInv, DecisionAt, Decides
    <2>4. \A u \in Turn : TurnAt(u)'
      BY <2>1, <2>2 DEF OnceInv, TurnAt
    <2> QED BY <2>3, <2>4 DEF OnceInv
  <1>10. ASSUME NEW r \in Request, Decides(r), Saved(r) PROVE OnceInv'
    <2> PICK t \in Turn : t = deciding[r].turn
      BY <1>a, <1>10
    <2>1. t = deciding[r].turn /\ stage[t] = "over" /\ DecisionAt(r)
      BY <1>10 DEF ConvInv, OnceInv
    <2>2. /\ UNCHANGED <<conversation, stage, outside>>
          /\ conversation = "open"
          /\ \A q \in Request : deciding'[q] = IF q = r THEN Undecided ELSE deciding[q]
          /\ \A u \in Turn \ {t} : status'[u] = status[u] /\ stored'[u] = stored[u]
          /\ status'[t] = IF deciding[r].approve THEN "confirmed" ELSE "rejected"
          /\ stored'[t] = IF deciding[r].wrote THEN Again(stored[t]) ELSE stored[t]
      BY <1>10, <2>1 DEF Saved, ChatTypeOK
    <2>3. \A q \in Request : ~Decides(q)'
      BY <1>10, <2>2, OneDecision DEF Decides, Undecided
    <2>4. ASSUME NEW u \in Turn \ {t} PROVE TurnAt(u)'
      <3>1. ~\E q \in Request : deciding[q].turn = u /\ deciding[q].acted
        BY <1>b, <1>10, OneDecision
      <3> QED BY <2>2, <3>1 DEF OnceInv, TurnAt
    <2>5. TurnAt(t)'
      <3>1. stored'[t] <= 1
        BY <2>1, <2>2 DEF DecisionAt, Again
      <3>2. "crash" \notin faults => outside'[t] <= 1
        BY <2>1, <2>2 DEF OnceInv, TurnAt
      <3>3. status'[t] # "confirmed" =>
              stored'[t] = 0 /\ ("crash" \notin faults => outside'[t] = 0)
        BY <2>1, <2>2 DEF DecisionAt
      <3> QED BY <2>1, <2>2, <3>1, <3>2, <3>3 DEF TurnAt
    <2>6. \A u \in Turn : TurnAt(u)'
      BY <2>4, <2>5
    <2> QED BY <2>3, <2>6 DEF OnceInv
  <1>11. ASSUME NEW r \in Request, Unsaved(r) \/ CrashDeciding(r) PROVE OnceInv'
    <2>1. /\ UNCHANGED <<conversation, stage, status, outside, stored>>
          /\ \A q \in Request : deciding'[q] = IF q = r THEN Undecided ELSE deciding[q]
          /\ conversation = "deleted" \/ "crash" \in faults
      BY <1>11 DEF Unsaved, CrashDeciding, Crash, turnVars, ChatTypeOK
    <2>2. \A q \in Request : Decides(q)' => Decides(q) /\ deciding'[q] = deciding[q]
      BY <2>1 DEF Decides, Undecided
    <2>3. \A q \in Request : Decides(q)' => DecisionAt(q)'
      BY <2>1, <2>2 DEF OnceInv, DecisionAt
    <2>4. ASSUME NEW u \in Turn PROVE TurnAt(u)'
      <3>1. stage[u] # "over" => ~\E q \in Request : deciding[q].turn = u /\ deciding[q].acted
        BY <1>b DEF ConvInv
      <3> QED BY <2>1, <3>1 DEF OnceInv, TurnAt
    <2> QED BY <2>3, <2>4 DEF OnceInv
  <1>12. CASE UNCHANGED allVars
    BY <1>1, <1>12 DEF allVars
  <1> QED BY <1>1, <1>3, <1>4, <1>5, <1>6, <1>7, <1>8, <1>9, <1>10, <1>11, <1>12
          DEF ChatNext, TurnStep, DecisionStep, Conclude, ConcludeVip

-----------------------------------------------------------------------------
(* TranscriptWhole: one turn at a time, and its question comes last.       *)

Asked(t) == transcript # <<>> /\ transcript[Len(transcript)] = <<t, "user">>

Answered(i) ==
    i < Len(transcript) /\ transcript[i + 1] = <<transcript[i][1], "assistant">>

TransInv ==
    /\ \A t \in Turn : InProgress(t) =>
          /\ conversation = "open" /\ Asked(t)
          /\ \A u \in Turn : InProgress(u) => u = t
    /\ \A i \in 1..Len(transcript) : transcript[i][2] = "user" =>
          (InProgress(transcript[i][1]) /\ i = Len(transcript)) \/ Answered(i)

LEMMA TransMeansWhole ==
  ASSUME "crash" \notin faults /\ ways \subseteq {"chat"} => TransInv
  PROVE  TranscriptWhole
  BY DEF TransInv, TranscriptWhole, Answered
LEMMA TransStep ==
  ASSUME ChatTypeOK, TransInv, "crash" \notin faults, ways \subseteq {"chat"},
         [ChatNext]_allVars
  PROVE  TransInv'
  <1> USE DEF InProgress
  <1> DEFINE n == Len(transcript)
  <1>a. transcript \in Seq(Turn \X {"user", "assistant"}) /\ n \in Nat
    BY DEF ChatTypeOK
  <1>b. \A i \in 1..n : transcript[i] \in Turn \X {"user", "assistant"}
    BY <1>a
  <1>c. Undisturbed => \A t \in Turn : ~InProgress(t)
    BY DEF Undisturbed
  <1>1. ASSUME UNCHANGED <<conversation, transcript>>,
               \A t \in Turn : InProgress(t)' <=> InProgress(t)
        PROVE  TransInv'
    BY <1>1, <1>a, <1>b DEF TransInv, Asked, Answered
  <1>2. ASSUME NEW t \in Turn, NEW m \in Turn \X {"user", "assistant"},
               transcript' = Append(transcript, m)
        PROVE  /\ Len(transcript') = n + 1 /\ transcript'[n + 1] = m
               /\ \A i \in 1..n : transcript'[i] = transcript[i]
               /\ \A i \in 1..n : Answered(i) => Answered(i)'
    BY <1>2, <1>a DEF Answered
  <1>3. ASSUME NEW t \in Turn, NEW x \in Text, Ask(t, x) PROVE TransInv'
    <2>1. /\ transcript' = Append(transcript, <<t, "user">>) /\ conversation' = "open"
          /\ \A u \in Turn : InProgress(u)' <=> u = t
      BY <1>3, <1>c DEF Ask, AddMessage, Reach, ChatTypeOK
    <2>2. /\ Len(transcript') = n + 1 /\ transcript'[n + 1] = <<t, "user">>
          /\ \A i \in 1..n : transcript'[i] = transcript[i] /\ (Answered(i) => Answered(i)')
      BY <1>2, <2>1
    <2>3. Asked(t)'
      BY <1>a, <2>2 DEF Asked
    <2>4. \A i \in 1..n : transcript[i][2] = "user" => Answered(i)
      BY <1>3, <1>b, <1>c DEF Ask, TransInv
    <2>5. ASSUME NEW i \in 1..(n + 1), transcript'[i][2] = "user"
          PROVE  (InProgress(transcript[i][1])' /\ i = n + 1) \/ Answered(i)'
      <3>1. CASE i = n + 1 BY <2>1, <2>2, <3>1
      <3>2. CASE i \in 1..n BY <2>2, <2>4, <2>5, <3>2
      <3> QED BY <1>a, <3>1, <3>2
    <2>6. \A u \in Turn : InProgress(u)' =>
             /\ conversation' = "open" /\ Asked(u)'
             /\ \A w \in Turn : InProgress(w)' => w = u
      BY <2>1, <2>3
    <2> QED BY <2>2, <2>5, <2>6 DEF TransInv
  <1>4. ASSUME NEW t \in Turn, Generate(t) \/ GenerateFails(t) PROVE TransInv'
    BY <1>1, <1>4 DEF Generate, GenerateFails, Reach, ChatTypeOK
  <1>5. ASSUME NEW t \in Turn, Persist(t) PROVE TransInv'
    <2>1. InProgress(t) /\ conversation = "open" /\ Asked(t)
      BY <1>5 DEF Persist, TransInv
    <2>2. /\ transcript' = Append(transcript, <<t, "assistant">>)
          /\ \A u \in Turn : ~InProgress(u)'
      BY <1>5, <2>1 DEF Persist, AddMessage, Reach, ChatTypeOK, TransInv
    <2>3. /\ Len(transcript') = n + 1 /\ transcript'[n + 1] = <<t, "assistant">>
          /\ \A i \in 1..n : transcript'[i] = transcript[i] /\ (Answered(i) => Answered(i)')
      BY <1>2, <2>2
    <2>4. ASSUME NEW i \in 1..(n + 1), transcript'[i][2] = "user" PROVE Answered(i)'
      <3>1. i \in 1..n /\ transcript[i][2] = "user"
        BY <1>a, <2>3, <2>4
      <3>2. CASE Answered(i) BY <2>3, <3>1, <3>2
      <3>3. CASE i = n
        <4>1. transcript'[i] = <<t, "user">>
          BY <2>1, <2>3, <3>1, <3>3 DEF Asked
        <4> QED BY <1>a, <2>3, <3>1, <3>3, <4>1 DEF Answered
      <3> QED BY <3>1, <3>2, <3>3 DEF TransInv
    <2> QED BY <2>2, <2>3, <2>4 DEF TransInv
  <1>6. ASSUME NEW t \in Turn PROVE ~Abandon(t)
    BY DEF Abandon
  <1>7. CASE DeleteConversation
    BY <1>7, <1>c DEF DeleteConversation, TransInv
  <1>8. CASE UNCHANGED <<conversation, transcript, stage>>
    BY <1>1, <1>8
  <1>9. ASSUME NEW r \in Request, DecisionStep(r) PROVE UNCHANGED <<conversation, transcript, stage>>
    <2>1. ASSUME NEW t \in Turn, NEW approve \in BOOLEAN, Decide(r, t, approve)
          PROVE  UNCHANGED <<conversation, transcript, stage>>
      BY <2>1 DEF Decide, turnVars
    <2>2. CASE RunAction(r) BY <2>2 DEF RunAction, turnVars
    <2>3. ASSUME NEW v \in Rules, ChangeVip(r, v)
          PROVE  UNCHANGED <<conversation, transcript, stage>>
      BY <2>3 DEF ChangeVip, turnVars
    <2>4. CASE Conclude(r) \/ ConcludeVip(r) BY <2>4 DEF Conclude, ConcludeVip, Saved
    <2>5. CASE Unsaved(r) BY <2>5 DEF Unsaved, turnVars
    <2>6. CASE CrashDeciding(r) BY <2>6 DEF CrashDeciding, turnVars
    <2> QED BY <1>9, <2>1, <2>2, <2>3, <2>4, <2>5, <2>6 DEF DecisionStep
  <1>10. CASE UNCHANGED allVars
    BY <1>8, <1>10 DEF allVars, chatVars, turnVars
  <1>11. CASE UNCHANGED chatVars
    BY <1>8, <1>11 DEF chatVars, turnVars
  <1> QED BY <1>3, <1>4, <1>5, <1>6, <1>7, <1>8, <1>9, <1>10, <1>11 DEF ChatNext, TurnStep
-----------------------------------------------------------------------------
(* The invariant of the chat, and the theorems.                            *)

ChatInv ==
    /\ IInv /\ ChatTypeOK /\ SoloInv /\ ConvInv
    /\ faults \subseteq {"command"} /\ "tabs" \notin ways => OneInv
    /\ Tame => RulesInv
    /\ "overlap" \notin faults => OnceInv
    /\ "crash" \notin faults /\ ways \subseteq {"chat"} => TransInv

LEMMA ChatInitInv == ASSUME ChatInit PROVE ChatInv
  <1> USE HoldFilterAssumption, ChatAssumption
  <1>1. NoReq \in Req
    BY DEF ChatInit, Init, NoReq, Req, Op, AnyRules
  <1>2. faults \subseteq Circumstance /\ ways \subseteq ChatCircumstance
    BY DEF ChatInit
  <1>3. TypeOK
    BY <1>1, <1>2 DEF ChatInit, Init, TypeOK, Step
  <1>4. IInv
    BY <1>3 DEF ChatInit, Init, IInv, LoneInv, Lone, SuccessHolds
  <1>5. Undecided \in Decision
    BY DEF Undecided, Decision
  <1>6. ChatTypeOK
    BY <1>2, <1>5 DEF ChatInit, ChatTypeOK, Text
  <1>7. \A r \in Request : ~Decides(r)
    BY DEF ChatInit, Undecided, Decides
  <1>8. SoloInv /\ ConvInv
    BY <1>7 DEF ChatInit, Init, SoloInv, ConvInv
  <1>9. OneInv
    BY DEF ChatInit, Init, OneInv, LiveFilters, Due
  <1>10. RulesInv
    BY DEF ChatInit, Init, RulesInv, InForce
  <1>11. OnceInv
    BY <1>7 DEF ChatInit, OnceInv, TurnAt
  <1>12. TransInv
    BY DEF ChatInit, TransInv, InProgress
  <1> QED BY <1>4, <1>6, <1>8, <1>9, <1>10, <1>11, <1>12 DEF ChatInv

\* What a behaviour is exposed to never changes.
LEMMA Fixed == ASSUME ChattersDecide, [ChatNext]_allVars PROVE faults' = faults /\ ways' = ways
  <1>1. faults' = faults
    <2>1. ASSUME NEW r \in Request, GiveUp(r) PROVE faults' = faults
      BY <2>1 DEF GiveUp
    <2> QED BY <2>1, ChatStepIsFilterPart, PartCases, EndFacts
            DEF BeginStart, BeginStop, BeginVip, Begin, Command, Reread, Delete, Install,
                Exists, Adopt, vars
  <1>2. ways' = ways
    BY DEF ChatNext, TurnStep, DecisionStep, Ask, Generate, GenerateFails, Persist, Abandon,
           DeleteConversation, Decide, RunAction, ChangeVip, Conclude, ConcludeVip, Saved,
           Unsaved, CrashDeciding, allVars, chatVars
  <1> QED BY <1>1, <1>2

LEMMA ChatInvStep == ASSUME ChatInv, [ChatNext]_allVars PROVE ChatInv'
  <1> USE DEF ChatInv
  <1>1. ChattersDecide
    BY DEF ConvInv, ChattersDecide
  <1>2. faults' = faults /\ ways' = ways
    BY <1>1, Fixed
  <1>3. FilterPart
    BY <1>1, ChatStepIsFilterPart
  <1>4. TypeOK' /\ LoneInv' /\ SuccessHolds' /\ SoloInv'
    BY <1>3, PartTyped, PartLone, SoloStep DEF IInv
  <1>5. ChatTypeOK' /\ ConvInv'
    BY ChatTypeStep, ConvStep DEF IInv
  <1>6. ASSUME faults \subseteq {"command"}, "tabs" \notin ways PROVE OneInv'
    <2>1. \A r \in Request : ~Unsaved(r)
      BY <1>6 DEF Unsaved, ConvInv
    <2>2. OwnPart
      BY <1>1, <2>1, ChatStepIsOwnPart
    <2> QED BY <1>4, <1>6, <2>2, OneStep DEF IInv
  <1>7. ASSUME Tame PROVE RulesInv'
    BY <1>2, <1>3, <1>4, <1>7, RulesStep DEF IInv
  <1>8. ASSUME "overlap" \notin faults PROVE OnceInv'
    BY <1>2, <1>8, OnceStep DEF IInv
  <1>9. ASSUME "crash" \notin faults, ways \subseteq {"chat"} PROVE TransInv'
    BY <1>9, TransStep
  <1>10. Tame' <=> Tame
    BY <1>2 DEF Tame, MayCommand
  <1> QED BY <1>2, <1>4, <1>5, <1>6, <1>7, <1>8, <1>9, <1>10 DEF IInv

THEOREM ChatInvariant == ChatSpec => []ChatInv
  BY ChatInitInv, ChatInvStep, PTL DEF ChatSpec

\* Every variable of the chat and of the hold filter it shares keeps its type
\* through turns, decisions, deletions and requests of any kind.
THEOREM ChatTypeCorrect == ChatSpec => [](TypeOK /\ ChatTypeOK)
  <1>1. ChatInv => TypeOK /\ ChatTypeOK BY DEF ChatInv, IInv
  <1> QED BY <1>1, ChatInvariant, PTL

\* The decisions taken in the chat rebuild the hold filter as Mailman's own
\* requests do: success means that the filter on Gmail has the stored rules.
THEOREM ChatSuccessMeansHeld == ChatSpec => []SuccessHolds
  <1>1. ChatInv => SuccessHolds BY DEF ChatInv, IInv
  <1> QED BY <1>1, ChatInvariant, PTL

\* One hold filter, there exactly while Mailman is active, and never with other
\* VIP rules than the stored ones, with VIP rules that the API, command emails and
\* the chat all change (mailman.start, stop and update_vip, handlers.execute).
THEOREM ChatKeepsFilter == ChatSpec => []FilterAgrees
  <1>1. ASSUME ChatInv PROVE FilterAgrees
    <2>1. ASSUME "tabs" \notin ways PROVE OneFilter
      BY <1>1, <2>1, OneMeansOneFilter DEF ChatInv, OneFilter
    <2>2. ("chat" \in ways /\ {"delete", "create"} \subseteq faults) \/ RulesInForce
      BY <1>1, TameMeansInForce DEF ChatInv
    <2> QED BY <2>1, <2>2 DEF FilterAgrees
  <1> QED BY <1>1, ChatInvariant, PTL

\* An approved proposal runs once and a rejected one never, for every number of
\* turns and requests and for every list of actions a proposal can have, also
\* when the conversation is deleted or the process dies while it runs
\* (api/v1/chat.confirm).
THEOREM ProposalRunsOnce == ChatSpec => []RunsOnce
  <1>1. ChatInv => RunsOnce BY OnceMeansRunsOnce DEF ChatInv
  <1> QED BY <1>1, ChatInvariant, PTL

\* A question that is not being answered has its answer right behind it in the
\* transcript, whatever failed in the stream (api/v1/chat._ask_stream).
THEOREM NoHoleInTranscript == ChatSpec => []TranscriptWhole
  <1>1. ChatInv => TranscriptWhole BY TransMeansWhole DEF ChatInv
  <1> QED BY <1>1, ChatInvariant, PTL

-----------------------------------------------------------------------------
(* Delivery *)


LEMMA IdleTyped == ASSUME NEW s \in Schedules PROVE Idle \in Task
  BY DeliveryAssumption DEF Idle, Task, AnySchedule

LEMMA OlderTyped == ASSUME NEW n \in 0 .. Far PROVE Older(n) \in 0 .. Far
  BY DeliveryAssumption DEF Older

LEMMA DeliveryTypeStep == ASSUME DeliveryTypeOK, [DeliveryNext]_deliveryVars PROVE DeliveryTypeOK'
  <1>0. Idle \in Task BY IdleTyped DEF DeliveryTypeOK
  <1>1. CASE UNCHANGED deliveryVars
    BY <1>1 DEF DeliveryTypeOK, deliveryVars, settings
  <1>2. ASSUME NEW j \in Job, Tick(j) \/ TickLookFails(j) \/ TickReleaseFails(j) \/ TickCrash(j)
        PROVE  DeliveryTypeOK'
    <2>1. CASE TickBegin(j)
      <3>1. [pc |-> "look", schedule |-> schedule, age |-> 0, ids |-> {}] \in Task
        BY DeliveryAssumption DEF DeliveryTypeOK, Task
      <3> QED BY <2>1, <3>1 DEF TickBegin, DeliveryTypeOK, settings
    <2>2. CASE TickLook(j)
      <3> PICK ids \in SUBSET Held :
            job' = [job EXCEPT ![j].ids = ids,
                               ![j].pc = IF ids = {} THEN "stamp" ELSE "release"]
        BY <2>2 DEF TickLook
      <3>1. [job[j] EXCEPT !.ids = ids, !.pc = IF ids = {} THEN "stamp" ELSE "release"] \in Task
        BY DEF DeliveryTypeOK, Task, Held
      <3>2. job' \in [Job -> Task]
        BY <3>1 DEF DeliveryTypeOK, Task
      <3> QED BY <2>2, <3>2 DEF TickLook, DeliveryTypeOK, settings
    <2>3. CASE TickRelease(j)
      <3>1. job' \in [Job -> Task]
        BY <2>3 DEF TickRelease, Become, DeliveryTypeOK, Task
      <3>2. mail' \in [Mail -> Place]
        BY <2>3 DEF TickRelease, DeliveryTypeOK, Place
      <3> QED BY <2>3, <3>1, <3>2, DeliveryAssumption DEF TickRelease, DeliveryTypeOK, settings
    <2>4. CASE TickStamp(j)
      BY <2>4, <1>0 DEF TickStamp, Done, DeliveryTypeOK, Task, settings
    <2>5. CASE TickLookFails(j)
      BY <2>5, <1>0 DEF TickLookFails, Done, DeliveryTypeOK, settings
    <2>6. CASE TickReleaseFails(j)
      <3>1. job' \in [Job -> Task]
        BY <2>6 DEF TickReleaseFails, Become, DeliveryTypeOK, Task
      <3> QED BY <2>6, <3>1 DEF TickReleaseFails, DeliveryTypeOK, settings
    <2>7. CASE TickCrash(j)
      BY <2>7, <1>0 DEF TickCrash, Done, DeliveryTypeOK, settings
    <2> QED BY <1>2, <2>1, <2>2, <2>3, <2>4, <2>5, <2>6, <2>7 DEF Tick
  <1>3. CASE NextMinute
    <2>1. clock' \in Minute BY <1>3, DeliveryAssumption DEF NextMinute, DeliveryTypeOK, Minute
    <2>2. ASSUME NEW j \in Job PROVE [job[j] EXCEPT !.age = Older(@)] \in Task
      BY OlderTyped DEF DeliveryTypeOK, Task
    <2>3. job' \in [Job -> Task] BY <1>0, <1>3, <2>2 DEF NextMinute
    <2>4. since' \in 0 .. Far /\ shown' \in 0 .. Far
      BY <1>3, OlderTyped DEF NextMinute, DeliveryTypeOK
    <2> QED BY <1>3, <2>1, <2>3, <2>4 DEF NextMinute, DeliveryTypeOK, settings
  <1>4. ASSUME NEW m \in Mail, Arrive(m) PROVE DeliveryTypeOK'
    BY <1>4 DEF Arrive, DeliveryTypeOK, Place, settings
  <1>5. CASE Toggle
    BY <1>5 DEF Toggle, DeliveryTypeOK
  <1>6. ASSUME NEW s \in Schedules, UpdateSettings(s) PROVE DeliveryTypeOK'
    BY <1>6 DEF UpdateSettings, DeliveryTypeOK
  <1> QED BY <1>1, <1>2, <1>3, <1>4, <1>5, <1>6 DEF DeliveryNext

LEMMA InitTyped == DeliveryInit => DeliveryTypeOK
  <1> SUFFICES ASSUME DeliveryInit PROVE DeliveryTypeOK OBVIOUS
  <1>1. Idle \in Task BY IdleTyped DEF DeliveryInit
  <1>2. misfortunes \subseteq Fault BY DeliveryAssumption DEF DeliveryInit
  <1>3. clock \in Minute /\ since \in 0 .. Far /\ shown \in 0 .. Far
    BY DeliveryAssumption DEF DeliveryInit, Minute
  <1>4. mail \in [Mail -> Place] /\ job \in [Job -> Task]
    BY <1>1 DEF DeliveryInit, Place
  <1> QED BY <1>2, <1>3, <1>4 DEF DeliveryInit, DeliveryTypeOK

\* The clock, the stamps, the mail and the ticks in progress keep their types.
THEOREM DeliveryTypeCorrect == DeliverySpec => []DeliveryTypeOK
  BY InitTyped, DeliveryTypeStep, PTL DEF DeliverySpec

-----------------------------------------------------------------------------
(* While ticks stay within their minute there is at most one of them, it   *)
(* sees the minute it began in, and until it stamps, the stamp is not      *)
(* newer than the last batch.                                              *)

OneTick ==
    "slow" \notin misfortunes =>
        \A j \in Job : job[j].pc # "idle" =>
            /\ ticked
            /\ job[j].age = 0
            /\ ~InDnd(job[j].schedule, clock)
            /\ \A k \in Job \ {j} : job[k].pc = "idle"

Judged ==
    misfortunes \cap {"slow", "crash"} = {} =>
        /\ \A j \in Job : job[j].pc \in {"look", "release"} =>
            /\ since >= 2
            /\ job[j].schedule.mode = "interval" => since >= job[j].schedule.interval
        /\ (\A j \in Job : job[j].pc # "stamp") => since <= shown

DeliveryInv == DeliveryTypeOK /\ OneTick /\ Judged

\* A tick in progress that keeps its settings and its minute.
LEMMA Onward ==
  ASSUME DeliveryInv, DeliveryTypeOK', NEW j \in Job, job[j].pc # "idle",
         UNCHANGED <<misfortunes, clock, ticked, since>>,
         \A k \in Job \ {j} : job'[k] = job[k],
         \/ job'[j].pc = "idle"
         \/ job'[j].age = job[j].age /\ job'[j].schedule = job[j].schedule
  PROVE  OneTick'
  <1> SUFFICES ASSUME "slow" \notin misfortunes', NEW i \in Job, job'[i].pc # "idle"
               PROVE  /\ ticked'
                      /\ job'[i].age = 0
                      /\ ~InDnd(job'[i].schedule, clock')
                      /\ \A k \in Job \ {i} : job'[k].pc = "idle"
    BY DEF OneTick, InDnd
  <1>1. ticked /\ job[j].age = 0 /\ ~InDnd(job[j].schedule, clock)
        /\ \A k \in Job \ {j} : job[k].pc = "idle"
    BY DEF DeliveryInv, OneTick
  <1>2. i = j BY <1>1
  <1> QED BY <1>1, <1>2 DEF InDnd

LEMMA Finish ==
  ASSUME DeliveryInv, NEW j \in Job, Done(j), UNCHANGED <<misfortunes, clock, ticked>>
  PROVE  OneTick' /\ \A k \in Job : job'[k].pc # "stamp" \/ (k # j /\ job'[k] = job[k])
  <1>1. job'[j].pc = "idle" /\ \A k \in Job \ {j} : job'[k] = job[k]
    BY DEF Done, Idle, DeliveryInv, DeliveryTypeOK
  <1>2. OneTick'
    BY <1>1 DEF OneTick, DeliveryInv, InDnd
  <1> QED BY <1>1, <1>2

LEMMA InvStep == ASSUME DeliveryInv, [DeliveryNext]_deliveryVars PROVE DeliveryInv'
  <1> USE DEF DeliveryInv
  <1>0. DeliveryTypeOK' BY DeliveryTypeStep
  <1> SUFFICES OneTick' /\ Judged' BY <1>0
  <1>1. CASE UNCHANGED deliveryVars
    BY <1>1 DEF OneTick, Judged, InDnd, deliveryVars
  <1>2. ASSUME NEW j \in Job, Tick(j) \/ TickLookFails(j) \/ TickReleaseFails(j) \/ TickCrash(j)
        PROVE  OneTick' /\ Judged'
    <2>1. CASE TickBegin(j)
      <3>1. CASE UNCHANGED job
        BY <2>1, <3>1 DEF TickBegin, OneTick, Judged, InDnd, settings
      <3>2. CASE ~UNCHANGED job
        <4>1. /\ job'[j] = [pc |-> "look", schedule |-> schedule, age |-> 0, ids |-> {}]
              /\ \A k \in Job \ {j} : job'[k] = job[k]
              /\ ~TooSoon /\ DeliveryDue(schedule, clock, since)
              /\ ticked' /\ ~ticked /\ UNCHANGED <<misfortunes, clock, since, shown>>
          BY <2>1, <3>2 DEF TickBegin, DeliveryTypeOK
        <4>2. "slow" \notin misfortunes => \A k \in Job : job[k].pc = "idle"
          BY <4>1 DEF OneTick
        <4>3. ~InDnd(schedule, clock) /\ since >= 2
              /\ (schedule.mode = "interval" => since >= schedule.interval)
          BY <4>1 DEF DeliveryDue, TooSoon, DeliveryTypeOK
        <4>4. OneTick'
          BY <4>1, <4>2, <4>3 DEF OneTick, InDnd
        <4>5. Judged'
          BY <4>1, <4>2, <4>3 DEF Judged
        <4> QED BY <4>4, <4>5
      <3> QED BY <3>1, <3>2
    <2>2. CASE TickLook(j)
      <3> PICK ids \in SUBSET Held :
            job' = [job EXCEPT ![j].ids = ids,
                               ![j].pc = IF ids = {} THEN "stamp" ELSE "release"]
        BY <2>2 DEF TickLook
      <3>1. /\ job'[j].pc \in {"stamp", "release"}
            /\ job'[j].age = job[j].age /\ job'[j].schedule = job[j].schedule
            /\ \A k \in Job \ {j} : job'[k] = job[k]
        BY DEF DeliveryTypeOK, Task
      <3>2. job[j].pc = "look" /\ UNCHANGED <<misfortunes, clock, ticked, since, shown>>
        BY <2>2 DEF TickLook
      <3>3. OneTick' BY <1>0, <3>1, <3>2, Onward
      <3>4. "slow" \notin misfortunes => \A k \in Job \ {j} : job[k].pc = "idle"
        BY <3>2 DEF OneTick
      <3>5. Judged' BY <3>1, <3>2, <3>4 DEF Judged
      <3> QED BY <3>3, <3>5
    <2>3. CASE TickRelease(j) \/ TickReleaseFails(j)
      <3>1. /\ job'[j].pc = "stamp"
            /\ job'[j].age = job[j].age /\ job'[j].schedule = job[j].schedule
            /\ \A k \in Job \ {j} : job'[k] = job[k]
        BY <2>3 DEF TickRelease, TickReleaseFails, Become, DeliveryTypeOK, Task
      <3>2. job[j].pc = "release" /\ UNCHANGED <<misfortunes, clock, ticked, since>>
        BY <2>3 DEF TickRelease, TickReleaseFails
      <3>3. OneTick' BY <1>0, <3>1, <3>2, Onward
      <3>4. Judged' BY <3>1, <3>2 DEF Judged
      <3> QED BY <3>3, <3>4
    <2>4. CASE TickStamp(j)
      <3>1. Done(j) /\ UNCHANGED <<misfortunes, clock, ticked, shown>> /\ since' = job[j].age
            /\ job[j].pc = "stamp"
        BY <2>4 DEF TickStamp
      <3>2. OneTick' BY <3>1, Finish
      <3>3. "slow" \notin misfortunes => since' = 0 /\ \A k \in Job \ {j} : job[k].pc = "idle"
        BY <3>1 DEF OneTick
      <3>4. job'[j].pc = "idle" /\ \A k \in Job \ {j} : job'[k] = job[k]
        BY <3>1 DEF Done, Idle, DeliveryTypeOK
      <3>5. Judged' BY <3>1, <3>3, <3>4 DEF Judged, DeliveryTypeOK
      <3> QED BY <3>2, <3>5
    <2>5. CASE TickLookFails(j)
      <3>1. Done(j) /\ UNCHANGED <<misfortunes, clock, ticked, shown, since>> /\ job[j].pc = "look"
        BY <2>5 DEF TickLookFails
      <3>2. OneTick' BY <3>1, Finish
      <3>3. job'[j].pc = "idle" /\ \A k \in Job \ {j} : job'[k] = job[k]
        BY <3>1 DEF Done, Idle, DeliveryTypeOK
      <3>4. Judged' BY <3>1, <3>3 DEF Judged
      <3> QED BY <3>2, <3>4
    <2>6. CASE TickCrash(j)
      <3>1. Done(j) /\ UNCHANGED <<misfortunes, clock, ticked>> /\ "crash" \in misfortunes
        BY <2>6 DEF TickCrash
      <3>2. OneTick' BY <3>1, Finish
      <3> QED BY <3>1, <3>2 DEF Judged
    <2> QED BY <1>2, <2>1, <2>2, <2>3, <2>4, <2>5, <2>6 DEF Tick
  <1>3. CASE NextMinute
    <2>1. "slow" \notin misfortunes => \A j \in Job : job'[j].pc = "idle" /\ job[j].pc = "idle"
      BY <1>3 DEF NextMinute, Idle, DeliveryTypeOK
    <2>2. OneTick' BY <1>3, <2>1 DEF OneTick, NextMinute
    <2>3. since <= shown => since' <= shown'
      BY <1>3, DeliveryAssumption DEF NextMinute, Older, DeliveryTypeOK
    <2>4. Judged' BY <1>3, <2>1, <2>3 DEF Judged, NextMinute
    <2> QED BY <2>2, <2>4
  <1>4. CASE (\E m \in Mail : Arrive(m)) \/ Toggle \/ (\E s \in Schedules : UpdateSettings(s))
    BY <1>4 DEF Arrive, Toggle, UpdateSettings, OneTick, Judged, InDnd
  <1> QED BY <1>1, <1>2, <1>3, <1>4 DEF DeliveryNext

LEMMA InitInv == DeliveryInit => DeliveryInv
  <1> SUFFICES ASSUME DeliveryInit PROVE OneTick /\ Judged BY InitTyped DEF DeliveryInv
  <1>1. \A j \in Job : job[j].pc = "idle" BY DEF DeliveryInit, Idle
  <1>2. since <= shown BY DeliveryAssumption DEF DeliveryInit
  <1> QED BY <1>1, <1>2 DEF OneTick, Judged

\* "Don't fire twice for the same minute-granular slot" (mailman_tick): unless a
\* tick overruns its minute or dies, batches are more than a minute apart, and
\* at least the interval in interval mode.
THEOREM BatchesStayApart == DeliverySpec => BatchesApart
  <1>1. ASSUME DeliveryInv, NEW j \in Job, TickRelease(j), misfortunes \cap {"slow", "crash"} = {}
        PROVE  shown >= 2
               /\ (job[j].schedule.mode = "interval" => shown >= job[j].schedule.interval)
    <2>1. job[j].pc = "release" BY <1>1 DEF TickRelease
    <2>2. \A k \in Job : job[k].pc # "stamp" BY <1>1, <2>1 DEF DeliveryInv, OneTick
    <2>3. since <= shown /\ since >= 2
          /\ (job[j].schedule.mode = "interval" => since >= job[j].schedule.interval)
      BY <1>1, <2>1, <2>2 DEF DeliveryInv, Judged
    <2>4. since \in Int /\ shown \in Int /\ job[j].schedule.interval \in Int
      BY <1>1, DeliveryAssumption DEF DeliveryInv, DeliveryTypeOK, Task, Schedule
    <2> QED BY <2>3, <2>4
  <1>2. DeliveryInv /\ [DeliveryNext]_deliveryVars =>
          [\A j \in Job : TickRelease(j) /\ misfortunes \cap {"slow", "crash"} = {} =>
             /\ shown >= 2
             /\ job[j].schedule.mode = "interval" => shown >= job[j].schedule.interval]_deliveryVars
    BY <1>1
  <1> QED BY <1>2, InitInv, InvStep, PTL DEF DeliverySpec, BatchesApart

\* "DND suppresses all of the above" (is_delivery_due): unless it overran its
\* minute, a tick puts no mail into the inbox in the quiet hours it read.
THEOREM QuietHours == DeliverySpec => QuietHoursKept
  <1> DEFINE Kept(j) ==
        LET s == job[j].schedule
        IN ~(IF s.dndFrom <= s.dndTo THEN clock \in s.dndFrom .. (s.dndTo - 1)
             ELSE clock \notin s.dndTo .. (s.dndFrom - 1))
  <1>1. ASSUME DeliveryInv, NEW j \in Job, TickRelease(j), "slow" \notin misfortunes
        PROVE  Kept(j)
    <2>1. ~InDnd(job[j].schedule, clock)
      BY <1>1 DEF DeliveryInv, OneTick, TickRelease
    <2>2. clock \in Int /\ job[j].schedule.dndFrom \in Int /\ job[j].schedule.dndTo \in Int
          /\ clock >= 0
      BY <1>1, DeliveryAssumption DEF DeliveryInv, DeliveryTypeOK, Task, Schedule, Minute
    <2> QED BY <2>1, <2>2 DEF InDnd
  <1>2. DeliveryInv /\ [DeliveryNext]_deliveryVars =>
          [\A j \in Job : TickRelease(j) /\ "slow" \notin misfortunes => Kept(j)]_deliveryVars
    BY <1>1
  <1> QED BY <1>2, InitInv, InvStep, PTL DEF DeliverySpec, QuietHoursKept
=============================================================================
