-------------------------- MODULE MailArrivalProofs --------------------------
(***************************************************************************)
(* What MailArrival guarantees for every mailbox, any number of passes and *)
(* any batch cap: the type invariant, that the messages a claim is         *)
(* required for are handed off at most once, that they are handed off at   *)
(* all, and the refinement of MailHandoff.  Then the two systems composed  *)
(* with it: emailed commands and the replies they get (CommandEmail), and  *)
(* the first sync and the push watch (Onboarding).  Last, for any mailbox, *)
(* taxonomy, rules, workers and sessions, the labels the mail gets         *)
(* (Categorization): a conversation wears one label of the taxonomy, the   *)
(* taxonomy stays whole, and mail follows its category out of the inbox.   *)
(***************************************************************************)
EXTENDS CommandEmail, Onboarding, Categorization, SequenceTheorems, FiniteSetTheorems, TLAPS

\* The messages no pass can take in hand without a claim: all of them while
\* Redis answers; the commands also when it does not, as long as the history
\* walk, which knows the labels, is the only one.
Strict(m) == \/ "redis" \notin faults
             \/ KindOf[m] = "note" /\ "history_expiry" \notin faults

\* A pass in the middle of a message has one.
InHand == \A p \in Poller : pc[p] \in {"claim", "deliver"} => todo[p] # <<>>

\* Without history expiry nobody ever walks the recent window.
NoCatchup ==
    "history_expiry" \notin faults =>
        /\ floor = 0
        /\ \A p \in Poller : /\ pc[p] \notin {"profile", "reseed", "relist"}
                             /\ ~job[p].catchup

\* What a pass has in hand is claimed and not handed off yet ...
InHandClaimed ==
    \A p \in Poller : pc[p] = "deliver" /\ Strict(Head(todo[p])) =>
        Head(todo[p]) \in claims /\ handed[Head(todo[p])] = 0

\* ... and no two passes have the same message in hand.
InHandAlone ==
    \A p, q \in Poller :
        pc[p] = "deliver" /\ pc[q] = "deliver" /\ Strict(Head(todo[p]))
            /\ Head(todo[p]) = Head(todo[q]) => p = q

HandedClaimed ==
    \A m \in Msg : Strict(m) => handed[m] <= 1 /\ (handed[m] > 0 => m \in claims)

ClaimInv ==
    /\ TypeOK
    /\ InHand
    /\ NoCatchup
    /\ InHandClaimed
    /\ InHandAlone
    /\ HandedClaimed

-----------------------------------------------------------------------------
(* Sequences *)

\* A bounded prefix of a sequence is a sequence over the same set.
LEMMA FirstNType ==
    ASSUME NEW S, NEW s \in Seq(S), NEW n \in Nat
    PROVE  FirstN(s, n) \in Seq(S)
<1>1. CASE Len(s) <= n
    BY <1>1 DEF FirstN
<1>2. CASE ~(Len(s) <= n)
    <2>1. SubSeq(s, 1, n) \in Seq(S)
        BY <1>2, SubSeqProperties
    <2> QED BY <2>1, <1>2 DEF FirstN
<1> QED BY <1>1, <1>2

\* A reversed sequence is a sequence over the same set.
LEMMA BackwardsType ==
    ASSUME NEW S, NEW s \in Seq(S)
    PROVE  Backwards(s) \in Seq(S)
<1>1. \A i \in 1..Len(s) : s[Len(s) + 1 - i] \in S
    BY ElementOfSeq
<1> QED BY <1>1, IsASeq DEF Backwards

\* Any slice of a sequence is a sequence over the same set.
LEMMA SliceType ==
    ASSUME NEW S, NEW s \in Seq(S), NEW i \in Nat
    PROVE  SubSeq(s, i + 1, Len(s)) \in Seq(S)
BY SubSeqProperties

-----------------------------------------------------------------------------
(* The type invariant *)

LEMMA NoMessages == <<>> \in Seq(Msg)
BY EmptySeq

\* What a history walk and a catch-up walk list are taken from the history.
LEMMA NewType ==
    ASSUME NEW S, NEW s \in Seq(S), NEW i \in Nat
    PROVE  FirstN(SubSeq(s, i + 1, Len(s)), BatchCap) \in Seq(S)
BY SliceType, FirstNType, CapAssumption

LEMMA RecentType ==
    ASSUME NEW S, NEW s \in Seq(S), NEW i \in Nat
    PROVE  FirstN(Backwards(SubSeq(s, i + 1, Len(s))), BatchCap) \in Seq(S)
<1>1. SubSeq(s, i + 1, Len(s)) \in Seq(S)
    BY SliceType
<1>2. Backwards(SubSeq(s, i + 1, Len(s))) \in Seq(S)
    BY <1>1, BackwardsType
<1> QED BY <1>2, FirstNType, CapAssumption

\* Typed is TypeOK with what keeps Tail typed when a message is dispatched.
Typed == TypeOK /\ InHand

LEMMA UntouchedTyped == Untouched /\ gateOpen \in BOOLEAN => Typed
<1> SUFFICES ASSUME Untouched, gateOpen \in BOOLEAN PROVE Typed
    OBVIOUS
<1>1. handed \in [Msg -> 0..2] /\ pc \in [Poller -> Step]
    BY DEF Untouched, Step
<1>2. job \in [Poller -> Job]
    BY DEF Untouched, Job, NoJob
<1>3. todo \in [Poller -> Seq(Msg)] /\ history \in Seq(Msg)
    BY NoMessages DEF Untouched
<1>4. /\ floor \in Nat /\ cursor \in Nat /\ lock \in BOOLEAN
      /\ claims \subseteq Msg /\ ours \subseteq Msg
    BY DEF Untouched
<1>6. faults \subseteq Fault
    BY FaultAssumption DEF Untouched
<1>5. InHand
    BY DEF Untouched, InHand
<1> QED BY <1>1, <1>2, <1>3, <1>4, <1>5, <1>6 DEF Typed, TypeOK

LEMMA InitTyped == Init => Typed
BY UntouchedTyped DEF Init

\* A behaviour keeps the misfortunes it began with.
LEMMA FaultsKept == [Next]_vars => faults' = faults
BY DEF Next, vars, arrivalVars, Arrive, ExpireHistory, FlipGate, ExpireLock, Begin, PassStep,
   PassFault, Snapshot, WalkHistory, CursorAgedOut, ReadProfile, Reseed, Relist,
   SkipUninteresting, SkipGuarded, LookUp, Claim, Deliver, Advance, Release, Abandon,
   ClaimUnavailable, Unreadable, Crash

LEMMA NextTyped == Typed /\ [Next]_vars => Typed'
<1> SUFFICES ASSUME Typed, [Next]_vars PROVE Typed'
    OBVIOUS
<1> USE DEF Typed, TypeOK, InHand, arrivalVars, redisVars, passVars
<1>1. ASSUME NEW m \in Msg, Arrive(m) PROVE Typed'
    BY <1>1, AppendProperties DEF Arrive
<1>2. CASE ExpireHistory
    BY <1>2 DEF ExpireHistory
<1>3. CASE FlipGate
    BY <1>3 DEF FlipGate
<1>4. CASE ExpireLock
    BY <1>4 DEF ExpireLock
<1>5. ASSUME NEW p \in Poller, Begin(p) PROVE Typed'
    BY <1>5 DEF Begin, Step
<1>6. ASSUME NEW p \in Poller, PassStep(p) PROVE Typed'
    <2>0. Len(history) \in Nat
        BY LenProperties
    <2>1. CASE Snapshot(p)
        BY <2>1 DEF Snapshot, Step, Job, NoJob
    <2>2. CASE WalkHistory(p)
        <3>1. job[p].since \in Nat
            BY DEF Job
        <3>2. FirstN(SubSeq(history, job[p].since + 1, Len(history)), BatchCap) \in Seq(Msg)
            BY <3>1, NewType
        <3>3. todo' \in [Poller -> Seq(Msg)]
            BY <2>2, <3>2 DEF WalkHistory
        <3>4. job' \in [Poller -> Job]
            BY <2>2, <2>0, <3>1 DEF WalkHistory, Job
        <3> QED BY <2>2, <3>3, <3>4 DEF WalkHistory, Step
    <2>3. CASE CursorAgedOut(p)
        BY <2>3 DEF CursorAgedOut, Step
    <2>4. CASE ReadProfile(p)
        BY <2>4, <2>0 DEF ReadProfile, Step, Job
    <2>5. CASE Reseed(p)
        BY <2>5 DEF Reseed, Step, Job
    <2>6. CASE Relist(p)
        <3>1. PICK start \in floor..Len(history), isKnown \in BOOLEAN :
                /\ job' = [job EXCEPT ![p].holdKnown = isKnown, ![p].catchup = TRUE]
                /\ todo' = [todo EXCEPT ![p] =
                      FirstN(Backwards(SubSeq(history, start + 1, Len(history))), BatchCap)]
            BY <2>6 DEF Relist
        <3>2. FirstN(Backwards(SubSeq(history, start + 1, Len(history))), BatchCap) \in Seq(Msg)
            <4>1. start \in Nat
                BY <2>0
            <4> QED BY <4>1, RecentType
        <3>3. todo' \in [Poller -> Seq(Msg)]
            BY <3>1, <3>2
        <3>4. job' \in [Poller -> Job]
            BY <3>1 DEF Job
        <3> QED BY <2>6, <3>3, <3>4 DEF Relist, Step
    <2>7. CASE SkipUninteresting(p)
        BY <2>7, HeadTailProperties DEF SkipUninteresting
    <2>8. CASE SkipGuarded(p)
        <3>1. todo[p] \in Seq(Msg) /\ todo[p] # <<>>
            BY <2>8 DEF SkipGuarded, Considered
        <3>2. Tail(todo[p]) \in Seq(Msg)
            BY <3>1, HeadTailProperties
        <3> QED BY <2>8, <3>2 DEF SkipGuarded, Step
    <2>13. CASE LookUp(p)
        BY <2>13, HeadTailProperties DEF LookUp, Considered, Step
    <2>9. CASE Claim(p)
        BY <2>9, HeadTailProperties DEF Claim, Step
    <2>10. CASE Deliver(p)
        <3>1. todo[p] \in Seq(Msg) /\ todo[p] # <<>>
            BY <2>10 DEF Deliver
        <3>2. Head(todo[p]) \in Msg /\ Tail(todo[p]) \in Seq(Msg)
            BY <3>1, HeadTailProperties
        <3>3. handed' \in [Msg -> 0..2]
            BY <2>10, <3>2 DEF Deliver, Saturate
        <3> QED BY <2>10, <3>2, <3>3 DEF Deliver, Step
    <2>11. CASE Advance(p)
        BY <2>11 DEF Advance, AdvancedCursor, Step, Job
    <2>12. CASE Release(p)
        BY <2>12 DEF Release, Step, Job, NoJob
    <2> QED BY <1>6, <2>1, <2>2, <2>3, <2>4, <2>5, <2>6, <2>7, <2>8, <2>9,
               <2>10, <2>11, <2>12, <2>13 DEF PassStep
<1>7. ASSUME NEW p \in Poller, PassFault(p) PROVE Typed'
    <2>1. CASE Abandon(p)
        BY <2>1, NoMessages DEF Abandon, Step
    <2>2. CASE ClaimUnavailable(p)
        <3>1. todo[p] \in Seq(Msg) /\ todo[p] # <<>>
            BY <2>2 DEF ClaimUnavailable, Considered
        <3>2. Head(todo[p]) \in Msg /\ Tail(todo[p]) \in Seq(Msg)
            BY <3>1, HeadTailProperties
        <3>3. claims' \subseteq Msg
            BY <2>2, <3>2 DEF ClaimUnavailable
        <3>5. \/ pc' = [pc EXCEPT ![p] = "dispatch"] /\ todo' = [todo EXCEPT ![p] = Tail(todo[p])]
              \/ pc' = [pc EXCEPT ![p] = "deliver"] /\ todo' = todo
            BY <2>2 DEF ClaimUnavailable
        <3>6. pc' \in [Poller -> Step] /\ todo' \in [Poller -> Seq(Msg)]
            BY <3>2, <3>5 DEF Step
        <3>7. InHand'
            BY <3>1, <3>5
        <3> QED BY <2>2, <3>3, <3>6, <3>7 DEF ClaimUnavailable
    <2>3. CASE Unreadable(p)
        BY <2>3, HeadTailProperties DEF Unreadable, Step
    <2>4. CASE Crash(p)
        BY <2>4, NoMessages DEF Crash, Step, Job, NoJob
    <2> QED BY <1>7, <2>1, <2>2, <2>3, <2>4 DEF PassFault
<1>8. CASE UNCHANGED vars
    BY <1>8 DEF vars
<1> QED BY <1>1, <1>2, <1>3, <1>4, <1>5, <1>6, <1>7, <1>8 DEF Next

\* The state variables keep their types in every step of every instance.
THEOREM TypeCorrect == Spec => []TypeOK
<1>1. Typed => TypeOK
    BY DEF Typed
<1> QED BY <1>1, InitTyped, NextTyped, PTL DEF Spec

-----------------------------------------------------------------------------
(* At most one task per message *)

LEMMA UntouchedClaims == Untouched /\ gateOpen \in BOOLEAN => ClaimInv
BY UntouchedTyped DEF Untouched, ClaimInv, Typed, NoCatchup, InHandClaimed, InHandAlone,
                      HandedClaimed, NoJob

LEMMA InitClaimInv == Init => ClaimInv
BY UntouchedClaims DEF Init

\* A step that keeps every claim, every hand-off and every message in hand
\* keeps the invariant.
LEMMA QuietStep ==
    ASSUME ClaimInv, Typed', NoCatchup', faults' = faults,
           claims \subseteq claims', handed' = handed,
           \A p \in Poller : pc'[p] = "deliver" =>
                pc[p] = "deliver" /\ todo'[p] = todo[p]
    PROVE  ClaimInv'
BY DEF ClaimInv, Typed, InHandClaimed, InHandAlone, HandedClaimed, Strict

LEMMA NextClaimInv == ClaimInv /\ [Next]_vars => ClaimInv'
<1> SUFFICES ASSUME ClaimInv, [Next]_vars PROVE ClaimInv'
    OBVIOUS
<1>0. Typed /\ Typed' /\ faults' = faults
    BY NextTyped, FaultsKept DEF ClaimInv, Typed
<1> USE DEF arrivalVars, redisVars, passVars
<1>1. ASSUME NEW m \in Msg, Arrive(m) PROVE ClaimInv'
    <2>1. NoCatchup'
        BY <1>1 DEF Arrive, ClaimInv, NoCatchup
    <2> QED BY <1>0, <1>1, <2>1, QuietStep DEF Arrive
<1>2. CASE ExpireHistory
    <2>1. NoCatchup'
        BY <1>2 DEF ExpireHistory, NoCatchup
    <2> QED BY <1>0, <1>2, <2>1, QuietStep DEF ExpireHistory
<1>3. CASE FlipGate
    <2>1. NoCatchup'
        BY <1>3 DEF FlipGate, ClaimInv, NoCatchup
    <2> QED BY <1>0, <1>3, <2>1, QuietStep DEF FlipGate
<1>4. CASE ExpireLock
    <2>1. NoCatchup'
        BY <1>4 DEF ExpireLock, ClaimInv, NoCatchup
    <2> QED BY <1>0, <1>4, <2>1, QuietStep DEF ExpireLock
<1>5. ASSUME NEW p \in Poller, Begin(p) PROVE ClaimInv'
    <2>1. NoCatchup'
        BY <1>0, <1>5 DEF Begin, ClaimInv, NoCatchup, Typed, TypeOK
    <2> QED BY <1>0, <1>5, <2>1, QuietStep DEF Begin, Typed, TypeOK
<1>6. ASSUME NEW p \in Poller, PassStep(p) PROVE ClaimInv'
    <2> USE <1>0 DEF Typed, TypeOK
    <2>1. CASE \/ Snapshot(p) \/ WalkHistory(p) \/ CursorAgedOut(p) \/ ReadProfile(p)
               \/ Reseed(p) \/ Relist(p) \/ SkipUninteresting(p) \/ SkipGuarded(p)
               \/ LookUp(p) \/ Advance(p) \/ Release(p)
        <3>1. claims' = claims /\ handed' = handed
            BY <2>1 DEF Snapshot, WalkHistory, CursorAgedOut, ReadProfile, Reseed, Relist,
                        SkipUninteresting, SkipGuarded, LookUp, Advance, Release
        <3>2. \A q \in Poller : pc'[q] = "deliver" => pc[q] = "deliver" /\ todo'[q] = todo[q]
            BY <2>1 DEF Snapshot, WalkHistory, CursorAgedOut, ReadProfile, Reseed, Relist,
                        SkipUninteresting, SkipGuarded, LookUp, Considered, Advance, Release
        <3>3. NoCatchup'
            <4> SUFFICES ASSUME "history_expiry" \notin faults
                         PROVE  /\ floor' = 0
                                /\ \A q \in Poller :
                                     /\ pc'[q] \notin {"profile", "reseed", "relist"}
                                     /\ ~job'[q].catchup
                BY DEF NoCatchup
            <4>1. /\ floor = 0
                  /\ \A q \in Poller : /\ pc[q] \notin {"profile", "reseed", "relist"}
                                       /\ ~job[q].catchup
                BY DEF ClaimInv, NoCatchup
            <4>2. job[p].since \in Nat
                BY DEF Job
            <4>3. CASE Snapshot(p)
                BY <4>1, <4>3 DEF Snapshot, NoJob
            <4>4. CASE WalkHistory(p)
                BY <4>1, <4>4 DEF WalkHistory
            <4>5. CASE SkipUninteresting(p) \/ SkipGuarded(p) \/ LookUp(p)
                BY <4>1, <4>5 DEF SkipUninteresting, SkipGuarded, LookUp, Considered
            <4>6. CASE Advance(p)
                BY <4>1, <4>6 DEF Advance
            <4>7. CASE Release(p)
                BY <4>1, <4>7 DEF Release, NoJob
            <4>8. ~(CursorAgedOut(p) \/ ReadProfile(p) \/ Reseed(p) \/ Relist(p))
                BY <4>1, <4>2 DEF CursorAgedOut, ReadProfile, Reseed, Relist
            <4> QED BY <2>1, <4>3, <4>4, <4>5, <4>6, <4>7, <4>8
        <3> QED BY <3>1, <3>2, <3>3, QuietStep
    <2>2. CASE Claim(p)
        <3> DEFINE m == Head(todo[p])
        <3>1. m \in Msg /\ m \notin claims
            <4>1. todo[p] \in Seq(Msg) /\ todo[p] # << >> /\ m \notin claims
                BY <2>2 DEF Claim, InHand
            <4> QED BY <4>1, HeadTailProperties
        <3>2. /\ claims' = claims \cup {m} /\ handed' = handed /\ todo' = todo
              /\ pc' = [pc EXCEPT ![p] = "deliver"] /\ job' = job /\ floor' = floor
            BY <2>2 DEF Claim
        <3>3. NoCatchup'
            BY <3>2 DEF ClaimInv, NoCatchup
        <3>4. InHandClaimed'
            <4> SUFFICES ASSUME NEW q \in Poller, pc'[q] = "deliver", Strict(Head(todo'[q]))
                         PROVE  Head(todo'[q]) \in claims' /\ handed'[Head(todo'[q])] = 0
                BY DEF InHandClaimed, Strict
            <4>1. CASE q = p
                <5>1. Head(todo'[q]) = m /\ Strict(m)
                    BY <3>2, <4>1
                <5>2. ~(handed[m] > 0)
                    BY <3>1, <5>1 DEF ClaimInv, HandedClaimed
                <5>3. handed[m] \in 0..2
                    BY <3>1
                <5> QED BY <3>2, <5>1, <5>2, <5>3
            <4>2. CASE q # p
                BY <3>2, <4>2 DEF ClaimInv, InHandClaimed
            <4> QED BY <4>1, <4>2
        <3>5. InHandAlone'
            BY <3>1, <3>2 DEF ClaimInv, InHandClaimed, InHandAlone, Strict
        <3>6. HandedClaimed'
            BY <3>2 DEF ClaimInv, HandedClaimed, Strict
        <3> QED BY <3>3, <3>4, <3>5, <3>6 DEF ClaimInv
    <2>3. CASE Deliver(p)
        <3> DEFINE m == Head(todo[p])
        <3>1. m \in Msg
            BY <2>3, HeadTailProperties DEF Deliver, InHand
        <3>2. /\ claims' = claims /\ todo' = [todo EXCEPT ![p] = Tail(@)]
              /\ pc' = [pc EXCEPT ![p] = "dispatch"] /\ job' = job /\ floor' = floor
            BY <2>3 DEF Deliver
        <3>3. handed' = handed \/ handed' = [handed EXCEPT ![m] = Saturate(@)]
            BY <2>3 DEF Deliver
        <3>4. \A n \in Msg : n # m => handed'[n] = handed[n]
            BY <3>1, <3>3
        <3>5. Strict(m) => m \in claims /\ handed[m] = 0
            BY <2>3 DEF ClaimInv, InHandClaimed, Deliver
        <3>6. NoCatchup'
            BY <3>2 DEF ClaimInv, NoCatchup
        <3>7. InHandClaimed'
            <4> SUFFICES ASSUME NEW q \in Poller, pc'[q] = "deliver", Strict(Head(todo'[q]))
                         PROVE  Head(todo'[q]) \in claims' /\ handed'[Head(todo'[q])] = 0
                BY DEF InHandClaimed, Strict
            <4>1. q # p /\ pc[q] = "deliver" /\ todo'[q] = todo[q]
                BY <3>2
            <4>2. Head(todo[q]) \in claims /\ handed[Head(todo[q])] = 0
                BY <4>1 DEF ClaimInv, InHandClaimed
            <4>3. Head(todo[q]) # m
                BY <2>3, <4>1 DEF ClaimInv, InHandAlone, Deliver
            <4> QED BY <3>2, <3>4, <4>1, <4>2, <4>3
        <3>8. InHandAlone'
            BY <3>2 DEF ClaimInv, InHandAlone, Strict
        <3>9. HandedClaimed'
            <4> SUFFICES ASSUME NEW n \in Msg, Strict(n)
                         PROVE  handed'[n] <= 1 /\ (handed'[n] > 0 => n \in claims')
                BY DEF HandedClaimed, Strict
            <4>1. CASE n = m
                BY <3>1, <3>2, <3>3, <3>5, <4>1 DEF Saturate
            <4>2. CASE n # m
                BY <3>2, <3>4, <4>2 DEF ClaimInv, HandedClaimed
            <4> QED BY <4>1, <4>2
        <3> QED BY <3>6, <3>7, <3>8, <3>9 DEF ClaimInv
    <2> QED BY <1>6, <2>1, <2>2, <2>3 DEF PassStep
<1>7. ASSUME NEW p \in Poller, PassFault(p) PROVE ClaimInv'
    <2> USE <1>0 DEF Typed, TypeOK
    <2>1. CASE Abandon(p) \/ Unreadable(p) \/ Crash(p)
        <3>1. claims' = claims /\ handed' = handed
            BY <2>1 DEF Abandon, Unreadable, Crash
        <3>2. \A q \in Poller : pc'[q] = "deliver" => pc[q] = "deliver" /\ todo'[q] = todo[q]
            BY <2>1 DEF Abandon, Unreadable, Crash
        <3>3. NoCatchup'
            BY <2>1 DEF Abandon, Unreadable, Crash, ClaimInv, NoCatchup, NoJob
        <3> QED BY <3>1, <3>2, <3>3, QuietStep
    <2>2. CASE ClaimUnavailable(p)
        <3> DEFINE m == Head(todo[p])
        <3>1. m \in Msg
            <4>1. todo[p] \in Seq(Msg) /\ todo[p] # << >>
                BY <2>2 DEF ClaimUnavailable, Considered, InHand
            <4> QED BY <4>1, HeadTailProperties
        <3>2. claims \subseteq claims' /\ handed' = handed /\ job' = job /\ floor' = floor
            BY <2>2 DEF ClaimUnavailable
        <3>3. NoCatchup'
            BY <2>2, <3>2 DEF ClaimUnavailable, ClaimInv, NoCatchup
        <3>4. CASE ~job[p].catchup /\ IsSent(m)
            <4>1. pc' = [pc EXCEPT ![p] = "dispatch"] /\ todo' = [todo EXCEPT ![p] = Tail(@)]
                BY <2>2, <3>4 DEF ClaimUnavailable, Considered
            <4> QED BY <3>2, <3>3, <4>1, QuietStep
        <3>5. CASE ~(~job[p].catchup /\ IsSent(m))
            <4>1. pc' = [pc EXCEPT ![p] = "deliver"] /\ todo' = todo
                BY <2>2, <3>5 DEF ClaimUnavailable
            <4>2. ~Strict(m)
                BY <2>2, <3>5 DEF ClaimUnavailable, Strict, IsSent, ClaimInv, NoCatchup
            <4>3. InHandClaimed'
                BY <3>2, <4>1, <4>2 DEF ClaimInv, InHandClaimed, Strict
            <4>4. InHandAlone'
                BY <4>1, <4>2 DEF ClaimInv, InHandAlone, Strict
            <4>5. HandedClaimed'
                BY <3>2 DEF ClaimInv, HandedClaimed, Strict
            <4> QED BY <3>3, <4>3, <4>4, <4>5 DEF ClaimInv
        <3> QED BY <3>4, <3>5
    <2> QED BY <1>7, <2>1, <2>2 DEF PassFault
<1>8. CASE UNCHANGED vars
    <2>1. NoCatchup'
        BY <1>8 DEF vars, ClaimInv, NoCatchup
    <2> QED BY <1>0, <1>8, <2>1, QuietStep DEF vars
<1> QED BY <1>1, <1>2, <1>3, <1>4, <1>5, <1>6, <1>7, <1>8 DEF Next

LEMMA ClaimInvariant == Spec => []ClaimInv
BY InitClaimInv, NextClaimInv, PTL DEF Spec

\* While Redis answers, no message is handed to two tasks, however passes
\* overlap, die, outlive their lock or replay a batch.
THEOREM AtMostOnce == Spec => []HandedAtMostOnce
<1>1. ClaimInv => HandedAtMostOnce
    BY DEF ClaimInv, HandedClaimed, Strict, HandedAtMostOnce
<1> QED BY <1>1, ClaimInvariant, PTL

\* A command runs at most once even when Redis fails in the middle of a pass,
\* as long as Gmail still knows the cursor.
THEOREM CommandsOnce == Spec => []CommandsAtMostOnce
<1>1. ClaimInv => CommandsAtMostOnce
    BY DEF ClaimInv, HandedClaimed, Strict, CommandsAtMostOnce
<1> QED BY <1>1, ClaimInvariant, PTL

-----------------------------------------------------------------------------
(* The handoff *)

\* What a pass has still to dispatch is in the mailbox.
TodoArrived == \A p \in Poller : todo[p] \in Seq(Arrived)

LEMMA InitTodo == Init => TodoArrived
BY EmptySeq DEF Init, Untouched, TodoArrived

LEMMA HistoryArrived == TypeOK => history \in Seq(Arrived)
<1> SUFFICES ASSUME TypeOK PROVE history \in Seq(Arrived)
    OBVIOUS
<1>1. /\ Len(history) \in Nat
      /\ history = [i \in 1..Len(history) |-> history[i]]
      /\ \A i \in 1..Len(history) : history[i] \in Arrived
    BY LenProperties DEF TypeOK, Arrived
<1> QED BY <1>1, IsASeq

\* Messages only arrive, so a list of arrived messages stays one.
LEMMA ArrivedGrows ==
    ASSUME TypeOK, NEW s \in Seq(Arrived), [Next]_vars
    PROVE  s \in Seq(Arrived')
<1>1. Arrived \subseteq Arrived'
    <2>1. CASE history' = history
        BY <2>1 DEF Arrived
    <2>2. ASSUME NEW m \in Msg, Arrive(m) PROVE Arrived \subseteq Arrived'
        <3>1. /\ Len(history') = Len(history) + 1
              /\ Len(history) \in Nat
              /\ \A i \in 1..Len(history) : history'[i] = history[i]
            BY <2>2, AppendProperties, LenProperties DEF Arrive, TypeOK
        <3> QED BY <3>1 DEF Arrived
    <2> QED
        BY <2>1, <2>2 DEF Next, vars, arrivalVars, ExpireHistory, FlipGate, ExpireLock,
           Begin, PassStep, PassFault, Snapshot, WalkHistory, CursorAgedOut, ReadProfile,
           Reseed, Relist, SkipUninteresting, SkipGuarded, LookUp, Claim, Deliver, Advance,
           Release, Abandon, ClaimUnavailable, Unreadable, Crash
<1>2. \A i \in 1..Len(s) : s[i] \in Arrived'
    BY <1>1, ElementOfSeq
<1>3. Len(s) \in Nat /\ s = [i \in 1..Len(s) |-> s[i]]
    BY LenProperties
<1> QED BY <1>2, <1>3, IsASeq

LEMMA NextTodo == Typed /\ TodoArrived /\ [Next]_vars => TodoArrived'
<1> SUFFICES ASSUME Typed, TodoArrived, [Next]_vars, NEW p \in Poller
             PROVE  todo'[p] \in Seq(Arrived')
    BY DEF TodoArrived
<1>0. todo[p] \in Seq(Arrived) /\ history \in Seq(Arrived) /\ TypeOK
    BY HistoryArrived DEF Typed, TodoArrived
<1> USE DEF Typed, TypeOK
<1> SUFFICES todo'[p] \in Seq(Arrived)
    BY ArrivedGrows
<1>1. CASE todo'[p] = todo[p]
    BY <1>0, <1>1
<1>2. CASE todo'[p] = <<>>
    BY <1>2, EmptySeq
<1>3. CASE todo[p] # <<>> /\ todo'[p] = Tail(todo[p])
    BY <1>0, <1>3, HeadTailProperties
<1>4. CASE WalkHistory(p)
    <2>1. job[p].since \in Nat
        BY DEF Job
    <2>2. todo'[p] = FirstN(SubSeq(history, job[p].since + 1, Len(history)), BatchCap)
        BY <1>4 DEF WalkHistory
    <2> QED BY <1>0, <2>1, <2>2, NewType
<1>5. CASE Relist(p)
    <2>1. PICK start \in floor..Len(history) :
            todo'[p] = FirstN(Backwards(SubSeq(history, start + 1, Len(history))), BatchCap)
        BY <1>5 DEF Relist
    <2>2. start \in Nat
        BY LenProperties
    <2> QED BY <1>0, <2>1, <2>2, RecentType
<1>6. CASE todo' = todo
    BY <1>1, <1>6
<1>7. ASSUME NEW q \in Poller, PassStep(q) \/ PassFault(q) PROVE todo'[p] \in Seq(Arrived)
    <2>1. CASE q # p
        <3>1. todo'[p] = todo[p]
            BY <1>7, <2>1 DEF PassStep, PassFault, arrivalVars, redisVars, Snapshot,
               WalkHistory, CursorAgedOut, ReadProfile, Reseed, Relist, SkipUninteresting,
               SkipGuarded, LookUp, Claim, Deliver, Advance, Release, Abandon, ClaimUnavailable,
               Unreadable, Crash
        <3> QED BY <1>1, <3>1
    <2>2. CASE q = p /\ ~WalkHistory(p) /\ ~Relist(p)
        <3>1. \/ todo'[p] = todo[p]
              \/ todo'[p] = <<>>
              \/ todo[p] # <<>> /\ todo'[p] = Tail(todo[p])
            BY <1>7, <2>2 DEF PassStep, PassFault, InHand, Snapshot, CursorAgedOut,
               ReadProfile, Reseed, SkipUninteresting, SkipGuarded, LookUp, Considered, Claim,
               Deliver, Advance, Release, Abandon, ClaimUnavailable, Unreadable, Crash
        <3> QED BY <1>1, <1>2, <1>3, <3>1
    <2> QED BY <1>4, <1>5, <2>1, <2>2
<1>8. todo' = todo \/ \E q \in Poller : PassStep(q) \/ PassFault(q)
    BY DEF Next, vars, passVars, Arrive, ExpireHistory, FlipGate, ExpireLock, Begin
<1> QED BY <1>6, <1>7, <1>8

LEMMA InitHandoff == Init => Handoff!Init
BY DEF Init, Untouched, Handoff!Init, Arrived

\* Every step hands off one message that had not been, brings one in, or is
\* invisible to MailHandoff.
LEMMA NextHandoff ==
    ASSUME ClaimInv, TodoArrived, [Next]_vars
    PROVE  [Handoff!Next]_(Handoff!vars)
<1> USE DEF Handoff!vars
<1> DEFINE tasks == IF "redis" \in faults THEN [m \in Msg |-> 0] ELSE handed
<1>0. TypeOK /\ faults' = faults
    BY FaultsKept DEF ClaimInv
<1>1. ASSUME NEW m \in Msg, Arrive(m) PROVE Handoff!Arrive(m)
    <2>1. /\ Len(history') = Len(history) + 1
          /\ Len(history) \in Nat
          /\ \A i \in 1..Len(history) : history'[i] = history[i]
          /\ history'[Len(history) + 1] = m
        BY <1>0, <1>1, AppendProperties, LenProperties DEF Arrive, TypeOK
    <2>2. Arrived' = Arrived \cup {m}
        BY <2>1 DEF Arrived
    <2> QED BY <1>1, <2>2 DEF Arrive, Handoff!Arrive
<1>2. ASSUME NEW p \in Poller, Deliver(p) PROVE [Handoff!Next]_(Handoff!vars)
    <2> DEFINE m == Head(todo[p])
    <2>1. m \in Msg /\ m \in Arrived /\ ("redis" \notin faults => handed[m] = 0)
        <3>1. todo[p] # <<>> /\ todo[p] \in Seq(Arrived) /\ todo[p] \in Seq(Msg)
            BY <1>0, <1>2 DEF Deliver, ClaimInv, InHand, TodoArrived, TypeOK
        <3>2. "redis" \notin faults => handed[m] = 0
            BY <1>2 DEF Deliver, ClaimInv, InHandClaimed, Strict
        <3> QED BY <3>1, <3>2, HeadTailProperties
    <2>2. Arrived' = Arrived
        BY <1>2 DEF Deliver, arrivalVars, Arrived
    <2>3. tasks' = tasks \/ (tasks[m] = 0 /\ tasks' = [tasks EXCEPT ![m] = 1])
        <3>1. handed' = handed \/ handed' = [handed EXCEPT ![m] = Saturate(@)]
            BY <1>2 DEF Deliver
        <3>2. CASE "redis" \in faults
            BY <1>0, <3>2
        <3>3. CASE "redis" \notin faults
            <4>1. handed[m] = 0 /\ Saturate(handed[m]) = 1
                BY <2>1, <3>3 DEF Saturate
            <4> QED BY <1>0, <3>1, <3>3, <4>1
        <3> QED BY <3>2, <3>3
    <2> QED BY <2>1, <2>2, <2>3 DEF Handoff!Next, Handoff!HandOff
<1>3. CASE history' = history /\ handed' = handed
    BY <1>0, <1>3 DEF Arrived
<1>4. \/ history' = history /\ handed' = handed
      \/ \E m \in Msg : Arrive(m)
      \/ \E p \in Poller : Deliver(p)
    BY DEF Next, vars, arrivalVars, ExpireHistory, FlipGate, ExpireLock, Begin, PassStep,
       PassFault, Snapshot, WalkHistory, CursorAgedOut, ReadProfile, Reseed, Relist,
       SkipUninteresting, SkipGuarded, LookUp, Claim, Advance, Release, Abandon,
       ClaimUnavailable, Unreadable, Crash
<1> QED BY <1>1, <1>2, <1>3, <1>4 DEF Handoff!Next

\* While Redis answers, mail arrival implements MailHandoff: seen from outside,
\* a message comes in and at most one task takes it.
THEOREM ImplementsHandoff == Spec => HandoffSpec
<1>1. ClaimInv => Typed
    BY DEF ClaimInv, Typed
<1>2. Spec => []TodoArrived
    BY <1>1, InitTodo, NextTodo, ClaimInvariant, PTL DEF Spec
<1> QED
    BY <1>2, InitHandoff, NextHandoff, ClaimInvariant, PTL DEF Spec, HandoffSpec, Handoff!Spec

-----------------------------------------------------------------------------
(* One pass at a time *)

\* The lock stands for as long as a pass runs, and one pass holds it.
LockHeld == "slow" \notin faults => OnePassAtATime /\ (Running # {} => lock)

\* While no pass outlasts its lock, the passes over a mailbox never overlap.
THEOREM SinglePass == Spec => []OnePassAtATime
<1> USE DEF LockHeld, OnePassAtATime, Running
<1>1. Init => LockHeld
    BY DEF Init, Untouched
<1>2. TypeOK /\ LockHeld /\ [Next]_vars => LockHeld'
    <2> SUFFICES ASSUME TypeOK, LockHeld, [Next]_vars PROVE LockHeld'
        OBVIOUS
    <2>0. faults' = faults
        BY FaultsKept
    <2> USE <2>0
    <2>1. ASSUME NEW p \in Poller, Begin(p) PROVE LockHeld'
        BY <2>1 DEF Begin, TypeOK
    <2>2. ASSUME NEW p \in Poller, PassStep(p), ~Release(p) PROVE LockHeld'
        <3>1. lock' = lock /\ pc[p] # "idle" /\ \A q \in Poller : q # p => pc'[q] = pc[q]
            BY <2>2 DEF PassStep, TypeOK, redisVars, Snapshot, WalkHistory, CursorAgedOut,
               ReadProfile, Reseed, Relist, SkipUninteresting, SkipGuarded, LookUp, Considered,
               Claim, Deliver, Advance
        <3> QED BY <3>1
    <2>3. ASSUME NEW p \in Poller, Release(p) PROVE LockHeld'
        <3>1. pc[p] # "idle" /\ pc' = [pc EXCEPT ![p] = "idle"]
            BY <2>3 DEF Release
        <3> QED BY <3>1 DEF TypeOK
    <2>4. ASSUME NEW p \in Poller, PassFault(p) PROVE LockHeld'
        <3>1. lock' = lock /\ pc[p] # "idle" /\ \A q \in Poller : q # p => pc'[q] = pc[q]
            BY <2>4 DEF PassFault, TypeOK, redisVars, Abandon, ClaimUnavailable, Considered,
               Unreadable, Crash
        <3> QED BY <3>1
    <2>5. CASE ExpireLock
        BY <2>5 DEF ExpireLock, passVars
    <2>6. CASE pc' = pc /\ lock' = lock
        BY <2>6
    <2> QED
        BY <2>1, <2>2, <2>3, <2>4, <2>5, <2>6
           DEF Next, vars, redisVars, passVars, Arrive, ExpireHistory, FlipGate
<1>3. LockHeld => OnePassAtATime
    OBVIOUS
<1> QED BY <1>1, <1>2, <1>3, TypeCorrect, PTL DEF Spec

-----------------------------------------------------------------------------
(* No message is skipped *)

\* No pass fails in the middle: a lock may run out and the subscription lapse.
Calm == faults \subseteq {"slow", "lapse"}

\* A message that is wanted was handed off or is in a pass's hands.
SeenTo(m) == Wanted(m) => handed[m] > 0 \/ InFlight(m)

\* A message a pass has still to come to.
Ahead(p, m) == \E j \in 1..Len(todo[p]) : todo[p][j] = m

\* What is claimed is seen to; and while the cap cuts nothing off, so is what the
\* cursor has passed, what a pass took the cursor to have passed, and what of the
\* pass's own stretch is not ahead of it any more.
SkipInv ==
    /\ ours = {}
    /\ \A p \in Poller : job[p].holdKnown
    /\ \A m \in claims : SeenTo(m)
    /\ cursor <= Len(history)
    /\ \A p \in Poller : job[p].since <= Len(history) /\ job[p].upto <= Len(history)
    /\ Len(history) <= BatchCap =>
          /\ \A i \in 1..cursor : SeenTo(history[i])
          /\ \A p \in Poller : \A i \in 1..job[p].since : SeenTo(history[i])
          /\ \A p \in Poller : pc[p] \in {"dispatch", "claim", "deliver"} =>
                \A i \in 1..job[p].upto : SeenTo(history[i]) \/ Ahead(p, history[i])

LEMMA InitSkip == Init => SkipInv
<1> SUFFICES ASSUME Init PROVE SkipInv
    OBVIOUS
<1>1. /\ history = <<>> /\ Len(history) = 0 /\ cursor = 0 /\ claims = {} /\ ours = {}
      /\ \A p \in Poller : /\ job[p].since = 0 /\ job[p].upto = 0 /\ job[p].holdKnown
                           /\ pc[p] = "idle"
    BY DEF Init, Untouched, NoJob
<1> QED BY <1>1 DEF SkipInv

\* Calm leaves the walk of the recent window and every failure out.
LEMMA CalmFacts ==
    ASSUME Calm, ClaimInv
    PROVE  /\ \A p \in Poller : /\ ~PassFault(p)
                                /\ ~CursorAgedOut(p) /\ ~ReadProfile(p)
                                /\ ~Reseed(p) /\ ~Relist(p)
           /\ ~ExpireHistory
<1>1. /\ floor = 0 /\ \A p \in Poller : job[p].since \in Nat
      /\ \A p \in Poller : pc[p] \notin {"profile", "reseed", "relist"}
    BY DEF Calm, ClaimInv, NoCatchup, TypeOK, Job
<1>2. ~ExpireHistory
    BY DEF Calm, ExpireHistory
<1>3. ASSUME NEW p \in Poller
      PROVE  ~PassFault(p) /\ ~CursorAgedOut(p) /\ ~ReadProfile(p) /\ ~Reseed(p) /\ ~Relist(p)
    <2>1. ~PassFault(p)
        BY DEF Calm, PassFault, Abandon, ClaimUnavailable, Unreadable, Crash
    <2>2. ~CursorAgedOut(p)
        BY <1>1 DEF CursorAgedOut
    <2>3. ~ReadProfile(p) /\ ~Reseed(p) /\ ~Relist(p)
        BY <1>1 DEF ReadProfile, Reseed, Relist
    <2> QED BY <2>1, <2>2, <2>3
<1> QED BY <1>2, <1>3

\* A message that is seen to stays so: a pass that lets go of one hands it off.
LEMMA SeenStays ==
    ASSUME Calm, ClaimInv, SkipInv, [Next]_vars, NEW m \in Msg, SeenTo(m)
    PROVE  SeenTo(m)'
<1> USE DEF arrivalVars, redisVars, passVars
<1>0. TypeOK /\ InHand
    BY DEF ClaimInv
<1>1. ASSUME handed' = handed,
             \A q \in Poller : pc[q] = "deliver" => pc'[q] = "deliver" /\ todo'[q] = todo[q]
      PROVE  SeenTo(m)'
    BY <1>1 DEF SeenTo, InFlight
<1>2. ASSUME NEW p \in Poller, Deliver(p) PROVE SeenTo(m)'
    <2> DEFINE h == Head(todo[p])
    <2>1. h \in Msg
        BY <1>0, <1>2, HeadTailProperties DEF Deliver, InHand, TypeOK
    <2>2. /\ handed' = IF Interesting(h, job[p].holdKnown) /\ Owned(h)
                       THEN [handed EXCEPT ![h] = Saturate(@)] ELSE handed
          /\ todo' = [todo EXCEPT ![p] = Tail(@)]
          /\ pc' = [pc EXCEPT ![p] = "dispatch"]
        BY <1>2 DEF Deliver
    <2>3. Wanted(h) => Interesting(h, job[p].holdKnown) /\ Owned(h)
        BY DEF SkipInv, Wanted, Interesting, Owned
    <2>4. \A n \in Msg : handed[n] \in 0..2 /\ Saturate(handed[n]) > 0
        BY <1>0 DEF TypeOK, Saturate
    <2>5. Wanted(m) /\ handed[m] > 0 => handed'[m] > 0
        BY <1>0, <2>1, <2>2, <2>4 DEF TypeOK
    <2>6. Wanted(m) /\ m = h => handed'[m] > 0
        BY <1>0, <2>1, <2>2, <2>3, <2>4 DEF TypeOK
    <2>7. ASSUME NEW q \in Poller, q # p PROVE pc'[q] = pc[q] /\ todo'[q] = todo[q]
        BY <1>0, <2>2, <2>7 DEF TypeOK
    <2> HIDE DEF h
    <2>8. InFlight(m) => m = h \/ InFlight(m)'
        BY <2>7 DEF InFlight, h
    <2> QED BY <2>5, <2>6, <2>8 DEF SeenTo, Wanted
<1>3. ASSUME NEW p \in Poller, PassStep(p), ~Deliver(p) PROVE SeenTo(m)'
    <2>1. ~CursorAgedOut(p) /\ ~ReadProfile(p) /\ ~Reseed(p) /\ ~Relist(p)
        BY CalmFacts
    <2>2. handed' = handed
        BY <1>3, <2>1 DEF PassStep, Snapshot, WalkHistory, SkipUninteresting, SkipGuarded, LookUp,
                          Claim, Advance, Release
    <2>3. \A q \in Poller : pc[q] = "deliver" => pc'[q] = "deliver" /\ todo'[q] = todo[q]
        BY <1>0, <1>3, <2>1 DEF PassStep, Snapshot, WalkHistory, SkipUninteresting,
              SkipGuarded, LookUp, Considered, Claim, Advance, Release, TypeOK
    <2> QED BY <1>1, <2>2, <2>3
<1>4. ASSUME NEW p \in Poller, Begin(p) PROVE SeenTo(m)'
    BY <1>0, <1>1, <1>4 DEF Begin, TypeOK
<1>5. CASE UNCHANGED <<handed, pc, todo>>
    BY <1>1, <1>5
<1> QED BY <1>2, <1>3, <1>4, <1>5, CalmFacts
        DEF Next, vars, Arrive, ExpireHistory, FlipGate, ExpireLock

\* A step that leaves the mailbox, the cursor and every pass's stretch alone, and
\* drops from what is ahead of a pass only what is seen to.
LEMMA StretchKept ==
    ASSUME ClaimInv, SkipInv,
           UNCHANGED <<history, cursor, ours, job>>,
           \A m \in Msg : SeenTo(m) => SeenTo(m)',
           \A m \in claims' : m \in claims \/ SeenTo(m)',
           \A p \in Poller : pc'[p] \in {"dispatch", "claim", "deliver"} =>
              /\ pc[p] \in {"dispatch", "claim", "deliver"}
              /\ \A m \in Msg : Ahead(p, m) => Ahead(p, m)' \/ SeenTo(m)'
    PROVE  SkipInv'
<1>1. /\ Len(history) \in Nat /\ cursor \in Nat /\ claims \subseteq Msg
      /\ \A i \in 1..Len(history) : history[i] \in Msg
      /\ \A p \in Poller : job[p].since \in Nat /\ job[p].upto \in Nat
    BY ElementOfSeq, LenProperties DEF ClaimInv, TypeOK, Job
<1>2. \A m \in claims' : SeenTo(m)'
    BY <1>1 DEF SkipInv
<1>3. ASSUME Len(history) <= BatchCap
      PROVE  /\ \A i \in 1..cursor : SeenTo(history[i])'
             /\ \A p \in Poller : \A i \in 1..job[p].since : SeenTo(history[i])'
             /\ \A p \in Poller : pc'[p] \in {"dispatch", "claim", "deliver"} =>
                   \A i \in 1..job[p].upto : SeenTo(history[i])' \/ Ahead(p, history[i])'
    <2>1. \A i \in 1..cursor : i \in 1..Len(history)
        BY <1>1 DEF SkipInv
    <2>2. \A p \in Poller : \A i \in 1..job[p].since : i \in 1..Len(history)
        BY <1>1 DEF SkipInv
    <2>3. \A p \in Poller : \A i \in 1..job[p].upto : i \in 1..Len(history)
        BY <1>1 DEF SkipInv
    <2>4. \A i \in 1..Len(history) : SeenTo(history[i]) => SeenTo(history[i])'
        BY <1>1
    <2>5. \A p \in Poller : pc'[p] \in {"dispatch", "claim", "deliver"} =>
             \A i \in 1..Len(history) :
                Ahead(p, history[i]) => Ahead(p, history[i])' \/ SeenTo(history[i])'
        BY <1>1
    <2>6. /\ \A i \in 1..cursor : SeenTo(history[i])
          /\ \A p \in Poller : \A i \in 1..job[p].since : SeenTo(history[i])
          /\ \A p \in Poller : pc[p] \in {"dispatch", "claim", "deliver"} =>
                \A i \in 1..job[p].upto : SeenTo(history[i]) \/ Ahead(p, history[i])
        BY <1>3 DEF SkipInv
    <2>7. \A i \in 1..cursor : SeenTo(history[i])'
        BY <2>1, <2>4, <2>6
    <2>8. \A p \in Poller : \A i \in 1..job[p].since : SeenTo(history[i])'
        BY <2>2, <2>4, <2>6
    <2>9. ASSUME NEW p \in Poller, pc'[p] \in {"dispatch", "claim", "deliver"}, NEW i \in 1..job[p].upto
          PROVE  SeenTo(history[i])' \/ Ahead(p, history[i])'
        BY <2>3, <2>4, <2>5, <2>6, <2>9
    <2> QED BY <2>7, <2>8, <2>9
<1> QED BY <1>2, <1>3 DEF SkipInv

\* Taking the first message off the list leaves the others ahead.
LEMMA TailAhead ==
    ASSUME ClaimInv, NEW p \in Poller, todo[p] # <<>>, todo'[p] = Tail(todo[p]),
           NEW m \in Msg, Ahead(p, m)
    PROVE  Ahead(p, m)' \/ m = Head(todo[p])
<1>1. todo[p] \in Seq(Msg)
    BY DEF ClaimInv, TypeOK
<1>2. /\ Len(todo[p]) \in Nat /\ Len(Tail(todo[p])) = Len(todo[p]) - 1
      /\ \A j \in 1..Len(Tail(todo[p])) : Tail(todo[p])[j] = todo[p][j + 1]
      /\ Head(todo[p]) = todo[p][1]
    BY <1>1, HeadTailProperties, LenProperties
<1>3. PICK j \in 1..Len(todo[p]) : todo[p][j] = m
    BY DEF Ahead
<1>4. CASE j = 1
    BY <1>2, <1>3, <1>4
<1>5. CASE j # 1
    <2>1. j - 1 \in 1..Len(Tail(todo[p])) /\ Tail(todo[p])[j - 1] = m
        BY <1>2, <1>3, <1>5
    <2> QED BY <2>1 DEF Ahead
<1> QED BY <1>4, <1>5

\* What is in a slice that reaches to the end.
LEMMA SliceItems ==
    ASSUME NEW S, NEW s \in Seq(S), NEW k \in Nat, k <= Len(s)
    PROVE  /\ Len(SubSeq(s, k + 1, Len(s))) = Len(s) - k
           /\ \A j \in 1..(Len(s) - k) : SubSeq(s, k + 1, Len(s))[j] = s[k + j]
<1>1. \A j \in (k + 1)..Len(s) : s[j] \in S
    BY ElementOfSeq
<1>2. /\ Len(SubSeq(s, k + 1, Len(s))) =
           IF k + 1 <= Len(s) THEN Len(s) - (k + 1) + 1 ELSE 0
      /\ \A j \in 1..(Len(s) - (k + 1) + 1) : SubSeq(s, k + 1, Len(s))[j] = s[(k + 1) + j - 1]
    BY <1>1, SubSeqProperties
<1> QED BY <1>2

\* A walk lists everything from its cursor to the head of the history, when the
\* cap does not cut it short.
LEMMA WalkAhead ==
    ASSUME ClaimInv, SkipInv, NEW p \in Poller, WalkHistory(p), Len(history) <= BatchCap,
           NEW i \in 1..Len(history), job[p].since < i
    PROVE  Ahead(p, history[i])'
<1> DEFINE s == job[p].since
           w == SubSeq(history, s + 1, Len(history))
<1>1. /\ history \in Seq(Msg) /\ Len(history) \in Nat
      /\ s \in Nat /\ s <= Len(history) /\ BatchCap \in Nat
    BY CapAssumption, LenProperties DEF ClaimInv, TypeOK, Job, SkipInv
<1>2. Len(w) = Len(history) - s /\ \A j \in 1..(Len(history) - s) : w[j] = history[s + j]
    BY <1>1, SliceItems
<1>3. i - s \in 1..(Len(history) - s) /\ s + (i - s) = i
    BY <1>1
<1>4. Len(w) <= BatchCap
    BY <1>1, <1>2
<1>5. todo'[p] = w /\ history' = history
    BY <1>4 DEF WalkHistory, ClaimInv, TypeOK, arrivalVars, FirstN
<1>6. w[i - s] = history[i] /\ i - s \in 1..Len(w)
    BY <1>2, <1>3
<1> HIDE DEF w, s
<1> QED BY <1>5, <1>6 DEF Ahead

LEMMA SkipStep ==
    ASSUME Calm, ClaimInv, SkipInv, [Next]_vars
    PROVE  SkipInv'
<1> USE DEF arrivalVars, redisVars, passVars
<1>0. TypeOK /\ TypeOK' /\ InHand
    BY NextClaimInv DEF ClaimInv
<1>a. \A m \in Msg : SeenTo(m) => SeenTo(m)'
    BY SeenStays
<1>b. /\ Len(history) \in Nat /\ cursor \in Nat
      /\ \A i \in 1..Len(history) : history[i] \in Msg
      /\ \A p \in Poller : job[p].since \in Nat /\ job[p].upto \in Nat
    BY <1>0, ElementOfSeq, LenProperties DEF TypeOK, Job
<1>c. ASSUME NEW n \in Nat, n <= Len(history), \A i \in 1..n : SeenTo(history[i]),
             \A i \in 1..n : history'[i] = history[i]
      PROVE  \A i \in 1..n : SeenTo(history[i])'
    <2>1. \A i \in 1..n : history[i] \in Msg
        BY <1>b, <1>c
    <2> QED BY <1>a, <1>c, <2>1
<1>1. ASSUME UNCHANGED <<history, cursor, claims, ours, job, todo>>,
             \A q \in Poller : pc'[q] \in {"dispatch", "claim", "deliver"} => pc[q] \in {"dispatch", "claim", "deliver"}
      PROVE  SkipInv'
    BY <1>a, <1>1, StretchKept DEF Ahead
<1>d. Len(history) <= BatchCap =>
         /\ \A i \in 1..cursor : SeenTo(history[i])
         /\ \A p \in Poller : \A i \in 1..job[p].since : SeenTo(history[i])
    BY DEF SkipInv
<1>e. \A c \in claims : SeenTo(c)'
    BY <1>0, <1>a DEF SkipInv, TypeOK
<1>2. ASSUME NEW m \in Msg, Arrive(m) PROVE SkipInv'
    <2>1. /\ Len(history') = Len(history) + 1
          /\ \A i \in 1..Len(history) : history'[i] = history[i]
          /\ UNCHANGED <<cursor, claims, ours, job, todo, pc>>
        BY <1>0, <1>2, AppendProperties DEF Arrive, TypeOK
    <2>2. ASSUME Len(history') <= BatchCap
          PROVE  /\ \A i \in 1..cursor' : SeenTo(history[i])'
                 /\ \A p \in Poller : \A i \in 1..job'[p].since : SeenTo(history[i])'
                 /\ \A p \in Poller : pc'[p] \in {"dispatch", "claim", "deliver"} =>
                       \A i \in 1..job'[p].upto : SeenTo(history[i])' \/ Ahead(p, history[i])'
        <3>1. Len(history) <= BatchCap
            BY <1>b, <2>1, <2>2, CapAssumption
        <3>2. \A i \in 1..cursor' : SeenTo(history[i])'
            BY <1>b, <1>c, <1>d, <2>1, <3>1 DEF SkipInv
        <3>3. \A p \in Poller : \A i \in 1..job'[p].since : SeenTo(history[i])'
            BY <1>b, <1>c, <1>d, <2>1, <3>1 DEF SkipInv
        <3>4. ASSUME NEW p \in Poller, pc'[p] \in {"dispatch", "claim", "deliver"}, NEW i \in 1..job'[p].upto
              PROVE  SeenTo(history[i])' \/ Ahead(p, history[i])'
            <4>1. i \in 1..Len(history) /\ history[i] \in Msg /\ history'[i] = history[i]
                BY <1>b, <2>1, <3>4 DEF SkipInv
            <4>2. SeenTo(history[i]) \/ Ahead(p, history[i])
                BY <2>1, <3>1, <3>4 DEF SkipInv
            <4>3. SeenTo(history[i]) => SeenTo(history[i])'
                BY <1>a, <4>1
            <4>4. Ahead(p, history[i]) => Ahead(p, history[i])'
                BY <2>1, <4>1 DEF Ahead
            <4> QED BY <4>2, <4>3, <4>4
        <3> QED BY <3>2, <3>3, <3>4
    <2>3. \A p \in Poller : job[p].since <= Len(history') /\ job[p].upto <= Len(history')
        BY <1>b, <2>1 DEF SkipInv
    <2>4. cursor <= Len(history')
        BY <1>b, <2>1 DEF SkipInv
    <2> QED BY <1>e, <2>1, <2>2, <2>3, <2>4 DEF SkipInv
<1>3. ASSUME NEW p \in Poller, Begin(p) PROVE SkipInv'
    BY <1>0, <1>1, <1>3 DEF Begin, TypeOK
<1>f. ASSUME UNCHANGED <<history, ours>>, claims' = claims, NEW p \in Poller,
             \A q \in Poller \ {p} : pc'[q] = pc[q] /\ job'[q] = job[q] /\ todo'[q] = todo[q],
             cursor' <= Len(history),
             job'[p].holdKnown, job'[p].since <= Len(history), job'[p].upto <= Len(history),
             Len(history) <= BatchCap =>
                /\ \A i \in 1..cursor' : SeenTo(history[i])'
                /\ \A i \in 1..job'[p].since : SeenTo(history[i])'
                /\ pc'[p] \in {"dispatch", "claim", "deliver"} =>
                      \A i \in 1..job'[p].upto : SeenTo(history[i])' \/ Ahead(p, history[i])'
      PROVE  SkipInv'
    <2>1. ASSUME Len(history) <= BatchCap, NEW q \in Poller \ {p}
          PROVE  /\ \A i \in 1..job[q].since : SeenTo(history[i])'
                 /\ pc[q] \in {"dispatch", "claim", "deliver"} =>
                      \A i \in 1..job[q].upto : SeenTo(history[i])' \/ Ahead(q, history[i])'
        <3>1. job[q].since <= Len(history) /\ job[q].upto <= Len(history)
            BY DEF SkipInv
        <3>2. \A i \in 1..job[q].since : SeenTo(history[i])'
            BY <1>b, <1>c, <1>d, <1>f, <2>1, <3>1
        <3>3. ASSUME pc[q] \in {"dispatch", "claim", "deliver"}, NEW i \in 1..job[q].upto
              PROVE  SeenTo(history[i])' \/ Ahead(q, history[i])'
            <4>1. history[i] \in Msg
                BY <1>b, <3>1
            <4>2. SeenTo(history[i]) \/ Ahead(q, history[i])
                BY <2>1, <3>3 DEF SkipInv
            <4>3. SeenTo(history[i]) => SeenTo(history[i])'
                BY <1>a, <1>f, <4>1
            <4>4. Ahead(q, history[i]) => Ahead(q, history[i])'
                BY <1>f DEF Ahead
            <4> QED BY <4>2, <4>3, <4>4
        <3> QED BY <3>2, <3>3
    <2>2. \A q \in Poller : /\ job'[q].holdKnown
                            /\ job'[q].since <= Len(history') /\ job'[q].upto <= Len(history')
        BY <1>f DEF SkipInv
    <2>3. ours' = {} /\ cursor' <= Len(history') /\ \A c \in claims' : SeenTo(c)'
        BY <1>e, <1>f DEF SkipInv
    <2>4. ASSUME Len(history') <= BatchCap, NEW q \in Poller
          PROVE  /\ \A i \in 1..job'[q].since : SeenTo(history[i])'
                 /\ pc'[q] \in {"dispatch", "claim", "deliver"} =>
                      \A i \in 1..job'[q].upto : SeenTo(history[i])' \/ Ahead(q, history[i])'
        <3>1. CASE q = p BY <1>f, <2>4, <3>1
        <3>2. CASE q # p BY <1>f, <2>1, <2>4, <3>2
        <3> QED BY <3>1, <3>2
    <2>5. Len(history') <= BatchCap => \A i \in 1..cursor' : SeenTo(history[i])'
        BY <1>f
    <2> QED BY <2>2, <2>3, <2>4, <2>5 DEF SkipInv
<1>g. ASSUME history' = history, Len(history) <= BatchCap
      PROVE  /\ \A i \in 1..cursor : SeenTo(history[i])'
             /\ \A p \in Poller : \A i \in 1..job[p].since : SeenTo(history[i])'
    BY <1>b, <1>c, <1>d, <1>g DEF SkipInv
<1>4. ASSUME NEW p \in Poller, Snapshot(p) PROVE SkipInv'
    <2>1. /\ UNCHANGED <<history, cursor, claims, ours, todo>>
          /\ job'[p].since = cursor /\ job'[p].upto = 0 /\ job'[p].holdKnown
          /\ pc'[p] = "history"
          /\ \A q \in Poller \ {p} : pc'[q] = pc[q] /\ job'[q] = job[q] /\ todo'[q] = todo[q]
        BY <1>0, <1>4 DEF Snapshot, TypeOK, NoJob
    <2> QED BY <1>b, <1>f, <1>g, <2>1 DEF SkipInv
<1>5. ASSUME NEW p \in Poller, WalkHistory(p) PROVE SkipInv'
    <2> PICK isKnown \in BOOLEAN :
           /\ isKnown \/ "hold_label" \in faults
           /\ job' = [job EXCEPT ![p] = [since |-> job[p].since, upto |-> Len(history),
                                         holdKnown |-> isKnown, catchup |-> FALSE]]
           /\ todo' = [todo EXCEPT ![p] =
                FirstN(SubSeq(history, job[p].since + 1, Len(history)), BatchCap)]
        BY <1>5 DEF WalkHistory
    <2>1. isKnown
        BY DEF Calm
    <2>2. UNCHANGED <<history, cursor, claims, ours>> /\ pc' = [pc EXCEPT ![p] = "dispatch"]
        BY <1>5 DEF WalkHistory
    <2>3. job'[p] = [since |-> job[p].since, upto |-> Len(history),
                     holdKnown |-> isKnown, catchup |-> FALSE]
        BY <1>0 DEF TypeOK
    <2>4. \A q \in Poller \ {p} : pc'[q] = pc[q] /\ job'[q] = job[q] /\ todo'[q] = todo[q]
        BY <1>0, <2>2 DEF TypeOK
    <2>5. /\ UNCHANGED <<history, cursor, claims, ours>>
          /\ job'[p].since = job[p].since /\ job'[p].upto = Len(history) /\ job'[p].holdKnown
          /\ \A q \in Poller \ {p} : pc'[q] = pc[q] /\ job'[q] = job[q] /\ todo'[q] = todo[q]
        BY <2>1, <2>2, <2>3, <2>4
    <2>6. ASSUME Len(history) <= BatchCap, NEW i \in 1..Len(history)
          PROVE  SeenTo(history[i])' \/ Ahead(p, history[i])'
        <3>1. CASE i <= job[p].since
            BY <1>b, <1>g, <2>5, <2>6, <3>1
        <3>2. CASE job[p].since < i
            BY <1>5, <2>6, <3>2, WalkAhead
        <3> QED BY <1>b, <3>1, <3>2
    <2> QED BY <1>b, <1>f, <1>g, <2>5, <2>6 DEF SkipInv
\* The registry is empty here: nothing writes to it but the replies of CommandEmail.
<1>12. ASSUME NEW p \in Poller, SkipGuarded(p)
       PROVE  pc[p] = "claim" /\ Head(todo[p]) \in claims
    BY <1>12 DEF SkipGuarded, SkipInv
<1>6. ASSUME NEW p \in Poller, SkipUninteresting(p) \/ SkipGuarded(p) \/ Deliver(p) PROVE SkipInv'
    <2>1. /\ UNCHANGED <<history, cursor, claims, ours, job>>
          /\ todo[p] # <<>> /\ todo'[p] = Tail(todo[p])
          /\ pc[p] \in {"dispatch", "claim", "deliver"}
          /\ \A q \in Poller \ {p} : pc'[q] = pc[q] /\ todo'[q] = todo[q]
        BY <1>0, <1>6, <1>12 DEF SkipUninteresting, SkipGuarded, Deliver, TypeOK, InHand
    <2>2. Head(todo[p]) \in Msg
        BY <1>0, <2>1, HeadTailProperties DEF TypeOK
    <2> PICK h \in Msg : h = Head(todo[p])
        BY <2>2
    <2>3. SeenTo(h)
        <3>1. CASE SkipUninteresting(p)
            <4>1. ~Interesting(h, job[p].holdKnown) /\ job[p].holdKnown
                BY <3>1 DEF SkipUninteresting, SkipInv
            <4> QED BY <4>1 DEF Interesting, SeenTo, Wanted
        <3>2. CASE SkipGuarded(p)
            <4>1. h \in claims
                BY <3>2, <1>12
            <4> QED BY <4>1 DEF SkipInv
        <3>3. CASE Deliver(p)
            <4>1. pc[p] = "deliver"
                BY <3>3 DEF Deliver
            <4> QED BY <4>1 DEF InFlight, SeenTo
        <3> QED BY <1>6, <3>1, <3>2, <3>3
    <2>4. \A m \in Msg : Ahead(p, m) => Ahead(p, m)' \/ SeenTo(m)'
        <3> SUFFICES ASSUME NEW m \in Msg, Ahead(p, m) PROVE Ahead(p, m)' \/ SeenTo(m)'
            OBVIOUS
        <3>1. Ahead(p, m)' \/ m = h
            BY <2>1, TailAhead
        <3>2. m = h => SeenTo(m)'
            BY <1>a, <2>3
        <3> QED BY <3>1, <3>2
    <2>5. \A q \in Poller \ {p} : \A m \in Msg : Ahead(q, m) => Ahead(q, m)'
        BY <2>1 DEF Ahead
    <2>6. \A q \in Poller : pc'[q] \in {"dispatch", "claim", "deliver"} =>
             /\ pc[q] \in {"dispatch", "claim", "deliver"}
             /\ \A m \in Msg : Ahead(q, m) => Ahead(q, m)' \/ SeenTo(m)'
        BY <2>1, <2>4, <2>5
    <2>7. \A m \in claims' : m \in claims \/ SeenTo(m)'
        BY <2>1
    <2> QED BY <1>a, <2>1, <2>6, <2>7, StretchKept
<1>7. ASSUME NEW p \in Poller, Claim(p) PROVE SkipInv'
    <2> DEFINE h == Head(todo[p])
    <2>1. /\ UNCHANGED <<history, cursor, ours, job, todo>> /\ claims' = claims \cup {h}
          /\ pc[p] = "claim" /\ pc'[p] = "deliver"
          /\ \A q \in Poller \ {p} : pc'[q] = pc[q]
        BY <1>0, <1>7 DEF Claim, TypeOK
    <2>2. SeenTo(h)'
        BY <2>1 DEF SeenTo, InFlight
    <2>3. \A q \in Poller : pc'[q] \in {"dispatch", "claim", "deliver"} =>
             /\ pc[q] \in {"dispatch", "claim", "deliver"}
             /\ \A m \in Msg : Ahead(q, m) => Ahead(q, m)' \/ SeenTo(m)'
        BY <2>1 DEF Ahead
    <2>4. \A m \in claims' : m \in claims \/ SeenTo(m)'
        BY <2>1, <2>2
    <2> QED BY <1>a, <2>1, <2>3, <2>4, StretchKept
<1>8. ASSUME NEW p \in Poller, Advance(p) PROVE SkipInv'
    <2>1. /\ UNCHANGED <<history, claims, ours, job, todo>>
          /\ pc[p] = "dispatch" /\ todo[p] = <<>> /\ pc'[p] = "release"
          /\ \A q \in Poller \ {p} : pc'[q] = pc[q]
          /\ cursor' = cursor \/ cursor' = job[p].upto
        BY <1>0, <1>8 DEF Advance, AdvancedCursor, TypeOK
    <2>2. ASSUME Len(history) <= BatchCap, NEW i \in 1..job[p].upto PROVE SeenTo(history[i])'
        <3>1. history[i] \in Msg
            BY <1>b DEF SkipInv
        <3>2. ~Ahead(p, history[i])
            BY <2>1 DEF Ahead
        <3>3. SeenTo(history[i])
            BY <2>1, <2>2, <3>2 DEF SkipInv
        <3> QED BY <1>a, <2>1, <3>1, <3>3
    <2> QED BY <1>b, <1>f, <1>g, <2>1, <2>2 DEF SkipInv
<1>9. ASSUME NEW p \in Poller, Release(p) PROVE SkipInv'
    <2>1. /\ UNCHANGED <<history, cursor, claims, ours, todo>>
          /\ job'[p].since = 0 /\ job'[p].upto = 0 /\ job'[p].holdKnown
          /\ pc'[p] = "idle"
          /\ \A q \in Poller \ {p} : pc'[q] = pc[q] /\ job'[q] = job[q] /\ todo'[q] = todo[q]
        BY <1>0, <1>9 DEF Release, TypeOK, NoJob
    <2> QED BY <1>b, <1>f, <1>g, <2>1 DEF SkipInv
<1>11. ASSUME NEW p \in Poller, LookUp(p) PROVE SkipInv'
    <2>1. /\ UNCHANGED <<history, cursor, claims, ours, job, todo>>
          /\ pc[p] = "dispatch" /\ pc'[p] = "claim"
          /\ \A q \in Poller \ {p} : pc'[q] = pc[q]
        BY <1>0, <1>11 DEF LookUp, Considered, TypeOK
    <2>2. \A q \in Poller : pc'[q] \in {"dispatch", "claim", "deliver"} =>
             /\ pc[q] \in {"dispatch", "claim", "deliver"}
             /\ \A m \in Msg : Ahead(q, m) => Ahead(q, m)' \/ SeenTo(m)'
        BY <2>1 DEF Ahead
    <2> QED BY <1>a, <2>1, <2>2, StretchKept
<1>10. CASE UNCHANGED <<history, cursor, claims, ours, job, todo, pc>>
    BY <1>1, <1>10
<1> QED BY <1>2, <1>3, <1>4, <1>5, <1>6, <1>7, <1>8, <1>9, <1>10, <1>11, CalmFacts
        DEF Next, PassStep, vars, ExpireHistory, FlipGate, ExpireLock

\* Nothing is lost between the claim, the task and the cursor, for every mailbox,
\* every cap and any number of passes that overlap: a claimed message is handed
\* off or in hand, and the cursor passes no message that is not.
THEOREM NothingLost == Spec => []NothingSkipped
<1>1. ASSUME ClaimInv, Calm => SkipInv PROVE NothingSkipped
    <2>1. ClaimMeansHandled
        BY <1>1 DEF ClaimMeansHandled, Calm, SkipInv, SeenTo
    <2>2. CursorSkipsNothing
        <3> SUFFICES ASSUME Calm, Len(history) <= BatchCap, NEW i \in 1..Len(history),
                            i <= cursor, Wanted(history[i])
                     PROVE  handed[history[i]] > 0 \/ InFlight(history[i])
            BY DEF CursorSkipsNothing, Calm
        <3>1. i \in 1..cursor
            BY <1>1 DEF ClaimInv, TypeOK
        <3> QED BY <1>1, <3>1 DEF SkipInv, SeenTo
    <2> QED BY <2>1, <2>2 DEF NothingSkipped
<1>2. Init => (Calm => SkipInv)
    BY InitSkip
<1>3. ClaimInv /\ (Calm => SkipInv) /\ [Next]_vars => (Calm => SkipInv)'
    BY SkipStep, FaultsKept DEF Calm
<1> QED BY <1>1, <1>2, <1>3, ClaimInvariant, PTL DEF Spec

-----------------------------------------------------------------------------
(***************************************************************************)
(* Emailed commands.                                                       *)
(*                                                                         *)
(* What the handler does to the mailbox is a step of mail arrival, or one  *)
(* that only adds to the registry of our own messages (MailOrRegister), so *)
(* mail arrival's own invariant carries over.  The cap is proved by        *)
(* counting permits: a handler that was counted within the cap holds one   *)
(* until it sends, and the replies sent and the permits held never exceed  *)
(* what the windows so far have given out (CapInv).                        *)
(***************************************************************************)
USE ReplyAssumption, HandlerAssumption

-----------------------------------------------------------------------------
(* Type correctness *)

\* A handler that has sent a reply knows it, and only replies are registered.
ReplyHeld ==
    /\ ours \subseteq Reply
    /\ \A m \in Msg : stage[m] \in {"sent", "registered"} => replyOf[m] \in Reply

CmdTyped == CmdTypeOK /\ InHand /\ ReplyHeld

\* What a step is to the mailbox, the passes and their claims.
LEMMA MailOrRegister ==
    ASSUME [CmdNext]_allVars
    PROVE  \/ [Next]_vars
           \/ \E m \in Msg : RegisterReply(m)
  <1>1. CASE PollerStep
    <2>1. Next
      BY <1>1 DEF PollerStep, DeliverWithLabels, Next, PassStep
    <2>2. QED
      BY <2>1
  <1>2. ASSUME NEW m \in Msg, SendReply(m) PROVE Next
    <2>1. PICK r \in Reply : Posted(r)
      BY <1>2 DEF SendReply
    <2>2. Arrive(r)
      BY <1>2, <2>1 DEF SendReply, Posted, Arrive, redisVars, passVars
    <2>3. QED
      BY <2>1, <2>2 DEF Next
  <1>3. ASSUME NEW m \in Msg, HandlerStep(m) \/ NoReply(m) \/ CrashHandler(m),
               ~SendReply(m), ~RegisterReply(m)
        PROVE  UNCHANGED vars
    BY <1>3 DEF HandlerStep, NoReply, CrashHandler, Start, Act, CountReply, SetWindow, LabelReply,
                FileCommand
  <1>4. CASE WindowEnds
    BY <1>4 DEF WindowEnds
  <1>5. CASE UNCHANGED allVars
    BY <1>5 DEF allVars
  <1>6. QED
    BY <1>1, <1>2, <1>3, <1>4, <1>5 DEF CmdNext

\* Registering a reply touches nothing else of mail arrival.
LEMMA RegisterIs ==
    ASSUME CmdTyped, NEW m \in Msg, RegisterReply(m)
    PROVE  /\ UNCHANGED <<faults, history, floor, gateOpen, cursor, lock, claims, handed,
                          pc, job, todo>>
           /\ ours' = ours \cup {replyOf[m]} /\ replyOf[m] \in Reply
  BY DEF RegisterReply, arrivalVars, passVars, CmdTyped, ReplyHeld

LEMMA MailTyped ==
    ASSUME CmdTyped, [CmdNext]_allVars
    PROVE  Typed'
  <1>1. Typed
    BY DEF CmdTyped, CmdTypeOK, Typed
  <1>2. CASE [Next]_vars
    BY <1>1, <1>2, NextTyped
  <1>3. ASSUME NEW m \in Msg, RegisterReply(m) PROVE Typed'
    BY <1>1, <1>3, RegisterIs DEF Typed, TypeOK, InHand
  <1>4. QED
    BY <1>2, <1>3, MailOrRegister

\* Mail arrival leaves the registry alone.
LEMMA OursKept ==
    ASSUME [Next]_vars
    PROVE  ours' = ours
  BY DEF Next, Arrive, ExpireHistory, FlipGate, ExpireLock, Begin, PassStep, PassFault, Snapshot,
         WalkHistory, CursorAgedOut, ReadProfile, Reseed, Relist, SkipUninteresting, SkipGuarded, LookUp,
         Claim, Deliver, Advance, Release, Abandon, ClaimUnavailable, Unreadable, Crash,
         vars, arrivalVars, redisVars, passVars

LEMMA InitCmdTyped == CmdInit => CmdTyped
  <1> SUFFICES ASSUME CmdInit PROVE CmdTyped
    OBVIOUS
  <1>1. Typed
    BY InitTyped DEF CmdInit
  <1>2. /\ mishaps \subseteq HandlerFault /\ stage \in [Msg -> Stage]
        /\ labelSeen \subseteq Msg /\ chat \subseteq Msg /\ acted \subseteq Msg
        /\ replyOf \in [Msg -> Reply \cup {None}]
    BY DEF CmdInit, Stage
  <1>3. count \in Nat /\ expiring \in BOOLEAN /\ windows \in 0..MaxWindows
    <2>1. count = 0 /\ windows = 0 /\ expiring = FALSE
      BY DEF CmdInit
    <2>2. expiring \in BOOLEAN
      BY <2>1
    <2>3. 0 \in 0..MaxWindows
      OBVIOUS
    <2>4. QED
      BY <2>1, <2>2, <2>3
  <1>4. ReplyHeld
    BY DEF CmdInit, Init, Untouched, ReplyHeld
  <1>5. QED
    BY <1>1, <1>2, <1>3, <1>4 DEF CmdTyped, CmdTypeOK, Typed

\* A task's stage changes alone.
LEMMA GoesTo ==
    ASSUME CmdTypeOK, NEW m \in Msg, NEW s \in Stage, Goto(m, s)
    PROVE  /\ stage' \in [Msg -> Stage] /\ stage'[m] = s
           /\ \A n \in Msg \ {m} : stage'[n] = stage[n]
  BY DEF CmdTypeOK, Goto

LEMMA CountGoes ==
    ASSUME CmdTypeOK, NEW m \in Msg, CountReply(m)
    PROVE  \E s \in {"counted", "cleared", "filing"} :
             /\ Goto(m, s)
             /\ s = "counted" => count = 0
             /\ s = "cleared" => count > 0
             /\ s # "filing" => count < MaxReplies
  <1>1. count \in Nat
    BY DEF CmdTypeOK
  <1>2. CASE count = 0
    BY <1>2 DEF CountReply
  <1>3. CASE count > 0 /\ count < MaxReplies
    BY <1>3 DEF CountReply
  <1>4. CASE ~(count = 0) /\ ~(count > 0 /\ count < MaxReplies)
    BY <1>4 DEF CountReply
  <1>5. QED
    BY <1>1, <1>2, <1>3, <1>4

\* The handler's own variables keep their types.
OwnTyped ==
    /\ mishaps \subseteq HandlerFault /\ stage \in [Msg -> Stage]
    /\ labelSeen \subseteq Msg /\ chat \subseteq Msg /\ acted \subseteq Msg
    /\ replyOf \in [Msg -> Reply \cup {None}]
    /\ count \in Nat /\ expiring \in BOOLEAN /\ windows \in 0..MaxWindows
    /\ ReplyHeld

LEMMA OwnIsTyped == CmdTyped <=> Typed /\ OwnTyped
  BY DEF CmdTyped, CmdTypeOK, Typed, OwnTyped

LEMMA StepTyped ==
    ASSUME CmdTyped, NEW m \in Msg, HandlerStep(m) \/ NoReply(m) \/ CrashHandler(m)
    PROVE  OwnTyped'
  <1>0. OwnTyped /\ CmdTypeOK
    BY OwnIsTyped DEF CmdTyped
  <1>1. CASE Start(m)
    <2>1. \E s \in {"done", "parsed"} : Goto(m, s)
      BY <1>1 DEF Start
    <2>2. /\ stage' \in [Msg -> Stage] /\ stage'[m] \in {"done", "parsed"}
          /\ \A n \in Msg \ {m} : stage'[n] = stage[n]
      BY <1>0, <2>1, GoesTo DEF Stage
    <2>3. QED
      BY <1>0, <1>1, <2>2 DEF OwnTyped, ReplyHeld, Start, vars
  <1>2. CASE Act(m)
    <2>1. /\ stage' \in [Msg -> Stage] /\ stage'[m] = "acted"
          /\ \A n \in Msg \ {m} : stage'[n] = stage[n]
      BY <1>0, <1>2, GoesTo DEF Stage, Act
    <2>2. QED
      BY <1>0, <1>2, <2>1 DEF OwnTyped, ReplyHeld, Act, vars
  <1>3. CASE CountReply(m)
    <2>1. /\ stage' \in [Msg -> Stage] /\ stage'[m] \in {"counted", "cleared", "filing"}
          /\ \A n \in Msg \ {m} : stage'[n] = stage[n]
      BY <1>0, <1>3, CountGoes, GoesTo DEF Stage
    <2>2. QED
      BY <1>0, <1>3, <2>1 DEF OwnTyped, ReplyHeld, CountReply, vars
  <1>4. CASE SetWindow(m) \/ NoReply(m)
    <2>1. /\ stage' \in [Msg -> Stage] /\ stage'[m] \in {"cleared", "filing"}
          /\ \A n \in Msg \ {m} : stage'[n] = stage[n]
      BY <1>0, <1>4, GoesTo DEF Stage, SetWindow, NoReply
    <2>2. expiring' \in BOOLEAN
      <3>1. (count > 0) \in BOOLEAN /\ expiring \in BOOLEAN
        BY <1>0 DEF OwnTyped
      <3>2. QED
        BY <1>4, <3>1 DEF SetWindow, NoReply
    <2>3. UNCHANGED <<ours, mishaps, labelSeen, chat, acted, replyOf, count, windows>>
      BY <1>4 DEF SetWindow, NoReply, vars
    <2>4. QED
      BY <1>0, <2>1, <2>2, <2>3 DEF OwnTyped, ReplyHeld
  <1>5. CASE SendReply(m)
    <2>1. PICK r \in Reply :
            \/ replyOf' = [replyOf EXCEPT ![m] = r] /\ Goto(m, "sent")
            \/ replyOf' = replyOf /\ Goto(m, "filing")
      BY <1>5 DEF SendReply
    <2>2. /\ stage' \in [Msg -> Stage] /\ stage'[m] \in {"sent", "filing"}
          /\ \A n \in Msg \ {m} : stage'[n] = stage[n]
      BY <1>0, <2>1, GoesTo DEF Stage
    <2>3. /\ replyOf' \in [Msg -> Reply \cup {None}]
          /\ stage'[m] \in {"sent", "registered"} => replyOf'[m] \in Reply
          /\ \A n \in Msg \ {m} : replyOf'[n] = replyOf[n]
      BY <1>0, <2>1, GoesTo DEF OwnTyped, Stage
    <2>4. QED
      BY <1>0, <1>5, <2>2, <2>3 DEF OwnTyped, ReplyHeld, SendReply, redisVars
  <1>6. CASE RegisterReply(m)
    <2>1. /\ stage' \in [Msg -> Stage] /\ stage'[m] = "registered"
          /\ \A n \in Msg \ {m} : stage'[n] = stage[n]
      BY <1>0, <1>6, GoesTo DEF Stage, RegisterReply
    <2>2. QED
      BY <1>0, <1>6, <2>1 DEF OwnTyped, ReplyHeld, RegisterReply
  <1>7. CASE LabelReply(m) \/ CrashHandler(m)
    <2>1. /\ stage' \in [Msg -> Stage] /\ stage'[m] \in {"filing", "done"}
          /\ \A n \in Msg \ {m} : stage'[n] = stage[n]
      BY <1>0, <1>7, GoesTo DEF Stage, LabelReply, CrashHandler
    <2>2. /\ replyOf' \in [Msg -> Reply \cup {None}]
          /\ \A n \in Msg \ {m} : replyOf'[n] = replyOf[n]
      BY <1>0, <1>7 DEF OwnTyped, LabelReply, CrashHandler
    <2>3. chat' \subseteq Msg
      BY <1>0, <1>7 DEF OwnTyped, ReplyHeld, LabelReply, CrashHandler
    <2>4. QED
      BY <1>0, <1>7, <2>1, <2>2, <2>3 DEF OwnTyped, ReplyHeld, LabelReply, CrashHandler, vars
  <1>8. CASE FileCommand(m)
    <2>1. /\ stage' \in [Msg -> Stage] /\ stage'[m] = "done"
          /\ \A n \in Msg \ {m} : stage'[n] = stage[n]
      BY <1>0, <1>8, GoesTo DEF Stage, FileCommand
    <2>2. QED
      BY <1>0, <1>8, <2>1 DEF OwnTyped, ReplyHeld, FileCommand, vars
  <1>9. QED
    BY <1>1, <1>2, <1>3, <1>4, <1>5, <1>6, <1>7, <1>8 DEF HandlerStep

LEMMA NextCmdTyped == CmdTyped /\ [CmdNext]_allVars => CmdTyped'
  <1> SUFFICES ASSUME CmdTyped, [CmdNext]_allVars PROVE OwnTyped'
    BY MailTyped, OwnIsTyped DEF CmdTyped, CmdTypeOK, Typed, OwnTyped
  <1>0. OwnTyped
    BY OwnIsTyped
  <1>1. CASE PollerStep
    <2>1. Next
      BY <1>1 DEF PollerStep, DeliverWithLabels, Next, PassStep
    <2>2. ours' = ours
      BY <2>1, OursKept
    <2>3. /\ labelSeen' \subseteq Msg
          /\ UNCHANGED <<mishaps, stage, chat, acted, replyOf, count, expiring, windows>>
      BY <1>0, <1>1 DEF PollerStep, DeliverWithLabels, cmdVars, OwnTyped
    <2>4. QED
      BY <1>0, <2>2, <2>3 DEF OwnTyped, ReplyHeld
  <1>2. ASSUME NEW m \in Msg, HandlerStep(m) \/ NoReply(m) \/ CrashHandler(m) PROVE OwnTyped'
    BY <1>2, StepTyped
  <1>3. CASE WindowEnds
    <2>1. count' = 0 /\ expiring' = FALSE /\ windows' = windows + 1 /\ windows < MaxWindows
      BY <1>3 DEF WindowEnds
    <2>2. windows' \in 0..MaxWindows
      BY <1>0, <2>1 DEF OwnTyped
    <2>3. expiring' \in BOOLEAN
      BY <2>1
    <2>4. UNCHANGED <<ours, mishaps, stage, labelSeen, chat, acted, replyOf>>
      BY <1>3 DEF WindowEnds, vars
    <2>5. QED
      BY <1>0, <2>1, <2>2, <2>3, <2>4 DEF OwnTyped, ReplyHeld
  <1>4. CASE UNCHANGED allVars
    BY <1>0, <1>4 DEF allVars, cmdVars, vars, OwnTyped, ReplyHeld
  <1>5. QED
    BY <1>1, <1>2, <1>3, <1>4 DEF CmdNext

\* The mailbox, the passes and the tasks keep their types together.
THEOREM CommandTypeCorrect == CmdSpec => []CmdTypeOK
  <1>1. CmdTyped => CmdTypeOK
    BY DEF CmdTyped
  <1>2. QED
    BY <1>1, InitCmdTyped, NextCmdTyped, PTL DEF CmdSpec

-----------------------------------------------------------------------------
(* Claims and registered replies *)

LEMMA NextClaims == CmdTyped /\ ClaimInv /\ [CmdNext]_allVars => ClaimInv'
  <1> SUFFICES ASSUME CmdTyped, ClaimInv, [CmdNext]_allVars PROVE ClaimInv'
    OBVIOUS
  <1>1. CASE [Next]_vars
    BY <1>1, NextClaimInv
  <1>2. ASSUME NEW m \in Msg, RegisterReply(m) PROVE ClaimInv'
    <2>1. /\ UNCHANGED <<faults, history, floor, gateOpen, cursor, lock, claims, handed,
                         pc, job, todo>>
          /\ Typed'
      BY <1>2, RegisterIs, MailTyped
    <2>2. QED
      BY <2>1 DEF ClaimInv, Typed, NoCatchup, InHandClaimed, InHandAlone, HandedClaimed, Strict
  <1>3. QED
    BY <1>1, <1>2, MailOrRegister

\* What a pass has in hand past the lookup it had before the step, or it has just
\* looked up, or Redis failed it at the lookup.
LEMMA TakenInHand ==
    ASSUME Typed, Next, NEW q \in Poller, pc'[q] \in {"claim", "deliver"}
    PROVE  \/ pc[q] \in {"claim", "deliver"} /\ todo'[q] = todo[q]
           \/ LookUp(q) /\ todo'[q] = todo[q]
           \/ ClaimUnavailable(q) /\ Considered(q) /\ todo'[q] = todo[q]
  <1>0. pc \in [Poller -> Step] /\ todo \in [Poller -> Seq(Msg)]
    BY DEF Typed, TypeOK
  <1>1. CASE UNCHANGED <<pc, todo>>
    BY <1>1
  <1>2. ASSUME NEW p \in Poller, Begin(p) \/ PassStep(p) \/ PassFault(p), p # q
        PROVE  pc[q] \in {"claim", "deliver"} /\ todo'[q] = todo[q]
    BY <1>0, <1>2 DEF Begin, PassStep, PassFault, Snapshot, WalkHistory, CursorAgedOut, ReadProfile,
         Reseed, Relist, SkipUninteresting, SkipGuarded, LookUp, Claim, Deliver, Advance,
         Release, Abandon, ClaimUnavailable, Unreadable, Crash
  <1>3. ASSUME Begin(q) \/ PassStep(q) \/ PassFault(q)
        PROVE  /\ todo'[q] = todo[q]
               /\ \/ pc[q] \in {"claim", "deliver"}
                  \/ LookUp(q)
                  \/ ClaimUnavailable(q) /\ Considered(q)
    <2>1. CASE LookUp(q) \/ Claim(q)
      BY <2>1 DEF LookUp, Claim
    <2>2. CASE ClaimUnavailable(q)
      BY <1>0, <2>2 DEF ClaimUnavailable
    <2>3. CASE SkipUninteresting(q) \/ SkipGuarded(q)
      BY <1>0, <2>3 DEF SkipUninteresting, SkipGuarded, Considered
    <2>4. CASE ReadProfile(q) \/ Reseed(q) \/ CursorAgedOut(q) \/ Snapshot(q) \/ Begin(q)
      BY <1>0, <2>4 DEF ReadProfile, Reseed, CursorAgedOut, Snapshot, Begin
    <2>5. CASE WalkHistory(q) \/ Relist(q) \/ Deliver(q) \/ Advance(q) \/ Release(q)
      BY <1>0, <2>5 DEF WalkHistory, Relist, Deliver, Advance, Release
    <2>6. CASE Abandon(q) \/ Unreadable(q) \/ Crash(q)
      BY <1>0, <2>6 DEF Abandon, Unreadable, Crash
    <2>7. QED
      BY <1>3, <2>1, <2>2, <2>3, <2>4, <2>5, <2>6 DEF PassStep, PassFault
  <1>4. CASE (\E m \in Msg : Arrive(m)) \/ ExpireHistory \/ FlipGate \/ ExpireLock
    BY <1>1, <1>4 DEF Arrive, ExpireHistory, FlipGate, ExpireLock, passVars
  <1>5. QED
    BY <1>2, <1>3, <1>4 DEF Next

\* A reply in the registry is not taken past the lookup by any step.
LEMMA StaysOut ==
    ASSUME CmdTyped, ClaimInv, [CmdNext]_allVars,
           ~({"redis", "history_expiry"} \subseteq faults),
           NEW r \in ours, NEW q \in Poller, PastLookup(q, r)'
    PROVE  PastLookup(q, r)
  <1>0. Typed /\ r \in Reply /\ r \in Msg
    BY DEF CmdTyped, CmdTypeOK, Typed, ReplyHeld
  <1>1. pc'[q] \in {"claim", "deliver"} /\ Head(todo'[q]) = r
    BY DEF PastLookup
  <1>2. CASE UNCHANGED <<pc, todo>>
    BY <1>1, <1>2 DEF PastLookup
  <1>3. CASE Next
    <2>1. CASE pc[q] \in {"claim", "deliver"} /\ todo'[q] = todo[q]
      BY <1>1, <2>1 DEF PastLookup
    <2>2. CASE LookUp(q) /\ todo'[q] = todo[q]
      BY <1>1, <2>2 DEF LookUp
    <2>3. CASE ClaimUnavailable(q) /\ Considered(q) /\ todo'[q] = todo[q]
      <3>1. ~job[q].catchup
        BY <2>3 DEF ClaimInv, NoCatchup, ClaimUnavailable
      <3>2. IsSent(Head(todo[q]))
        BY <1>0, <1>1, <2>3, ReplyAssumption DEF IsSent
      <3>3. pc' = [pc EXCEPT ![q] = "dispatch"]
        BY <2>3, <3>1, <3>2 DEF ClaimUnavailable
      <3>4. QED
        BY <1>0, <1>1, <3>3 DEF Typed, TypeOK
    <2>4. QED
      BY <1>0, <1>1, <1>3, <2>1, <2>2, <2>3, TakenInHand
  <1>4. QED
    BY <1>2, <1>3, MailOrRegister, RegisterIs DEF vars

CmdInv == CmdTyped /\ ClaimInv

LEMMA CmdInvariant == CmdSpec => []CmdInv
  <1>1. CmdInit => CmdInv
    BY InitCmdTyped, InitClaimInv DEF CmdInit, CmdInv
  <1>2. CmdInv /\ [CmdNext]_allVars => CmdInv'
    BY NextCmdTyped, NextClaims DEF CmdInv
  <1>3. QED
    BY <1>1, <1>2, PTL DEF CmdSpec

\* A pass that asks after a reply was registered never takes it up as a command,
\* whatever passes overlap, crash or find Redis down (gmail_poll._guard,
\* remember_ours).  A pass that is past the question when the reply is registered may.
THEOREM OursStayOut == CmdSpec => RegisteredStaysOut
  <1>1. CmdInv /\ [CmdNext]_allVars =>
          [~({"redis", "history_expiry"} \subseteq faults) =>
              \A r \in ours, p \in Poller : PastLookup(p, r)' => PastLookup(p, r)]_allVars
    BY StaysOut DEF CmdInv
  <1>2. QED
    BY <1>1, CmdInvariant, PTL DEF CmdSpec, RegisteredStaysOut

\* A command runs at most once although the handlers' replies arrive among the
\* commands (core/idempotency.claim_event_sync).
THEOREM CommandsOnceWithReplies == CmdSpec => []CommandsAtMostOnce
  <1>1. CmdInv => CommandsAtMostOnce
    BY DEF CmdInv, ClaimInv, HandedClaimed, Strict, CommandsAtMostOnce
  <1>2. QED
    BY <1>1, CmdInvariant, PTL

-----------------------------------------------------------------------------
(* The reply cap *)

\* Handlers that were counted within the cap and have not sent yet.
Permits == {m \in Msg : stage[m] \in {"counted", "cleared"}}

\* The permits that the windows so far have given out.
Granted == MaxReplies * windows + (IF count < MaxReplies THEN count ELSE MaxReplies)

CapInv ==
    /\ IsFiniteSet(Sent) /\ IsFiniteSet(Permits)
    /\ Cardinality(Sent) + Cardinality(Permits) <= Granted

\* A task's step takes or gives up its own permit.
LEMMA PermitsAre ==
    ASSUME CmdTypeOK, NEW m \in Msg, NEW s \in Stage, Goto(m, s)
    PROVE  Permits' = IF s \in {"counted", "cleared"} THEN Permits \cup {m} ELSE Permits \ {m}
  <1>1. stage'[m] = s /\ \A n \in Msg \ {m} : stage'[n] = stage[n]
    BY GoesTo
  <1>2. CASE s \in {"counted", "cleared"}
    BY <1>1, <1>2 DEF Permits
  <1>3. CASE s \notin {"counted", "cleared"}
    BY <1>1, <1>3 DEF Permits
  <1>4. QED
    BY <1>2, <1>3

\* A message that arrives is in the mailbox, with all that were.
LEMMA Appended ==
    ASSUME TypeOK, NEW m \in Msg, history' = Append(history, m)
    PROVE  Arrived' = Arrived \cup {m}
  <1>1. history \in Seq(Msg) /\ Len(history) \in Nat
    BY DEF TypeOK
  <1>2. /\ Len(history') = Len(history) + 1 /\ history'[Len(history) + 1] = m
        /\ \A i \in 1..Len(history) : history'[i] = history[i]
    BY <1>1
  <1>3. 1..Len(history') = 1..Len(history) \cup {Len(history) + 1}
    BY <1>1, <1>2
  <1>4. QED
    BY <1>2, <1>3 DEF Arrived

\* Only a handler sends replies.
LEMMA PollerSendsNone ==
    ASSUME CmdTypeOK, PollerStep
    PROVE  Sent' = Sent
  <1>1. ASSUME NEW m \in Msg \ Reply, Arrive(m) PROVE Sent' = Sent
    <2>1. Arrived' = Arrived \cup {m}
      BY <1>1, Appended DEF CmdTypeOK, Arrive
    <2>2. QED
      BY <2>1 DEF Sent
  <1>2. CASE history' = history
    BY <1>2 DEF Sent, Arrived
  <1>3. (\E m \in Msg \ Reply : Arrive(m)) \/ history' = history
    BY DEF PollerStep, DeliverWithLabels, ExpireHistory, FlipGate, ExpireLock, Begin, PassFault, Snapshot,
           WalkHistory, CursorAgedOut, ReadProfile, Reseed, Relist, SkipUninteresting, SkipGuarded, LookUp,
           Claim, Deliver, Advance, Release, Abandon, ClaimUnavailable, Unreadable, Crash, arrivalVars
  <1>4. QED
    BY <1>1, <1>2, <1>3

LEMMA GrantedIs ==
    ASSUME CmdTypeOK
    PROVE  Granted \in Nat
  <1>1. windows \in Nat /\ count \in Nat
    BY DEF CmdTypeOK
  <1>2. \A a, b \in Nat : a * b \in Nat
    OBVIOUS
  <1>3. MaxReplies * windows \in Nat
    BY <1>1, <1>2
  <1>4. QED
    BY <1>1, <1>3 DEF Granted

\* Permits that are given up leave room.
LEMMA FewerPermits ==
    ASSUME CmdTypeOK, CapInv, NEW m \in Msg, Permits' \in {Permits, Permits \ {m}},
           Sent' = Sent, Granted' = Granted
    PROVE  CapInv'
  <1>1. /\ IsFiniteSet(Permits') /\ Cardinality(Permits') <= Cardinality(Permits)
        /\ Cardinality(Permits') \in Nat /\ Cardinality(Permits) \in Nat
    BY FS_Subset, FS_CardinalityType DEF CapInv
  <1>2. Cardinality(Sent) \in Nat
    BY FS_CardinalityType DEF CapInv
  <1>3. Cardinality(Sent) + Cardinality(Permits) <= Granted
    BY DEF CapInv
  <1>4. Cardinality(Sent') + Cardinality(Permits') <= Granted'
    <2>1. \A x, y, z, g \in Nat : z + x <= g /\ y <= x => z + y <= g
      OBVIOUS
    <2>2. QED
      BY <1>1, <1>2, <1>3, <2>1, GrantedIs
  <1>5. QED
    BY <1>1, <1>4 DEF CapInv

\* A window that ends has given out all its permits, and the next none yet.
LEMMA WindowGrants ==
    ASSUME CmdTypeOK, WindowEnds
    PROVE  Granted <= Granted' /\ Granted' \in Nat
  <1>1. windows \in Nat /\ count \in Nat /\ windows' = windows + 1 /\ count' = 0
    BY DEF CmdTypeOK, WindowEnds
  <1>2. MaxReplies * (windows + 1) = MaxReplies * windows + MaxReplies
    BY <1>1
  <1>3. MaxReplies * windows \in Nat
    BY <1>1
  <1>4. Granted' = MaxReplies * windows + MaxReplies
    BY <1>1, <1>2 DEF Granted
  <1>5. QED
    BY <1>1, <1>3, <1>4 DEF Granted

LEMMA CountCapped ==
    ASSUME CmdTypeOK, CapInv, NEW m \in Msg, CountReply(m)
    PROVE  CapInv'
  <1>1. PICK s \in {"counted", "cleared", "filing"} :
          /\ Goto(m, s)
          /\ s # "filing" => count < MaxReplies
    BY CountGoes
  <1>2. Sent' = Sent /\ windows' = windows /\ count' = count + 1 /\ count \in Nat /\ windows \in Nat
    BY DEF CountReply, vars, Sent, Arrived, CmdTypeOK
  <1>3. m \notin Permits
    BY DEF Permits, CountReply
  <1>4. Granted' = (IF count < MaxReplies THEN Granted + 1 ELSE Granted)
    <2>1. MaxReplies * windows \in Nat
      BY <1>2
    <2>2. QED
      BY <1>2, <2>1 DEF Granted
  <1>5. CASE s # "filing"
    <2>1. Permits' = Permits \cup {m}
      BY <1>1, <1>5, PermitsAre DEF Stage
    <2>2. IsFiniteSet(Permits') /\ Cardinality(Permits') = Cardinality(Permits) + 1
      BY <1>3, <2>1, FS_AddElement DEF CapInv
    <2>3. Cardinality(Permits) \in Nat /\ Cardinality(Sent) \in Nat
      BY FS_CardinalityType DEF CapInv
    <2>4. \A x, y, g \in Nat : x + y <= g => x + (y + 1) <= g + 1
      OBVIOUS
    <2>5. Granted' = Granted + 1
      BY <1>1, <1>4, <1>5
    <2>6. Cardinality(Sent) + Cardinality(Permits) <= Granted
      BY DEF CapInv
    <2>7. Cardinality(Sent) + (Cardinality(Permits) + 1) <= Granted + 1
      BY <2>3, <2>4, <2>6, GrantedIs
    <2>8. QED
      BY <1>2, <2>2, <2>5, <2>7 DEF CapInv
  <1>6. CASE s = "filing"
    <2>1. Permits' = Permits
      <3>1. Goto(m, "filing") /\ "filing" \in Stage
        BY <1>1, <1>6 DEF Stage
      <3>2. Permits' = Permits \ {m}
        BY <3>1, PermitsAre
      <3>3. QED
        BY <1>3, <3>2
    <2>2. Granted <= Granted'
      BY <1>4, GrantedIs
    <2>3. Cardinality(Permits) \in Nat /\ Cardinality(Sent) \in Nat /\ Granted' \in Nat
      BY <1>4, FS_CardinalityType, GrantedIs DEF CapInv
    <2>4. Cardinality(Sent) + Cardinality(Permits) <= Granted
      BY DEF CapInv
    <2>5. Cardinality(Sent) + Cardinality(Permits) <= Granted'
      BY <2>2, <2>3, <2>4, GrantedIs
    <2>6. QED
      BY <1>2, <2>1, <2>5 DEF CapInv
  <1>7. QED
    BY <1>5, <1>6

\* The permit goes with the reply that is sent.
LEMMA SendCapped ==
    ASSUME CmdTypeOK, CapInv, NEW m \in Msg, SendReply(m)
    PROVE  CapInv'
  <1>1. PICK r \in Reply : Posted(r)
    BY DEF SendReply
  <1>2. /\ Goto(m, "sent") \/ Goto(m, "filing")
        /\ windows' = windows /\ count' = count /\ stage[m] = "cleared"
    BY DEF SendReply
  <1>3. Arrived' = Arrived \cup {r} /\ r \notin Arrived
    BY <1>1, Appended DEF CmdTypeOK, Posted
  <1>4. Sent' = Sent \cup {r} /\ r \notin Sent
    BY <1>3 DEF Sent
  <1>5. Permits' = Permits \ {m} /\ m \in Permits
    BY <1>2, PermitsAre DEF Stage, Permits
  <1>6. Granted' = Granted
    BY <1>2 DEF Granted
  <1>7. IsFiniteSet(Sent') /\ Cardinality(Sent') = Cardinality(Sent) + 1
    BY <1>4, FS_AddElement DEF CapInv
  <1>8. IsFiniteSet(Permits') /\ Cardinality(Permits') = Cardinality(Permits) - 1
    BY <1>5, FS_RemoveElement DEF CapInv
  <1>9. Cardinality(Permits) \in Nat /\ Cardinality(Sent) \in Nat
    BY FS_CardinalityType DEF CapInv
  <1>10. Cardinality(Sent) + Cardinality(Permits) <= Granted
    BY DEF CapInv
  <1>11. \A x, y, g \in Nat : x + y <= g => (x + 1) + (y - 1) <= g
    OBVIOUS
  <1>12. (Cardinality(Sent) + 1) + (Cardinality(Permits) - 1) <= Granted
    BY <1>9, <1>10, <1>11, GrantedIs
  <1>13. QED
    BY <1>6, <1>7, <1>8, <1>12 DEF CapInv

LEMMA NextCap == CmdTyped /\ CapInv /\ [CmdNext]_allVars => CapInv'
  <1> SUFFICES ASSUME CmdTyped, CapInv, [CmdNext]_allVars PROVE CapInv'
    OBVIOUS
  <1>0. CmdTypeOK
    BY DEF CmdTyped
  <1>1. CASE UNCHANGED <<stage, count, windows>> /\ Sent' = Sent
    BY <1>1 DEF CapInv, Permits, Granted
  <1>2. CASE PollerStep
    BY <1>0, <1>1, <1>2, PollerSendsNone DEF PollerStep, DeliverWithLabels, cmdVars
  <1>3. ASSUME NEW m \in Msg, Start(m) \/ Act(m) \/ RegisterReply(m) \/ LabelReply(m) \/ FileCommand(m)
                              \/ NoReply(m) \/ CrashHandler(m)
        PROVE  CapInv'
    <2>1. \E s \in Stage \ {"counted", "cleared"} : Goto(m, s)
      BY <1>3 DEF Start, Act, RegisterReply, LabelReply, FileCommand, NoReply, CrashHandler, Stage
    <2>2. Permits' \in {Permits, Permits \ {m}}
      BY <1>0, <2>1, PermitsAre
    <2>3. history' = history /\ windows' = windows /\ count' = count
      BY <1>3 DEF Start, Act, RegisterReply, LabelReply, FileCommand, NoReply, CrashHandler, vars,
                  arrivalVars
    <2>4. Sent' = Sent /\ Granted' = Granted
      BY <2>3 DEF Sent, Arrived, Granted
    <2>5. QED
      BY <1>0, <2>2, <2>4, FewerPermits
  <1>4. ASSUME NEW m \in Msg, SetWindow(m) PROVE CapInv'
    <2>1. Permits' = Permits \cup {m} /\ m \in Permits
      BY <1>0, <1>4, PermitsAre DEF SetWindow, Stage, Permits
    <2>2. Permits' = Permits
      BY <2>1
    <2>3. Sent' = Sent /\ Granted' = Granted
      BY <1>4 DEF SetWindow, vars, Sent, Arrived, Granted
    <2>4. QED
      BY <2>2, <2>3 DEF CapInv
  <1>5. CASE WindowEnds
    <2>1. Sent' = Sent /\ Permits' = Permits
      BY <1>5 DEF WindowEnds, vars, Sent, Arrived, Permits
    <2>2. Granted <= Granted' /\ Granted' \in Nat
      BY <1>0, <1>5, WindowGrants
    <2>3. Cardinality(Permits) \in Nat /\ Cardinality(Sent) \in Nat
      BY FS_CardinalityType DEF CapInv
    <2>4. Cardinality(Sent) + Cardinality(Permits) <= Granted'
      BY <1>0, <2>2, <2>3, GrantedIs DEF CapInv
    <2>5. QED
      BY <2>1, <2>4 DEF CapInv
  <1>6. CASE UNCHANGED allVars
    BY <1>1, <1>6 DEF allVars, cmdVars, vars, Sent, Arrived
  <1>7. QED
    BY <1>0, <1>2, <1>3, <1>4, <1>5, <1>6, CountCapped, SendCapped DEF CmdNext, HandlerStep

LEMMA InitCap == CmdInit => CapInv
  <1> SUFFICES ASSUME CmdInit PROVE CapInv
    OBVIOUS
  <1>1. Sent = {}
    BY DEF CmdInit, Init, Untouched, Sent, Arrived
  <1>2. Permits = {}
    BY DEF CmdInit, Permits
  <1>3. count = 0 /\ windows = 0
    BY DEF CmdInit
  <1>4. Granted = 0
    BY <1>3 DEF Granted
  <1>5. QED
    BY <1>1, <1>2, <1>4, FS_EmptySet DEF CapInv

\* The permits of the windows so far are what those windows may give out.
LEMMA CapBounds == CmdTyped /\ CapInv => RepliesCapped
  <1> SUFFICES ASSUME CmdTyped, CapInv PROVE RepliesCapped
    OBVIOUS
  <1>1. windows \in Nat /\ count \in Nat
    BY DEF CmdTyped, CmdTypeOK
  <1>2. MaxReplies * (windows + 1) = MaxReplies * windows + MaxReplies
    BY <1>1
  <1>3. MaxReplies * windows \in Nat
    BY <1>1
  <1>4. Granted <= MaxReplies * (windows + 1)
    BY <1>1, <1>2, <1>3 DEF Granted
  <1>5. MaxReplies * (windows + 1) \in Nat /\ Granted \in Nat
    BY <1>2, <1>3, GrantedIs DEF CmdTyped
  <1>6. Cardinality(Sent) \in Nat /\ Cardinality(Permits) \in Nat
    BY FS_CardinalityType DEF CapInv
  <1>7. \A x, y, g, h \in Nat : x + y <= g /\ g <= h => x <= h
    OBVIOUS
  <1>8. Cardinality(Sent) + Cardinality(Permits) <= Granted
    BY DEF CapInv
  <1>9. Cardinality(Sent) <= MaxReplies * (windows + 1)
    BY <1>4, <1>5, <1>6, <1>7, <1>8
  <1>10. QED
    BY <1>9 DEF RepliesCapped

\* A handler that another one's step leaves alone is still about to set the TTL.
LEMMA StillCounted ==
    ASSUME CmdTypeOK, NEW m \in Msg, NEW s \in Stage, Goto(m, s), stage[m] # "counted",
           CapLifts, UNCHANGED <<mishaps, count, expiring>>
    PROVE  CapLifts'
  <1>1. \A n \in Msg : stage[n] = "counted" => stage'[n] = "counted"
    BY GoesTo
  <1>2. QED
    BY <1>1 DEF CapLifts

LEMMA NextLifts == CmdTyped /\ CapLifts /\ [CmdNext]_allVars => CapLifts'
  <1> SUFFICES ASSUME CmdTyped, CapLifts, [CmdNext]_allVars PROVE CapLifts'
    OBVIOUS
  <1>0. CmdTypeOK /\ count \in Nat
    BY DEF CmdTyped, CmdTypeOK
  <1>1. CASE UNCHANGED <<mishaps, stage, count, expiring>>
    BY <1>1 DEF CapLifts
  <1>2. CASE PollerStep \/ UNCHANGED allVars
    BY <1>1, <1>2 DEF PollerStep, DeliverWithLabels, allVars, cmdVars
  <1>3. ASSUME NEW m \in Msg, Start(m) \/ Act(m) \/ SendReply(m) \/ RegisterReply(m) \/ LabelReply(m)
                              \/ FileCommand(m) \/ NoReply(m)
        PROVE  CapLifts'
    <2>1. \E s \in Stage : Goto(m, s)
      BY <1>3 DEF Start, Act, SendReply, RegisterReply, LabelReply, FileCommand, NoReply, Stage
    <2>2. stage[m] # "counted" /\ UNCHANGED <<mishaps, count, expiring>>
      BY <1>3 DEF Start, Act, SendReply, RegisterReply, LabelReply, FileCommand, NoReply
    <2>3. QED
      BY <1>0, <2>1, <2>2, StillCounted
  <1>4. ASSUME NEW m \in Msg, CountReply(m) PROVE CapLifts'
    <2>1. /\ UNCHANGED <<mishaps, expiring>>
          /\ stage[m] = "acted"
      BY <1>4 DEF CountReply
    <2>2. CASE count = 0
      <3>1. Goto(m, "counted")
        BY <1>4, <2>2 DEF CountReply
      <3>2. stage'[m] = "counted"
        BY <1>0, <3>1, GoesTo DEF Stage
      <3>3. QED
        BY <3>2 DEF CapLifts
    <2>3. CASE count > 0
      <3>1. PICK s \in Stage : Goto(m, s)
        BY <1>0, <1>4, CountGoes DEF Stage
      <3>2. \A n \in Msg : stage[n] = "counted" => stage'[n] = "counted"
        BY <1>0, <2>1, <3>1, GoesTo
      <3>3. QED
        BY <2>1, <2>3, <3>2 DEF CapLifts
    <2>4. QED
      BY <1>0, <2>2, <2>3
  <1>5. ASSUME NEW m \in Msg, SetWindow(m) PROVE CapLifts'
    <2>1. count' = count /\ expiring' = (count > 0)
      BY <1>5 DEF SetWindow
    <2>2. count' > 0 => expiring'
      BY <2>1
    <2>3. QED
      BY <2>2 DEF CapLifts
  <1>6. ASSUME NEW m \in Msg, CrashHandler(m) PROVE CapLifts'
    BY <1>6 DEF CrashHandler, CapLifts
  <1>7. CASE WindowEnds
    <2>1. ~(count' > 0)
      BY <1>7 DEF WindowEnds
    <2>2. QED
      BY <2>1 DEF CapLifts
  <1>8. QED
    BY <1>2, <1>3, <1>4, <1>5, <1>6, <1>7 DEF CmdNext, HandlerStep

\* A thread gets at most MaxReplies replies in a window, however its handlers
\* interleave, crash or time out, and a counter that stands expires
\* (core/idempotency.allow_reply).
THEOREM CapAlwaysHolds == CmdSpec => []CapHolds
  <1> DEFINE Inv == CmdTyped /\ CapInv /\ CapLifts
  <1>1. CmdInit => Inv
    <2>1. CmdInit => CapLifts
      BY DEF CmdInit, CapLifts
    <2>2. QED
      BY <2>1, InitCmdTyped, InitCap
  <1>2. Inv /\ [CmdNext]_allVars => Inv'
    BY NextCmdTyped, NextCap, NextLifts
  <1>3. Inv => CapHolds
    BY CapBounds DEF CapHolds
  <1>4. QED
    BY <1>1, <1>2, <1>3, PTL DEF CmdSpec

-----------------------------------------------------------------------------
(***************************************************************************)
(* The first sync and the push watch (Onboarding).                         *)
(*                                                                         *)
(* What the wizard, the subscription, the first syncs and the watch do to  *)
(* the mailbox is to open its gate and to seed its cursor, neither of      *)
(* which a claim depends on, so ClaimInv carries over again.  The watch is *)
(* counted in days: one that is polled has Margin days left, or has lost   *)
(* of them what the renewals have failed.                                  *)
(***************************************************************************)

\* A profile was read at a position the history has reached.
OnboardTyped ==
    /\ OnboardingTypeOK /\ Typed
    /\ \A s \in Syncer : seen[s].at <= Len(history)

\* Who moves: the mailbox and its passes, or the account.
LEMMA OnboardingMoves ==
    ASSUME [OnboardingNext]_boxVars
    PROVE  \/ [Next]_vars /\ UNCHANGED <<onboardingVars, gateOpen>>
           \/ Complete \/ Activate \/ Lapse \/ Renew \/ NextDay
           \/ \E half \in Half : Commit(half) \/ RollBack(half)
           \/ \E s \in Syncer : SyncStep(s) \/ SeedFails(s) \/ SyncDies(s)
  <1>1. CASE \E m \in Msg : Arrive(m) /\ UNCHANGED onboardingVars
    BY <1>1 DEF Next, Arrive
  <1>2. CASE Push \/ Beat
    <2>1. BeginPass /\ UNCHANGED onboardingVars
      BY <1>2 DEF Push, Beat
    <2>2. \E p \in Poller : Begin(p)
      BY <2>1 DEF BeginPass
    <2> QED
      BY <2>1, <2>2 DEF Next, Begin, arrivalVars
  <1>3. CASE \E p \in Poller : (PassStep(p) \/ PassFault(p)) /\ UNCHANGED onboardingVars
    <2>1. PICK p \in Poller : (PassStep(p) \/ PassFault(p)) /\ UNCHANGED onboardingVars
      BY <1>3
    <2>2. CASE PassStep(p)
      BY <2>1, <2>2 DEF Next, PassStep, Snapshot, WalkHistory, CursorAgedOut, ReadProfile, Reseed, Relist,
         SkipUninteresting, SkipGuarded, LookUp, Claim, Deliver, Advance, Release, arrivalVars
    <2>3. CASE PassFault(p)
      BY <2>1, <2>3 DEF Next, PassFault, Abandon, ClaimUnavailable, Unreadable, Crash, arrivalVars
    <2> QED
      BY <2>1, <2>2, <2>3
  <1>4. CASE ExpireLock /\ UNCHANGED onboardingVars
    BY <1>4 DEF Next, ExpireLock, arrivalVars
  <1>5. CASE UNCHANGED boxVars
    BY <1>5 DEF boxVars, vars
  <1> QED
    BY <1>1, <1>2, <1>3, <1>4, <1>5 DEF OnboardingNext

\* The account's own steps leave the passes alone, and move the cursor only to
\* a position a profile was read at.
LEMMA AccountMoves ==
    ASSUME OnboardTyped,
           \/ Complete \/ Activate \/ Lapse \/ Renew \/ NextDay
           \/ \E half \in Half : Commit(half) \/ RollBack(half)
           \/ \E s \in Syncer : SyncStep(s) \/ SeedFails(s) \/ SyncDies(s)
    PROVE  UNCHANGED passesAlone /\ gateOpen' \in BOOLEAN /\ cursor' \in Nat
  <1>0. /\ gateOpen \in BOOLEAN /\ cursor \in Nat /\ onboarded \in BOOLEAN /\ entitled \in BOOLEAN
        /\ \A s \in Syncer : seen[s].at \in Nat
    BY DEF OnboardTyped, Typed, TypeOK, OnboardingTypeOK
  <1>1. CASE Complete \/ Activate \/ Lapse
    BY <1>0, <1>1 DEF Complete, Activate, Lapse, MayProcess, besidesRequests, committed
  <1>4. CASE \E half \in Half : Commit(half) \/ RollBack(half)
    BY <1>0, <1>4 DEF Commit, RollBack, MayProcess, committed
  <1>2. CASE Renew \/ NextDay
    BY <1>0, <1>2 DEF Renew, NextDay, vars, passesAlone, redisVars, passVars
  <1>3. ASSUME NEW s \in Syncer, SyncStep(s) \/ SeedFails(s) \/ SyncDies(s)
        PROVE  UNCHANGED passesAlone /\ gateOpen' \in BOOLEAN /\ cursor' \in Nat
    <2>1. CASE Seed(s)
      BY <1>0, <2>1 DEF Seed, gateAndPasses, userVars, committed
    <2>2. CASE ~Seed(s)
      BY <1>0, <1>3, <2>2 DEF SyncStep, StartSync, Fetch, Backfill, Profile, InstallWatch, Stamp,
         SeedFails, SyncDies, gateAndPasses, userVars, committed
    <2> QED
      BY <2>1, <2>2
  <1> QED
    BY <1>1, <1>2, <1>3, <1>4

\* A first sync starts, moves on or ends, alone.
LEMMA EntersIs ==
    ASSUME OnboardingTypeOK, NEW s \in Syncer, NEW next \in Phase, Enters(s, next)
    PROVE  /\ phase' \in [Syncer -> Phase] /\ phase'[s] = next
           /\ \A t \in Syncer \ {s} : phase'[t] = phase[t]
  BY DEF OnboardingTypeOK, Enters

LEMMA StartIs ==
    ASSUME OnboardingTypeOK, NEW open \in BOOLEAN, MaybeStart(open)
    PROVE  \/ UNCHANGED phase
           \/ open /\ \E s \in Syncer :
                 phase[s] = "idle" /\ Enters(s, "queued")
                 /\ ("again" \in setbacks \/ Idlers = Syncer)
  <1>1. CASE ~(open /\ ~synced)
    BY <1>1 DEF MaybeStart
  <1>2. CASE open /\ ~synced
    <2>1. Idlers # {} /\ ("again" \in setbacks \/ Idlers = Syncer)
          /\ phase' = [phase EXCEPT ![CHOOSE s \in Idlers : TRUE] = "queued"]
      BY <1>2 DEF MaybeStart
    <2>2. PICK s \in Idlers : s = CHOOSE t \in Idlers : TRUE
      BY <2>1
    <2> QED
      BY <1>2, <2>1, <2>2 DEF Enters, Idlers
  <1> QED
    BY <1>1, <1>2

LEMMA InitOnboard == OnboardingInit => OnboardTyped /\ ClaimInv
  <1> SUFFICES ASSUME OnboardingInit PROVE OnboardTyped /\ ClaimInv
    OBVIOUS
  <1>1. Typed /\ ClaimInv
    BY UntouchedTyped, UntouchedClaims DEF OnboardingInit
  <1>2. setbacks \subseteq Setback
    BY SettingAssumption DEF OnboardingInit
  <1>3. phase \in [Syncer -> Phase] /\ seen \in [Syncer -> [mail: SUBSET Msg, at: Nat]]
    BY DEF OnboardingInit, Phase, Unseen
  <1>4. watch \in 0..WatchLife /\ failing \in 0..WatchLife
    BY WatchAssumption DEF OnboardingInit
  <1> QED
    <2>1. \A s \in Syncer : seen[s].at <= Len(history)
      BY DEF OnboardingInit, Unseen, Untouched
    <2> QED
      BY <1>1, <1>2, <1>3, <1>4, <2>1 DEF OnboardTyped, OnboardingTypeOK, OnboardingInit

LEMMA NextOnboard == OnboardTyped /\ ClaimInv /\ [OnboardingNext]_boxVars => Typed' /\ ClaimInv'
  <1> SUFFICES ASSUME OnboardTyped, ClaimInv, [OnboardingNext]_boxVars PROVE Typed' /\ ClaimInv'
    OBVIOUS
  <1>1. CASE [Next]_vars
    BY <1>1, NextTyped, NextClaimInv DEF OnboardTyped
  <1>2. CASE UNCHANGED passesAlone /\ gateOpen' \in BOOLEAN /\ cursor' \in Nat
    <2>1. UNCHANGED <<faults, history, floor, lock, claims, ours, handed, pc, job, todo>>
      BY <1>2 DEF passesAlone, redisVars, passVars
    <2>2. Typed'
      BY <1>2, <2>1 DEF OnboardTyped, Typed, TypeOK, InHand
    <2>3. NoCatchup'
      BY <2>1 DEF ClaimInv, NoCatchup
    <2> QED
      BY <2>1, <2>2, <2>3, QuietStep
  <1> QED
    BY <1>1, <1>2, OnboardingMoves, AccountMoves

\* What a first sync's step does to the types.
LEMMA SyncTyped ==
    ASSUME OnboardTyped, NEW s \in Syncer, SyncStep(s) \/ SeedFails(s) \/ SyncDies(s)
    PROVE  OnboardingTypeOK' /\ \A t \in Syncer : seen'[t].at <= Len(history')
  <1>0. /\ OnboardingTypeOK /\ Arrived \subseteq Msg /\ Len(history) \in Nat /\ history \in Seq(Msg)
        /\ \A t \in Syncer : seen[t] \in [mail: SUBSET Msg, at: Nat] /\ seen[t].at <= Len(history)
    BY DEF OnboardTyped, OnboardingTypeOK, Typed, TypeOK, Arrived
  <1>1. \E next \in Phase : Enters(s, next)
    BY DEF SyncStep, StartSync, Fetch, Backfill, Profile, Seed, InstallWatch, Stamp, SeedFails, SyncDies, Phase
  <1>2. phase' \in [Syncer -> Phase]
    BY <1>0, <1>1, EntersIs
  <1>3. UNCHANGED <<setbacks, onboarded, entitled, underway, history>>
    BY DEF SyncStep, StartSync, Fetch, Backfill, Profile, Seed, InstallWatch, Stamp, SeedFails, SyncDies,
           gateAndPasses, userVars, committed, passesAlone
  <1>4. /\ seen' \in [Syncer -> [mail: SUBSET Msg, at: Nat]]
        /\ \A t \in Syncer : seen'[t].at <= Len(history)
    <2>1. \E r \in [mail: SUBSET Msg, at: Nat] :
             r.at <= Len(history) /\ (seen' = seen \/ seen' = [seen EXCEPT ![s] = r])
      <3>1. CASE Fetch(s)
        <4>1. DEFINE r == [seen[s] EXCEPT !.mail = {m \in Arrived : Received(m)}]
        <4>2. r \in [mail: SUBSET Msg, at: Nat] /\ r.at = seen[s].at
          BY <1>0
        <4>3. seen' = [seen EXCEPT ![s] = r]
          BY <3>1 DEF Fetch
        <4> QED
          BY <1>0, <4>2, <4>3
      <3>2. CASE Profile(s)
        <4>1. DEFINE r == [seen[s] EXCEPT !.at = Len(history)]
        <4>2. r \in [mail: SUBSET Msg, at: Nat] /\ r.at = Len(history)
          BY <1>0
        <4>3. seen' = [seen EXCEPT ![s] = r]
          BY <3>2 DEF Profile
        <4>4. r.at <= Len(history)
          BY <1>0, <4>2
        <4> HIDE DEF r
        <4> QED
          BY <4>2, <4>3, <4>4
      <3>3. CASE Stamp(s) \/ SyncDies(s)
        <4>1. Unseen \in [mail: SUBSET Msg, at: Nat] /\ Unseen.at <= Len(history)
          BY <1>0 DEF Unseen
        <4> QED
          BY <3>3, <4>1 DEF Stamp, SyncDies
      <3>4. CASE seen' = seen
        BY <1>0, <3>4
      <3> QED
        BY <3>1, <3>2, <3>3, <3>4
           DEF SyncStep, StartSync, Backfill, Seed, InstallWatch, SeedFails
    <2> QED
      BY <1>0, <2>1 DEF OnboardingTypeOK
  <1>5. seeded' \in BOOLEAN /\ before' \subseteq Msg
    <2>1. CASE Seed(s)
      <3>1. {history[i] : i \in 1..seen[s].at} \subseteq Msg
        BY <1>0
      <3> QED
        BY <1>0, <2>1, <3>1 DEF Seed, OnboardingTypeOK
    <2>2. CASE ~Seed(s)
      BY <1>0, <2>2 DEF OnboardingTypeOK, SyncStep, StartSync, Fetch, Backfill, Profile, InstallWatch, Stamp,
         SeedFails, SyncDies, mailboxVars
    <2> QED
      BY <2>1, <2>2
  <1>6. synced' \in BOOLEAN /\ queued' \subseteq Msg
    BY <1>0 DEF OnboardingTypeOK, SyncStep, StartSync, Fetch, Backfill, Profile, Seed, InstallWatch, Stamp,
       SeedFails, SyncDies
  <1>7. watch' \in 0..WatchLife /\ failing' \in 0..WatchLife
    BY <1>0, WatchAssumption
       DEF OnboardingTypeOK, SyncStep, StartSync, Fetch, Backfill, Profile, Seed, InstallWatch, Stamp,
           SeedFails, SyncDies, Watched, SetExpiry
  <1> QED
    BY <1>0, <1>2, <1>3, <1>4, <1>5, <1>6, <1>7 DEF OnboardingTypeOK

LEMMA NextOnboardTyped == OnboardTyped /\ [OnboardingNext]_boxVars => OnboardTyped'
  <1> SUFFICES ASSUME OnboardTyped, [OnboardingNext]_boxVars PROVE OnboardTyped'
    OBVIOUS
  <1>0. OnboardingTypeOK /\ Typed /\ history \in Seq(Msg) /\ \A s \in Syncer : seen[s].at \in Nat
    BY DEF OnboardTyped, OnboardingTypeOK, Typed, TypeOK
  <1>1. CASE [Next]_vars /\ UNCHANGED onboardingVars
    <2>1. Typed' /\ OnboardingTypeOK'
      BY <1>0, <1>1, NextTyped DEF onboardingVars, mailboxVars, syncVars, OnboardingTypeOK
    <2>2. history' = history \/ \E m \in Msg : history' = Append(history, m)
      BY <1>1 DEF Next, vars, arrivalVars, Arrive, ExpireHistory, FlipGate, ExpireLock, Begin, PassStep,
         PassFault, Snapshot, WalkHistory, CursorAgedOut, ReadProfile, Reseed, Relist,
         SkipUninteresting, SkipGuarded, LookUp, Claim, Deliver, Advance, Release, Abandon,
         ClaimUnavailable, Unreadable, Crash
    <2>3. Len(history) <= Len(history') /\ Len(history) \in Nat /\ Len(history') \in Nat
      BY <1>0, <2>2
    <2> QED
      BY <1>0, <1>1, <2>1, <2>3 DEF OnboardTyped, onboardingVars, syncVars
  <1>2. CASE \/ Complete \/ Activate \/ Lapse \/ Renew \/ NextDay
             \/ \E half \in Half : Commit(half) \/ RollBack(half)
             \/ \E s \in Syncer : SyncStep(s) \/ SeedFails(s) \/ SyncDies(s)
    <2>1. UNCHANGED passesAlone /\ gateOpen' \in BOOLEAN /\ cursor' \in Nat
      BY <1>2, AccountMoves
    <2>2. UNCHANGED <<faults, history, floor, lock, claims, ours, handed, pc, job, todo>>
      BY <2>1 DEF passesAlone, redisVars, passVars
    <2>3. Typed'
      BY <1>0, <2>1, <2>2 DEF Typed, TypeOK, InHand
    <2>4. CASE Complete \/ Activate
      <3>1. \E open \in BOOLEAN : MaybeStart(open)
        BY <1>0, <2>4 DEF Complete, Activate, MayProcess, OnboardingTypeOK
      <3>2. "queued" \in Phase
        BY DEF Phase
      <3>3. phase' \in [Syncer -> Phase]
        <4>1. UNCHANGED phase \/ \E s \in Syncer : Enters(s, "queued")
          BY <1>0, <3>1, StartIs
        <4> QED
          BY <1>0, <3>2, <4>1, EntersIs DEF OnboardingTypeOK
      <3>4. underway' \subseteq Half
        BY <1>0, <2>4 DEF Complete, Activate, Requested, Half, OnboardingTypeOK
      <3>5. OnboardingTypeOK'
        BY <1>0, <2>4, <3>3, <3>4 DEF Complete, Activate, besidesRequests, committed, OnboardingTypeOK, mailboxVars
      <3> QED
        BY <2>2, <2>3, <2>4, <3>5 DEF OnboardTyped, Complete, Activate, besidesRequests
    <2>8. CASE \E half \in Half : Commit(half) \/ RollBack(half)
      BY <1>0, <2>2, <2>3, <2>8 DEF OnboardTyped, Commit, RollBack, committed, OnboardingTypeOK, mailboxVars, syncVars
    <2>5. CASE Lapse
      BY <1>0, <2>2, <2>3, <2>5 DEF OnboardTyped, Lapse, OnboardingTypeOK, mailboxVars, syncVars
    <2>6. CASE Renew \/ NextDay
      <3>1. watch' \in 0..WatchLife /\ failing' \in 0..WatchLife
        BY <1>0, <2>6, WatchAssumption DEF OnboardingTypeOK, Renew, NextDay, Watched, SetExpiry
      <3>2. UNCHANGED <<setbacks, onboarded, entitled, underway, mailboxVars, syncVars>>
        BY <2>6 DEF Renew, NextDay
      <3> QED
        BY <1>0, <2>2, <2>3, <3>1, <3>2 DEF OnboardTyped, OnboardingTypeOK, mailboxVars, syncVars
    <2>7. CASE \E s \in Syncer : SyncStep(s) \/ SeedFails(s) \/ SyncDies(s)
      BY <2>3, <2>7, SyncTyped DEF OnboardTyped
    <2> QED
      BY <1>2, <2>4, <2>5, <2>6, <2>7, <2>8
  <1> QED
    BY <1>1, <1>2, OnboardingMoves

\* The state variables of onboarding keep their types, those of the mailbox it
\* feeds included.
THEOREM OnboardingTypeCorrect == OnboardingSpec => [](TypeOK /\ OnboardingTypeOK)
  <1>1. OnboardTyped => TypeOK /\ OnboardingTypeOK
    BY DEF OnboardTyped, Typed
  <1> QED
    BY <1>1, InitOnboard, NextOnboardTyped, PTL DEF OnboardingSpec

\* A command runs at most once also when the gate opens and closes, the cursor
\* is seeded and passes are started by pushes and by the beat at once.
THEOREM CommandsOnceOnboarding == OnboardingSpec => []CommandsAtMostOnce
  <1>1. ClaimInv => CommandsAtMostOnce
    BY DEF ClaimInv, HandedClaimed, Strict, CommandsAtMostOnce
  <1> QED
    BY <1>1, InitOnboard, NextOnboardTyped, NextOnboard, PTL DEF OnboardingSpec

-----------------------------------------------------------------------------
(* The push watch *)

\* What WatchHolds asks of a behaviour.
Undisturbed ==
    /\ setbacks \cap {"lapse", "push"} = {}
    /\ ~({"again", "sync"} \subseteq setbacks)

\* A first sync that is not repeated runs alone, not before the gate opens, and seeds
\* before it installs.
OneSync ==
    /\ \A s, t \in Syncer : phase[s] # "idle" /\ phase[t] # "idle" => s = t
    /\ ~gateOpen => \A s \in Syncer : phase[s] \in {"idle", "queued"}
    /\ watch > 0 /\ ~seeded => \A s \in Syncer : phase[s] \in {"idle", "stamp"}

SeedsFirst ==
    /\ watch > 0 => seeded
    /\ \A s \in Syncer : phase[s] \in {"watch", "stamp"} => seeded

WatchInv ==
    /\ gateOpen <=> onboarded /\ entitled
    /\ Undisturbed =>
          /\ watch > 0 => gateOpen
          /\ failing <= Outage
          /\ watch > 0 /\ seeded => watch + failing >= Margin
          /\ "again" \notin setbacks => OneSync
          /\ "sync" \notin setbacks => SeedsFirst

LEMMA WatchInit == OnboardingInit => WatchInv
  BY WatchAssumption DEF OnboardingInit, WatchInv, OneSync, SeedsFirst

\* While nothing disturbs it, the watch is renewed or loses a day, and it has
\* days left in hand when it does.
LEMMA DayPasses ==
    ASSUME OnboardTyped, WatchInv, Undisturbed, NextDay
    PROVE  /\ watch' = watch - 1 /\ failing' <= Outage
           /\ seeded => watch' > 0 /\ watch' + failing' >= Margin
  <1>0. /\ watch \in 0..WatchLife /\ failing \in 0..WatchLife /\ watch > 0
        /\ watch' = watch - 1 /\ "push" \notin setbacks /\ gateOpen
        /\ Margin \in Nat \ {0} /\ WatchLife \in Nat /\ Outage \in Nat /\ Outage < Margin
        /\ failing <= Outage /\ (seeded => watch + failing >= Margin)
    BY WatchAssumption DEF OnboardTyped, OnboardingTypeOK, NextDay, WatchInv, Undisturbed
  <1>1. CASE seeded /\ watch <= Margin
    <2>1. failing < Outage /\ failing' = failing + 1
      BY <1>0, <1>1 DEF NextDay, NeedsRenewal
    <2> QED
      BY <1>0, <1>1, <2>1
  <1>2. CASE ~(seeded /\ watch <= Margin)
    <2>1. failing' = failing
      BY <1>0, <1>2 DEF NextDay, NeedsRenewal
    <2> QED
      BY <1>0, <1>2, <2>1
  <1> QED
    BY <1>1, <1>2

\* What is done to the watch elsewhere.
LEMMA WatchedIs ==
    ASSUME Undisturbed, Watched
    PROVE  \/ gateOpen /\ watch' = WatchLife /\ failing' = 0
           \/ ~gateOpen /\ UNCHANGED <<watch, failing>>
  BY DEF Undisturbed, Watched, SetExpiry

LEMMA WatchStep == OnboardTyped /\ WatchInv /\ [OnboardingNext]_boxVars => WatchInv'
  <1> SUFFICES ASSUME OnboardTyped, WatchInv, [OnboardingNext]_boxVars PROVE WatchInv'
    OBVIOUS
  <1>0. /\ OnboardingTypeOK /\ gateOpen \in BOOLEAN /\ (gateOpen <=> onboarded /\ entitled)
        /\ watch \in 0..WatchLife /\ failing \in 0..WatchLife
        /\ Margin \in Nat \ {0} /\ WatchLife \in Nat /\ WatchLife > Margin
        /\ Outage \in Nat /\ Outage < Margin
    BY WatchAssumption DEF OnboardTyped, OnboardingTypeOK, Typed, TypeOK, WatchInv
  <1>1. CASE UNCHANGED <<onboardingVars, gateOpen>>
    BY <1>1 DEF onboardingVars, mailboxVars, syncVars, WatchInv, Undisturbed, OneSync, SeedsFirst
  <1>2. CASE Complete \/ Activate
    <2>1. /\ UNCHANGED <<setbacks, onboarded, entitled, gateOpen, watch, failing, seeded>>
          /\ \E open \in BOOLEAN : MaybeStart(open)
      BY <1>0, <1>2 DEF Complete, Activate, MayProcess, besidesRequests, committed, mailboxVars, OnboardingTypeOK
    <2>2. \/ UNCHANGED phase
          \/ \E s \in Syncer : phase[s] = "idle" /\ Enters(s, "queued")
                /\ ("again" \in setbacks \/ Idlers = Syncer)
      BY <1>0, <2>1, StartIs
    <2>3. SUFFICES ASSUME Undisturbed PROVE ("again" \notin setbacks => OneSync') /\ ("sync" \notin setbacks => SeedsFirst')
      BY <2>1 DEF WatchInv, Undisturbed
    <2>4. CASE UNCHANGED phase
      BY <2>1, <2>3, <2>4 DEF WatchInv, OneSync, SeedsFirst
    <2>5. CASE \E s \in Syncer : phase[s] = "idle" /\ Enters(s, "queued")
                  /\ ("again" \in setbacks \/ Idlers = Syncer)
      <3>1. PICK s \in Syncer : phase[s] = "idle" /\ Enters(s, "queued")
                  /\ ("again" \in setbacks \/ Idlers = Syncer)
        BY <2>5
      <3>2. phase'[s] = "queued" /\ \A t \in Syncer \ {s} : phase'[t] = phase[t]
        BY <1>0, <3>1, EntersIs DEF Phase
      <3>3. "sync" \notin setbacks => SeedsFirst'
        BY <2>1, <2>3, <3>2 DEF WatchInv, SeedsFirst
      <3>4. ASSUME "again" \notin setbacks PROVE OneSync'
        <4>1. \A t \in Syncer : phase[t] = "idle"
          BY <3>1, <3>4 DEF Idlers
        <4>2. ~gateOpen
          BY <1>0, <1>2, <3>4 DEF Complete, Activate
        <4>3. ~(watch > 0)
          BY <2>3, <4>2 DEF WatchInv
        <4> QED
          BY <2>1, <3>2, <4>1, <4>3 DEF OneSync
      <3> QED
        BY <3>3, <3>4
    <2> QED
      BY <2>2, <2>4, <2>5
  <1>7. CASE \E half \in Half : Commit(half) \/ RollBack(half)
    <2>1. /\ UNCHANGED <<setbacks, watch, failing, seeded, phase>> /\ gateOpen' \in BOOLEAN
          /\ (gateOpen' <=> onboarded' /\ entitled') /\ (gateOpen => gateOpen')
      BY <1>0, <1>7 DEF Commit, RollBack, MayProcess, committed, mailboxVars, syncVars, OnboardingTypeOK
    <2> QED
      BY <2>1 DEF WatchInv, Undisturbed, OneSync, SeedsFirst
  <1>3. CASE Lapse
    BY <1>0, <1>3 DEF Lapse, MayProcess, WatchInv, Undisturbed
  <1>4. CASE Renew
    <2>1. /\ UNCHANGED <<setbacks, onboarded, entitled, gateOpen, seeded, phase>> /\ seeded /\ Watched
      BY <1>4 DEF Renew, vars, mailboxVars, syncVars, NeedsRenewal
    <2>2. SUFFICES ASSUME Undisturbed PROVE WatchInv'
      BY <1>0, <2>1 DEF WatchInv, Undisturbed
    <2>3. \/ gateOpen /\ watch' = WatchLife /\ failing' = 0
          \/ UNCHANGED <<watch, failing>>
      BY <2>1, <2>2, WatchedIs
    <2> QED
      BY <1>0, <2>1, <2>2, <2>3 DEF WatchInv, Undisturbed, OneSync, SeedsFirst
  <1>5. CASE NextDay
    <2>1. UNCHANGED <<setbacks, onboarded, entitled, gateOpen, seeded, phase>>
      BY <1>5 DEF NextDay, vars, mailboxVars, syncVars
    <2>2. SUFFICES ASSUME Undisturbed PROVE WatchInv'
      BY <1>0, <2>1 DEF WatchInv, Undisturbed
    <2>3. watch' = watch - 1 /\ failing' <= Outage /\ (seeded => watch' + failing' >= Margin)
      BY <1>5, <2>2, DayPasses
    <2>4. watch' > 0 => watch > 0
      BY <1>0, <2>3
    <2> QED
      BY <1>0, <2>1, <2>2, <2>3, <2>4 DEF WatchInv, Undisturbed, OneSync, SeedsFirst
  <1>6. CASE \E s \in Syncer : SyncStep(s) \/ SeedFails(s) \/ SyncDies(s)
    <2>1. PICK s \in Syncer : SyncStep(s) \/ SeedFails(s) \/ SyncDies(s)
      BY <1>6
    <2>2. UNCHANGED <<setbacks, onboarded, entitled, gateOpen>>
      BY <2>1 DEF SyncStep, StartSync, Fetch, Backfill, Profile, Seed, InstallWatch, Stamp, SeedFails,
         SyncDies, gateAndPasses, userVars, committed
    <2>3. SUFFICES ASSUME Undisturbed PROVE WatchInv'
      BY <1>0, <2>2 DEF WatchInv, Undisturbed
    <2>4. /\ watch > 0 => gateOpen
          /\ failing <= Outage
          /\ watch > 0 /\ seeded => watch + failing >= Margin
          /\ "again" \notin setbacks => OneSync
          /\ "sync" \notin setbacks => SeedsFirst
          /\ "again" \notin setbacks \/ "sync" \notin setbacks
      BY <2>3 DEF WatchInv, Undisturbed
    <2>5. SUFFICES /\ watch' > 0 => gateOpen
                   /\ failing' <= Outage
                   /\ watch' > 0 /\ seeded' => watch' + failing' >= Margin
                   /\ "again" \notin setbacks => OneSync'
                   /\ "sync" \notin setbacks => SeedsFirst'
      BY <1>0, <2>2 DEF WatchInv, Undisturbed
    <2>6. CASE StartSync(s) \/ Fetch(s) \/ Backfill(s) \/ Profile(s) \/ Stamp(s) \/ SyncDies(s)
      <3>1. UNCHANGED <<watch, failing, seeded>>
        BY <2>6 DEF StartSync, Fetch, Backfill, Profile, Stamp, SyncDies, mailboxVars
      <3>2. \E next \in Phase \ {"watch", "stamp"} :
               /\ Enters(s, next) /\ phase[s] # "idle"
               /\ (phase[s] = "stamp" => next = "idle")
               /\ (~gateOpen /\ phase[s] = "queued" => next = "idle")
        BY <2>6 DEF StartSync, Fetch, Backfill, Profile, Stamp, SyncDies, Phase
      <3>3. /\ phase'[s] \notin {"watch", "stamp"} /\ phase[s] # "idle"
            /\ (phase[s] = "stamp" => phase'[s] = "idle")
            /\ (~gateOpen /\ phase[s] = "queued" => phase'[s] = "idle")
            /\ \A t \in Syncer \ {s} : phase'[t] = phase[t]
        BY <1>0, <3>2, EntersIs
      <3> QED
        BY <2>2, <2>4, <3>1, <3>2, <3>3 DEF OneSync, SeedsFirst
    <2>7. CASE Seed(s) \/ SeedFails(s)
      <3>1. /\ UNCHANGED <<watch, failing>> /\ phase[s] \in {"profile", "seed"} /\ Enters(s, "watch")
            /\ seeded' = TRUE \/ ("sync" \in setbacks /\ seeded' = seeded)
        BY <2>7 DEF Seed, SeedFails, mailboxVars
      <3>2. phase'[s] = "watch" /\ \A t \in Syncer \ {s} : phase'[t] = phase[t]
        BY <1>0, <3>1, EntersIs DEF Phase
      <3>3. watch > 0 => seeded
        BY <2>4, <3>1 DEF OneSync, SeedsFirst
      <3> QED
        BY <2>2, <2>4, <3>1, <3>2, <3>3 DEF OneSync, SeedsFirst
    <2>8. CASE InstallWatch(s)
      <3>1. /\ UNCHANGED seeded /\ phase[s] = "watch" /\ Enters(s, "stamp") /\ Watched
        BY <2>8 DEF InstallWatch, mailboxVars
      <3>2. phase'[s] = "stamp" /\ \A t \in Syncer \ {s} : phase'[t] = phase[t]
        BY <1>0, <3>1, EntersIs DEF Phase
      <3>3. \/ gateOpen /\ watch' = WatchLife /\ failing' = 0
            \/ UNCHANGED <<watch, failing>>
        BY <2>3, <3>1, WatchedIs
      <3>4. "again" \notin setbacks => \A t \in Syncer \ {s} : phase'[t] = "idle"
        BY <2>4, <3>1, <3>2 DEF OneSync
      <3> QED
        BY <1>0, <2>2, <2>4, <3>1, <3>2, <3>3, <3>4 DEF OneSync, SeedsFirst
    <2> QED
      BY <2>1, <2>6, <2>7, <2>8 DEF SyncStep
  <1> QED
    BY <1>1, <1>2, <1>3, <1>4, <1>5, <1>6, <1>7, OnboardingMoves

\* WatchHolds of OnboardingSpec: however many days Gmail keeps a watch, the margin
\* carries it over any run of failing renewals that is shorter, from its first day
\* on (gmail_poll.WATCH_RENEW_MARGIN).
THEOREM WatchNeverRunsOut == OnboardingSpec => WatchHolds
  <1>1. OnboardTyped /\ WatchInv /\ [OnboardingNext]_boxVars =>
          [ /\ watch > 0 /\ seeded /\ setbacks \cap {"lapse", "push"} = {}
            /\ ~({"again", "sync"} \subseteq setbacks)
            => watch' > 0 ]_boxVars
    <2> SUFFICES ASSUME OnboardTyped, WatchInv, [OnboardingNext]_boxVars, watch > 0, seeded, Undisturbed
                 PROVE  watch' > 0
      BY DEF Undisturbed
    <2>1. WatchLife > 0
      BY WatchAssumption
    <2>2. CASE NextDay
      BY <2>2, DayPasses
    <2>3. CASE Renew
      BY <2>1, <2>3, WatchedIs DEF Renew
    <2>4. CASE \E s \in Syncer : SyncStep(s) \/ SeedFails(s) \/ SyncDies(s)
      BY <2>1, <2>4, WatchedIs
         DEF SyncStep, StartSync, Fetch, Backfill, Profile, Seed, InstallWatch, Stamp, SeedFails, SyncDies
    <2>5. CASE Complete \/ Activate \/ Lapse
      BY <2>5 DEF Complete, Activate, Lapse, besidesRequests
    <2>7. CASE \E half \in Half : Commit(half) \/ RollBack(half)
      BY <2>7 DEF Commit, RollBack
    <2>6. CASE UNCHANGED onboardingVars
      BY <2>6 DEF onboardingVars
    <2> QED
      BY <2>2, <2>3, <2>4, <2>5, <2>6, <2>7, OnboardingMoves
  <1> QED
    BY <1>1, InitOnboard, NextOnboardTyped, WatchInit, WatchStep, PTL DEF OnboardingSpec, WatchHolds

-----------------------------------------------------------------------------
(* Categorization: types *)

LEMMA TaskIs ==
    ASSUME CategoryTypeOK, NEW w \in Worker
    PROVE  /\ task[w] \in TaskType
           /\ task[w].kind \in {"idle", "classify", "sync"}
           /\ task[w].kind = "classify" =>
                 /\ task[w].msg \in Message /\ task[w].cats \subseteq Key
                 /\ task[w].archive \subseteq Key
           /\ task[w].kind = "sync" =>
                 task[w].job \in SyncType /\ task[w].ids \subseteq Message
  <1>1. task[w] \in TaskType
    BY DEF CategoryTypeOK
  <1> QED
    BY <1>1 DEF TaskType, NoTask

LEMMA ReqIs ==
    ASSUME CategoryTypeOK, NEW s \in Session
    PROVE  /\ req[s] \in ReqType
           /\ req[s].kind \in {"idle", "create", "delete", "archive", "rename", "rule", "fallback"}
           /\ req[s].kind = "create" => req[s].key \in Custom /\ req[s].labelled \in BOOLEAN
           /\ req[s].kind = "delete" => req[s].key \in Custom /\ req[s].rules \subseteq Rule
           /\ req[s].kind = "archive" => req[s].key \in Key /\ req[s].leaves \in BOOLEAN
           /\ req[s].kind = "rename" => req[s].key \in Key /\ req[s].name \in Key
           /\ req[s].kind = "rule" => req[s].rule \in Rule /\ req[s].key \in Target
           /\ req[s].kind = "fallback" => req[s].key \in Key \cup {NoKey}
  <1>1. req[s] \in ReqType
    BY DEF CategoryTypeOK
  <1> QED
    BY <1>1 DEF ReqType, NoReq

LEMMA NoneIs == NoTask \in TaskType /\ NoReq \in ReqType /\ NoTask.kind = "idle" /\ NoReq.kind = "idle"
  BY DEF TaskType, ReqType, NoTask, NoReq

\* What a worker leaves alone, and the tasks of the others.
LEMMA WorkerFrame ==
    ASSUME CategoryTypeOK, NEW w \in Worker, WorkerStep(w)
    PROVE  /\ UNCHANGED <<circ, taxonomy, targets, mail, held, req>>
           /\ \A v \in Worker \ {w} : task'[v] = task[v]
           /\ task' = [v \in Worker |-> task'[v]]
           /\ primed' \in {primed, primed \cup {w}}
  <1>0. task = [v \in Worker |-> task[v]]
    BY DEF CategoryTypeOK
  <1>1. CASE \E m \in Message : LoadConfig(w, m)
    BY <1>0, <1>1 DEF LoadConfig
  <1>2. CASE Classify(w) \/ ClassifyFails(w)
    BY <1>0, <1>2 DEF Classify, ClassifyFails, gmail, queues
  <1>3. CASE \E y \in syncs : BeginSync(w, y)
    BY <1>0, <1>3 DEF BeginSync, gmail
  <1>4. CASE ApplySync(w) \/ SyncFails(w)
    BY <1>0, <1>4 DEF ApplySync, SyncFails, gmail, queues
  <1> QED
    BY <1>1, <1>2, <1>3, <1>4 DEF WorkerStep

\* What a request leaves alone, and the requests of the others.
LEMMA SessionFrame ==
    ASSUME CategoryTypeOK, NEW s \in Session, Request(s)
    PROVE  /\ UNCHANGED <<circ, mail, labels, inbox, held, astray, primed, jobs, task>>
           /\ \A t \in Session \ {s} : req'[t] = req[t]
           /\ req' = [t \in Session |-> req'[t]]
  <1>0. req = [t \in Session |-> req[t]]
    BY DEF CategoryTypeOK
  <1>1. CASE \E k \in Custom : BeginCreate(s, k) \/ BeginDelete(s, k)
    BY <1>0, <1>1 DEF BeginCreate, BeginDelete, Asks, gmail, queues
  <1>2. CASE CreateLabel(s)
    BY <1>0, <1>2 DEF CreateLabel, Ends, queues
  <1>3. CASE CommitDelete(s) \/ CommitTarget(s)
    BY <1>0, <1>3 DEF CommitDelete, CommitTarget, Ends, gmail, queues
  <1>4. CASE CommitArchive(s) \/ CommitRename(s) \/ Abort(s)
    BY <1>0, <1>4 DEF CommitArchive, CommitRename, Abort, Ends, gmail, queues
  <1>5. CASE \E leaves \in BOOLEAN : CommitCreate(s, leaves)
    BY <1>0, <1>5 DEF CommitCreate, Ends, gmail, queues
  <1>6. CASE \E k \in Key, leaves \in BOOLEAN : BeginArchive(s, k, leaves)
    BY <1>0, <1>6 DEF BeginArchive, Asks, gmail
  <1>7. CASE \E k, n \in Key : BeginRename(s, k, n)
    BY <1>0, <1>7 DEF BeginRename, Asks, gmail, queues
  <1>8. CASE \/ \E r \in Rule, k \in Target : BeginTarget(s, r, k)
             \/ \E k \in Target : BeginFallback(s, k)
    BY <1>0, <1>8 DEF BeginTarget, BeginFallback, Asks, gmail, queues
  <1> QED
    BY <1>1, <1>2, <1>3, <1>4, <1>5, <1>6, <1>7, <1>8 DEF Request

LEMMA VerdictIs ==
    ASSUME CategoryTypeOK, NEW w \in Worker, task[w].kind = "classify", NEW k \in Verdicts(task[w])
    PROVE  k = NoKey \/ k \in task[w].cats
  BY DEF Verdicts

\* What a worker's step does to the mailbox and to its task.
Read(w) ==
    /\ Idle(w) /\ ("flips" \in circ \/ ~(Flipping \/ PuttingBack))
    /\ known' = known \/ known' = Provisioned
    /\ UNCHANGED <<labels, inbox, astray, syncs>> /\ jobs' \subseteq jobs
    /\ task'[w] \in TaskType /\ task'[w].kind = "classify" /\ task'[w].msg \in jobs
    /\ task'[w].cats = cats /\ task'[w].archive = archive

LeftAlone(w) ==
    /\ task[w].kind = "classify" /\ task'[w] = NoTask
    /\ UNCHANGED <<known, labels, inbox, astray, syncs>>
    /\ jobs' \subseteq jobs \cup {task[w].msg}

Filed(w) ==
    /\ task[w].kind = "classify" /\ task'[w] = NoTask /\ UNCHANGED <<known, syncs, jobs>>
    /\ \E k \in task[w].cats \cap known, missed \in Overlooked(task[w]) :
          /\ labels' = Labelled(task[w], k, missed)
          /\ \/ /\ k \in task[w].archive
                /\ inbox' = inbox \ Mates(task[w].msg) /\ astray' = astray \ Mates(task[w].msg)
             \/ k \notin task[w].archive /\ UNCHANGED <<inbox, astray>>

Listed(w) ==
    /\ Idle(w) /\ UNCHANGED <<known, labels, inbox, jobs>>
    /\ task'[w] \in TaskType /\ task'[w].kind = "sync"
    /\ task'[w].job \in syncs /\ syncs' = syncs \ {task'[w].job}
    /\ task'[w].ids \subseteq WrongSide(task'[w].job)
    /\ astray' = IF task'[w].job.archive
                 THEN astray \cup (WrongSide(task'[w].job) \ task'[w].ids) ELSE astray

Moved(w) ==
    /\ task[w].kind = "sync" /\ task'[w] = NoTask /\ UNCHANGED <<known, labels, syncs, jobs>>
    /\ \/ task[w].job.archive /\ inbox' = inbox \ task[w].ids /\ astray' = astray \ task[w].ids
       \/ ~task[w].job.archive /\ inbox' = inbox \cup task[w].ids /\ UNCHANGED astray

Unmoved(w) ==
    /\ task[w].kind = "sync" /\ task'[w] = NoTask /\ "services" \in circ
    /\ UNCHANGED <<known, labels, inbox, astray, jobs>>
    /\ syncs' \subseteq syncs \cup {task[w].job}

LEMMA WorkerIs ==
    ASSUME CategoryTypeOK, NEW w \in Worker, WorkerStep(w)
    PROVE  Read(w) \/ LeftAlone(w) \/ Filed(w) \/ Listed(w) \/ Moved(w) \/ Unmoved(w)
  <1>0. DOMAIN task = Worker
    BY DEF CategoryTypeOK
  <1>1. CASE \E m \in Message : LoadConfig(w, m)
    <2>1. PICK m \in Message : LoadConfig(w, m)
      BY <1>1
    <2>2. task'[w] = [kind |-> "classify", msg |-> m, cats |-> cats,
                      archive |-> archive, rules |-> rules, fallback |-> fallback]
      BY <1>0, <2>1 DEF LoadConfig
    <2>3. task'[w] \in TaskType
      BY <2>2 DEF CategoryTypeOK, TaskType
    <2> QED
      BY <2>1, <2>2, <2>3 DEF LoadConfig, Read
  <1>2. CASE Classify(w)
    <2>1. task[w].kind = "classify" /\ task'[w] = NoTask /\ UNCHANGED <<known, syncs, jobs>>
      BY <1>0, <1>2 DEF Classify, Loaded, queues
    <2>2. PICK k \in Verdicts(task[w]), missed \in Overlooked(task[w]) :
            IF k = NoKey THEN UNCHANGED <<labels, inbox, astray>>
            ELSE LET leaving == IF k \in task[w].archive THEN Mates(task[w].msg) ELSE {}
                 IN  /\ k \in known
                     /\ labels' = Labelled(task[w], k, missed)
                     /\ inbox' = inbox \ leaving /\ astray' = astray \ leaving
      BY <1>2 DEF Classify
    <2>4. k # NoKey => /\ k \in known /\ labels' = Labelled(task[w], k, missed)
                       /\ k \in task[w].archive =>
                             /\ inbox' = inbox \ Mates(task[w].msg)
                             /\ astray' = astray \ Mates(task[w].msg)
                       /\ k \notin task[w].archive => UNCHANGED <<inbox, astray>>
      BY <2>2
    <2>3. k = NoKey \/ k \in task[w].cats
      BY <2>1, VerdictIs
    <2> QED
      BY <2>1, <2>2, <2>3, <2>4 DEF LeftAlone, Filed
  <1>3. CASE ClassifyFails(w)
    BY <1>0, <1>3 DEF ClassifyFails, Loaded, gmail, queues, LeftAlone
  <1>4. CASE \E y \in syncs : BeginSync(w, y)
    <2>1. PICK y \in syncs : BeginSync(w, y)
      BY <1>4
    <2>2. PICK ids \in SUBSET WrongSide(y) :
            /\ task' = [task EXCEPT ![w] = [kind |-> "sync", job |-> y, ids |-> ids]]
            /\ astray' = IF y.archive THEN astray \cup (WrongSide(y) \ ids) ELSE astray
      BY <2>1 DEF BeginSync
    <2>3. task'[w] = [kind |-> "sync", job |-> y, ids |-> ids]
      BY <1>0, <2>2
    <2>4. ids \subseteq Message /\ y \in SyncType
      BY DEF CategoryTypeOK, WrongSide
    <2>5. task'[w] \in TaskType
      BY <2>3, <2>4 DEF TaskType
    <2>6. task'[w].kind = "sync" /\ task'[w].job = y /\ task'[w].ids = ids
      BY <2>3
    <2>7. /\ task'[w].ids \subseteq WrongSide(task'[w].job)
          /\ astray' = IF task'[w].job.archive
                       THEN astray \cup (WrongSide(task'[w].job) \ task'[w].ids) ELSE astray
      BY <2>2, <2>6
    <2>8. Idle(w) /\ UNCHANGED <<known, labels, inbox, jobs>> /\ y \in syncs /\ syncs' = syncs \ {y}
      BY <2>1 DEF BeginSync
    <2> QED
      BY <2>5, <2>6, <2>7, <2>8 DEF Listed
  <1>5. CASE ApplySync(w)
    BY <1>0, <1>5 DEF ApplySync, queues, Moved
  <1>6. CASE SyncFails(w)
    BY <1>0, <1>6 DEF SyncFails, gmail, Unmoved
  <1> QED
    BY <1>1, <1>2, <1>3, <1>4, <1>5, <1>6 DEF WorkerStep

\* What a request's step does to the taxonomy and to the request.
Alone(s) == "overlap" \in circ \/ \A t \in Session : Free(t)

Asked(s) ==
    /\ Free(s) /\ UNCHANGED <<known, taxonomy, targets, syncs>> /\ Alone(s)
    /\ req'[s] \in ReqType
    /\ \/ /\ req'[s].kind = "create" /\ req'[s].key \in Custom \ cats /\ ~req'[s].labelled
          /\ \A c \in cats : name[c] # req'[s].key
       \/ /\ req'[s].kind = "delete" /\ req'[s].key \in cats
          /\ req'[s].rules = {r \in Rule : rules[r] = req'[s].key}
          /\ req'[s].isFallback = (fallback = req'[s].key)
       \/ /\ req'[s].kind = "rename" /\ req'[s].key \in cats
          /\ \A c \in cats \ {req'[s].key} : name[c] # req'[s].name
       \/ /\ req'[s].kind = "rule" /\ req'[s].key \in cats \cup {NoKey, "exclude"}
       \/ /\ req'[s].kind = "fallback" /\ req'[s].key \in cats \cup {NoKey}

AskedFlag(s) ==
    /\ Free(s) /\ UNCHANGED <<known, taxonomy, targets>> /\ Alone(s)
    /\ "flips" \in circ \/ NoFlagInHand
    /\ req'[s] \in ReqType /\ req'[s].kind = "archive" /\ req'[s].key \in cats
    /\ syncs' = syncs \cup {[key |-> req'[s].key, archive |-> req'[s].leaves]}

LabelMade(s) ==
    /\ req[s].kind = "create" /\ ~req[s].labelled /\ req[s].key \notin known
    /\ UNCHANGED <<taxonomy, targets, syncs>> /\ known' = known \cup {req[s].key}
    /\ req'[s] \in ReqType /\ req'[s].kind = "create"
    /\ req'[s].key = req[s].key /\ req'[s].labelled

Dropped(s) ==
    /\ UNCHANGED <<known, taxonomy, targets, syncs>> /\ req'[s] = NoReq
    /\ req[s].kind = "create" \/ (~Free(s) /\ "crash" \in circ)

RowMade(s) ==
    /\ req[s].kind = "create" /\ req[s].labelled /\ req'[s] = NoReq
    /\ "growth" \in circ \/ Loaded = {}
    /\ req[s].key \notin cats /\ UNCHANGED <<known, targets, syncs>>
    /\ cats' = cats \cup {req[s].key}
    /\ archive' \in {archive, archive \cup {req[s].key}}
    /\ name' = [name EXCEPT ![req[s].key] = req[s].key]

RowGone(s) ==
    /\ req[s].kind = "delete" /\ req'[s] = NoReq /\ UNCHANGED <<known, name, syncs>>
    /\ cats' = cats \ {req[s].key} /\ archive' = archive \ {req[s].key}
    /\ rules' = [r \in Rule |-> IF r \in req[s].rules THEN NoKey ELSE rules[r]]
    /\ fallback' = IF req[s].isFallback THEN NoKey ELSE fallback

TargetPut(s) ==
    /\ req'[s] = NoReq /\ UNCHANGED <<known, taxonomy, syncs>>
    /\ \/ /\ req[s].kind = "rule" /\ UNCHANGED fallback
          /\ rules' = [rules EXCEPT ![req[s].rule] = req[s].key]
       \/ req[s].kind = "fallback" /\ fallback' = req[s].key /\ UNCHANGED rules

FlagPut(s) ==
    /\ req[s].kind = "archive" /\ req'[s] = NoReq
    /\ UNCHANGED <<known, cats, name, targets, syncs>>
    /\ archive' = IF req[s].key \in cats /\ req[s].leaves
                  THEN archive \cup {req[s].key} ELSE archive \ {req[s].key}

NamePut(s) ==
    /\ req[s].kind = "rename" /\ req'[s] = NoReq
    /\ UNCHANGED <<known, cats, archive, targets, syncs>>
    /\ name' = IF req[s].key \in cats THEN [name EXCEPT ![req[s].key] = req[s].name] ELSE name

LEMMA SessionIs ==
    ASSUME CategoryTypeOK, NEW s \in Session, Request(s)
    PROVE  \/ Asked(s) \/ AskedFlag(s) \/ LabelMade(s) \/ Dropped(s) \/ RowMade(s)
           \/ RowGone(s) \/ TargetPut(s) \/ FlagPut(s) \/ NamePut(s)
  <1>0. DOMAIN req = Session
    BY DEF CategoryTypeOK
  <1>20. /\ cats \subseteq Key /\ Custom \subseteq Key /\ Key \subseteq Target /\ NoKey \in Target
         /\ "exclude" \in Target
    BY DEF CategoryTypeOK, Key, Target
  <1>1. CASE \E k \in Custom : BeginCreate(s, k)
    <2>1. PICK k \in Custom : BeginCreate(s, k)
      BY <1>1
    <2>2. req'[s] = [kind |-> "create", key |-> k, labelled |-> FALSE]
      BY <1>0, <2>1 DEF BeginCreate, Asks
    <2>3. req'[s] \in ReqType
      BY <2>2 DEF ReqType
    <2> QED
      BY <2>1, <2>2, <2>3 DEF BeginCreate, MayBegin, gmail, queues, Asked, Alone
  <1>2. CASE \E k \in Custom : BeginDelete(s, k)
    <2>1. PICK k \in Custom : BeginDelete(s, k)
      BY <1>2
    <2>2. req'[s] = [kind |-> "delete", key |-> k,
                     rules |-> {r \in Rule : rules[r] = k}, isFallback |-> fallback = k]
      BY <1>0, <2>1 DEF BeginDelete, Asks
    <2>3. req'[s] \in ReqType
      BY <2>2 DEF ReqType
    <2>4. /\ req'[s].kind = "delete" /\ req'[s].key = k
          /\ req'[s].rules = {r \in Rule : rules[r] = k} /\ req'[s].isFallback = (fallback = k)
      BY <2>2
    <2> QED
      BY <2>1, <2>3, <2>4 DEF BeginDelete, MayBegin, gmail, queues, Asked, Alone
  <1>3. CASE CreateLabel(s)
    <2>1. CASE req[s].key \in known
      BY <1>0, <1>3, <2>1 DEF CreateLabel, Ends, queues, Dropped
    <2>2. CASE req[s].key \notin known
      <3>1. req[s] \in [kind: {"create"}, key: Custom, labelled: BOOLEAN]
        BY <1>3, ReqIs DEF CreateLabel, ReqType, NoReq
      <3>2. req'[s] = [req[s] EXCEPT !.labelled = TRUE]
        BY <1>0, <1>3, <2>2 DEF CreateLabel
      <3>3. /\ req'[s] \in [kind: {"create"}, key: Custom, labelled: BOOLEAN]
            /\ req'[s].key = req[s].key /\ req'[s].labelled = TRUE
        BY <3>1, <3>2
      <3>4. req'[s] \in ReqType /\ req'[s].kind = "create"
        BY <3>3 DEF ReqType
      <3> QED
        BY <1>3, <2>2, <3>3, <3>4 DEF CreateLabel, queues, LabelMade
    <2> QED
      BY <2>1, <2>2
  <1>4. CASE CommitDelete(s)
    BY <1>0, <1>4 DEF CommitDelete, Ends, gmail, queues, RowGone
  <1>5. CASE CommitTarget(s)
    BY <1>0, <1>5 DEF CommitTarget, Ends, gmail, queues, TargetPut
  <1>6. CASE CommitArchive(s)
    BY <1>0, <1>6 DEF CommitArchive, Ends, gmail, queues, FlagPut
  <1>7. CASE CommitRename(s)
    BY <1>0, <1>7 DEF CommitRename, Ends, gmail, queues, NamePut
  <1>8. CASE Abort(s)
    BY <1>0, <1>8 DEF Abort, Ends, gmail, queues, Dropped
  <1>9. CASE \E leaves \in BOOLEAN : CommitCreate(s, leaves)
    BY <1>0, <1>9 DEF CommitCreate, Ends, gmail, queues, taxonomy, RowMade, Dropped
  <1>10. CASE \E k \in Key, leaves \in BOOLEAN : BeginArchive(s, k, leaves)
    <2>1. PICK k \in Key, leaves \in BOOLEAN : BeginArchive(s, k, leaves)
      BY <1>10
    <2>2. req'[s] = [kind |-> "archive", key |-> k, leaves |-> leaves]
      BY <1>0, <2>1 DEF BeginArchive, Asks
    <2>3. req'[s] \in ReqType
      BY <2>2 DEF ReqType
    <2>4. req'[s].kind = "archive" /\ req'[s].key = k /\ req'[s].leaves = leaves
      BY <2>2
    <2> QED
      BY <2>1, <2>3, <2>4 DEF BeginArchive, MayBegin, gmail, AskedFlag, Alone
  <1>11. CASE \E k, n \in Key : BeginRename(s, k, n)
    <2>1. PICK k, n \in Key : BeginRename(s, k, n)
      BY <1>11
    <2>2. req'[s] = [kind |-> "rename", key |-> k, name |-> n]
      BY <1>0, <2>1 DEF BeginRename, Asks
    <2>3. req'[s] \in ReqType
      BY <2>2 DEF ReqType
    <2> QED
      BY <2>1, <2>2, <2>3 DEF BeginRename, MayBegin, gmail, queues, Asked, Alone
  <1>12. CASE \E r \in Rule, k \in Target : BeginTarget(s, r, k)
    <2>1. PICK r \in Rule, k \in Target : BeginTarget(s, r, k)
      BY <1>12
    <2>2. req'[s] = [kind |-> "rule", rule |-> r, key |-> k]
      BY <1>0, <2>1 DEF BeginTarget, Asks
    <2>3. req'[s] \in ReqType
      BY <2>2 DEF ReqType
    <2> QED
      BY <2>1, <2>2, <2>3 DEF BeginTarget, MayBegin, gmail, queues, Asked, Alone
  <1>13. CASE \E k \in Target : BeginFallback(s, k)
    <2>1. PICK k \in Target : BeginFallback(s, k)
      BY <1>13
    <2>2. req'[s] = [kind |-> "fallback", key |-> k]
      BY <1>0, <2>1 DEF BeginFallback, Asks
    <2>3. req'[s] \in ReqType
      BY <1>20, <2>1, <2>2 DEF BeginFallback, ReqType
    <2> QED
      BY <2>1, <2>2, <2>3 DEF BeginFallback, MayBegin, gmail, queues, Asked, Alone
  <1> QED
    BY <1>1, <1>2, <1>3, <1>4, <1>5, <1>6, <1>7, <1>8, <1>9, <1>10, <1>11, <1>12, <1>13 DEF Request

\* The arrival of a message, a release and the call that queues what has no
\* label: mail that enters the inbox with a label on is astray.
LEMMA MailIs ==
    ASSUME CategoryTypeOK, ReleaseHeld \/ Reclassify \/ \E m \in Message : MailComes(m)
    PROVE  /\ UNCHANGED <<circ, taxonomy, targets, known, labels, primed, syncs, task, req>>
           /\ mail \subseteq mail' /\ mail' \subseteq Message /\ inbox' \subseteq mail'
           /\ held' \subseteq mail' /\ astray' \subseteq mail' /\ jobs' \subseteq mail'
           /\ astray \subseteq astray'
           /\ \A m \in inbox' \ astray' : m \in inbox \/ m \notin mail \/ labels[m] = {}
  <1>1. CASE ReleaseHeld
    BY <1>1 DEF ReleaseHeld, queues, CategoryTypeOK
  <1>2. CASE Reclassify
    BY <1>2 DEF Reclassify, Unlabelled, gmail, CategoryTypeOK
  <1>3. CASE \E m \in Message : MailComes(m)
    BY <1>3 DEF MailComes, CategoryTypeOK
  <1> QED
    BY <1>1, <1>2, <1>3

\* The label command.
LEMMA CommandIs ==
    ASSUME CategoryTypeOK, \E k \in Key : MakeLabel(k) \/ DeleteLabel(k)
    PROVE  /\ "label" \in circ
           /\ UNCHANGED <<circ, taxonomy, targets, mail, inbox, held, astray, queues, task, req>>
           /\ known' \subseteq Key /\ labels' \in [Message -> SUBSET Key]
  BY DEF MakeLabel, DeleteLabel, CategoryTypeOK

CategoryTyped ==
    /\ CategoryTypeOK
    /\ \A w \in Worker : task[w].kind = "classify" => task[w].msg \in mail
    /\ \A w \in Worker : task[w].kind = "sync" => task[w].ids \subseteq mail
    /\ \A s \in Session : req[s].kind = "archive" => req[s].key \in Key

LEMMA TypedInit == CategoryInit => CategoryTyped
  <1> SUFFICES ASSUME CategoryInit PROVE CategoryTyped
    OBVIOUS
  <1>1. task \in [Worker -> TaskType] /\ req \in [Session -> ReqType]
    BY NoneIs DEF CategoryInit
  <1>2. \A w \in Worker : task[w].kind = "idle"
    BY NoneIs DEF CategoryInit
  <1>3. \A s \in Session : req[s].kind = "idle"
    BY NoneIs DEF CategoryInit
  <1>4. CategoryTypeOK
    BY <1>1 DEF CategoryInit, CategoryTypeOK, Key, Target
  <1> QED
    BY <1>2, <1>3, <1>4 DEF CategoryTyped

\* A worker, a session, the mailbox, or nothing moves.
LEMMA NextIs ==
    ASSUME [CategoryNext]_categoryVars
    PROVE  \/ \E w \in Worker : WorkerStep(w)
           \/ \E s \in Session : Request(s)
           \/ ReleaseHeld \/ Reclassify \/ \E m \in Message : MailComes(m)
           \/ \E k \in Key : MakeLabel(k) \/ DeleteLabel(k)
           \/ UNCHANGED categoryVars
  BY DEF CategoryNext

\* A worker has a snapshot when it has just read it, or had it.
LEMMA ReadsOnly ==
    ASSUME CategoryTypeOK, NEW w \in Worker, WorkerStep(w), task'[w].kind = "classify"
    PROVE  Read(w)
  BY WorkerIs, NoneIs DEF LeftAlone, Filed, Listed, Moved, Unmoved

LEMMA WorkerType ==
    ASSUME CategoryTyped, NEW w \in Worker, WorkerStep(w)
    PROVE  /\ known' \subseteq Key /\ labels' \in [Message -> SUBSET Key]
           /\ inbox' \subseteq mail /\ jobs' \subseteq mail /\ syncs' \subseteq SyncType
           /\ astray' \subseteq mail
           /\ task'[w] \in TaskType
           /\ task'[w].kind = "classify" => task'[w].msg \in mail
           /\ task'[w].kind = "sync" => task'[w].ids \subseteq mail
  <1>0. CategoryTypeOK /\ NoTask \in TaskType /\ NoTask.kind = "idle"
    BY NoneIs DEF CategoryTyped
  <1>1. /\ task[w].kind = "classify" => task[w].msg \in mail /\ task[w].cats \subseteq Key
        /\ task[w].kind = "sync" => task[w].ids \subseteq mail /\ task[w].job \in SyncType
    BY <1>0, TaskIs DEF CategoryTyped
  <1>2. /\ mail \subseteq Message /\ inbox \subseteq mail /\ jobs \subseteq mail
        /\ astray \subseteq mail /\ syncs \subseteq SyncType /\ known \subseteq Key /\ labels \in [Message -> SUBSET Key]
    BY <1>0 DEF CategoryTypeOK
  <1>3. Provisioned \subseteq Key
    BY <1>2 DEF Provisioned, Key
  <1>4. \A k \in Key : \A missed : Labelled(task[w], k, missed) \in [Message -> SUBSET Key]
    BY <1>2 DEF Labelled
  <1>5. CASE Read(w)
    BY <1>2, <1>3, <1>5 DEF Read
  <1>6. CASE LeftAlone(w)
    BY <1>0, <1>1, <1>2, <1>6 DEF LeftAlone
  <1>7. CASE Filed(w)
    BY <1>0, <1>1, <1>2, <1>4, <1>7 DEF Filed
  <1>8. CASE Listed(w)
    BY <1>2, <1>8 DEF Listed, WrongSide
  <1>9. CASE Moved(w)
    BY <1>0, <1>1, <1>2, <1>9 DEF Moved
  <1>10. CASE Unmoved(w)
    BY <1>0, <1>1, <1>2, <1>10 DEF Unmoved
  <1> QED
    BY <1>0, <1>5, <1>6, <1>7, <1>8, <1>9, <1>10, WorkerIs

LEMMA SessionType ==
    ASSUME CategoryTyped, NEW s \in Session, Request(s)
    PROVE  /\ cats' \subseteq Key /\ Builtin \subseteq cats' /\ archive' \subseteq cats'
           /\ name' \in [Key -> Key] /\ rules' \in [Rule -> Target] /\ fallback' \in Key \cup {NoKey}
           /\ known' \subseteq Key /\ syncs' \subseteq SyncType
           /\ req'[s] \in ReqType
           /\ req'[s].kind = "archive" => req'[s].key \in Key
  <1>0. CategoryTypeOK /\ NoReq \in ReqType /\ NoReq.kind = "idle"
    BY NoneIs DEF CategoryTyped
  <1>1. /\ cats \subseteq Key /\ Builtin \subseteq cats /\ archive \subseteq cats
        /\ name \in [Key -> Key] /\ rules \in [Rule -> Target] /\ fallback \in Key \cup {NoKey}
        /\ known \subseteq Key /\ syncs \subseteq SyncType
        /\ Custom \subseteq Key /\ NoKey \in Target /\ Builtin \cap Custom = {} /\ Key \subseteq Target
    BY <1>0, CategorizationAssumption DEF CategoryTypeOK, Key, Target
  <1>2. /\ req[s].kind = "create" => req[s].key \in Custom
        /\ req[s].kind = "delete" => req[s].key \in Custom
        /\ req[s].kind = "rename" => req[s].key \in Key /\ req[s].name \in Key
        /\ req[s].kind = "rule" => req[s].rule \in Rule /\ req[s].key \in Target
        /\ req[s].kind = "fallback" => req[s].key \in Key \cup {NoKey}
    BY <1>0, ReqIs
  <1>3. req'[s] \in ReqType
    <2>1. CASE Asked(s) \/ AskedFlag(s) \/ LabelMade(s)
      BY <2>1 DEF Asked, AskedFlag, LabelMade
    <2>2. CASE Dropped(s) \/ RowMade(s) \/ RowGone(s) \/ TargetPut(s) \/ FlagPut(s) \/ NamePut(s)
      BY <1>0, <2>2 DEF Dropped, RowMade, RowGone, TargetPut, FlagPut, NamePut
    <2> QED
      BY <1>0, <2>1, <2>2, SessionIs
  <1>9. req'[s].kind = "archive" => req'[s].key \in Key
    BY <1>3 DEF ReqType, NoReq
  <1>4. CASE Asked(s) \/ Dropped(s) \/ LabelMade(s)
    BY <1>1, <1>2, <1>3, <1>4, <1>9 DEF Asked, Dropped, LabelMade, taxonomy, targets
  <1>5. CASE AskedFlag(s)
    <2>1. req'[s].leaves \in BOOLEAN
      BY <1>5 DEF AskedFlag, ReqType, NoReq
    <2>2. [key |-> req'[s].key, archive |-> req'[s].leaves] \in SyncType
      BY <1>1, <1>5, <2>1 DEF AskedFlag, SyncType
    <2> QED
      BY <1>1, <1>3, <1>5, <1>9, <2>2 DEF AskedFlag, taxonomy, targets
  <1>6. CASE RowMade(s)
    BY <1>1, <1>2, <1>3, <1>6, <1>9 DEF RowMade, targets
  <1>10. CASE RowGone(s)
    BY <1>1, <1>2, <1>3, <1>9, <1>10 DEF RowGone
  <1>7. CASE TargetPut(s)
    BY <1>1, <1>2, <1>3, <1>7, <1>9 DEF TargetPut, taxonomy
  <1>8. CASE FlagPut(s) \/ NamePut(s)
    BY <1>1, <1>2, <1>3, <1>8, <1>9 DEF FlagPut, NamePut, targets
  <1> QED
    BY <1>0, <1>4, <1>5, <1>6, <1>7, <1>8, <1>10, SessionIs

LEMMA TypedStep == CategoryTyped /\ [CategoryNext]_categoryVars => CategoryTyped'
  <1> SUFFICES ASSUME CategoryTyped, [CategoryNext]_categoryVars PROVE CategoryTyped'
    OBVIOUS
  <1>0. CategoryTypeOK
    BY DEF CategoryTyped
  <1>1. CASE \E w \in Worker : WorkerStep(w)
    <2>1. PICK w \in Worker : WorkerStep(w)
      BY <1>1
    <2>2. /\ UNCHANGED <<circ, taxonomy, targets, mail, held, req>>
          /\ \A v \in Worker \ {w} : task'[v] = task[v]
          /\ task' = [v \in Worker |-> task'[v]]
          /\ primed' \in {primed, primed \cup {w}}
      BY <1>0, <2>1, WorkerFrame
    <2>3. /\ known' \subseteq Key /\ labels' \in [Message -> SUBSET Key]
          /\ inbox' \subseteq mail /\ jobs' \subseteq mail /\ syncs' \subseteq SyncType
          /\ astray' \subseteq mail
          /\ task'[w] \in TaskType
          /\ task'[w].kind = "classify" => task'[w].msg \in mail
          /\ task'[w].kind = "sync" => task'[w].ids \subseteq mail
      BY <2>1, WorkerType
    <2>4. task' \in [Worker -> TaskType]
      BY <1>0, <2>2, <2>3 DEF CategoryTypeOK
    <2>5. CategoryTypeOK'
      BY <1>0, <2>2, <2>3, <2>4 DEF CategoryTypeOK, taxonomy, targets
    <2> QED
      BY <2>2, <2>3, <2>5 DEF CategoryTyped
  <1>2. CASE \E s \in Session : Request(s)
    <2>1. PICK s \in Session : Request(s)
      BY <1>2
    <2>2. /\ UNCHANGED <<circ, mail, labels, inbox, held, astray, primed, jobs, task>>
          /\ \A t \in Session \ {s} : req'[t] = req[t]
          /\ req' = [t \in Session |-> req'[t]]
      BY <1>0, <2>1, SessionFrame
    <2>3. /\ cats' \subseteq Key /\ Builtin \subseteq cats' /\ archive' \subseteq cats'
          /\ name' \in [Key -> Key] /\ rules' \in [Rule -> Target] /\ fallback' \in Key \cup {NoKey}
          /\ known' \subseteq Key /\ syncs' \subseteq SyncType
          /\ req'[s] \in ReqType
          /\ req'[s].kind = "archive" => req'[s].key \in Key
      BY <2>1, SessionType
    <2>4. req' \in [Session -> ReqType]
      BY <1>0, <2>2, <2>3 DEF CategoryTypeOK
    <2>5. CategoryTypeOK'
      BY <1>0, <2>2, <2>3, <2>4 DEF CategoryTypeOK
    <2> QED
      BY <2>2, <2>3, <2>5 DEF CategoryTyped
  <1>3. CASE ReleaseHeld \/ Reclassify \/ \E m \in Message : MailComes(m)
    <2>1. UNCHANGED <<circ, taxonomy, targets, known, labels, primed, syncs, task, req>>
      BY <1>0, <1>3, MailIs
    <2>2. /\ mail' \subseteq Message /\ mail \subseteq mail' /\ inbox' \subseteq mail'
          /\ jobs' \subseteq mail' /\ held' \subseteq mail' /\ astray' \subseteq mail'
      BY <1>0, <1>3, MailIs
    <2>3. CategoryTypeOK'
      BY <1>0, <2>1, <2>2 DEF CategoryTypeOK, taxonomy, targets
    <2> QED
      BY <2>1, <2>2, <2>3 DEF CategoryTyped
  <1>4. CASE UNCHANGED categoryVars
    <2>1. CategoryTypeOK'
      BY <1>0, <1>4 DEF CategoryTypeOK, categoryVars, taxonomy, targets, gmail, queues
    <2> QED
      BY <1>4, <2>1 DEF CategoryTyped, categoryVars, gmail
  <1>5. CASE \E k \in Key : MakeLabel(k) \/ DeleteLabel(k)
    <2>1. /\ UNCHANGED <<circ, taxonomy, targets, mail, inbox, held, astray, queues, task, req>>
          /\ known' \subseteq Key /\ labels' \in [Message -> SUBSET Key]
      BY <1>0, <1>5, CommandIs
    <2>2. CategoryTypeOK'
      BY <1>0, <2>1 DEF CategoryTypeOK, taxonomy, targets, queues
    <2> QED
      BY <2>1, <2>2 DEF CategoryTyped
  <1> QED
    BY <1>1, <1>2, <1>3, <1>4, <1>5, NextIs

\* CategoryTypeOK holds of CategorySpec: what a request or a task carries is of its kind, the
\* built-in categories stay and only mail that is there is queued or moved.
THEOREM CategorizationTypeCorrect == CategorySpec => []CategoryTypeOK
  <1>1. CategoryTyped => CategoryTypeOK
    BY DEF CategoryTyped
  <1> QED
    BY <1>1, TypedInit, TypedStep, PTL DEF CategorySpec

-----------------------------------------------------------------------------
(* Labels *)

Labelling(s) == req[s].kind = "create" /\ req[s].labelled

\* A label that was created for a category without a row is on no message and
\* in no snapshot, and no two requests created one.
Fresh(s) ==
    /\ req[s].key \in known /\ req[s].key \notin cats
    /\ \A w \in Worker : task[w].kind = "classify" => req[s].key \notin task[w].cats
    /\ \A m \in Message : req[s].key \notin labels[m]
    /\ \A t \in Session \ {s} : Labelling(t) => req[t].key # req[s].key

\* Unless the label command is used, what is worn, kept or read exists.
Backed ==
    /\ cats \cap Custom \subseteq known
    /\ \A m \in Message : labels[m] \subseteq known
    /\ \A m \in Message \ mail : labels[m] = {}
    /\ \A w \in Worker : task[w].kind = "classify" => task[w].cats \cap Custom \subseteq known
    /\ \A s \in Session : Labelling(s) => Fresh(s)

LabelInv == "label" \notin circ => Backed

LEMMA CircKept == CategoryTyped /\ [CategoryNext]_categoryVars => circ' = circ
  <1> SUFFICES ASSUME CategoryTyped, [CategoryNext]_categoryVars PROVE circ' = circ
    OBVIOUS
  <1>0. CategoryTypeOK
    BY DEF CategoryTyped
  <1>1. (\E w \in Worker : WorkerStep(w)) => circ' = circ
    BY <1>0, WorkerFrame
  <1>2. (\E s \in Session : Request(s)) => circ' = circ
    BY <1>0, SessionFrame
  <1>3. (ReleaseHeld \/ Reclassify \/ \E m \in Message : MailComes(m)) => circ' = circ
    BY <1>0, MailIs
  <1>4. (\E k \in Key : MakeLabel(k) \/ DeleteLabel(k)) => circ' = circ
    BY <1>0, CommandIs
  <1>5. UNCHANGED categoryVars => circ' = circ
    BY DEF categoryVars
  <1> QED
    BY <1>1, <1>2, <1>3, <1>4, <1>5, NextIs

\* What the winner of a classification leaves on each message.
LEMMA LabelledIs ==
    ASSUME CategoryTypeOK, NEW w \in Worker, task[w].kind = "classify", NEW k, NEW missed,
           labels' = Labelled(task[w], k, missed)
    PROVE  \A n \in Message :
              /\ n \in Mates(task[w].msg) =>
                    labels'[n] = (labels[n] \ (task[w].cats \ missed)) \cup {k}
              /\ n \notin Mates(task[w].msg) => labels'[n] = labels[n]
  BY DEF Labelled

LEMMA LabelInit == CategoryInit => LabelInv
  <1> SUFFICES ASSUME CategoryInit PROVE Backed
    BY DEF LabelInv
  <1>1. (\A w \in Worker : task[w].kind = "idle") /\ \A s \in Session : req[s].kind = "idle"
    BY NoneIs DEF CategoryInit
  <1>2. cats \cap Custom = {}
    BY CategorizationAssumption DEF CategoryInit
  <1>3. \A m \in Message : labels[m] = {}
    BY DEF CategoryInit
  <1> QED
    BY <1>1, <1>2, <1>3 DEF Backed, Labelling

LEMMA LabelStep == CategoryTyped /\ LabelInv /\ [CategoryNext]_categoryVars => LabelInv'
  <1> SUFFICES ASSUME CategoryTyped, Backed, "label" \notin circ, [CategoryNext]_categoryVars
               PROVE  Backed'
    BY CircKept DEF LabelInv
  <1>0. CategoryTypeOK /\ NoTask.kind = "idle" /\ NoReq.kind = "idle"
    BY NoneIs DEF CategoryTyped
  <1>1. CASE \E w \in Worker : WorkerStep(w)
    <2>1. PICK w \in Worker : WorkerStep(w)
      BY <1>1
    <2>2. /\ UNCHANGED <<cats, mail, req>>
          /\ \A v \in Worker \ {w} : task'[v] = task[v]
      BY <1>0, <2>1, WorkerFrame DEF taxonomy
    <2>3. CASE UNCHANGED labels /\ (known' = known \/ known' = Provisioned)
      <3>1. known \subseteq known'
        BY <2>3 DEF Provisioned
      <3>2. task'[w].kind = "classify" => task'[w].cats = cats
        BY <1>0, <2>1, ReadsOnly DEF Read
      <3>3. /\ cats' \cap Custom \subseteq known'
            /\ \A m \in Message : labels'[m] \subseteq known'
            /\ \A m \in Message \ mail' : labels'[m] = {}
        BY <2>2, <2>3, <3>1 DEF Backed
      <3>4. \A v \in Worker : task'[v].kind = "classify" => task'[v].cats \cap Custom \subseteq known'
        BY <2>2, <3>1, <3>2 DEF Backed
      <3>5. \A s \in Session : Labelling(s)' => Fresh(s)'
        BY <2>2, <2>3, <3>1, <3>2 DEF Backed, Labelling, Fresh
      <3> QED
        BY <3>3, <3>4, <3>5 DEF Backed
    <2>4. CASE /\ task[w].kind = "classify" /\ task'[w] = NoTask /\ UNCHANGED known
               /\ \E k \in task[w].cats \cap known, missed \in Overlooked(task[w]) :
                     labels' = Labelled(task[w], k, missed)
      <3>1. PICK k \in task[w].cats \cap known, missed \in Overlooked(task[w]) :
                labels' = Labelled(task[w], k, missed)
        BY <2>4
      <3>2. \A n \in Message :
              /\ n \in Mates(task[w].msg) =>
                    labels'[n] = (labels[n] \ (task[w].cats \ missed)) \cup {k}
              /\ n \notin Mates(task[w].msg) => labels'[n] = labels[n]
        BY <1>0, <2>4, <3>1, LabelledIs
      <3>3. \A n \in Message : labels'[n] \subseteq labels[n] \cup {k}
        BY <3>2
      <3>4. \A n \in Message \ mail : labels'[n] = labels[n]
        BY <3>2 DEF Mates
      <3>5. /\ cats' \cap Custom \subseteq known'
            /\ \A m \in Message : labels'[m] \subseteq known'
            /\ \A m \in Message \ mail' : labels'[m] = {}
        BY <2>2, <2>4, <3>3, <3>4 DEF Backed
      <3>6. \A v \in Worker : task'[v].kind = "classify" => task'[v].cats \cap Custom \subseteq known'
        BY <1>0, <2>2, <2>4 DEF Backed
      <3>7. \A s \in Session : Labelling(s) => req[s].key # k
        BY <2>4 DEF Backed, Fresh
      <3>8. \A s \in Session : Labelling(s)' => Fresh(s)'
        BY <1>0, <2>2, <2>4, <3>3, <3>7 DEF Backed, Labelling, Fresh
      <3> QED
        BY <3>5, <3>6, <3>8 DEF Backed
    <2> QED
      BY <1>0, <2>1, <2>3, <2>4, WorkerIs DEF Read, LeftAlone, Filed, Listed, Moved, Unmoved
  <1>2. CASE \E s \in Session : Request(s)
    <2>1. PICK s \in Session : Request(s)
      BY <1>2
    <2>2. /\ UNCHANGED <<mail, labels, task>>
          /\ \A t \in Session \ {s} : req'[t] = req[t]
      BY <1>0, <2>1, SessionFrame
    <2>3. CASE /\ req[s].kind = "create" /\ ~req[s].labelled /\ req[s].key \notin known
               /\ UNCHANGED cats /\ known' = known \cup {req[s].key}
               /\ req'[s].kind = "create" /\ req'[s].key = req[s].key /\ req'[s].labelled
      <3>1. req[s].key \in Custom
        BY <1>0, <2>3, ReqIs
      <3>2. Fresh(s)'
        <4>1. req'[s].key \in known' /\ req'[s].key \notin cats'
          BY <2>3, <3>1 DEF Backed
        <4>2. \A w \in Worker : task'[w].kind = "classify" => req'[s].key \notin task'[w].cats
          BY <2>2, <2>3, <3>1 DEF Backed
        <4>3. \A m \in Message : req'[s].key \notin labels'[m]
          BY <2>2, <2>3, <3>1 DEF Backed
        <4>4. \A t \in Session \ {s} : Labelling(t)' => req'[t].key # req'[s].key
          BY <2>2, <2>3 DEF Backed, Labelling, Fresh
        <4> QED
          BY <4>1, <4>2, <4>3, <4>4 DEF Fresh
      <3>3. \A t \in Session \ {s} : Labelling(t)' => Fresh(t)'
        BY <2>2, <2>3 DEF Backed, Labelling, Fresh
      <3>4. \A t \in Session : Labelling(t)' => Fresh(t)'
        BY <3>2, <3>3
      <3> QED
        BY <2>2, <2>3, <3>4 DEF Backed
    <2>4. CASE /\ known' = known /\ ~Labelling(s)'
               /\ \/ cats' \subseteq cats
                  \/ Labelling(s) /\ cats' = cats \cup {req[s].key}
      <3>1. \A t \in Session : Labelling(t)' => t # s /\ Labelling(t)
        BY <2>2, <2>4 DEF Labelling
      <3>2. \A t \in Session : Labelling(t)' => req'[t].key \notin cats'
        BY <2>2, <2>4, <3>1 DEF Backed, Fresh
      <3>3. \A t \in Session : Labelling(t)' => Fresh(t)'
        BY <2>2, <2>4, <3>1, <3>2 DEF Backed, Labelling, Fresh
      <3>4. cats' \cap Custom \subseteq known'
        BY <2>4 DEF Backed, Fresh
      <3> QED
        BY <2>2, <2>4, <3>3, <3>4 DEF Backed
    <2>5. CASE Asked(s) \/ AskedFlag(s)
      BY <2>4, <2>5 DEF Asked, AskedFlag, Labelling, taxonomy
    <2>6. CASE Dropped(s) \/ RowGone(s) \/ TargetPut(s) \/ FlagPut(s) \/ NamePut(s)
      BY <1>0, <2>4, <2>6 DEF Dropped, RowGone, TargetPut, FlagPut, NamePut, Labelling, taxonomy
    <2>7. CASE LabelMade(s)
      BY <2>3, <2>7 DEF LabelMade, taxonomy
    <2>8. CASE RowMade(s)
      BY <1>0, <2>4, <2>8 DEF RowMade, Labelling
    <2> QED
      BY <1>0, <2>1, <2>5, <2>6, <2>7, <2>8, SessionIs
  <1>3. CASE ReleaseHeld \/ Reclassify \/ \E m \in Message : MailComes(m)
    <2>1. UNCHANGED <<cats, known, labels, task, req>> /\ mail \subseteq mail'
      BY <1>0, <1>3, MailIs DEF taxonomy
    <2> QED
      BY <2>1 DEF Backed, Labelling, Fresh
  <1>4. CASE UNCHANGED categoryVars
    BY <1>4 DEF Backed, Labelling, Fresh, categoryVars, taxonomy, gmail
  <1> QED
    BY <1>0, <1>1, <1>2, <1>3, <1>4, NextIs, CommandIs

-----------------------------------------------------------------------------
(* One category to a conversation *)

Exact == {"growth", "lookups", "label"} \cap circ = {}

\* A snapshot holds the whole taxonomy; two messages of one thread wear no two
\* of its labels.
OneWorn ==
    /\ \A w \in Worker : task[w].kind = "classify" => cats \subseteq task[w].cats
    /\ \A m, n \in mail : Thread[m] = Thread[n] =>
          \A a \in labels[m] \cap cats, b \in labels[n] \cap cats : a = b

OneInv == Exact => OneWorn

LEMMA OneInit == CategoryInit => OneInv
  <1> SUFFICES ASSUME CategoryInit PROVE OneInv
    OBVIOUS
  <1>1. \A w \in Worker : task[w].kind = "idle"
    BY NoneIs DEF CategoryInit
  <1> QED
    BY <1>1 DEF OneInv, OneWorn, CategoryInit

LEMMA OneStep == CategoryTyped /\ LabelInv /\ OneInv /\ [CategoryNext]_categoryVars => OneInv'
  <1> SUFFICES ASSUME CategoryTyped, LabelInv, OneWorn, Exact, [CategoryNext]_categoryVars
               PROVE  OneWorn'
    BY CircKept DEF OneInv, Exact
  <1>0. /\ CategoryTypeOK /\ NoTask.kind = "idle" /\ mail \subseteq Message /\ Backed
        /\ "growth" \notin circ /\ "label" \notin circ /\ \A w \in Worker : Overlooked(task[w]) = {{}}
    BY NoneIs DEF CategoryTyped, CategoryTypeOK, LabelInv, Exact, Overlooked
  <1>1. CASE \E w \in Worker : WorkerStep(w)
    <2>1. PICK w \in Worker : WorkerStep(w)
      BY <1>1
    <2>2. /\ UNCHANGED <<circ, cats, mail>>
          /\ \A v \in Worker \ {w} : task'[v] = task[v]
      BY <1>0, <2>1, WorkerFrame DEF taxonomy
    <2>3. \A v \in Worker : task'[v].kind = "classify" => cats' \subseteq task'[v].cats
      BY <1>0, <2>1, <2>2, ReadsOnly DEF OneWorn, Read
    <2>4. CASE UNCHANGED labels
      BY <2>2, <2>3, <2>4 DEF OneWorn
    <2>5. CASE task[w].kind = "classify" /\ \E k \in task[w].cats \cap known, missed \in Overlooked(task[w]) :
                  labels' = Labelled(task[w], k, missed)
      <3>1. PICK k \in task[w].cats \cap known : labels' = Labelled(task[w], k, {})
        BY <1>0, <2>5
      <3>2. \A n \in Message :
              /\ n \in Mates(task[w].msg) => labels'[n] = (labels[n] \ (task[w].cats \ {})) \cup {k}
              /\ n \notin Mates(task[w].msg) => labels'[n] = labels[n]
        BY <1>0, <2>5, <3>1, LabelledIs
      <3>3. SUFFICES ASSUME NEW m \in mail, NEW n \in mail, Thread[m] = Thread[n],
                            NEW a \in labels'[m] \cap cats, NEW b \in labels'[n] \cap cats
                     PROVE  a = b
        BY <2>2, <2>3 DEF OneWorn
      <3>4. cats \subseteq task[w].cats
        BY <2>5, <3>3 DEF OneWorn
      <3>5. m \in Mates(task[w].msg) <=> n \in Mates(task[w].msg)
        BY <3>3 DEF Mates
      <3>6. CASE m \in Mates(task[w].msg)
        BY <1>0, <3>2, <3>4, <3>5, <3>6
      <3>7. CASE m \notin Mates(task[w].msg)
        BY <1>0, <3>2, <3>3, <3>5, <3>7 DEF OneWorn
      <3> QED
        BY <3>6, <3>7
    <2> QED
      BY <1>0, <2>1, <2>4, <2>5, WorkerIs DEF Read, LeftAlone, Filed, Listed, Moved, Unmoved
  <1>2. CASE \E s \in Session : Request(s)
    <2>1. PICK s \in Session : Request(s)
      BY <1>2
    <2>2. UNCHANGED <<circ, mail, labels, task>>
      BY <1>0, <2>1, SessionFrame
    <2>3. CASE cats' \subseteq cats
      BY <2>2, <2>3 DEF OneWorn
    <2>4. CASE /\ Labelling(s) /\ cats' = cats \cup {req[s].key}
               /\ "growth" \in circ \/ Loaded = {}
      <3>1. \A m \in mail : req[s].key \notin labels[m]
        BY <1>0, <2>4 DEF Backed, Fresh
      <3>2. \A w \in Worker : task[w].kind # "classify"
        BY <1>0, <2>4 DEF Loaded
      <3> QED
        BY <2>2, <2>4, <3>1, <3>2 DEF OneWorn
    <2>5. CASE Asked(s) \/ AskedFlag(s) \/ LabelMade(s)
      BY <2>3, <2>5 DEF Asked, AskedFlag, LabelMade, taxonomy
    <2>6. CASE Dropped(s) \/ RowGone(s) \/ TargetPut(s) \/ FlagPut(s) \/ NamePut(s)
      BY <2>3, <2>6 DEF Dropped, RowGone, TargetPut, FlagPut, NamePut, taxonomy
    <2>7. CASE RowMade(s)
      BY <2>4, <2>7 DEF RowMade, Labelling
    <2> QED
      BY <1>0, <2>1, <2>5, <2>6, <2>7, SessionIs
  <1>3. CASE ReleaseHeld \/ Reclassify \/ \E m \in Message : MailComes(m)
    <2>1. UNCHANGED <<circ, cats, labels, task>>
      BY <1>0, <1>3, MailIs DEF taxonomy
    <2>2. \A m \in mail' : m \in mail \/ (m \in Message /\ labels[m] = {})
      BY <1>0, <1>3, MailIs DEF Backed
    <2> QED
      BY <2>1, <2>2 DEF OneWorn
  <1>4. CASE UNCHANGED categoryVars
    BY <1>4 DEF OneWorn, categoryVars, taxonomy, gmail
  <1> QED
    BY <1>0, <1>1, <1>2, <1>3, <1>4, NextIs, CommandIs

LEMMA OneIs == CategoryTyped /\ OneInv => OneCategoryPerThread
  <1> SUFFICES ASSUME CategoryTyped, OneWorn, NEW m \in mail
               PROVE  Cardinality((UNION {labels[n] : n \in Mates(m)}) \cap cats) <= 1
    BY DEF OneCategoryPerThread, OneInv, Exact
  <1> DEFINE S == (UNION {labels[n] : n \in Mates(m)}) \cap cats
  <1>1. \A a, b \in S : a = b
    <2>1. SUFFICES ASSUME NEW a \in S, NEW b \in S PROVE a = b
      OBVIOUS
    <2>2. PICK n \in Mates(m) : a \in labels[n] \cap cats
      BY <2>1
    <2>3. PICK o \in Mates(m) : b \in labels[o] \cap cats
      BY <2>1
    <2>4. n \in mail /\ o \in mail /\ Thread[n] = Thread[o]
      BY DEF Mates
    <2> QED
      BY <2>2, <2>3, <2>4 DEF OneWorn
  <1> HIDE DEF S
  <1>2. CASE S = {}
    <2>1. Cardinality(S) = 0
      BY <1>2, FS_EmptySet
    <2> QED
      BY <2>1 DEF S
  <1>3. CASE S # {}
    <2>1. PICK a \in S : S = {a}
      BY <1>1, <1>3
    <2>2. Cardinality(S) = 1
      BY <2>1, FS_Singleton
    <2> QED
      BY <2>2 DEF S
  <1> QED
    BY <1>2, <1>3

\* OneCategoryPerThread holds of CategorySpec: tasks overlap and repeat, and requests
\* edit the taxonomy under their snapshots, but a thread wears at most one
\* label of it, unless it grows under a task, a label lookup fails or the label
\* command is used (pipeline.py:167-171).
THEOREM OneLabelPerThread == CategorySpec => []OneCategoryPerThread
  BY OneIs, OneInit, OneStep, LabelInit, LabelStep, TypedInit, TypedStep, PTL DEF CategorySpec

-----------------------------------------------------------------------------
(* The taxonomy *)

\* Where requests do not overlap, one is under way at most, and what it checked
\* when it began still holds.
Sound(s) ==
    /\ req[s].kind = "create" => req[s].key \notin cats /\ \A c \in cats : name[c] # req[s].key
    /\ req[s].kind = "delete" =>
          /\ req[s].rules = {r \in Rule : rules[r] = req[s].key}
          /\ req[s].isFallback = (fallback = req[s].key)
    /\ req[s].kind = "rename" => \A c \in cats \ {req[s].key} : name[c] # req[s].name
    /\ req[s].kind = "rule" => req[s].key \in cats \cup {NoKey, "exclude"}
    /\ req[s].kind = "fallback" => req[s].key \in cats \cup {NoKey}

WholeInv ==
    "overlap" \notin circ =>
        /\ \A s, t \in Session : ~Free(s) /\ ~Free(t) => s = t
        /\ \A s \in Session : Sound(s)
        /\ \A c, d \in cats : name[c] = name[d] => c = d
        /\ \A r \in Rule : rules[r] \in cats \cup {NoKey, "exclude"}
        /\ fallback \in cats \cup {NoKey}

LEMMA WholeInit == CategoryInit => WholeInv
  <1> SUFFICES ASSUME CategoryInit PROVE WholeInv
    OBVIOUS
  <1>1. \A s \in Session : req[s].kind = "idle"
    BY NoneIs DEF CategoryInit
  <1>2. \A c \in cats : name[c] = c
    BY DEF CategoryInit, Key
  <1> QED
    BY <1>1, <1>2 DEF WholeInv, Sound, Free, CategoryInit

LEMMA WholeStep == CategoryTyped /\ WholeInv /\ [CategoryNext]_categoryVars => WholeInv'
  <1> SUFFICES ASSUME CategoryTyped, WholeInv, [CategoryNext]_categoryVars PROVE WholeInv'
    OBVIOUS
  <1>0. CategoryTypeOK /\ NoTask.kind = "idle" /\ NoReq.kind = "idle"
    BY NoneIs DEF CategoryTyped
  <1>1. CASE \E w \in Worker : WorkerStep(w)
    <2>1. UNCHANGED <<circ, cats, name, rules, fallback, req>>
      BY <1>0, <1>1, WorkerFrame DEF taxonomy, targets
    <2> QED
      BY <2>1 DEF WholeInv, Sound, Free
  <1>2. CASE \E s \in Session : Request(s)
    <2>1. PICK s \in Session : Request(s)
      BY <1>2
    <2>2. UNCHANGED circ /\ \A t \in Session \ {s} : req'[t] = req[t]
      BY <1>0, <2>1, SessionFrame
    <2>3. SUFFICES ASSUME "overlap" \notin circ PROVE WholeInv'
      BY <2>2 DEF WholeInv
    <2>4. /\ \A c, d \in cats : name[c] = name[d] => c = d
          /\ \A r \in Rule : rules[r] \in cats \cup {NoKey, "exclude"}
          /\ fallback \in cats \cup {NoKey}
          /\ Sound(s)
      BY <2>3 DEF WholeInv
    <2>5. \A t \in Session \ {s} : Free(t)
      <3>1. CASE Free(s)
        <4>1. Alone(s)
          BY <1>0, <2>1, <3>1, SessionIs
             DEF Free, Asked, AskedFlag, LabelMade, Dropped, RowMade, RowGone, TargetPut, FlagPut, NamePut
        <4> QED
          BY <2>3, <4>1 DEF Alone
      <3>2. CASE ~Free(s)
        BY <2>3, <3>2 DEF WholeInv
      <3> QED
        BY <3>1, <3>2
    <2>6. SUFFICES /\ Sound(s)'
                   /\ \A c, d \in cats' : name'[c] = name'[d] => c = d
                   /\ \A r \in Rule : rules'[r] \in cats' \cup {NoKey, "exclude"}
                   /\ fallback' \in cats' \cup {NoKey}
      <3>1. \A t \in Session \ {s} : Free(t)' /\ Sound(t)'
        BY <2>2, <2>5 DEF Free, Sound
      <3> QED
        BY <3>1 DEF WholeInv
    <2>7. CASE Asked(s)
      BY <2>4, <2>7 DEF Asked, Sound, taxonomy, targets
    <2>8. CASE AskedFlag(s)
      BY <2>4, <2>8 DEF AskedFlag, Sound, taxonomy, targets
    <2>9. CASE LabelMade(s)
      BY <2>4, <2>9 DEF LabelMade, Sound, taxonomy, targets
    <2>10. CASE Dropped(s)
      BY <1>0, <2>4, <2>10 DEF Dropped, Sound, taxonomy, targets
    <2>11. CASE RowMade(s)
      <3>1. Sound(s)' /\ UNCHANGED <<rules, fallback>>
        BY <1>0, <2>11 DEF RowMade, Sound, targets
      <3>2. req[s].key \in Key /\ name \in [Key -> Key] /\ cats \subseteq Key
        BY <1>0, <2>11, ReqIs DEF RowMade, CategoryTypeOK, Key
      <3>3. /\ \A c \in cats : name'[c] = name[c] /\ name[c] # req[s].key
            /\ name'[req[s].key] = req[s].key
        BY <2>4, <2>11, <3>2 DEF RowMade, Sound
      <3> QED
        BY <2>4, <2>11, <3>1, <3>3 DEF RowMade
    <2>12. CASE RowGone(s)
      <3>1. Sound(s)' /\ UNCHANGED name
        BY <1>0, <2>12 DEF RowGone, Sound
      <3>2. \A r \in Rule : rules'[r] \in cats' \cup {NoKey, "exclude"}
        BY <2>4, <2>12 DEF RowGone, Sound
      <3>3. fallback' \in cats' \cup {NoKey}
        BY <2>4, <2>12 DEF RowGone, Sound
      <3> QED
        BY <2>4, <2>12, <3>1, <3>2, <3>3 DEF RowGone
    <2>13. CASE TargetPut(s)
      <3>1. req[s].kind = "rule" => req[s].rule \in Rule /\ rules \in [Rule -> Target]
        BY <1>0, ReqIs DEF CategoryTypeOK
      <3>2. Sound(s)' /\ UNCHANGED <<cats, name>>
        BY <1>0, <2>13 DEF TargetPut, Sound, taxonomy
      <3> QED
        BY <2>4, <2>13, <3>1, <3>2 DEF TargetPut, Sound
    <2>14. CASE FlagPut(s)
      BY <1>0, <2>4, <2>14 DEF FlagPut, Sound, targets
    <2>15. CASE NamePut(s)
      <3>1. req[s].key \in Key /\ name \in [Key -> Key] /\ cats \subseteq Key
        BY <1>0, <2>15, ReqIs DEF NamePut, CategoryTypeOK
      <3>2. Sound(s)' /\ UNCHANGED <<cats, rules, fallback>>
        BY <1>0, <2>15 DEF NamePut, Sound, targets
      <3>3. \A c \in cats \ {req[s].key} : name'[c] = name[c] /\ name[c] # req[s].name
        BY <2>4, <2>15, <3>1 DEF NamePut, Sound
      <3>4. req[s].key \in cats => name'[req[s].key] = req[s].name
        BY <2>15, <3>1 DEF NamePut
      <3> QED
        BY <2>4, <3>2, <3>3, <3>4
    <2> QED
      BY <1>0, <2>1, <2>7, <2>8, <2>9, <2>10, <2>11, <2>12, <2>13, <2>14, <2>15, SessionIs
  <1>3. CASE ReleaseHeld \/ Reclassify \/ \E m \in Message : MailComes(m)
    <2>1. UNCHANGED <<circ, cats, name, rules, fallback, req>>
      BY <1>0, <1>3, MailIs DEF taxonomy, targets
    <2> QED
      BY <2>1 DEF WholeInv, Sound, Free
  <1>4. CASE UNCHANGED categoryVars
    <2>1. UNCHANGED <<circ, cats, name, rules, fallback, req>>
      BY <1>4 DEF categoryVars, taxonomy, targets
    <2> QED
      BY <2>1 DEF WholeInv, Sound, Free
  <1>5. CASE \E k \in Key : MakeLabel(k) \/ DeleteLabel(k)
    <2>1. UNCHANGED <<circ, cats, name, rules, fallback, req>>
      BY <1>0, <1>5, CommandIs DEF taxonomy, targets
    <2> QED
      BY <2>1 DEF WholeInv, Sound, Free
  <1> QED
    BY <1>1, <1>2, <1>3, <1>4, <1>5, NextIs

\* TaxonomyIsWhole holds of CategorySpec: a category in use has its label, as long as
\* the label command deletes none, and no two bear one name and nothing names a category that is gone, as long as requests do
\* not overlap (create_category, update_category, delete_category).
THEOREM TaxonomyStaysWhole == CategorySpec => []TaxonomyIsWhole
  <1>1. LabelInv /\ WholeInv => TaxonomyIsWhole
    <2> SUFFICES ASSUME LabelInv, WholeInv PROVE TaxonomyIsWhole
      OBVIOUS
    <2>1. "label" \notin circ => cats \cap Custom \subseteq known
      BY DEF LabelInv, Backed
    <2>2. "overlap" \notin circ => {rules[r] : r \in Rule} \cup {fallback} \subseteq cats \cup {NoKey, "exclude"}
      BY DEF WholeInv
    <2> QED
      BY <2>1, <2>2 DEF WholeInv, TaxonomyIsWhole
  <1> QED
    BY <1>1, WholeInit, WholeStep, LabelInit, LabelStep, TypedInit, TypedStep, PTL DEF CategorySpec

-----------------------------------------------------------------------------
(* The inbox *)

Steady == {"flips", "growth", "lookups", "label", "services", "crash"} \cap circ = {}

Flips(s) == req[s].kind = "archive"
Syncing(w) == task[w].kind = "sync"

\* A flag that is set and not being cleared, or being set.
WantedLabel(k) ==
    \/ \E s \in Session : Flips(s) /\ req[s].key = k /\ req[s].leaves
    \/ k \in archive /\ \A s \in Session : Flips(s) /\ req[s].key = k => req[s].leaves

\* A sync will take the message out of the inbox.
Leaving(m, k) ==
    \/ \E y \in syncs : y.key = k /\ y.archive
    \/ \E w \in Worker : Syncing(w) /\ task[w].job.key = k /\ task[w].job.archive /\ m \in task[w].ids

\* What a sync puts back has no other label of the taxonomy, and nobody wants
\* it out of the inbox.
PutsBack(y) ==
    \A m \in mail : ~y.archive /\ y.key \in labels[m] =>
        ~WantedLabel(y.key) /\ \A j \in labels[m] \cap cats : j = y.key

OneFlip == \A s, t \in Session : Flips(s) /\ Flips(t) => s = t

Snapshots ==
    \A w \in Worker : task[w].kind = "classify" =>
        ~Flipping /\ ~PuttingBack /\ task[w].cats \cap archive \subseteq task[w].archive

MailLeaves ==
    \A m \in mail : \A k \in labels[m] \cap cats :
        m \in inbox \ astray /\ WantedLabel(k) => Leaving(m, k)

MailReturns ==
    /\ \A y \in syncs : PutsBack(y)
    /\ \A w \in Worker : Syncing(w) =>
          /\ PutsBack(task[w].job)
          /\ ~task[w].job.archive => \A m \in task[w].ids : task[w].job.key \in labels[m]

InboxInv == Steady => OneFlip /\ Snapshots /\ MailLeaves /\ MailReturns

LEMMA InboxInit == CategoryInit => InboxInv
  <1> SUFFICES ASSUME CategoryInit PROVE InboxInv
    OBVIOUS
  <1>1. (\A w \in Worker : task[w].kind = "idle") /\ \A s \in Session : req[s].kind = "idle"
    BY NoneIs DEF CategoryInit
  <1>2. mail = {} /\ syncs = {}
    BY DEF CategoryInit
  <1> QED
    BY <1>1, <1>2 DEF InboxInv, OneFlip, Snapshots, MailLeaves, MailReturns, Flips, Syncing

LEMMA InboxWorker ==
    ASSUME CategoryTyped, OneInv, InboxInv, Steady, NEW w \in Worker, WorkerStep(w)
    PROVE  InboxInv'
  <1>0. /\ CategoryTypeOK /\ NoTask.kind = "idle" /\ mail \subseteq Message
        /\ "services" \notin circ /\ "flips" \notin circ /\ "growth" \notin circ
        /\ Overlooked(task[w]) = {{}} /\ OneFlip /\ Snapshots /\ MailLeaves /\ MailReturns
    BY NoneIs DEF CategoryTyped, CategoryTypeOK, Steady, InboxInv, Overlooked
  <1>1. /\ UNCHANGED <<circ, cats, archive, mail, req>>
        /\ \A v \in Worker \ {w} : task'[v] = task[v]
    BY <1>0, WorkerFrame DEF taxonomy
  <1>2. (\A k : WantedLabel(k)' <=> WantedLabel(k)) /\ (Flipping' <=> Flipping) /\ OneFlip'
    BY <1>0, <1>1 DEF WantedLabel, Flipping, Flips, OneFlip
  <1>3. syncs' \subseteq syncs
    BY <1>0, WorkerIs DEF Read, LeftAlone, Filed, Listed, Moved, Unmoved
  <1>4. PuttingBack' => PuttingBack
    <2>1. task'[w].kind = "sync" => task'[w].job \in syncs
      BY <1>0, WorkerIs DEF Read, LeftAlone, Filed, Listed, Moved, Unmoved
    <2> QED
      BY <1>1, <1>3, <2>1 DEF PuttingBack
  <1>5. Snapshots'
    <2>1. task'[w].kind = "classify" => Read(w)
      BY <1>0, ReadsOnly
    <2>2. task'[w].kind = "classify" =>
             ~Flipping' /\ ~PuttingBack' /\ task'[w].cats \cap archive' \subseteq task'[w].archive
      BY <1>0, <1>1, <1>2, <1>4, <2>1 DEF Read
    <2> QED
      BY <1>0, <1>1, <1>2, <1>4, <2>2 DEF Snapshots
  <1>7. CASE Filed(w)
    <2>1. task[w].kind = "classify" /\ ~Syncing(w) /\ ~Syncing(w)' /\ syncs' = syncs
      BY <1>0, <1>7 DEF Filed, Syncing
    <2>2. ~PuttingBack /\ ~Flipping /\ task[w].cats \cap archive \subseteq task[w].archive
      BY <1>0, <2>1 DEF Snapshots
    <2>3. MailReturns'
      <3>1. \A y \in syncs : y.archive
        BY <2>2 DEF PuttingBack
      <3>2. \A v \in Worker : task'[v].kind = "sync" => task'[v].job.archive
        BY <1>1, <2>1, <2>2 DEF PuttingBack, Syncing
      <3>3. \A y \in syncs' : PutsBack(y)'
        BY <2>1, <3>1 DEF PutsBack
      <3>4. \A v \in Worker : Syncing(v)' => PutsBack(task[v].job)'
        BY <3>2 DEF PutsBack, Syncing
      <3> QED
        BY <3>2, <3>3, <3>4 DEF MailReturns, Syncing
    <2>4. PICK k \in task[w].cats \cap known :
            /\ labels' = Labelled(task[w], k, {})
            /\ \/ /\ k \in task[w].archive
                  /\ inbox' = inbox \ Mates(task[w].msg) /\ astray' = astray \ Mates(task[w].msg)
               \/ k \notin task[w].archive /\ UNCHANGED <<inbox, astray>>
      BY <1>0, <1>7 DEF Filed
    <2>5. \A n \in Message :
            /\ n \in Mates(task[w].msg) => labels'[n] = (labels[n] \ (task[w].cats \ {})) \cup {k}
            /\ n \notin Mates(task[w].msg) => labels'[n] = labels[n]
      BY <1>0, <2>1, <2>4, LabelledIs
    <2>6. SUFFICES ASSUME NEW m \in mail, NEW j \in labels'[m] \cap cats, m \in inbox' \ astray',
                          WantedLabel(j)
                   PROVE  Leaving(m, j)'
      BY <1>1, <1>2, <1>5, <2>3 DEF InboxInv, MailLeaves
    <2>7. m \in inbox \ astray /\ m \in Message
      BY <1>0, <2>4, <2>6
    <2>8. j \in archive
      BY <2>2, <2>6 DEF WantedLabel, Flipping, Flips
    <2>9. j \in labels[m]
      <3>1. SUFFICES ASSUME j \notin labels[m] PROVE FALSE
        OBVIOUS
      <3>2. m \in Mates(task[w].msg) /\ j = k
        BY <2>5, <2>6, <2>7, <3>1
      <3>3. k \in task[w].archive
        BY <2>2, <2>8, <3>2
      <3> QED
        BY <2>4, <2>6, <3>2, <3>3
    <2>10. Leaving(m, j)
      BY <1>0, <2>6, <2>7, <2>9 DEF MailLeaves
    <2> QED
      BY <1>1, <2>1, <2>10 DEF Leaving, Syncing
  <1>6. CASE UNCHANGED labels
    <2>1. \A y : PutsBack(y) => PutsBack(y)'
      BY <1>1, <1>2, <1>6 DEF PutsBack
    <2>2. \A y \in syncs' : PutsBack(y)'
      BY <1>0, <1>3, <2>1 DEF MailReturns
    <2>3. task'[w].kind = "sync" => Listed(w)
      BY <1>0, WorkerIs DEF Read, LeftAlone, Filed, Moved, Unmoved
    <2>4. task'[w].kind = "sync" =>
              /\ PutsBack(task[w].job)'
              /\ ~task'[w].job.archive => \A m \in task'[w].ids : task'[w].job.key \in labels'[m]
      <3>1. task'[w].kind = "sync" => task'[w].job \in syncs
        BY <2>3 DEF Listed
      <3>2. task'[w].kind = "sync" => PutsBack(task'[w].job)
        BY <1>0, <3>1 DEF MailReturns
      <3>3. task'[w].kind = "sync" => PutsBack(task[w].job)'
        BY <1>1, <1>2, <1>6, <3>2 DEF PutsBack
      <3> QED
        BY <1>6, <2>3, <3>3 DEF Listed, WrongSide
    <2>5. \A v \in Worker \ {w} : task'[v].kind = "sync" =>
              /\ PutsBack(task[v].job)'
              /\ ~task'[v].job.archive => \A m \in task'[v].ids : task'[v].job.key \in labels'[m]
      <3>1. \A v \in Worker \ {w} : task'[v].kind = "sync" =>
               /\ PutsBack(task[v].job)
               /\ ~task[v].job.archive => \A m \in task[v].ids : task[v].job.key \in labels[m]
        BY <1>0, <1>1 DEF MailReturns, Syncing
      <3>2. \A v \in Worker \ {w} : PutsBack(task[v].job) => PutsBack(task[v].job)'
        BY <1>1, <1>2, <1>6 DEF PutsBack
      <3> QED
        BY <1>1, <1>6, <3>1, <3>2
    <2>6. MailReturns'
      BY <2>2, <2>4, <2>5 DEF MailReturns, Syncing
    <2>7. CASE Read(w) \/ LeftAlone(w)
      <3>1. ~Syncing(w) /\ UNCHANGED <<inbox, astray, syncs>>
        BY <2>7 DEF Read, LeftAlone, Idle, Syncing
      <3>2. \A m, k : Leaving(m, k) => Leaving(m, k)'
        BY <1>1, <3>1 DEF Leaving, Syncing
      <3>3. MailLeaves'
        BY <1>0, <1>1, <1>2, <1>6, <3>1, <3>2 DEF MailLeaves
      <3> QED
        BY <1>1, <1>2, <1>5, <2>6, <3>3 DEF InboxInv
    <2>8. CASE Listed(w)
      <3>1. \A m \in mail : \A k \in labels[m] :
               m \in inbox \ astray' /\ Leaving(m, k) => Leaving(m, k)'
        <4>1. SUFFICES ASSUME NEW m \in mail, NEW k \in labels[m], m \in inbox \ astray', Leaving(m, k)
                       PROVE  Leaving(m, k)'
          OBVIOUS
        <4>2. CASE \E y \in syncs : y.key = k /\ y.archive
          <5>1. PICK y \in syncs : y.key = k /\ y.archive
            BY <4>2
          <5>2. CASE y \in syncs'
            BY <5>1, <5>2 DEF Leaving
          <5>3. CASE y = task'[w].job
            <6>1. m \in task'[w].ids
              BY <2>8, <4>1, <5>1, <5>3 DEF Listed, WrongSide
            <6> QED
              BY <2>8, <5>1, <5>3, <6>1 DEF Listed, Leaving, Syncing
          <5> QED
            BY <2>8, <5>1, <5>2, <5>3 DEF Listed
        <4>3. CASE \E v \in Worker : Syncing(v) /\ task[v].job.key = k /\ task[v].job.archive /\ m \in task[v].ids
          <5>1. PICK v \in Worker : Syncing(v) /\ task[v].job.key = k /\ task[v].job.archive /\ m \in task[v].ids
            BY <4>3
          <5>2. v # w
            BY <2>8, <5>1 DEF Listed, Idle, Syncing
          <5> QED
            BY <1>1, <5>1, <5>2 DEF Leaving, Syncing
        <4> QED
          BY <4>1, <4>2, <4>3 DEF Leaving
      <3>2. MailLeaves'
        <4>1. inbox' = inbox /\ astray \subseteq astray'
          BY <2>8 DEF Listed
        <4> QED
          BY <1>0, <1>1, <1>2, <1>6, <3>1, <4>1 DEF MailLeaves
      <3> QED
        BY <1>1, <1>2, <1>5, <2>6, <3>2 DEF InboxInv
    <2>9. CASE Moved(w)
      <3>1. syncs' = syncs
        BY <2>9 DEF Moved
      <3>2. SUFFICES ASSUME NEW m \in mail, NEW k \in labels[m] \cap cats,
                            m \in inbox' \ astray', WantedLabel(k)
                     PROVE  Leaving(m, k)'
        BY <1>1, <1>2, <1>5, <1>6, <2>6 DEF InboxInv, MailLeaves
      <3>6. m \notin astray
        BY <2>9, <3>2 DEF Moved
      <3>3. m \in inbox
        <4>1. SUFFICES ASSUME m \notin inbox PROVE FALSE
          OBVIOUS
        <4>2. ~task[w].job.archive /\ m \in task[w].ids
          BY <2>9, <3>2, <4>1 DEF Moved
        <4>3. task[w].job.key \in labels[m] /\ PutsBack(task[w].job)
          BY <1>0, <2>9, <4>2 DEF MailReturns, Moved, Syncing
        <4> QED
          BY <3>2, <4>2, <4>3 DEF PutsBack
      <3>4. Leaving(m, k)
        BY <1>0, <3>2, <3>3, <3>6 DEF MailLeaves
      <3>5. ~(task[w].job.archive /\ m \in task[w].ids)
        BY <2>9, <3>2 DEF Moved
      <3> QED
        BY <1>1, <3>1, <3>4, <3>5 DEF Leaving, Syncing
    <2> QED
      BY <1>0, <1>7, <2>7, <2>8, <2>9, WorkerIs DEF Unmoved
  <1> QED
    BY <1>0, <1>6, <1>7, WorkerIs DEF Read, LeftAlone, Listed, Moved, Unmoved

\* A request that queues no sync, and after which no more is wanted of the mail
\* there is, leaves the mail on its side of the inbox.
LEMMA InboxKept ==
    ASSUME InboxInv, Steady, UNCHANGED <<circ, mail, labels, inbox, astray, syncs, task>>,
           \A m \in mail : \A j \in labels[m] : (j \in cats' => j \in cats) /\ (WantedLabel(j)' => WantedLabel(j)),
           OneFlip', Snapshots'
    PROVE  InboxInv'
  <1>0. MailLeaves /\ MailReturns
    BY DEF InboxInv
  <1>1. \A m, k : Leaving(m, k)' <=> Leaving(m, k)
    BY DEF Leaving, Syncing
  <1>2. MailLeaves'
    BY <1>0, <1>1 DEF MailLeaves
  <1>3. \A y : PutsBack(y) => PutsBack(y)'
    BY DEF PutsBack
  <1>4. \A y \in syncs' : PutsBack(y)'
    BY <1>0, <1>3 DEF MailReturns
  <1>5. \A w \in Worker : PutsBack(task[w].job) => PutsBack(task[w].job)'
    BY DEF PutsBack
  <1>6. MailReturns'
    BY <1>0, <1>4, <1>5 DEF MailReturns, Syncing
  <1> QED
    BY <1>2, <1>6 DEF InboxInv

LEMMA InboxSession ==
    ASSUME CategoryTyped, LabelInv, OneInv, InboxInv, Steady, NEW s \in Session, Request(s)
    PROVE  InboxInv'
  <1>0. /\ CategoryTypeOK /\ NoReq.kind = "idle" /\ mail \subseteq Message
        /\ "crash" \notin circ /\ "flips" \notin circ /\ "growth" \notin circ
        /\ Backed /\ OneWorn /\ OneFlip /\ Snapshots /\ MailLeaves /\ MailReturns
    BY NoneIs DEF CategoryTyped, CategoryTypeOK, Steady, InboxInv, LabelInv, OneInv, Exact
  <1>1. /\ UNCHANGED <<circ, mail, labels, inbox, astray, task>>
        /\ \A t \in Session \ {s} : req'[t] = req[t]
    BY <1>0, SessionFrame
  <1>2. ASSUME syncs' = syncs, ~Flips(s), ~Flips(s)',
               Loaded = {} \/ archive' \subseteq archive,
               \A m \in mail : \A j \in labels[m] :
                   (j \in cats' => j \in cats) /\ (j \in archive' => j \in archive)
        PROVE  InboxInv'
    <2>1. \A t \in Session : /\ Flips(t)' <=> Flips(t)
                             /\ Flips(t) => req'[t] = req[t]
      BY <1>1, <1>2 DEF Flips
    <2>2. OneFlip' /\ (Flipping' <=> Flipping) /\ (PuttingBack' <=> PuttingBack)
      BY <1>0, <1>1, <1>2, <2>1 DEF OneFlip, Flipping, Flips, PuttingBack
    <2>3. \A j : (j \in archive' => j \in archive) => (WantedLabel(j)' => WantedLabel(j))
      BY <2>1 DEF WantedLabel
    <2>4. \A m \in mail : \A j \in labels[m] : (j \in cats' => j \in cats) /\ (WantedLabel(j)' => WantedLabel(j))
      BY <1>2, <2>3
    <2>5. Snapshots'
      BY <1>0, <1>1, <1>2, <2>2 DEF Snapshots, Loaded
    <2> QED
      BY <1>1, <1>2, <2>2, <2>4, <2>5, InboxKept
  <1>3. CASE Asked(s)
    <2>1. ~Flips(s) /\ ~Flips(s)' /\ UNCHANGED <<syncs, cats, archive>>
      BY <1>3 DEF Asked, Free, Flips, taxonomy
    <2> QED
      BY <1>2, <2>1
  <1>4. CASE LabelMade(s) \/ Dropped(s) \/ NamePut(s)
    <2>1. ~Flips(s) /\ ~Flips(s)' /\ UNCHANGED <<syncs, cats, archive>>
      BY <1>0, <1>4 DEF LabelMade, Dropped, NamePut, Flips, taxonomy
    <2> QED
      BY <1>2, <2>1
  <1>5. CASE TargetPut(s)
    <2>1. ~Flips(s) /\ ~Flips(s)' /\ UNCHANGED <<syncs, cats, archive>>
      BY <1>0, <1>5 DEF TargetPut, Flips, taxonomy
    <2> QED
      BY <1>2, <2>1
  <1>6. CASE RowGone(s)
    <2>1. ~Flips(s) /\ ~Flips(s)' /\ syncs' = syncs /\ cats' \subseteq cats /\ archive' \subseteq archive
      BY <1>0, <1>6 DEF RowGone, Flips
    <2> QED
      BY <1>2, <2>1
  <1>7. CASE RowMade(s)
    <2>1. ~Flips(s) /\ ~Flips(s)' /\ syncs' = syncs /\ Loaded = {}
      BY <1>0, <1>7 DEF RowMade, Flips
    <2>2. \A m \in mail : req[s].key \notin labels[m]
      BY <1>0, <1>7 DEF RowMade, Backed, Labelling, Fresh
    <2>3. cats' = cats \cup {req[s].key} /\ archive' \subseteq archive \cup {req[s].key}
      BY <1>7 DEF RowMade
    <2>4. \A m \in mail : \A j \in labels[m] :
             (j \in cats' => j \in cats) /\ (j \in archive' => j \in archive)
      BY <2>2, <2>3
    <2> QED
      BY <1>2, <2>1, <2>4
  <1>8. CASE FlagPut(s)
    <2>1. /\ Flips(s) /\ ~Flips(s)' /\ UNCHANGED <<syncs, cats>>
          /\ archive' = IF req[s].key \in cats /\ req[s].leaves
                        THEN archive \cup {req[s].key} ELSE archive \ {req[s].key}
      BY <1>0, <1>8 DEF FlagPut, Flips
    <2>2. \A t \in Session : (Flips(t) => t = s) /\ ~Flips(t)'
      BY <1>0, <1>1, <2>1 DEF OneFlip, Flips
    <2>3. OneFlip'
      BY <2>2 DEF OneFlip
    <2>4. \A j : WantedLabel(j)' => j \in archive'
      BY <2>2 DEF WantedLabel
    <2>5. \A j : j \in archive' => WantedLabel(j)
      BY <2>1, <2>2 DEF WantedLabel
    <2>6. \A w \in Worker : task'[w].kind # "classify"
      BY <1>0, <1>1, <2>1 DEF Snapshots, Flipping, Flips
    <2>7. Snapshots'
      BY <2>6 DEF Snapshots
    <2>8. \A m \in mail : \A j \in labels[m] : (j \in cats' => j \in cats) /\ (WantedLabel(j)' => WantedLabel(j))
      BY <2>1, <2>4, <2>5
    <2> QED
      BY <1>1, <2>1, <2>3, <2>7, <2>8, InboxKept
  <1>9. CASE AskedFlag(s)
    <2>20. PICK k \in cats : k = req'[s].key
      BY <1>9 DEF AskedFlag
    <2>21. PICK y \in syncs' : y = [key |-> k, archive |-> req'[s].leaves]
      BY <1>9, <2>20 DEF AskedFlag
    <2>1. ~Flipping /\ syncs = {} /\ \A w \in Worker : task[w].kind = "idle"
      BY <1>0, <1>9 DEF AskedFlag, NoFlagInHand, Idle
    <2>2. k \in cats /\ Flips(s)' /\ syncs' = {y} /\ UNCHANGED <<cats, archive>>
      BY <1>9, <2>1, <2>20, <2>21 DEF AskedFlag, Flips, taxonomy
    <2>3. \A t \in Session : ~Flips(t) /\ (Flips(t)' => t = s)
      BY <1>1, <2>1 DEF Flipping, Flips
    <2>4. y.key = k /\ y.archive = req'[s].leaves
      BY <2>21
    <2>5. OneFlip'
      BY <2>3 DEF OneFlip
    <2>6. \A w \in Worker : ~Syncing(w)' /\ task'[w].kind # "classify" /\ ~Syncing(w)
      BY <1>1, <2>1 DEF Syncing
    <2>7. Snapshots'
      BY <2>6 DEF Snapshots
    <2>8. WantedLabel(k)' => req'[s].leaves
      BY <2>2, <2>3, <2>20 DEF WantedLabel
    <2>9. PutsBack(y)'
      <3>1. \A m \in mail : \A j \in labels[m] \cap cats : k \in labels[m] => j = k
        BY <1>0, <2>2 DEF OneWorn
      <3> QED
        BY <1>1, <2>2, <2>4, <2>8, <3>1 DEF PutsBack
    <2>10. MailReturns'
      BY <2>2, <2>6, <2>9 DEF MailReturns
    <2>11. MailLeaves'
      <3>1. SUFFICES ASSUME NEW m \in mail, NEW j \in labels[m] \cap cats,
                            m \in inbox \ astray, WantedLabel(j)'
                     PROVE  Leaving(m, j)'
        BY <1>1, <2>2 DEF MailLeaves
      <3>2. CASE j = k
        BY <2>2, <2>4, <2>8, <3>1, <3>2 DEF Leaving
      <3>3. CASE j # k
        <4>1. j \in archive
          BY <2>2, <2>3, <2>20, <3>1, <3>3 DEF WantedLabel
        <4>2. WantedLabel(j)
          BY <2>3, <4>1 DEF WantedLabel
        <4>3. Leaving(m, j)
          BY <1>0, <3>1, <4>2 DEF MailLeaves
        <4> QED
          BY <2>1, <2>6, <4>3 DEF Leaving
      <3> QED
        BY <3>2, <3>3
    <2> QED
      BY <2>5, <2>7, <2>10, <2>11 DEF InboxInv
  <1> QED
    BY <1>0, <1>3, <1>4, <1>5, <1>6, <1>7, <1>8, <1>9, SessionIs

LEMMA InboxStep == CategoryTyped /\ LabelInv /\ OneInv /\ InboxInv /\ [CategoryNext]_categoryVars => InboxInv'
  <1> SUFFICES ASSUME CategoryTyped, LabelInv, OneInv, InboxInv, [CategoryNext]_categoryVars PROVE InboxInv'
    OBVIOUS
  <1>0. CategoryTypeOK
    BY DEF CategoryTyped
  <1>1. CASE \E w \in Worker : WorkerStep(w)
    <2>1. PICK w \in Worker : WorkerStep(w)
      BY <1>1
    <2>2. circ' = circ
      BY <1>0, <2>1, WorkerFrame
    <2>3. CASE Steady
      BY <2>1, <2>3, InboxWorker
    <2> QED
      BY <2>2, <2>3 DEF InboxInv, Steady
  <1>2. CASE \E s \in Session : Request(s)
    <2>1. PICK s \in Session : Request(s)
      BY <1>2
    <2>2. circ' = circ
      BY <1>0, <2>1, SessionFrame
    <2>3. CASE Steady
      BY <2>1, <2>3, InboxSession
    <2> QED
      BY <2>2, <2>3 DEF InboxInv, Steady
  <1>3. CASE ReleaseHeld \/ Reclassify \/ \E m \in Message : MailComes(m)
    <2>1. UNCHANGED <<circ, cats, archive, labels, syncs, task, req>>
      BY <1>0, <1>3, MailIs DEF taxonomy
    <2>3. SUFFICES ASSUME Steady, OneFlip, Snapshots, MailLeaves, MailReturns PROVE InboxInv'
      BY <2>1 DEF InboxInv, Steady
    <2>2. \A m \in mail' : \/ m \in mail /\ (m \in inbox' \ astray' => m \in inbox \ astray)
                           \/ labels'[m] = {}
      <3>1. Backed
        BY <2>3 DEF Steady, LabelInv
      <3>2. /\ mail' \subseteq Message /\ astray \subseteq astray'
            /\ \A m \in inbox' \ astray' : m \in inbox \/ m \notin mail \/ labels[m] = {}
        BY <1>0, <1>3, MailIs
      <3> QED
        BY <2>1, <3>1, <3>2 DEF Backed
    <2>4. (\A j : WantedLabel(j)' <=> WantedLabel(j)) /\ \A m, j : Leaving(m, j)' <=> Leaving(m, j)
      BY <2>1 DEF WantedLabel, Leaving, Flips, Syncing
    <2>5. OneFlip' /\ Snapshots'
      BY <2>1, <2>3 DEF OneFlip, Snapshots, Flips, Flipping, PuttingBack
    <2>6. MailLeaves'
      BY <2>1, <2>2, <2>3, <2>4 DEF MailLeaves
    <2>7. \A y : PutsBack(y) => PutsBack(y)'
      BY <2>1, <2>2, <2>4 DEF PutsBack
    <2>8. \A y \in syncs' : PutsBack(y)'
      BY <2>1, <2>3, <2>7 DEF MailReturns
    <2>9. \A w \in Worker : PutsBack(task[w].job) => PutsBack(task[w].job)'
      BY <2>1, <2>2, <2>4 DEF PutsBack
    <2>10. MailReturns'
      BY <2>1, <2>3, <2>8, <2>9 DEF MailReturns, Syncing
    <2> QED
      BY <2>5, <2>6, <2>10 DEF InboxInv
  <1>4. CASE UNCHANGED categoryVars
    <2>1. UNCHANGED <<circ, cats, archive, mail, inbox, astray, labels, syncs, task, req>>
      BY <1>4 DEF categoryVars, taxonomy, gmail, queues
    <2>2. CASE Steady
      <3>1. OneFlip' /\ Snapshots'
        BY <2>1, <2>2 DEF InboxInv, OneFlip, Snapshots, Flips, Flipping, PuttingBack
      <3>2. \A j : WantedLabel(j)' <=> WantedLabel(j)
        BY <2>1 DEF WantedLabel, Flips
      <3> QED
        BY <2>1, <2>2, <3>1, <3>2, InboxKept
    <2> QED
      BY <2>1, <2>2 DEF InboxInv, Steady
  <1>5. CASE \E k \in Key : MakeLabel(k) \/ DeleteLabel(k)
    BY <1>0, <1>5, CommandIs DEF InboxInv, Steady
  <1> QED
    BY <1>1, <1>2, <1>3, <1>4, <1>5, NextIs

LEMMA InboxIs == CategoryTyped /\ InboxInv => InboxFollowsCategory
  <1> SUFFICES ASSUME CategoryTyped, InboxInv, Steady, NoFlagInHand,
                      NEW m \in mail \ astray, NEW k \in labels[m] \cap archive, m \in inbox
               PROVE  FALSE
    BY DEF InboxFollowsCategory, Steady
  <1>1. ~Leaving(m, k)
    BY DEF NoFlagInHand, Leaving, Idle, Syncing
  <1>2. WantedLabel(k)
    BY DEF NoFlagInHand, WantedLabel, Flips, Flipping
  <1>3. k \in cats
    BY DEF CategoryTyped, CategoryTypeOK
  <1> QED
    BY <1>1, <1>2, <1>3 DEF InboxInv, MailLeaves

\* InboxFollowsCategory holds of CategorySpec: when no flag is in hand, mail that wears
\* the label of a category that leaves the inbox is out of it, labelled before
\* the flag was set or after (sync_category_inbox.py:4-7), but for what a sync
\* of SYNC_MAX messages passed over and what Mailman released since.
THEOREM MailFollowsCategory == CategorySpec => []InboxFollowsCategory
  BY InboxIs, InboxInit, InboxStep, OneInit, OneStep, LabelInit, LabelStep,
     TypedInit, TypedStep, PTL DEF CategorySpec
=============================================================================
