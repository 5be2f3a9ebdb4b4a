----------------------------- MODULE DraftsProofs -----------------------------
(***************************************************************************)
(* Theorems about Drafts, for any mailbox, task runs, allowance, ceilings, *)
(* months and circumstances: the types, that the counters stay within the  *)
(* allowance and hold every draft, and that a message is drafted for once. *)
(***************************************************************************)
EXTENDS Drafts, FiniteSetTheorems, TLAPS

-----------------------------------------------------------------------------
(* Numbers and sets *)

\* A non-empty finite set of naturals has a greatest member.
LEMMA Greatest ==
    ASSUME NEW S \in SUBSET Nat, IsFiniteSet(S), S # {}
    PROVE  Max(S) \in S /\ \A y \in S : y <= Max(S)
  <1> DEFINE Topped(U) == \E x \in U : \A y \in U : x >= y
             Bare == {U \in SUBSET S : U # {} /\ ~Topped(U)}
  <1>1. Bare = {}
    <2> SUFFICES ASSUME Bare # {} PROVE FALSE
      OBVIOUS
    <2>1. SUBSET S = FiniteSubsetsOf(S)
      BY FS_FiniteSubsetsOfFinite
    <2>2. IsWellFoundedOn(StrictSubsetOrdering(S), SUBSET S)
      BY <2>1, FS_StrictSubsetOrderingWellFounded
    <2>3. PICK U \in Bare : \A V \in Bare : <<V, U>> \notin StrictSubsetOrdering(S)
      BY <2>2, WFMin
    <2>4. PICK x \in U : TRUE
      OBVIOUS
    <2>5. <<U \ {x}, U>> \in StrictSubsetOrdering(S)
      BY DEF StrictSubsetOrdering
    <2>6. U \ {x} \notin Bare
      BY <2>3, <2>5
    <2>7. U \ {x} = {} \/ Topped(U \ {x})
      BY <2>6
    <2>8. U \subseteq Nat /\ ~Topped(U)
      OBVIOUS
    <2>9. CASE U \ {x} = {}
      <3>1. \A y \in U : x >= y
        BY <2>8, <2>9
      <3> QED
        BY <2>8, <3>1
    <2>10. CASE Topped(U \ {x})
      <3>1. PICK z \in U \ {x} : \A y \in U \ {x} : z >= y
        BY <2>10
      <3>2. x \in Nat /\ z \in Nat
        BY <2>8
      <3>3. \A y \in U : y = x \/ z >= y
        BY <3>1
      <3>4. CASE z >= x
        BY <2>8, <3>1, <3>3, <3>4
      <3>5. CASE x >= z
        <4>1. \A y \in U : x >= y
          BY <2>8, <3>2, <3>3, <3>5
        <4> QED
          BY <2>8, <4>1
      <3> QED
        BY <3>2, <3>4, <3>5
    <2> QED
      BY <2>7, <2>9, <2>10
  <1>2. \E x \in S : \A y \in S : x >= y
    BY <1>1
  <1> QED
    BY <1>2 DEF Max

LEMMA Least ==
    ASSUME NEW a \in Nat, NEW b \in Nat
    PROVE  Min({a, b}) \in Nat
  <1>1. \E x \in {a, b} : \A y \in {a, b} : x =< y
    OBVIOUS
  <1> QED
    BY <1>1 DEF Min

LEMMA Most ==
    ASSUME NEW b \in Int
    PROVE  Max({0, b}) \in Nat
  <1>1. \E x \in {0, b} : \A y \in {0, b} : x >= y
    OBVIOUS
  <1>2. Max({0, b}) \in {0, b} /\ \A y \in {0, b} : Max({0, b}) >= y
    BY <1>1 DEF Max
  <1> QED
    BY <1>2

\* One more of one of them is one more in all.
LEMMA TotalUp ==
    ASSUME NEW S, NEW f \in [S -> Nat], IsFiniteSet(Units(f)), NEW x \in S
    PROVE  LET g == [f EXCEPT ![x] = @ + 1]
           IN IsFiniteSet(Units(g)) /\ Total(g) = Total(f) + 1
  <1> DEFINE g == [f EXCEPT ![x] = @ + 1]
             u == <<x, f[x] + 1>>
  <1>1. g \in [S -> Nat] /\ g[x] = f[x] + 1 /\ \A y \in S \ {x} : g[y] = f[y]
    OBVIOUS
  <1>2. \A y, k : <<y, k>> \in Units(f) <=> y \in S /\ k \in 1 .. f[y]
    BY DEF Units
  <1>3. \A y, k : <<y, k>> \in Units(g) <=> y \in S /\ k \in 1 .. g[y]
    BY <1>1 DEF Units
  <1>4. \A z : z \in Units(f) \/ z \in Units(g) => \E y, k : z = <<y, k>>
    BY DEF Units
  <1> HIDE DEF g
  <1>5. f[x] \in Nat
    OBVIOUS
  <1>6. \A k : k \in 1 .. g[x] <=> k \in 1 .. f[x] \/ k = f[x] + 1
    BY <1>1, <1>5
  <1>7. \A y, k : <<y, k>> \in Units(g) <=> <<y, k>> \in Units(f) \/ <<y, k>> = u
    BY <1>1, <1>2, <1>3, <1>6
  <1>8. \A z : z \in Units(g) <=> z \in Units(f) \/ z = u
    BY <1>4, <1>7
  <1>9. Units(g) = Units(f) \cup {u}
    BY <1>8
  <1>10. u \notin Units(f)
    BY <1>2, <1>5
  <1>11. IsFiniteSet(Units(g)) /\ Cardinality(Units(g)) = Cardinality(Units(f)) + 1
    BY <1>9, <1>10, FS_AddElement
  <1> QED
    BY <1>11 DEF g, Total

-----------------------------------------------------------------------------
(* Types *)

\* A pass that is about to write has a message in hand and room for a draft.
Drafting(p) == pc[p] \in {"write", "mark", "meter"}

Typed ==
    /\ TypeOK
    /\ \A p \in Pass : Drafting(p) => pass[p].left # {} /\ pass[p].created < pass[p].limit
    /\ \A p \in Pass : pc[p] = "load" => pass[p].created = 0

LEMMA InHandIs ==
    ASSUME Typed, NEW p \in Pass, pass[p].left # {}
    PROVE  InHand(p) \in pass[p].left /\ InHand(p) \in Message
  <1>1. pass[p].left \subseteq Message
    BY DEF Typed, TypeOK, PassType
  <1>2. pass[p].left \in SUBSET Nat /\ IsFiniteSet(pass[p].left)
    BY <1>1, DraftsAssumption, FS_Subset
  <1> QED
    BY <1>1, <1>2, Greatest DEF InHand

LEMMA LimitIs ==
    ASSUME TypeOK, NEW kind \in Kind
    PROVE  Limit(kind) \in Nat
  <1>1. used[month] \in Nat /\ Allowance \in Nat
    BY DraftsAssumption DEF TypeOK
  <1>2. Remaining \in Nat
    BY <1>1, Most DEF Remaining
  <1>3. SweepCeiling \in Nat /\ NudgeCeiling \in Nat
    BY DraftsAssumption
  <1>4. PICK ceiling \in Nat : ceiling = IF kind = "sweep" THEN SweepCeiling ELSE NudgeCeiling
    BY <1>3
  <1>5. Min({ceiling, Remaining}) \in Nat
    BY <1>2, <1>4, Least
  <1> QED
    BY <1>4, <1>5 DEF Limit

\* A pass leaves the other passes alone.
LEMMA PassFrame ==
    ASSUME TypeOK, NEW p \in Pass, PassStep(p)
    PROVE  /\ circ' = circ /\ mail' = mail /\ UNCHANGED user /\ month' = month
           /\ \A q \in Pass \ {p} : pc'[q] = pc[q] /\ pass'[q] = pass[q]
  <1>1. CASE (\E kind \in Kind : Start(p, kind)) \/ LoadDue(p) \/ Stamp(p) \/ LookUpReplied(p)
    BY <1>1 DEF Start, LoadDue, Stamp, LookUpReplied, Goto, TypeOK, box
  <1>2. CASE QueryCategory(p) \/ FindQuiet(p) \/ PassEnds(p) \/ Consider(p)
    BY <1>2 DEF QueryCategory, FindQuiet, PassEnds, Consider, Drop, Goto, TypeOK, box
  <1>3. CASE Decline(p) \/ WriteFails(p) \/ CreateDraft(p) \/ MarkDrafted(p)
    BY <1>3 DEF Decline, WriteFails, CreateDraft, MarkDrafted, Drop, Goto, TypeOK, box
  <1>4. CASE MeterDraft(p) \/ Release(p) \/ Crash(p)
    BY <1>4 DEF MeterDraft, Release, Crash, Goto, TypeOK, box
  <1> QED
    BY <1>1, <1>2, <1>3, <1>4 DEF PassStep

LEMMA PassDomain ==
    ASSUME TypeOK, NEW p \in Pass, PassStep(p)
    PROVE  /\ pc' = [q \in Pass |-> pc'[q]] /\ pass' = [q \in Pass |-> pass'[q]]
  <1>0. pc = [q \in Pass |-> pc[q]] /\ pass = [q \in Pass |-> pass[q]]
    BY DEF TypeOK
  <1>1. CASE (\E kind \in Kind : Start(p, kind)) \/ LoadDue(p) \/ Stamp(p) \/ LookUpReplied(p)
    BY <1>0, <1>1 DEF Start, LoadDue, Stamp, LookUpReplied, Goto
  <1>2. CASE QueryCategory(p) \/ FindQuiet(p) \/ PassEnds(p) \/ Consider(p)
    BY <1>0, <1>2 DEF QueryCategory, FindQuiet, PassEnds, Consider, Drop, Goto
  <1>3. CASE Decline(p) \/ WriteFails(p) \/ CreateDraft(p) \/ MarkDrafted(p)
    BY <1>0, <1>3 DEF Decline, WriteFails, CreateDraft, MarkDrafted, Drop, Goto
  <1>4. CASE MeterDraft(p) \/ Release(p) \/ Crash(p)
    BY <1>0, <1>4 DEF MeterDraft, Release, Crash, Goto
  <1> QED
    BY <1>1, <1>2, <1>3, <1>4 DEF PassStep

\* What a pass's record becomes, field by field.
LEMMA Fields ==
    ASSUME TypeOK, NEW p \in Pass
    PROVE  /\ pass[p] \in PassType /\ NoPass \in PassType
           /\ pass[p].kind \in Kind /\ pass[p].config \in Payload /\ pass[p].limit \in Nat
           /\ pass[p].left \in SUBSET Message /\ pass[p].created \in Nat
           /\ pass[p].created <= pass[p].limit
  BY DEF TypeOK, PassType, NoPass, Kind, Payload

\* The record after the step suits the place.
Suits(place, record) ==
    /\ place \in Place /\ record \in PassType
    /\ record.created <= record.limit
    /\ place \in {"write", "mark", "meter"} => record.left # {} /\ record.created < record.limit
    /\ place = "load" => record.created = 0

LEMMA DropIs ==
    ASSUME Typed, NEW p \in Pass, Drop(p), pass[p].left # {}
    PROVE  /\ pc'[p] = "next"
           /\ pass'[p] = [pass[p] EXCEPT !.left = @ \ {InHand(p)}]
           /\ Suits("next", pass'[p])
  <1>1. TypeOK
    BY DEF Typed
  <1>2. pc'[p] = "next" /\ pass'[p] = [pass[p] EXCEPT !.left = @ \ {InHand(p)}]
    BY <1>1 DEF Drop, Goto, TypeOK
  <1>3. pass'[p] \in PassType /\ pass'[p].created <= pass'[p].limit
    BY <1>1, <1>2, Fields DEF PassType
  <1> QED
    BY <1>2, <1>3 DEF Suits, Place

LEMMA OwnSuits ==
    ASSUME Typed, NEW p \in Pass, PassStep(p)
    PROVE  Suits(pc'[p], pass'[p])
  <1>0. /\ TypeOK /\ pass[p] \in PassType /\ NoPass \in PassType /\ pc[p] \in Place
        /\ pass[p].kind \in Kind /\ pass[p].config \in Payload /\ settings \in Payload
        /\ pass[p].created \in Nat /\ pass[p].limit \in Nat /\ pass[p].created <= pass[p].limit
        /\ Drafting(p) => pass[p].left # {} /\ pass[p].created < pass[p].limit
        /\ pc[p] = "load" => pass[p].created = 0
    BY Fields DEF Typed, TypeOK
  <1>1. CASE \E kind \in Kind : Start(p, kind)
    <2>1. PICK kind \in Kind : Start(p, kind)
      BY <1>1
    <2>2. pc'[p] = "load" /\ pass'[p] = [NoPass EXCEPT !.kind = kind]
      BY <1>0, <2>1 DEF Start, Goto, TypeOK
    <2>3. [NoPass EXCEPT !.kind = kind] \in PassType
      BY <1>0 DEF PassType
    <2>4. pass'[p].created = 0 /\ pass'[p].limit = 0
      BY <2>2 DEF NoPass
    <2> QED
      BY <2>2, <2>3, <2>4 DEF Suits, Place
  <1>2. CASE LoadDue(p)
    <2>1. CASE pc'[p] = "stamp"
      <3>1. pass'[p] = [pass[p] EXCEPT !.config = settings, !.limit = Limit(pass[p].kind)]
        BY <1>0, <1>2, <2>1 DEF LoadDue, Goto, TypeOK
      <3>2. Limit(pass[p].kind) \in Nat
        BY <1>0, LimitIs
      <3>3. pass[p].created = 0
        BY <1>0, <1>2 DEF LoadDue, At
      <3>4. pass'[p] \in PassType
        BY <1>0, <3>1, <3>2 DEF PassType
      <3>5. pass'[p].created = 0 /\ pass'[p].limit \in Nat
        BY <1>0, <3>1, <3>2, <3>3 DEF PassType
      <3> QED
        BY <2>1, <3>4, <3>5 DEF Suits, Place
    <2>2. CASE pc'[p] # "stamp"
      BY <1>0, <1>2, <2>2 DEF LoadDue, Goto, TypeOK, Suits, Place
    <2> QED
      BY <2>1, <2>2
  <1>3. CASE Stamp(p)
    BY <1>0, <1>3 DEF Stamp, Goto, TypeOK, Suits, Place
  <1>4. CASE LookUpReplied(p)
    <2>1. PICK skip \in {RepliedThreads, {}} : pass'[p] = [pass[p] EXCEPT !.skip = skip]
      BY <1>0, <1>4 DEF LookUpReplied, TypeOK
    <2>2. skip \subseteq {Thread[m] : m \in Message}
      BY DraftsAssumption DEF RepliedThreads
    <2>3. pc'[p] = "query"
      BY <1>0, <1>4 DEF LookUpReplied, Goto, TypeOK
    <2> QED
      BY <1>0, <2>1, <2>2, <2>3 DEF Suits, Place, PassType
  <1>5. CASE QueryCategory(p)
    <2>1. PICK key \in pass[p].config.keys : \E found \in {Candidates(key), {}} :
            pass'[p] = [pass[p] EXCEPT !.config.keys = @ \ {key}, !.left = found]
      <3>1. pass \in [Pass -> PassType]
        BY <1>0 DEF TypeOK
      <3>2. QED
        BY <1>0, <1>5, <3>1 DEF QueryCategory
    <2>2. PICK found \in SUBSET Message :
            pass'[p] = [pass[p] EXCEPT !.config.keys = @ \ {key}, !.left = found]
      BY <2>1 DEF Candidates
    <2>3. [pass[p].config EXCEPT !.keys = @ \ {key}] \in Payload
      BY <1>0 DEF Payload
    <2>4. pc'[p] = "next"
      BY <1>0, <1>5 DEF QueryCategory, Goto, TypeOK
    <2> QED
      BY <1>0, <2>1, <2>2, <2>3, <2>4 DEF Suits, Place, PassType
  <1>6. CASE FindQuiet(p)
    <2>1. QuietThreads \subseteq Message
      BY DraftsAssumption DEF QuietThreads
    <2>2. \/ pass'[p] = [pass[p] EXCEPT !.left = QuietThreads] /\ pc'[p] = "next"
          \/ pass'[p] = pass[p] /\ pc'[p] = "release"
      BY <1>0, <1>6 DEF FindQuiet, Goto, TypeOK
    <2> QED
      BY <1>0, <2>1, <2>2 DEF Suits, Place, PassType
  <1>7. CASE PassEnds(p)
    BY <1>0, <1>7 DEF PassEnds, Goto, TypeOK, Suits, Place
  <1>8. CASE Consider(p)
    <2>1. pass[p].left # {} /\ pass[p].created < pass[p].limit
      BY <1>8 DEF Consider
    <2>2. Drop(p) \/ (pc'[p] = "write" /\ pass'[p] = pass[p])
      BY <1>0, <1>8 DEF Consider, Goto, TypeOK
    <2> QED
      BY <1>0, <2>1, <2>2, DropIs DEF Suits, Place
  <1>9. CASE Decline(p) \/ WriteFails(p)
    BY <1>0, <1>9, DropIs DEF Decline, WriteFails, At, Drafting
  <1>10. CASE CreateDraft(p)
    BY <1>0, <1>10 DEF CreateDraft, Goto, At, Drafting, TypeOK, Suits, Place
  <1>11. CASE MarkDrafted(p)
    <2>1. pass[p].left # {} /\ pass[p].created < pass[p].limit
      BY <1>0, <1>11 DEF MarkDrafted, At, Drafting
    <2>2. Drop(p) \/ (pc'[p] = "meter" /\ pass'[p] = pass[p])
      BY <1>0, <1>11 DEF MarkDrafted, Goto, TypeOK
    <2> QED
      BY <1>0, <2>1, <2>2, DropIs DEF Suits, Place
  <1>12. CASE MeterDraft(p)
    <2>1. /\ pc'[p] = "next"
          /\ pass'[p] = [pass[p] EXCEPT !.left = @ \ {InHand(p)}, !.created = @ + 1]
      BY <1>0, <1>12 DEF MeterDraft, Goto, TypeOK
    <2>2. pass[p].created < pass[p].limit
      BY <1>0, <1>12 DEF MeterDraft, At, Drafting
    <2>3. pass'[p] \in PassType
      <3>1. pass[p].left \ {InHand(p)} \in SUBSET Message /\ pass[p].created + 1 \in Nat
        BY <1>0 DEF PassType
      <3> QED
        BY <1>0, <2>1, <3>1 DEF PassType
    <2>4. pass'[p].created = pass[p].created + 1 /\ pass'[p].limit = pass[p].limit
      BY <1>0, <2>1 DEF PassType
    <2> QED
      BY <1>0, <2>1, <2>2, <2>3, <2>4 DEF Suits, Place
  <1>13. CASE Release(p) \/ Crash(p)
    <2>1. pc'[p] = "idle" /\ pass'[p] = NoPass
      BY <1>0, <1>13 DEF Release, Crash, Goto, TypeOK
    <2> QED
      BY <1>0, <2>1 DEF Suits, Place, PassType, NoPass
  <1> QED
    BY <1>1, <1>2, <1>3, <1>4, <1>5, <1>6, <1>7, <1>8, <1>9, <1>10, <1>11, <1>12, <1>13 DEF PassStep

\* What a pass does to the mailbox, the counters and the lock.
LEMMA BoxType ==
    ASSUME Typed, NEW p \in Pass, PassStep(p)
    PROVE  /\ marked' \subseteq Message /\ drafts' \in [Message -> 0 .. MaxDraft]
           /\ last' \in [Kind -> {"due", "done"}] /\ used' \in [Months -> Nat] /\ lock' \in BOOLEAN
  <1>0. TypeOK /\ MaxDraft \in Nat /\ (Drafting(p) => InHand(p) \in Message)
    BY InHandIs, DraftsAssumption DEF Typed
  <1>1. CASE Decline(p)
    BY <1>0, <1>1 DEF Decline, At, Drafting, TypeOK
  <1>2. CASE WriteFails(p) \/ CreateDraft(p)
    BY <1>0, <1>2 DEF WriteFails, CreateDraft, At, Drafting, TypeOK
  <1>3. CASE MarkDrafted(p)
    BY <1>0, <1>3 DEF MarkDrafted, At, Drafting, TypeOK
  <1>4. CASE MeterDraft(p)
    BY <1>0, <1>4 DEF MeterDraft, TypeOK, box
  <1>5. CASE Stamp(p) \/ LoadDue(p) \/ LookUpReplied(p) \/ \E kind \in Kind : Start(p, kind)
    BY <1>0, <1>5 DEF Stamp, LoadDue, LookUpReplied, Start, TypeOK, box
  <1>6. CASE QueryCategory(p) \/ FindQuiet(p) \/ PassEnds(p) \/ Consider(p) \/ Release(p) \/ Crash(p)
    BY <1>0, <1>6 DEF QueryCategory, FindQuiet, PassEnds, Consider, Release, Crash, TypeOK, box
  <1> QED
    BY <1>1, <1>2, <1>3, <1>4, <1>5, <1>6 DEF PassStep

Others ==
    \/ LockExpires
    \/ \E s \in Payload : UpdateSettings(s)
    \/ \E to \in {"none", "starter", "pro"} : ChangePlan(to)
    \/ \E m \in Message : MailMoves(m)
    \/ \E kind \in Kind : FallDue(kind)
    \/ TurnMonth

\* The user, the mailbox and the clock touch no pass, label, draft or counter.
LEMMA OthersFrame ==
    ASSUME Others
    PROVE  UNCHANGED <<circ, marked, drafts, used, pc, pass>>
  BY DEF Others, LockExpires, UpdateSettings, ChangePlan, MailMoves, FallDue, TurnMonth, box, task

LEMMA TypedInit == Init => Typed
  <1> SUFFICES ASSUME Init PROVE Typed
    OBVIOUS
  <1>1. NoPass \in PassType
    BY DEF NoPass, PassType, Kind, Payload
  <1>2. MaxDraft \in Nat /\ MaxMonth \in Nat
    BY DraftsAssumption
  <1>3. pc \in [Pass -> Place] /\ pass \in [Pass -> PassType]
    BY <1>1 DEF Init, Place
  <1>4. \A p \in Pass : pc[p] = "idle" /\ pass[p].created = 0 /\ pass[p].limit = 0
    BY DEF Init, NoPass
  <1>5. settings \in Payload
    BY DEF Init, Payload
  <1>6. drafts \in [Message -> 0 .. MaxDraft] /\ used \in [Months -> Nat] /\ month \in Months
    BY <1>2 DEF Init, Months
  <1>7. settings.keys # {}
    <2>1. PICK m \in Message : TRUE
      BY DraftsAssumption
    <2>2. CategoryOf[m] \in Category
      BY DEF Category
    <2> QED
      BY <2>2 DEF Init
  <1>8. circ \in Scenarios /\ mail \in [Message -> {"absent", "fresh", "aged"}] /\ marked \subseteq Message
    BY DEF Init
  <1>9. plan \in {"none", "starter", "pro"} /\ last \in [Kind -> {"due", "done"}] /\ lock \in BOOLEAN
    BY DEF Init
  <1>10. TypeOK
    BY <1>3, <1>4, <1>5, <1>6, <1>7, <1>8, <1>9 DEF TypeOK
  <1>11. \A p \in Pass : ~Drafting(p)
    BY <1>4 DEF Drafting
  <1> QED
    BY <1>4, <1>10, <1>11 DEF Typed

LEMMA OthersType ==
    ASSUME TypeOK, Others
    PROVE  /\ mail' \in [Message -> {"absent", "fresh", "aged"}]
           /\ settings' \in Payload /\ (settings'.on => settings'.keys # {})
           /\ plan' \in {"none", "starter", "pro"} /\ last' \in [Kind -> {"due", "done"}]
           /\ month' \in Months /\ lock' \in BOOLEAN
  <1>1. CASE LockExpires
    BY <1>1 DEF LockExpires, TypeOK, box, user
  <1>6. CASE TurnMonth
    <2>1. month \in 0 .. MaxMonth /\ MaxMonth \in Nat /\ month' = month + 1 /\ month < MaxMonth
      BY <1>6, DraftsAssumption DEF TurnMonth, TypeOK, Months
    <2>2. month' \in Months
      BY <2>1 DEF Months
    <2> QED
      BY <1>6, <2>2 DEF TurnMonth, TypeOK, box, user, task
  <1>2. CASE (\E s \in Payload : UpdateSettings(s))
    BY <1>2 DEF UpdateSettings, TypeOK, box, task
  <1>3. CASE \E to \in {"none", "starter", "pro"} : ChangePlan(to)
    BY <1>3 DEF ChangePlan, TypeOK, box, task
  <1>4. CASE \E m \in Message : MailMoves(m)
    BY <1>4 DEF MailMoves, TypeOK, user, task
  <1>5. CASE \E kind \in Kind : FallDue(kind)
    BY <1>5 DEF FallDue, TypeOK, box, user, task
  <1> QED
    BY <1>1, <1>2, <1>3, <1>4, <1>5, <1>6 DEF Others

\* A step is of a pass, or of the user, the mailbox or the clock.
LEMMA NextIs == Next <=> (\E p \in Pass : PassStep(p)) \/ Others
  BY DEF Next, Others

LEMMA TypedStep == Typed /\ [Next]_vars => Typed'
  <1> SUFFICES ASSUME Typed, [Next]_vars PROVE Typed'
    OBVIOUS
  <1>0. TypeOK
    BY DEF Typed
  <1>1. CASE \E p \in Pass : PassStep(p)
    <2>1. PICK p \in Pass : PassStep(p)
      BY <1>1
    <2>2. /\ circ' = circ /\ mail' = mail /\ UNCHANGED user /\ month' = month
          /\ \A q \in Pass \ {p} : pc'[q] = pc[q] /\ pass'[q] = pass[q]
      BY <1>0, <2>1, PassFrame
    <2>3. Suits(pc'[p], pass'[p])
      BY <2>1, OwnSuits
    <2>4. DOMAIN pc' = Pass /\ DOMAIN pass' = Pass /\ pc' = [q \in Pass |-> pc'[q]] /\ pass' = [q \in Pass |-> pass'[q]]
      BY <1>0, <2>1, PassDomain
    <2>5. \A q \in Pass : Suits(pc'[q], pass'[q])
      <3>1. \A q \in Pass : Suits(pc[q], pass[q])
        BY <1>0, Fields DEF Typed, TypeOK, Suits, Drafting
      <3> QED
        BY <2>2, <2>3, <3>1
    <2>6. pc' \in [Pass -> Place] /\ pass' \in [Pass -> PassType]
      BY <2>4, <2>5 DEF Suits
    <2>7. TypeOK'
      BY <1>0, <2>1, <2>2, <2>5, <2>6, BoxType DEF TypeOK, user, Suits
    <2> QED
      BY <2>5, <2>7 DEF Typed, Drafting, Suits
  <1>2. CASE Others
    <2>1. TypeOK'
      BY <1>0, <1>2, OthersFrame, OthersType DEF TypeOK
    <2> QED
      BY <1>2, <2>1, OthersFrame DEF Typed, Drafting
  <1>3. CASE UNCHANGED vars
    <2>1. TypeOK'
      BY <1>0, <1>3 DEF TypeOK, vars, box, user, task
    <2> QED
      BY <1>3, <2>1 DEF Typed, Drafting, vars, box, user, task
  <1> QED
    BY <1>1, <1>2, <1>3, NextIs

\* TypeOK holds of Spec: every task run is at a place its record suits, and
\* creates no more than the limit it read (drafts_sweep.py:72-110).
THEOREM DraftsTypeCorrect == Spec => []TypeOK
  <1>1. Typed => TypeOK
    BY DEF Typed
  <1> QED
    BY <1>1, TypedInit, TypedStep, PTL DEF Spec

-----------------------------------------------------------------------------
(* One pass at a time *)

\* Where no pass outlasts the lock, at most one is under way, and it holds it.
Alone ==
    "overrun" \notin circ =>
        \A p \in Pass : pc[p] # "idle" => lock /\ \A q \in Pass : pc[q] # "idle" => q = p

LEMMA LockIs ==
    ASSUME TypeOK, NEW p \in Pass, PassStep(p)
    PROVE  /\ pc[p] = "idle" => ~lock /\ lock' /\ pc'[p] = "load"
           /\ pc[p] # "idle" => lock' = lock \/ pc'[p] = "idle"
  <1>1. CASE \E kind \in Kind : Start(p, kind)
    BY <1>1 DEF Start, At, Goto, TypeOK
  <1>2. CASE LoadDue(p) \/ Stamp(p) \/ LookUpReplied(p) \/ QueryCategory(p) \/ FindQuiet(p)
    BY <1>2 DEF LoadDue, Stamp, LookUpReplied, QueryCategory, FindQuiet, At
  <1>3. CASE PassEnds(p) \/ Consider(p) \/ Decline(p) \/ WriteFails(p)
    BY <1>3 DEF PassEnds, Consider, Decline, WriteFails, At
  <1>4. CASE CreateDraft(p) \/ MarkDrafted(p) \/ MeterDraft(p)
    BY <1>4 DEF CreateDraft, MarkDrafted, MeterDraft, At
  <1>5. CASE Release(p) \/ Crash(p)
    BY <1>5 DEF Release, Crash, At, Goto, TypeOK
  <1> QED
    BY <1>1, <1>2, <1>3, <1>4, <1>5 DEF PassStep

LEMMA OthersLock ==
    ASSUME Others
    PROVE  lock' = lock \/ "overrun" \in circ \/ \A p \in Pass : pc[p] = "idle"
  BY DEF Others, LockExpires, UpdateSettings, ChangePlan, MailMoves, FallDue, TurnMonth, box, task, At

LEMMA AloneStep == Typed /\ Alone /\ [Next]_vars => Alone'
  <1> SUFFICES ASSUME Typed, Alone, [Next]_vars PROVE Alone'
    OBVIOUS
  <1>0. TypeOK
    BY DEF Typed
  <1>1. CASE \E p \in Pass : PassStep(p)
    <2>1. PICK p \in Pass : PassStep(p)
      BY <1>1
    <2>2. circ' = circ /\ \A q \in Pass \ {p} : pc'[q] = pc[q]
      BY <1>0, <2>1, PassFrame
    <2>3. /\ pc[p] = "idle" => ~lock /\ lock' /\ pc'[p] = "load"
          /\ pc[p] # "idle" => lock' = lock \/ pc'[p] = "idle"
      BY <1>0, <2>1, LockIs
    <2>4. SUFFICES ASSUME "overrun" \notin circ
                   PROVE  \A q \in Pass : pc'[q] # "idle" => lock' /\ \A r \in Pass : pc'[r] # "idle" => r = q
      BY <2>2 DEF Alone
    <2>5. \A q \in Pass \ {p} : pc[q] = "idle"
      BY <2>3, <2>4 DEF Alone
    <2>6. pc'[p] # "idle" => lock'
      BY <2>3, <2>4 DEF Alone
    <2> QED
      BY <2>2, <2>5, <2>6
  <1>2. CASE Others
    BY <1>2, OthersFrame, OthersLock DEF Alone
  <1>3. CASE UNCHANGED vars
    BY <1>3 DEF Alone, vars, task
  <1> QED
    BY <1>1, <1>2, <1>3, NextIs

-----------------------------------------------------------------------------
(* The quota *)

\* What the passes beside an overrun one may add to the allowance.
Slack == IF "overrun" \in circ THEN Cardinality(Pass) - 1 ELSE 0

Writers == {p \in Pass : Drafting(p)}

\* What a month counts and what the passes are about to add to it.
Quota ==
    /\ plan = "pro" => "pro" \in circ
    /\ \A n \in Months : n > month => used[n] = 0
    /\ "pro" \notin circ => /\ \A n \in Months : used[n] <= Allowance + Slack
                            /\ used[month] + Cardinality(Writers) <= Allowance + Slack

Few == /\ IsFiniteSet(Writers) /\ Cardinality(Writers) \in Nat /\ Slack \in Int
       /\ Cardinality(Writers) <= Slack + 1

LEMMA FewWriters == Alone => Few
  <1> SUFFICES ASSUME Alone PROVE Few
    OBVIOUS
  <1>1. IsFiniteSet(Pass) /\ Writers \subseteq Pass
    BY DraftsAssumption DEF Writers
  <1>2. IsFiniteSet(Writers) /\ Cardinality(Writers) \in Nat /\ Cardinality(Pass) \in Nat
        /\ Cardinality(Writers) <= Cardinality(Pass)
    BY <1>1, FS_Subset, FS_CardinalityType
  <1>3. CASE "overrun" \in circ
    BY <1>2, <1>3 DEF Few, Slack
  <1>4. CASE "overrun" \notin circ
    <2>1. \A p, q \in Writers : p = q
      BY <1>4 DEF Alone, Writers, Drafting
    <2>2. Writers = {} \/ \E p \in Writers : Writers = {p}
      BY <2>1
    <2>3. Cardinality(Writers) = 0 \/ Cardinality(Writers) = 1
      <3>1. CASE Writers = {}
        BY <3>1, FS_EmptySet
      <3>2. CASE \E p \in Writers : Writers = {p}
        BY <3>2, FS_Singleton
      <3> QED
        BY <2>2, <3>1, <3>2
    <2> QED
      BY <1>2, <1>4, <2>3 DEF Few, Slack
  <1> QED
    BY <1>2, <1>3, <1>4 DEF Few

\* A pass starts a draft on a fresh look at the plan, counts one when it is
\* done with it, and else leaves the counters alone.
LEMMA CountIs ==
    ASSUME TypeOK, NEW p \in Pass, PassStep(p)
    PROVE  \/ used' = used /\ (pc'[p] \in {"write", "mark", "meter"} => Drafting(p))
           \/ used' = used /\ Entitled
           \/ /\ Drafting(p) /\ pc'[p] = "next"
              /\ used' = used \/ used' = [used EXCEPT ![month] = @ + 1]
  <1>1. CASE (\E kind \in Kind : Start(p, kind)) \/ LoadDue(p) \/ Stamp(p) \/ LookUpReplied(p)
    BY <1>1 DEF Start, LoadDue, Stamp, LookUpReplied, Goto, TypeOK
  <1>2. CASE QueryCategory(p) \/ FindQuiet(p) \/ PassEnds(p)
    BY <1>2 DEF QueryCategory, FindQuiet, PassEnds, Goto, TypeOK
  <1>3. CASE Consider(p)
    BY <1>3 DEF Consider, Drop, Goto, TypeOK
  <1>4. CASE Decline(p) \/ WriteFails(p) \/ CreateDraft(p) \/ MarkDrafted(p)
    BY <1>4 DEF Decline, WriteFails, CreateDraft, MarkDrafted, Drop, Goto, TypeOK, At, Drafting
  <1>5. CASE MeterDraft(p)
    BY <1>5 DEF MeterDraft, Goto, TypeOK, At, Drafting
  <1>6. CASE Release(p) \/ Crash(p)
    BY <1>6 DEF Release, Crash, Goto, TypeOK
  <1> QED
    BY <1>1, <1>2, <1>3, <1>4, <1>5, <1>6 DEF PassStep

LEMMA QuotaStep == Typed /\ Alone /\ Alone' /\ Quota /\ [Next]_vars => Quota'
  <1> SUFFICES ASSUME Typed, Alone, Alone', Quota, [Next]_vars PROVE Quota'
    OBVIOUS
  <1>0. TypeOK /\ Allowance \in Nat \ {0}
    BY DraftsAssumption DEF Typed
  <1>5. used \in [Months -> Nat] /\ month \in Months /\ Months \subseteq Nat
    BY <1>0, DraftsAssumption DEF TypeOK, Months
  <1>6. /\ IsFiniteSet(Writers) /\ Cardinality(Writers) \in Nat /\ Slack \in Int
        /\ Cardinality(Writers) <= Slack + 1
    BY FewWriters DEF Few
  <1>8. Few'
    BY FewWriters, PTL
  <1>7. /\ IsFiniteSet(Writers') /\ Cardinality(Writers') \in Nat /\ Slack' \in Int
        /\ Cardinality(Writers') <= Slack' + 1
    BY <1>8 DEF Few
  <1>1. CASE \E p \in Pass : PassStep(p)
    <2>1. PICK p \in Pass : PassStep(p)
      BY <1>1
    <2>2. circ' = circ /\ plan' = plan /\ month' = month /\ \A q \in Pass \ {p} : pc'[q] = pc[q]
      BY <1>0, <2>1, PassFrame DEF user
    <2>3. Slack' = Slack
      BY <2>2 DEF Slack
    <2>4. Writers' \subseteq Writers \cup {p} /\ Writers \subseteq Writers' \cup {p}
      BY <2>2 DEF Writers, Drafting
    <2>5. p \in Writers <=> Drafting(p)
      BY DEF Writers
    <2>6. p \in Writers' <=> pc'[p] \in {"write", "mark", "meter"}
      BY DEF Writers, Drafting
    <2>7. CASE used' = used /\ (pc'[p] \in {"write", "mark", "meter"} => Drafting(p))
      <3>1. Writers' \subseteq Writers
        BY <2>4, <2>5, <2>6, <2>7
      <3>2. Cardinality(Writers') <= Cardinality(Writers)
        BY <1>6, <3>1, FS_Subset
      <3> QED
        BY <1>0, <1>5, <1>6, <1>7, <2>2, <2>3, <2>7, <3>2 DEF Quota
    <2>8. CASE used' = used /\ Entitled
      <3>1. "pro" \notin circ => used[month] < Allowance
        BY <2>8 DEF Entitled, Quota
      <3> QED
        BY <1>0, <1>5, <1>6, <1>7, <2>2, <2>3, <2>8, <3>1 DEF Quota
    <2>9. CASE /\ Drafting(p) /\ pc'[p] = "next"
               /\ used' = used \/ used' = [used EXCEPT ![month] = @ + 1]
      <3>1. p \in Writers /\ p \notin Writers'
        BY <2>5, <2>6, <2>9
      <3>2. Writers' = Writers \ {p}
        BY <2>4, <3>1
      <3>3. Cardinality(Writers') = Cardinality(Writers) - 1
        BY <1>6, <3>1, <3>2, FS_RemoveElement
      <3>4. used'[month] <= used[month] + 1 /\ used'[month] \in Nat
            /\ \A n \in Months \ {month} : used'[n] = used[n]
        BY <1>5, <2>9
      <3>5. used'[month] + Cardinality(Writers') <= used[month] + Cardinality(Writers)
        BY <1>5, <1>6, <1>7, <3>3, <3>4
      <3>6. "pro" \notin circ => used'[month] <= Allowance + Slack
        BY <1>0, <1>5, <1>6, <1>7, <3>4, <3>5 DEF Quota
      <3>7. "pro" \notin circ => \A n \in Months : used'[n] <= Allowance + Slack
        BY <3>4, <3>6 DEF Quota
      <3>8. "pro" \notin circ => used'[month] + Cardinality(Writers') <= Allowance + Slack
        BY <1>0, <1>5, <1>6, <1>7, <3>4, <3>5 DEF Quota
      <3>9. \A n \in Months : n > month => used'[n] = 0
        BY <1>5, <3>4 DEF Quota
      <3> QED
        BY <2>2, <2>3, <3>7, <3>8, <3>9 DEF Quota
    <2> QED
      BY <1>0, <2>1, <2>7, <2>8, <2>9, CountIs
  <1>2. CASE Others
    <2>1. UNCHANGED <<circ, used, pc>>
      BY <1>2, OthersFrame
    <2>2. Slack' = Slack /\ Writers' = Writers
      BY <2>1 DEF Slack, Writers, Drafting
    <2>3. (plan' = plan \/ (plan' = "pro" => "pro" \in circ)) /\ (month' = month \/ month' = month + 1)
      BY <1>2 DEF Others, LockExpires, UpdateSettings, ChangePlan, MailMoves, FallDue, TurnMonth, user
    <2>4. month' \in Months
      BY <1>0, <1>2, OthersType
    <2>5. plan' = "pro" => "pro" \in circ'
      BY <2>1, <2>3 DEF Quota
    <2>6. \A n \in Months : n > month' => used'[n] = 0
      BY <1>5, <2>1, <2>3, <2>4 DEF Quota
    <2>7. month' = month + 1 => used'[month'] = 0
      BY <1>5, <2>1, <2>4 DEF Quota
    <2>8. "pro" \notin circ' => used'[month'] + Cardinality(Writers') <= Allowance + Slack'
      BY <1>0, <1>5, <1>6, <2>1, <2>2, <2>3, <2>7 DEF Quota
    <2> QED
      BY <2>1, <2>2, <2>5, <2>6, <2>8 DEF Quota
  <1>3. CASE UNCHANGED vars
    BY <1>3 DEF Quota, Slack, Writers, Drafting, vars, user, task
  <1> QED
    BY <1>1, <1>2, <1>3, NextIs

\* QuotaKept's first half: no month counts more than the allowance, and a pass
\* that outlasts the lock adds at most one draft for each pass beside it.
QuotaInv == Typed /\ Alone /\ Quota

LEMMA QuotaInit == Init => QuotaInv
  <1> SUFFICES ASSUME Init PROVE QuotaInv
    OBVIOUS
  <1>1. Typed
    BY TypedInit
  <1>2. \A p \in Pass : pc[p] = "idle"
    BY DEF Init
  <1>3. Alone
    BY <1>2 DEF Alone
  <1>4. Writers = {}
    BY <1>2 DEF Writers, Drafting
  <1>5. Cardinality(Writers) = 0
    BY <1>4, FS_EmptySet
  <1>6. Cardinality(Pass) \in Nat /\ Allowance \in Nat \ {0} /\ MaxMonth \in Nat
    BY DraftsAssumption, FS_CardinalityType
  <1>7. used[month] = 0 /\ \A n \in Months : used[n] = 0
    BY <1>6 DEF Init, Months
  <1>8. 0 <= Allowance + Slack
    BY <1>6 DEF Slack
  <1>9. plan = "starter"
    BY DEF Init
  <1>10. Quota
    BY <1>5, <1>7, <1>8, <1>9 DEF Quota
  <1> QED
    BY <1>1, <1>3, <1>10 DEF QuotaInv

LEMMA QuotaInvStep == QuotaInv /\ [Next]_vars => QuotaInv'
  <1> SUFFICES ASSUME QuotaInv, [Next]_vars PROVE QuotaInv'
    OBVIOUS
  <1>1. Typed /\ Alone /\ Quota
    BY DEF QuotaInv
  <1>2. Typed' /\ Alone'
    BY <1>1, TypedStep, AloneStep
  <1>3. Quota'
    BY <1>1, <1>2, QuotaStep
  <1> QED
    BY <1>2, <1>3 DEF QuotaInv

-----------------------------------------------------------------------------
(* The counters hold every draft *)

Healthy == {"services", "crash"} \cap circ = {}

Counted ==
    Healthy => /\ IsFiniteSet(Units(drafts)) /\ IsFiniteSet(Units(used))
               /\ Total(drafts) = Total(used) + Cardinality(Unmetered)

LEMMA NoUnits ==
    ASSUME NEW S, NEW f \in [S -> Nat], \A x \in S : f[x] = 0
    PROVE  IsFiniteSet(Units(f)) /\ Total(f) = 0
  <1>1. \A x \in S : 1 .. f[x] = {}
    OBVIOUS
  <1>2. Units(f) = {}
    BY <1>1 DEF Units
  <1> QED
    BY <1>2, FS_EmptySet DEF Total

\* Where nothing fails, a pass that has written a draft is unmetered until the
\* month counts it.
LEMMA DraftIs ==
    ASSUME TypeOK, NEW p \in Pass, PassStep(p), Healthy
    PROVE  \/ /\ UNCHANGED <<drafts, used>>
              /\ pc'[p] \in {"mark", "meter"} <=> pc[p] \in {"mark", "meter"}
           \/ /\ pc[p] = "write" /\ pc'[p] = "mark" /\ used' = used
              /\ drafts' = [drafts EXCEPT ![InHand(p)] = @ + 1]
           \/ /\ pc[p] = "meter" /\ pc'[p] = "next" /\ drafts' = drafts
              /\ used' = [used EXCEPT ![month] = @ + 1]
  <1>0. "services" \notin circ /\ "crash" \notin circ
    BY DEF Healthy
  <1>1. CASE (\E kind \in Kind : Start(p, kind)) \/ LoadDue(p) \/ Stamp(p) \/ LookUpReplied(p)
    BY <1>1 DEF Start, LoadDue, Stamp, LookUpReplied, Goto, At, TypeOK, box
  <1>2. CASE QueryCategory(p) \/ FindQuiet(p) \/ PassEnds(p)
    BY <1>2 DEF QueryCategory, FindQuiet, PassEnds, Goto, At, TypeOK, box
  <1>3. CASE Consider(p) \/ Decline(p) \/ WriteFails(p)
    BY <1>0, <1>3 DEF Consider, Decline, WriteFails, Drop, Goto, At, TypeOK, box
  <1>4. CASE CreateDraft(p)
    BY <1>4 DEF CreateDraft, Goto, At, TypeOK
  <1>5. CASE MarkDrafted(p)
    BY <1>0, <1>5 DEF MarkDrafted, Goto, At, TypeOK
  <1>6. CASE MeterDraft(p)
    BY <1>0, <1>6 DEF MeterDraft, Goto, At, TypeOK, box
  <1>7. CASE Release(p) \/ Crash(p)
    BY <1>0, <1>7 DEF Release, Crash, Goto, At, TypeOK, box
  <1> QED
    BY <1>1, <1>2, <1>3, <1>4, <1>5, <1>6, <1>7 DEF PassStep

LEMMA CountedStep == Typed /\ Counted /\ [Next]_vars => Counted'
  <1> SUFFICES ASSUME Typed, Counted, [Next]_vars PROVE Counted'
    OBVIOUS
  <1>0. TypeOK
    BY DEF Typed
  <1>1. CASE \E p \in Pass : PassStep(p)
    <2>1. PICK p \in Pass : PassStep(p)
      BY <1>1
    <2>2. circ' = circ /\ \A q \in Pass \ {p} : pc'[q] = pc[q]
      BY <1>0, <2>1, PassFrame
    <2>3. SUFFICES ASSUME Healthy
                   PROVE  /\ IsFiniteSet(Units(drafts')) /\ IsFiniteSet(Units(used'))
                          /\ Total(drafts') = Total(used') + Cardinality(Unmetered')
      BY <2>2 DEF Counted, Healthy, Total, Units
    <2>4. /\ IsFiniteSet(Units(drafts)) /\ IsFiniteSet(Units(used))
          /\ Total(drafts) = Total(used) + Cardinality(Unmetered)
      BY <2>3 DEF Counted
    <2>5. IsFiniteSet(Unmetered) /\ Cardinality(Unmetered) \in Nat
      BY DraftsAssumption, FS_Subset, FS_CardinalityType DEF Unmetered
    <2>6. drafts \in [Message -> Nat] /\ used \in [Months -> Nat] /\ month \in Months
      BY <1>0, DraftsAssumption DEF TypeOK
    <2>7. Total(drafts) \in Nat /\ Total(used) \in Nat
      BY <2>4, FS_CardinalityType DEF Total
    <2>8. /\ Unmetered' \subseteq Unmetered \cup {p} /\ Unmetered \subseteq Unmetered' \cup {p}
          /\ p \in Unmetered <=> pc[p] \in {"mark", "meter"}
          /\ p \in Unmetered' <=> pc'[p] \in {"mark", "meter"}
      BY <2>2 DEF Unmetered
    <2>9. CASE /\ UNCHANGED <<drafts, used>>
               /\ pc'[p] \in {"mark", "meter"} <=> pc[p] \in {"mark", "meter"}
      <3>1. Unmetered' = Unmetered
        BY <2>8, <2>9
      <3> QED
        BY <2>4, <2>9, <3>1
    <2>10. CASE /\ pc[p] = "write" /\ pc'[p] = "mark" /\ used' = used
                /\ drafts' = [drafts EXCEPT ![InHand(p)] = @ + 1]
      <3>1. InHand(p) \in Message
        BY <2>10, InHandIs DEF Typed, Drafting
      <3>2. IsFiniteSet(Units(drafts')) /\ Total(drafts') = Total(drafts) + 1
        BY <2>4, <2>6, <2>10, <3>1, TotalUp
      <3>3. Unmetered' = Unmetered \cup {p} /\ p \notin Unmetered
        BY <2>8, <2>10
      <3>4. Cardinality(Unmetered') = Cardinality(Unmetered) + 1
        BY <2>5, <3>3, FS_AddElement
      <3> QED
        BY <2>4, <2>5, <2>7, <2>10, <3>2, <3>4
    <2>11. CASE /\ pc[p] = "meter" /\ pc'[p] = "next" /\ drafts' = drafts
                /\ used' = [used EXCEPT ![month] = @ + 1]
      <3>1. IsFiniteSet(Units(used')) /\ Total(used') = Total(used) + 1
        BY <2>4, <2>6, <2>11, TotalUp
      <3>2. Unmetered' = Unmetered \ {p} /\ p \in Unmetered
        BY <2>8, <2>11
      <3>3. Cardinality(Unmetered') = Cardinality(Unmetered) - 1
        BY <2>5, <3>2, FS_RemoveElement
      <3> QED
        BY <2>4, <2>5, <2>7, <2>11, <3>1, <3>3
    <2> QED
      BY <1>0, <2>1, <2>3, <2>9, <2>10, <2>11, DraftIs
  <1>2. CASE Others
    <2>1. UNCHANGED <<circ, drafts, used, pc>>
      BY <1>2, OthersFrame
    <2> QED
      BY <2>1 DEF Counted, Healthy, Unmetered, Total, Units
  <1>3. CASE UNCHANGED vars
    BY <1>3 DEF Counted, Healthy, Unmetered, Total, Units, vars, box, task
  <1> QED
    BY <1>1, <1>2, <1>3, NextIs

LEMMA CountedInit == Init => Counted
  <1> SUFFICES ASSUME Init PROVE Counted
    OBVIOUS
  <1>1. drafts \in [Message -> Nat] /\ \A m \in Message : drafts[m] = 0
    BY DEF Init
  <1>2. used \in [Months -> Nat] /\ \A n \in Months : used[n] = 0
    BY DEF Init
  <1>3. IsFiniteSet(Units(drafts)) /\ Total(drafts) = 0
    BY <1>1, NoUnits
  <1>4. IsFiniteSet(Units(used)) /\ Total(used) = 0
    BY <1>2, NoUnits
  <1>5. Unmetered = {}
    BY DEF Init, Unmetered
  <1>6. Cardinality(Unmetered) = 0
    BY <1>5, FS_EmptySet
  <1> QED
    BY <1>3, <1>4, <1>6 DEF Counted

\* QuotaKept holds of Spec: no month counts more than Starter's allowance,
\* though the quota is read before the work and counted after it, since one
\* pass holds the lock; a pass that outlasts it costs one draft for each pass
\* beside it.  Where nothing fails the months count every draft written
\* (drafts_sweep.py:48-60, create.py:137-150).
THEOREM QuotaIsKept == Spec => []QuotaKept
  <1>1. QuotaInv /\ Counted => QuotaKept
    BY DEF QuotaInv, Quota, Slack, Counted, Healthy, QuotaKept
  <1>2. QuotaInv => Typed
    BY DEF QuotaInv
  <1> QED
    BY <1>1, <1>2, QuotaInit, QuotaInvStep, CountedInit, CountedStep, PTL DEF Spec

-----------------------------------------------------------------------------
(* One draft for a message *)

Calm == {"services", "crash", "overrun"} \cap circ = {}

\* Every draft has its label, or its pass is about to set it; what a pass has
\* still to consider has none.
Once ==
    Calm =>
        /\ \A m \in Message : drafts[m] <= 1
        /\ \A m \in Message : drafts[m] > 0 =>
              m \in marked \/ \E p \in Pass : pc[p] = "mark" /\ m = InHand(p)
        /\ \A p \in Pass : \A m \in pass[p].left :
              \/ pc[p] \notin {"next", "write", "mark", "meter"}
              \/ pc[p] \in {"mark", "meter"} /\ m = InHand(p)
              \/ drafts[m] = 0

\* What a calm step of a pass does to the mailbox and to what it holds.
LEMMA BoxIs ==
    ASSUME Typed, NEW p \in Pass, PassStep(p), Calm
    PROVE  \/ /\ UNCHANGED <<marked, drafts>> /\ pc[p] # "mark"
              /\ \/ pc'[p] \notin {"next", "write", "mark", "meter"}
                 \/ pc[p] = "query" /\ pc'[p] = "next" /\ pass'[p].left \cap marked = {}
           \/ /\ pc[p] \in {"next", "write"} /\ pc'[p] \in {"next", "write"}
              /\ drafts' = drafts /\ marked \subseteq marked' /\ pass'[p].left \subseteq pass[p].left
           \/ /\ pc[p] = "write" /\ pc'[p] = "mark" /\ marked' = marked /\ pass'[p] = pass[p]
              /\ drafts' = [drafts EXCEPT ![InHand(p)] = @ + 1]
           \/ /\ pc[p] = "mark" /\ pc'[p] = "meter" /\ pass'[p] = pass[p]
              /\ drafts' = drafts /\ marked' = marked \cup {InHand(p)}
           \/ /\ pc[p] = "meter" /\ pc'[p] = "next" /\ UNCHANGED <<marked, drafts>>
              /\ pass'[p].left = pass[p].left \ {InHand(p)}
  <1>0. /\ TypeOK /\ "services" \notin circ /\ "crash" \notin circ
        /\ pass[p] \in PassType /\ DOMAIN pass = Pass
    BY Fields DEF Calm, Typed, TypeOK
  <1>1. CASE (\E kind \in Kind : Start(p, kind)) \/ LoadDue(p)
    BY <1>0, <1>1 DEF Start, LoadDue, Goto, At, TypeOK, box
  <1>2. CASE Stamp(p) \/ LookUpReplied(p) \/ Release(p) \/ Crash(p)
    BY <1>0, <1>2 DEF Stamp, LookUpReplied, Release, Crash, Goto, At, TypeOK, box
  <1>3. CASE QueryCategory(p)
    <2>1. PICK key \in pass[p].config.keys :
            pass' = [pass EXCEPT ![p].config.keys = @ \ {key}, ![p].left = Candidates(key)]
      BY <1>0, <1>3 DEF QueryCategory
    <2>2. pass'[p] = [pass[p] EXCEPT !.config.keys = @ \ {key}, !.left = Candidates(key)]
      BY <1>0, <2>1
    <2>3. pass'[p].left = Candidates(key)
      BY <1>0, <2>2 DEF PassType
    <2>4. pass'[p].left \cap marked = {}
      BY <2>3 DEF Candidates
    <2> QED
      BY <1>0, <1>3, <2>4 DEF QueryCategory, Goto, At, TypeOK, box
  <1>4. CASE FindQuiet(p)
    <2>1. pass' = [pass EXCEPT ![p].left = QuietThreads] /\ pc'[p] = "next" /\ pc[p] = "query"
      BY <1>0, <1>4 DEF FindQuiet, Goto, At, TypeOK
    <2>2. pass'[p].left = QuietThreads
      BY <1>0, <2>1 DEF PassType
    <2>3. pass'[p].left \cap marked = {}
      BY <2>2 DEF QuietThreads
    <2> QED
      BY <1>4, <2>1, <2>3 DEF FindQuiet, box
  <1>5. CASE PassEnds(p)
    BY <1>0, <1>5 DEF PassEnds, Goto, At, TypeOK, box
  <1>6. Drop(p) => pc'[p] = "next" /\ pass'[p].left = pass[p].left \ {InHand(p)}
    <2>1. SUFFICES ASSUME Drop(p) PROVE pc'[p] = "next" /\ pass'[p].left = pass[p].left \ {InHand(p)}
      OBVIOUS
    <2>2. pc'[p] = "next" /\ pass'[p] = [pass[p] EXCEPT !.left = @ \ {InHand(p)}]
      BY <1>0, <2>1 DEF Drop, Goto, TypeOK
    <2> QED
      BY <1>0, <2>2 DEF PassType
  <1>7. CASE Consider(p)
    BY <1>0, <1>6, <1>7 DEF Consider, Goto, At, TypeOK, box
  <1>8. CASE Decline(p)
    BY <1>0, <1>6, <1>8 DEF Decline, At
  <1>9. CASE WriteFails(p)
    BY <1>0, <1>9 DEF WriteFails
  <1>10. CASE CreateDraft(p)
    BY <1>0, <1>10 DEF CreateDraft, Goto, At, TypeOK
  <1>11. CASE MarkDrafted(p)
    BY <1>0, <1>11 DEF MarkDrafted, Goto, At, TypeOK
  <1>12. CASE MeterDraft(p)
    <2>1. /\ pc'[p] = "next" /\ pc[p] = "meter"
          /\ pass'[p] = [pass[p] EXCEPT !.left = @ \ {InHand(p)}, !.created = @ + 1]
      BY <1>0, <1>12 DEF MeterDraft, Goto, At, TypeOK
    <2>2. pass'[p].left = pass[p].left \ {InHand(p)}
      BY <1>0, <2>1 DEF PassType
    <2> QED
      BY <1>12, <2>1, <2>2 DEF MeterDraft, box
  <1> QED
    BY <1>1, <1>2, <1>3, <1>4, <1>5, <1>7, <1>8, <1>9, <1>10, <1>11, <1>12 DEF PassStep

LEMMA OnceStep == Typed /\ Typed' /\ Alone /\ Once /\ [Next]_vars => Once'
  <1> SUFFICES ASSUME Typed, Typed', Alone, Once, [Next]_vars PROVE Once'
    OBVIOUS
  <1>0. TypeOK
    BY DEF Typed
  <1>1. CASE \E p \in Pass : PassStep(p)
    <2>1. PICK p \in Pass : PassStep(p)
      BY <1>1
    <2>2. circ' = circ /\ \A q \in Pass \ {p} : pc'[q] = pc[q]
      BY <1>0, <2>1, PassFrame
    <2>3. SUFFICES ASSUME Calm PROVE Once'
      BY <2>2 DEF Once, Calm
    <2>4. \A q \in Pass \ {p} : pc[q] = "idle" /\ pc'[q] = "idle"
      <3>1. pc[p] = "idle" => ~lock
        BY <1>0, <2>1, LockIs
      <3>2. "overrun" \notin circ
        BY <2>3 DEF Calm
      <3> QED
        BY <2>2, <3>1, <3>2 DEF Alone
    <2>5. /\ \A m \in Message : drafts[m] <= 1
          /\ \A m \in Message : drafts[m] > 0 => m \in marked \/ (pc[p] = "mark" /\ m = InHand(p))
          /\ \A m \in pass[p].left :
                \/ pc[p] \notin {"next", "write", "mark", "meter"}
                \/ pc[p] \in {"mark", "meter"} /\ m = InHand(p)
                \/ drafts[m] = 0
      BY <2>3, <2>4 DEF Once
    <2>6. SUFFICES
             /\ \A m \in Message : drafts'[m] <= 1
             /\ \A m \in Message : drafts'[m] > 0 => m \in marked' \/ (pc'[p] = "mark" /\ m = InHand(p)')
             /\ \A m \in pass'[p].left :
                   \/ pc'[p] \notin {"next", "write", "mark", "meter"}
                   \/ pc'[p] \in {"mark", "meter"} /\ m = InHand(p)'
                   \/ drafts'[m] = 0
      BY <2>4 DEF Once
    <2>7. drafts \in [Message -> Nat] /\ pass[p].left \subseteq Message /\ pass'[p].left \subseteq Message
      BY <1>0, DraftsAssumption DEF Typed, TypeOK, PassType
    <2>8. pc[p] \in {"write", "mark", "meter"} => InHand(p) \in pass[p].left /\ InHand(p) \in Message
      BY InHandIs DEF Typed, Drafting
    <2>9. pass'[p] = pass[p] => InHand(p)' = InHand(p)
      BY DEF InHand
    <2>10. CASE /\ UNCHANGED <<marked, drafts>> /\ pc[p] # "mark"
                /\ pc'[p] \notin {"next", "write", "mark", "meter"}
      BY <2>5, <2>6, <2>10
    <2>11. CASE /\ UNCHANGED <<marked, drafts>>
                /\ pc[p] = "query" /\ pc'[p] = "next" /\ pass'[p].left \cap marked = {}
      BY <2>5, <2>6, <2>7, <2>11
    <2>12. CASE /\ pc[p] \in {"next", "write"} /\ pc'[p] \in {"next", "write"}
                /\ drafts' = drafts /\ marked \subseteq marked' /\ pass'[p].left \subseteq pass[p].left
      BY <2>5, <2>6, <2>12
    <2>13. CASE /\ pc[p] = "write" /\ pc'[p] = "mark" /\ marked' = marked /\ pass'[p] = pass[p]
                /\ drafts' = [drafts EXCEPT ![InHand(p)] = @ + 1]
      <3>1. drafts'[InHand(p)] = 1 /\ \A m \in Message \ {InHand(p)} : drafts'[m] = drafts[m]
        BY <2>5, <2>7, <2>8, <2>13
      <3> QED
        BY <2>5, <2>6, <2>7, <2>8, <2>9, <2>13, <3>1
    <2>14. CASE /\ pc[p] = "mark" /\ pc'[p] = "meter" /\ pass'[p] = pass[p]
                /\ drafts' = drafts /\ marked' = marked \cup {InHand(p)}
      BY <2>5, <2>6, <2>9, <2>14
    <2>15. CASE /\ pc[p] = "meter" /\ pc'[p] = "next" /\ UNCHANGED <<marked, drafts>>
                /\ pass'[p].left = pass[p].left \ {InHand(p)}
      BY <2>5, <2>6, <2>15
    <2> QED
      BY <2>1, <2>3, <2>10, <2>11, <2>12, <2>13, <2>14, <2>15, BoxIs
  <1>2. CASE Others
    BY <1>2, OthersFrame DEF Once, Calm, InHand
  <1>3. CASE UNCHANGED vars
    BY <1>3 DEF Once, Calm, InHand, vars, box, task
  <1> QED
    BY <1>1, <1>2, <1>3, NextIs

LEMMA OnceInit == Init => Once
  BY DEF Init, Once, NoPass

\* DraftedOnce holds of Spec: whichever of the two tasks drafts for a message,
\* its label lands before the next query, so no later pass drafts for it again
\* (create.py:133-143).
THEOREM NoSecondDraft == Spec => []DraftedOnce
  <1>1. Once => DraftedOnce
    BY DEF Once, Calm, DraftedOnce
  <1>2. Once /\ QuotaInv /\ [Next]_vars => Once'
    BY OnceStep, QuotaInvStep DEF QuotaInv
  <1> QED
    BY <1>1, <1>2, OnceInit, QuotaInit, QuotaInvStep, PTL DEF Spec
=============================================================================
