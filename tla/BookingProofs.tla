---------------------------- MODULE BookingProofs ----------------------------
(***************************************************************************)
(* What Booking guarantees for any number of bookings, requests and slots, *)
(* any length of meeting and any faults, with and without the page around  *)
(* it: live bookings never overlap, seen as a ledger of held slots the     *)
(* component implements SlotLedger, and row, calendar and guest agree.     *)
(***************************************************************************)
EXTENDS BookingPage, TLAPS

\* A request that is past its insert, or that was started on a row, has one.
RowExists ==
    \A r \in Request :
        \/ pc[r] \in {"call", "confirm", "fail", "withdraw", "mark", "patch"}
        \/ (pc[r] # "idle" /\ req[r].op = "move")
        => status[req[r].b] # "absent"

Typed == TypeOK /\ RowExists

(* The page adds to Booking's steps that a request is turned away for what the *)
(* host has set, and that the busy cache is written and purged at other times. *)

TurnedAway(r) ==
    /\ pc[r] \in {"judge", "reserve"}
    /\ Return(r)
    /\ cached' \in {Uncached} \cup SUBSET Int
    /\ UNCHANGED <<rowVars, calendar, host>>

CacheWritten ==
    /\ cached' \in {Uncached} \cup SUBSET Int
    /\ UNCHANGED <<rowVars, calendar, host, pc, req>>

WideNext == Next \/ CacheWritten \/ \E r \in Request : TurnedAway(r)
WideSpec == Init /\ [][WideNext]_vars

LEMMA SpecIsWide == Spec => WideSpec
<1>1. [Next]_vars => [WideNext]_vars
    BY DEF WideNext
<1> QED BY <1>1, PTL DEF Spec, WideSpec

LEMMA InitTyped == Init => Typed
BY BookingFaultAssumption DEF Init, Typed, TypeOK, RowExists, Status, Step, Req, NoReq

\* What the rows, the calendar and the cache have to be, requests aside.
DataTyped ==
    /\ faults \subseteq Fault
    /\ status \in [Bookings -> Status]
    /\ start \in [Bookings -> Slot \cup {NoEvent}]
    /\ recorded \in [Bookings -> BOOLEAN]
    /\ calendar \in [Bookings -> Slot \cup {NoEvent}]
    /\ host \subseteq HostTick
    /\ cached \in {Uncached} \cup SUBSET Int
    /\ \A b \in Bookings : status[b] # "absent" => start[b] \in Slot

\* A request that returns leaves the requests typed.
LEMMA ReturnTyped ==
    ASSUME Typed, NEW r \in Request, Return(r), DataTyped',
           \A b \in Bookings : status[b] # "absent" => status'[b] # "absent"
    PROVE  Typed'
<1>1. req' \in [Request -> Req]
    BY DEF Typed, TypeOK, Return, NoReq, Req
<1>2. pc' \in [Request -> Step]
    BY DEF Typed, TypeOK, Return, Goto, Step
<1>3. \A q \in Request : pc'[q] # "idle" => pc'[q] = pc[q] /\ req'[q] = req[q] /\ q # r
    BY DEF Typed, TypeOK, Return, Goto
<1>4. RowExists'
    BY <1>3 DEF Typed, TypeOK, RowExists
<1> QED BY <1>1, <1>2, <1>3, <1>4 DEF Typed, TypeOK, DataTyped

\* What is busy on the calendar is a set of ticks.
LEMMA BusyTyped == ASSUME Typed PROVE BusyNow \subseteq Int
<1> USE DEF Typed, TypeOK
<1>1. \A c \in Listed : EventTicks(c) \subseteq Int
    BY TimeAssumption DEF EventTicks, Ticks, Listed
<1>2. UNION {EventTicks(c) : c \in Listed} \subseteq Int
    BY ONLY <1>1
<1>3. host \subseteq Int
    BY TimeAssumption
<1> QED BY ONLY <1>2, <1>3 DEF BusyNow

LEMMA NextTyped == Typed /\ [WideNext]_vars => Typed'
<1> SUFFICES ASSUME Typed, [WideNext]_vars PROVE Typed'
    OBVIOUS
<1> USE DEF Typed, TypeOK, RowExists, rowVars, Goto, Return, Status, Step
<1>0. NoReq \in Req
    BY DEF NoReq, Req
<1>1. ASSUME NEW r \in Request, Begin(r) PROVE Typed'
    <2>1. ASSUME NEW b \in Bookings, NEW s \in Slot, BeginCreate(r, b, s) PROVE Typed'
        BY <2>1 DEF BeginCreate, Start, Req, NoReq
    <2>2. ASSUME NEW b \in Bookings, BeginCancel(r, b) PROVE Typed'
        BY <2>2 DEF BeginCancel, Start, Req, NoReq
    <2>3. ASSUME NEW b \in Bookings, NEW s \in Slot, BeginMove(r, b, s) PROVE Typed'
        BY <2>3 DEF BeginMove, Start, Req, NoReq
    <2>4. ASSUME NEW b \in Bookings, CancelAgain(r, b) PROVE Typed'
        BY <2>4 DEF CancelAgain, vars
    <2> QED BY <1>1, <2>1, <2>2, <2>3, <2>4 DEF Begin
<1>2. ASSUME NEW r \in Request, Proceed(r) PROVE Typed'
    <2> DEFINE b == req[r].b
    <2>b. b \in Bookings /\ pc[r] # "idle"
        BY <1>2 DEF Proceed, Look, Accept, Refuse, Reserve, Outrun, PutOnCalendar, Confirm,
                    Fail, Withdraw, MarkCancelled, Move, Patch
    <2>0. BusyNow \subseteq Int
        BY BusyTyped
    <2>1. CASE Look(r)
        <3>1. /\ req' \in [Request -> Req]
              /\ \A q \in Request : /\ req'[q].op = req[q].op /\ req'[q].b = req[q].b
                                    /\ req'[q].s = req[q].s
            <4>0. PICK day \in CachedDay :
                    req' = [req EXCEPT ![r].busy = IF day = Uncached THEN BusyNow ELSE day,
                                       ![r].fetched = (day = Uncached)]
                BY <2>1 DEF Look
            <4> DEFINE read == IF day = Uncached THEN BusyNow ELSE day
                       missed == day = Uncached
            <4>1. read \in SUBSET Int /\ missed \in BOOLEAN
                BY <2>0 DEF CachedDay
            <4>2. req' = [req EXCEPT ![r] = [req[r] EXCEPT !.busy = read, !.fetched = missed]]
                BY <4>0
            <4>3. req[r] \in Req
                OBVIOUS
            <4> HIDE DEF read, missed
            <4>4. [req[r] EXCEPT !.busy = read, !.fetched = missed] \in Req
                BY <4>1, <4>3 DEF Req
            <4> QED BY <4>2, <4>3, <4>4 DEF Req
        <3>2. pc' \in [Request -> Step] /\ \A q \in Request : q # r => pc'[q] = pc[q]
            BY <2>1 DEF Look
        <3>3. pc[r] = "look" /\ pc'[r] = "judge"
            BY <2>1 DEF Look
        <3>4. DataTyped'
            BY <2>1 DEF Look, DataTyped
        <3>5. RowExists'
            BY <2>1, <3>1, <3>2, <3>3 DEF Look
        <3>6. \A q \in Request : pc'[q] # "idle" => pc[q] # "idle"
            BY <3>2, <3>3
        <3> QED BY <3>1, <3>2, <3>4, <3>5, <3>6 DEF DataTyped
    <2>2. CASE Accept(r)
        BY <2>2 DEF Accept, Remember, Req
    <2>3. CASE Refuse(r)
        BY <2>3, <1>0 DEF Refuse, Remember, Req
    <2>4. CASE Reserve(r)
        BY <2>4 DEF Reserve, Purge, Req
    <2>5. CASE Outrun(r)
        BY <2>5, <1>0 DEF Outrun
    <2>6. CASE PutOnCalendar(r)
        <3>1. req[r].s \in Slot \cup {NoEvent}
            BY DEF Req
        <3>2. calendar' \in [Bookings -> Slot \cup {NoEvent}]
            BY <2>6, <3>1 DEF PutOnCalendar
        <3>3. pc' \in [Request -> Step] /\ \A q \in Request : q # r => pc'[q] = pc[q]
            BY <2>6 DEF PutOnCalendar
        <3>4. pc[r] = "call" /\ status' = status /\ req' = req
            BY <2>6 DEF PutOnCalendar
        <3>5. RowExists'
            BY <3>3, <3>4
        <3> QED BY <2>6, <2>b, <3>2, <3>3, <3>4, <3>5 DEF PutOnCalendar
    <2>7. CASE Confirm(r)
        <3>1. start[b] \in Slot
            BY <2>7, <2>b DEF Confirm
        <3>2. status' \in [Bookings -> Status] /\ recorded' \in [Bookings -> BOOLEAN]
            BY <2>7, <2>b DEF Confirm
        <3>3. \A c \in Bookings : status'[c] = status[c] \/ (c = b /\ status'[c] = "confirmed")
            BY <2>7, <2>b DEF Confirm
        <3>4. DataTyped'
            BY <2>7, <3>1, <3>2, <3>3 DEF Confirm, DataTyped
        <3> QED BY <2>7, <3>3, <3>4, ReturnTyped DEF Confirm
    <2>8. CASE Fail(r)
        <3>1. start[b] \in Slot
            BY <2>8, <2>b DEF Fail
        <3>2. DataTyped'
            BY <2>8, <2>b, <3>1 DEF Fail, DataTyped
        <3> QED BY <2>8, <3>2, ReturnTyped DEF Fail
    <2>9. CASE Withdraw(r)
        BY <2>9 DEF Withdraw
    <2>10. CASE MarkCancelled(r)
        <3>1. start[b] \in Slot
            BY <2>10, <2>b DEF MarkCancelled
        <3>2. DataTyped'
            BY <2>10, <2>b, <3>1 DEF MarkCancelled, Purge, DataTyped
        <3> QED BY <2>10, <3>2, ReturnTyped DEF MarkCancelled
    <2>11. CASE Move(r)
        BY <2>11, <1>0 DEF Move, Purge
    <2>12. CASE Patch(r)
        <3>0. req[r].s \in Slot \cup {NoEvent}
            BY DEF Req
        <3>1. DataTyped'
            BY <2>12, <2>b, <3>0 DEF Patch, DataTyped
        <3> QED BY <2>12, <3>1, ReturnTyped DEF Patch
    <2> QED BY <1>2, <2>1, <2>2, <2>3, <2>4, <2>5, <2>6, <2>7, <2>8, <2>9,
               <2>10, <2>11, <2>12 DEF Proceed
<1>3. ASSUME NEW r \in Request, LookFails(r) \/ Crash(r) PROVE Typed'
    BY <1>3, <1>0 DEF LookFails, Crash
<1>4. ASSUME NEW t \in HostTick, HostBooks(t) PROVE Typed'
    BY <1>4 DEF HostBooks
<1>5. CASE CacheExpires
    BY <1>5 DEF CacheExpires
<1>6. CASE UNCHANGED vars
    BY <1>6 DEF vars
<1>7. ASSUME NEW r \in Request, TurnedAway(r) PROVE Typed'
    <2>1. DataTyped'
        BY <1>7 DEF TurnedAway, DataTyped
    <2> QED BY <1>7, <2>1, ReturnTyped DEF TurnedAway
<1>8. CASE CacheWritten
    BY <1>8 DEF CacheWritten
<1> QED BY <1>1, <1>2, <1>3, <1>4, <1>5, <1>6, <1>7, <1>8 DEF Next, WideNext

LEMMA WideTyped == WideSpec => []Typed
BY InitTyped, NextTyped, PTL DEF WideSpec

-----------------------------------------------------------------------------
(* The page around it *)

\* A view that has fetched the day holds a set of ticks.
Seen == viewing \in {NoView} \cup SUBSET Int

LEMMA PageStepIsWide ==
    ASSUME Typed, Seen, [PageNext]_allVars
    PROVE  [WideNext]_vars /\ Seen'
<1> USE DEF Typed, TypeOK, rowVars, pageVars, hostVars
<1>1. ASSUME NEW r \in Request, Arrives(r) \/ Silent(r), UNCHANGED pageVars
      PROVE  [WideNext]_vars /\ Seen'
    <2>1. CASE Arrives(r)
        BY <1>1, <2>1 DEF Arrives, WideNext, Next, Begin, Seen
    <2>2. CASE OutOfHours(r)
        <3>1. req[r].busy \in SUBSET Int
            BY DEF Req
        <3>2. TurnedAway(r)
            BY <2>2, <3>1 DEF OutOfHours, TurnedAway, Remember
        <3> QED BY <1>1, <3>2 DEF WideNext, Seen
    <2>3. CASE TypeGone(r)
        <3>1. TurnedAway(r)
            BY <2>3 DEF TypeGone, TurnedAway
        <3> QED BY <1>1, <3>1 DEF WideNext, Seen
    <2>4. CASE Silent(r) /\ ~OutOfHours(r) /\ ~TypeGone(r)
        BY <1>1, <2>4 DEF Silent, WideNext, Next, Proceed, Seen
    <2> QED BY <1>1, <2>1, <2>2, <2>3, <2>4
<1>2. ASSUME NEW r \in Request, Confirmed(r) \/ Cancelled(r) \/ Moved(r),
             UNCHANGED <<hostVars, viewing>>
      PROVE  [WideNext]_vars /\ Seen'
    BY <1>2 DEF Confirmed, Cancelled, Moved, WideNext, Next, Proceed, Seen
<1>3. CASE (CacheExpires \/ \E t \in HostTick : HostBooks(t)) /\ UNCHANGED pageVars
    BY <1>3 DEF WideNext, Next, Seen
<1>4. ASSUME NEW what, Saves(what) PROVE [WideNext]_vars /\ Seen'
    BY <1>4 DEF Saves, Purge, WideNext, CacheWritten, Seen
<1>5. CASE DeleteEventType
    BY <1>5 DEF DeleteEventType, Seen
<1>6. CASE Fetch
    BY <1>6, BusyTyped DEF Fetch, Seen
<1>7. CASE ViewDone
    BY <1>7 DEF ViewDone, WideNext, CacheWritten, Seen
<1>8. CASE UNCHANGED allVars
    BY <1>8 DEF allVars, Seen
<1> QED BY <1>1, <1>2, <1>3, <1>4, <1>5, <1>6, <1>7, <1>8
        DEF PageNext, UpdateHours, UpsertOverride, DeleteOverride, UpdateEventType,
            ViewPage, ViewOtherTimes

\* Whatever the host and the guests do around it, a booking goes its way.
LEMMA PageIsWide == PageSpec => WideSpec
<1>1. PageInit => Init /\ Seen
    BY DEF PageInit, Seen
<1>2. Typed /\ Seen /\ [PageNext]_allVars => [WideNext]_vars /\ Seen'
    BY PageStepIsWide
<1> QED BY <1>1, <1>2, InitTyped, NextTyped, PTL DEF PageSpec, WideSpec

\* The state variables of booking keep their types in every instance.
THEOREM BookingTypeCorrect == (Spec => []TypeOK) /\ (PageSpec => []TypeOK)
<1>1. Typed => TypeOK
    BY DEF Typed
<1> QED BY <1>1, WideTyped, SpecIsWide, PageIsWide, PTL

\* What the host has set and the letters the guests have got.
PageData ==
    /\ ways \subseteq PageFault
    /\ weekly \in Hours
    /\ override \in DateOverride
    /\ kind \in EventType
    /\ told \in [Bookings -> Slot \cup {NoEvent, CalledOff}]

\* A letter names the time the row has, or the time the request asked for.
LEMMA PageDataStep ==
    ASSUME Typed, PageData, [PageNext]_allVars
    PROVE  PageData'
<1> USE DEF pageVars, hostVars
<1>1. CASE UNCHANGED <<ways, weekly, override, kind, told>>
    BY <1>1 DEF PageData
<1>2. ASSUME NEW r \in Request, Confirmed(r) \/ Cancelled(r) \/ Moved(r),
             UNCHANGED <<hostVars, viewing>>
      PROVE  PageData'
    <2>1. ASSUME NEW b \in Bookings, NEW what \in Slot \cup {NoEvent, CalledOff}, Tell(b, what)
          PROVE  told' \in [Bookings -> Slot \cup {NoEvent, CalledOff}]
        BY <2>1 DEF Tell, Unsent, PageData
    <2>2. told' \in [Bookings -> Slot \cup {NoEvent, CalledOff}]
        <3>1. req[r] \in Req /\ start \in [Bookings -> Slot \cup {NoEvent}]
            BY DEF Typed, TypeOK
        <3>2. req[r].s \in Slot \cup {NoEvent, CalledOff}
            BY <3>1 DEF Req
        <3>3. pc[r] # "idle" => req[r].b \in Bookings
            BY DEF Typed, TypeOK
        <3>4. CASE Confirmed(r)
            <4>1. pc[r] # "idle"
                BY <3>4 DEF Confirmed, Confirm
            <4>2. start[req[r].b] \in Slot \cup {NoEvent, CalledOff}
                BY <3>1, <3>3, <4>1
            <4> QED BY <2>1, <3>3, <3>4, <4>1, <4>2 DEF Confirmed, PageData
        <3>5. CASE Cancelled(r)
            <4>1. pc[r] # "idle"
                BY <3>5 DEF Cancelled, MarkCancelled
            <4> QED BY <2>1, <3>3, <3>5, <4>1 DEF Cancelled
        <3>6. CASE Moved(r)
            <4>1. pc[r] # "idle"
                BY <3>6 DEF Moved, Move, Patch
            <4> QED BY <2>1, <3>2, <3>3, <3>6, <4>1 DEF Moved, PageData
        <3> QED BY <1>2, <3>4, <3>5, <3>6
    <2> QED BY <1>2, <2>2 DEF PageData
<1>3. ASSUME NEW w \in Hours, UpdateHours(w) \/ UpsertOverride(w) PROVE PageData'
    BY <1>3 DEF UpdateHours, UpsertOverride, Saves, PageData, DateOverride
<1>4. CASE DeleteOverride
    BY <1>4 DEF DeleteOverride, Saves, PageData, DateOverride
<1>5. CASE DeleteEventType
    BY <1>5 DEF DeleteEventType, PageData, EventType
<1>6. ASSUME NEW k \in {"open", "disabled"}, UpdateEventType(k) PROVE PageData'
    BY <1>6 DEF UpdateEventType, Saves, PageData, EventType
<1>7. CASE ViewPage \/ ViewDone \/ \E b \in Bookings : ViewOtherTimes(b)
    BY <1>1, <1>7 DEF ViewPage, ViewDone, ViewOtherTimes, Fetch
<1>8. CASE UNCHANGED allVars
    BY <1>1, <1>8 DEF allVars
<1> QED BY <1>1, <1>2, <1>3, <1>4, <1>5, <1>6, <1>7, <1>8 DEF PageNext

\* The page keeps its types too: the hours and the override are ones the host may
\* set, a view that has fetched the day holds ticks, and a guest's last letter
\* names a start of the host's or calls the meeting off.
THEOREM PageTypeCorrect == PageSpec => []PageTypeOK
<1>1. PageInit => Init /\ Seen /\ PageData
    BY PageAssumption DEF PageInit, Seen, PageData, DateOverride, EventType
<1>2. Typed /\ Seen /\ PageData /\ [PageNext]_allVars => Seen' /\ PageData'
    BY PageStepIsWide, PageDataStep
<1>3. Typed /\ Seen /\ PageData => PageTypeOK
    BY DEF Typed, Seen, PageData, PageTypeOK
<1> QED BY <1>1, <1>2, <1>3, WideTyped, PageIsWide, PTL DEF PageSpec

-----------------------------------------------------------------------------
(* What a step does to the rows *)

\* A step leaves the rows alone, gives a slot up, or holds one the constraint
\* admits.
RowStep ==
    \/ status' = status /\ start' = start
    \/ \E b \in Bookings, new \in {"failed", "cancelled"} :
        start' = start /\ status' = [status EXCEPT ![b] = new]
    \/ \E b \in Bookings, s \in Slot, new \in Status :
        /\ status' = [status EXCEPT ![b] = new]
        /\ start' = [start EXCEPT ![b] = s]
        /\ new \in {"pending", "confirmed"} => Admits(b, s)

\* Only a request that proceeds writes rows.
LEMMA OnlyProceedWrites ==
    ASSUME [WideNext]_vars
    PROVE  UNCHANGED rowVars \/ \E r \in Request : Proceed(r)
<1>1. ASSUME NEW r \in Request, Begin(r) PROVE UNCHANGED rowVars
    BY <1>1 DEF Begin, BeginCancel, CancelAgain, BeginCreate, BeginMove, Start, rowVars, vars
<1>2. ASSUME NEW r \in Request, LookFails(r) \/ Crash(r) \/ TurnedAway(r) PROVE UNCHANGED rowVars
    BY <1>2 DEF LookFails, Crash, TurnedAway
<1>3. ASSUME NEW t \in HostTick, HostBooks(t) PROVE UNCHANGED rowVars
    BY <1>3 DEF HostBooks
<1>4. CASE CacheExpires \/ CacheWritten \/ UNCHANGED vars
    BY <1>4 DEF CacheExpires, CacheWritten, vars, rowVars
<1> QED BY <1>1, <1>2, <1>3, <1>4 DEF WideNext, Next

LEMMA RowStepTaken == ASSUME Typed, [WideNext]_vars PROVE RowStep
<1> USE DEF Typed, TypeOK, rowVars
<1>1. ASSUME NEW r \in Request, Proceed(r) PROVE RowStep
    <2> DEFINE b == req[r].b
    <2>b. b \in Bookings /\ pc[r] # "idle"
        BY <1>1 DEF Proceed, Look, Accept, Refuse, Reserve, Outrun, PutOnCalendar, Confirm,
                    Fail, Withdraw, MarkCancelled, Move, Patch
    <2>1. CASE Reserve(r)
        <3>1. req[r].s \in Slot /\ Admits(b, req[r].s)
            BY <2>1, <2>b DEF Reserve
        <3>2. /\ status' = [status EXCEPT ![b] = "pending"]
              /\ start' = [start EXCEPT ![b] = req[r].s]
            BY <2>1 DEF Reserve
        <3> QED BY <2>b, <3>1, <3>2 DEF RowStep, Status
    <2>2. CASE Confirm(r)
        <3>1. start[b] \in Slot /\ start' = start
            BY <2>2, <2>b DEF Confirm, RowExists
        <3>2. start' = [start EXCEPT ![b] = start[b]]
            BY <3>1
        <3>3. CASE Admits(b, start[b])
            <4>1. status' = [status EXCEPT ![b] = "confirmed"]
                BY <2>2, <3>3 DEF Confirm
            <4> QED BY <2>b, <3>1, <3>2, <3>3, <4>1 DEF RowStep, Status
        <3>4. CASE ~Admits(b, start[b])
            BY <2>2, <3>1, <3>4 DEF Confirm, RowStep
        <3> QED BY <3>3, <3>4
    <2>3. CASE Fail(r)
        BY <2>3, <2>b DEF Fail, RowStep
    <2>4. CASE MarkCancelled(r)
        BY <2>4, <2>b DEF MarkCancelled, RowStep
    <2>5. CASE Move(r)
        <3>1. req[r].s \in Slot /\ status[b] \in Status
            BY <2>5, <2>b DEF Move
        <3>2. /\ status' = [status EXCEPT ![b] = status[b]]
              /\ start' = [start EXCEPT ![b] = req[r].s]
            BY <2>5 DEF Move
        <3>3. status[b] \in {"pending", "confirmed"} => Admits(b, req[r].s)
            BY <2>5 DEF Move, Live
        <3> QED BY <2>b, <3>1, <3>2, <3>3 DEF RowStep
    <2>6. CASE ~(Reserve(r) \/ Confirm(r) \/ Fail(r) \/ MarkCancelled(r) \/ Move(r))
        BY <1>1, <2>6 DEF Proceed, RowStep, Look, Accept, Refuse, Outrun, PutOnCalendar,
                          Withdraw, Patch
    <2> QED BY <2>1, <2>2, <2>3, <2>4, <2>5, <2>6
<1>2. CASE status' = status /\ start' = start
    BY <1>2 DEF RowStep
<1>3. (status' = status /\ start' = start) \/ \E r \in Request : Proceed(r)
    BY OnlyProceedWrites
<1> QED BY <1>1, <1>2, <1>3

-----------------------------------------------------------------------------
(* No double booking *)

LEMMA NextApart == Typed /\ NoDoubleBooking /\ [WideNext]_vars => NoDoubleBooking'
<1> SUFFICES ASSUME Typed, NoDoubleBooking, RowStep PROVE NoDoubleBooking'
    BY RowStepTaken
<1> USE DEF Typed, TypeOK, NoDoubleBooking, Live, Overlap
<1>1. CASE status' = status /\ start' = start
    BY <1>1
<1>2. ASSUME NEW b \in Bookings, NEW new \in {"failed", "cancelled"},
             start' = start, status' = [status EXCEPT ![b] = new]
      PROVE  NoDoubleBooking'
    BY <1>2
<1>3. ASSUME NEW b \in Bookings, NEW s \in Slot, NEW new \in Status,
             status' = [status EXCEPT ![b] = new],
             start' = [start EXCEPT ![b] = s],
             new \in {"pending", "confirmed"} => Admits(b, s)
      PROVE  NoDoubleBooking'
    BY <1>3 DEF Admits
<1> QED BY <1>1, <1>2, <1>3 DEF RowStep

LEMMA WideApart == WideSpec => []NoDoubleBooking
<1>1. Init => NoDoubleBooking
    BY DEF Init, NoDoubleBooking, Live
<1> QED BY <1>1, WideTyped, NextApart, PTL DEF WideSpec

\* Live bookings never overlap, whatever requests are in progress and whatever
\* fails: every way to become live or to move goes through the constraint.
THEOREM NeverDoubleBooked ==
    (Spec => []NoDoubleBooking) /\ (PageSpec => []NoDoubleBooking)
BY WideApart, SpecIsWide, PageIsWide, PTL

-----------------------------------------------------------------------------
(* Every pending booking is in somebody's hands *)

Deciding(r, b) == pc[r] \in {"call", "confirm", "fail"} /\ req[r].b = b

\* A request goes on deciding its booking until it has decided it.
LEMMA DecidingGoesOn ==
    ASSUME Typed, NoDoubleBooking, "crash" \notin faults, [WideNext]_vars,
           NEW b \in Bookings, NEW r \in Request, Deciding(r, b), status[b] = "pending"
    PROVE  Deciding(r, b)' \/ status'[b] # "pending"
<1> USE DEF Typed, TypeOK, Deciding, rowVars, Goto, Return
<1>1. CASE PutOnCalendar(r)
    BY <1>1 DEF PutOnCalendar
<1>2. CASE Confirm(r)
    <2>1. Admits(b, start[b])
        BY DEF Admits, NoDoubleBooking, Live, Overlap
    <2> QED BY <1>2, <2>1 DEF Confirm
<1>3. CASE Fail(r)
    BY <1>3 DEF Fail
<1>4. CASE pc'[r] = pc[r] /\ req'[r] = req[r]
    BY <1>4
<1>5. ASSUME NEW q \in Request, q # r, Begin(q) \/ Proceed(q) \/ LookFails(q) \/ Crash(q)
      PROVE  pc'[r] = pc[r] /\ req'[r] = req[r]
    BY <1>5 DEF Begin, BeginCreate, BeginCancel, CancelAgain, BeginMove, Start, Proceed, Look,
       Accept, Refuse, Reserve, Outrun, PutOnCalendar, Confirm, Fail, Withdraw, MarkCancelled,
       Move, Patch, LookFails, Crash, vars
<1>6. ASSUME Begin(r) \/ Proceed(r) \/ LookFails(r) \/ Crash(r),
             ~(PutOnCalendar(r) \/ Confirm(r) \/ Fail(r))
      PROVE  pc'[r] = pc[r] /\ req'[r] = req[r]
    BY <1>6 DEF Begin, BeginCreate, BeginCancel, CancelAgain, BeginMove, Start, Proceed, Look,
       Accept, Refuse, Reserve, Outrun, Withdraw, MarkCancelled, Move, Patch, LookFails, Crash,
       vars
<1>7. CASE pc' = pc /\ req' = req
    BY <1>4, <1>7
<1>8. ASSUME NEW q \in Request, TurnedAway(q) PROVE pc'[r] = pc[r] /\ req'[r] = req[r]
    BY <1>8 DEF TurnedAway
<1>9. \/ \E q \in Request : Begin(q) \/ Proceed(q) \/ LookFails(q) \/ Crash(q) \/ TurnedAway(q)
      \/ pc' = pc /\ req' = req
    BY DEF WideNext, CacheWritten, Next, vars, HostBooks, CacheExpires
<1> QED BY <1>1, <1>2, <1>3, <1>4, <1>5, <1>6, <1>7, <1>8, <1>9

\* A booking becomes pending in the hands of the request that inserts it.
LEMMA PendingBegins ==
    ASSUME Typed, [WideNext]_vars, NEW b \in Bookings,
           status[b] # "pending", status'[b] = "pending"
    PROVE  \E r \in Request : Deciding(r, b)'
<1> USE DEF Typed, TypeOK, rowVars
<1>1. PICK r \in Request : Reserve(r) /\ req[r].b = b
    <2>1. PICK r \in Request : Proceed(r)
        BY OnlyProceedWrites
    <2> QED BY <2>1 DEF Proceed, Look, Accept, Refuse, Reserve, Outrun, PutOnCalendar, Confirm,
                        Fail, Withdraw, MarkCancelled, Move, Patch
<1>2. pc'[r] = "call" /\ req' = req
    BY <1>1 DEF Reserve, Goto
<1> QED BY <1>1, <1>2 DEF Deciding

LEMMA RowFaultsKept == [WideNext]_vars => faults' = faults
<1>1. ASSUME NEW r \in Request, Proceed(r) PROVE faults' = faults
    BY <1>1 DEF Proceed, rowVars, Look, Accept, Refuse, Reserve, Outrun, PutOnCalendar, Confirm,
                Fail, Withdraw, MarkCancelled, Move, Patch
<1> QED BY <1>1, OnlyProceedWrites DEF rowVars

LEMMA WidePending == WideSpec => []PendingInHand
<1>1. Init => PendingInHand
    BY DEF Init, PendingInHand
<1>2. Typed /\ NoDoubleBooking /\ PendingInHand /\ [WideNext]_vars => PendingInHand'
    <2> SUFFICES ASSUME Typed, NoDoubleBooking, PendingInHand, [WideNext]_vars,
                        "crash" \notin faults, NEW b \in Bookings, status'[b] = "pending"
                 PROVE  \E r \in Request : Deciding(r, b)'
        BY RowFaultsKept DEF PendingInHand, Deciding
    <2>1. CASE status[b] = "pending"
        <3>1. PICK r \in Request : Deciding(r, b)
            BY <2>1 DEF PendingInHand, Deciding
        <3> QED BY <2>1, <3>1, DecidingGoesOn
    <2>2. CASE status[b] # "pending"
        BY <2>2, PendingBegins
    <2> QED BY <2>1, <2>2
<1> QED BY <1>1, <1>2, WideTyped, WideApart, PTL DEF WideSpec

\* While no worker dies, every pending booking has a request about to decide it,
\* whatever other requests do to the row meanwhile.
THEOREM PendingIsDecided == (Spec => []PendingInHand) /\ (PageSpec => []PendingInHand)
BY WidePending, SpecIsWide, PageIsWide, PTL

-----------------------------------------------------------------------------
(* The ledger *)

Held == [b \in Bookings |-> IF Live(b) THEN start[b] ELSE NoEvent]

LEMMA NextLedger == ASSUME Typed, RowStep PROVE [Ledger!Next]_Held
<1> USE DEF Typed, TypeOK, Held, Live
<1>1. CASE status' = status /\ start' = start
    BY <1>1
<1>2. ASSUME NEW b \in Bookings, NEW new \in {"failed", "cancelled"},
             start' = start, status' = [status EXCEPT ![b] = new]
      PROVE  Ledger!GiveUp(b)
    <2>1. Held' = [Held EXCEPT ![b] = NoEvent]
        BY <1>2
    <2> QED BY <2>1 DEF Ledger!GiveUp
<1>3. ASSUME NEW b \in Bookings, NEW s \in Slot, NEW new \in Status,
             status' = [status EXCEPT ![b] = new],
             start' = [start EXCEPT ![b] = s],
             new \in {"pending", "confirmed"} => Admits(b, s)
      PROVE  Ledger!GiveUp(b) \/ Ledger!Hold(b, s)
    <2>1. CASE new \in {"pending", "confirmed"}
        <3>1. Held' = [Held EXCEPT ![b] = s]
            BY <1>3, <2>1
        <3>2. Ledger!FreeFor(b, s)
            BY <1>3, <2>1 DEF Admits, Ledger!FreeFor, Overlap, Ledger!Overlap
        <3> QED BY <3>1, <3>2 DEF Ledger!Hold
    <2>2. CASE new \notin {"pending", "confirmed"}
        <3>1. Held' = [Held EXCEPT ![b] = NoEvent]
            BY <1>3, <2>2
        <3> QED BY <3>1 DEF Ledger!GiveUp
    <2> QED BY <2>1, <2>2
<1> QED BY <1>1, <1>2, <1>3 DEF RowStep, Ledger!Next

\* Seen as the slots that live bookings hold, booking implements SlotLedger.
THEOREM ImplementsLedger == (Spec => LedgerSpec) /\ (PageSpec => LedgerSpec)
<1>1. Init => Ledger!Init
    BY DEF Init, Ledger!Init, Live
<1>2. Typed /\ [WideNext]_vars => [Ledger!Next]_Held
    BY RowStepTaken, NextLedger
<1>3. WideSpec => LedgerSpec
    BY <1>1, <1>2, WideTyped, PTL DEF WideSpec, LedgerSpec, Ledger!Spec, Held
<1> QED BY <1>3, SpecIsWide, PageIsWide, PTL

-----------------------------------------------------------------------------
(* Buffers *)

Apart(s, t) == s + Duration + Pad <= t \/ t + Duration + Pad <= s

OneAtATime == \A q, r \in Request : pc[q] # "idle" /\ pc[r] # "idle" => q = r

\* The request that was offered a time still has it to itself when it comes to
\* write, and what it confirms it has held since.
BufferInv ==
    /\ OneAtATime
    /\ BuffersKept
    /\ \A r \in Request :
        /\ pc[r] \in {"look", "judge"} => req[r].op # "cancel"
        /\ pc[r] = "reserve" =>
              \A c \in Bookings : Live(c) /\ c # req[r].b => Apart(req[r].s, start[c])
        /\ pc[r] \in {"call", "confirm"} => status[req[r].b] = "pending"

\* Two spans of time that share no tick lie one after the other.
LEMMA Disjoint ==
    ASSUME NEW i \in Int, NEW j \in Int, NEW k \in Int, NEW l \in Int,
           i <= j, k <= l, (i .. j) \cap (k .. l) = {}
    PROVE  j < k \/ l < i
<1> SUFFICES ASSUME k <= j, i <= l PROVE FALSE
    OBVIOUS
<1>1. CASE i <= k
    <2>1. k \in i .. j /\ k \in k .. l
        BY <1>1
    <2> QED BY <2>1
<1>2. CASE k < i
    <2>1. i \in i .. j /\ i \in k .. l
        BY <1>2
    <2> QED BY <2>1
<1> QED BY <1>1, <1>2

LEMMA SlotsAreTimes == \A s \in Slot : s \in Int
<1>1. \A s \in Slot : s \in Nat
    BY TimeAssumption
<1>2. \A s \in Nat : s \in Int
    OBVIOUS
<1> QED BY <1>1, <1>2

\* What is offered is clear of every other live booking by the buffer.
LEMMA OfferedApart ==
    ASSUME Typed, NEW r \in Request, pc[r] # "idle", req[r].s \in Slot, Offered(r),
           NEW c \in Bookings, Live(c), c # req[r].b
    PROVE  Apart(req[r].s, start[c])
<1>1. start[c] \in Int /\ req[r].s \in Int /\ Duration \in Nat \ {0} /\ Pad \in Nat
    <2>1. start[c] \in Slot
        BY DEF Typed, TypeOK, Live
    <2> QED BY <2>1, SlotsAreTimes, TimeAssumption
<1>2. c \in Others(r)
    BY DEF Others
<1>3. Near(req[r].s) \cap Ticks(start[c]) = {}
    BY <1>2 DEF Offered
<1> DEFINE s == req[r].s
           t == start[c]
<1>4. ((s - Pad) .. (s + Duration + Pad - 1)) \cap (t .. (t + Duration - 1)) = {}
    BY <1>3 DEF Near, Ticks
<1> HIDE DEF s, t
<1>5. s \in Int /\ t \in Int
    BY <1>1 DEF s, t
<1> DEFINE i == s - Pad
           j == s + Duration + Pad - 1
           l == t + Duration - 1
<1>8. i \in Int /\ j \in Int /\ l \in Int /\ i <= j /\ t <= l
    BY <1>1, <1>5
<1>9. (i .. j) \cap (t .. l) = {}
    BY <1>4
<1> HIDE DEF i, j, l
<1>10. j < t \/ l < i
    BY <1>5, <1>8, <1>9, Disjoint
<1>6. s + Duration + Pad - 1 < t \/ t + Duration - 1 < s - Pad
    BY <1>10 DEF i, j, l
<1>7. s + Duration + Pad <= t \/ t + Duration + Pad <= s
    BY <1>1, <1>5, <1>6
<1> QED BY <1>7 DEF Apart, s, t

\* Nobody begins while somebody is at work.
LEMMA StaysAlone ==
    ASSUME Typed, "overlap" \notin faults, OneAtATime, [WideNext]_vars
    PROVE  OneAtATime'
<1> USE DEF Typed, TypeOK, OneAtATime, Goto, Return
<1>1. ASSUME NEW r \in Request, Begin(r) PROVE OneAtATime'
    <2>1. pc' = pc \/ (Quiet /\ \A q \in Request \ {r} : pc'[q] = pc[q])
        BY <1>1 DEF Begin, BeginCreate, BeginCancel, CancelAgain, BeginMove, Start, vars
    <2> QED BY <2>1 DEF Quiet
<1>2. ASSUME NEW r \in Request, pc[r] # "idle", \A q \in Request \ {r} : pc'[q] = pc[q]
      PROVE  OneAtATime'
    BY <1>2
<1>3. ASSUME NEW r \in Request, Proceed(r) \/ LookFails(r) \/ Crash(r) \/ TurnedAway(r)
      PROVE  pc[r] # "idle" /\ \A q \in Request \ {r} : pc'[q] = pc[q]
    BY <1>3 DEF Proceed, Look, Accept, Refuse, Reserve, Outrun, PutOnCalendar, Confirm, Fail,
                Withdraw, MarkCancelled, Move, Patch, LookFails, Crash, TurnedAway
<1>4. CASE pc' = pc
    BY <1>4
<1> QED BY <1>1, <1>2, <1>3, <1>4 DEF WideNext, CacheWritten, Next, vars, HostBooks, CacheExpires

\* A look at the day leaves what is asked for alone.
LEMMA LookKeeps ==
    ASSUME Typed, NEW r \in Request, Look(r), NEW q \in Request
    PROVE  req'[q].b = req[q].b /\ req'[q].s = req[q].s /\ req'[q].op = req[q].op
           /\ req'[q].known = req[q].known
<1>1. PICK day \in CachedDay :
         req' = [req EXCEPT ![r].busy = IF day = Uncached THEN BusyNow ELSE day,
                            ![r].fetched = (day = Uncached)]
    BY DEF Look
<1>2. req \in [Request -> Req]
    BY DEF Typed, TypeOK
<1> QED BY <1>1, <1>2 DEF Req

LEMMA BufferStep ==
    ASSUME Typed, "overlap" \notin faults, BufferInv, [WideNext]_vars
    PROVE  BufferInv'
<1> USE DEF Typed, TypeOK, rowVars, Goto, Return
<1>a. OneAtATime' /\ faults' = faults
    BY StaysAlone, RowFaultsKept DEF BufferInv
<1>b. \A b \in Bookings : Live(b) => start[b] \in Int
    <2>1. \A b \in Bookings : Live(b) => start[b] \in Slot
        BY DEF Live
    <2> QED BY <2>1, SlotsAreTimes, TimeAssumption
<1>1. ASSUME status' = status, start' = start,
             \A r \in Request : pc'[r] \in {"reserve", "call", "confirm"} =>
                /\ req'[r].b = req[r].b /\ req'[r].s = req[r].s
                /\ \/ pc'[r] = pc[r]
                   \/ pc'[r] = "confirm" /\ pc[r] = "call",
             \A r \in Request : pc'[r] \in {"look", "judge"} => req'[r].op # "cancel"
      PROVE  BufferInv'
    BY <1>a, <1>1 DEF BufferInv, BuffersKept, Live, Apart
<1>2. ASSUME NEW r \in Request, Proceed(r) PROVE BufferInv'
    <2> DEFINE b == req[r].b
    <2>b. b \in Bookings /\ pc[r] # "idle"
        BY <1>2 DEF Proceed, Look, Accept, Refuse, Reserve, Outrun, PutOnCalendar, Confirm,
                    Fail, Withdraw, MarkCancelled, Move, Patch
    <2>c. \A q \in Request : pc[q] # "idle" => q = r
        BY <2>b DEF BufferInv, OneAtATime
    <2>1. CASE Accept(r)
        <3>1. /\ status' = status /\ start' = start /\ req' = req /\ pc'[r] = "reserve"
              /\ \A q \in Request \ {r} : pc'[q] = "idle"
            BY <2>1, <2>c DEF Accept
        <3>2. \A c \in Bookings : Live(c) /\ c # req[r].b => Apart(req[r].s, start[c])
            <4>1. req[r].s \in Slot /\ Offered(r)
                BY <2>1, <2>b DEF Accept, BufferInv
            <4> QED BY <2>b, <4>1, OfferedApart
        <3> QED BY <1>a, <3>1, <3>2 DEF BufferInv, BuffersKept, Live, Apart
    <2>2. CASE Reserve(r) \/ Move(r)
        <3>1. PICK s \in Slot, new \in Status : /\ status' = [status EXCEPT ![b] = new]
                               /\ start' = [start EXCEPT ![b] = s] /\ s = req[r].s
            <4>1. CASE Reserve(r)
                BY <4>1, <2>b DEF Reserve, Status
            <4>2. CASE Move(r)
                <5>1. status' = [status EXCEPT ![b] = status[b]] /\ status[b] \in Status
                    BY <4>2, <2>b DEF Move
                <5> QED BY <4>2, <2>b, <5>1 DEF Move
            <4> QED BY <2>2, <4>1, <4>2
        <3>2. \A c \in Bookings : Live(c) /\ c # b => Apart(s, start[c])
            BY <2>2, <3>1 DEF BufferInv, Reserve, Move
        <3>3. BuffersKept'
            <4>1. \A c \in Bookings \ {b} : (Live(c)' <=> Live(c)) /\ start'[c] = start[c]
                BY <3>1 DEF Live
            <4>2. start'[b] = s
                BY <2>b, <3>1
            <4> QED BY <1>a, <1>b, <3>2, <4>1, <4>2 DEF BufferInv, BuffersKept, Apart
        <3>4. \A q \in Request : pc'[q] \in {"reserve", "call", "confirm"} =>
                 q = r /\ pc'[q] = "call" /\ status'[b] = "pending" /\ req'[q].b = b
            <4>1. CASE Reserve(r)
                BY <4>1, <2>b, <2>c DEF Reserve
            <4>2. CASE Move(r)
                BY <4>2, <2>b, <2>c DEF Move
            <4> QED BY <2>2, <4>1, <4>2
        <3>5. \A q \in Request : pc'[q] \notin {"look", "judge"}
            BY <2>2, <2>c DEF Reserve, Move
        <3> QED BY <1>a, <3>3, <3>4, <3>5 DEF BufferInv
    <2>3. CASE Confirm(r)
        <3>1. status[b] = "pending" /\ start' = start
            BY <2>3 DEF Confirm, BufferInv
        <3>2. \A c \in Bookings : Live(c)' <=> Live(c)
            BY <2>3, <2>b, <3>1 DEF Confirm, Live
        <3>3. \A q \in Request : pc'[q] = "idle"
            BY <2>3, <2>c DEF Confirm
        <3> QED BY <1>a, <3>1, <3>2, <3>3 DEF BufferInv, BuffersKept
    <2>4. CASE Fail(r) \/ MarkCancelled(r)
        <3>1. start' = start /\ \A c \in Bookings : Live(c)' => Live(c)
            BY <2>4, <2>b DEF Fail, MarkCancelled, Live
        <3>2. \A q \in Request : pc'[q] = "idle"
            BY <2>4, <2>c DEF Fail, MarkCancelled
        <3> QED BY <1>a, <3>1, <3>2 DEF BufferInv, BuffersKept
    <2>5. CASE Look(r) \/ Refuse(r) \/ Outrun(r) \/ PutOnCalendar(r) \/ Withdraw(r) \/ Patch(r)
        <3>1. status' = status /\ start' = start
            BY <2>5 DEF Look, Refuse, Outrun, PutOnCalendar, Withdraw, Patch
        <3>2. \A q \in Request : pc'[q] # "idle" =>
                 req'[q].b = req[q].b /\ req'[q].s = req[q].s /\ req'[q].op = req[q].op
            <4>1. CASE Look(r)
                BY <4>1, LookKeeps
            <4>2. CASE req' = req
                BY <4>2
            <4>3. CASE Return(r)
                BY <4>3, <2>c
            <4> QED BY <2>5, <4>1, <4>2, <4>3 DEF Refuse, Outrun, PutOnCalendar, Withdraw, Patch
        <3>3. \A q \in Request : pc'[q] \in {"reserve", "call", "confirm", "look", "judge"} =>
                 \/ pc'[q] = pc[q]
                 \/ pc'[q] = "confirm" /\ pc[q] = "call"
                 \/ pc'[q] = "judge" /\ pc[q] = "look"
            BY <2>5, <2>b, <2>c DEF Look, Refuse, Outrun, PutOnCalendar, Withdraw, Patch
        <3> QED BY <1>1, <3>1, <3>2, <3>3 DEF BufferInv
    <2> QED BY <1>2, <2>1, <2>2, <2>3, <2>4, <2>5 DEF Proceed
<1>3. ASSUME NEW r \in Request, Begin(r) PROVE BufferInv'
    <2>1. ASSUME NEW b \in Bookings, NEW s \in Slot, BeginCreate(r, b, s) \/ BeginMove(r, b, s)
          PROVE  BufferInv'
        <3>1. pc'[r] = "look" /\ req'[r].op # "cancel" /\ status' = status /\ start' = start
            BY <2>1 DEF BeginCreate, BeginMove, Start, NoReq
        <3>2. \A q \in Request \ {r} : pc'[q] = pc[q] /\ req'[q] = req[q]
            BY <2>1 DEF BeginCreate, BeginMove, Start
        <3> QED BY <1>1, <3>1, <3>2 DEF BufferInv
    <2>2. ASSUME NEW b \in Bookings, BeginCancel(r, b) PROVE BufferInv'
        <3>1. pc'[r] \in {"withdraw", "mark"} /\ status' = status /\ start' = start
            BY <2>2 DEF BeginCancel, Start
        <3>2. \A q \in Request \ {r} : pc'[q] = pc[q] /\ req'[q] = req[q]
            BY <2>2 DEF BeginCancel, Start
        <3> QED BY <1>1, <3>1, <3>2 DEF BufferInv
    <2>3. ASSUME NEW b \in Bookings, CancelAgain(r, b) PROVE BufferInv'
        BY <1>1, <2>3 DEF CancelAgain, vars, BufferInv
    <2> QED BY <1>3, <2>1, <2>2, <2>3 DEF Begin
<1>4. ASSUME NEW r \in Request, LookFails(r) \/ Crash(r) \/ TurnedAway(r) PROVE BufferInv'
    <2>1. Return(r) /\ status' = status /\ start' = start
        BY <1>4 DEF LookFails, Crash, TurnedAway
    <2>2. \A q \in Request : pc'[q] # "idle" => pc'[q] = pc[q] /\ req'[q] = req[q]
        BY <2>1
    <2> QED BY <1>1, <2>1, <2>2 DEF BufferInv
<1>5. CASE UNCHANGED <<status, start, pc, req>>
    BY <1>1, <1>5 DEF BufferInv
<1> QED BY <1>2, <1>3, <1>4, <1>5 DEF WideNext, CacheWritten, Next, vars, HostBooks, CacheExpires

\* With one request at a time live bookings keep the buffer between them, for any
\* lengths of meetings and buffers: what was offered is clear until it is written.
THEOREM BuffersAreKept == (Spec => []BuffersKept) /\ (PageSpec => []BuffersKept)
<1> DEFINE Lone == "overlap" \notin faults => BufferInv
<1>1. Init => Lone
    BY DEF Init, BufferInv, OneAtATime, BuffersKept, Live
<1>2. Typed /\ Lone /\ [WideNext]_vars => Lone'
    BY BufferStep, RowFaultsKept
<1>3. Lone => BuffersKept
    BY DEF BufferInv, BuffersKept
<1> HIDE DEF Lone
<1> QED BY <1>1, <1>2, <1>3, WideTyped, SpecIsWide, PageIsWide, PTL DEF WideSpec

-----------------------------------------------------------------------------
(* A confirmed meeting is on the calendar *)

Busy(r, op) == pc[r] # "idle" /\ req[r].op = op

\* What a request goes through depends on what was asked; one that withdraws an
\* event knows of one, and one that is about to confirm has made one.
RequestOK(r) ==
    /\ Busy(r, "cancel") <=> pc[r] \in {"withdraw", "mark"}
    /\ pc[r] \in {"call", "confirm", "fail"} => req[r].op = "create"
    /\ pc[r] = "withdraw" => recorded[req[r].b]
    /\ pc[r] = "confirm" => calendar[req[r].b] # NoEvent
    /\ Busy(r, "create") =>
        /\ ~recorded[req[r].b]
        /\ pc[r] \in {"look", "judge", "reserve"} => status[req[r].b] = "absent"

\* No event is on record before the one request that creates the booking is done.
EventInv ==
    /\ \A b \in Bookings : status[b] = "absent" => ~recorded[b]
    /\ \A r \in Request : RequestOK(r)
    /\ \A q, r \in Request :
          Busy(q, "create") /\ Busy(r, "create") /\ req[q].b = req[r].b => q = r

\* A request at work, in whatever way.
Works(r) == Proceed(r) \/ LookFails(r) \/ Crash(r) \/ TurnedAway(r)

\* A step is a request that begins, a request at work, or none of the requests'.
LEMMA StepKinds ==
    ASSUME [WideNext]_vars
    PROVE  \/ \E r \in Request, b \in Bookings : BeginCancel(r, b)
           \/ \E r \in Request, b \in Bookings, s \in Slot : BeginCreate(r, b, s) \/ BeginMove(r, b, s)
           \/ \E r \in Request : Works(r)
           \/ UNCHANGED <<faults, status, start, recorded, calendar, pc, req>>
BY DEF WideNext, CacheWritten, Next, vars, rowVars, Begin, CancelAgain, HostBooks, CacheExpires, Works

\* A request at work touches no other request and no other booking, and keeps
\* what it was asked.
LEMMA WorksAlone ==
    ASSUME Typed, NEW r \in Request, Works(r)
    PROVE  /\ pc[r] # "idle" /\ req[r].b \in Bookings
           /\ \A q \in Request \ {r} : pc'[q] = pc[q] /\ req'[q] = req[q]
           /\ \A c \in Bookings \ {req[r].b} :
                /\ status'[c] = status[c] /\ start'[c] = start[c]
                /\ recorded'[c] = recorded[c] /\ calendar'[c] = calendar[c]
           /\ pc'[r] # "idle" =>
                /\ req'[r].op = req[r].op /\ req'[r].b = req[r].b
                /\ req'[r].s = req[r].s /\ req'[r].known = req[r].known
<1> USE DEF Typed, TypeOK, rowVars, Goto, Return
<1>1. pc[r] # "idle" /\ req[r].b \in Bookings
    BY DEF Works, Proceed, Look, Accept, Refuse, Reserve, Outrun, PutOnCalendar, Confirm,
           Fail, Withdraw, MarkCancelled, Move, Patch, LookFails, Crash, TurnedAway
<1>2. \A c \in Bookings \ {req[r].b} : status'[c] = status[c] /\ start'[c] = start[c]
    BY <1>1 DEF Works, Proceed, Look, Accept, Refuse, Reserve, Outrun, PutOnCalendar, Confirm,
           Fail, Withdraw, MarkCancelled, Move, Patch, LookFails, Crash, TurnedAway
<1>3. \A c \in Bookings \ {req[r].b} : recorded'[c] = recorded[c]
    BY <1>1 DEF Works, Proceed, Look, Accept, Refuse, Reserve, Outrun, PutOnCalendar, Confirm,
           Fail, Withdraw, MarkCancelled, Move, Patch, LookFails, Crash, TurnedAway
<1>4. \A c \in Bookings \ {req[r].b} : calendar'[c] = calendar[c]
    BY <1>1 DEF Works, Proceed, Look, Accept, Refuse, Reserve, Outrun, PutOnCalendar, Confirm,
           Fail, Withdraw, MarkCancelled, Move, Patch, LookFails, Crash, TurnedAway
<1>5. /\ \A q \in Request \ {r} : pc'[q] = pc[q] /\ req'[q] = req[q]
      /\ pc'[r] # "idle" =>
            /\ req'[r].op = req[r].op /\ req'[r].b = req[r].b
            /\ req'[r].s = req[r].s /\ req'[r].known = req[r].known
    <2>1. CASE Look(r)
        BY <2>1, LookKeeps DEF Look
    <2>2. CASE ~Look(r)
        BY <2>2 DEF Works, Proceed, Accept, Refuse, Reserve, Outrun, PutOnCalendar, Confirm,
           Fail, Withdraw, MarkCancelled, Move, Patch, LookFails, Crash, TurnedAway
    <2> QED BY <2>1, <2>2
<1> QED BY <1>1, <1>2, <1>3, <1>4, <1>5

\* What a request at work may do to its own booking, and where it goes next.
LEMMA WorksOn ==
    ASSUME Typed, EventInv, NEW r \in Request, Works(r), NEW b \in Bookings, b = req[r].b
    PROVE  /\ recorded'[b] = recorded[b] \/ (pc[r] = "confirm" /\ pc'[r] = "idle")
           /\ recorded[b] => recorded'[b]
           /\ status'[b] = "absent" => status[b] = "absent" /\ recorded'[b] = recorded[b]
           /\ status[b] = "absent" =>
                status'[b] = "absent" \/ (pc[r] = "reserve" /\ req[r].op = "create")
           /\ calendar'[b] = NoEvent => calendar[b] = NoEvent \/ pc[r] = "withdraw"
           /\ pc'[r] \in {"withdraw", "look"} => FALSE
           /\ pc'[r] = "mark" => pc[r] = "withdraw"
           /\ pc[r] = "withdraw" => pc'[r] \in {"mark", "idle"}
           /\ pc[r] = "mark" => pc'[r] = "idle"
           /\ pc'[r] \in {"judge", "reserve"} =>
                pc[r] \in {"look", "judge"} /\ status'[b] = status[b]
           /\ pc'[r] = "call" => pc[r] = "reserve" /\ req[r].op = "create"
           /\ pc'[r] = "fail" => pc[r] = "call"
           /\ pc'[r] = "confirm" => pc[r] = "call" /\ calendar'[b] # NoEvent
<1> USE DEF Typed, TypeOK, rowVars, Goto, Return
<1>0. pc[r] # "idle" /\ req[r].b \in Bookings /\ (req[r].op # "cancel" => req[r].s \in Slot)
    BY WorksAlone
<1>1. CASE Look(r)
    BY <1>1 DEF Look
<1>2. CASE Accept(r) \/ Refuse(r) \/ Outrun(r) \/ LookFails(r) \/ Crash(r) \/ TurnedAway(r)
    BY <1>2, <1>0 DEF Accept, Refuse, Outrun, LookFails, Crash, TurnedAway
<1>3. CASE Reserve(r)
    BY <1>3, <1>0 DEF Reserve
<1>4. CASE PutOnCalendar(r)
    <2>1. req[r].s \in Slot /\ req[r].s # NoEvent
        BY <1>0, <1>4, NoEventAssumption DEF PutOnCalendar, EventInv, RequestOK
    <2> QED BY <1>4, <1>0, <2>1 DEF PutOnCalendar
<1>5. CASE Confirm(r)
    BY <1>5, <1>0 DEF Confirm, RowExists
<1>6. CASE Fail(r)
    BY <1>6, <1>0 DEF Fail, RowExists
<1>7. CASE Withdraw(r)
    BY <1>7, <1>0 DEF Withdraw
<1>8. CASE MarkCancelled(r)
    BY <1>8, <1>0 DEF MarkCancelled, RowExists
<1>9. CASE Move(r)
    BY <1>9, <1>0 DEF Move
<1>10. CASE Patch(r)
    <2>1. req[r].s \in Slot /\ req[r].s # NoEvent
        BY <1>0, <1>10, NoEventAssumption DEF Patch, EventInv, RequestOK, Busy
    <2> QED BY <1>10, <1>0, <2>1 DEF Patch
<1> QED BY <1>1, <1>2, <1>3, <1>4, <1>5, <1>6, <1>7, <1>8, <1>9, <1>10 DEF Works, Proceed

LEMMA EventStep == ASSUME Typed, EventInv, [WideNext]_vars PROVE EventInv'
<1> USE DEF Busy
<1>0. pc \in [Request -> Step] /\ \A r \in Request : pc[r] # "idle" => req[r].b \in Bookings
    BY DEF Typed, TypeOK
<1>1. ASSUME NEW r \in Request, Works(r) PROVE EventInv'
    <2> PICK b \in Bookings : b = req[r].b
        BY <1>1, WorksAlone
    <2>1. \A c \in Bookings : status'[c] = "absent" => ~recorded'[c]
        BY <1>1, WorksAlone, WorksOn DEF EventInv
    <2>2. \A p, q \in Request :
             Busy(p, "create")' /\ Busy(q, "create")' /\ req'[p].b = req'[q].b => p = q
        BY <1>1, WorksAlone DEF EventInv
    <2>3. RequestOK(r)'
        BY <1>0, <1>1, WorksAlone, WorksOn DEF EventInv, RequestOK
    <2>4. ASSUME NEW q \in Request \ {r} PROVE RequestOK(q)'
        <3>1. pc'[q] = pc[q] /\ req'[q] = req[q]
            BY <1>1, WorksAlone
        <3>2. CASE req[q].b # b /\ pc[q] # "idle"
            BY <1>0, <1>1, <3>1, <3>2, WorksAlone DEF EventInv, RequestOK
        <3>3. CASE req[q].b = b /\ pc[q] # "idle"
            <4>1. recorded[b] => recorded'[b]
                BY <1>1, WorksOn
            <4>2. pc[q] = "confirm" => calendar'[b] # NoEvent
                BY <1>1, <3>3, WorksOn DEF EventInv, RequestOK
            <4>3. Busy(q, "create") => recorded'[b] = recorded[b]
                BY <1>1, <3>3, WorksAlone, WorksOn DEF EventInv, RequestOK
            <4>4. Busy(q, "create") /\ pc[q] \in {"look", "judge", "reserve"} => status'[b] = "absent"
                BY <1>1, <3>3, WorksAlone, WorksOn DEF EventInv, RequestOK
            <4> QED BY <3>1, <3>3, <4>1, <4>2, <4>3, <4>4 DEF EventInv, RequestOK
        <3>4. CASE pc[q] = "idle"
            BY <3>1, <3>4 DEF RequestOK
        <3> QED BY <3>2, <3>3, <3>4
    <2> QED BY <2>1, <2>2, <2>3, <2>4 DEF EventInv
<1>2. ASSUME NEW r \in Request, UNCHANGED <<status, recorded, calendar>>,
             \A q \in Request \ {r} : pc'[q] = pc[q] /\ req'[q] = req[q],
             RequestOK(r)',
             Busy(r, "create")' =>
                \A q \in Request \ {r} : pc[q] # "idle" => req[q].b # req'[r].b
      PROVE  EventInv'
    BY <1>2 DEF EventInv, RequestOK
<1>3. ASSUME NEW r \in Request, NEW b \in Bookings, BeginCancel(r, b) PROVE EventInv'
    <2>1. /\ UNCHANGED <<status, recorded, calendar>>
          /\ \A q \in Request \ {r} : pc'[q] = pc[q] /\ req'[q] = req[q]
          /\ pc'[r] = (IF recorded[b] THEN "withdraw" ELSE "mark")
          /\ req'[r].op = "cancel" /\ req'[r].b = b
        BY <1>3 DEF BeginCancel, Start, Goto, rowVars, Typed, TypeOK, NoReq
    <2> QED BY <1>2, <2>1 DEF RequestOK
<1>4. ASSUME NEW r \in Request, NEW b \in Bookings, NEW s \in Slot,
             BeginCreate(r, b, s) \/ BeginMove(r, b, s)
      PROVE  EventInv'
    <2>a. PICK op \in {"create", "move"} : Start(r, op, b, s, "look")
        BY <1>4 DEF BeginCreate, BeginMove
    <2>b. /\ UNCHANGED <<status, recorded, calendar>>
          /\ \A q \in Request \ {r} : pc'[q] = pc[q] /\ req'[q] = req[q]
        BY <2>a DEF Start, Goto, rowVars, Typed, TypeOK
    <2>c. pc'[r] = "look" /\ req'[r].op = op /\ req'[r].b = b
        BY <2>a DEF Start, Goto, Typed, TypeOK, NoReq
    <2>d. op = "create" => BeginCreate(r, b, s)
        BY <1>4, <2>a, <2>c DEF BeginMove, Start, Typed, TypeOK, NoReq
    <2>1. /\ UNCHANGED <<status, recorded, calendar>>
          /\ \A q \in Request \ {r} : pc'[q] = pc[q] /\ req'[q] = req[q]
          /\ pc'[r] = "look" /\ req'[r].b = b /\ req'[r].op # "cancel"
          /\ req'[r].op = "create" =>
                /\ status[b] = "absent"
                /\ \A q \in Request : pc[q] # "idle" => req[q].b # b
        BY <2>a, <2>b, <2>c, <2>d DEF BeginCreate
    <2> QED BY <1>2, <2>1 DEF RequestOK, EventInv
<1>5. CASE UNCHANGED <<faults, status, start, recorded, calendar, pc, req>>
    BY <1>5 DEF EventInv, RequestOK
<1> QED BY <1>1, <1>3, <1>4, <1>5, StepKinds

\* What is withdrawn is being cancelled, and what is confirmed was put there.
LEMMA OnCalendarStep ==
    ASSUME Typed, EventInv, ConfirmedIsOnCalendar, [WideNext]_vars
    PROVE  ConfirmedIsOnCalendar'
<1> SUFFICES ASSUME "crash" \notin faults, NEW b \in Bookings, status'[b] = "confirmed",
                    ~Cancelling(b)', calendar'[b] = NoEvent
             PROVE  FALSE
    BY RowFaultsKept DEF ConfirmedIsOnCalendar
<1> USE DEF Cancelling
<1>0. status[b] = "confirmed" /\ ~Cancelling(b) => calendar[b] # NoEvent
    BY DEF ConfirmedIsOnCalendar
<1>1. ASSUME NEW r \in Request, Works(r) PROVE FALSE
    <2>1. CASE req[r].b # b
        BY <1>0, <1>1, <2>1, WorksAlone
    <2>2. CASE req[r].b = b
        <3>1. CASE pc[r] = "withdraw"
            <4>1. pc'[r] = "mark" /\ req'[r].op = "cancel" /\ req'[r].b = b
                BY <1>1, <2>2, <3>1, WorksAlone
                   DEF Works, Proceed, Look, Accept, Refuse, Reserve, Outrun, PutOnCalendar,
                       Confirm, Fail, Withdraw, MarkCancelled, Move, Patch, LookFails, Crash,
                       TurnedAway, Goto, Typed, TypeOK, EventInv, RequestOK, Busy
            <4> QED BY <4>1
        <3>2. CASE pc[r] = "mark"
            <4>1. status'[b] = "cancelled"
                BY <1>1, <2>2, <3>2
                   DEF Works, Proceed, Look, Accept, Refuse, Reserve, Outrun, PutOnCalendar,
                       Confirm, Fail, Withdraw, MarkCancelled, Move, Patch, LookFails, Crash,
                       TurnedAway, Goto, Typed, TypeOK
            <4> QED BY <4>1
        <3>3. CASE pc[r] = "confirm"
            BY <1>1, <2>2, <3>3, WorksOn DEF EventInv, RequestOK
        <3>4. CASE pc[r] \notin {"withdraw", "mark", "confirm"}
            <4>1. status[b] = "confirmed"
                BY <1>1, <2>2, <3>4, WorksAlone
                   DEF Works, Proceed, Look, Accept, Refuse, Reserve, Outrun, PutOnCalendar,
                       Confirm, Fail, Withdraw, MarkCancelled, Move, Patch, LookFails, Crash,
                       TurnedAway, rowVars, Typed, TypeOK
            <4>2. calendar[b] = NoEvent
                BY <1>1, <2>2, <3>4, WorksOn
            <4>3. PICK q \in Request : pc[q] # "idle" /\ req[q].op = "cancel" /\ req[q].b = b
                BY <1>0, <4>1, <4>2
            <4>4. q # r
                BY <3>4, <4>3 DEF EventInv, RequestOK, Busy
            <4> QED BY <1>1, <4>3, <4>4, WorksAlone
        <3> QED BY <3>1, <3>2, <3>3, <3>4
    <2> QED BY <2>1, <2>2
<1>2. ASSUME NEW r \in Request, NEW c \in Bookings,
             \/ BeginCancel(r, c)
             \/ \E s \in Slot : BeginCreate(r, c, s) \/ BeginMove(r, c, s)
      PROVE  FALSE
    <2>1. /\ status' = status /\ calendar' = calendar /\ pc[r] = "idle"
          /\ \A q \in Request \ {r} : pc'[q] = pc[q] /\ req'[q] = req[q]
        BY <1>2 DEF BeginCancel, BeginCreate, BeginMove, Start, Goto, rowVars, Typed, TypeOK
    <2> QED BY <1>0, <2>1
<1>3. CASE UNCHANGED <<faults, status, start, recorded, calendar, pc, req>>
    BY <1>0, <1>3
<1> QED BY <1>1, <1>2, <1>3, StepKinds

LEMMA WideEvents == WideSpec => [](EventInv /\ ConfirmedIsOnCalendar)
<1>1. Init => EventInv /\ ConfirmedIsOnCalendar
    BY DEF Init, EventInv, RequestOK, Busy, ConfirmedIsOnCalendar
<1>2. Typed /\ EventInv /\ ConfirmedIsOnCalendar /\ [WideNext]_vars
        => (EventInv /\ ConfirmedIsOnCalendar)'
    BY EventStep, OnCalendarStep
<1> QED BY <1>1, <1>2, WideTyped, PTL DEF WideSpec

-----------------------------------------------------------------------------
(* Row, calendar and guest agree *)

\* What nobody is at work on is decided, and the calendar shows it.
Settled(b) ==
    /\ status[b] \in {"absent", "confirmed", "cancelled"}
    /\ status[b] = "confirmed" => recorded[b] /\ calendar[b] = start[b]
    /\ status[b] = "cancelled" => calendar[b] = NoEvent

\* How far the one request has come with its booking.
OnItsWay(r, b) ==
    /\ pc[r] \in {"look", "judge", "reserve"} =>
          /\ Settled(b)
          /\ req[r].op = "move" => status[b] = "confirmed" /\ req[r].known
    /\ pc[r] = "call" => status[b] = "pending" /\ start[b] = req[r].s
    /\ pc[r] = "confirm" => status[b] = "pending" /\ calendar[b] = start[b]
    /\ pc[r] # "fail"
    /\ pc[r] = "withdraw" => status[b] = "confirmed"
    /\ pc[r] = "mark" => calendar[b] = NoEvent
    /\ pc[r] = "patch" =>
          /\ status[b] = "confirmed" /\ recorded[b]
          /\ start[b] = req[r].s /\ calendar[b] # NoEvent

AgreeInv ==
    /\ OneAtATime
    /\ \A r \in Request : pc[r] # "idle" => OnItsWay(r, req[r].b)
    /\ \A b \in Bookings : (\A r \in Request : pc[r] # "idle" => req[r].b # b) => Settled(b)

\* One request at a time, and Google answers.
Smooth == faults \subseteq {"redis", "host"}

LEMMA AgreeStep ==
    ASSUME Typed, EventInv, NoDoubleBooking, Smooth, AgreeInv, [WideNext]_vars
    PROVE  AgreeInv'
<1> USE DEF Typed, TypeOK, rowVars, Goto, Return
<1>a. OneAtATime' /\ OneAtATime
    BY StaysAlone DEF AgreeInv, Smooth
<1>1. ASSUME NEW r \in Request, Works(r) PROVE AgreeInv'
    <2> PICK b \in Bookings : b = req[r].b
        BY <1>1, WorksAlone
    <2>a. /\ pc[r] # "idle" /\ OnItsWay(r, b) /\ RequestOK(r)
          /\ \A q \in Request \ {r} : pc[q] = "idle" /\ pc'[q] = "idle"
        BY <1>1, <1>a, WorksAlone DEF AgreeInv, OneAtATime, EventInv
    <2>b. \A c \in Bookings \ {b} : Settled(c)'
        <3> SUFFICES ASSUME NEW c \in Bookings \ {b} PROVE Settled(c)'
            OBVIOUS
        <3>1. Settled(c)
            BY <2>a DEF AgreeInv
        <3>2. /\ status'[c] = status[c] /\ start'[c] = start[c]
              /\ recorded'[c] = recorded[c] /\ calendar'[c] = calendar[c]
            BY <1>1, WorksAlone
        <3> QED BY <3>1, <3>2 DEF Settled
    <2>c. pc'[r] # "idle" => req'[r].b = b
        BY <1>1, WorksAlone
    <2>d. ASSUME IF pc'[r] = "idle" THEN Settled(b)' ELSE OnItsWay(r, b)'
          PROVE  AgreeInv'
        BY <1>a, <2>a, <2>b, <2>c, <2>d DEF AgreeInv
    <2>e. req[r].op # "cancel" => req[r].s \in Slot /\ req[r].s # NoEvent
        BY <2>a, NoEventAssumption
    <2>1. CASE Look(r)
        <3>1. pc[r] = "look" /\ pc'[r] = "judge"
              /\ UNCHANGED <<status, start, recorded, calendar>>
            BY <2>1 DEF Look
        <3>2. req'[r].op = req[r].op /\ req'[r].known = req[r].known
            BY <2>1, LookKeeps
        <3> QED BY <2>a, <2>d, <3>1, <3>2 DEF OnItsWay, Settled
    <2>2. CASE Accept(r)
        BY <2>2, <2>a, <2>d DEF Accept, OnItsWay, Settled
    <2>3. CASE Refuse(r) \/ Outrun(r) \/ LookFails(r) \/ TurnedAway(r)
        BY <2>3, <2>a, <2>d DEF Refuse, Outrun, LookFails, TurnedAway, OnItsWay, Settled
    <2>4. CASE Reserve(r)
        BY <2>4, <2>a, <2>d DEF Reserve, OnItsWay
    <2>5. CASE PutOnCalendar(r)
        <3>1. pc[r] = "call" /\ pc'[r] = "confirm" /\ calendar'[b] = req[r].s
              /\ status' = status /\ start' = start
            BY <2>5 DEF PutOnCalendar, Smooth
        <3> QED BY <2>a, <2>d, <3>1 DEF OnItsWay
    <2>6. CASE Confirm(r)
        <3>1. Admits(b, start[b])
            BY <2>6, <2>a DEF Confirm, OnItsWay, Admits, NoDoubleBooking, Live, Overlap
        <3> QED BY <2>6, <2>a, <2>d, <3>1 DEF Confirm, OnItsWay, Settled
    <2>7. CASE Fail(r)
        BY <2>7, <2>a DEF Fail, OnItsWay
    <2>8. CASE Withdraw(r)
        BY <2>8, <2>a, <2>d DEF Withdraw, OnItsWay, Smooth
    <2>9. CASE MarkCancelled(r)
        BY <2>9, <2>a, <2>d DEF MarkCancelled, OnItsWay, Settled
    <2>10. CASE Move(r)
        <3>1. status[b] = "confirmed" /\ recorded[b] /\ calendar[b] = start[b] /\ req[r].known
            BY <2>10, <2>a DEF Move, OnItsWay, Settled
        <3>2. start[b] # NoEvent
            BY <3>1, NoEventAssumption
        <3>3. /\ pc'[r] = "patch" /\ req' = req /\ start'[b] = req[r].s
              /\ UNCHANGED <<status, recorded, calendar>>
            BY <2>10, <3>1 DEF Move
        <3> QED BY <2>d, <3>1, <3>2, <3>3 DEF OnItsWay
    <2>11. CASE Patch(r)
        <3>1. calendar'[b] = req[r].s /\ UNCHANGED <<status, start, recorded>> /\ pc'[r] = "idle"
            BY <2>11, <2>a DEF Patch, OnItsWay, Smooth
        <3>2. pc[r] = "patch"
            BY <2>11 DEF Patch
        <3> QED BY <2>a, <2>d, <3>1, <3>2 DEF OnItsWay, Settled
    <2>12. ~Crash(r)
        BY DEF Crash, Smooth
    <2> QED BY <1>1, <2>1, <2>2, <2>3, <2>4, <2>5, <2>6, <2>7, <2>8, <2>9, <2>10, <2>11, <2>12
            DEF Works, Proceed
<1>2. ASSUME UNCHANGED <<status, start, recorded, calendar>>, NEW r \in Request, Quiet,
             \A q \in Request \ {r} : pc'[q] = pc[q], NEW b \in Bookings, req'[r].b = b,
             OnItsWay(r, b)'
      PROVE  AgreeInv'
    <2>1. \A c \in Bookings : Settled(c)
        BY <1>2 DEF Quiet, AgreeInv
    <2>2. \A c \in Bookings : Settled(c)'
        BY <1>2, <2>1 DEF Settled
    <2>3. \A q \in Request \ {r} : pc'[q] = "idle"
        BY <1>2 DEF Quiet
    <2> QED BY <1>2, <1>a, <2>2, <2>3 DEF AgreeInv
<1>3. ASSUME NEW r \in Request, NEW b \in Bookings,
             \/ BeginCancel(r, b)
             \/ \E s \in Slot : BeginCreate(r, b, s) \/ BeginMove(r, b, s)
      PROVE  AgreeInv'
    <2>1. /\ UNCHANGED <<status, start, recorded, calendar>> /\ Quiet
          /\ \A q \in Request \ {r} : pc'[q] = pc[q]
          /\ req'[r].b = b /\ req'[r].known = recorded[b]
        <3>1. \E op, s, step : Start(r, op, b, s, step)
            BY <1>3 DEF BeginCancel, BeginCreate, BeginMove
        <3>2. ASSUME NEW op, NEW s, NEW step, Start(r, op, b, s, step)
              PROVE  /\ UNCHANGED <<status, start, recorded, calendar>> /\ Quiet
                     /\ \A q \in Request \ {r} : pc'[q] = pc[q]
                     /\ req'[r].b = b /\ req'[r].known = recorded[b]
            BY <3>2 DEF Start, Smooth, NoReq
        <3> QED BY <3>1, <3>2
    <2>2. Settled(b) /\ Settled(b)'
        BY <2>1 DEF Quiet, AgreeInv, Settled
    <2>3. OnItsWay(r, b)'
        <3>1. CASE BeginCancel(r, b)
            <4>1. status[b] = "confirmed" /\ recorded[b]
                BY <2>2, <3>1 DEF BeginCancel, Settled
            <4>2. pc'[r] = "withdraw"
                BY <3>1, <4>1 DEF BeginCancel, Start
            <4> QED BY <2>1, <4>1, <4>2 DEF OnItsWay
        <3>2. ASSUME NEW s \in Slot, BeginCreate(r, b, s) PROVE OnItsWay(r, b)'
            <4>1. pc'[r] = "look" /\ req'[r].op = "create"
                BY <3>2 DEF BeginCreate, Start, NoReq
            <4> QED BY <2>2, <4>1 DEF OnItsWay
        <3>3. ASSUME NEW s \in Slot, BeginMove(r, b, s) PROVE OnItsWay(r, b)'
            <4>1. status[b] = "confirmed" /\ recorded[b]
                BY <2>2, <3>3 DEF BeginMove, Settled
            <4>2. pc'[r] = "look"
                BY <3>3 DEF BeginMove, Start
            <4> QED BY <2>1, <2>2, <4>1, <4>2 DEF OnItsWay
        <3> QED BY <1>3, <3>1, <3>2, <3>3
    <2> QED BY <1>2, <2>1, <2>3
<1>4. CASE UNCHANGED <<faults, status, start, recorded, calendar, pc, req>>
    BY <1>4 DEF AgreeInv, OneAtATime, OnItsWay, Settled
<1> QED BY <1>1, <1>3, <1>4, StepKinds

LEMMA WideAgrees == WideSpec => [](Smooth => AgreeInv)
<1>1. Init => (Smooth => AgreeInv)
    BY DEF Init, AgreeInv, OneAtATime, Settled
<1>2. Typed /\ EventInv /\ NoDoubleBooking /\ (Smooth => AgreeInv) /\ [WideNext]_vars
        => (Smooth => AgreeInv)'
    BY AgreeStep, RowFaultsKept DEF Smooth
<1> QED BY <1>1, <1>2, WideTyped, WideEvents, WideApart, PTL DEF WideSpec

LEMMA AgreeMeans == Typed /\ (Smooth => AgreeInv) => CalendarAgrees
BY DEF CalendarAgrees, Quiet, Smooth, AgreeInv, Settled

\* What the last letter to the guest says, once no request is between the row and
\* the calendar.
LetterRight(b) ==
    /\ status[b] = "confirmed" => told[b] = start[b]
    /\ status[b] = "cancelled" => told[b] = CalledOff

ToldInv ==
    /\ told = [b \in Bookings |-> told[b]]
    /\ \A b \in Bookings : (\A r \in Request : pc[r] = "patch" => req[r].b # b) => LetterRight(b)

\* A letter goes to the guest of one booking.
LEMMA TellOne ==
    ASSUME "mail" \notin ways, told = [b \in Bookings |-> told[b]],
           NEW b \in Bookings, NEW what, Tell(b, what)
    PROVE  /\ told' = [c \in Bookings |-> told'[c]] /\ told'[b] = what
           /\ \A c \in Bookings \ {b} : told'[c] = told[c]
<1>1. told' = [told EXCEPT ![b] = what]
    BY DEF Tell, Unsent
<1> QED BY <1>1

LEMMA PageWaysKept == [PageNext]_allVars => ways' = ways
BY DEF PageNext, allVars, pageVars, hostVars, UpdateHours, UpsertOverride, DeleteOverride,
       DeleteEventType, UpdateEventType, Saves, ViewPage, ViewOtherTimes, Fetch, ViewDone

LEMMA ToldStep ==
    ASSUME Typed, EventInv, NoDoubleBooking, Smooth, AgreeInv, "mail" \notin ways, ToldInv,
           [PageNext]_allVars
    PROVE  ToldInv'
<1> USE DEF Typed, TypeOK, rowVars, Goto, Return
<1>1. ASSUME NEW r \in Request, Works(r), NEW b \in Bookings, b = req[r].b,
             told' = [c \in Bookings |-> told'[c]],
             \A c \in Bookings \ {b} : told'[c] = told[c],
             pc'[r] # "patch" => LetterRight(b)'
      PROVE  ToldInv'
    <2>1. \A q \in Request \ {r} : pc'[q] = pc[q] /\ req'[q] = req[q]
        BY <1>1, WorksAlone
    <2>2. \A c \in Bookings \ {b} : status'[c] = status[c] /\ start'[c] = start[c]
        BY <1>1, WorksAlone
    <2>3. pc'[r] = "patch" => req'[r].b = b
        BY <1>1, WorksAlone
    <2>4. ASSUME NEW c \in Bookings \ {b}, \A q \in Request : pc'[q] = "patch" => req'[q].b # c
          PROVE  LetterRight(c)'
        <3>1. \A q \in Request : pc[q] = "patch" => req[q].b # c
            BY <1>1, <2>1, <2>4
        <3>2. LetterRight(c)
            BY <3>1 DEF ToldInv
        <3> QED BY <1>1, <2>2, <3>2 DEF LetterRight
    <2>5. (\A q \in Request : pc'[q] = "patch" => req'[q].b # b) => LetterRight(b)'
        BY <1>1, <2>3
    <2> QED BY <1>1, <2>4, <2>5 DEF ToldInv
<1>2. ASSUME NEW r \in Request, Silent(r), told' = told PROVE ToldInv'
    <2>1. Works(r)
        <3>1. CASE OutOfHours(r)
            BY <3>1 DEF OutOfHours, Works, TurnedAway, Remember, Req
        <3>2. CASE TypeGone(r)
            BY <3>2 DEF TypeGone, Works, TurnedAway
        <3>3. CASE ~OutOfHours(r) /\ ~TypeGone(r)
            BY <1>2, <3>3 DEF Silent, Works, Proceed
        <3> QED BY <3>1, <3>2, <3>3
    <2> PICK b \in Bookings : b = req[r].b
        BY <2>1, WorksAlone
    <2>2. pc[r] # "patch"
        BY <1>2 DEF Silent, Look, LookFails, Refuse, OutOfHours, Accept, Reserve, TypeGone,
               Outrun, PutOnCalendar, Fail, Withdraw, Crash, Smooth
    <2>3. \A q \in Request : pc[q] = "patch" => req[q].b # b
        BY <2>1, <2>2, WorksAlone DEF AgreeInv, OneAtATime
    <2>4. LetterRight(b)
        BY <2>3 DEF ToldInv
    <2>5. \/ status'[b] \notin {"confirmed", "cancelled"}
          \/ status'[b] = status[b] /\ start'[b] = start[b]
        BY <1>2, <2>1, WorksAlone DEF Silent, Look, LookFails, Refuse, OutOfHours, Accept,
               Reserve, TypeGone, Outrun, PutOnCalendar, Fail, Withdraw, Crash, Smooth
    <2>6. LetterRight(b)'
        BY <1>2, <2>4, <2>5 DEF LetterRight
    <2> QED BY <1>1, <1>2, <2>1, <2>6 DEF ToldInv
<1>3. ASSUME NEW r \in Request, Confirmed(r) PROVE ToldInv'
    <2>0. Works(r)
        BY <1>3 DEF Confirmed, Works, Proceed
    <2> PICK b \in Bookings : b = req[r].b
        BY <2>0, WorksAlone
    <2>1. status[b] = "pending" /\ pc[r] = "confirm"
        BY <1>3 DEF Confirmed, Confirm, AgreeInv, OnItsWay
    <2>2. Admits(b, start[b])
        BY <2>1 DEF Admits, NoDoubleBooking, Live, Overlap
    <2>3. Tell(b, start[b]) /\ status'[b] = "confirmed" /\ start' = start
        BY <1>3, <2>2 DEF Confirmed, Confirm
    <2>4. /\ told' = [c \in Bookings |-> told'[c]] /\ told'[b] = start[b]
          /\ \A c \in Bookings \ {b} : told'[c] = told[c]
        BY <2>3, TellOne DEF ToldInv
    <2> QED BY <1>1, <2>0, <2>3, <2>4 DEF LetterRight
<1>4. ASSUME NEW r \in Request, Cancelled(r) PROVE ToldInv'
    <2>0. Works(r)
        BY <1>4 DEF Cancelled, Works, Proceed
    <2> PICK b \in Bookings : b = req[r].b
        BY <2>0, WorksAlone
    <2>3. Tell(b, CalledOff) /\ status'[b] = "cancelled"
        BY <1>4 DEF Cancelled, MarkCancelled
    <2>4. /\ told' = [c \in Bookings |-> told'[c]] /\ told'[b] = CalledOff
          /\ \A c \in Bookings \ {b} : told'[c] = told[c]
        BY <2>3, TellOne DEF ToldInv
    <2> QED BY <1>1, <2>0, <2>3, <2>4 DEF LetterRight
<1>5. ASSUME NEW r \in Request, Moved(r) PROVE ToldInv'
    <2>0. Works(r)
        BY <1>5 DEF Moved, Works, Proceed
    <2> PICK b \in Bookings : b = req[r].b
        BY <2>0, WorksAlone
    <2>1. CASE Move(r)
        <3>1. req[r].known /\ pc[r] = "reserve"
            BY <2>1 DEF Move, AgreeInv, OnItsWay
        <3>2. told' = told
            BY <1>5, <2>1, <3>1 DEF Moved, Patch, Move
        <3>3. pc'[r] = "patch"
            BY <2>1, <3>1 DEF Move
        <3> QED BY <1>1, <2>0, <3>2, <3>3 DEF ToldInv
    <2>2. CASE Patch(r)
        <3>1. pc[r] = "patch" /\ start' = start /\ status' = status
            BY <2>2 DEF Patch
        <3>2. status[b] = "confirmed" /\ start[b] = req[r].s
            BY <3>1 DEF AgreeInv, OnItsWay
        <3>3. Tell(b, req[r].s)
            BY <1>5, <3>1 DEF Moved, Move
        <3>4. /\ told' = [c \in Bookings |-> told'[c]] /\ told'[b] = req[r].s
              /\ \A c \in Bookings \ {b} : told'[c] = told[c]
            BY <3>3, TellOne DEF ToldInv
        <3> QED BY <1>1, <2>0, <3>1, <3>2, <3>4 DEF LetterRight
    <2> QED BY <1>5, <2>1, <2>2 DEF Moved
<1>6. ASSUME NEW r \in Request, Arrives(r), told' = told PROVE ToldInv'
    <2>1. /\ status' = status /\ start' = start
          /\ \A q \in Request : pc[q] = "patch" => pc'[q] = "patch" /\ req'[q] = req[q]
        BY <1>6 DEF Arrives, BeginCancel, CancelAgain, BeginCreate, BeginMove, Start, vars
    <2> QED BY <1>6, <2>1 DEF ToldInv, LetterRight
<1>7. CASE UNCHANGED <<status, start, pc, req, told>>
    BY <1>7 DEF ToldInv, LetterRight
<1> QED BY <1>2, <1>3, <1>4, <1>5, <1>6, <1>7
        DEF PageNext, allVars, vars, pageVars, hostVars, HostBooks, CacheExpires, UpdateHours,
            UpsertOverride, DeleteOverride, DeleteEventType, UpdateEventType, Saves, ViewPage,
            ViewOtherTimes, Fetch, ViewDone

\* Row, calendar and guest agree, for any number of bookings and meeting types of
\* any length: what is confirmed is on the calendar until somebody cancels it,
\* whatever overlaps and whatever Google answers; and when requests come one at a
\* time and Google answers, the calendar and the last letter say what the row says.
THEOREM AllAgree == PageSpec => []EverybodyAgrees
<1> DEFINE Written == Smooth /\ "mail" \notin ways => ToldInv
           Fit == Typed /\ EventInv /\ NoDoubleBooking /\ (Smooth => AgreeInv)
<1>1. PageSpec => [](Fit /\ ConfirmedIsOnCalendar)
    BY PageIsWide, WideTyped, WideEvents, WideApart, WideAgrees, PTL
<1>2. PageInit => Written
    BY DEF PageInit, Init, ToldInv, LetterRight
<1>3. Fit /\ Written /\ [PageNext]_allVars /\ faults' = faults => Written'
    BY ToldStep, PageWaysKept DEF Smooth
<1>4. WideSpec => [][faults' = faults]_vars
    BY RowFaultsKept, PTL DEF WideSpec
<1>5. [faults' = faults]_vars => faults' = faults
    BY DEF vars
<1>6. ASSUME Fit, Written, ConfirmedIsOnCalendar PROVE EverybodyAgrees
    <2>1. CalendarAgrees
        BY <1>6, AgreeMeans
    <2>2. GuestKnows
        BY <1>6 DEF GuestKnows, Quiet, Smooth, ToldInv, LetterRight
    <2> QED BY <1>6, <2>1, <2>2 DEF EverybodyAgrees
<1> HIDE DEF Written, Fit
<1> QED BY <1>1, <1>2, <1>3, <1>4, <1>5, <1>6, PageIsWide, PTL DEF PageSpec
=============================================================================
