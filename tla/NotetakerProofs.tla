--------------------------- MODULE NotetakerProofs ---------------------------
(***************************************************************************)
(* What Notetaker promises of a meeting and its bots, for any number of    *)
(* bots and sessions and any bounds.                                       *)
(***************************************************************************)
EXTENDS Notetaker, TLAPS

-----------------------------------------------------------------------------
(* The inductive invariants *)

Unless(circumstances) == faults \cap circumstances = {}

\* Where a session of each kind may be.
Place == [none     |-> {"idle"},
          sweep    |-> {"flush", "book", "recall", "commit"},
          join     |-> {"book", "commit"},
          enable   |-> {"flush", "queue", "commit"},
          upload   |-> {"flush", "commit"},
          cancel   |-> {"stop", "commit"},
          delete   |-> {"stop", "commit"},
          callback |-> {"commit"},
          process  |-> {"fetch", "send", "commit"}]

\* What a session has read and drafted, by its kind.
Drafted(s) ==
    LET d == ses[s] IN
    /\ pc[s] \in Place[d.op]
    /\ d.op = "none" => d = NoSes
    /\ d.seen.id = 0 => d.seen = NoRow
    /\ d.new.id = 0 => d.new = NoRow
    /\ d.seen.id # 0 /\ d.op # "delete" => d.new.id = d.seen.id
    /\ d.op \in {"join", "cancel", "delete", "callback", "process"} => d.seen.id # 0
    /\ d.op = "delete" => d.new = NoRow
    /\ d.op \in {"enable", "upload"} \/ pc[s] = "flush" => d.new.id # 0
    /\ pc[s] = "stop" => d.seen.bot # NoBot
    /\ pc[s] \in {"idle", "flush"} => lock # s
    /\ d.seen.id <= born /\ (pc[s] # "flush" => d.new.id <= born)

\* A bot that is over.
Over(state) == state \in {"done", "failed"}

\* What a callback says of its bot.
Told(e) ==
    /\ e.status \in {"joining", "recording", "failed", "ended", "recorded"}
    /\ bots[e.bot].state \notin {"absent", "waiting", "deleted"}
    /\ e.status \in {"failed", "recorded"} => Over(bots[e.bot].state)

RowOK == (row.id = 0 => row = NoRow) /\ row.id <= born
BotsOK ==
    \A b \in Bot : /\ bots[b].meeting <= born
                   /\ bots[b].state = "absent" <=> bots[b].meeting = 0
WireOK == \A i \in DOMAIN wire : Told(wire[i])

NoteInv == TypeOK /\ RowOK /\ BotsOK /\ WireOK /\ \A s \in Session : Drafted(s)

-----------------------------------------------------------------------------
(* One session at a time *)

\* A session that runs alone has read the row as it is, or has not read it.
Proper(s) ==
    LET d == ses[s] IN
    /\ d.seen = row \/ (d.op = "sweep" /\ d.seen = NoRow /\ d.new = NoRow)
    /\ d.op \notin {"process", "delete"} => d.new.timed = d.seen.timed /\ d.new.recapped = d.seen.recapped
    /\ d.op = "process" =>
        /\ d.seen.timed => d.new.timed
        /\ ~d.seen.recapped /\ (pc[s] # "commit" => ~d.new.recapped)
        /\ d.new.bot = d.seen.bot /\ d.seen.bot # NoBot
    /\ pc[s] = "flush" /\ d.seen.id = 0 => d.new = [NoRow EXCEPT !.id = born + 1]
    /\ d.op = "join" /\ pc[s] = "book" => d.new = row /\ row.bot = NoBot
    /\ pc[s] \in {"flush", "queue"} => d.new.status = "pending"
    /\ d.op = "cancel" => d.new = [d.seen EXCEPT !.status = "cancelled"]
    /\ d.seen.id = 0 /\ d.new.id # 0 /\ pc[s] # "flush" => lock = s

SerialInv ==
    "overlap" \notin faults =>
        /\ \A s, t \in Session : pc[s] # "idle" /\ pc[t] # "idle" => s = t
        /\ \A s \in Session : pc[s] # "idle" => Proper(s)

-----------------------------------------------------------------------------
(* One recap, one charge *)

Sends(s) == ses[s].op = "process" /\ ses[s].new.recapped
Makes(s) == ses[s].seen.id = 0 /\ ses[s].new.id # 0 /\ pc[s] # "flush"

OnceInv ==
    Unless({"overlap", "crash"}) =>
        \A i \in 1 .. MaxRow :
            /\ mailed[i] <= 1 /\ metered[i] <= 1
            /\ i > born => mailed[i] = 0 /\ metered[i] = 0
            /\ i = row.id => /\ metered[i] = 1 => row.timed
                             /\ mailed[i] = 1 => row.recapped \/ \E s \in Session : Sends(s)
            /\ \A s \in Session : Makes(s) /\ ses[s].new.id = i => mailed[i] = 0 /\ metered[i] = 0

-----------------------------------------------------------------------------
(* A delivered recap *)

Final(rw) == rw.status = "delivered" => rw.recapped /\ rw.bot # NoBot

\* A recording of the event puts its meeting back in line.
Lowered(s) == ses[s].op = "upload" /\ ses[s].new = [ses[s].seen EXCEPT !.status = "pending"]

FinalInv ==
    "overlap" \notin faults =>
        /\ Final(row)
        /\ \A s \in Session : pc[s] # "idle" =>
              /\ Final(ses[s].new)
              /\ ses[s].seen.status = "delivered" =>
                    \/ ses[s].new.status = "delivered" \/ ses[s].op = "delete" \/ Lowered(s)

-----------------------------------------------------------------------------
(* The bots of the meeting *)

Named(rw) ==
    \A b \in Bot : bots[b].state \in Live /\ bots[b].meeting = rw.id
                    => rw.bot = b /\ rw.status # "cancelled"

\* The row as the session has it.
Outcome(s) == IF ses[s].new.id = 0 THEN row ELSE ses[s].new

StrayInv ==
    Unless({"overlap", "crash", "provider"}) =>
        /\ Quiet => Named(row)
        /\ \A s \in Session : pc[s] # "idle" =>
            /\ pc[s] \in {"flush", "queue", "stop", "fetch", "send"} => Named(row)
            /\ ses[s].op # "delete" /\ pc[s] # "stop" => Named(Outcome(s))

-----------------------------------------------------------------------------
(* A meeting that vanished *)

\* A bot of the meeting has been called in.
Visited(id) == \E b \in Bot : bots[b].meeting = id /\ bots[b].state \notin {"absent", "waiting", "deleted"}

\* A bot of the meeting is over.
Finished(id) == \E b \in Bot : bots[b].meeting = id /\ Over(bots[b].state)

Closed == {"recorded", "processed", "delivered", "failed"}

Storied(rw) ==
    /\ rw.bot # NoBot => bots[rw.bot].meeting = rw.id
    /\ rw.status \notin {"pending", "scheduled", "cancelled"} => Visited(rw.id)
    /\ rw.status \in Closed => Finished(rw.id)

VisitInv ==
    "overlap" \notin faults =>
        /\ Storied(row)
        /\ \A i \in DOMAIN jobs : jobs[i].op = "process" => Finished(jobs[i].id)
        /\ \A s \in Session : pc[s] # "idle" =>
            /\ Storied(ses[s].new)
            /\ ses[s].op = "process" => Finished(ses[s].seen.id)

\* What a sweep that did not see the event has done about it.
Swept(s) ==
    /\ pc[s] = "book" => ses[s].new = NoRow
    /\ pc[s] = "recall" => ses[s].new.id = 0 \/ row.status = "pending"
    /\ pc[s] = "commit" /\ Calendar /\ Upcoming =>
        /\ row.status \in ActiveStatuses => ses[s].new.id = row.id /\ row.id # 0 /\ ses[s].new.status = "cancelled"
        /\ row.status \notin ActiveStatuses \cup {"pending"} => ses[s].new.id = 0

SweptInv ==
    Unless({"overlap", "crash", "provider"}) =>
        \A s \in Session : ses[s].op = "sweep" /\ ~ses[s].here => pc[s] # "flush" /\ Swept(s)

\* The bots of the meeting that its deletion will not have recalled.
Deserts ==
    \A b \in Bot : bots[b].state \in Live /\ bots[b].meeting = row.id
        => \/ b \in spared
           \/ row.bot = b /\ (row.status = "pending" \/ (row.status \notin ActiveStatuses /\ Haunted))

\* Live bots are of the meeting or spared, whatever a session has drafted.
Stands(id) == \A b \in Bot : bots[b].state \in Live => b \in spared \/ bots[b].meeting = id

SpareInv ==
    Unless({"overlap", "crash", "provider"}) =>
        /\ Quiet => Stands(row.id)
        /\ \A s \in Session : pc[s] # "idle" =>
            /\ ses[s].op = "delete" \/ pc[s] \in {"flush", "fetch"} => Stands(row.id)
            /\ ses[s].op # "delete" => Stands(Outcome(s).id)
            /\ ses[s].op = "delete" /\ pc[s] = "commit" => Deserts

-----------------------------------------------------------------------------
(* Rows, sessions and bots *)

USE NotetakerAssumption

\* The columns a row is merged from.
Merge(a, b, c) == [f \in DOMAIN a |-> IF b[f] = c[f] THEN a[f] ELSE b[f]]

LEMMA MergeIs ==
    ASSUME NEW a \in Row, NEW b \in Row, NEW c \in Row
    PROVE  /\ Merge(a, b, c) \in Row
           /\ Merge(a, b, c).id = IF b.id = c.id THEN a.id ELSE b.id
  <1>1. DOMAIN a = {"id", "status", "bot", "text", "timed", "recapped"}
    BY DEF Row
  <1> DEFINE m == Merge(a, b, c)
  <1>2. /\ m.id = IF b.id = c.id THEN a.id ELSE b.id
        /\ m.status = IF b.status = c.status THEN a.status ELSE b.status
        /\ m.bot = IF b.bot = c.bot THEN a.bot ELSE b.bot
        /\ m.text = IF b.text = c.text THEN a.text ELSE b.text
        /\ m.timed = IF b.timed = c.timed THEN a.timed ELSE b.timed
        /\ m.recapped = IF b.recapped = c.recapped THEN a.recapped ELSE b.recapped
    BY <1>1 DEF Merge
  <1>3. m = [id |-> m.id, status |-> m.status, bot |-> m.bot,
             text |-> m.text, timed |-> m.timed, recapped |-> m.recapped]
    BY <1>1 DEF Merge
  <1>4. m \in Row
    BY <1>2, <1>3 DEF Row
  <1> QED
    BY <1>2, <1>4

LEMMA MergeAlone ==
    ASSUME NEW a \in Row, NEW b \in Row PROVE Merge(a, b, a) = b /\ Merge(a, b, b) = a
  <1>1. DOMAIN a = DOMAIN b
    BY DEF Row
  <1>2. b = [f \in DOMAIN b |-> b[f]] /\ a = [f \in DOMAIN a |-> a[f]]
    BY DEF Row
  <1> QED
    BY <1>1, <1>2 DEF Merge

LEMMA NoSesIs ==
    /\ NoSes \in Ses /\ NoSes.op = "none" /\ NoSes.seen = NoRow /\ NoSes.new = NoRow /\ ~NoSes.here
    /\ NoRow \in Row /\ NoRow.id = 0 /\ NoRow.status = "pending" /\ NoRow.bot = NoBot
    /\ NoRow.timed = FALSE /\ NoRow.recapped = FALSE
  <1>1. 0 \in 0 .. MaxRow /\ 0 \in 0 .. Retries
    OBVIOUS
  <1> QED
    BY <1>1 DEF NoSes, NoRow, Row, Status, Ses, Op

\* A row with another status, another bot, or an id.
LEMMA StatusIs ==
    ASSUME NEW rw \in Row, NEW st \in Status, NEW n, n = [rw EXCEPT !.status = st]
    PROVE  /\ n \in Row /\ n.status = st /\ n.id = rw.id /\ n.bot = rw.bot
           /\ n.timed = rw.timed /\ n.recapped = rw.recapped
  BY DEF Row

LEMMA NumberIs ==
    ASSUME NEW rw \in Row, NEW i \in 0 .. MaxRow, NEW n, n = [rw EXCEPT !.id = i]
    PROVE  /\ n \in Row /\ n.status = rw.status /\ n.id = i /\ n.bot = rw.bot
           /\ n.timed = rw.timed /\ n.recapped = rw.recapped /\ (rw.id = i => n = rw)
  BY DEF Row

\* The other sessions stay where they were.
Others(s) == \A t \in Session \ {s} : pc'[t] = pc[t] /\ ses'[t] = ses[t]

\* A session is at another step, with its draft as it was or with another.
At(s, step) == pc' \in [Session -> Step] /\ pc'[s] = step
Holds(s, op, seen, new) ==
    /\ ses' \in [Session -> Ses]
    /\ ses'[s].op = op /\ ses'[s].seen = seen /\ ses'[s].new = new
Keeps(s) == ses' \in [Session -> Ses] /\ ses'[s] = ses[s]

LEMMA StartIs ==
    ASSUME TypeOK, NEW s \in Session, NEW op \in Op, NEW seen \in Row, NEW new \in Row,
           NEW step \in Step, Start(s, op, seen, new, step)
    PROVE  Others(s) /\ At(s, step) /\ Holds(s, op, seen, new)
  <1> DEFINE d == [NoSes EXCEPT !.op = op, !.seen = seen, !.new = new]
  <1>1. 0 \in 0 .. Retries
    OBVIOUS
  <1>2. d \in Ses /\ d.op = op /\ d.seen = seen /\ d.new = new
    BY <1>1 DEF NoSes, Ses
  <1>3. ses' = [ses EXCEPT ![s] = d] /\ pc' = [pc EXCEPT ![s] = step]
    BY DEF Start, Goto
  <1> HIDE DEF d
  <1>4. pc \in [Session -> Step] /\ ses \in [Session -> Ses]
    BY DEF TypeOK
  <1>5. At(s, step) /\ Others(s)
    BY <1>3, <1>4 DEF At, Others
  <1>6. Holds(s, op, seen, new)
    BY <1>2, <1>3, <1>4 DEF Holds
  <1> QED
    BY <1>5, <1>6

\* A session that has drafted another row.
LEMMA DraftIs ==
    ASSUME TypeOK, NEW s \in Session, NEW seen \in Row, NEW new \in Row, NEW step \in Step,
           \/ ses' = [ses EXCEPT ![s].new = new] /\ seen = ses[s].seen
           \/ ses' = [ses EXCEPT ![s] = [ses[s] EXCEPT !.seen = seen, !.new = new]],
           Goto(s, step)
    PROVE  Others(s) /\ At(s, step) /\ Holds(s, ses[s].op, seen, new) /\ ses'[s].here = ses[s].here
  <1> DEFINE d == [ses[s] EXCEPT !.seen = seen, !.new = new]
             e == [ses[s] EXCEPT !.new = new]
  <1>1. /\ d \in Ses /\ d.op = ses[s].op /\ d.seen = seen /\ d.new = new
        /\ d.here = ses[s].here
    <2>1. ses[s] \in Ses
      BY DEF TypeOK
    <2>2. ASSUME NEW x \in Ses, NEW y, y = [x EXCEPT !.seen = seen, !.new = new]
          PROVE  y \in Ses /\ y.op = x.op /\ y.seen = seen /\ y.new = new /\ y.here = x.here
      BY <2>2 DEF Ses
    <2> QED
      BY <2>1, <2>2
  <1>2. /\ e \in Ses /\ e.op = ses[s].op /\ e.seen = ses[s].seen /\ e.new = new
        /\ e.here = ses[s].here
    <2>1. ses[s] \in Ses
      BY DEF TypeOK
    <2>2. ASSUME NEW x \in Ses, NEW y, y = [x EXCEPT !.new = new]
          PROVE  y \in Ses /\ y.op = x.op /\ y.seen = x.seen /\ y.new = new /\ y.here = x.here
      BY <2>2 DEF Ses
    <2> QED
      BY <2>1, <2>2
  <1>3. \/ ses' = [ses EXCEPT ![s] = d]
        \/ ses' = [ses EXCEPT ![s] = e] /\ seen = ses[s].seen
    OBVIOUS
  <1>4. pc' = [pc EXCEPT ![s] = step]
    BY DEF Goto
  <1> HIDE DEF d, e
  <1>5. pc \in [Session -> Step] /\ ses \in [Session -> Ses]
    BY DEF TypeOK
  <1>6. At(s, step)
    BY <1>4, <1>5 DEF At
  <1>7. Others(s)
    BY <1>3, <1>4, <1>5 DEF Others
  <1>8. Holds(s, ses[s].op, seen, new) /\ ses'[s].here = ses[s].here
    BY <1>1, <1>2, <1>3, <1>5 DEF Holds
  <1> QED
    BY <1>6, <1>7, <1>8

LEMMA GotoIs ==
    ASSUME TypeOK, NEW s \in Session, NEW step \in Step, Goto(s, step), ses' = ses
    PROVE  Others(s) /\ At(s, step) /\ Keeps(s)
  <1>1. pc \in [Session -> Step] /\ ses \in [Session -> Ses]
    BY DEF TypeOK
  <1>2. pc' = [pc EXCEPT ![s] = step]
    BY DEF Goto
  <1>3. At(s, step)
    BY <1>1, <1>2 DEF At
  <1>4. Others(s)
    BY <1>1, <1>2 DEF Others
  <1>5. Keeps(s)
    BY <1>1 DEF Keeps
  <1> QED
    BY <1>3, <1>4, <1>5

\* A session that ends.
Ended(s) ==
    /\ At(s, "idle") /\ ses' \in [Session -> Ses] /\ ses'[s] = NoSes
    /\ lock' = IF lock = s THEN NoSession ELSE lock

LEMMA ReturnIs ==
    ASSUME TypeOK, NEW s \in Session, Return(s)
    PROVE  Others(s) /\ Ended(s)
  BY NoSesIs DEF TypeOK, Return, Goto, Others, At, Ended, Step

\* What can become of the bots.
Called(state) == state \notin {"absent", "waiting", "deleted"}
Forth ==
    /\ bots' \in [Bot -> Remote]
    /\ \A b \in Bot :
        /\ bots'[b].meeting = bots[b].meeting
        /\ bots'[b].state = "absent" <=> bots[b].state = "absent"
        /\ bots'[b].state \in Live => bots[b].state \in Live
        /\ Called(bots[b].state) => Called(bots'[b].state)
        /\ Over(bots[b].state) => Over(bots'[b].state)

Booked(b, id) ==
    /\ bots' \in [Bot -> Remote]
    /\ bots[b].state = "absent" /\ bots'[b].state = "waiting" /\ bots'[b].meeting = id
    /\ \A c \in Bot \ {b} : bots'[c] = bots[c]

LEMMA StillIs == ASSUME TypeOK, UNCHANGED bots PROVE Forth
  BY DEF TypeOK, Forth

LEMMA BookIs ==
    ASSUME TypeOK, NEW b \in Bot, NEW id \in 0 .. MaxRow, Book(b, id) PROVE Booked(b, id)
  <1> DEFINE r == [bots[b] EXCEPT !.state = "waiting", !.meeting = id]
  <1>1. r \in Remote /\ r.state = "waiting" /\ r.meeting = id
    <2>1. bots[b] \in Remote
      BY DEF TypeOK
    <2>2. "waiting" \in BotState
      BY DEF BotState
    <2>3. ASSUME NEW x \in Remote, NEW st \in BotState
          PROVE  LET y == [x EXCEPT !.state = st, !.meeting = id]
                 IN  y \in Remote /\ y.state = st /\ y.meeting = id
      BY DEF Remote
    <2> QED
      BY <2>1, <2>2, <2>3
  <1>2. bots' = [bots EXCEPT ![b] = r] /\ bots[b].state = "absent"
    BY DEF Book
  <1> HIDE DEF r
  <1> QED
    BY <1>1, <1>2 DEF TypeOK, Booked

\* A callback that is sent is told of a bot that has been called in.
Tells == wire' \in Seq(Callback) /\ WireOK'

LEMMA ToldOn ==
    ASSUME TypeOK, WireOK,
           Forth \/ (\E b \in Bot, id \in 0 .. MaxRow : Booked(b, id)),
           NEW w \in Seq(Callback), wire' = w,
           \A j \in DOMAIN w : \/ \E i \in DOMAIN wire : w[j].bot = wire[i].bot /\ w[j].status = wire[i].status
                               \/ Told(w[j])'
    PROVE  Tells
  <1>1. ASSUME NEW b \in Bot, Called(bots[b].state)
        PROVE  Called(bots'[b].state) /\ (Over(bots[b].state) => Over(bots'[b].state))
    BY <1>1 DEF Forth, Booked, Called
  <1>2. ASSUME NEW j \in DOMAIN w PROVE Told(w[j])'
    <2>1. CASE Told(w[j])'
      BY <2>1
    <2>2. CASE \E i \in DOMAIN wire : w[j].bot = wire[i].bot /\ w[j].status = wire[i].status
      <3>1. PICK i \in DOMAIN wire : w[j].bot = wire[i].bot /\ w[j].status = wire[i].status
        BY <2>2
      <3>2. wire[i] \in Callback /\ Told(wire[i])
        BY DEF TypeOK, WireOK
      <3>3. wire[i].bot \in Bot
        BY <3>2 DEF Callback
      <3> QED
        BY <1>1, <3>1, <3>2, <3>3 DEF Told, Called
    <2> QED
      BY <2>1, <2>2
  <1> QED
    BY <1>2 DEF Tells, WireOK

LEMMA SendIs ==
    ASSUME TypeOK, WireOK, Forth, NEW b \in Bot, NEW st \in Status, Send(b, st),
           st \in {"joining", "recording", "failed", "ended", "recorded"},
           Called(bots'[b].state), st \in {"failed", "recorded"} => Over(bots'[b].state)
    PROVE  Tells
  <1>1. PICK e \in Callback : e = [bot |-> b, status |-> st, seen |-> FALSE]
    BY DEF Callback
  <1>2. e.bot = b /\ e.status = st
    BY <1>1
  <1>3. Told(e)'
    BY <1>2 DEF Told, Called
  <1>4. PICK w \in Seq(Callback) : w = Append(wire, e)
    <2>1. wire \in Seq(Callback)
      BY DEF TypeOK
    <2>2. Append(wire, e) \in Seq(Callback)
      BY <2>1
    <2> QED
      BY <2>2
  <1>5. wire' = w
    BY <1>1, <1>4 DEF Send
  <1>6. ASSUME NEW j \in DOMAIN w
        PROVE  w[j] = e \/ \E i \in DOMAIN wire : w[j] = wire[i]
    <2>1. wire \in Seq(Callback)
      BY DEF TypeOK
    <2>2. Len(w) = Len(wire) + 1 /\ DOMAIN w = 1 .. Len(w) /\ DOMAIN wire = 1 .. Len(wire)
      BY <1>4, <2>1
    <2>3. w[Len(wire) + 1] = e /\ \A i \in 1 .. Len(wire) : w[i] = wire[i]
      BY <1>4, <2>1
    <2>4. j \in 1 .. Len(wire) \/ j = Len(wire) + 1
      BY <2>1, <2>2
    <2> QED
      BY <2>2, <2>3, <2>4
  <1>7. ASSUME NEW j \in DOMAIN w
        PROVE  \/ \E i \in DOMAIN wire : w[j].bot = wire[i].bot /\ w[j].status = wire[i].status
               \/ Told(w[j])'
    <2>1. CASE w[j] = e
      BY <1>2, <2>1 DEF Told, Called
    <2> QED
      BY <1>6, <2>1
  <1> QED
    BY <1>5, <1>7, ToldOn

LEMMA RecallIs ==
    ASSUME TypeOK, WireOK, NEW b \in Bot, Recall(b)
    PROVE  Forth /\ Tells /\ bots'[b].state \notin Live
  <1>1. PICK to \in BotState : to = CASE bots[b].state = "waiting" -> "deleted"
                                   [] bots[b].state \in {"joining", "recording"} -> "left"
                                   [] OTHER -> bots[b].state
    BY DEF TypeOK, Remote, BotState
  <1> DEFINE r == [bots[b] EXCEPT !.state = to]
  <1>2. r \in Remote /\ r.state = to /\ r.meeting = bots[b].meeting
    <2>1. bots[b] \in Remote
      BY DEF TypeOK
    <2>2. ASSUME NEW x \in Remote, NEW y, y = [x EXCEPT !.state = to]
          PROVE  y \in Remote /\ y.state = to /\ y.meeting = x.meeting
      BY <2>2 DEF Remote
    <2> QED
      BY <2>1, <2>2
  <1>3. bots' = [bots EXCEPT ![b] = r]
    BY <1>1 DEF Recall
  <1> HIDE DEF r
  <1>4. bots' \in [Bot -> Remote] /\ bots'[b] = r /\ \A c \in Bot \ {b} : bots'[c] = bots[c]
    BY <1>2, <1>3 DEF TypeOK
  <1>5. bots[b].state \in BotState
    BY DEF TypeOK, Remote
  <1>6. Forth /\ bots'[b].state \notin Live
    BY <1>1, <1>2, <1>4, <1>5 DEF Forth, Live, Called, Over, BotState
  <1>7. CASE bots[b].state \in {"joining", "recording"}
    <2>1. Send(b, "ended") /\ Called(bots'[b].state) /\ "ended" \in Status
      BY <1>1, <1>2, <1>4, <1>7 DEF Recall, Called, Status
    <2> QED
      BY <1>6, <2>1, SendIs
  <1>8. CASE bots[b].state \notin {"joining", "recording"}
    <2>1. wire' = wire
      BY <1>8 DEF Recall
    <2> QED
      BY <1>6, <2>1, ToldOn DEF TypeOK
  <1> QED
    BY <1>7, <1>8

LEMMA BecomesIs ==
    ASSUME TypeOK, WireOK, NEW b \in Bot, Arrives(b) \/ Records(b) \/ Breaks(b) \/ Leaves(b) \/ Finishes(b)
    PROVE  /\ Forth /\ Tells
           /\ UNCHANGED <<world, row, born, jobs, pc, ses, lock, counts>>
  <1>1. PICK from \in {"waiting", "joining", "recording", "left"},
             to \in {"joining", "recording", "failed", "left", "done"},
             st \in {"joining", "recording", "failed", "ended", "recorded"} :
          /\ Becomes(b, from, to, st)
          /\ from = "left" => to = "done"
          /\ st \in {"failed", "recorded"} => to \in {"done", "failed"}
    BY DEF Arrives, Records, Breaks, Leaves, Finishes
  <1>2. UNCHANGED <<world, row, born, jobs, pc, ses, lock, counts>>
    BY <1>1 DEF Becomes
  <1>3. PICK h \in BOOLEAN : h = (bots[b].heard \/ to = "recording")
    OBVIOUS
  <1> DEFINE r == [bots[b] EXCEPT !.state = to, !.heard = h]
  <1>4. r \in Remote /\ r.state = to /\ r.meeting = bots[b].meeting
    <2>1. bots[b] \in Remote
      BY DEF TypeOK
    <2>2. to \in BotState
      BY DEF BotState
    <2>3. ASSUME NEW x \in Remote, NEW st2 \in BotState
          PROVE  LET y == [x EXCEPT !.state = st2, !.heard = h]
                 IN  y \in Remote /\ y.state = st2 /\ y.meeting = x.meeting
      BY DEF Remote
    <2> QED
      BY <2>1, <2>2, <2>3
  <1>5. bots' = [bots EXCEPT ![b] = r] /\ bots[b].state = from /\ Send(b, st)
    BY <1>1, <1>3 DEF Becomes
  <1> HIDE DEF r
  <1>6. bots' \in [Bot -> Remote] /\ bots'[b] = r /\ \A c \in Bot \ {b} : bots'[c] = bots[c]
    BY <1>4, <1>5 DEF TypeOK
  <1>7. /\ Called(to) /\ (to \in Live => from \in Live) /\ from # "absent" /\ to # "absent"
        /\ ~Over(from) /\ (st \in {"failed", "recorded"} => Over(to))
    BY <1>1 DEF Called, Live, Over
  <1>8. Forth
    BY <1>4, <1>5, <1>6, <1>7 DEF Forth
  <1>9. /\ Called(bots'[b].state) /\ st \in Status
        /\ st \in {"failed", "recorded"} => Over(bots'[b].state)
    BY <1>4, <1>6, <1>7 DEF Status
  <1> QED
    BY <1>2, <1>5, <1>8, <1>9, SendIs

-----------------------------------------------------------------------------
(* How a session begins *)

\* Tasks that were queued, and one more.
JobsFrom == jobs' \in Seq(Job) /\ \A j \in DOMAIN jobs' : \E k \in DOMAIN jobs : jobs'[j] = jobs[k]
JobsPlus(op, id) ==
    /\ jobs' \in Seq(Job)
    /\ \A j \in DOMAIN jobs' : \/ \E k \in DOMAIN jobs : jobs'[j] = jobs[k]
                               \/ jobs'[j].op = op /\ jobs'[j].id = id

LEMMA WithoutIs ==
    ASSUME NEW T, NEW q \in Seq(T), NEW i \in DOMAIN q
    PROVE  /\ Without(q, i) \in Seq(T)
           /\ \A j \in DOMAIN Without(q, i) : \E k \in DOMAIN q : Without(q, i)[j] = q[k]
  <1> DEFINE a == SubSeq(q, 1, i - 1)
             b == SubSeq(q, i + 1, Len(q))
  <1>1. i \in 1 .. Len(q) /\ Len(q) \in Nat /\ DOMAIN q = 1 .. Len(q)
    OBVIOUS
  <1>2. a \in Seq(T) /\ Len(a) = i - 1 /\ \A j \in 1 .. (i - 1) : a[j] = q[j]
    BY <1>1
  <1>3. /\ b \in Seq(T) /\ Len(b) = Len(q) - i
        /\ \A j \in 1 .. (Len(q) - i) : b[j] = q[i + j]
    BY <1>1
  <1>4. Without(q, i) = a \o b
    BY DEF Without
  <1> HIDE DEF a, b
  <1>5. Without(q, i) \in Seq(T) /\ Len(Without(q, i)) = Len(q) - 1
    <2>1. a \o b \in Seq(T) /\ Len(a \o b) = Len(a) + Len(b)
      <3>1. \A x, y \in Seq(T) : x \o y \in Seq(T) /\ Len(x \o y) = Len(x) + Len(y)
        OBVIOUS
      <3> QED
        BY <1>2, <1>3, <3>1, Zenon
    <2>2. Len(a) + Len(b) = Len(q) - 1
      BY <1>1, <1>2, <1>3
    <2> QED
      BY <1>4, <2>1, <2>2
  <1>6. ASSUME NEW j \in 1 .. (Len(q) - 1)
        PROVE  \E k \in DOMAIN q : Without(q, i)[j] = q[k]
    <2>1. CASE j < i
      <3>1. Without(q, i)[j] = q[j]
        BY <1>1, <1>2, <1>3, <1>4, <2>1
      <3> QED
        BY <1>1, <3>1
    <2>2. CASE ~(j < i)
      <3>1. j - (i - 1) \in 1 .. (Len(q) - i) /\ i + (j - (i - 1)) = j + 1 /\ j + 1 \in DOMAIN q
        BY <1>1, <2>2
      <3>2. j \in (Len(a) + 1) .. (Len(a) + Len(b))
        BY <1>1, <1>2, <1>3, <2>2
      <3>3. \A x, y \in Seq(T) : \A k \in (Len(x) + 1) .. (Len(x) + Len(y)) :
              (x \o y)[k] = y[k - Len(x)]
        OBVIOUS
      <3>4. (a \o b)[j] = b[j - Len(a)]
        BY <1>2, <1>3, <3>2, <3>3, Zenon
      <3>5. Without(q, i)[j] = q[j + 1]
        BY <1>2, <1>3, <1>4, <3>1, <3>4
      <3> QED
        BY <3>1, <3>5
    <2> QED
      BY <2>1, <2>2
  <1>7. DOMAIN Without(q, i) = 1 .. (Len(q) - 1)
    BY <1>5
  <1> QED
    BY <1>5, <1>6, <1>7

LEMMA JobTaken ==
    ASSUME TypeOK, NEW i \in DOMAIN jobs, jobs' = Without(jobs, i)
    PROVE  JobsFrom /\ jobs[i] \in Job /\ jobs[i].id \in 1 .. MaxRow /\ jobs[i].tries \in 0 .. Retries
  <1>1. jobs \in Seq(Job)
    BY DEF TypeOK
  <1>2. jobs[i] \in Job
    BY <1>1
  <1>3. jobs[i].id \in 1 .. MaxRow /\ jobs[i].tries \in 0 .. Retries
    BY <1>2 DEF Job
  <1> QED
    BY <1>1, <1>2, <1>3, WithoutIs DEF JobsFrom

LEMMA QueueIs ==
    ASSUME TypeOK, NEW op \in {"join", "process"}, NEW id \in 1 .. MaxRow, NEW tries \in 0 .. Retries,
           Queue(op, id, tries)
    PROVE  JobsPlus(op, id)
  <1>1. PICK e \in Job : e = [op |-> op, id |-> id, tries |-> tries]
    BY DEF Job
  <1>2. e.op = op /\ e.id = id
    BY <1>1
  <1>3. jobs \in Seq(Job) /\ jobs' = Append(jobs, e)
    BY <1>1 DEF TypeOK, Queue
  <1>4. /\ jobs' \in Seq(Job) /\ DOMAIN jobs' = 1 .. (Len(jobs) + 1) /\ DOMAIN jobs = 1 .. Len(jobs)
        /\ jobs'[Len(jobs) + 1] = e /\ Len(jobs) \in Nat
    BY <1>3
  <1>5. \A i \in 1 .. Len(jobs) : jobs'[i] = jobs[i]
    BY <1>3
  <1>6. \A j \in DOMAIN jobs' : j \in 1 .. Len(jobs) \/ j = Len(jobs) + 1
    BY <1>4
  <1> QED
    BY <1>2, <1>4, <1>5, <1>6 DEF JobsPlus

\* A row made for the event, put back in line, or as it was.
Made(new) ==
    /\ row.id = 0 /\ new = [NoRow EXCEPT !.id = born + 1] /\ new.id = born + 1
    /\ new.status = "pending" /\ new.bot = NoBot
Restored(new) ==
    row.id # 0 /\ new.id = row.id /\ row.status = "cancelled" /\ new.status = "pending" /\ new.bot = NoBot
SameTale(a, b) == a.timed = b.timed /\ a.recapped = b.recapped

LEMMA TrackedIs ==
    ASSUME TypeOK, RowOK, CanTrack(row)
    PROVE  /\ Tracked(row) \in Row /\ SameTale(Tracked(row), row)
           /\ \/ Tracked(row) # row /\ Made(Tracked(row))
              \/ Tracked(row) # row /\ Restored(Tracked(row))
              \/ /\ Tracked(row) = row /\ row.id # 0
                 /\ row.status = "cancelled" => ~Upcoming
  <1>1. row \in Row /\ born \in 0 .. MaxRow
    BY DEF TypeOK
  <1>2. CASE row.id = 0
    <2>1. PICK i \in 0 .. MaxRow : i = born + 1 /\ i # 0
      BY <1>1, <1>2 DEF CanTrack
    <2>2. row = NoRow /\ Tracked(row) = [NoRow EXCEPT !.id = i]
      BY <1>2, <2>1 DEF RowOK, Tracked
    <2>3. PICK n : n = [NoRow EXCEPT !.id = i]
      OBVIOUS
    <2>4. /\ n \in Row /\ n.id = i /\ n.status = "pending" /\ n.bot = NoBot
          /\ n.timed = FALSE /\ n.recapped = FALSE
      BY <2>3, NoSesIs, NumberIs
    <2>5. Tracked(row) = n /\ n # row
      BY <1>2, <2>1, <2>2, <2>3, <2>4
    <2>6. Made(n)
      BY <1>2, <2>1, <2>3, <2>4 DEF Made
    <2>7. SameTale(n, row)
      BY <2>2, <2>4, NoSesIs DEF SameTale
    <2> QED
      BY <2>4, <2>5, <2>6, <2>7
  <1>3. CASE row.id # 0 /\ row.status = "cancelled" /\ Upcoming
    <2>1. Tracked(row) = [row EXCEPT !.status = "pending", !.bot = NoBot]
      BY <1>3 DEF Tracked
    <2>2. "pending" \in Status /\ NoBot \in Bot \cup {NoBot}
      BY DEF Status
    <2>3. PICK n : n = [row EXCEPT !.status = "pending", !.bot = NoBot]
      OBVIOUS
    <2>4. /\ n \in Row /\ n.id = row.id /\ n.status = "pending" /\ n.bot = NoBot
          /\ n.timed = row.timed /\ n.recapped = row.recapped
      BY <1>1, <2>2, <2>3 DEF Row
    <2>5. Tracked(row) = n /\ SameTale(n, row) /\ Restored(n) /\ n # row
      BY <1>3, <2>1, <2>3, <2>4 DEF SameTale, Restored
    <2> QED
      BY <2>4, <2>5
  <1>4. CASE row.id # 0 /\ ~(row.status = "cancelled" /\ Upcoming)
    <2>1. Tracked(row) = row
      BY <1>4 DEF Tracked
    <2> QED
      BY <1>1, <1>4, <2>1 DEF SameTale
  <1> QED
    BY <1>2, <1>3, <1>4

LEMMA SweepIs ==
    ASSUME TypeOK, RowOK, NEW s \in Session, BeginSweep(s)
    PROVE  /\ Free(s) /\ Others(s) /\ UNCHANGED <<world, row, born, bots, wire, jobs, lock, counts>>
           /\ ses'[s].here = (event # "gone")
           /\ \/ Holds(s, "sweep", NoRow, NoRow) /\ At(s, "book")
              \/ \E new \in Row :
                    /\ Holds(s, "sweep", row, new) /\ SameTale(new, row) /\ ses'[s].here
                    /\ \/ At(s, "flush") /\ (Made(new) \/ Restored(new))
                       \/ At(s, "book") /\ new = row /\ row.id # 0
  <1>1. "sweep" \in Op /\ "book" \in Step /\ "flush" \in Step /\ 0 \in 0 .. Retries
    BY DEF Op, Step
  <1>2. ASSUME NEW seen \in Row, NEW new \in Row, NEW step \in Step,
               ses' = [ses EXCEPT ![s] = [NoSes EXCEPT !.op = "sweep", !.here = event # "gone",
                                            !.seen = seen, !.new = new]],
               Goto(s, step)
        PROVE  /\ Others(s) /\ At(s, step) /\ Holds(s, "sweep", seen, new)
               /\ ses'[s].here = (event # "gone")
    <2> DEFINE d == [NoSes EXCEPT !.op = "sweep", !.here = event # "gone", !.seen = seen, !.new = new]
    <2>1. d \in Ses /\ d.op = "sweep" /\ d.seen = seen /\ d.new = new /\ d.here = (event # "gone")
      BY <1>1 DEF NoSes, Ses
    <2>2. ses' = [ses EXCEPT ![s] = d] /\ pc' = [pc EXCEPT ![s] = step]
      BY <1>2 DEF Goto
    <2> HIDE DEF d
    <2> QED
      BY <2>1, <2>2 DEF TypeOK, Others, At, Holds
  <1>3. Free(s) /\ UNCHANGED <<world, row, born, bots, wire, jobs, lock, counts>>
    BY DEF BeginSweep
  <1>4. CASE ~(Attends /\ CanTrack(row))
    <2>1. /\ ses' = [ses EXCEPT ![s] = [NoSes EXCEPT !.op = "sweep", !.here = event # "gone",
                                          !.seen = NoRow, !.new = NoRow]]
          /\ Goto(s, "book")
      BY <1>4 DEF BeginSweep
    <2> QED
      BY <1>1, <1>2, <1>3, <2>1, NoSesIs
  <1>5. CASE Attends /\ CanTrack(row)
    <2>1. PICK new \in Row : /\ new = Tracked(row) /\ SameTale(new, row)
                             /\ \/ new # row /\ (Made(new) \/ Restored(new))
                                \/ new = row /\ row.id # 0
      BY <1>5, TrackedIs
    <2>2. PICK step \in Step : step = IF new # row THEN "flush" ELSE "book"
      BY <1>1
    <2>3. /\ ses' = [ses EXCEPT ![s] = [NoSes EXCEPT !.op = "sweep", !.here = event # "gone",
                                          !.seen = row, !.new = new]]
          /\ Goto(s, step)
      BY <1>5, <2>1, <2>2 DEF BeginSweep
    <2>4. row \in Row /\ event # "gone"
      BY <1>5 DEF TypeOK, Attends
    <2>5. Others(s) /\ At(s, step) /\ Holds(s, "sweep", row, new) /\ ses'[s].here
      BY <1>2, <2>3, <2>4
    <2> QED
      BY <1>3, <2>1, <2>2, <2>4, <2>5
  <1> QED
    BY <1>4, <1>5

LEMMA JoinIs ==
    ASSUME TypeOK, NEW s \in Session, BeginJoin(s)
    PROVE  /\ Free(s) /\ UNCHANGED <<world, row, born, bots, wire, lock, counts>> /\ JobsFrom
           /\ \/ UNCHANGED <<pc, ses>>
              \/ /\ row.id # 0 /\ row.bot = NoBot
                 /\ Others(s) /\ At(s, "book") /\ Holds(s, "join", row, row)
  <1>1. "join" \in Op /\ "book" \in Step /\ row \in Row
    BY DEF Op, Step, TypeOK
  <1>2. PICK i \in DOMAIN jobs :
          /\ jobs' = Without(jobs, i)
          /\ IF row.id = jobs[i].id /\ row.bot = NoBot /\ Allowed
             THEN Start(s, "join", row, row, "book")
             ELSE UNCHANGED <<pc, ses>>
    BY DEF BeginJoin
  <1>3. Free(s) /\ UNCHANGED <<world, row, born, bots, wire, lock, counts>>
    BY DEF BeginJoin
  <1> QED
    BY <1>1, <1>2, <1>3, JobTaken, StartIs

LEMMA LinkIs ==
    ASSUME TypeOK, NEW s \in Session, BeginLink(s)
    PROVE  /\ Free(s) /\ UNCHANGED <<world, row, bots, wire, jobs, mailed, metered, spared>>
           /\ born = 0 /\ born' = 1 /\ lock' = s /\ turn' \in 0 .. MaxTurn
           /\ \E new \in Row :
                /\ Others(s) /\ At(s, "queue") /\ Holds(s, "enable", NoRow, new)
                /\ new.id = 1 /\ new.status = "pending" /\ new.bot = NoBot
                /\ ~new.timed /\ ~new.recapped
  <1>1. "enable" \in Op /\ "queue" \in Step /\ 1 \in 0 .. MaxRow
    BY DEF Op, Step
  <1>2. /\ Free(s) /\ UNCHANGED <<world, row, bots, wire, jobs, mailed, metered, spared>>
        /\ born = 0 /\ born' = 1 /\ lock' = s /\ turn' = turn + 1 /\ turn < MaxTurn
        /\ Start(s, "enable", NoRow, [NoRow EXCEPT !.id = 1], "queue")
    BY DEF BeginLink, CanAsk
  <1>3. PICK new \in Row :
          /\ new = [NoRow EXCEPT !.id = 1]
          /\ new.id = 1 /\ new.status = "pending" /\ new.bot = NoBot /\ ~new.timed /\ ~new.recapped
    <2>1. PICK n : n = [NoRow EXCEPT !.id = 1]
      OBVIOUS
    <2> QED
      BY <1>1, <2>1, NoSesIs, NumberIs
  <1>4. turn' \in 0 .. MaxTurn
    BY <1>2 DEF TypeOK
  <1> QED
    BY <1>1, <1>2, <1>3, <1>4, NoSesIs, StartIs

LEMMA EnableIs ==
    ASSUME TypeOK, RowOK, NEW s \in Session, BeginEnable(s)
    PROVE  /\ Free(s) /\ UNCHANGED <<world, row, born, bots, wire, jobs, lock, mailed, metered, spared>>
           /\ turn' \in 0 .. MaxTurn
           /\ row.status # "delivered"
           /\ \E new \in Row :
                /\ Others(s) /\ At(s, "flush") /\ Holds(s, "enable", row, new)
                /\ SameTale(new, row) /\ new.status = "pending"
                /\ \/ Made(new)
                   \/ Restored(new)
                   \/ row.id # 0 /\ new.id = row.id /\ row.status # "cancelled" /\ new.bot = row.bot
  <1>1. "enable" \in Op /\ "flush" \in Step /\ row \in Row /\ "pending" \in Status
    BY DEF Op, Step, TypeOK, Status
  <1>2. /\ Free(s) /\ UNCHANGED <<world, row, born, bots, wire, jobs, lock, mailed, metered, spared>>
        /\ turn' = turn + 1 /\ turn < MaxTurn /\ Upcoming /\ CanTrack(row)
        /\ row.id = 0 \/ row.status \notin BotLockedStatuses
        /\ Start(s, "enable", row, [Tracked(row) EXCEPT !.status = "pending"], "flush")
    BY DEF BeginEnable, CanAsk
  <1>3. turn' \in 0 .. MaxTurn
    BY <1>2 DEF TypeOK
  <1>4. row.status # "delivered"
    BY <1>2, NoSesIs DEF RowOK, BotLockedStatuses
  <1>5. PICK tr \in Row :
          /\ tr = Tracked(row) /\ SameTale(tr, row)
          /\ \/ Made(tr)
             \/ Restored(tr)
             \/ tr = row /\ row.id # 0 /\ row.status # "cancelled"
    BY <1>2, TrackedIs
  <1>12. PICK n : n = [tr EXCEPT !.status = "pending"]
    OBVIOUS
  <1>6. PICK new \in Row :
          /\ new = [tr EXCEPT !.status = "pending"]
          /\ new.status = "pending" /\ new.id = tr.id /\ new.bot = tr.bot /\ SameTale(new, tr)
    BY <1>1, <1>12, StatusIs DEF SameTale
  <1>7. tr.status = "pending" => new = tr
    BY <1>6 DEF Row
  <1>8. Made(tr) => Made(new)
    BY <1>6, <1>7 DEF Made
  <1>9. Restored(tr) => Restored(new)
    BY <1>6 DEF Restored
  <1>10. SameTale(new, row)
    BY <1>5, <1>6 DEF SameTale
  <1>11. Others(s) /\ At(s, "flush") /\ Holds(s, "enable", row, new)
    BY <1>1, <1>2, <1>5, <1>6, StartIs
  <1> QED
    BY <1>2, <1>3, <1>4, <1>5, <1>6, <1>8, <1>9, <1>10, <1>11

LEMMA UploadIs ==
    ASSUME TypeOK, RowOK, NEW s \in Session, BeginUpload(s)
    PROVE  /\ Free(s) /\ UNCHANGED <<world, row, born, bots, wire, jobs, lock, mailed, metered, spared>>
           /\ turn' \in 0 .. MaxTurn
           /\ \E new \in Row :
                /\ Others(s) /\ At(s, "flush") /\ Holds(s, "upload", row, new)
                /\ SameTale(new, row) /\ new.status = "pending"
                /\ \/ Made(new)
                   \/ Restored(new)
                   \/ row.id # 0 /\ new.id = row.id /\ new.bot = row.bot
                /\ row.status = "delivered" => new = [row EXCEPT !.status = "pending"]
  <1>1. "upload" \in Op /\ "flush" \in Step /\ row \in Row /\ "pending" \in Status
    BY DEF Op, Step, TypeOK, Status
  <1>2. /\ Free(s) /\ UNCHANGED <<world, row, born, bots, wire, jobs, lock, mailed, metered, spared>>
        /\ turn' = turn + 1 /\ turn < MaxTurn /\ CanTrack(row)
        /\ Start(s, "upload", row, [Tracked(row) EXCEPT !.status = "pending"], "flush")
    BY DEF BeginUpload, CanAsk
  <1>3. turn' \in 0 .. MaxTurn
    BY <1>2 DEF TypeOK
  <1>5. PICK tr \in Row :
          /\ tr = Tracked(row) /\ SameTale(tr, row)
          /\ \/ Made(tr)
             \/ Restored(tr)
             \/ tr = row /\ row.id # 0
    BY <1>2, TrackedIs
  <1>12. PICK n : n = [tr EXCEPT !.status = "pending"]
    OBVIOUS
  <1>6. PICK new \in Row :
          /\ new = [tr EXCEPT !.status = "pending"]
          /\ new.status = "pending" /\ new.id = tr.id /\ new.bot = tr.bot /\ SameTale(new, tr)
    BY <1>1, <1>12, StatusIs DEF SameTale
  <1>7. tr.status = "pending" => new = tr
    BY <1>6 DEF Row
  <1>8. Made(tr) => Made(new)
    BY <1>6, <1>7 DEF Made
  <1>9. Restored(tr) => Restored(new)
    BY <1>6 DEF Restored
  <1>10. SameTale(new, row)
    BY <1>5, <1>6 DEF SameTale
  <1>11. Others(s) /\ At(s, "flush") /\ Holds(s, "upload", row, new)
    BY <1>1, <1>2, <1>5, <1>6, StartIs
  <1>13. row.status = "delivered" => tr = row
    BY <1>5, NoSesIs DEF Made, Restored, RowOK
  <1> QED
    BY <1>2, <1>3, <1>5, <1>6, <1>8, <1>9, <1>10, <1>11, <1>13

LEMMA CancelIs ==
    ASSUME TypeOK, NEW s \in Session, BeginCancel(s)
    PROVE  /\ Free(s) /\ UNCHANGED <<world, row, born, bots, wire, jobs, lock, mailed, metered, spared>>
           /\ turn' \in 0 .. MaxTurn
           /\ row.id # 0 /\ row.status # "delivered"
           /\ Others(s) /\ At(s, IF row.bot = NoBot THEN "commit" ELSE "stop")
           /\ \E new \in Row :
                /\ Holds(s, "cancel", row, new) /\ new = [row EXCEPT !.status = "cancelled"]
                /\ new.id = row.id /\ new.bot = row.bot /\ new.status = "cancelled" /\ SameTale(new, row)
  <1>1. "cancel" \in Op /\ row \in Row /\ "cancelled" \in Status
    BY DEF Op, TypeOK, Status
  <1>2. PICK step \in Step : step = IF row.bot = NoBot THEN "commit" ELSE "stop"
    BY DEF Step
  <1>3. PICK new \in Row :
          /\ new = [row EXCEPT !.status = "cancelled"]
          /\ new.id = row.id /\ new.bot = row.bot /\ new.status = "cancelled" /\ SameTale(new, row)
    <2>1. PICK n : n = [row EXCEPT !.status = "cancelled"]
      OBVIOUS
    <2> QED
      BY <1>1, <2>1, StatusIs DEF SameTale
  <1>4. /\ Free(s) /\ UNCHANGED <<world, row, born, bots, wire, jobs, lock, mailed, metered, spared>>
        /\ turn' = turn + 1 /\ turn < MaxTurn /\ row.id # 0
        /\ row.status \in ActiveStatuses \cup {"pending"}
        /\ Start(s, "cancel", row, new, step)
    BY <1>2, <1>3 DEF BeginCancel, CanAsk
  <1>5. turn' \in 0 .. MaxTurn /\ row.status # "delivered"
    BY <1>4 DEF TypeOK, ActiveStatuses
  <1>6. Others(s) /\ At(s, step) /\ Holds(s, "cancel", row, new)
    BY <1>1, <1>4, StartIs
  <1> QED
    BY <1>2, <1>3, <1>4, <1>5, <1>6

LEMMA DeleteIs ==
    ASSUME TypeOK, NEW s \in Session, BeginDelete(s)
    PROVE  /\ Free(s) /\ UNCHANGED <<world, row, born, bots, wire, jobs, lock, mailed, metered, spared>>
           /\ turn' \in 0 .. MaxTurn /\ row.id # 0
           /\ Others(s) /\ Holds(s, "delete", row, NoRow)
           /\ At(s, "commit") \/ (At(s, "stop") /\ row.bot # NoBot)
  <1>1. "delete" \in Op /\ row \in Row /\ "stop" \in Step /\ "commit" \in Step
    BY DEF Op, TypeOK, Step
  <1>2. PICK step \in Step :
          step = IF row.bot # NoBot /\ row.status \in ActiveStatuses THEN "stop" ELSE "commit"
    BY <1>1
  <1>3. /\ Free(s) /\ UNCHANGED <<world, row, born, bots, wire, jobs, lock, mailed, metered, spared>>
        /\ turn' = turn + 1 /\ turn < MaxTurn /\ row.id # 0
        /\ Start(s, "delete", row, NoRow, step)
    BY <1>2 DEF BeginDelete, CanAsk
  <1>4. turn' \in 0 .. MaxTurn
    BY <1>3 DEF TypeOK
  <1>5. Others(s) /\ At(s, step) /\ Holds(s, "delete", row, NoRow)
    BY <1>1, <1>3, NoSesIs, StartIs
  <1> QED
    BY <1>2, <1>3, <1>4, <1>5

LEMMA CallbackIs ==
    ASSUME TypeOK, WireOK, NEW s \in Session, BeginCallback(s)
    PROVE  /\ Free(s) /\ UNCHANGED <<world, row, born, bots, lock, counts>> /\ Tells
           /\ \/ UNCHANGED <<pc, ses, jobs>>
              \/ \E b \in Bot, new \in Row :
                    /\ row.id # 0 /\ Called(bots[b].state)
                    /\ bots[b].meeting = row.id \/ row.bot = b
                    /\ row.status \notin TerminalStatuses
                    /\ Others(s) /\ At(s, "commit") /\ Holds(s, "callback", row, new)
                    /\ new.id = row.id /\ SameTale(new, row)
                    /\ new.bot = IF row.bot = NoBot THEN b ELSE row.bot
                    /\ new.status \in {"joining", "recording", "failed", "ended", "recorded"}
                    /\ new.status \in {"failed", "recorded"} => Over(bots[b].state)
                    /\ UNCHANGED jobs \/ (JobsPlus("process", row.id) /\ new.status = "recorded")
  <1>1. "callback" \in Op /\ "commit" \in Step /\ row \in Row /\ wire \in Seq(Callback)
    BY DEF Op, TypeOK, Step
  <1>2. PICK i \in DOMAIN wire :
          /\ \/ wire' = [wire EXCEPT ![i].seen = TRUE]
             \/ wire' = Without(wire, i)
          /\ IF Ignored(wire[i].bot)
             THEN UNCHANGED <<pc, ses, jobs>>
             ELSE /\ Start(s, "callback", row,
                           [row EXCEPT !.status = wire[i].status,
                                       !.bot = IF @ = NoBot THEN wire[i].bot ELSE @], "commit")
                  /\ IF wire[i].status = "recorded"
                     THEN Queue("process", row.id, 0)
                     ELSE UNCHANGED jobs
    BY DEF BeginCallback
  <1>3. Free(s) /\ UNCHANGED <<world, row, born, bots, lock, counts>>
    BY DEF BeginCallback
  <1>4. PICK e \in Callback : e = wire[i] /\ Told(e)
    BY <1>1 DEF WireOK
  <1>5. /\ e.bot \in Bot /\ Called(bots[e.bot].state)
        /\ e.status \in {"joining", "recording", "failed", "ended", "recorded"} /\ e.status \in Status
        /\ e.status \in {"failed", "recorded"} => Over(bots[e.bot].state)
    BY <1>4 DEF Callback, Told, Called
  <1>6. Tells
    <2>1. Forth
      BY <1>3, StillIs
    <2>2. CASE wire' = Without(wire, i)
      <3>1. PICK w \in Seq(Callback) :
              w = Without(wire, i) /\ \A j \in DOMAIN w : \E k \in DOMAIN wire : w[j] = wire[k]
        BY <1>1, WithoutIs
      <3> QED
        BY <2>1, <2>2, <3>1, ToldOn
    <2>3. CASE wire' = [wire EXCEPT ![i].seen = TRUE]
      <3>1. PICK f \in Callback : f = [e EXCEPT !.seen = TRUE] /\ f.bot = e.bot /\ f.status = e.status
        <4>1. PICK f : f = [e EXCEPT !.seen = TRUE]
          OBVIOUS
        <4>2. f \in Callback /\ f.bot = e.bot /\ f.status = e.status
          BY <4>1 DEF Callback
        <4> QED
          BY <4>1, <4>2
      <3>2. [wire EXCEPT ![i] = f] \in Seq(Callback)
        BY <1>1
      <3>3. PICK w \in Seq(Callback) : w = [wire EXCEPT ![i] = f]
        BY <3>2
      <3>4. wire' = w
        BY <1>4, <2>3, <3>1, <3>3
      <3>5. DOMAIN w = DOMAIN wire /\ \A j \in DOMAIN wire : w[j] = IF j = i THEN f ELSE wire[j]
        BY <1>1, <3>3
      <3>6. \A j \in DOMAIN w : \E k \in DOMAIN wire : w[j].bot = wire[k].bot /\ w[j].status = wire[k].status
        BY <1>4, <3>1, <3>5
      <3> QED
        BY <2>1, <3>4, <3>6, ToldOn
    <2> QED
      BY <1>2, <2>2, <2>3
  <1>7. CASE Ignored(wire[i].bot)
    BY <1>2, <1>3, <1>6, <1>7
  <1>8. CASE ~Ignored(wire[i].bot)
    <2>1. /\ row.id # 0
          /\ bots[e.bot].meeting = row.id \/ row.bot = e.bot
          /\ row.status \notin TerminalStatuses
      BY <1>4, <1>8 DEF Ignored, Found
    <2>2. PICK c \in Bot \cup {NoBot} : c = IF row.bot = NoBot THEN e.bot ELSE row.bot
      BY <1>1, <1>5 DEF Row
    <2>3. PICK new \in Row :
            /\ new = [row EXCEPT !.status = e.status, !.bot = c]
            /\ new.id = row.id /\ SameTale(new, row) /\ new.bot = c /\ new.status = e.status
      <3>1. PICK n : n = [row EXCEPT !.status = e.status, !.bot = c]
        OBVIOUS
      <3>2. /\ n \in Row /\ n.status = e.status /\ n.id = row.id /\ n.bot = c
            /\ n.timed = row.timed /\ n.recapped = row.recapped
        BY <1>1, <1>5, <2>2, <3>1 DEF Row
      <3> QED
        BY <3>1, <3>2 DEF SameTale
    <2>4. Start(s, "callback", row, new, "commit")
      BY <1>2, <1>4, <1>8, <2>2, <2>3
    <2>5. Others(s) /\ At(s, "commit") /\ Holds(s, "callback", row, new)
      BY <1>1, <2>4, StartIs
    <2>6. UNCHANGED jobs \/ (JobsPlus("process", row.id) /\ new.status = "recorded")
      <3>1. UNCHANGED jobs \/ (Queue("process", row.id, 0) /\ new.status = "recorded")
        BY <1>2, <1>4, <1>8, <2>3
      <3>2. row.id \in 1 .. MaxRow /\ 0 \in 0 .. Retries
        <4>1. row.id \in 0 .. MaxRow
          BY <1>1 DEF Row
        <4> QED
          BY <2>1, <4>1
      <3> QED
        BY <3>1, <3>2, QueueIs
    <2> QED
      BY <1>3, <1>5, <1>6, <2>1, <2>2, <2>3, <2>5, <2>6
  <1> QED
    BY <1>7, <1>8

LEMMA ProcessIs ==
    ASSUME TypeOK, NEW s \in Session, BeginProcess(s)
    PROVE  /\ Free(s) /\ UNCHANGED <<world, row, born, bots, wire, lock, counts>> /\ JobsFrom
           /\ \/ UNCHANGED <<pc, ses>>
              \/ /\ row.id # 0 /\ row.bot # NoBot /\ ~row.recapped
                 /\ \E i \in DOMAIN jobs : jobs[i].op = "process" /\ jobs[i].id = row.id
                 /\ Others(s) /\ At(s, "fetch") /\ Holds(s, "process", row, row)
  <1>1. "process" \in Op /\ "fetch" \in Step /\ row \in Row
    BY DEF Op, Step, TypeOK
  <1>2. PICK i \in DOMAIN jobs :
          /\ jobs[i].op = "process" /\ jobs' = Without(jobs, i)
          /\ IF Skipped(jobs[i].id)
             THEN UNCHANGED <<pc, ses>>
             ELSE /\ ses' = [ses EXCEPT ![s] = [NoSes EXCEPT !.op = "process",
                               !.seen = row, !.new = row, !.tries = jobs[i].tries]]
                  /\ Goto(s, "fetch")
    BY DEF BeginProcess
  <1>3. Free(s) /\ UNCHANGED <<world, row, born, bots, wire, lock, counts>>
    BY DEF BeginProcess
  <1>4. JobsFrom /\ jobs[i].id \in 1 .. MaxRow /\ jobs[i].tries \in 0 .. Retries
    BY <1>2, JobTaken
  <1>5. CASE Skipped(jobs[i].id)
    BY <1>2, <1>3, <1>4, <1>5
  <1>6. CASE ~Skipped(jobs[i].id)
    <2>1. row.id = jobs[i].id /\ row.id # 0 /\ row.bot # NoBot /\ ~row.recapped
      BY <1>4, <1>6 DEF Skipped
    <2> DEFINE d == [NoSes EXCEPT !.op = "process", !.seen = row, !.new = row, !.tries = jobs[i].tries]
    <2>2. d \in Ses /\ d.op = "process" /\ d.seen = row /\ d.new = row
      BY <1>1, <1>4 DEF NoSes, Ses
    <2>3. ses' = [ses EXCEPT ![s] = d] /\ pc' = [pc EXCEPT ![s] = "fetch"]
      BY <1>2, <1>6 DEF Goto
    <2> HIDE DEF d
    <2>4. Others(s) /\ At(s, "fetch") /\ Holds(s, "process", row, row)
      BY <1>1, <2>2, <2>3 DEF TypeOK, Others, At, Holds
    <2> QED
      BY <1>2, <1>3, <1>4, <2>1, <2>4
  <1> QED
    BY <1>5, <1>6

-----------------------------------------------------------------------------
(* How a session goes on *)

LEMMA Where ==
    ASSUME NoteInv, NEW s \in Session
    PROVE  /\ ses[s] \in Ses /\ ses[s].op \in Op /\ ses[s].seen \in Row /\ ses[s].new \in Row
           /\ ses[s].tries \in 0 .. Retries
           /\ pc[s] = "idle" <=> ses[s].op = "none"
           /\ pc[s] = "idle" => ses[s] = NoSes
           /\ pc[s] = "flush" => ses[s].op \in {"sweep", "enable", "upload"}
           /\ pc[s] = "book" => ses[s].op \in {"sweep", "join"}
           /\ pc[s] = "recall" => ses[s].op = "sweep"
           /\ pc[s] = "queue" => ses[s].op = "enable"
           /\ pc[s] = "stop" => ses[s].op \in {"cancel", "delete"}
           /\ pc[s] \in {"fetch", "send"} => ses[s].op = "process"
  <1>1. ses[s] \in Ses
    BY DEF NoteInv, TypeOK
  <1>2. ses[s].op \in Op /\ ses[s].seen \in Row /\ ses[s].new \in Row /\ ses[s].tries \in 0 .. Retries
    BY <1>1 DEF Ses
  <1>3. pc[s] \in Place[ses[s].op] /\ (ses[s].op = "none" => ses[s] = NoSes)
    BY DEF NoteInv, Drafted
  <1> QED
    BY <1>1, <1>2, <1>3 DEF Op, Place

LEMMA FlushIs ==
    ASSUME NoteInv, NEW s \in Session, Flush(s)
    PROVE  /\ pc[s] = "flush" /\ Others(s) /\ UNCHANGED <<world, row, bots, wire, jobs, counts>>
           /\ At(s, After(ses[s].op))
           /\ Changed(s) => ~Gone(s)
           /\ \/ /\ ses[s].seen.id = 0 /\ born' = born + 1 /\ born' \in 0 .. MaxRow /\ lock' = s
                 /\ \E new \in Row :
                      /\ Holds(s, ses[s].op, ses[s].seen, new) /\ new = [ses[s].new EXCEPT !.id = born + 1]
                      /\ new.id = born + 1 /\ (ses[s].new.id = born + 1 => new = ses[s].new)
                 /\ ses'[s].here = ses[s].here
              \/ ses[s].seen.id # 0 /\ born' = born /\ Keeps(s) /\ lock' \in {s, lock}
  <1>1. /\ pc[s] = "flush" /\ UNCHANGED <<world, row, bots, wire, jobs, counts>>
        /\ Changed(s) => ~Gone(s)
    BY DEF Flush
  <1>2. TypeOK /\ ses[s].new.id # 0 /\ lock # s /\ ses[s].new \in Row /\ ses[s].seen \in Row
    BY <1>1, Where DEF NoteInv, Drafted
  <1>3. PICK step \in Step : step = After(ses[s].op)
    BY DEF Step, After
  <1>4. Goto(s, step)
    BY <1>3 DEF Flush
  <1>5. CASE ses[s].seen.id = 0
    <2>1. Changed(s)
      BY <1>2, <1>5 DEF Changed
    <2>2. born' = born + 1 /\ lock' = s /\ ses' = [ses EXCEPT ![s].new.id = born + 1]
      BY <1>5, <2>1 DEF Flush
    <2>3. born \in 0 .. MaxRow /\ born # MaxRow
      BY <1>1, <1>2, <1>5, <2>1 DEF Gone, TypeOK
    <2>4. born + 1 \in 0 .. MaxRow
      BY <2>3
    <2>5. PICK new : new = [ses[s].new EXCEPT !.id = born + 1]
      OBVIOUS
    <2>6. new \in Row /\ new.id = born + 1 /\ (ses[s].new.id = born + 1 => new = ses[s].new)
      BY <1>2, <2>4, <2>5, NumberIs
    <2>7. ses' = [ses EXCEPT ![s].new = new]
      BY <1>2, <2>2, <2>5 DEF TypeOK
    <2>8. /\ Others(s) /\ At(s, step) /\ Holds(s, ses[s].op, ses[s].seen, new)
          /\ ses'[s].here = ses[s].here
      BY <1>2, <1>4, <2>6, <2>7, DraftIs
    <2> QED
      BY <1>1, <1>3, <1>5, <2>2, <2>4, <2>5, <2>6, <2>8
  <1>6. CASE ses[s].seen.id # 0
    <2>1. born' = born /\ ses' = ses /\ lock' \in {s, lock}
      BY <1>6 DEF Flush
    <2> QED
      BY <1>1, <1>2, <1>3, <1>4, <1>6, <2>1, GotoIs
  <1> QED
    BY <1>5, <1>6

\* What the session has read, when it has loaded the row.
LSeen(s) == IF ses[s].new.id = 0 THEN row ELSE ses[s].seen

LEMMA LoadedIs ==
    ASSUME NoteInv, NEW s \in Session
    PROVE  /\ LSeen(s) \in Row /\ Outcome(s) \in Row
           /\ Loaded(s) = [ses[s] EXCEPT !.seen = LSeen(s), !.new = Outcome(s)]
           /\ Loaded(s).new = Outcome(s) /\ Loaded(s).op = ses[s].op
  <1>1. ses[s] \in Ses /\ row \in Row /\ ses[s].seen \in Row /\ ses[s].new \in Row
    BY Where DEF NoteInv, TypeOK
  <1>2. ASSUME NEW d \in Ses PROVE d = [d EXCEPT !.seen = d.seen, !.new = d.new]
    BY DEF Ses
  <1>3. Loaded(s) = [ses[s] EXCEPT !.seen = LSeen(s), !.new = Outcome(s)]
    BY <1>1, <1>2 DEF Loaded, LSeen, Outcome
  <1>4. Loaded(s).new = Outcome(s) /\ Loaded(s).op = ses[s].op
    BY <1>1, <1>3 DEF Ses
  <1> QED
    BY <1>1, <1>3, <1>4 DEF LSeen, Outcome

LEMMA VisibleIs ==
    ASSUME NoteInv, NEW s \in Session
    PROVE  /\ Visible(s) \in Row
           /\ IF ses[s].seen.id = 0 /\ ses[s].new.id # 0 THEN Visible(s) = ses[s].new
              ELSE Visible(s) = Merge(row, ses[s].new, ses[s].seen)
           /\ ses[s].op # "delete" =>
                Visible(s).id = IF ses[s].seen.id = 0 /\ ses[s].new.id # 0 THEN ses[s].new.id ELSE row.id
  <1>1. row \in Row /\ ses[s].seen \in Row /\ ses[s].new \in Row
    BY Where DEF NoteInv, TypeOK
  <1>2. ses[s].op # "delete" /\ ses[s].seen.id # 0 => ses[s].new.id = ses[s].seen.id
    BY DEF NoteInv, Drafted
  <1>3. IF ses[s].seen.id = 0 /\ ses[s].new.id # 0 THEN Visible(s) = ses[s].new
        ELSE Visible(s) = Merge(row, ses[s].new, ses[s].seen)
    BY DEF Visible, Merge
  <1> QED
    BY <1>1, <1>2, <1>3, MergeIs

LEMMA BookBotIs ==
    ASSUME NoteInv, NEW s \in Session, BookBot(s)
    PROVE  /\ pc[s] = "book" /\ Others(s) /\ UNCHANGED <<world, row, born, wire, jobs, lock, counts>>
           /\ At(s, IF ses[s].op = "sweep" THEN "recall" ELSE "commit")
           /\ \/ Keeps(s) /\ UNCHANGED bots
              \/ \E b \in Bot, new \in Row :
                    /\ ses[s].op = "sweep" => Awaiting(Visible(s))
                    /\ Booked(b, Outcome(s).id) /\ Holds(s, ses[s].op, LSeen(s), new)
                    /\ ses'[s].here = ses[s].here
                    /\ new.id = Outcome(s).id /\ new.id # 0 /\ new.bot = b
                    /\ new.status = "scheduled" /\ SameTale(new, Outcome(s))
  <1>1. pc[s] = "book" /\ UNCHANGED <<world, row, born, wire, jobs, lock, counts>>
    BY DEF BookBot
  <1>2. TypeOK /\ ses[s] \in Ses /\ LSeen(s) \in Row /\ Outcome(s) \in Row /\ ses[s].op \in {"sweep", "join"}
    BY <1>1, Where, LoadedIs DEF NoteInv
  <1>3. PICK step \in Step : step = IF ses[s].op = "sweep" THEN "recall" ELSE "commit"
    BY DEF Step
  <1>4. \/ /\ ses[s].op = "sweep" => Awaiting(Visible(s))
           /\ \E b \in Bot :
                /\ Book(b, Outcome(s).id)
                /\ ses' = [ses EXCEPT ![s] = [Loaded(s) EXCEPT !.new.bot = b,
                                                               !.new.status = "scheduled"]]
           /\ Goto(s, step)
        \/ Goto(s, step) /\ UNCHANGED <<bots, ses>>
    BY <1>2, <1>3, LoadedIs DEF BookBot, BookFails
  <1>5. CASE Goto(s, step) /\ UNCHANGED <<bots, ses>>
    BY <1>1, <1>2, <1>3, <1>5, GotoIs
  <1>6. ASSUME ses[s].op = "sweep" => Awaiting(Visible(s)), NEW b \in Bot, Book(b, Outcome(s).id),
               ses' = [ses EXCEPT ![s] = [Loaded(s) EXCEPT !.new.bot = b, !.new.status = "scheduled"]],
               Goto(s, step)
        PROVE  /\ Others(s) /\ At(s, step)
               /\ \E new \in Row :
                    /\ Booked(b, Outcome(s).id) /\ Holds(s, ses[s].op, LSeen(s), new)
                    /\ ses'[s].here = ses[s].here
                    /\ new.id = Outcome(s).id /\ new.id # 0 /\ new.bot = b
                    /\ new.status = "scheduled" /\ SameTale(new, Outcome(s))
    <2>1. PICK new : new = [Outcome(s) EXCEPT !.bot = b, !.status = "scheduled"]
      OBVIOUS
    <2>2. /\ new \in Row /\ new.id = Outcome(s).id /\ new.bot = b /\ new.status = "scheduled"
          /\ SameTale(new, Outcome(s))
      BY <1>2, <2>1 DEF Row, Status, SameTale
    <2>4. Loaded(s) = [ses[s] EXCEPT !.seen = LSeen(s), !.new = Outcome(s)]
      BY LoadedIs
    <2>9. [Loaded(s) EXCEPT !.new.bot = b, !.new.status = "scheduled"]
            = [ses[s] EXCEPT !.seen = LSeen(s), !.new = new]
      BY <1>2, <2>1, <2>4 DEF Ses
    <2>5. ses' = [ses EXCEPT ![s] = [ses[s] EXCEPT !.seen = LSeen(s), !.new = new]]
      BY <1>6, <2>9
    <2>6. /\ Others(s) /\ At(s, step) /\ Holds(s, ses[s].op, LSeen(s), new)
          /\ ses'[s].here = ses[s].here
      <3>1. TypeOK /\ LSeen(s) \in Row /\ new \in Row /\ step \in Step /\ Goto(s, step)
        BY <1>2, <1>6, <2>2
      <3> QED
        BY <2>5, <3>1, DraftIs
    <2>7. Outcome(s).id # 0
      <3>1. CASE ses[s].op = "sweep"
        <4>1. Visible(s).id # 0
          BY <1>6, <3>1 DEF Awaiting
        <4> QED
          BY <3>1, <4>1, VisibleIs DEF Outcome
      <3>2. CASE ses[s].op = "join"
        BY <3>2 DEF NoteInv, Drafted, Outcome
      <3> QED
        BY <1>2, <3>1, <3>2
    <2>8. Booked(b, Outcome(s).id)
      <3>1. Outcome(s).id \in 0 .. MaxRow
        BY <1>2 DEF Row
      <3> QED
        BY <1>2, <1>6, <3>1, BookIs
    <2> QED
      BY <2>2, <2>6, <2>7, <2>8
  <1>7. CASE /\ ses[s].op = "sweep" => Awaiting(Visible(s))
             /\ \E b \in Bot :
                  /\ Book(b, Outcome(s).id)
                  /\ ses' = [ses EXCEPT ![s] = [Loaded(s) EXCEPT !.new.bot = b, !.new.status = "scheduled"]]
             /\ Goto(s, step)
    BY <1>1, <1>3, <1>6, <1>7
  <1> QED
    BY <1>4, <1>5, <1>7

LEMMA RecallVanishedIs ==
    ASSUME NoteInv, NEW s \in Session, RecallVanished(s)
    PROVE  /\ pc[s] = "recall" /\ Others(s) /\ At(s, "commit")
           /\ UNCHANGED <<world, row, born, jobs, lock, counts>> /\ Forth /\ Tells
           /\ \/ ~Vanished(s) /\ Keeps(s)
              \/ Vanished(s) /\ Outcome(s).id # row.id /\ Keeps(s)
              \/ /\ Vanished(s) /\ Outcome(s).id = row.id /\ ses'[s].here = ses[s].here
                 /\ Outcome(s).bot = NoBot \/ bots'[Outcome(s).bot].state \notin Live \/ "provider" \in faults
                 /\ \E new \in Row :
                      /\ Holds(s, ses[s].op, LSeen(s), new)
                      /\ new.id = Outcome(s).id /\ new.bot = Outcome(s).bot /\ new.status = "cancelled"
                      /\ SameTale(new, Outcome(s))
  <1>1. /\ pc[s] = "recall" /\ UNCHANGED <<world, row, born, jobs, lock, counts>>
        /\ Goto(s, "commit") /\ "commit" \in Step
    BY DEF RecallVanished, Step
  <1>2. /\ TypeOK /\ WireOK /\ ses[s] \in Ses /\ LSeen(s) \in Row /\ Outcome(s) \in Row
        /\ row \in Row /\ wire \in Seq(Callback)
    BY Where, LoadedIs DEF NoteInv, TypeOK
  <1>3. ASSUME UNCHANGED <<bots, wire>> PROVE Forth /\ Tells
    BY <1>2, <1>3, StillIs, ToldOn
  <1>4. CASE ~Vanished(s)
    <2>1. UNCHANGED <<ses, bots, wire>>
      BY <1>4 DEF RecallVanished
    <2> QED
      BY <1>1, <1>2, <1>3, <1>4, <2>1, GotoIs
  <1>5. CASE Vanished(s)
    <2>1. /\ ses' = [ses EXCEPT ![s] = Cancelled(s)]
          /\ IF BotOf(s) = NoBot THEN UNCHANGED <<bots, wire>>
             ELSE Recall(BotOf(s)) \/ RecallFails
      BY <1>5 DEF RecallVanished
    <2>2. PICK c \in Bot \cup {NoBot} : c = BotOf(s) /\ (Outcome(s).id = row.id => c = Outcome(s).bot)
      <3>1. BotOf(s) = IF Outcome(s).id = row.id THEN Outcome(s).bot ELSE row.bot
        BY LoadedIs DEF BotOf
      <3>2. Outcome(s).bot \in Bot \cup {NoBot} /\ row.bot \in Bot \cup {NoBot}
        BY <1>2 DEF Row
      <3> QED
        BY <3>1, <3>2
    <2>3. Forth /\ Tells /\ (c = NoBot \/ bots'[c].state \notin Live \/ "provider" \in faults)
      <3>1. CASE UNCHANGED <<bots, wire>> /\ (c = NoBot \/ "provider" \in faults)
        BY <1>3, <3>1
      <3>2. CASE c \in Bot /\ Recall(c)
        BY <1>2, <3>2, RecallIs
      <3>3. c = NoBot \/ c \in Bot
        BY <2>2
      <3>4. CASE c = NoBot
        BY <2>1, <2>2, <3>1, <3>4
      <3>5. CASE c # NoBot
        BY <2>1, <2>2, <3>1, <3>2, <3>3, <3>5 DEF RecallFails
      <3> QED
        BY <3>4, <3>5
    <2>4. CASE Outcome(s).id # row.id
      <3>1. Cancelled(s) = ses[s]
        <4>1. Loaded(s).new.id # row.id
          BY <2>4, LoadedIs
        <4> QED
          BY <4>1 DEF Cancelled
      <3>2. ses' = ses
        BY <1>2, <2>1, <3>1 DEF TypeOK
      <3> QED
        BY <1>1, <1>2, <1>5, <2>3, <2>4, <3>2, GotoIs
    <2>5. CASE Outcome(s).id = row.id
      <3>1. PICK new : new = [Outcome(s) EXCEPT !.status = "cancelled"]
        OBVIOUS
      <3>2. /\ new \in Row /\ new.id = Outcome(s).id /\ new.bot = Outcome(s).bot /\ new.status = "cancelled"
            /\ SameTale(new, Outcome(s))
        BY <1>2, <3>1 DEF Row, Status, SameTale
      <3>3. ASSUME NEW d \in Ses, NEW x \in Row, NEW y \in Row, NEW l, l = [d EXCEPT !.seen = x, !.new = y],
                   NEW n, n = [y EXCEPT !.status = "cancelled"]
            PROVE  [l EXCEPT !.new.status = "cancelled"] = [d EXCEPT !.seen = x, !.new = n]
        BY <3>3 DEF Ses
      <3>4. Loaded(s) = [ses[s] EXCEPT !.seen = LSeen(s), !.new = Outcome(s)] /\ Loaded(s).new = Outcome(s)
        BY LoadedIs
      <3>5. Cancelled(s) = [Loaded(s) EXCEPT !.new.status = "cancelled"]
        BY <2>5, <3>4 DEF Cancelled
      <3>6. ses' = [ses EXCEPT ![s] = [ses[s] EXCEPT !.seen = LSeen(s), !.new = new]]
        BY <1>2, <2>1, <3>1, <3>3, <3>4, <3>5
      <3>7. /\ Others(s) /\ At(s, "commit") /\ Holds(s, ses[s].op, LSeen(s), new)
            /\ ses'[s].here = ses[s].here
        BY <1>1, <1>2, <3>2, <3>6, DraftIs
      <3> QED
        BY <1>1, <1>5, <2>2, <2>3, <2>5, <3>2, <3>7
    <2> QED
      BY <2>4, <2>5
  <1> QED
    BY <1>4, <1>5

LEMMA QueueJoinIs ==
    ASSUME NoteInv, NEW s \in Session, QueueJoin(s)
    PROVE  /\ pc[s] = "queue" /\ Others(s) /\ At(s, "commit") /\ Keeps(s)
           /\ UNCHANGED <<world, row, born, bots, wire, lock, counts>>
           /\ JobsPlus("join", ses[s].new.id)
  <1>1. /\ pc[s] = "queue" /\ Queue("join", ses[s].new.id, 0) /\ Goto(s, "commit") /\ ses' = ses
        /\ UNCHANGED <<world, row, born, bots, wire, lock, counts>>
    BY DEF QueueJoin
  <1>2. TypeOK /\ "commit" \in Step /\ 0 \in 0 .. Retries
    BY DEF NoteInv, Step
  <1>3. ses[s].new.id \in 1 .. MaxRow
    <2>1. ses[s].op = "enable" /\ ses[s].new \in Row
      BY <1>1, Where
    <2>2. ses[s].new.id # 0
      BY <2>1 DEF NoteInv, Drafted
    <2>3. ses[s].new.id \in 0 .. MaxRow
      BY <2>1 DEF Row
    <2> QED
      BY <2>2, <2>3
  <1> QED
    BY <1>1, <1>2, <1>3, QueueIs, GotoIs

LEMMA StopBotIs ==
    ASSUME NoteInv, NEW s \in Session, StopBot(s)
    PROVE  /\ pc[s] = "stop" /\ Others(s) /\ UNCHANGED <<world, row, born, jobs, counts>> /\ Forth /\ Tells
           /\ \/ At(s, "commit") /\ Keeps(s) /\ lock' = lock /\ bots'[ses[s].seen.bot].state \notin Live
              \/ "provider" \in faults /\ Ended(s)
  <1>1. /\ pc[s] = "stop" /\ UNCHANGED <<world, row, born, jobs, counts>>
        /\ \/ Recall(ses[s].seen.bot) /\ Goto(s, "commit") /\ UNCHANGED <<ses, lock>>
           \/ "provider" \in faults /\ UNCHANGED <<bots, wire>> /\ Return(s)
    BY DEF StopBot, RecallFails
  <1>2. TypeOK /\ WireOK /\ "commit" \in Step
    BY DEF NoteInv, Step
  <1>3. PICK c \in Bot : c = ses[s].seen.bot
    <2>1. ses[s].seen \in Row /\ ses[s].seen.bot # NoBot
      BY <1>1, Where DEF NoteInv, Drafted
    <2> QED
      BY <2>1 DEF Row
  <1>4. CASE Recall(ses[s].seen.bot) /\ Goto(s, "commit") /\ UNCHANGED <<ses, lock>>
    <2>1. Recall(c)
      BY <1>3, <1>4
    <2> QED
      BY <1>1, <1>2, <1>3, <1>4, <2>1, RecallIs, GotoIs
  <1>5. CASE "provider" \in faults /\ UNCHANGED <<bots, wire>> /\ Return(s)
    <2>1. Forth /\ Tells
      BY <1>2, <1>5, StillIs, ToldOn DEF TypeOK
    <2> QED
      BY <1>1, <1>2, <1>5, <2>1, ReturnIs
  <1> QED
    BY <1>1, <1>4, <1>5

LEMMA FetchIs ==
    ASSUME NoteInv, NEW s \in Session, Fetch(s)
    PROVE  /\ pc[s] = "fetch" /\ ~Gone(s) /\ Others(s) /\ lock' = s
           /\ UNCHANGED <<world, row, born, bots, wire, jobs, counts>>
           /\ At(s, "commit") \/ At(s, "send")
           /\ \E new \in Row :
                /\ Holds(s, ses[s].op, ses[s].seen, new)
                /\ new.id = ses[s].new.id /\ new.bot = ses[s].new.bot /\ new.timed
                /\ new.recapped = ses[s].new.recapped
                /\ new.status = ses[s].new.status \/ new.status = "processed"
  <1>1. /\ pc[s] = "fetch" /\ ~Gone(s) /\ lock' = s
        /\ UNCHANGED <<world, row, born, bots, wire, jobs, counts>>
        /\ \E rw : /\ rw = [ses[s].new EXCEPT !.timed = TRUE]
                   /\ \/ Draft(s, [rw EXCEPT !.status = "processed"]) /\ Goto(s, "commit")
                      \/ Draft(s, [rw EXCEPT !.text = TRUE]) /\ Goto(s, "commit")
                      \/ Draft(s, [rw EXCEPT !.text = TRUE, !.status = "processed"]) /\ Goto(s, "send")
    BY DEF Fetch
  <1>2. /\ TypeOK /\ ses[s].new \in Row /\ ses[s].seen \in Row
        /\ "commit" \in Step /\ "send" \in Step /\ "processed" \in Status
    BY Where DEF NoteInv, Step, Status
  <1>3. PICK rw : /\ rw = [ses[s].new EXCEPT !.timed = TRUE]
                  /\ \/ Draft(s, [rw EXCEPT !.status = "processed"]) /\ Goto(s, "commit")
                     \/ Draft(s, [rw EXCEPT !.text = TRUE]) /\ Goto(s, "commit")
                     \/ Draft(s, [rw EXCEPT !.text = TRUE, !.status = "processed"]) /\ Goto(s, "send")
    BY <1>1
  <1>4. /\ rw \in Row /\ rw.id = ses[s].new.id /\ rw.bot = ses[s].new.bot /\ rw.timed
        /\ rw.recapped = ses[s].new.recapped /\ rw.status = ses[s].new.status
    BY <1>2, <1>3 DEF Row
  <1>5. PICK new \in Row, step \in {"commit", "send"} :
          /\ Draft(s, new) /\ Goto(s, step)
          /\ \/ new = [rw EXCEPT !.status = "processed"]
             \/ new = [rw EXCEPT !.text = TRUE]
             \/ new = [rw EXCEPT !.text = TRUE, !.status = "processed"]
    <2>1. CASE Draft(s, [rw EXCEPT !.status = "processed"]) /\ Goto(s, "commit")
      <3>1. PICK n : n = [rw EXCEPT !.status = "processed"]
        OBVIOUS
      <3>2. Draft(s, n) /\ Goto(s, "commit")
        BY <2>1, <3>1
      <3>3. n \in Row
        BY <1>2, <1>4, <3>1 DEF Row
      <3> QED
        BY <3>1, <3>2, <3>3
    <2>2. CASE Draft(s, [rw EXCEPT !.text = TRUE]) /\ Goto(s, "commit")
      <3>1. PICK n : n = [rw EXCEPT !.text = TRUE]
        OBVIOUS
      <3>2. Draft(s, n) /\ Goto(s, "commit")
        BY <2>2, <3>1
      <3>3. n \in Row
        BY <1>2, <1>4, <3>1 DEF Row
      <3> QED
        BY <3>1, <3>2, <3>3
    <2>3. CASE Draft(s, [rw EXCEPT !.text = TRUE, !.status = "processed"]) /\ Goto(s, "send")
      <3>1. PICK n : n = [rw EXCEPT !.text = TRUE, !.status = "processed"]
        OBVIOUS
      <3>2. Draft(s, n) /\ Goto(s, "send")
        BY <2>3, <3>1
      <3>3. n \in Row
        BY <1>2, <1>4, <3>1 DEF Row
      <3> QED
        BY <3>1, <3>2, <3>3
    <2> QED
      BY <1>3, <2>1, <2>2, <2>3
  <1>6. /\ new \in Row /\ new.id = rw.id /\ new.bot = rw.bot
        /\ new.recapped = rw.recapped /\ (rw.timed => new.timed)
        /\ new.status = rw.status \/ new.status = "processed"
    <2>1. rw \in Row /\ "processed" \in Status
      BY <1>4 DEF Status
    <2>2. CASE new = [rw EXCEPT !.status = "processed"]
      BY <2>1, <2>2 DEF Row
    <2>3. CASE new = [rw EXCEPT !.text = TRUE]
      BY <2>1, <2>3 DEF Row
    <2>4. CASE new = [rw EXCEPT !.text = TRUE, !.status = "processed"]
      BY <2>1, <2>4 DEF Row
    <2> QED
      BY <1>5, <2>2, <2>3, <2>4
  <1>7. Others(s) /\ At(s, step) /\ Holds(s, ses[s].op, ses[s].seen, new)
    BY <1>2, <1>5, <1>6, DraftIs DEF Draft
  <1> QED
    BY <1>1, <1>4, <1>5, <1>6, <1>7

\* A run that gave up marks the row, if it is there.
Gives(s) ==
    \/ /\ row.id = ses[s].seen.id /\ At(s, "commit") /\ lock' = lock
       /\ \E new \in Row :
            /\ Holds(s, "process", row, new)
            /\ new.id = row.id /\ new.bot = row.bot /\ new.status = "failed" /\ SameTale(new, row)
    \/ row.id # ses[s].seen.id /\ Ended(s)

LEMMA FailIs ==
    ASSUME TypeOK, NEW s \in Session, Fail(s)
    PROVE  Others(s) /\ Gives(s)
  <1>1. "process" \in Op /\ "commit" \in Step /\ row \in Row /\ "failed" \in Status
    BY DEF Op, Step, TypeOK, Status
  <1>2. CASE row.id = ses[s].seen.id
    <2>1. PICK n : n = [row EXCEPT !.status = "failed"]
      OBVIOUS
    <2>2. /\ n \in Row /\ n.id = row.id /\ n.bot = row.bot /\ n.status = "failed" /\ SameTale(n, row)
      BY <1>1, <2>1, StatusIs DEF SameTale
    <2>3. Start(s, "process", row, n, "commit") /\ lock' = lock
      BY <1>2, <2>1 DEF Fail
    <2>4. Others(s) /\ At(s, "commit") /\ Holds(s, "process", row, n)
      BY <1>1, <2>2, <2>3, StartIs
    <2> QED
      BY <1>2, <2>2, <2>3, <2>4 DEF Gives
  <1>3. CASE row.id # ses[s].seen.id
    <2>1. Return(s)
      BY <1>3 DEF Fail
    <2> QED
      BY <1>3, <2>1, ReturnIs DEF Gives
  <1> QED
    BY <1>2, <1>3

LEMMA NotRecordedIs ==
    ASSUME TypeOK, NEW s \in Session, NotRecorded(s)
    PROVE  /\ pc[s] = "fetch" /\ UNCHANGED <<world, row, born, bots, wire, jobs, counts>>
           /\ Others(s) /\ Gives(s)
  BY FailIs DEF NotRecorded

LEMMA FetchFailsIs ==
    ASSUME NoteInv, NEW s \in Session, FetchFails(s)
    PROVE  /\ pc[s] = "fetch" /\ "provider" \in faults /\ Others(s)
           /\ UNCHANGED <<world, row, born, bots, wire, counts>>
           /\ \/ JobsPlus("process", ses[s].seen.id) /\ Ended(s)
              \/ UNCHANGED jobs /\ Gives(s)
  <1>1. /\ pc[s] = "fetch" /\ "provider" \in faults
        /\ UNCHANGED <<world, row, born, bots, wire, counts>>
        /\ \/ /\ ses[s].tries < Retries
              /\ Queue("process", ses[s].seen.id, ses[s].tries + 1) /\ Return(s)
           \/ Fail(s) /\ UNCHANGED jobs
    BY DEF FetchFails
  <1>2. TypeOK
    BY DEF NoteInv
  <1>3. CASE Fail(s) /\ UNCHANGED jobs
    BY <1>1, <1>2, <1>3, FailIs
  <1>4. CASE /\ ses[s].tries < Retries
             /\ Queue("process", ses[s].seen.id, ses[s].tries + 1) /\ Return(s)
    <2>1. ses[s].op = "process" /\ ses[s].seen \in Row /\ ses[s].tries \in 0 .. Retries
      BY <1>1, Where
    <2>2. ses[s].seen.id \in 0 .. MaxRow /\ ses[s].seen.id # 0
      BY <2>1 DEF NoteInv, Drafted, Row
    <2>3. PICK i \in 1 .. MaxRow, k \in 0 .. Retries : i = ses[s].seen.id /\ k = ses[s].tries + 1
      BY <1>4, <2>1, <2>2
    <2>4. JobsPlus("process", i)
      BY <1>2, <1>4, <2>3, QueueIs
    <2> QED
      BY <1>1, <1>2, <1>4, <2>3, <2>4, ReturnIs
  <1> QED
    BY <1>1, <1>3, <1>4

LEMMA SendRecapIs ==
    ASSUME NoteInv, NEW s \in Session, SendRecap(s)
    PROVE  /\ pc[s] = "send" /\ Others(s) /\ At(s, "commit")
           /\ UNCHANGED <<world, row, born, bots, wire, jobs, lock, turn, metered, spared>>
           /\ \/ mailed' = mailed /\ Keeps(s)
              \/ /\ mailed' = [mailed EXCEPT ![ses[s].seen.id] = @ + 1]
                 /\ \E new \in Row :
                      /\ Holds(s, ses[s].op, ses[s].seen, new)
                      /\ new.id = ses[s].new.id /\ new.bot = ses[s].new.bot
                      /\ new.timed = ses[s].new.timed /\ new.recapped = TRUE /\ new.status = "delivered"
  <1>1. /\ pc[s] = "send" /\ Goto(s, "commit")
        /\ UNCHANGED <<world, row, born, bots, wire, jobs, lock, turn, metered, spared>>
        /\ \/ /\ mailed' = [mailed EXCEPT ![ses[s].seen.id] = @ + 1]
              /\ Draft(s, [ses[s].new EXCEPT !.recapped = TRUE, !.status = "delivered"])
           \/ UNCHANGED <<mailed, ses>>
    BY DEF SendRecap
  <1>2. TypeOK /\ ses[s].new \in Row /\ ses[s].seen \in Row /\ "commit" \in Step /\ "delivered" \in Status
    BY Where DEF NoteInv, Step, Status
  <1>3. CASE UNCHANGED <<mailed, ses>>
    BY <1>1, <1>2, <1>3, GotoIs
  <1>4. CASE /\ mailed' = [mailed EXCEPT ![ses[s].seen.id] = @ + 1]
             /\ Draft(s, [ses[s].new EXCEPT !.recapped = TRUE, !.status = "delivered"])
    <2>1. PICK new : new = [ses[s].new EXCEPT !.recapped = TRUE, !.status = "delivered"]
      OBVIOUS
    <2>2. /\ new \in Row /\ new.id = ses[s].new.id /\ new.bot = ses[s].new.bot
          /\ new.timed = ses[s].new.timed /\ new.recapped = TRUE /\ new.status = "delivered"
      BY <1>2, <2>1 DEF Row
    <2>3. Others(s) /\ At(s, "commit") /\ Holds(s, ses[s].op, ses[s].seen, new)
      BY <1>1, <1>2, <1>4, <2>1, <2>2, DraftIs DEF Draft
    <2> QED
      BY <1>1, <1>4, <2>2, <2>3
  <1> QED
    BY <1>1, <1>3, <1>4

LEMMA CommitIs ==
    ASSUME NoteInv, NEW s \in Session, Commit(s)
    PROVE  /\ pc[s] = "commit" /\ Others(s) /\ Ended(s)
           /\ UNCHANGED <<world, born, bots, wire, jobs, turn, mailed>>
           /\ spared' = IF Spares(s) THEN spared \cup ({row.bot} \ {NoBot}) ELSE spared
           /\ row' = IF ~Commits(s) THEN row
                     ELSE IF ses[s].op = "delete" THEN NoRow
                     ELSE Visible(s)
           /\ metered' = IF Commits(s) /\ ses[s].new.timed /\ ~ses[s].seen.timed
                         THEN [metered EXCEPT ![row.id] = @ + 1] ELSE metered
  BY ReturnIs DEF Commit, NoteInv, Meter

LEMMA StopsIs ==
    ASSUME TypeOK, NEW s \in Session, Lost(s) \/ Crash(s)
    PROVE  /\ Others(s) /\ Ended(s) /\ UNCHANGED <<world, row, born, bots, wire, jobs, counts>>
           /\ "crash" \in faults \/ (pc[s] \in {"fetch", "flush"} /\ Gone(s))
           /\ pc[s] # "idle"
  BY ReturnIs DEF Lost, Crash

-----------------------------------------------------------------------------
(* The types, and what each session holds *)

\* What a step of a session must bring about for NoteInv to hold on.
LEMMA InvOf ==
    ASSUME NoteInv, NEW s \in Session, Others(s),
           UNCHANGED world, row' \in Row, RowOK', born' \in 0 .. MaxRow, born' >= born,
           Forth \/ (\E b \in Bot, id \in 1 .. born : Booked(b, id)),
           Tells, jobs' \in Seq(Job), pc' \in [Session -> Step], ses' \in [Session -> Ses],
           lock' \in {lock, s, NoSession}, turn' \in 0 .. MaxTurn,
           mailed' \in [1 .. MaxRow -> Nat], metered' \in [1 .. MaxRow -> Nat], spared' \subseteq Bot,
           Drafted(s)'
    PROVE  NoteInv'
  <1>1. TypeOK'
    BY DEF NoteInv, TypeOK, world, Tells, Forth, Booked
  <1>2. ASSUME NEW t \in Session \ {s} PROVE Drafted(t)'
    <2>1. Drafted(t) /\ pc'[t] = pc[t] /\ ses'[t] = ses[t]
      BY DEF NoteInv, Others
    <2>2. lock' = t => lock = t
      OBVIOUS
    <2>3. ses[t].seen.id \in Nat /\ ses[t].new.id \in Nat
      BY Where DEF Row
    <2>4. born \in Nat /\ born' \in Nat
      BY DEF NoteInv, TypeOK
    <2>5. /\ ses[t].seen.id <= born => ses[t].seen.id <= born'
          /\ ses[t].new.id <= born => ses[t].new.id <= born'
      <3>1. \A i \in Nat : i <= born => i <= born'
        BY <2>4
      <3> QED
        BY <2>3, <3>1
    <2> QED
      BY <2>1, <2>2, <2>5 DEF Drafted
  <1>3. BotsOK'
    <2>1. born \in Nat /\ born' \in Nat /\ \A b \in Bot : bots[b].meeting \in Nat
      BY DEF NoteInv, TypeOK, Remote
    <2>2. CASE Forth
      <3>1. ASSUME NEW b \in Bot
            PROVE  /\ bots'[b].meeting <= born'
                   /\ bots'[b].state = "absent" <=> bots'[b].meeting = 0
        <4>1. bots[b].meeting <= born /\ (bots[b].state = "absent" <=> bots[b].meeting = 0)
          BY DEF NoteInv, BotsOK
        <4>2. bots'[b].meeting = bots[b].meeting /\ (bots'[b].state = "absent" <=> bots[b].state = "absent")
          BY <2>2 DEF Forth
        <4> QED
          BY <2>1, <4>1, <4>2
      <3> QED
        BY <3>1 DEF BotsOK
    <2>3. CASE \E b \in Bot, id \in 1 .. born : Booked(b, id)
      <3>1. PICK b \in Bot, id \in 1 .. born : Booked(b, id)
        BY <2>3
      <3>2. ASSUME NEW c \in Bot
            PROVE  /\ bots'[c].meeting <= born'
                   /\ bots'[c].state = "absent" <=> bots'[c].meeting = 0
        <4>1. bots[c].meeting <= born /\ (bots[c].state = "absent" <=> bots[c].meeting = 0)
          BY DEF NoteInv, BotsOK
        <4>2. CASE c = b
          <5>1. bots'[c].state = "waiting" /\ bots'[c].meeting = id
            BY <3>1, <4>2 DEF Booked
          <5>2. id <= born' /\ id # 0
            BY <2>1
          <5> QED
            BY <5>1, <5>2
        <4>3. CASE c # b
          <5>1. bots'[c] = bots[c]
            BY <3>1, <4>3 DEF Booked
          <5>2. \A i \in Nat : i <= born => i <= born'
            BY <2>1
          <5> QED
            BY <2>1, <4>1, <5>1, <5>2
        <4> QED
          BY <4>2, <4>3
      <3> QED
        BY <3>2 DEF BotsOK
    <2> QED
      BY <2>2, <2>3
  <1>4. WireOK'
    BY DEF Tells
  <1> QED
    BY <1>1, <1>2, <1>3, <1>4 DEF NoteInv

\* An ended session holds nothing.
LEMMA EndedIs ==
    ASSUME NoteInv, NEW s \in Session, Ended(s), born' \in Nat
    PROVE  /\ pc' \in [Session -> Step] /\ ses' \in [Session -> Ses]
           /\ lock' \in {lock, s, NoSession} /\ Drafted(s)'
  <1>1. ses'[s] = NoSes /\ pc'[s] = "idle" /\ lock' # s
    BY DEF Ended, At
  <1>2. Drafted(s)'
    BY <1>1, NoSesIs DEF Drafted, Place
  <1> QED
    BY <1>2 DEF Ended, At, NoteInv, TypeOK

LEMMA Same ==
    ASSUME NoteInv
    PROVE  /\ TypeOK /\ RowOK /\ WireOK /\ row \in Row /\ born \in 0 .. MaxRow /\ born \in Nat
           /\ row.id \in 0 .. MaxRow /\ row.id <= born
           /\ jobs \in Seq(Job) /\ pc \in [Session -> Step] /\ ses \in [Session -> Ses]
           /\ turn \in 0 .. MaxTurn
           /\ mailed \in [1 .. MaxRow -> Nat] /\ metered \in [1 .. MaxRow -> Nat] /\ spared \subseteq Bot
  <1>1. TypeOK /\ RowOK /\ WireOK
    BY DEF NoteInv
  <1>2. /\ row \in Row /\ born \in 0 .. MaxRow
        /\ jobs \in Seq(Job) /\ pc \in [Session -> Step] /\ ses \in [Session -> Ses]
        /\ turn \in 0 .. MaxTurn
        /\ mailed \in [1 .. MaxRow -> Nat] /\ metered \in [1 .. MaxRow -> Nat] /\ spared \subseteq Bot
    BY <1>1 DEF TypeOK
  <1>3. row.id \in 0 .. MaxRow
    BY <1>2 DEF Row
  <1>4. born \in Nat /\ row.id <= born
    BY <1>1, <1>2 DEF RowOK
  <1> QED
    BY <1>1, <1>2, <1>3, <1>4

LEMMA QuietWire ==
    ASSUME NoteInv, UNCHANGED <<bots, wire>> PROVE Forth /\ Tells
  BY StillIs, ToldOn DEF NoteInv, TypeOK

Begins(s) ==
    \/ BeginSweep(s) \/ BeginJoin(s) \/ BeginLink(s) \/ BeginEnable(s) \/ BeginUpload(s)
    \/ BeginCancel(s) \/ BeginDelete(s) \/ BeginCallback(s) \/ BeginProcess(s)

LEMMA BeginsTyped == ASSUME NoteInv, NEW s \in Session, Begins(s) PROVE NoteInv'
  <1> USE DEF At, Holds
  <1>0. /\ TypeOK /\ RowOK /\ WireOK /\ row \in Row /\ born \in 0 .. MaxRow /\ born \in Nat
        /\ row.id \in 0 .. MaxRow /\ row.id <= born /\ Drafted(s)
    BY Same DEF NoteInv
  <1>1. ASSUME UNCHANGED <<world, row, born, bots, wire>>, Others(s), jobs' \in Seq(Job),
               pc' \in [Session -> Step], ses' \in [Session -> Ses], lock' \in {lock, s},
               turn' \in 0 .. MaxTurn, UNCHANGED <<mailed, metered, spared>>, Drafted(s)'
        PROVE  NoteInv'
    <2>1. RowOK' /\ Forth /\ Tells
      BY <1>0, <1>1, QuietWire DEF RowOK
    <2>2. /\ row' \in Row /\ born' \in 0 .. MaxRow /\ born' >= born
          /\ mailed' \in [1 .. MaxRow -> Nat] /\ metered' \in [1 .. MaxRow -> Nat] /\ spared' \subseteq Bot
          /\ lock' \in {lock, s, NoSession}
      BY <1>0, <1>1, Same
    <2> QED
      BY <1>1, <2>1, <2>2, InvOf
  <1>2. ASSUME pc[s] = "idle" PROVE lock # s
    BY <1>0, <1>2 DEF Drafted
  <1>3. CASE BeginSweep(s)
    <2>1. /\ pc[s] = "idle" /\ Others(s)
          /\ UNCHANGED <<world, row, born, bots, wire, jobs, lock, turn, mailed, metered, spared>>
      BY <1>0, <1>3, SweepIs DEF Free, counts
    <2>2. CASE Holds(s, "sweep", NoRow, NoRow) /\ At(s, "book")
      <3>1. Drafted(s)'
        BY <1>0, <1>2, <2>1, <2>2, NoSesIs DEF Drafted, Place
      <3> QED
        BY <1>1, <2>1, <2>2, <3>1, Same
    <2>3. ASSUME NEW new \in Row, Holds(s, "sweep", row, new),
                 \/ At(s, "flush") /\ (Made(new) \/ Restored(new))
                 \/ At(s, "book") /\ new = row /\ row.id # 0
          PROVE  NoteInv'
      <3>1. Drafted(s)'
        BY <1>0, <1>2, <2>1, <2>3 DEF Drafted, Place, RowOK, Made, Restored
      <3> QED
        BY <1>1, <2>1, <2>3, <3>1, Same
    <2> QED
      BY <1>0, <1>3, <2>2, <2>3, SweepIs
  <1>4. CASE BeginJoin(s)
    <2>1. /\ pc[s] = "idle" /\ jobs' \in Seq(Job)
          /\ UNCHANGED <<world, row, born, bots, wire, lock, turn, mailed, metered, spared>>
      BY <1>0, <1>4, JoinIs DEF Free, counts, JobsFrom
    <2>2. CASE UNCHANGED <<pc, ses>>
      <3>1. Others(s) /\ Drafted(s)'
        BY <1>0, <2>1, <2>2 DEF Others, Drafted
      <3> QED
        BY <1>1, <2>1, <2>2, <3>1, Same
    <2>3. CASE /\ row.id # 0 /\ row.bot = NoBot
               /\ Others(s) /\ At(s, "book") /\ Holds(s, "join", row, row)
      <3>1. Drafted(s)'
        BY <1>0, <1>2, <2>1, <2>3 DEF Drafted, Place
      <3> QED
        BY <1>1, <2>1, <2>3, <3>1, Same
    <2> QED
      BY <1>0, <1>4, <2>2, <2>3, JoinIs
  <1>5. CASE BeginLink(s)
    <2>1. PICK new \in Row :
            /\ Others(s) /\ At(s, "queue") /\ Holds(s, "enable", NoRow, new)
            /\ new.id = 1 /\ new.status = "pending"
      BY <1>0, <1>5, LinkIs
    <2>2. /\ UNCHANGED <<world, row, bots, wire, jobs, mailed, metered, spared>>
          /\ born = 0 /\ born' = 1 /\ lock' = s /\ turn' \in 0 .. MaxTurn
      BY <1>0, <1>5, LinkIs
    <2>3. Drafted(s)'
      BY <1>0, <2>1, <2>2, NoSesIs DEF Drafted, Place
    <2>4. RowOK' /\ Forth /\ Tells /\ born' \in 0 .. MaxRow /\ born' >= born
      BY <1>0, <2>2, QuietWire DEF RowOK
    <2> QED
      BY <1>0, <2>1, <2>2, <2>3, <2>4, Same, InvOf
  <1>6. CASE BeginEnable(s)
    <2>1. PICK new \in Row :
            /\ Others(s) /\ At(s, "flush") /\ Holds(s, "enable", row, new) /\ new.status = "pending"
            /\ \/ Made(new)
               \/ Restored(new)
               \/ row.id # 0 /\ new.id = row.id /\ row.status # "cancelled" /\ new.bot = row.bot
      BY <1>0, <1>6, EnableIs
    <2>2. /\ pc[s] = "idle" /\ turn' \in 0 .. MaxTurn
          /\ UNCHANGED <<world, row, born, bots, wire, jobs, lock, mailed, metered, spared>>
      BY <1>0, <1>6, EnableIs DEF Free
    <2>3. Drafted(s)'
      BY <1>0, <1>2, <2>1, <2>2 DEF Drafted, Place, RowOK, Made, Restored
    <2> QED
      BY <1>1, <2>1, <2>2, <2>3, Same
  <1>7. CASE BeginCancel(s)
    <2>1. PICK new \in Row : Holds(s, "cancel", row, new) /\ new.id = row.id
      BY <1>0, <1>7, CancelIs
    <2>2. /\ pc[s] = "idle" /\ turn' \in 0 .. MaxTurn /\ Others(s) /\ row.id # 0
          /\ At(s, IF row.bot = NoBot THEN "commit" ELSE "stop")
          /\ UNCHANGED <<world, row, born, bots, wire, jobs, lock, mailed, metered, spared>>
      BY <1>0, <1>7, CancelIs DEF Free
    <2>3. Drafted(s)'
      BY <1>0, <1>2, <2>1, <2>2 DEF Drafted, Place
    <2> QED
      BY <1>1, <2>1, <2>2, <2>3, Same
  <1>8. CASE BeginDelete(s)
    <2>1. /\ pc[s] = "idle" /\ turn' \in 0 .. MaxTurn /\ Others(s) /\ row.id # 0
          /\ Holds(s, "delete", row, NoRow)
          /\ At(s, "commit") \/ (At(s, "stop") /\ row.bot # NoBot)
          /\ UNCHANGED <<world, row, born, bots, wire, jobs, lock, mailed, metered, spared>>
      BY <1>0, <1>8, DeleteIs DEF Free
    <2>2. Drafted(s)'
      BY <1>0, <1>2, <2>1, NoSesIs DEF Drafted, Place
    <2> QED
      BY <1>1, <2>1, <2>2, Same
  <1>9. CASE BeginCallback(s)
    <2>1. pc[s] = "idle" /\ UNCHANGED <<world, row, born, bots, lock, turn, mailed, metered, spared>> /\ Tells
      BY <1>0, <1>9, CallbackIs DEF Free, counts
    <2>2. RowOK' /\ Forth
      BY <1>0, <2>1, StillIs DEF RowOK
    <2>5. /\ row' \in Row /\ born' \in 0 .. MaxRow /\ born' >= born /\ turn' \in 0 .. MaxTurn
          /\ mailed' \in [1 .. MaxRow -> Nat] /\ metered' \in [1 .. MaxRow -> Nat] /\ spared' \subseteq Bot
          /\ lock' \in {lock, s, NoSession} /\ UNCHANGED world
      BY <1>0, <2>1, Same
    <2>3. CASE UNCHANGED <<pc, ses, jobs>>
      <3>1. Others(s) /\ Drafted(s)'
        BY <1>0, <2>1, <2>3 DEF Others, Drafted
      <3> QED
        <4>1. jobs' \in Seq(Job) /\ pc' \in [Session -> Step] /\ ses' \in [Session -> Ses]
          BY <2>3, Same
        <4> QED
          BY <2>1, <2>2, <2>5, <3>1, <4>1, InvOf
    <2>4. ASSUME NEW new \in Row, row.id # 0, Others(s), At(s, "commit"), Holds(s, "callback", row, new),
                 new.id = row.id, UNCHANGED jobs \/ JobsPlus("process", row.id)
          PROVE  NoteInv'
      <3>1. Drafted(s)'
        BY <1>0, <1>2, <2>1, <2>4 DEF Drafted, Place
      <3>2. jobs' \in Seq(Job)
        BY <1>0, <2>4 DEF JobsPlus, TypeOK
      <3> QED
        BY <2>1, <2>2, <2>4, <2>5, <3>1, <3>2, InvOf
    <2> QED
      BY <1>0, <1>9, <2>3, <2>4, CallbackIs
  <1>10. CASE BeginProcess(s)
    <2>1. /\ pc[s] = "idle" /\ jobs' \in Seq(Job)
          /\ UNCHANGED <<world, row, born, bots, wire, lock, turn, mailed, metered, spared>>
      BY <1>0, <1>10, ProcessIs DEF Free, counts, JobsFrom
    <2>2. CASE UNCHANGED <<pc, ses>>
      <3>1. Others(s) /\ Drafted(s)'
        BY <1>0, <2>1, <2>2 DEF Others, Drafted
      <3> QED
        BY <1>1, <2>1, <2>2, <3>1, Same
    <2>3. CASE row.id # 0 /\ Others(s) /\ At(s, "fetch") /\ Holds(s, "process", row, row)
      <3>1. Drafted(s)'
        BY <1>0, <1>2, <2>1, <2>3 DEF Drafted, Place
      <3> QED
        BY <1>1, <2>1, <2>3, <3>1, Same
    <2> QED
      BY <1>0, <1>10, <2>2, <2>3, ProcessIs
  <1>11. CASE BeginUpload(s)
    <2>1. PICK new \in Row :
            /\ Others(s) /\ At(s, "flush") /\ Holds(s, "upload", row, new) /\ new.status = "pending"
            /\ \/ Made(new)
               \/ Restored(new)
               \/ row.id # 0 /\ new.id = row.id /\ new.bot = row.bot
      BY <1>0, <1>11, UploadIs
    <2>2. /\ pc[s] = "idle" /\ turn' \in 0 .. MaxTurn
          /\ UNCHANGED <<world, row, born, bots, wire, jobs, lock, mailed, metered, spared>>
      BY <1>0, <1>11, UploadIs DEF Free
    <2>3. Drafted(s)'
      BY <1>0, <1>2, <2>1, <2>2 DEF Drafted, Place, RowOK, Made, Restored
    <2> QED
      BY <1>1, <2>1, <2>2, <2>3, Same
  <1> QED
    BY <1>3, <1>4, <1>5, <1>6, <1>7, <1>8, <1>9, <1>10, <1>11 DEF Begins

Moves(s) ==
    \/ Flush(s) \/ BookBot(s) \/ RecallVanished(s) \/ QueueJoin(s) \/ StopBot(s)
    \/ Fetch(s) \/ NotRecorded(s) \/ FetchFails(s) \/ SendRecap(s)

LEMMA GivesTyped ==
    ASSUME NoteInv, NEW s \in Session, pc[s] = "fetch", Gives(s), born' = born
    PROVE  /\ pc' \in [Session -> Step] /\ ses' \in [Session -> Ses]
           /\ lock' \in {lock, s, NoSession} /\ Drafted(s)'
  <1>1. CASE row.id # ses[s].seen.id /\ Ended(s)
    BY <1>1, Same, EndedIs
  <1>2. ASSUME row.id = ses[s].seen.id, At(s, "commit"), lock' = lock,
               NEW new \in Row, Holds(s, "process", row, new), new.id = row.id
        PROVE  /\ pc' \in [Session -> Step] /\ ses' \in [Session -> Ses]
               /\ lock' \in {lock, s, NoSession} /\ Drafted(s)'
    <2>1. ses[s].op = "process" /\ ses[s].seen.id # 0
      BY Where DEF NoteInv, Drafted
    <2>2. Drafted(s)'
      BY <1>2, <2>1, Same DEF Drafted, Place, At, Holds
    <2> QED
      BY <1>2, <2>2 DEF At, Holds
  <1> QED
    BY <1>1, <1>2 DEF Gives

LEMMA MovesTyped == ASSUME NoteInv, NEW s \in Session, Moves(s) PROVE NoteInv'
  <1> USE DEF At, Holds, Keeps
  <1>0. /\ TypeOK /\ RowOK /\ WireOK /\ row \in Row /\ born \in 0 .. MaxRow /\ born \in Nat
        /\ row.id \in 0 .. MaxRow /\ row.id <= born /\ Drafted(s)
        /\ ses[s].seen \in Row /\ ses[s].new \in Row
    BY Same, Where DEF NoteInv
  <1>1. ASSUME UNCHANGED <<world, row, born>>, Others(s), jobs' \in Seq(Job),
               Forth \/ (\E b \in Bot, id \in 1 .. born : Booked(b, id)), Tells,
               pc' \in [Session -> Step], ses' \in [Session -> Ses],
               lock' \in {lock, s, NoSession}, turn' = turn,
               mailed' \in [1 .. MaxRow -> Nat], UNCHANGED <<metered, spared>>, Drafted(s)'
        PROVE  NoteInv'
    <2>1. RowOK' /\ row' \in Row /\ born' \in 0 .. MaxRow /\ born' >= born
          /\ turn' \in 0 .. MaxTurn /\ metered' \in [1 .. MaxRow -> Nat] /\ spared' \subseteq Bot
      BY <1>0, <1>1, Same DEF RowOK
    <2> QED
      BY <1>1, <2>1, InvOf
  <1>2. CASE Flush(s)
    <2>1. /\ pc[s] = "flush" /\ Others(s)
          /\ UNCHANGED <<world, row, bots, wire, jobs, turn, mailed, metered, spared>>
          /\ At(s, After(ses[s].op))
      BY <1>2, FlushIs DEF counts
    <2>2. RowOK' /\ Forth /\ Tells
      <3>1. born' = born \/ born' = born + 1
        BY <1>2, FlushIs
      <3> QED
        BY <1>0, <2>1, <3>1, QuietWire DEF RowOK
    <2>3. /\ row' \in Row /\ turn' \in 0 .. MaxTurn /\ jobs' \in Seq(Job)
          /\ mailed' \in [1 .. MaxRow -> Nat] /\ metered' \in [1 .. MaxRow -> Nat] /\ spared' \subseteq Bot
          /\ UNCHANGED world
      BY <1>0, <2>1, Same
    <2>4. ses[s].op \in {"sweep", "enable", "upload"} /\ ses[s].new.id # 0
      BY <2>1, Where DEF NoteInv, Drafted
    <2>5. ASSUME NEW new \in Row, ses[s].seen.id = 0, born' = born + 1, born' \in 0 .. MaxRow, lock' = s,
                 Holds(s, ses[s].op, ses[s].seen, new), new.id = born + 1
          PROVE  NoteInv'
      <3>1. Drafted(s)'
        BY <1>0, <2>1, <2>4, <2>5 DEF Drafted, Place, After
      <3>2. born' >= born
        BY <1>0, <2>5
      <3> QED
        BY <2>1, <2>2, <2>3, <2>5, <3>1, <3>2, InvOf
    <2>6. CASE ses[s].seen.id # 0 /\ born' = born /\ Keeps(s) /\ lock' \in {s, lock}
      <3>1. Drafted(s)'
        BY <1>0, <2>1, <2>4, <2>6 DEF Drafted, Place, After
      <3>2. UNCHANGED <<row, born, metered, spared, turn>>
        BY <2>1, <2>6
      <3> QED
        BY <1>1, <2>1, <2>2, <2>3, <2>6, <3>1, <3>2
    <2> QED
      BY <1>2, <2>5, <2>6, FlushIs
  <1>3. CASE BookBot(s)
    <2>1. /\ pc[s] = "book" /\ Others(s)
          /\ UNCHANGED <<world, row, born, wire, jobs, lock, turn, mailed, metered, spared>>
          /\ At(s, IF ses[s].op = "sweep" THEN "recall" ELSE "commit")
      BY <1>3, BookBotIs DEF counts
    <2>2. ses[s].op \in {"sweep", "join"}
      BY <2>1, Where
    <2>3. CASE Keeps(s) /\ UNCHANGED bots
      <3>1. Drafted(s)'
        BY <1>0, <2>1, <2>2, <2>3 DEF Drafted, Place
      <3> QED
        BY <1>1, <2>1, <2>3, <3>1, Same, QuietWire
    <2>4. ASSUME NEW b \in Bot, NEW new \in Row, Booked(b, Outcome(s).id), Holds(s, ses[s].op, LSeen(s), new),
                 new.id = Outcome(s).id, new.id # 0
          PROVE  NoteInv'
      <3>1. LSeen(s) \in Row /\ Outcome(s) \in Row
        BY LoadedIs
      <3>2. Outcome(s).id <= born /\ LSeen(s).id <= born /\ (LSeen(s).id = 0 => LSeen(s) = NoRow)
        BY <1>0, <2>1 DEF Drafted, Outcome, LSeen, RowOK
      <3>3. /\ LSeen(s).id # 0 => new.id = LSeen(s).id
            /\ ses[s].op = "join" => LSeen(s).id # 0
        BY <1>0, <2>2, <2>4 DEF Drafted, Outcome, LSeen
      <3>4. Drafted(s)'
        BY <1>0, <2>1, <2>2, <2>4, <3>2, <3>3 DEF Drafted, Place
      <3>5. Outcome(s).id \in 1 .. born
        BY <1>0, <2>4, <3>1, <3>2 DEF Row
      <3>6. \E c \in Bot, id \in 1 .. born : Booked(c, id)
        BY <2>4, <3>5
      <3>7. Tells
        <4>1. \E c \in Bot, id \in 0 .. MaxRow : Booked(c, id)
          BY <1>0, <2>4, <3>5
        <4>2. wire \in Seq(Callback) /\ wire' = wire
          BY <1>0, <2>1 DEF TypeOK
        <4> QED
          BY <1>0, <4>1, <4>2, ToldOn
      <3> QED
        BY <1>1, <2>1, <2>4, <3>4, <3>6, <3>7, Same
    <2> QED
      BY <1>3, <2>3, <2>4, BookBotIs
  <1>4. CASE RecallVanished(s)
    <2>1. /\ pc[s] = "recall" /\ Others(s) /\ At(s, "commit") /\ Forth /\ Tells
          /\ UNCHANGED <<world, row, born, jobs, lock, turn, mailed, metered, spared>>
      BY <1>4, RecallVanishedIs DEF counts
    <2>2. ses[s].op = "sweep"
      BY <2>1, Where
    <2>3. CASE Keeps(s)
      <3>1. Drafted(s)'
        BY <1>0, <2>1, <2>2, <2>3 DEF Drafted, Place
      <3> QED
        BY <1>1, <2>1, <2>3, <3>1, Same
    <2>4. ASSUME NEW new \in Row, Vanished(s), Outcome(s).id = row.id,
                 Holds(s, ses[s].op, LSeen(s), new), new.id = Outcome(s).id
          PROVE  NoteInv'
      <3>1. LSeen(s).id <= born /\ (LSeen(s).id = 0 => LSeen(s) = NoRow)
        BY <1>0, <2>1 DEF Drafted, LSeen, RowOK
      <3>2. new.id # 0 /\ (LSeen(s).id # 0 => new.id = LSeen(s).id)
        BY <1>0, <2>2, <2>4 DEF Drafted, Outcome, LSeen, Vanished
      <3>3. Drafted(s)'
        BY <1>0, <2>1, <2>2, <2>4, <3>1, <3>2 DEF Drafted, Place
      <3> QED
        BY <1>1, <2>1, <2>4, <3>3, Same
    <2> QED
      BY <1>4, <2>3, <2>4, RecallVanishedIs
  <1>5. CASE QueueJoin(s)
    <2>1. /\ pc[s] = "queue" /\ Others(s) /\ At(s, "commit") /\ Keeps(s) /\ jobs' \in Seq(Job)
          /\ UNCHANGED <<world, row, born, bots, wire, lock, turn, mailed, metered, spared>>
      BY <1>5, QueueJoinIs DEF counts, JobsPlus
    <2>2. ses[s].op = "enable"
      BY <2>1, Where
    <2>3. Drafted(s)'
      BY <1>0, <2>1, <2>2 DEF Drafted, Place
    <2> QED
      BY <1>1, <2>1, <2>3, Same, QuietWire
  <1>6. CASE StopBot(s)
    <2>1. /\ pc[s] = "stop" /\ Others(s) /\ Forth /\ Tells
          /\ UNCHANGED <<world, row, born, jobs, turn, mailed, metered, spared>>
          /\ (At(s, "commit") /\ Keeps(s) /\ lock' = lock) \/ Ended(s)
      BY <1>6, StopBotIs DEF counts
    <2>2. ses[s].op \in {"cancel", "delete"}
      BY <2>1, Where
    <2>3. CASE Ended(s)
      <3>1. born' \in Nat
        BY <1>0, <2>1
      <3> QED
        BY <1>1, <2>1, <2>3, <3>1, Same, EndedIs
    <2>4. CASE At(s, "commit") /\ Keeps(s) /\ lock' = lock
      <3>1. Drafted(s)'
        BY <1>0, <2>1, <2>2, <2>4 DEF Drafted, Place
      <3> QED
        BY <1>1, <2>1, <2>4, <3>1, Same
    <2> QED
      BY <2>1, <2>3, <2>4
  <1>7. CASE Fetch(s)
    <2>1. /\ pc[s] = "fetch" /\ Others(s) /\ lock' = s
          /\ UNCHANGED <<world, row, born, bots, wire, jobs, turn, mailed, metered, spared>>
          /\ At(s, "commit") \/ At(s, "send")
      BY <1>7, FetchIs DEF counts
    <2>2. PICK new \in Row : Holds(s, ses[s].op, ses[s].seen, new) /\ new.id = ses[s].new.id
      BY <1>7, FetchIs
    <2>3. ses[s].op = "process"
      BY <2>1, Where
    <2>4. Drafted(s)'
      BY <1>0, <2>1, <2>2, <2>3 DEF Drafted, Place
    <2> QED
      BY <1>1, <2>1, <2>2, <2>4, Same, QuietWire
  <1>8. CASE NotRecorded(s)
    <2>1. /\ pc[s] = "fetch" /\ Others(s) /\ Gives(s)
          /\ UNCHANGED <<world, row, born, bots, wire, jobs, turn, mailed, metered, spared>>
      BY <1>0, <1>8, NotRecordedIs DEF counts
    <2>2. /\ pc' \in [Session -> Step] /\ ses' \in [Session -> Ses]
          /\ lock' \in {lock, s, NoSession} /\ Drafted(s)'
      BY <2>1, GivesTyped
    <2> QED
      BY <1>1, <2>1, <2>2, Same, QuietWire
  <1>9. CASE FetchFails(s)
    <2>1. /\ pc[s] = "fetch" /\ Others(s) /\ jobs' \in Seq(Job) /\ (Gives(s) \/ Ended(s))
          /\ UNCHANGED <<world, row, born, bots, wire, turn, mailed, metered, spared>>
      BY <1>9, FetchFailsIs, Same DEF counts, JobsPlus
    <2>2. /\ pc' \in [Session -> Step] /\ ses' \in [Session -> Ses]
          /\ lock' \in {lock, s, NoSession} /\ Drafted(s)'
      <3>1. born' \in Nat
        BY <1>0, <2>1
      <3> QED
        BY <2>1, <3>1, GivesTyped, EndedIs
    <2> QED
      BY <1>1, <2>1, <2>2, Same, QuietWire
  <1>10. CASE SendRecap(s)
    <2>1. /\ pc[s] = "send" /\ Others(s) /\ At(s, "commit")
          /\ UNCHANGED <<world, row, born, bots, wire, jobs, lock, turn, metered, spared>>
      BY <1>10, SendRecapIs
    <2>2. ses[s].op = "process"
      BY <2>1, Where
    <2>3. mailed' \in [1 .. MaxRow -> Nat]
      <3>1. mailed' = mailed \/ mailed' = [mailed EXCEPT ![ses[s].seen.id] = @ + 1]
        BY <1>10, SendRecapIs
      <3> QED
        BY <3>1, Same
    <2>4. /\ UNCHANGED <<world, row, born, turn, metered, spared>> /\ jobs' \in Seq(Job)
          /\ pc' \in [Session -> Step] /\ lock' \in {lock, s, NoSession} /\ Forth /\ Tells
      BY <2>1, Same, QuietWire
    <2>5. CASE Keeps(s)
      <3>1. Drafted(s)'
        BY <1>0, <2>1, <2>2, <2>5 DEF Drafted, Place
      <3> QED
        BY <1>1, <2>1, <2>3, <2>4, <2>5, <3>1
    <2>6. ASSUME NEW new \in Row, Holds(s, ses[s].op, ses[s].seen, new), new.id = ses[s].new.id
          PROVE  NoteInv'
      <3>1. Drafted(s)'
        BY <1>0, <2>1, <2>2, <2>6 DEF Drafted, Place
      <3>2. ses' \in [Session -> Ses]
        BY <2>6
      <3> QED
        BY <1>1, <2>1, <2>3, <2>4, <3>1, <3>2
    <2>7. \/ Keeps(s)
          \/ \E new \in Row : Holds(s, ses[s].op, ses[s].seen, new) /\ new.id = ses[s].new.id
      <3> HIDE DEF At, Holds, Keeps
      <3> QED
        BY <1>10, SendRecapIs
    <2> QED
      BY <2>5, <2>6, <2>7
  <1> QED
    BY <1>2, <1>3, <1>4, <1>5, <1>6, <1>7, <1>8, <1>9, <1>10 DEF Moves

\* What a commit makes of the row.
LEMMA CommitRow ==
    ASSUME NoteInv, NEW s \in Session, Commit(s)
    PROVE  /\ row' \in Row /\ RowOK'
           /\ \/ row' = row
              \/ ses[s].op = "delete" /\ row' = NoRow
              \/ Commits(s) /\ ses[s].op # "delete" /\ row' = Visible(s)
  <1>1. /\ row' = row \/ (ses[s].op = "delete" /\ row' = NoRow)
           \/ (Commits(s) /\ ses[s].op # "delete" /\ row' = Visible(s))
        /\ pc[s] = "commit" /\ born' = born
    BY CommitIs
  <1>2. RowOK /\ row \in Row /\ born \in Nat /\ Drafted(s) /\ ses[s].seen \in Row /\ ses[s].new \in Row
    BY Same, Where DEF NoteInv
  <1>3. CASE row' = row
    BY <1>1, <1>2, <1>3 DEF RowOK
  <1>4. CASE ses[s].op = "delete" /\ row' = NoRow
    BY <1>1, <1>2, <1>4, NoSesIs DEF RowOK
  <1>5. CASE Commits(s) /\ ses[s].op # "delete" /\ row' = Visible(s)
    <2>1. Visible(s) \in Row /\ Visible(s).id =
            IF ses[s].seen.id = 0 /\ ses[s].new.id # 0 THEN ses[s].new.id ELSE row.id
      BY <1>5, VisibleIs
    <2>2. Changed(s) /\ ~Gone(s)
      BY <1>5 DEF Commits
    <2>3. Visible(s).id # 0
      <3>1. CASE ses[s].seen.id = 0
        BY <1>2, <2>1, <2>2, <3>1 DEF Drafted, Changed
      <3>2. CASE ses[s].seen.id # 0
        BY <2>1, <2>2, <3>2 DEF Gone
      <3> QED
        BY <3>1, <3>2
    <2>4. Visible(s).id <= born
      BY <1>1, <1>2, <2>1 DEF Drafted, RowOK
    <2> QED
      BY <1>1, <1>5, <2>1, <2>3, <2>4 DEF RowOK
  <1> QED
    BY <1>1, <1>3, <1>4, <1>5

Ends(s) == Lost(s) \/ Commit(s) \/ Crash(s)

LEMMA EndsTyped == ASSUME NoteInv, NEW s \in Session, Ends(s) PROVE NoteInv'
  <1>0. born \in 0 .. MaxRow /\ born \in Nat
    BY Same
  <1>1. /\ Others(s) /\ Ended(s) /\ UNCHANGED <<world, born, bots, wire, jobs, turn, mailed>>
        /\ row' \in Row /\ RowOK' /\ metered' \in [1 .. MaxRow -> Nat] /\ spared' \subseteq Bot
    <2>1. CASE Commit(s)
      <3>1. metered' = metered \/ metered' = [metered EXCEPT ![row.id] = @ + 1]
        BY <2>1, CommitIs
      <3>3. ASSUME NEW f \in [1 .. MaxRow -> Nat], NEW k \in 0 .. MaxRow
            PROVE  [f EXCEPT ![k] = @ + 1] \in [1 .. MaxRow -> Nat]
        <4>1. CASE k \in 1 .. MaxRow
          <5>1. f[k] + 1 \in Nat
            BY <4>1
          <5> QED
            BY <4>1, <5>1
        <4>2. CASE k \notin 1 .. MaxRow
          BY <4>2
        <4> QED
          BY <4>1, <4>2
      <3>2. metered' \in [1 .. MaxRow -> Nat]
        <4>1. row.id \in 0 .. MaxRow /\ metered \in [1 .. MaxRow -> Nat]
          BY Same
        <4>2. [metered EXCEPT ![row.id] = @ + 1] \in [1 .. MaxRow -> Nat]
          BY <3>3, <4>1, Zenon
        <4> QED
          BY <3>1, <4>1, <4>2
      <3>4. spared' \subseteq Bot
        <4>1. row.bot \in Bot \cup {NoBot} /\ spared \subseteq Bot
          BY Same DEF Row
        <4> QED
          BY <2>1, <4>1, CommitIs
      <3> QED
        BY <2>1, <3>2, <3>4, CommitIs, CommitRow
    <2>2. CASE Lost(s) \/ Crash(s)
      BY <2>2, StopsIs, Same DEF counts, RowOK
    <2> QED
      BY <2>1, <2>2 DEF Ends
  <1>2. /\ Forth /\ Tells /\ born' \in 0 .. MaxRow /\ born' >= born /\ jobs' \in Seq(Job)
        /\ turn' \in 0 .. MaxTurn /\ mailed' \in [1 .. MaxRow -> Nat] /\ UNCHANGED world
    BY <1>0, <1>1, Same, QuietWire
  <1>3. /\ pc' \in [Session -> Step] /\ ses' \in [Session -> Ses]
        /\ lock' \in {lock, s, NoSession} /\ Drafted(s)'
    BY <1>0, <1>1, EndedIs
  <1> QED
    BY <1>1, <1>2, <1>3, InvOf

\* What happens without a session.
Passes ==
    /\ UNCHANGED <<faults, row, born, jobs, pc, ses, lock, turn, mailed, metered, spared>>
    /\ Forth /\ Tells /\ event' \in {"attend", "skip", "gone"} /\ clock' \in 0 .. 3
    /\ clock' >= clock

LEMMA NextIs ==
    ASSUME NoteInv, Next
    PROVE  Passes \/ \E s \in Session : Begins(s) \/ Moves(s) \/ Ends(s)
  <1>0. TypeOK /\ WireOK /\ event \in {"attend", "skip", "gone"} /\ clock \in 0 .. 3
    BY DEF NoteInv, TypeOK
  <1>1. ASSUME NEW b \in Bot, Arrives(b) \/ Records(b) \/ Breaks(b) \/ Leaves(b) \/ Finishes(b)
        PROVE  Passes
    BY <1>0, <1>1, BecomesIs DEF Passes, world, counts
  <1>2. CASE EventChanges \/ Tick
    <2>1. UNCHANGED <<faults, row, born, bots, wire, jobs, pc, ses, lock, turn, mailed, metered, spared>>
      BY <1>2 DEF EventChanges, Tick, counts
    <2>2. event' \in {"attend", "skip", "gone"} /\ clock' \in 0 .. 3 /\ clock' >= clock
      BY <1>0, <1>2 DEF EventChanges, Tick
    <2> QED
      BY <2>1, <2>2, QuietWire DEF Passes
  <1>3. ASSUME NEW s \in Session,
               \/ BeginSweep(s) \/ Flush(s) \/ BookBot(s) \/ RecallVanished(s) \/ BeginJoin(s)
               \/ BeginLink(s) \/ BeginEnable(s) \/ BeginUpload(s) \/ QueueJoin(s)
               \/ BeginCancel(s) \/ BeginDelete(s) \/ StopBot(s)
               \/ BeginCallback(s)
               \/ BeginProcess(s) \/ Fetch(s) \/ Lost(s) \/ NotRecorded(s) \/ FetchFails(s)
               \/ SendRecap(s) \/ Commit(s) \/ Crash(s)
        PROVE  Begins(s) \/ Moves(s) \/ Ends(s)
    BY <1>3 DEF Begins, Moves, Ends
  <1> QED
    BY <1>1, <1>2, <1>3 DEF Next

LEMMA InitTyped == Init => NoteInv
  <1> SUFFICES ASSUME Init PROVE NoteInv
    OBVIOUS
  <1>1. NoRow \in Row /\ NoRow.id = 0 /\ 0 \in 0 .. MaxRow /\ NoSes \in Ses
    BY NoSesIs
  <1>2. TypeOK
    <2>1. faults \subseteq Circumstance /\ event \in {"attend", "skip", "gone"} /\ clock \in 0 .. 3
      BY DEF Init
    <2>2. bots \in [Bot -> Remote]
      <3>1. [state |-> "absent", meeting |-> 0, heard |-> FALSE] \in Remote
        BY <1>1 DEF Remote, BotState
      <3> QED
        BY <3>1 DEF Init
    <2>3. wire \in Seq(Callback) /\ jobs \in Seq(Job)
      BY DEF Init
    <2>4. pc \in [Session -> Step] /\ ses \in [Session -> Ses]
      BY <1>1 DEF Init, Step
    <2>5. turn \in 0 .. MaxTurn /\ mailed \in [1 .. MaxRow -> Nat] /\ metered \in [1 .. MaxRow -> Nat] /\ spared \subseteq Bot
      BY DEF Init
    <2> QED
      BY <1>1, <2>1, <2>2, <2>3, <2>4, <2>5 DEF Init, TypeOK
  <1>3. RowOK /\ BotsOK /\ WireOK
    BY <1>1 DEF Init, RowOK, BotsOK, WireOK
  <1>4. \A s \in Session : Drafted(s)
    BY <1>1, NoSesIs DEF Init, Drafted, Place
  <1> QED
    BY <1>2, <1>3, <1>4 DEF NoteInv

LEMMA StepTyped == NoteInv /\ [Next]_vars => NoteInv'
  <1> SUFFICES ASSUME NoteInv, [Next]_vars PROVE NoteInv'
    OBVIOUS
  <1>1. CASE UNCHANGED vars
    <2>1. TypeOK' /\ RowOK' /\ BotsOK'
      BY <1>1 DEF NoteInv, TypeOK, RowOK, BotsOK, vars
    <2>2. WireOK'
      BY <1>1 DEF NoteInv, WireOK, Told, vars
    <2>3. \A s \in Session : Drafted(s)'
      BY <1>1 DEF NoteInv, Drafted, vars
    <2> QED
      BY <2>1, <2>2, <2>3 DEF NoteInv
  <1>2. CASE Passes
    <2>1. TypeOK'
      BY <1>2 DEF NoteInv, TypeOK, Passes, Forth, Tells
    <2>2. RowOK' /\ WireOK'
      BY <1>2 DEF NoteInv, RowOK, Passes, Tells
    <2>3. BotsOK'
      BY <1>2 DEF NoteInv, BotsOK, Passes, Forth
    <2>4. \A s \in Session : Drafted(s)'
      BY <1>2 DEF NoteInv, Drafted, Passes
    <2> QED
      BY <2>1, <2>2, <2>3, <2>4 DEF NoteInv
  <1>3. ASSUME NEW s \in Session, Begins(s) \/ Moves(s) \/ Ends(s) PROVE NoteInv'
    BY <1>3, BeginsTyped, MovesTyped, EndsTyped
  <1> QED
    BY <1>1, <1>2, <1>3, NextIs

\* The row, the bots at the provider, callbacks, tasks and sessions stay of their
\* kinds.  Beyond the types, no bot is of a meeting that was never made, and a callback
\* on the wire is of a bot that has been called in and was not deleted.
THEOREM NotetakerTypeCorrect == Spec => [](TypeOK /\ RowOK /\ BotsOK /\ WireOK)
  <1>1. NoteInv => TypeOK /\ RowOK /\ BotsOK /\ WireOK
    BY DEF NoteInv
  <1> QED
    BY <1>1, InitTyped, StepTyped, PTL DEF Spec

-----------------------------------------------------------------------------
(* One session at a time *)

LEMMA BeginsIs ==
    ASSUME NoteInv, NEW s \in Session, Begins(s)
    PROVE  /\ Free(s) /\ Others(s) /\ UNCHANGED <<world, row, bots, mailed, metered, spared>>
           /\ born' >= born
  <1>1. TypeOK /\ RowOK /\ WireOK /\ born \in Nat
    BY Same
  <1>2. CASE BeginSweep(s)
    BY <1>1, <1>2, SweepIs DEF counts
  <1>3. CASE BeginJoin(s)
    BY <1>1, <1>3, JoinIs DEF counts, Others
  <1>4. CASE BeginLink(s)
    BY <1>1, <1>4, LinkIs
  <1>5. CASE BeginEnable(s)
    BY <1>1, <1>5, EnableIs
  <1>6. CASE BeginCancel(s)
    BY <1>1, <1>6, CancelIs
  <1>7. CASE BeginDelete(s)
    BY <1>1, <1>7, DeleteIs
  <1>8. CASE BeginCallback(s)
    BY <1>1, <1>8, CallbackIs DEF counts, Others
  <1>9. CASE BeginProcess(s)
    BY <1>1, <1>9, ProcessIs DEF counts, Others
  <1>10. CASE BeginUpload(s)
    BY <1>1, <1>10, UploadIs
  <1> QED
    BY <1>2, <1>3, <1>4, <1>5, <1>6, <1>7, <1>8, <1>9, <1>10 DEF Begins

LEMMA MovesIs ==
    ASSUME NoteInv, NEW s \in Session, Moves(s)
    PROVE  /\ pc[s] # "idle" /\ Others(s) /\ UNCHANGED <<world, row, metered, spared>>
           /\ (born' = born \/ Flush(s)) /\ (mailed' = mailed \/ SendRecap(s))
           /\ lock' \in {lock, s, NoSession}
  <1>1. TypeOK
    BY Same
  <1>2. CASE Flush(s)
    BY <1>2, FlushIs DEF counts
  <1>3. CASE BookBot(s)
    BY <1>3, BookBotIs DEF counts
  <1>4. CASE RecallVanished(s)
    BY <1>4, RecallVanishedIs DEF counts
  <1>5. CASE QueueJoin(s)
    BY <1>5, QueueJoinIs DEF counts
  <1>6. CASE StopBot(s)
    BY <1>6, StopBotIs DEF counts, Ended
  <1>7. CASE Fetch(s)
    BY <1>7, FetchIs DEF counts
  <1>8. CASE NotRecorded(s)
    BY <1>1, <1>8, NotRecordedIs DEF counts, Gives, Ended
  <1>9. CASE FetchFails(s)
    BY <1>9, FetchFailsIs DEF counts, Gives, Ended
  <1>10. CASE SendRecap(s)
    BY <1>10, SendRecapIs
  <1> QED
    BY <1>2, <1>3, <1>4, <1>5, <1>6, <1>7, <1>8, <1>9, <1>10 DEF Moves

LEMMA EndsIs ==
    ASSUME NoteInv, NEW s \in Session, Ends(s)
    PROVE  /\ pc[s] # "idle" /\ Others(s) /\ Ended(s)
           /\ UNCHANGED <<world, born, bots, wire, jobs, turn, mailed>>
           /\ Commit(s) \/ UNCHANGED <<row, metered, spared>>
  <1>1. CASE Commit(s)
    BY <1>1, CommitIs
  <1>2. CASE Lost(s) \/ Crash(s)
    BY <1>2, Same, StopsIs DEF counts
  <1> QED
    BY <1>1, <1>2 DEF Ends

LEMMA FaultsKept == ASSUME NoteInv, [Next]_vars PROVE faults' = faults
  <1>1. CASE UNCHANGED vars
    BY <1>1 DEF vars
  <1>2. CASE Passes
    BY <1>2 DEF Passes
  <1>3. ASSUME NEW s \in Session, Begins(s) \/ Moves(s) \/ Ends(s) PROVE faults' = faults
    BY <1>3, BeginsIs, MovesIs, EndsIs DEF world
  <1> QED
    BY <1>1, <1>2, <1>3, NextIs

Serial == "overlap" \notin faults

\* Without overlap the others are idle while a session is at work or begins.
LEMMA AloneIs ==
    ASSUME SerialInv, Serial, NEW s \in Session, pc[s] # "idle" \/ Free(s)
    PROVE  \A t \in Session \ {s} : pc[t] = "idle"
  BY DEF SerialInv, Serial, Free, Quiet

LEMMA BeginsProper ==
    ASSUME NoteInv, NEW s \in Session, Begins(s), pc'[s] # "idle"
    PROVE  Proper(s)'
  <1> USE DEF At, Holds
  <1>0. TypeOK /\ RowOK /\ WireOK /\ row \in Row /\ row' = row /\ pc[s] = "idle"
    BY Same, BeginsIs DEF Free
  <1>1. CASE BeginSweep(s)
    <2>1. born' = born
      BY <1>0, <1>1, SweepIs
    <2>2. CASE Holds(s, "sweep", NoRow, NoRow) /\ At(s, "book")
      BY <1>0, <2>2, NoSesIs DEF Proper
    <2>3. ASSUME NEW new \in Row, Holds(s, "sweep", row, new), SameTale(new, row),
                 \/ At(s, "flush") /\ (Made(new) \/ Restored(new))
                 \/ At(s, "book") /\ new = row /\ row.id # 0
          PROVE  Proper(s)'
      BY <1>0, <2>1, <2>3 DEF Proper, SameTale, Made, Restored
    <2> QED
      BY <1>0, <1>1, <2>2, <2>3, SweepIs
  <1>2. CASE BeginJoin(s)
    <2>1. row.id # 0 /\ row.bot = NoBot /\ At(s, "book") /\ Holds(s, "join", row, row)
      BY <1>0, <1>2, JoinIs
    <2> QED
      BY <1>0, <2>1 DEF Proper
  <1>3. CASE BeginLink(s)
    <2>1. PICK new \in Row :
            /\ At(s, "queue") /\ Holds(s, "enable", NoRow, new)
            /\ new.id = 1 /\ new.status = "pending" /\ ~new.timed /\ ~new.recapped
      BY <1>0, <1>3, LinkIs
    <2>2. row = NoRow /\ lock' = s
      <3>1. born = 0 /\ lock' = s
        BY <1>0, <1>3, LinkIs
      <3>2. row.id = 0
        BY <1>0, <3>1, Same
      <3> QED
        BY <1>0, <3>1, <3>2 DEF RowOK
    <2>3. new.timed = FALSE /\ new.recapped = FALSE
      BY <2>1 DEF Row
    <2> QED
      BY <1>0, <2>1, <2>2, <2>3, NoSesIs DEF Proper
  <1>4. CASE BeginEnable(s)
    <2>1. PICK new \in Row :
            /\ At(s, "flush") /\ Holds(s, "enable", row, new)
            /\ SameTale(new, row) /\ new.status = "pending"
            /\ \/ Made(new)
               \/ Restored(new)
               \/ row.id # 0 /\ new.id = row.id /\ row.status # "cancelled" /\ new.bot = row.bot
      BY <1>0, <1>4, EnableIs
    <2>2. born' = born
      BY <1>0, <1>4, EnableIs
    <2> QED
      BY <1>0, <2>1, <2>2 DEF Proper, SameTale, Made, Restored
  <1>5. CASE BeginCancel(s)
    <2>1. PICK new \in Row :
            /\ Holds(s, "cancel", row, new) /\ new = [row EXCEPT !.status = "cancelled"]
            /\ new.id = row.id /\ SameTale(new, row)
      BY <1>0, <1>5, CancelIs
    <2>2. pc'[s] \in {"stop", "commit"} /\ row.id # 0
      BY <1>0, <1>5, CancelIs
    <2> QED
      BY <1>0, <2>1, <2>2 DEF Proper, SameTale
  <1>6. CASE BeginDelete(s)
    <2>1. row.id # 0 /\ Holds(s, "delete", row, NoRow) /\ pc'[s] \in {"stop", "commit"}
      BY <1>0, <1>6, DeleteIs
    <2> QED
      BY <1>0, <2>1 DEF Proper
  <1>7. CASE BeginCallback(s)
    <2>1. PICK new \in Row :
            row.id # 0 /\ At(s, "commit") /\ Holds(s, "callback", row, new) /\ SameTale(new, row)
      BY <1>0, <1>7, CallbackIs
    <2> QED
      BY <1>0, <2>1 DEF Proper, SameTale
  <1>8. CASE BeginProcess(s)
    <2>1. /\ row.id # 0 /\ row.bot # NoBot /\ ~row.recapped
          /\ At(s, "fetch") /\ Holds(s, "process", row, row)
      BY <1>0, <1>8, ProcessIs
    <2> QED
      BY <1>0, <2>1 DEF Proper
  <1>9. CASE BeginUpload(s)
    <2>1. PICK new \in Row :
            /\ At(s, "flush") /\ Holds(s, "upload", row, new)
            /\ SameTale(new, row) /\ new.status = "pending"
            /\ \/ Made(new)
               \/ Restored(new)
               \/ row.id # 0 /\ new.id = row.id /\ new.bot = row.bot
      BY <1>0, <1>9, UploadIs
    <2>2. born' = born
      BY <1>0, <1>9, UploadIs
    <2> QED
      BY <1>0, <2>1, <2>2 DEF Proper, SameTale, Made, Restored
  <1> QED
    BY <1>1, <1>2, <1>3, <1>4, <1>5, <1>6, <1>7, <1>8, <1>9 DEF Begins

\* What a session alone has read is what the row says.
LEMMA LoadedAlone ==
    ASSUME NoteInv, NEW s \in Session, Proper(s), ses[s].op # "delete"
    PROVE  /\ LSeen(s) = row /\ Visible(s) = Outcome(s)
           /\ ses[s].op # "process" => SameTale(Outcome(s), row)
  <1>1. /\ row \in Row /\ RowOK /\ ses[s].seen \in Row /\ ses[s].new \in Row /\ Drafted(s)
    BY Same, Where DEF NoteInv
  <1>2. ses[s].seen = row \/ (ses[s].seen = NoRow /\ ses[s].new = NoRow)
    BY DEF Proper
  <1>3. LSeen(s) = row
    BY <1>2, NoSesIs DEF LSeen
  <1>4. Visible(s) = Outcome(s)
    <2>1. CASE ses[s].seen.id = 0 /\ ses[s].new.id # 0
      BY <2>1, VisibleIs DEF Outcome
    <2>2. CASE ~(ses[s].seen.id = 0 /\ ses[s].new.id # 0)
      <3>1. Visible(s) = Merge(row, ses[s].new, ses[s].seen)
        BY <2>2, VisibleIs
      <3>2. ses[s].new.id = 0 => ses[s].seen = ses[s].new
        BY <1>1, <2>2 DEF Drafted
      <3>3. CASE ses[s].new.id = 0
        BY <1>1, <3>1, <3>2, <3>3, MergeAlone DEF Outcome
      <3>4. CASE ses[s].new.id # 0
        <4>1. ses[s].seen = row
          BY <1>2, <3>4, NoSesIs
        <4> QED
          BY <1>1, <3>1, <3>4, <4>1, MergeAlone DEF Outcome
      <3> QED
        BY <3>3, <3>4
    <2> QED
      BY <2>1, <2>2
  <1>5. ses[s].op # "process" => SameTale(Outcome(s), row)
    BY <1>1, <1>2, NoSesIs DEF Proper, SameTale, Outcome
  <1> QED
    BY <1>3, <1>4, <1>5

LEMMA MovesProper ==
    ASSUME NoteInv, NEW s \in Session, Proper(s), Moves(s), pc'[s] # "idle"
    PROVE  Proper(s)'
  <1> USE DEF At, Holds, Keeps
  <1>0. /\ TypeOK /\ row \in Row /\ row' = row /\ Drafted(s)
        /\ ses[s].seen \in Row /\ ses[s].new \in Row
    BY Same, MovesIs, Where DEF NoteInv
  <1>1. CASE Flush(s)
    <2>1. /\ pc[s] = "flush" /\ ses[s].op \in {"sweep", "enable", "upload"}
          /\ pc'[s] = After(ses[s].op)
      BY <1>1, FlushIs, Where
    <2>2. ASSUME NEW new \in Row, ses[s].seen.id = 0, lock' = s,
                 Holds(s, ses[s].op, ses[s].seen, new),
                 ses[s].new.id = born + 1 => new = ses[s].new
          PROVE  Proper(s)'
      <3>1. ses[s].new = [NoRow EXCEPT !.id = born + 1]
        BY <2>1, <2>2 DEF Proper
      <3>2. ses[s].new.id = born + 1
        BY <3>1, NoSesIs DEF Row
      <3> QED
        BY <1>0, <2>1, <2>2, <3>2 DEF Proper, After
    <2>3. CASE ses[s].seen.id # 0 /\ Keeps(s)
      BY <1>0, <2>1, <2>3 DEF Proper, After
    <2> QED
      BY <1>1, <2>2, <2>3, FlushIs
  <1>2. CASE BookBot(s)
    <2>1. /\ pc[s] = "book" /\ ses[s].op \in {"sweep", "join"} /\ lock' = lock
          /\ pc'[s] \in {"recall", "commit"}
      BY <1>2, BookBotIs, Where
    <2>2. CASE Keeps(s)
      BY <1>0, <2>1, <2>2 DEF Proper
    <2>3. ASSUME NEW new \in Row, Holds(s, ses[s].op, LSeen(s), new), new.id = Outcome(s).id,
                 new.id # 0, SameTale(new, Outcome(s))
          PROVE  Proper(s)'
      <3>1. LSeen(s) = row /\ SameTale(Outcome(s), row)
        BY <2>1, LoadedAlone
      <3>2. row.id = 0 => lock = s
        <4>1. row.id = 0 => ses[s].new.id # 0 /\ ses[s].seen.id = 0
          BY <1>0, <2>3, <3>1, NoSesIs DEF Outcome, LSeen
        <4> QED
          BY <2>1, <4>1 DEF Proper
      <3> QED
        BY <1>0, <2>1, <2>3, <3>1, <3>2 DEF Proper, SameTale
    <2> QED
      BY <1>2, <2>2, <2>3, BookBotIs
  <1>3. CASE RecallVanished(s)
    <2>1. pc[s] = "recall" /\ ses[s].op = "sweep" /\ lock' = lock /\ pc'[s] = "commit"
      BY <1>3, RecallVanishedIs, Where
    <2>2. CASE Keeps(s)
      BY <1>0, <2>1, <2>2 DEF Proper
    <2>3. ASSUME NEW new \in Row, Vanished(s), Holds(s, ses[s].op, LSeen(s), new),
                 new.id = Outcome(s).id, SameTale(new, Outcome(s))
          PROVE  Proper(s)'
      <3>1. LSeen(s) = row /\ SameTale(Outcome(s), row) /\ row.id # 0
        BY <2>1, <2>3, LoadedAlone DEF Vanished
      <3> QED
        BY <1>0, <2>1, <2>3, <3>1 DEF Proper, SameTale
    <2> QED
      BY <1>3, <2>2, <2>3, RecallVanishedIs
  <1>4. CASE QueueJoin(s) \/ StopBot(s)
    <2>1. /\ pc[s] \in {"queue", "stop"} /\ pc'[s] = "commit" /\ Keeps(s) /\ lock' = lock
      BY <1>4, QueueJoinIs, StopBotIs DEF Ended
    <2> QED
      BY <1>0, <2>1 DEF Proper
  <1>5. CASE Fetch(s)
    <2>1. PICK new \in Row :
            /\ Holds(s, ses[s].op, ses[s].seen, new)
            /\ new.id = ses[s].new.id /\ new.bot = ses[s].new.bot /\ new.timed
            /\ new.recapped = ses[s].new.recapped
      BY <1>5, FetchIs
    <2>2. ses[s].op = "process" /\ pc[s] = "fetch" /\ pc'[s] \in {"commit", "send"} /\ lock' = s
      BY <1>5, FetchIs, Where
    <2> QED
      BY <1>0, <2>1, <2>2 DEF Proper
  <1>6. CASE NotRecorded(s) \/ FetchFails(s)
    <2>1. pc[s] = "fetch" /\ Gives(s) /\ ses[s].op = "process"
      BY <1>0, <1>6, NotRecordedIs, FetchFailsIs, Where DEF Ended
    <2>2. PICK new \in Row : /\ Holds(s, "process", row, new) /\ pc'[s] = "commit"
                             /\ new.id = row.id /\ new.bot = row.bot /\ SameTale(new, row)
      BY <2>1 DEF Gives, Ended
    <2>3. row.id # 0
      BY <1>0, <2>1 DEF Proper, Drafted
    <2>4. ses[s].seen = row
      BY <2>1 DEF Proper
    <2> QED
      BY <1>0, <2>1, <2>2, <2>3, <2>4 DEF Proper, SameTale
  <1>7. CASE SendRecap(s)
    <2>1. ses[s].op = "process" /\ pc[s] = "send" /\ pc'[s] = "commit" /\ lock' = lock
      BY <1>7, SendRecapIs, Where
    <2>2. CASE Keeps(s)
      BY <1>0, <2>1, <2>2 DEF Proper
    <2>3. ASSUME NEW new \in Row, Holds(s, ses[s].op, ses[s].seen, new),
                 new.id = ses[s].new.id, new.bot = ses[s].new.bot, new.timed = ses[s].new.timed
          PROVE  Proper(s)'
      <3>1. /\ ses[s].seen = row /\ ses[s].seen.id # 0 /\ ~row.recapped /\ (row.timed => ses[s].new.timed)
            /\ ses[s].new.bot = row.bot /\ row.bot # NoBot
        BY <1>0, <2>1 DEF Proper, Drafted
      <3>2. /\ ses'[s].op = "process" /\ ses'[s].seen = row' /\ ses'[s].new = new /\ pc'[s] = "commit"
            /\ row' = row
        BY <1>0, <2>1, <2>3, <3>1
      <3>3. (row.timed => new.timed) /\ new.bot = row.bot
        BY <2>3, <3>1
      <3> QED
        BY <3>1, <3>2, <3>3 DEF Proper
    <2>4. \/ Keeps(s)
          \/ \E new \in Row :
               /\ Holds(s, ses[s].op, ses[s].seen, new) /\ new.id = ses[s].new.id
               /\ new.bot = ses[s].new.bot /\ new.timed = ses[s].new.timed
      <3> HIDE DEF At, Holds, Keeps
      <3> QED
        BY <1>7, SendRecapIs
    <2> QED
      BY <2>2, <2>3, <2>4
  <1> QED
    BY <1>1, <1>2, <1>3, <1>4, <1>5, <1>6, <1>7 DEF Moves

\* What a session alone commits is what it has drafted.
LEMMA CommitAlone ==
    ASSUME NoteInv, NEW s \in Session, Proper(s), Commit(s)
    PROVE  /\ row' = IF ses[s].op = "delete" THEN NoRow ELSE Outcome(s)
           /\ metered' = IF ses[s].new.timed /\ ~ses[s].seen.timed
                         THEN [metered EXCEPT ![row.id] = @ + 1] ELSE metered
           /\ ses[s].op = "delete" => Commits(s)
  <1>1. /\ row \in Row /\ RowOK /\ ses[s].seen \in Row /\ ses[s].new \in Row /\ Drafted(s)
        /\ pc[s] = "commit"
    BY Same, Where, CommitIs DEF NoteInv
  <1>2. Changed(s) => ses[s].seen = row /\ ~Gone(s)
    <2>1. Changed(s) => ses[s].seen = row
      BY DEF Proper, Changed
    <2>2. ses[s].seen = row /\ row.id = 0 /\ Changed(s) => ses[s].new.id # 0 /\ lock = s
      BY <1>1 DEF Changed, Drafted, RowOK, Proper
    <2> QED
      BY <1>1, <2>1, <2>2 DEF Gone
  <1>3. Commits(s) <=> Changed(s)
    BY <1>2 DEF Commits
  <1>4. CASE ses[s].op = "delete"
    <2>1. ses[s].seen.id # 0 /\ ses[s].new = NoRow
      BY <1>1, <1>4 DEF Drafted
    <2>2. Changed(s)
      BY <2>1, NoSesIs DEF Changed
    <2> QED
      BY <1>3, <1>4, <2>1, <2>2, NoSesIs, CommitIs
  <1>5. CASE ses[s].op # "delete"
    <2>1. Visible(s) = Outcome(s)
      BY <1>5, LoadedAlone
    <2>2. ~Changed(s) => Outcome(s) = row
      BY <1>1, NoSesIs DEF Proper, Changed, Outcome
    <2>3. ses[s].new.timed /\ ~ses[s].seen.timed => Changed(s)
      BY DEF Changed
    <2> QED
      BY <1>3, <1>5, <2>1, <2>2, <2>3, CommitIs
  <1> QED
    BY <1>4, <1>5

LEMMA SerialInit == Init => SerialInv
  BY DEF Init, SerialInv

LEMMA SerialStep == NoteInv /\ SerialInv /\ [Next]_vars => SerialInv'
  <1> SUFFICES ASSUME NoteInv, SerialInv, [Next]_vars PROVE SerialInv'
    OBVIOUS
  <1>1. CASE UNCHANGED vars
    BY <1>1 DEF SerialInv, Proper, vars
  <1>2. CASE Passes
    BY <1>2 DEF SerialInv, Proper, Passes
  <1>3. ASSUME NEW s \in Session, Begins(s) \/ Moves(s) \/ Ends(s) PROVE SerialInv'
    <2>1. faults' = faults /\ Others(s) /\ (pc[s] # "idle" \/ Free(s))
      BY <1>3, FaultsKept, BeginsIs, MovesIs, EndsIs
    <2>2. SUFFICES ASSUME Serial PROVE SerialInv'
      BY <2>1 DEF SerialInv, Serial
    <2>3. \A t \in Session \ {s} : pc'[t] = "idle"
      BY <2>1, <2>2, AloneIs DEF Others
    <2>4. pc'[s] # "idle" => Proper(s)'
      <3>1. CASE Begins(s)
        BY <3>1, BeginsProper
      <3>2. CASE Moves(s)
        <4>1. Proper(s)
          BY <2>2, <3>2, MovesIs DEF SerialInv, Serial
        <4> QED
          BY <3>2, <4>1, MovesProper
      <3>3. CASE Ends(s)
        BY <3>3, EndsIs DEF Ended, At
      <3> QED
        BY <1>3, <3>1, <3>2, <3>3
    <2> QED
      BY <2>3, <2>4 DEF SerialInv
  <1> QED
    BY <1>1, <1>2, <1>3, NextIs

-----------------------------------------------------------------------------
(* A delivered recap *)

Kept(s) ==
    /\ Final(ses[s].new)
    /\ ses[s].seen.status = "delivered" =>
          \/ ses[s].new.status = "delivered" \/ ses[s].op = "delete" \/ Lowered(s)

LEMMA BeginsFinal ==
    ASSUME NoteInv, NEW s \in Session, Begins(s), pc'[s] # "idle", Final(row)
    PROVE  Kept(s)'
  <1> USE DEF At, Holds
  <1>0. TypeOK /\ RowOK /\ WireOK /\ row \in Row /\ pc[s] = "idle"
    BY Same, BeginsIs DEF Free
  <1>1. CASE BeginSweep(s)
    <2>1. CASE Holds(s, "sweep", NoRow, NoRow)
      BY <2>1, NoSesIs DEF Kept, Final
    <2>2. ASSUME NEW new \in Row, Holds(s, "sweep", row, new),
                 Made(new) \/ Restored(new) \/ new = row
          PROVE  Kept(s)'
      BY <1>0, <2>2, NoSesIs DEF Kept, Final, Made, Restored, RowOK
    <2> QED
      BY <1>0, <1>1, <2>1, <2>2, SweepIs
  <1>2. CASE BeginJoin(s)
    <2>1. Holds(s, "join", row, row)
      BY <1>0, <1>2, JoinIs
    <2> QED
      BY <2>1 DEF Kept
  <1>3. CASE BeginLink(s)
    <2>1. PICK new \in Row : Holds(s, "enable", NoRow, new) /\ new.status = "pending"
      BY <1>0, <1>3, LinkIs
    <2> QED
      BY <2>1, NoSesIs DEF Kept, Final
  <1>4. CASE BeginEnable(s)
    <2>1. row.status # "delivered"
      BY <1>0, <1>4, EnableIs
    <2>2. PICK new \in Row : Holds(s, "enable", row, new) /\ new.status = "pending"
      BY <1>0, <1>4, EnableIs
    <2> QED
      BY <2>1, <2>2 DEF Kept, Final
  <1>5. CASE BeginCancel(s)
    <2>1. row.status # "delivered"
      BY <1>0, <1>5, CancelIs
    <2>2. PICK new \in Row : Holds(s, "cancel", row, new) /\ new.status = "cancelled"
      BY <1>0, <1>5, CancelIs
    <2> QED
      BY <2>1, <2>2 DEF Kept, Final
  <1>6. CASE BeginDelete(s)
    <2>1. Holds(s, "delete", row, NoRow)
      BY <1>0, <1>6, DeleteIs
    <2> QED
      BY <2>1, NoSesIs DEF Kept, Final
  <1>7. CASE BeginCallback(s)
    <2>1. PICK new \in Row :
            /\ Holds(s, "callback", row, new) /\ row.status \notin TerminalStatuses
            /\ new.status \in {"joining", "recording", "failed", "ended", "recorded"}
      BY <1>0, <1>7, CallbackIs
    <2> QED
      BY <2>1 DEF Kept, Final, TerminalStatuses
  <1>8. CASE BeginProcess(s)
    <2>1. Holds(s, "process", row, row)
      BY <1>0, <1>8, ProcessIs
    <2> QED
      BY <2>1 DEF Kept
  <1>9. CASE BeginUpload(s)
    <2>1. PICK new \in Row : /\ Holds(s, "upload", row, new) /\ new.status = "pending"
                             /\ row.status = "delivered" => new = [row EXCEPT !.status = "pending"]
      BY <1>0, <1>9, UploadIs
    <2> QED
      BY <2>1 DEF Kept, Final, Lowered
  <1> QED
    BY <1>1, <1>2, <1>3, <1>4, <1>5, <1>6, <1>7, <1>8, <1>9 DEF Begins

LEMMA MovesFinal ==
    ASSUME NoteInv, NEW s \in Session, Proper(s), Moves(s), pc'[s] # "idle", Final(row), Kept(s)
    PROVE  Kept(s)'
  <1> USE DEF At, Holds
  <1>0. /\ TypeOK /\ row \in Row /\ Drafted(s) /\ born \in Nat
        /\ ses[s].seen \in Row /\ ses[s].new \in Row
    BY Same, Where DEF NoteInv
  <1>1. ASSUME Keeps(s) PROVE Kept(s)'
    BY <1>1 DEF Kept, Keeps, Lowered
  <1>2. ASSUME ses[s].op = "process" PROVE ses[s].seen = row /\ row.status # "delivered"
    BY <1>2 DEF Proper, Final
  <1>3. CASE Flush(s)
    <2>1. ASSUME NEW new \in Row, ses[s].seen.id = 0, Holds(s, ses[s].op, ses[s].seen, new),
                 new = [ses[s].new EXCEPT !.id = born + 1], born + 1 \in 0 .. MaxRow
          PROVE  Kept(s)'
      <3>1. new.status = ses[s].new.status /\ new.bot = ses[s].new.bot /\ new.recapped = ses[s].new.recapped
        BY <1>0, <2>1, NumberIs
      <3>2. ses[s].seen.status = "pending"
        BY <1>0, <2>1, NoSesIs DEF Drafted
      <3> QED
        BY <2>1, <3>1, <3>2 DEF Kept, Final
    <2> QED
      BY <1>1, <1>3, <2>1, FlushIs
  <1>4. CASE BookBot(s)
    <2>1. pc[s] = "book" /\ ses[s].op \in {"sweep", "join"}
      BY <1>4, BookBotIs, Where
    <2>2. ASSUME NEW new \in Row, Holds(s, ses[s].op, LSeen(s), new), new.status = "scheduled",
                 ses[s].op = "sweep" => Awaiting(Visible(s))
          PROVE  Kept(s)'
      <3>1. LSeen(s) = row /\ Visible(s) = Outcome(s)
        BY <2>1, LoadedAlone
      <3>2. row.status # "delivered"
        <4>1. CASE ses[s].op = "join"
          BY <2>1, <4>1 DEF Proper, Final
        <4>2. CASE ses[s].op = "sweep"
          <5>1. Outcome(s).status = "pending"
            BY <2>2, <3>1, <4>2 DEF Awaiting
          <5>2. ses[s].new.id # 0 => ses[s].seen = row
            BY NoSesIs DEF Proper
          <5> QED
            BY <4>2, <5>1, <5>2 DEF Outcome, Kept, Lowered
        <4> QED
          BY <2>1, <4>1, <4>2
      <3> QED
        BY <2>2, <3>1, <3>2 DEF Kept, Final
    <2> QED
      BY <1>1, <1>4, <2>2, BookBotIs
  <1>5. CASE RecallVanished(s)
    <2>1. ses[s].op = "sweep"
      BY <1>5, RecallVanishedIs, Where
    <2>2. ASSUME NEW new \in Row, Vanished(s), Holds(s, ses[s].op, LSeen(s), new), new.status = "cancelled"
          PROVE  Kept(s)'
      <3>1. LSeen(s) = row /\ row.status # "delivered"
        BY <2>1, <2>2, LoadedAlone DEF Vanished, ActiveStatuses
      <3> QED
        BY <2>2, <3>1 DEF Kept, Final
    <2> QED
      BY <1>1, <1>5, <2>2, RecallVanishedIs
  <1>6. CASE QueueJoin(s) \/ StopBot(s)
    BY <1>1, <1>6, QueueJoinIs, StopBotIs DEF Ended
  <1>7. CASE Fetch(s)
    <2>1. PICK new \in Row :
            /\ Holds(s, ses[s].op, ses[s].seen, new) /\ new.recapped = ses[s].new.recapped
            /\ new.status = ses[s].new.status \/ new.status = "processed"
      BY <1>7, FetchIs
    <2>2. pc[s] = "fetch" /\ ses[s].op = "process"
      BY <1>7, FetchIs, Where
    <2>3. ses[s].new.status # "delivered"
      BY <2>2 DEF Proper, Kept, Final
    <2> QED
      BY <1>2, <2>1, <2>2, <2>3 DEF Kept, Final
  <1>8. CASE NotRecorded(s) \/ FetchFails(s)
    <2>1. ses[s].op = "process" /\ Gives(s)
      BY <1>0, <1>8, NotRecordedIs, FetchFailsIs, Where DEF Ended
    <2>2. PICK new \in Row : Holds(s, "process", row, new) /\ new.status = "failed"
      BY <2>1 DEF Gives, Ended
    <2> QED
      BY <1>2, <2>1, <2>2 DEF Kept, Final
  <1>9. CASE SendRecap(s)
    <2>1. ses[s].op = "process"
      BY <1>9, SendRecapIs, Where
    <2>2. ASSUME NEW new \in Row, Holds(s, ses[s].op, ses[s].seen, new),
                 new.bot = ses[s].new.bot, new.recapped = TRUE, new.status = "delivered"
          PROVE  Kept(s)'
      BY <2>1, <2>2 DEF Kept, Final, Proper
    <2> QED
      BY <1>1, <1>9, <2>2, SendRecapIs
  <1> QED
    BY <1>3, <1>4, <1>5, <1>6, <1>7, <1>8, <1>9 DEF Moves

\* What may become of a delivered meeting.
Walks ==
    \/ row' = NoRow \/ row'.status = "delivered"
    \/ /\ row' = [row EXCEPT !.status = "pending"]
       /\ \E s \in Session : ses[s].op = "upload" /\ ses'[s].op = "none"

\* What a commit makes of the row.
LEMMA CommitFinal ==
    ASSUME NoteInv, NEW s \in Session, Proper(s), Ends(s), Final(row), Kept(s)
    PROVE  Final(row)' /\ (row.status = "delivered" => Walks)
  <1>1. CASE row' = row
    BY <1>1 DEF Final, Walks
  <1>2. CASE Commit(s)
    <2>1. row' = IF ses[s].op = "delete" THEN NoRow ELSE Outcome(s)
      BY <1>2, CommitAlone
    <2>2. ses[s].new.id # 0 => ses[s].seen = row \/ ses[s].new.id = 0
      BY NoSesIs DEF Proper
    <2>3. ses'[s].op = "none"
      BY EndsIs, NoSesIs DEF Ended
    <2>4. CASE ses[s].new.id # 0 /\ ses[s].op # "delete"
      BY <2>1, <2>2, <2>3, <2>4 DEF Outcome, Final, Kept, Lowered, Walks
    <2>5. CASE ses[s].new.id = 0 \/ ses[s].op = "delete"
      BY <2>1, <2>5, NoSesIs DEF Outcome, Final, Walks
    <2> QED
      BY <2>4, <2>5
  <1> QED
    BY <1>1, <1>2, EndsIs

LEMMA FinalInit == Init => FinalInv
  BY NoSesIs DEF Init, FinalInv, Final

LEMMA FinalStep ==
    ASSUME NoteInv, SerialInv, FinalInv, [Next]_vars
    PROVE  FinalInv' /\ (row.status = "delivered" /\ Serial => Walks)
  <1>1. CASE UNCHANGED vars
    BY <1>1 DEF FinalInv, Final, Lowered, Walks, vars
  <1>2. CASE Passes
    BY <1>2 DEF FinalInv, Final, Lowered, Walks, Passes
  <1>3. ASSUME NEW s \in Session, Begins(s) \/ Moves(s) \/ Ends(s)
        PROVE  FinalInv' /\ (row.status = "delivered" /\ Serial => Walks)
    <2>1. faults' = faults /\ Others(s) /\ (pc[s] # "idle" \/ Free(s))
      BY <1>3, FaultsKept, BeginsIs, MovesIs, EndsIs
    <2>2. CASE Serial
      <3>1. \A t \in Session \ {s} : pc'[t] = "idle"
        BY <2>1, <2>2, AloneIs DEF Others
      <3>2. Final(row) /\ (pc[s] # "idle" => Proper(s) /\ Kept(s))
        BY <2>2 DEF FinalInv, SerialInv, Serial, Kept, Lowered
      <3>3. CASE Begins(s)
        <4>1. row' = row /\ (pc'[s] # "idle" => Kept(s)')
          BY <3>2, <3>3, BeginsIs, BeginsFinal
        <4> QED
          BY <3>1, <3>2, <4>1 DEF FinalInv, Kept, Final, Lowered, Walks
      <3>4. CASE Moves(s)
        <4>1. row' = row /\ (pc'[s] # "idle" => Kept(s)')
          BY <3>2, <3>4, MovesIs, MovesFinal
        <4> QED
          BY <3>1, <3>2, <4>1 DEF FinalInv, Kept, Final, Lowered, Walks
      <3>5. CASE Ends(s)
        <4>1. pc'[s] = "idle" /\ pc[s] # "idle"
          BY <3>5, EndsIs DEF Ended, At
        <4>2. Final(row)' /\ (row.status = "delivered" => Walks)
          BY <3>2, <3>5, <4>1, CommitFinal
        <4> QED
          BY <3>1, <4>1, <4>2 DEF FinalInv
      <3> QED
        BY <1>3, <3>3, <3>4, <3>5
    <2> QED
      BY <2>1, <2>2 DEF FinalInv, Serial
  <1> QED
    BY <1>1, <1>2, <1>3, NextIs

\* Once the recap is out, no callback that comes late, no task tried again, no sweep
\* and no request of the user puts the meeting back: its row stays delivered until
\* the user deletes it, or uploads a recording of its event, which alone puts it back
\* in line.  One session at a time is needed: two that overlap write over each other.
THEOREM RecapNeverWalkedBack == Spec => NeverWalkedBack
  <1>1. NoteInv /\ SerialInv /\ FinalInv /\ [Next]_vars
        => [row.status = "delivered" /\ "overlap" \notin faults
              => Walks]_vars
    BY FinalStep DEF Serial
  <1>2. NoteInv /\ SerialInv /\ FinalInv /\ [Next]_vars => FinalInv'
    BY FinalStep
  <1> QED
    BY <1>1, <1>2, InitTyped, StepTyped, SerialInit, SerialStep, FinalInit, PTL DEF Spec, NeverWalkedBack, Walks

-----------------------------------------------------------------------------
(* One recap, one charge *)

\* OnceInv of one row while one session is at work.
Once(i, s) ==
    /\ mailed[i] <= 1 /\ metered[i] <= 1
    /\ i > born => mailed[i] = 0 /\ metered[i] = 0
    /\ i = row.id => /\ metered[i] = 1 => row.timed
                     /\ mailed[i] = 1 => row.recapped \/ Sends(s)
    /\ Makes(s) /\ ses[s].new.id = i => mailed[i] = 0 /\ metered[i] = 0

LEMMA IdleOnce ==
    ASSUME NoteInv, NEW s \in Session, pc[s] = "idle" PROVE ~Sends(s) /\ ~Makes(s)
  BY Where, NoSesIs DEF Sends, Makes

LEMMA OnceAlone ==
    ASSUME NoteInv, NEW s \in Session, \A t \in Session \ {s} : pc[t] = "idle",
           Unless({"overlap", "crash"})
    PROVE  OnceInv <=> \A i \in 1 .. MaxRow : Once(i, s)
  <1>1. \A t \in Session \ {s} : ~Sends(t) /\ ~Makes(t)
    BY IdleOnce
  <1>2. ASSUME NEW i \in 1 .. MaxRow
        PROVE  /\ (\E t \in Session : Sends(t)) <=> Sends(s)
               /\ (\A t \in Session : Makes(t) /\ ses[t].new.id = i => mailed[i] = 0 /\ metered[i] = 0)
                    <=> (Makes(s) /\ ses[s].new.id = i => mailed[i] = 0 /\ metered[i] = 0)
    BY <1>1
  <1>3. ASSUME OnceInv, NEW i \in 1 .. MaxRow PROVE Once(i, s)
    BY <1>2, <1>3 DEF OnceInv, Once
  <1>4. ASSUME \A i \in 1 .. MaxRow : Once(i, s) PROVE OnceInv
    BY <1>2, <1>4 DEF OnceInv, Once
  <1> QED
    BY <1>3, <1>4

LEMMA BeginsMakes ==
    ASSUME NoteInv, NEW s \in Session, Begins(s), pc'[s] # "idle"
    PROVE  Makes(s)' => ses'[s].new.id > born
  <1> USE DEF At, Holds
  <1>0. TypeOK /\ RowOK /\ WireOK /\ row \in Row /\ pc[s] = "idle"
    BY Same, BeginsIs DEF Free
  <1>1. ASSUME NEW new, ses'[s].seen = row, ses'[s].new = new, new = row PROVE ~Makes(s)'
    BY <1>1 DEF Makes
  <1>2. CASE BeginSweep(s)
    <2>1. CASE Holds(s, "sweep", NoRow, NoRow)
      BY <2>1, NoSesIs DEF Makes
    <2>2. ASSUME NEW new \in Row, Holds(s, "sweep", row, new), At(s, "flush") \/ (new = row /\ row.id # 0)
          PROVE  ~Makes(s)'
      BY <2>2 DEF Makes
    <2> QED
      BY <1>0, <1>2, <2>1, <2>2, SweepIs
  <1>3. CASE BeginJoin(s)
    <2>1. Holds(s, "join", row, row)
      BY <1>0, <1>3, JoinIs
    <2> QED
      BY <2>1 DEF Makes
  <1>4. CASE BeginLink(s)
    <2>1. born = 0 /\ \E new \in Row : Holds(s, "enable", NoRow, new) /\ new.id = 1
      BY <1>0, <1>4, LinkIs
    <2> QED
      BY <2>1
  <1>5. CASE BeginEnable(s)
    <2>1. At(s, "flush")
      BY <1>0, <1>5, EnableIs
    <2> QED
      BY <2>1 DEF Makes
  <1>6. CASE BeginCancel(s)
    <2>1. row.id # 0 /\ \E new \in Row : Holds(s, "cancel", row, new)
      BY <1>0, <1>6, CancelIs
    <2> QED
      BY <2>1 DEF Makes
  <1>7. CASE BeginDelete(s)
    <2>1. row.id # 0 /\ Holds(s, "delete", row, NoRow)
      BY <1>0, <1>7, DeleteIs
    <2> QED
      BY <2>1 DEF Makes
  <1>8. CASE BeginCallback(s)
    <2>1. row.id # 0 /\ \E new \in Row : Holds(s, "callback", row, new)
      BY <1>0, <1>8, CallbackIs
    <2> QED
      BY <2>1 DEF Makes
  <1>9. CASE BeginProcess(s)
    <2>1. row.id # 0 /\ Holds(s, "process", row, row)
      BY <1>0, <1>9, ProcessIs
    <2> QED
      BY <2>1 DEF Makes
  <1>10. CASE BeginUpload(s)
    <2>1. At(s, "flush")
      BY <1>0, <1>10, UploadIs
    <2> QED
      BY <2>1 DEF Makes
  <1> QED
    BY <1>2, <1>3, <1>4, <1>5, <1>6, <1>7, <1>8, <1>9, <1>10 DEF Begins

\* A move other than a flush makes no row, and one other than a recap sends none.
LEMMA MovesMakes ==
    ASSUME NoteInv, NEW s \in Session, Moves(s), Makes(s)'
    PROVE  ses'[s].new.id > born \/ (Makes(s) /\ ses'[s].new.id = ses[s].new.id /\ ses[s].op # "process")
  <1> USE DEF At, Holds
  <1>0. /\ TypeOK /\ row \in Row /\ Drafted(s) /\ born \in Nat
        /\ ses[s].seen \in Row /\ ses[s].new \in Row
    BY Same, Where DEF NoteInv
  <1>1. ASSUME Keeps(s), pc[s] # "flush"
        PROVE  Makes(s) /\ ses'[s].new.id = ses[s].new.id /\ ses[s].op # "process"
    BY <1>0, <1>1 DEF Makes, Keeps, Drafted
  <1>2. ASSUME pc'[s] = "idle", ses'[s] = NoSes PROVE FALSE
    BY <1>2, NoSesIs DEF Makes
  <1>3. CASE Flush(s)
    <2>1. CASE ses[s].seen.id # 0 /\ Keeps(s)
      BY <2>1 DEF Makes, Keeps
    <2> QED
      BY <1>0, <1>3, <2>1, FlushIs
  <1>4. CASE BookBot(s)
    <2>1. pc[s] = "book" /\ ses[s].op \in {"sweep", "join"}
      BY <1>4, BookBotIs, Where
    <2>2. ASSUME NEW new \in Row, Holds(s, ses[s].op, LSeen(s), new), new.id = Outcome(s).id
          PROVE  Makes(s) /\ ses'[s].new.id = ses[s].new.id
      BY <2>1, <2>2 DEF Makes, LSeen, Outcome
    <2> QED
      BY <1>1, <1>4, <2>1, <2>2, BookBotIs
  <1>5. CASE RecallVanished(s)
    <2>1. pc[s] = "recall" /\ ses[s].op = "sweep"
      BY <1>5, RecallVanishedIs, Where
    <2>2. ASSUME NEW new \in Row, Holds(s, ses[s].op, LSeen(s), new), new.id = Outcome(s).id
          PROVE  Makes(s) /\ ses'[s].new.id = ses[s].new.id
      BY <2>1, <2>2 DEF Makes, LSeen, Outcome
    <2> QED
      BY <1>1, <1>5, <2>1, <2>2, RecallVanishedIs
  <1>6. CASE QueueJoin(s)
    BY <1>1, <1>6, QueueJoinIs
  <1>7. CASE StopBot(s)
    BY <1>1, <1>2, <1>7, StopBotIs DEF Ended
  <1>8. CASE Fetch(s)
    <2>1. ses'[s].seen = ses[s].seen
      BY <1>8, FetchIs
    <2>2. ses[s].seen.id # 0
      BY <1>0, <1>8, FetchIs, Where DEF Drafted
    <2> QED
      BY <2>1, <2>2 DEF Makes
  <1>9. CASE NotRecorded(s) \/ FetchFails(s)
    <2>1. ses[s].seen.id # 0 /\ (Gives(s) \/ Ended(s))
      BY <1>0, <1>9, NotRecordedIs, FetchFailsIs, Where DEF Drafted
    <2>2. CASE Ended(s)
      BY <1>2, <2>2 DEF Ended
    <2>3. CASE Gives(s) /\ ~Ended(s)
      BY <2>1, <2>3 DEF Gives, Makes
    <2> QED
      BY <2>1, <2>2, <2>3
  <1>10. CASE SendRecap(s)
    <2>1. ses'[s].seen = ses[s].seen
      BY <1>10, SendRecapIs DEF Keeps
    <2>2. ses[s].seen.id # 0
      BY <1>0, <1>10, SendRecapIs, Where DEF Drafted
    <2> QED
      BY <2>1, <2>2 DEF Makes
  <1> QED
    BY <1>3, <1>4, <1>5, <1>6, <1>7, <1>8, <1>9, <1>10 DEF Moves

LEMMA BeginsOnce ==
    ASSUME NoteInv, NEW s \in Session, Begins(s), NEW i \in 1 .. MaxRow, Once(i, s)
    PROVE  Once(i, s)'
  <1>1. /\ UNCHANGED <<row, mailed, metered, spared>> /\ born' >= born /\ pc[s] = "idle"
        /\ born \in Nat /\ born' \in Nat
    <2>1. NoteInv'
      BY BeginsTyped
    <2>2. born' \in 0 .. MaxRow
      BY <2>1 DEF NoteInv, TypeOK
    <2> QED
      BY <2>2, BeginsIs, Same DEF Free
  <1>2. ~Sends(s)
    BY <1>1, IdleOnce
  <1>3. Makes(s)' => ses'[s].new.id > born
    <2>1. CASE pc'[s] = "idle"
      <3>1. NoteInv'
        BY BeginsTyped
      <3>2. ses'[s] \in Ses /\ Drafted(s)'
        BY <3>1 DEF NoteInv, TypeOK
      <3>3. ses'[s].op \in Op /\ pc'[s] \in Place[ses'[s].op]
        BY <3>2 DEF Ses, Drafted
      <3>4. ses'[s].op = "none"
        BY <2>1, <3>3 DEF Op, Place
      <3>5. ses'[s] = NoSes
        BY <3>2, <3>4 DEF Drafted
      <3> QED
        BY <3>5, NoSesIs DEF Makes
    <2>2. CASE pc'[s] # "idle"
      BY <2>2, BeginsMakes
    <2> QED
      BY <2>1, <2>2
  <1>4. i > born' => i > born
    BY <1>1
  <1> QED
    BY <1>1, <1>2, <1>3, <1>4 DEF Once

LEMMA MovesOnce ==
    ASSUME NoteInv, NEW s \in Session, Proper(s), Moves(s), NEW i \in 1 .. MaxRow, Once(i, s)
    PROVE  Once(i, s)'
  <1>1. /\ UNCHANGED <<row, metered>> /\ (mailed' = mailed \/ SendRecap(s))
        /\ born \in Nat /\ born' \in Nat /\ pc[s] # "idle"
    <2>1. NoteInv'
      BY MovesTyped
    <2>2. born' \in 0 .. MaxRow
      BY <2>1 DEF NoteInv, TypeOK
    <2> QED
      BY <2>2, MovesIs, Same
  <1>2. born' >= born
    <2>1. CASE Flush(s)
      BY <1>1, <2>1, FlushIs
    <2> QED
      BY <1>1, <2>1, MovesIs
  <1>3. i > born' => i > born
    BY <1>1, <1>2
  <1>4. Makes(s)' => \/ ses'[s].new.id > born
                     \/ Makes(s) /\ ses'[s].new.id = ses[s].new.id /\ ses[s].op # "process"
    BY MovesMakes
  <1>5. ~Sends(s)
    <2>1. pc[s] # "commit"
      BY FlushIs, BookBotIs, RecallVanishedIs, QueueJoinIs, StopBotIs, FetchIs, NotRecordedIs, FetchFailsIs,
         SendRecapIs, Same DEF Moves
    <2> QED
      BY <2>1 DEF Sends, Proper
  <1>6. CASE mailed' = mailed
    BY <1>1, <1>3, <1>4, <1>5, <1>6 DEF Once
  <1>7. CASE SendRecap(s) /\ mailed' # mailed
    <2>1. /\ pc[s] = "send" /\ mailed' = [mailed EXCEPT ![ses[s].seen.id] = @ + 1]
          /\ ses'[s].op = ses[s].op /\ ses'[s].new.recapped
      BY <1>7, SendRecapIs DEF Holds
    <2>2. ses[s].op = "process" /\ ses[s].seen = row /\ ~row.recapped
      BY <2>1, Where DEF Proper
    <2>3. Sends(s)'
      BY <2>1, <2>2 DEF Sends
    <2>4. mailed \in [1 .. MaxRow -> Nat] /\ row.id <= born /\ row.id \in Nat
      BY Same
    <2>5. CASE i = row.id
      <3>1. mailed[i] = 0
        BY <1>5, <2>2, <2>4, <2>5 DEF Once
      <3>2. mailed'[i] = 1
        BY <2>1, <2>2, <2>4, <2>5, <3>1
      <3>3. ~(Makes(s)' /\ ses'[s].new.id = i)
        BY <1>1, <1>4, <2>2, <2>4, <2>5
      <3>4. ~(i > born')
        BY <1>1, <1>2, <2>4, <2>5
      <3> QED
        BY <1>1, <2>3, <3>2, <3>3, <3>4 DEF Once
    <2>6. CASE i # row.id
      <3>1. mailed'[i] = mailed[i]
        BY <2>1, <2>2, <2>4, <2>6
      <3> QED
        BY <1>1, <1>3, <1>4, <2>6, <3>1 DEF Once
    <2> QED
      BY <2>5, <2>6
  <1> QED
    BY <1>1, <1>6, <1>7

LEMMA EndsOnce ==
    ASSUME NoteInv, NEW s \in Session, Proper(s), Ends(s), "crash" \notin faults,
           NEW i \in 1 .. MaxRow, Once(i, s)
    PROVE  Once(i, s)'
  <1>1. /\ UNCHANGED <<born, mailed>> /\ pc'[s] = "idle" /\ ses'[s] = NoSes
    BY EndsIs DEF Ended, At
  <1>2. ~Makes(s)'
    BY <1>1, NoSesIs DEF Makes
  <1>3. CASE Lost(s) \/ Crash(s)
    <2>1. pc[s] \in {"fetch", "flush"} /\ UNCHANGED <<row, metered>>
      BY <1>3, Same, StopsIs DEF counts
    <2>2. ~Sends(s)
      BY <2>1, Where DEF Sends, Proper
    <2> QED
      BY <1>1, <1>2, <2>1, <2>2 DEF Once
  <1>4. CASE Commit(s)
    <2>1. /\ row' = IF ses[s].op = "delete" THEN NoRow ELSE Outcome(s)
          /\ metered' = IF ses[s].new.timed /\ ~ses[s].seen.timed
                        THEN [metered EXCEPT ![row.id] = @ + 1] ELSE metered
          /\ pc[s] = "commit"
      BY <1>4, CommitAlone, CommitIs
    <2>2. /\ row \in Row /\ ses[s].seen \in Row /\ ses[s].new \in Row /\ Drafted(s)
          /\ metered \in [1 .. MaxRow -> Nat] /\ row.id \in Nat /\ row.id <= born /\ born \in Nat
      BY Same, Where DEF NoteInv
    <2>3. CASE ses[s].op = "process"
      <3>1. /\ ses[s].seen = row /\ ses[s].seen.id # 0 /\ ses[s].new.id = row.id
            /\ ses[s].seen.timed => ses[s].new.timed
        BY <2>2, <2>3, NoSesIs DEF Proper, Drafted
      <3>2. row' = ses[s].new
        BY <2>1, <2>3, <3>1 DEF Outcome
      <3>3. Sends(s) <=> ses[s].new.recapped
        BY <2>3 DEF Sends
      <3>4. ~row.recapped
        BY <2>3, <3>1 DEF Proper
      <3>5. ~Makes(s)
        BY <3>1 DEF Makes
      <3>6. CASE i = row.id
        <4>1. row.timed \/ metered[i] = 0
          BY <2>2, <3>6 DEF Once
        <4>2. metered'[i] <= 1 /\ (metered'[i] = 1 => ses[s].new.timed)
          BY <2>1, <2>2, <3>1, <3>6, <4>1 DEF Once, Row
        <4>3. mailed[i] <= 1 /\ (mailed[i] = 1 => ses[s].new.recapped)
          BY <3>3, <3>4, <3>6 DEF Once
        <4>4. ~(i > born)
          BY <2>2, <3>6
        <4> QED
          BY <1>1, <1>2, <3>1, <3>2, <3>6, <4>2, <4>3, <4>4 DEF Once
      <3>7. CASE i # row.id
        <4>1. metered'[i] = metered[i]
          BY <2>1, <2>2, <3>7
        <4> QED
          BY <1>1, <1>2, <3>1, <3>2, <3>7, <4>1 DEF Once
      <3> QED
        BY <3>6, <3>7
    <2>4. CASE ses[s].op # "process"
      <3>1. ses[s].op # "delete" => SameTale(Outcome(s), row)
        BY <2>4, LoadedAlone
      <3>2. metered' = metered
        <4>1. CASE ses[s].op = "delete"
          <5>1. ses[s].new = NoRow
            BY <2>2, <4>1 DEF Drafted
          <5> QED
            BY <2>1, <5>1, NoSesIs
        <4>2. CASE ses[s].op # "delete"
          <5>1. ses[s].new.timed = ses[s].seen.timed
            BY <2>4, <4>2 DEF Proper
          <5> QED
            BY <2>1, <5>1
        <4> QED
          BY <4>1, <4>2
      <3>3. ~Sends(s)
        BY <2>4 DEF Sends
      <3>4. CASE row'.id = row.id
        <4>1. row'.id = i => SameTale(row', row)
          BY <2>1, <3>1, <3>4, NoSesIs DEF SameTale
        <4> QED
          BY <1>1, <1>2, <3>2, <3>3, <3>4, <4>1 DEF Once, SameTale
      <3>5. CASE row'.id # row.id
        <4>1. row'.id = i => Makes(s) /\ ses[s].new.id = i
          <5>1. CASE ses[s].op = "delete"
            BY <2>1, <5>1, NoSesIs
          <5>2. CASE ses[s].op # "delete"
            <6>1. ses[s].new.id # 0 /\ row' = ses[s].new
              BY <2>1, <3>5, <5>2 DEF Outcome
            <6>2. ses[s].seen = row
              BY <6>1, NoSesIs DEF Proper
            <6>3. ses[s].seen.id = 0
              BY <2>2, <3>5, <5>2, <6>1, <6>2 DEF Drafted
            <6> QED
              BY <2>1, <6>1, <6>3 DEF Makes
          <5> QED
            BY <5>1, <5>2
        <4>2. row'.id = i => mailed[i] = 0 /\ metered[i] = 0
          BY <4>1 DEF Once
        <4> QED
          BY <1>1, <1>2, <3>2, <4>2 DEF Once
      <3> QED
        BY <3>4, <3>5
    <2> QED
      BY <2>3, <2>4
  <1> QED
    BY <1>3, <1>4 DEF Ends

LEMMA OnceInit == Init => OnceInv
  <1> SUFFICES ASSUME Init PROVE OnceInv
    OBVIOUS
  <1>1. \A s \in Session : ses[s] = NoSes
    BY DEF Init
  <1>2. \A i \in 1 .. MaxRow : mailed[i] = 0 /\ metered[i] = 0
    BY DEF Init
  <1> QED
    BY <1>1, <1>2 DEF OnceInv

LEMMA OnceStep == NoteInv /\ SerialInv /\ OnceInv /\ [Next]_vars => OnceInv'
  <1> SUFFICES ASSUME NoteInv, SerialInv, OnceInv, [Next]_vars PROVE OnceInv'
    OBVIOUS
  <1>1. CASE UNCHANGED vars
    BY <1>1 DEF OnceInv, Unless, Sends, Makes, vars
  <1>2. CASE Passes
    BY <1>2 DEF OnceInv, Unless, Sends, Makes, Passes, counts
  <1>3. ASSUME NEW s \in Session, Begins(s) \/ Moves(s) \/ Ends(s) PROVE OnceInv'
    <2>1. faults' = faults /\ Others(s) /\ (pc[s] # "idle" \/ Free(s))
      BY <1>3, FaultsKept, BeginsIs, MovesIs, EndsIs
    <2>2. CASE ~Unless({"overlap", "crash"})
      BY <2>1, <2>2 DEF OnceInv, Unless
    <2>3. CASE Unless({"overlap", "crash"})
      <3>1. Serial /\ "crash" \notin faults
        BY <2>3 DEF Unless, Serial
      <3>2. (\A t \in Session \ {s} : pc[t] = "idle") /\ (pc[s] # "idle" => Proper(s))
        BY <2>1, <3>1, AloneIs DEF SerialInv, Serial
      <3>3. \A i \in 1 .. MaxRow : Once(i, s)
        BY <2>3, <3>2, OnceAlone
      <3>4. \A i \in 1 .. MaxRow : Once(i, s)'
        <4>1. CASE Begins(s)
          BY <3>3, <4>1, BeginsOnce
        <4>2. CASE Moves(s)
          BY <3>2, <3>3, <4>2, MovesIs, MovesOnce
        <4>3. CASE Ends(s)
          BY <3>1, <3>2, <3>3, <4>3, EndsIs, EndsOnce
        <4> QED
          BY <1>3, <4>1, <4>2, <4>3
      <3>5. NoteInv' /\ (\A t \in Session \ {s} : pc'[t] = "idle") /\ Unless({"overlap", "crash"})'
        BY <2>1, <2>3, <3>2, StepTyped DEF Others, Unless
      <3>6. \A t \in Session \ {s} : ~Sends(t)' /\ ~Makes(t)'
        <4>1. \A t \in Session \ {s} : ses'[t] = NoSes
          BY <2>1, <3>2, Where DEF Others
        <4> QED
          BY <4>1, NoSesIs DEF Sends, Makes
      <3>7. ASSUME NEW i \in 1 .. MaxRow
            PROVE  /\ mailed'[i] <= 1 /\ metered'[i] <= 1
                   /\ i > born' => mailed'[i] = 0 /\ metered'[i] = 0
                   /\ i = row'.id => /\ metered'[i] = 1 => row'.timed
                                     /\ mailed'[i] = 1 => row'.recapped \/ Sends(s)'
                   /\ Makes(s)' /\ ses'[s].new.id = i => mailed'[i] = 0 /\ metered'[i] = 0
        BY <3>4 DEF Once
      <3>8. ASSUME NEW i \in 1 .. MaxRow, NEW t \in Session, Makes(t)', ses'[t].new.id = i
            PROVE  mailed'[i] = 0 /\ metered'[i] = 0
        BY <3>6, <3>7, <3>8
      <3> QED
        BY <3>7, <3>8 DEF OnceInv
    <2> QED
      BY <2>2, <2>3
  <1> QED
    BY <1>1, <1>2, <1>3, NextIs

\* However often the provider calls back, in whatever order, and however often the task
\* is retried, a row's recap is mailed once at most and its bot-seconds are added once at
\* most, while one session runs at a time and none dies between its mail and its commit.
THEOREM NotetakerAccountedOnce == Spec => []AccountedOnce
  <1>1. OnceInv => AccountedOnce
    BY DEF OnceInv, AccountedOnce, Unless
  <1> QED
    BY <1>1, InitTyped, StepTyped, SerialInit, SerialStep, OnceInit, OnceStep, PTL DEF Spec

-----------------------------------------------------------------------------
(* The bots of the meeting *)

NamedIn(remotes, rw) ==
    \A b \in Bot : remotes[b].state \in Live /\ remotes[b].meeting = rw.id
                    => rw.bot = b /\ rw.status # "cancelled"

\* A row that names its live bots still does when they move on, when another row is
\* put in its place, and when a bot is booked or recalled.
LEMMA NamedForth ==
    ASSUME NEW rw, NamedIn(bots, rw), Forth PROVE NamedIn(bots', rw)
  BY DEF NamedIn, Forth

LEMMA NamedLike ==
    ASSUME NEW remotes, NEW rw, NEW new, NamedIn(remotes, rw), new.id = rw.id,
           new.status # "cancelled", new.bot = rw.bot \/ rw.bot = NoBot
    PROVE  NamedIn(remotes, new)
  BY DEF NamedIn

LEMMA NamedBare ==
    ASSUME NEW remotes, NEW rw, NEW new, NamedIn(remotes, rw), new.id = rw.id,
           rw.bot = NoBot \/ rw.status = "cancelled"
    PROVE  NamedIn(remotes, new)
  BY DEF NamedIn

LEMMA NamedFresh ==
    ASSUME NoteInv, NEW new, new.id \in Nat, new.id > born \/ new.id = 0
    PROVE  NamedIn(bots, new)
  <1>1. ASSUME NEW b \in Bot
        PROVE  /\ bots[b].meeting \in Nat /\ bots[b].meeting <= born
               /\ bots[b].meeting = 0 => bots[b].state = "absent"
    BY DEF NoteInv, TypeOK, BotsOK, Remote
  <1>2. born \in Nat
    BY Same
  <1>3. \A b \in Bot : bots[b].meeting = new.id => bots[b].state = "absent"
    BY <1>1, <1>2
  <1> QED
    BY <1>3 DEF NamedIn, Live

LEMMA NamedBooked ==
    ASSUME NEW rw, NEW new, NEW b \in Bot, NamedIn(bots, rw), rw.bot = NoBot, Booked(b, rw.id),
           new.id = rw.id, new.bot = b, new.status = "scheduled"
    PROVE  NamedIn(bots', new)
  BY DEF NamedIn, Booked

LEMMA NamedRecalled ==
    ASSUME NEW rw, NEW new, NamedIn(bots, rw), Forth, new.id = rw.id,
           rw.bot = NoBot \/ bots'[rw.bot].state \notin Live
    PROVE  NamedIn(bots', new)
  BY DEF NamedIn, Forth

\* StrayInv of a session at work.
Stays(s) ==
    /\ pc[s] \in {"flush", "queue", "stop", "fetch", "send"} => NamedIn(bots, row)
    /\ ses[s].op # "delete" /\ pc[s] # "stop" => NamedIn(bots, Outcome(s))

LEMMA BeginsStays ==
    ASSUME NoteInv, NEW s \in Session, Begins(s), pc'[s] # "idle", NamedIn(bots, row)
    PROVE  Stays(s)'
  <1> USE DEF At, Holds
  <1>0. /\ TypeOK /\ RowOK /\ WireOK /\ row \in Row /\ pc[s] = "idle" /\ row' = row /\ bots' = bots
        /\ born \in Nat /\ row.id \in Nat
    BY Same, BeginsIs DEF Free
  <1>1. ASSUME NEW new \in Row, ses'[s].new = new, ses'[s].op # "delete" => NamedIn(bots, new)
        PROVE  Stays(s)'
    BY <1>0, <1>1 DEF Stays, Outcome
  <1>2. ASSUME NEW new \in Row, Made(new) \/ Restored(new) PROVE NamedIn(bots, new)
    <2>1. CASE Made(new)
      <3>1. new.id = born + 1
        BY <2>1 DEF Made
      <3>2. new.id \in Nat /\ new.id > born
        BY <1>0, <3>1
      <3> QED
        BY <3>2, NamedFresh
    <2>2. CASE Restored(new)
      BY <1>0, <2>2, NamedBare DEF Restored
    <2> QED
      BY <1>2, <2>1, <2>2
  <1>3. CASE BeginSweep(s)
    <2>1. CASE Holds(s, "sweep", NoRow, NoRow)
      BY <1>0, <2>1, NoSesIs DEF Stays, Outcome
    <2>2. ASSUME NEW new \in Row, Holds(s, "sweep", row, new), Made(new) \/ Restored(new) \/ new = row
          PROVE  Stays(s)'
      <3>1. NamedIn(bots, new)
        BY <1>2, <2>2
      <3> QED
        BY <1>1, <2>2, <3>1
    <2> QED
      BY <1>0, <1>3, <2>1, <2>2, SweepIs
  <1>4. CASE BeginJoin(s)
    <2>1. Holds(s, "join", row, row)
      BY <1>0, <1>4, JoinIs
    <2> QED
      BY <1>0, <1>1, <2>1
  <1>5. CASE BeginLink(s)
    <2>1. PICK new \in Row : Holds(s, "enable", NoRow, new) /\ new.id = 1 /\ born = 0
      BY <1>0, <1>5, LinkIs
    <2>2. NamedIn(bots, new)
      BY <2>1, NamedFresh
    <2> QED
      BY <1>1, <2>1, <2>2
  <1>6. CASE BeginEnable(s)
    <2>1. PICK new \in Row :
            /\ Holds(s, "enable", row, new) /\ new.status = "pending"
            /\ \/ Made(new)
               \/ Restored(new)
               \/ row.id # 0 /\ new.id = row.id /\ row.status # "cancelled" /\ new.bot = row.bot
      BY <1>0, <1>6, EnableIs
    <2>2. CASE Made(new) \/ Restored(new)
      BY <1>1, <1>2, <2>1, <2>2
    <2>3. CASE new.id = row.id /\ new.bot = row.bot
      <3>1. NamedIn(bots, new)
        BY <2>1, <2>3, NamedLike
      <3> QED
        BY <1>1, <2>1, <3>1
    <2> QED
      BY <2>1, <2>2, <2>3
  <1>7. CASE BeginCancel(s)
    <2>1. PICK new \in Row :
            Holds(s, "cancel", row, new) /\ new.id = row.id
      BY <1>0, <1>7, CancelIs
    <2>2. row.id # 0 /\ (row.bot = NoBot \/ pc'[s] = "stop")
      BY <1>0, <1>7, CancelIs
    <2>3. CASE row.bot = NoBot
      <3>1. NamedIn(bots, new)
        BY <2>1, <2>3, NamedBare
      <3> QED
        BY <1>1, <2>1, <3>1
    <2>4. CASE pc'[s] = "stop"
      BY <1>0, <2>4 DEF Stays
    <2> QED
      BY <2>2, <2>3, <2>4
  <1>8. CASE BeginDelete(s)
    <2>1. Holds(s, "delete", row, NoRow)
      BY <1>0, <1>8, DeleteIs
    <2> QED
      BY <1>0, <2>1 DEF Stays
  <1>9. CASE BeginCallback(s)
    <2>1. PICK b \in Bot, new \in Row :
            /\ Holds(s, "callback", row, new) /\ new.id = row.id
            /\ new.bot = IF row.bot = NoBot THEN b ELSE row.bot
            /\ new.status \in {"joining", "recording", "failed", "ended", "recorded"}
      BY <1>0, <1>9, CallbackIs
    <2>2. NamedIn(bots, new)
      BY <2>1, NamedLike
    <2> QED
      BY <1>1, <2>1, <2>2
  <1>10. CASE BeginProcess(s)
    <2>1. Holds(s, "process", row, row)
      BY <1>0, <1>10, ProcessIs
    <2> QED
      BY <1>0, <1>1, <2>1
  <1>11. CASE BeginUpload(s)
    <2>1. PICK new \in Row :
            /\ Holds(s, "upload", row, new) /\ new.status = "pending"
            /\ \/ Made(new)
               \/ Restored(new)
               \/ row.id # 0 /\ new.id = row.id /\ new.bot = row.bot
      BY <1>0, <1>11, UploadIs
    <2>2. CASE Made(new) \/ Restored(new)
      BY <1>1, <1>2, <2>1, <2>2
    <2>3. CASE new.id = row.id /\ new.bot = row.bot
      <3>1. NamedIn(bots, new)
        BY <2>1, <2>3, NamedLike
      <3> QED
        BY <1>1, <2>1, <3>1
    <2> QED
      BY <2>1, <2>2, <2>3
  <1> QED
    BY <1>3, <1>4, <1>5, <1>6, <1>7, <1>8, <1>9, <1>10, <1>11 DEF Begins

LEMMA MovesStays ==
    ASSUME NoteInv, NEW s \in Session, Proper(s), Moves(s), "provider" \notin faults, Stays(s)
    PROVE  Stays(s)' /\ pc'[s] # "idle"
  <1> USE DEF At, Holds, Keeps
  <1>0. /\ TypeOK /\ row \in Row /\ RowOK /\ row' = row /\ Drafted(s) /\ born \in Nat /\ row.id \in Nat
        /\ ses[s].seen \in Row /\ ses[s].new \in Row
    BY Same, MovesIs, Where DEF NoteInv
  <1>1. Forth => (NamedIn(bots, row) => NamedIn(bots', row))
    BY NamedForth
  <1>2. bots' = bots => Forth
    BY <1>0, StillIs
  <1>3. ASSUME NEW new \in Row, ses'[s].new = new, NamedIn(bots', new), new.id # 0,
               pc'[s] \in {"flush", "queue", "stop", "fetch", "send"} => NamedIn(bots', row)
        PROVE  Stays(s)'
    BY <1>0, <1>3 DEF Stays, Outcome
  <1>4. ASSUME Keeps(s), Forth, pc[s] # "stop", pc'[s] \in {"recall", "commit", "book"}
        PROVE  Stays(s)'
    <2>1. Outcome(s)' = Outcome(s)
      BY <1>0, <1>4 DEF Outcome
    <2>2. ses[s].op # "delete" => NamedIn(bots, Outcome(s))
      BY <1>4 DEF Stays
    <2>3. ses[s].op # "delete" => NamedIn(bots', Outcome(s))
      BY <1>4, <2>2, NamedForth
    <2> QED
      BY <1>4, <2>1, <2>3 DEF Stays
  <1>5. ses[s].op = "process" => Outcome(s) = ses[s].new /\ ses[s].new.id # 0
    BY <1>0 DEF Drafted, Outcome
  <1>6. CASE Flush(s)
    <2>1. pc[s] = "flush" /\ bots' = bots /\ pc'[s] \in {"queue", "commit", "book"}
      BY <1>6, FlushIs DEF After
    <2>2. NamedIn(bots', row)
      BY <2>1 DEF Stays
    <2>3. ASSUME NEW new \in Row, Holds(s, ses[s].op, ses[s].seen, new), new.id = born + 1
          PROVE  Stays(s)'
      <3>1. NamedIn(bots', new)
        BY <1>0, <2>1, <2>3, NamedFresh
      <3> QED
        BY <1>0, <1>3, <2>2, <2>3, <3>1
    <2>4. CASE Keeps(s)
      <3>1. Outcome(s)' = Outcome(s)
        BY <1>0, <2>4 DEF Outcome
      <3>2. ses[s].op # "delete" => NamedIn(bots, Outcome(s))
        BY <2>1 DEF Stays
      <3>3. ses'[s].op # "delete" => NamedIn(bots', Outcome(s)')
        BY <2>1, <2>4, <3>1, <3>2
      <3>4. NamedIn(bots', row')
        BY <1>0, <2>2
      <3> QED
        BY <2>1, <3>3, <3>4 DEF Stays
    <2> QED
      BY <1>6, <2>1, <2>3, <2>4, FlushIs
  <1>7. CASE BookBot(s)
    <2>1. /\ pc[s] = "book" /\ ses[s].op \in {"sweep", "join"} /\ pc'[s] \in {"recall", "commit"}
      BY <1>7, BookBotIs, Where
    <2>2. NamedIn(bots, Outcome(s))
      BY <2>1 DEF Stays
    <2>3. ASSUME NEW b \in Bot, NEW new \in Row,
                 ses[s].op = "sweep" => Awaiting(Visible(s)),
                 Booked(b, Outcome(s).id), Holds(s, ses[s].op, LSeen(s), new),
                 new.id = Outcome(s).id, new.id # 0, new.bot = b, new.status = "scheduled"
          PROVE  Stays(s)'
      <3>1. Outcome(s).bot = NoBot
        <4>1. CASE ses[s].op = "join"
          BY <2>1, <4>1 DEF Proper, Outcome
        <4>2. CASE ses[s].op = "sweep"
          BY <2>1, <2>3, <4>2, LoadedAlone DEF Awaiting
        <4> QED
          BY <2>1, <4>1, <4>2
      <3>2. NamedIn(bots', new)
        BY <2>2, <2>3, <3>1, NamedBooked
      <3> QED
        BY <1>3, <2>1, <2>3, <3>2
    <2> QED
      BY <1>2, <1>4, <1>7, <2>1, <2>3, BookBotIs
  <1>8. CASE RecallVanished(s)
    <2>1. pc[s] = "recall" /\ ses[s].op = "sweep" /\ pc'[s] = "commit" /\ Forth
      BY <1>8, RecallVanishedIs, Where
    <2>2. NamedIn(bots, Outcome(s))
      BY <2>1 DEF Stays
    <2>3. ASSUME NEW new \in Row, Vanished(s), Outcome(s).id = row.id,
                 Outcome(s).bot = NoBot \/ bots'[Outcome(s).bot].state \notin Live,
                 Holds(s, ses[s].op, LSeen(s), new), new.id = Outcome(s).id
          PROVE  Stays(s)'
      <3>1. NamedIn(bots', new)
        BY <2>1, <2>2, <2>3, NamedRecalled
      <3>2. new.id # 0
        BY <2>3 DEF Vanished
      <3> QED
        BY <1>3, <2>1, <2>3, <3>1, <3>2
    <2> QED
      BY <1>4, <1>8, <2>1, <2>3, RecallVanishedIs
  <1>9. CASE QueueJoin(s)
    BY <1>2, <1>4, <1>9, QueueJoinIs
  <1>10. CASE StopBot(s)
    <2>1. /\ pc[s] = "stop" /\ pc'[s] = "commit" /\ Keeps(s) /\ Forth /\ ses[s].op \in {"cancel", "delete"}
          /\ bots'[ses[s].seen.bot].state \notin Live
      BY <1>10, StopBotIs, Where
    <2>2. CASE ses[s].op = "delete"
      BY <2>1, <2>2 DEF Stays
    <2>3. CASE ses[s].op = "cancel"
      <3>1. /\ ses[s].seen = row /\ ses[s].new = [row EXCEPT !.status = "cancelled"]
            /\ row.id # 0 /\ NamedIn(bots, row)
        BY <1>0, <2>1, <2>3 DEF Proper, Drafted, Stays
      <3>2. ses[s].new.id = row.id
        BY <1>0, <2>3, <3>1 DEF Drafted
      <3>3. NamedIn(bots', ses[s].new)
        BY <2>1, <3>1, <3>2, NamedRecalled
      <3> QED
        BY <1>0, <1>3, <2>1, <3>1, <3>2, <3>3
    <2> QED
      BY <2>1, <2>2, <2>3
  <1>11. CASE Fetch(s)
    <2>1. PICK new \in Row :
            /\ Holds(s, ses[s].op, ses[s].seen, new) /\ new.id = ses[s].new.id /\ new.bot = ses[s].new.bot
            /\ new.status = ses[s].new.status \/ new.status = "processed"
      BY <1>11, FetchIs
    <2>2. pc[s] = "fetch" /\ ses[s].op = "process" /\ pc'[s] \in {"commit", "send"} /\ bots' = bots
      BY <1>11, FetchIs, Where
    <2>3. NamedIn(bots, row) /\ NamedIn(bots, ses[s].new)
      BY <1>5, <2>2 DEF Stays
    <2>4. NamedIn(bots', new)
      BY <2>1, <2>2, <2>3 DEF NamedIn
    <2> QED
      BY <1>3, <1>5, <2>1, <2>2, <2>3, <2>4
  <1>12. CASE NotRecorded(s) \/ FetchFails(s)
    <2>1. pc[s] = "fetch" /\ ses[s].op = "process" /\ Gives(s) /\ bots' = bots
      BY <1>0, <1>12, NotRecordedIs, FetchFailsIs, Where
    <2>2. ses[s].seen = row /\ NamedIn(bots, row) /\ row.id # 0
      BY <1>0, <2>1 DEF Proper, Drafted, Stays
    <2>3. PICK new \in Row :
            /\ Holds(s, "process", row, new) /\ pc'[s] = "commit"
            /\ new.id = row.id /\ new.bot = row.bot /\ new.status = "failed"
      BY <2>1, <2>2 DEF Gives
    <2>4. NamedIn(bots', new)
      BY <2>1, <2>2, <2>3, NamedLike
    <2> QED
      BY <1>3, <2>2, <2>3, <2>4
  <1>13. CASE SendRecap(s)
    <2>1. pc[s] = "send" /\ ses[s].op = "process" /\ pc'[s] = "commit" /\ bots' = bots
      BY <1>13, SendRecapIs, Where
    <2>2. ASSUME NEW new \in Row, Holds(s, ses[s].op, ses[s].seen, new),
                 new.id = ses[s].new.id, new.bot = ses[s].new.bot, new.status = "delivered"
          PROVE  Stays(s)'
      <3>1. NamedIn(bots, ses[s].new)
        BY <1>5, <2>1 DEF Stays
      <3>2. NamedIn(bots', new)
        BY <2>1, <2>2, <3>1, NamedLike
      <3> QED
        BY <1>3, <1>5, <2>1, <2>2, <3>2
    <2> QED
      BY <1>2, <1>4, <1>13, <2>1, <2>2, SendRecapIs
  <1> QED
    BY <1>6, <1>7, <1>8, <1>9, <1>10, <1>11, <1>12, <1>13 DEF Moves

LEMMA EndsStays ==
    ASSUME NoteInv, NEW s \in Session, Proper(s), Ends(s), "crash" \notin faults, Stays(s)
    PROVE  NamedIn(bots', row') /\ pc'[s] = "idle"
  <1>1. bots' = bots /\ pc'[s] = "idle"
    BY EndsIs DEF Ended, At
  <1>2. CASE Lost(s) \/ Crash(s)
    <2>1. pc[s] \in {"fetch", "flush"} /\ row' = row
      BY <1>2, Same, StopsIs
    <2> QED
      BY <1>1, <2>1 DEF Stays
  <1>3. CASE Commit(s)
    <2>1. row' = (IF ses[s].op = "delete" THEN NoRow ELSE Outcome(s)) /\ pc[s] = "commit"
      BY <1>3, CommitAlone, CommitIs
    <2>2. NamedIn(bots, NoRow)
      BY NoSesIs, NamedFresh
    <2> QED
      BY <1>1, <2>1, <2>2 DEF Stays
  <1> QED
    BY <1>2, <1>3, EndsIs DEF Ends

LEMMA StrayInit == Init => StrayInv
  BY DEF Init, StrayInv, Named, Live

LEMMA StrayStep == NoteInv /\ SerialInv /\ StrayInv /\ [Next]_vars => StrayInv'
  <1> SUFFICES ASSUME NoteInv, SerialInv, StrayInv, [Next]_vars PROVE StrayInv'
    OBVIOUS
  <1>0. \A rw : Named(rw) <=> NamedIn(bots, rw)
    BY DEF Named, NamedIn
  <1>1. CASE UNCHANGED vars
    BY <1>1 DEF StrayInv, Unless, Quiet, Named, Outcome, vars
  <1>2. CASE Passes
    <2>1. Forth /\ UNCHANGED <<row, pc, ses, faults>>
      BY <1>2, Same, StillIs DEF Passes
    <2>2. \A s \in Session : Outcome(s)' = Outcome(s)
      BY <2>1 DEF Outcome
    <2>3. \A rw : NamedIn(bots, rw) => NamedIn(bots', rw)
      BY <2>1, NamedForth
    <2>4. Named(row)' <=> NamedIn(bots', row')
      BY DEF Named, NamedIn
    <2>5. \A s \in Session : Named(Outcome(s))' <=> NamedIn(bots', Outcome(s)')
      BY DEF Named, NamedIn
    <2> QED
      BY <1>0, <2>1, <2>2, <2>3, <2>4, <2>5 DEF StrayInv, Unless, Quiet
  <1>3. ASSUME NEW s \in Session, Begins(s) \/ Moves(s) \/ Ends(s) PROVE StrayInv'
    <2>1. faults' = faults /\ Others(s) /\ (pc[s] # "idle" \/ Free(s))
      BY <1>3, FaultsKept, BeginsIs, MovesIs, EndsIs
    <2>2. CASE ~Unless({"overlap", "crash", "provider"})
      BY <2>1, <2>2 DEF StrayInv, Unless
    <2>3. CASE Unless({"overlap", "crash", "provider"})
      <3>1. Serial /\ "crash" \notin faults /\ "provider" \notin faults
        BY <2>3 DEF Unless, Serial
      <3>2. /\ \A t \in Session \ {s} : pc[t] = "idle"
            /\ pc[s] # "idle" => Proper(s)
            /\ pc[s] # "idle" => Stays(s)
        BY <1>0, <2>1, <2>3, <3>1, AloneIs DEF SerialInv, Serial, StrayInv, Stays
      <3>3. \A t \in Session \ {s} : pc'[t] = "idle"
        BY <2>1, <3>2 DEF Others
      <3>4. (pc'[s] # "idle" => Stays(s)') /\ (pc'[s] = "idle" => NamedIn(bots', row'))
        <4>1. CASE Begins(s)
          <5>1. Free(s) /\ row' = row /\ bots' = bots
            BY <4>1, BeginsIs
          <5>2. Quiet
            BY <3>1, <5>1 DEF Free, Serial
          <5>3. NamedIn(bots, row)
            BY <1>0, <2>3, <5>2 DEF StrayInv
          <5> QED
            BY <4>1, <5>1, <5>3, BeginsStays
        <4>2. CASE Moves(s)
          BY <3>1, <3>2, <4>2, MovesIs, MovesStays
        <4>3. CASE Ends(s)
          BY <3>1, <3>2, <4>3, EndsIs, EndsStays
        <4> QED
          BY <1>3, <4>1, <4>2, <4>3
      <3>5. Named(row)' <=> NamedIn(bots', row')
        BY DEF Named, NamedIn
      <3>6. Named(Outcome(s))' <=> NamedIn(bots', Outcome(s)')
        BY DEF Named, NamedIn
      <3> QED
        BY <3>3, <3>4, <3>5, <3>6 DEF StrayInv, Stays, Quiet
    <2> QED
      BY <2>2, <2>3
  <1> QED
    BY <1>1, <1>2, <1>3, NextIs

-----------------------------------------------------------------------------
(* A meeting that vanished *)

VisitedIn(remotes, id) ==
    \E b \in Bot : remotes[b].meeting = id /\ remotes[b].state \notin {"absent", "waiting", "deleted"}

FinishedIn(remotes, id) == \E b \in Bot : remotes[b].meeting = id /\ Over(remotes[b].state)

StoriedIn(remotes, rw) ==
    /\ rw.bot # NoBot => remotes[rw.bot].meeting = rw.id
    /\ rw.status \notin {"pending", "scheduled", "cancelled"} => VisitedIn(remotes, rw.id)
    /\ rw.status \in Closed => FinishedIn(remotes, rw.id)

LEMMA StoriedIs ==
    /\ \A id : Visited(id) <=> VisitedIn(bots, id)
    /\ \A id : Finished(id) <=> FinishedIn(bots, id)
    /\ \A rw : Storied(rw) <=> StoriedIn(bots, rw)
  BY DEF Storied, StoriedIn, Visited, VisitedIn, Finished, FinishedIn

\* What happens to the bots.
BotsGo == Forth \/ \E b \in Bot, id \in 0 .. MaxRow : Booked(b, id)

LEMMA VisitedOn ==
    ASSUME NEW id, VisitedIn(bots, id), BotsGo PROVE VisitedIn(bots', id)
  BY DEF VisitedIn, BotsGo, Forth, Booked, Called

LEMMA FinishedOn ==
    ASSUME NEW id, FinishedIn(bots, id), BotsGo PROVE FinishedIn(bots', id)
  BY DEF FinishedIn, BotsGo, Forth, Booked, Over

LEMMA FinishedIs ==
    ASSUME NEW remotes, NEW id, FinishedIn(remotes, id) PROVE VisitedIn(remotes, id)
  BY DEF FinishedIn, VisitedIn, Over

LEMMA StoriedOn ==
    ASSUME NoteInv, NEW rw \in Row, rw.id = 0 => rw = NoRow, StoriedIn(bots, rw), BotsGo
    PROVE  StoriedIn(bots', rw)
  <1>1. rw.status \notin {"pending", "scheduled", "cancelled"} => VisitedIn(bots', rw.id)
    BY VisitedOn DEF StoriedIn
  <1>3. rw.status \in Closed => FinishedIn(bots', rw.id)
    BY FinishedOn DEF StoriedIn
  <1>2. rw.bot # NoBot => bots'[rw.bot].meeting = rw.id
    <2>1. SUFFICES ASSUME rw.bot # NoBot PROVE bots'[rw.bot].meeting = rw.id
      OBVIOUS
    <2>2. rw.bot \in Bot /\ rw.id # 0 /\ bots[rw.bot].meeting = rw.id
      BY <2>1, NoSesIs DEF StoriedIn, Row
    <2>3. bots[rw.bot].state # "absent"
      BY <2>2 DEF NoteInv, BotsOK
    <2> QED
      BY <2>2, <2>3 DEF BotsGo, Forth, Booked
  <1> QED
    BY <1>1, <1>2, <1>3 DEF StoriedIn

\* A row of a status that says nothing, and one of a meeting a bot was called in for.
LEMMA StoriedLike ==
    ASSUME NEW remotes, NEW new, NEW rw, StoriedIn(remotes, rw), new.id = rw.id,
           new.bot = rw.bot \/ new.bot = NoBot,
           new.status \in {"pending", "scheduled", "cancelled"} \/ FinishedIn(remotes, rw.id)
    PROVE  StoriedIn(remotes, new)
  BY FinishedIs DEF StoriedIn, Closed

\* VisitInv of a session at work, and of the tasks.
Tale(s) == StoriedIn(bots, ses[s].new) /\ (ses[s].op = "process" => FinishedIn(bots, ses[s].seen.id))
Tasks == \A i \in DOMAIN jobs : jobs[i].op = "process" => FinishedIn(bots, jobs[i].id)

LEMMA TasksOn ==
    ASSUME Tasks, BotsGo,
           \/ UNCHANGED jobs
           \/ JobsFrom
           \/ \E id : JobsPlus("join", id)
           \/ \E id : JobsPlus("process", id) /\ FinishedIn(bots, id)
    PROVE  Tasks'
  <1>1. \A id : FinishedIn(bots, id) => FinishedIn(bots', id)
    BY FinishedOn
  <1>2. CASE UNCHANGED jobs
    BY <1>1, <1>2 DEF Tasks
  <1>3. CASE JobsFrom
    BY <1>1, <1>3 DEF Tasks, JobsFrom
  <1>4. CASE \E id : JobsPlus("join", id)
    BY <1>1, <1>4 DEF Tasks, JobsPlus
  <1>5. CASE \E id : JobsPlus("process", id) /\ FinishedIn(bots, id)
    BY <1>1, <1>5 DEF Tasks, JobsPlus
  <1> QED
    BY <1>2, <1>3, <1>4, <1>5

LEMMA BeginsTale ==
    ASSUME NoteInv, NEW s \in Session, Begins(s), StoriedIn(bots, row), Tasks
    PROVE  Tasks' /\ (pc'[s] # "idle" => Tale(s)')
  <1> USE DEF At, Holds
  <1>0. /\ TypeOK /\ RowOK /\ WireOK /\ row \in Row /\ pc[s] = "idle" /\ row' = row /\ bots' = bots
        /\ ses[s] = NoSes /\ StoriedIn(bots, NoRow)
    <2>1. StoriedIn(bots, NoRow)
      BY NoSesIs DEF StoriedIn, Closed
    <2> QED
      BY <2>1, Same, BeginsIs, Where DEF Free
  <1>1. BotsGo
    BY <1>0, StillIs DEF BotsGo
  <1>2. ASSUME NEW new \in Row, ses'[s].new = new, ses'[s].op # "process", StoriedIn(bots, new)
        PROVE  Tale(s)'
    BY <1>0, <1>2 DEF Tale
  <1>3. UNCHANGED <<pc, ses>> => pc'[s] = "idle"
    BY <1>0
  <1>4. ASSUME NEW new \in Row, new.status = "pending", new.bot = NoBot PROVE StoriedIn(bots, new)
    BY <1>4 DEF StoriedIn, Closed
  <1>5. CASE BeginSweep(s)
    <2>1. jobs' = jobs
      BY <1>0, <1>5, SweepIs
    <2>2. CASE Holds(s, "sweep", NoRow, NoRow)
      BY <1>0, <1>1, <1>2, <2>1, <2>2, NoSesIs, TasksOn
    <2>3. ASSUME NEW new \in Row, Holds(s, "sweep", row, new), Made(new) \/ Restored(new) \/ new = row
          PROVE  Tale(s)'
      <3>1. CASE new = row
        BY <1>2, <2>3, <3>1
      <3>2. CASE new.status = "pending" /\ new.bot = NoBot
        BY <1>2, <1>4, <2>3, <3>2
      <3> QED
        BY <2>3, <3>1, <3>2 DEF Made, Restored
    <2> QED
      BY <1>0, <1>1, <1>5, <2>1, <2>2, <2>3, SweepIs, TasksOn
  <1>6. CASE BeginJoin(s)
    <2>1. JobsFrom /\ (UNCHANGED <<pc, ses>> \/ Holds(s, "join", row, row))
      BY <1>0, <1>6, JoinIs
    <2> QED
      BY <1>0, <1>1, <1>2, <1>3, <2>1, TasksOn
  <1>7. CASE BeginLink(s)
    <2>1. jobs' = jobs /\ \E new \in Row : /\ Holds(s, "enable", NoRow, new)
                                           /\ new.status = "pending" /\ new.bot = NoBot
      BY <1>0, <1>7, LinkIs
    <2> QED
      BY <1>1, <1>2, <1>4, <2>1, TasksOn
  <1>8. CASE BeginEnable(s)
    <2>1. jobs' = jobs
      BY <1>0, <1>8, EnableIs
    <2>2. PICK new \in Row :
            /\ Holds(s, "enable", row, new) /\ new.status = "pending"
            /\ \/ Made(new)
               \/ Restored(new)
               \/ row.id # 0 /\ new.id = row.id /\ row.status # "cancelled" /\ new.bot = row.bot
      BY <1>0, <1>8, EnableIs
    <2>3. StoriedIn(bots, new)
      <3>1. CASE new.bot = NoBot
        BY <1>4, <2>2, <3>1
      <3>2. CASE new.id = row.id /\ new.bot = row.bot
        BY <2>2, <3>2, StoriedLike
      <3> QED
        BY <2>2, <3>1, <3>2 DEF Made, Restored
    <2> QED
      BY <1>1, <1>2, <2>1, <2>2, <2>3, TasksOn
  <1>9. CASE BeginCancel(s)
    <2>1. jobs' = jobs
      BY <1>0, <1>9, CancelIs
    <2>2. PICK new \in Row :
            Holds(s, "cancel", row, new) /\ new.id = row.id /\ new.bot = row.bot /\ new.status = "cancelled"
      BY <1>0, <1>9, CancelIs
    <2>3. StoriedIn(bots, new)
      BY <2>2, StoriedLike
    <2> QED
      BY <1>1, <1>2, <2>1, <2>2, <2>3, TasksOn
  <1>10. CASE BeginDelete(s)
    <2>1. jobs' = jobs /\ Holds(s, "delete", row, NoRow)
      BY <1>0, <1>10, DeleteIs
    <2> QED
      BY <1>0, <1>1, <1>2, <2>1, NoSesIs, TasksOn
  <1>11. CASE BeginCallback(s)
    <2>1. CASE UNCHANGED <<pc, ses, jobs>>
      BY <1>1, <1>3, <2>1, TasksOn
    <2>2. ASSUME NEW b \in Bot, NEW new \in Row, row.id # 0, Called(bots[b].state),
                 bots[b].meeting = row.id \/ row.bot = b, Holds(s, "callback", row, new),
                 new.id = row.id, new.bot = IF row.bot = NoBot THEN b ELSE row.bot,
                 new.status \in {"failed", "recorded"} => Over(bots[b].state),
                 new.status \in {"joining", "recording", "failed", "ended", "recorded"},
                 UNCHANGED jobs \/ (JobsPlus("process", row.id) /\ new.status = "recorded")
          PROVE  Tasks' /\ Tale(s)'
      <3>1. bots[b].meeting = row.id
        BY <2>2 DEF StoriedIn
      <3>2. VisitedIn(bots, row.id)
        BY <2>2, <3>1 DEF VisitedIn, Called
      <3>5. new.status \in {"failed", "recorded"} => FinishedIn(bots, row.id)
        BY <2>2, <3>1 DEF FinishedIn
      <3>3. StoriedIn(bots, new)
        BY <2>2, <3>1, <3>2, <3>5 DEF StoriedIn, Closed
      <3>4. Tasks'
        BY <1>1, <2>2, <3>5, TasksOn
      <3> QED
        BY <1>2, <2>2, <3>3, <3>4
    <2> QED
      BY <1>0, <1>11, <2>1, <2>2, CallbackIs
  <1>12. CASE BeginProcess(s)
    <2>1. JobsFrom
      BY <1>0, <1>12, ProcessIs
    <2>2. CASE UNCHANGED <<pc, ses>>
      BY <1>1, <1>3, <2>1, <2>2, TasksOn
    <2>3. CASE /\ \E i \in DOMAIN jobs : jobs[i].op = "process" /\ jobs[i].id = row.id
               /\ Holds(s, "process", row, row)
      <3>1. FinishedIn(bots, row.id)
        BY <2>3 DEF Tasks
      <3>2. Tale(s)'
        BY <1>0, <2>3, <3>1 DEF Tale
      <3> QED
        BY <1>1, <2>1, <3>2, TasksOn
    <2> QED
      BY <1>0, <1>12, <2>2, <2>3, ProcessIs
  <1>13. CASE BeginUpload(s)
    <2>1. jobs' = jobs
      BY <1>0, <1>13, UploadIs
    <2>2. PICK new \in Row :
            /\ Holds(s, "upload", row, new) /\ new.status = "pending"
            /\ \/ Made(new)
               \/ Restored(new)
               \/ row.id # 0 /\ new.id = row.id /\ new.bot = row.bot
      BY <1>0, <1>13, UploadIs
    <2>3. StoriedIn(bots, new)
      <3>1. CASE new.bot = NoBot
        BY <1>4, <2>2, <3>1
      <3>2. CASE new.id = row.id /\ new.bot = row.bot
        BY <2>2, <3>2, StoriedLike
      <3> QED
        BY <2>2, <3>1, <3>2 DEF Made, Restored
    <2> QED
      BY <1>1, <1>2, <2>1, <2>2, <2>3, TasksOn
  <1> QED
    BY <1>5, <1>6, <1>7, <1>8, <1>9, <1>10, <1>11, <1>12, <1>13 DEF Begins

LEMMA MovesTale ==
    ASSUME NoteInv, NEW s \in Session, Proper(s), Moves(s), StoriedIn(bots, row), Tasks, Tale(s)
    PROVE  BotsGo /\ Tasks' /\ (pc'[s] # "idle" => Tale(s)')
  <1> USE DEF At, Holds
  <1>0. /\ TypeOK /\ row \in Row /\ RowOK /\ row' = row /\ Drafted(s)
        /\ ses[s].seen \in Row /\ ses[s].new \in Row /\ Outcome(s) \in Row
    BY Same, MovesIs, Where, LoadedIs DEF NoteInv
  <1>1. bots' = bots => BotsGo
    BY <1>0, StillIs DEF BotsGo
  <1>2. ASSUME Keeps(s), BotsGo PROVE Tale(s)'
    <2>1. StoriedIn(bots', ses[s].new)
      BY <1>0, <1>2, StoriedOn DEF Tale, Drafted
    <2>2. ses[s].op = "process" => FinishedIn(bots', ses[s].seen.id)
      BY <1>2, FinishedOn DEF Tale
    <2> QED
      BY <1>2, <2>1, <2>2 DEF Tale, Keeps
  <1>3. ASSUME NEW new \in Row, ses'[s].new = new, ses'[s].op # "process", StoriedIn(bots', new)
        PROVE  Tale(s)'
    BY <1>3 DEF Tale
  <1>4. StoriedIn(bots, Outcome(s)) /\ (Outcome(s).id = 0 => Outcome(s) = NoRow)
    BY <1>0 DEF Tale, Outcome, Drafted, RowOK
  \* what process drafts, of the meeting it has read
  <1>5. ASSUME NEW new \in Row, ses[s].op = "process", bots' = bots,
               ses'[s].op = "process", ses'[s].seen.id = ses[s].seen.id, ses'[s].new = new,
               new.id = ses[s].seen.id, new.bot = ses[s].seen.bot
        PROVE  Tale(s)'
    <2>1. ses[s].seen = row /\ FinishedIn(bots, row.id)
      BY <1>5 DEF Proper, Tale
    <2>2. StoriedIn(bots, new)
      BY <1>5, <2>1, StoriedLike
    <2> QED
      BY <1>5, <2>1, <2>2 DEF Tale
  <1>6. CASE Flush(s)
    <2>1. pc[s] = "flush" /\ bots' = bots /\ jobs' = jobs
      BY <1>6, FlushIs
    <2>2. ASSUME NEW new \in Row, ses[s].seen.id = 0, Holds(s, ses[s].op, ses[s].seen, new),
                 ses[s].new.id = born + 1 => new = ses[s].new
          PROVE  Tale(s)'
      <3>1. ses[s].new = [NoRow EXCEPT !.id = born + 1]
        BY <2>1, <2>2 DEF Proper
      <3>2. ses[s].new.id = born + 1
        BY <3>1, NoSesIs DEF Row
      <3> QED
        BY <2>1, <2>2, <3>2 DEF Tale
    <2>3. Tale(s)'
      BY <1>1, <1>2, <1>6, <2>1, <2>2, FlushIs
    <2> QED
      BY <1>1, <2>1, <2>3, TasksOn
  <1>7. CASE BookBot(s)
    <2>1. ses[s].op \in {"sweep", "join"} /\ jobs' = jobs
      BY <1>7, BookBotIs, Where
    <2>2. ASSUME NEW b \in Bot, NEW new \in Row, Booked(b, Outcome(s).id),
                 Holds(s, ses[s].op, LSeen(s), new), new.id = Outcome(s).id, new.bot = b,
                 new.status = "scheduled"
          PROVE  BotsGo /\ Tale(s)'
      <3>1. StoriedIn(bots', new)
        BY <2>2 DEF StoriedIn, Booked, Closed
      <3>2. Outcome(s).id \in 0 .. MaxRow
        BY <1>0 DEF Row
      <3> QED
        BY <1>3, <2>1, <2>2, <3>1, <3>2 DEF BotsGo
    <2>3. BotsGo /\ Tale(s)'
      BY <1>1, <1>2, <1>7, <2>2, BookBotIs
    <2> QED
      BY <2>1, <2>3, TasksOn
  <1>8. CASE RecallVanished(s)
    <2>1. ses[s].op = "sweep" /\ jobs' = jobs /\ BotsGo
      BY <1>8, RecallVanishedIs, Where DEF BotsGo
    <2>2. ASSUME NEW new \in Row, Holds(s, ses[s].op, LSeen(s), new), new.id = Outcome(s).id,
                 new.bot = Outcome(s).bot, new.status = "cancelled"
          PROVE  Tale(s)'
      <3>1. StoriedIn(bots', Outcome(s))
        BY <1>0, <1>4, <2>1, StoriedOn
      <3>2. StoriedIn(bots', new)
        BY <2>2, <3>1, StoriedLike
      <3> QED
        BY <1>3, <2>1, <2>2, <3>2
    <2>3. Tale(s)'
      BY <1>2, <1>8, <2>1, <2>2, RecallVanishedIs
    <2> QED
      BY <2>1, <2>3, TasksOn
  <1>9. CASE QueueJoin(s)
    <2>1. Keeps(s) /\ bots' = bots /\ JobsPlus("join", ses[s].new.id)
      BY <1>9, QueueJoinIs
    <2>2. BotsGo /\ Tasks'
      BY <1>1, <2>1, TasksOn
    <2> QED
      BY <1>2, <2>1, <2>2
  <1>10. CASE StopBot(s)
    <2>1. BotsGo /\ jobs' = jobs /\ (Keeps(s) \/ pc'[s] = "idle")
      BY <1>10, StopBotIs DEF BotsGo, Ended
    <2>2. Tasks'
      BY <2>1, TasksOn
    <2> QED
      BY <1>2, <2>1, <2>2
  <1>11. CASE Fetch(s)
    <2>1. ses[s].op = "process" /\ bots' = bots /\ jobs' = jobs
      BY <1>11, FetchIs, Where
    <2>2. PICK new \in Row :
            Holds(s, ses[s].op, ses[s].seen, new) /\ new.id = ses[s].new.id /\ new.bot = ses[s].new.bot
      BY <1>11, FetchIs
    <2>3. new.id = ses[s].seen.id /\ new.bot = ses[s].seen.bot
      BY <1>0, <2>1, <2>2 DEF Drafted, Proper
    <2>4. Tale(s)'
      BY <1>5, <2>1, <2>2, <2>3
    <2> QED
      BY <1>1, <2>1, <2>4, TasksOn
  <1>12. CASE NotRecorded(s) \/ FetchFails(s)
    <2>1. /\ ses[s].op = "process" /\ bots' = bots
          /\ \/ UNCHANGED jobs /\ Gives(s)
             \/ JobsPlus("process", ses[s].seen.id) /\ Ended(s)
      BY <1>0, <1>12, NotRecordedIs, FetchFailsIs, Where
    <2>2. Tasks'
      BY <1>1, <2>1, TasksOn DEF Tale
    <2>3. ASSUME NEW new \in Row, Holds(s, "process", row, new), new.id = row.id, new.bot = row.bot
          PROVE  Tale(s)'
      BY <1>5, <2>1, <2>3 DEF Proper
    <2>4. pc'[s] # "idle" => Tale(s)'
      BY <2>1, <2>3 DEF Gives, Ended
    <2> QED
      BY <1>1, <2>1, <2>2, <2>4
  <1>13. CASE SendRecap(s)
    <2>1. ses[s].op = "process" /\ bots' = bots /\ jobs' = jobs
      BY <1>13, SendRecapIs, Where
    <2>2. ASSUME NEW new \in Row, Holds(s, ses[s].op, ses[s].seen, new),
                 new.id = ses[s].new.id, new.bot = ses[s].new.bot
          PROVE  Tale(s)'
      <3>1. new.id = ses[s].seen.id /\ new.bot = ses[s].seen.bot
        BY <1>0, <2>1, <2>2 DEF Drafted, Proper
      <3> QED
        BY <1>5, <2>1, <2>2, <3>1
    <2>3. Tale(s)'
      BY <1>1, <1>2, <1>13, <2>1, <2>2, SendRecapIs
    <2> QED
      BY <1>1, <2>1, <2>3, TasksOn
  <1> QED
    BY <1>6, <1>7, <1>8, <1>9, <1>10, <1>11, <1>12, <1>13 DEF Moves

LEMMA EndsTale ==
    ASSUME NoteInv, NEW s \in Session, Proper(s), Ends(s), StoriedIn(bots, row), Tale(s)
    PROVE  StoriedIn(bots', row')
  <1>1. bots' = bots
    BY EndsIs
  <1>2. CASE row' = row
    BY <1>1, <1>2
  <1>3. CASE Commit(s)
    <2>1. row' = IF ses[s].op = "delete" THEN NoRow ELSE Outcome(s)
      BY <1>3, CommitAlone
    <2>2. StoriedIn(bots, NoRow)
      BY NoSesIs DEF StoriedIn, Closed
    <2>3. StoriedIn(bots, Outcome(s))
      BY DEF Tale, Outcome
    <2> QED
      BY <1>1, <2>1, <2>2, <2>3
  <1> QED
    BY <1>2, <1>3, EndsIs

LEMMA VisitInit == Init => VisitInv
  <1> SUFFICES ASSUME Init PROVE VisitInv
    OBVIOUS
  <1>1. Storied(row)
    BY NoSesIs DEF Init, Storied, Closed
  <1> QED
    BY <1>1 DEF Init, VisitInv

\* VisitInv in the terms of the lemmas.
LEMMA VisitIs ==
    VisitInv <=> (Serial => /\ StoriedIn(bots, row) /\ Tasks
                            /\ \A s \in Session : pc[s] # "idle" => Tale(s))
  BY StoriedIs DEF VisitInv, Serial, Tasks, Tale

LEMMA VisitStep == NoteInv /\ SerialInv /\ VisitInv /\ [Next]_vars => VisitInv'
  <1> SUFFICES ASSUME NoteInv, SerialInv, VisitInv, [Next]_vars PROVE VisitInv'
    OBVIOUS
  <1>0. faults' = faults
    BY FaultsKept
  <1>1. CASE ~Serial
    BY <1>0, <1>1 DEF VisitInv, Serial
  <1>2. CASE Serial
    <2>1. StoriedIn(bots, row) /\ Tasks /\ \A s \in Session : pc[s] # "idle" => Tale(s)
      BY <1>2, VisitIs
    <2>2. RowOK /\ row \in Row /\ TypeOK
      BY Same
    <2>3. ASSUME StoriedIn(bots', row'), Tasks', \A s \in Session : pc'[s] # "idle" => Tale(s)'
          PROVE  VisitInv'
      <3>1. /\ \A id : Finished(id)' <=> FinishedIn(bots', id')
            /\ Storied(row)' <=> StoriedIn(bots', row')
            /\ \A s \in Session : Storied(ses[s].new)' <=> StoriedIn(bots', ses'[s].new)
        BY DEF Storied, StoriedIn, Visited, VisitedIn, Finished, FinishedIn
      <3> QED
        BY <2>3, <3>1 DEF VisitInv, Tasks, Tale, Finished, FinishedIn
    <2>4. ASSUME BotsGo, UNCHANGED <<row, jobs, pc, ses>> PROVE VisitInv'
      <3>1. StoriedIn(bots', row') /\ Tasks'
        BY <2>1, <2>2, <2>4, StoriedOn, TasksOn DEF RowOK
      <3>2. ASSUME NEW s \in Session, pc'[s] # "idle" PROVE Tale(s)'
        <4>1. Tale(s) /\ ses[s].new \in Row /\ (ses[s].new.id = 0 => ses[s].new = NoRow)
          BY <2>1, <2>4, <3>2, Where DEF NoteInv, Drafted
        <4>2. StoriedIn(bots', ses[s].new) /\ (ses[s].op = "process" => FinishedIn(bots', ses[s].seen.id))
          BY <2>4, <4>1, StoriedOn, FinishedOn DEF Tale
        <4> QED
          BY <2>4, <4>2 DEF Tale
      <3> QED
        BY <2>3, <3>1, <3>2
    <2>5. CASE UNCHANGED vars
      BY <2>2, <2>4, <2>5, StillIs DEF vars, BotsGo
    <2>6. CASE Passes
      BY <2>2, <2>4, <2>6, StillIs DEF Passes, BotsGo
    <2>7. ASSUME NEW s \in Session, Begins(s) \/ Moves(s) \/ Ends(s) PROVE VisitInv'
      <3>1. Others(s) /\ (pc[s] # "idle" \/ Free(s))
        BY <2>7, BeginsIs, MovesIs, EndsIs
      <3>2. /\ \A t \in Session \ {s} : pc'[t] = "idle"
            /\ pc[s] # "idle" => Proper(s) /\ Tale(s)
        BY <1>2, <2>1, <3>1, AloneIs DEF Others, SerialInv, Serial
      <3>3. StoriedIn(bots', row') /\ Tasks' /\ (pc'[s] # "idle" => Tale(s)')
        <4>1. CASE Begins(s)
          BY <2>1, <4>1, BeginsIs, BeginsTale
        <4>2. CASE Moves(s)
          <5>1. BotsGo /\ Tasks' /\ (pc'[s] # "idle" => Tale(s)') /\ row' = row
            BY <2>1, <3>2, <4>2, MovesIs, MovesTale
          <5> QED
            BY <2>1, <2>2, <5>1, StoriedOn DEF RowOK
        <4>3. CASE Ends(s)
          <5>1. pc[s] # "idle" /\ pc'[s] = "idle" /\ jobs' = jobs /\ bots' = bots
            BY <4>3, EndsIs DEF Ended, At
          <5>2. BotsGo
            BY <2>2, <5>1, StillIs DEF BotsGo
          <5> QED
            BY <2>1, <3>2, <4>3, <5>1, <5>2, EndsTale, TasksOn
        <4> QED
          BY <2>7, <4>1, <4>2, <4>3
      <3> QED
        BY <2>3, <3>2, <3>3
    <2> QED
      BY <2>5, <2>6, <2>7, NextIs
  <1> QED
    BY <1>1, <1>2

\* SweptInv of a session: it did not see the event, and has done what it had to.
Missed(s) == ses[s].op = "sweep" /\ ~ses[s].here
Sweeps(s) == Missed(s) => pc[s] # "flush" /\ Swept(s)

LEMMA BeginsSweeps ==
    ASSUME NoteInv, NEW s \in Session, Begins(s) PROVE Sweeps(s)'
  <1> USE DEF At, Holds
  <1>0. TypeOK /\ RowOK /\ WireOK /\ ses[s] = NoSes /\ pc[s] = "idle"
    BY Same, BeginsIs, Where DEF Free
  <1>1. ASSUME ses'[s].op # "sweep" PROVE Sweeps(s)'
    BY <1>1 DEF Sweeps, Missed
  <1>2. UNCHANGED ses => ses'[s].op # "sweep"
    BY <1>0, NoSesIs
  <1>3. CASE BeginSweep(s)
    <2>1. \/ Holds(s, "sweep", NoRow, NoRow) /\ At(s, "book")
          \/ ses'[s].here
      BY <1>0, <1>3, SweepIs
    <2> QED
      BY <2>1, NoSesIs DEF Sweeps, Missed, Swept
  <1>4. CASE BeginJoin(s)
    BY <1>0, <1>1, <1>2, <1>4, JoinIs
  <1>5. CASE BeginLink(s)
    BY <1>0, <1>1, <1>5, LinkIs
  <1>6. CASE BeginEnable(s)
    BY <1>0, <1>1, <1>6, EnableIs
  <1>7. CASE BeginCancel(s)
    BY <1>0, <1>1, <1>7, CancelIs
  <1>8. CASE BeginDelete(s)
    BY <1>0, <1>1, <1>8, DeleteIs
  <1>9. CASE BeginCallback(s)
    BY <1>0, <1>1, <1>2, <1>9, CallbackIs
  <1>10. CASE BeginProcess(s)
    BY <1>0, <1>1, <1>2, <1>10, ProcessIs
  <1>11. CASE BeginUpload(s)
    BY <1>0, <1>1, <1>11, UploadIs
  <1> QED
    BY <1>3, <1>4, <1>5, <1>6, <1>7, <1>8, <1>9, <1>10, <1>11 DEF Begins

LEMMA MovesSweeps ==
    ASSUME NoteInv, NEW s \in Session, Proper(s), Moves(s), Sweeps(s) PROVE Sweeps(s)'
  <1> USE DEF At, Holds, Keeps
  <1>0. TypeOK /\ RowOK /\ row' = row /\ UNCHANGED world
    BY Same, MovesIs
  <1>1. ASSUME ses'[s].op # "sweep" PROVE Sweeps(s)'
    BY <1>1 DEF Sweeps, Missed
  <1>3. CASE Flush(s)
    <2>1. pc[s] = "flush" /\ ses'[s].op = ses[s].op /\ ses'[s].here = ses[s].here
      BY <1>3, FlushIs
    <2> QED
      BY <2>1 DEF Sweeps, Missed
  <1>4. CASE BookBot(s)
    <2>1. /\ pc[s] = "book" /\ ses'[s].op = ses[s].op /\ ses'[s].here = ses[s].here
          /\ pc'[s] = IF ses[s].op = "sweep" THEN "recall" ELSE "commit"
      BY <1>4, BookBotIs
    <2>2. SUFFICES ASSUME Missed(s) PROVE Sweeps(s)'
      BY <2>1 DEF Sweeps, Missed
    <2>3. ses[s].op = "sweep" /\ ses[s].new = NoRow /\ pc'[s] = "recall"
      BY <2>1, <2>2 DEF Sweeps, Missed, Swept
    <2>4. ses'[s].new = ses[s].new \/ Awaiting(Visible(s))
      BY <1>4, <2>3, BookBotIs
    <2>5. Visible(s) = row
      BY <2>3, LoadedAlone, NoSesIs DEF Outcome
    <2>6. ses'[s].new.id = 0 \/ row'.status = "pending"
      BY <1>0, <2>3, <2>4, <2>5, NoSesIs DEF Awaiting
    <2> QED
      BY <2>3, <2>6 DEF Sweeps, Swept
  <1>5. CASE RecallVanished(s)
    <2>1. /\ pc[s] = "recall" /\ pc'[s] = "commit" /\ ses'[s].op = ses[s].op
          /\ ses'[s].here = ses[s].here
      BY <1>5, RecallVanishedIs
    <2>2. SUFFICES ASSUME Missed(s), Calendar, Upcoming
                   PROVE  /\ row.status \in ActiveStatuses
                               => ses'[s].new.id = row.id /\ row.id # 0 /\ ses'[s].new.status = "cancelled"
                          /\ row.status \notin ActiveStatuses \cup {"pending"} => ses'[s].new.id = 0
      BY <1>0, <2>1 DEF Sweeps, Missed, Swept, world, Calendar, Upcoming
    <2>3. ses[s].new.id = 0 \/ row.status = "pending"
      BY <2>1, <2>2 DEF Sweeps, Swept
    <2>4. row.id = 0 => row.status = "pending"
      BY <1>0, NoSesIs DEF RowOK
    <2>5. "pending" \notin ActiveStatuses
      BY DEF ActiveStatuses
    <2>6. Vanished(s) <=> row.status \in ActiveStatuses
      BY <2>2, <2>4, <2>5 DEF Vanished, Missed
    <2>7. CASE row.status \in ActiveStatuses
      <3>1. ses[s].new.id = 0 /\ Outcome(s) = row /\ row.id # 0
        BY <2>3, <2>4, <2>5, <2>7 DEF Outcome
      <3>2. \E new \in Row : ses'[s].new = new /\ new.id = Outcome(s).id /\ new.status = "cancelled"
        BY <1>5, <2>6, <2>7, <3>1, RecallVanishedIs
      <3> QED
        BY <2>7, <3>1, <3>2
    <2>8. CASE row.status \notin ActiveStatuses
      <3>1. ses'[s] = ses[s]
        BY <1>5, <2>6, <2>8, RecallVanishedIs
      <3> QED
        BY <2>3, <2>8, <3>1
    <2> QED
      BY <2>7, <2>8
  <1>6. CASE QueueJoin(s) \/ StopBot(s)
    <2>1. ses[s].op # "sweep" /\ (ses'[s] = ses[s] \/ ses'[s] = NoSes)
      BY <1>6, QueueJoinIs, StopBotIs, Where DEF Ended
    <2> QED
      BY <1>1, <2>1, NoSesIs
  <1>7. CASE Fetch(s) \/ SendRecap(s)
    <2>1. ses[s].op # "sweep" /\ ses'[s].op = ses[s].op
      BY <1>7, FetchIs, SendRecapIs, Where
    <2> QED
      BY <1>1, <2>1
  <1>8. CASE NotRecorded(s) \/ FetchFails(s)
    <2>1. Gives(s) \/ Ended(s)
      BY <1>0, <1>8, NotRecordedIs, FetchFailsIs
    <2> QED
      BY <1>1, <2>1, NoSesIs DEF Gives, Ended
  <1> QED
    BY <1>3, <1>4, <1>5, <1>6, <1>7, <1>8 DEF Moves

LEMMA SweptInit == Init => SweptInv
  BY NoSesIs DEF Init, SweptInv

LEMMA SweptStep == NoteInv /\ SerialInv /\ SweptInv /\ [Next]_vars => SweptInv'
  <1> SUFFICES ASSUME NoteInv, SerialInv, SweptInv, [Next]_vars PROVE SweptInv'
    OBVIOUS
  <1>0. faults' = faults
    BY FaultsKept
  <1>1. CASE ~Unless({"overlap", "crash", "provider"})
    BY <1>0, <1>1 DEF SweptInv, Unless
  <1>2. CASE Unless({"overlap", "crash", "provider"})
    <2>1. Serial /\ \A s \in Session : Sweeps(s)
      BY <1>2 DEF Serial, Unless, SweptInv, Sweeps, Missed
    <2>2. ASSUME \A s \in Session : Sweeps(s)' PROVE SweptInv'
      BY <2>2 DEF SweptInv, Sweeps, Missed
    <2>3. ASSUME UNCHANGED <<row, pc, ses>>, Upcoming' => Upcoming, NEW s \in Session PROVE Sweeps(s)'
      BY <1>0, <2>1, <2>3 DEF Sweeps, Missed, Swept, Calendar
    <2>4. CASE UNCHANGED vars
      BY <2>2, <2>3, <2>4 DEF vars, Upcoming
    <2>5. CASE Passes
      <3>1. Upcoming' => Upcoming
        <4>1. clock \in Nat /\ clock' \in Nat /\ clock' >= clock
          BY <2>5, Same DEF Passes, TypeOK
        <4> QED
          BY <4>1 DEF Upcoming
      <3> QED
        BY <2>2, <2>3, <2>5, <3>1 DEF Passes
    <2>6. ASSUME NEW s \in Session, Begins(s) \/ Moves(s) \/ Ends(s) PROVE SweptInv'
      <3>1. Others(s) /\ (pc[s] # "idle" \/ Free(s))
        BY <2>6, BeginsIs, MovesIs, EndsIs
      <3>2. /\ \A t \in Session \ {s} : pc[t] = "idle"
            /\ pc[s] # "idle" => Proper(s)
        BY <2>1, <3>1, AloneIs DEF SerialInv, Serial
      <3>3. \A t \in Session \ {s} : Sweeps(t)'
        <4>1. \A t \in Session \ {s} : ses'[t] = NoSes
          BY <3>1, <3>2, Where DEF Others
        <4> QED
          BY <4>1, NoSesIs DEF Sweeps, Missed
      <3>4. Sweeps(s)'
        <4>1. CASE Begins(s)
          BY <4>1, BeginsSweeps
        <4>2. CASE Moves(s)
          BY <2>1, <3>2, <4>2, MovesIs, MovesSweeps
        <4>3. CASE Ends(s)
          <5>1. ses'[s] = NoSes
            BY <4>3, EndsIs DEF Ended
          <5> QED
            BY <5>1, NoSesIs DEF Sweeps, Missed
        <4> QED
          BY <2>6, <4>1, <4>2, <4>3
      <3> QED
        BY <2>2, <3>3, <3>4
    <2> QED
      BY <2>4, <2>5, <2>6, NextIs
  <1> QED
    BY <1>1, <1>2

LEMMA VanishedOnce ==
    ASSUME NoteInv, SerialInv, StrayInv, VisitInv, SweptInv, NEW s \in Session,
           pc[s] = "commit", ses[s].op = "sweep", Calendar, Upcoming, ~ses[s].here,
           Unless({"overlap", "crash", "provider"}), ~Haunted, row.status # "pending"
    PROVE  \A b \in Bot : bots[b].meeting = row.id => bots[b].state # "waiting"
  <1>1. Swept(s) /\ Named(Outcome(s)) /\ Serial
    BY DEF SweptInv, StrayInv, Unless, Serial
  <1>2. CASE row.status \in ActiveStatuses
    <2>1. ses[s].new.id = row.id /\ ses[s].new.status = "cancelled" /\ Outcome(s) = ses[s].new
      BY <1>1, <1>2 DEF Swept, Outcome
    <2> QED
      BY <1>1, <2>1 DEF Named, Live
  <1>3. CASE row.status \notin ActiveStatuses
    <2>1. Outcome(s) = row
      BY <1>1, <1>3 DEF Swept, Outcome
    <2>2. SUFFICES ASSUME NEW b \in Bot, bots[b].meeting = row.id, bots[b].state = "waiting" PROVE FALSE
      OBVIOUS
    <2>3. row.bot = b /\ row.status # "cancelled"
      BY <1>1, <2>1, <2>2 DEF Named, Live
    <2>4. Visited(row.id)
      BY <1>1, <1>3, <2>3 DEF VisitInv, Serial, Storied, ActiveStatuses
    <2>5. PICK c \in Bot : bots[c].meeting = row.id /\ bots[c].state \notin {"absent", "waiting", "deleted"}
      BY <2>4 DEF Visited
    <2> QED
      BY <2>2, <2>3, <2>5 DEF Haunted
  <1> QED
    BY <1>2, <1>3

\* A sweep that does not find the event before it starts has left no bot waiting for it
\* when it commits: the bot its row names was deleted at the provider, and no other waits.
THEOREM VanishedMeetingRecalled == Spec => VanishedIsRecalled
  <1>1. NoteInv /\ SerialInv /\ StrayInv /\ VisitInv /\ SweptInv /\ [Next]_vars
        => [\A s \in Session :
              /\ pc[s] = "commit" /\ pc'[s] = "idle" /\ ses[s].op = "sweep"
              /\ Calendar /\ Upcoming /\ ~ses[s].here
              /\ faults \cap {"overlap", "crash", "provider"} = {}
              /\ ~Haunted /\ row.status # "pending"
              => \A b \in Bot : bots[b].meeting = row.id => bots[b].state # "waiting"]_vars
    BY VanishedOnce DEF Unless
  <1> QED
    BY <1>1, InitTyped, StepTyped, SerialInit, SerialStep, StrayInit, StrayStep, VisitInit, VisitStep,
       SweptInit, SweptStep, PTL DEF Spec, VanishedIsRecalled
-----------------------------------------------------------------------------
(* The bots that are left *)

StandsIn(remotes, kept, id) ==
    \A b \in Bot : remotes[b].state \in Live => b \in kept \/ remotes[b].meeting = id

LEMMA StandsForth ==
    ASSUME NEW id, StandsIn(bots, spared, id), Forth PROVE StandsIn(bots', spared, id)
  BY DEF StandsIn, Forth

LEMMA StandsBooked ==
    ASSUME NEW id, StandsIn(bots, spared, id), NEW b \in Bot, Booked(b, id)
    PROVE  StandsIn(bots', spared, id)
  BY DEF StandsIn, Booked

\* With no row, the live bots are all spared.
LEMMA StandsBare ==
    ASSUME NoteInv, StandsIn(bots, spared, 0), NEW id PROVE StandsIn(bots, spared, id)
  BY DEF StandsIn, NoteInv, BotsOK, Live

LEMMA DesertsForth ==
    ASSUME NoteInv, Forth, Deserts, row.id # 0, UNCHANGED <<row, spared>>
    PROVE  Deserts'
  <1>1. Haunted => Haunted'
    <2>1. SUFFICES ASSUME Haunted PROVE Haunted'
      OBVIOUS
    <2>2. PICK b \in Bot : bots[b].meeting = row.id /\ row.bot # b /\ bots[b].state \notin {"waiting", "deleted"}
      BY <2>1 DEF Haunted
    <2>3. bots[b].state # "absent"
      BY <2>2 DEF NoteInv, BotsOK
    <2>4. bots'[b].meeting = row'.id /\ row'.bot # b /\ bots'[b].state \notin {"waiting", "deleted"}
      BY <2>2, <2>3 DEF Forth, Called
    <2> QED
      BY <2>4 DEF Haunted
  <1>2. ASSUME NEW b \in Bot, bots'[b].state \in Live, bots'[b].meeting = row'.id
        PROVE  \/ b \in spared'
               \/ row'.bot = b /\ (row'.status = "pending" \/ (row'.status \notin ActiveStatuses /\ Haunted'))
    <2>1. bots[b].state \in Live /\ bots[b].meeting = row.id
      BY <1>2 DEF Forth
    <2> QED
      BY <1>1, <2>1 DEF Deserts
  <1> QED
    BY <1>2 DEF Deserts

\* SpareInv of a session at work.
Settles(s) ==
    /\ ses[s].op = "delete" \/ pc[s] \in {"flush", "fetch"} => StandsIn(bots, spared, row.id)
    /\ ses[s].op # "delete" => StandsIn(bots, spared, Outcome(s).id)
    /\ ses[s].op = "delete" /\ pc[s] = "commit" => Deserts

\* A deletion goes to its commit at once when it takes the meeting to have no bot.
LEMMA BeginsLeaves ==
    ASSUME NoteInv, NEW s \in Session, Begins(s), ses'[s].op = "delete", pc'[s] = "commit"
    PROVE  row.bot = NoBot \/ row.status \notin ActiveStatuses
  <1>0. TypeOK /\ RowOK /\ WireOK /\ ses[s] = NoSes /\ pc[s] = "idle"
    BY Same, BeginsIs, Where DEF Free
  <1>1. BeginDelete(s)
    BY <1>0, NoSesIs, SweepIs, JoinIs, LinkIs, EnableIs, UploadIs, CancelIs, CallbackIs, ProcessIs
       DEF Begins, Holds
  <1>2. pc' = [pc EXCEPT ![s] = IF row.bot # NoBot /\ row.status \in ActiveStatuses THEN "stop" ELSE "commit"]
    BY <1>1 DEF BeginDelete, Start, Goto
  <1> QED
    BY <1>0, <1>2 DEF TypeOK

LEMMA BeginsSettles ==
    ASSUME NoteInv, NEW s \in Session, Begins(s), pc'[s] # "idle", NamedIn(bots, row), StoriedIn(bots, row),
           StandsIn(bots, spared, row.id)
    PROVE  Settles(s)'
  <1>1. /\ row' = row /\ bots' = bots /\ spared' = spared /\ Proper(s)'
        /\ TypeOK /\ RowOK /\ WireOK /\ row \in Row
    BY BeginsIs, BeginsProper, Same
  <1>2. /\ Drafted(s)' /\ RowOK'
        /\ ses'[s].seen = row \/ (ses'[s].seen = NoRow /\ ses'[s].new = NoRow)
    <2>1. Drafted(s)' /\ RowOK'
      BY BeginsTyped DEF NoteInv
    <2> QED
      BY <1>1, <2>1 DEF Proper
  <1>3. ASSUME ses'[s].op # "delete" PROVE StandsIn(bots, spared, Outcome(s)'.id)
    <2>1. CASE ses'[s].new.id = 0
      BY <1>1, <2>1 DEF Outcome
    <2>2. CASE ses'[s].new.id # 0 /\ row.id # 0
      <3>1. ses'[s].new.id = row.id
        BY <1>2, <1>3, <2>2, NoSesIs DEF Drafted
      <3> QED
        BY <2>2, <3>1 DEF Outcome
    <2>3. CASE row.id = 0
      BY <2>3, StandsBare
    <2> QED
      BY <2>1, <2>2, <2>3
  <1>4. ASSUME ses'[s].op = "delete", pc'[s] = "commit" PROVE Deserts'
    <2>1. row.bot = NoBot \/ row.status \notin ActiveStatuses
      BY <1>1, <1>4, BeginsLeaves
    <2>2. ASSUME NEW b \in Bot, bots[b].state \in Live, bots[b].meeting = row.id
          PROVE  row.bot = b /\ (row.status = "pending" \/ (row.status \notin ActiveStatuses /\ Haunted))
      <3>1. row.bot = b /\ row.status # "cancelled" /\ row.status \notin ActiveStatuses
        BY <2>1, <2>2 DEF NamedIn
      <3>2. CASE row.status = "pending"
        BY <3>1, <3>2
      <3>3. CASE row.status \in Closed
        <4>1. PICK c \in Bot : bots[c].meeting = row.id /\ Over(bots[c].state)
          BY <3>3 DEF StoriedIn, FinishedIn
        <4>2. c # b /\ bots[c].state \notin {"waiting", "deleted"}
          BY <2>2, <4>1 DEF Over, Live
        <4> QED
          BY <3>1, <4>1, <4>2 DEF Haunted
      <3>4. row.status \in Status
        BY <1>1 DEF Row
      <3> QED
        BY <3>1, <3>2, <3>3, <3>4 DEF Status, ActiveStatuses, Closed
    <2>3. Deserts
      BY <2>2 DEF Deserts
    <2>4. Haunted' <=> Haunted
      BY <1>1 DEF Haunted
    <2> QED
      BY <1>1, <2>3, <2>4 DEF Deserts
  <1>5. /\ StandsIn(bots', spared', row'.id)
        /\ ses'[s].op # "delete" => StandsIn(bots', spared', Outcome(s)'.id)
        /\ ses'[s].op = "delete" /\ pc'[s] = "commit" => Deserts'
    BY <1>1, <1>3, <1>4
  <1> QED
    BY <1>5 DEF Settles

LEMMA MovesSettles ==
    ASSUME NoteInv, NEW s \in Session, Proper(s), Moves(s), "provider" \notin faults, Stays(s), Settles(s),
           pc'[s] # "idle"
    PROVE  Settles(s)'
  <1> USE DEF At, Holds, Keeps
  <1>0. /\ TypeOK /\ WireOK /\ row \in Row /\ RowOK /\ row' = row /\ spared' = spared /\ Drafted(s)
        /\ ses[s].seen \in Row /\ ses[s].new \in Row
    BY Same, MovesIs, Where DEF NoteInv
  <1>1. bots' = bots => Forth
    BY <1>0, StillIs
  \* a move that leaves the row it has to the bots of its meeting
  <1>2. ASSUME ses[s].op # "delete", ses'[s].op = ses[s].op, pc'[s] \notin {"flush", "fetch"},
               Outcome(s)'.id = Outcome(s).id,
               Forth \/ \E b \in Bot : Booked(b, Outcome(s).id)
        PROVE  Settles(s)'
    <2>1. StandsIn(bots, spared, Outcome(s).id)
      BY <1>2 DEF Settles
    <2>2. StandsIn(bots', spared', Outcome(s)'.id)
      BY <1>0, <1>2, <2>1, StandsForth, StandsBooked
    <2> QED
      BY <1>2, <2>2 DEF Settles
  <1>3. ASSUME Keeps(s), ses[s].op # "delete", pc'[s] \notin {"flush", "fetch"}, Forth PROVE Settles(s)'
    <2>1. Outcome(s)' = Outcome(s)
      BY <1>0, <1>3 DEF Outcome
    <2> QED
      BY <1>2, <1>3, <2>1
  <1>4. ASSUME NEW new \in Row, ses'[s].new = new, new.id = Outcome(s).id
        PROVE  Outcome(s)'.id = Outcome(s).id
    BY <1>0, <1>4 DEF Outcome
  <1>5. ses[s].op = "process" => Outcome(s) = ses[s].new /\ ses[s].new.id # 0 /\ ses[s].seen = row
                                   /\ ses[s].new.id = row.id
    BY <1>0 DEF Drafted, Outcome, Proper
  <1>6. CASE Flush(s)
    <2>1. /\ pc[s] = "flush" /\ bots' = bots /\ pc'[s] \in {"queue", "commit", "book"}
          /\ ses[s].op \in {"sweep", "enable", "upload"} /\ ses[s].new.id # 0 /\ ses'[s].op = ses[s].op
      BY <1>0, <1>6, FlushIs, Where DEF After, Drafted
    <2>2. ASSUME NEW new \in Row, Holds(s, ses[s].op, ses[s].seen, new), new.id = born + 1, ses[s].seen.id = 0
          PROVE  Outcome(s)'.id = Outcome(s).id
      <3>1. ses[s].new = [NoRow EXCEPT !.id = born + 1]
        BY <2>1, <2>2 DEF Proper
      <3>2. ses[s].new.id = born + 1
        BY <3>1, NoSesIs DEF Row
      <3> QED
        BY <1>4, <2>1, <2>2, <3>2 DEF Outcome
    <2>3. CASE Keeps(s)
      BY <1>1, <1>3, <2>1, <2>3
    <2> QED
      BY <1>1, <1>2, <1>6, <2>1, <2>2, <2>3, FlushIs
  <1>7. CASE BookBot(s)
    <2>1. /\ pc[s] = "book" /\ ses[s].op \in {"sweep", "join"} /\ pc'[s] \in {"recall", "commit"}
          /\ ses'[s].op = ses[s].op
      BY <1>7, BookBotIs, Where
    <2>2. ASSUME NEW b \in Bot, NEW new \in Row, Booked(b, Outcome(s).id),
                 Holds(s, ses[s].op, LSeen(s), new), new.id = Outcome(s).id
          PROVE  Settles(s)'
      BY <1>2, <1>4, <2>1, <2>2
    <2> QED
      BY <1>1, <1>3, <1>7, <2>1, <2>2, BookBotIs
  <1>8. CASE RecallVanished(s)
    <2>1. pc[s] = "recall" /\ ses[s].op = "sweep" /\ pc'[s] = "commit" /\ Forth /\ ses'[s].op = ses[s].op
      BY <1>8, RecallVanishedIs, Where
    <2>2. ASSUME NEW new \in Row, Holds(s, ses[s].op, LSeen(s), new), new.id = Outcome(s).id
          PROVE  Settles(s)'
      BY <1>2, <1>4, <2>1, <2>2
    <2> QED
      BY <1>3, <1>8, <2>1, <2>2, RecallVanishedIs
  <1>9. CASE QueueJoin(s)
    BY <1>1, <1>3, <1>9, QueueJoinIs, Where
  <1>10. CASE StopBot(s)
    <2>1. /\ pc[s] = "stop" /\ pc'[s] = "commit" /\ Keeps(s) /\ Forth /\ ses[s].op \in {"cancel", "delete"}
          /\ bots'[ses[s].seen.bot].state \notin Live
      BY <1>0, <1>10, StopBotIs, Where DEF Ended
    <2>2. CASE ses[s].op = "cancel"
      BY <1>3, <2>1, <2>2
    <2>3. CASE ses[s].op = "delete"
      <3>1. StandsIn(bots, spared, row.id) /\ NamedIn(bots, row) /\ ses[s].seen = row
        BY <2>1, <2>3, NoSesIs DEF Settles, Stays, Proper
      <3>2. StandsIn(bots', spared', row'.id)
        BY <1>0, <2>1, <3>1, StandsForth
      <3>3. \A b \in Bot : ~(bots'[b].state \in Live /\ bots'[b].meeting = row'.id)
        BY <1>0, <2>1, <3>1 DEF NamedIn, Forth
      <3>4. Deserts'
        BY <3>3 DEF Deserts
      <3> QED
        BY <2>1, <2>3, <3>2, <3>4 DEF Settles
    <2> QED
      BY <2>1, <2>2, <2>3
  <1>11. CASE Fetch(s)
    <2>1. /\ ses[s].op = "process" /\ pc'[s] \in {"commit", "send"} /\ bots' = bots
      BY <1>11, FetchIs, Where
    <2>2. \E new \in Row : Holds(s, ses[s].op, ses[s].seen, new) /\ new.id = ses[s].new.id
      BY <1>11, FetchIs
    <2> QED
      BY <1>1, <1>2, <1>4, <1>5, <2>1, <2>2
  <1>12. CASE NotRecorded(s) \/ FetchFails(s)
    <2>1. ses[s].op = "process" /\ Gives(s) /\ bots' = bots
      BY <1>0, <1>12, NotRecordedIs, FetchFailsIs, Where DEF Ended
    <2>2. \E new \in Row : Holds(s, "process", row, new) /\ pc'[s] = "commit" /\ new.id = row.id
      BY <2>1 DEF Gives, Ended
    <2> QED
      BY <1>1, <1>2, <1>4, <1>5, <2>1, <2>2
  <1>13. CASE SendRecap(s)
    <2>1. ses[s].op = "process" /\ pc'[s] = "commit" /\ bots' = bots
      BY <1>13, SendRecapIs, Where
    <2>2. ASSUME NEW new \in Row, Holds(s, ses[s].op, ses[s].seen, new), new.id = ses[s].new.id
          PROVE  Settles(s)'
      BY <1>1, <1>2, <1>4, <1>5, <2>1, <2>2
    <2> QED
      BY <1>1, <1>3, <1>13, <2>1, <2>2, SendRecapIs
  <1> QED
    BY <1>6, <1>7, <1>8, <1>9, <1>10, <1>11, <1>12, <1>13 DEF Moves

LEMMA EndsSettles ==
    ASSUME NoteInv, NEW s \in Session, Proper(s), Ends(s), "crash" \notin faults, Settles(s)
    PROVE  StandsIn(bots', spared', row'.id)
  <1>1. bots' = bots
    BY EndsIs
  <1>2. CASE Lost(s) \/ Crash(s)
    <2>1. pc[s] \in {"fetch", "flush"} /\ row' = row /\ spared' = spared
      BY <1>2, Same, StopsIs DEF counts, Crash
    <2> QED
      BY <1>1, <2>1 DEF Settles
  <1>3. CASE Commit(s)
    <2>1. /\ row' = (IF ses[s].op = "delete" THEN NoRow ELSE Outcome(s)) /\ pc[s] = "commit"
          /\ ses[s].op = "delete" => Commits(s)
          /\ spared' = IF Spares(s) THEN spared \cup ({row.bot} \ {NoBot}) ELSE spared
      BY <1>3, CommitAlone, CommitIs
    <2>2. CASE ses[s].op # "delete"
      BY <1>1, <2>1, <2>2 DEF Settles, StandsIn
    <2>3. CASE ses[s].op = "delete"
      <3>1. StandsIn(bots, spared, row.id) /\ Deserts
        BY <2>1, <2>3 DEF Settles
      <3>2. ASSUME NEW b \in Bot, bots[b].state \in Live PROVE b \in spared'
        <4>1. CASE b \in spared
          BY <2>1, <4>1
        <4>2. CASE b \notin spared
          <5>1. bots[b].meeting = row.id
            BY <3>1, <3>2, <4>2 DEF StandsIn
          <5>2. row.bot = b /\ (row.status = "pending" \/ (row.status \notin ActiveStatuses /\ Haunted))
            BY <3>1, <3>2, <4>2, <5>1 DEF Deserts
          <5>3. Spares(s)
            BY <2>1, <2>3, <5>2 DEF Spares
          <5> QED
            BY <2>1, <5>2, <5>3
        <4> QED
          BY <4>1, <4>2
      <3> QED
        BY <1>1, <3>2 DEF StandsIn
    <2> QED
      BY <2>2, <2>3
  <1> QED
    BY <1>2, <1>3 DEF Ends

LEMMA SpareInit == Init => SpareInv
  BY DEF Init, SpareInv, Stands, Live

LEMMA SpareStep == NoteInv /\ SerialInv /\ StrayInv /\ VisitInv /\ SpareInv /\ [Next]_vars => SpareInv'
  <1> SUFFICES ASSUME NoteInv, SerialInv, StrayInv, VisitInv, SpareInv, [Next]_vars PROVE SpareInv'
    OBVIOUS
  <1>0. (\A id : Stands(id) <=> StandsIn(bots, spared, id)) /\ (\A rw : Named(rw) <=> NamedIn(bots, rw))
    BY DEF Stands, StandsIn, Named, NamedIn
  <1>1. CASE UNCHANGED vars
    <2>1. (Haunted' <=> Haunted) /\ \A s \in Session : Outcome(s)' = Outcome(s)
      BY <1>1 DEF Haunted, Outcome, vars
    <2>2. Deserts' <=> Deserts
      BY <1>1, <2>1 DEF Deserts, vars
    <2> QED
      BY <1>1, <2>1, <2>2 DEF SpareInv, Unless, Quiet, Stands, vars
  <1>4. ASSUME Unless({"overlap", "crash", "provider"})
        PROVE  /\ Serial /\ "crash" \notin faults /\ "provider" \notin faults
               /\ Quiet => StandsIn(bots, spared, row.id) /\ NamedIn(bots, row)
               /\ StoriedIn(bots, row)
               /\ \A s \in Session : pc[s] # "idle" => Proper(s) /\ Settles(s) /\ Stays(s)
    <2>1. Serial /\ "crash" \notin faults /\ "provider" \notin faults
      BY <1>4 DEF Unless, Serial
    <2>2. StoriedIn(bots, row)
      BY <2>1, VisitIs
    <2>3. \A s \in Session : pc[s] # "idle" => Proper(s) /\ Settles(s) /\ Stays(s)
      BY <1>0, <1>4, <2>1 DEF SpareInv, SerialInv, Serial, StrayInv, Settles, Stays
    <2> QED
      BY <1>0, <1>4, <2>1, <2>2, <2>3 DEF SpareInv, StrayInv
  <1>2. CASE Passes
    <2>1. Forth /\ UNCHANGED <<row, pc, ses, faults, spared>>
      BY <1>2 DEF Passes
    <2>2. \A s \in Session : Outcome(s)' = Outcome(s)
      BY <2>1 DEF Outcome
    <2>3. \A id : Stands(id) => StandsIn(bots', spared', id)
      BY <1>0, <2>1, StandsForth
    <2>4. Stands(row.id)' <=> StandsIn(bots', spared', row'.id)
      BY DEF Stands, StandsIn
    <2>5. \A s \in Session : Stands(Outcome(s).id)' <=> StandsIn(bots', spared', Outcome(s)'.id)
      BY DEF Stands, StandsIn
    <2>6. ASSUME NEW s \in Session, Unless({"overlap", "crash", "provider"}), ses[s].op = "delete",
                 pc[s] = "commit", Deserts
          PROVE  Deserts'
      <3>1. row.id # 0
        <4>1. Proper(s) /\ Drafted(s)
          BY <1>4, <2>6 DEF NoteInv
        <4> QED
          BY <2>6, <4>1, NoSesIs DEF Proper, Drafted
      <3> QED
        BY <2>1, <2>6, <3>1, DesertsForth
    <2> QED
      BY <2>1, <2>2, <2>3, <2>4, <2>5, <2>6 DEF SpareInv, Unless, Quiet
  <1>3. ASSUME NEW s \in Session, Begins(s) \/ Moves(s) \/ Ends(s) PROVE SpareInv'
    <2>1. faults' = faults /\ Others(s) /\ (pc[s] # "idle" \/ Free(s))
      BY <1>3, FaultsKept, BeginsIs, MovesIs, EndsIs
    <2>2. CASE ~Unless({"overlap", "crash", "provider"})
      BY <2>1, <2>2 DEF SpareInv, Unless
    <2>3. CASE Unless({"overlap", "crash", "provider"})
      <3>1. Serial /\ "crash" \notin faults /\ "provider" \notin faults
        BY <1>4, <2>3
      <3>2. \A t \in Session \ {s} : pc[t] = "idle" /\ pc'[t] = "idle"
        BY <2>1, <3>1, AloneIs DEF Others
      <3>3. pc[s] # "idle" => Proper(s) /\ Settles(s) /\ Stays(s)
        BY <1>4, <2>3
      <3>4. (pc'[s] # "idle" => Settles(s)') /\ (pc'[s] = "idle" => StandsIn(bots', spared', row'.id))
        <4>1. CASE Begins(s)
          <5>1. Free(s) /\ row' = row /\ bots' = bots /\ spared' = spared
            BY <4>1, BeginsIs
          <5>2. Quiet
            BY <3>1, <5>1 DEF Free, Serial
          <5> QED
            BY <1>4, <2>3, <4>1, <5>1, <5>2, BeginsSettles
        <4>2. CASE Moves(s)
          <5>1. pc[s] # "idle" /\ pc'[s] # "idle"
            BY <3>1, <3>3, <4>2, MovesIs, MovesStays
          <5> QED
            BY <3>1, <3>3, <4>2, <5>1, MovesSettles
        <4>3. CASE Ends(s)
          <5>1. pc[s] # "idle" /\ pc'[s] = "idle"
            BY <4>3, EndsIs DEF Ended, At
          <5> QED
            BY <3>1, <3>3, <4>3, <5>1, EndsSettles
        <4> QED
          BY <1>3, <4>1, <4>2, <4>3
      <3>5. Stands(row.id)' <=> StandsIn(bots', spared', row'.id)
        BY DEF Stands, StandsIn
      <3>6. Stands(Outcome(s).id)' <=> StandsIn(bots', spared', Outcome(s)'.id)
        BY DEF Stands, StandsIn
      <3> QED
        BY <3>2, <3>4, <3>5, <3>6 DEF SpareInv, Settles, Quiet
    <2> QED
      BY <2>2, <2>3
  <1> QED
    BY <1>1, <1>2, <1>3, NextIs

\* While sessions run one at a time, none dies and the provider answers, a live bot
\* is named by the row of its meeting whenever nobody is at work, so there is one at
\* most, cancel and delete reach it, and a cancelled meeting has none; or else the row
\* is gone, and its deletion found the meeting pending, or ended by a callback of an
\* earlier bot, and took it to have no bot to recall.
THEOREM NoBotStrays == Spec => []NoStrayBot
  <1>1. StrayInv /\ SpareInv => NoStrayBot
    BY DEF StrayInv, SpareInv, NoStrayBot, Unless, Named, Stands
  <1> QED
    BY <1>1, InitTyped, StepTyped, SerialInit, SerialStep, StrayInit, StrayStep, VisitInit, VisitStep,
       SpareInit, SpareStep, PTL DEF Spec
=============================================================================
