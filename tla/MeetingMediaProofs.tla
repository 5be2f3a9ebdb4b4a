-------------------------- MODULE MeetingMediaProofs --------------------------
(***************************************************************************)
(* What MeetingMedia promises of the media of a meeting, for any number of *)
(* sessions and any bounds.                                                *)
(***************************************************************************)
EXTENDS MeetingMedia, TLAPS

-----------------------------------------------------------------------------
(* The inductive invariants *)

\* Where a session of each kind may be.
Place == [none       |-> {"idle"},
          start      |-> {"track", "reserve", "commit"},
          complete   |-> {"head", "queue", "commit"},
          delete     |-> {"discard", "commit"},
          page       |-> {"resolve", "commit"},
          janitor    |-> {"discard", "commit"},
          prune      |-> {"discard", "commit"},
          transcribe |-> {"stamp", "media", "recap", "commit"},
          fail       |-> {"commit"}]

\* What a session has read and drafted, by its kind.
Drafted(s) ==
    LET d == ses[s] IN
    /\ pc[s] \in Place[d.op]
    /\ ~d.seen.here => d.seen = NoRow
    /\ ~d.new.here => d.new = NoRow
    /\ d.op = "none" => d = NoSes
    /\ d.op \notin {"none", "start", "fail"} => d.seen.here
    /\ d.op \notin {"none", "delete", "fail"} => d.new.here
    /\ d.op = "delete" => ~d.new.here
    /\ d.op = "fail" => d.new.here = d.seen.here
    /\ d.op \notin {"delete", "transcribe"} =>
           d.new.timed = d.seen.timed /\ d.new.recapped = d.seen.recapped
    /\ d.op = "start" /\ pc[s] = "commit" => d.new.key \in 1 .. nkeys
    /\ d.op = "start" /\ pc[s] # "track" => made

MediaInv ==
    /\ TypeOK
    /\ ~row.here => row = NoRow
    /\ row.here => made
    /\ \A s \in Session : Drafted(s)

-----------------------------------------------------------------------------
(* One recap, one charge *)

\* The session that is making the row, which nobody else has seen.
Makes(s) == ses[s].op = "start" /\ ~ses[s].seen.here /\ pc[s] \in {"reserve", "commit"}

\* Nothing has come of a row yet.
Unseen ==
    /\ mailed = 0 /\ metered = 0 /\ ~row.here
    /\ \A s \in Session : ~ses[s].seen.here

MakesInv ==
    /\ \A s \in Session : pc[s] \in {"idle", "track"} => lock # s
    /\ \A s \in Session : Makes(s) => made /\ lock = s
    /\ ~made \/ (\E s \in Session : Makes(s)) => Unseen

Transcribes(s) == ses[s].op = "transcribe"

\* A run that transcribes knows what the row says of the charge and the recap.
Informed(s) ==
    /\ ses[s].seen.timed => ses[s].new.timed
    /\ ~ses[s].seen.recapped
    /\ pc[s] # "commit" => ~ses[s].new.recapped
    /\ row.here => row.timed = ses[s].seen.timed /\ ~row.recapped

OnceInv ==
    Unless({"workers", "crash"}) =>
        /\ \A s, t \in Session : Transcribes(s) /\ Transcribes(t) => s = t
        /\ \A s \in Session : Transcribes(s) => Informed(s)
        /\ metered <= 1 /\ (metered = 1 /\ row.here => row.timed)
        /\ mailed <= 1
        /\ mailed = 1 /\ row.here =>
              row.recapped \/ \E s \in Session : Transcribes(s) /\ ses[s].new.recapped

-----------------------------------------------------------------------------
(* One session at a time *)

\* What is true of any row, committed or about to be.
Sound(rw) ==
    /\ rw.confirmed => rw.key # 0
    /\ rw.text \/ rw.recapped => rw.timed
    /\ rw.pruned => rw.key = 0 /\ ~rw.rec /\ ~rw.text /\ rw.url = "none"

\* What a session that runs alone is about to write.
Proper(s) ==
    LET d == ses[s] IN
    /\ d.seen = row /\ Sound(d.new)
    /\ d.op = "start" => d.seen.key = 0 /\ ~d.new.pruned
    /\ d.op \in {"complete", "transcribe"} => d.seen.key # 0
    /\ d.op \in {"complete", "janitor"} => ~d.seen.confirmed
    /\ pc[s] = "discard" => d.seen.key # 0 /\ (d.op = "prune" => d.new.key = 0)
    /\ d.op \notin {"start", "delete", "prune"} => d.new.key = d.seen.key
    /\ d.op \notin {"complete", "delete", "prune"} => d.new.confirmed = d.seen.confirmed
    /\ d.op = "prune" /\ d.new.confirmed => d.new.key = d.seen.key /\ d.seen.confirmed
    /\ d.op = "transcribe" /\ pc[s] \in {"recap", "commit"} => d.new.timed
    /\ d.op \in {"page", "prune"} => d.new.status = d.seen.status
    /\ d.op \in {"janitor", "fail"} => d.new.status = "failed"
    /\ IF d.op = "prune" THEN age = 2 ELSE d.new.pruned => d.seen.pruned

SerialInv ==
    "overlap" \notin faults =>
        /\ \A s, t \in Session : pc[s] # "idle" /\ pc[t] # "idle" => s = t
        /\ Sound(row)
        /\ row.pruned => age = 2
        /\ \A s \in Session : pc[s] # "idle" => Proper(s)

\* The session is about to forget an object it has deleted.
Forgets(s) == ses[s].op \in {"delete", "prune"} /\ pc[s] = "commit" /\ ses[s].new.key # row.key

BucketInv ==
    Unless({"overlap", "late"}) =>
        /\ \A k \in Key : bucket[k] # "none" => row.key = k
        /\ \A s \in Session : Forgets(s) => bucket[row.key] = "none"
        /\ Unless({"crash"}) =>
            /\ row.confirmed => bucket[row.key] # "none" \/ \E s \in Session : Forgets(s)
            /\ \A s \in Session : ses[s].op = "complete" /\ ses[s].new.confirmed => bucket[row.key] # "none"

HandInv ==
    Unless({"fast", "crash", "overlap"}) =>
        /\ RecordedIsInHand
        /\ \A s \in Session : ses[s].op = "complete" /\ pc[s] = "commit" => jobs # <<>>

-----------------------------------------------------------------------------
(* Rows and sessions *)

USE MediaAssumption

\* What two rows have in common.
SameMedia(a, b) == a.here = b.here /\ a.key = b.key /\ a.confirmed = b.confirmed
SameTale(a, b) == a.text = b.text /\ a.timed = b.timed /\ a.recapped = b.recapped
SameLink(a, b) == a.pruned = b.pruned /\ a.rec = b.rec /\ a.url = b.url

\* The columns a row is merged from.
Merge(a, b, c) == [f \in DOMAIN a |-> IF b[f] = c[f] THEN a[f] ELSE b[f]]

LEMMA MergeIs ==
    ASSUME NEW a \in Row, NEW b \in Row, NEW c \in Row
    PROVE  /\ Merge(a, b, c) \in Row
           /\ Merge(a, b, c).here = IF b.here = c.here THEN a.here ELSE b.here
           /\ Merge(a, b, c).timed = IF b.timed = c.timed THEN a.timed ELSE b.timed
           /\ Merge(a, b, c).recapped = IF b.recapped = c.recapped THEN a.recapped ELSE b.recapped
  <1>1. DOMAIN a = {"here", "status", "key", "confirmed", "text", "timed", "recapped",
                    "pruned", "bot", "rec", "url"}
    BY DEF Row
  <1> DEFINE m == Merge(a, b, c)
  <1>2. /\ m.here = IF b.here = c.here THEN a.here ELSE b.here
        /\ m.status = IF b.status = c.status THEN a.status ELSE b.status
        /\ m.key = IF b.key = c.key THEN a.key ELSE b.key
        /\ m.confirmed = IF b.confirmed = c.confirmed THEN a.confirmed ELSE b.confirmed
        /\ m.text = IF b.text = c.text THEN a.text ELSE b.text
        /\ m.timed = IF b.timed = c.timed THEN a.timed ELSE b.timed
        /\ m.recapped = IF b.recapped = c.recapped THEN a.recapped ELSE b.recapped
        /\ m.pruned = IF b.pruned = c.pruned THEN a.pruned ELSE b.pruned
        /\ m.bot = IF b.bot = c.bot THEN a.bot ELSE b.bot
        /\ m.rec = IF b.rec = c.rec THEN a.rec ELSE b.rec
        /\ m.url = IF b.url = c.url THEN a.url ELSE b.url
    BY <1>1 DEF Merge
  <1>3. m = [here |-> m.here, status |-> m.status, key |-> m.key, confirmed |-> m.confirmed,
             text |-> m.text, timed |-> m.timed, recapped |-> m.recapped, pruned |-> m.pruned,
             bot |-> m.bot, rec |-> m.rec, url |-> m.url]
    BY <1>1 DEF Merge
  <1>4. m \in Row
    BY <1>2, <1>3 DEF Row
  <1> QED
    BY <1>2, <1>4

LEMMA MergeAlone ==
    ASSUME NEW a \in Row, NEW b \in Row PROVE Merge(a, b, a) = b
  <1>1. DOMAIN a = DOMAIN b
    BY DEF Row
  <1>2. b = [f \in DOMAIN b |-> b[f]]
    BY DEF Row
  <1> QED
    BY <1>1, <1>2 DEF Merge

\* The other sessions stay where they were.
Others(s) == \A t \in Session \ {s} : pc'[t] = pc[t] /\ ses'[t] = ses[t]

\* A session is at another step, with its draft as it was or with another.
At(s, step) == pc' \in [Session -> Step] /\ pc'[s] = step
Holds(s, op, seen, new) ==
    /\ ses' \in [Session -> Ses]
    /\ ses'[s].op = op /\ ses'[s].seen = seen /\ ses'[s].new = new

LEMMA BeginIs ==
    ASSUME TypeOK, NEW s \in Session, NEW op \in Op, NEW new \in Row, NEW step \in Step,
           Begin(s, op, new, step)
    PROVE  Others(s) /\ At(s, step) /\ Holds(s, op, row, new)
  <1>1. NoRow \in Row /\ row \in Row /\ 0 \in 0 .. Retries
    BY DEF NoRow, Row, TypeOK, Status
  <1> DEFINE d == [NoSes EXCEPT !.op = op, !.seen = row, !.new = new]
  <1>2. d \in Ses /\ d.op = op /\ d.seen = row /\ d.new = new
    BY <1>1 DEF NoSes, Ses
  <1>3. ses' = [ses EXCEPT ![s] = d] /\ pc' = [pc EXCEPT ![s] = step]
    BY DEF Begin, Goto
  <1> HIDE DEF d
  <1> QED
    BY <1>2, <1>3 DEF TypeOK, Others, At, Holds

LEMMA DraftIs ==
    ASSUME TypeOK, NEW s \in Session, NEW new \in Row, NEW step \in Step, Draft(s, new, step)
    PROVE  Others(s) /\ At(s, step) /\ Holds(s, ses[s].op, ses[s].seen, new)
  <1> DEFINE d == [ses[s] EXCEPT !.new = new]
  <1>1. d \in Ses /\ d.op = ses[s].op /\ d.seen = ses[s].seen /\ d.new = new
    BY DEF TypeOK, Ses
  <1>2. ses' = [ses EXCEPT ![s] = d] /\ pc' = [pc EXCEPT ![s] = step]
    BY DEF Draft, Goto
  <1> HIDE DEF d
  <1> QED
    BY <1>1, <1>2 DEF TypeOK, Others, At, Holds

LEMMA GotoIs ==
    ASSUME TypeOK, NEW s \in Session, NEW step \in Step, Goto(s, step), ses' = ses
    PROVE  Others(s) /\ At(s, step) /\ Holds(s, ses[s].op, ses[s].seen, ses[s].new)
  BY DEF TypeOK, Goto, Others, At, Holds

\* A session that ends.
Ended(s) ==
    /\ At(s, "idle") /\ ses' \in [Session -> Ses] /\ ses'[s] = NoSes
    /\ lock' = IF lock = s THEN NoSession ELSE lock

LEMMA ReturnIs ==
    ASSUME TypeOK, NEW s \in Session, Return(s)
    PROVE  Others(s) /\ Ended(s)
  <1>1. NoRow \in Row /\ 0 \in 0 .. Retries
    BY DEF NoRow, Row, TypeOK, Status
  <1>2. NoSes \in Ses /\ "idle" \in Step
    BY <1>1 DEF NoSes, Ses, Op, Step
  <1> QED
    BY <1>2 DEF TypeOK, Return, Goto, Others, At, Ended

-----------------------------------------------------------------------------
(* How a session begins *)

\* The row as the requests find it.
RowOK == (~row.here => row = NoRow) /\ (row.here => made)

LEMMA StartIs ==
    ASSUME TypeOK, RowOK, NEW s \in Session, StartUpload(s) \/ StartNew(s)
    PROVE  /\ row.key = 0 /\ (row.here \/ ~made) /\ (row.here => age < 2)
           /\ \E new \in Row :
                /\ Others(s) /\ At(s, "track") /\ Holds(s, "start", row, new)
                /\ new.here /\ new.key = 0 /\ new.confirmed = row.confirmed
                /\ SameTale(new, row) /\ SameLink(new, row)
  <1>1. "start" \in Op /\ "track" \in Step /\ row \in Row
    BY DEF Op, Step, TypeOK
  <1>2. CASE StartUpload(s)
    <2> DEFINE new == [row EXCEPT !.here = TRUE, !.status = "pending"]
    <2>1. /\ new \in Row /\ new.here /\ new.key = row.key /\ new.confirmed = row.confirmed
          /\ SameTale(new, row) /\ SameLink(new, row)
      BY <1>1 DEF Row, Status, SameTale, SameLink
    <2>2. Begin(s, "start", new, "track") /\ row.key = 0 /\ (row.here \/ ~made) /\ age < 2
      BY <1>2 DEF StartUpload
    <2> HIDE DEF new
    <2> QED
      BY <1>1, <2>1, <2>2, BeginIs
  <1>3. CASE StartNew(s)
    <2> DEFINE new == [NoRow EXCEPT !.here = TRUE,
                         !.status = IF source = "live" THEN "recording" ELSE "pending"]
    <2>1. ~made /\ ~row.here /\ row = NoRow
      BY <1>3 DEF StartNew, RowOK
    <2>2. /\ new \in Row /\ new.here /\ new.key = 0 /\ new.confirmed = NoRow.confirmed
          /\ SameTale(new, NoRow) /\ SameLink(new, NoRow) /\ NoRow.key = 0
      <3>1. NoRow \in Row /\ NoRow.key = 0
        BY DEF NoRow, Row, Status
      <3>2. PICK st \in Status : st = IF source = "live" THEN "recording" ELSE "pending"
        BY DEF Status
      <3>3. ASSUME NEW rw \in Row
            PROVE  LET n == [rw EXCEPT !.here = TRUE, !.status = st]
                   IN  /\ n \in Row /\ n.here /\ n.key = rw.key /\ n.confirmed = rw.confirmed
                       /\ SameTale(n, rw) /\ SameLink(n, rw)
        BY DEF Row, SameTale, SameLink
      <3>4. new = [NoRow EXCEPT !.here = TRUE, !.status = st]
        BY <3>2
      <3> HIDE DEF new
      <3> QED
        BY <3>1, <3>3, <3>4
    <2>3. Begin(s, "start", new, "track")
      BY <1>3 DEF StartNew
    <2> HIDE DEF new
    <2> QED
      BY <1>1, <2>1, <2>2, <2>3, BeginIs
  <1> QED
    BY <1>2, <1>3

LEMMA CompleteIs ==
    ASSUME TypeOK, NEW s \in Session, BeginComplete(s)
    PROVE  /\ row.here /\ ~row.confirmed /\ row.key # 0
           /\ Others(s) /\ At(s, "head") /\ Holds(s, "complete", row, row)
  <1>1. "complete" \in Op /\ "head" \in Step /\ row \in Row
    BY DEF Op, Step, TypeOK
  <1> QED
    BY <1>1, BeginIs DEF BeginComplete

LEMMA DeleteIs ==
    ASSUME TypeOK, NEW s \in Session, BeginDelete(s)
    PROVE  /\ row.here /\ Others(s) /\ Holds(s, "delete", row, NoRow)
           /\ At(s, IF row.key = 0 THEN "commit" ELSE "discard")
  <1>1. "delete" \in Op /\ (IF row.key = 0 THEN "commit" ELSE "discard") \in Step /\ NoRow \in Row
    BY DEF Op, Step, NoRow, Row, Status
  <1> QED
    BY <1>1, BeginIs DEF BeginDelete

LEMMA PageIs ==
    ASSUME TypeOK, NEW s \in Session, BeginPage(s)
    PROVE  /\ row.here /\ ~row.pruned
           /\ \E new \in Row :
                /\ Others(s) /\ At(s, "resolve") /\ Holds(s, "page", row, new)
                /\ SameMedia(new, row) /\ SameTale(new, row)
                /\ new.pruned = row.pruned /\ new.status = row.status
  <1>1. "page" \in Op /\ "resolve" \in Step /\ row \in Row
    BY DEF Op, Step, TypeOK
  <1> DEFINE new == IF row.confirmed /\ row.key # 0 THEN [row EXCEPT !.url = "own"]
                    ELSE [row EXCEPT !.url = "bot", !.rec = TRUE]
  <1>2. /\ new \in Row /\ SameMedia(new, row) /\ SameTale(new, row)
        /\ new.pruned = row.pruned /\ new.status = row.status
    BY <1>1 DEF Row, SameMedia, SameTale
  <1>3. Begin(s, "page", new, "resolve") /\ row.here /\ ~row.pruned
    BY DEF BeginPage, Resolves
  <1> HIDE DEF new
  <1> QED
    BY <1>1, <1>2, <1>3, BeginIs

LEMMA JanitorIs ==
    ASSUME TypeOK, NEW s \in Session, BeginJanitor(s)
    PROVE  /\ row.here /\ row.key # 0 /\ ~row.confirmed
           /\ \E new \in Row :
                /\ Others(s) /\ At(s, "discard") /\ Holds(s, "janitor", row, new)
                /\ SameMedia(new, row) /\ SameTale(new, row) /\ SameLink(new, row)
                /\ new.status = "failed"
  <1>1. "janitor" \in Op /\ "discard" \in Step /\ row \in Row
    BY DEF Op, Step, TypeOK
  <1> DEFINE new == [row EXCEPT !.status = "failed"]
  <1>2. /\ new \in Row /\ SameMedia(new, row) /\ SameTale(new, row) /\ SameLink(new, row)
        /\ new.status = "failed"
    BY <1>1 DEF Row, Status, SameMedia, SameTale, SameLink
  <1>3. Begin(s, "janitor", new, "discard") /\ row.here /\ row.key # 0 /\ ~row.confirmed
    BY DEF BeginJanitor
  <1> HIDE DEF new
  <1> QED
    BY <1>1, <1>2, <1>3, BeginIs

\* Retention takes the media with the transcript, or the transcript of a
\* meeting without media.
TakesAll(new) ==
    new.key = 0 /\ ~new.confirmed /\ ~new.rec /\ new.url = "none" /\ new.pruned
TakesText(old, new) ==
    new.key = old.key /\ new.confirmed = old.confirmed /\ SameLink(new, old)

LEMMA PrunedIs ==
    ASSUME NEW rw \in Row
    PROVE  /\ Pruned(rw) \in Row /\ TakesAll(Pruned(rw)) /\ ~Pruned(rw).text
           /\ Pruned(rw).here = rw.here /\ Pruned(rw).status = rw.status
           /\ Pruned(rw).timed = rw.timed /\ Pruned(rw).recapped = rw.recapped
  <1>1. Pruned(rw) \in Row
    <2>0. 0 \in 0 .. MaxKey
      OBVIOUS
    <2>1. [rw EXCEPT !.key = 0, !.confirmed = FALSE] \in Row
      BY <2>0 DEF Row
    <2>2. PICK a \in Row : a = [rw EXCEPT !.key = 0, !.confirmed = FALSE]
      BY <2>1
    <2>3. [a EXCEPT !.rec = FALSE, !.url = "none"] \in Row
      BY DEF Row
    <2>4. PICK b \in Row : b = [a EXCEPT !.rec = FALSE, !.url = "none"]
      BY <2>3
    <2>5. [b EXCEPT !.pruned = TRUE, !.text = FALSE] \in Row
      BY DEF Row
    <2>6. Pruned(rw) = [b EXCEPT !.pruned = TRUE, !.text = FALSE]
      BY <2>2, <2>4 DEF Pruned
    <2> QED
      BY <2>5, <2>6
  <1>2. TakesAll(Pruned(rw)) /\ ~Pruned(rw).text
    BY DEF Row, Pruned, TakesAll
  <1>3. /\ Pruned(rw).here = rw.here /\ Pruned(rw).status = rw.status
        /\ Pruned(rw).timed = rw.timed /\ Pruned(rw).recapped = rw.recapped
    BY DEF Row, Pruned
  <1> QED
    BY <1>1, <1>2, <1>3

LEMMA PruneIs ==
    ASSUME TypeOK, NEW s \in Session, BeginPrune(s)
    PROVE  /\ row.here /\ age = 2
           /\ \E new \in Row :
                /\ Others(s) /\ Holds(s, "prune", row, new)
                /\ At(s, IF row.key = 0 THEN "commit" ELSE "discard")
                /\ new.here /\ ~new.text
                /\ new.timed = row.timed /\ new.recapped = row.recapped /\ new.status = row.status
                /\ TakesAll(new) \/ (TakesText(row, new) /\ row.key = 0 /\ ~row.rec)
  <1>1. "prune" \in Op /\ "commit" \in Step /\ "discard" \in Step /\ row \in Row
    BY DEF Op, Step, TypeOK
  <1>2. row.here /\ age = 2
    BY DEF BeginPrune
  <1>3. CASE row.key # 0 \/ row.rec
    <2> DEFINE new == Pruned(row)
    <2>1. /\ new \in Row /\ new.here = row.here /\ ~new.text
          /\ new.timed = row.timed /\ new.recapped = row.recapped /\ new.status = row.status
          /\ TakesAll(new)
      BY <1>1, PrunedIs
    <2>2. Begin(s, "prune", new, IF row.key = 0 THEN "commit" ELSE "discard")
      BY <1>3 DEF BeginPrune
    <2> HIDE DEF new
    <2> QED
      BY <1>1, <1>2, <2>1, <2>2, BeginIs
  <1>4. CASE ~(row.key # 0 \/ row.rec)
    <2> DEFINE new == [row EXCEPT !.text = FALSE]
    <2>1. /\ new \in Row /\ new.here = row.here /\ ~new.text
          /\ new.timed = row.timed /\ new.recapped = row.recapped /\ new.status = row.status
          /\ TakesText(row, new)
      BY <1>1 DEF Row, TakesText, SameLink
    <2>2. Begin(s, "prune", new, "commit") /\ row.key = 0 /\ ~row.rec
      BY <1>4 DEF BeginPrune
    <2> HIDE DEF new
    <2> QED
      BY <1>1, <1>2, <2>1, <2>2, BeginIs
  <1> QED
    BY <1>3, <1>4

LEMMA TaskIs ==
    ASSUME TypeOK, NEW s \in Session, BeginTranscribe(s)
    PROVE  /\ jobs # <<>> /\ jobs' = Tail(jobs) /\ jobs' \in Seq(0 .. Retries)
           /\ \/ Skipped /\ UNCHANGED <<pc, ses>>
              \/ /\ ~Skipped /\ Others(s) /\ At(s, "stamp")
                 /\ Holds(s, "transcribe", row, row)
  <1>1. jobs # <<>> /\ jobs' = Tail(jobs) /\ jobs \in Seq(0 .. Retries) /\ row \in Row
    BY DEF BeginTranscribe, TypeOK
  <1>2. Head(jobs) \in 0 .. Retries /\ jobs' \in Seq(0 .. Retries)
    BY <1>1
  <1>3. CASE Skipped
    BY <1>1, <1>2, <1>3 DEF BeginTranscribe
  <1>4. CASE ~Skipped
    <2> DEFINE d == [op |-> "transcribe", seen |-> row, new |-> row, tries |-> Head(jobs)]
    <2>1. d \in Ses /\ d.op = "transcribe" /\ d.seen = row /\ d.new = row
      BY <1>1, <1>2 DEF Ses, Op
    <2>2. ses' = [ses EXCEPT ![s] = d] /\ pc' = [pc EXCEPT ![s] = "stamp"]
      BY <1>4 DEF BeginTranscribe, Goto
    <2> HIDE DEF d
    <2> QED
      BY <1>1, <1>2, <1>4, <2>1, <2>2 DEF TypeOK, Others, At, Holds, Step
  <1> QED
    BY <1>3, <1>4

-----------------------------------------------------------------------------
(* How a session goes on and ends *)

\* The session goes on with the draft it has, or with another.
Keeps(s) == Holds(s, ses[s].op, ses[s].seen, ses[s].new)
Redrafts(s, new) == new \in Row /\ Holds(s, ses[s].op, ses[s].seen, new)

LEMMA TrackIs ==
    ASSUME TypeOK, NEW s \in Session, Track(s)
    PROVE  pc[s] = "track" /\ Others(s) /\ At(s, "reserve") /\ Keeps(s)
  BY GotoIs DEF Track, Step, Keeps

LEMMA ReserveIs ==
    ASSUME TypeOK, NEW s \in Session, Reserve(s)
    PROVE  /\ pc[s] = "reserve" /\ Others(s) /\ At(s, "commit")
           /\ nkeys' = nkeys + 1 /\ nkeys' \in 1 .. MaxKey
           /\ \E new \in Row :
                /\ Redrafts(s, new) /\ new.key = nkeys'
                /\ new.here = ses[s].new.here /\ new.confirmed = ses[s].new.confirmed
                /\ SameTale(new, ses[s].new) /\ SameLink(new, ses[s].new)
  <1>1. PICK n \in Row : n = ses[s].new
    BY DEF TypeOK, Ses
  <1>2. pc[s] = "reserve" /\ nkeys' = nkeys + 1 /\ nkeys + 1 \in 1 .. MaxKey
    BY DEF Reserve, TypeOK
  <1> DEFINE new == [n EXCEPT !.key = nkeys + 1]
  <1>3. /\ new \in Row /\ new.key = nkeys' /\ new.here = n.here /\ new.confirmed = n.confirmed
        /\ SameTale(new, n) /\ SameLink(new, n)
    BY <1>2 DEF Row, SameTale, SameLink
  <1>4. Draft(s, new, "commit")
    BY <1>1 DEF Reserve
  <1> HIDE DEF new
  <1> QED
    BY <1>1, <1>2, <1>3, <1>4, DraftIs DEF Redrafts, Step

LEMMA ConfirmIs ==
    ASSUME TypeOK, NEW s \in Session, Confirm(s)
    PROVE  /\ pc[s] = "head" /\ Others(s) /\ At(s, "queue")
           /\ bucket[ses[s].new.key] # "none"
           /\ \E new \in Row :
                /\ Redrafts(s, new) /\ new.key = ses[s].new.key
                /\ new.here = ses[s].new.here /\ new.confirmed
                /\ SameTale(new, ses[s].new) /\ SameLink(new, ses[s].new)
  <1>1. PICK n \in Row : n = ses[s].new
    BY DEF TypeOK, Ses
  <1>2. pc[s] = "head" /\ bucket[ses[s].new.key] # "none"
    BY DEF Confirm, Landed
  <1> DEFINE new == [n EXCEPT !.confirmed = TRUE, !.status = "recorded"]
  <1>3. /\ new \in Row /\ new.key = n.key /\ new.here = n.here /\ new.confirmed
        /\ SameTale(new, n) /\ SameLink(new, n)
    BY DEF Row, Status, SameTale, SameLink
  <1>4. Draft(s, new, "queue")
    BY <1>1 DEF Confirm
  <1> HIDE DEF new
  <1> QED
    BY <1>1, <1>2, <1>3, <1>4, DraftIs DEF Redrafts, Step

LEMMA QueueIs ==
    ASSUME TypeOK, NEW s \in Session, QueueTranscription(s)
    PROVE  /\ pc[s] = "queue" /\ Others(s) /\ At(s, "commit") /\ Keeps(s)
           /\ jobs' \in Seq(0 .. Retries) /\ jobs' # <<>>
  <1>1. pc[s] = "queue" /\ jobs' = Append(jobs, 0) /\ Goto(s, "commit") /\ ses' = ses
    BY DEF QueueTranscription
  <1>2. jobs' \in Seq(0 .. Retries) /\ jobs' # <<>>
    BY <1>1 DEF TypeOK
  <1> QED
    BY <1>1, <1>2, GotoIs DEF Step, Keeps

LEMMA ResolveIs ==
    ASSUME TypeOK, NEW s \in Session, Resolve(s)
    PROVE  pc[s] = "resolve" /\ Others(s) /\ At(s, "commit") /\ Keeps(s)
  BY GotoIs DEF Resolve, Step, Keeps

LEMMA DiscardIs ==
    ASSUME TypeOK, NEW s \in Session, Discard(s)
    PROVE  /\ pc[s] = "discard" /\ Others(s) /\ At(s, "commit") /\ Keeps(s)
           /\ bucket' = [bucket EXCEPT ![ses[s].seen.key] = "none"]
           /\ bucket' \in [Key -> Object \cup {"none"}]
  <1>1. bucket' = [bucket EXCEPT ![ses[s].seen.key] = "none"]
    BY DEF Discard
  <1>2. bucket' \in [Key -> Object \cup {"none"}]
    BY <1>1 DEF TypeOK
  <1> QED
    BY <1>1, <1>2, GotoIs DEF Discard, Step, Keeps

LEMMA DiscardFailsIs ==
    ASSUME TypeOK, NEW s \in Session, DiscardFails(s)
    PROVE  /\ pc[s] = "discard" /\ Others(s)
           /\ \/ Ended(s)
              \/ /\ ses[s].op = "prune" /\ At(s, "commit") /\ lock' = lock
                 /\ \E new \in Row :
                      /\ Redrafts(s, new) /\ new.here = ses[s].seen.here /\ ~new.text
                      /\ new.timed = ses[s].seen.timed /\ new.recapped = ses[s].seen.recapped
                      /\ new.status = ses[s].seen.status /\ TakesText(ses[s].seen, new)
              \/ /\ ses[s].op \notin {"delete", "prune"}
                 /\ At(s, "commit") /\ Keeps(s) /\ lock' = lock
  <1>1. pc[s] = "discard"
    BY DEF DiscardFails
  <1>2. CASE ses[s].op = "delete"
    BY <1>1, <1>2, ReturnIs DEF DiscardFails
  <1>3. CASE ses[s].op = "prune"
    <2>1. PICK o \in Row : o = ses[s].seen
      BY DEF TypeOK, Ses
    <2> DEFINE new == [o EXCEPT !.text = FALSE]
    <2>2. /\ new \in Row /\ new.here = o.here /\ ~new.text
          /\ new.timed = o.timed /\ new.recapped = o.recapped /\ new.status = o.status
          /\ TakesText(o, new)
      BY DEF Row, TakesText, SameLink
    <2>3. Draft(s, new, "commit") /\ lock' = lock
      BY <1>3, <2>1 DEF DiscardFails
    <2> HIDE DEF new
    <2> QED
      BY <1>1, <1>3, <2>1, <2>2, <2>3, DraftIs DEF Redrafts, Step
  <1>4. CASE ses[s].op \notin {"delete", "prune"}
    <2>1. Goto(s, "commit") /\ ses' = ses /\ lock' = lock
      BY <1>4 DEF DiscardFails
    <2> QED
      BY <1>1, <1>4, <2>1, GotoIs DEF Keeps, Step
  <1> QED
    BY <1>2, <1>3, <1>4

LEMMA StampIs ==
    ASSUME TypeOK, NEW s \in Session, Stamp(s)
    PROVE  /\ pc[s] = "stamp" /\ Others(s) /\ Keeps(s)
           /\ At(s, IF ses[s].new.text THEN "recap" ELSE "media")
  <1>1. (IF ses[s].new.text THEN "recap" ELSE "media") \in Step
    BY DEF Step
  <1> QED
    BY <1>1, GotoIs DEF Stamp, Keeps

LEMMA TranscribeIs ==
    ASSUME TypeOK, NEW s \in Session, Transcribe(s)
    PROVE  /\ pc[s] = "media" /\ Others(s)
           /\ \E new \in Row :
                /\ Redrafts(s, new) /\ SameMedia(new, ses[s].new) /\ SameLink(new, ses[s].new)
                /\ new.timed /\ new.recapped = ses[s].new.recapped
                /\ \/ At(s, "commit") /\ lock' = lock
                   \/ At(s, "recap") /\ Flush(s)
  <1>1. PICK n \in Row : n = ses[s].new
    BY DEF TypeOK, Ses
  <1>2. pc[s] = "media" /\ "commit" \in Step /\ "recap" \in Step
    BY DEF Transcribe, Step
  <1>3. PICK rw \in Row : rw = [n EXCEPT !.timed = TRUE]
    BY DEF Row
  <1>4. /\ SameMedia(rw, n) /\ SameLink(rw, n) /\ rw.timed /\ rw.recapped = n.recapped
    BY <1>3 DEF Row, SameMedia, SameLink
  <1> DEFINE silent == [rw EXCEPT !.status = "processed"]
             spoken == [rw EXCEPT !.text = TRUE]
  <1>5. /\ silent \in Row /\ SameMedia(silent, rw) /\ SameLink(silent, rw)
        /\ silent.timed = rw.timed /\ silent.recapped = rw.recapped
    BY DEF Row, Status, SameMedia, SameLink
  <1>6. /\ spoken \in Row /\ SameMedia(spoken, rw) /\ SameLink(spoken, rw)
        /\ spoken.timed = rw.timed /\ spoken.recapped = rw.recapped
    BY DEF Row, SameMedia, SameLink
  <1>7. \/ Draft(s, silent, "commit") /\ lock' = lock
        \/ Draft(s, spoken, "recap") /\ Flush(s)
    BY <1>1, <1>3 DEF Transcribe
  <1> HIDE DEF silent, spoken
  <1>8. CASE Draft(s, silent, "commit") /\ lock' = lock
    <2>1. Others(s) /\ At(s, "commit") /\ Redrafts(s, silent)
      BY <1>2, <1>5, <1>8, DraftIs DEF Redrafts
    <2>2. SameMedia(silent, n) /\ SameLink(silent, n) /\ silent.timed /\ silent.recapped = n.recapped
      BY <1>4, <1>5 DEF SameMedia, SameLink
    <2> QED
      BY <1>1, <1>2, <1>5, <1>8, <2>1, <2>2
  <1>9. CASE Draft(s, spoken, "recap") /\ Flush(s)
    <2>1. Others(s) /\ At(s, "recap") /\ Redrafts(s, spoken)
      BY <1>2, <1>6, <1>9, DraftIs DEF Redrafts
    <2>2. SameMedia(spoken, n) /\ SameLink(spoken, n) /\ spoken.timed /\ spoken.recapped = n.recapped
      BY <1>4, <1>6 DEF SameMedia, SameLink
    <2> QED
      BY <1>1, <1>2, <1>6, <1>9, <2>1, <2>2
  <1> QED
    BY <1>7, <1>8, <1>9

LEMMA TranscribeFailsIs ==
    ASSUME TypeOK, NEW s \in Session, TranscribeFails(s)
    PROVE  /\ pc[s] = "media" /\ Others(s)
           /\ \/ Ended(s) /\ jobs' \in Seq(0 .. Retries) /\ jobs' # <<>>
              \/ /\ jobs' = jobs /\ At(s, "commit")
                 /\ lock' = (IF lock = s THEN NoSession ELSE lock)
                 /\ \E new \in Row :
                      /\ Holds(s, "fail", row, new)
                      /\ SameMedia(new, row) /\ SameTale(new, row) /\ SameLink(new, row)
                      /\ row.here => new.status = "failed"
                      /\ ~row.here => new = row
  <1>1. pc[s] = "media" /\ row \in Row /\ "commit" \in Step /\ "fail" \in Op
    BY DEF TranscribeFails, TypeOK, Step, Op
  <1>2. CASE ses[s].tries < Retries
    <2>1. jobs' = Append(jobs, ses[s].tries + 1) /\ Return(s)
      BY <1>2 DEF TranscribeFails
    <2>2. ses[s].tries + 1 \in 0 .. Retries
      BY <1>2 DEF TypeOK, Ses
    <2>3. jobs' \in Seq(0 .. Retries) /\ jobs' # <<>>
      BY <2>1, <2>2 DEF TypeOK
    <2> QED
      BY <1>1, <2>1, <2>3, ReturnIs
  <1>3. CASE ~(ses[s].tries < Retries)
    <2> DEFINE new == IF row.here THEN [row EXCEPT !.status = "failed"] ELSE row
    <2>1. /\ new \in Row /\ SameMedia(new, row) /\ SameTale(new, row) /\ SameLink(new, row)
          /\ row.here => new.status = "failed"
          /\ ~row.here => new = row
      BY <1>1 DEF Row, Status, SameMedia, SameTale, SameLink
    <2>2. /\ Begin(s, "fail", new, "commit") /\ jobs' = jobs
          /\ lock' = (IF lock = s THEN NoSession ELSE lock)
      BY <1>3 DEF TranscribeFails
    <2> HIDE DEF new
    <2> QED
      BY <1>1, <2>1, <2>2, BeginIs
  <1> QED
    BY <1>2, <1>3

LEMMA FinalizeIs ==
    ASSUME TypeOK, NEW s \in Session, Finalize(s)
    PROVE  /\ pc[s] = "recap" /\ Others(s) /\ At(s, "commit")
           /\ \/ Keeps(s) /\ lock' = lock /\ mailed' = mailed
              \/ /\ Flush(s)
                 /\ \E new \in Row :
                      /\ Redrafts(s, new) /\ SameMedia(new, ses[s].new) /\ SameLink(new, ses[s].new)
                      /\ new.text = ses[s].new.text /\ new.timed = ses[s].new.timed
                      /\ new.status # "recorded"
                      /\ \/ mailed' = mailed /\ new.recapped = ses[s].new.recapped
                         \/ mailed' = mailed + 1 /\ new.recapped
  <1>1. PICK n \in Row : n = ses[s].new
    BY DEF TypeOK, Ses
  <1>2. pc[s] = "recap" /\ "commit" \in Step
    BY DEF Finalize, Step
  <1>3. PICK rw \in Row : rw = [n EXCEPT !.status = "processed"]
    BY DEF Row, Status
  <1>4. /\ SameMedia(rw, n) /\ SameLink(rw, n) /\ SameTale(rw, n) /\ rw.status # "recorded"
    BY <1>3 DEF Row, SameMedia, SameLink, SameTale
  <1> DEFINE sent == [rw EXCEPT !.recapped = TRUE, !.status = "delivered"]
  <1>5. /\ sent \in Row /\ SameMedia(sent, rw) /\ SameLink(sent, rw)
        /\ sent.text = rw.text /\ sent.timed = rw.timed /\ sent.recapped
        /\ sent.status # "recorded"
    BY DEF Row, Status, SameMedia, SameLink
  <1>6. \/ Goto(s, "commit") /\ ses' = ses /\ lock' = lock /\ mailed' = mailed
        \/ Flush(s) /\ Draft(s, rw, "commit") /\ mailed' = mailed
        \/ Flush(s) /\ Draft(s, sent, "commit") /\ mailed' = mailed + 1
    BY <1>1, <1>3 DEF Finalize
  <1> HIDE DEF sent
  <1>7. CASE Goto(s, "commit") /\ ses' = ses /\ lock' = lock /\ mailed' = mailed
    BY <1>2, <1>7, GotoIs DEF Keeps
  <1>8. CASE Flush(s) /\ Draft(s, rw, "commit") /\ mailed' = mailed
    <2>1. Others(s) /\ At(s, "commit") /\ Redrafts(s, rw)
      BY <1>2, <1>8, DraftIs DEF Redrafts
    <2>2. rw.text = n.text /\ rw.timed = n.timed /\ rw.recapped = n.recapped
      BY <1>4 DEF SameTale
    <2> QED
      BY <1>1, <1>2, <1>4, <1>8, <2>1, <2>2
  <1>9. CASE Flush(s) /\ Draft(s, sent, "commit") /\ mailed' = mailed + 1
    <2>1. Others(s) /\ At(s, "commit") /\ Redrafts(s, sent)
      BY <1>2, <1>5, <1>9, DraftIs DEF Redrafts
    <2>2. /\ SameMedia(sent, n) /\ SameLink(sent, n)
          /\ sent.text = n.text /\ sent.timed = n.timed
      BY <1>4, <1>5 DEF SameMedia, SameLink, SameTale
    <2> QED
      BY <1>1, <1>2, <1>5, <1>9, <2>1, <2>2
  <1> QED
    BY <1>6, <1>7, <1>8, <1>9

LEMMA CommitIs ==
    ASSUME TypeOK, NEW s \in Session, Commit(s)
    PROVE  /\ pc[s] = "commit" /\ Others(s) /\ Ended(s)
           /\ row' = IF Commits(s) THEN Visible(s) ELSE row
           /\ row' \in Row
           /\ Visible(s) = IF ~row.here \/ ~ses[s].new.here THEN ses[s].new
                           ELSE Merge(row, ses[s].new, ses[s].seen)
  <1>1. row \in Row /\ ses[s].new \in Row /\ ses[s].seen \in Row
    BY DEF TypeOK, Ses
  <1>2. Visible(s) = IF ~row.here \/ ~ses[s].new.here THEN ses[s].new
                     ELSE Merge(row, ses[s].new, ses[s].seen)
    BY DEF Visible, Merge
  <1>3. Visible(s) \in Row
    BY <1>1, <1>2, MergeIs
  <1>4. row' = IF Commits(s) THEN Visible(s) ELSE row
    BY DEF Commit
  <1>5. pc[s] = "commit" /\ Return(s)
    BY DEF Commit
  <1> QED
    BY <1>1, <1>2, <1>3, <1>4, <1>5, ReturnIs

\* A session that ends without a commit.
LEMMA QuitIs ==
    ASSUME TypeOK, NEW s \in Session, Reject(s) \/ Fails(s) \/ Crash(s)
    PROVE  pc[s] # "idle" /\ Others(s) /\ Ended(s)
  BY ReturnIs DEF Reject, Fails, Crash

-----------------------------------------------------------------------------
(* The types, and what each session holds *)

LEMMA Where ==
    ASSUME MediaInv, NEW s \in Session
    PROVE  /\ ses[s] \in Ses /\ ses[s].op \in Op /\ ses[s].seen \in Row /\ ses[s].new \in Row
           /\ pc[s] = "idle" <=> ses[s].op = "none"
           /\ pc[s] \in {"track", "reserve"} => ses[s].op = "start"
           /\ pc[s] \in {"head", "queue"} => ses[s].op = "complete"
           /\ pc[s] = "discard" => ses[s].op \in {"delete", "janitor", "prune"}
           /\ pc[s] = "resolve" => ses[s].op = "page"
           /\ pc[s] \in {"stamp", "media", "recap"} => ses[s].op = "transcribe"
  <1>1. ses[s] \in Ses
    BY DEF MediaInv, TypeOK
  <1>2. ses[s].op \in Op /\ ses[s].seen \in Row /\ ses[s].new \in Row
    BY <1>1 DEF Ses
  <1>3. pc[s] \in Place[ses[s].op]
    BY DEF MediaInv, Drafted
  <1> QED
    BY <1>1, <1>2, <1>3 DEF Op, Place

LEMMA NoSesIs ==
    /\ NoSes.op = "none" /\ NoSes.seen = NoRow /\ NoSes.new = NoRow
    /\ ~NoRow.here /\ NoRow.key = 0 /\ ~NoRow.confirmed /\ ~NoRow.text /\ ~NoRow.timed
    /\ ~NoRow.recapped /\ ~NoRow.pruned /\ NoRow \in Row
  <1>1. 0 \in 0 .. MaxKey
    OBVIOUS
  <1> QED
    BY <1>1 DEF NoSes, NoRow, Row, Status

\* What a step of a session must bring about for MediaInv to hold on.
LEMMA InvOf ==
    ASSUME MediaInv, NEW s \in Session, Others(s),
           UNCHANGED world, row' \in Row, made' \in BOOLEAN, made => made',
           nkeys' \in 0 .. MaxKey, nkeys' >= nkeys,
           bucket' \in [Key -> Object \cup {"none"}], urls' \subseteq 1 .. nkeys',
           jobs' \in Seq(0 .. Retries), pc' \in [Session -> Step], ses' \in [Session -> Ses],
           lock' \in Session \cup {NoSession}, turn' \in 0 .. MaxTurn,
           mailed' \in Nat, metered' \in Nat,
           (~row.here => row = NoRow)', (row.here => made)', Drafted(s)'
    PROVE  MediaInv'
  <1>1. TypeOK'
    BY DEF MediaInv, TypeOK, world
  <1>2. ASSUME NEW t \in Session \ {s} PROVE Drafted(t)'
    <2>1. Drafted(t) /\ pc'[t] = pc[t] /\ ses'[t] = ses[t]
      BY DEF MediaInv, Others
    <2>2. nkeys \in Nat /\ nkeys' \in Nat
      BY DEF MediaInv, TypeOK
    <2>3. \A k : k \in 1 .. nkeys => k \in 1 .. nkeys'
      BY <2>2
    <2> QED
      BY <2>1, <2>3 DEF Drafted
  <1> QED
    BY <1>1, <1>2 DEF MediaInv

\* An ended session holds nothing.
LEMMA EndedIs ==
    ASSUME MediaInv, NEW s \in Session, Ended(s)
    PROVE  /\ pc' \in [Session -> Step] /\ ses' \in [Session -> Ses]
           /\ lock' \in Session \cup {NoSession} /\ Drafted(s)'
  <1>1. ses'[s] = NoSes /\ pc'[s] = "idle"
    BY DEF Ended, At
  <1>2. Drafted(s)'
    BY <1>1, NoSesIs DEF Drafted, Place
  <1> QED
    BY <1>2 DEF Ended, At, MediaInv, TypeOK

LEMMA BeginsTyped ==
    ASSUME MediaInv, NEW s \in Session,
           \/ StartUpload(s) \/ StartNew(s) \/ BeginComplete(s) \/ BeginDelete(s)
           \/ BeginPage(s) \/ BeginJanitor(s) \/ BeginPrune(s) \/ BeginTranscribe(s)
    PROVE  MediaInv'
  <1> USE DEF At, Holds
  <1>0. /\ TypeOK /\ RowOK
        /\ UNCHANGED <<world, row, made, nkeys, bucket, urls, lock, mailed, metered>>
        /\ turn' \in 0 .. MaxTurn /\ jobs' \in Seq(0 .. Retries)
    <2>1. TypeOK /\ RowOK
      BY DEF MediaInv, RowOK
    <2>2. UNCHANGED <<world, row, made, nkeys, bucket, urls, lock, mailed, metered>>
      BY DEF StartUpload, StartNew, BeginComplete, BeginDelete, BeginPage, BeginJanitor, BeginPrune,
             BeginTranscribe, store, tally
    <2>3. turn' \in 0 .. MaxTurn
      <3>1. CanAsk(s) \/ turn' = turn
        BY DEF StartUpload, StartNew, BeginComplete, BeginDelete, BeginPage, BeginJanitor,
               BeginPrune, BeginTranscribe
      <3> QED
        BY <2>1, <3>1 DEF CanAsk, TypeOK
    <2>4. jobs' \in Seq(0 .. Retries)
      <3>1. BeginTranscribe(s) \/ jobs' = jobs
        BY DEF StartUpload, StartNew, BeginComplete, BeginDelete, BeginPage, BeginJanitor, BeginPrune
      <3> QED
        BY <2>1, <3>1, TaskIs DEF TypeOK
    <2> QED
      BY <2>1, <2>2, <2>3, <2>4
  <1>1. ASSUME Others(s), pc' \in [Session -> Step], ses' \in [Session -> Ses], Drafted(s)'
        PROVE  MediaInv'
    BY <1>0, <1>1, InvOf DEF TypeOK, RowOK
  <1>2. CASE StartUpload(s) \/ StartNew(s)
    <2>1. PICK new \in Row :
            /\ Others(s) /\ At(s, "track") /\ Holds(s, "start", row, new)
            /\ new.here /\ new.timed = row.timed /\ new.recapped = row.recapped
      BY <1>0, <1>2, StartIs DEF SameTale
    <2>2. Drafted(s)'
      BY <1>0, <2>1 DEF Drafted, Place, RowOK
    <2> QED
      BY <1>1, <2>1, <2>2
  <1>3. CASE BeginComplete(s)
    <2>1. /\ Others(s) /\ At(s, "head") /\ Holds(s, "complete", row, row) /\ row.here
      BY <1>0, <1>3, CompleteIs
    <2>2. Drafted(s)'
      BY <1>0, <2>1 DEF Drafted, Place, RowOK
    <2> QED
      BY <1>1, <2>1, <2>2
  <1>4. CASE BeginDelete(s)
    <2>1. /\ Others(s) /\ Holds(s, "delete", row, NoRow) /\ row.here
          /\ At(s, "commit") \/ At(s, "discard")
      BY <1>0, <1>4, DeleteIs
    <2>2. Drafted(s)'
      BY <1>0, <2>1, NoSesIs DEF Drafted, Place, RowOK
    <2> QED
      BY <1>1, <2>1, <2>2
  <1>5. CASE BeginPage(s)
    <2>1. PICK new \in Row :
            /\ Others(s) /\ At(s, "resolve") /\ Holds(s, "page", row, new) /\ row.here
            /\ new.here = row.here /\ new.timed = row.timed /\ new.recapped = row.recapped
      BY <1>0, <1>5, PageIs DEF SameMedia, SameTale
    <2>2. Drafted(s)'
      BY <1>0, <2>1 DEF Drafted, Place, RowOK
    <2> QED
      BY <1>1, <2>1, <2>2
  <1>6. CASE BeginJanitor(s)
    <2>1. PICK new \in Row :
            /\ Others(s) /\ At(s, "discard") /\ Holds(s, "janitor", row, new) /\ row.here
            /\ new.here = row.here /\ new.timed = row.timed /\ new.recapped = row.recapped
      BY <1>0, <1>6, JanitorIs DEF SameMedia, SameTale
    <2>2. Drafted(s)'
      BY <1>0, <2>1 DEF Drafted, Place, RowOK
    <2> QED
      BY <1>1, <2>1, <2>2
  <1>7. CASE BeginPrune(s)
    <2>1. PICK new \in Row :
            /\ Others(s) /\ Holds(s, "prune", row, new) /\ row.here
            /\ At(s, "commit") \/ At(s, "discard")
            /\ new.here /\ new.timed = row.timed /\ new.recapped = row.recapped
      BY <1>0, <1>7, PruneIs
    <2>2. Drafted(s)'
      BY <1>0, <2>1 DEF Drafted, Place, RowOK
    <2> QED
      BY <1>1, <2>1, <2>2
  <1>8. CASE BeginTranscribe(s)
    <2>1. CASE Skipped /\ UNCHANGED <<pc, ses>>
      <3>1. Others(s) /\ Drafted(s)' /\ pc' \in [Session -> Step] /\ ses' \in [Session -> Ses]
        BY <1>0, <2>1 DEF MediaInv, Others, Drafted, TypeOK
      <3> QED
        BY <1>1, <3>1
    <2>2. CASE /\ ~Skipped /\ Others(s) /\ At(s, "stamp")
               /\ Holds(s, "transcribe", row, row)
      <3>1. Drafted(s)'
        BY <1>0, <2>2 DEF Drafted, Place, RowOK, Skipped
      <3> QED
        BY <1>1, <2>2, <3>1
    <2> QED
      BY <1>0, <1>8, <2>1, <2>2, TaskIs
  <1> QED
    BY <1>2, <1>3, <1>4, <1>5, <1>6, <1>7, <1>8

Moves(s) ==
    \/ Track(s) \/ Reserve(s) \/ Confirm(s) \/ QueueTranscription(s) \/ Resolve(s)
    \/ Discard(s) \/ DiscardFails(s) \/ Stamp(s) \/ Transcribe(s) \/ TranscribeFails(s)
    \/ Finalize(s)

\* What a session at work leaves alone.
LEMMA MovesKeep ==
    ASSUME MediaInv, NEW s \in Session, Moves(s)
    PROVE  /\ UNCHANGED <<world, row, urls, turn, metered>>
           /\ made' = (IF Track(s) THEN TRUE ELSE made) /\ (nkeys' = nkeys \/ Reserve(s))
           /\ (bucket' = bucket \/ Discard(s))
           /\ (jobs' = jobs \/ QueueTranscription(s) \/ TranscribeFails(s))
           /\ (mailed' = mailed \/ Finalize(s))
           /\ lock' \in {lock, s, NoSession}
  <1>1. CASE Track(s)
    BY <1>1 DEF Track, store, tally, FlushIf, Flush
  <1>2. CASE Reserve(s)
    BY <1>2 DEF Reserve, Track, tally, Flush
  <1>3. CASE Confirm(s)
    BY <1>3 DEF Confirm, Track, store, tally, Flush
  <1>4. CASE QueueTranscription(s)
    BY <1>4 DEF QueueTranscription, Track, store, tally
  <1>5. CASE Resolve(s)
    BY <1>5 DEF Resolve, Track, store, tally, FlushIf, Flush
  <1>6. CASE Discard(s)
    BY <1>6 DEF Discard, Track, tally
  <1>7. CASE DiscardFails(s)
    <2>1. lock' \in {lock, s, NoSession}
      BY <1>7, DiscardFailsIs DEF MediaInv, Ended
    <2>2. pc[s] # "track"
      BY <1>7 DEF DiscardFails
    <2> QED
      BY <1>7, <2>1, <2>2 DEF DiscardFails, Track, store, tally
  <1>8. CASE Stamp(s)
    BY <1>8 DEF Stamp, Track, store, tally, FlushIf, Flush
  <1>9. CASE Transcribe(s)
    <2>1. lock' \in {lock, s, NoSession}
      BY <1>9 DEF Transcribe, Flush
    <2>2. pc[s] # "track"
      BY <1>9 DEF Transcribe
    <2> QED
      BY <1>9, <2>1, <2>2 DEF Transcribe, Track, store, tally
  <1>10. CASE TranscribeFails(s)
    <2>1. lock' \in {lock, s, NoSession}
      BY <1>10, TranscribeFailsIs DEF MediaInv, Ended
    <2>2. pc[s] # "track"
      BY <1>10 DEF TranscribeFails
    <2> QED
      BY <1>10, <2>1, <2>2 DEF TranscribeFails, Track, store, tally
  <1>11. CASE Finalize(s)
    <2>1. lock' \in {lock, s, NoSession}
      BY <1>11 DEF Finalize, Flush
    <2>2. pc[s] # "track"
      BY <1>11 DEF Finalize
    <2> QED
      BY <1>11, <2>1, <2>2 DEF Finalize, Track, store
  <1> QED
    BY <1>1, <1>2, <1>3, <1>4, <1>5, <1>6, <1>7, <1>8, <1>9, <1>10, <1>11 DEF Moves

LEMMA MovesTyped == ASSUME MediaInv, NEW s \in Session, Moves(s) PROVE MediaInv'
  <1> USE DEF At, Holds
  <1>0. /\ TypeOK /\ RowOK /\ Drafted(s)
        /\ UNCHANGED <<world, row, urls, turn, metered>>
        /\ made' \in BOOLEAN /\ (row.here => made') /\ (made => made')
        /\ (Track(s) => made')
        /\ lock' \in Session \cup {NoSession}
    BY MovesKeep DEF MediaInv, TypeOK, RowOK
  <1>1. nkeys' \in 0 .. MaxKey /\ nkeys' >= nkeys /\ urls \subseteq 1 .. nkeys'
    <2>1. nkeys' = nkeys \/ (nkeys' = nkeys + 1 /\ nkeys' \in 1 .. MaxKey)
      BY <1>0, MovesKeep, ReserveIs
    <2> QED
      BY <1>0, <2>1 DEF TypeOK
  <1>2. bucket' \in [Key -> Object \cup {"none"}]
    BY <1>0, MovesKeep, DiscardIs DEF TypeOK
  <1>3. jobs' \in Seq(0 .. Retries)
    BY <1>0, MovesKeep, QueueIs, TranscribeFailsIs DEF TypeOK
  <1>4. mailed' \in Nat
    <2>1. mailed' = mailed \/ mailed' = mailed + 1
      BY <1>0, MovesKeep, FinalizeIs
    <2> QED
      BY <1>0, <2>1 DEF TypeOK
  <1>5. ASSUME Others(s), pc' \in [Session -> Step], ses' \in [Session -> Ses], Drafted(s)'
        PROVE  MediaInv'
    BY <1>0, <1>1, <1>2, <1>3, <1>4, <1>5, InvOf DEF TypeOK, RowOK
  <1>6. CASE \/ Track(s) \/ QueueTranscription(s) \/ Resolve(s) \/ Discard(s) \/ Stamp(s)
    <2>1. /\ Others(s) /\ Keeps(s)
          /\ \/ pc[s] = "track" /\ At(s, "reserve")
             \/ pc[s] \in {"queue", "resolve", "discard"} /\ At(s, "commit")
             \/ pc[s] = "stamp" /\ (At(s, "recap") \/ At(s, "media"))
      BY <1>0, <1>6, TrackIs, QueueIs, ResolveIs, DiscardIs, StampIs
    <2>2. Drafted(s)'
      <3>1. CASE pc[s] = "track"
        <4>1. ses[s].op = "start" /\ made' /\ pc'[s] = "reserve"
          <5>1. Track(s)
            BY <1>6, <3>1 DEF QueueTranscription, Resolve, Discard, Stamp
          <5> QED
            BY <1>0, <2>1, <3>1, <5>1, Where
        <4> QED
          BY <1>0, <2>1, <4>1 DEF Keeps, Drafted, Place
      <3>2. CASE pc[s] = "stamp"
        BY <1>0, <2>1, <3>2, Where DEF Keeps, Drafted, Place
      <3>3. CASE pc[s] \in {"queue", "resolve", "discard"}
        BY <1>0, <2>1, <3>3, Where DEF Keeps, Drafted, Place
      <3> QED
        BY <2>1, <3>1, <3>2, <3>3
    <2> QED
      BY <1>5, <2>1, <2>2 DEF Keeps
  <1>7. CASE Reserve(s)
    <2>1. PICK new \in Row :
            /\ pc[s] = "reserve" /\ Others(s) /\ At(s, "commit") /\ Redrafts(s, new)
            /\ new.key = nkeys' /\ nkeys' \in 1 .. MaxKey
            /\ new.here = ses[s].new.here /\ new.timed = ses[s].new.timed
            /\ new.recapped = ses[s].new.recapped
      BY <1>0, <1>7, ReserveIs DEF SameTale
    <2>2. new.key \in 1 .. nkeys'
      BY <2>1
    <2>3. Drafted(s)'
      BY <1>0, <2>1, <2>2, Where DEF Redrafts, Drafted, Place
    <2> QED
      BY <1>5, <2>1, <2>3 DEF Redrafts
  <1>8. CASE Confirm(s)
    <2>1. PICK new \in Row :
            /\ pc[s] = "head" /\ Others(s) /\ At(s, "queue") /\ Redrafts(s, new)
            /\ new.here = ses[s].new.here /\ new.timed = ses[s].new.timed
            /\ new.recapped = ses[s].new.recapped
      BY <1>0, <1>8, ConfirmIs DEF SameTale
    <2>2. Drafted(s)'
      BY <1>0, <2>1, Where DEF Redrafts, Drafted, Place
    <2> QED
      BY <1>5, <2>1, <2>2 DEF Redrafts
  <1>9. CASE DiscardFails(s)
    <2>1. CASE Ended(s)
      BY <1>0, <1>5, <1>9, <2>1, DiscardFailsIs, EndedIs
    <2>2. CASE /\ ses[s].op = "prune" /\ At(s, "commit")
               /\ \E new \in Row :
                    /\ Redrafts(s, new) /\ new.here = ses[s].seen.here
                    /\ new.timed = ses[s].seen.timed /\ new.recapped = ses[s].seen.recapped
      <3>1. Drafted(s)'
        BY <1>0, <2>2 DEF Redrafts, Drafted, Place
      <3> QED
        BY <1>0, <1>5, <1>9, <2>2, <3>1, DiscardFailsIs DEF Redrafts
    <2>3. CASE ses[s].op \notin {"delete", "prune"} /\ At(s, "commit") /\ Keeps(s)
      <3>1. Drafted(s)'
        BY <1>0, <1>9, <2>3, DiscardFailsIs, Where DEF Keeps, Drafted, Place
      <3> QED
        BY <1>0, <1>5, <1>9, <2>3, <3>1, DiscardFailsIs DEF Keeps
    <2> QED
      BY <1>0, <1>9, <2>1, <2>2, <2>3, DiscardFailsIs
  <1>10. CASE Transcribe(s)
    <2>1. PICK new \in Row :
            /\ pc[s] = "media" /\ Others(s) /\ Redrafts(s, new) /\ new.here = ses[s].new.here
            /\ At(s, "commit") \/ At(s, "recap")
      BY <1>0, <1>10, TranscribeIs DEF SameMedia
    <2>2. Drafted(s)'
      BY <1>0, <2>1, Where DEF Redrafts, Drafted, Place
    <2> QED
      BY <1>5, <2>1, <2>2 DEF Redrafts
  <1>11. CASE TranscribeFails(s)
    <2>1. CASE Ended(s)
      BY <1>0, <1>5, <1>11, <2>1, TranscribeFailsIs, EndedIs
    <2>2. CASE /\ At(s, "commit")
               /\ \E new \in Row :
                    /\ Holds(s, "fail", row, new)
                    /\ SameMedia(new, row) /\ SameTale(new, row)
                    /\ ~row.here => new = row
      <3>1. Drafted(s)'
        BY <1>0, <2>2 DEF Drafted, Place, RowOK, SameMedia, SameTale
      <3> QED
        BY <1>0, <1>5, <1>11, <2>2, <3>1, TranscribeFailsIs
    <2> QED
      BY <1>0, <1>11, <2>1, <2>2, TranscribeFailsIs
  <1>12. CASE Finalize(s)
    <2>1. pc[s] = "recap" /\ Others(s) /\ At(s, "commit")
      BY <1>0, <1>12, FinalizeIs
    <2>2. CASE Keeps(s)
      <3>1. Drafted(s)'
        BY <1>0, <2>1, <2>2, Where DEF Keeps, Drafted, Place
      <3> QED
        BY <1>5, <2>1, <2>2, <3>1 DEF Keeps
    <2>3. CASE \E new \in Row : Redrafts(s, new) /\ SameMedia(new, ses[s].new)
      <3>1. Drafted(s)'
        BY <1>0, <2>1, <2>3, Where DEF Redrafts, Drafted, Place, SameMedia
      <3> QED
        BY <1>5, <2>1, <2>3, <3>1 DEF Redrafts
    <2> QED
      BY <1>0, <1>12, <2>2, <2>3, FinalizeIs
  <1> QED
    BY <1>6, <1>7, <1>8, <1>9, <1>10, <1>11, <1>12 DEF Moves

LEMMA EndsTyped ==
    ASSUME MediaInv, NEW s \in Session, Commit(s) \/ Reject(s) \/ Fails(s) \/ Crash(s)
    PROVE  MediaInv'
  <1>0. TypeOK /\ RowOK /\ Drafted(s)
    BY DEF MediaInv, RowOK
  <1>1. /\ Others(s) /\ pc' \in [Session -> Step] /\ ses' \in [Session -> Ses]
        /\ lock' \in Session \cup {NoSession} /\ Drafted(s)'
    BY <1>0, CommitIs, QuitIs, EndedIs
  <1>2. CASE Reject(s) \/ Fails(s) \/ Crash(s)
    <2>1. UNCHANGED <<world, row, made, nkeys, bucket, urls, jobs, turn, mailed, metered>>
      BY <1>2 DEF Reject, Fails, Crash, store, tally
    <2> QED
      BY <1>0, <1>1, <2>1, InvOf DEF TypeOK, RowOK
  <1>3. CASE Commit(s)
    <2>1. UNCHANGED <<world, made, nkeys, bucket, jobs, turn, mailed>>
      BY <1>3 DEF Commit
    <2>2. metered' \in Nat
      BY <1>0, <1>3 DEF Commit, TypeOK
    <2>3. urls' \subseteq 1 .. nkeys'
      <3>1. ses[s].op = "start" => ses[s].new.key \in 1 .. nkeys
        BY <1>0, <1>3 DEF Commit, Drafted
      <3> QED
        BY <1>0, <1>3, <2>1, <3>1 DEF Commit, TypeOK
    <2>4. row' \in Row /\ (~row.here => row = NoRow)' /\ (row.here => made)'
      <3>1. CASE ~Commits(s)
        BY <1>0, <1>3, <2>1, <3>1, CommitIs DEF RowOK
      <3>2. CASE Commits(s)
        <4>1. row' = Visible(s) /\ row' \in Row
          BY <1>0, <1>3, <3>2, CommitIs
        <4>2. ~Gone(s) /\ ses[s].new # ses[s].seen
          BY <3>2 DEF Commits, Changed
        <4>3. CASE ~row.here \/ ~ses[s].new.here
          <5>1. row' = ses[s].new
            BY <1>0, <1>3, <4>1, <4>3, CommitIs
          <5>2. ~ses[s].new.here => row' = NoRow
            BY <1>0, <5>1 DEF Drafted
          <5>4. pc[s] = "commit" /\ ses[s].op \in Op
            BY <1>0, <1>3, CommitIs, Where
          <5>3. ses[s].new.here => made
            <6>1. CASE ses[s].seen.here
              BY <1>0, <4>2, <6>1 DEF Gone, RowOK
            <6>2. CASE ~ses[s].seen.here
              BY <1>0, <5>4, <6>2, Where DEF Drafted, Op
            <6> QED
              BY <6>1, <6>2
          <5> QED
            BY <2>1, <4>1, <5>1, <5>2, <5>3
        <4>4. CASE row.here /\ ses[s].new.here
          <5>1. row' = Merge(row, ses[s].new, ses[s].seen)
            BY <1>0, <1>3, <4>1, <4>4, CommitIs
          <5>2. row'.here = IF ses[s].new.here = ses[s].seen.here THEN row.here ELSE ses[s].new.here
            BY <1>0, <5>1, Where, MergeIs DEF TypeOK
          <5> QED
            BY <1>0, <2>1, <4>1, <4>4, <5>2 DEF RowOK
        <4> QED
          BY <4>3, <4>4
      <3> QED
        BY <3>1, <3>2
    <2> QED
      BY <1>0, <1>1, <2>1, <2>2, <2>3, <2>4, InvOf DEF TypeOK
  <1> QED
    BY <1>2, <1>3

Begins(s) ==
    \/ StartUpload(s) \/ StartNew(s) \/ BeginComplete(s) \/ BeginDelete(s)
    \/ BeginPage(s) \/ BeginJanitor(s) \/ BeginPrune(s) \/ BeginTranscribe(s)
Quits(s) == Reject(s) \/ Fails(s) \/ Crash(s)

\* A step is a session's, the client's or the clock's.
LEMMA NextIs ==
    ASSUME [Next]_vars
    PROVE  \/ \E s \in Session : Begins(s) \/ Moves(s) \/ Commit(s) \/ Quits(s)
           \/ \E k \in Key : Expire(k) \/ \E object \in Object : Put(k, object)
           \/ Tick
           \/ UNCHANGED vars
  BY DEF Next, Begins, Moves, Quits

LEMMA AttendedIs ==
    /\ Attended \in Row /\ Attended.here /\ Attended.timed /\ Attended.key = 0
    /\ ~Attended.confirmed /\ ~Attended.pruned
  <1>1. PICK a \in Row :
          /\ a = [NoRow EXCEPT !.here = TRUE, !.status = "delivered"]
          /\ a.here /\ a.key = 0 /\ ~a.confirmed /\ ~a.pruned
    <2>1. NoRow \in Row
      BY NoSesIs
    <2>2. ASSUME NEW n \in Row
          PROVE  LET x == [n EXCEPT !.here = TRUE, !.status = "delivered"] IN
                 x \in Row /\ x.here /\ x.key = n.key /\ x.confirmed = n.confirmed /\ x.pruned = n.pruned
      BY DEF Row, Status
    <2> QED
      BY <2>1, <2>2, NoSesIs
  <1>2. PICK b \in Row :
          /\ b = [a EXCEPT !.bot = TRUE, !.rec = TRUE]
          /\ b.here /\ b.key = 0 /\ ~b.confirmed /\ ~b.pruned
    <2>1. LET x == [a EXCEPT !.bot = TRUE, !.rec = TRUE] IN
          x \in Row /\ x.here = a.here /\ x.key = a.key /\ x.confirmed = a.confirmed /\ x.pruned = a.pruned
      BY DEF Row
    <2> QED
      BY <1>1, <2>1
  <1>3. PICK c \in Row :
          /\ c = [b EXCEPT !.text = TRUE, !.timed = TRUE, !.recapped = TRUE]
          /\ c.here /\ c.timed /\ c.key = 0 /\ ~c.confirmed /\ ~c.pruned
    <2>1. LET x == [b EXCEPT !.text = TRUE, !.timed = TRUE, !.recapped = TRUE] IN
          /\ x \in Row /\ x.here = b.here /\ x.timed /\ x.key = b.key
          /\ x.confirmed = b.confirmed /\ x.pruned = b.pruned
      BY DEF Row
    <2> QED
      BY <1>2, <2>1
  <1>4. Attended = c
    BY <1>1, <1>2, <1>3 DEF Attended
  <1> QED
    BY <1>3, <1>4

LEMMA InitTyped == Init => MediaInv
  <1> SUFFICES ASSUME Init PROVE MediaInv
    OBVIOUS
  <1>1. NoSes \in Ses /\ 0 \in 0 .. MaxKey /\ 0 \in 0 .. Retries
    BY NoSesIs DEF NoSes, Ses, Op
  <1>2. [NoRow EXCEPT !.here = TRUE] \in Row
    BY <1>1 DEF NoRow, Row, Status
  <1>3. Attended \in Row /\ Attended.here
    BY AttendedIs
  <1>4. row \in Row /\ (~row.here => row = NoRow) /\ made = row.here
    BY <1>2, <1>3, NoSesIs DEF Init, NoRow
  <1>5. row.here \in BOOLEAN
    BY <1>4 DEF Row
  <1>6. TypeOK
    BY <1>1, <1>4, <1>5 DEF Init, TypeOK, Step, Object
  <1>7. \A s \in Session : Drafted(s)
    BY NoSesIs DEF Init, Drafted, Place
  <1> QED
    BY <1>4, <1>6, <1>7 DEF MediaInv

LEMMA StepTyped == MediaInv /\ [Next]_vars => MediaInv'
  <1> SUFFICES ASSUME MediaInv, [Next]_vars PROVE MediaInv'
    OBVIOUS
  <1>1. ASSUME NEW s \in Session, Begins(s) \/ Moves(s) \/ Commit(s) \/ Quits(s) PROVE MediaInv'
    BY <1>1, BeginsTyped, MovesTyped, EndsTyped DEF Begins, Quits
  <1>2. ASSUME UNCHANGED <<faults, source, row, made, nkeys, jobs, pc, ses, lock, turn, mailed, metered>>,
               age' \in 0 .. 2, bucket' \in [Key -> Object \cup {"none"}], urls' \subseteq urls
        PROVE  MediaInv'
    <2>1. TypeOK'
      BY <1>2 DEF MediaInv, TypeOK
    <2>2. ASSUME NEW s \in Session PROVE Drafted(s)'
      BY <1>2 DEF MediaInv, Drafted
    <2> QED
      BY <1>2, <2>1, <2>2 DEF MediaInv
  <1>0. age \in 0 .. 2 /\ bucket \in [Key -> Object \cup {"none"}]
    BY DEF MediaInv, TypeOK
  <1>3. ASSUME NEW k \in Key, Expire(k) PROVE MediaInv'
    BY <1>0, <1>2, <1>3 DEF Expire, world, tally
  <1>4. ASSUME NEW k \in Key, NEW object \in Object, Put(k, object) PROVE MediaInv'
    <2>1. bucket' \in [Key -> Object \cup {"none"}]
      BY <1>0, <1>4 DEF Put
    <2> QED
      BY <1>0, <1>2, <1>4, <2>1 DEF Put, world, tally
  <1>5. CASE Tick
    <2>1. age' \in 0 .. 2
      BY <1>5 DEF Tick, MediaInv, TypeOK
    <2> QED
      BY <1>2, <1>5, <2>1 DEF Tick, store, tally, MediaInv, TypeOK
  <1>6. CASE UNCHANGED vars
    BY <1>2, <1>6 DEF vars, world, store, tally, MediaInv, TypeOK
  <1> QED
    BY <1>1, <1>3, <1>4, <1>5, <1>6, NextIs

\* Types, what the row holds and what each session holds, in every state.
THEOREM MediaTypeCorrect == Spec => []TypeOK
  <1>1. MediaInv => TypeOK
    BY DEF MediaInv
  <1> QED
    BY <1>1, InitTyped, StepTyped, PTL DEF Spec

-----------------------------------------------------------------------------
(* Who holds the row *)

\* A session takes the row when nobody else holds it, and gives back its own.
LEMMA LockIs ==
    ASSUME MediaInv, NEW s \in Session,
           Begins(s) \/ Moves(s) \/ Commit(s) \/ Quits(s)
    PROVE  lock' = lock \/ (lock \in {NoSession, s} /\ lock' \in {NoSession, s})
  <1>0. TypeOK
    BY DEF MediaInv
  <1>1. CASE Begins(s)
    BY <1>1 DEF Begins, StartUpload, StartNew, BeginComplete, BeginDelete, BeginPage, BeginJanitor,
                BeginPrune, BeginTranscribe
  <1>2. ASSUME Ended(s) PROVE lock' = lock \/ (lock \in {NoSession, s} /\ lock' \in {NoSession, s})
    BY <1>2 DEF Ended
  <1>3. CASE Commit(s) \/ Quits(s)
    BY <1>0, <1>2, <1>3, CommitIs, QuitIs DEF Quits
  <1>4. CASE Moves(s)
    <2>1. CASE Track(s) \/ Resolve(s) \/ Stamp(s)
      BY <2>1 DEF Track, Resolve, Stamp, FlushIf, Flush, Writable
    <2>2. CASE Reserve(s) \/ Confirm(s)
      BY <2>2 DEF Reserve, Confirm, Flush, Writable
    <2>3. CASE QueueTranscription(s) \/ Discard(s)
      BY <2>3 DEF QueueTranscription, Discard
    <2>4. CASE DiscardFails(s)
      BY <1>0, <1>2, <2>4, DiscardFailsIs
    <2>5. CASE Transcribe(s)
      BY <2>5 DEF Transcribe, Flush, Writable
    <2>6. CASE TranscribeFails(s)
      BY <1>0, <1>2, <2>6, TranscribeFailsIs
    <2>7. CASE Finalize(s)
      BY <2>7 DEF Finalize, Flush, Writable
    <2> QED
      BY <1>4, <2>1, <2>2, <2>3, <2>4, <2>5, <2>6, <2>7 DEF Moves
  <1> QED
    BY <1>1, <1>3, <1>4

\* What a beginning leaves alone, and what it reads.
LEMMA BeginsIs ==
    ASSUME MediaInv, NEW s \in Session, Begins(s)
    PROVE  /\ UNCHANGED <<world, row, made, nkeys, bucket, urls, lock, mailed, metered>>
           /\ pc[s] = "idle" /\ Others(s)
           /\ \/ UNCHANGED <<pc, ses>>
              \/ pc'[s] # "idle" /\ ses'[s].seen = row
  <1> USE DEF At, Holds
  <1>0. TypeOK /\ RowOK
    BY DEF MediaInv, RowOK
  <1>1. UNCHANGED <<world, row, made, nkeys, bucket, urls, lock, mailed, metered>>
    BY DEF Begins, StartUpload, StartNew, BeginComplete, BeginDelete, BeginPage, BeginJanitor,
           BeginPrune, BeginTranscribe, store, tally
  <1>2. Free(s)
    BY DEF Begins, StartUpload, StartNew, BeginComplete, BeginDelete, BeginPage, BeginJanitor,
           BeginPrune, BeginTranscribe, CanAsk
  <1>3. Others(s) /\ ((pc'[s] # "idle" /\ ses'[s].seen = row) \/ UNCHANGED <<pc, ses>>)
    <2>1. CASE StartUpload(s) \/ StartNew(s)
      BY <1>0, <2>1, StartIs
    <2>2. CASE BeginComplete(s)
      BY <1>0, <2>2, CompleteIs
    <2>3. CASE BeginDelete(s)
      BY <1>0, <2>3, DeleteIs
    <2>4. CASE BeginPage(s)
      BY <1>0, <2>4, PageIs
    <2>5. CASE BeginJanitor(s)
      BY <1>0, <2>5, JanitorIs
    <2>6. CASE BeginPrune(s)
      BY <1>0, <2>6, PruneIs
    <2>7. CASE BeginTranscribe(s)
      BY <1>0, <2>7, TaskIs DEF Others
    <2> QED
      BY <2>1, <2>2, <2>3, <2>4, <2>5, <2>6, <2>7 DEF Begins
  <1> QED
    BY <1>1, <1>2, <1>3 DEF Free

\* A session at work keeps its kind and what it read, ends, or sets out to fail
\* the meeting.
LEMMA MovesOn ==
    ASSUME MediaInv, NEW s \in Session, Moves(s)
    PROVE  /\ Others(s) /\ pc[s] # "idle"
           /\ \/ /\ ses'[s].op = ses[s].op /\ ses'[s].seen = ses[s].seen
                 /\ pc'[s] \notin {"idle", "track"}
                 /\ pc'[s] = "reserve" => Track(s)
              \/ Ended(s)
              \/ TranscribeFails(s) /\ ses'[s].op = "fail" /\ ses'[s].seen = row /\ pc'[s] = "commit"
  <1> USE DEF At, Holds, Keeps, Redrafts
  <1>0. TypeOK
    BY DEF MediaInv
  <1>1. CASE Track(s)
    BY <1>0, <1>1, TrackIs
  <1>2. CASE Reserve(s)
    BY <1>0, <1>2, ReserveIs
  <1>3. CASE Confirm(s)
    BY <1>0, <1>3, ConfirmIs
  <1>4. CASE QueueTranscription(s)
    BY <1>0, <1>4, QueueIs
  <1>5. CASE Resolve(s)
    BY <1>0, <1>5, ResolveIs
  <1>6. CASE Discard(s)
    BY <1>0, <1>6, DiscardIs
  <1>7. CASE DiscardFails(s)
    BY <1>0, <1>7, DiscardFailsIs
  <1>8. CASE Stamp(s)
    BY <1>0, <1>8, StampIs
  <1>9. CASE Transcribe(s)
    BY <1>0, <1>9, TranscribeIs
  <1>10. CASE TranscribeFails(s)
    BY <1>0, <1>10, TranscribeFailsIs
  <1>11. CASE Finalize(s)
    BY <1>0, <1>11, FinalizeIs
  <1> QED
    BY <1>1, <1>2, <1>3, <1>4, <1>5, <1>6, <1>7, <1>8, <1>9, <1>10, <1>11 DEF Moves

-----------------------------------------------------------------------------
(* The row is made once *)

LEMMA MakesInit == Init => MakesInv
  BY NoSesIs DEF Init, MakesInv, Makes, Unseen, MediaAssumption

\* A commit that makes the row is that of the session that makes it.
LEMMA MakerCommits ==
    ASSUME MediaInv, NEW s \in Session, pc[s] = "commit", Commits(s), ~ses[s].seen.here
    PROVE  Makes(s)
  <1>1. ses[s].op \in {"start", "fail"}
    BY Where DEF MediaInv, Drafted, Op
  <1>2. CASE ses[s].op = "start"
    BY <1>2 DEF Makes
  <1>3. CASE ses[s].op = "fail"
    BY <1>3 DEF MediaInv, Drafted, Commits, Changed
  <1> QED
    BY <1>1, <1>2, <1>3

LEMMA TrackMakes ==
    ASSUME MediaInv, MakesInv, NEW s \in Session, Track(s)
    PROVE  MakesInv'
  <1> USE DEF At, Holds, Keeps
  <1>0. TypeOK /\ pc[s] = "track" /\ ses[s].op = "start"
    BY Where DEF MediaInv, Track
  <1>1. Others(s) /\ pc'[s] = "reserve" /\ ses'[s] = ses[s]
    BY <1>0, TrackIs DEF Track
  <1>2. UNCHANGED <<row, mailed, metered>> /\ made' /\ ses' = ses
    BY DEF Track, tally
  <1>3. lock' = lock \/ (lock \in {NoSession, s} /\ lock' \in {NoSession, s})
    BY LockIs DEF Moves
  <1>4. ASSUME NEW t \in Session PROVE (pc[t] \in {"idle", "track"})' => lock' # t
    BY <1>0, <1>1, <1>3, <1>4 DEF MakesInv, Others
  <1>5. CASE ses[s].seen.here
    <2>1. ASSUME NEW t \in Session PROVE Makes(t)' <=> Makes(t)
      BY <1>0, <1>1, <1>2, <1>5 DEF Makes, Others
    <2>2. made
      BY <1>5 DEF MakesInv, Unseen
    <2>3. ASSUME NEW t \in Session, Makes(t) PROVE lock' = t
      BY <1>0, <1>3, <2>3 DEF MakesInv, Makes
    <2> QED
      BY <1>2, <1>4, <2>1, <2>2, <2>3 DEF MakesInv, Unseen
  <1>6. CASE ~ses[s].seen.here
    <2>1. Flush(s)
      BY <1>0, <1>6 DEF Track, FlushIf, Changed, MediaInv, Drafted
    <2>2. ~made /\ lock' = s
      BY <1>0, <1>6, <2>1 DEF Flush, Gone, MakesInv
    <2>3. ASSUME NEW t \in Session \ {s} PROVE ~Makes(t)'
      BY <1>1, <2>2 DEF Makes, Others, MakesInv
    <2> QED
      BY <1>2, <1>4, <2>2, <2>3 DEF MakesInv, Unseen
  <1> QED
    BY <1>5, <1>6

\* While a row is being made, or none has been, nobody knows of one.
LEMMA MakesStep == MediaInv /\ MakesInv /\ [Next]_vars => MakesInv'
  <1> SUFFICES ASSUME MediaInv, MakesInv, [Next]_vars PROVE MakesInv'
    OBVIOUS
  <1>1. ASSUME NEW s \in Session, Others(s),
               lock' = lock \/ (lock \in {NoSession, s} /\ lock' \in {NoSession, s}),
               pc'[s] = "idle" => lock' # s, pc'[s] # "track" \/ lock' = lock,
               pc'[s] = "track" => pc[s] = "idle",
               made' = made, Makes(s)' => Makes(s) /\ lock' = s,
               (~made \/ \E t \in Session \ {s} : Makes(t)) \/ Makes(s)' =>
                    UNCHANGED <<row, mailed, metered>> /\ ~ses'[s].seen.here
        PROVE  MakesInv'
    <2>1. ASSUME NEW t \in Session PROVE (pc[t] \in {"idle", "track"})' => lock' # t
      BY <1>1, <2>1 DEF MakesInv, Others
    <2>2. ASSUME NEW t \in Session \ {s} PROVE Makes(t)' <=> Makes(t)
      BY <1>1 DEF Makes, Others
    <2>3. ASSUME NEW t \in Session, Makes(t)' PROVE made' /\ lock' = t
      BY <1>1, <2>2, <2>3, MediaAssumption DEF MakesInv
    <2>4. ASSUME ~made' \/ \E t \in Session : Makes(t)' PROVE Unseen'
      <3>1. /\ UNCHANGED <<row, mailed, metered>> /\ ~ses'[s].seen.here
        BY <1>1, <2>2, <2>4
      <3>2. Unseen
        BY <1>1, <2>2, <2>4 DEF MakesInv
      <3> QED
        BY <1>1, <3>1, <3>2 DEF Unseen, Others
    <2> QED
      BY <2>1, <2>3, <2>4 DEF MakesInv
  <1>2. ASSUME NEW s \in Session, Begins(s) PROVE MakesInv'
    <2>1. /\ UNCHANGED <<row, made, lock, mailed, metered>> /\ pc[s] = "idle" /\ Others(s)
          /\ UNCHANGED <<pc, ses>> \/ (pc'[s] # "idle" /\ ses'[s].seen = row)
      BY <1>2, BeginsIs
    <2>2. MediaInv'
      BY <1>2, StepTyped
    <2>3. ~Makes(s)'
      <3>1. CASE UNCHANGED <<pc, ses>>
        BY <2>1, <3>1 DEF Makes
      <3>2. CASE ses'[s].op = "start" /\ pc'[s] = "track"
        BY <3>2 DEF Makes
      <3>3. CASE ses'[s].op # "start"
        BY <3>3 DEF Makes
      <3>4. ses'[s].op = "start" => pc'[s] = "track" \/ UNCHANGED <<pc, ses>>
        BY <1>2, <2>1, StartIs, CompleteIs, DeleteIs, PageIs, JanitorIs, PruneIs, TaskIs
           DEF Begins, Holds, At, MediaInv, RowOK
      <3> QED
        BY <3>1, <3>2, <3>3, <3>4
    <2>4. lock' # s
      BY <2>1 DEF MakesInv
    <2>5. ~made \/ (\E t \in Session \ {s} : Makes(t)) => ~ses'[s].seen.here
      BY <2>1 DEF MakesInv, Unseen
    <2> QED
      BY <1>1, <2>1, <2>3, <2>4, <2>5
  <1>3. ASSUME NEW s \in Session, Moves(s) PROVE MakesInv'
    <2>1. CASE Track(s)
      BY <2>1, TrackMakes
    <2>2. CASE ~Track(s)
      <3>1. /\ UNCHANGED <<row, made, metered>> /\ (mailed' = mailed \/ Finalize(s))
        BY <1>3, <2>2, MovesKeep
      <3>2. lock' = lock \/ (lock \in {NoSession, s} /\ lock' \in {NoSession, s})
        BY <1>3, LockIs
      <3>3. /\ Others(s) /\ pc[s] # "idle"
            /\ \/ /\ ses'[s].op = ses[s].op /\ ses'[s].seen = ses[s].seen
                  /\ pc'[s] \notin {"idle", "track", "reserve"}
               \/ Ended(s)
               \/ TranscribeFails(s) /\ ses'[s].op = "fail" /\ ses'[s].seen = row /\ pc'[s] = "commit"
        BY <1>3, <2>2, MovesOn
      <3>4. Ended(s) => pc'[s] = "idle" /\ lock' # s /\ ~Makes(s)' /\ ~ses'[s].seen.here
        BY NoSesIs, MediaAssumption DEF Ended, At, Makes
      <3>5. pc[s] # "track"
        BY <1>3, <2>2 DEF Moves, Reserve, Confirm, QueueTranscription, Resolve, Discard, DiscardFails,
               Stamp, Transcribe, TranscribeFails, Finalize
      <3>6. Makes(s)' => Makes(s) /\ lock' = s
        <4>1. ASSUME Makes(s)' PROVE Makes(s)
          <5>1. ses[s].op = "start" /\ ~ses[s].seen.here
            BY <3>3, <3>4, <4>1 DEF Makes
          <5>2. pc[s] \in {"reserve", "commit"}
            BY <3>3, <3>5, <5>1 DEF MediaInv, Drafted, Place
          <5> QED
            BY <5>1, <5>2 DEF Makes
        <4>2. ASSUME Makes(s) PROVE lock' = s
          <5>1. Reserve(s)
            BY <1>3, <2>2, <4>2 DEF Moves, Makes, Confirm, QueueTranscription, Resolve, Discard,
                   DiscardFails, Stamp, Transcribe, TranscribeFails, Finalize
          <5> QED
            BY <5>1 DEF Reserve, Flush
        <4> QED
          BY <4>1, <4>2
      <3>7. ASSUME (~made \/ \E t \in Session \ {s} : Makes(t)) \/ Makes(s)'
            PROVE  mailed' = mailed /\ ~ses'[s].seen.here
        <4>1. Unseen
          BY <3>6, <3>7 DEF MakesInv
        <4>2. ~ses[s].seen.here /\ ~row.here
          BY <4>1 DEF Unseen
        <4>3. ses[s].op # "transcribe"
          BY <4>2 DEF MediaInv, Drafted
        <4>4. ~Finalize(s)
          BY <4>3, Where DEF Finalize
        <4> QED
          BY <3>1, <3>3, <3>4, <4>2, <4>4
      <3> QED
        BY <1>1, <3>1, <3>2, <3>3, <3>4, <3>6, <3>7
    <2> QED
      BY <2>1, <2>2
  <1>4. ASSUME NEW s \in Session, Commit(s) \/ Quits(s) PROVE MakesInv'
    <2>1. Others(s) /\ Ended(s) /\ made' = made
      BY <1>4, CommitIs, QuitIs DEF MediaInv, Quits, Commit, Reject, Fails, Crash
    <2>2. lock' = lock \/ (lock \in {NoSession, s} /\ lock' \in {NoSession, s})
      BY <1>4, LockIs
    <2>3. pc'[s] = "idle" /\ lock' # s /\ ~Makes(s)' /\ ~ses'[s].seen.here
      BY <2>1, NoSesIs, MediaAssumption DEF Ended, At, Makes
    <2>4. ASSUME ~made \/ \E t \in Session \ {s} : Makes(t)
          PROVE  UNCHANGED <<row, mailed, metered>>
      <3>1. CASE Quits(s)
        BY <3>1 DEF Quits, Reject, Fails, Crash, tally
      <3>2. CASE Commit(s)
        <4>1. ~Makes(s)
          BY <2>4 DEF MakesInv
        <4>2. ~ses[s].seen.here
          BY <2>4 DEF MakesInv, Unseen
        <4>3. ~Commits(s)
          BY <3>2, <4>1, <4>2, MakerCommits DEF Commit
        <4> QED
          BY <3>2, <4>3 DEF Commit
      <3> QED
        BY <1>4, <3>1, <3>2
    <2> QED
      BY <1>1, <2>1, <2>2, <2>3, <2>4
  <1>5. CASE \/ \E k \in Key : Expire(k) \/ \E object \in Object : Put(k, object)
             \/ Tick \/ UNCHANGED vars
    <2>1. UNCHANGED <<row, made, mailed, metered, lock, pc, ses>>
      BY <1>5 DEF Expire, Put, Tick, vars, tally, store
    <2> QED
      BY <2>1 DEF MakesInv, Makes, Unseen
  <1> QED
    BY <1>2, <1>3, <1>4, <1>5, NextIs

-----------------------------------------------------------------------------
(* One recap and one charge *)

Singly == Unless({"workers", "crash"})

LEMMA FaultsKept == ASSUME [Next]_vars PROVE faults' = faults
  <1>1. ASSUME NEW s \in Session, Begins(s) PROVE faults' = faults
    BY <1>1 DEF Begins, StartUpload, StartNew, BeginComplete, BeginDelete, BeginPage, BeginJanitor,
                BeginPrune, BeginTranscribe, world
  <1>2. ASSUME NEW s \in Session, Moves(s) PROVE faults' = faults
    BY <1>2 DEF Moves, Track, Reserve, Confirm, QueueTranscription, Resolve, Discard, DiscardFails,
                Stamp, Transcribe, TranscribeFails, Finalize, world
  <1>3. ASSUME NEW s \in Session, Commit(s) \/ Quits(s) PROVE faults' = faults
    BY <1>3 DEF Quits, Commit, Reject, Fails, Crash, world
  <1>4. CASE \/ \E k \in Key : Expire(k) \/ \E object \in Object : Put(k, object)
             \/ Tick \/ UNCHANGED vars
    BY <1>4 DEF Expire, Put, Tick, vars, world
  <1> QED
    BY <1>1, <1>2, <1>3, <1>4, NextIs

LEMMA SinglyKept == ASSUME [Next]_vars PROVE Singly' <=> Singly
  BY FaultsKept DEF Singly, Unless

\* What a commit does to the tale the row tells.
LEMMA CommitTells ==
    ASSUME MediaInv, MakesInv, NEW s \in Session, Commit(s), Commits(s), row'.here
    PROVE  \/ Unseen /\ ~Transcribes(s)
           \/ /\ row.here /\ ses[s].new.here /\ ses[s].seen.here
              /\ row'.timed = IF ses[s].new.timed = ses[s].seen.timed THEN row.timed
                              ELSE ses[s].new.timed
              /\ row'.recapped = IF ses[s].new.recapped = ses[s].seen.recapped THEN row.recapped
                                 ELSE ses[s].new.recapped
  <1>0. TypeOK /\ row \in Row /\ pc[s] = "commit"
    BY DEF MediaInv, TypeOK, Commit
  <1>1. row' = Visible(s) /\ ~Gone(s)
    BY <1>0, CommitIs DEF Commits
  <1>2. CASE ~ses[s].seen.here
    <2>1. Makes(s)
      BY <1>0, <1>2, MakerCommits
    <2> QED
      BY <2>1 DEF MakesInv, Makes, Transcribes
  <1>3. CASE ses[s].seen.here
    <2>1. row.here
      BY <1>1, <1>3 DEF Gone
    <2>2. ses[s].new.here
      BY <1>0, <1>1, CommitIs
    <2>3. row' = Merge(row, ses[s].new, ses[s].seen)
      BY <1>0, <1>1, <2>1, <2>2, CommitIs
    <2> QED
      BY <1>0, <1>3, <2>1, <2>2, <2>3, Where, MergeIs
  <1> QED
    BY <1>2, <1>3

LEMMA OnceInit == Init => OnceInv
  BY NoSesIs DEF Init, OnceInv, Transcribes

LEMMA OnceStep == MediaInv /\ MakesInv /\ OnceInv /\ [Next]_vars => OnceInv'
  <1> SUFFICES ASSUME MediaInv, MakesInv, OnceInv, [Next]_vars, Singly PROVE OnceInv'
    BY SinglyKept DEF OnceInv, Singly
  <1>0. /\ TypeOK /\ MediaInv' /\ mailed \in Nat /\ metered \in Nat
        /\ \A s, t \in Session : Transcribes(s) /\ Transcribes(t) => s = t
        /\ \A s \in Session : Transcribes(s) => Informed(s)
        /\ metered <= 1 /\ (metered = 1 /\ row.here => row.timed)
        /\ mailed <= 1
        /\ mailed = 1 /\ row.here =>
              row.recapped \/ \E s \in Session : Transcribes(s) /\ ses[s].new.recapped
    BY StepTyped DEF OnceInv, Singly, MediaInv, TypeOK
  \* The row and the counts are as they were, but for a recap that was sent.
  <1>1. ASSUME NEW s \in Session, Others(s), UNCHANGED <<row, metered>>,
               Transcribes(s)' => Informed(s)' /\ \A t \in Session \ {s} : ~Transcribes(t),
               \/ mailed' = mailed
                  /\ (Transcribes(s) /\ ses[s].new.recapped => (Transcribes(s) /\ ses[s].new.recapped)')
               \/ mailed' = 1 /\ (Transcribes(s) /\ ses[s].new.recapped)'
        PROVE  OnceInv'
    <2>1. ASSUME NEW t \in Session \ {s}
          PROVE  /\ ses'[t] = ses[t] /\ pc'[t] = pc[t] /\ (Transcribes(t)' <=> Transcribes(t))
                 /\ (Informed(t)' <=> Informed(t))
      BY <1>1, <2>1 DEF Others, Transcribes, Informed
    <2>2. \A t, u \in Session : Transcribes(t)' /\ Transcribes(u)' => t = u
      BY <1>0, <1>1, <2>1
    <2>3. \A t \in Session : Transcribes(t)' => Informed(t)'
      BY <1>0, <1>1, <2>1
    <2>4. mailed' <= 1
      BY <1>0, <1>1
    <2>5. ASSUME mailed' = 1, row'.here
          PROVE  row'.recapped \/ \E t \in Session : (Transcribes(t) /\ ses[t].new.recapped)'
      <3>1. CASE /\ mailed' = mailed
                 /\ (Transcribes(s) /\ ses[s].new.recapped => (Transcribes(s) /\ ses[s].new.recapped)')
        <4>1. row.recapped \/ \E t \in Session : Transcribes(t) /\ ses[t].new.recapped
          BY <1>0, <1>1, <2>5, <3>1
        <4>2. ASSUME NEW t \in Session, Transcribes(t), ses[t].new.recapped
              PROVE  (Transcribes(t) /\ ses[t].new.recapped)'
          BY <2>1, <3>1, <4>2
        <4> QED
          BY <1>1, <4>1, <4>2
      <3>2. CASE (Transcribes(s) /\ ses[s].new.recapped)'
        BY <3>2
      <3> QED
        BY <1>1, <3>1, <3>2
    <2>6. metered' <= 1 /\ (metered' = 1 /\ row'.here => row'.timed)
      BY <1>0, <1>1
    <2> QED
      BY <2>2, <2>3, <2>4, <2>5, <2>6 DEF OnceInv
  <1>2. ASSUME NEW s \in Session, Begins(s) PROVE OnceInv'
    <2>1. /\ UNCHANGED <<row, mailed, metered>> /\ pc[s] = "idle" /\ Others(s)
          /\ ~Transcribes(s)
      BY <1>2, BeginsIs, Where DEF Transcribes
    <2>2. CASE BeginTranscribe(s)
      <3>1. CASE Skipped /\ UNCHANGED <<pc, ses>>
        <4>1. ~Transcribes(s)'
          BY <2>1, <3>1 DEF Transcribes
        <4> QED
          BY <1>1, <2>1, <4>1
      <3>2. CASE ~Skipped /\ At(s, "stamp") /\ Holds(s, "transcribe", row, row)
        <4>1. \A t \in Session : ~Transcribes(t)
          BY <2>2 DEF BeginTranscribe, Running, Transcribes, Singly, Unless
        <4>2. Informed(s)'
          BY <2>1, <3>2 DEF Skipped, Informed, Holds, At
        <4> QED
          BY <1>1, <2>1, <4>1, <4>2
      <3> QED
        BY <1>0, <2>2, <3>1, <3>2, TaskIs
    <2>3. CASE ~BeginTranscribe(s)
      <3>1. ~Transcribes(s)'
        BY <1>0, <1>2, <2>3, StartIs, CompleteIs, DeleteIs, PageIs, JanitorIs, PruneIs
           DEF Begins, Holds, Transcribes, MediaInv, RowOK
      <3> QED
        BY <1>1, <2>1, <3>1
    <2> QED
      BY <2>2, <2>3
  <1>3. ASSUME NEW s \in Session, Moves(s) PROVE OnceInv'
    <2>0. UNCHANGED <<row, metered>> /\ (mailed' = mailed \/ Finalize(s)) /\ Others(s)
      BY <1>3, MovesKeep, MovesOn
    <2>1. CASE ~Transcribes(s)
      <3>1. ~Stamp(s) /\ ~Transcribe(s) /\ ~TranscribeFails(s) /\ ~Finalize(s)
        BY <2>1, Where DEF Stamp, Transcribe, TranscribeFails, Finalize, Transcribes
      <3>2. ses'[s].op = ses[s].op \/ Ended(s)
        BY <1>3, <3>1, MovesOn
      <3>3. ~Transcribes(s)'
        BY <2>1, <3>2, NoSesIs DEF Transcribes, Ended
      <3> QED
        BY <1>1, <2>0, <2>1, <3>1, <3>3
    <2>2. CASE Transcribes(s)
      <3>0. Informed(s) /\ \A t \in Session \ {s} : ~Transcribes(t)
        BY <1>0, <2>2
      <3>1. CASE Stamp(s)
        <4>1. ses'[s].op = ses[s].op /\ ses'[s].seen = ses[s].seen /\ ses'[s].new = ses[s].new
          BY <1>0, <3>1, StampIs DEF Keeps, Holds
        <4>2. pc[s] # "commit"
          BY <3>1 DEF Stamp
        <4>3. Informed(s)' /\ Transcribes(s)'
          BY <2>0, <2>2, <3>0, <4>1, <4>2 DEF Informed, Transcribes
        <4>4. mailed' = mailed
          BY <3>1 DEF Stamp, tally
        <4> QED
          BY <1>1, <2>0, <3>0, <4>1, <4>3, <4>4
      <3>2. CASE Transcribe(s)
        <4>1. PICK new \in Row :
                /\ pc[s] = "media" /\ Redrafts(s, new)
                /\ new.timed /\ new.recapped = ses[s].new.recapped
          BY <1>0, <3>2, TranscribeIs
        <4>2. Informed(s)' /\ Transcribes(s)'
          BY <2>0, <2>2, <3>0, <4>1 DEF Informed, Transcribes, Redrafts, Holds
        <4>3. mailed' = mailed
          BY <3>2 DEF Transcribe, tally
        <4> QED
          BY <1>1, <2>0, <3>0, <4>1, <4>2, <4>3 DEF Redrafts, Holds
      <3>3. CASE TranscribeFails(s)
        <4>1. ~Transcribes(s)'
          BY <1>0, <3>3, TranscribeFailsIs, NoSesIs DEF Transcribes, Ended, Holds
        <4>2. mailed' = mailed /\ ~ses[s].new.recapped
          BY <3>0, <3>3 DEF TranscribeFails, tally, Informed
        <4> QED
          BY <1>1, <2>0, <4>1, <4>2
      <3>4. CASE Finalize(s)
        <4>1. pc[s] = "recap" /\ At(s, "commit") /\ ~ses[s].new.recapped
          BY <1>0, <3>0, <3>4, FinalizeIs DEF Informed
        <4>2. CASE Keeps(s) /\ mailed' = mailed
          <5>1. Informed(s)' /\ Transcribes(s)'
            BY <2>0, <2>2, <3>0, <4>1, <4>2 DEF Informed, Transcribes, Keeps, Holds, At
          <5> QED
            BY <1>1, <2>0, <3>0, <4>1, <4>2, <5>1
        <4>3. CASE /\ Flush(s)
                   /\ \E new \in Row :
                        /\ Redrafts(s, new) /\ new.timed = ses[s].new.timed
                        /\ \/ mailed' = mailed /\ new.recapped = ses[s].new.recapped
                           \/ mailed' = mailed + 1 /\ new.recapped
          <5>1. PICK new \in Row :
                        /\ Redrafts(s, new) /\ new.timed = ses[s].new.timed
                        /\ \/ mailed' = mailed /\ new.recapped = ses[s].new.recapped
                           \/ mailed' = mailed + 1 /\ new.recapped
            BY <4>3
          <5>2. Informed(s)' /\ Transcribes(s)' /\ ses'[s].new = new
            BY <2>0, <2>2, <3>0, <4>1, <5>1 DEF Informed, Transcribes, Redrafts, Holds, At
          <5>3. mailed = 0
            <6>1. row.here
              BY <2>2, <4>3 DEF Flush, Gone, MediaInv, Drafted, Transcribes
            <6>2. mailed # 1
              BY <1>0, <2>2, <3>0, <4>1, <6>1 DEF Informed
            <6> QED
              BY <1>0, <6>2
          <5> QED
            BY <1>1, <2>0, <3>0, <4>1, <5>1, <5>2, <5>3
        <4> QED
          BY <1>0, <3>4, <4>2, <4>3, FinalizeIs
      <3> QED
        BY <1>3, <2>2, <3>1, <3>2, <3>3, <3>4, Where
           DEF Moves, Transcribes, Track, Reserve, Confirm, QueueTranscription, Resolve, Discard,
               DiscardFails
    <2> QED
      BY <2>1, <2>2
  <1>4. ASSUME NEW s \in Session, Quits(s) PROVE OnceInv'
    <2>1. Others(s) /\ ~Transcribes(s)' /\ UNCHANGED <<row, mailed, metered>>
      BY <1>0, <1>4, QuitIs, NoSesIs DEF Quits, Reject, Fails, Crash, tally, Ended, Transcribes
    <2>2. pc[s] # "commit"
      BY <1>4 DEF Quits, Reject, Fails, Crash, Singly, Unless
    <2>3. ~(Transcribes(s) /\ ses[s].new.recapped)
      BY <1>0, <2>2 DEF Informed
    <2> QED
      BY <1>1, <2>1, <2>3
  <1>5. ASSUME NEW s \in Session, Commit(s) PROVE OnceInv'
    <2>0. /\ Others(s) /\ ~Transcribes(s)' /\ mailed' = mailed /\ pc[s] = "commit"
          /\ metered' = IF Commits(s) /\ ses[s].new.timed /\ ~ses[s].seen.timed
                        THEN metered + 1 ELSE metered
      BY <1>0, <1>5, CommitIs, NoSesIs DEF Commit, Ended, Transcribes
    <2>1. CASE ~Commits(s)
      <3>1. row' = row /\ metered' = metered
        BY <2>0, <2>1, <1>5 DEF Commit
      <3>2. CASE ~(Transcribes(s) /\ ses[s].new.recapped)
        BY <1>1, <2>0, <3>1, <3>2
      <3>3. CASE Transcribes(s) /\ ses[s].new.recapped
        <4>1. ~row.here
          BY <1>0, <2>1, <3>3 DEF Commits, Changed, Gone, Informed, MediaInv, Drafted, Transcribes
        <4>2. ASSUME NEW t \in Session \ {s} PROVE ~Transcribes(t)'
          BY <1>0, <2>0, <3>3 DEF Others, Transcribes
        <4> QED
          BY <1>0, <2>0, <3>1, <4>1, <4>2 DEF OnceInv
      <3> QED
        BY <3>2, <3>3
    <2>2. CASE Commits(s) /\ ~row'.here
      <3>1. ASSUME NEW t \in Session, Transcribes(t)' PROVE t # s /\ Transcribes(t) /\ Informed(t)'
        <4>1. t # s
          BY <2>0, <3>1
        <4>2. ses'[t] = ses[t] /\ pc'[t] = pc[t]
          BY <2>0, <4>1 DEF Others
        <4>3. Transcribes(t)
          BY <3>1, <4>2 DEF Transcribes
        <4> QED
          BY <1>0, <2>2, <4>1, <4>2, <4>3 DEF Informed
      <3>2. metered' <= 1
        <4>1. CASE ses[s].new.timed /\ ~ses[s].seen.timed
          <5>1. ses[s].op \in {"transcribe", "delete"}
            BY <4>1 DEF MediaInv, Drafted
          <5>2. ses[s].new.here
            <6>1. ses[s].new # NoRow
              BY <4>1, NoSesIs
            <6> QED
              BY <6>1 DEF MediaInv, Drafted
          <5>3. ses[s].seen.here /\ row.here
            BY <2>2, <5>1 DEF MediaInv, Drafted, Commits, Gone
          <5>4. row' = Merge(row, ses[s].new, ses[s].seen)
            BY <1>0, <1>5, <2>2, <5>2, <5>3, CommitIs
          <5>5. row'.here
            BY <1>0, <5>2, <5>3, <5>4, Where, MergeIs DEF TypeOK
          <5> QED
            BY <2>2, <5>5
        <4>2. CASE ~(ses[s].new.timed /\ ~ses[s].seen.timed)
          BY <1>0, <2>0, <4>2
        <4> QED
          BY <4>1, <4>2
      <3> QED
        BY <1>0, <2>0, <2>2, <3>1, <3>2 DEF OnceInv
    <2>3. CASE Commits(s) /\ row'.here /\ Unseen /\ ~Transcribes(s)
      <3>1. \A t \in Session : ~Transcribes(t)
        BY <2>3 DEF Unseen, MediaInv, Drafted, Transcribes
      <3>2. \A t \in Session : ~Transcribes(t)'
        BY <2>0, <3>1 DEF Others, Transcribes
      <3>3. metered' = 0
        <4>1. ses[s].new.timed = ses[s].seen.timed
          <5>1. ses[s].op # "delete"
            BY <2>3 DEF Unseen, MediaInv, Drafted
          <5> QED
            BY <2>3, <5>1 DEF MediaInv, Drafted, Transcribes
        <4> QED
          BY <2>0, <2>3, <4>1 DEF Unseen
      <3> QED
        BY <2>0, <2>3, <3>2, <3>3 DEF OnceInv, Unseen
    <2>4. CASE /\ Commits(s) /\ row'.here
               /\ row.here /\ ses[s].new.here /\ ses[s].seen.here
               /\ row'.timed = IF ses[s].new.timed = ses[s].seen.timed THEN row.timed
                               ELSE ses[s].new.timed
               /\ row'.recapped = IF ses[s].new.recapped = ses[s].seen.recapped THEN row.recapped
                                  ELSE ses[s].new.recapped
      <3>1. CASE Transcribes(s)
        <4>1. Informed(s) /\ \A t \in Session \ {s} : ~Transcribes(t)
          BY <1>0, <3>1
        <4>2. \A t \in Session : ~Transcribes(t)'
          BY <2>0, <4>1 DEF Others, Transcribes
        <4>3. metered' <= 1 /\ (metered' = 1 => row'.timed)
          <5>1. CASE ses[s].new.timed /\ ~ses[s].seen.timed
            <6>1. ~row.timed
              BY <2>4, <4>1, <5>1 DEF Informed
            <6>2. metered = 0
              BY <1>0, <2>4, <6>1
            <6>3. row'.timed
              BY <2>4, <5>1
            <6>4. metered' = metered + 1
              BY <2>0, <2>4, <5>1
            <6> QED
              BY <6>2, <6>3, <6>4
          <5>2. CASE ~(ses[s].new.timed /\ ~ses[s].seen.timed)
            <6>1. metered' = metered /\ ses[s].new.timed = ses[s].seen.timed
              BY <2>0, <4>1, <5>2, Where DEF Informed, Row
            <6> QED
              BY <1>0, <2>4, <6>1
          <5> QED
            BY <5>1, <5>2
        <4>4. mailed = 1 => row'.recapped
          BY <1>0, <2>4, <4>1, Where DEF Informed, Row
        <4> QED
          BY <1>0, <2>0, <2>4, <4>2, <4>3, <4>4 DEF OnceInv
      <3>2. CASE ~Transcribes(s)
        <4>1. ses[s].new.timed = ses[s].seen.timed /\ ses[s].new.recapped = ses[s].seen.recapped
          <5>1. ses[s].op # "delete"
            BY <2>4 DEF MediaInv, Drafted
          <5> QED
            BY <3>2, <5>1 DEF MediaInv, Drafted, Transcribes
        <4>2. row'.timed = row.timed /\ row'.recapped = row.recapped /\ metered' = metered
          BY <2>0, <2>4, <4>1
        <4>3. ASSUME NEW t \in Session
              PROVE  /\ Transcribes(t)' <=> Transcribes(t)
                     /\ Transcribes(t) => Informed(t)' /\ ses'[t] = ses[t]
          <5>1. t = s \/ (t # s /\ ses'[t] = ses[t] /\ pc'[t] = pc[t])
            BY <2>0 DEF Others
          <5> QED
            BY <1>0, <2>0, <2>4, <3>2, <4>2, <5>1 DEF Transcribes, Informed
        <4> QED
          BY <1>0, <2>0, <2>4, <4>2, <4>3 DEF OnceInv
      <3> QED
        BY <3>1, <3>2
    <2> QED
      BY <1>5, <2>1, <2>2, <2>3, <2>4, CommitTells
  <1>6. CASE \/ \E k \in Key : Expire(k) \/ \E object \in Object : Put(k, object)
             \/ Tick \/ UNCHANGED vars
    <2>1. UNCHANGED <<row, mailed, metered, pc, ses>>
      BY <1>6 DEF Expire, Put, Tick, vars, tally, store
    <2> QED
      BY <1>0, <2>1 DEF OnceInv, Transcribes, Informed
  <1> QED
    BY <1>2, <1>3, <1>4, <1>5, <1>6, NextIs

\* AccountedOnce: one recap and one charge for the media of a meeting, whatever
\* the requests, the retries and the user's deletes do meanwhile.
THEOREM MediaAccountedOnce == Spec => []AccountedOnce
  <1>1. OnceInv => AccountedOnce
    BY DEF OnceInv, AccountedOnce
  <1> QED
    BY <1>1, InitTyped, StepTyped, MakesInit, MakesStep, OnceInit, OnceStep, PTL DEF Spec

-----------------------------------------------------------------------------
(* One session at a time *)

Alone == "overlap" \notin faults

LEMMA AloneIs ==
    ASSUME MediaInv, SerialInv, Alone, NEW s \in Session,
           Begins(s) \/ Moves(s) \/ Commit(s) \/ Quits(s)
    PROVE  /\ \A t \in Session \ {s} : pc[t] = "idle"
           /\ Begins(s) => Quiet
  <1>1. CASE Begins(s)
    <2>1. Free(s)
      BY <1>1 DEF Begins, StartUpload, StartNew, BeginComplete, BeginDelete, BeginPage, BeginJanitor,
             BeginPrune, BeginTranscribe, CanAsk
    <2> QED
      BY <2>1 DEF Free, Quiet, Alone
  <1>2. CASE Moves(s) \/ Commit(s) \/ Quits(s)
    <2>1. pc[s] # "idle"
      BY <1>2, MovesOn, CommitIs, QuitIs DEF MediaInv, Quits
    <2> QED
      BY <2>1, BeginsIs DEF SerialInv, Alone
  <1> QED
    BY <1>1, <1>2

LEMMA BeginsProper ==
    ASSUME MediaInv, SerialInv, Alone, NEW s \in Session, Begins(s)
    PROVE  pc'[s] # "idle" => Proper(s)'
  <1> USE DEF At, Holds
  <1>0. /\ TypeOK /\ RowOK /\ Sound(row) /\ (row.pruned => age = 2) /\ row' = row /\ age' = age
        /\ row \in Row /\ (~row.here => row.key = 0 /\ ~row.pruned)
    BY BeginsIs, NoSesIs DEF MediaInv, RowOK, SerialInv, Alone, world, TypeOK
  <1>1. CASE StartUpload(s) \/ StartNew(s)
    <2>1. PICK new \in Row :
            /\ ses'[s].op = "start" /\ ses'[s].seen = row /\ ses'[s].new = new /\ pc'[s] = "track"
            /\ row.key = 0 /\ (row.here => age < 2) /\ new.key = 0 /\ new.confirmed = row.confirmed
            /\ SameTale(new, row) /\ SameLink(new, row)
      BY <1>0, <1>1, StartIs
    <2>2. ~row.pruned
      BY <1>0, <2>1
    <2>3. Sound(new) /\ ~new.pruned
      BY <1>0, <2>1, <2>2 DEF Sound, SameTale, SameLink
    <2> QED
      BY <1>0, <2>1, <2>3 DEF Proper
  <1>2. CASE BeginComplete(s)
    BY <1>0, <1>2, CompleteIs DEF Proper
  <1>3. CASE BeginDelete(s)
    <2>1. /\ ses'[s].op = "delete" /\ ses'[s].seen = row /\ ses'[s].new = NoRow
          /\ pc'[s] = IF row.key = 0 THEN "commit" ELSE "discard"
      BY <1>0, <1>3, DeleteIs
    <2>2. Sound(NoRow)
      BY NoSesIs DEF Sound
    <2> QED
      BY <1>0, <2>1, <2>2, NoSesIs DEF Proper
  <1>4. CASE BeginPage(s)
    <2>1. PICK new \in Row :
            /\ ses'[s].op = "page" /\ ses'[s].seen = row /\ ses'[s].new = new /\ pc'[s] = "resolve"
            /\ ~row.pruned /\ SameMedia(new, row) /\ SameTale(new, row)
            /\ new.pruned = row.pruned /\ new.status = row.status
      BY <1>0, <1>4, PageIs
    <2>2. Sound(new) /\ new.key = row.key /\ new.confirmed = row.confirmed
      BY <1>0, <2>1 DEF Sound, SameMedia, SameTale
    <2> QED
      BY <1>0, <2>1, <2>2 DEF Proper
  <1>5. CASE BeginJanitor(s)
    <2>1. PICK new \in Row :
            /\ ses'[s].op = "janitor" /\ ses'[s].seen = row /\ ses'[s].new = new /\ pc'[s] = "discard"
            /\ SameMedia(new, row) /\ SameTale(new, row) /\ SameLink(new, row)
            /\ new.status = "failed" /\ row.key # 0 /\ ~row.confirmed
      BY <1>0, <1>5, JanitorIs
    <2>2. Sound(new) /\ new.key = row.key /\ new.confirmed = row.confirmed /\ new.pruned = row.pruned
      BY <1>0, <2>1 DEF Sound, SameMedia, SameTale, SameLink
    <2> QED
      BY <1>0, <2>1, <2>2 DEF Proper
  <1>6. CASE BeginPrune(s)
    <2>1. PICK new \in Row :
            /\ ses'[s].op = "prune" /\ ses'[s].seen = row /\ ses'[s].new = new
            /\ pc'[s] = (IF row.key = 0 THEN "commit" ELSE "discard")
            /\ age = 2 /\ new.status = row.status /\ ~new.text
            /\ new.timed = row.timed /\ new.recapped = row.recapped
            /\ TakesAll(new) \/ (TakesText(row, new) /\ row.key = 0)
      BY <1>0, <1>6, PruneIs
    <2>2. Sound(new) /\ (new.confirmed => new.key = row.key /\ row.confirmed)
      BY <1>0, <2>1 DEF Sound, TakesAll, TakesText, SameLink
    <2>3. new.key = 0
      BY <1>0, <2>1 DEF TakesAll, TakesText
    <2> QED
      BY <1>0, <2>1, <2>2, <2>3 DEF Proper
  <1>7. CASE BeginTranscribe(s)
    <2>1. CASE ~Skipped /\ At(s, "stamp") /\ Holds(s, "transcribe", row, row)
      BY <1>0, <2>1 DEF Proper, Skipped
    <2>2. CASE UNCHANGED <<pc, ses>>
      <3>1. pc[s] = "idle"
        BY BeginsIs
      <3> QED
        BY <2>2, <3>1
    <2> QED
      BY <1>0, <1>7, <2>1, <2>2, TaskIs
  <1> QED
    BY <1>1, <1>2, <1>3, <1>4, <1>5, <1>6, <1>7 DEF Begins

LEMMA MovesProper ==
    ASSUME MediaInv, SerialInv, Alone, NEW s \in Session, Moves(s)
    PROVE  pc'[s] # "idle" => Proper(s)'
  <1> USE DEF At, Holds, Keeps, Redrafts
  <1>0. TypeOK /\ Proper(s) /\ Drafted(s) /\ row' = row /\ age' = age /\ ses[s].op \in Op
        /\ row \in Row /\ Sound(row)
    BY MovesKeep, MovesOn, Where DEF MediaInv, SerialInv, Alone, world, TypeOK
  <1>1. CASE Track(s) \/ QueueTranscription(s) \/ Resolve(s) \/ Discard(s)
    <2>1. /\ ses'[s].op = ses[s].op /\ ses'[s].seen = ses[s].seen /\ ses'[s].new = ses[s].new
          /\ pc'[s] \in {"reserve", "commit"} /\ ses[s].op # "transcribe"
      <3>1. CASE Track(s)
        BY <1>0, <3>1, TrackIs, Where
      <3>2. CASE QueueTranscription(s)
        BY <1>0, <3>2, QueueIs, Where
      <3>3. CASE Resolve(s)
        BY <1>0, <3>3, ResolveIs, Where
      <3>4. CASE Discard(s)
        BY <1>0, <3>4, DiscardIs, Where
      <3> QED
        BY <1>1, <3>1, <3>2, <3>3, <3>4
    <2> QED
      BY <1>0, <2>1 DEF Proper
  <1>2. CASE Stamp(s)
    <2>1. /\ ses'[s].op = ses[s].op /\ ses'[s].seen = ses[s].seen /\ ses'[s].new = ses[s].new
          /\ pc'[s] = (IF ses[s].new.text THEN "recap" ELSE "media")
      BY <1>0, <1>2, StampIs
    <2>2. pc'[s] \in {"recap", "commit"} => ses[s].new.timed
      BY <1>0, <2>1 DEF Proper, Sound
    <2> QED
      BY <1>0, <2>1, <2>2 DEF Proper
  <1>3. CASE Reserve(s)
    <2>1. PICK new \in Row :
            /\ ses'[s].op = "start" /\ ses'[s].seen = ses[s].seen /\ ses'[s].new = new
            /\ ses[s].op = "start" /\ pc'[s] = "commit"
            /\ new.key = nkeys' /\ nkeys' \in 1 .. MaxKey /\ new.confirmed = ses[s].new.confirmed
            /\ SameTale(new, ses[s].new) /\ SameLink(new, ses[s].new)
      BY <1>0, <1>3, ReserveIs, Where
    <2>2. Sound(new) /\ ~new.pruned
      BY <1>0, <2>1 DEF Proper, Sound, SameTale, SameLink
    <2> QED
      BY <1>0, <2>1, <2>2 DEF Proper
  <1>4. CASE Confirm(s)
    <2>1. PICK new \in Row :
            /\ ses'[s].op = "complete" /\ ses'[s].seen = ses[s].seen /\ ses'[s].new = new
            /\ ses[s].op = "complete" /\ pc'[s] = "queue" /\ new.key = ses[s].new.key
            /\ SameTale(new, ses[s].new) /\ SameLink(new, ses[s].new)
      BY <1>0, <1>4, ConfirmIs, Where
    <2>2. Sound(new) /\ new.pruned = ses[s].new.pruned
      BY <1>0, <2>1 DEF Proper, Sound, SameTale, SameLink
    <2> QED
      BY <1>0, <2>1, <2>2 DEF Proper
  <1>5. CASE DiscardFails(s)
    <2>1. CASE Ended(s)
      BY <2>1 DEF Ended
    <2>2. CASE /\ ses[s].op = "prune" /\ At(s, "commit")
               /\ \E new \in Row :
                    /\ Redrafts(s, new) /\ ~new.text
                    /\ new.timed = ses[s].seen.timed /\ new.recapped = ses[s].seen.recapped
                    /\ new.status = ses[s].seen.status /\ TakesText(ses[s].seen, new)
      <3>1. PICK new \in Row :
              /\ ses'[s].op = "prune" /\ ses'[s].seen = ses[s].seen /\ ses'[s].new = new /\ ~new.text
              /\ new.timed = ses[s].seen.timed /\ new.recapped = ses[s].seen.recapped
              /\ new.status = ses[s].seen.status /\ TakesText(ses[s].seen, new)
        BY <2>2
      <3>2. Sound(new) /\ new.key = ses[s].seen.key /\ new.confirmed = ses[s].seen.confirmed
        BY <1>0, <3>1 DEF Proper, Sound, TakesText, SameLink
      <3> QED
        BY <1>0, <2>2, <3>1, <3>2 DEF Proper
    <2>3. CASE ses[s].op \notin {"delete", "prune"} /\ At(s, "commit") /\ Keeps(s)
      <3>1. ses[s].op = "janitor"
        BY <1>0, <1>5, <2>3, DiscardFailsIs, Where
      <3> QED
        BY <1>0, <2>3, <3>1 DEF Proper
    <2> QED
      BY <1>0, <1>5, <2>1, <2>2, <2>3, DiscardFailsIs
  <1>6. CASE Transcribe(s)
    <2>1. PICK new \in Row :
            /\ ses'[s].op = "transcribe" /\ ses'[s].seen = ses[s].seen /\ ses'[s].new = new
            /\ ses[s].op = "transcribe" /\ pc'[s] \in {"commit", "recap"}
            /\ SameMedia(new, ses[s].new) /\ SameLink(new, ses[s].new) /\ new.timed
      BY <1>0, <1>6, TranscribeIs, Where
    <2>2. new.key = ses[s].new.key /\ new.confirmed = ses[s].new.confirmed /\ new.pruned = ses[s].new.pruned
      BY <2>1 DEF SameMedia, SameLink
    <2>3. Sound(new)
      BY <1>0, <2>1, <2>2 DEF Proper, Sound
    <2> QED
      BY <1>0, <2>1, <2>2, <2>3 DEF Proper
  <1>7. CASE TranscribeFails(s)
    <2>1. CASE Ended(s)
      BY <2>1 DEF Ended
    <2>2. CASE /\ At(s, "commit")
               /\ \E new \in Row :
                    /\ Holds(s, "fail", row, new)
                    /\ SameMedia(new, row) /\ SameTale(new, row) /\ SameLink(new, row)
                    /\ row.here => new.status = "failed"
      <3>1. PICK new \in Row :
              /\ ses'[s].op = "fail" /\ ses'[s].seen = row /\ ses'[s].new = new
              /\ SameMedia(new, row) /\ SameTale(new, row) /\ SameLink(new, row)
              /\ row.here => new.status = "failed"
        BY <2>2
      <3>2. row.here
        <4>1. ses[s].op = "transcribe"
          BY <1>0, <1>7, TranscribeFailsIs, Where
        <4> QED
          BY <1>0, <4>1 DEF Drafted, Proper
      <3>3. Sound(new) /\ new.key = row.key /\ new.confirmed = row.confirmed /\ new.pruned = row.pruned
        BY <1>0, <3>1 DEF Sound, SameMedia, SameTale, SameLink
      <3> QED
        BY <1>0, <2>2, <3>1, <3>2, <3>3 DEF Proper
    <2> QED
      BY <1>0, <1>7, <2>1, <2>2, TranscribeFailsIs
  <1>8. CASE Finalize(s)
    <2>0. pc[s] = "recap" /\ pc'[s] = "commit" /\ ses[s].op = "transcribe" /\ ses[s].new.timed
      BY <1>0, <1>8, FinalizeIs, Where DEF Proper
    <2>1. CASE Keeps(s)
      BY <1>0, <2>0, <2>1 DEF Proper
    <2>2. CASE \E new \in Row :
                  /\ Redrafts(s, new) /\ SameMedia(new, ses[s].new) /\ SameLink(new, ses[s].new)
                  /\ new.text = ses[s].new.text /\ new.timed = ses[s].new.timed
      <3>1. PICK new \in Row :
              /\ ses'[s].op = "transcribe" /\ ses'[s].seen = ses[s].seen /\ ses'[s].new = new
              /\ SameMedia(new, ses[s].new) /\ SameLink(new, ses[s].new) /\ new.timed
              /\ new.text = ses[s].new.text
        BY <2>0, <2>2
      <3>2. new.key = ses[s].new.key /\ new.confirmed = ses[s].new.confirmed /\ new.pruned = ses[s].new.pruned
        BY <3>1 DEF SameMedia, SameLink
      <3>3. Sound(new)
        BY <1>0, <2>0, <3>1, <3>2 DEF Proper, Sound
      <3> QED
        BY <1>0, <2>0, <3>1, <3>2, <3>3 DEF Proper
    <2> QED
      BY <1>0, <1>8, <2>1, <2>2, FinalizeIs
  <1> QED
    BY <1>1, <1>2, <1>3, <1>4, <1>5, <1>6, <1>7, <1>8 DEF Moves

\* A session that ran alone writes what it drafted.
LEMMA CommitAlone ==
    ASSUME MediaInv, MakesInv, SerialInv, Alone, NEW s \in Session, Commit(s)
    PROVE  /\ Proper(s) /\ Drafted(s) /\ pc[s] = "commit" /\ pc'[s] = "idle" /\ ses'[s].op = "none"
           /\ row' = ses[s].new \/ (row' = row /\ ~row.here /\ ~ses[s].seen.here)
  <1>0. TypeOK /\ row \in Row /\ ses[s].new \in Row
    BY Where DEF MediaInv, TypeOK
  <1>1. pc[s] = "commit" /\ pc'[s] = "idle" /\ ses'[s] = NoSes
    BY <1>0, CommitIs DEF Ended, At
  <1>2. Proper(s) /\ Drafted(s)
    BY <1>1 DEF SerialInv, Alone, MediaInv
  <1>3. ses[s].seen = row
    BY <1>2 DEF Proper
  <1>4. Merge(row, ses[s].new, row) = ses[s].new
    BY <1>0, MergeAlone
  <1>5. Visible(s) = ses[s].new
    BY <1>0, <1>3, <1>4, CommitIs
  <1>6. row' = ses[s].new \/ (row' = row /\ ~row.here)
    <2>1. CASE Commits(s)
      BY <1>0, <1>5, <2>1, CommitIs
    <2>2. CASE ~Commits(s)
      <3>1. row' = row
        BY <1>0, <2>2, CommitIs
      <3>2. ~Changed(s) \/ Gone(s)
        BY <2>2 DEF Commits
      <3> QED
        BY <1>3, <3>1, <3>2 DEF Changed, Gone
    <2> QED
      BY <2>1, <2>2
  <1> QED
    BY <1>1, <1>2, <1>3, <1>6, NoSesIs

LEMMA SerialInit == Init => SerialInv
  <1> SUFFICES ASSUME Init PROVE SerialInv
    OBVIOUS
  <1>1. NoRow.here = FALSE /\ [NoRow EXCEPT !.here = TRUE] \in Row
    <2>1. ASSUME NEW n \in Row PROVE [n EXCEPT !.here = TRUE] \in Row
      BY DEF Row
    <2> QED
      BY <2>1, NoSesIs DEF NoRow
  <1>2. Sound(NoRow) /\ Sound([NoRow EXCEPT !.here = TRUE]) /\ ~[NoRow EXCEPT !.here = TRUE].pruned
    BY DEF Sound, NoRow
  <1>3. Sound(Attended)
    BY AttendedIs DEF Sound
  <1>4. Sound(row) /\ ~row.pruned
    BY <1>2, <1>3, AttendedIs, NoSesIs DEF Init
  <1> QED
    BY <1>4 DEF Init, SerialInv

LEMMA SerialStep == MediaInv /\ MakesInv /\ SerialInv /\ [Next]_vars => SerialInv'
  <1> SUFFICES ASSUME MediaInv, MakesInv, SerialInv, [Next]_vars, Alone PROVE SerialInv'
    BY FaultsKept DEF SerialInv, Alone
  <1>0. /\ TypeOK /\ Sound(row) /\ (row.pruned => age = 2)
    BY DEF MediaInv, SerialInv, Alone
  <1>1. ASSUME NEW s \in Session, Others(s), \A t \in Session \ {s} : pc[t] = "idle",
               Sound(row'), row'.pruned => age' = 2, pc'[s] # "idle" => Proper(s)'
        PROVE  SerialInv'
    <2>1. \A t \in Session \ {s} : pc'[t] = "idle"
      BY <1>1 DEF Others
    <2> QED
      BY <1>1, <2>1 DEF SerialInv
  <1>2. ASSUME NEW s \in Session, Begins(s) \/ Moves(s) PROVE SerialInv'
    <2>1. Others(s) /\ row' = row /\ age' = age
      BY <1>2, BeginsIs, MovesKeep, MovesOn DEF world
    <2>2. \A t \in Session \ {s} : pc[t] = "idle"
      BY <1>2, AloneIs
    <2>3. pc'[s] # "idle" => Proper(s)'
      BY <1>2, BeginsProper, MovesProper
    <2> QED
      BY <1>0, <1>1, <2>1, <2>2, <2>3
  <1>3. ASSUME NEW s \in Session, Quits(s) PROVE SerialInv'
    <2>1. Others(s) /\ row' = row /\ age' = age /\ pc'[s] = "idle"
      BY <1>0, <1>3, QuitIs DEF Quits, Reject, Fails, Crash, world, Ended, At
    <2>2. \A t \in Session \ {s} : pc[t] = "idle"
      BY <1>3, AloneIs
    <2> QED
      BY <1>0, <1>1, <2>1, <2>2
  <1>4. ASSUME NEW s \in Session, Commit(s) PROVE SerialInv'
    <2>1. Others(s) /\ age' = age
      BY <1>0, <1>4, CommitIs DEF Commit, world
    <2>2. \A t \in Session \ {s} : pc[t] = "idle"
      BY <1>4, AloneIs
    <2>3. Proper(s) /\ pc'[s] = "idle" /\ (row' = ses[s].new \/ row' = row)
      BY <1>4, CommitAlone
    <2>4. Sound(ses[s].new) /\ ses[s].seen = row /\ (ses[s].new.pruned => age = 2 \/ row.pruned)
      BY <2>3 DEF Proper
    <2> QED
      BY <1>0, <1>1, <2>1, <2>2, <2>3, <2>4
  <1>5. CASE \/ \E k \in Key : Expire(k) \/ \E object \in Object : Put(k, object)
             \/ UNCHANGED vars
    <2>1. UNCHANGED <<row, age, pc, ses>>
      BY <1>5 DEF Expire, Put, vars, world
    <2> QED
      BY <2>1 DEF SerialInv, Proper, Alone
  <1>6. CASE Tick
    <2>1. UNCHANGED <<row, pc, ses>> /\ age < 2 /\ \A s \in Session : pc[s] = "idle"
      BY <1>6 DEF Tick, Quiet
    <2>2. ~row.pruned
      BY <1>0, <2>1
    <2> QED
      BY <1>0, <2>1, <2>2 DEF SerialInv
  <1> QED
    BY <1>2, <1>3, <1>4, <1>5, <1>6, NextIs

-----------------------------------------------------------------------------
(* The bucket *)

Timely == Unless({"overlap", "late"})
Kept == Unless({"overlap", "late", "crash"})

LEMMA BucketInit == Init => BucketInv
  BY NoSesIs, AttendedIs DEF Init, BucketInv, Forgets, NoRow

LEMMA BucketStep == MediaInv /\ MakesInv /\ SerialInv /\ BucketInv /\ [Next]_vars => BucketInv'
  <1> SUFFICES ASSUME MediaInv, MakesInv, SerialInv, BucketInv, [Next]_vars, Timely PROVE BucketInv'
    BY FaultsKept DEF BucketInv, Timely, Unless
  <1>0. /\ TypeOK /\ Alone /\ Sound(row) /\ row \in Row /\ faults' = faults
        /\ \A k \in Key : bucket[k] # "none" => row.key = k
        /\ \A s \in Session : Forgets(s) => bucket[row.key] = "none"
        /\ "crash" \notin faults =>
            /\ row.confirmed => bucket[row.key] # "none" \/ \E s \in Session : Forgets(s)
            /\ \A s \in Session : ses[s].op = "complete" /\ ses[s].new.confirmed => bucket[row.key] # "none"
    BY FaultsKept DEF BucketInv, Timely, Unless, SerialInv, Alone, MediaInv, TypeOK
  <1>w. ASSUME \A k \in Key : bucket'[k] # "none" => row'.key = k,
               \A s \in Session : Forgets(s)' => bucket'[row'.key] = "none",
               "crash" \notin faults =>
                 /\ row'.confirmed => bucket'[row'.key] # "none" \/ \E s \in Session : Forgets(s)'
                 /\ \A s \in Session : (ses[s].op = "complete" /\ ses[s].new.confirmed)' => bucket'[row'.key] # "none"
        PROVE  BucketInv'
    BY <1>0, <1>w DEF BucketInv, Unless
  \* A session runs alone, so what it says is what is said.
  <1>1. ASSUME NEW s \in Session, Others(s), \A t \in Session \ {s} : pc[t] = "idle",
               \A k \in Key : bucket'[k] # "none" => row'.key = k,
               Forgets(s)' => bucket'[row'.key] = "none",
               "crash" \notin faults =>
                 /\ row'.confirmed => bucket'[row'.key] # "none" \/ Forgets(s)'
                 /\ (ses[s].op = "complete" /\ ses[s].new.confirmed)' => bucket'[row'.key] # "none"
        PROVE  BucketInv'
    <2>1. ASSUME NEW t \in Session \ {s} PROVE ~Forgets(t)' /\ ses'[t].op # "complete"
      <3>1. ses[t].op = "none" /\ ses'[t] = ses[t] /\ pc'[t] = pc[t] /\ pc[t] = "idle"
        BY <1>1, Where DEF Others
      <3> QED
        BY <3>1 DEF Forgets
    <2> QED
      BY <1>1, <1>w, <2>1
  <1>2. ASSUME NEW s \in Session, \A t \in Session \ {s} : pc[t] = "idle"
        PROVE  "crash" \notin faults /\ row.confirmed => bucket[row.key] # "none" \/ Forgets(s)
    BY <1>0, <1>2 DEF Forgets
  <1>3. ASSUME NEW s \in Session, Begins(s) PROVE BucketInv'
    <2>1. Others(s) /\ row' = row /\ bucket' = bucket /\ pc[s] = "idle"
      BY <1>3, BeginsIs
    <2>2. \A t \in Session \ {s} : pc[t] = "idle"
      BY <1>0, <1>3, AloneIs
    <2>3. ~Forgets(s)' /\ ~(ses[s].op = "complete" /\ ses[s].new.confirmed)'
      <3>1. CASE BeginDelete(s)
        BY <1>0, <2>1, <3>1, DeleteIs, NoSesIs DEF Forgets, At, Holds
      <3>2. CASE BeginPrune(s)
        <4>1. PICK new \in Row :
                /\ ses'[s].op = "prune" /\ ses'[s].new = new
                /\ pc'[s] = (IF row.key = 0 THEN "commit" ELSE "discard")
                /\ TakesAll(new) \/ (TakesText(row, new) /\ row.key = 0)
          BY <1>0, <3>2, PruneIs DEF At, Holds
        <4>2. new.key = 0
          BY <4>1 DEF TakesAll, TakesText
        <4> QED
          BY <2>1, <4>1, <4>2 DEF Forgets
      <3>3. CASE BeginComplete(s)
        BY <1>0, <3>3, CompleteIs DEF Forgets, At, Holds
      <3>4. CASE StartUpload(s) \/ StartNew(s) \/ BeginPage(s) \/ BeginJanitor(s)
        <4>1. ses'[s].op \in {"start", "page", "janitor"}
          BY <1>0, <3>4, StartIs, PageIs, JanitorIs DEF Holds, MediaInv, RowOK
        <4> QED
          BY <4>1 DEF Forgets
      <3>5. CASE BeginTranscribe(s)
        <4>1. ses'[s].op = "transcribe" \/ (ses'[s].op = "none" /\ pc'[s] = "idle")
          BY <1>0, <2>1, <3>5, TaskIs, Where DEF Holds
        <4> QED
          BY <4>1 DEF Forgets
      <3> QED
        BY <1>3, <3>1, <3>2, <3>3, <3>4, <3>5 DEF Begins
    <2>4. ~Forgets(s)
      BY <2>1 DEF Forgets
    <2> QED
      BY <1>0, <1>1, <1>2, <2>1, <2>2, <2>3, <2>4
  <1>4. ASSUME NEW s \in Session, Moves(s) PROVE BucketInv'
    <2>0. Others(s) /\ row' = row /\ (bucket' = bucket \/ Discard(s)) /\ Proper(s) /\ ~Forgets(s)
      <3>1. pc[s] # "commit"
        BY <1>4 DEF Moves, Track, Reserve, Confirm, QueueTranscription, Resolve, Discard, DiscardFails,
               Stamp, Transcribe, TranscribeFails, Finalize
      <3> QED
        BY <1>0, <1>4, <3>1, MovesKeep, MovesOn DEF Forgets, SerialInv, Alone
    <2>1. \A t \in Session \ {s} : pc[t] = "idle"
      BY <1>0, <1>4, AloneIs
    <2>2. ASSUME bucket' = bucket, ~Forgets(s)',
                 ses'[s].op = "complete" => \/ ses[s].op = "complete" /\ ses'[s].new = ses[s].new
                                            \/ bucket[row.key] # "none"
          PROVE  BucketInv'
      BY <1>0, <1>1, <1>2, <2>0, <2>1, <2>2
    <2>3. CASE Discard(s)
      <3>1. /\ bucket' = [bucket EXCEPT ![row.key] = "none"] /\ pc'[s] = "commit" /\ row.key # 0
            /\ ses'[s].op = ses[s].op /\ ses'[s].new = ses[s].new /\ pc[s] = "discard"
            /\ ses[s].op \in {"delete", "janitor", "prune"} /\ row.key \in Key
        BY <1>0, <2>0, <2>3, DiscardIs, Where DEF Proper, At, Keeps, Holds, Row, Key
      <3>2. bucket'[row.key] = "none" /\ \A k \in Key : bucket'[k] = "none"
        BY <1>0, <3>1 DEF TypeOK
      <3>3. row.confirmed => Forgets(s)'
        <4>1. ses[s].op = "delete" => ses[s].new.key = 0
          BY NoSesIs DEF MediaInv, Drafted
        <4>2. ses[s].op = "prune" => ses[s].new.key = 0
          BY <2>0, <3>1 DEF Proper
        <4>3. ses[s].op = "janitor" => ~row.confirmed
          BY <2>0 DEF Proper
        <4> QED
          BY <2>0, <3>1, <4>1, <4>2, <4>3 DEF Forgets
      <3>4. ses'[s].op # "complete"
        BY <3>1
      <3> QED
        BY <1>1, <2>0, <2>1, <3>2, <3>3, <3>4
    <2>4. CASE DiscardFails(s)
      <3>1. bucket' = bucket
        BY <2>4 DEF DiscardFails, store
      <3>2. ~Forgets(s)' /\ ses'[s].op # "complete"
        <4>1. CASE Ended(s)
          BY <4>1, NoSesIs DEF Ended, Forgets
        <4>2. CASE /\ ses[s].op = "prune"
                   /\ \E new \in Row : Redrafts(s, new) /\ TakesText(ses[s].seen, new)
          BY <2>0, <4>2 DEF Redrafts, Holds, TakesText, Proper, Forgets
        <4>3. CASE ses[s].op \notin {"delete", "prune"} /\ Keeps(s)
          BY <1>0, <2>4, <4>3, DiscardFailsIs, Where DEF Keeps, Holds, Forgets
        <4> QED
          BY <1>0, <2>4, <4>1, <4>2, <4>3, DiscardFailsIs
      <3> QED
        BY <2>2, <3>1, <3>2
    <2>5. CASE Confirm(s)
      <3>1. /\ bucket[ses[s].new.key] # "none" /\ ses[s].op = "complete" /\ pc'[s] = "queue"
            /\ bucket' = bucket
        BY <1>0, <2>5, ConfirmIs, Where DEF At, Confirm, store
      <3>2. ses[s].new.key = row.key
        BY <2>0, <3>1 DEF Proper
      <3> QED
        BY <2>2, <3>1, <3>2 DEF Forgets
    <2>6. CASE QueueTranscription(s)
      <3>1. ses'[s].op = "complete" /\ ses[s].op = "complete" /\ ses'[s].new = ses[s].new
        BY <1>0, <2>6, QueueIs, Where DEF Keeps, Holds
      <3>2. bucket' = bucket
        BY <2>6 DEF QueueTranscription, store
      <3> QED
        BY <2>2, <3>1, <3>2 DEF Forgets
    <2>7. CASE \/ Track(s) \/ Reserve(s) \/ Resolve(s) \/ Stamp(s) \/ Transcribe(s)
               \/ TranscribeFails(s) \/ Finalize(s)
      <3>1. bucket' = bucket
        BY <2>7 DEF Track, Reserve, Resolve, Stamp, Transcribe, TranscribeFails, Finalize, store
      <3>2. pc[s] \notin {"head", "queue", "discard", "commit", "idle"}
        BY <2>7 DEF Track, Reserve, Resolve, Stamp, Transcribe, TranscribeFails, Finalize
      <3>3. ses[s].op \in {"start", "page", "transcribe"}
        BY <3>2, Where DEF MediaInv, TypeOK, Step
      <3>4. ses'[s].op \in {"start", "page", "transcribe", "none", "fail"}
        BY <1>4, <3>3, MovesOn, NoSesIs DEF Ended
      <3> QED
        BY <2>2, <3>1, <3>4 DEF Forgets
    <2> QED
      BY <1>4, <2>3, <2>4, <2>5, <2>6, <2>7 DEF Moves
  <1>5. ASSUME NEW s \in Session, Quits(s) PROVE BucketInv'
    <2>1. /\ Others(s) /\ row' = row /\ bucket' = bucket /\ ses'[s].op = "none"
      BY <1>0, <1>5, QuitIs, NoSesIs DEF Quits, Reject, Fails, Crash, store, Ended
    <2>2. \A t \in Session \ {s} : pc[t] = "idle"
      BY <1>0, <1>5, AloneIs
    <2>3. "crash" \notin faults => ~Forgets(s)
      BY <1>5 DEF Quits, Reject, Fails, Crash, Forgets
    <2> QED
      BY <1>0, <1>1, <1>2, <2>1, <2>2, <2>3 DEF Forgets
  <1>6. ASSUME NEW s \in Session, Commit(s) PROVE BucketInv'
    <2>1. Others(s) /\ bucket' = bucket
      BY <1>0, <1>6, CommitIs DEF Commit
    <2>2. \A t \in Session \ {s} : pc[t] = "idle"
      BY <1>0, <1>6, AloneIs
    <2>3. /\ Proper(s) /\ Drafted(s) /\ pc[s] = "commit" /\ ses'[s].op = "none"
          /\ row' = ses[s].new \/ (row' = row /\ ~row.here /\ ~ses[s].seen.here)
      BY <1>0, <1>6, CommitAlone
    <2>4. ~Forgets(s)'
      BY <2>3 DEF Forgets
    <2>5. CASE row' = row /\ ~row.here /\ ~ses[s].seen.here
      <3>1. ~Forgets(s)
        BY <2>5, <2>3 DEF Forgets, Drafted
      <3> QED
        BY <1>0, <1>1, <1>2, <2>1, <2>2, <2>3, <2>4, <2>5, <3>1
    <2>6. CASE row' = ses[s].new
      <3>1. ses[s].seen = row /\ ses[s].op \in Op /\ ses[s].op # "none"
        BY <2>3, Where DEF Proper
      <3>2. CASE Forgets(s)
        <4>1. bucket[row.key] = "none" /\ \A k \in Key : bucket[k] = "none"
          BY <1>0, <3>2
        <4>2. ~row'.confirmed
          <5>1. ses[s].op = "delete" => ses[s].new = NoRow
            BY <2>3 DEF Drafted
          <5> QED
            BY <2>3, <2>6, <3>1, <3>2, <5>1, NoSesIs DEF Proper, Forgets
        <4> QED
          BY <1>1, <2>1, <2>2, <2>3, <2>4, <4>1, <4>2
      <3>3. CASE ses[s].op = "start"
        <4>1. row.key = 0 /\ ~row'.confirmed
          BY <1>0, <2>3, <2>6, <3>1, <3>3 DEF Proper, Sound
        <4>2. \A k \in Key : bucket[k] = "none"
          BY <1>0, <4>1 DEF Key
        <4> QED
          BY <1>1, <2>1, <2>2, <2>3, <2>4, <4>1, <4>2
      <3>4. CASE ~Forgets(s) /\ ses[s].op # "start"
        <4>1. row'.key = row.key
          BY <2>3, <2>6, <3>1, <3>4 DEF Proper, Forgets
        <4>2. row'.confirmed => row.confirmed \/ (ses[s].op = "complete" /\ ses[s].new.confirmed)
          <5>1. ses[s].op = "delete" => ses[s].new = NoRow
            BY <2>3 DEF Drafted
          <5> QED
            BY <2>3, <2>6, <3>1, <5>1, NoSesIs DEF Proper
        <4> QED
          BY <1>0, <1>1, <1>2, <2>1, <2>2, <2>3, <2>4, <3>4, <4>1, <4>2
      <3> QED
        BY <3>2, <3>3, <3>4
    <2> QED
      BY <2>3, <2>5, <2>6
  <1>7. ASSUME NEW k \in Key, NEW object \in Object, Put(k, object) PROVE BucketInv'
    <2>1. /\ row.key = k /\ ~Forgetting /\ bucket[k] = "none" /\ UNCHANGED <<row, pc, ses>>
          /\ bucket' = [bucket EXCEPT ![k] = object]
      BY <1>7 DEF Put, Timely, Unless
    <2>2. \A s \in Session : ~Forgets(s)'
      BY <2>1 DEF Forgetting, Forgets
    <2>3. bucket'[k] # "none" /\ \A l \in Key : l # k => bucket'[l] = bucket[l]
      BY <1>0, <2>1 DEF TypeOK, Object
    <2> QED
      BY <1>0, <1>w, <2>1, <2>2, <2>3
  <1>8. CASE (\E k \in Key : Expire(k)) \/ Tick \/ UNCHANGED vars
    <2>1. UNCHANGED <<row, bucket, pc, ses>>
      BY <1>8 DEF Expire, Tick, vars, store
    <2> QED
      BY <1>0, <1>w, <2>1 DEF Forgets
  <1> QED
    BY <1>3, <1>4, <1>5, <1>6, <1>7, <1>8, NextIs

-----------------------------------------------------------------------------
(* Media in hand *)

Handed == Unless({"fast", "crash", "overlap"})
InHand == jobs # <<>> \/ \E s \in Session : ses[s].op \in {"complete", "transcribe", "fail"}
Waits(rw) == rw.here /\ rw.confirmed /\ rw.status = "recorded" /\ ~rw.timed

LEMMA HandInit == Init => HandInv
  BY NoSesIs, AttendedIs DEF Init, HandInv, RecordedIsInHand, NoRow

LEMMA HandStep == MediaInv /\ MakesInv /\ SerialInv /\ HandInv /\ [Next]_vars => HandInv'
  <1> SUFFICES ASSUME MediaInv, MakesInv, SerialInv, HandInv, [Next]_vars, Handed PROVE HandInv'
    BY FaultsKept DEF HandInv, Handed, Unless
  <1>0. /\ TypeOK /\ Alone /\ Sound(row) /\ (Waits(row) => InHand)
        /\ \A s \in Session : ses[s].op = "complete" /\ pc[s] = "commit" => jobs # <<>>
    BY DEF HandInv, Handed, Unless, SerialInv, Alone, MediaInv, RecordedIsInHand, Waits, InHand
  <1>w. ASSUME Waits(row') => InHand',
               \A s \in Session : (ses[s].op = "complete" /\ pc[s] = "commit")' => jobs' # <<>>
        PROVE  HandInv'
    BY <1>w DEF HandInv, RecordedIsInHand, Waits, InHand
  \* A session runs alone.
  <1>1. ASSUME NEW s \in Session, Others(s), \A t \in Session \ {s} : pc[t] = "idle",
               Waits(row') => jobs' # <<>> \/ ses'[s].op \in {"complete", "transcribe", "fail"},
               (ses[s].op = "complete" /\ pc[s] = "commit")' => jobs' # <<>>
        PROVE  HandInv'
    <2>1. \A t \in Session \ {s} : pc'[t] # "commit"
      BY <1>1 DEF Others
    <2> QED
      BY <1>1, <1>w, <2>1 DEF InHand
  <1>2. ASSUME NEW s \in Session, \A t \in Session \ {s} : pc[t] = "idle", Waits(row)
        PROVE  jobs # <<>> \/ ses[s].op \in {"complete", "transcribe", "fail"}
    <2>1. \A t \in Session \ {s} : ses[t].op = "none"
      BY <1>2, Where
    <2> QED
      BY <1>0, <1>2, <2>1 DEF InHand
  <1>3. ASSUME NEW s \in Session, Begins(s) PROVE HandInv'
    <2>1. Others(s) /\ row' = row /\ pc[s] = "idle" /\ ses[s].op = "none"
      BY <1>3, BeginsIs, Where
    <2>2. \A t \in Session \ {s} : pc[t] = "idle"
      BY <1>0, <1>3, AloneIs
    <2>3. CASE BeginTranscribe(s)
      <3>1. CASE Skipped
        <4>1. ~Waits(row)
          BY <1>0, <3>1 DEF Waits, Skipped, Sound
        <4>2. ses'[s].op # "complete"
          BY <1>0, <2>1, <2>3, <3>1, TaskIs
        <4> QED
          BY <1>1, <2>1, <2>2, <4>1, <4>2
      <3>2. CASE ~Skipped
        <4>1. ses'[s].op = "transcribe"
          BY <1>0, <2>3, <3>2, TaskIs DEF Holds
        <4> QED
          BY <1>1, <2>1, <2>2, <4>1
      <3> QED
        BY <3>1, <3>2
    <2>4. CASE ~BeginTranscribe(s)
      <3>1. jobs' = jobs
        BY <1>3, <2>4 DEF Begins, StartUpload, StartNew, BeginComplete, BeginDelete, BeginPage,
               BeginJanitor, BeginPrune
      <3>2. ~(ses'[s].op = "complete" /\ pc'[s] = "commit")
        <4>1. CASE BeginComplete(s)
          BY <1>0, <4>1, CompleteIs DEF At
        <4>2. CASE ~BeginComplete(s)
          <5>1. ses'[s].op # "complete"
            BY <1>0, <1>3, <2>4, <4>2, StartIs, DeleteIs, PageIs, JanitorIs, PruneIs
               DEF Begins, Holds, MediaInv, RowOK
          <5> QED
            BY <5>1
        <4> QED
          BY <4>1, <4>2
      <3> QED
        BY <1>1, <1>2, <2>1, <2>2, <3>1, <3>2
    <2> QED
      BY <2>3, <2>4
  <1>4. ASSUME NEW s \in Session, Moves(s) PROVE HandInv'
    <2>0. /\ Others(s) /\ row' = row /\ pc[s] # "idle" /\ Proper(s)
          /\ jobs' = jobs \/ QueueTranscription(s) \/ TranscribeFails(s)
      BY <1>0, <1>4, MovesKeep, MovesOn DEF SerialInv, Alone
    <2>1. \A t \in Session \ {s} : pc[t] = "idle"
      BY <1>0, <1>4, AloneIs
    <2>2. CASE QueueTranscription(s)
      BY <1>0, <1>1, <2>0, <2>1, <2>2, QueueIs
    <2>3. CASE TranscribeFails(s)
      <3>1. (jobs' # <<>> /\ Ended(s)) \/ ses'[s].op = "fail"
        BY <1>0, <2>3, TranscribeFailsIs DEF Holds
      <3> QED
        BY <1>1, <2>0, <2>1, <3>1, NoSesIs DEF Ended
    <2>4. CASE ~QueueTranscription(s) /\ ~TranscribeFails(s)
      <3>1. jobs' = jobs
        BY <2>0, <2>4
      <3>2. ses'[s].op = ses[s].op \/ (Ended(s) /\ DiscardFails(s))
        <4>1. CASE Ended(s)
          <5>1. ~Track(s) /\ ~Reserve(s) /\ ~Confirm(s) /\ ~Resolve(s) /\ ~Discard(s) /\ ~Stamp(s)
                /\ ~Transcribe(s) /\ ~Finalize(s)
            BY <1>0, <4>1, TrackIs, ReserveIs, ConfirmIs, ResolveIs, DiscardIs, StampIs, TranscribeIs,
               FinalizeIs DEF Ended, At
          <5> QED
            BY <1>4, <2>4, <4>1, <5>1 DEF Moves
        <4> QED
          BY <1>4, <2>4, <4>1, MovesOn
      <3>3. CASE Ended(s) /\ DiscardFails(s)
        <4>1. ses[s].op \notin {"complete", "transcribe", "fail"} /\ ses'[s].op = "none"
          BY <3>3, Where, NoSesIs DEF DiscardFails, Ended
        <4> QED
          BY <1>1, <1>2, <2>0, <2>1, <3>1, <4>1
      <3>4. CASE ses'[s].op = ses[s].op
        <4>1. ~(ses'[s].op = "complete" /\ pc'[s] = "commit")
          <5>1. CASE ses[s].op = "complete"
            <6>1. pc[s] = "head"
              <7>1. pc[s] \in {"head", "queue", "commit"}
                BY <5>1 DEF MediaInv, Drafted, Place
              <7> QED
                BY <1>4, <2>4, <7>1 DEF Moves, Track, Reserve, Confirm, Resolve, Discard, DiscardFails,
                   Stamp, Transcribe, Finalize
            <6>2. Confirm(s)
              BY <1>4, <2>4, <6>1 DEF Moves, Track, Reserve, Resolve, Discard, DiscardFails,
                   Stamp, Transcribe, Finalize
            <6> QED
              BY <1>0, <6>2, ConfirmIs DEF At
          <5> QED
            BY <3>4, <5>1
        <4> QED
          BY <1>1, <1>2, <2>0, <2>1, <3>1, <3>4, <4>1
      <3> QED
        BY <3>2, <3>3, <3>4
    <2> QED
      BY <2>2, <2>3, <2>4
  <1>5. ASSUME NEW s \in Session, Quits(s) PROVE HandInv'
    <2>1. Others(s) /\ row' = row /\ jobs' = jobs /\ ses'[s].op = "none" /\ pc[s] # "idle"
      BY <1>0, <1>5, QuitIs, NoSesIs DEF Quits, Reject, Fails, Crash, Ended
    <2>2. \A t \in Session \ {s} : pc[t] = "idle"
      BY <1>0, <1>5, AloneIs
    <2>3. ASSUME ses[s].op \in {"complete", "transcribe", "fail"} PROVE ~Waits(row)
      <3>1. Proper(s)
        BY <1>0, <2>1 DEF SerialInv, Alone
      <3>2. CASE ses[s].op = "complete"
        BY <3>1, <3>2 DEF Proper, Waits
      <3>3. CASE ses[s].op \in {"transcribe", "fail"}
        <4>1. pc[s] \in {"stamp", "media", "recap", "commit"}
          BY <3>3 DEF MediaInv, Drafted, Place
        <4>2. Gone(s)
          BY <1>5, <4>1 DEF Quits, Reject, Fails, Crash, Handed, Unless
        <4>3. ~row.here
          BY <3>1, <4>2 DEF Gone, Proper
        <4> QED
          BY <4>3 DEF Waits
      <3> QED
        BY <2>3, <3>2, <3>3
    <2> QED
      BY <1>1, <1>2, <2>1, <2>2, <2>3
  <1>6. ASSUME NEW s \in Session, Commit(s) PROVE HandInv'
    <2>1. Others(s) /\ jobs' = jobs
      BY <1>0, <1>6, CommitIs DEF Commit
    <2>2. \A t \in Session \ {s} : pc[t] = "idle"
      BY <1>0, <1>6, AloneIs
    <2>3. /\ Proper(s) /\ Drafted(s) /\ pc[s] = "commit" /\ ses'[s].op = "none"
          /\ row' = ses[s].new \/ (row' = row /\ ~row.here)
      BY <1>0, <1>6, CommitAlone
    <2>4. ASSUME Waits(row') PROVE jobs # <<>>
      <3>1. row' = ses[s].new /\ ses[s].seen = row /\ ses[s].op \in Op /\ ses[s].op # "none"
        BY <2>3, <2>4, Where DEF Proper, Waits
      <3>2. ses[s].op # "delete"
        BY <2>3, <2>4, <3>1 DEF Drafted, Waits
      <3>3. CASE ses[s].op = "complete"
        BY <1>0, <2>3, <3>3
      <3>4. CASE ses[s].op = "start"
        <4>1. row.key = 0 /\ row.confirmed
          BY <2>3, <2>4, <3>1, <3>4 DEF Proper, Waits
        <4> QED
          BY <1>0, <4>1 DEF Sound
      <3>5. CASE ses[s].op \in {"janitor", "fail", "transcribe"}
        BY <2>3, <2>4, <3>1, <3>5 DEF Proper, Waits
      <3>6. CASE ses[s].op \in {"page", "prune"}
        <4>1. row.confirmed /\ row.status = "recorded"
          BY <2>3, <2>4, <3>1, <3>6 DEF Proper, Waits
        <4>2. ~row.timed /\ row.here
          BY <2>3, <2>4, <3>1, <3>6 DEF Drafted, Waits
        <4> QED
          BY <1>2, <2>2, <3>6, <4>1, <4>2 DEF Waits
      <3> QED
        BY <3>1, <3>2, <3>3, <3>4, <3>5, <3>6 DEF Op
    <2> QED
      BY <1>1, <2>1, <2>2, <2>3, <2>4
  <1>7. CASE \/ \E k \in Key : Expire(k) \/ \E object \in Object : Put(k, object)
             \/ Tick \/ UNCHANGED vars
    <2>1. UNCHANGED <<row, jobs, pc, ses>>
      BY <1>7 DEF Expire, Put, Tick, vars
    <2> QED
      BY <1>0, <1>w, <2>1 DEF InHand
  <1> QED
    BY <1>3, <1>4, <1>5, <1>6, <1>7, NextIs

-----------------------------------------------------------------------------
(* What the bucket and the row promise *)

\* The row, the sessions and the bucket, in every state.
BoundInv == MediaInv /\ MakesInv /\ SerialInv /\ BucketInv /\ HandInv

LEMMA Bound == Spec => []BoundInv
  <1>1. Init => BoundInv
    BY InitTyped, MakesInit, SerialInit, BucketInit, HandInit DEF BoundInv
  <1>2. BoundInv /\ [Next]_vars => BoundInv'
    BY StepTyped, MakesStep, SerialStep, BucketStep, HandStep DEF BoundInv
  <1> QED
    BY <1>1, <1>2, PTL DEF Spec

\* BucketMatchesRow: between sessions no object is left that the row does not
\* name and no confirmed media is missing, when sessions run one at a time, no
\* client is late and none of them dies.
THEOREM MediaBucketMatchesRow == Spec => []BucketMatchesRow
  <1>1. BoundInv => BucketMatchesRow
    <2> SUFFICES ASSUME BoundInv, Quiet, Unless({"overlap", "late", "crash"})
                 PROVE  /\ \A k \in Key : bucket[k] # "none" => row.here /\ row.key = k
                        /\ row.confirmed => bucket[row.key] # "none"
      BY DEF BucketMatchesRow
    <2>1. /\ \A k \in Key : bucket[k] # "none" => row.key = k
          /\ row.confirmed => bucket[row.key] # "none" \/ \E s \in Session : Forgets(s)
      BY DEF BoundInv, BucketInv, Unless
    <2>2. \A s \in Session : ~Forgets(s)
      BY DEF Quiet, Forgets
    <2>3. \A k \in Key : row.key = k => row.here
      BY NoSesIs DEF BoundInv, MediaInv, Key
    <2> QED
      BY <2>1, <2>2, <2>3
  <1> QED
    BY <1>1, Bound, PTL

\* RecordedIsInHand: confirmed media has a transcription queued or a session
\* that transcribes it, or fails the meeting.
THEOREM MediaRecordedIsInHand == Spec => []RecordedIsInHand
  <1>1. BoundInv => RecordedIsInHand
    BY DEF BoundInv, HandInv, RecordedIsInHand
  <1> QED
    BY <1>1, Bound, PTL

\* PrunedStaysPruned: what retention removed no later request brings back.
THEOREM MediaPrunedStaysPruned == Spec => []PrunedStaysPruned
  <1>1. BoundInv => PrunedStaysPruned
    <2> SUFFICES ASSUME BoundInv, row.pruned, Unless({"overlap"})
                 PROVE  /\ row.url = "none" /\ row.key = 0 /\ ~row.rec /\ ~row.text
                        /\ Unless({"late"}) => \A k \in Key : bucket[k] = "none"
      BY DEF PrunedStaysPruned
    <2>1. row.url = "none" /\ row.key = 0 /\ ~row.rec /\ ~row.text
      BY DEF BoundInv, SerialInv, Sound, Unless
    <2>2. ASSUME Unless({"late"}), NEW k \in Key PROVE bucket[k] = "none"
      <3>1. bucket[k] # "none" => row.key = k
        BY <2>2 DEF BoundInv, BucketInv, Unless
      <3> QED
        BY <2>1, <3>1 DEF Key
    <2> QED
      BY <2>1, <2>2
  <1> QED
    BY <1>1, Bound, PTL
=============================================================================
