---------------------------- MODULE GrantProofs ----------------------------
(***************************************************************************)
(* Theorems about a user's Google grant.                                   *)
(*                                                                         *)
(* CoreInv types the state and says what a process may hold in the middle  *)
(* of a call or a refresh; NewInv, which consents the row and the          *)
(* callbacks can be of; FreshInv, how old the connection may be that a     *)
(* call, a refresh or a snapshot is of.  GrantInv, the three together, is  *)
(* inductive.  A step of one process leaves the hands of the others alone  *)
(* (WorksAlone), so each step is looked at three times: what it does to    *)
(* the hand of the process that takes it (the lemmas named ...Does), what  *)
(* it writes to the row, and what that does to the hands of the others     *)
(* (HandKept, SnapKept).                                                   *)
(***************************************************************************)
EXTENDS Grant, TLAPS

USE GrantAssumption

Working(q)  == proc[q].kind \in {"call", "refresh", "minted", "refused"}
Renewing(q) == proc[q].kind \in {"refresh", "minted", "refused"}

(***************************************************************************)
(* The records.                                                            *)
(***************************************************************************)

Expiry == 0..(Horizon + Life)

\* What an activity of each kind carries.
LEMMA Kinds ==
    ASSUME NEW r \in Activity
    PROVE  /\ r.kind \in {"call", "refresh", "minted", "refused"} => r \in Call
           /\ r.kind = "callback" => r.consent \in Consent /\ r = Exchanged(r.consent)
           /\ r.kind = "idle" => r = Idle
  BY DEF Activity, Call, Idle, Exchanged

\* A call's fields.
LEMMA Carried ==
    ASSUME NEW c \in Call
    PROVE  /\ c.kind \in {"call", "refresh", "minted", "refused"}
           /\ c.token \in Consent \cup {None} /\ c.expiry \in Expiry
           /\ c.attempt \in 1..(MaxAttempts + 1)
           /\ c.refreshed \in BOOLEAN /\ c.repeatable \in BOOLEAN
           /\ c.began \in Time /\ c.state \in Row \cup {None} /\ c.force \in BOOLEAN
           /\ c.locked \in {"no", "held", "awaited", "without"}
  BY DEF Call, Expiry

\* A row's fields.
LEMMA RowFields ==
    ASSUME NEW r \in Row
    PROVE  /\ r.consent \in Consent /\ r.access \in Consent \cup {None}
           /\ r.expiry \in Expiry /\ r.revoked \in BOOLEAN
  BY DEF Row, Expiry

LEMMA CallingIs ==
    ASSUME NEW c \in Call, NEW a \in Consent \cup {None}, NEW e \in Expiry
    PROVE  LET d == Calling(c, a, e) IN
           /\ d \in Call /\ d.kind = "call" /\ d.token = a /\ d.expiry = e
           /\ d.began = c.began /\ d.repeatable = c.repeatable
           /\ d.attempt = c.attempt /\ d.refreshed = c.refreshed
  BY DEF Calling, Call, Expiry

LEMMA RefreshingIs ==
    ASSUME NEW c \in Call, NEW s \in Row \cup {None}, NEW f \in BOOLEAN
    PROVE  /\ Refreshing(c, s, f) \in Call
           /\ Refreshing(c, s, f).kind = "refresh"
           /\ Refreshing(c, s, f).began = c.began
  <1>1. 0 \in 0..(Horizon + Life) /\ None \in Consent \cup {None}
    OBVIOUS
  <1>2. QED
    BY <1>1 DEF Refreshing, Call

LEMMA RefreshingHolds ==
    \A c \in Call, s \in Row \cup {None} :
        Refreshing(c, s, FALSE).state = s /\ Refreshing(c, s, TRUE).state = s
  BY DEF Refreshing, Call

LEMMA RefreshingKeeps ==
    \A c \in Call, s \in Row \cup {None} :
        /\ Refreshing(c, s, FALSE).repeatable = c.repeatable
        /\ Refreshing(c, s, TRUE).repeatable = c.repeatable
  BY DEF Refreshing, Call

LEMMA RetriedIs ==
    ASSUME NEW c \in Call, c.attempt <= MaxAttempts
    PROVE  LET d == [c EXCEPT !.attempt = @ + 1]
               e == [c EXCEPT !.refreshed = TRUE, !.attempt = @ + 1] IN
           /\ d \in Call /\ d.kind = c.kind /\ d.state = c.state /\ d.token = c.token
           /\ d.began = c.began /\ d.repeatable = c.repeatable
           /\ e \in Call /\ e.kind = c.kind
           /\ e.began = c.began /\ e.repeatable = c.repeatable
  <1>1. c.attempt \in Nat /\ c.attempt + 1 \in 1..(MaxAttempts + 1)
    BY Carried
  <1>2. QED
    BY <1>1 DEF Call

LEMMA LockedIs ==
    ASSUME NEW c \in Call, NEW l \in {"no", "held", "awaited", "without"}
    PROVE  /\ [c EXCEPT !.locked = l] \in Call
           /\ [c EXCEPT !.locked = l].kind = c.kind /\ [c EXCEPT !.locked = l].state = c.state
           /\ [c EXCEPT !.locked = l].began = c.began
           /\ [c EXCEPT !.locked = l].repeatable = c.repeatable
  BY DEF Call

LEMMA RefusedIs ==
    \A c \in Call :
        /\ [c EXCEPT !.kind = "refused"] \in Call
        /\ [c EXCEPT !.kind = "refused"].kind = "refused" /\ [c EXCEPT !.kind = "refused"].state = c.state
        /\ [c EXCEPT !.kind = "refused"].began = c.began
        /\ [c EXCEPT !.kind = "refused"].repeatable = c.repeatable
  BY DEF Call

Minting(c, t, e) == [c EXCEPT !.kind = "minted", !.token = t, !.expiry = e]

LEMMA MintedIs ==
    ASSUME NEW c \in Call, NEW t \in Consent, NEW e \in Expiry
    PROVE  /\ Minting(c, t, e) \in Call
           /\ Minting(c, t, e).kind = "minted"
           /\ Minting(c, t, e).token = t
           /\ Minting(c, t, e).began = c.began
  BY DEF Call, Expiry, Minting

LEMMA MintedHolds ==
    ASSUME NEW c \in Call, NEW t \in Consent, NEW e \in Expiry
    PROVE  /\ Minting(c, t, e).state = c.state
           /\ Minting(c, t, e).repeatable = c.repeatable
  BY DEF Call, Minting

Rewritten(r, a, e, c) == [r EXCEPT !.access = a, !.expiry = e, !.consent = c]
Marked(r) == [r EXCEPT !.revoked = TRUE, !.access = None]

LEMMA RewrittenIs ==
    \A r \in Row : \A a \in Consent \cup {None}, e \in Expiry, c \in Consent :
        Rewritten(r, a, e, c) \in Row
  BY DEF Row, Expiry, Rewritten

LEMMA RewrittenAccess ==
    \A r \in Row : \A a, e, c : Rewritten(r, a, e, c).access = a
  BY DEF Row, Rewritten

LEMMA RewrittenConsent ==
    \A r \in Row : \A a, e, c : Rewritten(r, a, e, c).consent = c
  BY DEF Row, Rewritten

LEMMA RewrittenRevoked ==
    \A r \in Row : \A a, e, c : Rewritten(r, a, e, c).revoked = r.revoked
  BY DEF Row, Rewritten

LEMMA MarkedIs ==
    \A r \in Row :
        /\ Marked(r) \in Row /\ Marked(r).consent = r.consent
        /\ Marked(r).revoked /\ Marked(r).access = None
  BY DEF Row, Marked

(***************************************************************************)
(* Each process works alone.                                               *)
(***************************************************************************)

\* A step of p: what it knows of the others stays as it was.
Alone(p) ==
    /\ circ' = circ /\ clock' = clock
    /\ proc' = [proc EXCEPT ![p] = proc'[p]]
    /\ snap' = [snap EXCEPT ![p] = snap'[p]]
    /\ sent' = [sent EXCEPT ![p] = sent'[p]]

ProcessStep(p) == CallStep(p) \/ RefreshStep(p) \/ RequestStep(p) \/ Crash(p)

LEMMA Written ==
    ASSUME NEW f, NEW S, NEW T, f \in [S -> T], NEW p \in S, NEW v
    PROVE  /\ [f EXCEPT ![p] = v][p] = v
           /\ [f EXCEPT ![p] = v] = [f EXCEPT ![p] = [f EXCEPT ![p] = v][p]]
           /\ f = [f EXCEPT ![p] = f[p]]
           /\ \A q \in S \ {p} : [f EXCEPT ![p] = v][q] = f[q]
           /\ v \in T => [f EXCEPT ![p] = v] \in [S -> T]
  OBVIOUS

LEMMA WorksAlone ==
    ASSUME TypeOK, NEW p \in Process, ProcessStep(p)
    PROVE  Alone(p)
  <1>0. proc \in [Process -> Activity] /\ snap \in [Process -> Snapshot \cup {None}]
        /\ sent \in [Process -> Nat]
    BY DEF TypeOK
  <1>1. /\ proc = [proc EXCEPT ![p] = proc[p]] /\ snap = [snap EXCEPT ![p] = snap[p]]
        /\ sent = [sent EXCEPT ![p] = sent[p]]
    BY <1>0
  <1>2. ASSUME NEW r, Becomes(p, r) PROVE proc' = [proc EXCEPT ![p] = proc'[p]] /\ proc'[p] = r
    BY <1>0, <1>2 DEF Becomes
  <1>3. ASSUME NEW s, snap' = [snap EXCEPT ![p] = s]
        PROVE  snap' = [snap EXCEPT ![p] = snap'[p]] /\ snap'[p] = s
    BY <1>0, <1>3
  <1>4. ASSUME NEW n, sent' = [sent EXCEPT ![p] = n]
        PROVE  sent' = [sent EXCEPT ![p] = sent'[p]] /\ sent'[p] = n
    BY <1>0, <1>4
  <1>5. ASSUME Effect(p) PROVE sent' = [sent EXCEPT ![p] = sent'[p]]
    BY <1>1, <1>4, <1>5 DEF Effect
  <1>6. CASE CallStep(p)
    <2>1. CASE \E b \in BOOLEAN : StartCall(p, b)
      BY <1>1, <1>2, <1>3, <1>4, <2>1, Zenon DEF StartCall, Alone
    <2>2. CASE Succeed(p)
      BY <1>1, <1>2, <1>5, <2>2, Zenon DEF Succeed, Alone
    <2>3. CASE Falter(p)
      BY <1>1, <1>2, <1>5, <2>3, Zenon DEF Falter, Alone
    <2>4. CASE Rejected(p)
      BY <1>1, <1>2, <1>3, <2>4, Zenon DEF Rejected, Alone, ghosts
    <2>5. CASE Exhausted(p)
      BY <1>1, <1>2, <2>5, Zenon DEF Exhausted, Alone, ghosts
    <2>6. QED
      BY <1>6, <2>1, <2>2, <2>3, <2>4, <2>5 DEF CallStep
  <1>7. CASE RefreshStep(p)
    <2>1. CASE TakeLock(p)
      BY <1>1, <1>2, <2>1, Zenon DEF TakeLock, Alone, ghosts
    <2>2. CASE WinnerSeen(p)
      BY <1>1, <1>2, <1>3, <2>2, Zenon DEF WinnerSeen, Alone, ghosts
    <2>3. CASE GiveUpWaiting(p)
      BY <1>1, <1>2, <1>3, <2>3, Zenon DEF GiveUpWaiting, Alone, ghosts
    <2>4. CASE AskGoogle(p)
      BY <1>1, <1>2, <2>4, Zenon DEF AskGoogle, Alone, ghosts
    <2>5. CASE RefreshFails(p)
      BY <1>1, <1>2, <2>5, Zenon DEF RefreshFails, Alone, ghosts
    <2>6. CASE MarkRevoked(p)
      BY <1>1, <1>2, <1>3, <2>6, Zenon DEF MarkRevoked, Alone, ghosts
    <2>7. CASE \E b \in BOOLEAN : Persist(p, b)
      BY <1>1, <1>2, <1>3, <2>7, Zenon DEF Persist, Alone, ghosts
    <2>8. QED
      BY <1>7, <2>1, <2>2, <2>3, <2>4, <2>5, <2>6, <2>7 DEF RefreshStep
  <1>8. CASE RequestStep(p)
    <2>1. CASE \E c \in Consent : Agree(p, c)
      BY <1>1, <1>2, <2>1, Zenon DEF Agree, Alone, ghosts
    <2>2. CASE StoreGrant(p)
      BY <1>1, <1>2, <1>3, <2>2, Zenon DEF StoreGrant, Alone
    <2>3. CASE BeginDisconnect(p)
      BY <1>1, <1>2, <1>3, <2>3, Zenon DEF BeginDisconnect, Alone, ghosts
    <2>4. CASE Revoke(p)
      BY <1>1, <1>2, <2>4, Zenon DEF Revoke, Alone, ghosts
    <2>5. CASE Forget(p)
      BY <1>1, <1>2, <1>3, <2>5, Zenon DEF Forget, Alone
    <2>6. QED
      BY <1>8, <2>1, <2>2, <2>3, <2>4, <2>5 DEF RequestStep
  <1>9. CASE Crash(p)
    BY <1>1, <1>2, <1>3, <1>9, Zenon DEF Crash, Alone, ghosts
  <1>10. QED
    BY <1>6, <1>7, <1>8, <1>9 DEF ProcessStep

LEMMA Puts ==
    ASSUME TypeOK, NEW p \in Process
    PROVE  /\ \A r : Becomes(p, r) => proc'[p] = r
           /\ \A s : snap' = [snap EXCEPT ![p] = s] => snap'[p] = s
           /\ \A n : sent' = [sent EXCEPT ![p] = n] => sent'[p] = n
           /\ proc[p] \in Activity /\ snap[p] \in Snapshot \cup {None} /\ sent[p] \in Nat
  BY DEF TypeOK, Becomes

LEMMA Reads ==
    ASSUME TypeOK, NEW p \in Process
    PROVE  /\ Cached(p) \in Snapshot /\ Fresh \in Snapshot
           /\ Cached(p).state \in Row \cup {None} /\ Cached(p).at \in Time
           /\ Fresh.at = clock /\ Fresh.state = row
           /\ (Cached(p) = snap[p] /\ snap[p] # None) \/ Cached(p) = Fresh
           /\ row \in Row \cup {None}
  BY DEF TypeOK, Cached, Fresh, Snapshot

(***************************************************************************)
(* What a process holds.                                                   *)
(***************************************************************************)

\* A call that must not be repeated has had no effect while it is under way; a
\* refresh set out from a usable connection and mints that consent's token; a
\* snapshot is not of the future.
HandOK(q) ==
    /\ Working(q) => proc[q].began <= clock /\ (~proc[q].repeatable => sent[q] = 0)
    /\ Renewing(q) => Usable(proc[q].state)
    /\ proc[q].kind = "minted" => proc[q].token = proc[q].state.consent
    /\ proc[q].kind = "call" => proc[q].token \in Consent
    /\ snap[q] # None => snap[q].at <= clock
    /\ sent[q] <= 1

\* The steps of p leave what it holds well-formed and typed.
OwnOK(p) ==
    /\ proc'[p] \in Activity /\ snap'[p] \in Snapshot \cup {None} /\ sent'[p] \in Nat
    /\ HandOK(p)'

\* What a process that is not in a call is in the middle of.
Resting == {Idle} \cup [kind: {"callback"}, consent: Consent] \cup [kind: {"revoke", "forget"}]

LEMMA RestingIs ==
    /\ Idle \in Resting
    /\ [kind |-> "revoke"] \in Resting /\ [kind |-> "forget"] \in Resting
    /\ \A c \in Consent : Exchanged(c) \in Resting
  BY DEF Resting, Exchanged

\* The process is not at work.
LEMMA Rests ==
    ASSUME TypeOK, NEW p \in Process, HandOK(p), clock' = clock,
           proc'[p] \in Resting,
           snap'[p] \in {snap[p], None, Fresh, Cached(p)},
           sent'[p] \in Nat /\ sent'[p] <= 1
    PROVE  OwnOK(p) /\ ~Working(p)'
  <1>1. /\ proc'[p] \in Activity
        /\ proc'[p].kind \in {"idle", "revoke", "forget", "callback"}
    BY DEF Activity, Idle, Resting
  <1>2. snap'[p] \in Snapshot \cup {None} /\ (snap'[p] # None => snap'[p].at <= clock)
    BY Puts, Reads DEF HandOK, TypeOK, Time
  <1>3. QED
    BY <1>1, <1>2 DEF OwnOK, HandOK, Working, Renewing

\* The process is at work, on c.
LEMMA Works ==
    ASSUME TypeOK, NEW p \in Process, HandOK(p), clock' = clock,
           NEW c \in Call, proc'[p] = c,
           snap'[p] \in {snap[p], None, Fresh, Cached(p)}, sent'[p] \in {0, 1},
           c.began <= clock, ~c.repeatable => sent'[p] = 0,
           c.kind # "call" => Usable(c.state),
           c.kind = "minted" => c.token = c.state.consent,
           c.kind = "call" => c.token \in Consent
    PROVE  OwnOK(p)
  <1>1. proc'[p] \in Activity
    BY DEF Activity
  <1>2. snap'[p] \in Snapshot \cup {None} /\ (snap'[p] # None => snap'[p].at <= clock)
    BY Puts, Reads DEF HandOK, TypeOK, Time
  <1>3. Usable(c.state)' <=> Usable(c.state)
    BY DEF Usable
  <1>4. QED
    BY <1>1, <1>2, <1>3 DEF OwnOK, HandOK, Working, Renewing, Usable
(***************************************************************************)
(* What each step of a call and of a refresh does to the process's hand.   *)
(***************************************************************************)

\* A call begins with what the snapshot holds, or not at all.
LEMMA StartCallDoes ==
    ASSUME TypeOK, NEW p \in Process, HandOK(p), NEW b \in BOOLEAN, StartCall(p, b)
    PROVE  /\ OwnOK(p) /\ snap'[p] = Cached(p)
           /\ \/ proc'[p] = Idle
              \/ /\ Usable(Cached(p).state) /\ proc'[p].began = clock
                 /\ \/ /\ proc'[p].kind = "call" /\ Cached(p).state.access # None
                       /\ proc'[p].token = Cached(p).state.access
                    \/ proc'[p].kind = "refresh" /\ proc'[p].state = Cached(p).state
  <1> DEFINE s == Cached(p).state
             c == [kind |-> "call", token |-> None, expiry |-> 0, attempt |-> 1,
                   refreshed |-> FALSE, repeatable |-> b, began |-> clock,
                   state |-> None, force |-> FALSE, locked |-> "no"]
  <1>1. c \in Call /\ c.began = clock
    <2>1. 0 \in 0..(Horizon + Life) /\ 1 \in 1..(MaxAttempts + 1) /\ clock \in Time
      BY DEF TypeOK
    <2>2. QED
      BY <2>1 DEF Call
  <1>2. s \in Row \cup {None} /\ snap'[p] = Cached(p) /\ clock' = clock /\ proc[p] = Idle
    BY Reads, Puts DEF StartCall
  <1>3. clock \in Int
    BY DEF TypeOK, Time
  <1>4. CASE Usable(s) /\ IsLive(s)
    <2>1. proc'[p] = Calling(c, s.access, s.expiry) /\ sent'[p] = 0
      BY <1>4, Puts DEF StartCall
    <2>2. s \in Row /\ s.access \in Consent \cup {None} /\ s.expiry \in Expiry /\ s.access # None
      BY <1>2, <1>4, RowFields DEF Usable, IsLive
    <2>3. /\ proc'[p] \in Call /\ proc'[p].kind = "call" /\ proc'[p].token = s.access
          /\ proc'[p].began = clock
      BY <2>1, <2>2, <1>1, CallingIs
    <2>4. OwnOK(p)
      BY <2>1, <2>2, <2>3, <1>2, <1>3, Works
    <2>5. QED
      BY <2>3, <2>4, <2>2, <1>2, <1>4
  <1>5. CASE Usable(s) /\ ~IsLive(s)
    <2> DEFINE d == Refreshing(c, s, FALSE)
    <2>1. proc'[p] = d /\ sent'[p] = 0
      BY <1>5, Puts DEF StartCall
    <2> HIDE DEF c, s
    <2>8. c \in Call /\ s \in Row \cup {None} /\ c.began = clock
      BY <1>1, <1>2
    <2>9. Refreshing(c, s, FALSE).state = s
      BY <2>8, RefreshingHolds, Zenon
    <2>2. d \in Call /\ d.kind = "refresh" /\ d.state = s /\ d.began = clock
      BY <2>8, <2>9, RefreshingIs
    <2> HIDE DEF d
    <2> USE DEF c, s
    <2>3. Usable(d.state) /\ d.began <= clock
      BY <2>2, <1>3, <1>5 DEF Usable
    <2>4. OwnOK(p)
      BY <2>1, <2>2, <2>3, <1>2, Works
    <2>5. QED
      BY <2>1, <2>2, <2>4, <1>2, <1>5
  <1>6. CASE ~Usable(s)
    <2>1. proc'[p] = Idle /\ sent'[p] = sent[p]
      BY <1>6, <1>2 DEF StartCall
    <2>2. OwnOK(p)
      BY <2>1, <1>2, Rests, RestingIs, Puts DEF HandOK
    <2>3. QED
      BY <2>1, <2>2, <1>2
  <1>7. QED
    BY <1>4, <1>5, <1>6

\* What is sent at most once so far is sent at most once.
LEMMA EffectIs ==
    ASSUME TypeOK, NEW p \in Process, HandOK(p), Working(p), Effect(p) \/ UNCHANGED sent
    PROVE  sent'[p] \in {0, 1} /\ (proc[p].repeatable => sent'[p] = sent[p])
  <1>1. sent[p] \in {0, 1} /\ proc[p].repeatable \in BOOLEAN
    BY Puts, Kinds, Carried DEF HandOK, Working
  <1>2. CASE UNCHANGED sent
    BY <1>1, <1>2
  <1>3. CASE Effect(p) /\ proc[p].repeatable
    BY <1>1, <1>3 DEF Effect
  <1>4. CASE Effect(p) /\ ~proc[p].repeatable
    <2>1. sent[p] = 0 /\ sent' = [sent EXCEPT ![p] = sent[p] + 1]
      BY <1>4 DEF Effect, HandOK
    <2>2. sent'[p] = sent[p] + 1
      BY <2>1, Puts
    <2>3. QED
      BY <2>1, <2>2, <1>4
  <1>5. QED
    BY <1>2, <1>3, <1>4

\* An answered or exhausted call is over; one that faltered is tried again
\* unless it must not be.
LEMMA SendingDoes ==
    ASSUME TypeOK, NEW p \in Process, HandOK(p), Succeed(p) \/ Falter(p) \/ Exhausted(p)
    PROVE  /\ OwnOK(p) /\ snap'[p] = snap[p] /\ proc[p].kind = "call"
           /\ \/ proc'[p] = Idle
              \/ /\ proc'[p].kind = "call" /\ proc'[p].token = proc[p].token
                 /\ proc'[p].began = proc[p].began
  <1>1. proc[p].kind = "call" /\ snap'[p] = snap[p] /\ clock' = clock
    BY DEF Succeed, Falter, Exhausted, Sending, InCall, ghosts
  <1>2. Working(p) /\ proc[p] \in Call /\ proc[p].repeatable \in BOOLEAN /\ sent[p] \in {0, 1}
    BY <1>1, Puts, Kinds, Carried DEF Working, HandOK
  <1>3. sent'[p] \in {0, 1} /\ (proc[p].repeatable => sent'[p] = sent[p])
    BY <1>2, EffectIs DEF Succeed, Falter, Exhausted, ghosts
  <1>4. CASE proc'[p] = Idle
    BY <1>1, <1>3, <1>4, Rests, RestingIs
  <1>5. CASE Falter(p) /\ TriesAgain(p)
    <2> DEFINE d == [proc[p] EXCEPT !.attempt = @ + 1]
    <2>1. proc'[p] = d /\ proc[p].repeatable
      BY <1>5, Puts DEF Falter, TriesAgain
    <2>2. proc[p].attempt <= MaxAttempts
      BY <1>5 DEF Falter, Sending
    <2>3. /\ d \in Call /\ d.kind = "call" /\ d.token = proc[p].token
          /\ d.began = proc[p].began /\ d.repeatable
      BY <1>1, <1>2, <2>1, <2>2, RetriedIs
    <2>4. d.began <= clock /\ d.token \in Consent
      BY <2>3, <1>1, <1>2 DEF HandOK
    <2> HIDE DEF d
    <2>5. OwnOK(p)
      BY <1>1, <1>3, <2>1, <2>3, <2>4, Works
    <2>6. QED
      BY <1>1, <2>1, <2>3, <2>5
  <1>6. proc'[p] = Idle \/ (Falter(p) /\ TriesAgain(p))
    BY Puts DEF Succeed, Falter, Exhausted
  <1>7. QED
    BY <1>4, <1>5, <1>6
\* A call that Google rejected goes on with the refresh of the row's token.
LEMMA RejectedDoes ==
    ASSUME TypeOK, NEW p \in Process, HandOK(p), Rejected(p)
    PROVE  /\ OwnOK(p) /\ snap'[p] \in {snap[p], Fresh} /\ proc[p].kind = "call"
           /\ \/ proc'[p] = Idle
              \/ /\ Usable(row) /\ proc'[p].kind = "refresh" /\ proc'[p].state = row
                 /\ proc'[p].began = proc[p].began
  <1>1. /\ proc[p].kind = "call" /\ clock' = clock /\ sent' = sent
        /\ snap'[p] \in {snap[p], Fresh}
    BY Puts DEF Rejected, Sending, InCall, ghosts
  <1>2. /\ Working(p) /\ proc[p] \in Call /\ proc[p].repeatable \in BOOLEAN
        /\ sent[p] \in {0, 1} /\ proc[p].attempt <= MaxAttempts
    BY <1>1, Puts, Kinds, Carried DEF Working, HandOK, Rejected, Sending
  <1>3. CASE proc'[p] = Idle
    BY <1>1, <1>2, <1>3, Rests, RestingIs
  <1>4. CASE Usable(row) /\ ~proc[p].refreshed
    <2> DEFINE e == [proc[p] EXCEPT !.refreshed = TRUE, !.attempt = @ + 1]
               d == Refreshing(e, row, TRUE)
    <2>1. proc'[p] = d
      BY <1>4, Puts DEF Rejected
    <2>2. e \in Call /\ e.began = proc[p].began /\ e.repeatable = proc[p].repeatable
      BY <1>2, RetriedIs
    <2> HIDE DEF e
    <2>3. row \in Row \cup {None}
      BY Reads
    <2>7. Refreshing(e, row, TRUE).state = row
      BY <2>2, <2>3, RefreshingHolds, Zenon
    <2>9. Refreshing(e, row, TRUE).repeatable = e.repeatable
      BY <2>2, <2>3, RefreshingKeeps, Zenon
    <2>10. d \in Call /\ d.kind = "refresh" /\ d.began = e.began
      BY <2>2, <2>3, RefreshingIs
    <2>4. /\ d \in Call /\ d.kind = "refresh" /\ d.began = proc[p].began /\ d.state = row
          /\ d.repeatable = proc[p].repeatable
      BY <2>2, <2>7, <2>9, <2>10, Zenon
    <2> HIDE DEF d
    <2>5. Usable(d.state) /\ d.began <= clock /\ (~d.repeatable => sent'[p] = 0)
      BY <2>4, <1>1, <1>2, <1>4 DEF HandOK, Usable
    <2>6. OwnOK(p)
      BY <2>1, <2>4, <2>5, <1>1, <1>2, Works
    <2>8. QED
      BY <2>1, <2>4, <2>6, <1>1, <1>4
  <1>5. proc'[p] = Idle \/ (Usable(row) /\ ~proc[p].refreshed)
    BY Puts DEF Rejected
  <1>6. QED
    BY <1>3, <1>4, <1>5

\* Whoever takes the lock, or goes without, refreshes what it set out with.
LEMMA LockingDoes ==
    ASSUME TypeOK, NEW p \in Process, HandOK(p), TakeLock(p) \/ GiveUpWaiting(p)
    PROVE  /\ OwnOK(p) /\ snap'[p] \in {snap[p], Fresh}
           /\ proc[p].kind = "refresh"
           /\ proc'[p].kind = "refresh" /\ proc'[p].state = proc[p].state
           /\ proc'[p].began = proc[p].began
  <1>1. proc[p].kind = "refresh" /\ clock' = clock /\ sent' = sent /\ snap'[p] \in {snap[p], Fresh}
    BY Puts DEF TakeLock, GiveUpWaiting, InRefresh, ghosts
  <1>2. /\ Working(p) /\ proc[p] \in Call /\ sent[p] \in {0, 1}
        /\ Usable(proc[p].state) /\ proc[p].began <= clock
        /\ (~proc[p].repeatable => sent[p] = 0)
    BY <1>1, Puts, Kinds DEF Working, Renewing, HandOK
  <1>3. PICK l \in {"no", "held", "awaited", "without"} : proc'[p] = [proc[p] EXCEPT !.locked = l]
    BY Puts DEF TakeLock, GiveUpWaiting
  <1> DEFINE d == [proc[p] EXCEPT !.locked = l]
  <1>9. /\ [proc[p] EXCEPT !.locked = l] \in Call
        /\ [proc[p] EXCEPT !.locked = l].kind = proc[p].kind
        /\ [proc[p] EXCEPT !.locked = l].state = proc[p].state
        /\ [proc[p] EXCEPT !.locked = l].began = proc[p].began
        /\ [proc[p] EXCEPT !.locked = l].repeatable = proc[p].repeatable
    <2>1. PICK c \in Call : c = proc[p]
      BY <1>2
    <2>2. /\ [c EXCEPT !.locked = l] \in Call
          /\ [c EXCEPT !.locked = l].kind = c.kind /\ [c EXCEPT !.locked = l].state = c.state
          /\ [c EXCEPT !.locked = l].began = c.began
          /\ [c EXCEPT !.locked = l].repeatable = c.repeatable
      BY LockedIs
    <2>3. QED
      BY <2>1, <2>2
  <1>4. /\ d \in Call /\ d.kind = "refresh" /\ d.state = proc[p].state
        /\ d.began = proc[p].began /\ d.repeatable = proc[p].repeatable
    BY <1>1, <1>9, Zenon
  <1>5. proc'[p] = d
    BY <1>3
  <1> HIDE DEF d
  <1>6. Usable(d.state) /\ d.began <= clock /\ (~d.repeatable => sent'[p] = 0)
    BY <1>1, <1>2, <1>4 DEF Usable
  <1>7. OwnOK(p)
    BY <1>1, <1>2, <1>4, <1>5, <1>6, Works
  <1>8. QED
    BY <1>1, <1>4, <1>5, <1>7

\* The loser of the lock takes the token that the row holds.
LEMMA WinnerSeenDoes ==
    ASSUME TypeOK, NEW p \in Process, HandOK(p), WinnerSeen(p)
    PROVE  /\ OwnOK(p) /\ snap'[p] = Fresh /\ Usable(row) /\ row.access # None
           /\ proc'[p].kind = "call" /\ proc'[p].token = row.access
           /\ proc[p].kind = "refresh" /\ proc'[p].began = proc[p].began
  <1>1. /\ proc[p].kind = "refresh" /\ clock' = clock /\ sent' = sent /\ snap'[p] = Fresh
        /\ Usable(row) /\ row.access # None
        /\ proc'[p] = Calling(proc[p], row.access, row.expiry)
    BY Puts DEF WinnerSeen, InRefresh, ghosts, IsLive
  <1>2. /\ Working(p) /\ proc[p] \in Call /\ sent[p] \in {0, 1}
        /\ proc[p].began <= clock /\ (~proc[p].repeatable => sent[p] = 0)
    BY <1>1, Puts, Kinds DEF Working, HandOK
  <1>3. row.access \in Consent /\ row.expiry \in Expiry
    BY <1>1, Reads, RowFields DEF Usable
  <1> DEFINE d == Calling(proc[p], row.access, row.expiry)
  <1>4. /\ d \in Call /\ d.kind = "call" /\ d.token = row.access
        /\ d.began = proc[p].began /\ d.repeatable = proc[p].repeatable
    BY <1>2, <1>3, CallingIs
  <1>5. proc'[p] = d
    BY <1>1
  <1> HIDE DEF d
  <1>6. OwnOK(p)
    BY <1>1, <1>2, <1>3, <1>4, <1>5, Works
  <1>7. QED
    BY <1>1, <1>4, <1>5, <1>6

\* Google refuses the consent the refresh set out with, or mints its token.
LEMMA AskGoogleDoes ==
    ASSUME TypeOK, NEW p \in Process, HandOK(p), AskGoogle(p)
    PROVE  /\ OwnOK(p) /\ snap'[p] = snap[p] /\ proc[p].kind = "refresh"
           /\ proc'[p].state = proc[p].state /\ proc'[p].began = proc[p].began
           /\ \/ proc'[p].kind = "refused" /\ proc[p].state.consent \in dead
              \/ proc'[p].kind = "minted"
  <1>1. proc[p].kind = "refresh" /\ clock' = clock /\ sent' = sent /\ snap' = snap
    BY DEF AskGoogle, Asking, InRefresh, ghosts
  <1>2. /\ Working(p) /\ proc[p] \in Call /\ sent[p] \in {0, 1}
        /\ Usable(proc[p].state) /\ proc[p].began <= clock
        /\ (~proc[p].repeatable => sent[p] = 0)
    BY <1>1, Puts, Kinds DEF Working, Renewing, HandOK
  <1>3. proc[p].state.consent \in Consent /\ clock + Life \in Expiry
    <2>1. proc[p].state \in Row
      BY <1>2, Carried DEF Usable
    <2>2. QED
      BY <2>1, RowFields DEF TypeOK, Time, Expiry
  <1>4. PICK t \in Consent, e \in Expiry : t = proc[p].state.consent /\ e = clock + Life
    BY <1>3
  <1> DEFINE d == [proc[p] EXCEPT !.kind = "refused"]
             m == Minting(proc[p], t, e)
  <1>9. /\ [proc[p] EXCEPT !.kind = "refused"] \in Call
        /\ [proc[p] EXCEPT !.kind = "refused"].kind = "refused" /\ [proc[p] EXCEPT !.kind = "refused"].state = proc[p].state
        /\ [proc[p] EXCEPT !.kind = "refused"].began = proc[p].began
        /\ [proc[p] EXCEPT !.kind = "refused"].repeatable = proc[p].repeatable
    BY <1>2, RefusedIs, Zenon
  <1>10. d \in Call /\ d.kind = "refused" /\ d.state = proc[p].state
         /\ d.began = proc[p].began /\ d.repeatable = proc[p].repeatable
    BY <1>9, Zenon
  <1>11. m \in Call /\ m.kind = "minted" /\ m.state = proc[p].state
         /\ m.token = proc[p].state.consent
         /\ m.began = proc[p].began /\ m.repeatable = proc[p].repeatable
    <2>0. proc[p] \in Call
      BY <1>2
    <2>1. PICK c \in Call : c = proc[p]
      BY <1>2
    <2>2. /\ Minting(c, t, e).state = c.state
          /\ Minting(c, t, e).repeatable = c.repeatable
      BY MintedHolds
    <2>3. /\ Minting(c, t, e) \in Call
          /\ Minting(c, t, e).kind = "minted"
          /\ Minting(c, t, e).token = t
          /\ Minting(c, t, e).began = c.began
      BY MintedIs
    <2>4. m = Minting(c, t, e)
      BY <2>1
    <2>5. QED
      BY <1>4, <2>1, <2>2, <2>3, <2>4, Zenon
  <1>5. (proc[p].state.consent \in dead /\ proc'[p] = d) \/ proc'[p] = m
    BY <1>4, Puts DEF AskGoogle, Minting
  <1> HIDE DEF d, m
  <1>6. CASE proc[p].state.consent \in dead /\ proc'[p] = d
    <2>1. Usable(d.state) /\ d.began <= clock /\ (~d.repeatable => sent'[p] = 0)
      BY <1>1, <1>2, <1>10, <1>11 DEF Usable
    <2>2. OwnOK(p)
      BY <1>1, <1>2, <1>10, <1>11, <1>6, <2>1, Works
    <2>3. QED
      BY <1>1, <1>10, <1>11, <1>6, <2>2
  <1>7. CASE proc'[p] = m
    <2>1. Usable(m.state) /\ m.began <= clock /\ (~m.repeatable => sent'[p] = 0)
      BY <1>1, <1>2, <1>10, <1>11 DEF Usable
    <2>2. OwnOK(p)
      BY <1>1, <1>2, <1>10, <1>11, <1>7, <2>1, Works
    <2>3. QED
      BY <1>1, <1>10, <1>11, <1>7, <2>2
  <1>8. QED
    BY <1>5, <1>6, <1>7

\* A refresh that failed, was refused or whose process died is over.
LEMMA GivenUpDoes ==
    ASSUME TypeOK, NEW p \in Process, HandOK(p),
           RefreshFails(p) \/ MarkRevoked(p) \/ Crash(p)
    PROVE  OwnOK(p) /\ snap'[p] \in {snap[p], None} /\ proc'[p] = Idle
  <1>1. /\ proc'[p] = Idle /\ snap'[p] \in {snap[p], None} /\ clock' = clock /\ sent' = sent
    BY Puts DEF RefreshFails, MarkRevoked, Crash, ghosts
  <1>2. QED
    BY <1>1, Rests, RestingIs, Puts DEF HandOK

\* The call goes on with the token that was minted.
LEMMA PersistDoes ==
    ASSUME TypeOK, NEW p \in Process, HandOK(p), NEW b \in BOOLEAN, Persist(p, b)
    PROVE  /\ OwnOK(p) /\ snap'[p] = None /\ proc[p].kind = "minted"
           /\ proc[p].token \in Consent /\ proc[p].expiry \in Expiry
           /\ proc'[p].kind = "call" /\ proc'[p].token = proc[p].token
           /\ proc'[p].began = proc[p].began
  <1>1. /\ proc[p].kind = "minted" /\ clock' = clock /\ sent' = sent /\ snap'[p] = None
        /\ proc'[p] = Calling(proc[p], proc[p].token, proc[p].expiry)
    <2>1. proc[p].kind = "minted" /\ clock' = clock /\ sent' = sent
      BY DEF Persist, ghosts
    <2>2. snap'[p] = None
      BY Puts DEF Persist
    <2>3. proc'[p] = Calling(proc[p], proc[p].token, proc[p].expiry)
      BY Puts DEF Persist
    <2>4. QED
      BY <2>1, <2>2, <2>3
  <1>2. /\ Working(p) /\ proc[p] \in Call /\ sent[p] \in {0, 1}
        /\ proc[p].began <= clock /\ (~proc[p].repeatable => sent[p] = 0)
        /\ Usable(proc[p].state) /\ proc[p].token = proc[p].state.consent
    BY <1>1, Puts, Kinds DEF Working, Renewing, HandOK
  <1>3. proc[p].token \in Consent /\ proc[p].expiry \in Expiry
    <2>1. proc[p].state \in Row /\ proc[p].expiry \in Expiry
      BY <1>2, Carried DEF Usable
    <2>2. QED
      BY <1>2, <2>1, RowFields
  <1> DEFINE d == Calling(proc[p], proc[p].token, proc[p].expiry)
  <1>4. /\ d \in Call /\ d.kind = "call" /\ d.token = proc[p].token
        /\ d.began = proc[p].began /\ d.repeatable = proc[p].repeatable
    BY <1>2, <1>3, CallingIs
  <1>5. proc'[p] = d
    BY <1>1
  <1> HIDE DEF d
  <1>6. OwnOK(p)
    BY <1>1, <1>2, <1>3, <1>4, <1>5, Works
  <1>7. QED
    BY <1>1, <1>3, <1>4, <1>5, <1>6

\* Connecting and disconnecting make no call.
LEMMA RequestDoes ==
    ASSUME TypeOK, NEW p \in Process, HandOK(p), RequestStep(p)
    PROVE  /\ OwnOK(p) /\ snap'[p] \in {snap[p], None, Cached(p)}
           /\ ~Working(p)' /\ proc'[p] \in Resting
           /\ \/ \E c \in Consent : Agree(p, c) /\ proc'[p] = Exchanged(c)
              \/ proc'[p].kind # "callback"
  <1>1. clock' = clock /\ sent' = sent /\ snap'[p] \in {snap[p], None, Cached(p)}
    BY Puts DEF RequestStep, Agree, StoreGrant, BeginDisconnect, Revoke, Forget, ghosts
  <1>2. \/ \E c \in Consent : Agree(p, c) /\ proc'[p] = Exchanged(c)
        \/ proc'[p] \in {Idle, [kind |-> "revoke"], [kind |-> "forget"]}
    BY Puts, Zenon DEF RequestStep, Agree, StoreGrant, BeginDisconnect, Revoke, Forget
  <1>3. proc'[p] \in Resting
    BY <1>2, RestingIs
  <1>4. OwnOK(p) /\ ~Working(p)'
    BY <1>1, <1>3, Rests, Puts DEF HandOK
  <1>5. QED
    BY <1>1, <1>2, <1>3, <1>4 DEF Idle
(***************************************************************************)
(* Type correctness, and what each process holds.                          *)
(***************************************************************************)

LEMMA OwnKept ==
    ASSUME TypeOK, NEW p \in Process, HandOK(p), ProcessStep(p)
    PROVE  OwnOK(p)
  <1>1. CASE CallStep(p)
    BY <1>1, StartCallDoes, SendingDoes, RejectedDoes DEF CallStep
  <1>2. CASE RefreshStep(p)
    BY <1>2, LockingDoes, WinnerSeenDoes, AskGoogleDoes, GivenUpDoes, PersistDoes DEF RefreshStep
  <1>3. CASE RequestStep(p)
    BY <1>3, RequestDoes
  <1>4. CASE Crash(p)
    BY <1>4, GivenUpDoes
  <1>5. QED
    BY <1>1, <1>2, <1>3, <1>4 DEF ProcessStep

\* The connection that ends is recorded.
LEMMA LeavesIs ==
    ASSUME TypeOK, Leaves
    PROVE  /\ left' \in [Consent -> Time]
           /\ \A c \in Consent : left'[c] # left[c] => left'[c] = clock /\ row # None /\ c = row.consent
  <1>1. left \in [Consent -> Time] /\ clock \in Time /\ row \in Row \cup {None}
    BY DEF TypeOK
  <1>2. CASE row = None \/ row.revoked
    BY <1>1, <1>2 DEF Leaves
  <1>3. CASE row # None /\ ~row.revoked
    <2>1. row.consent \in Consent
      BY <1>1, <1>3, RowFields
    <2>2. left' = [left EXCEPT ![row.consent] = clock]
      BY <1>3 DEF Leaves
    <2>3. left' \in [Consent -> Time]
      BY <1>1, <2>1, <2>2
    <2>4. QED
      BY <1>1, <1>3, <2>1, <2>2, <2>3
  <1>4. QED
    BY <1>2, <1>3

\* A refreshed token is written over one that expires no later, and a rotated
\* refresh token whatever the row holds.
LEMMA PersistWrites ==
    ASSUME TypeOK, NEW p \in Process, HandOK(p), NEW b \in BOOLEAN, Persist(p, b)
    PROVE  IF row = None THEN row' = None
           ELSE /\ row' \in Row /\ row'.revoked = row.revoked
                /\ row'.access \in {row.access, proc[p].token}
                /\ row'.consent \in {row.consent, proc[p].token}
                /\ ~b => row'.consent = row.consent
  <1>1. proc[p].token \in Consent /\ proc[p].expiry \in Expiry
    BY PersistDoes
  <1>2. CASE row # None
    <2>1. row \in Row /\ row.access \in Consent \cup {None} /\ row.expiry \in Expiry /\ row.consent \in Consent
      BY <1>2, Reads, RowFields
    <2>2. PICK a \in {row.access, proc[p].token} :
            a = IF row.expiry < proc[p].expiry THEN proc[p].token ELSE row.access
      OBVIOUS
    <2>3. PICK e \in Expiry : e = IF row.expiry < proc[p].expiry THEN proc[p].expiry ELSE row.expiry
      BY <1>1, <2>1
    <2>4. PICK c \in {row.consent, proc[p].token} :
            c = IF b THEN proc[p].token ELSE row.consent
      OBVIOUS
    <2>5. row' = Rewritten(row, a, e, c)
      BY <1>2, <2>2, <2>3, <2>4 DEF Persist, Rewritten
    <2>6. a \in Consent \cup {None} /\ c \in Consent
      BY <1>1, <2>1
    <2>7. Rewritten(row, a, e, c) \in Row
      BY <2>1, <2>3, <2>6, RewrittenIs
    <2>10. row \in Row
      BY <2>1
    <2>9. /\ Rewritten(row, a, e, c).access = a
          /\ Rewritten(row, a, e, c).consent = c
          /\ Rewritten(row, a, e, c).revoked = row.revoked
      <3>1. Rewritten(row, a, e, c).access = a
        BY <2>10, RewrittenAccess
      <3>2. Rewritten(row, a, e, c).consent = c
        BY <2>10, RewrittenConsent
      <3>3. Rewritten(row, a, e, c).revoked = row.revoked
        BY <2>10, RewrittenRevoked
      <3>4. QED
        BY <3>1, <3>2, <3>3
    <2>8. QED
      BY <1>2, <2>2, <2>4, <2>5, <2>7, <2>9
  <1>3. CASE row = None
    BY <1>3 DEF Persist
  <1>4. QED
    BY <1>2, <1>3

LEMMA MarkWrites ==
    ASSUME TypeOK, NEW p \in Process, MarkRevoked(p)
    PROVE  \/ /\ IF row = None THEN row' = None
                 ELSE row' \in Row /\ row'.consent = row.consent /\ row'.revoked
                      /\ row'.access = None
              /\ Leaves
           \/ row' = row /\ left' = left
  <1>1. ASSUME row # None, row' = [row EXCEPT !.revoked = TRUE, !.access = None]
        PROVE  row' \in Row /\ row'.consent = row.consent /\ row'.revoked /\ row'.access = None
    <2>1. row \in Row /\ row' = Marked(row)
      BY <1>1, Reads DEF Marked
    <2>2. QED
      BY <2>1, MarkedIs, Zenon
  <1>2. QED
    BY <1>1 DEF MarkRevoked
\* The rest of the state keeps its types.
WorldOK ==
    /\ row \in Row \cup {None}
    /\ dead \subseteq given /\ given \subseteq Consent
    /\ lock \in BOOLEAN /\ left \in [Consent -> Time] /\ gone \subseteq Consent

LEMMA UnlockIs ==
    ASSUME TypeOK, NEW p \in Process, Unlock(p)
    PROVE  lock' \in BOOLEAN
  <1>1. lock \in BOOLEAN
    BY DEF TypeOK
  <1>2. (lock /\ proc[p].locked # "held") \in BOOLEAN
    OBVIOUS
  <1>3. QED
    BY <1>1, <1>2 DEF Unlock

LEMMA WorldKept ==
    ASSUME TypeOK, NEW p \in Process, HandOK(p), ProcessStep(p)
    PROVE  WorldOK'
  <1>1. /\ row \in Row \cup {None} /\ dead \subseteq given /\ given \subseteq Consent
        /\ lock \in BOOLEAN /\ left \in [Consent -> Time] /\ gone \subseteq Consent
    BY DEF TypeOK
  <1>2. CASE UNCHANGED <<row, google, lock, left, gone>>
    BY <1>1, <1>2 DEF WorldOK, google
  <1>3. CASE CallStep(p)
    BY <1>2, <1>3 DEF CallStep, StartCall, Succeed, Falter, Rejected, Exhausted, ghosts
  <1>4. CASE TakeLock(p)
    BY <1>1, <1>4 DEF WorldOK, TakeLock, google, ghosts
  <1>5. CASE WinnerSeen(p) \/ GiveUpWaiting(p) \/ AskGoogle(p) \/ Crash(p)
    BY <1>2, <1>5 DEF WinnerSeen, GiveUpWaiting, AskGoogle, Crash, ghosts
  <1>6. CASE RefreshFails(p)
    BY <1>1, <1>6, UnlockIs DEF WorldOK, RefreshFails, google, ghosts
  <1>7. CASE MarkRevoked(p)
    <2>1. lock' \in BOOLEAN /\ UNCHANGED <<google, gone>>
      BY <1>7, UnlockIs DEF MarkRevoked
    <2>2. row' \in Row \cup {None} /\ left' \in [Consent -> Time]
      BY <1>1, <1>7, MarkWrites, LeavesIs
    <2>3. QED
      BY <1>1, <2>1, <2>2 DEF WorldOK, google
  <1>8. ASSUME NEW b \in BOOLEAN, Persist(p, b) PROVE WorldOK'
    <2>1. lock' \in BOOLEAN /\ UNCHANGED <<google, left, gone>>
      BY <1>8, UnlockIs DEF Persist, ghosts
    <2>2. row' \in Row \cup {None}
      BY <1>1, <1>8, PersistWrites
    <2>3. QED
      BY <1>1, <2>1, <2>2 DEF WorldOK, google
  <1>9. CASE \E c \in Consent : Agree(p, c)
    BY <1>1, <1>9 DEF WorldOK, Agree, ghosts
  <1>10. CASE StoreGrant(p)
    <2>1. UNCHANGED <<google, lock, gone>> /\ left' \in [Consent -> Time]
      BY <1>10, LeavesIs DEF StoreGrant
    <2>2. proc[p].consent \in Consent /\ clock + Life \in Expiry
      BY <1>10, Puts, Kinds DEF StoreGrant, TypeOK, Time, Expiry
    <2>3. row' = [consent |-> proc[p].consent, access |-> proc[p].consent,
                  expiry |-> clock + Life, revoked |-> FALSE]
      BY <1>10 DEF StoreGrant
    <2>4. row' \in Row
      BY <2>2, <2>3 DEF Row, Expiry
    <2>5. QED
      BY <1>1, <2>1, <2>4 DEF WorldOK, google
  <1>11. CASE BeginDisconnect(p)
    BY <1>2, <1>11 DEF BeginDisconnect, ghosts
  <1>12. CASE Revoke(p)
    BY <1>1, <1>12 DEF WorldOK, Revoke, ghosts
  <1>13. CASE Forget(p)
    <2>1. UNCHANGED <<google, lock>> /\ left' \in [Consent -> Time] /\ row' = None
      BY <1>13, LeavesIs DEF Forget
    <2>2. gone' \subseteq Consent
      BY <1>1, <1>13, RowFields DEF Forget
    <2>3. QED
      BY <1>1, <2>1, <2>2 DEF WorldOK, google
  <1>14. QED
    BY <1>3, <1>4, <1>5, <1>6, <1>7, <1>8, <1>9, <1>10, <1>11, <1>12, <1>13
    DEF ProcessStep, RefreshStep, RequestStep

CoreInv == TypeOK /\ \A q \in Process : HandOK(q)

LEMMA InitCore == Init => CoreInv
  <1> SUFFICES ASSUME Init PROVE CoreInv
    OBVIOUS
  <1>1. Idle \in Activity /\ 0 \in Time /\ Horizon \in Time
    BY DEF Activity, Time
  <1>2. TypeOK
    BY <1>1 DEF Init, TypeOK
  <1>3. ASSUME NEW q \in Process PROVE HandOK(q)
    BY DEF Init, HandOK, Working, Renewing, Idle
  <1>4. QED
    BY <1>2, <1>3 DEF CoreInv

LEMMA StepCore == CoreInv /\ [Next]_vars => CoreInv'
  <1> SUFFICES ASSUME CoreInv, [Next]_vars PROVE CoreInv'
    OBVIOUS
  <1>0. TypeOK /\ \A q \in Process : HandOK(q)
    BY DEF CoreInv
  <1>1. ASSUME NEW p \in Process, ProcessStep(p) PROVE CoreInv'
    <2>1. Alone(p) /\ OwnOK(p) /\ WorldOK'
      BY <1>0, <1>1, WorksAlone, OwnKept, WorldKept
    <2>2. TypeOK'
      <3>1. /\ proc' \in [Process -> Activity] /\ snap' \in [Process -> Snapshot \cup {None}]
            /\ sent' \in [Process -> Nat]
        BY <1>0, <2>1 DEF Alone, OwnOK, TypeOK
      <3>2. circ' \in Scenarios /\ clock' \in Time
        BY <1>0, <2>1 DEF Alone, TypeOK
      <3>3. QED
        BY <3>1, <3>2, <2>1 DEF TypeOK, WorldOK
    <2>3. ASSUME NEW q \in Process \ {p} PROVE HandOK(q)'
      <3>1. proc'[q] = proc[q] /\ snap'[q] = snap[q] /\ sent'[q] = sent[q] /\ clock' = clock
        BY <1>0, <2>1, Written DEF Alone, TypeOK
      <3>2. HandOK(q)
        BY <1>0
      <3>3. QED
        BY <3>1, <3>2 DEF HandOK, Working, Renewing, Usable
    <2>4. QED
      BY <2>1, <2>2, <2>3 DEF CoreInv, OwnOK
  <1>2. CASE UNCHANGED <<circ, clock, row, given, lock, snap, proc, ghosts>> /\ dead' \subseteq given
    <2>1. TypeOK'
      BY <1>0, <1>2 DEF TypeOK, ghosts
    <2>2. ASSUME NEW q \in Process PROVE HandOK(q)'
      <3>1. HandOK(q)
        BY <1>0
      <3>2. QED
        BY <1>2, <3>1 DEF HandOK, Working, Renewing, Usable, ghosts
    <2>3. QED
      BY <2>1, <2>2 DEF CoreInv
  <1>3. CASE Withdraw
    BY <1>2, <1>3 DEF Withdraw
  <1>4. CASE ExpireLock
    <2>1. TypeOK'
      BY <1>0, <1>4 DEF ExpireLock, TypeOK, ghosts, google
    <2>2. ASSUME NEW q \in Process PROVE HandOK(q)'
      <3>1. HandOK(q)
        BY <1>0
      <3>2. QED
        BY <1>4, <3>1 DEF HandOK, Working, Renewing, Usable, ghosts, ExpireLock
    <2>3. QED
      BY <2>1, <2>2 DEF CoreInv
  <1>5. CASE Tick
    <2>1. clock' = clock + 1 /\ clock' \in Time /\ clock \in Int
      BY <1>0, <1>5 DEF Tick, TypeOK, Time
    <2>2. \A q \in Process : snap'[q] \in {snap[q], None}
      BY <1>5 DEF Tick
    <2>3. TypeOK'
      <3>1. snap' \in [Process -> Snapshot \cup {None}]
        BY <1>0, <1>5 DEF Tick, TypeOK
      <3>2. QED
        BY <1>0, <1>5, <2>1, <3>1 DEF Tick, TypeOK, ghosts, google
    <2>4. ASSUME NEW q \in Process PROVE HandOK(q)'
      <3>1. HandOK(q) /\ proc' = proc /\ sent' = sent
        BY <1>0, <1>5 DEF Tick, ghosts
      <3>2. Working(q) => proc[q].began \in Int
        BY <1>0, Puts, Kinds, Carried DEF Working, Time
      <3>3. snap[q] # None => snap[q].at \in Int
        BY <1>0, Puts DEF Snapshot, Time
      <3>4. Working(q)' => proc'[q].began <= clock' /\ (~proc'[q].repeatable => sent'[q] = 0)
        BY <2>1, <3>1, <3>2 DEF HandOK, Working
      <3>5. snap'[q] # None => snap'[q].at <= clock'
        BY <2>1, <2>2, <3>1, <3>3 DEF HandOK
      <3>6. QED
        BY <3>1, <3>4, <3>5 DEF HandOK, Renewing, Usable
    <2>5. QED
      BY <2>3, <2>4 DEF CoreInv
  <1>6. CASE UNCHANGED vars
    <2>1. dead \subseteq given
      BY <1>0 DEF TypeOK
    <2>2. QED
      BY <1>2, <1>6, <2>1 DEF vars, google
  <1>7. QED
    BY <1>1, <1>3, <1>4, <1>5, <1>6 DEF Next, ProcessStep

\* Every behaviour keeps the types of the grant's state, and what each process
\* holds: a call that must not be repeated has had no effect while it is under
\* way (google_request), and a refresh mints the token of the consent it set
\* out with (credentials._refresh).
THEOREM GrantInvariant == Spec => []CoreInv
  BY InitCore, StepCore, PTL DEF Spec

\* The row, the snapshots, the calls and the consents keep their types.
THEOREM GrantTypeCorrect == Spec => []TypeOK
  <1>1. CoreInv => TypeOK
    BY DEF CoreInv
  <1>2. QED
    BY <1>1, GrantInvariant, PTL

\* "A duplicate one is not" recoverable: whatever fails, times out or expires
\* under it, a call that must not be repeated takes effect at most once
\* (google_request).
THEOREM SentOnce == Spec => []SentAtMostOnce
  <1>1. CoreInv => SentAtMostOnce
    BY DEF CoreInv, HandOK, SentAtMostOnce
  <1>2. QED
    BY <1>1, GrantInvariant, PTL
(***************************************************************************)
(* The row and its consents.                                               *)
(***************************************************************************)

\* Unless stale refreshes meet rotated refresh tokens: the row's consent was
\* given and has not been disconnected, and each callback brings one of its
\* own.
NewOK ==
    /\ gone \subseteq given
    /\ row # None => row.consent \in given \ gone
    /\ \A q \in Process : proc[q].kind = "callback" =>
          /\ proc[q].consent \in given \ gone
          /\ row # None => row.consent # proc[q].consent
    /\ \A q, r \in Process :
          /\ proc[q].kind = "callback" /\ proc[r].kind = "callback"
          /\ proc[q].consent = proc[r].consent
          => q = r

NewInv == ~({"stale", "rotates"} \subseteq circ) => NewOK

\* No connection but consent c's stands.
Whose(c) == row # None => row.consent = c

\* What a process works with is of the connection that stands, or was when the
\* lifetime of a snapshot had not passed; a consent is refused only when dead.
HandFresh(q) ==
    /\ Renewing(q) => /\ Whose(proc[q].state.consent)
                      /\ proc[q].began - left[proc[q].state.consent] < TTL
    /\ proc[q].kind = "refused" => proc[q].state.consent \in dead
    /\ proc[q].kind = "call" => proc[q].began - left[proc[q].token] < TTL
    /\ proc[q].kind = "callback" => left[proc[q].consent] = Horizon

SnapFresh(q) ==
    snap[q] # None /\ Usable(snap[q].state) =>
        /\ snap[q].state.access \in {None, snap[q].state.consent}
        /\ snap[q].at <= left[snap[q].state.consent]
        /\ Whose(snap[q].state.consent)

RowFresh ==
    row # None =>
        /\ row.access \in {None, row.consent}
        /\ row.revoked => row.consent \in dead
        /\ ~row.revoked => left[row.consent] = Horizon

FreshOK ==
    /\ RowFresh
    /\ \A c \in Consent \ given : left[c] = Horizon
    /\ \A q \in Process : HandFresh(q) /\ SnapFresh(q)

FreshInv == "stale" \notin circ => FreshOK

GrantInv == CoreInv /\ NewInv /\ FreshInv

\* The types of what a process holds.
LEMMA HandTyped ==
    ASSUME CoreInv, NEW q \in Process
    PROVE  /\ TypeOK /\ HandOK(q)
           /\ Working(q) => proc[q].began \in Time /\ proc[q].began <= clock
           /\ Renewing(q) => proc[q].state.consent \in Consent
           /\ proc[q].kind = "call" => proc[q].token \in Consent
           /\ proc[q].kind = "callback" => proc[q].consent \in Consent
           /\ snap[q] # None => snap[q].at \in Time /\ snap[q].at <= clock
           /\ snap[q] # None /\ Usable(snap[q].state) => snap[q].state.consent \in Consent
  <1>1. TypeOK /\ HandOK(q)
    BY DEF CoreInv
  <1>2. proc[q] \in Activity /\ snap[q] \in Snapshot \cup {None}
    BY <1>1, Puts
  <1>3. Working(q) => proc[q] \in Call /\ proc[q].began \in Time
    BY <1>2, Kinds, Carried DEF Working
  <1>4. Renewing(q) => proc[q].state \in Row
    BY <1>1, <1>3, Carried DEF Renewing, Working, HandOK, Usable
  <1>5. snap[q] # None => snap[q].at \in Time /\ snap[q].state \in Row \cup {None}
    BY <1>2 DEF Snapshot
  <1>6. snap[q] # None /\ Usable(snap[q].state) => snap[q].state \in Row
    BY <1>5 DEF Usable
  <1>7. QED
    BY <1>1, <1>2, <1>3, <1>4, <1>5, <1>6, Kinds, RowFields DEF HandOK

\* A connection that stands, in hand.
LEMMA RowInHand ==
    ASSUME TypeOK, FreshOK, Usable(row)
    PROVE  /\ row \in Row /\ row.consent \in Consent /\ row.access \in {None, row.consent}
           /\ left[row.consent] = Horizon /\ Whose(row.consent)
           /\ clock <= left[row.consent]
           /\ \A t \in Time : t - left[row.consent] < TTL
  <1>1. row \in Row /\ clock \in Time
    BY DEF TypeOK, Usable
  <1>2. row.consent \in Consent
    BY <1>1, RowFields
  <1>3. row.access \in {None, row.consent} /\ left[row.consent] = Horizon
    BY DEF FreshOK, RowFresh, Usable
  <1>4. \A t \in Time : t <= Horizon /\ t - Horizon < TTL
    BY DEF Time
  <1>5. QED
    BY <1>1, <1>2, <1>3, <1>4 DEF Whose

\* Whatever a process reads is as fresh as its snapshot must be.
LEMMA CachedFresh ==
    ASSUME CoreInv, FreshOK, NEW p \in Process, Usable(Cached(p).state)
    PROVE  LET s == Cached(p).state IN
           /\ s.consent \in Consent /\ s.access \in {None, s.consent} /\ Whose(s.consent)
           /\ Cached(p).at <= left[s.consent]
           /\ clock - left[s.consent] < TTL
  <1>0. TypeOK
    BY DEF CoreInv
  <1>1. CASE Cached(p) = Fresh
    <2>1. Cached(p).state = row /\ Cached(p).at = clock /\ clock \in Time
      BY <1>0, <1>1, Reads DEF TypeOK
    <2>2. Usable(row)
      BY <2>1 DEF Usable
    <2>3. QED
      BY <1>0, <2>1, <2>2, RowInHand
  <1>2. CASE Cached(p) # Fresh
    <2>1. Cached(p) = snap[p] /\ snap[p] # None /\ clock - snap[p].at < TTL
      BY <1>2, <1>0, Reads DEF Cached, Fresh
    <2>2. SnapFresh(p) /\ Usable(snap[p].state)
      BY <2>1 DEF FreshOK
    <2>3. /\ snap[p].state.consent \in Consent /\ snap[p].at \in Time
          /\ clock \in Time /\ left[snap[p].state.consent] \in Time
      BY <1>0, <2>1, <2>2, HandTyped DEF TypeOK
    <2>4. snap[p].at <= left[snap[p].state.consent]
      BY <2>1, <2>2 DEF SnapFresh
    <2>5. \A x, y, z \in Time : x - y < TTL /\ y <= z => x - z < TTL
      BY DEF Time
    <2>6. clock - left[snap[p].state.consent] < TTL
      BY <2>1, <2>3, <2>4, <2>5
    <2>7. QED
      BY <2>1, <2>2, <2>3, <2>4, <2>6 DEF SnapFresh
  <1>3. QED
    BY <1>1, <1>2
(***************************************************************************)
(* A process whose hand a step leaves alone.                               *)
(***************************************************************************)

\* A connection ends when it is marked or deleted, for the record.
LeftIs ==
    /\ left' \in [Consent -> Time]
    /\ \A c \in Consent : left'[c] # left[c] => left'[c] = clock /\ row # None /\ c = row.consent

\* What began by now, or was read by now, is as fresh when the connection it is
\* of ends now.
LEMMA LeftFresh ==
    ASSUME CoreInv, LeftIs, NEW c \in Consent, NEW t \in Time, t <= clock
    PROVE  /\ t - left[c] < TTL => t - left'[c] < TTL
           /\ t <= left[c] => t <= left'[c]
  <1>1. clock \in Time /\ left[c] \in Time /\ left'[c] \in Time
    BY DEF CoreInv, TypeOK, LeftIs
  <1>2. left'[c] = left[c] \/ left'[c] = clock
    BY DEF LeftIs
  <1>3. QED
    BY <1>1, <1>2 DEF Time

\* The snapshot, where the consent of the row does not change.
LEMMA SnapKept ==
    ASSUME CoreInv, LeftIs, NEW q \in Process, SnapFresh(q), snap'[q] \in {snap[q], None},
           row' # None => row # None /\ row'.consent = row.consent
    PROVE  SnapFresh(q)'
  <1> SUFFICES ASSUME snap'[q] # None, Usable(snap'[q].state)
               PROVE  /\ snap'[q].state.access \in {None, snap'[q].state.consent}
                      /\ snap'[q].at <= left'[snap'[q].state.consent]
                      /\ row' # None => row'.consent = snap'[q].state.consent
    BY DEF SnapFresh, Usable, Whose
  <1>1. snap'[q] = snap[q] /\ snap[q] # None /\ Usable(snap[q].state)
    OBVIOUS
  <1>2. /\ snap[q].state.consent \in Consent /\ snap[q].at \in Time /\ snap[q].at <= clock
    BY <1>1, HandTyped
  <1>3. /\ snap[q].state.access \in {None, snap[q].state.consent}
        /\ snap[q].at <= left[snap[q].state.consent]
        /\ Whose(snap[q].state.consent)
    BY <1>1 DEF SnapFresh
  <1>4. snap[q].at <= left'[snap[q].state.consent]
    BY <1>2, <1>3, LeftFresh
  <1>5. QED
    BY <1>1, <1>3, <1>4 DEF Whose

\* A call, a refresh or a callback in hand.
LEMMA HandKept ==
    ASSUME CoreInv, NewOK, LeftIs, NEW q \in Process, HandFresh(q), proc'[q] = proc[q],
           dead \subseteq dead',
           row' # None => \/ row # None /\ row'.consent = row.consent
                          \/ ~Renewing(q)
    PROVE  HandFresh(q)'
  <1>1. Renewing(q) => /\ row' # None => row'.consent = proc[q].state.consent
                       /\ proc[q].began - left'[proc[q].state.consent] < TTL
    <2> SUFFICES ASSUME Renewing(q)
                 PROVE  /\ row' # None => row'.consent = proc[q].state.consent
                        /\ proc[q].began - left'[proc[q].state.consent] < TTL
      OBVIOUS
    <2>1. /\ Whose(proc[q].state.consent) /\ proc[q].began - left[proc[q].state.consent] < TTL
      BY DEF HandFresh
    <2>2. /\ proc[q].state.consent \in Consent /\ proc[q].began \in Time /\ proc[q].began <= clock
      BY HandTyped DEF Renewing, Working
    <2>3. proc[q].began - left'[proc[q].state.consent] < TTL
      BY <2>1, <2>2, LeftFresh
    <2>4. QED
      BY <2>1, <2>3 DEF Whose
  <1>2. proc[q].kind = "refused" => proc[q].state.consent \in dead'
    BY DEF HandFresh
  <1>3. proc[q].kind = "call" => proc[q].began - left'[proc[q].token] < TTL
    <2> SUFFICES ASSUME proc[q].kind = "call" PROVE proc[q].began - left'[proc[q].token] < TTL
      OBVIOUS
    <2>1. proc[q].token \in Consent /\ proc[q].began \in Time /\ proc[q].began <= clock
      BY HandTyped DEF Working
    <2>2. proc[q].began - left[proc[q].token] < TTL
      BY DEF HandFresh
    <2>3. QED
      BY <2>1, <2>2, LeftFresh
  <1>4. proc[q].kind = "callback" => left'[proc[q].consent] = Horizon
    <2> SUFFICES ASSUME proc[q].kind = "callback" PROVE left'[proc[q].consent] = Horizon
      OBVIOUS
    <2>1. proc[q].consent \in Consent /\ left[proc[q].consent] = Horizon
      BY HandTyped DEF HandFresh
    <2>2. row # None => row.consent # proc[q].consent
      BY DEF NewOK
    <2>3. QED
      BY <2>1, <2>2 DEF LeftIs
  <1>5. QED
    BY <1>1, <1>2, <1>3, <1>4 DEF HandFresh, Renewing, Whose

\* Consents not yet given, where the given ones only grow.
LEMMA UnusedKept ==
    ASSUME NewOK, LeftIs, given \subseteq given', \A c \in Consent \ given : left[c] = Horizon
    PROVE  \A c \in Consent \ given' : left'[c] = Horizon
  BY DEF NewOK, LeftIs
(***************************************************************************)
(* Steps that leave the row alone.                                         *)
(***************************************************************************)

\* Only p's hand changes.
Quiet(p) == Alone(p) /\ UNCHANGED <<row, left, given>> /\ dead \subseteq dead'

\* What p then remembers of the row is as fresh as it must be.
LEMMA QuietSnap ==
    ASSUME CoreInv, FreshOK, NEW p \in Process, Quiet(p),
           snap'[p] \in {snap[p], None, Fresh, Cached(p)}
    PROVE  SnapFresh(p)'
  <1>0. TypeOK /\ row' = row /\ left' = left
    BY DEF CoreInv, Quiet
  <1>1. CASE snap'[p] = snap[p]
    <2>1. SnapFresh(p)
      BY DEF FreshOK
    <2>2. QED
      BY <1>0, <1>1, <2>1 DEF SnapFresh, Usable, Whose
  <1>2. CASE snap'[p] = None
    BY <1>2 DEF SnapFresh
  <1>3. CASE snap'[p] = Fresh
    <2>1. snap'[p].state = row /\ snap'[p].at = clock
      BY <1>0, <1>3, Reads
    <2>2. CASE Usable(row)
      <3>1. /\ row.access \in {None, row.consent} /\ clock <= left[row.consent] /\ Whose(row.consent)
        BY <1>0, <2>2, RowInHand
      <3>2. QED
        BY <1>0, <2>1, <3>1 DEF SnapFresh, Whose
    <2>3. CASE ~Usable(row)
      BY <2>1, <2>3 DEF SnapFresh, Usable
    <2>4. QED
      BY <2>2, <2>3
  <1>4. CASE snap'[p] = Cached(p)
    <2>1. CASE Usable(Cached(p).state)
      <3> DEFINE s == Cached(p).state
      <3>1. s.access \in {None, s.consent} /\ Whose(s.consent) /\ Cached(p).at <= left[s.consent]
        BY <2>1, CachedFresh
      <3>2. QED
        BY <1>0, <1>4, <3>1 DEF SnapFresh, Whose
    <2>2. CASE ~Usable(Cached(p).state)
      BY <1>4, <2>2 DEF SnapFresh, Usable
    <2>3. QED
      BY <2>1, <2>2
  <1>5. QED
    BY <1>1, <1>2, <1>3, <1>4

\* What everyone holds is as fresh as it must be.
LEMMA QuietFresh ==
    ASSUME CoreInv, NewOK, FreshOK, NEW p \in Process, Quiet(p),
           snap'[p] \in {snap[p], None, Fresh, Cached(p)}, HandFresh(p)'
    PROVE  FreshOK'
  <1>0. TypeOK /\ row' = row /\ left' = left /\ given' = given
    BY DEF CoreInv, Quiet
  <1>1. LeftIs
    BY <1>0 DEF LeftIs, TypeOK
  <1>2. RowFresh'
    BY <1>0 DEF FreshOK, RowFresh, Quiet
  <1>3. ASSUME NEW q \in Process \ {p} PROVE HandFresh(q)' /\ SnapFresh(q)'
    <2>1. proc'[q] = proc[q] /\ snap'[q] = snap[q]
      BY <1>0, Written DEF Quiet, Alone, TypeOK
    <2>2. HandFresh(q) /\ SnapFresh(q)
      BY DEF FreshOK
    <2>3. QED
      BY <1>0, <1>1, <2>1, <2>2, HandKept, SnapKept DEF Quiet
  <1>4. QED
    BY <1>0, <1>2, <1>3, QuietSnap DEF FreshOK

LEMMA CallFresh ==
    ASSUME CoreInv, NewOK, FreshOK, NEW p \in Process, CallStep(p)
    PROVE  FreshOK'
  <1>0. TypeOK /\ HandOK(p) /\ HandFresh(p) /\ clock \in Time
    BY DEF CoreInv, TypeOK, FreshOK
  <1>1. Quiet(p)
    BY <1>0, WorksAlone DEF ProcessStep, CallStep, StartCall, Succeed, Falter, Rejected, Exhausted,
                           Quiet, ghosts, google
  <1>2. row' = row /\ left' = left
    BY <1>1 DEF Quiet
  <1>3. ASSUME NEW b \in BOOLEAN, StartCall(p, b) PROVE FreshOK'
    <2>1. /\ snap'[p] = Cached(p)
          /\ \/ proc'[p] = Idle
             \/ /\ Usable(Cached(p).state) /\ proc'[p].began = clock
                /\ \/ /\ proc'[p].kind = "call" /\ Cached(p).state.access # None
                      /\ proc'[p].token = Cached(p).state.access
                   \/ proc'[p].kind = "refresh" /\ proc'[p].state = Cached(p).state
      BY <1>0, <1>3, StartCallDoes
    <2>2. CASE proc'[p] = Idle
      BY <1>1, <2>1, <2>2, QuietFresh DEF HandFresh, Renewing, Idle
    <2>3. CASE proc'[p] # Idle
      <3> DEFINE s == Cached(p).state
      <3>1. /\ s.access \in {None, s.consent} /\ Whose(s.consent)
            /\ clock - left[s.consent] < TTL
        BY <2>1, <2>3, CachedFresh
      <3>2. HandFresh(p)'
        BY <1>2, <2>1, <2>3, <3>1 DEF HandFresh, Renewing, Whose
      <3>3. QED
        BY <1>1, <2>1, <3>2, QuietFresh
    <2>4. QED
      BY <2>2, <2>3
  <1>4. CASE Succeed(p) \/ Falter(p) \/ Exhausted(p)
    <2>1. /\ snap'[p] = snap[p] /\ proc[p].kind = "call"
          /\ \/ proc'[p] = Idle
             \/ /\ proc'[p].kind = "call" /\ proc'[p].token = proc[p].token
                /\ proc'[p].began = proc[p].began
      BY <1>0, <1>4, SendingDoes
    <2>2. HandFresh(p)'
      BY <1>0, <1>2, <2>1 DEF HandFresh, Renewing, Idle
    <2>3. QED
      BY <1>1, <2>1, <2>2, QuietFresh
  <1>5. CASE Rejected(p)
    <2>1. /\ snap'[p] \in {snap[p], Fresh} /\ proc[p].kind = "call"
          /\ \/ proc'[p] = Idle
             \/ /\ Usable(row) /\ proc'[p].kind = "refresh" /\ proc'[p].state = row
                /\ proc'[p].began = proc[p].began
      BY <1>0, <1>5, RejectedDoes
    <2>2. proc[p].began \in Time
      BY <2>1, HandTyped DEF Working
    <2>3. Usable(row) => Whose(row.consent) /\ proc[p].began - left[row.consent] < TTL
      BY <1>0, <2>2, RowInHand
    <2>4. HandFresh(p)'
      BY <1>2, <2>1, <2>3 DEF HandFresh, Renewing, Idle, Whose
    <2>5. QED
      BY <1>1, <2>1, <2>4, QuietFresh
  <1>6. QED
    BY <1>3, <1>4, <1>5 DEF CallStep
(***************************************************************************)
(* Steps that write the row, or end it.                                    *)
(***************************************************************************)

SameConsent == row' # None => row # None /\ row'.consent = row.consent

LEMMA RowStepFresh ==
    ASSUME CoreInv, NewOK, FreshOK, NEW p \in Process, Alone(p), LeftIs, SameConsent,
           given \subseteq given', dead \subseteq dead',
           RowFresh', HandFresh(p)', snap'[p] = None
    PROVE  FreshOK'
  <1>0. TypeOK
    BY DEF CoreInv
  <1>1. ASSUME NEW q \in Process \ {p} PROVE HandFresh(q)' /\ SnapFresh(q)'
    <2>1. proc'[q] = proc[q] /\ snap'[q] = snap[q]
      BY <1>0, Written DEF Alone, TypeOK
    <2>2. HandFresh(q) /\ SnapFresh(q)
      BY DEF FreshOK
    <2>3. QED
      BY <2>1, <2>2, HandKept, SnapKept DEF SameConsent
  <1>2. \A c \in Consent \ given' : left'[c] = Horizon
    BY UnusedKept DEF FreshOK
  <1>3. SnapFresh(p)'
    BY DEF SnapFresh
  <1>4. QED
    BY <1>1, <1>2, <1>3 DEF FreshOK

\* A refreshed token goes to the consent that it is of.
LEMMA PersistFresh ==
    ASSUME CoreInv, NewOK, FreshOK, NEW p \in Process, NEW b \in BOOLEAN, Persist(p, b)
    PROVE  FreshOK' /\ SameConsent
  <1>0. TypeOK /\ HandOK(p) /\ HandFresh(p)
    BY DEF CoreInv, FreshOK
  <1>1. /\ Alone(p) /\ left' = left /\ given' = given /\ dead' = dead
    BY <1>0, WorksAlone DEF ProcessStep, RefreshStep, Persist, ghosts, google
  <1>2. /\ snap'[p] = None /\ proc[p].kind = "minted"
        /\ proc'[p].kind = "call" /\ proc'[p].token = proc[p].token
        /\ proc'[p].began = proc[p].began
    BY <1>0, PersistDoes
  <1>3. /\ Whose(proc[p].token) /\ proc[p].began - left[proc[p].token] < TTL
    BY <1>0, <1>2 DEF HandFresh, Renewing, HandOK
  <1>4. IF row = None THEN row' = None
        ELSE /\ row' \in Row /\ row'.revoked = row.revoked
             /\ row'.access \in {row.access, proc[p].token}
             /\ row'.consent \in {row.consent, proc[p].token}
    BY <1>0, PersistWrites
  <1>5. SameConsent
    BY <1>3, <1>4 DEF SameConsent, Whose
  <1>6. RowFresh'
    BY <1>1, <1>3, <1>4, <1>5 DEF FreshOK, RowFresh, Whose, SameConsent
  <1>7. HandFresh(p)'
    BY <1>1, <1>2, <1>3 DEF HandFresh, Renewing
  <1>8. LeftIs
    BY <1>0, <1>1 DEF LeftIs, TypeOK
  <1>9. QED
    BY <1>1, <1>2, <1>5, <1>6, <1>7, <1>8, RowStepFresh

\* The connection that is marked is the one Google refused.
LEMMA MarkFresh ==
    ASSUME CoreInv, NewOK, FreshOK, NEW p \in Process, MarkRevoked(p)
    PROVE  FreshOK'
  <1>0. TypeOK /\ HandOK(p) /\ HandFresh(p) /\ proc[p].kind = "refused"
    BY DEF CoreInv, FreshOK, MarkRevoked
  <1>1. Alone(p) /\ given' = given /\ dead' = dead /\ snap'[p] = None
    BY <1>0, WorksAlone, Puts DEF ProcessStep, RefreshStep, MarkRevoked, google
  <1>2. proc'[p] = Idle
    BY <1>0, GivenUpDoes
  <1>3. Whose(proc[p].state.consent) /\ proc[p].state.consent \in dead
    BY <1>0 DEF HandFresh, Renewing
  <1>4. \/ /\ IF row = None THEN row' = None
              ELSE row' \in Row /\ row'.consent = row.consent /\ row'.revoked /\ row'.access = None
           /\ Leaves
        \/ row' = row /\ left' = left
    BY <1>0, MarkWrites
  <1>5. LeftIs
    BY <1>0, <1>4, LeavesIs DEF LeftIs, TypeOK
  <1>6. SameConsent
    BY <1>4 DEF SameConsent
  <1>7. RowFresh'
    BY <1>1, <1>3, <1>4 DEF FreshOK, RowFresh, Whose
  <1>8. HandFresh(p)'
    BY <1>2 DEF HandFresh, Renewing, Idle
  <1>9. QED
    BY <1>1, <1>5, <1>6, <1>7, <1>8, RowStepFresh

LEMMA ForgetFresh ==
    ASSUME CoreInv, NewOK, FreshOK, NEW p \in Process, Forget(p)
    PROVE  FreshOK'
  <1>0. TypeOK /\ HandOK(p)
    BY DEF CoreInv
  <1>1. /\ Alone(p) /\ given' = given /\ dead' = dead /\ snap'[p] = None /\ proc'[p] = Idle
        /\ row' = None
    BY <1>0, WorksAlone, Puts DEF ProcessStep, RequestStep, Forget, google
  <1>2. LeftIs
    BY <1>0, LeavesIs DEF LeftIs, Forget
  <1>3. HandFresh(p)'
    BY <1>1 DEF HandFresh, Renewing, Idle
  <1>4. QED
    BY <1>1, <1>2, <1>3, RowStepFresh DEF RowFresh, SameConsent

\* A new connection is stored while nobody remembers another.
LEMMA StoreFresh ==
    ASSUME CoreInv, NewOK, FreshOK, NEW p \in Process, StoreGrant(p), "stale" \notin circ
    PROVE  FreshOK'
  <1>0. TypeOK /\ HandOK(p) /\ HandFresh(p) /\ proc[p].kind = "callback" /\ NothingInHand
    BY DEF CoreInv, FreshOK, StoreGrant
  <1>1. /\ Alone(p) /\ given' = given /\ dead' = dead /\ snap'[p] = None /\ proc'[p] = Idle
        /\ row'.consent = proc[p].consent /\ row'.access = proc[p].consent
        /\ ~row'.revoked
    <2>1. row' = [consent |-> proc[p].consent, access |-> proc[p].consent,
                  expiry |-> clock + Life, revoked |-> FALSE]
      BY DEF StoreGrant
    <2>2. row'.consent = proc[p].consent /\ row'.access = proc[p].consent /\ ~row'.revoked
      BY <2>1
    <2>3. Alone(p)
      BY <1>0, WorksAlone DEF ProcessStep, RequestStep
    <2>4. given' = given /\ dead' = dead /\ snap'[p] = None /\ proc'[p] = Idle
      BY <1>0, Puts DEF StoreGrant, google
    <2>5. QED
      BY <2>2, <2>3, <2>4
  <1>2. LeftIs
    BY <1>0, LeavesIs DEF LeftIs, StoreGrant
  <1>3. left'[proc[p].consent] = Horizon
    <2>1. proc[p].consent \in Consent /\ left[proc[p].consent] = Horizon
      BY <1>0, HandTyped DEF HandFresh
    <2>2. row # None => row.consent # proc[p].consent
      BY <1>0 DEF NewOK
    <2>3. QED
      BY <1>2, <2>1, <2>2 DEF LeftIs
  <1>4. RowFresh'
    BY <1>1, <1>3 DEF RowFresh
  <1>5. ASSUME NEW q \in Process \ {p} PROVE HandFresh(q)' /\ SnapFresh(q)'
    <2>1. proc'[q] = proc[q] /\ snap'[q] = snap[q]
      BY <1>0, <1>1, Written DEF Alone, TypeOK
    <2>2. HandFresh(q) /\ ~Renewing(q) /\ (snap[q] # None => ~Usable(snap[q].state))
      BY <1>0 DEF FreshOK, NothingInHand, Renewing
    <2>3. QED
      BY <1>1, <1>2, <2>1, <2>2, HandKept DEF SnapFresh, Usable
  <1>6. HandFresh(p)' /\ SnapFresh(p)'
    BY <1>1 DEF HandFresh, SnapFresh, Renewing, Idle
  <1>7. \A c \in Consent \ given' : left'[c] = Horizon
    BY <1>1, <1>2, UnusedKept DEF FreshOK
  <1>8. QED
    BY <1>4, <1>5, <1>6, <1>7 DEF FreshOK
LEMMA RefreshFresh ==
    ASSUME CoreInv, NewOK, FreshOK, NEW p \in Process, RefreshStep(p)
    PROVE  FreshOK'
  <1>0. TypeOK /\ HandOK(p) /\ HandFresh(p) /\ Alone(p)
    BY WorksAlone DEF CoreInv, FreshOK, ProcessStep
  <1>1. CASE TakeLock(p) \/ GiveUpWaiting(p)
    <2>1. Quiet(p)
      BY <1>0, <1>1 DEF TakeLock, GiveUpWaiting, Quiet, ghosts, google
    <2>2. /\ snap'[p] \in {snap[p], Fresh} /\ proc[p].kind = "refresh"
          /\ proc'[p].kind = "refresh" /\ proc'[p].state = proc[p].state
          /\ proc'[p].began = proc[p].began
      BY <1>0, <1>1, LockingDoes
    <2>3. HandFresh(p)'
      BY <1>0, <2>1, <2>2 DEF HandFresh, Renewing, Whose, Quiet
    <2>4. QED
      BY <2>1, <2>2, <2>3, QuietFresh
  <1>2. CASE WinnerSeen(p)
    <2>1. Quiet(p)
      BY <1>0, <1>2 DEF WinnerSeen, Quiet, ghosts, google
    <2>2. /\ snap'[p] = Fresh /\ Usable(row) /\ row.access # None
          /\ proc'[p].kind = "call" /\ proc'[p].token = row.access
          /\ proc[p].kind = "refresh" /\ proc'[p].began = proc[p].began
      BY <1>0, <1>2, WinnerSeenDoes
    <2>3. proc[p].began \in Time
      BY <2>2, HandTyped DEF Working
    <2>4. row.access = row.consent /\ proc[p].began - left[row.consent] < TTL
      BY <1>0, <2>2, <2>3, RowInHand
    <2>5. HandFresh(p)'
      BY <2>1, <2>2, <2>4 DEF HandFresh, Renewing, Quiet
    <2>6. QED
      BY <2>1, <2>2, <2>5, QuietFresh
  <1>3. CASE AskGoogle(p)
    <2>1. Quiet(p)
      BY <1>0, <1>3 DEF AskGoogle, Quiet, ghosts, google
    <2>2. /\ snap'[p] = snap[p] /\ proc[p].kind = "refresh"
          /\ proc'[p].state = proc[p].state /\ proc'[p].began = proc[p].began
          /\ \/ proc'[p].kind = "refused" /\ proc[p].state.consent \in dead
             \/ proc'[p].kind = "minted"
      BY <1>0, <1>3, AskGoogleDoes
    <2>3. HandFresh(p)'
      BY <1>0, <2>1, <2>2 DEF HandFresh, Renewing, Whose, Quiet
    <2>4. QED
      BY <2>1, <2>2, <2>3, QuietFresh
  <1>4. CASE RefreshFails(p)
    <2>1. Quiet(p)
      BY <1>0, <1>4 DEF RefreshFails, Quiet, ghosts, google
    <2>2. snap'[p] \in {snap[p], None} /\ proc'[p] = Idle
      BY <1>0, <1>4, GivenUpDoes
    <2>3. HandFresh(p)'
      BY <2>2 DEF HandFresh, Renewing, Idle
    <2>4. QED
      BY <2>1, <2>2, <2>3, QuietFresh
  <1>5. QED
    BY <1>1, <1>2, <1>3, <1>4, MarkFresh, PersistFresh DEF RefreshStep

LEMMA RequestFresh ==
    ASSUME CoreInv, NewOK, FreshOK, NEW p \in Process, RequestStep(p), "stale" \notin circ
    PROVE  FreshOK'
  <1>0. TypeOK /\ HandOK(p) /\ HandFresh(p) /\ Alone(p)
    BY WorksAlone DEF CoreInv, FreshOK, ProcessStep
  <1>1. ASSUME NEW c \in Consent, Agree(p, c) PROVE FreshOK'
    <2>1. /\ row' = row /\ left' = left /\ dead' = dead /\ given' = given \cup {c}
          /\ snap' = snap /\ proc'[p] = Exchanged(c)
      BY <1>0, <1>1, Puts DEF Agree, ghosts
    <2>2. left[c] = Horizon
      BY <1>1 DEF Agree, FreshOK
    <2>3. LeftIs
      BY <1>0, <2>1 DEF LeftIs, TypeOK
    <2>4. RowFresh'
      BY <2>1 DEF FreshOK, RowFresh
    <2>5. HandFresh(p)'
      BY <2>1, <2>2 DEF HandFresh, Renewing, Exchanged
    <2>6. ASSUME NEW q \in Process PROVE SnapFresh(q)'
      BY <2>1, <2>3, SnapKept DEF FreshOK
    <2>7. ASSUME NEW q \in Process \ {p} PROVE HandFresh(q)'
      <3>1. proc'[q] = proc[q]
        BY <1>0, Written DEF Alone, TypeOK
      <3>2. HandFresh(q)
        BY DEF FreshOK
      <3>3. QED
        BY <2>1, <2>3, <3>1, <3>2, HandKept
    <2>8. \A d \in Consent \ given' : left'[d] = Horizon
      BY <2>1 DEF FreshOK
    <2>9. QED
      BY <2>4, <2>5, <2>6, <2>7, <2>8 DEF FreshOK
  <1>2. CASE BeginDisconnect(p) \/ Revoke(p)
    <2>1. Quiet(p)
      BY <1>0, <1>2 DEF BeginDisconnect, Revoke, Quiet, ghosts, google, TypeOK
    <2>2. /\ snap'[p] \in {snap[p], None, Fresh, Cached(p)}
          /\ proc'[p].kind \in {"idle", "revoke", "forget"}
      BY <1>0, <1>2, Puts DEF BeginDisconnect, Revoke, Idle
    <2>3. HandFresh(p)'
      BY <2>2 DEF HandFresh, Renewing
    <2>4. QED
      BY <2>1, <2>2, <2>3, QuietFresh
  <1>3. QED
    BY <1>1, <1>2, StoreFresh, ForgetFresh DEF RequestStep

LEMMA CrashFresh ==
    ASSUME CoreInv, NewOK, FreshOK, NEW p \in Process, Crash(p)
    PROVE  FreshOK'
  <1>0. TypeOK /\ HandOK(p) /\ Alone(p)
    BY WorksAlone DEF CoreInv, ProcessStep
  <1>1. Quiet(p)
    BY <1>0 DEF Crash, Quiet, ghosts, google
  <1>2. snap'[p] \in {snap[p], None} /\ proc'[p] = Idle
    BY <1>0, GivenUpDoes
  <1>3. HandFresh(p)'
    BY <1>2 DEF HandFresh, Renewing, Idle
  <1>4. QED
    BY <1>1, <1>2, <1>3, QuietFresh

\* The clock, the lock and Google touch neither the row nor what is in hand.
LEMMA OutsideFresh ==
    ASSUME CoreInv, NewOK, FreshOK,
           UNCHANGED <<row, given, left, proc>>, dead \subseteq dead',
           \A q \in Process : snap'[q] \in {snap[q], None}
    PROVE  FreshOK'
  <1>1. LeftIs
    BY DEF LeftIs, CoreInv, TypeOK
  <1>2. RowFresh'
    BY DEF FreshOK, RowFresh
  <1>3. ASSUME NEW q \in Process PROVE HandFresh(q)' /\ SnapFresh(q)'
    <2>1. HandFresh(q) /\ SnapFresh(q)
      BY DEF FreshOK
    <2>2. row' # None => row # None /\ row'.consent = row.consent
      OBVIOUS
    <2>3. QED
      BY <1>1, <2>1, <2>2, HandKept, SnapKept
  <1>4. QED
    BY <1>2, <1>3 DEF FreshOK

LEMMA StepFresh == GrantInv /\ [Next]_vars => FreshInv'
  <1> SUFFICES ASSUME GrantInv, [Next]_vars, "stale" \notin circ' PROVE FreshOK'
    BY DEF FreshInv
  <1>0. circ' = circ
    BY DEF Next, CallStep, RefreshStep, RequestStep, StartCall, Succeed, Falter, Rejected, Exhausted,
           TakeLock, WinnerSeen, GiveUpWaiting, AskGoogle, RefreshFails, MarkRevoked, Persist,
           Agree, StoreGrant, BeginDisconnect, Revoke, Forget, Crash, Withdraw, ExpireLock, Tick, vars
  <1>1. CoreInv /\ NewOK /\ FreshOK /\ "stale" \notin circ /\ TypeOK
    BY <1>0 DEF GrantInv, NewInv, FreshInv, CoreInv
  <1>2. ASSUME NEW p \in Process, CallStep(p) \/ RefreshStep(p) \/ RequestStep(p) \/ Crash(p)
        PROVE  FreshOK'
    BY <1>1, <1>2, CallFresh, RefreshFresh, RequestFresh, CrashFresh
  <1>3. CASE Withdraw
    BY <1>1, <1>3, OutsideFresh DEF Withdraw, ghosts, TypeOK
  <1>4. CASE ExpireLock
    BY <1>1, <1>4, OutsideFresh DEF ExpireLock, ghosts, google
  <1>5. CASE Tick
    <2>1. \A q \in Process : snap'[q] \in {snap[q], None}
      BY <1>5 DEF Tick
    <2>2. UNCHANGED <<row, given, left, proc>> /\ dead \subseteq dead'
      BY <1>5 DEF Tick, ghosts, google
    <2>3. QED
      BY <1>1, <2>1, <2>2, OutsideFresh
  <1>6. CASE UNCHANGED vars
    BY <1>1, <1>6, OutsideFresh DEF vars, ghosts, google
  <1>7. QED
    BY <1>2, <1>3, <1>4, <1>5, <1>6 DEF Next
(***************************************************************************)
(* What was disconnected stays disconnected.                               *)
(***************************************************************************)

\* A step that brings no callback and no other consent to the row.
LEMMA NewKept ==
    ASSUME NewOK, SameConsent, given' = given, gone' = gone,
           \A q \in Process : proc'[q].kind = "callback" => proc'[q] = proc[q]
    PROVE  NewOK'
  BY DEF NewOK, SameConsent

\* ...in one process.
LEMMA NewKeptBy ==
    ASSUME TypeOK, NewOK, NEW p \in Process, Alone(p), SameConsent, given' = given, gone' = gone,
           proc'[p].kind # "callback"
    PROVE  NewOK'
  <1>1. \A q \in Process \ {p} : proc'[q] = proc[q]
    BY Written DEF Alone, TypeOK
  <1>2. QED
    BY <1>1, NewKept

LEMMA StepNew == GrantInv /\ [Next]_vars => NewInv'
  <1> SUFFICES ASSUME GrantInv, [Next]_vars, ~({"stale", "rotates"} \subseteq circ') PROVE NewOK'
    BY DEF NewInv
  <1>0. circ' = circ
    BY DEF Next, CallStep, RefreshStep, RequestStep, StartCall, Succeed, Falter, Rejected, Exhausted,
           TakeLock, WinnerSeen, GiveUpWaiting, AskGoogle, RefreshFails, MarkRevoked, Persist,
           Agree, StoreGrant, BeginDisconnect, Revoke, Forget, Crash, Withdraw, ExpireLock, Tick, vars
  <1>1. /\ CoreInv /\ NewOK /\ TypeOK
        /\ "stale" \notin circ => FreshOK
        /\ ~({"stale", "rotates"} \subseteq circ)
    BY <1>0 DEF GrantInv, NewInv, FreshInv, CoreInv
  <1>2. ASSUME NEW p \in Process, ProcessStep(p) PROVE NewOK'
    <2>1. Alone(p) /\ HandOK(p)
      BY <1>1, <1>2, WorksAlone DEF CoreInv
    <2>2. CASE CallStep(p)
      <3>1. proc'[p].kind # "callback"
        BY <1>1, <2>1, <2>2, StartCallDoes, SendingDoes, RejectedDoes DEF CallStep, Idle
      <3>2. row' = row /\ given' = given /\ gone' = gone
        BY <2>2 DEF CallStep, StartCall, Succeed, Falter, Rejected, Exhausted, ghosts, google
      <3>3. QED
        BY <1>1, <2>1, <3>1, <3>2, NewKeptBy DEF SameConsent
    <2>3. CASE RefreshStep(p)
      <3>1. proc'[p].kind # "callback"
        BY <1>1, <2>1, <2>3, LockingDoes, WinnerSeenDoes, AskGoogleDoes, GivenUpDoes, PersistDoes
        DEF RefreshStep, Idle
      <3>2. given' = given /\ gone' = gone
        BY <2>3 DEF RefreshStep, TakeLock, WinnerSeen, GiveUpWaiting, AskGoogle, RefreshFails,
                    MarkRevoked, Persist, ghosts, google
      <3>3. CASE \E b \in BOOLEAN : Persist(p, b)
        <4>1. PICK b \in BOOLEAN : Persist(p, b)
          BY <3>3
        <4>4. SameConsent
          <5>1. CASE "stale" \notin circ
            BY <1>1, <4>1, <5>1, PersistFresh
          <5>2. CASE "stale" \in circ
            <6>1. ~b
              BY <1>1, <4>1, <5>2 DEF Persist
            <6>2. QED
              BY <1>1, <2>1, <4>1, <6>1, PersistWrites DEF SameConsent
          <5>3. QED
            BY <5>1, <5>2
        <4>5. QED
          BY <1>1, <2>1, <3>1, <3>2, <4>4, NewKeptBy
      <3>4. CASE MarkRevoked(p)
        <4>1. SameConsent
          BY <1>1, <3>4, MarkWrites DEF SameConsent
        <4>2. QED
          BY <1>1, <2>1, <3>1, <3>2, <4>1, NewKeptBy
      <3>5. CASE row' = row
        BY <1>1, <2>1, <3>1, <3>2, <3>5, NewKeptBy DEF SameConsent
      <3>6. QED
        BY <2>3, <3>3, <3>4, <3>5 DEF RefreshStep, TakeLock, WinnerSeen, GiveUpWaiting, AskGoogle,
                                      RefreshFails
    <2>4. ASSUME NEW c \in Consent, Agree(p, c) PROVE NewOK'
      <3>1. /\ row' = row /\ gone' = gone /\ given' = given \cup {c} /\ c \notin given
            /\ proc'[p] = Exchanged(c)
        BY <1>1, <2>4, Puts DEF Agree, ghosts
      <3>2. \A q \in Process \ {p} : proc'[q] = proc[q]
        BY <1>1, <2>1, Written DEF Alone, TypeOK
      <3>3. proc'[p].kind = "callback" /\ proc'[p].consent = c
        BY <3>1 DEF Exchanged
      <3>4. /\ gone' \subseteq given'
            /\ row' # None => row'.consent \in given' \ gone'
        BY <1>1, <3>1 DEF NewOK
      <3>5. ASSUME NEW q \in Process, proc'[q].kind = "callback"
            PROVE  /\ proc'[q].consent \in given' \ gone'
                   /\ row' # None => row'.consent # proc'[q].consent
                   /\ q # p => proc'[q].consent # c
        BY <1>1, <3>1, <3>2, <3>3, <3>5 DEF NewOK
      <3>6. ASSUME NEW q \in Process, NEW r \in Process,
                   proc'[q].kind = "callback", proc'[r].kind = "callback",
                   proc'[q].consent = proc'[r].consent
            PROVE  q = r
        BY <1>1, <3>2, <3>3, <3>5, <3>6 DEF NewOK
      <3>7. QED
        BY <3>4, <3>5, <3>6 DEF NewOK
    <2>5. CASE StoreGrant(p)
      <3>1. /\ given' = given /\ gone' = gone /\ proc'[p] = Idle
            /\ row'.consent = proc[p].consent /\ proc[p].kind = "callback"
        BY <1>1, <2>5, Puts DEF StoreGrant, google
      <3>2. \A q \in Process \ {p} : proc'[q] = proc[q]
        BY <1>1, <2>1, Written DEF Alone, TypeOK
      <3>3. \A q \in Process : proc'[q].kind = "callback" => q # p /\ proc'[q] = proc[q]
        BY <3>1, <3>2 DEF Idle
      <3>4. QED
        BY <1>1, <3>1, <3>3 DEF NewOK
    <2>6. CASE Forget(p)
      <3>1. /\ given' = given /\ proc'[p] = Idle /\ row' = None
            /\ gone' = IF row = None THEN gone ELSE gone \cup {row.consent}
        BY <1>1, <2>6, Puts DEF Forget, google
      <3>2. \A q \in Process \ {p} : proc'[q] = proc[q]
        BY <1>1, <2>1, Written DEF Alone, TypeOK
      <3>3. \A q \in Process : proc'[q].kind = "callback" => q # p /\ proc'[q] = proc[q]
        BY <3>1, <3>2 DEF Idle
      <3>4. QED
        BY <1>1, <3>1, <3>3 DEF NewOK
    <2>7. CASE BeginDisconnect(p) \/ Revoke(p) \/ Crash(p)
      <3>1. proc'[p].kind # "callback"
        BY <1>1, <2>7, Puts DEF BeginDisconnect, Revoke, Crash, Idle
      <3>2. row' = row /\ given' = given /\ gone' = gone
        BY <2>7 DEF BeginDisconnect, Revoke, Crash, ghosts, google
      <3>3. QED
        BY <1>1, <2>1, <3>1, <3>2, NewKeptBy DEF SameConsent
    <2>8. QED
      BY <1>2, <2>2, <2>3, <2>4, <2>5, <2>6, <2>7 DEF ProcessStep, RequestStep
  <1>3. CASE UNCHANGED <<row, given, gone, proc>>
    BY <1>1, <1>3, NewKept DEF SameConsent
  <1>4. CASE Withdraw \/ ExpireLock \/ Tick \/ UNCHANGED vars
    BY <1>3, <1>4 DEF Withdraw, ExpireLock, Tick, vars, ghosts, google
  <1>5. QED
    BY <1>2, <1>4 DEF Next, ProcessStep

LEMMA InitGrant == Init => GrantInv
  <1> SUFFICES ASSUME Init PROVE GrantInv
    OBVIOUS
  <1>1. CoreInv
    BY InitCore
  <1>2. NewOK
    BY DEF Init, NewOK, Idle
  <1>3. FreshOK
    BY DEF Init, FreshOK, RowFresh, HandFresh, SnapFresh, Renewing, Idle
  <1>4. QED
    BY <1>1, <1>2, <1>3 DEF GrantInv, NewInv, FreshInv

LEMMA GrantAlways == Spec => []GrantInv
  <1>1. GrantInv /\ [Next]_vars => GrantInv'
    BY StepCore, StepNew, StepFresh DEF GrantInv
  <1>2. QED
    BY <1>1, InitGrant, PTL DEF Spec

\* The row tells the truth about the consent it holds: a connection is marked
\* dead only when Google refused that very consent, and a disconnected consent
\* does not come back (mark_revoked, _persist_refreshed), for any number of
\* processes and consents.
THEOREM RowIsItsConsents == Spec => []RowFollowsConsent
  <1>1. GrantInv => RowFollowsConsent
    BY DEF GrantInv, NewInv, NewOK, FreshInv, FreshOK, RowFresh, RowFollowsConsent
  <1>2. QED
    BY <1>1, GrantAlways, PTL

\* No call goes out with the token of a consent that had stopped being the live
\* connection for the lifetime of a snapshot when the call began (get_connection,
\* get_credentials, google_request).
THEOREM StaleNoLonger == Spec => []StaleForAMinute
  <1>1. GrantInv => StaleForAMinute
    BY DEF GrantInv, FreshInv, FreshOK, HandFresh, StaleForAMinute, InCall
  <1>2. QED
    BY <1>1, GrantAlways, PTL
=============================================================================
