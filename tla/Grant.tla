-------------------------------- MODULE Grant --------------------------------
(***************************************************************************)
(* One user's Google grant: the row of google_connections, the processes   *)
(* that read it through a cache of their own, call Google with its access  *)
(* token and refresh that token under a Redis lock, and the requests that  *)
(* connect and disconnect the account.                                     *)
(*                                                                         *)
(* A consent stands for the refresh token it yields.  An access token is   *)
(* the consent it was minted from and the time it expires.  The scopes are *)
(* left out: a call that lacks one fails without touching any state.       *)
(***************************************************************************)
EXTENDS Integers

CONSTANTS
    Process,        \* Celery workers and API processes
    Consent,        \* the consents the user gives, at most
    None,
    TTL,            \* ticks a snapshot is served for (_SNAPSHOT_TTL)
    Life,           \* ticks an access token lives
    Margin,         \* ticks it counts as expired before it is (_EXPIRY_MARGIN)
    MaxAttempts,    \* MAX_ATTEMPTS
    Horizon,        \* the last tick
    Scenarios       \* sets of circumstances, one of which a behaviour meets

ASSUME GrantAssumption ==
    /\ None \notin Consent
    /\ TTL \in Nat \ {0} /\ Life \in Nat /\ Margin \in Nat /\ Horizon \in Nat
    /\ MaxAttempts \in Nat \ {0}
    /\ Scenarios \subseteq
          SUBSET {"revoke", "disconnect", "stale", "rotates", "services", "crash"}

VARIABLES
    circ,       \* what this behaviour may meet
    clock,
    row,        \* the row of google_connections, or None
    dead,       \* consents whose tokens Google refuses
    given,      \* consents given so far
    lock,       \* the Redis key lock:gcred
    snap,       \* each process's cached snapshot of the row
    proc,       \* what each process is in the middle of
    sent,       \* effects at Google of each process's last unrepeatable call
    left,       \* when each consent last stopped being the live connection
    gone        \* consents that were disconnected

google == <<dead, given>>
ghosts == <<sent, left, gone>>
vars   == <<circ, clock, row, google, lock, snap, proc, ghosts>>

Time == 0..Horizon
Row  == [consent: Consent, access: Consent \cup {None}, expiry: 0..(Horizon + Life),
         revoked: BOOLEAN]

Idle == [kind |-> "idle"]

\* A snapshot of the row, and what a call carries through its attempts and the
\* refresh in the middle of it.
Snapshot == [at: Time, state: Row \cup {None}]
Call == [kind: {"call", "refresh", "minted", "refused"},
         token: Consent \cup {None}, expiry: 0..(Horizon + Life),
         attempt: 1..(MaxAttempts + 1), refreshed: BOOLEAN, repeatable: BOOLEAN,
         began: Time, state: Row \cup {None}, force: BOOLEAN,
         locked: {"no", "held", "awaited", "without"}]
Activity == {Idle} \cup Call \cup [kind: {"callback"}, consent: Consent]
                  \cup [kind: {"revoke", "forget"}]

TypeOK ==
    /\ circ \in Scenarios /\ clock \in Time
    /\ row \in Row \cup {None}
    /\ dead \subseteq given /\ given \subseteq Consent
    /\ lock \in BOOLEAN
    /\ snap \in [Process -> Snapshot \cup {None}]
    /\ proc \in [Process -> Activity]
    /\ sent \in [Process -> Nat]
    /\ left \in [Consent -> Time]
    /\ gone \subseteq Consent

\* The user has not connected; nothing is cached.
Init ==
    /\ circ \in Scenarios /\ clock = 0
    /\ row = None /\ dead = {} /\ given = {} /\ lock = FALSE
    /\ snap = [p \in Process |-> None]
    /\ proc = [p \in Process |-> Idle]
    /\ sent = [p \in Process |-> 0]
    /\ left = [c \in Consent |-> Horizon] /\ gone = {}

Becomes(p, r) == proc' = [proc EXCEPT ![p] = r]

\* The connection the row held is over, for the record.
Leaves == left' = IF row = None \/ row.revoked THEN left
                  ELSE [left EXCEPT ![row.consent] = clock]

(***************************************************************************)
(* Reading the row.                                                        *)
(***************************************************************************)

\* A mutant: every read served from the cache keeps the snapshot alive.
Cached_Sliding(p) ==
    IF snap[p] # None /\ clock - snap[p].at < TTL
    THEN [at |-> clock, state |-> snap[p].state] ELSE [at |-> clock, state |-> row]

\* get_connection: the snapshot, or the row and a snapshot of it.  The code
\* stamps the snapshot once the row has been read; here the two are one instant,
\* so a read that is slow adds its own length to the snapshot's life.
Cached(p) ==
    IF snap[p] # None /\ clock - snap[p].at < TTL THEN snap[p]
    ELSE [at |-> clock, state |-> row]

Fresh == [at |-> clock, state |-> row]

Usable(s) == s # None /\ ~s.revoked

\* ConnectionState.token_is_live
IsLive(s) == s.access # None /\ s.expiry > clock + Margin

(***************************************************************************)
(* A call (google_request).                                                *)
(***************************************************************************)

Calling(c, access, expiry) ==
    [c EXCEPT !.kind = "call", !.token = access, !.expiry = expiry,
              !.state = None, !.force = FALSE, !.locked = "no"]

Refreshing(c, s, force) ==
    [c EXCEPT !.kind = "refresh", !.token = None, !.expiry = 0, !.state = s, !.force = force]

\* get_credentials: no connection or a dead one raises; a token that is about
\* to expire is refreshed first.
StartCall(p, repeatable) ==
    LET s == Cached(p).state
        c == [kind |-> "call", token |-> None, expiry |-> 0, attempt |-> 1,
              refreshed |-> FALSE, repeatable |-> repeatable, began |-> clock,
              state |-> None, force |-> FALSE, locked |-> "no"]
    IN  /\ proc[p] = Idle
        /\ snap' = [snap EXCEPT ![p] = Cached(p)]
        /\ IF Usable(s)
           THEN /\ Becomes(p, IF IsLive(s) THEN Calling(c, s.access, s.expiry)
                                           ELSE Refreshing(c, s, FALSE))
                /\ sent' = [sent EXCEPT ![p] = 0]
           ELSE UNCHANGED <<proc, sent>>
        /\ UNCHANGED <<circ, clock, row, google, lock, left, gone>>

InCall(p) == proc[p].kind = "call"

Sending(p) == InCall(p) /\ proc[p].attempt <= MaxAttempts

\* Google takes a token that has not expired, of a consent that stands.
Accepted(p) == proc[p].token \notin dead /\ proc[p].expiry > clock

Effect(p) == sent' = IF proc[p].repeatable THEN sent ELSE [sent EXCEPT ![p] = @ + 1]

Succeed(p) ==
    /\ Sending(p) /\ Accepted(p)
    /\ Effect(p)
    /\ Becomes(p, Idle)
    /\ UNCHANGED <<circ, clock, row, google, lock, snap, left, gone>>

\* A mutant: whatever may be transient is tried again.
TriesAgain_Any(p) == proc[p].attempt < MaxAttempts

\* What creates something the user can see is not sent twice.
TriesAgain(p) == proc[p].repeatable /\ proc[p].attempt < MaxAttempts

\* A timeout, which often means that the call was served, a lost connection,
\* a 5xx or a rate limit.
Falter(p) ==
    /\ Sending(p) /\ "services" \in circ
    /\ (Accepted(p) /\ Effect(p)) \/ UNCHANGED sent
    /\ Becomes(p, IF TriesAgain(p) THEN [proc[p] EXCEPT !.attempt = @ + 1] ELSE Idle)
    /\ UNCHANGED <<circ, clock, row, google, lock, snap, left, gone>>

\* A 401: once per call, the row is read afresh and its token replaced, live
\* or not (force_refresh).
Rejected(p) ==
    /\ Sending(p) /\ ~Accepted(p)
    /\ IF proc[p].refreshed THEN Becomes(p, Idle) /\ UNCHANGED snap
       ELSE /\ snap' = [snap EXCEPT ![p] = Fresh]
            /\ Becomes(p, IF Usable(row)
                          THEN Refreshing([proc[p] EXCEPT !.refreshed = TRUE, !.attempt = @ + 1],
                                          row, TRUE)
                          ELSE Idle)
    /\ UNCHANGED <<circ, clock, row, google, lock, ghosts>>

\* The call that lost its token on its last attempt has none left.
Exhausted(p) ==
    /\ InCall(p) /\ proc[p].attempt > MaxAttempts
    /\ Becomes(p, Idle)
    /\ UNCHANGED <<circ, clock, row, google, lock, snap, ghosts>>

(***************************************************************************)
(* The refresh.                                                            *)
(***************************************************************************)

InRefresh(p, locked) == proc[p].kind = "refresh" /\ proc[p].locked = locked

\* SET NX; whoever loses, or cannot reach Redis, waits for the winner.
TakeLock(p) ==
    /\ InRefresh(p, "no")
    /\ \/ ~lock /\ lock' = TRUE /\ Becomes(p, [proc[p] EXCEPT !.locked = "held"])
       \/ /\ lock \/ "services" \in circ
          /\ Becomes(p, [proc[p] EXCEPT !.locked = "awaited"]) /\ UNCHANGED lock
    /\ UNCHANGED <<circ, clock, row, google, snap, ghosts>>

\* _await_refresh finds a token another process wrote...
WinnerSeen(p) ==
    /\ InRefresh(p, "awaited")
    /\ Usable(row) /\ IsLive(row)
    /\ proc[p].force => row.expiry # proc[p].state.expiry
    /\ snap' = [snap EXCEPT ![p] = Fresh]
    /\ Becomes(p, Calling(proc[p], row.access, row.expiry))
    /\ UNCHANGED <<circ, clock, row, google, lock, ghosts>>

\* ...or sees the connection go, or loses patience: it refreshes anyway, with
\* the refresh token it set out with.
GiveUpWaiting(p) ==
    /\ InRefresh(p, "awaited")
    /\ snap' = [snap EXCEPT ![p] = Fresh]
    /\ Becomes(p, [proc[p] EXCEPT !.locked = "without"])
    /\ UNCHANGED <<circ, clock, row, google, lock, ghosts>>

Asking(p) == InRefresh(p, "held") \/ InRefresh(p, "without")

\* The finally deletes the key, whoever holds it by now.
Unlock(p) ==
    \/ lock' = (lock /\ proc[p].locked # "held")
    \/ "services" \in circ /\ UNCHANGED lock

\* refresh_access_token: a new token, or invalid_grant.
AskGoogle(p) ==
    /\ Asking(p)
    /\ Becomes(p, IF proc[p].state.consent \in dead THEN [proc[p] EXCEPT !.kind = "refused"]
                  ELSE [proc[p] EXCEPT !.kind = "minted", !.token = proc[p].state.consent,
                                       !.expiry = clock + Life])
    /\ UNCHANGED <<circ, clock, row, google, lock, snap, ghosts>>

\* A mutant: any failed refresh counts as a refusal.
RefreshFails_Refused(p) ==
    /\ Asking(p) /\ "services" \in circ
    /\ Becomes(p, [proc[p] EXCEPT !.kind = "refused"])
    /\ UNCHANGED <<circ, clock, row, google, lock, snap, ghosts>>

\* Any other answer fails the call and says nothing of the grant.
RefreshFails(p) ==
    /\ Asking(p) /\ "services" \in circ
    /\ Unlock(p)
    /\ Becomes(p, Idle)
    /\ UNCHANGED <<circ, clock, row, google, snap, ghosts>>

\* _persist_refreshed: a token that expires later is not overwritten; a
\* rotated refresh token is written whatever the row holds by now.
Persist(p, rotated) ==
    /\ proc[p].kind = "minted" /\ (rotated => "rotates" \in circ)
    /\ row' = IF row = None THEN None
              ELSE [row EXCEPT
                      !.access  = IF row.expiry < proc[p].expiry THEN proc[p].token ELSE @,
                      !.expiry  = IF row.expiry < proc[p].expiry THEN proc[p].expiry ELSE @,
                      !.consent = IF rotated THEN proc[p].token ELSE @]
    /\ snap' = [snap EXCEPT ![p] = None]
    /\ Unlock(p)
    /\ Becomes(p, Calling(proc[p], proc[p].token, proc[p].expiry))
    /\ UNCHANGED <<circ, clock, google, ghosts>>

\* mark_revoked: the user's row is marked, whichever consent it holds.  A
\* write that fails is swallowed.
MarkRevoked(p) ==
    /\ proc[p].kind = "refused"
    /\ \/ /\ row' = IF row = None THEN None
                    ELSE [row EXCEPT !.revoked = TRUE, !.access = None]
          /\ Leaves
       \/ "services" \in circ /\ UNCHANGED <<row, left>>
    /\ snap' = [snap EXCEPT ![p] = None]
    /\ Unlock(p)
    /\ Becomes(p, Idle)
    /\ UNCHANGED <<circ, clock, google, sent, gone>>

\* The 30 s TTL: the process that held the lock died, or is slow.
ExpireLock ==
    /\ lock /\ lock' = FALSE
    /\ "stale" \in circ \/ \A p \in Process : ~InRefresh(p, "held")
    /\ UNCHANGED <<circ, clock, row, google, snap, proc, ghosts>>

(***************************************************************************)
(* Connecting and disconnecting.                                           *)
(***************************************************************************)

\* exchange_code: the code buys the tokens of one consent.
Exchanged(c) == [kind |-> "callback", consent |-> c]

\* The user consents, and the browser arrives at google_callback.
Agree(p, c) ==
    /\ proc[p] = Idle /\ c \in Consent \ given
    /\ given' = given \cup {c}
    /\ Becomes(p, Exchanged(c))
    /\ UNCHANGED <<circ, clock, row, dead, lock, snap, ghosts>>

\* No process is refreshing or remembers an earlier consent.
NothingInHand ==
    \A q \in Process :
        /\ proc[q].kind \notin {"refresh", "minted", "refused"}
        /\ snap[q] # None => ~Usable(snap[q].state)

\* store_grant creates or replaces the row and clears the mark.
StoreGrant(p) ==
    /\ proc[p].kind = "callback" /\ ("stale" \in circ \/ NothingInHand)
    /\ row' = [consent |-> proc[p].consent, access |-> proc[p].consent,
               expiry |-> clock + Life, revoked |-> FALSE]
    /\ Leaves
    /\ snap' = [snap EXCEPT ![p] = None]
    /\ Becomes(p, Idle)
    /\ UNCHANGED <<circ, clock, google, lock, sent, gone>>

\* google_disconnect reads the connection, through the cache as everyone...
BeginDisconnect(p) ==
    /\ proc[p] = Idle /\ "disconnect" \in circ
    /\ snap' = [snap EXCEPT ![p] = Cached(p)]
    /\ Becomes(p, IF Cached(p).state = None THEN Idle ELSE [kind |-> "revoke"])
    /\ UNCHANGED <<circ, clock, row, google, lock, ghosts>>

\* ...asks Google to invalidate it, as best it can: the account's consents go
\* together...
Revoke(p) ==
    /\ proc[p].kind = "revoke"
    /\ dead' = given \/ ("services" \in circ /\ dead' = dead)
    /\ Becomes(p, [kind |-> "forget"])
    /\ UNCHANGED <<circ, clock, row, given, lock, snap, ghosts>>

\* ...and deletes the row (credentials.disconnect).
Forget(p) ==
    /\ proc[p].kind = "forget"
    /\ row' = None
    /\ gone' = IF row = None THEN gone ELSE gone \cup {row.consent}
    /\ Leaves
    /\ snap' = [snap EXCEPT ![p] = None]
    /\ Becomes(p, Idle)
    /\ UNCHANGED <<circ, clock, google, lock, sent>>

\* The user takes the consent back in the Google account, or Google does.
Withdraw ==
    /\ "revoke" \in circ /\ dead # given
    /\ dead' = given
    /\ UNCHANGED <<circ, clock, row, given, lock, snap, proc, ghosts>>

\* A process dies or a request fails half-way; a lock it holds stays.
Crash(p) ==
    /\ "crash" \in circ /\ proc[p] # Idle
    /\ Becomes(p, Idle)
    /\ snap' = [snap EXCEPT ![p] = None]
    /\ UNCHANGED <<circ, clock, row, google, lock, ghosts>>

\* A snapshot that has expired is as good as none.
Tick ==
    /\ clock < Horizon
    /\ clock' = clock + 1
    /\ snap' = [p \in Process |-> IF snap[p] # None /\ clock' - snap[p].at < TTL
                                  THEN snap[p] ELSE None]
    /\ UNCHANGED <<circ, row, google, lock, proc, ghosts>>

CallStep(p) ==
    \/ \E repeatable \in BOOLEAN : StartCall(p, repeatable)
    \/ Succeed(p) \/ Falter(p) \/ Rejected(p) \/ Exhausted(p)

RefreshStep(p) ==
    \/ TakeLock(p) \/ WinnerSeen(p) \/ GiveUpWaiting(p)
    \/ AskGoogle(p) \/ RefreshFails(p) \/ MarkRevoked(p)
    \/ \E rotated \in BOOLEAN : Persist(p, rotated)

RequestStep(p) ==
    \/ \E c \in Consent : Agree(p, c)
    \/ StoreGrant(p) \/ BeginDisconnect(p) \/ Revoke(p) \/ Forget(p)

Next ==
    \/ \E p \in Process : CallStep(p) \/ RefreshStep(p) \/ RequestStep(p) \/ Crash(p)
    \/ Withdraw \/ ExpireLock \/ Tick

Spec == Init /\ [][Next]_vars

(***************************************************************************)
(* Properties.                                                             *)
(***************************************************************************)

\* A connection is marked dead only when Google refused that very consent
\* (mark_revoked), unless it was stored while a process still held an earlier
\* one; and what the user disconnected does not come back with a refresh that
\* was in flight (_persist_refreshed), unless Google rotates refresh tokens.
RowFollowsConsent ==
    row # None =>
        /\ "stale" \notin circ /\ row.revoked => row.consent \in dead
        /\ ~({"stale", "rotates"} \subseteq circ) => row.consent \notin gone

\* "A revocation ... takes effect within a minute" (credentials.py:47): a call
\* uses no token of a consent that had stopped being the live connection for
\* the lifetime of a snapshot when the call began, whichever process it runs in
\* and whatever it waited for.  A refresh that is in flight when the user
\* consents anew may put the earlier consent's token back.
StaleForAMinute ==
    "stale" \notin circ =>
        \A p \in Process : InCall(p) => proc[p].began - left[proc[p].token] < TTL

\* "An occasional lost send is recoverable, a duplicate one is not"
\* (google_request): a call that must not be repeated takes effect once at
\* most, through timeouts, errors and tokens that expire under it.
SentAtMostOnce == \A p \in Process : sent[p] <= 1
=============================================================================
