------------------------------ MODULE SlotLedger ------------------------------
(***************************************************************************)
(* What booking promises the host: a booking holds one stretch of time or  *)
(* none, and no two of them hold overlapping stretches, ever.              *)
(***************************************************************************)
EXTENDS Integers

CONSTANTS
    Booking,    \* bookings of one host
    Slot,       \* the times a meeting may start
    Duration,   \* how long one lasts
    NoSlot      \* held by a booking that holds nothing

VARIABLE held   \* the start of what each booking holds

Overlap(s, t) == s < t + Duration /\ t < s + Duration

FreeFor(b, s) ==
    \A c \in Booking \ {b} : held[c] # NoSlot => ~Overlap(s, held[c])

Init == held = [b \in Booking |-> NoSlot]

Hold(b, s) == FreeFor(b, s) /\ held' = [held EXCEPT ![b] = s]

GiveUp(b) == held' = [held EXCEPT ![b] = NoSlot]

Next == \E b \in Booking : GiveUp(b) \/ \E s \in Slot : Hold(b, s)

Spec == Init /\ [][Next]_held
=============================================================================
