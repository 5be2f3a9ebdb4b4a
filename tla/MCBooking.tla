------------------------------ MODULE MCBooking ------------------------------
(* A short day of two-tick meetings: starts that overlap, starts that leave no *)
(* buffer, and starts that leave one; an early day, a day off, a whole day.    *)
EXTENDS BookingPage, TLC

\* Requests that overlap while Google fails or the host edits the meeting type;
\* that die; that come one at a time.
EveryMisfortune == {{"overlap", "calendar"}, {"overlap", "type"}, {"crash", "redis"},
                    {"redis", "host", "view"}, {"redis", "hours"}, {"mail", "host", "view"}}

\* What of them Booking knows.
EveryBookingPart == {s \ PageFault : s \in EveryMisfortune}

EveryHours == {{}, {0, 3}, Slot}

Ids == Permutations(Bookings) \cup Permutations(Request)
=============================================================================
