----------------------------- MODULE MCBooking -----------------------------
(* Small instances of Booking for TLC. *)
EXTENDS Booking, TLC

\* Two pricing inputs with quotes of 10 and 20 (deposits 3 and 6).
MCQuote == [p \in Prices |-> 10 * p]

\* The unit of time is a thirtieth of an hour, so a tenth of an hour is 3:
\* 1 is stored as nothing, 2 is rounded up, 3 is stored as it is.
MCStored == [h \in Hours |-> 3 * ((2 * h + 3) \div 6)]

Symmetry == Permutations(Bookings) \cup Permutations(Requests)
=============================================================================
