--------------------------- MODULE MCBookingForm ---------------------------
(* Small instances of BookingForm for TLC. *)
EXTENDS BookingForm
=============================================================================
