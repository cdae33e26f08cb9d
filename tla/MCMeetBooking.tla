--------------------------- MODULE MCMeetBooking ---------------------------
(* Instances of MeetBooking for TLC. *)
EXTENDS MeetBooking, TLC

Symmetry == Permutations(Bookings)
=============================================================================
