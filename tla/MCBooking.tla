----------------------------- MODULE MCBooking -----------------------------
(* Instances of Booking for TLC. *)
EXTENDS Booking, TLC

CONSTANTS s1, s2, s3

(* With a cutoff of 1: s1 is past it at the start, s2 from hour 1 on and s3,
   far away, only at the end of the longest run. *)
MCStart == [s \in Slots |-> IF s = s1 THEN 1 ELSE IF s = s2 THEN 2 ELSE 3]

Symmetry == Permutations(Procs) \cup Permutations(Bookings)
=============================================================================
