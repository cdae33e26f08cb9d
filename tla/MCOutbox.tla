------------------------------ MODULE MCOutbox ------------------------------
(* Instances of Outbox for TLC. *)
EXTENDS Outbox, TLC

(* With a lead of 1, the reminder of a slot taken at hour 0 is due at hour 1,
   and a slot taken at hour 1 is too close for one. *)
MCStart == [s \in Slots |-> 2]

Symmetry == Permutations(Workers) \cup Permutations(Slots)
=============================================================================
