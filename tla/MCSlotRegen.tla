---------------------------- MODULE MCSlotRegen ----------------------------
(* Instances of SlotRegen for TLC. *)
EXTENDS SlotRegen, TLC

Span(start, end) == [start |-> start, end |-> end]

(* Days of two units: a window of one day with a break and one slot, a longer
   one with two slots and time off, and two inputs that are refused. *)
MCFirstInput ==
  [maxPerDay |-> 1, horizon |-> 1, hours |-> <<Span(0, 2)>>, breaks |-> <<Span(1, 2)>>, timeOff |-> <<>>]

MCInputs ==
  {MCFirstInput,
   [maxPerDay |-> 2, horizon |-> 2, hours |-> <<Span(1, 2), Span(0, 1)>>, breaks |-> <<>>, timeOff |-> <<Span(3, 4)>>],
   [maxPerDay |-> 2, horizon |-> 2, hours |-> <<Span(1, 2), Span(0, 2)>>, breaks |-> <<>>, timeOff |-> <<>>],
   [maxPerDay |-> 2, horizon |-> 2, hours |-> <<Span(0, 1)>>, breaks |-> <<Span(0, 2)>>, timeOff |-> <<>>]}

Short == [duration |-> 1, buffer |-> 0]
MCKinds == {Short, [duration |-> 2, buffer |-> 0]}
MCFirstKinds == {Short}

Symmetry == Permutations(Types) \cup Permutations(Procs)
=============================================================================
