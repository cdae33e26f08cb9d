--------------------------- MODULE MCSlotGenerate ---------------------------
(* Instances of SlotGenerate for TLC: a day of 8 units, a week of 2 days. *)
EXTENDS SlotGenerate

iv(s, e) == [start |-> s, end |-> e]
Zone(before, after, at) == [before |-> before, after |-> after, at |-> at]

(* Day 0 of the week has one stretch of working hours with breaks in it, at
   its edges or over each other; day 1 two stretches that meet. *)
Hours == {<<{iv(0, 7)}, {iv(1, 4), iv(4, 7)}>>, <<{iv(1, 3), iv(4, 7)}, {}>>}
Breaks == {<<{}, {}>>, <<{iv(2, 3)}, {iv(1, 2), iv(3, 4)}>>,
           <<{iv(1, 3), iv(2, 3), iv(5, 7)}, {}>>}
OfWeek(s) == [w \in 0..1 |-> s[w + 1]]

Rules(zones) ==
  {[now |-> n, days |-> d, zone |-> z, max |-> m, hours |-> OfWeek(h),
    breaks |-> [w \in 0..1 |-> {b \in br[w + 1] : \E x \in h[w + 1] :
                                  x.start <= b.start /\ b.end <= x.end}],
    timeOff |-> o, kept |-> k, dur |-> du, buf |-> bu] :
   n \in {3, 8}, d \in {1, 3}, z \in zones, m \in {2, 9}, h \in Hours, br \in Breaks,
   o \in {{}, {iv(6, 10), iv(12, 13)}}, k \in {{}, {2, 5, 11}}, du \in {1, 2}, bu \in {0, 1}}

(* Zones on either side of UTC, and one that puts the clock forward. *)
MCInputs == Rules({Zone(0, 0, 0), Zone(-3, -3, 0), Zone(2, 3, 10)})

(* The clock is put forward, and put back, in working hours. *)
ChangingInputs == {q \in Rules({Zone(0, 1, 18), Zone(1, 0, 18)}) : q.hours[1] = {}}
=============================================================================
