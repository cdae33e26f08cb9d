---------------------------- MODULE SlotGenerate ----------------------------
(***************************************************************************)
(* Generate: the slots of one interview type from the availability rules,  *)
(* as the loop over days, free intervals and steps that computes them.     *)
(*                                                                         *)
(* Instants and durations are integers of one unit.  A zone is its offset  *)
(* from UTC, with at most one change of it; a day has DayLength units on   *)
(* the clock, whatever its length in time.                                 *)
(***************************************************************************)
EXTENDS Integers, FiniteSets, Sequences

CONSTANTS
  DayLength,  \* units from midnight to midnight on the clock
  Week,       \* days of a week
  Inputs      \* the GenerateParams a behaviour starts with

Intervals == {iv \in [start : 0..DayLength, end : 0..DayLength] : iv.start < iv.end}

(* A validated availability, the slots that the regeneration has kept (by
   their starts), and a validated interview type. *)
Params ==
  [now : Int, days : Nat \ {0}, zone : [before : Int, after : Int, at : Int],
   max : Nat \ {0}, hours : [0..Week-1 -> SUBSET Intervals],
   breaks : [0..Week-1 -> SUBSET Intervals], timeOff : SUBSET [start : Int, end : Int],
   kept : SUBSET Int, dur : Nat \ {0}, buf : Nat]

Apart(a, b) == a.end <= b.start \/ b.end <= a.start

ASSUME GenerateAssumption ==
  /\ DayLength \in Nat \ {0}
  /\ Week \in Nat \ {0}
  /\ Inputs \subseteq Params
  /\ \A p \in Inputs :
       /\ IsFiniteSet(p.kept)
       /\ \A o \in p.timeOff : o.start < o.end
       /\ \A w \in 0..Week-1 : \A a, b \in p.hours[w] : a = b \/ Apart(a, b)

VARIABLES
  p,      \* the parameters
  day,    \* the loop variable day, an instant
  free,   \* the free intervals of the day that are left, from its midnight
  cuts,   \* the breaks and days off that are still to be subtracted
  t,      \* the loop variable t
  today,  \* slotsToday
  out,    \* the candidates, each with the day it was made for
  pc

vars == <<p, day, free, cuts, t, today, out, pc>>

-----------------------------------------------------------------------------
(* time.Location and time.Date.  Date looks the clock time up as if it were
   UTC, and a second time if that turns out to be across the change. *)
Offset(u) == IF u < p.zone.at THEN p.zone.before ELSE p.zone.after
Clock(u) == u + Offset(u)
Date(c) == c - Offset(c - Offset(c))

StartOfDay(u) == Date(DayLength * (Clock(u) \div DayLength))
AddDays(u, n) == Date(Clock(u) + n * DayLength)
Weekday(u) == (Clock(u) \div DayLength) % Week

(* BookingWindow *)
WindowStart == IF p.now > StartOfDay(p.now) THEN p.now ELSE StartOfDay(p.now)
WindowEnd == AddDays(StartOfDay(p.now), p.days)

(* The operators named Mutant... are seeded faults, as in Booking. *)

MutantSubtractOne(base, cut) ==
  IF Apart(base, cut) THEN {base}
  ELSE {[start |-> base.start, end |-> cut.start], [start |-> cut.end, end |-> base.end]}

MutantUntested(base, cut) ==
  {iv \in {[start |-> base.start, end |-> cut.start],
           [start |-> cut.end, end |-> base.end]} : iv.start < iv.end}

(* subtractOne: what is left of an interval, before and after the cut. *)
SubtractOne(base, cut) ==
  IF Apart(base, cut) THEN {base}
  ELSE {iv \in {[start |-> base.start, end |-> cut.start],
                [start |-> cut.end, end |-> base.end]} : iv.start < iv.end}

(* The part of a time off that is on the day, from its midnight. *)
Overlap(o, dayStart) ==
  [start |-> IF o.start > dayStart THEN o.start - dayStart ELSE 0,
   end |-> IF o.end < dayStart + DayLength THEN o.end - dayStart ELSE DayLength]

MutantTimeOffIntervals(d) ==
  {iv \in {Overlap(o, StartOfDay(d)) : o \in {x \in p.timeOff : x.start >= StartOfDay(d)}} :
     iv.start < iv.end}

(* timeOffIntervalsForDay *)
TimeOffIntervals(d) ==
  {iv \in {Overlap(o, StartOfDay(d)) : o \in p.timeOff} : iv.start < iv.end}

MutantKeptOn(d) == 0

(* SlotsPerLocalDay: the slots of the type in the 24 hours from midnight. *)
KeptOn(d) ==
  Cardinality({k \in p.kept : StartOfDay(d) <= k /\ k < StartOfDay(d) + DayLength})

MutantStride == p.dur

(* step *)
Stride == p.dur + p.buf

Candidate(s) == WindowStart <= s /\ s < WindowEnd /\ s \notin p.kept

Earliest == CHOOSE iv \in free : \A other \in free : iv.start <= other.start

-----------------------------------------------------------------------------
Init ==
  /\ p \in Inputs
  /\ day = StartOfDay(WindowStart)
  /\ free = {}
  /\ cuts = {}
  /\ t = 0
  /\ today = 0
  /\ out = <<>>
  /\ pc = "day"

More == WindowStart < WindowEnd /\ day < WindowEnd

(* The head of the loop over the days. *)
BeginDay ==
  /\ pc = "day"
  /\ More
  /\ free' = p.hours[Weekday(day)]
  /\ cuts' = p.breaks[Weekday(day)] \cup TimeOffIntervals(day)
  /\ pc' = "cut"
  /\ UNCHANGED <<p, day, t, today, out>>

(* One round of subtractIntervals: the order of the cuts does not matter. *)
Subtract ==
  /\ pc = "cut"
  /\ \E c \in cuts :
       /\ free' = UNION {SubtractOne(iv, c) : iv \in free}
       /\ cuts' = cuts \ {c}
  /\ UNCHANGED <<p, day, t, today, out, pc>>

CountDay ==
  /\ pc = "cut"
  /\ cuts = {}
  /\ today' = KeptOn(day)
  /\ pc' = "interval"
  /\ UNCHANGED <<p, day, free, cuts, t, out>>

(* The head of the loop over the free intervals, which are in order. *)
BeginInterval ==
  /\ pc = "interval"
  /\ free # {}
  /\ t' = Earliest.start
  /\ pc' = "step"
  /\ UNCHANGED <<p, day, free, cuts, today, out>>

Fits == t + p.dur <= Earliest.end
StartAt == StartOfDay(day) + t

(* A slot that is outside the window or kept is passed over ... *)
Skip ==
  /\ pc = "step"
  /\ Fits
  /\ ~Candidate(StartAt)
  /\ t' = t + Stride
  /\ UNCHANGED <<p, day, free, cuts, today, out, pc>>

(* ... another is taken while the day has room. *)
Take ==
  /\ pc = "step"
  /\ Fits
  /\ Candidate(StartAt)
  /\ today < p.max
  /\ out' = Append(out, [start |-> StartAt, end |-> StartAt + p.dur, on |-> day])
  /\ today' = today + 1
  /\ t' = t + Stride
  /\ UNCHANGED <<p, day, free, cuts, pc>>

(* The end of an interval, or of the day when it is full. *)
EndInterval ==
  /\ pc = "step"
  /\ ~Fits \/ (Candidate(StartAt) /\ today >= p.max)
  /\ free' = IF today >= p.max THEN {} ELSE free \ {Earliest}
  /\ pc' = "interval"
  /\ UNCHANGED <<p, day, cuts, t, today, out>>

EndDay ==
  /\ pc = "interval"
  /\ free = {}
  /\ day' = AddDays(day, 1)
  /\ pc' = "day"
  /\ UNCHANGED <<p, free, cuts, t, today, out>>

Return ==
  /\ pc = "day"
  /\ ~More
  /\ pc' = "done"
  /\ UNCHANGED <<p, day, free, cuts, t, today, out>>

Next ==
  \/ BeginDay
  \/ Subtract
  \/ CountDay
  \/ BeginInterval
  \/ Skip
  \/ Take
  \/ EndInterval
  \/ EndDay
  \/ Return

Spec == Init /\ [][Next]_vars

-----------------------------------------------------------------------------
(* Every variable has its type: no interval that is left is empty. *)
TypeOK ==
  /\ p \in Params
  /\ day \in Int
  /\ free \subseteq Intervals
  /\ cuts \subseteq Intervals
  /\ t \in Nat
  /\ today \in Nat
  /\ out \in Seq([start : Int, end : Int, on : Int])
  /\ pc \in {"day", "cut", "interval", "step", "done"}

(* A span of a day, from its midnight, in which an interview may be. *)
Workable(d, iv) ==
  /\ \E h \in p.hours[Weekday(d)] : h.start <= iv.start /\ iv.end <= h.end
  /\ \A b \in p.breaks[Weekday(d)] : Apart(iv, b)
  /\ \A o \in p.timeOff :
       Apart([start |-> StartOfDay(d) + iv.start, end |-> StartOfDay(d) + iv.end], o)

Span(k, d) == [start |-> k.start - StartOfDay(d), end |-> k.end - StartOfDay(d)]

(* Whatever the zone, a candidate lies in the working hours of the day it was
   made for, meets no break and no time off, is in the booking window and
   takes no start that a kept slot has. *)
WithinRules ==
  \A i \in DOMAIN out :
    /\ Workable(out[i].on, Span(out[i], out[i].on))
    /\ Candidate(out[i].start)

Regular == p.zone.before = p.zone.after

(* In a zone whose clock does not change no two candidates overlap: within an
   interval, across breaks and across midnight. *)
SlotsDisjoint ==
  Regular => \A i, j \in DOMAIN out : i < j => out[i].end <= out[j].start

(* ... and the buffer is between two candidates of a day unless a break, time
   off or the end of working hours comes between them. *)
BufferKept ==
  Regular => \A i, j \in DOMAIN out :
    /\ i < j
    /\ out[i].on = out[j].on
    /\ Workable(out[i].on, [start |-> Span(out[i], out[i].on).start,
                            end |-> Span(out[j], out[i].on).end])
    => out[i].end + p.buf <= out[j].start

(* The candidates of a day by their definition: a minute is free if it is
   workable; from the first free minute of each run of them inside one
   working interval on, the slots that fit, one stride after the other; of
   those that are candidates the earliest that the day has room for. *)
FreeAt(d, m) == Workable(d, [start |-> m, end |-> m + 1])

GridOf(d, h) ==
  {m \in h.start..h.end - p.dur :
     \E n \in 0..(m - h.start) \div Stride :
       LET first == m - n * Stride IN
       /\ first = h.start \/ ~FreeAt(d, first - 1)
       /\ \A x \in first..m + p.dur - 1 : FreeAt(d, x)}

SameDay(u, v) == (u + p.zone.before) \div DayLength = (v + p.zone.before) \div DayLength

ReferenceOn(d) ==
  LET starts == {StartOfDay(d) + m : m \in UNION {GridOf(d, h) : h \in p.hours[Weekday(d)]}}
      wanted == {s \in starts : Candidate(s)}
  IN {s \in wanted : Cardinality({u \in wanted : u < s}) + Cardinality({k \in p.kept : SameDay(k, d)}) < p.max}

(* In such a zone the result is what the rules define, day for day. *)
MatchesReference ==
  pc = "done" /\ Regular =>
    {out[i].start : i \in DOMAIN out} =
      UNION {ReferenceOn(p.now + n * DayLength) : n \in 0..p.days - 1}

(* A candidate is in working hours by the recruiter's clock. *)
LocalWorkingHours ==
  \A i \in DOMAIN out :
    LET clock == Clock(out[i].start) % DayLength IN
    \E h \in p.hours[Weekday(out[i].start)] : h.start <= clock /\ clock + p.dur <= h.end
=============================================================================
