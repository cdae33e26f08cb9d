---------------------------- MODULE Availability ----------------------------
(***************************************************************************)
(* The availability rules of an organisation: what validateInput accepts,  *)
(* and the starts that they give to an interview type of some duration and *)
(* buffer.  The starts are those of the reference that SlotGenerate checks *)
(* Generate against, in a zone whose clock does not change and with        *)
(* working hours that are the same every day.                              *)
(***************************************************************************)
EXTENDS Integers, FiniteSets, Sequences

CONSTANTS
  DayLength,   \* units of time in a day
  MaxHorizon   \* maxBookingHorizon, in days

ASSUME AvailabilityAssumption ==
  /\ DayLength \in Nat \ {0}
  /\ MaxHorizon \in Nat \ {0}

Interval == [start : Int, end : Int]   \* localInterval and parsedTimeOff
Times == 0..(MaxHorizon * DayLength - 1)
Days == 0..(MaxHorizon - 1)
DayOf(s) == s \div DayLength

(* The operators named Mutant... are seeded faults, as in Booking. *)

MutantNeighboursOverlap(earlier, later) == later.start < earlier.start

NeighboursOverlap(earlier, later) == later.start < earlier.end

ByStart(a, b) == a.start < b.start

(* The i-th interval is sorted before the j-th.  sort.Slice may also put
   intervals that start together the other way round. *)
Precedes(intervals, i, j) ==
  \/ ByStart(intervals[i], intervals[j])
  \/ ~ByStart(intervals[j], intervals[i]) /\ i < j

Neighbours(intervals, i, j) ==
  /\ Precedes(intervals, i, j)
  /\ ~\E k \in DOMAIN intervals : Precedes(intervals, i, k) /\ Precedes(intervals, k, j)

(* hasOverlap: only neighbours are compared, in the order of their starts. *)
HasOverlap(intervals) ==
  \E i, j \in DOMAIN intervals :
    Neighbours(intervals, i, j) /\ NeighboursOverlap(intervals[i], intervals[j])

(* isSubset: within one of the intervals, not within their union. *)
IsSubset(block, hours) ==
  \E i \in DOMAIN hours : hours[i].start <= block.start /\ block.end <= hours[i].end

Reversed(iv) == iv.end <= iv.start

(* parseAndValidateHours *)
ValidHours(hours) == (\A i \in DOMAIN hours : ~Reversed(hours[i])) /\ ~HasOverlap(hours)

(* validateBreaks: breaks may overlap each other. *)
ValidBreaks(breaks, hours) ==
  \A i \in DOMAIN breaks : ~Reversed(breaks[i]) /\ IsSubset(breaks[i], hours)

(* parseAndValidateTimeOff *)
ValidTimeOff(timeOff) ==
  (\A i \in DOMAIN timeOff : ~Reversed(timeOff[i])) /\ ~HasOverlap(timeOff)

(* validateInput *)
ValidInput(in) ==
  /\ in.maxPerDay > 0
  /\ in.horizon \in 1..MaxHorizon
  /\ ValidHours(in.hours)
  /\ ValidBreaks(in.breaks, in.hours)
  /\ ValidTimeOff(in.timeOff)

-----------------------------------------------------------------------------
Within(m, blocks) == \E i \in DOMAIN blocks : blocks[i].start <= m /\ m < blocks[i].end

(* A unit of time from the midnight of day d that is open for interviews. *)
Open(week, d, m) ==
  /\ Within(m, week.hours)
  /\ ~Within(m, week.breaks)
  /\ ~Within(d * DayLength + m, week.timeOff)

(* The starts that the working interval h has room for, stride by stride from
   the beginning of each open stretch of it. *)
GridOf(kind, week, d, h) ==
  {m \in h.start..(h.end - kind.duration) :
     \E n \in 0..(m - h.start) \div (kind.duration + kind.buffer) :
       LET first == m - n * (kind.duration + kind.buffer) IN
       /\ first = h.start \/ ~Open(week, d, first - 1)
       /\ \A x \in first..(m + kind.duration - 1) : Open(week, d, x)}

(* All starts of the days of the booking window that the rules allow. *)
Grid(kind, week, horizon) ==
  {s \in Times :
     /\ DayOf(s) < horizon
     /\ \E i \in DOMAIN week.hours : s % DayLength \in GridOf(kind, week, DayOf(s), week.hours[i])}
=============================================================================
