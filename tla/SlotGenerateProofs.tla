------------------------- MODULE SlotGenerateProofs -------------------------
(***************************************************************************)
(* The type invariant of SlotGenerate and that every candidate keeps to    *)
(* the availability rules, for all inputs, zones that change included; in  *)
(* a zone whose clock does not change, that the candidates are disjoint,   *)
(* keep the buffer and are what the definition of the slots gives.         *)
(***************************************************************************)
EXTENDS SlotGenerate, WellFoundedInduction, FiniteSetTheorems, TLAPS

(* Division by a positive length. *)
LEMMA DivMod ==
  ASSUME NEW n \in Int, NEW m \in Nat \ {0}
  PROVE  n \div m \in Int /\ n % m \in 0..m-1
  BY SMT

(* Clocks and calendars of a zone are integers. *)
LEMMA ClockType == ASSUME p \in Params, NEW u \in Int PROVE Clock(u) \in Int
  BY SMT DEF Params, Clock, Offset

LEMMA DateType == ASSUME p \in Params, NEW c \in Int PROVE Date(c) \in Int
  BY SMT DEF Params, Date, Offset

LEMMA StartOfDayType == ASSUME p \in Params, NEW u \in Int PROVE StartOfDay(u) \in Int
  <1>1. Clock(u) \div DayLength \in Int
    BY ClockType, DivMod, GenerateAssumption
  <1>2. DayLength * (Clock(u) \div DayLength) \in Int
    BY <1>1, GenerateAssumption
  <1> QED BY <1>2, DateType DEF StartOfDay

LEMMA AddDaysType ==
  ASSUME p \in Params, NEW u \in Int, NEW n \in Int PROVE AddDays(u, n) \in Int
  <1>1. n * DayLength \in Int
    BY GenerateAssumption
  <1> QED BY <1>1, ClockType, DateType DEF AddDays

LEMMA WeekdayType ==
  ASSUME p \in Params, NEW u \in Int PROVE Weekday(u) \in 0..Week-1
  BY ClockType, DivMod, GenerateAssumption DEF Weekday

LEMMA WindowType == ASSUME p \in Params PROVE WindowStart \in Int
  BY StartOfDayType DEF WindowStart, Params

-----------------------------------------------------------------------------
(* A set of free intervals that is not empty has an earliest one. *)
LEMMA EarliestIn ==
  ASSUME free \subseteq Intervals, free # {}
  PROVE  Earliest \in free /\ \A other \in free : Earliest.start <= other.start
  <1> DEFINE T == {iv.start : iv \in free}
  <1>1. T \subseteq Nat /\ T # {}
    BY GenerateAssumption DEF Intervals
  <1>2. PICK x \in T : \A y \in T : <<y, x>> \notin OpToRel(<, Nat)
    BY <1>1, NatLessThanWellFounded, WFMin
  <1>3. \A y \in T : ~(y < x)
    BY <1>1, <1>2, Zenon DEF OpToRel
  <1>4. \E iv \in free : \A other \in free : iv.start <= other.start
    <2>1. PICK iv \in free : iv.start = x
      OBVIOUS
    <2>2. ASSUME NEW other \in free PROVE iv.start <= other.start
      <3>1. other.start \in T
        OBVIOUS
      <3>2. other.start \in Nat /\ x \in Nat /\ ~(other.start < x)
        BY <1>1, <1>3, <3>1
      <3> QED BY <2>1, <3>2
    <2> QED BY <2>2
  <1> QED BY <1>4 DEF Earliest

(* The parameters are one of the inputs, and every variable has its type. *)
TInv == p \in Inputs /\ TypeOK

LEMMA CutsType ==
  ASSUME TInv, NEW d \in Int
  PROVE  /\ p.hours[Weekday(d)] \subseteq Intervals
         /\ p.breaks[Weekday(d)] \subseteq Intervals
         /\ TimeOffIntervals(d) \subseteq Intervals
  <1> USE DEF TInv, TypeOK
  <1>1. p.hours[Weekday(d)] \subseteq Intervals /\ p.breaks[Weekday(d)] \subseteq Intervals
    BY WeekdayType DEF Params
  <1>2. ASSUME NEW o \in p.timeOff, Overlap(o, StartOfDay(d)).start < Overlap(o, StartOfDay(d)).end
        PROVE  Overlap(o, StartOfDay(d)) \in Intervals
    <2>1. StartOfDay(d) \in Int /\ o \in [start : Int, end : Int] /\ DayLength \in Nat
      BY StartOfDayType, GenerateAssumption DEF Params
    <2> QED BY <1>2, <2>1 DEF Overlap, Intervals
  <1> QED BY <1>1, <1>2 DEF TimeOffIntervals

(* What subtractOne leaves is part of the interval and apart from the cut. *)
LEMMA SubtractOneCorrect ==
  ASSUME NEW base \in Intervals, NEW c \in Intervals, NEW iv \in SubtractOne(base, c)
  PROVE  /\ iv \in Intervals
         /\ base.start <= iv.start /\ iv.end <= base.end
         /\ Apart(iv, c)
  BY GenerateAssumption DEF SubtractOne, Intervals, Apart

LEMMA TypeInit == Init => TInv
  <1> SUFFICES ASSUME Init PROVE TInv
    OBVIOUS
  <1>1. p \in Params
    BY GenerateAssumption DEF Init
  <1>2. day \in Int
    BY <1>1, WindowType, StartOfDayType DEF Init
  <1> QED BY <1>1, <1>2 DEF Init, TInv, TypeOK

LEMMA TypeStep == TInv /\ [Next]_vars => TInv'
  <1> SUFFICES ASSUME TInv, [Next]_vars PROVE TInv'
    OBVIOUS
  <1> USE DEF TInv, TypeOK
  <1>0. /\ StartOfDay(day) \in Int
        /\ p.dur \in Nat \ {0}
        /\ Stride \in Nat \ {0}
    <2>1. p.dur \in Nat \ {0} /\ p.buf \in Nat
      BY DEF Params
    <2>2. StartOfDay(day) \in Int
      BY StartOfDayType
    <2> QED BY <2>1, <2>2 DEF Stride
  <1>1. CASE BeginDay
    BY <1>1, CutsType DEF BeginDay
  <1>2. CASE Subtract
    <2>1. PICK c \in cuts : /\ free' = UNION {SubtractOne(iv, c) : iv \in free}
                            /\ cuts' = cuts \ {c}
      BY <1>2 DEF Subtract
    <2>2. free' \subseteq Intervals
      BY <2>1, SubtractOneCorrect
    <2> QED BY <1>2, <2>1, <2>2 DEF Subtract
  <1>3. CASE CountDay
    <2>1. KeptOn(day) \in Nat
      <3> DEFINE K == {k \in p.kept : StartOfDay(day) <= k /\ k < StartOfDay(day) + DayLength}
      <3>1. IsFiniteSet(K)
        BY GenerateAssumption, FS_Subset
      <3> QED BY <3>1, FS_CardinalityType DEF KeptOn
    <2> QED BY <1>3, <2>1 DEF CountDay
  <1>4. CASE BeginInterval
    <2>1. Earliest \in Intervals
      BY <1>4, EarliestIn DEF BeginInterval
    <2> QED BY <1>4, <2>1, GenerateAssumption DEF BeginInterval, Intervals
  <1>5. CASE Skip
    BY <1>0, <1>5 DEF Skip
  <1>6. CASE Take
    BY <1>0, <1>6 DEF Take, StartAt
  <1>7. CASE EndInterval
    BY <1>7 DEF EndInterval
  <1>8. CASE EndDay
    BY <1>8, AddDaysType DEF EndDay
  <1>9. CASE Return
    BY <1>9 DEF Return
  <1>10. CASE UNCHANGED vars
    BY <1>10 DEF vars
  <1> QED BY <1>1, <1>2, <1>3, <1>4, <1>5, <1>6, <1>7, <1>8, <1>9, <1>10 DEF Next

(* Every variable of SlotGenerate keeps its type, whatever the inputs: the
   intervals that subtractOne leaves are never empty or reversed. *)
THEOREM TypeCorrect == Spec => []TypeOK
  <1>1. TInv => TypeOK
    BY DEF TInv
  <1> QED BY <1>1, TypeInit, TypeStep, PTL DEF Spec

-----------------------------------------------------------------------------
(* What has been subtracted so far: the free intervals are in the working
   hours of the day and apart from every cut that has been made. *)
AllCuts(d) == p.breaks[Weekday(d)] \cup TimeOffIntervals(d)
InHours(d, iv) == \E h \in p.hours[Weekday(d)] : h.start <= iv.start /\ iv.end <= h.end

FreeInv ==
  /\ pc = "cut" => cuts \subseteq AllCuts(day)
  /\ pc \in {"interval", "step"} => cuts = {}
  /\ pc \in {"cut", "interval", "step"} =>
       \A iv \in free : InHours(day, iv) /\ \A c \in AllCuts(day) \ cuts : Apart(iv, c)
  /\ pc = "step" => free # {} /\ Earliest.start <= t

RInv == TInv /\ FreeInv /\ WithinRules

(* A span apart from every cut of a day is apart from every time off. *)
LEMMA TimeOffComplete ==
  ASSUME TInv, NEW d \in Int, NEW iv \in Intervals, NEW o \in p.timeOff,
         \A c \in TimeOffIntervals(d) : Apart(iv, c)
  PROVE  Apart([start |-> StartOfDay(d) + iv.start, end |-> StartOfDay(d) + iv.end], o)
  <1> USE DEF TInv, TypeOK
  <1> DEFINE c == Overlap(o, StartOfDay(d))
  <1>1. /\ StartOfDay(d) \in Int /\ DayLength \in Nat
        /\ o.start \in Int /\ o.end \in Int /\ o.start < o.end
        /\ iv.start \in 0..DayLength /\ iv.end \in 0..DayLength /\ iv.start < iv.end
    BY StartOfDayType, GenerateAssumption DEF Params, Intervals
  <1>2. c.start < c.end => Apart(iv, c)
    BY DEF TimeOffIntervals
  <1> QED BY <1>1, <1>2 DEF Overlap, Apart

(* A candidate inside a free interval is workable. *)
LEMMA FreeIsWorkable ==
  ASSUME TInv, NEW d \in Int, NEW iv \in Intervals, NEW span \in Intervals,
         iv.start <= span.start, span.end <= iv.end,
         InHours(d, iv), \A c \in AllCuts(d) : Apart(iv, c)
  PROVE  Workable(d, span)
  <1> USE DEF TInv, TypeOK
  <1>1. /\ iv.start \in Int /\ iv.end \in Int /\ span.start \in Int /\ span.end \in Int
    BY GenerateAssumption DEF Intervals
  <1>2. ASSUME NEW c \in AllCuts(d) PROVE Apart(span, c)
    <2>1. c \in Intervals
      BY CutsType DEF AllCuts
    <2>2. Apart(iv, c) /\ c.start \in Int /\ c.end \in Int
      BY <2>1, GenerateAssumption DEF Intervals
    <2> QED BY <1>1, <2>2 DEF Apart
  <1>3. ASSUME NEW o \in p.timeOff
        PROVE  Apart([start |-> StartOfDay(d) + span.start, end |-> StartOfDay(d) + span.end], o)
    BY <1>2, TimeOffComplete DEF AllCuts
  <1>4. \E h \in p.hours[Weekday(d)] : h.start <= span.start /\ span.end <= h.end
    <2>1. PICK h \in p.hours[Weekday(d)] : h.start <= iv.start /\ iv.end <= h.end
      BY DEF InHours
    <2>2. h \in Intervals
      BY <2>1, CutsType
    <2>3. h.start \in Int /\ h.end \in Int
      BY <2>2, GenerateAssumption DEF Intervals
    <2>4. h.start <= span.start /\ span.end <= h.end
      BY <1>1, <2>1, <2>3
    <2> QED BY <2>1, <2>4
  <1> QED BY <1>2, <1>3, <1>4 DEF Workable, AllCuts

(* What holds of an interval holds of its parts. *)
LEMMA ApartWithin ==
  ASSUME NEW base \in Intervals, NEW iv \in Intervals, NEW c \in Intervals,
         base.start <= iv.start, iv.end <= base.end, Apart(base, c)
  PROVE  Apart(iv, c)
  BY GenerateAssumption DEF Intervals, Apart

LEMMA InHoursWithin ==
  ASSUME TInv, NEW base \in Intervals, NEW iv \in Intervals,
         base.start <= iv.start, iv.end <= base.end, InHours(day, base)
  PROVE  InHours(day, iv)
  <1>1. PICK h \in p.hours[Weekday(day)] : h.start <= base.start /\ base.end <= h.end
    BY DEF InHours
  <1>2. h \in Intervals
    BY <1>1, CutsType DEF TInv, TypeOK
  <1>3. h.start <= iv.start /\ iv.end <= h.end
    BY <1>1, <1>2, GenerateAssumption DEF Intervals
  <1> QED BY <1>1, <1>3 DEF InHours

LEMMA StrideType == ASSUME TInv PROVE Stride \in Nat \ {0}
  <1>1. p.dur \in Nat \ {0} /\ p.buf \in Nat
    BY DEF TInv, TypeOK, Params
  <1> QED BY <1>1 DEF Stride

LEMMA EarliestStart == ASSUME TInv, free # {} PROVE Earliest.start \in Nat
  BY EarliestIn, GenerateAssumption DEF TInv, TypeOK, Intervals

LEMMA RulesInit == Init => RInv
  BY TypeInit DEF Init, RInv, FreeInv, WithinRules

(* Clocks, days and rules depend on the parameters alone. *)
LEMMA ParamsStable ==
  ASSUME p' = p
  PROVE  /\ \A u : StartOfDay(u)' = StartOfDay(u) /\ Weekday(u)' = Weekday(u)
         /\ \A s : Candidate(s)' <=> Candidate(s)
         /\ \A d, iv : Workable(d, iv)' <=> Workable(d, iv)
         /\ \A d, iv : InHours(d, iv)' <=> InHours(d, iv)
         /\ \A d : AllCuts(d)' = AllCuts(d)
  <1>1. \A u : Offset(u)' = Offset(u)
    BY DEF Offset
  <1>2. \A u : StartOfDay(u)' = StartOfDay(u) /\ Weekday(u)' = Weekday(u)
    BY <1>1 DEF StartOfDay, Weekday, Date, Clock
  <1>3. \A s : Candidate(s)' <=> Candidate(s)
    BY <1>1, <1>2 DEF Candidate, WindowStart, WindowEnd, AddDays, Date, Clock
  <1>4. \A d, iv : Workable(d, iv)' <=> Workable(d, iv)
    BY <1>2 DEF Workable
  <1>5. \A d, iv : InHours(d, iv)' <=> InHours(d, iv)
    BY <1>2 DEF InHours
  <1>6. \A d : TimeOffIntervals(d)' = TimeOffIntervals(d)
    BY <1>2 DEF TimeOffIntervals, Overlap
  <1>7. \A d : AllCuts(d)' = AllCuts(d)
    BY <1>2, <1>6 DEF AllCuts
  <1> QED BY <1>2, <1>3, <1>4, <1>5, <1>7

LEMMA RulesStable ==
  ASSUME WithinRules, p' = p, out' = out PROVE WithinRules'
  BY ParamsStable DEF WithinRules, Span

(* A candidate that is taken keeps to the rules: it lies in a free interval. *)
LEMMA TakeWithinRules ==
  ASSUME RInv, Take PROVE WithinRules'
  <1> USE DEF RInv, TInv, TypeOK
  <1>1. free # {} /\ Earliest.start <= t
    BY DEF FreeInv, Take
  <1>2. /\ Earliest \in Intervals
        /\ InHours(day, Earliest)
        /\ \A c \in AllCuts(day) : Apart(Earliest, c)
    BY <1>1, EarliestIn DEF FreeInv, Take
  <1>3. /\ StartOfDay(day) \in Int
        /\ p.dur \in Nat \ {0}
        /\ Earliest.start \in 0..DayLength /\ Earliest.end \in 0..DayLength
    <2>1. p.dur \in Nat \ {0}
      BY DEF Params
    <2> QED BY <1>2, <2>1, StartOfDayType DEF Intervals
  <1> DEFINE span == [start |-> t, end |-> t + p.dur]
             k == [start |-> StartAt, end |-> StartAt + p.dur, on |-> day]
  <1>4. span \in Intervals /\ span.end <= Earliest.end
    BY <1>3, GenerateAssumption DEF Take, Fits, Intervals
  <1>5. Workable(day, span)
    BY <1>1, <1>2, <1>4, FreeIsWorkable
  <1>6. Span(k, day) = span
    BY <1>3 DEF Span, StartAt
  <1>7. Workable(k.on, Span(k, k.on)) /\ Candidate(k.start)
    BY <1>5, <1>6 DEF Take
  <1>8. out' = Append(out, k) /\ p' = p
    BY DEF Take
  <1>9. ASSUME NEW i \in DOMAIN out'
        PROVE  Workable(out'[i].on, Span(out'[i], out'[i].on)) /\ Candidate(out'[i].start)
    <2>1. CASE i = Len(out) + 1
      BY <1>7, <1>8, <2>1
    <2>2. CASE i \in DOMAIN out
      BY <1>8, <2>2 DEF WithinRules
    <2> QED BY <1>8, <2>1, <2>2
  <1> QED BY <1>8, <1>9, ParamsStable DEF WithinRules, Span

LEMMA RulesStep == RInv /\ [Next]_vars => RInv'
  <1> SUFFICES ASSUME RInv, [Next]_vars PROVE RInv'
    OBVIOUS
  <1>0. TInv /\ TInv' /\ FreeInv /\ WithinRules
    BY TypeStep DEF RInv
  <1> USE DEF RInv
  <1>1. CASE BeginDay
    <2>1. /\ pc' = "cut" /\ p' = p /\ day' = day /\ out' = out
          /\ cuts' = AllCuts(day)
          /\ free' = p.hours[Weekday(day)]
      BY <1>1 DEF BeginDay, AllCuts
    <2>2. ASSUME NEW iv \in free' PROVE InHours(day, iv)
      <3>1. iv \in Intervals
        BY <1>0, <2>1, CutsType DEF TInv, TypeOK
      <3> QED BY <2>1, <3>1, GenerateAssumption DEF InHours, Intervals
    <2>3. FreeInv'
      BY <2>1, <2>2, ParamsStable DEF FreeInv
    <2> QED BY <1>0, <2>1, <2>3, RulesStable
  <1>2. CASE Subtract
    <2>1. PICK c \in cuts : /\ free' = UNION {SubtractOne(iv, c) : iv \in free}
                            /\ cuts' = cuts \ {c}
      BY <1>2 DEF Subtract
    <2>2. pc = "cut" /\ pc' = "cut" /\ p' = p /\ out' = out /\ day' = day
      BY <1>2 DEF Subtract
    <2>3. ASSUME NEW iv \in free'
          PROVE  InHours(day, iv) /\ \A d \in AllCuts(day) \ cuts' : Apart(iv, d)
      <3>1. PICK base \in free : iv \in SubtractOne(base, c)
        BY <2>1
      <3>2. base \in Intervals /\ c \in Intervals
        BY <1>0, <2>1, <3>1 DEF TInv, TypeOK
      <3>3. iv \in Intervals /\ base.start <= iv.start /\ iv.end <= base.end /\ Apart(iv, c)
        BY <3>1, <3>2, SubtractOneCorrect
      <3>4. InHours(day, base) /\ \A d \in AllCuts(day) \ cuts : Apart(base, d)
        BY <1>0, <2>2, <3>1 DEF FreeInv
      <3>5. AllCuts(day) \subseteq Intervals
        BY <1>0, CutsType DEF AllCuts, TInv, TypeOK
      <3>6. InHours(day, iv)
        BY <1>0, <3>2, <3>3, <3>4, InHoursWithin
      <3>7. ASSUME NEW d \in AllCuts(day) \ cuts' PROVE Apart(iv, d)
        <4>1. CASE d = c
          BY <3>3, <4>1
        <4>2. CASE d # c
          <5>1. Apart(base, d) /\ d \in Intervals
            BY <2>1, <3>4, <3>5, <4>2
          <5> QED BY <3>2, <3>3, <5>1, ApartWithin
        <4> QED BY <4>1, <4>2
      <3> QED BY <3>6, <3>7
    <2>4. FreeInv'
      BY <1>0, <2>1, <2>2, <2>3, ParamsStable DEF FreeInv
    <2> QED BY <1>0, <2>2, <2>4, RulesStable
  <1>3. CASE CountDay
    <2>1. FreeInv'
      BY <1>0, <1>3, ParamsStable DEF CountDay, FreeInv
    <2> QED BY <1>0, <1>3, <2>1, RulesStable DEF CountDay
  <1>4. CASE BeginInterval
    <2>1. Earliest' = Earliest /\ Earliest.start \in Nat
      <3>1. Earliest \in Intervals
        BY <1>0, <1>4, EarliestIn DEF BeginInterval, TInv, TypeOK
      <3> QED BY <1>4, <3>1, GenerateAssumption DEF BeginInterval, Earliest, Intervals
    <2>2. FreeInv'
      BY <1>0, <1>4, <2>1, ParamsStable DEF BeginInterval, FreeInv
    <2> QED BY <1>0, <1>4, <2>2, RulesStable DEF BeginInterval
  <1>5. CASE Skip
    <2>1. Earliest' = Earliest /\ t <= t'
      BY <1>0, <1>5, StrideType DEF Skip, Earliest, TInv, TypeOK
    <2>2. free # {} /\ Earliest.start <= t'
      <3>1. free # {} /\ Earliest.start <= t /\ t \in Nat /\ t' \in Nat
        BY <1>0, <1>5 DEF Skip, FreeInv, TInv, TypeOK
      <3> QED BY <1>0, <2>1, <3>1, EarliestStart
    <2>3. FreeInv'
      BY <1>0, <1>5, <2>1, <2>2, ParamsStable DEF Skip, FreeInv
    <2> QED BY <1>0, <1>5, <2>3, RulesStable DEF Skip
  <1>6. CASE Take
    <2>1. Earliest' = Earliest /\ t <= t'
      BY <1>0, <1>6, StrideType DEF Take, Earliest, TInv, TypeOK
    <2>2. free # {} /\ Earliest.start <= t'
      <3>1. free # {} /\ Earliest.start <= t /\ t \in Nat /\ t' \in Nat
        BY <1>0, <1>6 DEF Take, FreeInv, TInv, TypeOK
      <3> QED BY <1>0, <2>1, <3>1, EarliestStart
    <2>3. FreeInv'
      BY <1>0, <1>6, <2>1, <2>2, ParamsStable DEF Take, FreeInv
    <2> QED BY <1>0, <1>6, <2>3, TakeWithinRules
  <1>7. CASE EndInterval
    <2>1. FreeInv'
      BY <1>0, <1>7, ParamsStable DEF EndInterval, FreeInv
    <2> QED BY <1>0, <1>7, <2>1, RulesStable DEF EndInterval
  <1>8. CASE EndDay
    <2>1. FreeInv'
      BY <1>8 DEF EndDay, FreeInv
    <2> QED BY <1>0, <1>8, <2>1, RulesStable DEF EndDay
  <1>9. CASE Return
    <2>1. FreeInv'
      BY <1>9 DEF Return, FreeInv
    <2> QED BY <1>0, <1>9, <2>1, RulesStable DEF Return
  <1>10. CASE UNCHANGED vars
    <2>1. FreeInv'
      BY <1>0, <1>10, ParamsStable DEF vars, FreeInv, Earliest
    <2> QED BY <1>0, <1>10, <2>1, RulesStable DEF vars
  <1> QED BY <1>1, <1>2, <1>3, <1>4, <1>5, <1>6, <1>7, <1>8, <1>9, <1>10 DEF Next

(* Every candidate, whatever the rules, the zone and its change, lies in the
   working hours of its day, meets no break and no time off, and is a start
   that the regeneration may insert. *)
THEOREM RulesCorrect == Spec => []WithinRules
  <1>1. RInv => WithinRules
    BY DEF RInv
  <1> QED BY <1>1, RulesInit, RulesStep, PTL DEF Spec

-----------------------------------------------------------------------------
(* Days in a zone whose clock does not change. *)
LEMMA NextMultiple ==
  ASSUME NEW n \in Int, NEW m \in Nat \ {0}
  PROVE  (n + m) \div m = (n \div m) + 1
  BY SMT

LEMMA MultipleDiv ==
  ASSUME NEW n \in Int, NEW m \in Nat \ {0}
  PROVE  (m * n) \div m = n
  BY SMT

Midnight(u) == StartOfDay(u) = u

LEMMA RegularDay ==
  ASSUME p \in Params, Regular, NEW u \in Int
  PROVE  /\ StartOfDay(u) = DayLength * ((u + p.zone.before) \div DayLength) - p.zone.before
         /\ AddDays(u, 1) = u + DayLength
  <1>1. p.zone.before \in Int /\ p.zone.after = p.zone.before /\ DayLength \in Nat
    BY GenerateAssumption DEF Params, Regular
  <1>2. \A x : Offset(x) = p.zone.before
    BY <1>1 DEF Offset
  <1>3. AddDays(u, 1) = u + DayLength
    BY <1>1, <1>2 DEF AddDays, Date, Clock
  <1> QED BY <1>2, <1>3 DEF StartOfDay, Date, Clock

LEMMA MidnightStart ==
  ASSUME p \in Params, Regular, NEW u \in Int PROVE Midnight(StartOfDay(u))
  <1> DEFINE q == (u + p.zone.before) \div DayLength
  <1>1. p.zone.before \in Int /\ DayLength \in Nat \ {0} /\ q \in Int /\ DayLength * q \in Int
    <2>1. u + p.zone.before \in Int /\ p.zone.before \in Int
      BY DEF Params
    <2>2. DayLength \in Nat \ {0}
      BY GenerateAssumption
    <2>3. q \in Int
      BY <2>1, <2>2, DivMod
    <2> QED BY <2>1, <2>2, <2>3
  <1>2. StartOfDay(u) = DayLength * q - p.zone.before
    BY RegularDay
  <1>3. StartOfDay(u) + p.zone.before = DayLength * q
    BY <1>1, <1>2
  <1>4. (DayLength * q) \div DayLength = q
    BY <1>1, MultipleDiv
  <1> QED BY <1>2, <1>3, <1>4, StartOfDayType, RegularDay DEF Midnight

LEMMA MidnightNext ==
  ASSUME p \in Params, Regular, NEW u \in Int, Midnight(u) PROVE Midnight(u + DayLength)
  <1> DEFINE q == (u + p.zone.before) \div DayLength
  <1>1. p.zone.before \in Int /\ DayLength \in Nat \ {0} /\ q \in Int /\ DayLength * q \in Int
    <2>1. u + p.zone.before \in Int /\ p.zone.before \in Int
      BY DEF Params
    <2>2. DayLength \in Nat \ {0}
      BY GenerateAssumption
    <2>3. q \in Int
      BY <2>1, <2>2, DivMod
    <2> QED BY <2>1, <2>2, <2>3
  <1>2. u = DayLength * q - p.zone.before
    BY RegularDay DEF Midnight
  <1>3. (u + DayLength + p.zone.before) \div DayLength = q + 1
    <2>1. /\ u + DayLength + p.zone.before = (u + p.zone.before) + DayLength
          /\ u + p.zone.before \in Int
      BY <1>1
    <2> QED BY <1>1, <2>1, NextMultiple
  <1>4. StartOfDay(u + DayLength) = DayLength * (q + 1) - p.zone.before
    BY <1>1, <1>3, RegularDay
  <1>5. DayLength * (q + 1) = DayLength * q + DayLength
    BY <1>1
  <1> HIDE DEF q
  <1>6. DayLength * (q + 1) - p.zone.before = u + DayLength
    BY <1>1, <1>2, <1>5
  <1> QED BY <1>4, <1>6 DEF Midnight

(* The pieces of disjoint intervals are disjoint. *)
LEMMA SubtractOneApart ==
  ASSUME NEW a \in Intervals, NEW b \in Intervals, NEW c \in Intervals, a = b \/ Apart(a, b),
         NEW x \in SubtractOne(a, c), NEW y \in SubtractOne(b, c)
  PROVE  x = y \/ Apart(x, y)
  <1>1. CASE a = b
    BY <1>1, GenerateAssumption DEF SubtractOne, Intervals, Apart
  <1>2. CASE Apart(a, b)
    <2>1. /\ x \in Intervals /\ a.start <= x.start /\ x.end <= a.end
          /\ y \in Intervals /\ b.start <= y.start /\ y.end <= b.end
      BY SubtractOneCorrect
    <2> QED BY <1>2, <2>1, GenerateAssumption DEF Intervals, Apart
  <1> QED BY <1>1, <1>2

(* The candidates so far end before everything that is still to come: the
   rest of the day's intervals and the next midnight. *)
OrderInv ==
  /\ Midnight(day)
  /\ pc \in {"cut", "interval", "step"} => \A a, b \in free : a = b \/ Apart(a, b)
  /\ \A i \in DOMAIN out :
       /\ out[i].end <= day + DayLength
       /\ pc \in {"day", "cut", "done"} => out[i].end <= day
       /\ pc = "interval" => \A iv \in free : out[i].end <= day + iv.start
       /\ pc = "step" =>
            /\ out[i].end <= day + t
            /\ \A iv \in free \ {Earliest} : out[i].end <= day + iv.start

DInv == RInv /\ (Regular => OrderInv) /\ SlotsDisjoint

LEMMA OrderInit == Init => DInv
  <1> SUFFICES ASSUME Init PROVE DInv
    OBVIOUS
  <1>1. p \in Params
    BY GenerateAssumption DEF Init
  <1>2. Regular => Midnight(day)
    BY <1>1, WindowType, MidnightStart DEF Init
  <1>3. out = <<>> /\ pc = "day"
    BY DEF Init
  <1>4. Regular => OrderInv
    BY <1>2, <1>3 DEF OrderInv
  <1> QED BY <1>3, <1>4, RulesInit DEF DInv, SlotsDisjoint

LEMMA SeqElement == ASSUME NEW R, NEW s \in Seq(R), NEW i \in DOMAIN s PROVE s[i] \in R
  OBVIOUS

(* The typed facts that the order of the candidates rests on. *)
LEMMA OrderTypes ==
  ASSUME TInv
  PROVE  /\ day \in Int /\ t \in Nat /\ DayLength \in Nat \ {0}
         /\ p.dur \in Nat \ {0}
         /\ \A iv \in free : /\ iv.start \in 0..DayLength /\ iv.end \in 0..DayLength
                             /\ iv.start < iv.end
         /\ \A i \in DOMAIN out : out[i].end \in Int /\ out[i].start \in Int
  <1> USE DEF TInv, TypeOK
  <1>1. p.dur \in Nat \ {0}
    BY DEF Params
  <1>2. \A iv \in free : /\ iv.start \in 0..DayLength /\ iv.end \in 0..DayLength
                         /\ iv.start < iv.end
    BY DEF Intervals
  <1>3. \A i \in DOMAIN out : out[i].end \in Int /\ out[i].start \in Int
    <2>1. \A i \in DOMAIN out : out[i] \in [start : Int, end : Int, on : Int]
      BY SeqElement
    <2> QED BY <2>1
  <1>4. DayLength \in Nat \ {0}
    BY GenerateAssumption
  <1> QED BY <1>1, <1>2, <1>3, <1>4

(* Other intervals that are left begin when the earliest is over. *)
LEMMA EarliestFirst ==
  ASSUME TInv, free # {}, \A a, b \in free : a = b \/ Apart(a, b),
         NEW iv \in free \ {Earliest}
  PROVE  Earliest.end <= iv.start
  <1>1. Earliest \in free /\ Earliest.start <= iv.start
    BY EarliestIn DEF TInv, TypeOK
  <1>2. Apart(Earliest, iv)
    BY <1>1
  <1> QED BY <1>1, <1>2, OrderTypes DEF Apart

(* Taking a candidate: it begins when those before it are over. *)
LEMMA TakeOrder ==
  ASSUME RInv, TInv', OrderInv, SlotsDisjoint, Regular, Take
  PROVE  OrderInv' /\ SlotsDisjoint'
  <1>0. TInv /\ FreeInv
    BY DEF RInv
  <1> DEFINE k == [start |-> day + t, end |-> day + t + p.dur, on |-> day]
  <1>1. /\ pc = "step" /\ pc' = "step" /\ free # {} /\ free' = free
        /\ day' = day /\ p' = p /\ t' = t + Stride
    BY <1>0 DEF Take, FreeInv
  <1>2. out' = Append(out, k)
    BY DEF Take, StartAt, OrderInv, Midnight
  <1>3. /\ Earliest' = Earliest
        /\ Earliest \in free /\ t + p.dur <= Earliest.end
    BY <1>0, <1>1, EarliestIn DEF Take, Earliest, Fits, TInv, TypeOK
  <1>4. t + p.dur <= t' /\ t' \in Nat
    <2>1. p.buf \in Nat
      BY <1>0 DEF TInv, TypeOK, Params
    <2> QED BY <1>0, <1>1, <2>1, OrderTypes DEF Stride
  <1>5. /\ k.end <= day + DayLength
        /\ k.end <= day + t'
        /\ \A iv \in free \ {Earliest} : k.end <= day + iv.start
    <2>1. \A iv \in free \ {Earliest} : Earliest.end <= iv.start
      BY <1>0, <1>1, EarliestFirst DEF OrderInv
    <2> QED BY <1>0, <1>3, <1>4, <2>1, OrderTypes
  <1>6. ASSUME NEW i \in DOMAIN out
        PROVE  /\ out[i].end <= k.start
               /\ out[i].end <= day + DayLength
               /\ out[i].end <= day + t'
               /\ \A iv \in free \ {Earliest} : out[i].end <= day + iv.start
    BY <1>0, <1>1, <1>4, OrderTypes DEF OrderInv
  <1>7. DOMAIN out' = DOMAIN out \cup {Len(out) + 1}
    BY <1>0, <1>2 DEF TInv, TypeOK
  <1>8. out'[Len(out) + 1] = k /\ \A i \in DOMAIN out : out'[i] = out[i]
    BY <1>0, <1>2 DEF TInv, TypeOK
  <1>9. OrderInv'
    <2>1. Midnight(day)'
      BY <1>1, ParamsStable DEF OrderInv, Midnight
    <2>2. \A a, b \in free' : a = b \/ Apart(a, b)
      BY <1>1 DEF OrderInv
    <2>3. \A i \in DOMAIN out' :
            /\ out'[i].end <= day + DayLength
            /\ out'[i].end <= day + t'
            /\ \A iv \in free \ {Earliest} : out'[i].end <= day + iv.start
      BY <1>5, <1>6, <1>7, <1>8
    <2> QED BY <1>1, <1>3, <2>1, <2>2, <2>3 DEF OrderInv
  <1>10. \A i, j \in DOMAIN out' : i < j => out'[i].end <= out'[j].start
    <2> SUFFICES ASSUME NEW i \in DOMAIN out', NEW j \in DOMAIN out', i < j
                 PROVE  out'[i].end <= out'[j].start
      OBVIOUS
    <2>1. i \in DOMAIN out
      BY <1>0, <1>7 DEF TInv, TypeOK
    <2>2. CASE j \in DOMAIN out
      BY <1>8, <2>1, <2>2 DEF SlotsDisjoint
    <2>3. CASE j = Len(out) + 1
      BY <1>6, <1>8, <2>1, <2>3
    <2> QED BY <1>7, <2>2, <2>3
  <1> QED BY <1>9, <1>10 DEF SlotsDisjoint

(* A step that makes no candidate keeps the pairs, whatever the zone. *)
LEMMA DisjointStable ==
  ASSUME SlotsDisjoint, p' = p, out' = out PROVE SlotsDisjoint'
  BY DEF SlotsDisjoint, Regular

LEMMA OrderStep == DInv /\ [Next]_vars => DInv'
  <1> SUFFICES ASSUME DInv, [Next]_vars PROVE DInv'
    OBVIOUS
  <1>0. /\ RInv /\ RInv' /\ TInv /\ TInv' /\ SlotsDisjoint /\ (Regular => OrderInv)
        /\ p' = p
    <2>1. p' = p
      BY DEF Next, vars, BeginDay, Subtract, CountDay, BeginInterval, Skip, Take, EndInterval,
             EndDay, Return
    <2> QED BY <2>1, RulesStep DEF DInv, RInv
  <1> SUFFICES ASSUME Regular, OrderInv PROVE OrderInv' /\ SlotsDisjoint'
    BY <1>0 DEF DInv, SlotsDisjoint, Regular
  <1>m. ASSUME day' = day PROVE Midnight(day)'
    BY <1>0, <1>m, ParamsStable DEF OrderInv, Midnight
  <1>1. CASE BeginDay
    <2>1. \A i \in DOMAIN out : out[i].end <= day /\ out[i].end <= day + DayLength
      BY <1>0, <1>1, OrderTypes DEF BeginDay, OrderInv
    <2>2. \A a, b \in free' : a = b \/ Apart(a, b)
      <3>1. p \in Inputs /\ Weekday(day) \in 0..Week-1
        BY <1>0, WeekdayType DEF TInv, TypeOK
      <3> QED BY <1>1, <3>1, GenerateAssumption DEF BeginDay
    <2> QED BY <1>0, <1>1, <1>m, <2>1, <2>2, DisjointStable DEF BeginDay, OrderInv
  <1>2. CASE Subtract
    <2>1. PICK c \in cuts : free' = UNION {SubtractOne(iv, c) : iv \in free}
      BY <1>2 DEF Subtract
    <2>2. c \in Intervals /\ free \subseteq Intervals
      BY <1>0 DEF TInv, TypeOK
    <2>3. \A a, b \in free' : a = b \/ Apart(a, b)
      <3> SUFFICES ASSUME NEW a \in free', NEW b \in free' PROVE a = b \/ Apart(a, b)
        OBVIOUS
      <3>1. PICK x \in free : a \in SubtractOne(x, c)
        BY <2>1
      <3>2. PICK y \in free : b \in SubtractOne(y, c)
        BY <2>1
      <3>3. x = y \/ Apart(x, y)
        BY <1>2 DEF Subtract, OrderInv
      <3> QED BY <2>2, <3>1, <3>2, <3>3, SubtractOneApart
    <2> QED BY <1>0, <1>2, <1>m, <2>3, DisjointStable DEF Subtract, OrderInv
  <1>3. CASE CountDay
    <2>1. \A iv \in free, i \in DOMAIN out : out[i].end <= day + iv.start
      BY <1>0, <1>3, OrderTypes DEF CountDay, OrderInv
    <2> QED BY <1>0, <1>3, <1>m, <2>1, DisjointStable DEF CountDay, OrderInv
  <1>4. CASE BeginInterval
    <2>1. Earliest \in free /\ Earliest' = Earliest
      BY <1>0, <1>4, EarliestIn DEF BeginInterval, Earliest, TInv, TypeOK
    <2> QED BY <1>0, <1>4, <1>m, <2>1, DisjointStable DEF BeginInterval, OrderInv
  <1>5. CASE Skip
    <2>1. Earliest' = Earliest /\ t <= t'
      BY <1>0, <1>5, StrideType DEF Skip, Earliest, TInv, TypeOK
    <2>2. \A i \in DOMAIN out : out[i].end <= day + t'
      <3>1. t' \in Nat /\ \A i \in DOMAIN out : out[i].end <= day + t
        BY <1>0, <1>5 DEF Skip, OrderInv, TInv, TypeOK
      <3> QED BY <1>0, <2>1, <3>1, OrderTypes
    <2> QED BY <1>0, <1>5, <1>m, <2>1, <2>2, DisjointStable DEF Skip, OrderInv
  <1>6. CASE Take
    BY <1>0, <1>6, TakeOrder
  <1>7. CASE EndInterval
    BY <1>0, <1>7, <1>m, DisjointStable DEF EndInterval, OrderInv
  <1>8. CASE EndDay
    <2>1. day' = day + DayLength /\ Midnight(day')
      BY <1>0, <1>8, RegularDay, MidnightNext DEF EndDay, OrderInv, TInv, TypeOK
    <2>2. Midnight(day)'
      BY <1>0, <2>1, ParamsStable DEF Midnight
    <2>3. \A i \in DOMAIN out : out[i].end <= day'
      BY <2>1 DEF OrderInv
    <2>4. \A i \in DOMAIN out : out[i].end <= day' + DayLength
      BY <1>0, <2>1, <2>3, OrderTypes
    <2> QED BY <1>0, <1>8, <2>2, <2>3, <2>4, DisjointStable DEF EndDay, OrderInv
  <1>9. CASE Return
    BY <1>0, <1>9, <1>m, DisjointStable DEF Return, OrderInv
  <1>10. CASE UNCHANGED vars
    BY <1>0, <1>10, <1>m, DisjointStable DEF vars, OrderInv, Earliest
  <1> QED BY <1>1, <1>2, <1>3, <1>4, <1>5, <1>6, <1>7, <1>8, <1>9, <1>10 DEF Next

(* In a zone whose clock does not change Generate never makes two candidates
   that overlap, nor two with one start, for all rules and kept slots. *)
THEOREM DisjointCorrect == Spec => []SlotsDisjoint
  <1>1. DInv => SlotsDisjoint
    BY DEF DInv
  <1> QED BY <1>1, OrderInit, OrderStep, PTL DEF Spec

-----------------------------------------------------------------------------
(* No span of the day in which an interview may be begins before e and goes
   beyond u. *)
Severed(e, u) ==
  \A span \in Intervals : Workable(day, span) => e <= span.start \/ span.end <= u

(* What is still to be cut away is all that is missing from the free intervals;
   then no workable span joins two of them, nor a candidate of the day to an
   interval that is left.  In the interval at hand the next start keeps the
   buffer. *)
GapInv ==
  /\ \A i \in DOMAIN out :
       /\ out[i].start < out[i].end
       /\ out[i].on <= day
       /\ pc \in {"day", "cut"} => out[i].on < day
  /\ pc = "cut" => \A span \in Intervals :
       InHours(day, span) /\ (\A c \in AllCuts(day) \ cuts : Apart(span, c)) =>
         \E iv \in free : iv.start <= span.start /\ span.end <= iv.end
  /\ pc \in {"interval", "step"} =>
       \A a, b \in free : a.end <= b.start => Severed(a.end, b.start)
  /\ pc = "interval" => \A i \in DOMAIN out : out[i].on = day =>
       \A iv \in free : Severed(out[i].end - day, iv.start)
  /\ pc = "step" => \A i \in DOMAIN out : out[i].on = day =>
       /\ \A iv \in free \ {Earliest} : Severed(out[i].end - day, iv.start)
       /\ Severed(out[i].end - day, Earliest.start) \/ out[i].end + p.buf <= day + t

BInv == DInv /\ (Regular => GapInv) /\ BufferKept

(* A cut is apart from a span that meets no time off. *)
LEMMA TimeOffSound ==
  ASSUME TInv, NEW d \in Int, NEW iv \in Intervals, NEW o \in p.timeOff,
         Apart([start |-> StartOfDay(d) + iv.start, end |-> StartOfDay(d) + iv.end], o)
  PROVE  Apart(iv, Overlap(o, StartOfDay(d)))
  <1> USE DEF TInv, TypeOK
  <1>1. /\ StartOfDay(d) \in Int /\ DayLength \in Nat
        /\ o.start \in Int /\ o.end \in Int /\ o.start < o.end
        /\ iv.start \in 0..DayLength /\ iv.end \in 0..DayLength /\ iv.start < iv.end
    BY StartOfDayType, GenerateAssumption DEF Params, Intervals
  <1> QED BY <1>1 DEF Overlap, Apart

(* The cuts of a day are what makes a span of the working hours unworkable. *)
LEMMA WorkableIsFree ==
  ASSUME TInv, NEW d \in Int, NEW span \in Intervals, Workable(d, span)
  PROVE  InHours(d, span) /\ \A c \in AllCuts(d) : Apart(span, c)
  <1>1. InHours(d, span) /\ \A c \in p.breaks[Weekday(d)] : Apart(span, c)
    BY DEF Workable, InHours
  <1>2. ASSUME NEW c \in TimeOffIntervals(d) PROVE Apart(span, c)
    <2>1. PICK o \in p.timeOff : c = Overlap(o, StartOfDay(d))
      BY DEF TimeOffIntervals
    <2>2. Apart([start |-> StartOfDay(d) + span.start, end |-> StartOfDay(d) + span.end], o)
      BY DEF Workable
    <2> QED BY <2>1, <2>2, TimeOffSound
  <1> QED BY <1>1, <1>2 DEF AllCuts

(* subtractOne loses nothing that is apart from the cut. *)
LEMMA SubtractOneComplete ==
  ASSUME NEW base \in Intervals, NEW c \in Intervals, NEW span \in Intervals,
         base.start <= span.start, span.end <= base.end, Apart(span, c)
  PROVE  \E iv \in SubtractOne(base, c) : iv.start <= span.start /\ span.end <= iv.end
  <1>1. /\ base.start \in Int /\ base.end \in Int /\ c.start \in Int /\ c.end \in Int
        /\ span.start \in Int /\ span.end \in Int /\ span.start < span.end
    BY GenerateAssumption DEF Intervals
  <1>2. CASE Apart(base, c)
    BY <1>2 DEF SubtractOne
  <1>3. CASE ~Apart(base, c) /\ span.end <= c.start
    <2> DEFINE iv == [start |-> base.start, end |-> c.start]
    <2>1. iv \in SubtractOne(base, c)
      BY <1>1, <1>3 DEF SubtractOne
    <2> QED BY <1>3, <2>1
  <1>4. CASE ~Apart(base, c) /\ c.end <= span.start
    <2> DEFINE iv == [start |-> c.end, end |-> base.end]
    <2>1. iv \in SubtractOne(base, c)
      BY <1>1, <1>4 DEF SubtractOne
    <2> QED BY <1>4, <2>1
  <1> QED BY <1>2, <1>3, <1>4 DEF Apart

LEMMA SeveredStable ==
  ASSUME p' = p, day' = day
  PROVE  \A e, u : Severed(e, u)' <=> Severed(e, u)
  BY ParamsStable DEF Severed

LEMMA SeveredEarlier ==
  ASSUME NEW e \in Int, NEW f \in Int, NEW u, Severed(f, u), e <= f
  PROVE  Severed(e, u)
  <1>1. \A span \in Intervals : span.start \in Int
    BY GenerateAssumption DEF Intervals
  <1> QED BY <1>1 DEF Severed

(* Once everything is cut away the gaps between free intervals are unworkable. *)
LEMMA CountDayGaps ==
  ASSUME DInv, Regular, OrderInv, GapInv, pc = "cut", cuts = {},
         NEW a \in free, NEW b \in free, a.end <= b.start
  PROVE  Severed(a.end, b.start)
  <1>0. TInv /\ day \in Int /\ free \subseteq Intervals
    BY DEF DInv, RInv, TInv, TypeOK
  <1> SUFFICES ASSUME NEW span \in Intervals, Workable(day, span),
                      ~(a.end <= span.start \/ span.end <= b.start)
               PROVE  FALSE
    BY DEF Severed
  <1>1. PICK iv \in free : iv.start <= span.start /\ span.end <= iv.end
    BY <1>0, WorkableIsFree DEF GapInv
  <1>2. /\ a.start \in Int /\ a.end \in Int /\ a.start < a.end
        /\ b.start \in Int /\ b.end \in Int /\ b.start < b.end
        /\ iv.start \in Int /\ iv.end \in Int
        /\ span.start \in Int /\ span.end \in Int
    BY <1>0, GenerateAssumption DEF Intervals
  <1>3. /\ iv = a \/ Apart(iv, a)
        /\ iv = b \/ Apart(iv, b)
    BY DEF OrderInv
  <1> QED BY <1>1, <1>2, <1>3 DEF Apart

LEMMA GapInit == Init => BInv
  <1> SUFFICES ASSUME Init PROVE BInv
    OBVIOUS
  <1>1. out = <<>> /\ pc = "day"
    BY DEF Init
  <1> QED BY <1>1, OrderInit DEF BInv, GapInv, BufferKept

(* The new candidate keeps the buffer to those of its day that no gap severs
   from it. *)
LEMMA TakeGap ==
  ASSUME BInv, TInv', Regular, OrderInv, GapInv, Take
  PROVE  GapInv' /\ BufferKept'
  <1>0. TInv /\ FreeInv /\ day \in Int /\ \A i \in DOMAIN out : out[i].on \in Int
    <2>1. TInv /\ FreeInv
      BY DEF BInv, DInv, RInv
    <2>2. \A i \in DOMAIN out : out[i] \in [start : Int, end : Int, on : Int]
      BY <2>1, SeqElement DEF TInv, TypeOK
    <2> QED BY <2>1, <2>2 DEF TInv, TypeOK
  <1> DEFINE k == [start |-> day + t, end |-> day + t + p.dur, on |-> day]
  <1>1. /\ pc = "step" /\ pc' = "step" /\ free # {} /\ free' = free
        /\ day' = day /\ p' = p /\ t' = t + Stride /\ Earliest.start <= t
    BY <1>0 DEF Take, FreeInv
  <1>2. out' = Append(out, k)
    BY DEF Take, StartAt, OrderInv, Midnight
  <1>3. /\ Earliest' = Earliest
        /\ Earliest \in free /\ t + p.dur <= Earliest.end
    BY <1>0, <1>1, EarliestIn DEF Take, Earliest, Fits, TInv, TypeOK
  <1>4. /\ p.buf \in Nat /\ p.dur \in Nat /\ p.dur > 0 /\ t \in Nat /\ DayLength \in Nat
        /\ Earliest.start \in Int /\ Earliest.end \in Int /\ Earliest.end <= DayLength
        /\ t' = t + p.dur + p.buf
    <2>1. p.buf \in Nat
      BY <1>0 DEF TInv, TypeOK, Params
    <2> QED BY <1>0, <1>1, <1>3, <2>1, OrderTypes DEF Stride
  <1>5. /\ k.start \in Int /\ k.end \in Int /\ k.start < k.end /\ k.on = day
        /\ k.start - day = t /\ k.end - day = t + p.dur /\ k.end + p.buf = day + t'
    BY <1>0, <1>4
  <1>6. \A i \in DOMAIN out : out[i].start \in Int /\ out[i].end \in Int /\ out[i].start < out[i].end
    BY <1>0, OrderTypes DEF GapInv
  <1>7. /\ DOMAIN out' = DOMAIN out \cup {Len(out) + 1}
        /\ out'[Len(out) + 1] = k /\ \A i \in DOMAIN out : out'[i] = out[i]
        /\ \A i \in DOMAIN out : i < Len(out) + 1
        /\ \A i, j \in DOMAIN out' : i < j => i \in DOMAIN out
    <2>1. DOMAIN out' = DOMAIN out \cup {Len(out) + 1}
      BY <1>0, <1>2 DEF TInv, TypeOK
    <2>2. out'[Len(out) + 1] = k /\ \A i \in DOMAIN out : out'[i] = out[i]
      BY <1>0, <1>2 DEF TInv, TypeOK
    <2>3. DOMAIN out = 1..Len(out) /\ Len(out) \in Nat
      BY <1>0 DEF TInv, TypeOK
    <2> QED BY <2>1, <2>2, <2>3
  <1>8. StartOfDay(day) = day /\ \A d : StartOfDay(d)' = StartOfDay(d)
    BY <1>1, ParamsStable DEF OrderInv, Midnight
  <1>9. /\ \A e, u : Severed(e, u)' <=> Severed(e, u)
        /\ \A d, iv : Workable(d, iv)' <=> Workable(d, iv)
    BY <1>1, SeveredStable, ParamsStable
  <1> HIDE DEF k
  <1>10. ASSUME NEW iv \in free \ {Earliest} PROVE Severed(k.end - day, iv.start)
    <2>1. Earliest.end <= iv.start
      BY <1>0, <1>1, <1>10, EarliestFirst DEF OrderInv
    <2>2. Severed(Earliest.end, iv.start)
      BY <1>1, <1>3, <2>1 DEF GapInv
    <2> QED BY <1>3, <1>4, <1>5, <2>2, SeveredEarlier
  <1>11. GapInv'
    <2>1. \A i \in DOMAIN out' : out'[i].start < out'[i].end /\ out'[i].on <= day'
      BY <1>0, <1>1, <1>5, <1>7 DEF GapInv
    <2>2. \A a, b \in free' : a.end <= b.start => Severed(a.end, b.start)'
      BY <1>1, <1>9 DEF GapInv
    <2>3. ASSUME NEW i \in DOMAIN out', out'[i].on = day'
          PROVE  /\ \A iv \in free \ {Earliest} : Severed(out'[i].end - day, iv.start)
                 /\ \/ Severed(out'[i].end - day, Earliest.start)
                    \/ out'[i].end + p.buf <= day + t'
      <3>1. CASE i \in DOMAIN out
        <4>1. Severed(out[i].end - day, Earliest.start) \/ out[i].end + p.buf <= day + t
          BY <1>1, <1>7, <2>3, <3>1 DEF GapInv
        <4>2. out[i].end + p.buf <= day + t => out[i].end + p.buf <= day + t'
          BY <1>0, <1>4, <1>6, <3>1
        <4> QED BY <1>1, <1>7, <2>3, <3>1, <4>1, <4>2 DEF GapInv
      <3>2. CASE i = Len(out) + 1
        <4>1. k.end + p.buf <= day + t'
          BY <1>0, <1>4, <1>5
        <4> QED BY <1>7, <1>10, <3>2, <4>1
      <3> QED BY <1>7, <3>1, <3>2
    <2>4. \A e, u : Severed(e, u)' <=> Severed(e, u)
      BY <1>9
    <2> QED BY <1>1, <1>3, <2>1, <2>2, <2>3, <2>4 DEF GapInv
  <1>12. BufferKept'
    <2> SUFFICES ASSUME NEW i \in DOMAIN out', NEW j \in DOMAIN out', i < j, out'[i].on = out'[j].on,
                        Workable(out'[i].on, [start |-> out'[i].start - StartOfDay(out'[i].on),
                                              end |-> out'[j].end - StartOfDay(out'[i].on)])
                 PROVE  out'[i].end + p.buf <= out'[j].start
      BY <1>1, <1>8, <1>9 DEF BufferKept, Span
    <2>1. i \in DOMAIN out /\ out'[i] = out[i]
      BY <1>7
    <2>2. CASE j \in DOMAIN out
      BY <1>7, <2>1, <2>2 DEF BInv, BufferKept, Span
    <2>3. CASE j = Len(out) + 1
      <3>1. out'[j] = k /\ out[i].on = day
        BY <1>5, <1>7, <2>1, <2>3
      <3> DEFINE span == [start |-> out[i].start - day, end |-> k.end - day]
      <3>2. Workable(day, span)
        BY <1>8, <2>1, <3>1 DEF Span
      <3>3. span.start = out[i].start - day /\ span.end = k.end - day
        OBVIOUS
      <3> HIDE DEF span
      <3>4. span \in Intervals
        <4>1. PICK h \in p.hours[Weekday(day)] : h.start <= span.start /\ span.end <= h.end
          BY <3>2 DEF Workable
        <4>2. h.start \in 0..DayLength /\ h.end \in 0..DayLength
          BY <1>0, <4>1, CutsType DEF Intervals
        <4>3. out[i].end <= day + t
          BY <1>1, <2>1 DEF OrderInv
        <4>4. span.start \in Int /\ span.end \in Int /\ span.start < span.end
          BY <1>0, <1>4, <1>5, <1>6, <2>1, <3>3, <4>3
        <4>5. span.start \in 0..DayLength /\ span.end \in 0..DayLength
          BY <1>4, <4>1, <4>2, <4>4
        <4>6. span = [start |-> span.start, end |-> span.end]
          BY DEF span
        <4> QED BY <4>4, <4>5, <4>6 DEF Intervals
      <3>5. ~Severed(out[i].end - day, Earliest.start)
        <4>1. ~(out[i].end - day <= span.start)
          BY <1>0, <1>6, <2>1, <3>3
        <4>2. ~(span.end <= Earliest.start)
          BY <1>1, <1>4, <1>5, <3>3
        <4> QED BY <3>2, <3>4, <4>1, <4>2 DEF Severed
      <3>6. out[i].end + p.buf <= day + t
        BY <1>1, <2>1, <3>1, <3>5 DEF GapInv
      <3> QED BY <2>1, <3>1, <3>6 DEF k
    <2> QED BY <1>7, <2>2, <2>3
  <1> QED BY <1>11, <1>12

(* A step that makes no candidate keeps the pairs, whatever the zone. *)
LEMMA BufferStable ==
  ASSUME BufferKept, p' = p, out' = out PROVE BufferKept'
  BY ParamsStable DEF BufferKept, Regular, Span

LEMMA GapStep == BInv /\ [Next]_vars => BInv'
  <1> SUFFICES ASSUME BInv, [Next]_vars PROVE BInv'
    OBVIOUS
  <1>0. /\ DInv /\ DInv' /\ TInv /\ TInv' /\ FreeInv /\ BufferKept
        /\ (Regular => OrderInv) /\ (Regular => GapInv) /\ p' = p
    <2>1. p' = p
      BY DEF Next, vars, BeginDay, Subtract, CountDay, BeginInterval, Skip, Take, EndInterval,
             EndDay, Return
    <2> QED BY <2>1, OrderStep DEF BInv, DInv, RInv
  <1> SUFFICES ASSUME Regular, OrderInv, GapInv PROVE GapInv' /\ BufferKept'
    BY <1>0 DEF BInv, BufferKept, Regular
  <1>t. /\ day \in Int /\ t \in Nat /\ p.buf \in Nat /\ DayLength \in Nat /\ DayLength > 0
        /\ free \subseteq Intervals /\ cuts \subseteq Intervals
        /\ \A iv \in free : iv.start \in Int /\ iv.end \in Int
        /\ \A i \in DOMAIN out : out[i].on \in Int /\ out[i].end \in Int
    <2>1. \A i \in DOMAIN out : out[i] \in [start : Int, end : Int, on : Int]
      BY <1>0, SeqElement DEF TInv, TypeOK
    <2>2. p.buf \in Nat
      BY <1>0 DEF TInv, TypeOK, Params
    <2>3. \A iv \in free : iv.start \in Int /\ iv.end \in Int
      BY <1>0, OrderTypes
    <2> QED BY <1>0, <2>1, <2>2, <2>3, OrderTypes DEF TInv, TypeOK
  <1>s. ASSUME day' = day PROVE \A e, u : Severed(e, u)' <=> Severed(e, u)
    BY <1>0, <1>s, SeveredStable
  <1>1. CASE BeginDay
    <2>1. /\ pc = "day" /\ pc' = "cut" /\ day' = day /\ out' = out
          /\ cuts' = AllCuts(day) /\ free' = p.hours[Weekday(day)]
      BY <1>1 DEF BeginDay, AllCuts
    <2>2. GapInv'
      BY <1>0, <2>1, ParamsStable DEF GapInv, InHours
    <2> QED BY <1>0, <2>1, <2>2, BufferStable
  <1>2. CASE Subtract
    <2>1. PICK c \in cuts : /\ free' = UNION {SubtractOne(iv, c) : iv \in free}
                            /\ cuts' = cuts \ {c}
      BY <1>2 DEF Subtract
    <2>2. pc = "cut" /\ pc' = "cut" /\ out' = out /\ day' = day
      BY <1>2 DEF Subtract
    <2>3. ASSUME NEW span \in Intervals, InHours(day, span),
                 \A d \in AllCuts(day) \ cuts' : Apart(span, d)
          PROVE  \E iv \in free' : iv.start <= span.start /\ span.end <= iv.end
      <3>1. c \in AllCuts(day) /\ \A d \in AllCuts(day) \ cuts : Apart(span, d)
        BY <1>0, <2>1, <2>2, <2>3 DEF FreeInv
      <3>2. Apart(span, c)
        BY <2>1, <2>3, <3>1
      <3>3. PICK base \in free : base.start <= span.start /\ span.end <= base.end
        BY <2>2, <2>3, <3>1 DEF GapInv
      <3>4. \E iv \in SubtractOne(base, c) : iv.start <= span.start /\ span.end <= iv.end
        BY <1>t, <3>2, <3>3, SubtractOneComplete
      <3> QED BY <2>1, <3>4
    <2>4. GapInv'
      BY <1>0, <2>2, <2>3, ParamsStable DEF GapInv
    <2> QED BY <1>0, <2>2, <2>4, BufferStable
  <1>3. CASE CountDay
    <2>1. /\ pc = "cut" /\ cuts = {} /\ pc' = "interval"
          /\ out' = out /\ day' = day /\ free' = free
      BY <1>3 DEF CountDay
    <2>2. \A a, b \in free : a.end <= b.start => Severed(a.end, b.start)
      BY <1>0, <2>1, CountDayGaps
    <2>3. \A i \in DOMAIN out : out[i].on # day
      BY <1>t, <2>1 DEF GapInv
    <2>4. GapInv'
      BY <1>s, <2>1, <2>2, <2>3 DEF GapInv
    <2> QED BY <1>0, <2>1, <2>4, BufferStable
  <1>4. CASE BeginInterval
    <2>1. Earliest \in free /\ Earliest' = Earliest
      BY <1>0, <1>4, EarliestIn DEF BeginInterval, Earliest, TInv, TypeOK
    <2>2. /\ pc = "interval" /\ pc' = "step" /\ out' = out /\ day' = day /\ free' = free
      BY <1>4 DEF BeginInterval
    <2>3. GapInv'
      BY <1>s, <2>1, <2>2 DEF GapInv
    <2> QED BY <1>0, <2>2, <2>3, BufferStable
  <1>5. CASE Skip
    <2>1. Earliest' = Earliest /\ t <= t' /\ t' \in Nat
      BY <1>0, <1>5, StrideType DEF Skip, Earliest, TInv, TypeOK
    <2>2. pc = "step" /\ pc' = "step" /\ out' = out /\ day' = day /\ free' = free
      BY <1>5 DEF Skip
    <2>3. \A i \in DOMAIN out : out[i].end + p.buf <= day + t => out[i].end + p.buf <= day + t'
      BY <1>t, <2>1
    <2>4. GapInv'
      BY <1>0, <1>s, <2>1, <2>2, <2>3 DEF GapInv
    <2> QED BY <1>0, <2>2, <2>4, BufferStable
  <1>6. CASE Take
    BY <1>0, <1>6, TakeGap DEF BInv
  <1>7. CASE EndInterval
    <2>1. /\ pc = "step" /\ pc' = "interval" /\ out' = out /\ day' = day
          /\ free' \subseteq free \ {Earliest}
      BY <1>7 DEF EndInterval
    <2>2. GapInv'
      BY <1>s, <2>1 DEF GapInv
    <2> QED BY <1>0, <2>1, <2>2, BufferStable
  <1>8. CASE EndDay
    <2>1. day' = day + DayLength /\ pc' = "day" /\ out' = out
      BY <1>0, <1>8, RegularDay DEF EndDay, TInv, TypeOK
    <2>2. \A i \in DOMAIN out : out[i].on < day' /\ out[i].on <= day'
      BY <1>t, <2>1 DEF GapInv
    <2>3. GapInv'
      BY <2>1, <2>2 DEF GapInv
    <2> QED BY <1>0, <2>1, <2>3, BufferStable
  <1>9. CASE Return
    <2>1. pc = "day" /\ pc' = "done" /\ out' = out /\ day' = day
      BY <1>9 DEF Return
    <2>2. GapInv'
      BY <2>1 DEF GapInv
    <2> QED BY <1>0, <2>1, <2>2, BufferStable
  <1>10. CASE UNCHANGED vars
    <2>1. /\ pc' = pc /\ out' = out /\ day' = day /\ free' = free /\ cuts' = cuts /\ t' = t
          /\ Earliest' = Earliest
      BY <1>10 DEF vars, Earliest
    <2>2. GapInv'
      BY <1>0, <1>s, <2>1, ParamsStable DEF GapInv
    <2> QED BY <1>0, <2>1, <2>2, BufferStable
  <1> QED BY <1>1, <1>2, <1>3, <1>4, <1>5, <1>6, <1>7, <1>8, <1>9, <1>10 DEF Next

(* In such a zone the buffer is between two candidates of a day that no break,
   time off or end of working hours separates, however the free intervals were
   cut and whatever was passed over between the two. *)
THEOREM BufferCorrect == Spec => []BufferKept
  <1>1. BInv => BufferKept
    BY DEF BInv
  <1> QED BY <1>1, GapInit, GapStep, PTL DEF Spec

-----------------------------------------------------------------------------
(* Multiples.  m is a number of strides after a, ... *)
After(a, m, stride) == \E n \in 0..(m - a) : m = a + n * stride

(* ... d a day of the booking window or beyond, and m a start that the loop
   reaches from a on in the interval iv. *)
IsDay(d) == After(StartOfDay(p.now), d, DayLength)
Reaches(iv, a, m) == After(a, m, Stride) /\ m + p.dur <= iv.end

(* The starts that the rules give on a day, and those that are candidates. *)
StartsOn(d) == {StartOfDay(d) + m : m \in UNION {GridOf(d, h) : h \in p.hours[Weekday(d)]}}
Wanted(d) == {s \in StartsOn(d) : Candidate(s)}

(* What has been taken of a day, and what the loop can still come to. *)
TakenOn(d) == {out[i].start : i \in {j \in DOMAIN out : out[j].on = d}}

ToCome(m) ==
  \/ pc = "interval" /\ \E iv \in free : Reaches(iv, iv.start, m)
  \/ pc = "step" /\ (Reaches(Earliest, t, m) \/ \E iv \in free \ {Earliest} : Reaches(iv, iv.start, m))

(* A free interval begins where working hours begin or a cut ends. *)
EdgeInv ==
  pc = "cut" => \A iv \in free :
    \/ \E h \in p.hours[Weekday(day)] : h.start = iv.start /\ iv.end <= h.end
    \/ \E c \in AllCuts(day) \ cuts : c.end = iv.start

(* The candidates of the day are the earliest of the wanted starts, and the
   others are still to come until the day is full. *)
TodayInv ==
  pc \in {"interval", "step"} =>
    /\ \A m \in 0..DayLength : ToCome(m) => day + m \in StartsOn(day)
    /\ TakenOn(day) \subseteq Wanted(day)
    /\ \A s \in Wanted(day) \ TakenOn(day) :
         /\ \A u \in TakenOn(day) : u < s
         /\ today < p.max => ToCome(s - day)
    /\ today = KeptOn(day) + Cardinality(TakenOn(day))
    /\ TakenOn(day) # {} => today <= p.max

(* The days before have what they are to have. *)
PastInv ==
  /\ IsDay(day)
  /\ \A i \in DOMAIN out : IsDay(out[i].on)
  /\ pc = "done" => ~More
  /\ \A d \in StartOfDay(p.now)..(day - 1) : IsDay(d) => TakenOn(d) = ReferenceOn(d)

MInv == BInv /\ (Regular => EdgeInv /\ TodayInv /\ PastInv)

(* Multiplication by a length. *)
LEMMA Times ==
  ASSUME NEW i \in Int, NEW j \in Int, NEW m \in Nat
  PROVE  /\ i * m \in Int /\ m * i \in Int /\ i * m = m * i
         /\ (i + j) * m = i * m + j * m
  OBVIOUS

LEMMA TimesMonotone ==
  ASSUME NEW i \in Int, NEW j \in Int, NEW m \in Nat, i <= j
  PROVE  i * m <= j * m /\ m * i <= m * j
<1> DEFINE k == j - i
<1>1. k \in Nat /\ j = i + k
  OBVIOUS
<1> HIDE DEF k
<1>2. j * m = i * m + k * m
  BY <1>1, Times
<1>3. k * m \in Nat
  BY <1>1
<1>4. i * m \in Int
  BY Times
<1>5. i * m <= j * m
  BY <1>2, <1>3, <1>4
<1> QED
  BY <1>5, Times

LEMMA TimesNext ==
  ASSUME NEW i \in Int, NEW j \in Int, NEW m \in Nat, i < j
  PROVE  i * m + m <= j * m /\ m * i + m <= m * j
<1> DEFINE k == i + 1
<1>1. k \in Int /\ k <= j /\ k * m = i * m + m
  OBVIOUS
<1> HIDE DEF k
<1>2. k * m <= j * m
  BY <1>1, TimesMonotone
<1> QED
  BY <1>1, <1>2, Times

LEMMA DivUnique ==
  ASSUME NEW a \in Int, NEW q \in Int, NEW m \in Nat \ {0}, m * q <= a, a < m * q + m
  PROVE  a \div m = q
<1> DEFINE d == a \div m
<1>1. d \in Int /\ m * d <= a /\ a < m * d + m
  BY SMT
<1> HIDE DEF d
<1>2. m * d \in Int /\ m * q \in Int
  BY <1>1, Times
<1>3. ~(d < q)
  <2>1. d < q => m * d + m <= m * q
    BY <1>1, TimesNext
  <2> QED
    BY <1>1, <1>2, <2>1
<1>4. ~(q < d)
  <2>1. q < d => m * q + m <= m * d
    BY <1>1, TimesNext
  <2> QED
    BY <1>1, <1>2, <2>1
<1> QED
  BY <1>1, <1>3, <1>4 DEF d

LEMMA DivBounds ==
  ASSUME NEW a \in Int, NEW m \in Nat \ {0}
  PROVE  a \div m \in Int /\ m * (a \div m) <= a /\ a < m * (a \div m) + m
  BY SMT

LEMMA DivShift ==
  ASSUME NEW a \in Int, NEW n \in Nat, NEW m \in Nat \ {0}, NEW c, c = a + n * m
  PROVE  c \div m = (a \div m) + n
<1> DEFINE q == a \div m
<1>1. q \in Int /\ m * q <= a /\ a < m * q + m
  BY DivBounds
<1> HIDE DEF q
<1>2. m * (q + n) = m * q + n * m /\ m * (q + n) \in Int /\ n * m \in Int /\ m * q \in Int
  BY <1>1
<1>3. m * (q + n) <= a + n * m /\ a + n * m < m * (q + n) + m
  BY <1>1, <1>2
<1>4. (a + n * m) \div m = q + n
  BY <1>1, <1>2, <1>3, DivUnique
<1> QED
  BY <1>4 DEF q

(* Strides. *)
LEMMA AfterHere ==
  ASSUME NEW a \in Int, NEW stride \in Nat \ {0}
  PROVE  After(a, a, stride)
<1>1. 0 \in 0..(a - a) /\ a = a + 0 * stride
  OBVIOUS
<1> QED
  BY <1>1 DEF After

LEMMA AfterBy ==
  ASSUME NEW a \in Int, NEW stride \in Nat \ {0}, NEW n \in Nat, NEW k \in Int, k = a + n * stride
  PROVE  After(a, k, stride)
<1>1. n * stride \in Nat /\ n <= n * stride
  <2>1. n * 1 <= n * stride
    BY TimesMonotone
  <2> QED
    BY <2>1
<1> DEFINE m == n * stride
<1>2. m \in Nat /\ n <= m
  BY <1>1
<1>3. k = a + m
  OBVIOUS
<1> HIDE DEF m
<1>4. n \in 0..(k - a)
  BY <1>2, <1>3
<1> QED
  BY <1>4 DEF After

LEMMA AfterType ==
  ASSUME NEW a \in Int, NEW stride \in Nat \ {0}, NEW m \in Int, After(a, m, stride)
  PROVE  a <= m /\ \E n \in Nat : m = a + n * stride
<1>1. PICK n \in 0..(m - a) : m = a + n * stride
  BY DEF After
<1>2. n \in Nat /\ a <= m
  BY <1>1
<1> QED
  BY <1>1, <1>2

(* One stride on. *)
LEMMA AfterNext ==
  ASSUME NEW a \in Int, NEW stride \in Nat \ {0}, NEW m \in Int
  PROVE  After(a, m, stride) <=> m = a \/ After(a + stride, m, stride)
<1>1. ASSUME After(a, m, stride), m # a PROVE After(a + stride, m, stride)
  <2>1. PICK n \in Nat : m = a + n * stride
    BY <1>1, AfterType
  <2>2. n # 0
    BY <1>1, <2>1
  <2> DEFINE k == n - 1
  <2>3. k \in Nat /\ n = k + 1
    BY <2>2
  <2> HIDE DEF k
  <2>4. (k + 1) * stride = k * stride + stride
    BY <2>3
  <2>5. k * stride \in Int
    BY <2>3
  <2>6. m = (a + stride) + k * stride
    BY <2>1, <2>3, <2>4, <2>5
  <2> QED
    BY <2>3, <2>6, AfterBy
<1>2. ASSUME After(a + stride, m, stride) PROVE After(a, m, stride)
  <2>1. PICK n \in Nat : m = (a + stride) + n * stride
    <3> DEFINE b == a + stride
    <3>1. b \in Int /\ After(b, m, stride)
      BY <1>2
    <3> HIDE DEF b
    <3>2. \E n \in Nat : m = b + n * stride
      BY <3>1, AfterType
    <3> QED
      BY <3>2 DEF b
  <2>2. (n + 1) * stride = n * stride + stride /\ n * stride \in Int
    OBVIOUS
  <2> DEFINE k == n + 1
  <2>3. k \in Nat /\ m = a + k * stride
    BY <2>1, <2>2
  <2> HIDE DEF k
  <2> QED
    BY <2>3, AfterBy
<1> QED
  BY <1>1, <1>2, AfterHere

(* Between two multiples that follow each other there is none. *)
LEMMA AfterGap ==
  ASSUME NEW a \in Int, NEW stride \in Nat \ {0}, NEW m \in Int, NEW k \in Int,
         After(a, m, stride), After(a, k, stride), m <= k, k < m + stride
  PROVE  k = m
<1>1. PICK i \in Nat : m = a + i * stride
  BY AfterType
<1>2. PICK j \in Nat : k = a + j * stride
  BY AfterType
<1>3. i * stride \in Int /\ j * stride \in Int
  BY Times
<1>4. ~(i < j)
  <2>1. i < j => i * stride + stride <= j * stride
    BY TimesNext
  <2> QED
    BY <1>1, <1>2, <1>3, <2>1
<1>5. ~(j < i)
  <2>1. j < i => j * stride + stride <= i * stride
    BY TimesNext
  <2> QED
    BY <1>1, <1>2, <1>3, <2>1
<1>6. i = j
  BY <1>4, <1>5
<1> QED
  BY <1>1, <1>2, <1>6

-----------------------------------------------------------------------------
(* The reference, and everything it is made of, depends on the parameters. *)
LEMMA ReferenceStable ==
  ASSUME p' = p
  PROVE  /\ \A d : KeptOn(d)' = KeptOn(d) /\ StartsOn(d)' = StartsOn(d) /\ Wanted(d)' = Wanted(d)
         /\ \A d : ReferenceOn(d)' = ReferenceOn(d) /\ (IsDay(d)' <=> IsDay(d))
         /\ (More' <=> WindowStart < WindowEnd /\ day' < WindowEnd)
         /\ StartOfDay(p.now)' = StartOfDay(p.now)
<1>1. /\ \A u : StartOfDay(u)' = StartOfDay(u) /\ Weekday(u)' = Weekday(u)
      /\ \A s : Candidate(s)' <=> Candidate(s)
      /\ \A d, iv : Workable(d, iv)' <=> Workable(d, iv)
  BY ParamsStable
<1>2. \A d, h : GridOf(d, h)' = GridOf(d, h)
  BY <1>1 DEF GridOf, FreeAt, Stride
<1>3. \A d : StartsOn(d)' = StartsOn(d)
  BY <1>1, <1>2 DEF StartsOn
<1>4. \A d : Wanted(d)' = Wanted(d)
  BY <1>1, <1>3 DEF Wanted
<1>5. \A d : KeptOn(d)' = KeptOn(d)
  BY <1>1 DEF KeptOn
<1>6. \A d : ReferenceOn(d)' = ReferenceOn(d)
  <2>1. \A d : ReferenceOn(d) =
          {s \in Wanted(d) : Cardinality({u \in Wanted(d) : u < s})
                               + Cardinality({k \in p.kept : SameDay(k, d)}) < p.max}
    BY DEF ReferenceOn, Wanted, StartsOn
  <2>2. \A d : ReferenceOn(d)' =
          {s \in Wanted(d)' : Cardinality({u \in Wanted(d)' : u < s})
                               + Cardinality({k \in p.kept : SameDay(k, d)'}) < p.max}
    BY DEF ReferenceOn, Wanted, StartsOn
  <2>3. \A k, d : SameDay(k, d)' <=> SameDay(k, d)
    BY DEF SameDay
  <2> QED
    BY <1>4, <2>1, <2>2, <2>3
<1>7. \A u : Offset(u)' = Offset(u)
  BY DEF Offset
<1>8. StartOfDay(p.now)' = StartOfDay(p.now) /\ WindowStart' = WindowStart /\ WindowEnd' = WindowEnd
  BY <1>1, <1>7 DEF WindowStart, WindowEnd, AddDays, Date, Clock
<1>9. \A d : IsDay(d)' <=> IsDay(d)
  BY <1>8 DEF IsDay
<1>10. More' <=> WindowStart < WindowEnd /\ day' < WindowEnd
  BY <1>8 DEF More
<1> QED
  BY <1>3, <1>4, <1>5, <1>6, <1>8, <1>9, <1>10

(* The numbers of a behaviour. *)
LEMMA ParamsType ==
  ASSUME TInv
  PROVE  /\ p \in Params /\ p.now \in Int /\ p.days \in Nat \ {0} /\ p.zone.before \in Int
         /\ p.dur \in Nat \ {0} /\ p.buf \in Nat /\ p.max \in Nat \ {0} /\ Stride \in Nat \ {0}
         /\ DayLength \in Nat \ {0} /\ day \in Int /\ StartOfDay(p.now) \in Int
<1>1. p \in Params /\ day \in Int
  BY DEF TInv, TypeOK
<1>2. /\ p.now \in Int /\ p.days \in Nat \ {0} /\ p.zone.before \in Int
      /\ p.dur \in Nat \ {0} /\ p.buf \in Nat /\ p.max \in Nat \ {0}
  BY <1>1 DEF Params
<1>3. StartOfDay(p.now) \in Int
  BY <1>1, <1>2, StartOfDayType
<1> QED
  BY <1>1, <1>2, <1>3, StrideType, GenerateAssumption

(* An interval of working hours of a day. *)
LEMMA HoursType ==
  ASSUME TInv, NEW d \in Int
  PROVE  /\ \A h \in p.hours[Weekday(d)] : /\ h \in Intervals /\ h.start \in 0..DayLength
                                           /\ h.end \in 0..DayLength /\ h.start < h.end
         /\ \A h, g \in p.hours[Weekday(d)] : h = g \/ Apart(h, g)
<1>1. \A h \in p.hours[Weekday(d)] : h \in Intervals
  BY CutsType
<1>2. \A h \in Intervals : h.start \in 0..DayLength /\ h.end \in 0..DayLength /\ h.start < h.end
  BY DEF Intervals
<1>3. p \in Inputs /\ Weekday(d) \in 0..Week-1
  BY WeekdayType DEF TInv, TypeOK
<1> QED
  BY <1>1, <1>2, <1>3, GenerateAssumption

(* A span all of whose minutes are free is workable, *)
LEMMA MinutesWorkable ==
  ASSUME TInv, NEW d \in Int, NEW h \in p.hours[Weekday(d)], NEW a \in Int, NEW b \in Int,
         h.start <= a, a < b, b <= h.end, \A x \in a..(b - 1) : FreeAt(d, x)
  PROVE  Workable(d, [start |-> a, end |-> b])
<1> DEFINE span == [start |-> a, end |-> b]
<1>1. ASSUME NEW c \in p.breaks[Weekday(d)] PROVE Apart(span, c)
  <2>1. c.start \in Int /\ c.end \in Int /\ c.start < c.end
    BY CutsType DEF Intervals
  <2> DEFINE x == IF c.start > a THEN c.start ELSE a
  <2>2. ~(b <= c.start) /\ ~(c.end <= a) => x \in a..(b - 1) /\ c.start <= x /\ x < c.end
    BY <2>1
  <2>3. x \in a..(b - 1) => Apart([start |-> x, end |-> x + 1], c)
    BY DEF FreeAt, Workable
  <2> HIDE DEF x
  <2>4. x \in a..(b - 1) /\ c.start <= x /\ x < c.end => FALSE
    BY <2>1, <2>3 DEF Apart
  <2> QED
    BY <2>2, <2>4 DEF Apart
<1>2. ASSUME NEW o \in p.timeOff
      PROVE  Apart([start |-> StartOfDay(d) + span.start, end |-> StartOfDay(d) + span.end], o)
  <2> DEFINE m == StartOfDay(d)
  <2>1. o.start \in Int /\ o.end \in Int /\ o.start < o.end /\ m \in Int
    BY StartOfDayType, GenerateAssumption DEF TInv, TypeOK, Params
  <2> DEFINE x == IF o.start > m + a THEN o.start - m ELSE a
  <2>2. ~(m + b <= o.start) /\ ~(o.end <= m + a) => x \in a..(b - 1) /\ o.start <= m + x /\ m + x < o.end
    BY <2>1
  <2>3. x \in a..(b - 1) => Apart([start |-> m + x, end |-> m + (x + 1)], o)
    BY DEF FreeAt, Workable
  <2> HIDE DEF x, m
  <2>4. x \in a..(b - 1) /\ o.start <= m + x /\ m + x < o.end => FALSE
    BY <2>1, <2>3 DEF Apart
  <2> QED
    BY <2>1, <2>2, <2>4 DEF Apart, m
<1> QED
  BY <1>1, <1>2 DEF Workable

(* and the minutes of a workable span are free. *)
LEMMA WorkableMinutes ==
  ASSUME TInv, NEW d \in Int, NEW iv \in Intervals, InHours(d, iv), \A c \in AllCuts(d) : Apart(iv, c),
         NEW x \in iv.start..(iv.end - 1)
  PROVE  FreeAt(d, x)
<1>1. iv.start \in 0..DayLength /\ iv.end \in 0..DayLength /\ DayLength \in Nat
  BY GenerateAssumption DEF Intervals
<1> DEFINE span == [start |-> x, end |-> x + 1]
<1>2. span \in Intervals /\ iv.start <= span.start /\ span.end <= iv.end
  BY <1>1 DEF Intervals
<1> HIDE DEF span
<1>3. Workable(d, span)
  BY <1>2, FreeIsWorkable
<1> QED
  BY <1>3 DEF FreeAt, span

LEMMA DivStrides ==
  ASSUME NEW x \in Nat, NEW n \in Nat, NEW m \in Nat \ {0}
  PROVE  n \in 0..(x \div m) <=> n * m <= x
<1> DEFINE q == x \div m
<1>1. q \in Int /\ m * q <= x /\ x < m * q + m
  BY DivBounds
<1> HIDE DEF q
<1>2. n * m = m * n /\ m * n \in Int /\ m * q \in Int
  BY <1>1, Times
<1>3. n <= q => m * n <= m * q
  BY <1>1, TimesMonotone
<1>4. q < n => m * q + m <= m * n
  BY <1>1, TimesNext
<1>5. n <= q <=> n * m <= x
  BY <1>1, <1>2, <1>3, <1>4
<1> QED
  BY <1>1, <1>5 DEF q

(* Every start that the loop reaches in a free interval is one of the rules. *)
LEMMA ReachedOnGrid ==
  ASSUME TInv, NEW d \in Int, NEW iv \in Intervals, InHours(d, iv), \A c \in AllCuts(d) : Apart(iv, c),
         \/ \E h \in p.hours[Weekday(d)] : h.start = iv.start /\ iv.end <= h.end
         \/ \E c \in AllCuts(d) : c.end = iv.start,
         NEW m \in Int, Reaches(iv, iv.start, m)
  PROVE  m \in 0..DayLength /\ StartOfDay(d) + m \in StartsOn(d)
<1>1. /\ iv.start \in 0..DayLength /\ iv.end \in 0..DayLength /\ iv.start < iv.end
      /\ p.dur \in Nat \ {0} /\ Stride \in Nat \ {0} /\ DayLength \in Nat
  BY ParamsType DEF Intervals
<1>a. iv.start <= m /\ \E n \in Nat : m = iv.start + n * Stride
  <2> DEFINE a == iv.start
  <2>1. a \in Int /\ After(a, m, Stride)
    BY <1>1 DEF Reaches
  <2> HIDE DEF a
  <2>2. a <= m /\ \E n \in Nat : m = a + n * Stride
    BY <1>1, <2>1, AfterType
  <2> QED
    BY <2>2 DEF a
<1>2. PICK n \in Nat : m = iv.start + n * Stride
  BY <1>a
<1>3. iv.start <= m /\ m + p.dur <= iv.end
  BY <1>a DEF Reaches
<1>4. PICK h \in p.hours[Weekday(d)] :
        /\ h.start <= iv.start /\ iv.end <= h.end
        /\ iv.start = h.start \/ ~FreeAt(d, iv.start - 1)
  <2>1. CASE \E h \in p.hours[Weekday(d)] : h.start = iv.start /\ iv.end <= h.end
    BY <1>1, <2>1
  <2>2. CASE \E c \in AllCuts(d) : c.end = iv.start
    <3>1. PICK c \in AllCuts(d) : c.end = iv.start
      BY <2>2
    <3>2. c.start \in 0..DayLength /\ c.start < c.end
      BY CutsType DEF AllCuts, Intervals
    <3> DEFINE x == iv.start - 1
               span == [start |-> x, end |-> x + 1]
    <3>3. x \in Int /\ c.start <= x /\ x < c.end /\ span \in Intervals
      BY <1>1, <3>1, <3>2 DEF Intervals
    <3>4. ~FreeAt(d, x)
      <4> SUFFICES ASSUME Workable(d, span) PROVE FALSE
        BY DEF FreeAt
      <4>1. span.start = x /\ span.end = x + 1
        OBVIOUS
      <4> HIDE DEF x, span
      <4>2. Apart(span, c)
        BY <3>1, <3>3, WorkableIsFree
      <4> QED
        BY <1>1, <3>1, <3>2, <3>3, <4>1, <4>2 DEF Apart
    <3> QED
      BY <3>4 DEF InHours
  <2> QED
    BY <2>1, <2>2
<1>5. h.start \in 0..DayLength /\ h.end \in 0..DayLength
  BY HoursType
<1>6. n \in 0..((m - h.start) \div Stride)
  <2>1. n * Stride = m - iv.start
    BY <1>1, <1>2
  <2>2. m - h.start \in Nat /\ n * Stride <= m - h.start
    BY <1>1, <1>3, <1>4, <1>5, <2>1
  <2> QED
    BY <1>1, <2>2, DivStrides
<1>7. m - n * Stride = iv.start
  BY <1>1, <1>2
<1>8. \A x \in iv.start..(m + p.dur - 1) : FreeAt(d, x)
  BY <1>1, <1>3, WorkableMinutes
<1>9. m \in h.start..(h.end - p.dur)
  BY <1>1, <1>3, <1>4, <1>5
<1>10. m \in GridOf(d, h)
  BY <1>4, <1>6, <1>7, <1>8, <1>9 DEF GridOf
<1> QED
  BY <1>1, <1>3, <1>10 DEF StartsOn

(* Every start that the rules give on the day is reached from the beginning of
   a free interval, once everything is cut away. *)
LEMMA GridReached ==
  ASSUME DInv, OrderInv, GapInv, pc = "cut", cuts = {},
         NEW h \in p.hours[Weekday(day)], NEW m \in GridOf(day, h)
  PROVE  m \in Int /\ \E iv \in free : Reaches(iv, iv.start, m)
<1>1. TInv /\ FreeInv /\ day \in Int /\ free \subseteq Intervals
  BY DEF DInv, RInv, TInv, TypeOK
<1>2. /\ p.dur \in Nat \ {0} /\ Stride \in Nat \ {0} /\ DayLength \in Nat
      /\ h.start \in 0..DayLength /\ h.end \in 0..DayLength
  BY <1>1, ParamsType, HoursType
<1>3. m \in h.start..(h.end - p.dur)
  BY DEF GridOf
<1>b. m \in Int /\ h.start <= m /\ m + p.dur <= h.end
  BY <1>2, <1>3
<1>4. PICK n \in 0..((m - h.start) \div Stride) :
        /\ m - n * Stride = h.start \/ ~FreeAt(day, m - n * Stride - 1)
        /\ \A x \in (m - n * Stride)..(m + p.dur - 1) : FreeAt(day, x)
  BY DEF GridOf
<1> DEFINE first == m - n * Stride
<1>5. n \in Nat /\ n * Stride <= m - h.start /\ n * Stride \in Nat
  <2>1. m - h.start \in Nat
    BY <1>2, <1>3
  <2>2. (m - h.start) \div Stride \in Int
    BY <1>2, <2>1, DivBounds
  <2>3. n \in Nat
    BY <2>2
  <2>4. n * Stride <= m - h.start
    BY <1>2, <2>1, <2>3, DivStrides
  <2>5. n * Stride \in Nat
    BY <1>2, <2>3
  <2> QED
    BY <2>3, <2>4, <2>5
<1>6. first \in Int /\ h.start <= first /\ first <= m /\ m = first + n * Stride
  BY <1>2, <1>3, <1>5
<1>7. first = h.start \/ ~FreeAt(day, first - 1)
  BY <1>4
<1> DEFINE span == [start |-> first, end |-> m + p.dur]
<1>8. Workable(day, span) /\ span \in Intervals
  <2>1. \A x \in first..((m + p.dur) - 1) : FreeAt(day, x)
    <3>1. m + p.dur - 1 = (m + p.dur) - 1
      BY <1>2, <1>b
    <3> QED
      BY <1>4, <3>1
  <2> HIDE DEF first
  <2>2. m + p.dur \in Int /\ first < m + p.dur /\ m + p.dur <= h.end
    BY <1>2, <1>3, <1>6
  <2>3. Workable(day, span)
    BY <1>1, <1>6, <2>1, <2>2, MinutesWorkable
  <2>4. span \in Intervals
    BY <1>2, <1>6, <2>2 DEF Intervals
  <2> QED
    BY <2>3, <2>4
<1> HIDE DEF first
<1>9. PICK iv \in free : iv.start <= first /\ m + p.dur <= iv.end
  <2>1. InHours(day, span) /\ \A c \in AllCuts(day) : Apart(span, c)
    BY <1>1, <1>8, WorkableIsFree
  <2>2. \E iv \in free : iv.start <= span.start /\ span.end <= iv.end
    BY <1>8, <2>1 DEF GapInv
  <2> QED
    BY <2>2
<1>10. iv \in Intervals /\ iv.start \in 0..DayLength /\ iv.end \in 0..DayLength /\ iv.start < iv.end
  BY <1>1 DEF Intervals
<1>11. InHours(day, iv) /\ \A c \in AllCuts(day) : Apart(iv, c)
  BY <1>1 DEF FreeInv
<1>12. iv.start = first
  <2> SUFFICES ASSUME iv.start < first PROVE FALSE
    BY <1>6, <1>9, <1>10
  <2>1. first - 1 \in iv.start..(iv.end - 1)
    BY <1>2, <1>3, <1>6, <1>9, <1>10
  <2>2. FreeAt(day, first - 1)
    BY <1>1, <1>10, <1>11, <2>1, WorkableMinutes
  <2>3. first = h.start
    BY <1>7, <2>2
  <2>4. PICK g \in p.hours[Weekday(day)] : g.start <= iv.start /\ iv.end <= g.end
    BY <1>11 DEF InHours
  <2>5. g.start \in Int /\ g.end \in Int
    BY <1>1, <2>4, HoursType
  <2>6. g = h \/ Apart(g, h)
    BY <1>1, <2>4, HoursType
  <2>7. first < iv.end /\ iv.start < first
    BY <1>2, <1>3, <1>6, <1>9, <1>10
  <2>8. g # h
    BY <1>10, <2>3, <2>4, <2>5, <2>7
  <2>9. g.end <= h.start \/ h.end <= g.start
    BY <2>6, <2>8 DEF Apart
  <2>10. first < h.end
    <3> HIDE DEF first
    <3> QED
      BY <1>2, <1>b, <1>6
  <2> QED
    BY <1>2, <1>10, <2>3, <2>4, <2>5, <2>7, <2>9, <2>10
<1>13. After(iv.start, m, Stride)
  BY <1>2, <1>3, <1>5, <1>6, <1>12, AfterBy
<1> QED
  BY <1>3, <1>9, <1>13, <1>2 DEF Reaches

-----------------------------------------------------------------------------
(* The midnights of a zone whose clock does not change are DayLength apart. *)
LEMMA Calendar ==
  ASSUME TInv, Regular, NEW n \in Nat, NEW d \in Int, d = StartOfDay(p.now) + n * DayLength
  PROVE  /\ StartOfDay(d) = d /\ StartOfDay(p.now + n * DayLength) = d
         /\ (d + p.zone.before) \div DayLength = (p.now + n * DayLength + p.zone.before) \div DayLength
         /\ Clock(d) \div DayLength = Clock(p.now + n * DayLength) \div DayLength
         /\ \A k \in Int : SameDay(k, d) <=> d <= k /\ k < d + DayLength
<1> DEFINE off == p.zone.before
           q == (p.now + off) \div DayLength
           e == p.now + n * DayLength
<1>1. /\ p \in Params /\ p.now \in Int /\ off \in Int /\ DayLength \in Nat \ {0} /\ p.now + off \in Int
      /\ StartOfDay(p.now) \in Int
  BY ParamsType
<1>2. q \in Int
  BY <1>1, DivBounds
<1>3. n * DayLength \in Int /\ e \in Int
  BY <1>1
<1>4. StartOfDay(p.now) = DayLength * q - off
  BY <1>1, RegularDay
<1> HIDE DEF q
<1>5. (e + off) \div DayLength = q + n
  <2>1. e + off = (p.now + off) + n * DayLength
    BY <1>1, <1>3
  <2> DEFINE a == p.now + off
             c == e + off
  <2>2. a \in Int /\ c = a + n * DayLength
    BY <1>1, <2>1
  <2> HIDE DEF a, c
  <2>3. c \div DayLength = (a \div DayLength) + n
    BY <1>1, <2>2, DivShift
  <2> QED
    BY <2>3 DEF a, c, q
<1>6. DayLength * (q + n) = DayLength * q + n * DayLength /\ DayLength * q \in Int
  BY <1>1, <1>2
<1>7. d + off = DayLength * (q + n)
  BY <1>1, <1>3, <1>4, <1>6
<1>8. (d + off) \div DayLength = q + n
  BY <1>1, <1>2, <1>7, MultipleDiv
<1>9. StartOfDay(d) = DayLength * (q + n) - off /\ StartOfDay(e) = DayLength * (q + n) - off
  <2> HIDE DEF off, e
  <2>1. \A u \in Int : StartOfDay(u) = DayLength * ((u + off) \div DayLength) - off
    BY <1>1, RegularDay DEF off
  <2> QED
    BY <1>3, <1>5, <1>8, <2>1
<1>10. DayLength * (q + n) - off = d
  BY <1>1, <1>3, <1>7
<1>11. \A u : Clock(u) = u + off
  BY <1>1 DEF Clock, Offset, Regular
<1>12. ASSUME NEW k \in Int PROVE SameDay(k, d) <=> d <= k /\ k < d + DayLength
  <2> DEFINE c == (k + off) \div DayLength
  <2>1. c \in Int /\ DayLength * c <= k + off /\ k + off < DayLength * c + DayLength
    <3>1. k + off \in Int
      BY <1>1
    <3> HIDE DEF off
    <3> QED
      BY <1>1, <3>1, DivBounds
  <2>2. SameDay(k, d) <=> c = q + n
    BY <1>8 DEF SameDay
  <2>3. ASSUME d <= k, k < d + DayLength PROVE c = q + n
    <3>1. k + off \in Int /\ q + n \in Int
      BY <1>1, <1>2
    <3>2. DayLength * (q + n) \in Int
      BY <1>3, <1>6
    <3>3. DayLength * (q + n) <= k + off /\ k + off < DayLength * (q + n) + DayLength
      <4> DEFINE z == DayLength * (q + n)
      <4>1. z = d + off
        BY <1>7
      <4> HIDE DEF z, off
      <4>2. z <= k + off /\ k + off < z + DayLength
        BY <1>1, <2>3, <4>1
      <4> QED
        BY <4>2 DEF z
    <3> QED
      BY <1>1, <3>1, <3>3, DivUnique
  <2>4. ASSUME c = q + n PROVE d <= k /\ k < d + DayLength
    <3> DEFINE z == DayLength * (q + n)
    <3>1. z = d + off /\ z <= k + off /\ k + off < z + DayLength
      BY <1>7, <2>1, <2>4
    <3> HIDE DEF z, off, c
    <3> QED
      BY <1>1, <3>1
  <2> QED
    BY <2>2, <2>3, <2>4
<1> QED
  BY <1>5, <1>8, <1>9, <1>10, <1>11, <1>12

LEMMA DayNumber ==
  ASSUME TInv, NEW d \in Int, IsDay(d)
  PROVE  \E n \in Nat : d = StartOfDay(p.now) + n * DayLength
  BY ParamsType, AfterType DEF IsDay

(* What is kept of a day is what the reference counts. *)
LEMMA KeptReference ==
  ASSUME TInv, Regular, NEW d \in Int, IsDay(d)
  PROVE  /\ StartOfDay(d) = d
         /\ KeptOn(d) = Cardinality({k \in p.kept : SameDay(k, d)}) /\ KeptOn(d) \in Nat
<1>1. PICK n \in Nat : d = StartOfDay(p.now) + n * DayLength
  BY DayNumber
<1>2. p.kept \subseteq Int /\ IsFiniteSet(p.kept)
  BY GenerateAssumption DEF TInv, TypeOK, Params
<1>3. StartOfDay(d) = d /\ \A k \in Int : SameDay(k, d) <=> d <= k /\ k < d + DayLength
  BY <1>1, Calendar
<1>4. {k \in p.kept : SameDay(k, d)} = {k \in p.kept : StartOfDay(d) <= k /\ k < StartOfDay(d) + DayLength}
  BY <1>2, <1>3
<1>5. IsFiniteSet({k \in p.kept : SameDay(k, d)})
  BY <1>2, FS_Subset
<1> QED
  BY <1>3, <1>4, <1>5, FS_CardinalityType DEF KeptOn

(* A day is the same by its midnight and by the time of the request. *)
LEMMA SameReference ==
  ASSUME TInv, Regular, NEW n \in Nat, NEW d \in Int, d = StartOfDay(p.now) + n * DayLength
  PROVE  ReferenceOn(p.now + n * DayLength) = ReferenceOn(d)
<1> DEFINE e == p.now + n * DayLength
<1>1. StartOfDay(e) = StartOfDay(d) /\ Weekday(e) = Weekday(d) /\ \A k : SameDay(k, e) <=> SameDay(k, d)
  BY Calendar DEF Weekday, SameDay
<1> HIDE DEF e
<1>2. \A iv : Workable(e, iv) <=> Workable(d, iv)
  BY <1>1 DEF Workable
<1>3. \A h : GridOf(e, h) = GridOf(d, h)
  BY <1>2 DEF GridOf, FreeAt
<1>4. Wanted(e) = Wanted(d)
  BY <1>1, <1>3 DEF Wanted, StartsOn
<1>5. \A u : ReferenceOn(u) =
        {s \in Wanted(u) : Cardinality({x \in Wanted(u) : x < s})
                             + Cardinality({k \in p.kept : SameDay(k, u)}) < p.max}
  BY DEF ReferenceOn, Wanted, StartsOn
<1>6. ReferenceOn(e) = ReferenceOn(d)
  BY <1>1, <1>4, <1>5
<1> QED
  BY <1>6 DEF e

-----------------------------------------------------------------------------
LEMMA WantedType ==
  ASSUME TInv, NEW d \in Int
  PROVE  /\ Wanted(d) \subseteq StartsOn(d) /\ Wanted(d) \subseteq Int /\ IsFiniteSet(Wanted(d))
         /\ StartsOn(d) \subseteq StartOfDay(d)..(StartOfDay(d) + DayLength)
<1>1. StartOfDay(d) \in Int /\ DayLength \in Nat /\ p.dur \in Nat
  BY ParamsType, StartOfDayType
<1>2. ASSUME NEW h \in p.hours[Weekday(d)], NEW m \in GridOf(d, h) PROVE m \in 0..DayLength
  <2>1. h.start \in 0..DayLength /\ h.end \in 0..DayLength
    BY HoursType
  <2>2. m \in h.start..(h.end - p.dur)
    BY DEF GridOf
  <2> QED
    BY <1>1, <2>1, <2>2
<1>3. \A m \in 0..DayLength : StartOfDay(d) + m \in StartOfDay(d)..(StartOfDay(d) + DayLength)
  BY <1>1
<1>4. StartsOn(d) \subseteq StartOfDay(d)..(StartOfDay(d) + DayLength)
  BY <1>2, <1>3 DEF StartsOn
<1>5. Wanted(d) \subseteq StartsOn(d)
  BY DEF Wanted
<1>6. IsFiniteSet(Wanted(d))
  <2> DEFINE a == StartOfDay(d)
             b == a + DayLength
  <2>1. a \in Int /\ b \in Int /\ Wanted(d) \in SUBSET (a..b)
    BY <1>1, <1>4, <1>5
  <2> HIDE DEF a, b
  <2> QED
    BY <2>1, FS_Interval, FS_Subset
<1>7. StartOfDay(d)..(StartOfDay(d) + DayLength) \subseteq Int
  BY <1>1
<1> QED
  BY <1>4, <1>5, <1>6, <1>7

LEMMA ReferenceByWanted ==
  \A d : ReferenceOn(d) =
    {s \in Wanted(d) : Cardinality({u \in Wanted(d) : u < s})
                         + Cardinality({k \in p.kept : SameDay(k, d)}) < p.max}
  BY DEF ReferenceOn, Wanted, StartsOn

(* The earliest wanted starts, as many as the day has room for, are those of
   the reference. *)
LEMMA EarliestWanted ==
  ASSUME TInv, Regular, NEW d \in Int, IsDay(d), NEW T, T \subseteq Wanted(d),
         \A s \in Wanted(d) \ T : \A u \in T : u < s,
         T # {} => KeptOn(d) + Cardinality(T) <= p.max,
         KeptOn(d) + Cardinality(T) < p.max => T = Wanted(d)
  PROVE  T = ReferenceOn(d)
<1> DEFINE Before(s) == {u \in Wanted(d) : u < s}
           kept == Cardinality({k \in p.kept : SameDay(k, d)})
<1>1. ReferenceOn(d) = {s \in Wanted(d) : Cardinality(Before(s)) + kept < p.max}
  BY ReferenceByWanted
<1>2. KeptOn(d) = kept /\ kept \in Nat /\ p.max \in Nat
  BY KeptReference, ParamsType
<1> HIDE DEF kept
<1>3. Wanted(d) \subseteq Int /\ IsFiniteSet(Wanted(d))
  BY WantedType
<1>4. IsFiniteSet(T) /\ Cardinality(T) \in Nat
  BY <1>3, FS_Subset, FS_CardinalityType
<1>5. ASSUME NEW s \in Wanted(d)
      PROVE  IsFiniteSet(Before(s)) /\ Cardinality(Before(s)) \in Nat
  BY <1>3, FS_Subset, FS_CardinalityType
<1>6. ASSUME NEW s \in T PROVE Cardinality(Before(s)) + kept < p.max
  <2>1. s \in Wanted(d) /\ s \in Int
    BY <1>3
  <2>2. Before(s) \subseteq T \ {s}
    <3>1. ASSUME NEW u \in Wanted(d), u < s, u \notin T PROVE FALSE
      <4>1. s < u
        BY <3>1
      <4> QED
        BY <1>3, <2>1, <3>1, <4>1
    <3> QED
      BY <1>3, <2>1, <3>1
  <2> HIDE DEF Before
  <2>3. IsFiniteSet(T \ {s}) /\ Cardinality(T \ {s}) = Cardinality(T) - 1
    BY <1>4, FS_RemoveElement
  <2>4. Cardinality(Before(s)) <= Cardinality(T \ {s})
    BY <2>2, <2>3, FS_Subset
  <2> QED
    BY <1>2, <1>4, <1>5, <2>1, <2>3, <2>4
<1>7. ASSUME NEW s \in Wanted(d) \ T PROVE ~(Cardinality(Before(s)) + kept < p.max)
  <2>1. T \subseteq Before(s)
    OBVIOUS
  <2> HIDE DEF Before
  <2>2. Cardinality(T) <= Cardinality(Before(s))
    BY <1>5, <2>1, FS_Subset
  <2>3. ~(KeptOn(d) + Cardinality(T) < p.max)
    BY <1>7
  <2> QED
    BY <1>2, <1>4, <1>5, <2>2, <2>3
<1> HIDE DEF Before
<1> QED
  BY <1>1, <1>6, <1>7

(* The day that is over has what it is to have. *)
LEMMA DayOver ==
  ASSUME TInv, Regular, TodayInv, PastInv, pc = "interval", free = {}
  PROVE  TakenOn(day) = ReferenceOn(day)
<1> DEFINE T == TakenOn(day)
<1>1. day \in Int /\ IsDay(day)
  BY ParamsType DEF PastInv
<1>2. /\ T \subseteq Wanted(day)
      /\ \A s \in Wanted(day) \ T : \A u \in T : u < s
      /\ today = KeptOn(day) + Cardinality(T)
      /\ T # {} => today <= p.max
      /\ \A s \in Wanted(day) \ T : today < p.max => ToCome(s - day)
  BY DEF TodayInv
<1>3. \A m : ~ToCome(m)
  BY DEF ToCome
<1> HIDE DEF T
<1>4. today < p.max => T = Wanted(day)
  BY <1>2, <1>3
<1>5. T = ReferenceOn(day)
  BY <1>1, <1>2, <1>4, EarliestWanted
<1> QED
  BY <1>5 DEF T

LEMMA TakenStable ==
  ASSUME out' = out
  PROVE  \A d : TakenOn(d)' = TakenOn(d)
  BY DEF TakenOn

LEMMA TakenMore ==
  ASSUME TInv, NEW k, out' = Append(out, k), NEW d
  PROVE  TakenOn(d)' = IF k.on = d THEN TakenOn(d) \cup {k.start} ELSE TakenOn(d)
<1>1. /\ DOMAIN out' = DOMAIN out \cup {Len(out) + 1}
      /\ out'[Len(out) + 1] = k /\ \A i \in DOMAIN out : out'[i] = out[i]
  BY DEF TInv, TypeOK
<1>2. TakenOn(d)' = {out'[i].start : i \in {j \in DOMAIN out' : out'[j].on = d}}
  BY DEF TakenOn
<1> QED
  BY <1>1, <1>2 DEF TakenOn

-----------------------------------------------------------------------------
LEMMA ReferenceInit == Init => MInv
<1> SUFFICES ASSUME Init, Regular PROVE EdgeInv /\ TodayInv /\ PastInv
  BY GapInit DEF MInv
<1>1. TInv
  BY TypeInit
<1>2. pc = "day" /\ out = <<>>
  BY DEF Init
<1>3. day = StartOfDay(p.now)
  <2>1. Midnight(StartOfDay(p.now))
    BY <1>1, ParamsType, MidnightStart
  <2> QED
    BY <2>1 DEF Init, WindowStart, Midnight
<1>4. IsDay(day)
  BY <1>1, <1>3, ParamsType, AfterHere DEF IsDay
<1>5. StartOfDay(p.now)..(day - 1) = {}
  BY <1>1, <1>3, ParamsType
<1> QED
  BY <1>2, <1>4, <1>5 DEF EdgeInv, TodayInv, PastInv

(* What holds before a step of a regular zone. *)
LEMMA ReferenceBefore ==
  ASSUME MInv, Regular
  PROVE  /\ TInv /\ RInv /\ DInv /\ BInv /\ FreeInv /\ OrderInv /\ GapInv /\ EdgeInv /\ TodayInv /\ PastInv
         /\ day \in Int /\ t \in Nat /\ today \in Nat /\ free \subseteq Intervals /\ cuts \subseteq Intervals
         /\ StartOfDay(day) = day
  BY DEF MInv, BInv, DInv, RInv, TInv, TypeOK, OrderInv, Midnight

LEMMA SubtractEdge ==
  ASSUME MInv, Regular, p' = p, Subtract
  PROVE  EdgeInv'
<1>1. /\ FreeInv /\ EdgeInv /\ free \subseteq Intervals /\ cuts \subseteq Intervals
  BY ReferenceBefore
<1>2. PICK c \in cuts : free' = UNION {SubtractOne(iv, c) : iv \in free} /\ cuts' = cuts \ {c}
  BY DEF Subtract
<1>3. pc = "cut" /\ day' = day
  BY DEF Subtract
<1>4. c \in AllCuts(day) \ cuts'
  BY <1>1, <1>2, <1>3 DEF FreeInv
<1>5. ASSUME NEW iv \in free'
      PROVE  \/ \E h \in p.hours[Weekday(day)] : h.start = iv.start /\ iv.end <= h.end
             \/ \E e \in AllCuts(day) \ cuts' : e.end = iv.start
  <2>1. PICK base \in free : iv \in SubtractOne(base, c)
    BY <1>2
  <2>2. iv \in Intervals /\ base \in Intervals /\ base.start <= iv.start /\ iv.end <= base.end
    BY <1>1, <2>1, SubtractOneCorrect
  <2>3. iv.start = base.start \/ iv.start = c.end
    BY <2>1 DEF SubtractOne
  <2>4. CASE iv.start = c.end
    BY <1>4, <2>4
  <2>5. CASE iv.start = base.start
    <3>1. CASE \E e \in AllCuts(day) \ cuts : e.end = base.start
      BY <1>2, <2>5, <3>1
    <3>2. CASE \E h \in p.hours[Weekday(day)] : h.start = base.start /\ base.end <= h.end
      <4>1. PICK h \in p.hours[Weekday(day)] : h.start = base.start /\ base.end <= h.end
        BY <3>2
      <4>2. h.end \in Int /\ base.end \in Int /\ iv.end \in Int
        BY <1>1, <2>2, HoursType, ReferenceBefore DEF Intervals
      <4>3. iv.end <= h.end
        BY <2>2, <4>1, <4>2
      <4> QED
        BY <2>5, <4>1, <4>3
    <3> QED
      BY <1>1, <1>3, <3>1, <3>2 DEF EdgeInv
  <2> QED
    BY <2>3, <2>4, <2>5
<1>6. /\ \A d : AllCuts(d)' = AllCuts(d) /\ \A u : Weekday(u)' = Weekday(u)
  BY ParamsStable
<1> QED
  BY <1>3, <1>5, <1>6 DEF EdgeInv

LEMMA EdgeStep ==
  ASSUME MInv, Regular, p' = p, [Next]_vars
  PROVE  EdgeInv'
<1>1. CASE Subtract
  BY <1>1, SubtractEdge
<1>2. CASE BeginDay
  <2>1. \A h \in p.hours[Weekday(day)] : h.start = h.start /\ h.end <= h.end
    BY ReferenceBefore, HoursType
  <2>2. Weekday(day)' = Weekday(day)
    BY <1>2, ParamsStable DEF BeginDay
  <2> QED
    BY <1>2, <2>1, <2>2 DEF BeginDay, EdgeInv
<1>3. CASE UNCHANGED vars
  <2>1. \A d : AllCuts(d)' = AllCuts(d) /\ \A u : Weekday(u)' = Weekday(u)
    BY ParamsStable
  <2> QED
    BY <1>3, <2>1, ReferenceBefore DEF vars, EdgeInv
<1>4. CASE CountDay \/ BeginInterval \/ Skip \/ Take \/ EndInterval \/ EndDay \/ Return
  BY <1>4 DEF CountDay, BeginInterval, Skip, Take, EndInterval, EndDay, Return, EdgeInv
<1> QED
  BY <1>1, <1>2, <1>3, <1>4 DEF Next

-----------------------------------------------------------------------------
(* The past stays as it is. *)
LEMMA PastStable ==
  ASSUME PastInv, p' = p, day' = day, out' = out, pc' = "done" => ~More
  PROVE  PastInv'
<1>1. /\ \A d : ReferenceOn(d)' = ReferenceOn(d) /\ (IsDay(d)' <=> IsDay(d))
      /\ More' <=> More
      /\ StartOfDay(p.now)' = StartOfDay(p.now)
  BY ReferenceStable DEF More
<1>2. \A d : TakenOn(d)' = TakenOn(d)
  BY TakenStable
<1> QED
  BY <1>1, <1>2 DEF PastInv

LEMMA TakePast ==
  ASSUME MInv, Regular, p' = p, Take
  PROVE  PastInv'
<1>1. TInv /\ PastInv /\ day \in Int
  BY ReferenceBefore
<1>2. /\ \A d : ReferenceOn(d)' = ReferenceOn(d) /\ (IsDay(d)' <=> IsDay(d))
      /\ StartOfDay(p.now)' = StartOfDay(p.now) /\ StartOfDay(p.now) \in Int
  BY <1>1, ReferenceStable, ParamsType
<1> DEFINE k == [start |-> StartAt, end |-> StartAt + p.dur, on |-> day]
<1>3. out' = Append(out, k) /\ k.on = day /\ day' = day /\ pc' = "step"
  BY DEF Take
<1> HIDE DEF k
<1>4. ASSUME NEW i \in DOMAIN out' PROVE IsDay(out'[i].on)
  <2>1. DOMAIN out' = DOMAIN out \cup {Len(out) + 1}
        /\ out'[Len(out) + 1] = k /\ \A j \in DOMAIN out : out'[j] = out[j]
    BY <1>1, <1>3 DEF TInv, TypeOK
  <2> QED
    BY <1>1, <1>3, <2>1 DEF PastInv
<1>5. ASSUME NEW d \in StartOfDay(p.now)..(day - 1), IsDay(d) PROVE TakenOn(d)' = ReferenceOn(d)
  <2>1. d # day
    BY <1>1, <1>2
  <2>2. TakenOn(d)' = TakenOn(d)
    BY <1>1, <1>3, <2>1, TakenMore
  <2> QED
    BY <1>1, <1>5, <2>2 DEF PastInv
<1> QED
  BY <1>1, <1>2, <1>3, <1>4, <1>5 DEF PastInv

LEMMA EndDayPast ==
  ASSUME MInv, Regular, p' = p, EndDay
  PROVE  PastInv'
<1>1. TInv /\ PastInv /\ TodayInv /\ day \in Int /\ StartOfDay(day) = day
  BY ReferenceBefore
<1> DEFINE first == StartOfDay(p.now)
<1>2. first \in Int /\ DayLength \in Nat \ {0} /\ p \in Params
  BY <1>1, ParamsType
<1>3. day' = day + DayLength /\ out' = out /\ pc' = "day" /\ pc = "interval" /\ free = {}
  BY <1>1, <1>2, RegularDay DEF EndDay
<1>4. /\ \A d : ReferenceOn(d)' = ReferenceOn(d) /\ (IsDay(d)' <=> IsDay(d))
      /\ first' = first /\ \A d : TakenOn(d)' = TakenOn(d)
  BY <1>3, ReferenceStable, TakenStable
<1>5. IsDay(day')
  <2>1. PICK n \in Nat : day = first + n * DayLength
    BY <1>1, DayNumber DEF PastInv
  <2> HIDE DEF first
  <2> DEFINE k == n + 1
  <2>2. (n + 1) * DayLength = n * DayLength + DayLength /\ n * DayLength \in Int
    BY <1>2
  <2>3. k \in Nat /\ day' = first + k * DayLength /\ day' \in Int
    BY <1>1, <1>2, <1>3, <2>1, <2>2
  <2> HIDE DEF k
  <2> QED
    BY <1>2, <2>3, AfterBy DEF IsDay, first
<1>6. ASSUME NEW d \in first..(day' - 1), IsDay(d) PROVE TakenOn(d) = ReferenceOn(d)
  <2>1. CASE d < day
    <3>1. d \in first..(day - 1)
      BY <1>1, <1>2, <1>3, <2>1
    <3> QED
      BY <1>1, <1>6, <3>1 DEF PastInv
  <2>2. CASE day <= d
    <3>1. d \in Int /\ d < day + DayLength
      BY <1>1, <1>2, <1>3
    <3>2. d = day
      BY <1>1, <1>2, <1>6, <2>2, <3>1, AfterGap DEF IsDay, PastInv
    <3> QED
      BY <1>1, <1>3, <3>2, DayOver
  <2> QED
    BY <1>1, <1>2, <1>3, <2>1, <2>2
<1> HIDE DEF first
<1>7. \A i \in DOMAIN out : IsDay(out[i].on)
  BY <1>1 DEF PastInv
<1> QED
  BY <1>3, <1>4, <1>5, <1>6, <1>7 DEF PastInv, first

LEMMA PastStep ==
  ASSUME MInv, Regular, p' = p, [Next]_vars
  PROVE  PastInv'
<1>0. PastInv
  BY ReferenceBefore
<1>1. CASE Take
  BY <1>1, TakePast
<1>2. CASE EndDay
  BY <1>2, EndDayPast
<1>3. CASE Return
  BY <1>0, <1>3, PastStable DEF Return
<1>4. CASE UNCHANGED vars
  BY <1>0, <1>4, PastStable DEF vars, PastInv
<1>5. CASE BeginDay \/ Subtract \/ CountDay \/ BeginInterval \/ Skip \/ EndInterval
  BY <1>0, <1>5, PastStable DEF BeginDay, Subtract, CountDay, BeginInterval, Skip, EndInterval
<1> QED
  BY <1>1, <1>2, <1>3, <1>4, <1>5 DEF Next

-----------------------------------------------------------------------------
(* What the loop can still come to, after a step. *)
LEMMA ToComeNext ==
  ASSUME p' = p, free' = free, NEW m
  PROVE  /\ Earliest' = Earliest
         /\ ToCome(m)' <=> \/ pc' = "interval" /\ \E iv \in free : Reaches(iv, iv.start, m)
                           \/ pc' = "step" /\ (Reaches(Earliest, t', m) \/ \E iv \in free \ {Earliest} : Reaches(iv, iv.start, m))
<1>1. Stride' = Stride /\ Earliest' = Earliest
  BY DEF Stride, Earliest
<1> QED
  BY <1>1 DEF ToCome, Reaches

(* A step that takes nothing keeps the day in order if it loses no start. *)
LEMMA TodayKept ==
  ASSUME TInv, TodayInv, p' = p, day' = day, out' = out, today' = today, pc \in {"interval", "step"},
         \A m \in Int : ToCome(m)' => ToCome(m),
         \A m \in Int : today < p.max /\ day + m \in Wanted(day) /\ ToCome(m) => ToCome(m)'
  PROVE  TodayInv'
<1>1. day \in Int /\ Wanted(day) \subseteq Int /\ DayLength \in Nat
  BY ParamsType, WantedType
<1>2. /\ KeptOn(day)' = KeptOn(day) /\ StartsOn(day)' = StartsOn(day) /\ Wanted(day)' = Wanted(day)
      /\ TakenOn(day)' = TakenOn(day)
  BY ReferenceStable, TakenStable
<1>3. \A m \in 0..DayLength : ToCome(m)' => day + m \in StartsOn(day)
  BY <1>1 DEF TodayInv
<1>4. ASSUME NEW s \in Wanted(day) \ TakenOn(day), today < p.max PROVE ToCome(s - day)'
  <2> DEFINE m == s - day
  <2>1. m \in Int /\ day + m = s
    BY <1>1
  <2>2. ToCome(m) /\ m' = m
    BY <1>4 DEF TodayInv
  <2> HIDE DEF m
  <2>3. ToCome(m)'
    BY <1>4, <2>1, <2>2
  <2> QED
    BY <2>3 DEF m
<1> QED
  BY <1>2, <1>3, <1>4 DEF TodayInv

LEMMA SkipToday ==
  ASSUME MInv, Regular, p' = p, Skip
  PROVE  TodayInv'
<1>1. TInv /\ TodayInv /\ day \in Int /\ t \in Nat /\ StartOfDay(day) = day /\ Stride \in Nat \ {0}
  BY ReferenceBefore, ParamsType
<1>2. /\ pc = "step" /\ pc' = "step" /\ free' = free /\ t' = t + Stride
      /\ day' = day /\ out' = out /\ today' = today
  BY DEF Skip
<1>3. day + t \notin Wanted(day)
  BY <1>1 DEF Skip, StartAt, Wanted
<1>4. ASSUME NEW m \in Int PROVE Reaches(Earliest, t, m) <=> (m = t /\ m + p.dur <= Earliest.end) \/ Reaches(Earliest, t', m)
  <2>1. After(t, m, Stride) <=> m = t \/ After(t', m, Stride)
    BY <1>1, <1>2, AfterNext
  <2> QED
    BY <2>1 DEF Reaches
<1>5. \A m \in Int : ToCome(m)' => ToCome(m)
  BY <1>2, <1>4, ToComeNext DEF ToCome
<1>6. \A m \in Int : day + m \in Wanted(day) /\ ToCome(m) => ToCome(m)'
  BY <1>2, <1>3, <1>4, ToComeNext DEF ToCome
<1> QED
  BY <1>1, <1>2, <1>5, <1>6, TodayKept

LEMMA BeginIntervalToday ==
  ASSUME MInv, Regular, p' = p, BeginInterval
  PROVE  TodayInv'
<1>1. TInv /\ TodayInv /\ Earliest \in free
  BY ReferenceBefore, EarliestIn DEF BeginInterval
<1>2. /\ pc = "interval" /\ pc' = "step" /\ free' = free /\ t' = Earliest.start
      /\ day' = day /\ out' = out /\ today' = today
  BY DEF BeginInterval
<1>3. \A m : ToCome(m)' <=> ToCome(m)
  BY <1>1, <1>2, ToComeNext DEF ToCome
<1> QED
  BY <1>1, <1>2, <1>3, TodayKept

LEMMA EndIntervalToday ==
  ASSUME MInv, Regular, p' = p, EndInterval
  PROVE  TodayInv'
<1>1. /\ TInv /\ TodayInv /\ FreeInv /\ t \in Nat /\ today \in Nat /\ free \subseteq Intervals
      /\ p.max \in Nat /\ p.dur \in Nat /\ Stride \in Nat \ {0}
  BY ReferenceBefore, ParamsType
<1>2. /\ pc = "step" /\ pc' = "interval" /\ day' = day /\ out' = out /\ today' = today
      /\ free' = IF today >= p.max THEN {} ELSE free \ {Earliest}
  BY DEF EndInterval
<1>3. Earliest.end \in Int
  BY <1>1, <1>2, EarliestIn, OrderTypes DEF FreeInv
<1>4. \A m : ToCome(m)' <=> \E iv \in free' : Reaches(iv, iv.start, m)
  <2>1. Stride' = Stride
    BY DEF Stride
  <2> QED
    BY <1>2, <2>1 DEF ToCome, Reaches
<1>5. \A m \in Int : ToCome(m)' => ToCome(m)
  BY <1>2, <1>4 DEF ToCome
<1>6. ASSUME NEW m \in Int, today < p.max, ToCome(m) PROVE ToCome(m)'
  <2>1. ~(today >= p.max)
    BY <1>1, <1>6
  <2>2. ~(t + p.dur <= Earliest.end)
    BY <2>1 DEF EndInterval, Fits
  <2>3. ~Reaches(Earliest, t, m)
    <3> SUFFICES ASSUME After(t, m, Stride), m + p.dur <= Earliest.end PROVE FALSE
      BY DEF Reaches
    <3>1. t <= m
      BY <1>1, AfterType
    <3> QED
      BY <1>1, <1>3, <2>2, <3>1
  <2> QED
    BY <1>2, <1>4, <1>6, <2>1, <2>3 DEF ToCome
<1> QED
  BY <1>1, <1>2, <1>5, <1>6, TodayKept

LEMMA CountDayToday ==
  ASSUME MInv, Regular, p' = p, CountDay
  PROVE  TodayInv'
<1>1. /\ TInv /\ DInv /\ FreeInv /\ OrderInv /\ GapInv /\ EdgeInv /\ PastInv /\ day \in Int
      /\ free \subseteq Intervals /\ StartOfDay(day) = day /\ DayLength \in Nat
  BY ReferenceBefore, ParamsType
<1>2. /\ pc = "cut" /\ cuts = {} /\ pc' = "interval" /\ free' = free /\ day' = day /\ out' = out
      /\ today' = KeptOn(day)
  BY DEF CountDay
<1>3. /\ KeptOn(day)' = KeptOn(day) /\ StartsOn(day)' = StartsOn(day) /\ Wanted(day)' = Wanted(day)
      /\ TakenOn(day)' = TakenOn(day)
  BY <1>2, ReferenceStable, TakenStable
<1>4. TakenOn(day) = {}
  <2>1. \A i \in DOMAIN out : out[i].on # day
    BY <1>1, <1>2 DEF GapInv
  <2> QED
    BY <2>1 DEF TakenOn
<1>5. \A m : ToCome(m)' <=> \E iv \in free : Reaches(iv, iv.start, m)
  BY <1>2, ToComeNext
<1>6. ASSUME NEW m \in 0..DayLength, NEW iv \in free, Reaches(iv, iv.start, m)
      PROVE  day + m \in StartsOn(day)
  <2>1. InHours(day, iv) /\ \A c \in AllCuts(day) : Apart(iv, c)
    BY <1>1, <1>2 DEF FreeInv
  <2>2. \/ \E h \in p.hours[Weekday(day)] : h.start = iv.start /\ iv.end <= h.end
        \/ \E c \in AllCuts(day) : c.end = iv.start
    BY <1>1, <1>2 DEF EdgeInv
  <2> QED
    BY <1>1, <1>6, <2>1, <2>2, ReachedOnGrid
<1>7. ASSUME NEW s \in Wanted(day) PROVE \E iv \in free : Reaches(iv, iv.start, s - day)
  <2>1. PICK h \in p.hours[Weekday(day)] : \E m \in GridOf(day, h) : s = day + m
    BY <1>1 DEF Wanted, StartsOn
  <2>2. PICK m \in GridOf(day, h) : s = day + m
    BY <2>1
  <2>3. m \in Int /\ \E iv \in free : Reaches(iv, iv.start, m)
    BY <1>1, <1>2, GridReached
  <2>4. s - day = m
    BY <1>1, <2>2, <2>3
  <2> QED
    BY <2>3, <2>4
<1>8. today' = KeptOn(day) + Cardinality({})
  <2>1. KeptOn(day) \in Nat
    BY <1>1, KeptReference DEF PastInv
  <2>2. Cardinality({}) = 0
    BY FS_EmptySet
  <2> QED
    BY <1>2, <2>1, <2>2
<1>9. ASSUME NEW s \in Wanted(day) PROVE ToCome(s - day)'
  <2> DEFINE m == s - day
  <2>1. \E iv \in free : Reaches(iv, iv.start, m)
    BY <1>7
  <2>2. m' = m
    BY <1>2
  <2> HIDE DEF m
  <2>3. ToCome(m)'
    BY <1>5, <2>1, <2>2
  <2> QED
    BY <2>3 DEF m
<1> QED
  BY <1>2, <1>3, <1>4, <1>5, <1>6, <1>8, <1>9 DEF TodayInv

(* Taking a start: it is the next of the wanted ones. *)
LEMMA TakeToday ==
  ASSUME MInv, Regular, p' = p, Take
  PROVE  TodayInv'
<1>1. /\ TInv /\ FreeInv /\ OrderInv /\ GapInv /\ TodayInv /\ PastInv
      /\ day \in Int /\ t \in Nat /\ today \in Nat /\ free \subseteq Intervals /\ StartOfDay(day) = day
      /\ p.dur \in Nat \ {0} /\ p.max \in Nat /\ Stride \in Nat \ {0} /\ DayLength \in Nat
  BY ReferenceBefore, ParamsType
<1>2. /\ pc = "step" /\ pc' = "step" /\ free' = free /\ free # {} /\ t' = t + Stride /\ day' = day
      /\ today' = today + 1 /\ today < p.max /\ t + p.dur <= Earliest.end /\ Candidate(day + t)
  BY <1>1 DEF Take, Fits, StartAt, FreeInv
<1>3. Earliest \in free /\ Earliest.end \in 0..DayLength
  BY <1>1, <1>2, EarliestIn, OrderTypes
<1> DEFINE T == TakenOn(day)
           s0 == day + t
<1>4. s0 \in Int /\ s0 - day = t
  BY <1>1
<1>5. ASSUME NEW m \in Int
      PROVE  Reaches(Earliest, t, m) <=> (m = t /\ m + p.dur <= Earliest.end) \/ Reaches(Earliest, t', m)
  <2>1. After(t, m, Stride) <=> m = t \/ After(t', m, Stride)
    BY <1>1, <1>2, AfterNext
  <2> QED
    BY <2>1 DEF Reaches
<1>6. \A m \in Int : ToCome(m)' => ToCome(m)
  BY <1>2, <1>5, ToComeNext DEF ToCome
<1>7. s0 \in Wanted(day)
  <2>1. t \in 0..DayLength
    BY <1>1, <1>2, <1>3
  <2>2. ToCome(t)
    BY <1>1, <1>2, AfterHere DEF ToCome, Reaches
  <2>3. s0 \in StartsOn(day)
    BY <1>1, <1>2, <2>1, <2>2 DEF TodayInv
  <2> QED
    BY <1>2, <2>3 DEF Wanted
<1>8. \A u \in T : u < s0
  <2> SUFFICES ASSUME NEW i \in DOMAIN out PROVE out[i].start < s0
    BY DEF TakenOn
  <2>1. out[i].end <= s0 /\ out[i].start < out[i].end
    BY <1>1, <1>2 DEF OrderInv, GapInv
  <2>2. out[i].end \in Int /\ out[i].start \in Int
    BY <1>1, OrderTypes
  <2> QED
    BY <1>4, <2>1, <2>2
<1>9. T \subseteq Wanted(day) /\ Wanted(day) \subseteq Int /\ IsFiniteSet(Wanted(day))
  BY <1>1, <1>2, WantedType DEF TodayInv
<1>10. TakenOn(day)' = T \cup {s0}
  <2> DEFINE k == [start |-> StartAt, end |-> StartAt + p.dur, on |-> day]
  <2>1. out' = Append(out, k) /\ k.on = day /\ k.start = s0
    BY <1>1 DEF Take, StartAt
  <2> HIDE DEF k, s0
  <2>2. \A d : d = day => TakenOn(d)' = T \cup {s0}
    BY <1>1, <2>1, TakenMore
  <2> QED
    BY <1>2, <2>2 DEF TakenOn
<1>11. /\ KeptOn(day)' = KeptOn(day) /\ StartsOn(day)' = StartsOn(day) /\ Wanted(day)' = Wanted(day)
  BY <1>2, ReferenceStable
<1>12. today' = KeptOn(day) + Cardinality(T \cup {s0})
  <2>1. s0 \notin T
    BY <1>4, <1>8
  <2>2. IsFiniteSet(T)
    BY <1>9, FS_Subset
  <2> HIDE DEF s0, T
  <2>3. Cardinality(T \cup {s0}) = Cardinality(T) + 1 /\ Cardinality(T) \in Nat
    BY <2>1, <2>2, FS_AddElement, FS_CardinalityType
  <2>4. KeptOn(day) \in Nat
    BY <1>1, KeptReference DEF PastInv
  <2>5. today = KeptOn(day) + Cardinality(T)
    BY <1>1, <1>2 DEF TodayInv, T
  <2> QED
    BY <1>2, <2>3, <2>4, <2>5
<1>13. ASSUME NEW s \in Wanted(day) \ (T \cup {s0})
       PROVE  /\ \A u \in T \cup {s0} : u < s
              /\ ToCome(s - day)'
  <2> DEFINE m == s - day
  <2>1. m \in Int /\ s = day + m /\ m # t /\ s \in Int
    BY <1>1, <1>9, <1>13
  <2>2. ToCome(m) /\ \A u \in T : u < s
    BY <1>1, <1>2, <1>13 DEF TodayInv
  <2>3. m' = m
    BY <1>2
  <2> HIDE DEF m
  <2>4. t < m
    <3>1. CASE Reaches(Earliest, t, m)
      <4>1. t <= m
        BY <1>1, <2>1, <3>1, AfterType DEF Reaches
      <4> QED
        BY <1>1, <2>1, <4>1
    <3>2. CASE \E iv \in free \ {Earliest} : Reaches(iv, iv.start, m)
      <4>1. PICK iv \in free \ {Earliest} : Reaches(iv, iv.start, m)
        BY <3>2
      <4>2. iv.start \in Int
        BY <1>1, OrderTypes
      <4>3. iv.start <= m
        <5> DEFINE a == iv.start
        <5>1. a \in Int /\ After(a, m, Stride)
          BY <4>1, <4>2 DEF Reaches
        <5> HIDE DEF a
        <5>2. a <= m
          BY <1>1, <2>1, <5>1, AfterType
        <5> QED
          BY <5>2 DEF a
      <4>4. Earliest.end <= iv.start
        BY <1>1, <1>2, EarliestFirst DEF OrderInv
      <4>5. Earliest.end \in Int
        BY <1>3
      <4> QED
        BY <1>1, <1>2, <2>1, <4>2, <4>3, <4>4, <4>5
    <3> QED
      BY <1>2, <2>2, <3>1, <3>2 DEF ToCome
  <2>5. s0 < s
    BY <1>1, <2>1, <2>4
  <2>6. ToCome(m)'
    BY <1>2, <1>5, <2>1, <2>2, <2>3, ToComeNext DEF ToCome
  <2> QED
    BY <2>2, <2>5, <2>6 DEF m
<1>14. today' <= p.max
  BY <1>1, <1>2
<1>15. ASSUME NEW m \in 0..DayLength, ToCome(m)' PROVE day + m \in StartsOn(day)
  BY <1>1, <1>2, <1>6, <1>15 DEF TodayInv
<1>16. T \cup {s0} \subseteq Wanted(day)
  BY <1>7, <1>9
<1> HIDE DEF T, s0
<1> QED
  BY <1>2, <1>10, <1>11, <1>12, <1>13, <1>14, <1>15, <1>16 DEF TodayInv

LEMMA TodayStep ==
  ASSUME MInv, Regular, p' = p, [Next]_vars
  PROVE  TodayInv'
<1>1. CASE CountDay
  BY <1>1, CountDayToday
<1>2. CASE BeginInterval
  BY <1>2, BeginIntervalToday
<1>3. CASE Skip
  BY <1>3, SkipToday
<1>4. CASE Take
  BY <1>4, TakeToday
<1>5. CASE EndInterval
  BY <1>5, EndIntervalToday
<1>6. CASE BeginDay \/ Subtract \/ EndDay \/ Return
  BY <1>6 DEF BeginDay, Subtract, EndDay, Return, TodayInv
<1>7. CASE UNCHANGED vars
  <2>1. CASE pc \in {"interval", "step"}
    <3>1. free' = free /\ t' = t /\ pc' = pc /\ day' = day /\ out' = out /\ today' = today
      BY <1>7 DEF vars
    <3>2. \A m : ToCome(m)' <=> ToCome(m)
      BY <3>1, ToComeNext DEF ToCome
    <3>3. TInv /\ TodayInv
      BY ReferenceBefore
    <3> QED
      BY <2>1, <3>1, <3>2, <3>3, TodayKept
  <2>2. CASE pc \notin {"interval", "step"}
    BY <1>7, <2>2 DEF vars, TodayInv
  <2> QED
    BY <2>1, <2>2
<1> QED
  BY <1>1, <1>2, <1>3, <1>4, <1>5, <1>6, <1>7 DEF Next

LEMMA ReferenceStep == MInv /\ [Next]_vars => MInv'
<1> SUFFICES ASSUME MInv, [Next]_vars PROVE MInv'
  OBVIOUS
<1>1. BInv'
  BY GapStep DEF MInv
<1>2. p' = p
  BY DEF Next, vars, BeginDay, Subtract, CountDay, BeginInterval, Skip, Take, EndInterval, EndDay, Return
<1>3. Regular' <=> Regular
  BY <1>2 DEF Regular
<1>4. Regular => EdgeInv' /\ TodayInv' /\ PastInv'
  BY <1>2, EdgeStep, TodayStep, PastStep
<1> QED
  BY <1>1, <1>3, <1>4 DEF MInv

-----------------------------------------------------------------------------
(* The booking window of a regular zone, in days. *)
LEMMA WindowDays ==
  ASSUME TInv, Regular
  PROVE  /\ WindowEnd = StartOfDay(p.now) + p.days * DayLength
         /\ WindowStart < WindowEnd
<1> DEFINE first == StartOfDay(p.now)
           off == p.zone.before
           q == (p.now + off) \div DayLength
<1>1. /\ p \in Params /\ p.now \in Int /\ off \in Int /\ DayLength \in Nat \ {0} /\ first \in Int
      /\ p.days \in Nat \ {0} /\ p.zone.after = off
  BY ParamsType DEF Regular
<1>2. first = DayLength * q - off
  BY <1>1, RegularDay
<1>3. q \in Int /\ DayLength * q <= p.now + off /\ p.now + off < DayLength * q + DayLength
  <2>1. p.now + off \in Int
    BY <1>1
  <2> HIDE DEF off
  <2> QED
    BY <1>1, <2>1, DivBounds
<1> HIDE DEF q
<1>4. DayLength * q \in Int
  BY <1>1, <1>3
<1>5. first <= p.now /\ p.now < first + DayLength
  <2> DEFINE z == DayLength * q
  <2>1. z \in Int /\ z <= p.now + off /\ p.now + off < z + DayLength /\ first = z - off
    BY <1>2, <1>3, <1>4
  <2> HIDE DEF z, first, off
  <2> QED
    BY <1>1, <2>1
<1>6. p.days * DayLength \in Int /\ DayLength <= p.days * DayLength
  <2>1. 1 <= p.days
    BY <1>1
  <2> DEFINE n == p.days
  <2>2. n \in Nat /\ 1 <= n
    BY <1>1, <2>1
  <2> HIDE DEF n
  <2>3. n * DayLength \in Int /\ 1 * DayLength <= n * DayLength
    BY <1>1, <2>2, Times, TimesMonotone
  <2> QED
    BY <1>1, <2>3 DEF n
<1>7. \A x : Offset(x) = off
  BY <1>1 DEF Offset
<1>8. WindowEnd = first + p.days * DayLength
  <2> DEFINE len == p.days * DayLength
  <2>1. WindowEnd = ((first + off) + len) - off
    BY <1>7 DEF WindowEnd, AddDays, Date, Clock
  <2>2. len \in Int
    BY <1>6
  <2> HIDE DEF len, first, off
  <2>3. ((first + off) + len) - off = first + len
    BY <1>1, <2>2
  <2> QED
    BY <2>1, <2>3 DEF len
<1>9. WindowStart < WindowEnd
  <2> DEFINE len == p.days * DayLength
  <2>1. len \in Int /\ DayLength <= len /\ WindowEnd = first + len
    BY <1>6, <1>8
  <2>2. WindowStart = p.now \/ WindowStart = first
    BY DEF WindowStart
  <2> HIDE DEF len, first
  <2> QED
    BY <1>1, <1>5, <2>1, <2>2
<1> QED
  BY <1>8, <1>9

(* When the loop is over every day of the window has what it is to have, and
   nothing has been taken of any other. *)
LEMMA ReferenceDone == MInv => MatchesReference
<1> SUFFICES ASSUME MInv, pc = "done", Regular
             PROVE  {out[i].start : i \in DOMAIN out} =
                      UNION {ReferenceOn(p.now + n * DayLength) : n \in 0..p.days - 1}
  BY DEF MatchesReference
<1> DEFINE first == StartOfDay(p.now)
<1>1. /\ TInv /\ PastInv /\ WithinRules /\ day \in Int /\ first \in Int /\ DayLength \in Nat \ {0}
      /\ p.days \in Nat \ {0}
  BY ReferenceBefore, ParamsType DEF RInv
<1>2. WindowEnd = first + p.days * DayLength /\ WindowStart < WindowEnd
  BY <1>1, WindowDays
<1>3. p.days * DayLength \in Int
  BY <1>1
<1>4. WindowEnd \in Int /\ WindowEnd <= day
  <2>1. WindowEnd \in Int
    BY <1>1, <1>2, <1>3
  <2>2. ~(day < WindowEnd)
    BY <1>1, <1>2 DEF PastInv, More
  <2> QED
    BY <1>1, <2>1, <2>2
<1> HIDE DEF first
<1>5. ASSUME NEW n \in Nat, NEW d \in Int, d = first + n * DayLength, d < WindowEnd
      PROVE  TakenOn(d) = ReferenceOn(p.now + n * DayLength) /\ n \in 0..p.days - 1
  <2>1. IsDay(d)
    BY <1>1, <1>5, AfterBy DEF IsDay, first
  <2>2. first <= d
    BY <1>1, <2>1, AfterType DEF IsDay, first
  <2>3. d \in first..(day - 1)
    BY <1>1, <1>4, <1>5, <2>2
  <2>4. TakenOn(d) = ReferenceOn(d)
    BY <1>1, <2>1, <2>3 DEF PastInv, first
  <2>5. n < p.days
    <3> DEFINE k == p.days
    <3>1. k \in Nat /\ WindowEnd = first + k * DayLength
      BY <1>1, <1>2
    <3> HIDE DEF k
    <3>2. k <= n => k * DayLength <= n * DayLength
      BY <1>1, <3>1, TimesMonotone
    <3>3. k * DayLength \in Int /\ n * DayLength \in Int
      BY <1>1, <3>1
    <3>4. ~(k <= n)
      BY <1>1, <1>5, <3>1, <3>2, <3>3
    <3>5. n < k
      BY <3>1, <3>4
    <3> QED
      BY <3>5 DEF k
  <2>6. ReferenceOn(p.now + n * DayLength) = ReferenceOn(d)
    BY <1>1, <1>5, SameReference DEF first
  <2> QED
    BY <1>1, <2>4, <2>5, <2>6
<1>6. ASSUME NEW i \in DOMAIN out
      PROVE  \E n \in 0..p.days - 1 : out[i].start \in ReferenceOn(p.now + n * DayLength)
  <2> DEFINE d == out[i].on
             s == out[i].start
  <2>1. out[i] \in [start : Int, end : Int, on : Int]
    BY <1>1, SeqElement DEF TInv, TypeOK
  <2>2. d \in Int /\ s \in Int /\ IsDay(d) /\ s \in TakenOn(d)
    BY <1>1, <2>1 DEF PastInv, TakenOn
  <2>3. Workable(d, Span(out[i], d)) /\ Candidate(s)
    BY <1>1 DEF WithinRules
  <2>4. StartOfDay(d) = d
    BY <1>1, <2>2, KeptReference
  <2>5. PICK h \in p.hours[Weekday(d)] : h.start <= s - d
    BY <2>3, <2>4 DEF Workable, Span
  <2> HIDE DEF d, s
  <2>6. h.start \in 0..DayLength
    BY <1>1, <2>2, HoursType
  <2>7. s < WindowEnd
    BY <2>3 DEF Candidate
  <2>8. d < WindowEnd
    BY <1>1, <1>4, <2>2, <2>5, <2>6, <2>7
  <2>9. PICK n \in Nat : d = first + n * DayLength
    BY <1>1, <2>2, DayNumber DEF first
  <2>10. TakenOn(d) = ReferenceOn(p.now + n * DayLength) /\ n \in 0..p.days - 1
    BY <1>5, <2>2, <2>8, <2>9
  <2> QED
    BY <2>2, <2>10 DEF s
<1>7. ASSUME NEW n \in 0..p.days - 1, NEW s \in ReferenceOn(p.now + n * DayLength)
      PROVE  \E i \in DOMAIN out : s = out[i].start
  <2> DEFINE d == first + n * DayLength
  <2>1. n \in Nat /\ n < p.days
    BY <1>1
  <2>2. n * DayLength \in Int
    BY <1>1, <2>1
  <2>3. d \in Int
    BY <1>1, <2>2
  <2>4. d < WindowEnd
    <3> DEFINE k == p.days
    <3>1. k \in Nat /\ n < k /\ WindowEnd = first + k * DayLength
      BY <1>1, <1>2, <2>1
    <3> HIDE DEF k
    <3>2. n * DayLength + DayLength <= k * DayLength
      BY <1>1, <2>1, <3>1, TimesNext
    <3>3. k * DayLength \in Int
      BY <1>1, <3>1
    <3> QED
      BY <1>1, <2>2, <3>1, <3>2, <3>3
  <2> HIDE DEF d
  <2>5. TakenOn(d) = ReferenceOn(p.now + n * DayLength)
    BY <1>5, <2>1, <2>3, <2>4 DEF d
  <2> QED
    BY <2>5 DEF TakenOn
<1> QED
  BY <1>6, <1>7

(* In a zone whose clock does not change Generate makes exactly the candidates
   of the definition: of every day of the window, from the first free minute
   of each run on, the earliest wanted starts that the day has room for. *)
THEOREM ReferenceCorrect == Spec => []MatchesReference
<1> QED
  BY ReferenceDone, ReferenceInit, ReferenceStep, PTL DEF Spec
=============================================================================
