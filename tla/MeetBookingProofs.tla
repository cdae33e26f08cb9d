------------------------- MODULE MeetBookingProofs -------------------------
(* Theorems about MeetBooking, for every set of bookings, plan limit and set
   of faults. *)
EXTENDS MeetBooking, FiniteSetTheorems, TLAPS

(* The types and the counter's bound, step by step. *)
LEMMA InitType == Init => TypeOK
  BY MeetAssumption DEF Init, TypeOK, SlotNos, Labels, NotYet

(* Every step keeps the types, and the increment keeps within the limit. *)
LEMMA NextType == TypeOK /\ [Next]_vars => TypeOK'
<1> SUFFICES ASSUME TypeOK, [Next]_vars PROVE TypeOK'
  OBVIOUS
<1> USE MeetAssumption DEF TypeOK, SlotNos, Labels, Answers, Misses, Goto, Miss
<1>1. ASSUME NEW b \in Bookings, Book(b) PROVE TypeOK'
  BY <1>1 DEF Book
<1>2. ASSUME NEW b \in Bookings, Reset(b) PROVE TypeOK'
  BY <1>2 DEF Reset
<1>3. ASSUME NEW b \in Bookings, TryIncrement(b) PROVE TypeOK'
  BY <1>3 DEF TryIncrement, UnderLimit
<1>4. ASSUME NEW b \in Bookings, CreateInterviewEvent(b) PROVE TypeOK'
  BY <1>4 DEF CreateInterviewEvent
<1>5. ASSUME NEW b \in Bookings, Decrement(b) PROVE TypeOK'
  <2>1. Decremented(used) \in 0..Limit
    BY DEF Decremented
  <2>2. used' \in 0..Limit
    BY <1>5, <2>1 DEF Decrement
  <2>3. pc' \in [Bookings -> Labels \cup Answers]
    BY <1>5 DEF Decrement, AfterCreateFailed
  <2> QED
    BY <1>5, <2>2, <2>3 DEF Decrement
<1>6. ASSUME NEW b \in Bookings, UpdateBookingMeetInfo(b) PROVE TypeOK'
  BY <1>6 DEF UpdateBookingMeetInfo
<1>7. ASSUME NEW b \in Bookings, UndoEvent(b) PROVE TypeOK'
  BY <1>7 DEF UndoEvent
<1>8. ASSUME NEW b \in Bookings, CompensatingCancel(b) PROVE TypeOK'
  BY <1>8 DEF CompensatingCancel
<1>9. ASSUME NEW b \in Bookings, QueueCreated(b) PROVE TypeOK'
  BY <1>9 DEF QueueCreated
<1>10. ASSUME NEW b \in Bookings, QueueReminder(b) PROVE TypeOK'
  BY <1>10 DEF QueueReminder
<1>11. ASSUME NEW b \in Bookings, Crash(b) PROVE TypeOK'
  BY <1>11 DEF Crash
<1>12. ASSUME NEW b \in Bookings, Cancel(b) PROVE TypeOK'
  <2>1. CallsOfCancel(b) \subseteq Calls
    BY DEF CallsOfCancel, Calls
  <2> QED
    BY <1>12, <2>1 DEF Cancel
<1>13. ASSUME NEW b \in Bookings, Reschedule(b) PROVE TypeOK'
  <2>1. slotNo[b] + 1 \in 1..(MaxMoves + 1)
    BY <1>13 DEF Reschedule
  <2>2. CallsOfReschedule(b, slotNo[b] + 1) \subseteq Calls
    BY <2>1 DEF CallsOfReschedule, Calls
  <2> QED
    BY <1>13, <2>1, <2>2 DEF Reschedule, RemindersMoved
<1>14. ASSUME NEW c \in calls, CallGoogle(c) PROVE TypeOK'
  BY <1>14 DEF CallGoogle, Calls
<1>15. CASE NextMonth
  BY <1>15 DEF NextMonth
<1>16. CASE UNCHANGED vars
  BY <1>16 DEF vars
<1> QED
  BY <1>1, <1>2, <1>3, <1>4, <1>5, <1>6, <1>7, <1>8, <1>9, <1>10, <1>11, <1>12, <1>13,
     <1>14, <1>15, <1>16 DEF Next, Finalize

(* TypeOK holds in every reachable state; in particular the counter of
   TryIncrementMeetLinksUsed and DecrementMeetLinksUsed stays within the plan's
   limit, in any number of months and under any faults. *)
THEOREM TypeCorrect == Spec => []TypeOK
  BY InitType, NextType, PTL DEF Spec
-----------------------------------------------------------------------------
(* The request has counted a link and has neither recorded it nor given the
   count back. *)
InFlight(b) == pc[b] \in {"create", "decrement", "record", "undoCount"}

(* The bookings counted in month m that have a link or may still get one. *)
Counted(m) == {b \in Bookings : charged[b] = m /\ (recorded[b] \/ InFlight(b))}

Charged == {b \in Bookings : charged[b] # NotYet}

(* A booking that does not exist has no request, a link is recorded only once
   its request has come that far, and the count comes before. *)
ShapeOf(b) ==
  /\ life[b] = "none" => pc[b] = "none"
  /\ recorded[b] => pc[b] \in {"queueCandidate", "queueRecruiter", "queueReminder"} \cup Answers
  /\ pc[b] \in {"none", "reset", "increment"} => charged[b] = NotYet
  /\ InFlight(b) \/ recorded[b] => charged[b] # NotYet
  /\ charged[b] # NotYet => charged[b] <= period

(* What the quota rests on: the counter covers every link of its period that
   was handed out or is being made, except for what was given back of earlier
   periods, and no earlier period has passed its bound. *)
Covered(m) ==
  /\ Cardinality(Counted(m)) <= Limit + Cardinality(GivenUp(m))
  /\ m = period => Cardinality(Counted(m)) <= used + Cardinality(GivenUp(m))

QuotaInv ==
  /\ TypeOK
  /\ period <= month /\ month <= MaxMonth
  /\ \A b \in Bookings : ShapeOf(b)
  /\ IsFiniteSet(Charged)
  /\ \A m \in 0..MaxMonth : Covered(m)

(* All these sets are finite, because the bookings that were counted are. *)
LEMMA Finite ==
  ASSUME TypeOK, IsFiniteSet(Charged), \A b \in Bookings : ShapeOf(b), NEW m \in 0..MaxMonth
  PROVE  /\ IsFiniteSet(Counted(m)) /\ Cardinality(Counted(m)) \in Nat
         /\ IsFiniteSet(GivenUp(m)) /\ Cardinality(GivenUp(m)) \in Nat
<1>1. Counted(m) \subseteq Charged
  BY MeetAssumption DEF Counted, Charged, NotYet
<1>2. GivenUp(m) \subseteq Charged
  BY MeetAssumption DEF GivenUp, Charged, NotYet, TypeOK
<1> QED
  BY <1>1, <1>2, FS_Subset, FS_CardinalityType

(* At the start nothing is counted. *)
LEMMA InitQuota == Init => QuotaInv
<1> SUFFICES ASSUME Init PROVE QuotaInv
  OBVIOUS
<1>1. TypeOK
  BY InitType
<1>2. Charged = {} /\ \A m \in 0..MaxMonth : Counted(m) = {}
  BY DEF Init, Charged, Counted, InFlight
<1>3. \A b \in Bookings : ShapeOf(b)
  BY DEF Init, ShapeOf, InFlight
<1>4. IsFiniteSet(Charged) /\ Cardinality({}) = 0
  BY <1>2, FS_EmptySet
<1>5. \A m \in 0..MaxMonth : Cardinality(GivenUp(m)) \in Nat
  BY <1>1, <1>3, <1>4, Finite
<1>6. used = 0 /\ period <= month /\ month <= MaxMonth
  BY MeetAssumption DEF Init
<1>7. Limit \in Nat
  BY MeetAssumption
<1>8. ASSUME NEW m \in 0..MaxMonth PROVE Covered(m)
  <2>1. Cardinality(Counted(m)) = 0 /\ Cardinality(GivenUp(m)) \in Nat
    BY <1>2, <1>4, <1>5
  <2> QED
    BY <1>6, <1>7, <2>1 DEF Covered
<1> QED
  BY <1>1, <1>2, <1>3, <1>4, <1>6, <1>8 DEF QuotaInv

(* A month for which nothing is counted and nothing given back is forgotten. *)
LEMMA MonthKept ==
  ASSUME QuotaInv, TypeOK', \A b \in Bookings : ShapeOf(b)', IsFiniteSet(Charged'),
         NEW m \in 0..MaxMonth,
         Counted(m)' \subseteq Counted(m), GivenUp(m) \subseteq GivenUp(m)'
  PROVE  /\ Cardinality(Counted(m)') <= Cardinality(Counted(m))
         /\ Cardinality(GivenUp(m)) <= Cardinality(GivenUp(m)')
         /\ Cardinality(Counted(m)) \in Nat /\ Cardinality(Counted(m)') \in Nat
         /\ Cardinality(GivenUp(m)) \in Nat /\ Cardinality(GivenUp(m)') \in Nat
<1>1. /\ IsFiniteSet(Counted(m)) /\ Cardinality(Counted(m)) \in Nat
      /\ IsFiniteSet(GivenUp(m)) /\ Cardinality(GivenUp(m)) \in Nat
  BY Finite DEF QuotaInv
<1>2. /\ IsFiniteSet(Counted(m)') /\ Cardinality(Counted(m)') \in Nat
      /\ IsFiniteSet(GivenUp(m)') /\ Cardinality(GivenUp(m)') \in Nat
  <2>1. Counted(m)' \subseteq Charged'
    BY MeetAssumption DEF Counted, Charged, NotYet
  <2>2. GivenUp(m)' \subseteq Charged'
    BY MeetAssumption DEF GivenUp, Charged, NotYet, TypeOK
  <2> QED
    BY <2>1, <2>2, FS_Subset, FS_CardinalityType
<1>3. Cardinality(Counted(m)') <= Cardinality(Counted(m))
  BY <1>1, FS_Subset
<1>4. Cardinality(GivenUp(m)) <= Cardinality(GivenUp(m)')
  BY <1>2, FS_Subset
<1> QED
  BY <1>1, <1>2, <1>3, <1>4

(* Where a request is that has given its link up, or got it. *)
Onward == {"undoEvent", "compensate"} \cup Answers

(* A step that counts nothing new and leaves the counter alone. *)
LEMMA QuotaKept ==
  ASSUME QuotaInv, TypeOK', \A b \in Bookings : ShapeOf(b)',
         period' = period, used' = used, charged' = charged, month <= month', month' <= MaxMonth,
         \A b \in Bookings : recorded'[b] \/ InFlight(b)' => recorded[b] \/ InFlight(b),
         \A b \in Bookings : pc[b] \in Onward =>
           pc'[b] \in Onward /\ recorded'[b] = recorded[b]
  PROVE  QuotaInv'
<1>1. IsFiniteSet(Charged')
  BY DEF QuotaInv, Charged, NotYet
<1>2. period <= month'
  BY DEF QuotaInv, TypeOK
<1>3. ASSUME NEW m \in 0..MaxMonth
      PROVE  Covered(m)'
  <2>1. Counted(m)' \subseteq Counted(m)
    BY DEF Counted
  <2>2. GivenUp(m) \subseteq GivenUp(m)'
    BY DEF GivenUp, Onward
  <2>3. Cardinality(Counted(m)') <= Cardinality(Counted(m))
    BY <1>1, <2>1, <2>2, MonthKept
  <2>4. Cardinality(GivenUp(m)) <= Cardinality(GivenUp(m)')
    BY <1>1, <2>1, <2>2, MonthKept
  <2>5. /\ Cardinality(Counted(m)) \in Nat /\ Cardinality(Counted(m)') \in Nat
        /\ Cardinality(GivenUp(m)) \in Nat /\ Cardinality(GivenUp(m)') \in Nat
    BY <1>1, <2>1, <2>2, MonthKept
  <2> QED
    BY <2>3, <2>4, <2>5, MeetAssumption DEF QuotaInv, Covered, TypeOK
<1> QED
  BY <1>1, <1>2, <1>3 DEF QuotaInv

(* Reset: nothing has been counted in the month that begins. *)
LEMMA ResetQuota ==
  ASSUME QuotaInv, TypeOK', NEW b \in Bookings, Reset(b)
  PROVE  QuotaInv'
<1> USE DEF TypeOK, Goto, Answers
<1>1. \A c \in Bookings : ShapeOf(c)'
  BY DEF Reset, ShapeOf, InFlight, QuotaInv
<1>2. /\ \A c \in Bookings : recorded'[c] \/ InFlight(c)' => recorded[c] \/ InFlight(c)
      /\ \A c \in Bookings : pc[c] \in Onward => pc'[c] \in Onward /\ recorded'[c] = recorded[c]
  BY DEF Reset, InFlight, Onward, QuotaInv
<1>3. charged' = charged /\ month' = month
  BY DEF Reset
<1>4. CASE period' = period /\ used' = used
  BY <1>1, <1>2, <1>3, <1>4, QuotaKept DEF QuotaInv
<1>5. CASE period' = month /\ used' = 0 /\ month > period
  <2>1. IsFiniteSet(Charged')
    BY <1>3 DEF QuotaInv, Charged, NotYet
  <2>2. ASSUME NEW m \in 0..MaxMonth PROVE Covered(m)'
    <3>1. Counted(m)' \subseteq Counted(m) /\ GivenUp(m) \subseteq GivenUp(m)'
      BY <1>2, <1>3 DEF Counted, GivenUp, Onward
    <3>2. Cardinality(Counted(m)') <= Cardinality(Counted(m))
      BY <1>1, <2>1, <3>1, MonthKept
    <3>3. Cardinality(GivenUp(m)) <= Cardinality(GivenUp(m)')
      BY <1>1, <2>1, <3>1, MonthKept
    <3>4. /\ Cardinality(Counted(m)) \in Nat /\ Cardinality(Counted(m)') \in Nat
          /\ Cardinality(GivenUp(m)) \in Nat /\ Cardinality(GivenUp(m)') \in Nat
      BY <1>1, <2>1, <3>1, MonthKept
    <3>5. m = period' => Counted(m) = {}
      BY <1>5 DEF QuotaInv, Counted, ShapeOf
    <3>6. m = period' => Cardinality(Counted(m)) = 0
      BY <3>5, FS_EmptySet
    <3> QED
      BY <1>5, <3>2, <3>3, <3>4, <3>6, MeetAssumption DEF QuotaInv, Covered
  <2> QED
    BY <1>1, <1>3, <1>5, <2>1, <2>2 DEF QuotaInv
<1>6. CASE period' = month /\ used' = used /\ ~(month > period)
  <2>1. period' = period
    BY <1>6 DEF QuotaInv
  <2> QED
    BY <1>1, <1>2, <1>3, <1>6, <2>1, QuotaKept DEF QuotaInv
<1> QED
  BY <1>4, <1>5, <1>6 DEF Reset

(* The count of a link goes into the current period, below the limit. *)
LEMMA IncrementQuota ==
  ASSUME QuotaInv, TypeOK', NEW b \in Bookings, TryIncrement(b)
  PROVE  QuotaInv'
<1> USE DEF TypeOK, Goto, Answers
<1>1. \A c \in Bookings : ShapeOf(c)'
  BY MeetAssumption DEF TryIncrement, ShapeOf, InFlight, QuotaInv, NotYet
<1>2. period' = period /\ month' = month
  BY DEF TryIncrement
<1>3. CASE used' = used /\ charged' = charged /\ pc' = [pc EXCEPT ![b] = "compensate"]
  <2>1. /\ \A c \in Bookings : recorded'[c] \/ InFlight(c)' => recorded[c] \/ InFlight(c)
        /\ \A c \in Bookings : pc[c] \in Onward => pc'[c] \in Onward /\ recorded'[c] = recorded[c]
    BY <1>3 DEF TryIncrement, InFlight, Onward, QuotaInv
  <2> QED
    BY <1>1, <1>2, <1>3, <2>1, QuotaKept DEF QuotaInv
<1>4. CASE /\ used < Limit /\ used' = used + 1
           /\ charged' = [charged EXCEPT ![b] = period] /\ pc' = [pc EXCEPT ![b] = "create"]
  <2>0. pc[b] = "increment" /\ charged[b] = NotYet /\ ~recorded[b] /\ recorded' = recorded
    BY DEF TryIncrement, QuotaInv, ShapeOf
  <2>1. IsFiniteSet(Charged')
    <3>1. Charged' \subseteq Charged \cup {b}
      BY <1>4 DEF Charged, NotYet
    <3> QED
      BY <3>1, FS_AddElement, FS_Subset DEF QuotaInv
  <2>2. ASSUME NEW m \in 0..MaxMonth PROVE GivenUp(m) \subseteq GivenUp(m)'
    BY <1>4, <2>0 DEF GivenUp
  <2>3. ASSUME NEW m \in 0..MaxMonth PROVE Covered(m)'
    <3>1. CASE m # period
      <4>1. Counted(m)' \subseteq Counted(m)
        BY <1>4, <2>0, <3>1 DEF Counted, InFlight
      <4>2. Cardinality(Counted(m)') <= Cardinality(Counted(m))
        BY <1>1, <2>1, <2>2, <4>1, MonthKept
      <4>3. Cardinality(GivenUp(m)) <= Cardinality(GivenUp(m)')
        BY <1>1, <2>1, <2>2, <4>1, MonthKept
      <4>4. /\ Cardinality(Counted(m)) \in Nat /\ Cardinality(Counted(m)') \in Nat
            /\ Cardinality(GivenUp(m)) \in Nat /\ Cardinality(GivenUp(m)') \in Nat
        BY <1>1, <2>1, <2>2, <4>1, MonthKept
      <4> QED
        BY <1>2, <3>1, <4>2, <4>3, <4>4, MeetAssumption DEF QuotaInv, Covered
    <3>2. CASE m = period
      <4>1. Counted(m)' \subseteq Counted(m) \cup {b}
        BY <1>4, <2>0 DEF Counted, InFlight
      <4>2. IsFiniteSet(Counted(m)) /\ Cardinality(Counted(m)) \in Nat /\ Cardinality(GivenUp(m)) \in Nat
        BY Finite DEF QuotaInv
      <4>3. b \notin Counted(m)
        BY <2>0 DEF Counted, InFlight
      <4>4. /\ IsFiniteSet(Counted(m) \cup {b})
            /\ Cardinality(Counted(m) \cup {b}) = Cardinality(Counted(m)) + 1
        BY <4>2, <4>3, FS_AddElement
      <4>5. /\ IsFiniteSet(Counted(m)') /\ Cardinality(Counted(m)') \in Nat
            /\ Cardinality(Counted(m)') <= Cardinality(Counted(m)) + 1
        BY <4>1, <4>4, FS_Subset, FS_CardinalityType
      <4>6. GivenUp(m)' \subseteq Charged'
        BY MeetAssumption DEF GivenUp, Charged, NotYet
      <4>7. Cardinality(GivenUp(m)') \in Nat /\ Cardinality(GivenUp(m)) <= Cardinality(GivenUp(m)')
        BY <2>1, <2>2, <4>6, FS_Subset, FS_CardinalityType
      <4>8. Cardinality(Counted(m)) <= used + Cardinality(GivenUp(m))
        BY <3>2 DEF QuotaInv, Covered
      <4> QED
        BY <1>4, <4>2, <4>5, <4>7, <4>8, MeetAssumption DEF QuotaInv, Covered
    <3> QED
      BY <3>1, <3>2
  <2> QED
    BY <1>1, <1>2, <2>1, <2>3 DEF QuotaInv
<1> QED
  BY <1>3, <1>4 DEF TryIncrement, UnderLimit

(* A count that is given back is covered by the period it was taken from, or
   is one of those given back late. *)
LEMMA DecrementQuota ==
  ASSUME QuotaInv, TypeOK', NEW b \in Bookings, Decrement(b)
  PROVE  QuotaInv'
<1> USE DEF Goto, Answers
<1>1. \A c \in Bookings : ShapeOf(c)'
  BY DEF Decrement, AfterCreateFailed, ShapeOf, InFlight, QuotaInv, TypeOK
<1>2. period' = period /\ month' = month /\ charged' = charged /\ recorded' = recorded
  BY DEF Decrement
<1>3. /\ InFlight(b) /\ ~recorded[b] /\ charged[b] # NotYet /\ charged[b] <= period
      /\ pc'[b] \in {"undoEvent", "compensate"} /\ ~InFlight(b)'
      /\ \A c \in Bookings : c # b => pc'[c] = pc[c]
  BY DEF Decrement, AfterCreateFailed, InFlight, QuotaInv, ShapeOf, TypeOK
<1>4. IsFiniteSet(Charged')
  BY <1>2 DEF QuotaInv, Charged, NotYet
<1>5. used' = used \/ used' = used - 1
  BY MeetAssumption DEF Decrement, Decremented, QuotaInv, TypeOK
<1>6. ASSUME NEW m \in 0..MaxMonth PROVE Covered(m)'
  <2>1. Counted(m)' \subseteq Counted(m) \ {b}
    BY <1>2, <1>3 DEF Counted, InFlight
  <2>2. GivenUp(m) \subseteq GivenUp(m)'
    BY <1>2, <1>3 DEF GivenUp, TypeOK
  <2>3. /\ IsFiniteSet(Counted(m)) /\ Cardinality(Counted(m)) \in Nat
        /\ IsFiniteSet(GivenUp(m)) /\ Cardinality(GivenUp(m)) \in Nat
    BY Finite DEF QuotaInv
  <2>4. IsFiniteSet(Counted(m)') /\ Cardinality(Counted(m)') \in Nat
    BY <2>1, <2>3, FS_Subset, FS_CardinalityType
  <2>5. IsFiniteSet(GivenUp(m)') /\ Cardinality(GivenUp(m)') \in Nat
    <3>1. GivenUp(m)' \subseteq Charged'
      BY MeetAssumption DEF GivenUp, Charged, NotYet, TypeOK
    <3> QED
      BY <1>4, <3>1, FS_Subset, FS_CardinalityType
  <2>6. /\ Cardinality(Counted(m)') <= Cardinality(Counted(m))
        /\ Cardinality(GivenUp(m)) <= Cardinality(GivenUp(m)')
    BY <2>1, <2>2, <2>3, <2>5, FS_Subset
  <2>0. /\ Cardinality(Counted(m)) <= Limit + Cardinality(GivenUp(m))
        /\ m = period => Cardinality(Counted(m)) <= used + Cardinality(GivenUp(m))
        /\ used \in Nat
    BY MeetAssumption DEF QuotaInv, Covered, TypeOK
  <2>7. CASE charged[b] = m
    <3>1. b \in Counted(m)
      BY <1>3, <2>7 DEF Counted
    <3>2. IsFiniteSet(Counted(m) \ {b}) /\ Cardinality(Counted(m) \ {b}) = Cardinality(Counted(m)) - 1
      BY <2>3, <3>1, FS_RemoveElement
    <3>3. Cardinality(Counted(m)') <= Cardinality(Counted(m)) - 1
      BY <2>1, <3>2, FS_Subset
    <3>4. Cardinality(Counted(m)') <= Limit + Cardinality(GivenUp(m)')
      BY <2>0, <2>3, <2>4, <2>5, <2>6, MeetAssumption
    <3>5. ASSUME Cardinality(Counted(m)) <= used + Cardinality(GivenUp(m))
          PROVE  Cardinality(Counted(m)') <= used' + Cardinality(GivenUp(m)')
      BY <1>5, <2>0, <2>3, <2>4, <2>5, <2>6, <3>3, <3>5
    <3> QED
      BY <1>2, <2>0, <3>4, <3>5 DEF Covered
  <2>8. CASE charged[b] < m
    <3>1. b \notin GivenUp(m) /\ b \in GivenUp(m)'
      BY <1>2, <1>3, <2>8 DEF GivenUp, InFlight, TypeOK
    <3>2. /\ IsFiniteSet(GivenUp(m) \cup {b})
          /\ Cardinality(GivenUp(m) \cup {b}) = Cardinality(GivenUp(m)) + 1
      BY <2>3, <3>1, FS_AddElement
    <3>3. GivenUp(m) \cup {b} \subseteq GivenUp(m)'
      BY <2>2, <3>1
    <3>4. Cardinality(GivenUp(m)) + 1 <= Cardinality(GivenUp(m)')
      BY <2>5, <3>2, <3>3, FS_Subset
    <3>5. Cardinality(Counted(m)') <= Limit + Cardinality(GivenUp(m)')
      BY <2>0, <2>3, <2>4, <2>5, <2>6, MeetAssumption
    <3>6. ASSUME Cardinality(Counted(m)) <= used + Cardinality(GivenUp(m))
          PROVE  Cardinality(Counted(m)') <= used' + Cardinality(GivenUp(m)')
      BY <1>5, <2>0, <2>3, <2>4, <2>5, <2>6, <3>4, <3>6
    <3> QED
      BY <1>2, <2>0, <3>5, <3>6 DEF Covered
  <2>9. CASE charged[b] > m
    <3>1. m # period
      BY <1>3, <2>9 DEF QuotaInv, TypeOK
    <3> QED
      BY <1>2, <2>0, <2>3, <2>4, <2>5, <2>6, <3>1, MeetAssumption DEF Covered
  <2> QED
    BY <2>7, <2>8, <2>9 DEF QuotaInv, TypeOK
<1> QED
  BY <1>1, <1>2, <1>4, <1>6 DEF QuotaInv

(* Every step keeps the counter above what it accounts for. *)
LEMMA NextQuota == QuotaInv /\ [Next]_vars => QuotaInv'
<1> SUFFICES ASSUME QuotaInv, [Next]_vars PROVE QuotaInv'
  OBVIOUS
<1>0. TypeOK'
  BY NextType DEF QuotaInv
<1> USE <1>0 DEF Answers, Goto, TypeOK
<1>1. ASSUME NEW b \in Bookings, Book(b) PROVE QuotaInv'
  <2>1. \A c \in Bookings : ShapeOf(c)'
    BY <1>1 DEF Book, ShapeOf, InFlight, QuotaInv
  <2>2. /\ \A c \in Bookings : recorded'[c] \/ InFlight(c)' => recorded[c] \/ InFlight(c)
        /\ \A c \in Bookings : pc[c] \in Onward => pc'[c] \in Onward /\ recorded'[c] = recorded[c]
    BY <1>1 DEF Book, InFlight, Onward, QuotaInv, ShapeOf
  <2>3. /\ period' = period /\ used' = used /\ charged' = charged
        /\ month <= month' /\ month' <= MaxMonth
    BY <1>1, MeetAssumption DEF Book, QuotaInv
  <2> QED
    BY <2>1, <2>2, <2>3, QuotaKept
<1>2. ASSUME NEW b \in Bookings, Reset(b) \/ TryIncrement(b) \/ Decrement(b) PROVE QuotaInv'
  BY <1>2, ResetQuota, IncrementQuota, DecrementQuota
<1>3. ASSUME NEW b \in Bookings, CreateInterviewEvent(b) PROVE QuotaInv'
  <2>1. \A c \in Bookings : ShapeOf(c)'
    BY <1>3 DEF CreateInterviewEvent, ShapeOf, InFlight, QuotaInv
  <2>2. /\ \A c \in Bookings : recorded'[c] \/ InFlight(c)' => recorded[c] \/ InFlight(c)
        /\ \A c \in Bookings : pc[c] \in Onward => pc'[c] \in Onward /\ recorded'[c] = recorded[c]
    BY <1>3 DEF CreateInterviewEvent, InFlight, Onward, QuotaInv
  <2>3. /\ period' = period /\ used' = used /\ charged' = charged
        /\ month <= month' /\ month' <= MaxMonth
    BY <1>3, MeetAssumption DEF CreateInterviewEvent, QuotaInv
  <2> QED
    BY <2>1, <2>2, <2>3, QuotaKept
<1>4. ASSUME NEW b \in Bookings, UpdateBookingMeetInfo(b) PROVE QuotaInv'
  <2>1. \A c \in Bookings : ShapeOf(c)'
    BY <1>4 DEF UpdateBookingMeetInfo, ShapeOf, InFlight, QuotaInv
  <2>2. /\ \A c \in Bookings : recorded'[c] \/ InFlight(c)' => recorded[c] \/ InFlight(c)
        /\ \A c \in Bookings : pc[c] \in Onward => pc'[c] \in Onward /\ recorded'[c] = recorded[c]
    BY <1>4 DEF UpdateBookingMeetInfo, InFlight, Onward, QuotaInv
  <2>3. /\ period' = period /\ used' = used /\ charged' = charged
        /\ month <= month' /\ month' <= MaxMonth
    BY <1>4, MeetAssumption DEF UpdateBookingMeetInfo, QuotaInv
  <2> QED
    BY <2>1, <2>2, <2>3, QuotaKept
<1>5. ASSUME NEW b \in Bookings, UndoEvent(b) \/ CompensatingCancel(b) PROVE QuotaInv'
  <2>1. \A c \in Bookings : ShapeOf(c)'
    BY <1>5 DEF UndoEvent, CompensatingCancel, ShapeOf, InFlight, QuotaInv
  <2>2. /\ \A c \in Bookings : recorded'[c] \/ InFlight(c)' => recorded[c] \/ InFlight(c)
        /\ \A c \in Bookings : pc[c] \in Onward => pc'[c] \in Onward /\ recorded'[c] = recorded[c]
    BY <1>5 DEF UndoEvent, CompensatingCancel, InFlight, Onward, QuotaInv
  <2>3. /\ period' = period /\ used' = used /\ charged' = charged
        /\ month <= month' /\ month' <= MaxMonth
    BY <1>5, MeetAssumption DEF UndoEvent, CompensatingCancel, QuotaInv
  <2> QED
    BY <2>1, <2>2, <2>3, QuotaKept
<1>6. ASSUME NEW b \in Bookings, QueueCreated(b) \/ QueueReminder(b) PROVE QuotaInv'
  <2>1. \A c \in Bookings : ShapeOf(c)'
    BY <1>6 DEF QueueCreated, QueueReminder, ShapeOf, InFlight, QuotaInv
  <2>2. /\ \A c \in Bookings : recorded'[c] \/ InFlight(c)' => recorded[c] \/ InFlight(c)
        /\ \A c \in Bookings : pc[c] \in Onward => pc'[c] \in Onward /\ recorded'[c] = recorded[c]
    BY <1>6 DEF QueueCreated, QueueReminder, InFlight, Onward, QuotaInv
  <2>3. /\ period' = period /\ used' = used /\ charged' = charged
        /\ month <= month' /\ month' <= MaxMonth
    BY <1>6, MeetAssumption DEF QueueCreated, QueueReminder, QuotaInv
  <2> QED
    BY <2>1, <2>2, <2>3, QuotaKept
<1>7. ASSUME NEW b \in Bookings, Crash(b) PROVE QuotaInv'
  <2>1. \A c \in Bookings : ShapeOf(c)'
    BY <1>7 DEF Crash, ShapeOf, InFlight, QuotaInv
  <2>2. /\ \A c \in Bookings : recorded'[c] \/ InFlight(c)' => recorded[c] \/ InFlight(c)
        /\ \A c \in Bookings : pc[c] \in Onward => pc'[c] \in Onward /\ recorded'[c] = recorded[c]
    BY <1>7 DEF Crash, InFlight, Onward, QuotaInv
  <2>3. /\ period' = period /\ used' = used /\ charged' = charged
        /\ month <= month' /\ month' <= MaxMonth
    BY <1>7, MeetAssumption DEF Crash, QuotaInv
  <2> QED
    BY <2>1, <2>2, <2>3, QuotaKept
<1>8. ASSUME NEW b \in Bookings, Cancel(b) \/ Reschedule(b) PROVE QuotaInv'
  <2>1. \A c \in Bookings : ShapeOf(c)'
    BY <1>8 DEF Cancel, Reschedule, ShapeOf, InFlight, QuotaInv
  <2>2. /\ \A c \in Bookings : recorded'[c] \/ InFlight(c)' => recorded[c] \/ InFlight(c)
        /\ \A c \in Bookings : pc[c] \in Onward => pc'[c] \in Onward /\ recorded'[c] = recorded[c]
    BY <1>8 DEF Cancel, Reschedule, InFlight, Onward, QuotaInv
  <2>3. /\ period' = period /\ used' = used /\ charged' = charged
        /\ month <= month' /\ month' <= MaxMonth
    BY <1>8, MeetAssumption DEF Cancel, Reschedule, QuotaInv
  <2> QED
    BY <2>1, <2>2, <2>3, QuotaKept
<1>9. ASSUME NEW c \in calls, CallGoogle(c) PROVE QuotaInv'
  <2>1. \A d \in Bookings : ShapeOf(d)'
    BY <1>9 DEF CallGoogle, ShapeOf, InFlight, QuotaInv
  <2>2. /\ \A d \in Bookings : recorded'[d] \/ InFlight(d)' => recorded[d] \/ InFlight(d)
        /\ \A d \in Bookings : pc[d] \in Onward => pc'[d] \in Onward /\ recorded'[d] = recorded[d]
    BY <1>9 DEF CallGoogle, InFlight, Onward, QuotaInv
  <2>3. /\ period' = period /\ used' = used /\ charged' = charged
        /\ month <= month' /\ month' <= MaxMonth
    BY <1>9, MeetAssumption DEF CallGoogle, QuotaInv
  <2> QED
    BY <2>1, <2>2, <2>3, QuotaKept
<1>10. ASSUME NextMonth PROVE QuotaInv'
  <2>1. \A c \in Bookings : ShapeOf(c)'
    BY <1>10 DEF NextMonth, ShapeOf, InFlight, QuotaInv
  <2>2. /\ \A c \in Bookings : recorded'[c] \/ InFlight(c)' => recorded[c] \/ InFlight(c)
        /\ \A c \in Bookings : pc[c] \in Onward => pc'[c] \in Onward /\ recorded'[c] = recorded[c]
    BY <1>10 DEF NextMonth, InFlight, Onward, QuotaInv
  <2>3. /\ period' = period /\ used' = used /\ charged' = charged
        /\ month <= month' /\ month' <= MaxMonth
    BY <1>10, MeetAssumption DEF NextMonth, QuotaInv
  <2> QED
    BY <2>1, <2>2, <2>3, QuotaKept
<1>11. ASSUME UNCHANGED vars PROVE QuotaInv'
  <2>1. \A c \in Bookings : ShapeOf(c)'
    BY <1>11 DEF vars, ShapeOf, InFlight, QuotaInv
  <2>2. /\ \A c \in Bookings : recorded'[c] \/ InFlight(c)' => recorded[c] \/ InFlight(c)
        /\ \A c \in Bookings : pc[c] \in Onward => pc'[c] \in Onward /\ recorded'[c] = recorded[c]
    BY <1>11 DEF vars, InFlight, Onward, QuotaInv
  <2>3. /\ period' = period /\ used' = used /\ charged' = charged
        /\ month <= month' /\ month' <= MaxMonth
    BY <1>11, MeetAssumption DEF vars, QuotaInv
  <2> QED
    BY <2>1, <2>2, <2>3, QuotaKept
<1> QED
  BY <1>1, <1>2, <1>3, <1>4, <1>5, <1>6, <1>7, <1>8, <1>9, <1>10, <1>11 DEF Next, Finalize

(* The links counted in a month are among those the counter covers. *)
LEMMA QuotaSuffices == QuotaInv => ExcessGivenBack
<1> SUFFICES ASSUME QuotaInv, NEW m \in 0..MaxMonth
             PROVE Cardinality(LinksOf(m)) <= Limit + Cardinality(GivenUp(m))
  BY DEF ExcessGivenBack
<1>1. LinksOf(m) \subseteq Counted(m)
  BY DEF LinksOf, Counted
<1>2. /\ IsFiniteSet(Counted(m)) /\ Cardinality(Counted(m)) \in Nat /\ Cardinality(GivenUp(m)) \in Nat
  BY Finite DEF QuotaInv
<1>3. /\ IsFiniteSet(LinksOf(m)) /\ Cardinality(LinksOf(m)) \in Nat
      /\ Cardinality(LinksOf(m)) <= Cardinality(Counted(m))
  BY <1>1, <1>2, FS_Subset, FS_CardinalityType
<1> QED
  BY <1>2, <1>3, MeetAssumption DEF QuotaInv, Covered

LEMMA InductiveQuota == Spec => []QuotaInv
  BY InitQuota, NextQuota, PTL DEF Spec

(* In any number of months, for any number of concurrent bookings and under any
   faults, a month has at most Limit links and one more for each count of an
   earlier month that came to nothing. *)
THEOREM QuotaAcrossMonths == Spec => []ExcessGivenBack
  BY InductiveQuota, QuotaSuffices, PTL

(* As long as the month does not change, a free organisation hands out at most
   Limit links.  Over a month's end this is false: the run meet_rollover shows
   it. *)
THEOREM QuotaWithinMonth == MaxMonth = 0 => (Spec => []MonthlyLinksWithinPlan)
<1> SUFFICES ASSUME MaxMonth = 0 PROVE Spec => []MonthlyLinksWithinPlan
  OBVIOUS
<1>1. QuotaInv => MonthlyLinksWithinPlan
  <2> SUFFICES ASSUME QuotaInv, NEW m \in 0..MaxMonth PROVE Cardinality(LinksOf(m)) <= Limit
    BY DEF MonthlyLinksWithinPlan
  <2>1. GivenUp(m) = {}
    BY DEF GivenUp, QuotaInv, TypeOK
  <2>2. Cardinality(LinksOf(m)) <= Limit + 0
    BY <2>1, QuotaSuffices, FS_EmptySet DEF ExcessGivenBack
  <2> QED
    BY <2>2, MeetAssumption
<1> QED
  BY <1>1, InductiveQuota, PTL
-----------------------------------------------------------------------------
(* What a request has recorded and queued at each statement, and what its
   answer then says. *)
Queued(b) ==
  /\ pc[b] = "none" <=> life[b] = "none"
  /\ pc[b] \in {"none", "reset", "increment", "create", "decrement", "record", "undoCount", "undoEvent",
               "compensate", "refused"} => ~recorded[b] /\ created[b] = {}
  /\ pc[b] = "queueCandidate" => recorded[b] /\ created[b] = {}
  /\ pc[b] = "queueRecruiter" => recorded[b] /\ created[b] = {"candidate"}
  /\ pc[b] \in {"queueReminder", "ok"} => recorded[b] /\ created[b] = {"candidate", "recruiter"}
  /\ pc[b] = "failed" \/ created[b] # {} => recorded[b]
  /\ pc[b] = "refused" => life[b] = "cancelled" \/ "cancel" \in missed[b]

(* A booking is moved only when the candidate has been written to, and the
   reminder and the patches of the event follow its slots. *)
Moved(b) ==
  /\ created[b] = {} => slotNo[b] = 1 /\ reminders[b] \subseteq {1}
  /\ reminders[b] \subseteq {1} \cup (IF life[b] = "scheduled" THEN {slotNo[b]} ELSE {})
  /\ 1 \in reminders[b] => pc[b] = "ok"
  /\ life[b] = "scheduled" /\ (pc[b] = "ok" \/ slotNo[b] > 1) => slotNo[b] \in reminders[b]
  /\ \A c \in calls : c.bk = b => recorded[b] /\ (c.to = 0 \/ (2 <= c.to /\ c.to <= slotNo[b]))
  /\ event[b] \in 0..slotNo[b]
  /\ slotNo[b] = 2 /\ event[b] = 1 => [bk |-> b, to |-> 2] \in calls \/ "patch" \in missed[b]

(* One of the mishaps that the code has no second try for. *)
Excused(b) == "create" \in missed[b] \/ "delete" \in missed[b] \/ "early" \in missed[b]

(* The event of a booking is there from its insert until a delete of it, and
   who loses sight of it has met with one of the mishaps. *)
Followed(b) ==
  /\ pc[b] \in {"none", "reset", "increment", "create"} => event[b] = 0
  /\ pc[b] \in {"decrement", "compensate", "refused"} => event[b] = 0 \/ Excused(b)
  /\ pc[b] = "record" => event[b] # 0
  /\ pc[b] \in {"reset", "increment", "create", "record"} => life[b] = "scheduled" \/ Excused(b)
  /\ recorded[b] /\ life[b] = "scheduled" => event[b] # 0 /\ \A c \in calls : c.bk = b => c.to # 0
  /\ recorded[b] /\ life[b] = "cancelled" => event[b] = 0 \/ [bk |-> b, to |-> 0] \in calls \/ Excused(b)

OutcomeInv ==
  /\ TypeOK
  /\ \A b \in Bookings : Queued(b) /\ Moved(b) /\ Followed(b)

LEMMA InitOutcome == Init => OutcomeInv
  BY InitType, MeetAssumption DEF Init, OutcomeInv, Queued, Moved, Followed, Excused, Answers

(* A step that does not touch a booking, its event and its delete keeps them
   together. *)
LEMMA FollowedKept ==
  ASSUME TypeOK, TypeOK', NEW b \in Bookings, Followed(b),
         UNCHANGED <<pc[b], life[b], recorded[b], event[b], missed[b]>>,
         \A c \in Calls : c.bk = b => (c \in calls' <=> c \in calls)
  PROVE  Followed(b)'
<1>1. [bk |-> b, to |-> 0] \in Calls /\ [bk |-> b, to |-> 0].bk = b
  BY MeetAssumption DEF Calls
<1>2. calls \subseteq Calls /\ calls' \subseteq Calls
  BY DEF TypeOK
<1> QED
  BY <1>1, <1>2 DEF Followed, Excused

(* One step per action, and under it one for each part. *)
LEMMA NextOutcome == OutcomeInv /\ [Next]_vars => OutcomeInv'
<1> SUFFICES ASSUME OutcomeInv, [Next]_vars PROVE OutcomeInv'
  OBVIOUS
<1>0. TypeOK /\ TypeOK'
  BY NextType DEF OutcomeInv
<1> USE DEF Goto, Miss
<1>1. ASSUME NEW b \in Bookings, Book(b) PROVE OutcomeInv'
  <2>1. ASSUME NEW e \in Bookings PROVE Queued(e)'
    BY <1>0, <1>1 DEF Book, OutcomeInv, Queued, TypeOK, SlotNos, Calls, Labels, Answers
  <2>2. ASSUME NEW e \in Bookings PROVE Moved(e)'
    BY <1>0, <1>1 DEF Book, OutcomeInv, Queued, Moved, TypeOK, SlotNos, Calls, Labels, Answers
  <2>3. ASSUME NEW e \in Bookings PROVE Followed(e)'
    <3>1. Queued(e) /\ Moved(e) /\ Followed(e)
      BY DEF OutcomeInv
    <3>2. CASE e # b
      <4>1. UNCHANGED <<pc[e], life[e], recorded[e], event[e], missed[e]>>
        BY <1>0, <1>1, <3>2 DEF Book, TypeOK
      <4>2. \A c \in Calls : c.bk = e => (c \in calls' <=> c \in calls)
        BY <1>1, <3>2 DEF Book
      <4> QED
        BY <1>0, <3>1, <4>1, <4>2, FollowedKept
    <3>3. CASE e = b
      BY <1>0, <1>1, <3>1, <3>3 DEF Book, Queued, Moved, Followed, Excused, TypeOK, Calls
    <3> QED
      BY <3>2, <3>3
  <2> QED
    BY <1>0, <2>1, <2>2, <2>3 DEF OutcomeInv
<1>2. ASSUME NEW b \in Bookings, Reset(b) PROVE OutcomeInv'
  <2>1. ASSUME NEW e \in Bookings PROVE Queued(e)'
    BY <1>0, <1>2 DEF Reset, OutcomeInv, Queued, TypeOK, SlotNos, Calls, Labels, Answers
  <2>2. ASSUME NEW e \in Bookings PROVE Moved(e)'
    BY <1>0, <1>2 DEF Reset, OutcomeInv, Queued, Moved, TypeOK, SlotNos, Calls, Labels, Answers
  <2>3. ASSUME NEW e \in Bookings PROVE Followed(e)'
    <3>1. Queued(e) /\ Moved(e) /\ Followed(e)
      BY DEF OutcomeInv
    <3>2. CASE e # b
      <4>1. UNCHANGED <<pc[e], life[e], recorded[e], event[e], missed[e]>>
        BY <1>0, <1>2, <3>2 DEF Reset, TypeOK
      <4>2. \A c \in Calls : c.bk = e => (c \in calls' <=> c \in calls)
        BY <1>2, <3>2 DEF Reset
      <4> QED
        BY <1>0, <3>1, <4>1, <4>2, FollowedKept
    <3>3. CASE e = b
      BY <1>0, <1>2, <3>1, <3>3 DEF Reset, Queued, Moved, Followed, Excused, TypeOK, Calls
    <3> QED
      BY <3>2, <3>3
  <2> QED
    BY <1>0, <2>1, <2>2, <2>3 DEF OutcomeInv
<1>3. ASSUME NEW b \in Bookings, TryIncrement(b) PROVE OutcomeInv'
  <2>1. ASSUME NEW e \in Bookings PROVE Queued(e)'
    BY <1>0, <1>3 DEF TryIncrement, OutcomeInv, Queued, TypeOK, SlotNos, Calls, Labels, Answers
  <2>2. ASSUME NEW e \in Bookings PROVE Moved(e)'
    BY <1>0, <1>3 DEF TryIncrement, OutcomeInv, Queued, Moved, TypeOK, SlotNos, Calls, Labels, Answers
  <2>3. ASSUME NEW e \in Bookings PROVE Followed(e)'
    <3>1. Queued(e) /\ Moved(e) /\ Followed(e)
      BY DEF OutcomeInv
    <3>2. CASE e # b
      <4>1. UNCHANGED <<pc[e], life[e], recorded[e], event[e], missed[e]>>
        BY <1>0, <1>3, <3>2 DEF TryIncrement, TypeOK
      <4>2. \A c \in Calls : c.bk = e => (c \in calls' <=> c \in calls)
        BY <1>3, <3>2 DEF TryIncrement
      <4> QED
        BY <1>0, <3>1, <4>1, <4>2, FollowedKept
    <3>3. CASE e = b
      BY <1>0, <1>3, <3>1, <3>3 DEF TryIncrement, Queued, Moved, Followed, Excused, TypeOK, Calls
    <3> QED
      BY <3>2, <3>3
  <2> QED
    BY <1>0, <2>1, <2>2, <2>3 DEF OutcomeInv
<1>4. ASSUME NEW b \in Bookings, CreateInterviewEvent(b) PROVE OutcomeInv'
  <2>1. ASSUME NEW e \in Bookings PROVE Queued(e)'
    BY <1>0, <1>4 DEF CreateInterviewEvent, OutcomeInv, Queued, TypeOK, SlotNos, Calls, Labels, Answers
  <2>2. ASSUME NEW e \in Bookings PROVE Moved(e)'
    BY <1>0, <1>4 DEF CreateInterviewEvent, OutcomeInv, Queued, Moved, TypeOK, SlotNos, Calls, Labels, Answers
  <2>3. ASSUME NEW e \in Bookings PROVE Followed(e)'
    <3>1. Queued(e) /\ Moved(e) /\ Followed(e)
      BY DEF OutcomeInv
    <3>2. CASE e # b
      <4>1. UNCHANGED <<pc[e], life[e], recorded[e], event[e], missed[e]>>
        BY <1>0, <1>4, <3>2 DEF CreateInterviewEvent, TypeOK
      <4>2. \A c \in Calls : c.bk = e => (c \in calls' <=> c \in calls)
        BY <1>4, <3>2 DEF CreateInterviewEvent
      <4> QED
        BY <1>0, <3>1, <4>1, <4>2, FollowedKept
    <3>3. CASE e = b
      BY <1>0, <1>4, <3>1, <3>3 DEF CreateInterviewEvent, Queued, Moved, Followed, Excused, TypeOK, Calls
    <3> QED
      BY <3>2, <3>3
  <2> QED
    BY <1>0, <2>1, <2>2, <2>3 DEF OutcomeInv
<1>5. ASSUME NEW b \in Bookings, Decrement(b) PROVE OutcomeInv'
  <2>1. ASSUME NEW e \in Bookings PROVE Queued(e)'
    BY <1>0, <1>5 DEF Decrement, AfterCreateFailed, OutcomeInv, Queued, TypeOK, SlotNos, Calls, Labels, Answers
  <2>2. ASSUME NEW e \in Bookings PROVE Moved(e)'
    BY <1>0, <1>5 DEF Decrement, AfterCreateFailed, OutcomeInv, Queued, Moved, TypeOK, SlotNos, Calls, Labels, Answers
  <2>3. ASSUME NEW e \in Bookings PROVE Followed(e)'
    <3>1. Queued(e) /\ Moved(e) /\ Followed(e)
      BY DEF OutcomeInv
    <3>2. CASE e # b
      <4>1. UNCHANGED <<pc[e], life[e], recorded[e], event[e], missed[e]>>
        BY <1>0, <1>5, <3>2 DEF Decrement, TypeOK
      <4>2. \A c \in Calls : c.bk = e => (c \in calls' <=> c \in calls)
        BY <1>5, <3>2 DEF Decrement
      <4> QED
        BY <1>0, <3>1, <4>1, <4>2, FollowedKept
    <3>3. CASE e = b
      BY <1>0, <1>5, <3>1, <3>3 DEF Decrement, AfterCreateFailed, Queued, Moved, Followed, Excused, TypeOK, Calls
    <3> QED
      BY <3>2, <3>3
  <2> QED
    BY <1>0, <2>1, <2>2, <2>3 DEF OutcomeInv
<1>6. ASSUME NEW b \in Bookings, UpdateBookingMeetInfo(b) PROVE OutcomeInv'
  <2>1. ASSUME NEW e \in Bookings PROVE Queued(e)'
    BY <1>0, <1>6 DEF UpdateBookingMeetInfo, OutcomeInv, Queued, TypeOK, SlotNos, Calls, Labels, Answers
  <2>2. ASSUME NEW e \in Bookings PROVE Moved(e)'
    BY <1>0, <1>6 DEF UpdateBookingMeetInfo, OutcomeInv, Queued, Moved, TypeOK, SlotNos, Calls, Labels, Answers
  <2>3. ASSUME NEW e \in Bookings PROVE Followed(e)'
    <3>1. Queued(e) /\ Moved(e) /\ Followed(e)
      BY DEF OutcomeInv
    <3>2. CASE e # b
      <4>1. UNCHANGED <<pc[e], life[e], recorded[e], event[e], missed[e]>>
        BY <1>0, <1>6, <3>2 DEF UpdateBookingMeetInfo, TypeOK
      <4>2. \A c \in Calls : c.bk = e => (c \in calls' <=> c \in calls)
        BY <1>6, <3>2 DEF UpdateBookingMeetInfo
      <4> QED
        BY <1>0, <3>1, <4>1, <4>2, FollowedKept
    <3>3. CASE e = b
      BY <1>0, <1>6, <3>1, <3>3 DEF UpdateBookingMeetInfo, Queued, Moved, Followed, Excused, TypeOK, Calls
    <3> QED
      BY <3>2, <3>3
  <2> QED
    BY <1>0, <2>1, <2>2, <2>3 DEF OutcomeInv
<1>7. ASSUME NEW b \in Bookings, UndoEvent(b) PROVE OutcomeInv'
  <2>1. ASSUME NEW e \in Bookings PROVE Queued(e)'
    BY <1>0, <1>7 DEF UndoEvent, OutcomeInv, Queued, TypeOK, SlotNos, Calls, Labels, Answers
  <2>2. ASSUME NEW e \in Bookings PROVE Moved(e)'
    BY <1>0, <1>7 DEF UndoEvent, OutcomeInv, Queued, Moved, TypeOK, SlotNos, Calls, Labels, Answers
  <2>3. ASSUME NEW e \in Bookings PROVE Followed(e)'
    <3>1. Queued(e) /\ Moved(e) /\ Followed(e)
      BY DEF OutcomeInv
    <3>2. CASE e # b
      <4>1. UNCHANGED <<pc[e], life[e], recorded[e], event[e], missed[e]>>
        BY <1>0, <1>7, <3>2 DEF UndoEvent, TypeOK
      <4>2. \A c \in Calls : c.bk = e => (c \in calls' <=> c \in calls)
        BY <1>7, <3>2 DEF UndoEvent
      <4> QED
        BY <1>0, <3>1, <4>1, <4>2, FollowedKept
    <3>3. CASE e = b
      BY <1>0, <1>7, <3>1, <3>3 DEF UndoEvent, Queued, Moved, Followed, Excused, TypeOK, Calls
    <3> QED
      BY <3>2, <3>3
  <2> QED
    BY <1>0, <2>1, <2>2, <2>3 DEF OutcomeInv
<1>8. ASSUME NEW b \in Bookings, CompensatingCancel(b) PROVE OutcomeInv'
  <2>1. ASSUME NEW e \in Bookings PROVE Queued(e)'
    BY <1>0, <1>8 DEF CompensatingCancel, OutcomeInv, Queued, TypeOK, SlotNos, Calls, Labels, Answers
  <2>2. ASSUME NEW e \in Bookings PROVE Moved(e)'
    BY <1>0, <1>8 DEF CompensatingCancel, OutcomeInv, Queued, Moved, TypeOK, SlotNos, Calls, Labels, Answers
  <2>3. ASSUME NEW e \in Bookings PROVE Followed(e)'
    <3>1. Queued(e) /\ Moved(e) /\ Followed(e)
      BY DEF OutcomeInv
    <3>2. CASE e # b
      <4>1. UNCHANGED <<pc[e], life[e], recorded[e], event[e], missed[e]>>
        BY <1>0, <1>8, <3>2 DEF CompensatingCancel, TypeOK
      <4>2. \A c \in Calls : c.bk = e => (c \in calls' <=> c \in calls)
        BY <1>8, <3>2 DEF CompensatingCancel
      <4> QED
        BY <1>0, <3>1, <4>1, <4>2, FollowedKept
    <3>3. CASE e = b
      BY <1>0, <1>8, <3>1, <3>3 DEF CompensatingCancel, Queued, Moved, Followed, Excused, TypeOK, Calls
    <3> QED
      BY <3>2, <3>3
  <2> QED
    BY <1>0, <2>1, <2>2, <2>3 DEF OutcomeInv
<1>9. ASSUME NEW b \in Bookings, QueueCreated(b) PROVE OutcomeInv'
  <2>1. ASSUME NEW e \in Bookings PROVE Queued(e)'
    BY <1>0, <1>9 DEF QueueCreated, OutcomeInv, Queued, TypeOK, SlotNos, Calls, Labels, Answers
  <2>2. ASSUME NEW e \in Bookings PROVE Moved(e)'
    BY <1>0, <1>9 DEF QueueCreated, OutcomeInv, Queued, Moved, TypeOK, SlotNos, Calls, Labels, Answers
  <2>3. ASSUME NEW e \in Bookings PROVE Followed(e)'
    <3>1. Queued(e) /\ Moved(e) /\ Followed(e)
      BY DEF OutcomeInv
    <3>2. CASE e # b
      <4>1. UNCHANGED <<pc[e], life[e], recorded[e], event[e], missed[e]>>
        BY <1>0, <1>9, <3>2 DEF QueueCreated, TypeOK
      <4>2. \A c \in Calls : c.bk = e => (c \in calls' <=> c \in calls)
        BY <1>9, <3>2 DEF QueueCreated
      <4> QED
        BY <1>0, <3>1, <4>1, <4>2, FollowedKept
    <3>3. CASE e = b
      BY <1>0, <1>9, <3>1, <3>3 DEF QueueCreated, Queued, Moved, Followed, Excused, TypeOK, Calls
    <3> QED
      BY <3>2, <3>3
  <2> QED
    BY <1>0, <2>1, <2>2, <2>3 DEF OutcomeInv
<1>10. ASSUME NEW b \in Bookings, QueueReminder(b) PROVE OutcomeInv'
  <2>1. ASSUME NEW e \in Bookings PROVE Queued(e)'
    BY <1>0, <1>10 DEF QueueReminder, OutcomeInv, Queued, TypeOK, SlotNos, Calls, Labels, Answers
  <2>2. ASSUME NEW e \in Bookings PROVE Moved(e)'
    BY <1>0, <1>10 DEF QueueReminder, OutcomeInv, Queued, Moved, TypeOK, SlotNos, Calls, Labels, Answers
  <2>3. ASSUME NEW e \in Bookings PROVE Followed(e)'
    <3>1. Queued(e) /\ Moved(e) /\ Followed(e)
      BY DEF OutcomeInv
    <3>2. CASE e # b
      <4>1. UNCHANGED <<pc[e], life[e], recorded[e], event[e], missed[e]>>
        BY <1>0, <1>10, <3>2 DEF QueueReminder, TypeOK
      <4>2. \A c \in Calls : c.bk = e => (c \in calls' <=> c \in calls)
        BY <1>10, <3>2 DEF QueueReminder
      <4> QED
        BY <1>0, <3>1, <4>1, <4>2, FollowedKept
    <3>3. CASE e = b
      BY <1>0, <1>10, <3>1, <3>3 DEF QueueReminder, Queued, Moved, Followed, Excused, TypeOK, Calls
    <3> QED
      BY <3>2, <3>3
  <2> QED
    BY <1>0, <2>1, <2>2, <2>3 DEF OutcomeInv
<1>11. ASSUME NEW b \in Bookings, Crash(b) PROVE OutcomeInv'
  <2>1. ASSUME NEW e \in Bookings PROVE Queued(e)'
    BY <1>0, <1>11 DEF Crash, OutcomeInv, Queued, TypeOK, SlotNos, Calls, Labels, Answers
  <2>2. ASSUME NEW e \in Bookings PROVE Moved(e)'
    BY <1>0, <1>11 DEF Crash, OutcomeInv, Queued, Moved, TypeOK, SlotNos, Calls, Labels, Answers
  <2>3. ASSUME NEW e \in Bookings PROVE Followed(e)'
    <3>1. Queued(e) /\ Moved(e) /\ Followed(e)
      BY DEF OutcomeInv
    <3>2. CASE e # b
      <4>1. UNCHANGED <<pc[e], life[e], recorded[e], event[e], missed[e]>>
        BY <1>0, <1>11, <3>2 DEF Crash, TypeOK
      <4>2. \A c \in Calls : c.bk = e => (c \in calls' <=> c \in calls)
        BY <1>11, <3>2 DEF Crash
      <4> QED
        BY <1>0, <3>1, <4>1, <4>2, FollowedKept
    <3>3. CASE e = b
      BY <1>0, <1>11, <3>1, <3>3 DEF Crash, Queued, Moved, Followed, Excused, TypeOK, Calls
    <3> QED
      BY <3>2, <3>3
  <2> QED
    BY <1>0, <2>1, <2>2, <2>3 DEF OutcomeInv
<1>12. ASSUME NEW b \in Bookings, Cancel(b) PROVE OutcomeInv'
  <2>1. ASSUME NEW e \in Bookings PROVE Queued(e)'
    BY <1>0, <1>12 DEF Cancel, CallsOfCancel, OutcomeInv, Queued, TypeOK, SlotNos, Calls, Labels, Answers
  <2>2. ASSUME NEW e \in Bookings PROVE Moved(e)'
    BY <1>0, <1>12 DEF Cancel, CallsOfCancel, OutcomeInv, Queued, Moved, TypeOK, SlotNos, Calls, Labels, Answers
  <2>3. ASSUME NEW e \in Bookings PROVE Followed(e)'
    <3>1. Queued(e) /\ Moved(e) /\ Followed(e)
      BY DEF OutcomeInv
    <3>2. CASE e # b
      <4>1. UNCHANGED <<pc[e], life[e], recorded[e], event[e], missed[e]>>
        BY <1>0, <1>12, <3>2 DEF Cancel, TypeOK
      <4>2. \A c \in Calls : c.bk = e => (c \in calls' <=> c \in calls)
        BY <1>12, <3>2 DEF Cancel, CallsOfCancel
      <4> QED
        BY <1>0, <3>1, <4>1, <4>2, FollowedKept
    <3>3. CASE e = b
      BY <1>0, <1>12, <3>1, <3>3 DEF Cancel, CallsOfCancel, Queued, Moved, Followed, Excused, TypeOK, Calls
    <3> QED
      BY <3>2, <3>3
  <2> QED
    BY <1>0, <2>1, <2>2, <2>3 DEF OutcomeInv
<1>13. ASSUME NEW b \in Bookings, Reschedule(b) PROVE OutcomeInv'
  <2>1. ASSUME NEW e \in Bookings PROVE Queued(e)'
    BY <1>0, <1>13 DEF Reschedule, CallsOfReschedule, RemindersMoved, OutcomeInv, Queued, TypeOK, SlotNos, Calls, Labels, Answers
  <2>2. ASSUME NEW e \in Bookings PROVE Moved(e)'
    BY <1>0, <1>13 DEF Reschedule, CallsOfReschedule, RemindersMoved, OutcomeInv, Queued, Moved, TypeOK, SlotNos, Calls, Labels, Answers
  <2>3. ASSUME NEW e \in Bookings PROVE Followed(e)'
    <3>1. Queued(e) /\ Moved(e) /\ Followed(e)
      BY DEF OutcomeInv
    <3>2. CASE e # b
      <4>1. UNCHANGED <<pc[e], life[e], recorded[e], event[e], missed[e]>>
        BY <1>0, <1>13, <3>2 DEF Reschedule, TypeOK
      <4>2. \A c \in Calls : c.bk = e => (c \in calls' <=> c \in calls)
        BY <1>13, <3>2 DEF Reschedule, CallsOfReschedule
      <4> QED
        BY <1>0, <3>1, <4>1, <4>2, FollowedKept
    <3>3. CASE e = b
      <4>1. /\ UNCHANGED <<pc[e], life[e], recorded[e], event[e], missed[e]>>
            /\ life[e] = "scheduled" /\ recorded[e]
        BY <1>13, <3>1, <3>3 DEF Reschedule, Queued
      <4>2. calls' = calls \cup {[bk |-> e, to |-> slotNo[e] + 1]} /\ slotNo[e] + 1 # 0
        BY <1>0, <1>13, <3>3, <4>1 DEF Reschedule, CallsOfReschedule, TypeOK, SlotNos
      <4>3. \A c \in calls' : c.bk = e => c.to # 0
        BY <3>1, <4>1, <4>2 DEF Followed
      <4> QED
        BY <3>1, <4>1, <4>3 DEF Followed, Queued, Excused
    <3> QED
      BY <3>2, <3>3
  <2> QED
    BY <1>0, <2>1, <2>2, <2>3 DEF OutcomeInv
<1>14. ASSUME NEW d \in calls, CallGoogle(d) PROVE OutcomeInv'
  <2>1. ASSUME NEW e \in Bookings PROVE Queued(e)'
    BY <1>0, <1>14 DEF CallGoogle, OutcomeInv, Queued, TypeOK, SlotNos, Calls, Labels, Answers
  <2>2. ASSUME NEW e \in Bookings PROVE Moved(e)'
    BY <1>0, <1>14 DEF CallGoogle, OutcomeInv, Queued, Moved, TypeOK, SlotNos, Calls, Labels, Answers
  <2>3. ASSUME NEW e \in Bookings PROVE Followed(e)'
    <3>1. Queued(e) /\ Moved(e) /\ Followed(e)
      BY DEF OutcomeInv
    <3>2. UNCHANGED <<pc, life, recorded>> /\ calls' = calls \ {d} /\ d \in calls
      BY <1>14 DEF CallGoogle
    <3>3. event'[e] = event[e] \/ (event[e] # 0 /\ d.bk = e /\ event'[e] = d.to)
      BY <1>0, <1>14 DEF CallGoogle, TypeOK, Calls
    <3>4. Excused(e) => Excused(e)'
      BY <1>0, <1>14 DEF CallGoogle, Excused, TypeOK, Calls
    <3>5. d = [bk |-> e, to |-> 0] => event'[e] = 0 \/ Excused(e)'
      <4> SUFFICES ASSUME d = [bk |-> e, to |-> 0] PROVE event'[e] = 0 \/ Excused(e)'
        OBVIOUS
      <4>1. d.bk = e /\ d.to = 0
        OBVIOUS
      <4> QED
        BY <1>0, <1>14, <4>1 DEF CallGoogle, Excused, TypeOK, Calls
    <3>6. d.bk = e => recorded[e]
      BY <3>1, <3>2 DEF Moved
    <3>7. /\ pc'[e] \in {"none", "reset", "increment", "create"} => event'[e] = 0
          /\ pc'[e] \in {"decrement", "compensate", "refused"} => event'[e] = 0 \/ Excused(e)'
          /\ pc'[e] = "record" => event'[e] # 0
          /\ pc'[e] \in {"reset", "increment", "create", "record"} => life'[e] = "scheduled" \/ Excused(e)'
      BY <3>1, <3>2, <3>3, <3>4, <3>6 DEF Followed, Queued
    <3>8. recorded'[e] /\ life'[e] = "scheduled" => event'[e] # 0 /\ \A c \in calls' : c.bk = e => c.to # 0
      BY <3>1, <3>2, <3>3 DEF Followed
    <3>9. recorded'[e] /\ life'[e] = "cancelled" =>
            event'[e] = 0 \/ [bk |-> e, to |-> 0] \in calls' \/ Excused(e)'
      <4> SUFFICES ASSUME recorded[e], life[e] = "cancelled"
                   PROVE  event'[e] = 0 \/ [bk |-> e, to |-> 0] \in calls' \/ Excused(e)'
        BY <3>2
      <4>1. event[e] = 0 \/ [bk |-> e, to |-> 0] \in calls \/ Excused(e)
        BY <3>1 DEF Followed
      <4> QED
        BY <3>2, <3>3, <3>4, <3>5, <4>1
    <3> QED
      BY <3>7, <3>8, <3>9 DEF Followed
  <2> QED
    BY <1>0, <2>1, <2>2, <2>3 DEF OutcomeInv
<1>15. ASSUME NextMonth PROVE OutcomeInv'
  <2>1. ASSUME NEW e \in Bookings PROVE Queued(e)'
    BY <1>0, <1>15 DEF NextMonth, OutcomeInv, Queued, TypeOK, SlotNos, Calls, Labels, Answers
  <2>2. ASSUME NEW e \in Bookings PROVE Moved(e)'
    BY <1>0, <1>15 DEF NextMonth, OutcomeInv, Queued, Moved, TypeOK, SlotNos, Calls, Labels, Answers
  <2>3. ASSUME NEW e \in Bookings PROVE Followed(e)'
    BY <1>0, <1>15 DEF NextMonth, OutcomeInv, Queued, Moved, Followed, Excused, TypeOK, SlotNos, Calls, Labels, Answers
  <2> QED
    BY <1>0, <2>1, <2>2, <2>3 DEF OutcomeInv
<1>16. ASSUME UNCHANGED vars PROVE OutcomeInv'
  <2>1. ASSUME NEW e \in Bookings PROVE Queued(e)'
    BY <1>0, <1>16 DEF vars, OutcomeInv, Queued, TypeOK, SlotNos, Calls, Labels, Answers
  <2>2. ASSUME NEW e \in Bookings PROVE Moved(e)'
    BY <1>0, <1>16 DEF vars, OutcomeInv, Queued, Moved, TypeOK, SlotNos, Calls, Labels, Answers
  <2>3. ASSUME NEW e \in Bookings PROVE Followed(e)'
    BY <1>0, <1>16 DEF vars, OutcomeInv, Queued, Moved, Followed, Excused, TypeOK, SlotNos, Calls, Labels, Answers
  <2> QED
    BY <1>0, <2>1, <2>2, <2>3 DEF OutcomeInv
<1> QED
  BY <1>1, <1>2, <1>3, <1>4, <1>5, <1>6, <1>7, <1>8, <1>9, <1>10, <1>11, <1>12, <1>13, <1>14, <1>15, <1>16 DEF Next, Finalize

LEMMA InductiveOutcome == Spec => []OutcomeInv
  BY InitOutcome, NextOutcome, PTL DEF Spec

(* The only reminder that can be out of date is that of the first slot, under
   any faults. *)
THEOREM RemindersHold == Spec => []OnlyFirstReminderStale
<1>1. OutcomeInv => OnlyFirstReminderStale
  BY DEF OutcomeInv, Moved, OnlyFirstReminderStale
<1> QED
  BY <1>1, InductiveOutcome, PTL

(* Under any faults, calls to Google that fail or are never made included, the
   event of a booking that was moved once is only left at the old slot by a
   patch that failed. *)
THEOREM EventHolds == Spec => []EventFollowsMove
<1>1. OutcomeInv => EventFollowsMove
  <2> SUFFICES ASSUME OutcomeInv, NEW b \in Bookings, Settled(b), event[b] # 0, slotNo[b] <= 2,
                      "patch" \notin missed[b]
               PROVE  event[b] = slotNo[b]
    BY DEF EventFollowsMove
  <2>1. slotNo[b] \in 1..(MaxMoves + 1)
    BY DEF OutcomeInv, TypeOK, SlotNos
  <2>2. slotNo[b] = 1 \/ slotNo[b] = 2
    BY <2>1, MeetAssumption
  <2>3. event[b] \in 0..slotNo[b]
    BY DEF OutcomeInv, Moved
  <2>4. event[b] = 1 \/ event[b] = slotNo[b]
    BY <2>2, <2>3
  <2>5. [bk |-> b, to |-> 2] \notin calls
    <3>1. [bk |-> b, to |-> 2].bk = b
      OBVIOUS
    <3> QED
      BY <3>1 DEF Settled
  <2>6. ~(slotNo[b] = 2 /\ event[b] = 1)
    BY <2>5 DEF OutcomeInv, Moved
  <2> QED
    BY <2>2, <2>4, <2>6
<1> QED
  BY <1>1, InductiveOutcome, PTL

(* What each of the three answers means for the booking, under any faults: a
   refused booking is only left standing by a compensating cancel that failed,
   and one that is answered with another error always stands. *)
THEOREM AnswersHold == Spec => []AnswersTruthful
<1>1. QuotaInv /\ OutcomeInv => AnswersTruthful
  <2> SUFFICES ASSUME QuotaInv, OutcomeInv, NEW b \in Bookings
               PROVE  /\ pc[b] = "ok" =>
                           /\ recorded[b] /\ created[b] = {"candidate", "recruiter"}
                           /\ life[b] = "scheduled" => slotNo[b] \in reminders[b]
                      /\ pc[b] = "refused" =>
                           /\ ~recorded[b] /\ created[b] = {}
                           /\ life[b] = "cancelled" \/ "cancel" \in missed[b]
                      /\ pc[b] = "failed" => recorded[b] /\ charged[b] # NotYet /\ 1 \notin reminders[b]
    BY DEF AnswersTruthful
  <2>1. Queued(b) /\ Moved(b)
    BY DEF OutcomeInv
  <2>2. recorded[b] => charged[b] # NotYet
    BY DEF QuotaInv, ShapeOf
  <2> QED
    BY <2>1, <2>2 DEF Queued, Moved
<1> QED
  BY <1>1, InductiveQuota, InductiveOutcome, PTL

(* Under any faults, the event of a scheduled booking with a link is never lost,
   and an event without such a booking is only left by a lost reply, a failed
   delete or a cancel that came before the event id was recorded. *)
THEOREM NoOrphans == Spec => []NoOrphanEvents
<1>1. OutcomeInv => NoOrphanEvents
  <2> SUFFICES ASSUME OutcomeInv, NEW b \in Bookings, Settled(b)
               PROVE  /\ life[b] = "scheduled" /\ recorded[b] => event[b] # 0
                      /\ event[b] # 0 => (life[b] = "scheduled" /\ recorded[b]) \/ Excused(b)
    BY DEF NoOrphanEvents, Excused
  <2>1. Queued(b) /\ Followed(b)
    BY DEF OutcomeInv
  <2>2. [bk |-> b, to |-> 0] \notin calls
    <3>1. [bk |-> b, to |-> 0].bk = b
      OBVIOUS
    <3> QED
      BY <3>1 DEF Settled
  <2>3. life[b] \in {"none", "scheduled", "cancelled"}
    BY DEF OutcomeInv, TypeOK
  <2>4. pc[b] \in {"ok", "refused", "failed", "none"}
    BY DEF Settled, Finished, Answers
  <2> QED
    BY <2>1, <2>2, <2>3, <2>4 DEF Queued, Followed
<1> QED
  BY <1>1, InductiveOutcome, PTL
=============================================================================
