--------------------------- MODULE BookingLedger ---------------------------
(***************************************************************************)
(* What the booking service promises, with every request atomic: a slot    *)
(* is held by at most one booking, a booking holds at most one slot, a     *)
(* cancelled booking stays cancelled, and a booking changes slots only by  *)
(* giving up the slot it holds for one that is free.                       *)
(***************************************************************************)

CONSTANTS
  Slots,      \* ids of slots rows
  Bookings,   \* ids of booking rows
  Free        \* holder of a slot that nobody holds

VARIABLES
  holder,     \* the booking that holds a slot, or Free
  life        \* "none" (no such booking), "scheduled" or "cancelled"

vars == <<holder, life>>

Init ==
  /\ holder = [s \in Slots |-> Free]
  /\ life = [b \in Bookings |-> "none"]

(* Service.Book *)
Book(b, s) ==
  /\ life[b] = "none"
  /\ holder[s] = Free
  /\ holder' = [holder EXCEPT ![s] = b]
  /\ life' = [life EXCEPT ![b] = "scheduled"]

(* Service.Reschedule *)
Move(b, s, t) ==
  /\ life[b] = "scheduled"
  /\ holder[s] = b
  /\ holder[t] = Free
  /\ holder' = [holder EXCEPT ![s] = Free, ![t] = b]
  /\ UNCHANGED life

(* Service.Cancel, Service.CancelByToken and Service.compensatingCancel *)
Cancel(b, s) ==
  /\ life[b] = "scheduled"
  /\ holder[s] = b
  /\ holder' = [holder EXCEPT ![s] = Free]
  /\ life' = [life EXCEPT ![b] = "cancelled"]

Next ==
  \E b \in Bookings, s \in Slots :
    \/ Book(b, s)
    \/ \E t \in Slots : Move(b, s, t)
    \/ Cancel(b, s)

Spec == Init /\ [][Next]_vars
=============================================================================
