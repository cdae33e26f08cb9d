--------------------------- MODULE BookingProofs ---------------------------
(* Theorems about Booking, for every set of slots, bookings and requests. *)
EXTENDS Booking, TLAPS

CancelOps == {"cancelByToken", "cancel", "compensate"}
TakeOps == BookOps \cup {"reschedule"}

(* The request has locked the slots row it is to take. *)
HasTo(p) ==
  req[p].op \in TakeOps /\ pc[p] \in {"insert", "freeSlot", "markBooked", "updateSlot", "commit"}

(* The request has locked the slots row it gives up. *)
HasFrom(p) ==
  \/ req[p].op = "reschedule" /\ pc[p] \in {"markBooked", "updateSlot", "commit"}
  \/ req[p].op \in CancelOps /\ pc[p] = "commit"

(* The request has locked its booking row. *)
HasRow(p) ==
  \/ req[p].op \in BookOps /\ pc[p] \in {"markBooked", "commit"}
  \/ req[p].op = "reschedule" /\ pc[p] \in {"getSlot", "freeSlot", "markBooked", "updateSlot", "commit"}
  \/ req[p].op \in {"cancelByToken", "cancel"} /\ pc[p] \in {"cancelBooking", "freeSlot", "commit"}
  \/ req[p].op = "compensate" /\ pc[p] \in {"freeSlot", "commit"}

(* The request owns a Google Meet booking whose tokens nobody has yet. *)
OwnsMeet(p) == pc[p] = "finalize" \/ req[p].op = "compensate"

Cancelled(s) == [status |-> "cancelled", slot |-> s]

(* Which statement a request can be at, and what its locals then hold. *)
Shape(p) ==
  LET r == req[p]  l == pc[p] IN
  /\ l = "idle" => r = NoReq
  /\ l = "readToken" => r.op \in TokenOps
  /\ l = "getBooking" => r.op = "cancel"
  /\ l = "getSlot" => r.op \in TakeOps
  /\ l = "insert" => r.op \in BookOps
  /\ l = "freeSlot" => r.op \in CancelOps \cup {"reschedule"}
  /\ l = "markBooked" => r.op \in TakeOps
  /\ l = "updateSlot" => r.op = "reschedule"
  /\ l = "cancelBooking" => r.op \in CancelOps
  /\ l = "commit" => r.op \in Ops
  /\ l = "finalize" => r.op = "bookMeet" /\ r.from \in Slots
  /\ r.op \in TakeOps => r.to \in Slots
  /\ r.op \in BookOps /\ l \in {"markBooked", "commit", "finalize"} => r.bk \in Bookings
  /\ r.op \in TokenOps => r.bk \in tokens /\ r.from \in Slots
  /\ r.op = "reschedule" /\ l # "readToken" => r.from # r.to
  /\ r.op = "cancel" => r.bk \in Bookings /\ (l # "getBooking" => r.from \in Slots)
  /\ r.op = "compensate" =>
       r.bk \in Bookings /\ r.from \in Slots /\ l \in {"cancelBooking", "freeSlot", "commit"}

ShapeInv == \A p \in Procs : Shape(p)

(* The locks are exactly those the statements so far have taken. *)
LockInv ==
  \A p \in Procs :
    /\ \A s \in Slots : slotLock[s] = p <=> \/ HasTo(p) /\ s = req[p].to
                                            \/ HasFrom(p) /\ s = req[p].from
    /\ \A b \in Bookings : rowLock[b] = p <=> HasRow(p) /\ b = req[p].bk

(* A row has one version unless it is locked. *)
SettledInv ==
  /\ \A s \in Slots : slotLock[s] = Nobody => bookedNew[s] = booked[s]
  /\ \A b \in Bookings : rowLock[b] = Nobody => rowNew[b] = row[b]

(* The versions of a locked slots row ... *)
SlotVersions(p) ==
  LET r == req[p] IN
  /\ HasTo(p) =>
       /\ ~booked[r.to]
       /\ bookedNew[r.to] <=> \/ r.op \in BookOps /\ pc[p] = "commit"
                              \/ r.op = "reschedule" /\ pc[p] \in {"updateSlot", "commit"}
  /\ HasFrom(p) => ~bookedNew[r.from]

(* ... and of the locked booking row are those the statements so far have read
   and written. *)
RowVersions(p) ==
  LET r == req[p] IN HasRow(p) =>
  /\ r.op \in BookOps => row[r.bk] = NoRow /\ rowNew[r.bk] = Scheduled(r.to)
  /\ r.op = "reschedule" /\ pc[p] # "commit" =>
       row[r.bk] = Scheduled(r.from) /\ rowNew[r.bk] = Scheduled(r.from)
  /\ r.op = "reschedule" /\ pc[p] = "commit" =>
       row[r.bk] = Scheduled(r.from) /\ rowNew[r.bk] = Scheduled(r.to)
  /\ r.op \in CancelOps /\ pc[p] = "cancelBooking" =>
       row[r.bk] = Scheduled(r.from) /\ rowNew[r.bk] = Scheduled(r.from)
  /\ r.op \in CancelOps /\ pc[p] # "cancelBooking" =>
       row[r.bk] = Scheduled(r.from) /\ rowNew[r.bk] = Cancelled(r.from)

VersionInv == SettledInv /\ \A p \in Procs : SlotVersions(p) /\ RowVersions(p)

(* Nobody can move the booking of a Google Meet request that has yet to
   finalize or to compensate: its tokens are not out, and no other request
   finalizes the same booking. *)
MeetInv ==
  /\ \A b \in tokens : row[b] # NoRow
  /\ \A p \in Procs : OwnsMeet(p) =>
       LET r == req[p] IN
       /\ r.bk \notin tokens
       /\ row[r.bk] # NoRow
       /\ row[r.bk].status = "scheduled" => row[r.bk] = Scheduled(r.from)
  /\ \A p, q \in Procs : OwnsMeet(p) /\ OwnsMeet(q) /\ p # q => req[p].bk # req[q].bk

(* The inductive invariant. *)
IInv == TypeOK /\ ShapeInv /\ LockInv /\ VersionInv /\ MeetInv /\ SlotFlagTruthful

-----------------------------------------------------------------------------
(* What the versions of a booking row look like, and what the two UPDATEs make
   of a scheduled one. *)
LEMMA RowFacts ==
  /\ \A s : Scheduled(s).status = "scheduled" /\ Scheduled(s).slot = s /\ Scheduled(s) # NoRow
  /\ \A s : Cancelled(s).status = "cancelled" /\ Cancelled(s) # NoRow
  /\ \A s, t : Scheduled(s) = Scheduled(t) => s = t
  /\ \A s, t : [Scheduled(s) EXCEPT !.slot = t] = Scheduled(t)
  /\ \A s : [Scheduled(s) EXCEPT !.status = "cancelled"] = Cancelled(s)
  /\ NoRow.status = "none"
  /\ \A v \in Rows : v.status = "scheduled" => v.slot \in Slots /\ v = Scheduled(v.slot)
  /\ \A s \in Slots : Scheduled(s) \in Rows /\ Cancelled(s) \in Rows
  /\ NoRow \in Rows
BY DEF Scheduled, Cancelled, NoRow, Rows

(* The initial state satisfies the inductive invariant. *)
LEMMA InitIInv == Init => IInv
BY BookingAssumption
DEF Init, IInv, TypeOK, ShapeInv, Shape, LockInv, VersionInv, SettledInv, SlotVersions,
    RowVersions, MeetInv, SlotFlagTruthful, Holders, HasTo, HasFrom, HasRow, OwnsMeet,
    CancelOps, TakeOps, Rows, Reqs, Ops, BookOps, TokenOps, Labels, NoRow, NoReq, Scheduled

(* The SELECT ... FOR UPDATE of a token preserves the inductive invariant: the
   row it locks is the settled version it re-checks. *)
LEMMA LockTokenRowIInv ==
  ASSUME IInv, NEW p \in Procs, LockTokenRow(p)
  PROVE  IInv'
<1> USE BookingAssumption DEF IInv, TypeOK, ShapeInv, LockTokenRow, Goto, StillOnSlot, CanModify
<1>1. TypeOK'
  BY DEF Shape, CancelOps, TakeOps, Reqs, Ops, BookOps, TokenOps, Labels, NoReq, Rows, NoRow, Scheduled
<1>2. ShapeInv'
  <2> SUFFICES ASSUME NEW q \in Procs PROVE Shape(q)'  OBVIOUS
  <2>1. CASE q = p
    BY <2>1 DEF Shape, CancelOps, TakeOps, BookOps, TokenOps, Ops, NoReq
  <2>2. CASE q # p
    BY <2>2 DEF Shape, CancelOps, TakeOps, BookOps, TokenOps, Ops, NoReq
  <2> QED BY <2>1, <2>2
<1>3. LockInv'
  BY DEF LockInv, Shape, CancelOps, TakeOps, BookOps, TokenOps, Ops, NoReq, HasTo, HasFrom, HasRow
<1>4. VersionInv'
  <2> USE DEF VersionInv
  <2>1. SettledInv'
    BY DEF SettledInv, LockInv, HasTo, HasFrom, HasRow, Shape, CancelOps, TakeOps, BookOps, TokenOps, Ops, NoReq
  <2>2. ASSUME NEW q \in Procs PROVE SlotVersions(q)'
    <3>1. CASE q = p
      BY <3>1 DEF SlotVersions, LockInv, HasTo, HasFrom, HasRow, Shape, CancelOps, TakeOps, BookOps, TokenOps, Ops, NoReq
    <3>2. CASE q # p
      BY <3>2 DEF SlotVersions, LockInv, HasTo, HasFrom, HasRow, Shape, CancelOps, TakeOps, BookOps, TokenOps, Ops, NoReq
    <3> QED BY <3>1, <3>2
  <2>3. ASSUME NEW q \in Procs PROVE RowVersions(q)'
    <3>1. CASE q = p
      BY <3>1, RowFacts DEF RowVersions, SettledInv, LockInv, HasRow, Shape, CancelOps, TakeOps, BookOps, TokenOps, Ops, NoReq
    <3>2. CASE q # p
      BY <3>2 DEF RowVersions, LockInv, HasRow, Shape, CancelOps, TakeOps, BookOps, TokenOps, Ops, NoReq
    <3> QED BY <3>1, <3>2
  <2> QED BY <2>1, <2>2, <2>3
<1>5. MeetInv'
  BY DEF MeetInv, OwnsMeet, Shape, CancelOps, TakeOps, BookOps, TokenOps, Ops, NoReq
<1>6. SlotFlagTruthful'
  BY DEF SlotFlagTruthful, Holders
<1> QED BY <1>1, <1>2, <1>3, <1>4, <1>5, <1>6

(* So does the SELECT ... FOR UPDATE of a booking by its id. *)
LEMMA LockBookingRowIInv ==
  ASSUME IInv, NEW p \in Procs, LockBookingRow(p)
  PROVE  IInv'
<1> USE BookingAssumption DEF IInv, TypeOK, ShapeInv, LockBookingRow, Goto
<1>1. TypeOK'
  BY DEF Shape, CancelOps, TakeOps, Reqs, Ops, BookOps, TokenOps, Labels, NoReq, Rows, NoRow, Scheduled
<1>2. ShapeInv'
  <2> SUFFICES ASSUME NEW q \in Procs PROVE Shape(q)'  OBVIOUS
  <2>1. CASE q = p
    <3>1. row[req[p].bk] \in Rows  BY DEF Shape, CancelOps, TakeOps, BookOps, TokenOps, Ops, NoReq
    <3> QED BY <2>1, <3>1, RowFacts DEF Shape, CancelOps, TakeOps, BookOps, TokenOps, Ops, NoReq
  <2>2. CASE q # p
    BY <2>2 DEF Shape, CancelOps, TakeOps, BookOps, TokenOps, Ops, NoReq
  <2> QED BY <2>1, <2>2
<1>3. LockInv'
  BY DEF LockInv, Shape, CancelOps, TakeOps, BookOps, TokenOps, Ops, NoReq, HasTo, HasFrom, HasRow
<1>4. VersionInv'
  <2> USE DEF VersionInv
  <2>1. SettledInv'
    BY DEF SettledInv, LockInv, HasTo, HasFrom, HasRow, Shape, CancelOps, TakeOps, BookOps, TokenOps, Ops, NoReq
  <2>2. ASSUME NEW q \in Procs PROVE SlotVersions(q)'
    <3>1. CASE q = p
      BY <3>1 DEF SlotVersions, LockInv, HasTo, HasFrom, HasRow, Shape, CancelOps, TakeOps, BookOps, TokenOps, Ops, NoReq
    <3>2. CASE q # p
      BY <3>2 DEF SlotVersions, LockInv, HasTo, HasFrom, HasRow, Shape, CancelOps, TakeOps, BookOps, TokenOps, Ops, NoReq
    <3> QED BY <3>1, <3>2
  <2>3. ASSUME NEW q \in Procs PROVE RowVersions(q)'
    <3>1. CASE q = p
      BY <3>1, RowFacts DEF RowVersions, SettledInv, LockInv, HasRow, Shape, CancelOps, TakeOps, BookOps, TokenOps, Ops, NoReq
    <3>2. CASE q # p
      BY <3>2 DEF RowVersions, LockInv, HasRow, Shape, CancelOps, TakeOps, BookOps, TokenOps, Ops, NoReq
    <3> QED BY <3>1, <3>2
  <2> QED BY <2>1, <2>2, <2>3
<1>5. MeetInv'
  BY DEF MeetInv, OwnsMeet, Shape, CancelOps, TakeOps, BookOps, TokenOps, Ops, NoReq
<1>6. SlotFlagTruthful'
  BY DEF SlotFlagTruthful, Holders
<1> QED BY <1>1, <1>2, <1>3, <1>4, <1>5, <1>6

(* So does the lock of the slot to take: only a slot without an uncommitted
   change is locked. *)
LEMMA GetSlotForUpdateIInv ==
  ASSUME IInv, NEW p \in Procs, GetSlotForUpdate(p)
  PROVE  IInv'
<1> USE BookingAssumption DEF IInv, TypeOK, ShapeInv, GetSlotForUpdate, Goto, Bookable
<1>1. TypeOK'
  BY DEF Shape, CancelOps, TakeOps, Reqs, Ops, BookOps, TokenOps, Labels, NoReq, Rows, NoRow, Scheduled
<1>2. ShapeInv'
  <2> SUFFICES ASSUME NEW q \in Procs PROVE Shape(q)'  OBVIOUS
  <2>1. CASE q = p
    BY <2>1 DEF Shape, CancelOps, TakeOps, BookOps, TokenOps, Ops, NoReq
  <2>2. CASE q # p
    BY <2>2 DEF Shape, CancelOps, TakeOps, BookOps, TokenOps, Ops, NoReq
  <2> QED BY <2>1, <2>2
<1>3. LockInv'
  BY DEF LockInv, Shape, CancelOps, TakeOps, BookOps, TokenOps, Ops, NoReq, HasTo, HasFrom, HasRow
<1>4. VersionInv'
  <2> USE DEF VersionInv
  <2>1. SettledInv'
    BY DEF SettledInv, LockInv, HasTo, HasFrom, HasRow, Shape, CancelOps, TakeOps, BookOps, TokenOps, Ops, NoReq
  <2>2. ASSUME NEW q \in Procs PROVE SlotVersions(q)'
    <3>1. CASE q = p
      BY <3>1 DEF SlotVersions, SettledInv, LockInv, HasTo, HasFrom, HasRow, Shape, CancelOps, TakeOps, BookOps, TokenOps, Ops, NoReq
    <3>2. CASE q # p
      BY <3>2 DEF SlotVersions, LockInv, HasTo, HasFrom, HasRow, Shape, CancelOps, TakeOps, BookOps, TokenOps, Ops, NoReq
    <3> QED BY <3>1, <3>2
  <2>3. ASSUME NEW q \in Procs PROVE RowVersions(q)'
    <3>1. CASE q = p
      BY <3>1, RowFacts DEF RowVersions, SettledInv, LockInv, HasRow, Shape, CancelOps, TakeOps, BookOps, TokenOps, Ops, NoReq
    <3>2. CASE q # p
      BY <3>2 DEF RowVersions, LockInv, HasRow, Shape, CancelOps, TakeOps, BookOps, TokenOps, Ops, NoReq
    <3> QED BY <3>1, <3>2
  <2> QED BY <2>1, <2>2, <2>3
<1>5. MeetInv'
  BY DEF MeetInv, OwnsMeet, Shape, CancelOps, TakeOps, BookOps, TokenOps, Ops, NoReq
<1>6. SlotFlagTruthful'
  BY DEF SlotFlagTruthful, Holders
<1> QED BY <1>1, <1>2, <1>3, <1>4, <1>5, <1>6

(* So does the INSERT of the booking row, whose id nobody else has. *)
LEMMA InsertBookingIInv ==
  ASSUME IInv, NEW p \in Procs, InsertBooking(p)
  PROVE  IInv'
<1> USE BookingAssumption DEF IInv, TypeOK, ShapeInv, InsertBooking, Goto, Inserted, Claimed
<1> PICK b \in Bookings :
      /\ rowNew[b] = NoRow
      /\ rowNew' = [rowNew EXCEPT ![b] = Scheduled(req[p].to)]
      /\ rowLock' = [rowLock EXCEPT ![b] = p]
      /\ req' = [req EXCEPT ![p].bk = b]
  OBVIOUS
<1>0. rowLock[b] = Nobody /\ row[b] = NoRow
  <2>1. ASSUME NEW q \in Procs, rowLock[b] = q PROVE FALSE
    <3>1. HasRow(q) /\ b = req[q].bk
      BY <2>1 DEF LockInv
    <3>2. rowNew[b] \in {Scheduled(req[q].to), Scheduled(req[q].from), Cancelled(req[q].from)}
      BY <3>1 DEF VersionInv, RowVersions, HasRow, CancelOps
    <3> QED BY <3>2, RowFacts
  <2> QED BY <2>1 DEF VersionInv, SettledInv
<1>1. TypeOK'
  <2>1. req[p].to \in Slots
    BY DEF Shape, TakeOps
  <2>2. Scheduled(req[p].to) \in Rows
    BY <2>1 DEF Scheduled, Rows
  <2>3. rowNew' \in [Bookings -> Rows]
    BY <2>2
  <2>4. [req[p] EXCEPT !.bk = b] \in Reqs
    BY DEF Reqs
  <2>5. req' \in [Procs -> Reqs]
    BY <2>4
  <2> QED BY <2>3, <2>5 DEF Labels
<1>2. ShapeInv'
  <2> SUFFICES ASSUME NEW q \in Procs PROVE Shape(q)'  OBVIOUS
  <2>1. CASE q = p
    BY <2>1 DEF Shape, CancelOps, TakeOps, BookOps, TokenOps, Ops, NoReq
  <2>2. CASE q # p
    BY <2>2 DEF Shape, CancelOps, TakeOps, BookOps, TokenOps, Ops, NoReq
  <2> QED BY <2>1, <2>2
<1>3. LockInv'
  BY <1>0 DEF LockInv, Shape, CancelOps, TakeOps, BookOps, TokenOps, Ops, NoReq, HasTo, HasFrom, HasRow
<1>4. VersionInv'
  <2> USE DEF VersionInv
  <2>1. SettledInv'
    BY DEF SettledInv, Shape, CancelOps, TakeOps, BookOps, TokenOps, Ops, NoReq
  <2>2. ASSUME NEW q \in Procs PROVE SlotVersions(q)'
    <3>1. CASE q = p
      BY <3>1 DEF SlotVersions, LockInv, HasTo, HasFrom, HasRow, Shape, CancelOps, TakeOps, BookOps, TokenOps, Ops, NoReq
    <3>2. CASE q # p
      BY <3>2 DEF SlotVersions, LockInv, HasTo, HasFrom, HasRow, Shape, CancelOps, TakeOps, BookOps, TokenOps, Ops, NoReq
    <3> QED BY <3>1, <3>2
  <2>3. ASSUME NEW q \in Procs PROVE RowVersions(q)'
    <3>1. CASE q = p
      BY <1>0, <3>1 DEF RowVersions, HasRow, Shape, CancelOps, TakeOps, BookOps, TokenOps, Ops, NoReq
    <3>2. CASE q # p
      BY <1>0, <3>2 DEF RowVersions, LockInv, HasRow, Shape, CancelOps, TakeOps, BookOps, TokenOps, Ops, NoReq
    <3> QED BY <3>1, <3>2
  <2> QED BY <2>1, <2>2, <2>3
<1>5. MeetInv'
  BY DEF MeetInv, OwnsMeet, Shape, CancelOps, TakeOps, BookOps, TokenOps, Ops, NoReq
<1>6. SlotFlagTruthful'
  BY DEF SlotFlagTruthful, Holders
<1> QED BY <1>1, <1>2, <1>3, <1>4, <1>5, <1>6

(* So does SetSlotBooked(false) of the slot that is given up. *)
LEMMA FreeSlotIInv ==
  ASSUME IInv, NEW p \in Procs, FreeSlot(p)
  PROVE  IInv'
<1> USE BookingAssumption DEF IInv, TypeOK, ShapeInv, FreeSlot, Goto
<1>1. TypeOK'
  BY DEF Shape, CancelOps, TakeOps, Reqs, Ops, BookOps, TokenOps, Labels, NoReq, Rows, NoRow, Scheduled
<1>2. ShapeInv'
  <2> SUFFICES ASSUME NEW q \in Procs PROVE Shape(q)'  OBVIOUS
  <2>1. CASE q = p
    BY <2>1 DEF Shape, CancelOps, TakeOps, BookOps, TokenOps, Ops, NoReq
  <2>2. CASE q # p
    BY <2>2 DEF Shape, CancelOps, TakeOps, BookOps, TokenOps, Ops, NoReq
  <2> QED BY <2>1, <2>2
<1>3. LockInv'
  BY DEF LockInv, Shape, CancelOps, TakeOps, BookOps, TokenOps, Ops, NoReq, HasTo, HasFrom, HasRow
<1>4. VersionInv'
  <2> USE DEF VersionInv
  <2>1. SettledInv'
    BY DEF SettledInv, Shape, CancelOps, TakeOps, BookOps, TokenOps, Ops, NoReq
  <2>2. ASSUME NEW q \in Procs PROVE SlotVersions(q)'
    <3>1. CASE q = p
      BY <3>1 DEF SlotVersions, LockInv, HasTo, HasFrom, HasRow, Shape, CancelOps, TakeOps, BookOps, TokenOps, Ops, NoReq
    <3>2. CASE q # p
      BY <3>2 DEF SlotVersions, LockInv, HasTo, HasFrom, HasRow, Shape, CancelOps, TakeOps, BookOps, TokenOps, Ops, NoReq
    <3> QED BY <3>1, <3>2
  <2>3. ASSUME NEW q \in Procs PROVE RowVersions(q)'
    <3>1. CASE q = p
      BY <3>1 DEF RowVersions, HasRow, Shape, CancelOps, TakeOps, BookOps, TokenOps, Ops, NoReq
    <3>2. CASE q # p
      BY <3>2 DEF RowVersions, LockInv, HasRow, Shape, CancelOps, TakeOps, BookOps, TokenOps, Ops, NoReq
    <3> QED BY <3>1, <3>2
  <2> QED BY <2>1, <2>2, <2>3
<1>5. MeetInv'
  BY DEF MeetInv, OwnsMeet, Shape, CancelOps, TakeOps, BookOps, TokenOps, Ops, NoReq
<1>6. SlotFlagTruthful'
  BY DEF SlotFlagTruthful, Holders
<1> QED BY <1>1, <1>2, <1>3, <1>4, <1>5, <1>6

(* So does MarkSlotBooked of the slot that is taken. *)
LEMMA MarkSlotBookedIInv ==
  ASSUME IInv, NEW p \in Procs, MarkSlotBooked(p)
  PROVE  IInv'
<1> USE BookingAssumption DEF IInv, TypeOK, ShapeInv, MarkSlotBooked, Goto
<1>1. TypeOK'
  BY DEF Shape, CancelOps, TakeOps, Reqs, Ops, BookOps, TokenOps, Labels, NoReq, Rows, NoRow, Scheduled
<1>2. ShapeInv'
  <2> SUFFICES ASSUME NEW q \in Procs PROVE Shape(q)'  OBVIOUS
  <2>1. CASE q = p
    BY <2>1 DEF Shape, CancelOps, TakeOps, BookOps, TokenOps, Ops, NoReq
  <2>2. CASE q # p
    BY <2>2 DEF Shape, CancelOps, TakeOps, BookOps, TokenOps, Ops, NoReq
  <2> QED BY <2>1, <2>2
<1>3. LockInv'
  BY DEF LockInv, Shape, CancelOps, TakeOps, BookOps, TokenOps, Ops, NoReq, HasTo, HasFrom, HasRow
<1>4. VersionInv'
  <2> USE DEF VersionInv
  <2>1. SettledInv'
    BY DEF SettledInv, Shape, CancelOps, TakeOps, BookOps, TokenOps, Ops, NoReq
  <2>2. ASSUME NEW q \in Procs PROVE SlotVersions(q)'
    <3>1. CASE q = p
      BY <3>1 DEF SlotVersions, LockInv, HasTo, HasFrom, HasRow, Shape, CancelOps, TakeOps, BookOps, TokenOps, Ops, NoReq
    <3>2. CASE q # p
      BY <3>2 DEF SlotVersions, LockInv, HasTo, HasFrom, HasRow, Shape, CancelOps, TakeOps, BookOps, TokenOps, Ops, NoReq
    <3> QED BY <3>1, <3>2
  <2>3. ASSUME NEW q \in Procs PROVE RowVersions(q)'
    <3>1. CASE q = p
      BY <3>1 DEF RowVersions, HasRow, Shape, CancelOps, TakeOps, BookOps, TokenOps, Ops, NoReq
    <3>2. CASE q # p
      BY <3>2 DEF RowVersions, LockInv, HasRow, Shape, CancelOps, TakeOps, BookOps, TokenOps, Ops, NoReq
    <3> QED BY <3>1, <3>2
  <2> QED BY <2>1, <2>2, <2>3
<1>5. MeetInv'
  BY DEF MeetInv, OwnsMeet, Shape, CancelOps, TakeOps, BookOps, TokenOps, Ops, NoReq
<1>6. SlotFlagTruthful'
  BY DEF SlotFlagTruthful, Holders
<1> QED BY <1>1, <1>2, <1>3, <1>4, <1>5, <1>6

(* So does the UPDATE that points the booking row at its new slot. *)
LEMMA UpdateBookingSlotIInv ==
  ASSUME IInv, NEW p \in Procs, UpdateBookingSlot(p)
  PROVE  IInv'
<1> USE BookingAssumption DEF IInv, TypeOK, ShapeInv, UpdateBookingSlot, Goto
<1>0. /\ rowLock[req[p].bk] = p
      /\ row[req[p].bk] = Scheduled(req[p].from)
      /\ rowNew' = [rowNew EXCEPT ![req[p].bk] = Scheduled(req[p].to)]
  <2>1. rowLock[req[p].bk] = p
    BY DEF LockInv, HasRow, Shape, TokenOps
  <2>2. row[req[p].bk] = Scheduled(req[p].from) /\ rowNew[req[p].bk] = Scheduled(req[p].from)
    BY DEF VersionInv, RowVersions, HasRow, Shape
  <2>3. [rowNew[req[p].bk] EXCEPT !.slot = req[p].to] = Scheduled(req[p].to)
    BY <2>2, RowFacts
  <2>4. rowNew' = [rowNew EXCEPT ![req[p].bk] = [rowNew[req[p].bk] EXCEPT !.slot = req[p].to]]
    OBVIOUS
  <2> QED BY <2>1, <2>2, <2>3, <2>4
<1>1. TypeOK'
  BY DEF Shape, CancelOps, TakeOps, Reqs, Ops, BookOps, TokenOps, Labels, NoReq, Rows, NoRow, Scheduled
<1>2. ShapeInv'
  <2> SUFFICES ASSUME NEW q \in Procs PROVE Shape(q)'  OBVIOUS
  <2>1. CASE q = p
    BY <2>1 DEF Shape, CancelOps, TakeOps, BookOps, TokenOps, Ops, NoReq
  <2>2. CASE q # p
    BY <2>2 DEF Shape, CancelOps, TakeOps, BookOps, TokenOps, Ops, NoReq
  <2> QED BY <2>1, <2>2
<1>3. LockInv'
  BY DEF LockInv, Shape, CancelOps, TakeOps, BookOps, TokenOps, Ops, NoReq, HasTo, HasFrom, HasRow
<1>4. VersionInv'
  <2> USE DEF VersionInv
  <2>1. SettledInv'
    BY <1>0 DEF SettledInv, Shape, CancelOps, TakeOps, BookOps, TokenOps, Ops, NoReq
  <2>2. ASSUME NEW q \in Procs PROVE SlotVersions(q)'
    <3>1. CASE q = p
      BY <3>1 DEF SlotVersions, LockInv, HasTo, HasFrom, HasRow, Shape, CancelOps, TakeOps, BookOps, TokenOps, Ops, NoReq
    <3>2. CASE q # p
      BY <3>2 DEF SlotVersions, LockInv, HasTo, HasFrom, HasRow, Shape, CancelOps, TakeOps, BookOps, TokenOps, Ops, NoReq
    <3> QED BY <3>1, <3>2
  <2>3. ASSUME NEW q \in Procs PROVE RowVersions(q)'
    <3>1. CASE q = p
      BY <1>0, <3>1 DEF RowVersions, HasRow, Shape, CancelOps, TakeOps, BookOps, TokenOps, Ops, NoReq
    <3>2. CASE q # p
      BY <3>2 DEF RowVersions, LockInv, HasRow, Shape, CancelOps, TakeOps, BookOps, TokenOps, Ops, NoReq
    <3> QED BY <3>1, <3>2
  <2> QED BY <2>1, <2>2, <2>3
<1>5. MeetInv'
  BY DEF MeetInv, OwnsMeet, Shape, CancelOps, TakeOps, BookOps, TokenOps, Ops, NoReq
<1>6. SlotFlagTruthful'
  BY DEF SlotFlagTruthful, Holders
<1> QED BY <1>1, <1>2, <1>3, <1>4, <1>5, <1>6

(* So does the UPDATE of a booking row to cancelled. *)
LEMMA CancelBookingIInv ==
  ASSUME IInv, NEW p \in Procs, CancelBooking(p)
  PROVE  IInv'
<1> USE BookingAssumption DEF IInv, TypeOK, ShapeInv, CancelBooking, Goto, Cancellable
<1>0. /\ row[req[p].bk] = Scheduled(req[p].from)
      /\ rowNew[req[p].bk] = Scheduled(req[p].from)
  <2>1. CASE rowLock[req[p].bk] = Nobody
    <3>1. req[p].op = "compensate" /\ req[p].bk \in Bookings
      BY <2>1 DEF LockInv, HasRow, Shape, CancelOps, TokenOps
    <3>2. rowNew[req[p].bk] = row[req[p].bk]
      BY <2>1, <3>1 DEF VersionInv, SettledInv
    <3> QED BY <3>1, <3>2 DEF MeetInv, OwnsMeet
  <2>2. CASE rowLock[req[p].bk] = p
    BY <2>2 DEF VersionInv, RowVersions, LockInv, HasRow, Shape, CancelOps, TakeOps, BookOps, TokenOps, Ops, NoReq
  <2> QED BY <2>1, <2>2
<1>00. rowNew' = [rowNew EXCEPT ![req[p].bk] = Cancelled(req[p].from)]
  BY <1>0, RowFacts
<1>1. TypeOK'
  BY DEF Shape, CancelOps, TakeOps, Reqs, Ops, BookOps, TokenOps, Labels, NoReq, Rows, NoRow, Scheduled
<1>2. ShapeInv'
  <2> SUFFICES ASSUME NEW q \in Procs PROVE Shape(q)'  OBVIOUS
  <2>1. CASE q = p
    BY <2>1 DEF Shape, CancelOps, TakeOps, BookOps, TokenOps, Ops, NoReq
  <2>2. CASE q # p
    BY <2>2 DEF Shape, CancelOps, TakeOps, BookOps, TokenOps, Ops, NoReq
  <2> QED BY <2>1, <2>2
<1>3. LockInv'
  BY DEF LockInv, Shape, CancelOps, TakeOps, BookOps, TokenOps, Ops, NoReq, HasTo, HasFrom, HasRow
<1>4. VersionInv'
  <2> USE DEF VersionInv
  <2>1. SettledInv'
    BY <1>0, <1>00 DEF SettledInv, Shape, CancelOps, TakeOps, BookOps, TokenOps, Ops, NoReq
  <2>2. ASSUME NEW q \in Procs PROVE SlotVersions(q)'
    <3>1. CASE q = p
      BY <3>1 DEF SlotVersions, LockInv, HasTo, HasFrom, HasRow, Shape, CancelOps, TakeOps, BookOps, TokenOps, Ops, NoReq
    <3>2. CASE q # p
      BY <3>2 DEF SlotVersions, LockInv, HasTo, HasFrom, HasRow, Shape, CancelOps, TakeOps, BookOps, TokenOps, Ops, NoReq
    <3> QED BY <3>1, <3>2
  <2>3. ASSUME NEW q \in Procs PROVE RowVersions(q)'
    <3>1. CASE q = p
      BY <1>0, <1>00, <3>1 DEF RowVersions, HasRow, Shape, CancelOps, TakeOps, BookOps, TokenOps, Ops, NoReq
    <3>2. CASE q # p
      BY <3>2 DEF RowVersions, LockInv, HasRow, Shape, CancelOps, TakeOps, BookOps, TokenOps, Ops, NoReq
    <3> QED BY <3>1, <3>2
  <2> QED BY <2>1, <2>2, <2>3
<1>5. MeetInv'
  BY DEF MeetInv, OwnsMeet, Shape, CancelOps, TakeOps, BookOps, TokenOps, Ops, NoReq
<1>6. SlotFlagTruthful'
  BY DEF SlotFlagTruthful, Holders
<1> QED BY <1>1, <1>2, <1>3, <1>4, <1>5, <1>6

(* So does the end of a successful Google Meet request, which hands out the
   tokens of its booking. *)
LEMMA FinalizeMeetIInv ==
  ASSUME IInv, NEW p \in Procs, FinalizeMeet(p)
  PROVE  IInv'
<1> USE BookingAssumption DEF IInv, TypeOK, ShapeInv, FinalizeMeet, Goto
<1>1. TypeOK'
  BY DEF Shape, CancelOps, TakeOps, Reqs, Ops, BookOps, TokenOps, Labels, NoReq, Rows, NoRow, Scheduled
<1>2. ShapeInv'
  <2> SUFFICES ASSUME NEW q \in Procs PROVE Shape(q)'  OBVIOUS
  <2>1. CASE q = p
    BY <2>1 DEF Shape, CancelOps, TakeOps, BookOps, TokenOps, Ops, NoReq
  <2>2. CASE q # p
    BY <2>2 DEF Shape, CancelOps, TakeOps, BookOps, TokenOps, Ops, NoReq
  <2> QED BY <2>1, <2>2
<1>3. LockInv'
  BY DEF LockInv, Shape, CancelOps, TakeOps, BookOps, TokenOps, Ops, NoReq, HasTo, HasFrom, HasRow
<1>4. VersionInv'
  <2> USE DEF VersionInv
  <2>1. SettledInv'
    BY DEF SettledInv, LockInv, HasTo, HasFrom, HasRow, Shape, CancelOps, TakeOps, BookOps, TokenOps, Ops, NoReq
  <2>2. ASSUME NEW q \in Procs PROVE SlotVersions(q)'
    <3>1. CASE q = p
      BY <3>1 DEF SlotVersions, LockInv, HasTo, HasFrom, HasRow, Shape, CancelOps, TakeOps, BookOps, TokenOps, Ops, NoReq
    <3>2. CASE q # p
      BY <3>2 DEF SlotVersions, LockInv, HasTo, HasFrom, HasRow, Shape, CancelOps, TakeOps, BookOps, TokenOps, Ops, NoReq
    <3> QED BY <3>1, <3>2
  <2>3. ASSUME NEW q \in Procs PROVE RowVersions(q)'
    <3>1. CASE q = p
      BY <3>1, RowFacts DEF RowVersions, SettledInv, LockInv, HasRow, Shape, CancelOps, TakeOps, BookOps, TokenOps, Ops, NoReq
    <3>2. CASE q # p
      BY <3>2 DEF RowVersions, LockInv, HasRow, Shape, CancelOps, TakeOps, BookOps, TokenOps, Ops, NoReq
    <3> QED BY <3>1, <3>2
  <2> QED BY <2>1, <2>2, <2>3
<1>5. MeetInv'
  BY DEF MeetInv, OwnsMeet, Shape, CancelOps, TakeOps, BookOps, TokenOps, Ops, NoReq
<1>6. SlotFlagTruthful'
  BY DEF SlotFlagTruthful, Holders
<1> QED BY <1>1, <1>2, <1>3, <1>4, <1>5, <1>6

(* So does the start of the compensating cancel, whose booking nobody else can
   have moved. *)
LEMMA StartCompensationIInv ==
  ASSUME IInv, NEW p \in Procs, StartCompensation(p)
  PROVE  IInv'
<1> USE BookingAssumption DEF IInv, TypeOK, ShapeInv, StartCompensation, Goto
<1>1. TypeOK'
  BY DEF Shape, CancelOps, TakeOps, Reqs, Ops, BookOps, TokenOps, Labels, NoReq, Rows, NoRow, Scheduled
<1>2. ShapeInv'
  <2> SUFFICES ASSUME NEW q \in Procs PROVE Shape(q)'  OBVIOUS
  <2>1. CASE q = p
    BY <2>1 DEF Shape, CancelOps, TakeOps, BookOps, TokenOps, Ops, NoReq
  <2>2. CASE q # p
    BY <2>2 DEF Shape, CancelOps, TakeOps, BookOps, TokenOps, Ops, NoReq
  <2> QED BY <2>1, <2>2
<1>3. LockInv'
  BY DEF LockInv, Shape, CancelOps, TakeOps, BookOps, TokenOps, Ops, NoReq, HasTo, HasFrom, HasRow
<1>4. VersionInv'
  <2> USE DEF VersionInv
  <2>1. SettledInv'
    BY DEF SettledInv, LockInv, HasTo, HasFrom, HasRow, Shape, CancelOps, TakeOps, BookOps, TokenOps, Ops, NoReq
  <2>2. ASSUME NEW q \in Procs PROVE SlotVersions(q)'
    <3>1. CASE q = p
      BY <3>1 DEF SlotVersions, LockInv, HasTo, HasFrom, HasRow, Shape, CancelOps, TakeOps, BookOps, TokenOps, Ops, NoReq
    <3>2. CASE q # p
      BY <3>2 DEF SlotVersions, LockInv, HasTo, HasFrom, HasRow, Shape, CancelOps, TakeOps, BookOps, TokenOps, Ops, NoReq
    <3> QED BY <3>1, <3>2
  <2>3. ASSUME NEW q \in Procs PROVE RowVersions(q)'
    <3>1. CASE q = p
      BY <3>1, RowFacts DEF RowVersions, SettledInv, LockInv, HasRow, Shape, CancelOps, TakeOps, BookOps, TokenOps, Ops, NoReq
    <3>2. CASE q # p
      BY <3>2 DEF RowVersions, LockInv, HasRow, Shape, CancelOps, TakeOps, BookOps, TokenOps, Ops, NoReq
    <3> QED BY <3>1, <3>2
  <2> QED BY <2>1, <2>2, <2>3
<1>5. MeetInv'
  BY DEF MeetInv, OwnsMeet, Shape, CancelOps, TakeOps, BookOps, TokenOps, Ops, NoReq
<1>6. SlotFlagTruthful'
  BY DEF SlotFlagTruthful, Holders
<1> QED BY <1>1, <1>2, <1>3, <1>4, <1>5, <1>6

(* The start of a request changes its own label and locals, and what it then
   remembers owns no lock. *)
OnlyBegins(p) ==
  /\ UNCHANGED <<now, booked, bookedNew, row, rowNew, tokens, slotLock, rowLock>>
  /\ pc[p] = "idle"
  /\ pc' = [pc EXCEPT ![p] = pc'[p]]
  /\ req' = [req EXCEPT ![p] = req'[p]]
  /\ pc'[p] \in Labels
  /\ req'[p] \in Reqs
  /\ ~HasTo(p)' /\ ~HasFrom(p)' /\ ~HasRow(p)' /\ ~OwnsMeet(p)'
  /\ Shape(p)'

(* The first statement of each kind of request only changes that request. *)
LEMMA BeginShape ==
  ASSUME IInv, NEW p \in Procs, Request(p)
  PROVE  OnlyBegins(p)
<1> USE DEF IInv, TypeOK, OnlyBegins, Begin, Goto, HasTo, HasFrom, HasRow, OwnsMeet, Reqs, Labels, Shape, CancelOps, TakeOps, BookOps, TokenOps, Ops, NoReq
<1>1. ASSUME NEW o \in BookOps, NEW s \in Slots, BeginBook(p, o, s) PROVE OnlyBegins(p)
  BY <1>1 DEF BeginBook
<1>2. ASSUME NEW b \in Bookings, NEW o \in TokenOps, NEW s \in Slots \cup {NoSlot},
             o = "reschedule" => s \in Slots, ReadToken(p, b, o, s)
      PROVE  OnlyBegins(p)
  <2>1. row[b].slot \in Slots
    BY <1>2, RowFacts DEF ReadToken
  <2> QED BY <1>2, <2>1 DEF ReadToken
<1>3. ASSUME NEW b \in Bookings, BeginCancel(p, b) PROVE OnlyBegins(p)
  BY <1>3 DEF BeginCancel
<1> QED BY <1>1, <1>2, <1>3 DEF Request

(* The start of a request preserves the inductive invariant. *)
LEMMA BeginIInv ==
  ASSUME IInv, NEW p \in Procs, Request(p)
  PROVE  IInv'
<1>0. OnlyBegins(p)
  BY BeginShape
<1> USE <1>0, BookingAssumption DEF IInv, TypeOK, ShapeInv, OnlyBegins
<1>. ~HasTo(p) /\ ~HasFrom(p) /\ ~HasRow(p) /\ ~OwnsMeet(p)
  BY DEF HasTo, HasFrom, HasRow, OwnsMeet, Shape, NoReq
<1>1. TypeOK'
  OBVIOUS
<1>2. ASSUME NEW q \in Procs, q # p
      PROVE /\ Shape(q)'
            /\ HasTo(q)' = HasTo(q)
            /\ HasFrom(q)' = HasFrom(q)
            /\ HasRow(q)' = HasRow(q)
            /\ OwnsMeet(q)' = OwnsMeet(q)
            /\ pc'[q] = pc[q]
            /\ req'[q] = req[q]
  BY <1>2 DEF HasTo, HasFrom, HasRow, OwnsMeet, Shape
<1>3. ShapeInv'
  BY <1>2
<1>4. LockInv'
  BY <1>2 DEF LockInv
<1>5. VersionInv'
  <2>1. SettledInv'
    BY DEF VersionInv, SettledInv
  <2>2. ASSUME NEW q \in Procs PROVE SlotVersions(q)' /\ RowVersions(q)'
    BY <1>2 DEF VersionInv, SlotVersions, RowVersions
  <2> QED BY <2>1, <2>2 DEF VersionInv
<1>6. MeetInv'
  BY <1>2 DEF MeetInv
<1>7. SlotFlagTruthful'
  BY DEF SlotFlagTruthful, Holders
<1> QED BY <1>1, <1>3, <1>4, <1>5, <1>6, <1>7

(* The end of a transaction, by commit or by rollback, leaves the other
   requests with the locks they had. *)
LEMMA ReleaseFacts ==
  ASSUME TypeOK, NEW p \in Procs, ReleaseLocks(p)
  PROVE  /\ slotLock' \in [Slots -> Procs \cup {Nobody}]
         /\ rowLock' \in [Bookings -> Procs \cup {Nobody}]
         /\ \A s \in Slots : slotLock'[s] # p /\ (slotLock'[s] = Nobody <=> slotLock[s] \in {p, Nobody})
         /\ \A b \in Bookings : rowLock'[b] # p /\ (rowLock'[b] = Nobody <=> rowLock[b] \in {p, Nobody})
         /\ \A q \in Procs \ {p} :
              /\ \A s \in Slots : slotLock'[s] = q <=> slotLock[s] = q
              /\ \A b \in Bookings : rowLock'[b] = q <=> rowLock[b] = q
BY BookingAssumption DEF TypeOK, ReleaseLocks

(* A rollback preserves the inductive invariant: the versions of what it had
   locked fall back to the committed ones. *)
LEMMA RollbackIInv ==
  ASSUME IInv, NEW p \in Procs, Rollback(p)
  PROVE  IInv'
<1> USE BookingAssumption DEF IInv, ShapeInv, Goto
<1>1. TypeOK'
  BY ReleaseFacts DEF TypeOK, Rollback, NoReq, Reqs, Labels
<1>. /\ ~HasTo(p)' /\ ~HasFrom(p)' /\ ~HasRow(p)' /\ ~OwnsMeet(p)'
     /\ Shape(p)'
  BY DEF TypeOK, Rollback, Shape, CancelOps, TakeOps, BookOps, TokenOps, Ops, NoReq, HasTo, HasFrom, HasRow, OwnsMeet
<1>2. ASSUME NEW q \in Procs, q # p
      PROVE /\ Shape(q)'
            /\ HasTo(q)' = HasTo(q)
            /\ HasFrom(q)' = HasFrom(q)
            /\ HasRow(q)' = HasRow(q)
            /\ OwnsMeet(q)' = OwnsMeet(q)
            /\ pc'[q] = pc[q]
            /\ req'[q] = req[q]
  BY <1>2 DEF Rollback, HasTo, HasFrom, HasRow, OwnsMeet, Shape
<1>3. ShapeInv'
  BY <1>2
<1>4. LockInv'
  BY <1>2, ReleaseFacts DEF LockInv, Rollback
<1>5. VersionInv'
  <2>1. SettledInv'
    BY ReleaseFacts DEF VersionInv, SettledInv, Rollback, TypeOK
  <2>2. ASSUME NEW q \in Procs, q # p PROVE SlotVersions(q)'
    BY <1>2, <2>2 DEF VersionInv, SlotVersions, LockInv, Rollback, TypeOK, Shape, HasTo, HasFrom, CancelOps, TokenOps
  <2>3. ASSUME NEW q \in Procs, q # p PROVE RowVersions(q)'
    BY <1>2, <2>3 DEF VersionInv, RowVersions, LockInv, Rollback, TypeOK, HasRow, Shape, CancelOps, TakeOps, BookOps, TokenOps, Ops, NoReq
  <2>4. SlotVersions(p)' /\ RowVersions(p)'
    BY DEF SlotVersions, RowVersions
  <2> QED BY <2>1, <2>2, <2>3, <2>4 DEF VersionInv
<1>6. MeetInv'
  BY <1>2 DEF MeetInv, Rollback
<1>7. SlotFlagTruthful'
  BY DEF SlotFlagTruthful, Holders, Rollback
<1> QED BY <1>1, <1>3, <1>4, <1>5, <1>6, <1>7

(* What a commit publishes, for each kind of request. *)
Books(b, s) ==
  /\ row[b] = NoRow
  /\ ~booked[s]
  /\ booked' = [booked EXCEPT ![s] = TRUE]
  /\ row' = [row EXCEPT ![b] = Scheduled(s)]

Moves(b, s, t) ==
  /\ row[b] = Scheduled(s)
  /\ s # t
  /\ ~booked[t]
  /\ booked' = [booked EXCEPT ![s] = FALSE, ![t] = TRUE]
  /\ row' = [row EXCEPT ![b] = Scheduled(t)]

Cancels(b, s) ==
  /\ row[b] = Scheduled(s)
  /\ booked' = [booked EXCEPT ![s] = FALSE]
  /\ row' = [row EXCEPT ![b] = Cancelled(s)]

(* A commit publishes one whole booking, move or cancellation. *)
LEMMA CommitEffect ==
  ASSUME IInv, NEW p \in Procs, Commit(p)
  PROVE  LET r == req[p] IN
         /\ r.bk \in Bookings
         /\ \/ r.op \in BookOps /\ r.to \in Slots /\ Books(r.bk, r.to)
            \/ r.op = "reschedule" /\ r.from \in Slots /\ r.to \in Slots /\ Moves(r.bk, r.from, r.to)
            \/ r.op \in CancelOps /\ r.from \in Slots /\ Cancels(r.bk, r.from)
<1> DEFINE r == req[p]
<1> USE DEF IInv, TypeOK, ShapeInv, Commit
<1>0. pc[p] = "commit" /\ r.op \in BookOps \cup {"reschedule"} \cup CancelOps
  BY DEF Shape, Ops, TokenOps, CancelOps
<1>1. CASE r.op \in BookOps
  <2>1. HasTo(p) /\ ~HasFrom(p) /\ HasRow(p) /\ r.to \in Slots /\ r.bk \in Bookings
    BY <1>0, <1>1 DEF Shape, CancelOps, TakeOps, BookOps, TokenOps, Ops, NoReq, HasTo, HasFrom, HasRow
  <2>2. ~booked[r.to] /\ bookedNew[r.to] /\ row[r.bk] = NoRow /\ rowNew[r.bk] = Scheduled(r.to)
    BY <1>0, <1>1, <2>1 DEF VersionInv, SlotVersions, RowVersions
  <2>a. /\ \A s \in Slots : slotLock[s] = p <=> s = r.to
        /\ \A b \in Bookings : rowLock[b] = p <=> b = r.bk
    BY <2>1 DEF LockInv
  <2>3. booked' = [booked EXCEPT ![r.to] = TRUE]
    BY <2>a, <2>1, <2>2
  <2>4. row' = [row EXCEPT ![r.bk] = Scheduled(r.to)]
    BY <2>a, <2>1, <2>2
  <2> QED BY <1>1, <2>1, <2>2, <2>3, <2>4 DEF Books
<1>2. CASE r.op = "reschedule"
  <2>1. /\ HasTo(p) /\ HasFrom(p) /\ HasRow(p)
        /\ r.to \in Slots /\ r.from \in Slots /\ r.from # r.to /\ r.bk \in Bookings
    BY <1>0, <1>2 DEF Shape, CancelOps, TakeOps, BookOps, TokenOps, Ops, NoReq, HasTo, HasFrom, HasRow
  <2>2. /\ ~booked[r.to] /\ bookedNew[r.to] /\ ~bookedNew[r.from]
        /\ row[r.bk] = Scheduled(r.from) /\ rowNew[r.bk] = Scheduled(r.to)
    BY <1>0, <1>2, <2>1 DEF VersionInv, SlotVersions, RowVersions
  <2>a. /\ \A s \in Slots : slotLock[s] = p <=> s = r.to \/ s = r.from
        /\ \A b \in Bookings : rowLock[b] = p <=> b = r.bk
    BY <2>1 DEF LockInv
  <2>b. booked' = [s \in Slots |-> IF s = r.to THEN TRUE ELSE IF s = r.from THEN FALSE ELSE booked[s]]
    <3>1. bookedNew[r.to] = TRUE /\ bookedNew[r.from] = FALSE
      BY <2>1, <2>2
    <3> HIDE DEF r
    <3> QED BY <2>a, <2>1, <3>1
  <2>3. booked' = [booked EXCEPT ![r.from] = FALSE, ![r.to] = TRUE]
    BY <2>b, <2>1
  <2>4. row' = [row EXCEPT ![r.bk] = Scheduled(r.to)]
    BY <2>a, <2>1, <2>2
  <2> QED BY <1>2, <2>1, <2>2, <2>3, <2>4 DEF Moves
<1>3. CASE r.op \in CancelOps
  <2>1. ~HasTo(p) /\ HasFrom(p) /\ HasRow(p) /\ r.from \in Slots /\ r.bk \in Bookings
    BY <1>0, <1>3 DEF Shape, CancelOps, TakeOps, BookOps, TokenOps, Ops, NoReq, HasTo, HasFrom, HasRow
  <2>2. ~bookedNew[r.from] /\ row[r.bk] = Scheduled(r.from) /\ rowNew[r.bk] = Cancelled(r.from)
    BY <1>0, <1>3, <2>1 DEF VersionInv, SlotVersions, RowVersions
  <2>a. /\ \A s \in Slots : slotLock[s] = p <=> s = r.from
        /\ \A b \in Bookings : rowLock[b] = p <=> b = r.bk
    BY <2>1 DEF LockInv
  <2>3. booked' = [booked EXCEPT ![r.from] = FALSE]
    BY <2>a, <2>1, <2>2
  <2>4. row' = [row EXCEPT ![r.bk] = Cancelled(r.from)]
    BY <2>a, <2>1, <2>2
  <2> QED BY <1>3, <2>1, <2>2, <2>3, <2>4 DEF Cancels
<1> QED BY <1>0, <1>1, <1>2, <1>3

(* After a commit the flags of the slots still agree with the booking rows. *)
LEMMA CommitFlag ==
  ASSUME IInv, NEW p \in Procs, Commit(p)
  PROVE  SlotFlagTruthful'
<1> DEFINE r == req[p]
<1> USE DEF IInv, TypeOK, SlotFlagTruthful, Holders
<1>1. CASE r.to \in Slots /\ r.bk \in Bookings /\ Books(r.bk, r.to)
  BY <1>1, RowFacts DEF Books
<1>2. CASE r.from \in Slots /\ r.to \in Slots /\ r.bk \in Bookings /\ Moves(r.bk, r.from, r.to)
  BY <1>2, RowFacts DEF Moves
<1>3. CASE r.from \in Slots /\ r.bk \in Bookings /\ Cancels(r.bk, r.from)
  BY <1>3, RowFacts DEF Cancels
<1> QED BY <1>1, <1>2, <1>3, CommitEffect

(* A commit preserves the inductive invariant. *)
LEMMA CommitIInv ==
  ASSUME IInv, NEW p \in Procs, Commit(p)
  PROVE  IInv'
<1> USE BookingAssumption DEF IInv, ShapeInv, Goto
<1>a. /\ req[p].bk \in Bookings
      /\ row' \in [Bookings -> Rows] /\ booked' \in [Slots -> BOOLEAN]
      /\ row'[req[p].bk] # NoRow
      /\ \A b \in Bookings \ {req[p].bk} : row'[b] = row[b]
  <2> DEFINE r == req[p]
  <2> USE DEF TypeOK
  <2>1. CASE r.op \in BookOps /\ r.to \in Slots /\ r.bk \in Bookings /\ Books(r.bk, r.to)
    BY <2>1, RowFacts DEF Books
  <2>2. CASE r.from \in Slots /\ r.to \in Slots /\ r.bk \in Bookings /\ Moves(r.bk, r.from, r.to)
    BY <2>2, RowFacts DEF Moves
  <2>3. CASE r.from \in Slots /\ r.bk \in Bookings /\ Cancels(r.bk, r.from)
    BY <2>3, RowFacts DEF Cancels
  <2> QED BY <2>1, <2>2, <2>3, CommitEffect
<1>b. req'[p].op # "compensate" /\ (pc'[p] = "finalize" => req[p].op = "bookMeet" /\ req'[p].bk = req[p].bk /\ req'[p].from = req[p].to)
  BY DEF Commit, TypeOK, NoReq
<1>1. TypeOK'
  BY <1>a, ReleaseFacts DEF TypeOK, Commit, NoReq, Reqs, Labels, Shape, CancelOps, TakeOps, BookOps, TokenOps, Ops, NoReq, Shape, QueuesTokens
<1>c. /\ ~HasTo(p)' /\ ~HasFrom(p)' /\ ~HasRow(p)'
      /\ Shape(p)'
  BY <1>a DEF TypeOK, Commit, Shape, CancelOps, TakeOps, BookOps, TokenOps, Ops, NoReq, HasTo, HasFrom, HasRow
<1>2. ASSUME NEW q \in Procs, q # p
      PROVE /\ Shape(q)'
            /\ HasTo(q)' = HasTo(q)
            /\ HasFrom(q)' = HasFrom(q)
            /\ HasRow(q)' = HasRow(q)
            /\ OwnsMeet(q)' = OwnsMeet(q)
            /\ pc'[q] = pc[q]
            /\ req'[q] = req[q]
  BY <1>2 DEF Commit, HasTo, HasFrom, HasRow, OwnsMeet, Shape
<1>3. ShapeInv'
  BY <1>2, <1>c
<1>4. LockInv'
  BY <1>2, <1>c, ReleaseFacts DEF LockInv, Commit
<1>5. VersionInv'
  <2>1. SettledInv'
    BY ReleaseFacts DEF VersionInv, SettledInv, Commit, TypeOK
  <2>2. ASSUME NEW q \in Procs, q # p PROVE SlotVersions(q)'
    BY <1>2, <2>2 DEF VersionInv, SlotVersions, LockInv, Commit, TypeOK, Shape, HasTo, HasFrom, CancelOps, TokenOps
  <2>3. ASSUME NEW q \in Procs, q # p PROVE RowVersions(q)'
    BY <1>2, <2>3 DEF VersionInv, RowVersions, LockInv, Commit, TypeOK, HasRow, Shape, CancelOps, TakeOps, BookOps, TokenOps, Ops, NoReq
  <2>4. SlotVersions(p)' /\ RowVersions(p)'
    BY <1>c DEF SlotVersions, RowVersions
  <2> QED BY <2>1, <2>2, <2>3, <2>4 DEF VersionInv
<1>6. MeetInv'
  <2> USE DEF MeetInv, OwnsMeet
  <2>1. \A b \in tokens' : row'[b] # NoRow
    BY <1>a DEF Commit, TypeOK
  <2>2. ASSUME NEW q \in Procs, OwnsMeet(q)'
        PROVE /\ req'[q].bk \notin tokens'
              /\ row'[req'[q].bk] # NoRow
              /\ row'[req'[q].bk].status = "scheduled" => row'[req'[q].bk] = Scheduled(req'[q].from)
    <3>1. CASE q = p
      <4>1. req[p].op = "bookMeet" /\ req'[p].bk = req[p].bk /\ req'[p].from = req[p].to
        BY <3>1, <2>2, <1>b
      <4>2. Books(req[p].bk, req[p].to) /\ req[p].bk \in Bookings
        BY <4>1, CommitEffect DEF CancelOps
      <4>3. tokens' = tokens /\ req[p].bk \notin tokens
        BY <4>1, <4>2 DEF Commit, QueuesTokens, Books
      <4>4. row'[req[p].bk] = Scheduled(req[p].to)
        BY <4>2 DEF Books, TypeOK
      <4> QED BY <3>1, <4>1, <4>3, <4>4, RowFacts
    <3>2. CASE q # p
      <4>1. OwnsMeet(q) /\ req'[q] = req[q] /\ row[req[q].bk] # NoRow /\ req[q].bk \notin tokens
        BY <3>2, <2>2, <1>2
      <4>2. \/ tokens' = tokens
            \/ Books(req[p].bk, req[p].to) /\ tokens' = tokens \cup {req[p].bk}
        <5>0. tokens' = IF QueuesTokens(req[p]) THEN tokens \cup {req[p].bk} ELSE tokens
          BY Zenon DEF Commit
        <5>1. CASE req[p].op = "bookOnSite"
          BY <5>0, <5>1, CommitEffect DEF QueuesTokens, CancelOps
        <5>2. CASE req[p].op # "bookOnSite"
          BY <5>0, <5>2 DEF QueuesTokens
        <5> QED BY <5>1, <5>2
      <4>3. CASE req[q].bk = req[p].bk
        <5>1. Cancels(req[p].bk, req[p].from)
          BY <4>1, <4>3, CommitEffect DEF Books, Shape, TokenOps
        <5>2. row'[req[q].bk] = Cancelled(req[p].from) /\ tokens' = tokens
          BY <4>1, <4>2, <4>3, <5>1, <1>a DEF Books, Cancels, TypeOK
        <5> QED BY <4>1, <5>2, RowFacts
      <4>4. CASE req[q].bk # req[p].bk
        <5>1. req[q].bk \in Bookings
          BY <4>1 DEF Shape, BookOps
        <5> QED BY <4>1, <4>2, <4>4, <5>1, <1>a
      <4> QED BY <4>3, <4>4
    <3> QED BY <3>1, <3>2
  <2>3. ASSUME NEW q1 \in Procs, NEW q2 \in Procs, OwnsMeet(q1)', OwnsMeet(q2)', q1 # q2
        PROVE req'[q1].bk # req'[q2].bk
    BY <2>3, <1>2, <1>a, <1>b, CommitEffect DEF Books, BookOps, CancelOps
  <2> QED BY <2>1, <2>2, <2>3
<1>7. SlotFlagTruthful'
  BY CommitFlag
<1> QED BY <1>1, <1>3, <1>4, <1>5, <1>6, <1>7

-----------------------------------------------------------------------------
(* Every step preserves the inductive invariant. *)
LEMMA NextIInv == IInv /\ [Next]_vars => IInv'
<1> SUFFICES ASSUME IInv, [Next]_vars PROVE IInv'  OBVIOUS
<1>1. ASSUME NEW p \in Procs, Request(p) PROVE IInv'
  BY <1>1, BeginIInv
<1>2. ASSUME NEW p \in Procs, Step(p) PROVE IInv'
  BY <1>2, LockTokenRowIInv, LockBookingRowIInv, GetSlotForUpdateIInv, InsertBookingIInv,
     FreeSlotIInv, MarkSlotBookedIInv, UpdateBookingSlotIInv, CancelBookingIInv, CommitIInv,
     FinalizeMeetIInv, StartCompensationIInv, RollbackIInv DEF Step, Refuse
<1>3. ASSUME NEW p \in Procs, Abort(p) PROVE IInv'
  BY <1>3, RollbackIInv DEF Abort
<1>4. ASSUME Tick \/ UNCHANGED vars PROVE IInv'
  <2>1. UNCHANGED <<booked, bookedNew, row, rowNew, tokens, slotLock, rowLock, pc, req>> /\ now' \in Nat
    BY <1>4 DEF Tick, vars, IInv, TypeOK
  <2> USE <2>1 DEF IInv
  <2>2. TypeOK'  BY DEF TypeOK
  <2>3. ShapeInv' /\ LockInv'  BY DEF ShapeInv, Shape, LockInv, HasTo, HasFrom, HasRow
  <2>4. VersionInv'
    BY DEF VersionInv, SettledInv, SlotVersions, RowVersions, HasTo, HasFrom, HasRow
  <2>5. MeetInv' /\ SlotFlagTruthful'  BY DEF MeetInv, OwnsMeet, SlotFlagTruthful, Holders
  <2> QED BY <2>2, <2>3, <2>4, <2>5
<1> QED BY <1>1, <1>2, <1>3, <1>4 DEF Next

(* The inductive invariant holds in every reachable state. *)
THEOREM Inductive == Spec => []IInv
BY InitIInv, NextIInv, PTL DEF Spec

(* Every variable always has its type. *)
THEOREM TypeCorrect == Spec => []TypeOK
<1>1. IInv => TypeOK  BY DEF IInv
<1> QED BY <1>1, Inductive, PTL

(* The committed booked flag of a slot is set exactly when one scheduled booking
   holds the slot, and never do two: ListAvailableSlots and Book can trust it,
   whatever requests are interleaved, refused, aborted or compensated. *)
THEOREM FlagCorrect == Spec => []SlotFlagTruthful
<1>1. IInv => SlotFlagTruthful  BY DEF IInv
<1> QED BY <1>1, Inductive, PTL

(* A request that has its booking's row lock and frees the slot it remembers
   frees the slot the booking holds: the second check of FOR UPDATE OF b makes
   it so for the candidate's requests, the secrecy of the tokens before
   FinalizeMeet for the compensating cancel. *)
THEOREM RememberedCorrect == Spec => []RememberedSlotCurrent
<1>1. IInv => RememberedSlotCurrent
  BY DEF IInv, RememberedSlotCurrent, VersionInv, RowVersions, LockInv, HasRow, CancelOps, BookOps, TokenOps
<1> QED BY <1>1, Inductive, PTL

-----------------------------------------------------------------------------
(* What follows from the inductive invariant: requests never deadlock, the
   cutoff holds, and the transactions implement BookingLedger. *)

(* The slots row that a request frees is locked by no other request. *)
LEMMA FreeSlotNeverWaits ==
  ASSUME IInv, NEW p \in Procs, pc[p] = "freeSlot"
  PROVE  slotLock[req[p].from] \in {Nobody, p}
<1> USE DEF IInv, TypeOK, ShapeInv
<1> DEFINE s == req[p].from
<1>1. HasRow(p) /\ req[p].bk \in Bookings /\ s \in Slots
  BY DEF HasRow, Shape, CancelOps, TokenOps
<1>2. row[req[p].bk] = Scheduled(s)
  BY <1>1 DEF VersionInv, RowVersions, HasRow, CancelOps, BookOps
<1>3. booked[s]
  BY <1>1, <1>2 DEF SlotFlagTruthful, Holders
<1>4. ASSUME NEW q \in Procs, q # p, slotLock[s] = q PROVE FALSE
  <2>1. ~HasTo(q) \/ s # req[q].to
    BY <1>3 DEF VersionInv, SlotVersions
  <2>2. HasFrom(q) /\ s = req[q].from
    BY <1>1, <1>4, <2>1 DEF LockInv
  <2>3. HasRow(q) /\ req[q].bk \in Bookings
    BY <2>2 DEF HasFrom, HasRow, Shape, CancelOps, TokenOps
  <2>4. row[req[q].bk] = Scheduled(s)
    BY <2>2, <2>3 DEF VersionInv, RowVersions, HasFrom, CancelOps, BookOps
  <2>5. req[q].bk = req[p].bk
    BY <1>1, <1>2, <2>3, <2>4 DEF SlotFlagTruthful, Holders
  <2> QED BY <1>1, <1>4, <2>3, <2>5 DEF LockInv
<1> QED BY <1>1, <1>4

(* No other transaction has an uncommitted row for the slot that a request has
   locked to take it: the unique index never makes a request wait. *)
LEMMA IndexNeverWaits ==
  ASSUME IInv, NEW p \in Procs, pc[p] \in {"insert", "updateSlot"},
         NEW c \in Bookings \ {req[p].bk}, row[c] # rowNew[c]
  PROVE  Scheduled(req[p].to) \notin {row[c], rowNew[c]}
<1> USE DEF IInv, TypeOK, ShapeInv
<1> DEFINE s == req[p].to
<1>1. HasTo(p) /\ s \in Slots
  BY DEF HasTo, Shape, TakeOps
<1>2. ~booked[s] /\ slotLock[s] = p
  BY <1>1 DEF VersionInv, SlotVersions, LockInv
<1>3. row[c] # Scheduled(s)
  BY <1>1, <1>2 DEF SlotFlagTruthful, Holders
<1>4. PICK q \in Procs : rowLock[c] = q
  BY DEF VersionInv, SettledInv
<1>5. HasRow(q) /\ c = req[q].bk
  BY <1>4 DEF LockInv
<1>6. \/ rowNew[c] = Cancelled(req[q].from)
      \/ rowNew[c] = Scheduled(req[q].to) /\ HasTo(q) /\ req[q].to \in Slots
  BY <1>5 DEF VersionInv, RowVersions, HasRow, HasTo, Shape, TakeOps, CancelOps
<1>7. ASSUME rowNew[c] = Scheduled(s) PROVE FALSE
  <2>1. HasTo(q) /\ req[q].to = s
    BY <1>6, <1>7, RowFacts
  <2>2. q = p
    BY <1>1, <1>2, <2>1 DEF LockInv
  <2> QED BY <1>5, <2>2
<1> QED BY <1>3, <1>7

(* A request that has locked a slot waits for nobody. *)
LEMMA SlotHolderNeverWaits ==
  ASSUME IInv, NEW p \in Procs,
         pc[p] \in {"insert", "freeSlot", "markBooked", "updateSlot", "commit", "finalize", "idle"}
  PROVE  WaitsFor(p) = {}
<1> USE DEF IInv, TypeOK, ShapeInv
<1>1. CASE pc[p] = "freeSlot"
  BY <1>1, FreeSlotNeverWaits DEF WaitsFor
<1>2. CASE pc[p] \in {"insert", "updateSlot"}
  BY <1>2, IndexNeverWaits DEF WaitsFor
<1>3. CASE pc[p] = "markBooked"
  <2>1. slotLock[req[p].to] = p
    BY <1>3 DEF LockInv, HasTo, Shape, TakeOps
  <2> QED BY <1>3, <2>1 DEF WaitsFor
<1>4. CASE pc[p] \in {"commit", "finalize", "idle"}
  BY <1>4 DEF WaitsFor
<1> QED BY <1>1, <1>2, <1>3, <1>4

(* Whoever waits for a slot waits for requests that wait for nobody, and whoever
   waits for a booking row waits at most for requests that wait for a slot: the
   requests of a waiting set cannot all wait for members of the set. *)
LEMMA WaitOrder ==
  ASSUME IInv, NEW p \in Procs, NEW q \in WaitsFor(p)
  PROVE  WaitsFor(q) = {} \/ (pc[q] = "getSlot" /\ pc[p] # "getSlot")
<1> USE DEF IInv, TypeOK, ShapeInv
<1>0. pc[p] \in {"readToken", "getBooking", "cancelBooking", "getSlot"}
  BY SlotHolderNeverWaits DEF Labels
<1>1. CASE pc[p] = "getSlot"
  <2>1. req[p].to \in Slots /\ q = slotLock[req[p].to] /\ q \in Procs
    BY <1>1 DEF WaitsFor, Shape
  <2>2. HasTo(q) \/ HasFrom(q)
    BY <2>1 DEF LockInv
  <2> QED BY <2>1, <2>2, SlotHolderNeverWaits DEF HasTo, HasFrom
<1>2. CASE pc[p] \in {"readToken", "getBooking", "cancelBooking"}
  <2>1. req[p].bk \in Bookings /\ q = rowLock[req[p].bk] /\ q \in Procs
    BY <1>2 DEF WaitsFor, Shape, CancelOps, TokenOps
  <2>2. HasRow(q) /\ rowLock[req[q].bk] = q
    BY <2>1 DEF LockInv
  <2>3. CASE pc[q] = "cancelBooking"
    BY <2>2, <2>3 DEF WaitsFor
  <2>4. CASE pc[q] # "cancelBooking"
    BY <1>2, <2>1, <2>2, <2>4, SlotHolderNeverWaits DEF HasRow
  <2> QED BY <2>3, <2>4
<1> QED BY <1>0, <1>1, <1>2

(* No set of requests wait for each other, in whatever order Book, Reschedule
   and the cancels take their row locks. *)
THEOREM DeadlockFree == Spec => []NoDeadlock
<1>1. ASSUME IInv PROVE NoDeadlock
  <2> SUFFICES ASSUME NEW Q \in (SUBSET Procs) \ {{}} PROVE \E p \in Q : WaitsFor(p) \cap Q = {}
    BY DEF NoDeadlock
  <2>1. CASE \E p \in Q : WaitsFor(p) = {}
    BY <2>1
  <2>2. CASE /\ \A p \in Q : WaitsFor(p) # {}
             /\ \E p \in Q : pc[p] = "getSlot"
    <3>1. PICK p \in Q : pc[p] = "getSlot"
      BY <2>2
    <3>2. \A q \in WaitsFor(p) : WaitsFor(q) = {}
      BY <1>1, <3>1, WaitOrder
    <3> QED BY <2>2, <3>1, <3>2
  <2>3. CASE \A p \in Q : WaitsFor(p) # {} /\ pc[p] # "getSlot"
    <3>1. PICK p \in Q : TRUE
      OBVIOUS
    <3>2. \A q \in WaitsFor(p) : WaitsFor(q) = {} \/ pc[q] = "getSlot"
      BY <1>1, WaitOrder
    <3> QED BY <2>3, <3>2
  <2> QED BY <2>1, <2>2, <2>3
<1> QED BY <1>1, Inductive, PTL

-----------------------------------------------------------------------------
(* Who holds a slot, in the terms of the two tables. *)
LEMMA HolderFacts ==
  ASSUME SlotFlagTruthful, NEW s \in Slots
  PROVE  /\ ~booked[s] => Holder(s) = NoBooking
         /\ \A b \in Bookings : row[b] = Scheduled(s) => Holder(s) = b
BY DEF SlotFlagTruthful, Holders, Holder

(* The same in the next state. *)
LEMMA HolderFactsNext ==
  ASSUME SlotFlagTruthful', NEW s \in Slots
  PROVE  /\ ~booked'[s] => Holder(s)' = NoBooking
         /\ \A b \in Bookings : row'[b] = Scheduled(s) => Holder(s)' = b
BY DEF SlotFlagTruthful, Holders, Holder

(* Only a commit changes what other requests can see. *)
LEMMA OnlyCommitPublishes ==
  ASSUME [Next]_vars
  PROVE  (\E p \in Procs : Commit(p)) \/ UNCHANGED <<booked, row>>
<1>1. ASSUME NEW p \in Procs, Request(p) PROVE UNCHANGED <<booked, row>>
  BY <1>1 DEF Request, Begin, BeginBook, ReadToken, BeginCancel
<1>2. ASSUME NEW p \in Procs, Step(p) PROVE Commit(p) \/ UNCHANGED <<booked, row>>
  BY <1>2 DEF Step, LockTokenRow, LockBookingRow, GetSlotForUpdate, InsertBooking, FreeSlot, MarkSlotBooked,
     UpdateBookingSlot, CancelBooking, FinalizeMeet, StartCompensation, Refuse, Rollback
<1>3. ASSUME NEW p \in Procs, Abort(p) PROVE UNCHANGED <<booked, row>>
  BY <1>3 DEF Abort, Rollback
<1>4. ASSUME Tick \/ UNCHANGED vars PROVE UNCHANGED <<booked, row>>
  BY <1>4 DEF Tick, vars
<1> QED BY <1>1, <1>2, <1>3, <1>4 DEF Next

(* The mapped state of the ledger changes by one booking. *)
LEMMA LedgerStep ==
  ASSUME IInv, IInv', [Next]_vars
  PROVE  [Ledger!Next]_(Ledger!vars)
<1> USE DEF Ledger!Next, Ledger!vars
<1> DEFINE life == [b \in Bookings |-> row[b].status]
           held == [s \in Slots |-> Holder(s)]
<1>0. /\ TypeOK /\ SlotFlagTruthful /\ SlotFlagTruthful'
  BY DEF IInv
<1>1. CASE UNCHANGED <<booked, row>>
  <2>1. \A s \in Slots : Holder(s)' = Holder(s)
    BY <1>1 DEF Holder, Holders
  <2> QED BY <1>1, <2>1
<1>2. ASSUME NEW b \in Bookings, NEW s \in Slots, Books(b, s) PROVE Ledger!Next
  <2>1. /\ row'[b] = Scheduled(s) /\ booked'[s]
        /\ \A c \in Bookings \ {b} : row'[c] = row[c]
        /\ \A t \in Slots \ {s} : booked'[t] = booked[t]
    BY <1>0, <1>2 DEF Books, TypeOK
  <2>2. life[b] = "none" /\ life' = [life EXCEPT ![b] = "scheduled"]
    <3>1. row[b].status = "none" /\ row'[b].status = "scheduled"
      BY <1>2, <2>1, RowFacts DEF Books
    <3> QED BY <2>1, <3>1
  <2>3. held[s] = NoBooking /\ held'[s] = b
    BY <1>0, <1>2, <2>1, HolderFacts, HolderFactsNext DEF Books
  <2>4. ASSUME NEW t \in Slots \ {s} PROVE held'[t] = held[t]
    <3>1. CASE ~booked[t]
      BY <1>0, <2>1, <3>1, HolderFacts, HolderFactsNext
    <3>2. CASE booked[t]
      <4>1. PICK c \in Bookings : row[c] = Scheduled(t)
        BY <1>0, <3>2 DEF SlotFlagTruthful, Holders
      <4>2. row'[c] = Scheduled(t)
        BY <1>2, <2>1, <4>1, RowFacts DEF Books
      <4> QED BY <1>0, <4>1, <4>2, HolderFacts, HolderFactsNext
    <3> QED BY <3>1, <3>2
  <2>5. held' = [held EXCEPT ![s] = b]
    BY <2>3, <2>4
  <2>6. Ledger!Book(b, s)
    BY <2>2, <2>3, <2>5 DEF Ledger!Book
  <2> QED BY <2>6
<1>3. ASSUME NEW b \in Bookings, NEW s \in Slots, NEW u \in Slots, Moves(b, s, u) PROVE Ledger!Next
  <2>1. /\ row'[b] = Scheduled(u) /\ booked'[u] /\ ~booked'[s]
        /\ \A c \in Bookings \ {b} : row'[c] = row[c]
        /\ \A t \in Slots \ {s, u} : booked'[t] = booked[t]
    BY <1>0, <1>3 DEF Moves, TypeOK
  <2>2. life[b] = "scheduled" /\ UNCHANGED life
    BY <1>3, <2>1, RowFacts DEF Moves
  <2>3. held[s] = b /\ held[u] = NoBooking /\ held'[s] = NoBooking /\ held'[u] = b
    BY <1>0, <1>3, <2>1, HolderFacts, HolderFactsNext DEF Moves
  <2>4. ASSUME NEW t \in Slots \ {s, u} PROVE held'[t] = held[t]
    <3>1. CASE ~booked[t]
      BY <1>0, <2>1, <3>1, HolderFacts, HolderFactsNext
    <3>2. CASE booked[t]
      <4>1. PICK c \in Bookings : row[c] = Scheduled(t)
        BY <1>0, <3>2 DEF SlotFlagTruthful, Holders
      <4>2. row'[c] = Scheduled(t)
        BY <1>3, <2>1, <4>1, RowFacts DEF Moves
      <4> QED BY <1>0, <4>1, <4>2, HolderFacts, HolderFactsNext
    <3> QED BY <3>1, <3>2
  <2>5. held' = [held EXCEPT ![s] = NoBooking, ![u] = b]
    BY <1>3, <2>3, <2>4 DEF Moves
  <2>6. Ledger!Move(b, s, u)
    BY <2>2, <2>3, <2>5 DEF Ledger!Move
  <2> QED BY <2>6
<1>4. ASSUME NEW b \in Bookings, NEW s \in Slots, Cancels(b, s) PROVE Ledger!Next
  <2>1. /\ row'[b] = Cancelled(s) /\ ~booked'[s]
        /\ \A c \in Bookings \ {b} : row'[c] = row[c]
        /\ \A t \in Slots \ {s} : booked'[t] = booked[t]
    BY <1>0, <1>4 DEF Cancels, TypeOK
  <2>2. life[b] = "scheduled" /\ life' = [life EXCEPT ![b] = "cancelled"]
    <3>1. row[b].status = "scheduled" /\ row'[b].status = "cancelled"
      BY <1>4, <2>1, RowFacts DEF Cancels
    <3> QED BY <2>1, <3>1
  <2>3. held[s] = b /\ held'[s] = NoBooking
    BY <1>0, <1>4, <2>1, HolderFacts, HolderFactsNext DEF Cancels
  <2>4. ASSUME NEW t \in Slots \ {s} PROVE held'[t] = held[t]
    <3>1. CASE ~booked[t]
      BY <1>0, <2>1, <3>1, HolderFacts, HolderFactsNext
    <3>2. CASE booked[t]
      <4>1. PICK c \in Bookings : row[c] = Scheduled(t)
        BY <1>0, <3>2 DEF SlotFlagTruthful, Holders
      <4>2. row'[c] = Scheduled(t)
        BY <1>4, <2>1, <4>1, RowFacts DEF Cancels
      <4> QED BY <1>0, <4>1, <4>2, HolderFacts, HolderFactsNext
    <3> QED BY <3>1, <3>2
  <2>5. held' = [held EXCEPT ![s] = NoBooking]
    BY <2>3, <2>4
  <2>6. Ledger!Cancel(b, s)
    BY <2>2, <2>3, <2>5 DEF Ledger!Cancel
  <2> QED BY <2>6
<1>5. ASSUME NEW p \in Procs, Commit(p) PROVE Ledger!Next
  BY <1>2, <1>3, <1>4, <1>5, CommitEffect
<1> QED BY <1>1, <1>5, OnlyCommitPublishes

(* The interleaved transactions implement the atomic ledger, for every number of
   slots, bookings and requests. *)
THEOREM Refinement == Spec => ImplementsLedger
<1>1. Init => Ledger!Init
  BY DEF Init, Ledger!Init, Holder, Holders, NoRow, Scheduled
<1>2. IInv /\ IInv' /\ [Next]_vars => [Ledger!Next]_(Ledger!vars)
  BY LedgerStep
<1> QED BY <1>1, <1>2, Inductive, PTL DEF Spec, ImplementsLedger, Ledger!Spec

-----------------------------------------------------------------------------
(* Past the cutoff only the recruiter and a failed Google Meet request change
   a booking. *)
LEMMA FrozenStep ==
  ASSUME IInv, [Next]_vars, NEW b \in Bookings, Frozen(b)
  PROVE  \/ Frozen(b)' /\ row'[b] = row[b]
         \/ /\ row'[b].status = "cancelled"
            /\ \E p \in Procs : pc[p] = "commit" /\ req[p].bk = b /\ req[p].op \in {"cancel", "compensate"}
<1> DEFINE TokenHolds == \E p \in Procs : rowLock[b] = p /\ req[p].op \in TokenOps
<1>0. /\ row[b].status = "scheduled" /\ row[b].slot \in Slots /\ row[b] = Scheduled(row[b].slot)
      /\ now \in Nat /\ now + Cutoff >= Start[row[b].slot] /\ ~TokenHolds
  BY RowFacts DEF Frozen, IInv, TypeOK
<1>1. ASSUME row'[b] = row[b], now' \in Nat, now' >= now, ~TokenHolds' PROVE Frozen(b)'
  <2>1. now' + Cutoff >= Start[row[b].slot]
    BY <1>0, <1>1, BookingAssumption
  <2> QED BY <1>0, <1>1, <2>1 DEF Frozen
<1> HIDE DEF TokenHolds
<1>2. ASSUME NEW p \in Procs, Request(p) PROVE Frozen(b)' /\ row'[b] = row[b]
  <2>1. OnlyBegins(p)
    BY <1>2, BeginShape
  <2>2. rowLock[b] # p
    BY <2>1 DEF OnlyBegins, IInv, LockInv, ShapeInv, Shape, HasRow, NoReq
  <2>3. ~TokenHolds'
    BY <1>0, <2>1, <2>2 DEF OnlyBegins, TokenHolds, IInv, TypeOK
  <2> QED BY <1>0, <1>1, <2>1, <2>3 DEF OnlyBegins
<1>3. ASSUME NEW p \in Procs, LockTokenRow(p) PROVE Frozen(b)' /\ row'[b] = row[b]
  <2>1. req[p].bk # b
    <3>1. ASSUME req[p].bk = b PROVE FALSE
      <4>1. row[b].slot = req[p].from
        BY <1>0, <1>3, <3>1, RowFacts DEF LockTokenRow, StillOnSlot
      <4>2. now + Cutoff < Start[row[b].slot]
        BY <1>3, <4>1 DEF LockTokenRow, CanModify
      <4> QED BY <1>0, <4>2, BookingAssumption
    <3> QED BY <3>1
  <2>2. ~TokenHolds'
    BY <1>0, <1>3, <2>1 DEF LockTokenRow, TokenHolds, IInv, TypeOK
  <2> QED BY <1>0, <1>1, <1>3, <2>2 DEF LockTokenRow
<1>4. ASSUME NEW p \in Procs,
             LockBookingRow(p) \/ InsertBooking(p) \/ CancelBooking(p)
      PROVE  Frozen(b)' /\ row'[b] = row[b]
  <2>1. /\ row' = row /\ now' = now
        /\ \A q \in Procs : req'[q].op = req[q].op
        /\ \A q \in Procs \ {p} : rowLock'[b] = q => rowLock[b] = q
    BY <1>4 DEF LockBookingRow, InsertBooking, CancelBooking, Inserted, IInv, TypeOK, Reqs
  <2>2. rowLock'[b] = p => rowLock[b] = p \/ req[p].op \notin TokenOps
    BY <1>4 DEF LockBookingRow, InsertBooking, CancelBooking, TokenOps, CancelOps, BookOps,
                IInv, TypeOK, ShapeInv, Shape, LockInv, HasRow
  <2>3. ~TokenHolds'
    BY <1>0, <2>1, <2>2 DEF TokenHolds
  <2> QED BY <1>0, <1>1, <2>1, <2>3
<1>5. ASSUME NEW p \in Procs,
             \/ GetSlotForUpdate(p) \/ FreeSlot(p) \/ MarkSlotBooked(p) \/ UpdateBookingSlot(p)
             \/ FinalizeMeet(p) \/ StartCompensation(p) \/ Rollback(p)
      PROVE  Frozen(b)' /\ row'[b] = row[b]
  <2>1. /\ row' = row /\ now' = now
        /\ \A q \in Procs : rowLock'[b] = q => rowLock[b] = q
        /\ \A q \in Procs : req'[q].op \in TokenOps => req'[q].op = req[q].op
    BY <1>5, BookingAssumption
       DEF GetSlotForUpdate, FreeSlot, MarkSlotBooked, UpdateBookingSlot, FinalizeMeet, StartCompensation,
           Rollback, ReleaseLocks, NoReq, TokenOps, IInv, TypeOK, Reqs
  <2>2. ~TokenHolds'
    BY <1>0, <2>1 DEF TokenHolds
  <2> QED BY <1>0, <1>1, <2>1, <2>2
<1>6. ASSUME NEW p \in Procs, Commit(p)
      PROVE  \/ Frozen(b)' /\ row'[b] = row[b]
             \/ row'[b].status = "cancelled" /\ pc[p] = "commit" /\ req[p].bk = b /\ req[p].op \in {"cancel", "compensate"}
  <2>0. pc[p] = "commit" /\ now' = now
    BY <1>6 DEF Commit
  <2>1. CASE req[p].bk = b
    <3>1. rowLock[b] = p
      BY <1>6, <2>0, <2>1, CommitEffect DEF IInv, LockInv, HasRow, BookOps, CancelOps
    <3>2. req[p].op \notin TokenOps
      BY <1>0, <3>1 DEF TokenHolds
    <3>3. req[p].op \in {"cancel", "compensate"} /\ Cancels(b, req[p].from)
      BY <1>0, <1>6, <2>1, <3>2, CommitEffect, RowFacts DEF Books, TokenOps, CancelOps
    <3>4. row'[b].status = "cancelled"
      BY <3>3, RowFacts DEF Cancels, IInv, TypeOK
    <3> QED BY <2>0, <2>1, <3>3, <3>4
  <2>2. CASE req[p].bk # b
    <3>1. row'[b] = row[b]
      BY <1>6, <2>2, CommitEffect DEF Books, Moves, Cancels, IInv, TypeOK
    <3>2. /\ \A q \in Procs : rowLock'[b] = q => rowLock[b] = q
          /\ \A q \in Procs : req'[q].op \in TokenOps => req'[q].op = req[q].op
      BY <1>6, BookingAssumption DEF Commit, ReleaseLocks, NoReq, TokenOps, IInv, TypeOK, Reqs
    <3>3. ~TokenHolds'
      BY <1>0, <3>2 DEF TokenHolds
    <3> QED BY <1>0, <1>1, <2>0, <3>1, <3>3
  <2> QED BY <2>1, <2>2
<1>7. ASSUME Tick \/ UNCHANGED vars PROVE Frozen(b)' /\ row'[b] = row[b]
  <2>1. UNCHANGED <<row, rowLock, req>> /\ now' \in Nat /\ now' >= now
    BY <1>0, <1>7 DEF Tick, vars
  <2>2. ~TokenHolds'
    BY <1>0, <2>1 DEF TokenHolds
  <2> QED BY <1>1, <2>1, <2>2
<1> QED
  BY <1>2, <1>3, <1>4, <1>5, <1>6, <1>7 DEF Next, Step, Refuse, Abort

(* The cutoff, for every reachable step: once it has passed for the slot a
   booking holds, and no request of the candidate has the booking's row, the
   candidate's tokens change the booking no more. *)
THEOREM CutoffHolds == Spec => CutoffFreezesBooking
<1>1. IInv /\ [Next]_vars =>
        [\A b \in Bookings : Frozen(b) =>
          \/ Frozen(b)' /\ row'[b] = row[b]
          \/ /\ row'[b].status = "cancelled"
             /\ \E p \in Procs : pc[p] = "commit" /\ req[p].bk = b /\ req[p].op \in {"cancel", "compensate"}]_vars
  BY FrozenStep
<1> QED BY <1>1, Inductive, PTL DEF Spec, CutoffFreezesBooking
=============================================================================
