------------------------------ MODULE Booking ------------------------------
(***************************************************************************)
(* The requests that touch slots and booking rows: Book, Reschedule,       *)
(* CancelByToken, Cancel and the compensating cancel of a Google Meet      *)
(* booking, each as the sequence of SQL statements it runs inside its      *)
(* PostgreSQL transaction at READ COMMITTED.                               *)
(*                                                                         *)
(* A row has a committed version (booked, row) and a newest version        *)
(* (bookedNew, rowNew) that differs from it only while a transaction that  *)
(* holds the row's lock has written it.  A commit publishes the newest     *)
(* versions of the rows the transaction locked, a rollback discards them.  *)
(* All slots belong to one interview type; the start of a slot never       *)
(* changes.                                                                *)
(***************************************************************************)
EXTENDS Naturals, FiniteSets

CONSTANTS
  Slots,      \* ids of slots rows
  Bookings,   \* ids a booking row can get
  Procs,      \* requests that can be in progress at the same time
  Start,      \* slots.start_at, in hours
  Cutoff,     \* DefaultModifyCutoffHours
  MaxNow,     \* bound on the clock
  Nobody,     \* holder of a lock that is free
  NoSlot,
  NoBooking

ASSUME BookingAssumption ==
  /\ Nobody \notin Procs
  /\ NoSlot \notin Slots
  /\ NoBooking \notin Bookings
  /\ Start \in [Slots -> Nat]
  /\ Cutoff \in Nat
  /\ MaxNow \in Nat

VARIABLES
  now,        \* the clock of the process and of the database, in hours
  booked,     \* committed slots.booked
  bookedNew,  \* newest version of slots.booked
  row,        \* committed booking rows
  rowNew,     \* newest version of the booking rows
  tokens,     \* bookings whose tokens are in a committed notification
  slotLock,   \* the request whose transaction has locked the slots row
  rowLock,    \* the request whose transaction has locked the booking row
  pc,         \* the statement each request runs next
  req         \* the local variables of each request

vars == <<now, booked, bookedNew, row, rowNew, tokens, slotLock, rowLock, pc, req>>

BookOps == {"bookOnSite", "bookMeet"}
TokenOps == {"reschedule", "cancelByToken"}
Ops == BookOps \cup TokenOps \cup {"cancel", "compensate"}

NoRow == [status |-> "none", slot |-> NoSlot]
Scheduled(s) == [status |-> "scheduled", slot |-> s]
NoReq == [op |-> "none", bk |-> NoBooking, from |-> NoSlot, to |-> NoSlot]

Rows == {NoRow} \cup [status : {"scheduled", "cancelled"}, slot : Slots]
Reqs == [op : Ops \cup {"none"}, bk : Bookings \cup {NoBooking},
         from : Slots \cup {NoSlot}, to : Slots \cup {NoSlot}]
Labels == {"idle", "readToken", "getBooking", "getSlot", "insert", "freeSlot",
           "markBooked", "updateSlot", "cancelBooking", "commit", "finalize"}

Init ==
  /\ now = 0
  /\ booked = [s \in Slots |-> FALSE]
  /\ bookedNew = booked
  /\ row = [b \in Bookings |-> NoRow]
  /\ rowNew = row
  /\ tokens = {}
  /\ slotLock = [s \in Slots |-> Nobody]
  /\ rowLock = [b \in Bookings |-> Nobody]
  /\ pc = [p \in Procs |-> "idle"]
  /\ req = [p \in Procs |-> NoReq]

-----------------------------------------------------------------------------
(* The operators named Mutant... are the seeded faults: each is the operator
   that follows it with a bug the code could have had. *)

MutantCanModify(s) == now + Cutoff <= Start[s]

(* canModifyBooking *)
CanModify(s) == now + Cutoff < Start[s]

MutantBookable(s) == TRUE

(* The WHERE booked = FALSE of GetSlotForUpdate. *)
Bookable(s) == ~booked[s]

MutantCancellable(v) == TRUE

(* The WHERE status = 'scheduled' of CancelBooking. *)
Cancellable(v) == v.status = "scheduled"

MutantStillOnSlot(b, s) == row[b].status = "scheduled"

(* What FOR UPDATE OF b checks again once it has the lock: the WHERE clause
   and the join to the slots row of the snapshot. *)
StillOnSlot(b, s) == row[b] = Scheduled(s)

MutantInserted(r, b) == r

(* The Go local booking, from InsertBooking's RETURNING. *)
Inserted(r, b) == [r EXCEPT !.bk = b]

MutantQueuesTokens(r) == r.op \in BookOps

(* Book inserts the booking_created notifications, which carry the tokens,
   in its transaction only for a type that is not on Google Meet. *)
QueuesTokens(r) == r.op = "bookOnSite"

(* A version of the booking table holds another scheduled row for the slot:
   idx_booking_slot_scheduled rejects a second one. *)
Claimed(version, b, s) ==
  \E c \in Bookings \ {b} : version[c] = Scheduled(s)

Goto(p, label) == pc' = [pc EXCEPT ![p] = label]

Begin(p, label, r) ==
  /\ pc[p] = "idle"
  /\ Goto(p, label)
  /\ req' = [req EXCEPT ![p] = r]
  /\ UNCHANGED <<now, booked, bookedNew, row, rowNew, tokens, slotLock, rowLock>>

MutantReleaseLocks(p) ==
  /\ slotLock' = [s \in Slots |-> IF slotLock[s] = p THEN Nobody ELSE slotLock[s]]
  /\ UNCHANGED rowLock

(* The end of a transaction drops its locks. *)
ReleaseLocks(p) ==
  /\ slotLock' = [s \in Slots |-> IF slotLock[s] = p THEN Nobody ELSE slotLock[s]]
  /\ rowLock' = [b \in Bookings |-> IF rowLock[b] = p THEN Nobody ELSE rowLock[b]]

(* tx.Rollback: deferred in every request, and what the server does for a
   connection that is lost. *)
Rollback(p) ==
  /\ bookedNew' = [s \in Slots |-> IF slotLock[s] = p THEN booked[s] ELSE bookedNew[s]]
  /\ rowNew' = [b \in Bookings |-> IF rowLock[b] = p THEN row[b] ELSE rowNew[b]]
  /\ ReleaseLocks(p)
  /\ Goto(p, "idle")
  /\ req' = [req EXCEPT ![p] = NoReq]
  /\ UNCHANGED <<now, booked, row, tokens>>

-----------------------------------------------------------------------------
(* Book up to its Begin.  IdLeft bounds the bookings ever made. *)
IdLeft ==
  Cardinality({p \in Procs : pc[p] \in {"getSlot", "insert"} /\ req[p].op \in BookOps})
    < Cardinality({b \in Bookings : rowNew[b] = NoRow})

BeginBook(p, o, s) ==
  /\ IdLeft
  /\ Begin(p, "getSlot", [op |-> o, bk |-> NoBooking, from |-> NoSlot, to |-> s])

(* The snapshot of GetScheduledBookingBy...TokenForUpdate, which joins the
   committed booking row to its slot.  A token of a booking that is not
   scheduled ends the request here, with ErrTokenNotFound. *)
ReadToken(p, b, o, s) ==
  /\ b \in tokens
  /\ row[b].status = "scheduled"
  /\ Begin(p, "readToken", [op |-> o, bk |-> b, from |-> row[b].slot, to |-> s])

(* The FOR UPDATE OF b of the same statement, once the lock is free.  A row
   changed since the snapshot is joined again to the slot of the snapshot:
   it is returned only if it is still scheduled on that slot.  Then the
   cutoff and, for Reschedule, the comparison with the slot asked for. *)
LockTokenRow(p) ==
  LET r == req[p] IN
  /\ pc[p] = "readToken"
  /\ rowLock[r.bk] = Nobody
  /\ StillOnSlot(r.bk, r.from)
  /\ CanModify(r.from)
  /\ r.to # r.from
  /\ rowLock' = [rowLock EXCEPT ![r.bk] = p]
  /\ Goto(p, IF r.op = "reschedule" THEN "getSlot" ELSE "cancelBooking")
  /\ UNCHANGED <<now, booked, bookedNew, row, rowNew, tokens, slotLock, req>>

(* Cancel, by the recruiter: no token and no cutoff. *)
BeginCancel(p, b) ==
  /\ row[b].status = "scheduled"
  /\ Begin(p, "getBooking", [op |-> "cancel", bk |-> b, from |-> NoSlot, to |-> NoSlot])

(* GetScheduledBookingForUpdate: no join, so the row is returned with the
   slot it has when the lock is granted. *)
LockBookingRow(p) ==
  LET b == req[p].bk IN
  /\ pc[p] = "getBooking"
  /\ rowLock[b] = Nobody
  /\ row[b].status = "scheduled"
  /\ rowLock' = [rowLock EXCEPT ![b] = p]
  /\ req' = [req EXCEPT ![p].from = row[b].slot]
  /\ Goto(p, "cancelBooking")
  /\ UNCHANGED <<now, booked, bookedNew, row, rowNew, tokens, slotLock>>

(* GetSlotForUpdate, in Book and in Reschedule. *)
GetSlotForUpdate(p) ==
  LET s == req[p].to IN
  /\ pc[p] = "getSlot"
  /\ Bookable(s)
  /\ slotLock[s] = Nobody
  /\ slotLock' = [slotLock EXCEPT ![s] = p]
  /\ Goto(p, IF req[p].op = "reschedule" THEN "freeSlot" ELSE "insert")
  /\ UNCHANGED <<now, booked, bookedNew, row, rowNew, tokens, rowLock, req>>

(* InsertBooking: the row is visible to others, and lockable, after commit. *)
InsertBooking(p) ==
  LET s == req[p].to IN
  \E b \in Bookings :
    /\ pc[p] = "insert"
    /\ rowNew[b] = NoRow
    /\ ~Claimed(row, b, s)
    /\ ~Claimed(rowNew, b, s)
    /\ rowNew' = [rowNew EXCEPT ![b] = Scheduled(s)]
    /\ rowLock' = [rowLock EXCEPT ![b] = p]
    /\ req' = [req EXCEPT ![p] = Inserted(req[p], b)]
    /\ Goto(p, "markBooked")
    /\ UNCHANGED <<now, booked, bookedNew, row, tokens, slotLock>>

(* SetSlotBooked(old slot, FALSE), in Reschedule and in every cancel. *)
FreeSlot(p) ==
  LET s == req[p].from IN
  /\ pc[p] = "freeSlot"
  /\ slotLock[s] \in {Nobody, p}
  /\ slotLock' = [slotLock EXCEPT ![s] = p]
  /\ bookedNew' = [bookedNew EXCEPT ![s] = FALSE]
  /\ Goto(p, IF req[p].op = "reschedule" THEN "markBooked" ELSE "commit")
  /\ UNCHANGED <<now, booked, row, rowNew, tokens, rowLock, req>>

(* MarkSlotBooked, in Book and in Reschedule: it must change one row. *)
MarkSlotBooked(p) ==
  LET s == req[p].to IN
  /\ pc[p] = "markBooked"
  /\ slotLock[s] \in {Nobody, p}
  /\ ~bookedNew[s]
  /\ slotLock' = [slotLock EXCEPT ![s] = p]
  /\ bookedNew' = [bookedNew EXCEPT ![s] = TRUE]
  /\ Goto(p, IF req[p].op = "reschedule" THEN "updateSlot" ELSE "commit")
  /\ UNCHANGED <<now, booked, row, rowNew, tokens, rowLock, req>>

(* UpdateBookingSlot *)
UpdateBookingSlot(p) ==
  LET r == req[p] IN
  /\ pc[p] = "updateSlot"
  /\ rowNew[r.bk].status = "scheduled"
  /\ ~Claimed(row, r.bk, r.to)
  /\ ~Claimed(rowNew, r.bk, r.to)
  /\ rowNew' = [rowNew EXCEPT ![r.bk].slot = r.to]
  /\ Goto(p, "commit")
  /\ UNCHANGED <<now, booked, bookedNew, row, tokens, slotLock, rowLock, req>>

(* CancelBooking, in the three cancels.  Cancel and CancelByToken hold the
   row lock; the compensating cancel takes it with this statement. *)
CancelBooking(p) ==
  LET b == req[p].bk IN
  /\ pc[p] = "cancelBooking"
  /\ rowLock[b] \in {Nobody, p}
  /\ Cancellable(rowNew[b])
  /\ rowLock' = [rowLock EXCEPT ![b] = p]
  /\ rowNew' = [rowNew EXCEPT ![b].status = "cancelled"]
  /\ Goto(p, "freeSlot")
  /\ UNCHANGED <<now, booked, bookedNew, row, tokens, slotLock, req>>

(* tx.Commit.  The notifications that carry the tokens are rows of the same
   transaction, except for a Google Meet booking, which goes on to
   finalizeGoogleMeetBooking with the booking it has just inserted. *)
Commit(p) ==
  LET r == req[p] IN
  /\ pc[p] = "commit"
  /\ booked' = [s \in Slots |-> IF slotLock[s] = p THEN bookedNew[s] ELSE booked[s]]
  /\ row' = [b \in Bookings |-> IF rowLock[b] = p THEN rowNew[b] ELSE row[b]]
  /\ ReleaseLocks(p)
  /\ tokens' = IF QueuesTokens(r) THEN tokens \cup {r.bk} ELSE tokens
  /\ Goto(p, IF r.op = "bookMeet" THEN "finalize" ELSE "idle")
  /\ req' = [req EXCEPT ![p] = IF r.op = "bookMeet" THEN [r EXCEPT !.from = r.to] ELSE NoReq]
  /\ UNCHANGED <<now, bookedNew, rowNew>>

(* finalizeGoogleMeetBooking got its meeting and queued the notifications
   that carry the tokens. *)
FinalizeMeet(p) ==
  /\ pc[p] = "finalize"
  /\ tokens' = tokens \cup {req[p].bk}
  /\ Goto(p, "idle")
  /\ req' = [req EXCEPT ![p] = NoReq]
  /\ UNCHANGED <<now, booked, bookedNew, row, rowNew, slotLock, rowLock>>

(* It met the plan limit or an error of the calendar: compensatingCancel
   starts a transaction with the booking as it was inserted. *)
StartCompensation(p) ==
  /\ pc[p] = "finalize"
  /\ req' = [req EXCEPT ![p].op = "compensate"]
  /\ Goto(p, "cancelBooking")
  /\ UNCHANGED <<now, booked, bookedNew, row, rowNew, tokens, slotLock, rowLock>>

(* A statement that finds no row to return or to change, or a check that
   fails, returns an error and the deferred rollback runs. *)
Refused(p) ==
  LET r == req[p] IN
  \/ /\ pc[p] = "readToken"
     /\ rowLock[r.bk] = Nobody
     /\ ~StillOnSlot(r.bk, r.from) \/ ~CanModify(r.from) \/ r.to = r.from
  \/ pc[p] = "getBooking" /\ row[r.bk].status # "scheduled"
  \/ pc[p] = "getSlot" /\ ~Bookable(r.to)
  \/ /\ pc[p] \in {"insert", "updateSlot"}
     /\ Claimed(row, r.bk, r.to) /\ Claimed(rowNew, r.bk, r.to)
  \/ pc[p] = "updateSlot" /\ rowNew[r.bk].status # "scheduled"
  \/ pc[p] = "markBooked" /\ slotLock[r.to] \in {Nobody, p} /\ bookedNew[r.to]
  \/ /\ pc[p] = "cancelBooking"
     /\ rowLock[r.bk] \in {Nobody, p}
     /\ ~Cancellable(rowNew[r.bk])

Refuse(p) == Refused(p) /\ Rollback(p)

(* A failed statement, a cancelled request context, a crash of the process:
   whatever is not committed is lost, and so is what was left to do. *)
Abort(p) == pc[p] # "idle" /\ Rollback(p)

Tick ==
  /\ now < MaxNow
  /\ now' = now + 1
  /\ UNCHANGED <<booked, bookedNew, row, rowNew, tokens, slotLock, rowLock, pc, req>>

Request(p) ==
  \/ \E o \in BookOps, s \in Slots : BeginBook(p, o, s)
  \/ \E b \in Bookings, s \in Slots : ReadToken(p, b, "reschedule", s)
  \/ \E b \in Bookings : ReadToken(p, b, "cancelByToken", NoSlot)
  \/ \E b \in Bookings : BeginCancel(p, b)

Step(p) ==
  \/ LockTokenRow(p)
  \/ LockBookingRow(p)
  \/ GetSlotForUpdate(p)
  \/ InsertBooking(p)
  \/ FreeSlot(p)
  \/ MarkSlotBooked(p)
  \/ UpdateBookingSlot(p)
  \/ CancelBooking(p)
  \/ Commit(p)
  \/ FinalizeMeet(p)
  \/ StartCompensation(p)
  \/ Refuse(p)

Next ==
  \/ \E p \in Procs : Request(p) \/ Step(p) \/ Abort(p)
  \/ Tick

Spec == Init /\ [][Next]_vars

(* A request keeps running its statements; the server grants a row lock to
   its waiters in turn, so a lock that is free again and again is granted. *)
Fairness == \A p \in Procs : SF_vars(Step(p))
FairSpec == Spec /\ Fairness

-----------------------------------------------------------------------------
(* Every variable has its type. *)
TypeOK ==
  /\ now \in Nat
  /\ booked \in [Slots -> BOOLEAN]
  /\ bookedNew \in [Slots -> BOOLEAN]
  /\ row \in [Bookings -> Rows]
  /\ rowNew \in [Bookings -> Rows]
  /\ tokens \subseteq Bookings
  /\ slotLock \in [Slots -> Procs \cup {Nobody}]
  /\ rowLock \in [Bookings -> Procs \cup {Nobody}]
  /\ pc \in [Procs -> Labels]
  /\ req \in [Procs -> Reqs]

Holders(s) == {b \in Bookings : row[b] = Scheduled(s)}

(* The committed flag of a slot, which ListAvailableSlots and Book trust, says
   exactly whether a scheduled booking holds the slot, and never do two: no
   interleaving, refusal, abort or compensation of requests makes the two
   tables disagree. *)
SlotFlagTruthful ==
  /\ \A s \in Slots : booked[s] <=> Holders(s) # {}
  /\ \A s \in Slots : \A b, c \in Holders(s) : b = c

(* A request frees the slot it remembers, not the one it reads: Reschedule
   and CancelByToken the slot of their snapshot, compensatingCancel the slot
   the booking was made on.  Whenever such a request has the row's lock, the
   remembered slot is the one the booking holds. *)
RememberedSlotCurrent ==
  \A p \in Procs, b \in Bookings :
    (rowLock[b] = p /\ req[p].op \notin BookOps)
      => b = req[p].bk /\ row[b] = Scheduled(req[p].from)

(* The requests that the next statement of p has to wait for. *)
WaitsFor(p) ==
  LET r == req[p] IN
  CASE pc[p] \in {"readToken", "getBooking", "cancelBooking"} ->
         {rowLock[r.bk]} \ {Nobody, p}
    [] pc[p] = "getSlot" /\ Bookable(r.to) -> {slotLock[r.to]} \ {Nobody, p}
    [] pc[p] = "freeSlot" -> {slotLock[r.from]} \ {Nobody, p}
    [] pc[p] = "markBooked" -> {slotLock[r.to]} \ {Nobody, p}
    [] pc[p] \in {"insert", "updateSlot"} ->
         {rowLock[c] : c \in {d \in Bookings \ {r.bk} :
                                row[d] # rowNew[d] /\ Scheduled(r.to) \in {row[d], rowNew[d]}}}
    [] OTHER -> {}

(* No set of requests wait for each other, whatever they lock and in whatever
   order: the server never has to break a deadlock. *)
NoDeadlock ==
  \A Q \in (SUBSET Procs) \ {{}} : \E p \in Q : WaitsFor(p) \cap Q = {}

(* The cutoff of a scheduled booking has passed and no request of the
   candidate got hold of its row in time. *)
Frozen(b) ==
  /\ row[b].status = "scheduled"
  /\ now + Cutoff >= Start[row[b].slot]
  /\ ~\E p \in Procs : rowLock[b] = p /\ req[p].op \in TokenOps

(* Past the cutoff a candidate's tokens no longer change the booking: a frozen
   booking stays as it is until the recruiter, or a failed Google Meet
   request, cancels it. *)
CutoffFreezesBooking ==
  [][\A b \in Bookings : Frozen(b) =>
       \/ Frozen(b)' /\ row'[b] = row[b]
       \/ /\ row'[b].status = "cancelled"
          /\ \E p \in Procs : pc[p] = "commit" /\ req[p].bk = b /\ req[p].op \in {"cancel", "compensate"}]_vars

(* Who holds a slot.  A flag that the booking rows do not bear out maps to a
   holder that no state of the ledger has. *)
Holder(s) ==
  CASE ~booked[s] /\ Holders(s) = {} -> NoBooking
    [] booked[s] /\ Holders(s) # {} -> CHOOSE b \in Bookings : row[b] = Scheduled(s)
    [] OTHER -> NoSlot

Ledger == INSTANCE BookingLedger WITH
  Free <- NoBooking,
  holder <- [s \in Slots |-> Holder(s)],
  life <- [b \in Bookings |-> row[b].status]

(* The interleaved transactions implement the ledger in which every request
   is atomic: what other requests can see changes only by whole bookings,
   moves to a free slot, and cancellations. *)
ImplementsLedger == Ledger!Spec

(* Every request ends: no lock is waited for forever. *)
RequestsEnd == \A p \in Procs : pc[p] # "idle" ~> pc[p] = "idle"
=============================================================================
