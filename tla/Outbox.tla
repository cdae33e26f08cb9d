------------------------------- MODULE Outbox -------------------------------
(***************************************************************************)
(* The notification outbox between the booking transactions of on-site     *)
(* interview types, which queue rows, and the workers that e-mail them.    *)
(*                                                                         *)
(* The booking transactions are the atomic ones of BookingLedger, with the *)
(* rows they insert.  A worker runs one transaction for a whole batch: it  *)
(* locks the rows, sends the e-mails one by one, marks each row and then   *)
(* commits, so that a crash forgets the marks but not the e-mails.         *)
(***************************************************************************)
EXTENDS Naturals, FiniteSets, Sequences

CONSTANTS
  Slots, Bookings, Free,  \* as in BookingLedger
  Workers,    \* worker processes
  Start,      \* slots.start_at, in hours
  Lead,       \* how long before the interview the reminder goes out
  Cutoff,     \* DefaultModifyCutoffHours
  BatchSize,
  MaxRetries,
  MaxNow,     \* bound on the clock
  MaxRows,    \* bound on the outbox
  MaxFaults   \* bound on crashes and lost replies

ASSUME OutboxAssumption ==
  /\ Free \notin Bookings
  /\ Start \in [Slots -> Nat]
  /\ {Lead, Cutoff, MaxNow, MaxRows, MaxFaults} \subseteq Nat
  /\ {BatchSize, MaxRetries} \subseteq Nat \ {0}

VARIABLES
  holder, life,   \* the bookings, as in BookingLedger
  now,        \* the clock
  rows,       \* notification_outbox, in the order of created_at
  worker,     \* the transaction of each worker: rows locked, sent, failed
  faults      \* crashes and lost replies so far

vars == <<holder, life, now, rows, worker, faults>>

Ledger == INSTANCE BookingLedger

Kinds == {"booking_created", "booking_rescheduled", "booking_cancelled", "reminder_24h"}
Statuses == {"pending", "sent", "failed", "cancelled"}
Row(kind, b, s, to, due) ==
  [kind |-> kind, bk |-> b, slot |-> s, to |-> to, due |-> due,
   status |-> "pending", retries |-> 0, mails |-> 0]   \* mails: history of deliveries
NoBatch == [batch |-> {}, sent |-> {}, failed |-> {}]

Init ==
  /\ Ledger!Init
  /\ now = 0
  /\ rows = <<>>
  /\ worker = [w \in Workers |-> NoBatch]
  /\ faults = 0

Pending(i) == i \in DOMAIN rows /\ rows[i].status = "pending"
IsReminder(r, b) == r.status = "pending" /\ r.kind = "reminder_24h" /\ r.bk = b
PendingReminder(i, b) == i \in DOMAIN rows /\ IsReminder(rows[i], b)
Locked == UNION {worker[w].batch : w \in Workers}

-----------------------------------------------------------------------------
(* The operators named Mutant... are seeded faults, as in Booking. *)

(* reminderScheduledAt and insertReminderNotification: no reminder is queued
   for an interview that is closer than the lead. *)
Reminder(b, s) ==
  IF now + Lead < Start[s]
  THEN <<Row("reminder_24h", b, s, "candidate", Start[s] - Lead)>>
  ELSE <<>>

MutantWithoutReminders(rs, b) == rs

(* CancelPendingRemindersByBookingID *)
WithoutReminders(rs, b) ==
  [i \in DOMAIN rs |->
     IF IsReminder(rs[i], b) THEN [rs[i] EXCEPT !.status = "cancelled"] ELSE rs[i]]

MutantMoved(b, t) ==
  WithoutReminders(rows \o Reminder(b, t), b)
    \o <<Row("booking_rescheduled", b, t, "candidate", now)>>

(* What Reschedule does to the outbox: the notice, the old reminder, the new. *)
Moved(b, t) ==
  WithoutReminders(rows, b)
    \o <<Row("booking_rescheduled", b, t, "candidate", now)>>
    \o Reminder(b, t)

(* The UPDATE of pending reminders waits for a worker that has locked one. *)
RemindersUnlocked(b) == \A i \in Locked : ~PendingReminder(i, b)

(* Service.Book *)
Book(b, s) ==
  /\ Len(rows) + 3 <= MaxRows
  /\ Ledger!Book(b, s)
  /\ rows' = rows \o <<Row("booking_created", b, s, "candidate", now),
                       Row("booking_created", b, s, "recruiter", now)>>
                  \o Reminder(b, s)
  /\ UNCHANGED <<now, worker, faults>>

(* Service.Reschedule *)
Reschedule(b, s, t) ==
  /\ Len(rows) + 3 <= MaxRows
  /\ now + Cutoff < Start[s]
  /\ RemindersUnlocked(b)
  /\ Ledger!Move(b, s, t)
  /\ rows' = Moved(b, t)
  /\ UNCHANGED <<now, worker, faults>>

(* Service.Cancel and Service.CancelByToken *)
Cancel(b, s) ==
  /\ Len(rows) + 2 <= MaxRows
  /\ RemindersUnlocked(b)
  /\ Ledger!Cancel(b, s)
  /\ rows' = WithoutReminders(rows, b)
                \o <<Row("booking_cancelled", b, s, "candidate", now),
                     Row("booking_cancelled", b, s, "recruiter", now)>>
  /\ UNCHANGED <<now, worker, faults>>

-----------------------------------------------------------------------------
MutantClaimable == {i \in DOMAIN rows : Pending(i) /\ rows[i].due <= now}

(* The WHERE and the FOR UPDATE SKIP LOCKED of ClaimPendingNotifications. *)
Claimable == {i \in DOMAIN rows : Pending(i) /\ rows[i].due <= now /\ i \notin Locked}

(* ORDER BY scheduled_at, created_at *)
Before(i, j) ==
  \/ rows[i].due < rows[j].due
  \/ rows[i].due = rows[j].due /\ i < j

(* ClaimPendingNotifications: LIMIT batchSize. *)
Claim(w) ==
  /\ worker[w].batch = {}
  /\ Claimable # {}
  /\ worker' = [worker EXCEPT ![w].batch =
       {i \in Claimable : Cardinality({j \in Claimable : Before(j, i)}) < BatchSize}]
  /\ UNCHANGED <<holder, life, now, rows, faults>>

Unsent(w) == worker[w].batch \ (worker[w].sent \cup worker[w].failed)

Delivered(i) == rows' = [rows EXCEPT ![i].mails = @ + 1]

(* processRow of the next row, and its MarkNotificationSent or
   MarkNotificationFailed, not yet committed.  The sender may report an error
   for an e-mail that did go out. *)
ProcessRow(w) ==
  \E i \in Unsent(w) :
    /\ \A j \in Unsent(w) \ {i} : Before(i, j)
    /\ \/ /\ worker' = [worker EXCEPT ![w].sent = @ \cup {i}]
          /\ Delivered(i)
          /\ UNCHANGED faults
       \/ /\ worker' = [worker EXCEPT ![w].failed = @ \cup {i}]
          /\ \/ UNCHANGED <<rows, faults>>
             \/ faults < MaxFaults /\ faults' = faults + 1 /\ Delivered(i)
    /\ UNCHANGED <<holder, life, now>>

MutantMarked(r) == [r EXCEPT !.retries = @ + 1,
                             !.status = IF r.retries > MaxRetries THEN "failed" ELSE "pending"]

MutantForgotten(r) == r

(* MarkNotificationFailed *)
Marked(r) == [r EXCEPT !.retries = @ + 1,
                       !.status = IF r.retries + 1 >= MaxRetries THEN "failed" ELSE "pending"]

(* The tx.Commit of ProcessBatch. *)
CommitBatch(w) ==
  /\ worker[w].batch # {}
  /\ Unsent(w) = {}
  /\ rows' = [i \in DOMAIN rows |->
       CASE i \in worker[w].sent -> [rows[i] EXCEPT !.status = "sent"]
         [] i \in worker[w].failed -> Marked(rows[i])
         [] OTHER -> rows[i]]
  /\ worker' = [worker EXCEPT ![w] = NoBatch]
  /\ UNCHANGED <<holder, life, now, faults>>

(* The worker dies, or a mark or the commit fails: the batch is rolled back. *)
Crash(w) ==
  /\ faults < MaxFaults
  /\ worker[w].batch # {}
  /\ worker' = [worker EXCEPT ![w] = NoBatch]
  /\ faults' = faults + 1
  /\ UNCHANGED <<holder, life, now, rows>>

Tick ==
  /\ now < MaxNow
  /\ now' = now + 1
  /\ UNCHANGED <<holder, life, rows, worker, faults>>

Work(w) == Claim(w) \/ ProcessRow(w) \/ CommitBatch(w)

Next ==
  \/ \E b \in Bookings, s \in Slots :
       Book(b, s) \/ Cancel(b, s) \/ \E t \in Slots : Reschedule(b, s, t)
  \/ \E w \in Workers : Work(w) \/ Crash(w)
  \/ Tick

Spec == Init /\ [][Next]_vars

(* A worker polls for ever: each tick of its ticker claims what is due, and a
   batch is finished or rolled back; the clock goes on. *)
Fairness == WF_vars(Tick) /\ \A w \in Workers : WF_vars(Work(w))
FairSpec == Spec /\ Fairness

-----------------------------------------------------------------------------
Rows == [kind : Kinds, bk : Bookings, slot : Slots, to : {"candidate", "recruiter"},
         due : Nat, status : Statuses, retries : 0..MaxRetries, mails : Nat]

(* Every variable has its type: a worker's marks are of rows it has locked. *)
TypeOK ==
  /\ holder \in [Slots -> Bookings \cup {Free}]
  /\ life \in [Bookings -> {"none", "scheduled", "cancelled"}]
  /\ now \in Nat
  /\ rows \in Seq(Rows)
  /\ worker \in [Workers -> [batch : SUBSET (DOMAIN rows), sent : SUBSET (DOMAIN rows),
                             failed : SUBSET (DOMAIN rows)]]
  /\ \A w \in Workers : worker[w].sent \cup worker[w].failed \subseteq worker[w].batch
  /\ faults \in Nat

(* A pending reminder, one that a worker is just sending included, is for the
   slot its booking holds now: nobody is reminded of an interview that was
   moved or cancelled. *)
RemindersCurrent ==
  \A i \in DOMAIN rows :
    Pending(i) /\ rows[i].kind = "reminder_24h" => holder[rows[i].slot] = rows[i].bk

(* A scheduled booking whose reminder is not due yet has one pending reminder. *)
RemindersQueued ==
  \A b \in Bookings, s \in Slots :
    holder[s] = b /\ now + Lead < Start[s] =>
      Cardinality({i \in DOMAIN rows : PendingReminder(i, b)}) = 1

(* A row marked sent went out, a row given up on was tried MaxRetries times,
   and while nothing crashes no e-mail goes out twice, whatever the number of
   workers. *)
MarksTruthful ==
  \A i \in DOMAIN rows :
    /\ rows[i].status = "sent" => rows[i].mails > 0
    /\ rows[i].status = "failed" <=> rows[i].retries = MaxRetries
    /\ faults = 0 => rows[i].mails <= 1

(* A row that was sent, given up on or cancelled stays so: MarkNotificationSent
   and MarkNotificationFailed, which do not look at the status, never undo a
   cancellation. *)
StatusFinal ==
  [][\A i \in DOMAIN rows :
       rows[i].status # "pending" => rows'[i].status = rows[i].status]_vars

(* Every notification is sent, given up on or cancelled in the end. *)
AllProcessed == \A i \in 1..MaxRows : Pending(i) ~> ~Pending(i)
=============================================================================
