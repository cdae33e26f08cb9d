---------------------------- MODULE OutboxProofs ----------------------------
(***************************************************************************)
(* Proofs about Outbox, for any number of workers, rows, retries, faults   *)
(* and bookings: the reminders follow the bookings, what is marked is what *)
(* happened, and no row leaves a final status.                             *)
(***************************************************************************)
EXTENDS Outbox, TLAPS, FiniteSetTheorems, SequenceTheorems

(* A booking that holds a slot is scheduled, and holds one slot. *)
LedgerInv ==
  /\ \A s \in Slots : holder[s] # Free => life[holder[s]] = "scheduled"
  /\ \A s, t \in Slots : holder[s] # Free /\ holder[s] = holder[t] => s = t

(* A row is locked by one worker at a time, and is pending and due while it is;
   it has one outcome. *)
LockInv ==
  /\ \A w \in Workers : \A i \in worker[w].batch : rows[i].status = "pending" /\ rows[i].due <= now
  /\ \A v, w \in Workers : v # w => worker[v].batch \cap worker[w].batch = {}
  /\ \A w \in Workers : worker[w].sent \cap worker[w].failed = {}

(* The row has been sent by a worker that has not committed yet. *)
InSent(i) == \E w \in Workers : i \in worker[w].sent

(* What a row has been through agrees with its status and with the marks that
   are not committed: without a fault a row that is not marked sent has not
   been delivered. *)
MarksOf(i) ==
  /\ rows[i].status = "failed" <=> rows[i].retries = MaxRetries
  /\ rows[i].status = "sent" \/ InSent(i) => rows[i].mails > 0
  /\ faults = 0 => rows[i].mails <= 1
  /\ faults = 0 /\ rows[i].status = "pending" /\ ~InSent(i) => rows[i].mails = 0

MarksInv == \A i \in DOMAIN rows : MarksOf(i)

(* A reminder goes out the lead before its slot.  A pending one is for the slot
   the booking holds and the only one of the booking, and there is one until it
   is due. *)
ReminderInv ==
  /\ \A i \in DOMAIN rows : rows[i].kind = "reminder_24h" => rows[i].due + Lead = Start[rows[i].slot]
  /\ RemindersCurrent
  /\ \A b \in Bookings : \A i, j \in DOMAIN rows : PendingReminder(i, b) /\ PendingReminder(j, b) => i = j
  /\ \A b \in Bookings, s \in Slots :
       holder[s] = b /\ now + Lead < Start[s] => \E i \in DOMAIN rows : PendingReminder(i, b)

IInv == TypeOK /\ LedgerInv /\ LockInv /\ MarksInv /\ ReminderInv

-----------------------------------------------------------------------------
LEMMA InitIInv == Init => IInv
<1> SUFFICES ASSUME Init PROVE IInv
  OBVIOUS
<1>1. rows \in Seq(Rows) /\ DOMAIN rows = {}
  BY DEF Init
<1>2. TypeOK
  BY <1>1, OutboxAssumption DEF Init, Ledger!Init, TypeOK, NoBatch
<1>3. LedgerInv /\ LockInv
  BY OutboxAssumption DEF Init, Ledger!Init, LedgerInv, LockInv, NoBatch
<1>4. MarksInv /\ RemindersCurrent
  BY <1>1 DEF MarksInv, RemindersCurrent
<1>5. \A s \in Slots : holder[s] \notin Bookings
  BY OutboxAssumption DEF Init, Ledger!Init
<1> QED
  BY <1>1, <1>2, <1>3, <1>4, <1>5 DEF IInv, ReminderInv

(* The rows are indexed from 1. *)
LEMMA RowIn ==
  ASSUME NEW rs \in Seq(Rows)
  PROVE  DOMAIN rs = 1..Len(rs) /\ Len(rs) \in Nat /\ \A i \in DOMAIN rs : rs[i] \in Rows
  BY LenProperties

(* A function on the indices of a sequence is a sequence. *)
LEMMA SameLength ==
  ASSUME NEW rs \in Seq(Rows), NEW f, DOMAIN f = DOMAIN rs, f = [i \in DOMAIN f |-> f[i]],
         \A i \in DOMAIN rs : f[i] \in Rows
  PROVE  f \in Seq(Rows)
<1>1. DOMAIN f = 1..Len(rs) /\ Len(rs) \in Nat
  BY RowIn
<1>2. [i \in 1..Len(rs) |-> f[i]] \in Seq(Rows)
  BY <1>1
<1> QED
  BY <1>1, <1>2, Zenon

(* What appending rows does. *)
LEMMA Appended ==
  ASSUME NEW rs \in Seq(Rows), NEW more \in Seq(Rows)
  PROVE  /\ rs \o more \in Seq(Rows)
         /\ Len(rs \o more) = Len(rs) + Len(more)
         /\ DOMAIN rs \subseteq DOMAIN (rs \o more)
         /\ \A i \in DOMAIN rs : (rs \o more)[i] = rs[i]
         /\ \A i \in DOMAIN (rs \o more) \ DOMAIN rs :
              i - Len(rs) \in DOMAIN more /\ (rs \o more)[i] = more[i - Len(rs)]
<1>1. /\ rs \o more \in Seq(Rows)
      /\ Len(rs \o more) = Len(rs) + Len(more)
      /\ \A i \in 1..Len(rs) + Len(more) :
           (rs \o more)[i] = IF i <= Len(rs) THEN rs[i] ELSE more[i - Len(rs)]
  BY ConcatProperties
<1>2. /\ DOMAIN rs = 1..Len(rs) /\ DOMAIN more = 1..Len(more)
      /\ Len(rs) \in Nat /\ Len(more) \in Nat
      /\ DOMAIN (rs \o more) = 1..Len(rs) + Len(more)
  BY <1>1, RowIn
<1> QED
  BY <1>1, <1>2

(* A row that has just been queued. *)
Fresh(r, b) == r.bk = b /\ r.status = "pending" /\ r.retries = 0 /\ r.mails = 0

LEMMA NewRow ==
  ASSUME NEW kind \in Kinds, NEW b \in Bookings, NEW s \in Slots,
         NEW to \in {"candidate", "recruiter"}, NEW due \in Nat
  PROVE  /\ Row(kind, b, s, to, due) \in Rows
         /\ Fresh(Row(kind, b, s, to, due), b)
         /\ Row(kind, b, s, to, due).kind = kind
         /\ Row(kind, b, s, to, due).slot = s
         /\ Row(kind, b, s, to, due).due = due
  BY OutboxAssumption DEF Row, Rows, Statuses, Fresh

LEMMA ReminderRow ==
  ASSUME TypeOK, NEW b \in Bookings, NEW s \in Slots
  PROVE  /\ Reminder(b, s) \in Seq(Rows)
         /\ now + Lead < Start[s] => Len(Reminder(b, s)) = 1
         /\ ~(now + Lead < Start[s]) => Len(Reminder(b, s)) = 0
         /\ \A i \in DOMAIN Reminder(b, s) :
              /\ Fresh(Reminder(b, s)[i], b) /\ Reminder(b, s)[i].kind = "reminder_24h"
              /\ Reminder(b, s)[i].slot = s /\ Reminder(b, s)[i].due + Lead = Start[s]
<1>1. CASE now + Lead < Start[s]
  <2>1. Start[s] - Lead \in Nat /\ Start[s] - Lead + Lead = Start[s]
    BY <1>1, OutboxAssumption DEF TypeOK
  <2>2. "reminder_24h" \in Kinds
    BY DEF Kinds
  <2> DEFINE r == Row("reminder_24h", b, s, "candidate", Start[s] - Lead)
  <2>3. r \in Rows /\ Fresh(r, b) /\ r.kind = "reminder_24h" /\ r.slot = s /\ r.due = Start[s] - Lead
    BY <2>1, <2>2, NewRow
  <2>4. Reminder(b, s) = <<r>>
    BY <1>1 DEF Reminder
  <2> QED
    <3> HIDE DEF r
    <3> QED BY <1>1, <2>1, <2>3, <2>4
<1>2. CASE ~(now + Lead < Start[s])
  BY <1>2 DEF Reminder
<1> QED
  BY <1>1, <1>2

(* The rows of old are followed by fresh ones of booking b. *)
Grown(old, new, b) ==
  /\ new \in Seq(Rows)
  /\ DOMAIN old \subseteq DOMAIN new
  /\ \A i \in DOMAIN old : new[i] = old[i]
  /\ \A i \in DOMAIN new \ DOMAIN old : Fresh(new[i], b)

Notices(more, b) ==
  more \in Seq(Rows) /\ \A i \in DOMAIN more : Fresh(more[i], b) /\ more[i].kind # "reminder_24h"

LEMMA NoticesAdded ==
  ASSUME NEW b \in Bookings, NEW old \in Seq(Rows), NEW more, Notices(more, b)
  PROVE  /\ Grown(old, old \o more, b)
         /\ Len(old \o more) = Len(old) + Len(more)
         /\ \A i \in DOMAIN (old \o more) \ DOMAIN old : (old \o more)[i].kind # "reminder_24h"
  BY Appended DEF Grown, Notices

(* The last of the rows that follow old is the reminder of slot s, if it is far enough. *)
Reminding(old, new, s) ==
  /\ \A i, j \in DOMAIN new \ DOMAIN old :
       new[i].kind = "reminder_24h" /\ new[j].kind = "reminder_24h" => i = j
  /\ \A i \in DOMAIN new \ DOMAIN old : new[i].kind = "reminder_24h" =>
       new[i].slot = s /\ new[i].due + Lead = Start[s]
  /\ now + Lead < Start[s] => \E i \in DOMAIN new \ DOMAIN old : new[i].kind = "reminder_24h"

LEMMA ReminderAdded ==
  ASSUME TypeOK, NEW b \in Bookings, NEW s \in Slots, NEW old \in Seq(Rows), NEW more, Notices(more, b)
  PROVE  /\ Grown(old, old \o more \o Reminder(b, s), b)
         /\ Reminding(old, old \o more \o Reminder(b, s), s)
<1> DEFINE mid == old \o more
           new == mid \o Reminder(b, s)
           last == Reminder(b, s)
<1>1. /\ Grown(old, mid, b) /\ mid \in Seq(Rows) /\ DOMAIN old \subseteq DOMAIN mid
      /\ Len(mid) = Len(old) + Len(more)
      /\ \A i \in DOMAIN mid \ DOMAIN old : mid[i].kind # "reminder_24h"
  BY NoticesAdded DEF Grown
<1>2. /\ last \in Seq(Rows)
      /\ now + Lead < Start[s] => Len(last) = 1
      /\ ~(now + Lead < Start[s]) => Len(last) = 0
      /\ \A i \in DOMAIN last : /\ Fresh(last[i], b) /\ last[i].kind = "reminder_24h"
                               /\ last[i].slot = s /\ last[i].due + Lead = Start[s]
  BY ReminderRow
<1>3. new = mid \o last /\ new = old \o more \o Reminder(b, s)
  OBVIOUS
<1> HIDE DEF mid, last, new
<1>4. /\ new \in Seq(Rows)
      /\ DOMAIN mid \subseteq DOMAIN new
      /\ \A i \in DOMAIN mid : new[i] = mid[i]
      /\ \A i \in DOMAIN new \ DOMAIN mid : i - Len(mid) \in DOMAIN last /\ new[i] = last[i - Len(mid)]
      /\ Len(new) = Len(mid) + Len(last)
  <2>1. /\ mid \o last \in Seq(Rows)
        /\ Len(mid \o last) = Len(mid) + Len(last)
        /\ DOMAIN mid \subseteq DOMAIN (mid \o last)
        /\ \A i \in DOMAIN mid : (mid \o last)[i] = mid[i]
        /\ \A i \in DOMAIN (mid \o last) \ DOMAIN mid :
             i - Len(mid) \in DOMAIN last /\ (mid \o last)[i] = last[i - Len(mid)]
    BY <1>1, <1>2, Appended, Zenon
  <2> QED
    BY <1>3, <2>1, Zenon
<1>5. Grown(old, new, b)
  BY <1>1, <1>2, <1>4 DEF Grown
<1>6. /\ DOMAIN mid = 1..Len(mid) /\ Len(mid) \in Nat /\ DOMAIN last = 1..Len(last) /\ DOMAIN new = 1..Len(new)
  BY <1>1, <1>2, <1>4, RowIn
<1>7. ASSUME NEW i \in DOMAIN new \ DOMAIN old, new[i].kind = "reminder_24h"
      PROVE  i = Len(mid) + 1 /\ new[i].slot = s /\ new[i].due + Lead = Start[s]
  <2>1. i \in DOMAIN new \ DOMAIN mid
    BY <1>1, <1>4, <1>7
  <2>2. i - Len(mid) \in 1..Len(last) /\ new[i] = last[i - Len(mid)]
    BY <1>4, <1>6, <2>1
  <2>3. Len(last) = 0 \/ Len(last) = 1
    BY <1>2
  <2>4. i \in Nat
    BY <1>4, <1>6
  <2>5. i - Len(mid) = 1
    BY <1>6, <2>2, <2>3
  <2>6. i = Len(mid) + 1
    <3>1. PICK n \in Nat : n = Len(mid)
      BY <1>6
    <3>2. i - n = 1
      BY <2>5, <3>1, Zenon
    <3> QED
      BY <2>4, <3>1, <3>2
  <2> QED
    BY <1>2, <1>6, <2>2, <2>5, <2>6
<1>8. ASSUME now + Lead < Start[s]
      PROVE  \E i \in DOMAIN new \ DOMAIN old : new[i].kind = "reminder_24h"
  <2>1. Len(mid) + 1 \in DOMAIN new /\ Len(mid) + 1 \notin DOMAIN mid
    BY <1>2, <1>4, <1>6, <1>8
  <2>2. PICK i \in DOMAIN new \ DOMAIN mid : i - Len(mid) = 1
    BY <1>6, <2>1
  <2>3. new[i] = last[1] /\ 1 \in DOMAIN last
    BY <1>4, <2>2
  <2>4. new[i].kind = "reminder_24h"
    BY <1>2, <2>3
  <2> QED
    BY <1>1, <2>1, <2>4
<1>9. Reminding(old, new, s)
  BY <1>7, <1>8 DEF Reminding
<1> QED
  BY <1>3, <1>5, <1>9, Zenon

(* What the booking transactions leave of a row: it is as it was, or a pending
   reminder that no worker has locked and that is cancelled. *)
Kept(i, r) ==
  r = rows[i] \/ (rows[i].status = "pending" /\ i \notin Locked /\ r = [rows[i] EXCEPT !.status = "cancelled"])

LEMMA WithoutRemindersRows ==
  ASSUME TypeOK, NEW b \in Bookings
  PROVE  /\ WithoutReminders(rows, b) \in Seq(Rows)
         /\ DOMAIN WithoutReminders(rows, b) = DOMAIN rows
         /\ RemindersUnlocked(b) => \A i \in DOMAIN rows : Kept(i, WithoutReminders(rows, b)[i])
         /\ \A i \in DOMAIN rows :
              WithoutReminders(rows, b)[i] =
                IF PendingReminder(i, b) THEN [rows[i] EXCEPT !.status = "cancelled"] ELSE rows[i]
<1> DEFINE f == WithoutReminders(rows, b)
<1>1. DOMAIN f = DOMAIN rows /\ f = [i \in DOMAIN f |-> f[i]]
  BY DEF WithoutReminders
<1>2. \A i \in DOMAIN rows : f[i] = IF PendingReminder(i, b) THEN [rows[i] EXCEPT !.status = "cancelled"] ELSE rows[i]
  BY DEF WithoutReminders, PendingReminder
<1>3. rows \in Seq(Rows) /\ \A i \in DOMAIN rows : rows[i] \in Rows
  BY RowIn DEF TypeOK
<1>4. \A i \in DOMAIN rows : [rows[i] EXCEPT !.status = "cancelled"] \in Rows
  BY <1>3 DEF Rows, Statuses
<1> HIDE DEF f
<1>5. f \in Seq(Rows)
  BY <1>1, <1>2, <1>3, <1>4, SameLength
<1>6. RemindersUnlocked(b) => \A i \in DOMAIN rows : Kept(i, f[i])
  BY <1>2 DEF RemindersUnlocked, Kept, PendingReminder, IsReminder
<1> QED
  BY <1>1, <1>2, <1>5, <1>6 DEF f

-----------------------------------------------------------------------------
(* The part of the invariant that is about workers is kept by every request. *)
LEMMA RequestKeepsMarks ==
  ASSUME IInv, UNCHANGED <<now, worker, faults>>, NEW b \in Bookings,
         NEW old \in Seq(Rows), DOMAIN old = DOMAIN rows, \A i \in DOMAIN rows : Kept(i, old[i]),
         Grown(old, rows', b)
  PROVE  /\ rows' \in Seq(Rows) /\ DOMAIN rows \subseteq DOMAIN rows'
         /\ worker' \in [Workers -> [batch : SUBSET (DOMAIN rows'), sent : SUBSET (DOMAIN rows'),
                                     failed : SUBSET (DOMAIN rows')]]
         /\ LockInv' /\ MarksInv'
<1>1. /\ rows' \in Seq(Rows) /\ DOMAIN rows \subseteq DOMAIN rows'
      /\ \A i \in DOMAIN rows : Kept(i, rows'[i])
      /\ \A i \in DOMAIN rows' \ DOMAIN rows : Fresh(rows'[i], b)
  BY DEF Grown
<1>2. /\ worker \in [Workers -> [batch : SUBSET (DOMAIN rows), sent : SUBSET (DOMAIN rows),
                                 failed : SUBSET (DOMAIN rows)]]
      /\ \A w \in Workers : worker[w].sent \cup worker[w].failed \subseteq worker[w].batch
  BY DEF IInv, TypeOK
<1>3. worker' \in [Workers -> [batch : SUBSET (DOMAIN rows'), sent : SUBSET (DOMAIN rows'),
                              failed : SUBSET (DOMAIN rows')]]
  BY <1>1, <1>2
<1>4. \A w \in Workers : \A i \in worker[w].batch : i \in DOMAIN rows /\ i \in Locked /\ rows'[i] = rows[i]
  <2> SUFFICES ASSUME NEW w \in Workers, NEW i \in worker[w].batch
               PROVE  i \in DOMAIN rows /\ i \in Locked /\ rows'[i] = rows[i]
    OBVIOUS
  <2>1. i \in Locked
    BY DEF Locked
  <2>2. i \in DOMAIN rows
    BY <1>2
  <2> QED
    BY <1>1, <2>1, <2>2 DEF Kept
<1>5. LockInv'
  BY <1>4 DEF IInv, LockInv
<1>6. \A i \in DOMAIN rows : rows[i] \in Rows
  BY RowIn DEF IInv, TypeOK
<1>7. \A i : InSent(i)' <=> InSent(i)
  BY DEF InSent
<1>8. ASSUME NEW i \in DOMAIN rows' PROVE MarksOf(i)'
  <2>1. CASE i \in DOMAIN rows /\ rows'[i] = rows[i]
    BY <1>7, <2>1 DEF IInv, MarksInv, MarksOf
  <2>2. CASE i \in DOMAIN rows /\ rows[i].status = "pending" /\ i \notin Locked
              /\ rows'[i] = [rows[i] EXCEPT !.status = "cancelled"]
    <3>1. ~InSent(i)
      BY <1>2, <2>2 DEF InSent, Locked
    <3>2. MarksOf(i) /\ rows[i] \in Rows
      BY <1>6, <2>2 DEF IInv, MarksInv
    <3>3. /\ rows'[i].status = "cancelled" /\ rows'[i].retries = rows[i].retries
          /\ rows'[i].mails = rows[i].mails
      BY <2>2, <3>2 DEF Rows
    <3> QED
      BY <1>7, <2>2, <3>1, <3>2, <3>3 DEF MarksOf
  <2>3. CASE i \notin DOMAIN rows
    <3>1. ~InSent(i)
      BY <1>2, <2>3 DEF InSent
    <3> QED
      BY <1>1, <1>7, <2>3, <3>1, OutboxAssumption DEF MarksOf, Fresh
  <2> QED
    BY <1>1, <2>1, <2>2, <2>3 DEF Kept
<1>9. MarksInv'
  BY <1>8 DEF MarksInv
<1> QED
  BY <1>1, <1>3, <1>5, <1>9

(* A pending reminder belongs to a booking that is scheduled. *)
LEMMA ReminderScheduled ==
  ASSUME IInv, NEW i \in DOMAIN rows, NEW b \in Bookings, PendingReminder(i, b)
  PROVE  /\ rows[i] \in Rows /\ rows[i].slot \in Slots /\ holder[rows[i].slot] = b
         /\ life[b] = "scheduled"
<1>1. rows[i] \in Rows
  BY RowIn DEF IInv, TypeOK
<1>2. rows[i].slot \in Slots /\ holder[rows[i].slot] = b
  BY <1>1 DEF IInv, ReminderInv, RemindersCurrent, PendingReminder, IsReminder, Pending, Rows
<1> QED
  BY <1>1, <1>2, OutboxAssumption DEF IInv, LedgerInv

LEMMA TwoNotices ==
  ASSUME TypeOK, NEW b \in Bookings, NEW s \in Slots, NEW kind \in Kinds \ {"reminder_24h"}
  PROVE  /\ Notices(<<Row(kind, b, s, "candidate", now), Row(kind, b, s, "recruiter", now)>>, b)
         /\ Notices(<<Row(kind, b, s, "candidate", now)>>, b)
<1> DEFINE c == Row(kind, b, s, "candidate", now)
           r == Row(kind, b, s, "recruiter", now)
<1>1. /\ c \in Rows /\ Fresh(c, b) /\ c.kind # "reminder_24h"
      /\ r \in Rows /\ Fresh(r, b) /\ r.kind # "reminder_24h"
  BY NewRow DEF TypeOK
<1> HIDE DEF c, r
<1>2. Notices(<<c, r>>, b) /\ Notices(<<c>>, b)
  BY <1>1 DEF Notices
<1> QED
  BY <1>2 DEF c, r

(* The pending reminder of b alone is replaced, by one for the slot it holds now. *)
Replaced(b) ==
  /\ now' = now /\ DOMAIN rows \subseteq DOMAIN rows'
  /\ \A i \in DOMAIN rows : /\ rows'[i].kind = rows[i].kind /\ rows'[i].bk = rows[i].bk
                            /\ rows'[i].slot = rows[i].slot /\ rows'[i].due = rows[i].due
  /\ \A i \in DOMAIN rows, e \in Bookings : PendingReminder(i, e)' <=> PendingReminder(i, e) /\ e # b
  /\ \A e \in Bookings \ {b}, u \in Slots : holder'[u] = e <=> holder[u] = e
  /\ \A i \in DOMAIN rows' \ DOMAIN rows :
       /\ Fresh(rows'[i], b)
       /\ rows'[i].kind = "reminder_24h" =>
            holder'[rows'[i].slot] = b /\ rows'[i].due + Lead = Start[rows'[i].slot]
  /\ \A i, j \in DOMAIN rows' \ DOMAIN rows :
       rows'[i].kind = "reminder_24h" /\ rows'[j].kind = "reminder_24h" => i = j
  /\ \A u \in Slots : holder'[u] = b /\ now + Lead < Start[u] =>
       \E i \in DOMAIN rows' \ DOMAIN rows : rows'[i].kind = "reminder_24h"

LEMMA RequestKeepsReminders ==
  ASSUME IInv, TypeOK', NEW b \in Bookings, Replaced(b)
  PROVE  ReminderInv'
<1> USE DEF Replaced
<1>1. \A i \in DOMAIN rows' : rows'[i].kind = "reminder_24h" => rows'[i].due + Lead = Start[rows'[i].slot]
  BY DEF IInv, ReminderInv
<1>2. \A i \in DOMAIN rows' : rows'[i] \in Rows
  BY RowIn DEF TypeOK
<1>3. ASSUME NEW i \in DOMAIN rows', rows'[i].status = "pending", rows'[i].kind = "reminder_24h"
      PROVE  holder'[rows'[i].slot] = rows'[i].bk
  <2>1. PICK e \in Bookings : e = rows'[i].bk
    BY <1>2 DEF Rows
  <2>2. PendingReminder(i, e)'
    BY <1>3, <2>1 DEF PendingReminder, IsReminder
  <2>3. CASE i \in DOMAIN rows
    <3>1. PendingReminder(i, e) /\ e # b
      BY <2>2, <2>3
    <3>2. rows[i].slot \in Slots /\ holder[rows[i].slot] = e
      BY <2>3, <3>1, ReminderScheduled
    <3> QED
      BY <2>1, <2>3, <3>1, <3>2
  <2>4. CASE i \notin DOMAIN rows
    BY <1>3, <2>4 DEF Fresh
  <2> QED
    BY <2>3, <2>4
<1>4. ASSUME NEW e \in Bookings, NEW i \in DOMAIN rows', NEW j \in DOMAIN rows',
             PendingReminder(i, e)', PendingReminder(j, e)'
      PROVE  i = j
  <2>1. ASSUME NEW n \in DOMAIN rows' \ DOMAIN rows, PendingReminder(n, e)'
        PROVE  e = b /\ rows'[n].kind = "reminder_24h"
    BY <2>1 DEF PendingReminder, IsReminder, Fresh
  <2>2. CASE e = b
    BY <1>4, <2>1, <2>2
  <2>3. CASE e # b
    BY <1>4, <2>1, <2>3 DEF IInv, ReminderInv
  <2> QED
    BY <2>2, <2>3
<1>5. ASSUME NEW e \in Bookings, NEW u \in Slots, holder'[u] = e, now' + Lead < Start[u]
      PROVE  \E i \in DOMAIN rows' : PendingReminder(i, e)'
  <2>1. CASE e = b
    <3>1. PICK i \in DOMAIN rows' \ DOMAIN rows : rows'[i].kind = "reminder_24h"
      BY <1>5, <2>1
    <3> QED
      BY <2>1, <3>1 DEF PendingReminder, IsReminder, Fresh
  <2>2. CASE e # b
    <3>1. PICK i \in DOMAIN rows : PendingReminder(i, e)
      BY <1>5, <2>2 DEF IInv, ReminderInv
    <3> QED
      BY <2>2, <3>1
  <2> QED
    BY <2>1, <2>2
<1> QED
  BY <1>1, <1>3, <1>4, <1>5 DEF ReminderInv, RemindersCurrent, Pending

LEMMA BookStep ==
  ASSUME IInv, NEW b \in Bookings, NEW s \in Slots, Book(b, s)
  PROVE  IInv'
<1> DEFINE more == <<Row("booking_created", b, s, "candidate", now),
                     Row("booking_created", b, s, "recruiter", now)>>
<1>0. TypeOK /\ rows \in Seq(Rows)
  BY DEF IInv, TypeOK
<1>1. Notices(more, b)
  <2>1. "booking_created" \in Kinds \ {"reminder_24h"}
    BY DEF Kinds
  <2> QED
    BY <1>0, <2>1, TwoNotices
<1>2. rows' = rows \o more \o Reminder(b, s) /\ UNCHANGED <<now, worker, faults>>
  BY DEF Book
<1>3. /\ life[b] = "none" /\ holder[s] = Free
      /\ holder' = [holder EXCEPT ![s] = b] /\ life' = [life EXCEPT ![b] = "scheduled"]
  BY DEF Book, Ledger!Book
<1> HIDE DEF more
<1>4. Grown(rows, rows', b) /\ Reminding(rows, rows', s)
  <2>1. /\ Grown(rows, rows \o more \o Reminder(b, s), b)
        /\ Reminding(rows, rows \o more \o Reminder(b, s), s)
    BY <1>0, <1>1, ReminderAdded, Zenon
  <2> QED
    BY <1>2, <2>1, Zenon
<1>5. \A i \in DOMAIN rows : Kept(i, rows[i])
  BY DEF Kept
<1>6. /\ rows' \in Seq(Rows) /\ DOMAIN rows \subseteq DOMAIN rows'
      /\ worker' \in [Workers -> [batch : SUBSET (DOMAIN rows'), sent : SUBSET (DOMAIN rows'),
                                  failed : SUBSET (DOMAIN rows')]]
      /\ LockInv' /\ MarksInv'
  BY <1>0, <1>2, <1>4, <1>5, RequestKeepsMarks
<1>7. TypeOK'
  BY <1>0, <1>2, <1>3, <1>6 DEF TypeOK
<1>8. LedgerInv'
  BY <1>0, <1>3, OutboxAssumption DEF IInv, TypeOK, LedgerInv
<1>9. /\ \A i \in DOMAIN rows : rows'[i] = rows[i]
      /\ \A i \in DOMAIN rows' \ DOMAIN rows : Fresh(rows'[i], b)
  BY <1>4 DEF Grown
<1>10. \A i \in DOMAIN rows, e \in Bookings : PendingReminder(i, e)' <=> PendingReminder(i, e) /\ e # b
  <2>1. \A i \in DOMAIN rows, e \in Bookings : PendingReminder(i, e)' <=> PendingReminder(i, e)
    BY <1>6, <1>9 DEF PendingReminder, IsReminder
  <2>2. \A i \in DOMAIN rows : ~PendingReminder(i, b)
    BY <1>3, ReminderScheduled
  <2> QED
    BY <2>1, <2>2
<1>11. /\ \A e \in Bookings \ {b}, u \in Slots : holder'[u] = e <=> holder[u] = e
       /\ \A u \in Slots : holder'[u] = b => u = s
       /\ holder'[s] = b
  <2>1. \A u \in Slots : holder[u] # b
    BY <1>3, OutboxAssumption DEF IInv, LedgerInv
  <2> QED
    BY <1>0, <1>3, <2>1, OutboxAssumption DEF TypeOK
<1>12. Replaced(b)
  BY <1>2, <1>4, <1>6, <1>9, <1>10, <1>11 DEF Replaced, Reminding
<1>13. ReminderInv'
  BY <1>7, <1>12, RequestKeepsReminders
<1> QED
  BY <1>6, <1>7, <1>8, <1>13 DEF IInv

(* What moving and cancelling have in common: the pending reminder of the booking
   is cancelled before anything is queued. *)
LEMMA RemindersCancelled ==
  ASSUME IInv, NEW b \in Bookings, RemindersUnlocked(b), UNCHANGED <<now, worker, faults>>,
         Grown(WithoutReminders(rows, b), rows', b)
  PROVE  /\ rows' \in Seq(Rows) /\ DOMAIN rows \subseteq DOMAIN rows'
         /\ worker' \in [Workers -> [batch : SUBSET (DOMAIN rows'), sent : SUBSET (DOMAIN rows'),
                                     failed : SUBSET (DOMAIN rows')]]
         /\ LockInv' /\ MarksInv'
         /\ \A i \in DOMAIN rows : /\ rows'[i].kind = rows[i].kind /\ rows'[i].bk = rows[i].bk
                                   /\ rows'[i].slot = rows[i].slot /\ rows'[i].due = rows[i].due
         /\ \A i \in DOMAIN rows, e \in Bookings : PendingReminder(i, e)' <=> PendingReminder(i, e) /\ e # b
         /\ \A i \in DOMAIN rows' \ DOMAIN rows : Fresh(rows'[i], b)
<1> DEFINE old == WithoutReminders(rows, b)
<1>0. TypeOK /\ \A i \in DOMAIN rows : rows[i] \in Rows
  BY RowIn DEF IInv, TypeOK
<1>1. /\ old \in Seq(Rows) /\ DOMAIN old = DOMAIN rows
      /\ \A i \in DOMAIN rows : Kept(i, old[i])
      /\ \A i \in DOMAIN rows :
           old[i] = IF PendingReminder(i, b) THEN [rows[i] EXCEPT !.status = "cancelled"] ELSE rows[i]
  BY <1>0, WithoutRemindersRows, Zenon
<1>2. Grown(old, rows', b)
  OBVIOUS
<1> HIDE DEF old
<1>3. /\ rows' \in Seq(Rows) /\ DOMAIN rows \subseteq DOMAIN rows'
      /\ worker' \in [Workers -> [batch : SUBSET (DOMAIN rows'), sent : SUBSET (DOMAIN rows'),
                                  failed : SUBSET (DOMAIN rows')]]
      /\ LockInv' /\ MarksInv'
  BY <1>1, <1>2, RequestKeepsMarks
<1>4. /\ \A i \in DOMAIN rows :
           rows'[i] = IF PendingReminder(i, b) THEN [rows[i] EXCEPT !.status = "cancelled"] ELSE rows[i]
      /\ \A i \in DOMAIN rows' \ DOMAIN rows : Fresh(rows'[i], b)
  BY <1>1, <1>2 DEF Grown
<1>5. ASSUME NEW i \in DOMAIN rows
      PROVE  /\ rows'[i].kind = rows[i].kind /\ rows'[i].bk = rows[i].bk
             /\ rows'[i].slot = rows[i].slot /\ rows'[i].due = rows[i].due
             /\ rows'[i].status = IF PendingReminder(i, b) THEN "cancelled" ELSE rows[i].status
  BY <1>0, <1>4 DEF Rows
<1>6. ASSUME NEW i \in DOMAIN rows, NEW e \in Bookings
      PROVE  PendingReminder(i, e)' <=> PendingReminder(i, e) /\ e # b
  <2>1. i \in DOMAIN rows'
    BY <1>3
  <2> QED
    BY <1>5, <2>1 DEF PendingReminder, IsReminder
<1> QED
  BY <1>3, <1>4, <1>5, <1>6

LEMMA RescheduleStep ==
  ASSUME IInv, NEW b \in Bookings, NEW s \in Slots, NEW t \in Slots, Reschedule(b, s, t)
  PROVE  IInv'
<1> DEFINE old == WithoutReminders(rows, b)
           more == <<Row("booking_rescheduled", b, t, "candidate", now)>>
<1>1. TypeOK
  BY DEF IInv
<1>2. Notices(more, b)
  <2>1. "booking_rescheduled" \in Kinds \ {"reminder_24h"}
    BY DEF Kinds
  <2> QED
    BY <1>1, <2>1, TwoNotices
<1>3. /\ old \in Seq(Rows) /\ DOMAIN old = DOMAIN rows
  BY <1>1, WithoutRemindersRows
<1>4. rows' = old \o more \o Reminder(b, t) /\ UNCHANGED <<now, worker, faults>> /\ RemindersUnlocked(b)
  BY DEF Reschedule, Moved
<1>5. /\ life[b] = "scheduled" /\ holder[s] = b /\ holder[t] = Free
      /\ holder' = [holder EXCEPT ![s] = Free, ![t] = b] /\ life' = life
  BY DEF Reschedule, Ledger!Move
<1> HIDE DEF old, more
<1>6. Grown(old, rows', b) /\ Reminding(old, rows', t)
  <2>1. /\ Grown(old, old \o more \o Reminder(b, t), b)
        /\ Reminding(old, old \o more \o Reminder(b, t), t)
    BY <1>1, <1>2, <1>3, ReminderAdded, Zenon
  <2> QED
    BY <1>4, <2>1, Zenon
<1>7. /\ rows' \in Seq(Rows) /\ DOMAIN rows \subseteq DOMAIN rows'
      /\ worker' \in [Workers -> [batch : SUBSET (DOMAIN rows'), sent : SUBSET (DOMAIN rows'),
                                  failed : SUBSET (DOMAIN rows')]]
      /\ LockInv' /\ MarksInv'
      /\ \A i \in DOMAIN rows : /\ rows'[i].kind = rows[i].kind /\ rows'[i].bk = rows[i].bk
                                /\ rows'[i].slot = rows[i].slot /\ rows'[i].due = rows[i].due
      /\ \A i \in DOMAIN rows, e \in Bookings : PendingReminder(i, e)' <=> PendingReminder(i, e) /\ e # b
      /\ \A i \in DOMAIN rows' \ DOMAIN rows : Fresh(rows'[i], b)
  BY <1>4, <1>6, RemindersCancelled DEF old
<1>8. TypeOK'
  BY <1>1, <1>4, <1>5, <1>7 DEF TypeOK
<1>9. /\ s # t
      /\ \A u \in Slots : holder'[u] = IF u = t THEN b ELSE IF u = s THEN Free ELSE holder[u]
  BY <1>1, <1>5, OutboxAssumption DEF TypeOK
<1>10. \A u \in Slots : holder[u] = b => u = s
  BY <1>5, OutboxAssumption DEF IInv, LedgerInv
<1>11. LedgerInv'
  <2>1. \A u \in Slots : holder'[u] # Free => life'[holder'[u]] = "scheduled"
    BY <1>5, <1>9 DEF IInv, LedgerInv
  <2>2. ASSUME NEW u \in Slots, NEW v \in Slots, holder'[u] # Free, holder'[u] = holder'[v]
        PROVE  u = v
    <3>1. u # s /\ v # s
      BY <1>9, <2>2
    <3>2. CASE u = t \/ v = t
      BY <1>9, <1>10, <2>2, <3>1, <3>2
    <3>3. CASE u # t /\ v # t
      BY <1>9, <2>2, <3>1, <3>3 DEF IInv, LedgerInv
    <3> QED
      BY <3>2, <3>3
  <2> QED
    BY <2>1, <2>2 DEF LedgerInv
<1>12. Replaced(b)
  <2>1. \A e \in Bookings \ {b}, u \in Slots : holder'[u] = e <=> holder[u] = e
    BY <1>5, <1>9, OutboxAssumption
  <2>2. holder'[t] = b /\ \A u \in Slots : holder'[u] = b => u = t
    BY <1>5, <1>9, <1>10, OutboxAssumption
  <2>3. Reminding(rows, rows', t)
    BY <1>3, <1>6 DEF Reminding
  <2> QED
    BY <1>4, <1>7, <2>1, <2>2, <2>3 DEF Replaced, Reminding
<1>13. ReminderInv'
  BY <1>8, <1>12, RequestKeepsReminders
<1> QED
  BY <1>7, <1>8, <1>11, <1>13 DEF IInv

LEMMA CancelStep ==
  ASSUME IInv, NEW b \in Bookings, NEW s \in Slots, Cancel(b, s)
  PROVE  IInv'
<1> DEFINE old == WithoutReminders(rows, b)
           more == <<Row("booking_cancelled", b, s, "candidate", now),
                     Row("booking_cancelled", b, s, "recruiter", now)>>
<1>1. TypeOK
  BY DEF IInv
<1>2. Notices(more, b)
  <2>1. "booking_cancelled" \in Kinds \ {"reminder_24h"}
    BY DEF Kinds
  <2> QED
    BY <1>1, <2>1, TwoNotices
<1>3. /\ old \in Seq(Rows) /\ DOMAIN old = DOMAIN rows
  BY <1>1, WithoutRemindersRows
<1>4. rows' = old \o more /\ UNCHANGED <<now, worker, faults>> /\ RemindersUnlocked(b)
  BY DEF Cancel
<1>5. /\ life[b] = "scheduled" /\ holder[s] = b
      /\ holder' = [holder EXCEPT ![s] = Free] /\ life' = [life EXCEPT ![b] = "cancelled"]
  BY DEF Cancel, Ledger!Cancel
<1> HIDE DEF old, more
<1>6. Grown(old, rows', b) /\ \A i \in DOMAIN rows' \ DOMAIN old : rows'[i].kind # "reminder_24h"
  <2>1. /\ Grown(old, old \o more, b)
        /\ \A i \in DOMAIN (old \o more) \ DOMAIN old : (old \o more)[i].kind # "reminder_24h"
    BY <1>2, <1>3, NoticesAdded, Zenon
  <2> QED
    BY <1>4, <2>1, Zenon
<1>7. /\ rows' \in Seq(Rows) /\ DOMAIN rows \subseteq DOMAIN rows'
      /\ worker' \in [Workers -> [batch : SUBSET (DOMAIN rows'), sent : SUBSET (DOMAIN rows'),
                                  failed : SUBSET (DOMAIN rows')]]
      /\ LockInv' /\ MarksInv'
      /\ \A i \in DOMAIN rows : /\ rows'[i].kind = rows[i].kind /\ rows'[i].bk = rows[i].bk
                                /\ rows'[i].slot = rows[i].slot /\ rows'[i].due = rows[i].due
      /\ \A i \in DOMAIN rows, e \in Bookings : PendingReminder(i, e)' <=> PendingReminder(i, e) /\ e # b
      /\ \A i \in DOMAIN rows' \ DOMAIN rows : Fresh(rows'[i], b)
  BY <1>4, <1>6, RemindersCancelled DEF old
<1>8. TypeOK'
  BY <1>1, <1>4, <1>5, <1>7 DEF TypeOK
<1>9. \A u \in Slots : holder'[u] = IF u = s THEN Free ELSE holder[u]
  BY <1>1, <1>5 DEF TypeOK
<1>10. \A u \in Slots : holder[u] = b => u = s
  BY <1>5, OutboxAssumption DEF IInv, LedgerInv
<1>11. LedgerInv'
  BY <1>1, <1>5, <1>9, <1>10, OutboxAssumption DEF IInv, LedgerInv, TypeOK
<1>12. Replaced(b)
  <2>1. \A e \in Bookings \ {b}, u \in Slots : holder'[u] = e <=> holder[u] = e
    BY <1>5, <1>9, OutboxAssumption
  <2>2. \A u \in Slots : holder'[u] # b
    BY <1>9, <1>10, OutboxAssumption
  <2>3. \A i \in DOMAIN rows' \ DOMAIN rows : rows'[i].kind # "reminder_24h"
    BY <1>3, <1>6
  <2> QED
    BY <1>4, <1>7, <2>1, <2>2, <2>3 DEF Replaced
<1>13. ReminderInv'
  BY <1>8, <1>12, RequestKeepsReminders
<1> QED
  BY <1>7, <1>8, <1>11, <1>13 DEF IInv

-----------------------------------------------------------------------------
(* The workers and the clock change nothing of a row but its marks, and leave a
   reminder that is not due yet alone. *)
LEMMA WorkKeepsReminders ==
  ASSUME IInv, UNCHANGED holder, now' \in Nat, now <= now', DOMAIN rows' = DOMAIN rows,
         \A i \in DOMAIN rows : /\ rows'[i].kind = rows[i].kind /\ rows'[i].bk = rows[i].bk
                                /\ rows'[i].slot = rows[i].slot /\ rows'[i].due = rows[i].due,
         \A i \in DOMAIN rows : rows'[i].status = "pending" => rows[i].status = "pending",
         \A i \in DOMAIN rows :
           rows[i].status = "pending" /\ now < rows[i].due => rows'[i].status = "pending"
  PROVE  ReminderInv'
<1>1. \A i \in DOMAIN rows, e \in Bookings : PendingReminder(i, e)' => PendingReminder(i, e)
  BY DEF PendingReminder, IsReminder
<1>2. ASSUME NEW e \in Bookings, NEW u \in Slots, holder[u] = e, now' + Lead < Start[u]
      PROVE  \E i \in DOMAIN rows : PendingReminder(i, e)'
  <2>1. now + Lead < Start[u]
    BY <1>2, OutboxAssumption DEF IInv, TypeOK
  <2>2. PICK i \in DOMAIN rows : PendingReminder(i, e)
    BY <1>2, <2>1 DEF IInv, ReminderInv
  <2>3. /\ rows[i] \in Rows /\ rows[i].slot \in Slots /\ holder[rows[i].slot] = e
    BY <2>2, ReminderScheduled
  <2>4. rows[i].slot = u
    BY <1>2, <2>3, OutboxAssumption DEF IInv, LedgerInv
  <2>5. rows[i].due + Lead = Start[u] /\ rows[i].due \in Nat
    BY <2>2, <2>3, <2>4 DEF IInv, ReminderInv, PendingReminder, IsReminder, Rows
  <2>6. now < rows[i].due
    BY <2>1, <2>5, OutboxAssumption DEF IInv, TypeOK
  <2> QED
    BY <2>2, <2>6 DEF PendingReminder, IsReminder
<1>3. RemindersCurrent'
  BY DEF IInv, ReminderInv, RemindersCurrent, Pending
<1>4. \A i \in DOMAIN rows' : rows'[i].kind = "reminder_24h" => rows'[i].due + Lead = Start[rows'[i].slot]
  BY DEF IInv, ReminderInv
<1>5. \A e \in Bookings : \A i, j \in DOMAIN rows' : PendingReminder(i, e)' /\ PendingReminder(j, e)' => i = j
  BY <1>1 DEF IInv, ReminderInv
<1>6. \A e \in Bookings, u \in Slots :
        holder'[u] = e /\ now' + Lead < Start[u] => \E i \in DOMAIN rows' : PendingReminder(i, e)'
  BY <1>2
<1> QED
  BY <1>3, <1>4, <1>5, <1>6 DEF ReminderInv

(* A worker's rows and their marks are of rows that exist. *)
LEMMA BatchRows ==
  ASSUME TypeOK, NEW w \in Workers
  PROVE  /\ worker[w].batch \subseteq DOMAIN rows
         /\ worker[w].sent \subseteq worker[w].batch /\ worker[w].failed \subseteq worker[w].batch
         /\ worker[w] = [batch |-> worker[w].batch, sent |-> worker[w].sent, failed |-> worker[w].failed]
         /\ \A i \in DOMAIN rows : rows[i] \in Rows
  BY RowIn DEF TypeOK

LEMMA ClaimStep ==
  ASSUME IInv, NEW w \in Workers, Claim(w)
  PROVE  IInv'
<1>1. TypeOK /\ UNCHANGED <<holder, life, now, rows, faults>> /\ worker[w].batch = {}
  BY DEF IInv, Claim
<1>2. PICK B \in SUBSET Claimable : worker' = [worker EXCEPT ![w].batch = B]
  BY DEF Claim
<1>3. B \subseteq DOMAIN rows /\ \A i \in B : rows[i].status = "pending" /\ rows[i].due <= now /\ i \notin Locked
  BY <1>2 DEF Claimable, Pending
<1>4. worker[w].sent = {} /\ worker[w].failed = {}
  BY <1>1, BatchRows
<1>5. /\ worker'[w].batch = B /\ worker'[w].sent = {} /\ worker'[w].failed = {}
      /\ \A v \in Workers \ {w} : worker'[v] = worker[v]
  BY <1>1, <1>2, <1>4 DEF TypeOK
<1>6. TypeOK'
  BY <1>1, <1>2, <1>3, <1>5 DEF TypeOK
<1>7. LockInv'
  <2>1. \A v \in Workers \ {w} : worker[v].batch \cap B = {}
    BY <1>3 DEF Locked
  <2> QED
    BY <1>1, <1>3, <1>5, <2>1 DEF IInv, LockInv
<1>8. \A i : InSent(i)' <=> InSent(i)
  BY <1>4, <1>5 DEF InSent
<1>9. MarksInv' /\ LedgerInv'
  BY <1>1, <1>8 DEF IInv, MarksInv, MarksOf, LedgerInv
<1>10. ReminderInv'
  <2>1. now \in Nat /\ now' \in Nat /\ now <= now'
    BY <1>1 DEF TypeOK
  <2> QED
    BY <1>1, <2>1, WorkKeepsReminders
<1> QED
  BY <1>6, <1>7, <1>9, <1>10 DEF IInv

(* An e-mail changes the count of deliveries of its row alone. *)
LEMMA DeliveredRow ==
  ASSUME TypeOK, NEW i \in DOMAIN rows, Delivered(i)
  PROVE  /\ rows' \in Seq(Rows) /\ DOMAIN rows' = DOMAIN rows
         /\ \A j \in DOMAIN rows \ {i} : rows'[j] = rows[j]
         /\ rows[i] \in Rows /\ rows'[i] = [rows[i] EXCEPT !.mails = rows[i].mails + 1]
<1>1. rows \in Seq(Rows) /\ \A j \in DOMAIN rows : rows[j] \in Rows
  BY RowIn DEF TypeOK
<1>2. [rows[i] EXCEPT !.mails = rows[i].mails + 1] \in Rows
  <2>1. PICK r \in Rows : r = rows[i]
    BY <1>1
  <2>2. r.mails \in Nat
    BY DEF Rows
  <2>3. PICK m \in Nat : m = r.mails + 1
    BY <2>2
  <2>4. [r EXCEPT !.mails = m] \in Rows
    BY DEF Rows
  <2> QED
    BY <2>1, <2>3, <2>4, Zenon
<1>3. /\ DOMAIN rows' = DOMAIN rows /\ rows' = [j \in DOMAIN rows' |-> rows'[j]]
      /\ rows' = [rows EXCEPT ![i] = [rows[i] EXCEPT !.mails = rows[i].mails + 1]]
  BY <1>1 DEF Delivered
<1>4. rows' \in Seq(Rows)
  BY <1>1, <1>2, <1>3, SameLength
<1> QED
  BY <1>1, <1>3, <1>4

(* The row that a worker has marked, and what the mark adds to the invariant. *)
LEMMA ProcessRowStep ==
  ASSUME IInv, NEW w \in Workers, ProcessRow(w)
  PROVE  IInv'
<1>1. TypeOK /\ UNCHANGED <<holder, life, now>>
  BY DEF IInv, ProcessRow
<1>2. PICK i \in Unsent(w) :
        \/ /\ worker' = [worker EXCEPT ![w].sent = @ \cup {i}]
           /\ Delivered(i) /\ faults' = faults
        \/ /\ worker' = [worker EXCEPT ![w].failed = @ \cup {i}]
           /\ \/ rows' = rows /\ faults' = faults
              \/ faults' = faults + 1 /\ Delivered(i)
  BY DEF ProcessRow
<1>3. /\ i \in worker[w].batch /\ i \notin worker[w].sent /\ i \notin worker[w].failed
      /\ i \in DOMAIN rows /\ rows[i].status = "pending" /\ ~InSent(i)
  <2>1. i \in worker[w].batch /\ i \notin worker[w].sent /\ i \notin worker[w].failed
    BY DEF Unsent
  <2>2. i \in DOMAIN rows /\ rows[i].status = "pending"
    BY <1>1, <2>1, BatchRows DEF IInv, LockInv
  <2>3. ASSUME NEW v \in Workers, i \in worker[v].sent PROVE FALSE
    <3>1. i \in worker[v].batch
      BY <1>1, <2>3, BatchRows
    <3> QED
      BY <2>1, <2>3, <3>1 DEF IInv, LockInv
  <2> QED
    BY <2>1, <2>2, <2>3 DEF InSent
<1>4. /\ rows' \in Seq(Rows) /\ DOMAIN rows' = DOMAIN rows
      /\ \A j \in DOMAIN rows \ {i} : rows'[j] = rows[j]
      /\ rows[i] \in Rows
      /\ rows'[i] = rows[i] \/ rows'[i] = [rows[i] EXCEPT !.mails = rows[i].mails + 1]
  <2>1. CASE rows' = rows
    BY <1>1, <1>3, <2>1, BatchRows DEF TypeOK
  <2>2. CASE Delivered(i)
    BY <1>1, <1>3, <2>2, DeliveredRow
  <2> QED
    BY <1>2, <2>1, <2>2
<1>5. \A j \in DOMAIN rows :
        /\ rows'[j].kind = rows[j].kind /\ rows'[j].bk = rows[j].bk
        /\ rows'[j].slot = rows[j].slot /\ rows'[j].due = rows[j].due
        /\ rows'[j].status = rows[j].status /\ rows'[j].retries = rows[j].retries
  BY <1>4 DEF Rows
<1>6. /\ \A v \in Workers \ {w} : worker'[v] = worker[v]
      /\ worker'[w].batch = worker[w].batch
      /\ \/ worker'[w].sent = worker[w].sent \cup {i} /\ worker'[w].failed = worker[w].failed
         \/ worker'[w].sent = worker[w].sent /\ worker'[w].failed = worker[w].failed \cup {i}
  BY <1>1, <1>2 DEF TypeOK
<1>7. /\ worker' \in [Workers -> [batch : SUBSET (DOMAIN rows), sent : SUBSET (DOMAIN rows),
                                  failed : SUBSET (DOMAIN rows)]]
      /\ \A v \in Workers : worker'[v].sent \cup worker'[v].failed \subseteq worker'[v].batch
      /\ faults' \in Nat
  <2>1. worker' \in [Workers -> [batch : SUBSET (DOMAIN rows), sent : SUBSET (DOMAIN rows),
                                failed : SUBSET (DOMAIN rows)]]
    <3>1. CASE worker' = [worker EXCEPT ![w].sent = @ \cup {i}]
      BY <1>1, <1>3, <3>1 DEF TypeOK
    <3>2. CASE worker' = [worker EXCEPT ![w].failed = @ \cup {i}]
      BY <1>1, <1>3, <3>2 DEF TypeOK
    <3> QED
      BY <1>2, <3>1, <3>2
  <2>2. \A v \in Workers : worker'[v].sent \cup worker'[v].failed \subseteq worker'[v].batch
    BY <1>1, <1>3, <1>6 DEF TypeOK
  <2>3. faults' \in Nat
    BY <1>1, <1>2 DEF TypeOK
  <2> QED
    BY <2>1, <2>2, <2>3
<1>8. TypeOK'
  BY <1>1, <1>4, <1>7 DEF TypeOK
<1>9. LockInv'
  <2>1. \A v \in Workers : worker'[v].batch = worker[v].batch
    BY <1>6
  <2>2. \A v \in Workers : \A j \in worker'[v].batch : rows'[j].status = "pending" /\ rows'[j].due <= now'
    <3> SUFFICES ASSUME NEW v \in Workers, NEW j \in worker'[v].batch
                 PROVE  rows'[j].status = "pending" /\ rows'[j].due <= now'
      OBVIOUS
    <3>1. j \in worker[v].batch /\ j \in DOMAIN rows
      BY <1>1, <2>1, BatchRows
    <3> QED
      BY <1>1, <1>5, <3>1 DEF IInv, LockInv
  <2>3. \A v \in Workers : worker'[v].sent \cap worker'[v].failed = {}
    BY <1>3, <1>6 DEF IInv, LockInv
  <2> QED
    BY <2>1, <2>2, <2>3 DEF IInv, LockInv
<1>10. /\ \A j \in DOMAIN rows \ {i} : InSent(j)' <=> InSent(j)
       /\ InSent(i)' => Delivered(i) /\ faults' = faults
  <2>1. CASE Delivered(i) /\ faults' = faults /\ worker' = [worker EXCEPT ![w].sent = @ \cup {i}]
    BY <1>6, <2>1 DEF InSent
  <2>2. CASE worker' = [worker EXCEPT ![w].failed = @ \cup {i}]
    <3>1. \A v \in Workers : worker'[v].sent = worker[v].sent
      BY <1>1, <1>6, <2>2 DEF TypeOK
    <3> QED
      BY <1>3, <3>1 DEF InSent
  <2> QED
    BY <1>2, <2>1, <2>2
<1>11. MarksInv'
  <2>1. ASSUME NEW j \in DOMAIN rows, j # i PROVE MarksOf(j)'
    <3>1. MarksOf(j) /\ rows'[j] = rows[j] /\ (InSent(j)' <=> InSent(j))
      BY <1>4, <1>10, <2>1 DEF IInv, MarksInv
    <3>2. faults' = 0 => faults = 0
      BY <1>1, <1>2 DEF TypeOK
    <3> QED
      BY <3>1, <3>2 DEF MarksOf
  <2>2. MarksOf(i)'
    <3>1. MarksOf(i) /\ rows[i].mails \in Nat
      BY <1>3, <1>4 DEF IInv, MarksInv, Rows
    <3>2. /\ rows'[i].status = "pending" /\ rows'[i].retries = rows[i].retries
          /\ rows[i].retries # MaxRetries
      BY <1>3, <1>5, <3>1 DEF MarksOf
    <3>3. CASE Delivered(i) /\ faults' = faults /\ worker' = [worker EXCEPT ![w].sent = @ \cup {i}]
      <4>1. InSent(i)'
        BY <1>1, <3>3 DEF InSent, TypeOK
      <4>2. rows'[i].mails = rows[i].mails + 1
        BY <1>1, <1>3, <1>4, <3>3, DeliveredRow DEF Rows
      <4> QED
        BY <1>3, <3>1, <3>2, <3>3, <4>1, <4>2 DEF MarksOf
    <3>4. CASE rows' = rows /\ faults' = faults /\ worker' = [worker EXCEPT ![w].failed = @ \cup {i}]
      <4>1. ~InSent(i)'
        BY <1>1, <1>3, <3>4 DEF InSent, TypeOK
      <4> QED
        BY <1>3, <3>1, <3>2, <3>4, <4>1 DEF MarksOf
    <3>5. CASE faults' = faults + 1 /\ Delivered(i) /\ worker' = [worker EXCEPT ![w].failed = @ \cup {i}]
      <4>1. faults' # 0
        BY <1>1, <3>5 DEF TypeOK
      <4>2. ~InSent(i)'
        BY <1>1, <1>3, <3>5 DEF InSent, TypeOK
      <4> QED
        BY <3>2, <4>1, <4>2 DEF MarksOf
    <3> QED
      BY <1>2, <3>3, <3>4, <3>5
  <2> QED
    BY <1>4, <2>1, <2>2 DEF MarksInv
<1>12. ReminderInv' /\ LedgerInv'
  <2>1. now \in Nat /\ now' \in Nat /\ now <= now'
    BY <1>1 DEF TypeOK
  <2>2. LedgerInv'
    BY <1>1 DEF IInv, LedgerInv
  <2> QED
    BY <1>1, <1>4, <1>5, <2>1, <2>2, WorkKeepsReminders
<1> QED
  BY <1>8, <1>9, <1>11, <1>12 DEF IInv

(* What the commit of a batch does to each row. *)
LEMMA CommittedRow ==
  ASSUME IInv, NEW w \in Workers, CommitBatch(w)
  PROVE  /\ rows' \in Seq(Rows) /\ DOMAIN rows' = DOMAIN rows
         /\ \A i \in DOMAIN rows :
              /\ rows'[i].kind = rows[i].kind /\ rows'[i].bk = rows[i].bk
              /\ rows'[i].slot = rows[i].slot /\ rows'[i].due = rows[i].due
              /\ rows'[i].mails = rows[i].mails
         /\ \A i \in worker[w].sent : rows'[i].status = "sent" /\ rows'[i].retries = rows[i].retries
         /\ \A i \in worker[w].failed :
              /\ rows'[i].status \in {"pending", "failed"}
              /\ rows'[i].status = "failed" <=> rows'[i].retries = MaxRetries
         /\ \A i \in DOMAIN rows \ worker[w].batch : rows'[i] = rows[i]
         /\ \A i \in worker[w].batch : i \in worker[w].sent \/ i \in worker[w].failed
<1>1. TypeOK /\ rows \in Seq(Rows) /\ \A i \in DOMAIN rows : rows[i] \in Rows
  BY RowIn DEF IInv, TypeOK
<1>2. /\ worker[w].batch \subseteq DOMAIN rows
      /\ worker[w].sent \subseteq worker[w].batch /\ worker[w].failed \subseteq worker[w].batch
      /\ worker[w].sent \cap worker[w].failed = {}
  BY <1>1, BatchRows DEF IInv, LockInv
<1>3. /\ DOMAIN rows' = DOMAIN rows /\ rows' = [i \in DOMAIN rows' |-> rows'[i]]
      /\ \A i \in worker[w].sent : rows'[i] = [rows[i] EXCEPT !.status = "sent"]
      /\ \A i \in worker[w].failed : rows'[i] = Marked(rows[i])
      /\ \A i \in DOMAIN rows \ worker[w].batch : rows'[i] = rows[i]
  BY <1>2 DEF CommitBatch
<1>4. \A i \in worker[w].batch : i \in worker[w].sent \/ i \in worker[w].failed
  BY DEF CommitBatch, Unsent
<1>5. ASSUME NEW i \in worker[w].sent
      PROVE  /\ rows'[i] \in Rows
             /\ rows'[i].kind = rows[i].kind /\ rows'[i].bk = rows[i].bk
             /\ rows'[i].slot = rows[i].slot /\ rows'[i].due = rows[i].due
             /\ rows'[i].mails = rows[i].mails
             /\ rows'[i].status = "sent" /\ rows'[i].retries = rows[i].retries
  <2>1. PICK r \in Rows : r = rows[i] /\ rows'[i] = [r EXCEPT !.status = "sent"]
    BY <1>1, <1>2, <1>3
  <2> QED
    BY <2>1 DEF Rows, Statuses
<1>6. ASSUME NEW i \in worker[w].failed
      PROVE  /\ rows'[i] \in Rows
             /\ rows'[i].kind = rows[i].kind /\ rows'[i].bk = rows[i].bk
             /\ rows'[i].slot = rows[i].slot /\ rows'[i].due = rows[i].due
             /\ rows'[i].mails = rows[i].mails
             /\ rows'[i].status \in {"pending", "failed"}
             /\ rows'[i].status = "failed" <=> rows'[i].retries = MaxRetries
  <2>1. PICK r \in Rows : r = rows[i] /\ rows'[i] = Marked(r)
    BY <1>1, <1>2, <1>3
  <2>2. r.status = "pending" /\ r.retries # MaxRetries
    BY <1>2, <2>1 DEF IInv, LockInv, MarksInv, MarksOf
  <2>3. r.retries \in 0..MaxRetries /\ MaxRetries \in Nat
    BY OutboxAssumption DEF Rows
  <2>4. PICK n \in 0..MaxRetries : n = r.retries + 1
    BY <2>2, <2>3
  <2>5. PICK st \in {"pending", "failed"} :
          st = (IF r.retries + 1 >= MaxRetries THEN "failed" ELSE "pending")
    OBVIOUS
  <2>6. st = "failed" <=> n = MaxRetries
    BY <2>3, <2>4, <2>5
  <2>7. Marked(r) = [r EXCEPT !.retries = n, !.status = st]
    BY <2>4, <2>5 DEF Marked, Rows
  <2>8. /\ Marked(r) \in Rows
        /\ Marked(r).kind = r.kind /\ Marked(r).bk = r.bk /\ Marked(r).slot = r.slot
        /\ Marked(r).due = r.due /\ Marked(r).mails = r.mails
        /\ Marked(r).status = st /\ Marked(r).retries = n
    BY <2>7 DEF Rows, Statuses
  <2> QED
    BY <2>1, <2>6, <2>8
<1>7. rows' \in Seq(Rows)
  <2>1. \A i \in DOMAIN rows : rows'[i] \in Rows
    BY <1>1, <1>3, <1>4, <1>5, <1>6
  <2> QED
    BY <1>1, <1>3, <2>1, SameLength
<1>8. \A i \in DOMAIN rows :
        /\ rows'[i].kind = rows[i].kind /\ rows'[i].bk = rows[i].bk
        /\ rows'[i].slot = rows[i].slot /\ rows'[i].due = rows[i].due
        /\ rows'[i].mails = rows[i].mails
  BY <1>3, <1>4, <1>5, <1>6
<1> QED
  BY <1>3, <1>4, <1>5, <1>6, <1>7, <1>8

LEMMA CommitBatchStep ==
  ASSUME IInv, NEW w \in Workers, CommitBatch(w)
  PROVE  IInv'
<1>1. TypeOK /\ UNCHANGED <<holder, life, now, faults>> /\ worker' = [worker EXCEPT ![w] = NoBatch]
  BY DEF IInv, CommitBatch
<1>2. /\ rows' \in Seq(Rows) /\ DOMAIN rows' = DOMAIN rows
      /\ \A i \in DOMAIN rows :
           /\ rows'[i].kind = rows[i].kind /\ rows'[i].bk = rows[i].bk
           /\ rows'[i].slot = rows[i].slot /\ rows'[i].due = rows[i].due
           /\ rows'[i].mails = rows[i].mails
      /\ \A i \in worker[w].sent : rows'[i].status = "sent" /\ rows'[i].retries = rows[i].retries
      /\ \A i \in worker[w].failed :
           /\ rows'[i].status \in {"pending", "failed"}
           /\ rows'[i].status = "failed" <=> rows'[i].retries = MaxRetries
      /\ \A i \in DOMAIN rows \ worker[w].batch : rows'[i] = rows[i]
      /\ \A i \in worker[w].batch : i \in worker[w].sent \/ i \in worker[w].failed
  BY CommittedRow
<1>3. /\ worker'[w].batch = {} /\ worker'[w].sent = {} /\ worker'[w].failed = {}
      /\ \A v \in Workers \ {w} : worker'[v] = worker[v]
      /\ worker' \in [Workers -> [batch : SUBSET (DOMAIN rows), sent : SUBSET (DOMAIN rows),
                                  failed : SUBSET (DOMAIN rows)]]
  BY <1>1 DEF TypeOK, NoBatch
<1>4. TypeOK'
  BY <1>1, <1>2, <1>3 DEF TypeOK
<1>5. \A v \in Workers \ {w} : \A i \in worker[v].batch :
        i \in DOMAIN rows \ worker[w].batch /\ rows'[i] = rows[i]
  BY <1>1, <1>2, BatchRows DEF IInv, LockInv
<1>6. LockInv'
  BY <1>1, <1>3, <1>5 DEF IInv, LockInv
<1>7. \A i : InSent(i)' => InSent(i)
  BY <1>3 DEF InSent
<1>8. ASSUME NEW i \in DOMAIN rows PROVE MarksOf(i)'
  <2>1. MarksOf(i)
    BY DEF IInv, MarksInv
  <2>2. CASE i \notin worker[w].batch
    <3>1. InSent(i)' <=> InSent(i)
      BY <1>1, <1>3, <2>2, BatchRows DEF InSent
    <3>2. rows'[i] = rows[i]
      BY <1>2, <2>2
    <3> QED
      BY <1>1, <2>1, <3>1, <3>2 DEF MarksOf
  <2>3. CASE i \in worker[w].batch
    <3>1. rows[i].status = "pending" /\ rows[i].retries # MaxRetries
      BY <2>1, <2>3 DEF IInv, LockInv, MarksOf
    <3>2. ~InSent(i)'
      <4>1. ASSUME NEW v \in Workers, i \in worker'[v].sent PROVE FALSE
        BY <1>1, <1>3, <1>5, <2>3, <4>1, BatchRows
      <4> QED
        BY <4>1 DEF InSent
    <3>3. CASE i \in worker[w].sent
      <4>1. InSent(i)
        BY <3>3 DEF InSent
      <4> QED
        BY <1>1, <1>2, <2>1, <3>1, <3>3, <4>1 DEF MarksOf
    <3>4. CASE i \in worker[w].failed
      <4>1. ~InSent(i)
        <5>1. ASSUME NEW v \in Workers, i \in worker[v].sent PROVE FALSE
          BY <1>1, <1>5, <2>3, <3>4, <5>1, BatchRows DEF IInv, LockInv
        <5> QED
          BY <5>1 DEF InSent
      <4> QED
        BY <1>1, <1>2, <2>1, <3>1, <3>2, <3>4, <4>1 DEF MarksOf
    <3> QED
      BY <1>2, <2>3, <3>3, <3>4
  <2> QED
    BY <2>2, <2>3
<1>9. MarksInv' /\ LedgerInv'
  BY <1>1, <1>2, <1>8 DEF IInv, MarksInv, LedgerInv
<1>10. ReminderInv'
  <2>1. now \in Nat /\ now' \in Nat /\ now <= now'
    BY <1>1 DEF TypeOK
  <2>2. \A i \in DOMAIN rows : rows'[i].status = "pending" => rows[i].status = "pending"
    BY <1>2 DEF IInv, LockInv
  <2>3. ASSUME NEW i \in DOMAIN rows, rows[i].status = "pending", now < rows[i].due
        PROVE  rows'[i].status = "pending"
    <3>1. rows[i].due \in Nat
      BY <1>1, BatchRows DEF Rows
    <3>2. i \notin worker[w].batch
      BY <2>1, <2>3, <3>1 DEF IInv, LockInv
    <3> QED
      BY <1>2, <2>3, <3>2
  <2> QED
    BY <1>1, <1>2, <2>1, <2>2, <2>3, WorkKeepsReminders
<1> QED
  BY <1>4, <1>6, <1>9, <1>10 DEF IInv

(* A crash forgets the marks: after it an e-mail may go out again. *)
LEMMA CrashStep ==
  ASSUME IInv, NEW w \in Workers, Crash(w)
  PROVE  IInv'
<1>1. /\ TypeOK /\ UNCHANGED <<holder, life, now, rows>>
      /\ worker' = [worker EXCEPT ![w] = NoBatch] /\ faults' = faults + 1
  BY DEF IInv, Crash
<1>2. /\ worker'[w].batch = {} /\ worker'[w].sent = {} /\ worker'[w].failed = {}
      /\ \A v \in Workers \ {w} : worker'[v] = worker[v]
      /\ worker' \in [Workers -> [batch : SUBSET (DOMAIN rows), sent : SUBSET (DOMAIN rows),
                                  failed : SUBSET (DOMAIN rows)]]
      /\ faults' \in Nat /\ faults' # 0
  BY <1>1 DEF TypeOK, NoBatch
<1>3. TypeOK'
  BY <1>1, <1>2 DEF TypeOK
<1>4. LockInv' /\ LedgerInv'
  BY <1>1, <1>2 DEF IInv, LockInv, LedgerInv
<1>5. \A i : InSent(i)' => InSent(i)
  BY <1>2 DEF InSent
<1>6. MarksInv'
  BY <1>1, <1>2, <1>5 DEF IInv, MarksInv, MarksOf
<1>7. ReminderInv'
  <2>1. now \in Nat /\ now' \in Nat /\ now <= now'
    BY <1>1 DEF TypeOK
  <2> QED
    BY <1>1, <2>1, WorkKeepsReminders
<1> QED
  BY <1>3, <1>4, <1>6, <1>7 DEF IInv

LEMMA TickStep ==
  ASSUME IInv, Tick
  PROVE  IInv'
<1>1. TypeOK /\ UNCHANGED <<holder, life, rows, worker, faults>>
  BY DEF IInv, Tick
<1>2. now \in Nat /\ now' \in Nat /\ now <= now'
  BY <1>1 DEF TypeOK, Tick
<1>3. TypeOK'
  BY <1>1, <1>2 DEF TypeOK
<1>4. LockInv'
  <2> SUFFICES ASSUME NEW w \in Workers, NEW i \in worker[w].batch PROVE rows[i].due <= now'
    BY <1>1 DEF IInv, LockInv
  <2>1. rows[i].due \in Nat /\ rows[i].due <= now
    BY <1>1, BatchRows DEF IInv, LockInv, Rows
  <2> QED
    BY <1>2, <2>1
<1>5. \A i : InSent(i)' <=> InSent(i)
  BY <1>1 DEF InSent
<1>6. MarksInv' /\ LedgerInv'
  BY <1>1, <1>5 DEF IInv, MarksInv, MarksOf, LedgerInv
<1>7. ReminderInv'
  BY <1>1, <1>2, WorkKeepsReminders
<1> QED
  BY <1>3, <1>4, <1>6, <1>7 DEF IInv

LEMMA StutterStep ==
  ASSUME IInv, UNCHANGED vars
  PROVE  IInv'
<1>1. TypeOK /\ UNCHANGED <<holder, life, now, rows, worker, faults>>
  BY DEF IInv, vars
<1>2. TypeOK' /\ LockInv' /\ LedgerInv'
  BY <1>1 DEF IInv, TypeOK, LockInv, LedgerInv
<1>3. \A i : InSent(i)' <=> InSent(i)
  BY <1>1 DEF InSent
<1>4. MarksInv'
  BY <1>1, <1>3 DEF IInv, MarksInv, MarksOf
<1>5. ReminderInv'
  <2>1. now \in Nat /\ now' \in Nat /\ now <= now'
    BY <1>1 DEF TypeOK
  <2> QED
    BY <1>1, <2>1, WorkKeepsReminders
<1> QED
  BY <1>2, <1>4, <1>5 DEF IInv

LEMMA NextIInv == IInv /\ [Next]_vars => IInv'
<1> SUFFICES ASSUME IInv, [Next]_vars PROVE IInv'
  OBVIOUS
<1>1. ASSUME NEW b \in Bookings, NEW s \in Slots, Book(b, s) PROVE IInv'
  BY <1>1, BookStep
<1>2. ASSUME NEW b \in Bookings, NEW s \in Slots, Cancel(b, s) PROVE IInv'
  BY <1>2, CancelStep
<1>3. ASSUME NEW b \in Bookings, NEW s \in Slots, NEW t \in Slots, Reschedule(b, s, t) PROVE IInv'
  BY <1>3, RescheduleStep
<1>4. ASSUME NEW w \in Workers, Work(w) PROVE IInv'
  BY <1>4, ClaimStep, ProcessRowStep, CommitBatchStep DEF Work
<1>5. ASSUME NEW w \in Workers, Crash(w) PROVE IInv'
  BY <1>5, CrashStep
<1>6. CASE Tick
  BY <1>6, TickStep
<1>7. CASE UNCHANGED vars
  BY <1>7, StutterStep
<1> QED
  BY <1>1, <1>2, <1>3, <1>4, <1>5, <1>6, <1>7 DEF Next

LEMMA Inductive == Spec => []IInv
  BY InitIInv, NextIInv, PTL DEF Spec

-----------------------------------------------------------------------------
(* The outbox and the workers' transactions keep their types; in particular
   MarkNotificationSent and MarkNotificationFailed touch rows of the batch only. *)
THEOREM TypeCorrect == Spec => []TypeOK
<1>1. IInv => TypeOK
  BY DEF IInv
<1> QED
  BY <1>1, Inductive, PTL

(* Nobody is reminded of an interview that was moved or cancelled: a pending
   reminder, one that a worker is just sending included, is for the slot that
   its booking holds. *)
THEOREM RemindersCorrect == Spec => []RemindersCurrent
<1>1. IInv => RemindersCurrent
  BY DEF IInv, ReminderInv
<1> QED
  BY <1>1, Inductive, PTL

(* A scheduled booking has exactly one pending reminder until that is due,
   whatever was booked, moved, cancelled, claimed, retried and lost before. *)
THEOREM RemindersQueuedCorrect == Spec => []RemindersQueued
<1>1. IInv => RemindersQueued
  <2> SUFFICES ASSUME IInv, NEW b \in Bookings, NEW s \in Slots, holder[s] = b, now + Lead < Start[s]
               PROVE  Cardinality({i \in DOMAIN rows : PendingReminder(i, b)}) = 1
    BY DEF RemindersQueued
  <2>1. PICK i \in DOMAIN rows : PendingReminder(i, b)
    BY DEF IInv, ReminderInv
  <2>2. {j \in DOMAIN rows : PendingReminder(j, b)} = {i}
    BY <2>1 DEF IInv, ReminderInv
  <2> QED
    BY <2>2, FS_Singleton, Zenon
<1> QED
  BY <1>1, Inductive, PTL

(* What the outbox says of a row is what happened to it, for any number of
   workers; without a crash or a lost reply no e-mail goes out twice. *)
THEOREM MarksCorrect == Spec => []MarksTruthful
<1>1. IInv => MarksTruthful
  BY DEF IInv, MarksInv, MarksOf, MarksTruthful
<1> QED
  BY <1>1, Inductive, PTL

(* A row that was sent, given up on or cancelled keeps that status. *)
THEOREM StatusFinalCorrect == Spec => StatusFinal
<1> DEFINE Final == \A i \in DOMAIN rows : rows[i].status # "pending" => rows'[i].status = rows[i].status
<1>1. IInv /\ [Next]_vars => [Final]_vars
  <2> SUFFICES ASSUME IInv, Next PROVE Final
    OBVIOUS
  <2>1. TypeOK
    BY DEF IInv
  <2>2. ASSUME NEW b \in Bookings, NEW s \in Slots, Book(b, s) PROVE Final
    <3> DEFINE more == <<Row("booking_created", b, s, "candidate", now),
                         Row("booking_created", b, s, "recruiter", now)>>
    <3>1. Notices(more, b) /\ rows \in Seq(Rows)
      BY <2>1, TwoNotices DEF Kinds, TypeOK
    <3>2. rows' = rows \o more \o Reminder(b, s)
      BY <2>2 DEF Book
    <3> HIDE DEF more
    <3>3. Grown(rows, rows \o more \o Reminder(b, s), b)
      BY <2>1, <3>1, ReminderAdded, Zenon
    <3> QED
      BY <3>2, <3>3 DEF Grown
  <2>3. ASSUME NEW b \in Bookings, NEW old, old = WithoutReminders(rows, b), Grown(old, rows', b) PROVE Final
    BY <2>1, <2>3, WithoutRemindersRows DEF Grown, PendingReminder, IsReminder
  <2>4. ASSUME NEW b \in Bookings, NEW s \in Slots, Cancel(b, s) PROVE Final
    <3> DEFINE old == WithoutReminders(rows, b)
               more == <<Row("booking_cancelled", b, s, "candidate", now),
                         Row("booking_cancelled", b, s, "recruiter", now)>>
    <3>1. Notices(more, b) /\ old \in Seq(Rows)
      BY <2>1, TwoNotices, WithoutRemindersRows DEF Kinds
    <3>2. rows' = old \o more
      BY <2>4 DEF Cancel
    <3>3. old = WithoutReminders(rows, b)
      OBVIOUS
    <3> HIDE DEF more, old
    <3>4. Grown(old, old \o more, b)
      BY <3>1, NoticesAdded, Zenon
    <3> QED
      BY <2>3, <3>2, <3>3, <3>4
  <2>5. ASSUME NEW b \in Bookings, NEW s \in Slots, NEW t \in Slots, Reschedule(b, s, t) PROVE Final
    <3> DEFINE old == WithoutReminders(rows, b)
               more == <<Row("booking_rescheduled", b, t, "candidate", now)>>
    <3>1. Notices(more, b) /\ old \in Seq(Rows)
      BY <2>1, TwoNotices, WithoutRemindersRows DEF Kinds
    <3>2. rows' = old \o more \o Reminder(b, t)
      BY <2>5 DEF Reschedule, Moved
    <3>3. old = WithoutReminders(rows, b)
      OBVIOUS
    <3> HIDE DEF more, old
    <3>4. Grown(old, old \o more \o Reminder(b, t), b)
      BY <2>1, <3>1, ReminderAdded, Zenon
    <3> QED
      BY <2>3, <3>2, <3>3, <3>4
  <2>6. ASSUME NEW w \in Workers, ProcessRow(w) PROVE Final
    <3>1. CASE rows' = rows
      BY <3>1
    <3>2. ASSUME NEW i \in DOMAIN rows, Delivered(i) PROVE Final
      BY <2>1, <3>2, DeliveredRow DEF Rows
    <3>3. \A i \in Unsent(w) : i \in DOMAIN rows
      BY <2>1, BatchRows DEF Unsent
    <3> QED
      BY <2>6, <3>1, <3>2, <3>3 DEF ProcessRow
  <2>7. ASSUME NEW w \in Workers, CommitBatch(w) PROVE Final
    BY <2>7, CommittedRow DEF IInv, LockInv
  <2>8. ASSUME UNCHANGED rows PROVE Final
    BY <2>8
  <2> QED
    BY <2>2, <2>4, <2>5, <2>6, <2>7, <2>8 DEF Next, Work, Claim, Crash, Tick
<1> QED
  BY <1>1, Inductive, PTL DEF Spec, StatusFinal
=============================================================================
