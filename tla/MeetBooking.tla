---------------------------- MODULE MeetBooking ----------------------------
(***************************************************************************)
(* What Book does after its transaction for a Google Meet interview type   *)
(* (finalizeGoogleMeetBooking): a chain of statements that are each        *)
(* committed on their own, calls to the recruiter's Google calendar, and a *)
(* compensating cancel, raced by the cancels and reschedules of the same   *)
(* booking, the other bookings of the organisation, and the month.         *)
(*                                                                         *)
(* Booking shows that a booking transaction is atomic, so here each one is *)
(* one step; slots are left out, a booking counts the slots it has had.    *)
(* The organisation is on the free plan and every slot is more than 24     *)
(* hours away, so that every booking gets a reminder.                      *)
(***************************************************************************)
EXTENDS Naturals, FiniteSets

CONSTANTS
  Bookings,   \* ids a booking row can get
  Limit,      \* FreeMaxMeetLinksPerMonth
  MaxMonth,   \* bound on the clock, in months
  MaxMoves,   \* bound on the reschedules of a booking
  MaxAmiss,   \* bound on the bookings that something goes amiss for
  Faults      \* what may go wrong besides Google refusing to make an event

AllFaults == {"crash", "dbError", "compensationError", "lostReply", "callFailed",
              "recruiterCancel"}

ASSUME MeetAssumption ==
  /\ Limit \in Nat
  /\ MaxMonth \in Nat
  /\ MaxMoves \in Nat
  /\ MaxAmiss \in Nat
  /\ Faults \subseteq AllFaults

VARIABLES
  month,      \* the month of the database clock
  used,       \* organization.meet_links_used
  period,     \* the month of organization.meet_links_period_start
  life,       \* booking.status
  recorded,   \* booking.meet_link and booking.calendar_event_id are set
  slotNo,     \* booking.slot_id: the how manyth slot of the booking it is
  event,      \* the slot an event on the Google calendar stands at, 0: no event
  created,    \* recipients whose booking_created row is in the outbox
  reminders,  \* the slots that pending reminder_24h rows are for
  calls,      \* calls to Google that committed requests have yet to make
  charged,    \* history: the period the link of a booking was counted in, NotYet before
  missed,     \* history: the steps for a booking that went amiss and were not made up for
  pc          \* the next step of the request that made the booking

vars == <<month, used, period, life, recorded, slotNo, event, created, reminders,
          calls, charged, missed, pc>>

SlotNos == 1..(MaxMoves + 1)
NotYet == MaxMonth + 1
Calls == [bk : Bookings, to : 0..(MaxMoves + 1)]   \* to = 0: DeleteEvent
Misses ==
  {"create",   \* Google made the event, and its reply was lost
   "delete",   \* DeleteEvent failed, or its process died before it
   "patch",    \* UpdateInterviewEvent failed, or its process died before it
   "cancel",   \* the compensating cancel failed
   "early"}    \* a cancel came before the event id it would have deleted
Answers == {"ok", "refused", "failed", "lost"}
Labels == {"none", "reset", "increment", "create", "decrement", "record", "undoCount",
           "undoEvent", "compensate", "queueCandidate", "queueRecruiter", "queueReminder"}

Init ==
  /\ month = 0 /\ used = 0 /\ period = 0
  /\ life = [b \in Bookings |-> "none"]
  /\ recorded = [b \in Bookings |-> FALSE]
  /\ slotNo = [b \in Bookings |-> 1]
  /\ event = [b \in Bookings |-> 0]
  /\ created = [b \in Bookings |-> {}]
  /\ reminders = [b \in Bookings |-> {}]
  /\ calls = {}
  /\ charged = [b \in Bookings |-> NotYet]
  /\ missed = [b \in Bookings |-> {}]
  /\ pc = [b \in Bookings |-> "none"]

(* The bookings that something has gone amiss for and was not made up for. *)
Amiss == {b \in Bookings : missed[b] # {} \/ pc[b] \in {"failed", "lost"}}
Fault(b, f) == f \in Faults /\ Cardinality(Amiss \cup {b}) <= MaxAmiss
Goto(b, label) == pc' = [pc EXCEPT ![b] = label]
Miss(b, m) == missed' = [missed EXCEPT ![b] = @ \cup {m}]

-----------------------------------------------------------------------------
(* The operators named Mutant... are seeded faults, as in Booking. *)

MutantUnderLimit(n) == n <= Limit

(* The WHERE of TryIncrementMeetLinksUsed, on the free plan. *)
UnderLimit(n) == n < Limit

MutantAfterCreateFailed == "refused"

(* What follows DecrementMeetLinksUsed when there is no event. *)
AfterCreateFailed == "compensate"

MutantCallsOfCancel(b) == {}

(* deleteCalendarEventIfPresent, after the commit of Cancel and CancelByToken. *)
CallsOfCancel(b) == IF recorded[b] THEN {[bk |-> b, to |-> 0]} ELSE {}

MutantCallsOfReschedule(b, n) == {}

(* The patch of the event after the commit of Reschedule, if the row it
   updated names one.  Google ignores a patch of a deleted event. *)
CallsOfReschedule(b, n) == IF recorded[b] THEN {[bk |-> b, to |-> n]} ELSE {}

MutantRemindersMoved(b, n) == reminders[b] \cup {n}

(* The pending reminders after Reschedule: it cancels them all and inserts one
   for the new slot. *)
RemindersMoved(b, n) == {n}

(* DecrementMeetLinksUsed: whatever the period is now. *)
Decremented(n) == IF n = 0 THEN 0 ELSE n - 1

(* Book, committed: the slot is taken and the booking row is there. *)
Book(b) ==
  /\ life[b] = "none"
  /\ life' = [life EXCEPT ![b] = "scheduled"]
  /\ Goto(b, "reset")
  /\ UNCHANGED <<month, used, period, recorded, slotNo, event, created, reminders, calls, charged, missed>>

(* ResetMeetLinksPeriodIfNeeded *)
Reset(b) ==
  /\ pc[b] = "reset"
  /\ \/ /\ used' = IF month > period THEN 0 ELSE used
        /\ period' = month
        /\ Goto(b, "increment")
     \/ /\ Fault(b, "dbError")
        /\ Goto(b, "compensate")
        /\ UNCHANGED <<used, period>>
  /\ UNCHANGED <<month, life, recorded, slotNo, event, created, reminders, calls, charged, missed>>

(* TryIncrementMeetLinksUsed: no row is returned when the plan is used up. *)
TryIncrement(b) ==
  /\ pc[b] = "increment"
  /\ \/ /\ UnderLimit(used)
        /\ used' = used + 1
        /\ charged' = [charged EXCEPT ![b] = period]
        /\ Goto(b, "create")
     \/ /\ ~UnderLimit(used) \/ Fault(b, "dbError")
        /\ Goto(b, "compensate")
        /\ UNCHANGED <<used, charged>>
  /\ UNCHANGED <<month, period, life, recorded, slotNo, event, created, reminders, calls, missed>>

(* calendar.CreateInterviewEvent, at the slot the booking was made on.  An
   error does not say that there is no event: the reply may be lost, or name
   no link. *)
CreateInterviewEvent(b) ==
  /\ pc[b] = "create"
  /\ \/ /\ event' = [event EXCEPT ![b] = 1]
        /\ Goto(b, "record")
        /\ UNCHANGED missed
     \/ /\ Goto(b, "decrement")
        /\ \/ UNCHANGED <<event, missed>>
           \/ /\ Fault(b, "lostReply")
              /\ event' = [event EXCEPT ![b] = 1]
              /\ Miss(b, "create")
  /\ UNCHANGED <<month, used, period, life, recorded, slotNo, created, reminders, calls, charged>>

(* DecrementMeetLinksUsed, its error ignored, after a failed create and after
   a failed update of the booking row. *)
Decrement(b) ==
  /\ pc[b] \in {"decrement", "undoCount"}
  /\ used' \in {Decremented(used)} \cup (IF Fault(b, "dbError") THEN {used} ELSE {})
  /\ Goto(b, IF pc[b] = "undoCount" THEN "undoEvent" ELSE AfterCreateFailed)
  /\ UNCHANGED <<month, period, life, recorded, slotNo, event, created, reminders, calls, charged, missed>>

(* UpdateBookingMeetInfo: it does not look at the status of the booking. *)
UpdateBookingMeetInfo(b) ==
  /\ pc[b] = "record"
  /\ \/ /\ recorded' = [recorded EXCEPT ![b] = TRUE]
        /\ Goto(b, "queueCandidate")
     \/ /\ Fault(b, "dbError")
        /\ Goto(b, "undoCount")
        /\ UNCHANGED recorded
  /\ UNCHANGED <<month, used, period, life, slotNo, event, created, reminders, calls, charged, missed>>

(* calendar.DeleteEvent of the event that could not be recorded, its error
   ignored. *)
UndoEvent(b) ==
  /\ pc[b] = "undoEvent"
  /\ \/ event' = [event EXCEPT ![b] = 0] /\ UNCHANGED missed
     \/ Fault(b, "callFailed") /\ UNCHANGED event /\ Miss(b, "delete")
  /\ Goto(b, "compensate")
  /\ UNCHANGED <<month, used, period, life, recorded, slotNo, created, reminders, calls, charged>>

(* compensatingCancel: its errors are only logged, and the client is told
   that the booking failed in any case. *)
CompensatingCancel(b) ==
  /\ pc[b] = "compensate"
  /\ \/ life' = [life EXCEPT ![b] = "cancelled"] /\ UNCHANGED missed
     \/ Fault(b, "compensationError") /\ UNCHANGED life /\ Miss(b, "cancel")
  /\ Goto(b, "refused")
  /\ UNCHANGED <<month, used, period, recorded, slotNo, event, created, reminders, calls, charged>>

(* InsertNotificationOutbox of the two booking_created rows. *)
QueueCreated(b) ==
  /\ pc[b] \in {"queueCandidate", "queueRecruiter"}
  /\ \/ /\ created' = [created EXCEPT ![b] = @ \cup
                         {IF pc[b] = "queueCandidate" THEN "candidate" ELSE "recruiter"}]
        /\ Goto(b, IF pc[b] = "queueCandidate" THEN "queueRecruiter" ELSE "queueReminder")
     \/ /\ Fault(b, "dbError")
        /\ Goto(b, "failed")
        /\ UNCHANGED created
  /\ UNCHANGED <<month, used, period, life, recorded, slotNo, event, reminders, calls, charged, missed>>

(* insertReminderNotification, for the slot the booking was made on. *)
QueueReminder(b) ==
  /\ pc[b] = "queueReminder"
  /\ \/ /\ reminders' = [reminders EXCEPT ![b] = @ \cup {1}]
        /\ Goto(b, "ok")
     \/ /\ Fault(b, "dbError")
        /\ Goto(b, "failed")
        /\ UNCHANGED reminders
  /\ UNCHANGED <<month, used, period, life, recorded, slotNo, event, created, calls, charged, missed>>

(* The process dies or the client goes away: the statements that are left,
   those of the compensation included, are not run. *)
Crash(b) ==
  /\ Fault(b, "crash")
  /\ pc[b] \notin Answers \cup {"none"}
  /\ Goto(b, "lost")
  /\ UNCHANGED <<month, used, period, life, recorded, slotNo, event, created, reminders,
                 calls, charged, missed>>

-----------------------------------------------------------------------------
(* Cancel, by the recruiter, who sees the booking as soon as it is committed,
   and CancelByToken, by the candidate, once a notification has the token. *)
Cancel(b) ==
  /\ life[b] = "scheduled"
  /\ Fault(b, "recruiterCancel") \/ "candidate" \in created[b]
  /\ life' = [life EXCEPT ![b] = "cancelled"]
  /\ reminders' = [reminders EXCEPT ![b] = {}]
  /\ calls' = calls \cup CallsOfCancel(b)
  /\ IF recorded[b] THEN UNCHANGED missed ELSE Miss(b, "early")
  /\ UNCHANGED <<month, used, period, recorded, slotNo, event, created, charged, pc>>

(* Reschedule, with the reminder moved to the new slot and the event to be
   patched after the commit. *)
Reschedule(b) ==
  /\ life[b] = "scheduled"
  /\ "candidate" \in created[b]
  /\ slotNo[b] <= MaxMoves
  /\ slotNo' = [slotNo EXCEPT ![b] = @ + 1]
  /\ reminders' = [reminders EXCEPT ![b] = RemindersMoved(b, slotNo[b] + 1)]
  /\ calls' = calls \cup CallsOfReschedule(b, slotNo[b] + 1)
  /\ UNCHANGED <<month, used, period, life, recorded, event, created, charged, missed, pc>>

(* DeleteEvent or UpdateInterviewEvent after the commit of a cancel or a
   reschedule.  A failure is logged, and nothing makes the call again. *)
CallGoogle(c) ==
  /\ c \in calls
  /\ calls' = calls \ {c}
  /\ \/ /\ event' = IF event[c.bk] = 0 THEN event ELSE [event EXCEPT ![c.bk] = c.to]
        /\ UNCHANGED missed
     \/ /\ Fault(c.bk, "callFailed")
        /\ UNCHANGED event
        /\ Miss(c.bk, IF c.to = 0 THEN "delete" ELSE "patch")
  /\ UNCHANGED <<month, used, period, life, recorded, slotNo, created, reminders, charged, pc>>

NextMonth ==
  /\ month < MaxMonth
  /\ month' = month + 1
  /\ UNCHANGED <<used, period, life, recorded, slotNo, event, created, reminders, calls,
                 charged, missed, pc>>

Finalize(b) ==
  \/ Reset(b)
  \/ TryIncrement(b)
  \/ CreateInterviewEvent(b)
  \/ Decrement(b)
  \/ UpdateBookingMeetInfo(b)
  \/ UndoEvent(b)
  \/ CompensatingCancel(b)
  \/ QueueCreated(b)
  \/ QueueReminder(b)

Next ==
  \/ \E b \in Bookings : Book(b) \/ Finalize(b) \/ Crash(b) \/ Cancel(b) \/ Reschedule(b)
  \/ \E c \in calls : CallGoogle(c)
  \/ NextMonth

Spec == Init /\ [][Next]_vars

-----------------------------------------------------------------------------
(* Every variable has its type; the counter never passes the plan's limit. *)
TypeOK ==
  /\ month \in Nat
  /\ used \in 0..Limit
  /\ period \in Nat
  /\ life \in [Bookings -> {"none", "scheduled", "cancelled"}]
  /\ recorded \in [Bookings -> BOOLEAN]
  /\ slotNo \in [Bookings -> SlotNos]
  /\ event \in [Bookings -> 0..(MaxMoves + 1)]
  /\ created \in [Bookings -> SUBSET {"candidate", "recruiter"}]
  /\ reminders \in [Bookings -> SUBSET SlotNos]
  /\ calls \subseteq Calls
  /\ charged \in [Bookings -> Nat]
  /\ missed \in [Bookings -> SUBSET Misses]
  /\ pc \in [Bookings -> Labels \cup Answers]

(* The bookings that got a link counted in period m. *)
LinksOf(m) == {b \in Bookings : recorded[b] /\ charged[b] = m}

(* A free organisation hands out at most Limit links in a month, whatever
   requests run at once and wherever they fail: the counter is charged before
   the link is made and given back only when there is no link. *)
MonthlyLinksWithinPlan ==
  \A m \in 0..MaxMonth : Cardinality(LinksOf(m)) <= Limit

(* Bookings that were counted before month m and have come to no link. *)
GivenUp(m) ==
  {b \in Bookings : charged[b] < m /\ ~recorded[b] /\ pc[b] \in {"undoEvent", "compensate"} \cup Answers}

(* Across the months the plan is exceeded by no more links than were counted in
   an earlier month and given back later: the decrement lowers whichever
   period is current, but every count is given back at most once. *)
ExcessGivenBack ==
  \A m \in 0..MaxMonth : Cardinality(LinksOf(m)) <= Limit + Cardinality(GivenUp(m))

(* A request that died leaves its booking as it is, and nothing looks for it. *)
Finished(b) == pc[b] \in (Answers \ {"lost"}) \cup {"none"}
Settled(b) == Finished(b) /\ \A c \in calls : c.bk # b

(* What each answer means for the booking, whatever went wrong.  After a
   success the link is on the booking, both parties have been written to, and
   as long as it is scheduled the reminder of its slot is pending.  After a
   refusal it has no link, nobody has been written to, and it is cancelled
   unless the compensating cancel failed.  The third answer is an error too, but
   the booking stands: the link was recorded and counted, nothing is undone, and
   what is missing is a notification, the one the error is about. *)
AnswersTruthful ==
  \A b \in Bookings :
    /\ pc[b] = "ok" =>
         /\ recorded[b] /\ created[b] = {"candidate", "recruiter"}
         /\ life[b] = "scheduled" => slotNo[b] \in reminders[b]
    /\ pc[b] = "refused" =>
         /\ ~recorded[b] /\ created[b] = {}
         /\ life[b] = "cancelled" \/ "cancel" \in missed[b]
    /\ pc[b] = "failed" =>
         /\ recorded[b] /\ charged[b] # NotYet
         /\ created[b] # {"candidate", "recruiter"} \/ 1 \notin reminders[b]

(* When everything about a booking has settled, the event of one that is
   scheduled with a link is on the calendar; and an event is left without such
   a booking only where the code has no second try: its reply was lost, its
   delete failed, or the recruiter cancelled before the event id was recorded.
   A failed statement, a failed compensation and a failed patch leave none. *)
NoOrphanEvents ==
  \A b \in Bookings :
    Settled(b) =>
      /\ life[b] = "scheduled" /\ recorded[b] => event[b] # 0
      /\ event[b] # 0 => \/ life[b] = "scheduled" /\ recorded[b]
                        \/ missed[b] \cap {"create", "delete", "early"} # {}

(* The event of a booking that was moved at most once stands at the slot of the
   booking, unless the patch failed: it is made after the commit that it stands
   for and cannot be lost to a cancel or to what finalizes the booking.  Of a
   second move nothing orders the patches. *)
EventFollowsMove ==
  \A b \in Bookings :
    Settled(b) /\ event[b] # 0 /\ slotNo[b] <= 2 /\ "patch" \notin missed[b] =>
      event[b] = slotNo[b]

(* The last statement of the finalization inserts the reminder of the slot the
   booking was made on, even if it has been moved or cancelled since.  That is
   the only reminder that can be out of date: one for a later slot is pending
   exactly as long as the booking is scheduled there. *)
OnlyFirstReminderStale ==
  \A b \in Bookings :
    reminders[b] \subseteq {1} \cup (IF life[b] = "scheduled" THEN {slotNo[b]} ELSE {})
=============================================================================
