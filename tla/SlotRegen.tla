----------------------------- MODULE SlotRegen -----------------------------
(***************************************************************************)
(* The requests of a recruiter that rebuild slots, statement by statement: *)
(* an availability that is replaced and regenerated for the whole          *)
(* organisation in one transaction, and interview types that are created,  *)
(* changed and deleted with every statement committed on its own.  They    *)
(* run against each other and against the bookings, whose transactions     *)
(* Booking shows to be atomic.                                             *)
(*                                                                         *)
(* slots.booked says whether a scheduled booking holds the slot, as        *)
(* Booking proves, so it is not a variable here.                           *)
(***************************************************************************)
EXTENDS Availability

CONSTANTS
  Types,      \* ids of interview types
  Bookings,   \* ids of booking rows
  Past,       \* those that were cancelled before
  Procs,      \* requests that can be in progress at the same time
  Kinds,      \* durations and buffers an interview type can be given
  Inputs,     \* availability inputs that are sent
  FirstKinds, \* those of the interview types there are at first
  FirstInput, \* the availability there may be at first
  MaxRequests,\* bound on the requests ever made
  Nobody

ASSUME SlotRegenAssumption ==
  /\ Nobody \notin Procs
  /\ Past \subseteq Bookings
  /\ MaxRequests \in Nat
  /\ FirstKinds \subseteq Kinds
  /\ FirstInput \in Inputs /\ ValidInput(FirstInput)
  /\ Kinds \subseteq [duration : Nat \ {0}, buffer : Nat]
  /\ \A in \in Inputs : in.maxPerDay \in Nat /\ {in.hours, in.breaks, in.timeOff} \subseteq Seq(Interval)

VARIABLES
  rules,      \* the committed availability, or NoRules
  type,       \* interview_type rows: duration and buffer, or NoType
  slot,       \* committed slots rows: the length of the slot at a start, 0: none
  booking,    \* booking rows
  tx,         \* the transaction of the availability request, or NoTx
  pc, req,    \* the next statement and the local variables of each request
  begun,      \* requests so far
  kept,       \* history: starts a booking referred to when a type was rebuilt
  settled     \* history: types whose slots no overlapping request touched

vars == <<rules, type, slot, booking, tx, pc, req, begun, kept, settled>>

NoRules == [maxPerDay |-> 0, horizon |-> 0, hours |-> <<>>, breaks |-> <<>>, timeOff |-> <<>>]
NoType == [duration |-> 0, buffer |-> 0]
NoBooking == [status |-> "none"]
NoSlots == [t \in Types |-> [s \in Times |-> 0]]
NoTx == [by |-> Nobody, rules |-> NoRules, gone |-> {}, new |-> NoSlots]

(* The local variables of a request: the type at hand, the duration and buffer
   each type is to have, the types still to rebuild, what it has read of the
   availability and of the slots, and the snapshot of its DELETE.  undisturbed
   and kept are history. *)
NoReq ==
  [type |-> NoType, existing |-> NoType, kind |-> [t \in Types |-> NoType],
   todo |-> {}, rules |-> NoRules, victims |-> {}, occupied |-> {}, room |-> [d \in Days |-> 0],
   undisturbed |-> TRUE, kept |-> [t \in Types |-> {}]]

Exists(t) == type[t] # NoType
Referenced(t, s) == \E b \in Bookings : booking[b].status # "none" /\ booking[b].at = <<t, s>>
Booked(t, s) == \E b \in Bookings : booking[b].status = "scheduled" /\ booking[b].at = <<t, s>>

(* What a transaction has written is locked for others until it ends. *)
Locked(p, t, s) == tx.by # p /\ (<<t, s>> \in tx.gone \/ tx.new[t][s] # 0)

(* The slots a request sees: its own transaction's changes included. *)
Seen(p, t, s) ==
  CASE tx.by = p /\ tx.new[t][s] # 0 -> tx.new[t][s]
    [] tx.by = p /\ tx.new[t][s] = 0 /\ <<t, s>> \in tx.gone -> 0
    [] OTHER -> slot[t][s]

SeenRules(p) == IF tx.by = p THEN tx.rules ELSE rules

-----------------------------------------------------------------------------
(* The operators named Mutant... are seeded faults, as in Booking. *)

(* regenWindow, from now on: the range of DeleteUnbookedSlotsByTypeInWindow.
   The range of DeleteUnbookedSlotsByTypeAfter is the rest. *)
InWindow(s, horizon) == DayOf(s) < horizon

(* The WHERE of the two DELETEs: booked = FALSE AND NOT EXISTS a booking. *)
Unbooked(t, s) == ~Booked(t, s) /\ ~Referenced(t, s)

MutantRestricted(t, s) == FALSE

(* booking.slot_id REFERENCES slots ON DELETE RESTRICT *)
Restricted(t, s) == Referenced(t, s)

MutantRoomLeft(rows, max, d) == max - Cardinality({s \in rows : DayOf(s) = d})

MutantRoom(rows, max, d) == max

(* slotsPerDay: what the daily maximum leaves; max_per_day is per type. *)
Room(rows, max, d) ==
  LET count == Cardinality({s \in rows : DayOf(s) = d}) IN IF count < max THEN max - count ELSE 0

(* Generate: of the free starts of each day the earliest there is room for. *)
Candidates(r) ==
  LET open == Grid(r.kind[r.type], r.rules, r.rules.horizon) \ r.occupied IN
  {s \in open : Cardinality({u \in open : u < s /\ DayOf(u) = DayOf(s)}) < r.room[DayOf(s)]}

(* The slots of a type that was built with nothing booked. *)
Built(t, kind, in) ==
  LET r == [NoReq EXCEPT !.kind = kind, !.type = t, !.rules = in, !.room = [d \in Days |-> in.maxPerDay]]
  IN [s \in Times |-> IF s \in Candidates(r) THEN kind[t].duration ELSE 0]

(* An organisation with or without availability, where some bookings have been
   made and cancelled before. *)
Init ==
  /\ rules \in {NoRules, FirstInput}
  /\ type \in [Types -> FirstKinds \cup {NoType}]
  /\ slot = [t \in Types |-> IF Exists(t) THEN Built(t, type, rules) ELSE NoSlots[t]]
  /\ booking \in [Bookings -> {NoBooking} \cup [status : {"cancelled"}, at : Types \X Times]]
  /\ \A b \in Bookings \ Past : booking[b] = NoBooking
  /\ \A b \in Past :
       IF booking[b] = NoBooking
       THEN slot = [t \in Types |-> NoSlots[t]]
       ELSE slot[booking[b].at[1]][booking[b].at[2]] # 0
  /\ tx = NoTx
  /\ pc = [p \in Procs |-> "idle"]
  /\ req = [p \in Procs |-> NoReq]
  /\ begun = 0
  /\ kept = [t \in Types |-> {}]
  /\ settled = {t \in Types : Exists(t)}

-----------------------------------------------------------------------------
Goto(p, label) == pc' = [pc EXCEPT ![p] = label]
Set(p, r) == req' = [req EXCEPT ![p] = r]

(* History: what happens to slots that are rebuilt, or were, by a request that
   nothing has disturbed so far. *)
Disturbed(r) == [r EXCEPT !.undisturbed = FALSE, !.kept = NoReq.kept]

Keep(r, t, starts) == [r EXCEPT !.kept[t] = IF r.undisturbed THEN @ \cup starts ELSE {}]

Unsettle(t) == settled' = settled \ {t} /\ kept' = [kept EXCEPT ![t] = {}]

Settle(r, types) ==
  IF r.undisturbed
  THEN /\ settled' = settled \cup types
       /\ kept' = [t \in Types |-> IF t \in types THEN r.kept[t] ELSE kept[t]]
  ELSE UNCHANGED <<settled, kept>>

(* A request that begins while another runs overlaps it, and the other it. *)
Begin(p, label, r) ==
  /\ pc[p] = "idle"
  /\ begun < MaxRequests
  /\ begun' = begun + 1
  /\ Goto(p, label)
  /\ req' = [q \in Procs |->
       CASE q = p -> [r EXCEPT !.undisturbed = \A o \in Procs : pc[o] = "idle"]
         [] q # p /\ pc[q] # "idle" -> Disturbed(req[q])
         [] OTHER -> req[q]]

(* The end of a request: what its transaction did not commit is rolled back. *)
End(p) ==
  /\ Goto(p, "idle")
  /\ Set(p, NoReq)
  /\ tx' = IF tx.by = p THEN NoTx ELSE tx

(* A statement fails, the connection is lost or the process dies. *)
Fail(p) ==
  /\ pc[p] # "idle"
  /\ End(p)
  /\ UNCHANGED <<rules, type, slot, booking, begun, kept, settled>>

(* availability Upsert, up to its RegenerateForOrg: the settings row is locked
   first, so that two of them follow each other; the rules it writes are seen
   by nobody else. *)
Upsert(p, in) ==
  /\ ValidInput(in)
  /\ tx = NoTx
  /\ Begin(p, "listTypes", NoReq)
  /\ tx' = [by |-> p, rules |-> in, gone |-> {}, new |-> NoSlots]
  /\ UNCHANGED <<rules, type, slot, booking, kept, settled>>

(* interview type Create, up to its RegenerateForType. *)
CreateType(p, t, k) ==
  /\ ~Exists(t)
  /\ type' = [type EXCEPT ![t] = k]
  /\ Begin(p, "getType", [NoReq EXCEPT !.type = t, !.kind[t] = k])
  /\ Unsettle(t)
  /\ UNCHANGED <<rules, slot, booking, tx>>

(* interview type Update, up to its getForOrg. *)
ReadExisting(p, t, k) ==
  /\ Exists(t)
  /\ Begin(p, "updateType", [NoReq EXCEPT !.type = t, !.kind[t] = k, !.existing = type[t]])
  /\ UNCHANGED <<rules, type, slot, booking, tx, kept, settled>>

(* UpdateInterviewType: the slots are rebuilt only when the duration or the
   buffer is not the one that was read. *)
UpdateType(p) ==
  /\ pc[p] = "updateType"
  /\ LET t == req[p].type  k == req[p].kind[t] IN
     /\ Exists(t)
     /\ type' = [type EXCEPT ![t] = k]
     /\ IF k = type[t] THEN UNCHANGED <<settled, kept>> ELSE Unsettle(t)
     /\ IF k # req[p].existing
        THEN Goto(p, "getType") /\ Set(p, [req[p] EXCEPT !.existing = NoType]) /\ UNCHANGED tx
        ELSE End(p)
  /\ UNCHANGED <<rules, slot, booking, begun>>

(* interview type Delete, up to its getForOrg. *)
BeginDelete(p, t) ==
  /\ Exists(t)
  /\ Begin(p, "countScheduled", [NoReq EXCEPT !.type = t])
  /\ UNCHANGED <<rules, type, slot, booking, tx, kept, settled>>

(* CountScheduledBookingsByInterviewType *)
CountScheduled(p) ==
  /\ pc[p] = "countScheduled"
  /\ IF \E s \in Times : Booked(req[p].type, s)
     THEN End(p)
     ELSE Goto(p, "deleteType") /\ UNCHANGED <<req, tx>>
  /\ UNCHANGED <<rules, type, slot, booking, begun, kept, settled>>

(* Rows that are deleted are not deleted again by a DELETE that had them in
   its snapshot, even if a row with the same key is inserted. *)
Forget(gone, r) == [r EXCEPT !.victims = @ \ gone]

(* DeleteInterviewType: its slots and all its bookings go with it.  It waits
   for a transaction that has deleted or inserted slots of the type. *)
DeleteType(p) ==
  /\ pc[p] = "deleteType"
  /\ LET t == req[p].type IN
     /\ \A s \in Times : ~Locked(p, t, s)
     /\ type' = [type EXCEPT ![t] = NoType]
     /\ slot' = [slot EXCEPT ![t] = NoSlots[t]]
     /\ booking' = [b \in Bookings |->
          IF booking[b].status # "none" /\ booking[b].at[1] = t THEN NoBooking ELSE booking[b]]
     /\ req' = [q \in Procs |-> IF q = p THEN [req[p] EXCEPT !.type = NoType] ELSE Forget({t} \X Times, req[q])]
     /\ Unsettle(t)
  /\ Goto(p, "listTypes")
  /\ UNCHANGED <<rules, tx, begun>>

-----------------------------------------------------------------------------
(* RegenerateForOrg: the types, with the duration and buffer they are rebuilt
   with. *)
ListTypes(p) ==
  /\ pc[p] = "listTypes"
  /\ Set(p, [req[p] EXCEPT !.kind = type, !.todo = {t \in Types : Exists(t)}])
  /\ Goto(p, "settings")
  /\ UNCHANGED <<rules, type, slot, booking, tx, begun, kept, settled>>

(* RegenerateForType: the duration and buffer are those of the caller. *)
GetType(p) ==
  /\ pc[p] = "getType"
  /\ Exists(req[p].type)
  /\ Set(p, [req[p] EXCEPT !.todo = {req[p].type}])
  /\ Goto(p, "settings")
  /\ UNCHANGED <<rules, type, slot, booking, tx, begun, kept, settled>>

(* loadAvailability, statement by statement: the settings, *)
ReadSettings(p) ==
  /\ pc[p] = "settings"
  /\ LET r == SeenRules(p) IN
     IF r = NoRules
     THEN End(p) /\ Settle(req[p], req[p].todo)
     ELSE /\ Set(p, [req[p] EXCEPT !.rules.maxPerDay = r.maxPerDay, !.rules.horizon = r.horizon])
          /\ Goto(p, "hours")
          /\ UNCHANGED <<tx, settled, kept>>
  /\ UNCHANGED <<rules, type, slot, booking, begun>>

(* the working hours, *)
ListWorkingHours(p) ==
  /\ pc[p] = "hours"
  /\ Set(p, [req[p] EXCEPT !.rules.hours = SeenRules(p).hours])
  /\ Goto(p, "breaks")
  /\ UNCHANGED <<rules, type, slot, booking, tx, begun, kept, settled>>

(* the breaks *)
ListBreaks(p) ==
  /\ pc[p] = "breaks"
  /\ Set(p, [req[p] EXCEPT !.rules.breaks = SeenRules(p).breaks])
  /\ Goto(p, "timeOff")
  /\ UNCHANGED <<rules, type, slot, booking, tx, begun, kept, settled>>

(* The end of regenerateForType, or of loadAvailability: the next type, the
   Commit of the availability, or the answer. *)
Advance(p, r) ==
  LET more == r.todo # {}  own == tx.by = p IN
  /\ Goto(p, IF more THEN "nextType" ELSE IF own THEN "commit" ELSE "idle")
  /\ Set(p, IF more \/ own THEN r ELSE NoReq)

(* and the time off. *)
ListTimeOff(p) ==
  /\ pc[p] = "timeOff"
  /\ Advance(p, [req[p] EXCEPT !.rules.timeOff = SeenRules(p).timeOff])
  /\ UNCHANGED <<rules, type, slot, booking, tx, begun, kept, settled>>

(* The snapshot of a DELETE that removes the unbooked slots of type t whose
   starts are in the set. *)
Snapshot(p, t, starts) == {t} \X {s \in starts : Seen(p, t, s) # 0 /\ Unbooked(t, s)}

ReferencedStarts(t) == {s \in Times : Referenced(t, s)}

(* regenerateForType begins: the DELETE of the window takes its snapshot. *)
SnapshotWindow(p, t) ==
  /\ pc[p] = "nextType"
  /\ t \in req[p].todo
  /\ LET window == {s \in Times : InWindow(s, req[p].rules.horizon)} IN
     Set(p, Keep([req[p] EXCEPT !.type = t, !.victims = Snapshot(p, t, window)], t, ReferencedStarts(t)))
  /\ IF tx.by = p THEN UNCHANGED <<settled, kept>> ELSE Unsettle(t)
  /\ Goto(p, "deleteWindow")
  /\ UNCHANGED <<rules, type, slot, booking, tx, begun>>

(* A row of the snapshot that was booked since is tested again and skipped. *)
Gone(p) == {v \in req[p].victims : ~Booked(v[1], v[2])}

(* The DELETE removes the rows of its snapshot once no other transaction has
   them locked.  It fails for a row that was booked and freed since. *)
DeleteUnbooked(p) ==
  /\ \A v \in req[p].victims : ~Locked(p, v[1], v[2])
  /\ \A v \in Gone(p) : ~Restricted(v[1], v[2])
  /\ IF tx.by = p
     THEN tx' = [tx EXCEPT !.gone = @ \cup Gone(p)] /\ UNCHANGED slot
     ELSE /\ slot' = [t \in Types |-> [s \in Times |-> IF <<t, s>> \in Gone(p) THEN 0 ELSE slot[t][s]]]
          /\ UNCHANGED tx
  /\ req' = [q \in Procs |->
       IF q = p
       THEN Keep([req[p] EXCEPT !.victims = {}], req[p].type, ReferencedStarts(req[p].type))
       ELSE Forget(Gone(p), req[q])]
  /\ UNCHANGED <<rules, type, booking, begun, kept, settled>>

(* DeleteUnbookedSlotsByTypeInWindow *)
DeleteWindow(p) == pc[p] = "deleteWindow" /\ DeleteUnbooked(p) /\ Goto(p, "listSlots")

(* ListSlotsByTypeInWindow: the starts that are kept out of the new grid. *)
ListSlots(p) ==
  /\ pc[p] = "listSlots"
  /\ LET r == req[p] IN
     Set(p, [r EXCEPT !.occupied = {s \in Times : InWindow(s, r.rules.horizon) /\ Seen(p, r.type, s) # 0}])
  /\ Goto(p, "countSlots")
  /\ UNCHANGED <<rules, type, slot, booking, tx, begun, kept, settled>>

(* CountSlotsByTypeOnLocalDay, for each day: a count that fails is taken for a
   full day, unless it is part of a transaction, which it aborts. *)
CountSlots(p, failing) ==
  /\ pc[p] = "countSlots"
  /\ tx.by = p => failing = {}
  /\ LET r == req[p]
         rows == {s \in Times : Seen(p, r.type, s) # 0}
         counted == [r EXCEPT !.room =
           [d \in Days |-> IF d \in failing THEN 0 ELSE Room(rows, r.rules.maxPerDay, d)]] IN
     Set(p, IF failing = {} THEN counted ELSE Disturbed(counted))
  /\ Goto(p, "insertSlots")
  /\ UNCHANGED <<rules, type, slot, booking, tx, begun, kept, settled>>

(* Generate and BulkInsertSlots, all rows or none: it waits for a transaction
   that has inserted or deleted one of the keys, and fails on a key that is
   taken and for a type that is gone. *)
InsertSlots(p) ==
  LET t == req[p].type
      new == Candidates(req[p])
      length == req[p].kind[t].duration IN
  /\ pc[p] = "insertSlots"
  /\ new # {} => Exists(t)
  /\ \A s \in new : ~Locked(p, t, s) /\ Seen(p, t, s) = 0
  /\ IF tx.by = p
     THEN /\ tx' = [tx EXCEPT !.new[t] = [s \in Times |-> IF s \in new THEN length ELSE tx.new[t][s]]]
          /\ UNCHANGED slot
     ELSE /\ slot' = [slot EXCEPT ![t] = [s \in Times |-> IF s \in new THEN length ELSE slot[t][s]]]
          /\ UNCHANGED tx
  /\ Set(p, [req[p] EXCEPT !.occupied = {}, !.room = NoReq.room])
  /\ Goto(p, "snapshotAfter")
  /\ UNCHANGED <<rules, type, booking, begun, kept, settled>>

(* The DELETE of what lies after the window takes its snapshot, *)
SnapshotAfter(p) ==
  /\ pc[p] = "snapshotAfter"
  /\ LET r == req[p]
         after == {s \in Times : ~InWindow(s, r.rules.horizon)} IN
     Set(p, Keep([r EXCEPT !.victims = Snapshot(p, r.type, after)], r.type, ReferencedStarts(r.type)))
  /\ Goto(p, "deleteAfter")
  /\ UNCHANGED <<rules, type, slot, booking, tx, begun, kept, settled>>

(* and removes it: DeleteUnbookedSlotsByTypeAfter. *)
DeleteAfter(p) == pc[p] = "deleteAfter" /\ DeleteUnbooked(p) /\ Goto(p, "nextOrEnd")

(* The end of regenerateForType for one type. *)
EndOfType(p) ==
  /\ pc[p] = "nextOrEnd"
  /\ LET t == req[p].type IN
     /\ Advance(p, [req[p] EXCEPT !.type = NoType, !.todo = @ \ {t}])
     /\ IF tx.by = p THEN UNCHANGED <<kept, settled>> ELSE Settle(req[p], {t})
  /\ UNCHANGED <<rules, type, slot, booking, tx, begun>>

(* The Commit of the availability. *)
Commit(p) ==
  /\ pc[p] = "commit"
  /\ rules' = tx.rules
  /\ slot' = [t \in Types |-> [s \in Times |-> Seen(p, t, s)]]
  /\ kept' = req[p].kept
  /\ settled' = IF req[p].undisturbed THEN {t \in Types : Exists(t)} ELSE {}
  /\ Goto(p, "idle")
  /\ req' = [q \in Procs |-> IF q = p THEN NoReq ELSE Forget(tx.gone, req[q])]
  /\ tx' = NoTx
  /\ UNCHANGED <<type, booking, begun>>

-----------------------------------------------------------------------------
(* A slot that can be booked now: its row is not locked. *)
Free(t, s) == slot[t][s] # 0 /\ ~Booked(t, s) /\ <<t, s>> \notin tx.gone

(* The transactions of the booking service: Book, *)
Book(b, t, s) ==
  /\ booking[b].status = "none"
  /\ Free(t, s)
  /\ booking' = [booking EXCEPT ![b] = [status |-> "scheduled", at |-> <<t, s>>]]
  /\ UNCHANGED <<rules, type, slot, tx, pc, req, begun, kept, settled>>

(* Reschedule, to a slot of the same type, *)
Reschedule(b, s) ==
  /\ booking[b].status = "scheduled"
  /\ Free(booking[b].at[1], s)
  /\ booking' = [booking EXCEPT ![b].at[2] = s]
  /\ UNCHANGED <<rules, type, slot, tx, pc, req, begun, kept, settled>>

(* and Cancel or CancelByToken. *)
Cancel(b) ==
  /\ booking[b].status = "scheduled"
  /\ booking' = [booking EXCEPT ![b].status = "cancelled"]
  /\ UNCHANGED <<rules, type, slot, tx, pc, req, begun, kept, settled>>

Request(p) ==
  \/ \E in \in Inputs : Upsert(p, in)
  \/ \E t \in Types, k \in Kinds : CreateType(p, t, k) \/ ReadExisting(p, t, k)
  \/ \E t \in Types : BeginDelete(p, t)

Step(p) ==
  \/ UpdateType(p) \/ CountScheduled(p) \/ DeleteType(p)
  \/ ListTypes(p) \/ GetType(p)
  \/ ReadSettings(p) \/ ListWorkingHours(p) \/ ListBreaks(p) \/ ListTimeOff(p)
  \/ \E t \in Types : SnapshotWindow(p, t)
  \/ DeleteWindow(p) \/ ListSlots(p)
  \/ \E failing \in SUBSET Days : CountSlots(p, failing)
  \/ InsertSlots(p) \/ SnapshotAfter(p) \/ DeleteAfter(p)
  \/ EndOfType(p) \/ Commit(p)
  \/ Fail(p)

BookingStep(b) ==
  \/ \E t \in Types, s \in Times : Book(b, t, s)
  \/ \E s \in Times : Reschedule(b, s)
  \/ Cancel(b)

Next ==
  \/ \E p \in Procs : Request(p) \/ Step(p)
  \/ \E b \in Bookings : BookingStep(b)

Spec == Init /\ [][Next]_vars

-----------------------------------------------------------------------------
Labels == {"idle", "updateType", "countScheduled", "deleteType", "listTypes", "getType", "settings",
           "hours", "breaks", "timeOff", "nextType", "deleteWindow", "listSlots", "countSlots",
           "insertSlots", "snapshotAfter", "deleteAfter", "nextOrEnd", "commit"}

(* The statements of a request that has a type at hand. *)
TypeLabels == Labels \ {"idle", "listTypes", "settings", "hours", "breaks", "timeOff", "nextType", "commit"}

(* What a request has read of one or of several versions of the rules. *)
ReadRules ==
  LET versions == Inputs \cup {NoRules} IN
  [maxPerDay : {r.maxPerDay : r \in versions}, horizon : {r.horizon : r \in versions},
   hours : {r.hours : r \in versions}, breaks : {r.breaks : r \in versions},
   timeOff : {r.timeOff : r \in versions}]

Reqs ==
  [type : Types \cup {NoType}, existing : Kinds \cup {NoType}, kind : [Types -> Kinds \cup {NoType}],
   todo : SUBSET Types, rules : ReadRules, victims : SUBSET (Types \X Times),
   occupied : SUBSET Times, room : [Days -> Nat], undisturbed : BOOLEAN, kept : [Types -> SUBSET Times]]

(* The types of the variables. *)
TypeOK ==
  /\ rules \in Inputs \cup {NoRules}
  /\ type \in [Types -> Kinds \cup {NoType}]
  /\ slot \in [Types -> [Times -> Nat]]
  /\ booking \in [Bookings -> {NoBooking} \cup [status : {"scheduled", "cancelled"}, at : Types \X Times]]
  /\ tx = NoTx \/ tx \in [by : Procs, rules : Inputs, gone : SUBSET (Types \X Times), new : [Types -> [Times -> Nat]]]
  /\ pc \in [Procs -> Labels]
  /\ req \in [Procs -> Reqs]
  /\ \A p \in Procs : pc[p] \in TypeLabels => req[p].type \in Types
  /\ begun \in 0..MaxRequests
  /\ kept \in [Types -> SUBSET Times]
  /\ settled \subseteq Types

Disjoint(a, b) == a.end <= b.start \/ b.end <= a.start

(* The rules that are in force, whichever requests were refused, failed or
   overlapped: no two working hours of a day and no two blocks of time off
   overlap, and every break lies within a working interval. *)
RulesValid ==
  /\ \A i, j \in DOMAIN rules.hours : i # j => Disjoint(rules.hours[i], rules.hours[j])
  /\ \A i, j \in DOMAIN rules.timeOff : i # j => Disjoint(rules.timeOff[i], rules.timeOff[j])
  /\ \A i \in DOMAIN rules.breaks : \E j \in DOMAIN rules.hours :
       rules.hours[j].start <= rules.breaks[i].start /\ rules.breaks[i].end <= rules.hours[j].end

(* A slot that some booking refers to, scheduled or cancelled, stays with the
   times it was booked for, whatever is rebuilt around it: only the deletion
   of its type, with the booking, ends it. *)
ReferencedSlotsKept ==
  [][\A t \in Types, s \in Times : Referenced(t, s) /\ Exists(t)' => slot'[t][s] = slot[t][s]]_vars

DayRows(t, d) == {s \in Times : slot[t][s] # 0 /\ DayOf(s) = d}

(* A type whose last rebuild no other request overlapped, however many
   bookings were made, moved or cancelled meanwhile, has the slots of the rules
   in force: every slot is one the rules give, or was held by a booking; every
   start the rules give has a slot, or its day is full; and only slots held by
   bookings exceed the daily maximum.  The maximum is that of one type, as the
   comment at slot/service.go:169 has it, where interview_type_delete_test.go:116
   expects one for the whole organisation.  Nothing is said of a type after
   rebuilds that overlapped, nor after one whose count of a day failed. *)
SettledSlots ==
  \A t \in settled :
    LET grid == Grid(type[t], rules, rules.horizon) IN
    /\ \A s \in Times \ kept[t] : slot[t][s] # 0 => s \in grid /\ slot[t][s] = type[t].duration
    /\ \A s \in grid : slot[t][s] = 0 => Cardinality(DayRows(t, DayOf(s))) >= rules.maxPerDay
    /\ \A d \in Days : Cardinality(DayRows(t, d)) > rules.maxPerDay => DayRows(t, d) \subseteq kept[t]

(* An interview type is not deleted under a scheduled booking, as the answer
   "Interview type has scheduled bookings" (api/openapi.yaml:497) says. *)
ScheduledBookingsKept ==
  [][\A b \in Bookings : booking[b].status = "scheduled" => booking'[b].status # "none"]_vars
=============================================================================
