# A TLA+ model of the Weeto backend

Weeto lets a recruiter publish interview types with bookable slots, and lets candidates book, move
and cancel interviews without an account. The backend is two Go processes over one PostgreSQL
database: the API (`src/cmd/api`) and a worker that sends e-mails (`src/cmd/worker`).
This directory holds TLA+ modules translated from the Go code and its SQL, the TLC configurations
that check them on small instances, and TLAPS proofs of what matters most for every instance.
`PROJECT.json` maps each definition to the lines it stands for, and lists runs, mutants, hazards,
findings and theorems.

## 1. Inventory

| Component | State | Operations | Hard behaviour | What makes it correct |
|---|---|---|---|---|
| Booking service: `service/booking/{service,modify,cutoff}.go`, `db/bookings.sql.go` | `slots.booked`, `booking.status`, `booking.slot_id`, the tokens mailed to the candidate | `Book`, `Reschedule`, `CancelByToken`, `Cancel`, `compensatingCancel` | row locks at READ COMMITTED, re-checks after a lock wait, statements that free a slot read earlier, lock order, aborts anywhere | flag and rows agree, one booking per slot, requests look atomic, no deadlock, cutoff holds |
| Google Meet finalization and plan quota: `finalizeGoogleMeetBooking`, `db/organizations.sql.go` | `organization.meet_links_used` and its period, `booking.meet_link`/`calendar_event_id`, events at Google | reset, increment, create event, decrement, record, notify, compensate; patch and delete of an event after a commit | a chain of statements outside any transaction, each failing or the process dying; calls to Google that fail and are not repeated; cancels and reschedules half way; a new month | never more links than the plan, each answer means what it says of the booking, an event is left behind or at an old slot only by a call that failed or could not be made |
| Notification outbox and worker: `notification_payload.go`, `worker/notification/processor.go`, `db/notification_outbox.sql.go` | `notification_outbox` rows: kind, due time, status, retries | queue and cancel rows in booking transactions; claim, send, mark, commit | several workers, crash between sending and committing, retries, a cancellation against a claimed row | reminders match bookings, marks match what happened, everything is processed |
| Slot generation: `service/slot/generate.go` | none (a function of rules, zone and kept slots) | `Generate`, `BookingWindow` | interval subtraction, daily limit, window, zone offsets and clock changes | candidates keep the rules, are disjoint, keep the buffer, none is missing |
| Slot regeneration: `service/slot/service.go`, `db/slots.sql.go` | `slots` rows of a type | delete unbooked, list, count, bulk insert, delete past the window | outside a transaction for interview types, against bookings and other rebuilds; a DELETE whose snapshot is old | slots that bookings refer to survive, an undisturbed rebuild leaves the slots of the rules |
| Availability rules: `service/availability`, `db/availability.sql.go` | settings, hours, breaks, time off | validate, replace all, in one transaction with a regeneration | two replacements at once, rules read by four statements | the rules in force are sound, rules and slots belong together |
| Interview types: `service/interviewtype`, `db/interview_types.sql.go` | `interview_type` rows | create (plan limit), update, delete | check, then write, without a transaction; cascading delete | plan limit, owner, no booked type deleted, slots match the duration |
| Organization and plan: `service/organization`, `internal/plan`, `db/organizations.sql.go` | `organization` row, plan | create, update, delete, plan change | check, then insert; the write names the row alone | one organisation per owner, only the owner writes |
| Authentication: `service/auth`, `db/refresh_tokens.sql.go` | `users`, `refresh_tokens`, the browser's cookie | register, login, refresh, logout | rotation by three statements of their own, several requests of one browser, lost answers | nobody is locked out, a logout is final |
| Google account connection: `service/google` | encrypted tokens of a user | connect, callback, disconnect | disconnect between test and write | a type on Google Meet had a connected owner |
| Connections of the API process: `db/pool.go`, every service | the pool | begin, query, commit | a second connection asked for while one is held | the pool cannot stall, requests end |
| Google client, e-mail, encryption, HTTP plumbing, configuration | none of their own | I/O, formatting, routing | failures seen by their callers | failures are inputs of the modules above |

How they interact. The API handlers call the services. `Book`, `Reschedule` and the cancels write
`slots`, `booking` and `notification_outbox` in one transaction; for Google Meet types the
notifications, the quota and the calendar come after the commit. The worker reads only the
outbox. Availability and interview types call slot regeneration, which calls slot generation and
rewrites the `slots` rows that bookings lock. Everything shared is in PostgreSQL, except the
recruiter's Google calendar, the browsers' cookies and the pool of connections; there are no channels or
mutexes, so all interleaving is between SQL statements, commits, answers and calls to Google or
the mail provider.

## 2. Plan

Done, most important first:

1. `BookingLedger`: what the booking service promises, every request atomic.
2. `Booking`: the requests as SQL statements under row locks, shown to implement 1. `BookingProofs`
   proves it.
3. `MeetBooking`: after the commit of a Google Meet booking. `MeetBookingProofs`.
4. `Outbox`: composes the ledger (`INSTANCE BookingLedger`) with the outbox and its workers. `OutboxProofs`.
5. `SlotGenerate`: the generation loop against a reference. `SlotGenerateProofs`.
6. `ConnPool`: requests over a pool of connections. `ConnPoolProofs`.
7. `Availability` and `SlotRegen`: validation of the rules, and the requests that rebuild slots, statement by
   statement, composed with the bookings. `SlotRegenProofs`.
8. `Catalog`: organisations, interview types and the Google connection: tests, limits and unique indexes.
   `CatalogProofs`.
9. `Sessions`: refresh-token rotation and logout. `SessionsProofs`.

What could be added: a clock in `SlotRegen` whose days begin while a request runs.

## 3. Modules and how they correspond to the code

**BookingLedger.** `holder[s]` is the booking that holds slot `s`, `life[b]` the status of booking `b`.
`Book`, `Move` and `Cancel` are the three things a request can do.

**Booking.** One action per SQL statement of `Book`, `Reschedule`, `CancelByToken`, `Cancel` and
`compensatingCancel`. A row has a committed version (`booked`, `row`) and a newest one (`bookedNew`, `rowNew`)
that differs only under its lock; `Commit` publishes, `Rollback` discards. What PostgreSQL does at READ
COMMITTED is in the guards: `ReadToken` is the snapshot of `GetScheduledBookingBy…TokenForUpdate`,
`LockTokenRow` the lock and the re-check of the WHERE clause and the join on the version then current,
`Claimed` the partial unique index `idx_booking_slot_scheduled`, which makes an insert wait for an
uncommitted row and fails on a committed one. `req[p]` are the Go locals: the slot a request remembers to
free. `Refuse` is every error return, `Abort` a failed statement, a lost connection, a cancelled context or
a crash. `tokens` are the bookings whose token has been queued for mailing, since no candidate can use one
before. Time is one clock for process and database.

**MeetBooking.** Booking transactions are atomic here, which is what `Booking` shows. `pc[b]` walks
`finalizeGoogleMeetBooking`: `Reset`, `TryIncrement`, `CreateInterviewEvent`, `UpdateBookingMeetInfo`,
`QueueCreated` (twice), `QueueReminder`, with the failure branches `Decrement`, `UndoEvent` and
`CompensatingCancel`. `Crash` may come at any of them. `calls` are the patches and deletes that committed
requests have yet to send to Google; `CallGoogle` sends any of them, because nothing orders them. It and `UndoEvent`
may fail, which also stands for a process that dies before the call: the code ignores the error or logs it, and never
repeats the call. `Faults` says what may go wrong. `missed` is history: the steps for a booking that went amiss and that
nothing made up for, by which the properties name their exceptions.

**Outbox.** The ledger's atomic requests, each with the rows its transaction inserts or cancels, for on-site
types. A worker's `Claim`, `ProcessRow` and `CommitBatch` are `ClaimPendingNotifications` (FOR UPDATE SKIP LOCKED,
ordered, limited), one e-mail with its mark, and the commit. Marks are kept in `worker[w]` until the
commit, e-mails are counted in the row at once (`mails`, a history variable): a crash loses the first and not
the second. A request that cancels a reminder waits for a worker that has it locked.

**SlotGenerate.** The loop of `Generate` over days, cuts, intervals and steps: `BeginDay`, `Subtract`, `CountDay`,
`BeginInterval`, `Skip`, `Take`, `EndInterval`, `EndDay`, `Return`. The parameters `p` are chosen at the start. A zone is
an offset with at most one change; `Date` is Go's rule for `time.Date`, which looks a clock time up twice,
so that a midnight that does not exist behaves as it does in Go. Days, hours and minutes are one unit, and
the working hours of a weekday are a set of disjoint intervals taken in order (the query sorts them, validation
rejects overlaps).

**Availability.** The pure part of the rules: `ValidInput` is `validateInput` with its overlap and containment tests
(`HasOverlap` compares `Neighbours` in the order of the starts, as `hasOverlap` does; the sorted copy is left out, and
whichever way it orders equal starts, two of them overlap), `Grid` is the set of starts that
`Generate` can give for a duration and buffer, with the daily maximum left to the module that counts rows.
`SlotGenerate` has the loop itself; here days are alike and a zone does not change.

**SlotRegen.** One action per statement of the availability `Upsert`, of interview type `Create`, `Update` and `Delete`,
and of `regenerateForType`. `tx` is the one transaction there can be: the upsert of the settings row makes the
second of two replacements wait. `tx.gone` and `tx.new` are the rows it has deleted and inserted and hence locked;
`Seen` is what a statement of its own reads. The statements of types are committed one by one. A DELETE is two
actions: its snapshot (`SnapshotWindow`, `SnapshotAfter`), and the removal, which tests each row again at its newest
version and fails on the foreign key for one that was booked and freed in between. `Forget` says that a row with the
same key inserted later is another row. `slots.booked` is derived from the booking rows, which is what
`SlotFlagTruthful` shows. `kept`, `settled` and `undisturbed` are history: which types were last rebuilt by a request that
no other request overlapped, and around which slots.

**Catalog.** `CreateOrg`, `UpdateOrg`, `DeleteOrg`, `UpdatePlan`, interview type `Create`, `Update` and `Delete`, `ResolveType`,
`HandleCallback` and `Disconnect` as the SELECTs that test and the statement that writes. `org`, `type` and `google` are the
rows, `req[p]` the Go locals. What the database itself enforces is in the statement that writes: unique owner,
unique slugs, the foreign key, the cascade.

**Sessions.** `token` are the `refresh_tokens` rows, `cookie[c]` what browser `c` holds. `After` is the order of the statements:
`Refresh` creates the new token before it revokes the old one, which `RevokeToken` does by id and without looking.
`Reply` may come at any time and in any order, or never (`LoseReply`). A session is the first token of a chain of
rotations; `disturbed` and `ended` are history. `TypeOK` also says which tokens a request holds at each of its steps.

**ConnPool.** `Acquire` is `pool.Begin` or a query, `LockRow` the `SELECT ... FOR UPDATE`, `AcquireSecond` the `s.q.GetOrganizationByID` that
`CancelByToken` runs through the pool while its transaction is open (`modify.go:269`). `Abort` is a client that goes away,
which cancels the context the request waits with. One row per transaction is enough, because `NoDeadlock` of `Booking`
covers the rows among themselves.

Operators whose name begins with `Mutant` are seeded faults: each is the next operator with a bug the code
could have had. Every property of a passing run is violated when one of them takes the operator's place.

## 4. Runs

| Run | Bounds | What it shows |
|---|---|---|
| `booking` | 2 requests, 2 bookings, 3 slots at three distances from the cutoff, two hours | `SlotFlagTruthful`: flag and rows agree and no slot is held twice. `RememberedSlotCurrent`: a request that has the row's lock remembers the slot the booking holds. `NoDeadlock`. `ImplementsLedger` (refinement), `CutoffFreezesBooking`, and under fairness `RequestsEnd` |
| `meet` | 3 bookings, 1 link, two months, two reschedules each; all faults, in any combination for one booking (`MaxAmiss`) | `ExcessGivenBack`, `AnswersTruthful`, `NoOrphanEvents`, `EventFollowsMove`, `OnlyFirstReminderStale` |
| `outbox_safety` | 2 workers, batches of 2, 6 rows, 2 retries, one fault | `RemindersCurrent`, `RemindersQueued`, `MarksTruthful`, `StatusFinal` |
| `outbox_liveness` | 1 worker, 5 rows, two hours, one fault | `AllProcessed` |
| `slot_generate` | 2304 inputs: a day of 8 units, a week of 2 days | `WithinRules`, `SlotsDisjoint`, `BufferKept`, `MatchesReference` |
| `slot_regen` | 2 requests of 2 types, each failing anywhere; 4 inputs, two of them refused, over two days of two units; a booking being made, moved and cancelled, another cancelled before | `RulesValid`, `SettledSlots`, `ReferencedSlotsKept` |
| `catalog` | 2 users, 2 organisations, 3 types, limit 1, 2 requests at a time, 4 in all | `TypesBounded`, `MeetTypesLinked`, `OnlyOwnerWrites` |
| `sessions` | 1 browser with 3 requests at once, 3 tokens | `NoLockout`, `LogoutFinal` |
| `conn_pool` | 4 requests, 2 connections, 1 row | `StallNeedsCancel`, and under fairness `RequestsEnd` |
| `meet_rollover`, `slot_clock`, `type_delete` | as small as shows it | a counterexample each, section 7 |

Why the bounds are enough. In `booking` one request waits while the other changes the row it waits for,
and two slots let reschedules swap and three let one chain; rings of more than two requests are left to the theorem
`DeadlockFree`. In `meet` three bookings and a plan of one link let a booking that was counted
in the first month and gives its count back in the second let two others both have a link, so that the bound of
`ExcessGivenBack` is reached, and two moves give two patches whose order nothing fixes. Bookings meet in the counter alone, so
`MaxAmiss = 1` is enough for what goes amiss for good and is not made up for; a call to create an event that fails, and is
compensated, may happen to all three. Two workers race for a batch, a batch of two
lets a crash fall between two e-mails, two retries reach both branches of `MarkNotificationFailed`, six rows are two
requests' worth. The inputs of `slot_generate` combine breaks at an edge, overlapping, nested and repeated over an
interval, hours that meet, time off across midnight, a window that begins inside and at the start of a day, and a
kept slot before, on and between grid points. In `slot_regen` two requests overlap or follow each other, a longer
horizon and a shorter one use both DELETEs, two durations give grids that differ, and a daily maximum below the
number of starts makes it bite; the past booking is the row that the foreign key keeps. In `catalog` a limit of one with two requests is passed by
one, and three types show that it is not passed by two. In `sessions` three tokens are a login and two
rotations, and three requests let two refreshes and a logout overlap. In `conn_pool` two connections are the fewest with
which a transaction could ever get a second one, and two further requests wait for them. The theorems of section 6
remove the bounds for most of these properties.

`CHECK_DEADLOCK FALSE` is set where the models really stop: booking ids, rows, months, requests and the
clock are bounded by constants, and `Generate` returns. That no request is stuck is `NoDeadlock` and
`RequestsEnd`. `sessions` and `conn_pool` never stop and are checked for deadlock too.

## 5. Fairness

`Booking`: strong fairness of each request's `Step`. A goroutine goes on running its statements, and PostgreSQL
grants a row lock to its waiters in turn, so a request whose lock is free again and again gets it; weak
fairness would not do, since other requests can take the lock in between. New requests and aborts are not
fair. `ConnPool`: strong fairness of each request's `Step` for the same reason; pgxpool serves its waiters in turn. `Abort` is
not fair, because no client has to go away, and `RequestsEnd` is stated for behaviours that do not stall.
`Outbox`: weak fairness of the clock and of each worker's `Work`, because the ticker of
`cmd/worker/main.go` polls for ever and a batch is carried through or rolled back. A crash is not fair
and is bounded by `MaxFaults`: a worker that dies in every batch delivers nothing, and no code could change
that. The other modules state safety only: their requests end at their first failure, so that nothing is promised.

## 6. Proofs

All are checked by TLAPS for every value of the constants under the named assumptions of the modules
(`BookingAssumption`, `MeetAssumption`, `OutboxAssumption`, `GenerateAssumption`, `AvailabilityAssumption`, `SlotRegenAssumption`,
`CatalogAssumption`, `SessionsAssumption`, `ConnPoolAssumption`: distinct ids, natural numbers, validated rules), which
TLC evaluates in the runs.

*Booking.* `SlotFlagTruthful` is not inductive: whether a commit keeps it depends on what the transaction has
already written and which locks it has. `IInv` in `BookingProofs` adds, for each statement of a request, what it
holds locked and how the newest versions of those rows differ from the committed ones, and that a version
differs only under a lock. From it follow `TypeCorrect`, `FlagCorrect` and `RememberedCorrect`.
`DeadlockFree` follows from the same invariant, by what a waiting request holds. A request that has locked a slot
waits for nobody (`FreeSlotNeverWaits`, `IndexNeverWaits`, `SlotHolderNeverWaits`), and a request that waits for a
slot waits for one of those. A request that waits for a booking row waits at most for one that waits for a slot
(`WaitOrder`), so no set of requests can wait in a ring. `CutoffHolds` and
`Refinement` are proved step by step: a commit is a `Book`, a `Move` or a `Cancel` of the ledger, and every other
statement changes nothing that others can see.

*MeetBooking.* `TypeCorrect` bounds the counter by the plan under all faults. `QuotaAcrossMonths` proves
`ExcessGivenBack`: `QuotaInv` says that the bookings counted in the current period that have a link or may still record
one are at most the counter and the earlier counts that have been given back since. In one month (`MaxMonth = 0`) nothing was counted earlier, which
is `QuotaWithinMonth`: `MonthlyLinksWithinPlan`. Over two months that is false (section 7). `OutcomeInv` says, for each
step of the chain, what has been written and queued (`Queued`), that the reminders, the patches on their way and the
event follow the slots (`Moved`), and from its insert to a delete that the event is there (`Followed`), each with the mishap in
`missed` that excuses it (`Excused`). `RemindersHold`, `AnswersHold`, `NoOrphans` and `EventHolds` follow under any faults,
for any number of bookings amiss. What they except are mishaps of the booking itself, named in the property.

*Outbox.* Five properties follow from one invariant, for any number of bookings, slots, workers, rows and faults.
`ReminderInv` is what `RemindersCorrect` and `RemindersQueuedCorrect` need: a reminder is due the lead before its slot,
each pending one is for the slot its booking holds and the only one of its booking. A reminder that is not due yet is in no
batch (`LockInv`: what a worker has is pending and due, and no other worker has it), so that nothing but a request of its booking ends
it. `MarksOf` relates marks to e-mails: a row marked sent, committed or not, has been mailed, and without a fault a pending row
without such a mark has not, which is why a second claim cannot mail twice (`MarksCorrect`). `LedgerInv` is the
part about slots and bookings. `TypeCorrect` and `StatusFinalCorrect` follow too.

*SlotGenerate.* `RulesCorrect`: the loop invariant `FreeInv` says that what is left of the day is inside its hours
and apart from every cut made so far, and that `t` has not fallen behind the interval it walks; it holds in every
zone, a change of the clock included. `DisjointCorrect`: `OrderInv` says that every candidate ends before all that is
still to come, and that midnights are a day apart, which needs a zone that does not change. `BufferCorrect`: `GapInv` says that what is missing from the
free intervals of a day is cut out of it, so that two candidates either come from one walk, a duration and a buffer
apart, or have a cut or the end of the hours between them (`Severed`). It needs the other half of `subtractOne` too, that nothing else is
removed (`SubtractOneComplete`). `ReferenceCorrect`: the loop gives what the definition of the candidates gives, day for day.
A free interval begins where working hours begin or a cut ends (`EdgeInv`), so that the starts reached from there are those of the
definition (`ReachedOnGrid`, and back, `GridReached`); what has been taken of the day are its earliest wanted starts, and the
others can still be come to until the day is full (`TodayInv`), which makes it the set that the definition picks by
counting (`EarliestWanted`); the days before have what they are to have, and a candidate belongs to a day of the window
(`PastInv`, `Calendar`).

*SlotRegen.* `BookedSlotsStay`: a slot that a booking refers to is there and no open transaction has deleted it
(`ReferencedThere`), because the removal tests the newest versions and locks what it removes, and a
transaction inserts only where there is no row or where it has deleted one (`InsertsFree`), so that its commit changes no
slot a booking refers to. `RulesCorrect`: the rules in force are sound because a replacement commits what
`validateInput` accepted, and what it accepts is sound although `hasOverlap` compares neighbours only
(`NeighboursSuffice`): between two intervals that overlap there is a neighbour of the first, taken by its least start, that
overlaps it too (`NeighbourExists`). `SettledCorrect`: the slots of a type whose last rebuild was undisturbed are those of the
rules in force. `HistoryInv` follows such a request from its first statement to its last: it runs alone (`Alone`), it has read
the rules and kinds now in force (`RequestInv`), the types it has yet to rebuild are not called settled (`Unsettled`), and for
the type at hand it knows after each statement how far the removal and the inserts have brought the slots to those rules,
while bookings only change which slots are booked (`SettledFit`).

*Catalog.* `MeetNeedsGoogle`: from the test to the write a request keeps the user it tested (`Found`), ids are not
reused, and no row changes its organisation or owner. `OwnerOnly` follows from the same invariant, since the
organisation found for the user still belongs to the user when the write comes. `LimitBounded`: the types of an organisation that never
paid, together with the inserts that have passed the test, are fewer than the limit and the number of requests
together; the request that passes the test has counted fewer than the limit (`Bounded`).

*Sessions.* `NobodyLockedOut`: the token a refresh has created is known to nobody else until its answer arrives
(`Unused`), so only the token it replaces can be revoked. `LogoutIsFinal`: as long as nothing disturbs a session it has
one request at a time and one live token, which is the browser's, or both during a rotation (`Orderly`).

*ConnPool.* `StallOnlyByCancel`: a request that holds a connection and waits for something other than a row is at the
second read of `CancelByToken`, and a row is held only by a request past its lock.

Only model-checked: liveness under fairness (`RequestsEnd` twice, `AllProcessed`), which the prover cannot do. Every invariant and
action property of a passing run is the statement of a theorem. Of the three that a run finds violated (section 7),
`LocalWorkingHours` and `ScheduledBookingsKept` are false of the code, and `MonthlyLinksWithinPlan` is true of a single month.

## 7. What the code does otherwise than it says

With a run that shows it:

- `meet_rollover`: a link counted in one month and given back in the next lowers the new month's count
  (`service.go:277`), so a free plan can make one link too many (PRD.md: 15 a month).
- `slot_clock`: clock times are added to the instant of midnight (`generate.go:146`), so on the two days a year a zone
  changes its clock, slots are an hour off.
- `type_delete`: a booking committed between the count of scheduled bookings and the delete of its type is deleted with
  it (`interviewtype/service.go:176`); its e-mails, the reminder included, still go out.

Without a run, because the model has the behaviour and a property would only restate it. Bookings and
Google Meet:

- A process that dies after the commit of a Google Meet booking leaves it scheduled with nobody told and no
  compensation (`service.go:216`, `242`; PRD.md:207 wants outbox rows within the transaction). `NoOrphanEvents` and
  `AnswersTruthful` say nothing of a booking whose request died.
- A compensation that fails is only logged (`service.go:328`): the client is refused and the booking stays scheduled,
  without a link. `AnswersTruthful` names the case.
- When a notification cannot be inserted after the link was recorded (`service.go:302-323`), the client is answered with an
  error although the booking stands, with its event, its count and perhaps an e-mail. `AnswersTruthful` says so of the
  answer "failed".
- A call to Google that fails after a commit is not repeated. The delete of an event that could not be recorded has its
  error ignored (`service.go:297`), the delete after a cancel and the patch after a reschedule are only logged
  (`modify.go:333`, `204`). So an event stays without a booking, or at the slot before the move. An event also stays when
  Google's reply to its creation is lost, or when the recruiter cancels before its id is recorded (`service.go:290`), in
  which case the client is told of success. `NoOrphanEvents` and `EventFollowsMove` say that nothing else leaves one.
- The reminder of a Google Meet booking is queued last and for the first slot, even if the candidate has moved or
  cancelled by then (`service.go:321`). `OnlyFirstReminderStale` says that it is the only one.
- Patches of two reschedules reach Google in any order, so the event can end at the earlier slot (`modify.go:204`).
  `EventFollowsMove` states what holds: the first move, unless its patch failed.
- A refused Google Meet booking leaves a cancelled row; `google_meet_booking_test.go:118` and `:150` count rows of any
  status and expect none.
- A reschedule queues one e-mail, for the candidate (`modify.go:179`); PRD.md:57 and :200 promise the recruiter one.
- `CancelByToken` can stall the pool (`modify.go:269`): `Stalled` of `ConnPool` is reachable, `StallNeedsCancel` says only so.
- A slot that has begun, or lies past the horizon, can be booked by its id: `GetSlotForUpdate` tests the flag alone.
- Bookings are exclusive per slot and slots are per type, so two types of one recruiter offer the same hour.
- The daily maximum, which is a setting of the organisation, is counted for each type by itself
  (`slot/service.go:169`, whose comment says that it is meant so). `TestDeleteInterviewTypeSuccess`
  (`test/integration/interview_type_delete_test.go:110-119`) expects a second type to have no slots as long as the first
  holds the organisation's quota. `SettledSlots` states what the code does, not what that test expects.

Slots, rules and types:

- The buffer is kept inside one free interval only. Working hours that meet, or a break shorter than the buffer,
  make interviews back to back (`generate.go:98`; PRD.md:43). `BufferKept` states exactly what is kept.
- In a zone west of UTC whose clock goes forward at midnight (Chile, Cuba), `startOfDay` of that day is 23:00 of the
  day before (`generate.go:142`): `AddDate` then visits the day before twice, its candidates come out twice, and the
  bulk insert meets `UNIQUE (interview_type_id, start_at)`. `SlotsDisjoint` is therefore stated for zones that do not change.
- Creating or changing a type commits the row before its slots: a failure in between leaves slots of the old
  duration, or none, and a retry of the update finds the duration unchanged and rebuilds nothing
  (`interviewtype/service.go:150`).
- Rules are read by four statements, so a type that is changed while the availability is replaced can be built from both
  versions, and two rebuilds at once can mix their grids or meet the unique index. `SettledSlots` is about rebuilds
  nothing overlapped, and no property covers the others.
- A daily count that fails outside a transaction is taken for a full day (`slot/service.go:171`), so that day gets no
  slots. `SettledSlots` says nothing after such a rebuild.
- Kept slots are compared by their starts alone, so a new grid can overlap them (`slot/service.go:164`). A slot that a
  cancel or a reschedule frees can be booked again although the rules, or time off, exclude it by now.
- The window moves only when something is saved; PRD.md:215 wants it to roll.
- `Book` locks a slot and then refers to its type, a delete of the type locks the type and then its slots: PostgreSQL
  aborts one of them. `Abort` and `Fail` stand for it.

Organisations, types and sessions:

- The limit of the free plan is tested by a count before the insert (`interviewtype/service.go:43`; PRD.md:91 and :266: 3), so
  creates that overlap exceed it, by at most their number less one: `TypesBounded`.
- `DeleteOrg` deletes bookings without a look at them, unlike the delete of a type.
- A `CreateOrg` sent twice at once can be answered with "slug taken": the unique violation is not told apart.
- Disconnecting Google leaves the types that need it (PRD.md:188 requires a connected account); the signed state of a connect
  can be used again for ten minutes, after a disconnect too. `MeetTypesLinked` says only that the owner once was connected.
- Two refreshes that overlap leave two live tokens, and a refresh that overlaps a logout leaves one; that is what the
  hypothesis of `LogoutFinal` excludes. Access tokens stay valid until they expire.
- A registration whose token cannot be stored is answered 500 although the account exists.

## 8. Not modelled

Reads that change nothing (metadata, slot lists, dashboards, `UsageForOrg`); `UpdateLogo`, whose column nothing reads;
validation and formatting of other input and of e-mails; passwords and access tokens; token encryption and the OAuth
exchange; the HTTP retry after a 401 from Google; routing, logging and configuration. `RevokeAllForUser` is called from
nowhere. In `Booking` the slots are fixed: `ReferencedSlotsKept` shows that a rebuild does not touch a slot a booking refers to.
In `SlotRegen` the clock stands at the start of a day while the requests run, every day has the same hours,
and deletions of an organisation are left to `Catalog`. `Catalog` leaves out what its requests do to slots.
