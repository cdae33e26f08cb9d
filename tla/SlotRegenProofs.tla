--------------------------- MODULE SlotRegenProofs ---------------------------
(***************************************************************************)
(* Proofs about SlotRegen, for any types, bookings, rules and requests:    *)
(* types of the variables; that no rebuilding, whatever it overlaps,       *)
(* touches a slot that a booking refers to; that the rules in force are    *)
(* valid; and that a type whose rebuild nothing overlapped has the slots   *)
(* of the rules.                                                           *)
(***************************************************************************)
EXTENDS SlotRegen, TLAPS, FiniteSetTheorems, SequenceTheorems, WellFoundedInduction

(* Every slot a booking refers to is there, and no transaction has deleted
   it: the rows are tested again when they are deleted, and cannot be booked
   afterwards. *)
ReferencedThere ==
  \A t \in Types, s \in Times : Referenced(t, s) => slot[t][s] # 0 /\ <<t, s>> \notin tx.gone

(* A transaction inserts only where there is no row, or where it deleted one. *)
InsertsFree ==
  \A t \in Types, s \in Times : tx.new[t][s] # 0 => slot[t][s] = 0 \/ <<t, s>> \in tx.gone

Inv == TypeOK /\ ReferencedThere /\ InsertsFree

-----------------------------------------------------------------------------
Txs == [by : Procs \cup {Nobody}, rules : Inputs \cup {NoRules}, gone : SUBSET (Types \X Times),
        new : [Types -> [Times -> Nat]]]

LEMMA Constants ==
  /\ NoSlots \in [Types -> [Times -> Nat]]
  /\ NoType \in Kinds \cup {NoType}
  /\ NoTx \in Txs /\ NoTx.by = Nobody /\ NoTx.gone = {} /\ NoTx.new = NoSlots
  /\ \A t \in Types, s \in Times : NoSlots[t][s] = 0
  BY DEF NoSlots, NoTx, Txs

LEMMA NoReqType == NoReq \in Reqs
  BY DEF NoReq, Reqs, ReadRules, NoRules

(* The transaction that is open, if there is one. *)
LEMMA TxType == ASSUME TypeOK PROVE tx \in Txs /\ (tx.by \in Procs => tx.rules \in Inputs)
  BY Constants, SlotRegenAssumption DEF TypeOK, Txs, NoTx

LEMMA KeepType ==
  ASSUME NEW r \in Reqs, NEW t \in Types, NEW starts \in SUBSET Times
  PROVE  Keep(r, t, starts) \in Reqs /\ Keep(r, t, starts).type = r.type
  BY DEF Keep, Reqs

LEMMA ForgetType ==
  ASSUME NEW r \in Reqs, NEW gone
  PROVE  Forget(gone, r) \in Reqs /\ Forget(gone, r).type = r.type
  BY DEF Forget, Reqs

LEMMA DisturbedType ==
  ASSUME NEW r \in Reqs
  PROVE  Disturbed(r) \in Reqs /\ Disturbed(r).type = r.type
  BY NoReqType DEF Disturbed, Reqs

LEMMA HistoryType ==
  ASSUME TypeOK, NEW r \in Reqs, NEW types \in SUBSET Types, Settle(r, types)
  PROVE  kept' \in [Types -> SUBSET Times] /\ settled' \subseteq Types
<1>1. r.kept \in [Types -> SUBSET Times]
  BY DEF Reqs
<1>2. kept \in [Types -> SUBSET Times] /\ settled \subseteq Types
  BY DEF TypeOK
<1>3. CASE r.undisturbed
  BY <1>1, <1>2, <1>3 DEF Settle
<1>4. CASE ~r.undisturbed
  BY <1>2, <1>4 DEF Settle
<1> QED
  BY <1>3, <1>4

LEMMA UnsettleType ==
  ASSUME TypeOK, NEW t, Unsettle(t)
  PROVE  kept' \in [Types -> SUBSET Times] /\ settled' \subseteq Types
  BY DEF Unsettle, TypeOK

(* The part of TypeOK that most steps leave alone. *)
HistoryOK == kept' \in [Types -> SUBSET Times] /\ settled' \subseteq Types

(* One request goes on and no other is touched. *)
LEMMA LocalType ==
  ASSUME TypeOK, NEW p \in Procs, NEW label \in Labels, NEW r \in Reqs, Goto(p, label), Set(p, r),
         label \in TypeLabels => r.type \in Types, tx' = tx \/ tx' = NoTx, HistoryOK,
         type' \in [Types -> Kinds \cup {NoType}], UNCHANGED <<rules, slot, booking, begun>>
  PROVE  TypeOK'
  BY DEF TypeOK, Goto, Set, HistoryOK

LEMMA EndType ==
  ASSUME TypeOK, NEW p \in Procs, End(p), HistoryOK, type' \in [Types -> Kinds \cup {NoType}],
         UNCHANGED <<rules, slot, booking, begun>>
  PROVE  TypeOK'
<1> HIDE DEF NoReq
<1>1. Goto(p, "idle") /\ Set(p, NoReq) /\ (tx' = tx \/ tx' = NoTx)
  BY DEF End
<1>2. "idle" \in Labels /\ "idle" \notin TypeLabels
  BY DEF Labels, TypeLabels
<1> QED
  BY <1>1, <1>2, LocalType, NoReqType

(* A request begins. *)
LEMMA BeginType ==
  ASSUME TypeOK, NEW p \in Procs, NEW label \in Labels, NEW r \in Reqs, Begin(p, label, r),
         label \in TypeLabels => r.type \in Types, tx' = tx \/ (tx' \in Txs /\ tx'.by \in Procs /\ tx'.rules \in Inputs),
         HistoryOK, type' \in [Types -> Kinds \cup {NoType}], UNCHANGED <<rules, slot, booking>>
  PROVE  TypeOK'
<1> DEFINE own == [r EXCEPT !.undisturbed = \A o \in Procs : pc[o] = "idle"]
<1>1. own \in Reqs /\ own.type = r.type
  BY DEF Reqs
<1> HIDE DEF own
<1>2. req' = [q \in Procs |-> CASE q = p -> own
                              [] q # p /\ pc[q] # "idle" -> Disturbed(req[q])
                              [] OTHER -> req[q]]
  BY DEF Begin, own
<1>3. ASSUME NEW q \in Procs
      PROVE  req'[q] \in Reqs /\ (q # p => req'[q].type = req[q].type) /\ (q = p => req'[q].type = r.type)
  BY <1>1, <1>2, DisturbedType DEF TypeOK
<1>4. req' \in [Procs -> Reqs]
  BY <1>2, <1>3
<1>5. begun' \in 0..MaxRequests
  BY SlotRegenAssumption DEF Begin, TypeOK
<1>6. tx' = NoTx \/ tx' \in [by : Procs, rules : Inputs, gone : SUBSET (Types \X Times), new : [Types -> [Times -> Nat]]]
  BY DEF TypeOK, Txs
<1> QED
  BY <1>3, <1>4, <1>5, <1>6 DEF TypeOK, Begin, Goto, HistoryOK

(* The tables stay as they are: the other two parts of Inv. *)
LEMMA QuietStep ==
  ASSUME Inv, TypeOK', UNCHANGED <<slot, booking>>, tx' = tx \/ (tx'.gone = {} /\ tx'.new = NoSlots)
  PROVE  Inv'
  BY Constants DEF Inv, ReferencedThere, InsertsFree, Referenced

-----------------------------------------------------------------------------
LEMMA InitInv == Init => Inv
<1> SUFFICES ASSUME Init PROVE Inv
  OBVIOUS
<1> HIDE DEF NoReq, NoTx, NoSlots
<1>1. type \in [Types -> Kinds \cup {NoType}]
  BY SlotRegenAssumption DEF Init
<1>2. ASSUME NEW t \in Types, NEW k \in [Types -> Kinds \cup {NoType}], NEW in
      PROVE  Built(t, k, in) \in [Times -> Nat]
  BY SlotRegenAssumption DEF Built, NoReq, NoType
<1>3. slot \in [Types -> [Times -> Nat]]
  BY <1>1, <1>2, Constants DEF Init
<1>4. \A t \in Types, s \in Times : ~Booked(t, s)
  BY DEF Init, Booked, NoBooking
<1>5. ASSUME NEW t \in Types, NEW s \in Times, Referenced(t, s) PROVE slot[t][s] # 0
  <2>1. PICK b \in Bookings : booking[b].status # "none" /\ booking[b].at = <<t, s>>
    BY <1>5 DEF Referenced
  <2>2. booking[b] # NoBooking /\ b \in Past
    BY <2>1 DEF Init, NoBooking
  <2> QED
    BY <2>1, <2>2 DEF Init
<1>6. booking \in [Bookings -> {NoBooking} \cup [status : {"scheduled", "cancelled"}, at : Types \X Times]]
  BY DEF Init
<1>7. TypeOK
  BY <1>1, <1>3, <1>6, NoReqType, SlotRegenAssumption DEF Init, TypeOK, Labels, TypeLabels
<1>8. ReferencedThere
  BY <1>5, Constants DEF Init, ReferencedThere
<1>9. InsertsFree
  BY Constants DEF Init, InsertsFree
<1> QED
  BY <1>7, <1>8, <1>9 DEF Inv

LEMMA UpsertStep ==
  ASSUME Inv, NEW p \in Procs, NEW in \in Inputs, Upsert(p, in)
  PROVE  Inv'
<1> HIDE DEF NoReq, NoSlots
<1>1. tx' \in Txs /\ tx'.by \in Procs /\ tx'.rules \in Inputs /\ tx'.gone = {} /\ tx'.new = NoSlots
  BY Constants DEF Upsert, Txs
<1>2. HistoryOK /\ type' \in [Types -> Kinds \cup {NoType}]
  BY DEF Inv, TypeOK, HistoryOK, Upsert
<1>3. "listTypes" \in Labels /\ "listTypes" \notin TypeLabels
  BY DEF Labels, TypeLabels
<1>4. TypeOK'
  BY <1>1, <1>2, <1>3, BeginType, NoReqType DEF Upsert, Inv
<1> QED
  BY <1>1, <1>4, QuietStep DEF Upsert

LEMMA CreateTypeStep ==
  ASSUME Inv, NEW p \in Procs, NEW t \in Types, NEW k \in Kinds, CreateType(p, t, k)
  PROVE  Inv'
<1> DEFINE r == [NoReq EXCEPT !.type = t, !.kind[t] = k]
<1>1. r \in Reqs /\ r.type = t
  BY NoReqType DEF Reqs
<1>0. Begin(p, "getType", r) /\ UNCHANGED <<rules, slot, booking>> /\ tx' = tx
  BY DEF CreateType
<1> HIDE DEF r
<1>2. HistoryOK /\ type' \in [Types -> Kinds \cup {NoType}]
  BY UnsettleType DEF Inv, TypeOK, HistoryOK, CreateType
<1>3. "getType" \in Labels
  BY DEF Labels
<1>4. TypeOK'
  BY <1>0, <1>1, <1>2, <1>3, BeginType DEF Inv
<1> QED
  BY <1>0, <1>4, QuietStep

LEMMA ReadExistingStep ==
  ASSUME Inv, NEW p \in Procs, NEW t \in Types, NEW k \in Kinds, ReadExisting(p, t, k)
  PROVE  Inv'
<1> DEFINE r == [NoReq EXCEPT !.type = t, !.kind[t] = k, !.existing = type[t]]
<1>1. r \in Reqs /\ r.type = t
  BY NoReqType DEF Reqs, Inv, TypeOK
<1>0. Begin(p, "updateType", r) /\ UNCHANGED <<rules, slot, booking>> /\ tx' = tx
  BY DEF ReadExisting
<1> HIDE DEF r
<1>2. HistoryOK /\ type' \in [Types -> Kinds \cup {NoType}]
  BY DEF Inv, TypeOK, HistoryOK, ReadExisting
<1>3. "updateType" \in Labels
  BY DEF Labels
<1>4. TypeOK'
  BY <1>0, <1>1, <1>2, <1>3, BeginType DEF Inv
<1> QED
  BY <1>0, <1>4, QuietStep

LEMMA BeginDeleteStep ==
  ASSUME Inv, NEW p \in Procs, NEW t \in Types, BeginDelete(p, t)
  PROVE  Inv'
<1> DEFINE r == [NoReq EXCEPT !.type = t]
<1>1. r \in Reqs /\ r.type = t
  BY NoReqType DEF Reqs
<1>0. Begin(p, "countScheduled", r) /\ UNCHANGED <<rules, slot, booking>> /\ tx' = tx
  BY DEF BeginDelete
<1> HIDE DEF r
<1>2. HistoryOK /\ type' \in [Types -> Kinds \cup {NoType}]
  BY DEF Inv, TypeOK, HistoryOK, BeginDelete
<1>3. "countScheduled" \in Labels
  BY DEF Labels
<1>4. TypeOK'
  BY <1>0, <1>1, <1>2, <1>3, BeginType DEF Inv
<1> QED
  BY <1>0, <1>4, QuietStep

(* A request ends, and its transaction with it. *)
LEMMA EndStep ==
  ASSUME Inv, NEW p \in Procs, End(p), HistoryOK, type' \in [Types -> Kinds \cup {NoType}],
         UNCHANGED <<rules, slot, booking, begun>>
  PROVE  Inv'
<1>1. TypeOK'
  BY EndType DEF Inv
<1>2. tx' = tx \/ tx' = NoTx
  BY DEF End
<1>3. NoTx.gone = {} /\ NoTx.new = NoSlots
  BY Constants
<1> HIDE DEF NoTx
<1>4. tx' = tx \/ (tx'.gone = {} /\ tx'.new = NoSlots)
  BY <1>2, <1>3
<1> QED
  BY <1>1, <1>4, QuietStep

(* A request goes on and writes nothing but its own variables. *)
LEMMA LocalStep ==
  ASSUME Inv, NEW p \in Procs, NEW label \in Labels, NEW r \in Reqs, Goto(p, label), Set(p, r),
         label \in TypeLabels => r.type \in Types, HistoryOK,
         type' \in [Types -> Kinds \cup {NoType}], UNCHANGED <<rules, slot, booking, begun, tx>>
  PROVE  Inv'
<1>1. TypeOK'
  BY LocalType DEF Inv
<1>2. UNCHANGED <<slot, booking>> /\ tx' = tx
  OBVIOUS
<1> QED
  BY <1>1, <1>2, QuietStep

LEMMA HistoryUnchanged ==
  ASSUME TypeOK, UNCHANGED <<kept, settled>>
  PROVE  HistoryOK
  BY DEF TypeOK, HistoryOK

LEMMA UpdateTypeStep ==
  ASSUME Inv, NEW p \in Procs, UpdateType(p)
  PROVE  Inv'
<1> DEFINE r == [req[p] EXCEPT !.existing = NoType]
<1>0. req[p] \in Reqs /\ req[p].type \in Types
  BY DEF Inv, TypeOK, UpdateType, TypeLabels, Labels
<1>1. req[p] \in Reqs /\ req[p].type \in Types /\ req[p].kind[req[p].type] \in Kinds \cup {NoType}
  BY <1>0 DEF Reqs
<1>2. r \in Reqs /\ r.type = req[p].type
  BY <1>1 DEF Reqs
<1>3. HistoryOK
  BY UnsettleType, HistoryUnchanged DEF Inv, UpdateType, HistoryOK
<1>4. type' \in [Types -> Kinds \cup {NoType}]
  BY <1>1 DEF Inv, TypeOK, UpdateType
<1>5. UNCHANGED <<rules, slot, booking, begun>>
  BY DEF UpdateType
<1>6. CASE End(p)
  BY <1>3, <1>4, <1>5, <1>6, EndStep
<1>7. CASE Goto(p, "getType") /\ Set(p, r) /\ tx' = tx
  <2>1. "getType" \in Labels
    BY DEF Labels
  <2> HIDE DEF r
  <2> QED
    BY <1>1, <1>2, <1>3, <1>4, <1>5, <1>7, <2>1, LocalStep
<1> QED
  BY <1>6, <1>7 DEF UpdateType

LEMMA CountScheduledStep ==
  ASSUME Inv, NEW p \in Procs, CountScheduled(p)
  PROVE  Inv'
<1>1. req[p] \in Reqs /\ req[p].type \in Types /\ "deleteType" \in Labels
  BY DEF Inv, TypeOK, CountScheduled, TypeLabels, Labels
<1>2. HistoryOK /\ type' \in [Types -> Kinds \cup {NoType}] /\ UNCHANGED <<rules, slot, booking, begun>>
  BY HistoryUnchanged DEF CountScheduled, Inv, TypeOK
<1>3. CASE End(p)
  BY <1>2, <1>3, EndStep
<1>4. CASE Goto(p, "deleteType") /\ UNCHANGED <<req, tx>>
  <2>1. Set(p, req[p])
    BY <1>4 DEF Set, Inv, TypeOK
  <2> QED
    BY <1>1, <1>2, <1>4, <2>1, LocalStep
<1> QED
  BY <1>3, <1>4 DEF CountScheduled

LEMMA DeleteTypeStep ==
  ASSUME Inv, NEW p \in Procs, DeleteType(p)
  PROVE  Inv'
<1> DEFINE t == req[p].type
           r == [req[p] EXCEPT !.type = NoType]
<1> HIDE DEF NoSlots
<1>1. req[p] \in Reqs /\ t \in Types
  BY DEF Inv, TypeOK, DeleteType, TypeLabels, Labels
<1>2. r \in Reqs
  BY <1>1 DEF Reqs
<1>3. HistoryOK
  BY UnsettleType DEF Inv, DeleteType, HistoryOK
<1>4. type' \in [Types -> Kinds \cup {NoType}] /\ slot' \in [Types -> [Times -> Nat]]
  BY <1>1, Constants DEF Inv, TypeOK, DeleteType
<1>5. req' = [q \in Procs |-> IF q = p THEN r ELSE Forget({t} \X Times, req[q])]
  BY DEF DeleteType
<1> HIDE DEF r
<1>6. ASSUME NEW q \in Procs PROVE req'[q] \in Reqs /\ (q # p => req'[q].type = req[q].type)
  BY <1>2, <1>5, ForgetType DEF Inv, TypeOK
<1>7. req' \in [Procs -> Reqs]
  BY <1>5, <1>6
<1>8. pc' \in [Procs -> Labels] /\ pc'[p] \notin TypeLabels /\ \A q \in Procs \ {p} : pc'[q] = pc[q]
  BY DEF DeleteType, Goto, Inv, TypeOK, Labels, TypeLabels
<1>9. booking' \in [Bookings -> {NoBooking} \cup [status : {"scheduled", "cancelled"}, at : Types \X Times]]
  BY DEF DeleteType, Inv, TypeOK
<1>10. TypeOK'
  BY <1>3, <1>4, <1>6, <1>7, <1>8, <1>9 DEF DeleteType, Inv, TypeOK, HistoryOK
<1>11. ASSUME NEW u \in Types, NEW s \in Times, Referenced(u, s)'
       PROVE  u # t /\ Referenced(u, s)
  BY <1>11 DEF DeleteType, Referenced, NoBooking
<1>12. \A u \in Types : slot'[u] = IF u = t THEN NoSlots[t] ELSE slot[u]
  BY <1>1 DEF DeleteType, Inv, TypeOK
<1>13. ReferencedThere'
  BY <1>11, <1>12 DEF DeleteType, Inv, ReferencedThere
<1>14. InsertsFree'
  BY <1>1, <1>12, Constants DEF DeleteType, Inv, InsertsFree
<1> QED
  BY <1>10, <1>13, <1>14 DEF Inv

LEMMA ListTypesStep ==
  ASSUME Inv, NEW p \in Procs, ListTypes(p)
  PROVE  Inv'
<1> DEFINE r == [req[p] EXCEPT !.kind = type, !.todo = {t \in Types : Exists(t)}]
<1>0. req[p] \in Reqs /\ type \in [Types -> Kinds \cup {NoType}]
  BY DEF Inv, TypeOK
<1>1. r \in Reqs /\ "settings" \in Labels /\ "settings" \notin TypeLabels
  BY <1>0 DEF Reqs, Labels, TypeLabels
<1>2. HistoryOK /\ type' \in [Types -> Kinds \cup {NoType}] /\ UNCHANGED <<rules, slot, booking, begun, tx>>
  BY HistoryUnchanged DEF ListTypes, Inv, TypeOK
<1>3. Goto(p, "settings") /\ Set(p, r)
  BY DEF ListTypes
<1> HIDE DEF r
<1> QED
  BY <1>1, <1>2, <1>3, LocalStep

LEMMA GetTypeStep ==
  ASSUME Inv, NEW p \in Procs, GetType(p)
  PROVE  Inv'
<1> DEFINE r == [req[p] EXCEPT !.todo = {req[p].type}]
<1>0. req[p] \in Reqs /\ req[p].type \in Types
  BY DEF Inv, TypeOK, GetType, TypeLabels, Labels
<1>1. r \in Reqs /\ "settings" \in Labels /\ "settings" \notin TypeLabels
  BY <1>0 DEF Reqs, Labels, TypeLabels
<1>2. HistoryOK /\ type' \in [Types -> Kinds \cup {NoType}] /\ UNCHANGED <<rules, slot, booking, begun, tx>>
  BY HistoryUnchanged DEF GetType, Inv, TypeOK
<1>3. Goto(p, "settings") /\ Set(p, r)
  BY DEF GetType
<1> HIDE DEF r
<1> QED
  BY <1>1, <1>2, <1>3, LocalStep

(* What a request reads of the rules are rules that were sent, or none. *)
LEMMA SeenRulesType ==
  ASSUME TypeOK, NEW p \in Procs
  PROVE  SeenRules(p) \in Inputs \cup {NoRules}
  BY TxType DEF SeenRules, TypeOK

LEMMA ReadRulesType ==
  ASSUME NEW r \in Reqs, NEW v \in Inputs \cup {NoRules}
  PROVE  /\ [r EXCEPT !.rules.maxPerDay = v.maxPerDay, !.rules.horizon = v.horizon] \in Reqs
         /\ [r EXCEPT !.rules.hours = v.hours] \in Reqs
         /\ [r EXCEPT !.rules.breaks = v.breaks] \in Reqs
         /\ [r EXCEPT !.rules.timeOff = v.timeOff] \in Reqs
<1>1. r.rules \in ReadRules
  BY DEF Reqs
<1>2. /\ [r.rules EXCEPT !.maxPerDay = v.maxPerDay, !.horizon = v.horizon] \in ReadRules
      /\ [r.rules EXCEPT !.hours = v.hours] \in ReadRules
      /\ [r.rules EXCEPT !.breaks = v.breaks] \in ReadRules
      /\ [r.rules EXCEPT !.timeOff = v.timeOff] \in ReadRules
  BY <1>1 DEF ReadRules
<1>3. ASSUME NEW n \in ReadRules PROVE [r EXCEPT !.rules = n] \in Reqs
  BY DEF Reqs
<1> HIDE DEF ReadRules
<1>4. /\ [r EXCEPT !.rules.maxPerDay = v.maxPerDay, !.rules.horizon = v.horizon]
           = [r EXCEPT !.rules = [r.rules EXCEPT !.maxPerDay = v.maxPerDay, !.horizon = v.horizon]]
      /\ [r EXCEPT !.rules.hours = v.hours] = [r EXCEPT !.rules = [r.rules EXCEPT !.hours = v.hours]]
      /\ [r EXCEPT !.rules.breaks = v.breaks] = [r EXCEPT !.rules = [r.rules EXCEPT !.breaks = v.breaks]]
      /\ [r EXCEPT !.rules.timeOff = v.timeOff] = [r EXCEPT !.rules = [r.rules EXCEPT !.timeOff = v.timeOff]]
  BY DEF Reqs
<1> QED
  BY <1>2, <1>3, <1>4

LEMMA ReadSettingsStep ==
  ASSUME Inv, NEW p \in Procs, ReadSettings(p)
  PROVE  Inv'
<1> DEFINE v == SeenRules(p)
           r == [req[p] EXCEPT !.rules.maxPerDay = v.maxPerDay, !.rules.horizon = v.horizon]
<1>1. req[p] \in Reqs /\ req[p].todo \in SUBSET Types
  BY DEF Inv, TypeOK, Reqs
<1>2. v \in Inputs \cup {NoRules}
  BY SeenRulesType DEF Inv
<1>3. r \in Reqs /\ "hours" \in Labels /\ "hours" \notin TypeLabels
  BY <1>1, <1>2, ReadRulesType DEF Labels, TypeLabels
<1>4. type' \in [Types -> Kinds \cup {NoType}] /\ UNCHANGED <<rules, slot, booking, begun>>
  BY DEF ReadSettings, Inv, TypeOK
<1>5. CASE End(p) /\ Settle(req[p], req[p].todo)
  <2>1. HistoryOK
    BY <1>1, <1>5, HistoryType DEF Inv, HistoryOK
  <2> QED
    BY <1>4, <1>5, <2>1, EndStep
<1>6. CASE Set(p, r) /\ Goto(p, "hours") /\ UNCHANGED <<tx, settled, kept>>
  <2>1. HistoryOK
    BY <1>6, HistoryUnchanged DEF Inv
  <2> HIDE DEF r
  <2> QED
    BY <1>3, <1>4, <1>6, <2>1, LocalStep
<1> QED
  BY <1>5, <1>6 DEF ReadSettings

LEMMA ListWorkingHoursStep ==
  ASSUME Inv, NEW p \in Procs, ListWorkingHours(p)
  PROVE  Inv'
<1> DEFINE r == [req[p] EXCEPT !.rules.hours = SeenRules(p).hours]
<1>1. r \in Reqs /\ "breaks" \in Labels /\ "breaks" \notin TypeLabels
  BY SeenRulesType, ReadRulesType DEF Inv, TypeOK, Labels, TypeLabels
<1>2. HistoryOK /\ type' \in [Types -> Kinds \cup {NoType}] /\ UNCHANGED <<rules, slot, booking, begun, tx>>
  BY HistoryUnchanged DEF ListWorkingHours, Inv, TypeOK
<1>3. Goto(p, "breaks") /\ Set(p, r)
  BY DEF ListWorkingHours
<1> HIDE DEF r
<1> QED
  BY <1>1, <1>2, <1>3, LocalStep

LEMMA ListBreaksStep ==
  ASSUME Inv, NEW p \in Procs, ListBreaks(p)
  PROVE  Inv'
<1> DEFINE r == [req[p] EXCEPT !.rules.breaks = SeenRules(p).breaks]
<1>1. r \in Reqs /\ "timeOff" \in Labels /\ "timeOff" \notin TypeLabels
  BY SeenRulesType, ReadRulesType DEF Inv, TypeOK, Labels, TypeLabels
<1>2. HistoryOK /\ type' \in [Types -> Kinds \cup {NoType}] /\ UNCHANGED <<rules, slot, booking, begun, tx>>
  BY HistoryUnchanged DEF ListBreaks, Inv, TypeOK
<1>3. Goto(p, "timeOff") /\ Set(p, r)
  BY DEF ListBreaks
<1> HIDE DEF r
<1> QED
  BY <1>1, <1>2, <1>3, LocalStep

(* One type after the other. *)
LEMMA AdvanceStep ==
  ASSUME Inv, NEW p \in Procs, NEW r \in Reqs, Advance(p, r), HistoryOK,
         UNCHANGED <<rules, type, slot, booking, begun, tx>>
  PROVE  Inv'
<1> DEFINE label == IF r.todo # {} THEN "nextType" ELSE IF tx.by = p THEN "commit" ELSE "idle"
           next == IF r.todo # {} \/ tx.by = p THEN r ELSE NoReq
<1>1. label \in Labels /\ label \notin TypeLabels
  BY DEF Labels, TypeLabels
<1>2. next \in Reqs
  BY NoReqType
<1>3. Goto(p, label) /\ Set(p, next)
  BY DEF Advance
<1>4. type' \in [Types -> Kinds \cup {NoType}] /\ UNCHANGED <<rules, slot, booking, begun, tx>>
  BY DEF Inv, TypeOK
<1> HIDE DEF label, next
<1> QED
  BY <1>1, <1>2, <1>3, <1>4, LocalStep

LEMMA ListTimeOffStep ==
  ASSUME Inv, NEW p \in Procs, ListTimeOff(p)
  PROVE  Inv'
<1> DEFINE r == [req[p] EXCEPT !.rules.timeOff = SeenRules(p).timeOff]
<1>1. r \in Reqs
  BY SeenRulesType, ReadRulesType DEF Inv, TypeOK
<1>2. Advance(p, r)
  BY DEF ListTimeOff
<1>3. HistoryOK /\ UNCHANGED <<rules, type, slot, booking, begun, tx>>
  BY HistoryUnchanged DEF ListTimeOff, Inv
<1> HIDE DEF r
<1> QED
  BY <1>1, <1>2, <1>3, AdvanceStep

LEMMA EndOfTypeStep ==
  ASSUME Inv, NEW p \in Procs, EndOfType(p)
  PROVE  Inv'
<1> DEFINE r == [req[p] EXCEPT !.type = NoType, !.todo = @ \ {req[p].type}]
<1>1. req[p] \in Reqs /\ req[p].type \in Types
  BY DEF Inv, TypeOK, EndOfType, TypeLabels, Labels
<1>2. r \in Reqs
  BY <1>1 DEF Reqs
<1>3. Advance(p, r)
  BY DEF EndOfType
<1>4. HistoryOK
  BY <1>1, HistoryType, HistoryUnchanged DEF EndOfType, Inv, HistoryOK
<1>5. UNCHANGED <<rules, type, slot, booking, begun, tx>>
  BY DEF EndOfType
<1> HIDE DEF r
<1> QED
  BY <1>2, <1>3, <1>4, <1>5, AdvanceStep

-----------------------------------------------------------------------------
LEMMA SnapshotType ==
  ASSUME NEW p \in Procs, NEW t \in Types, NEW starts \in SUBSET Times
  PROVE  Snapshot(p, t, starts) \in SUBSET (Types \X Times) /\ ReferencedStarts(t) \in SUBSET Times
  BY DEF Snapshot, ReferencedStarts

LEMMA SnapshotWindowStep ==
  ASSUME Inv, NEW p \in Procs, NEW t \in Types, SnapshotWindow(p, t)
  PROVE  Inv'
<1> DEFINE window == {s \in Times : InWindow(s, req[p].rules.horizon)}
           r == [req[p] EXCEPT !.type = t, !.victims = Snapshot(p, t, window)]
           k == Keep(r, t, ReferencedStarts(t))
<1>1. window \in SUBSET Times /\ req[p] \in Reqs
  BY DEF Inv, TypeOK
<1> HIDE DEF window
<1>2. r \in Reqs /\ r.type = t
  BY <1>1, SnapshotType DEF Reqs
<1>3. Goto(p, "deleteWindow") /\ Set(p, k)
  BY DEF SnapshotWindow, window
<1> HIDE DEF r
<1>4. k \in Reqs /\ k.type = t
  BY <1>2, KeepType, SnapshotType
<1>5. HistoryOK
  BY UnsettleType, HistoryUnchanged DEF SnapshotWindow, Inv, HistoryOK
<1>6. "deleteWindow" \in Labels /\ type' \in [Types -> Kinds \cup {NoType}]
      /\ UNCHANGED <<rules, slot, booking, begun, tx>>
  BY DEF SnapshotWindow, Inv, TypeOK, Labels
<1> HIDE DEF k
<1> QED
  BY <1>3, <1>4, <1>5, <1>6, LocalStep

LEMMA SnapshotAfterStep ==
  ASSUME Inv, NEW p \in Procs, SnapshotAfter(p)
  PROVE  Inv'
<1> DEFINE after == {s \in Times : ~InWindow(s, req[p].rules.horizon)}
           t == req[p].type
           r == [req[p] EXCEPT !.victims = Snapshot(p, t, after)]
           k == Keep(r, t, ReferencedStarts(t))
<1>1. after \in SUBSET Times /\ req[p] \in Reqs /\ t \in Types
  BY DEF Inv, TypeOK, SnapshotAfter, TypeLabels, Labels
<1>2. Goto(p, "deleteAfter") /\ Set(p, k)
  BY DEF SnapshotAfter
<1> HIDE DEF after
<1>3. r \in Reqs /\ r.type = t
  BY <1>1, SnapshotType DEF Reqs
<1> HIDE DEF r
<1>4. k \in Reqs /\ k.type \in Types
  BY <1>1, <1>3, KeepType, SnapshotType
<1>5. HistoryOK
  BY HistoryUnchanged DEF SnapshotAfter, Inv
<1>6. "deleteAfter" \in Labels /\ type' \in [Types -> Kinds \cup {NoType}]
      /\ UNCHANGED <<rules, slot, booking, begun, tx>>
  BY DEF SnapshotAfter, Inv, TypeOK, Labels
<1> HIDE DEF k
<1> QED
  BY <1>2, <1>4, <1>5, <1>6, LocalStep

LEMMA ListSlotsStep ==
  ASSUME Inv, NEW p \in Procs, ListSlots(p)
  PROVE  Inv'
<1> DEFINE occupied == {s \in Times : InWindow(s, req[p].rules.horizon) /\ Seen(p, req[p].type, s) # 0}
           r == [req[p] EXCEPT !.occupied = occupied]
<1>1. occupied \in SUBSET Times /\ req[p] \in Reqs /\ req[p].type \in Types
  BY DEF Inv, TypeOK, ListSlots, TypeLabels, Labels
<1>2. Goto(p, "countSlots") /\ Set(p, r)
  BY DEF ListSlots
<1> HIDE DEF occupied
<1>3. r \in Reqs /\ r.type \in Types
  BY <1>1 DEF Reqs
<1>4. HistoryOK
  BY HistoryUnchanged DEF ListSlots, Inv
<1>5. "countSlots" \in Labels /\ type' \in [Types -> Kinds \cup {NoType}]
      /\ UNCHANGED <<rules, slot, booking, begun, tx>>
  BY DEF ListSlots, Inv, TypeOK, Labels
<1> HIDE DEF r
<1> QED
  BY <1>2, <1>3, <1>4, <1>5, LocalStep

LEMMA RoomType ==
  ASSUME NEW rows \in SUBSET Times, NEW max \in Nat, NEW d
  PROVE  Room(rows, max, d) \in Nat
<1> DEFINE day == {s \in rows : DayOf(s) = d}
<1>1. MaxHorizon * DayLength - 1 \in Int
  BY AvailabilityAssumption
<1>2. IsFiniteSet(Times)
  BY <1>1, FS_Interval DEF Times
<1>3. Cardinality(day) \in Nat
  BY <1>2, FS_Subset, FS_CardinalityType
<1> QED
  BY <1>3 DEF Room

LEMMA CountSlotsStep ==
  ASSUME Inv, NEW p \in Procs, NEW failing \in SUBSET Days, CountSlots(p, failing)
  PROVE  Inv'
<1> DEFINE rows == {s \in Times : Seen(p, req[p].type, s) # 0}
           room == [d \in Days |-> IF d \in failing THEN 0 ELSE Room(rows, req[p].rules.maxPerDay, d)]
           counted == [req[p] EXCEPT !.room = room]
           r == IF failing = {} THEN counted ELSE Disturbed(counted)
<1>1. rows \in SUBSET Times /\ req[p] \in Reqs /\ req[p].type \in Types
  BY DEF Inv, TypeOK, CountSlots, TypeLabels, Labels
<1>2. Goto(p, "insertSlots") /\ Set(p, r)
  BY DEF CountSlots
<1>3. req[p].rules.maxPerDay \in Nat
  BY <1>1, SlotRegenAssumption DEF Reqs, ReadRules, NoRules
<1> HIDE DEF rows
<1>4. room \in [Days -> Nat]
  BY <1>1, <1>3, RoomType
<1> HIDE DEF room
<1>5. counted \in Reqs /\ counted.type = req[p].type
  BY <1>1, <1>4 DEF Reqs
<1> HIDE DEF counted
<1>6. r \in Reqs /\ r.type \in Types
  BY <1>1, <1>5, DisturbedType
<1>7. HistoryOK
  BY HistoryUnchanged DEF CountSlots, Inv
<1>8. "insertSlots" \in Labels /\ type' \in [Types -> Kinds \cup {NoType}]
      /\ UNCHANGED <<rules, slot, booking, begun, tx>>
  BY DEF CountSlots, Inv, TypeOK, Labels
<1> HIDE DEF r
<1> QED
  BY <1>2, <1>6, <1>7, <1>8, LocalStep

(* Either DELETE: no row that a booking refers to is removed. *)
LEMMA DeleteStep ==
  ASSUME Inv, NEW p \in Procs, NEW label \in TypeLabels, pc[p] \in TypeLabels,
         DeleteUnbooked(p), Goto(p, label)
  PROVE  Inv'
<1> DEFINE t == req[p].type
           emptied == [req[p] EXCEPT !.victims = {}]
           r == Keep(emptied, t, ReferencedStarts(t))
<1>1. req[p] \in Reqs /\ t \in Types
  BY DEF Inv, TypeOK
<1>2. emptied \in Reqs /\ emptied.type = t
  BY <1>1 DEF Reqs
<1>3. req' = [q \in Procs |-> IF q = p THEN r ELSE Forget(Gone(p), req[q])]
  BY DEF DeleteUnbooked
<1> HIDE DEF emptied
<1>4. r \in Reqs /\ r.type = t
  BY <1>1, <1>2, KeepType, SnapshotType
<1> HIDE DEF r
<1>5. ASSUME NEW q \in Procs PROVE req'[q] \in Reqs /\ req'[q].type = req[q].type
  BY <1>3, <1>4, ForgetType DEF Inv, TypeOK
<1>6. req' \in [Procs -> Reqs]
  BY <1>3, <1>5
<1>7. Gone(p) \in SUBSET (Types \X Times)
  BY <1>1 DEF Gone, Reqs
<1>8. \A u \in Types, s \in Times : <<u, s>> \in Gone(p) => ~Referenced(u, s)
  BY DEF DeleteUnbooked, Restricted
<1>9. \A u \in Types, s \in Times : Referenced(u, s)' = Referenced(u, s)
  BY DEF DeleteUnbooked, Referenced
<1>10. pc' \in [Procs -> Labels] /\ pc'[p] = label /\ \A q \in Procs \ {p} : pc'[q] = pc[q]
  BY DEF Goto, Inv, TypeOK, TypeLabels
<1>11. \A q \in Procs : pc'[q] \in TypeLabels => req'[q].type \in Types
  BY <1>1, <1>5, <1>10 DEF Inv, TypeOK
<1>12. CASE tx.by = p
  <2>1. tx' = [tx EXCEPT !.gone = @ \cup Gone(p)] /\ UNCHANGED slot
    BY <1>12 DEF DeleteUnbooked
  <2>2. tx # NoTx
    BY <1>12, SlotRegenAssumption DEF NoTx
  <2>3. tx' \in [by : Procs, rules : Inputs, gone : SUBSET (Types \X Times), new : [Types -> [Times -> Nat]]]
        /\ tx'.new = tx.new /\ tx'.gone = tx.gone \cup Gone(p)
    BY <1>7, <2>1, <2>2 DEF Inv, TypeOK
  <2>4. TypeOK'
    BY <1>6, <1>10, <1>11, <2>1, <2>3 DEF DeleteUnbooked, Inv, TypeOK
  <2> QED
    BY <1>8, <1>9, <2>1, <2>3, <2>4 DEF Inv, ReferencedThere, InsertsFree
<1>13. CASE tx.by # p
  <2>1. slot' = [u \in Types |-> [s \in Times |-> IF <<u, s>> \in Gone(p) THEN 0 ELSE slot[u][s]]] /\ UNCHANGED tx
    BY <1>13 DEF DeleteUnbooked
  <2>2. slot' \in [Types -> [Times -> Nat]]
    BY <2>1 DEF Inv, TypeOK
  <2>3. TypeOK'
    BY <1>6, <1>10, <1>11, <2>1, <2>2 DEF DeleteUnbooked, Inv, TypeOK
  <2>4. \A u \in Types, s \in Times : slot'[u][s] = IF <<u, s>> \in Gone(p) THEN 0 ELSE slot[u][s]
    BY <2>1
  <2> QED
    BY <1>8, <1>9, <2>1, <2>3, <2>4 DEF Inv, ReferencedThere, InsertsFree
<1> QED
  BY <1>12, <1>13

LEMMA CandidatesType == ASSUME NEW r PROVE Candidates(r) \in SUBSET Times
  BY DEF Candidates, Grid

(* New slots are put only where no slot is seen. *)
LEMMA InsertSlotsStep ==
  ASSUME Inv, NEW p \in Procs, InsertSlots(p)
  PROVE  Inv'
<1> DEFINE t == req[p].type
           new == Candidates(req[p])
           length == req[p].kind[t].duration
           r == [req[p] EXCEPT !.occupied = {}, !.room = NoReq.room]
<1>1. req[p] \in Reqs /\ t \in Types
  BY DEF Inv, TypeOK, InsertSlots, TypeLabels, Labels
<1>2. new \in SUBSET Times
  BY CandidatesType
<1>3. length \in Nat
  BY <1>1, SlotRegenAssumption DEF Reqs, NoType
<1>4. \A s \in new : ~Locked(p, t, s) /\ Seen(p, t, s) = 0
  BY DEF InsertSlots
<1>5. Goto(p, "snapshotAfter") /\ Set(p, r) /\ UNCHANGED <<rules, type, booking, begun, kept, settled>>
  BY DEF InsertSlots
<1>6. tx.by = p => /\ tx' = [tx EXCEPT !.new[t] = [s \in Times |-> IF s \in new THEN length ELSE tx.new[t][s]]]
                   /\ UNCHANGED slot
  BY DEF InsertSlots
<1>7. tx.by # p => /\ slot' = [slot EXCEPT ![t] = [s \in Times |-> IF s \in new THEN length ELSE slot[t][s]]]
                   /\ UNCHANGED tx
  BY DEF InsertSlots
<1>8. r \in Reqs /\ r.type = t
  BY <1>1, NoReqType DEF Reqs
<1>9. "snapshotAfter" \in Labels
  BY DEF Labels
<1> HIDE DEF t, new, length, r
<1>10. pc' \in [Procs -> Labels] /\ req' \in [Procs -> Reqs]
       /\ \A q \in Procs : pc'[q] \in TypeLabels => req'[q].type \in Types
  BY <1>1, <1>5, <1>8, <1>9 DEF Goto, Set, Inv, TypeOK
<1>11. \A u \in Types, s \in Times : Referenced(u, s)' = Referenced(u, s)
  BY <1>5 DEF Referenced
<1>12. CASE tx.by = p
  <2>1. tx # NoTx
    BY <1>12, SlotRegenAssumption DEF NoTx
  <2>2. [s \in Times |-> IF s \in new THEN length ELSE tx.new[t][s]] \in [Times -> Nat]
    BY <1>1, <1>3, <2>1 DEF Inv, TypeOK
  <2>3. /\ tx' \in [by : Procs, rules : Inputs, gone : SUBSET (Types \X Times), new : [Types -> [Times -> Nat]]]
        /\ tx'.gone = tx.gone
        /\ \A u \in Types, s \in Times :
             tx'.new[u][s] = IF u = t /\ s \in new THEN length ELSE tx.new[u][s]
    <3> DEFINE rows == [s \in Times |-> IF s \in new THEN length ELSE tx.new[t][s]]
    <3>1. tx \in [by : Procs, rules : Inputs, gone : SUBSET (Types \X Times), new : [Types -> [Times -> Nat]]]
      BY <2>1 DEF Inv, TypeOK
    <3>2. tx' = [tx EXCEPT !.new = [tx.new EXCEPT ![t] = rows]]
      BY <1>6, <1>12, <3>1
    <3>3. \A s \in Times : rows[s] = IF s \in new THEN length ELSE tx.new[t][s]
      OBVIOUS
    <3>4. rows \in [Times -> Nat]
      BY <2>2
    <3> HIDE DEF rows
    <3>5. [tx.new EXCEPT ![t] = rows] \in [Types -> [Times -> Nat]]
          /\ \A u \in Types, s \in Times :
               [tx.new EXCEPT ![t] = rows][u][s] = IF u = t /\ s \in new THEN length ELSE tx.new[u][s]
      BY <1>1, <3>1, <3>3, <3>4
    <3> HIDE DEF new
    <3> QED
      BY <3>1, <3>2, <3>5
  <2>4. TypeOK'
    BY <1>5, <1>6, <1>10, <1>12, <2>3 DEF Inv, TypeOK
  <2>5. \A s \in new : slot[t][s] = 0 \/ <<t, s>> \in tx.gone
    BY <1>1, <1>2, <1>4, <1>12 DEF Seen
  <2> QED
    BY <1>6, <1>11, <1>12, <2>3, <2>4, <2>5 DEF Inv, ReferencedThere, InsertsFree
<1>13. CASE tx.by # p
  <2>1. /\ slot' \in [Types -> [Times -> Nat]]
        /\ \A u \in Types, s \in Times : slot'[u][s] = IF u = t /\ s \in new THEN length ELSE slot[u][s]
    <3> DEFINE rows == [s \in Times |-> IF s \in new THEN length ELSE slot[t][s]]
    <3>1. slot \in [Types -> [Times -> Nat]]
      BY DEF Inv, TypeOK
    <3>2. rows \in [Times -> Nat] /\ \A s \in Times : rows[s] = IF s \in new THEN length ELSE slot[t][s]
      BY <1>1, <1>3, <3>1
    <3>3. slot' = [slot EXCEPT ![t] = rows]
      BY <1>7, <1>13
    <3> HIDE DEF rows
    <3> QED
      BY <1>1, <3>1, <3>2, <3>3
  <2>2. TypeOK'
    BY <1>5, <1>7, <1>10, <1>13, <2>1 DEF Inv, TypeOK
  <2>3. \A s \in new : slot[t][s] = 0 /\ tx.new[t][s] = 0 /\ <<t, s>> \notin tx.gone
    BY <1>4, <1>13 DEF Seen, Locked
  <2>4. ReferencedThere'
    BY <1>1, <1>2, <1>7, <1>11, <1>13, <2>1, <2>3 DEF Inv, ReferencedThere
  <2>5. InsertsFree'
    BY <1>1, <1>2, <1>7, <1>13, <2>1, <2>3 DEF Inv, InsertsFree
  <2> QED
    BY <2>2, <2>4, <2>5 DEF Inv
<1> QED
  BY <1>12, <1>13

(* What the transaction of an availability has changed is not referred to. *)
LEMMA SeenReferenced ==
  ASSUME Inv, NEW p, NEW t \in Types, NEW s \in Times, Referenced(t, s)
  PROVE  Seen(p, t, s) = slot[t][s]
  BY DEF Inv, ReferencedThere, InsertsFree, Seen

LEMMA CommitStep ==
  ASSUME Inv, NEW p \in Procs, Commit(p)
  PROVE  Inv'
<1> HIDE DEF NoReq, NoTx, NoSlots
<1>1. req' \in [Procs -> Reqs] /\ \A q \in Procs : q # p => req'[q].type = req[q].type
  BY NoReqType, ForgetType DEF Commit, Inv, TypeOK
<1>2. pc' \in [Procs -> Labels] /\ pc'[p] \notin TypeLabels /\ \A q \in Procs : q # p => pc'[q] = pc[q]
  BY DEF Commit, Goto, Inv, TypeOK, Labels, TypeLabels
<1>3. rules' \in Inputs \cup {NoRules}
  BY TxType DEF Commit, Inv, Txs
<1>4. kept' \in [Types -> SUBSET Times] /\ settled' \subseteq Types
  BY DEF Commit, Inv, TypeOK, Reqs
<1>5. tx \in Txs
  BY TxType DEF Inv
<1>6. ASSUME NEW t \in Types, NEW s \in Times PROVE Seen(p, t, s) \in Nat
  BY <1>5 DEF Seen, Inv, TypeOK, Txs
<1>7. slot' \in [Types -> [Times -> Nat]] /\ \A t \in Types, s \in Times : slot'[t][s] = Seen(p, t, s)
  BY <1>6 DEF Commit
<1>8. tx' = NoTx /\ UNCHANGED <<type, booking, begun>>
  BY DEF Commit
<1>9. TypeOK'
  BY <1>1, <1>2, <1>3, <1>4, <1>7, <1>8 DEF Inv, TypeOK
<1>10. \A t \in Types, s \in Times : Referenced(t, s)' = Referenced(t, s)
  BY <1>8 DEF Referenced
<1>11. ReferencedThere'
  <2> SUFFICES ASSUME NEW t \in Types, NEW s \in Times, Referenced(t, s)
              PROVE  slot'[t][s] # 0 /\ <<t, s>> \notin tx'.gone
    BY <1>10 DEF ReferencedThere
  <2>1. slot'[t][s] = slot[t][s] /\ slot[t][s] # 0
    BY <1>7, SeenReferenced DEF Inv, ReferencedThere
  <2> QED
    BY <1>8, <2>1, Constants
<1>12. InsertsFree'
  BY <1>8, Constants DEF InsertsFree
<1> QED
  BY <1>9, <1>11, <1>12 DEF Inv

LEMMA FailStep ==
  ASSUME Inv, NEW p \in Procs, Fail(p)
  PROVE  Inv'
<1>1. HistoryOK /\ type' \in [Types -> Kinds \cup {NoType}]
  BY HistoryUnchanged DEF Fail, Inv, TypeOK
<1>2. End(p) /\ UNCHANGED <<rules, slot, booking, begun>>
  BY DEF Fail
<1> QED
  BY <1>1, <1>2, EndStep

LEMMA BookStep ==
  ASSUME Inv, NEW b \in Bookings, NEW t \in Types, NEW s \in Times, Book(b, t, s)
  PROVE  Inv'
<1>1. booking' = [booking EXCEPT ![b] = [status |-> "scheduled", at |-> <<t, s>>]]
      /\ slot[t][s] # 0 /\ <<t, s>> \notin tx.gone
      /\ UNCHANGED <<rules, type, slot, tx, pc, req, begun, kept, settled>>
  BY DEF Book, Free
<1>2. TypeOK'
  BY <1>1 DEF Inv, TypeOK
<1>3. \A u \in Types, v \in Times : Referenced(u, v)' => Referenced(u, v) \/ (u = t /\ v = s)
  BY <1>1 DEF Referenced, Inv, TypeOK
<1> QED
  BY <1>1, <1>2, <1>3 DEF Inv, ReferencedThere, InsertsFree

LEMMA RescheduleStep ==
  ASSUME Inv, NEW b \in Bookings, NEW s \in Times, Reschedule(b, s)
  PROVE  Inv'
<1> DEFINE t == booking[b].at[1]
<1>1. booking[b] \in [status : {"scheduled", "cancelled"}, at : Types \X Times]
  BY DEF Reschedule, Inv, TypeOK, NoBooking
<1>2. booking' = [booking EXCEPT ![b] = [booking[b] EXCEPT !.at = <<t, s>>]]
      /\ slot[t][s] # 0 /\ <<t, s>> \notin tx.gone
      /\ UNCHANGED <<rules, type, slot, tx, pc, req, begun, kept, settled>>
  <2>1. ASSUME NEW at \in Types \X Times PROVE [at EXCEPT ![2] = s] = <<at[1], s>>
    OBVIOUS
  <2>2. booking' = [booking EXCEPT ![b] = [booking[b] EXCEPT !.at = [booking[b].at EXCEPT ![2] = s]]]
    BY <1>1 DEF Reschedule, Inv, TypeOK
  <2>3. booking[b].at \in Types \X Times
    BY <1>1
  <2> QED
    BY <2>1, <2>2, <2>3 DEF Reschedule, Free
<1>3. t \in Types /\ [booking[b] EXCEPT !.at = <<t, s>>] \in [status : {"scheduled", "cancelled"}, at : Types \X Times]
  BY <1>1
<1> HIDE DEF t
<1>4. TypeOK'
  BY <1>2, <1>3 DEF Inv, TypeOK
<1>5. \A u \in Types, v \in Times : Referenced(u, v)' => Referenced(u, v) \/ (u = t /\ v = s)
  BY <1>1, <1>2 DEF Referenced, Inv, TypeOK
<1> QED
  BY <1>2, <1>3, <1>4, <1>5 DEF Inv, ReferencedThere, InsertsFree

LEMMA CancelStep ==
  ASSUME Inv, NEW b \in Bookings, Cancel(b)
  PROVE  Inv'
<1>1. booking[b] \in [status : {"scheduled", "cancelled"}, at : Types \X Times]
  BY DEF Cancel, Inv, TypeOK, NoBooking
<1>2. booking' = [booking EXCEPT ![b].status = "cancelled"]
      /\ UNCHANGED <<rules, type, slot, tx, pc, req, begun, kept, settled>>
  BY DEF Cancel
<1>3. TypeOK'
  BY <1>1, <1>2 DEF Inv, TypeOK
<1>4. \A u \in Types, v \in Times : Referenced(u, v)' => Referenced(u, v)
  BY <1>1, <1>2 DEF Referenced, Inv, TypeOK
<1> QED
  BY <1>2, <1>3, <1>4 DEF Inv, ReferencedThere, InsertsFree

-----------------------------------------------------------------------------
LEMMA StepInv == ASSUME Inv, [Next]_vars PROVE Inv'
<1>1. ASSUME NEW p \in Procs, Request(p) PROVE Inv'
  BY <1>1, UpsertStep, CreateTypeStep, ReadExistingStep, BeginDeleteStep DEF Request
<1>2. ASSUME NEW p \in Procs, Step(p) PROVE Inv'
  <2>1. CASE DeleteWindow(p)
    BY <2>1, DeleteStep DEF DeleteWindow, TypeLabels, Labels
  <2>2. CASE DeleteAfter(p)
    BY <2>2, DeleteStep DEF DeleteAfter, TypeLabels, Labels
  <2>3. CASE UpdateType(p) \/ CountScheduled(p) \/ DeleteType(p) \/ ListTypes(p) \/ GetType(p)
    BY <2>3, UpdateTypeStep, CountScheduledStep, DeleteTypeStep, ListTypesStep, GetTypeStep
  <2>4. CASE ReadSettings(p) \/ ListWorkingHours(p) \/ ListBreaks(p) \/ ListTimeOff(p)
    BY <2>4, ReadSettingsStep, ListWorkingHoursStep, ListBreaksStep, ListTimeOffStep
  <2>5. CASE \E t \in Types : SnapshotWindow(p, t)
    BY <2>5, SnapshotWindowStep
  <2>6. CASE \E failing \in SUBSET Days : CountSlots(p, failing)
    BY <2>6, CountSlotsStep
  <2>7. CASE ListSlots(p) \/ InsertSlots(p) \/ SnapshotAfter(p) \/ EndOfType(p)
    BY <2>7, ListSlotsStep, InsertSlotsStep, SnapshotAfterStep, EndOfTypeStep
  <2>8. CASE Commit(p) \/ Fail(p)
    BY <2>8, CommitStep, FailStep
  <2> QED
    BY <1>2, <2>1, <2>2, <2>3, <2>4, <2>5, <2>6, <2>7, <2>8 DEF Step
<1>3. ASSUME NEW b \in Bookings, BookingStep(b) PROVE Inv'
  BY <1>3, BookStep, RescheduleStep, CancelStep DEF BookingStep
<1>4. CASE UNCHANGED vars
  BY <1>4 DEF vars, Inv, TypeOK, ReferencedThere, InsertsFree, Referenced
<1> QED
  BY <1>1, <1>2, <1>3, <1>4 DEF Next

THEOREM Inductive == Spec => []Inv
<1>1. Init => Inv
  BY InitInv
<1>2. Inv /\ [Next]_vars => Inv'
  BY StepInv
<1> QED
  BY <1>1, <1>2, PTL DEF Spec

(* Every variable keeps its type, for any types, bookings and requests. *)
THEOREM TypeCorrect == Spec => []TypeOK
<1>1. Inv => TypeOK
  BY DEF Inv
<1> QED
  BY <1>1, Inductive, PTL

(* What one step may do to the slots. *)
SlotsKept == \A t \in Types, s \in Times : Referenced(t, s) /\ Exists(t)' => slot'[t][s] = slot[t][s]

LEMMA KeptByDelete ==
  ASSUME Inv, NEW p \in Procs, DeleteUnbooked(p)
  PROVE  SlotsKept
<1>1. \A u \in Types, s \in Times : Referenced(u, s) => <<u, s>> \notin Gone(p)
  BY DEF DeleteUnbooked, Restricted
<1>2. CASE tx.by = p
  BY <1>2 DEF DeleteUnbooked, SlotsKept
<1>3. CASE tx.by # p
  BY <1>1, <1>3 DEF DeleteUnbooked, SlotsKept
<1> QED
  BY <1>2, <1>3

LEMMA KeptByInsert ==
  ASSUME Inv, NEW p \in Procs, InsertSlots(p)
  PROVE  SlotsKept
<1> DEFINE t == req[p].type
           new == Candidates(req[p])
           length == req[p].kind[t].duration
<1>1. CASE tx.by = p
  BY <1>1 DEF InsertSlots, SlotsKept
<1>2. CASE tx.by # p
  <2>1. slot' = [slot EXCEPT ![t] = [s \in Times |-> IF s \in new THEN length ELSE slot[t][s]]]
    BY <1>2 DEF InsertSlots
  <2>2. \A s \in new : Seen(p, t, s) = 0
    BY DEF InsertSlots
  <2> HIDE DEF t, new, length
  <2>3. \A s \in new : slot[t][s] = 0
    BY <1>2, <2>2 DEF Seen
  <2>4. \A u \in Types, s \in Times : Referenced(u, s) => slot[u][s] # 0
    BY DEF Inv, ReferencedThere
  <2>5. \A u \in Types, s \in Times : slot'[u][s] = IF u = t /\ s \in new THEN length ELSE slot[u][s]
    BY <2>1 DEF Inv, TypeOK
  <2> QED
    BY <2>3, <2>4, <2>5 DEF SlotsKept
<1> QED
  BY <1>1, <1>2

LEMMA KeptByDeleteType ==
  ASSUME Inv, NEW p \in Procs, DeleteType(p)
  PROVE  SlotsKept
<1>1. req[p].type \in Types
  BY DEF Inv, TypeOK, DeleteType, TypeLabels, Labels
<1>2. type' = [type EXCEPT ![req[p].type] = NoType] /\ slot' = [slot EXCEPT ![req[p].type] = NoSlots[req[p].type]]
  BY DEF DeleteType
<1>3. \A t \in Types : Exists(t)' => t # req[p].type
  BY <1>1, <1>2 DEF Exists, Inv, TypeOK
<1> HIDE DEF NoSlots
<1> QED
  BY <1>2, <1>3 DEF SlotsKept, Inv, TypeOK

LEMMA KeptByCommit ==
  ASSUME Inv, NEW p \in Procs, Commit(p)
  PROVE  SlotsKept
<1>1. \A t \in Types, s \in Times : slot'[t][s] = Seen(p, t, s)
  BY DEF Commit
<1> QED
  BY <1>1, SeenReferenced DEF SlotsKept

LEMMA StepKept == ASSUME Inv, [Next]_vars PROVE SlotsKept
<1>1. CASE UNCHANGED slot
  BY <1>1 DEF SlotsKept
<1>2. ASSUME NEW p \in Procs, Request(p) PROVE UNCHANGED slot
  BY <1>2 DEF Request, Upsert, CreateType, ReadExisting, BeginDelete
<1>3. ASSUME NEW b \in Bookings, BookingStep(b) PROVE UNCHANGED slot
  BY <1>3 DEF BookingStep, Book, Reschedule, Cancel
<1>4. ASSUME NEW p \in Procs, Step(p) PROVE SlotsKept
  <2>1. CASE DeleteWindow(p) \/ DeleteAfter(p)
    BY <2>1, KeptByDelete DEF DeleteWindow, DeleteAfter
  <2>2. CASE InsertSlots(p) \/ DeleteType(p) \/ Commit(p)
    BY <2>2, KeptByInsert, KeptByDeleteType, KeptByCommit
  <2>3. CASE UpdateType(p) \/ CountScheduled(p) \/ ListTypes(p) \/ GetType(p) \/ Fail(p)
    BY <1>1, <2>3 DEF UpdateType, CountScheduled, ListTypes, GetType, Fail
  <2>4. CASE ReadSettings(p) \/ ListWorkingHours(p) \/ ListBreaks(p) \/ ListTimeOff(p)
    BY <1>1, <2>4 DEF ReadSettings, ListWorkingHours, ListBreaks, ListTimeOff
  <2>5. CASE \/ \E t \in Types : SnapshotWindow(p, t)
             \/ \E failing \in SUBSET Days : CountSlots(p, failing)
             \/ ListSlots(p) \/ SnapshotAfter(p) \/ EndOfType(p)
    BY <1>1, <2>5 DEF SnapshotWindow, CountSlots, ListSlots, SnapshotAfter, EndOfType
  <2> QED
    BY <1>4, <2>1, <2>2, <2>3, <2>4, <2>5 DEF Step
<1>5. CASE UNCHANGED vars
  BY <1>1, <1>5 DEF vars
<1> QED
  BY <1>1, <1>2, <1>3, <1>4, <1>5 DEF Next

(* No step but the deletion of its type changes a slot that some booking
   refers to, for any number of rebuilds and bookings that overlap. *)
THEOREM BookedSlotsStay == Spec => ReferencedSlotsKept
<1>1. Inv /\ [Next]_vars => [SlotsKept]_vars
  BY StepKept
<1>2. Spec => [][SlotsKept]_vars
  BY <1>1, Inductive, PTL DEF Spec
<1> QED
  BY <1>2 DEF ReferencedSlotsKept, SlotsKept

-----------------------------------------------------------------------------
(* A set of numbers that is not empty has a least one. *)
LEMMA LeastNat ==
  ASSUME NEW N \in SUBSET Nat, N # {}
  PROVE  \E x \in N : \A y \in N : x <= y
<1>1. PICK x \in N : \A y \in N : <<y, x>> \notin OpToRel(<, Nat)
  BY NatLessThanWellFounded, WFMin
<1>2. \A y \in N : ~(y < x)
  BY <1>1, Zenon DEF OpToRel
<1> QED
  BY <1>2

(* What is not sorted last has a neighbour: of the intervals that follow it,
   the first of those that start first. *)
LEMMA NeighbourExists ==
  ASSUME NEW iv \in Seq(Interval), NEW i \in DOMAIN iv, NEW j \in DOMAIN iv, Precedes(iv, i, j)
  PROVE  \E k \in DOMAIN iv : Neighbours(iv, i, k) /\ iv[k].start <= iv[j].start
<1> DEFINE After == {k \in DOMAIN iv : Precedes(iv, i, k)}
           Gap(k) == iv[k].start - iv[i].start
           Gaps == {Gap(k) : k \in After}
<1>1. DOMAIN iv \subseteq Nat /\ \A k \in DOMAIN iv : iv[k].start \in Int
  <2>1. DOMAIN iv = 1..Len(iv) /\ Len(iv) \in Nat /\ \A k \in DOMAIN iv : iv[k] \in Interval
    BY LenProperties
  <2> QED
    BY <2>1 DEF Interval
<1>2. \A k \in After : iv[i].start <= iv[k].start
  BY <1>1 DEF Precedes, ByStart
<1>3. Gaps \subseteq Nat /\ Gaps # {}
  <2>1. \A k \in After : Gap(k) \in Nat
    BY <1>1, <1>2
  <2>2. j \in After
    OBVIOUS
  <2> HIDE DEF After, Gap
  <2> QED
    BY <2>1, <2>2
<1>4. PICK g \in Gaps : \A h \in Gaps : g <= h
  <2> HIDE DEF Gaps
  <2> QED
    BY <1>3, LeastNat
<1> DEFINE First == {k \in After : Gap(k) = g}
<1>5. First \subseteq Nat /\ First # {}
  BY <1>1
<1>6. PICK k \in First : \A l \in First : k <= l
  <2> HIDE DEF First
  <2> QED
    BY <1>5, LeastNat
<1>7. \A l \in After : iv[k].start <= iv[l].start
  <2> SUFFICES ASSUME NEW l \in After PROVE iv[k].start <= iv[l].start
    OBVIOUS
  <2>1. Gap(k) <= Gap(l)
    <3>1. Gap(l) \in Gaps
      OBVIOUS
    <3> QED
      BY <1>4, <3>1
  <2> QED
    BY <1>1, <2>1
<1>8. ASSUME NEW l \in DOMAIN iv, Precedes(iv, i, l), Precedes(iv, l, k) PROVE FALSE
  <2>1. l \in After /\ iv[k].start <= iv[l].start
    BY <1>7, <1>8
  <2>2. iv[l].start = iv[k].start /\ l < k
    BY <1>1, <1>8, <2>1 DEF Precedes, ByStart
  <2>3. l \in First
    BY <2>1, <2>2
  <2> QED
    BY <1>1, <1>6, <2>2, <2>3
<1>9. Neighbours(iv, i, k) /\ iv[k].start <= iv[j].start
  BY <1>7, <1>8 DEF Neighbours
<1> QED
  BY <1>9

(* Comparing neighbours is enough: if none of them overlap, no two intervals do. *)
LEMMA NeighboursSuffice ==
  ASSUME NEW iv \in Seq(Interval), ~HasOverlap(iv), NEW i \in DOMAIN iv, NEW j \in DOMAIN iv, i # j
  PROVE  Disjoint(iv[i], iv[j])
<1>1. \A k \in DOMAIN iv : k \in Int /\ iv[k].start \in Int /\ iv[k].end \in Int
  <2>1. DOMAIN iv = 1..Len(iv) /\ Len(iv) \in Nat /\ \A k \in DOMAIN iv : iv[k] \in Interval
    BY LenProperties
  <2> QED
    BY <2>1 DEF Interval
<1>2. ASSUME NEW m \in DOMAIN iv, NEW n \in DOMAIN iv, Precedes(iv, m, n) PROVE iv[m].end <= iv[n].start
  <2>1. PICK k \in DOMAIN iv : Neighbours(iv, m, k) /\ iv[k].start <= iv[n].start
    BY <1>2, NeighbourExists
  <2>2. ~(iv[k].start < iv[m].end)
    BY <2>1 DEF HasOverlap, NeighboursOverlap
  <2> QED
    BY <1>1, <2>1, <2>2
<1>3. Precedes(iv, i, j) \/ Precedes(iv, j, i)
  BY <1>1 DEF Precedes, ByStart
<1> QED
  BY <1>2, <1>3 DEF Disjoint

(* Rules that validateInput has accepted, or none. *)
Sound(r) == r = NoRules \/ (r \in Inputs /\ ValidInput(r))

RulesSound == Sound(rules) /\ Sound(tx.rules)

LEMMA SoundValid ==
  ASSUME Sound(rules)
  PROVE  RulesValid
<1>1. CASE rules = NoRules
  BY <1>1 DEF NoRules, RulesValid
<1>2. CASE rules \in Inputs /\ ValidInput(rules)
  <2>1. rules.hours \in Seq(Interval) /\ rules.timeOff \in Seq(Interval)
    BY <1>2, SlotRegenAssumption
  <2>2. ~HasOverlap(rules.hours) /\ ~HasOverlap(rules.timeOff)
    BY <1>2 DEF ValidInput, ValidHours, ValidTimeOff
  <2>3. \A i \in DOMAIN rules.breaks : IsSubset(rules.breaks[i], rules.hours)
    BY <1>2 DEF ValidInput, ValidBreaks
  <2> QED
    BY <2>1, <2>2, <2>3, NeighboursSuffice DEF RulesValid, IsSubset
<1> QED
  BY <1>1, <1>2 DEF Sound

LEMMA InitSound == Init => RulesSound
  BY SlotRegenAssumption DEF Init, NoTx, RulesSound, Sound

(* Every other step leaves the rules alone, and those of the transaction, or
   drops the transaction. *)
LEMMA StepSound ==
  ASSUME TypeOK, RulesSound, [Next]_vars
  PROVE  RulesSound'
<1> HIDE DEF NoTx, NoRules, NoReq
<1>1. Sound(NoTx.rules)
  BY DEF NoTx, Sound
<1>2. CASE rules' = rules /\ (tx'.rules = tx.rules \/ tx' = NoTx)
  BY <1>1, <1>2 DEF RulesSound, Sound
<1>3. ASSUME NEW p \in Procs, Request(p) PROVE RulesSound'
  <2>1. CASE \E in \in Inputs : Upsert(p, in)
    BY <2>1 DEF Upsert, RulesSound, Sound
  <2> QED
    BY <1>2, <1>3, <2>1 DEF Request, CreateType, ReadExisting, BeginDelete
<1>4. ASSUME NEW b \in Bookings, BookingStep(b) PROVE RulesSound'
  BY <1>2, <1>4 DEF BookingStep, Book, Reschedule, Cancel
<1>5. ASSUME NEW p \in Procs, Step(p) PROVE RulesSound'
  <2>1. tx \in Txs
    BY TxType
  <2>2. CASE Commit(p)
    BY <1>1, <2>2 DEF Commit, RulesSound, Sound
  <2>3. CASE DeleteWindow(p) \/ DeleteAfter(p)
    <3>1. rules' = rules /\ tx'.rules = tx.rules
      BY <2>1, <2>3 DEF DeleteWindow, DeleteAfter, DeleteUnbooked, Txs
    <3> QED
      BY <1>2, <3>1
  <2>4. CASE InsertSlots(p)
    <3>1. rules' = rules /\ tx'.rules = tx.rules
      BY <2>1, <2>4 DEF InsertSlots, Txs
    <3> QED
      BY <1>2, <3>1
  <2>5. CASE End(p) /\ rules' = rules
    BY <1>2, <2>5 DEF End
  <2>6. CASE UpdateType(p) \/ CountScheduled(p) \/ ReadSettings(p) \/ Fail(p)
    BY <1>2, <2>5, <2>6 DEF UpdateType, CountScheduled, ReadSettings, Fail
  <2>7. CASE \/ DeleteType(p) \/ ListTypes(p) \/ GetType(p)
             \/ ListWorkingHours(p) \/ ListBreaks(p) \/ ListTimeOff(p)
             \/ \E t \in Types : SnapshotWindow(p, t)
             \/ \E failing \in SUBSET Days : CountSlots(p, failing)
             \/ ListSlots(p) \/ SnapshotAfter(p) \/ EndOfType(p)
    BY <1>2, <2>7 DEF DeleteType, ListTypes, GetType, ListWorkingHours, ListBreaks, ListTimeOff,
                      SnapshotWindow, CountSlots, ListSlots, SnapshotAfter, EndOfType
  <2> QED
    BY <1>5, <2>2, <2>3, <2>4, <2>6, <2>7 DEF Step
<1>6. CASE UNCHANGED vars
  BY <1>2, <1>6 DEF vars
<1> QED
  BY <1>3, <1>4, <1>5, <1>6 DEF Next

(* The rules in force never have working hours or time off that overlap, or a
   break outside of the hours, although hasOverlap compares neighbours only,
   whichever requests are refused, fail or overlap. *)
THEOREM RulesCorrect == Spec => []RulesValid
<1>1. TypeOK /\ RulesSound /\ [Next]_vars => RulesSound'
  BY StepSound
<1>2. RulesSound => RulesValid
  BY SoundValid DEF RulesSound
<1> QED
  BY <1>1, <1>2, InitSound, TypeCorrect, PTL DEF Spec

-----------------------------------------------------------------------------
(* The rows that a request sees of a type. *)
View(p, t) == [s \in Times |-> Seen(p, t, s)]

RowsOn(v, d) == {s \in Times : v[s] # 0 /\ DayOf(s) = d}

(* The rows v are those of the rules within the window, with those of K kept. *)
FitsWindow(v, kind, in, K) ==
  /\ \A s \in Times \ K :
       InWindow(s, in.horizon) /\ v[s] # 0 => s \in Grid(kind, in, in.horizon) /\ v[s] = kind.duration
  /\ \A s \in Grid(kind, in, in.horizon) : v[s] = 0 => Cardinality(RowsOn(v, DayOf(s))) >= in.maxPerDay
  /\ \A d \in Days : d < in.horizon /\ Cardinality(RowsOn(v, d)) > in.maxPerDay => RowsOn(v, d) \subseteq K

(* Nothing but K is left of v after the window, or within it. *)
ClearAfter(v, in, K) == \A s \in Times \ K : ~InWindow(s, in.horizon) => v[s] = 0
ClearWindow(v, in, K) == \A s \in Times \ K : InWindow(s, in.horizon) => v[s] = 0

Fits(v, kind, in, K) == FitsWindow(v, kind, in, K) /\ ClearAfter(v, in, K)

Rebuilding == {"deleteWindow", "listSlots", "countSlots", "insertSlots", "snapshotAfter", "deleteAfter", "nextOrEnd"}
Inserted == {"snapshotAfter", "deleteAfter", "nextOrEnd"}
Deleting == {"deleteWindow", "deleteAfter"}
Read == {"nextType", "commit"} \cup Rebuilding
Listed == {"settings", "hours", "breaks", "timeOff"} \cup Read

(* Nothing runs beside a request that is not disturbed. *)
Alone == \A p, q \in Procs : pc[p] # "idle" /\ req[p].undisturbed /\ pc[q] # "idle" => p = q

OwnerActive ==
  /\ tx.by \in Procs => pc[tx.by] \in {"listTypes"} \cup Listed
  /\ \A p \in Procs : pc[p] = "commit" => tx.by = p

(* A type that is being rebuilt in place is not settled, and a DELETE removes
   slots of the type at hand. *)
Unsettled ==
  \A p \in Procs :
    /\ pc[p] \in Rebuilding /\ tx.by # p => req[p].type \notin settled
    /\ pc[p] \in Deleting => req[p].victims \subseteq {req[p].type} \X Times

(* There are no slots before there are rules. *)
RulesFirst ==
  /\ rules = NoRules => \A t \in Types : slot[t] = NoSlots[t]
  /\ tx.by \in Procs => tx.rules # NoRules
  /\ \A p \in Procs : pc[p] \in Listed \ {"settings"} /\ tx.by # p => rules # NoRules

(* Four facts about a request p that nothing has disturbed, l being its next
   statement and r its variables.  What it has read of the rules: *)
RulesRead(p, l, r) ==
  LET in == SeenRules(p) IN
  /\ l \in Listed \ {"settings"} => r.rules.maxPerDay = in.maxPerDay /\ r.rules.horizon = in.horizon
  /\ l \in Listed \ {"settings", "hours"} => r.rules.hours = in.hours
  /\ l \in Listed \ {"settings", "hours", "breaks"} => r.rules.breaks = in.breaks
  /\ l \in Read => r.rules.timeOff = in.timeOff

(* the duration and buffer of the types it rebuilds, *)
KindsRead(l, r) ==
  /\ l = "getType" => r.kind[r.type] = type[r.type]
  /\ l \in Listed => \A t \in r.todo : r.kind[t] = type[t]
  /\ l \in Rebuilding => r.type \in r.todo
  /\ l = "commit" => r.todo = {}

(* where it is with the type at hand, *)
Progress(p, l, r) ==
  LET v == View(p, r.type)  K == r.kept[r.type] IN
  /\ l = "deleteWindow" =>
       \A s \in Times \ K : InWindow(s, r.rules.horizon) /\ v[s] # 0 => <<r.type, s>> \in r.victims
  /\ l \in {"listSlots", "countSlots", "insertSlots"} => ClearWindow(v, r.rules, K)
  /\ l \in {"countSlots", "insertSlots"} => r.occupied = {s \in Times : InWindow(s, r.rules.horizon) /\ v[s] # 0}
  /\ l = "insertSlots" => \A d \in Days : r.room[d] = Room({s \in Times : v[s] # 0}, r.rules.maxPerDay, d)
  /\ l \in Inserted => FitsWindow(v, r.kind[r.type], r.rules, K)
  /\ l = "deleteAfter" =>
       /\ \A s \in Times \ K : ~InWindow(s, r.rules.horizon) /\ v[s] # 0 => <<r.type, s>> \in r.victims
       /\ \A s \in Times : <<r.type, s>> \in r.victims => ~InWindow(s, r.rules.horizon)
  /\ l = "nextOrEnd" => ClearAfter(v, r.rules, K)

(* and its transaction, if it has one: a type not rebuilt yet has no new rows,
   the others fit the new rules. *)
OwnTx(p, l, r) ==
  tx.by = p =>
  /\ \A t \in Types :
       l = "listTypes" \/ (t \in r.todo /\ ~(l \in Inserted /\ t = r.type)) => tx.new[t] = NoSlots[t]
  /\ l \in Inserted => \A s \in Times : tx.new[r.type][s] # 0 => InWindow(s, r.rules.horizon)
  /\ l \in Listed => \A t \in Types \ r.todo : Exists(t) => Fits(View(p, t), type[t], tx.rules, r.kept[t])

Claims(p, l, r) == RulesRead(p, l, r) /\ KindsRead(l, r) /\ Progress(p, l, r) /\ OwnTx(p, l, r)

RequestInv == \A p \in Procs : pc[p] # "idle" /\ req[p].undisturbed => Claims(p, pc[p], req[p])

SettledFit == \A t \in settled : Fits(slot[t], type[t], rules, kept[t])

(* What SettledSlots rests on: a request that nothing has disturbed runs alone,
   and knows how far it has brought the slots to the rules it has read. *)
HistoryInv == Alone /\ OwnerActive /\ Unsettled /\ RulesFirst /\ RequestInv /\ SettledFit

LEMMA DivBelow ==
  ASSUME NEW s \in Nat, NEW m \in Nat \ {0}, NEW h \in Nat, s < h * m
  PROVE  s \div m \in 0..(h - 1)
<1> DEFINE d == s \div m
<1>1. d \in Int /\ d >= 0 /\ m * d <= s
  BY SMT
<1> HIDE DEF d
<1>2. d >= h => m * d >= m * h
  BY <1>1
<1>3. m * d < m * h
  BY <1>1
<1>4. d < h
  BY <1>1, <1>2, <1>3
<1> QED
  BY <1>1, <1>4 DEF d

(* The days of the times. *)
LEMMA DayType == \A s \in Times : DayOf(s) \in Days
<1> SUFFICES ASSUME NEW s \in Times PROVE DayOf(s) \in Days
  OBVIOUS
<1>1. DayLength \in Nat \ {0} /\ MaxHorizon \in Nat /\ s \in Nat /\ s < MaxHorizon * DayLength
  BY AvailabilityAssumption DEF Times
<1> QED
  BY <1>1, DivBelow DEF DayOf, Days

LEMMA TimesFinite ==
  ASSUME NEW S \in SUBSET Times
  PROVE  IsFiniteSet(S) /\ Cardinality(S) \in Nat /\ S \subseteq Nat
<1>1. MaxHorizon * DayLength - 1 \in Int
  BY AvailabilityAssumption
<1>2. IsFiniteSet(Times) /\ Times \subseteq Nat
  BY <1>1, FS_Interval DEF Times
<1> QED
  BY <1>2, FS_Subset, FS_CardinalityType

(* The n earliest of D, by the number of those before. *)
Earliest(D, n) == {s \in D : Cardinality({u \in D : u < s}) < n}

LEMMA EarliestFew ==
  ASSUME NEW D \in SUBSET Times, NEW n \in Nat
  PROVE  Cardinality(Earliest(D, n)) <= n
<1> DEFINE E == Earliest(D, n)
           Far == {MaxHorizon * DayLength - s : s \in E}
<1>1. E \subseteq Times /\ E \subseteq D
  BY DEF Earliest
<1>2. MaxHorizon * DayLength \in Int
  BY AvailabilityAssumption
<1>3. CASE E = {}
  BY <1>3, FS_EmptySet
<1>4. CASE E # {}
  <2> HIDE DEF E
  <2>1. Far # {} /\ Far \subseteq Nat
    <3>1. \A s \in E : s \in Int /\ s <= MaxHorizon * DayLength - 1
      BY <1>1, <1>2 DEF Times
    <3> QED
      BY <1>2, <1>4, <3>1
  <2>2. PICK g \in Far : \A h \in Far : g <= h
    <3> HIDE DEF Far
    <3> QED
      BY <2>1, LeastNat
  <2>3. PICK m \in E : \A s \in E : s <= m
    <3>1. PICK m \in E : g = MaxHorizon * DayLength - m
      OBVIOUS
    <3>2. \A s \in E : MaxHorizon * DayLength - m <= MaxHorizon * DayLength - s
      BY <2>2, <3>1
    <3> QED
      BY <1>1, <1>2, <3>2 DEF Times
  <2> DEFINE Before == {u \in D : u < m}
  <2>4. E \subseteq Before \cup {m}
    BY <1>1, <2>3 DEF Times
  <2>5. Cardinality(Before) < n
    BY <2>3 DEF E, Earliest
  <2>6. IsFiniteSet(Before) /\ Cardinality(Before) \in Nat /\ m \notin Before
    BY <1>1, TimesFinite DEF Times
  <2> HIDE DEF Before
  <2>7. IsFiniteSet(Before \cup {m}) /\ Cardinality(Before \cup {m}) = Cardinality(Before) + 1
    BY <2>6, FS_AddElement
  <2>8. Cardinality(E) <= Cardinality(Before \cup {m}) /\ Cardinality(E) \in Nat
    BY <1>1, <2>4, <2>7, FS_Subset, TimesFinite
  <2> QED
    BY <2>5, <2>6, <2>7, <2>8 DEF E
<1> QED
  BY <1>3, <1>4

LEMMA EarliestMany ==
  ASSUME NEW D \in SUBSET Times, NEW n \in Nat, NEW s \in D, s \notin Earliest(D, n)
  PROVE  Cardinality(Earliest(D, n)) >= n
<1> DEFINE Rest == D \ Earliest(D, n)
<1>1. Rest \subseteq Nat /\ Rest # {}
  BY TimesFinite
<1>2. PICK f \in Rest : \A u \in Rest : f <= u
  <2> HIDE DEF Rest
  <2> QED
    BY <1>1, LeastNat
<1> DEFINE Before == {u \in D : u < f}
<1>3. Before \subseteq Earliest(D, n)
  <2> SUFFICES ASSUME NEW u \in Before, u \in Rest PROVE FALSE
    OBVIOUS
  <2> QED
    BY <1>1, <1>2
<1>4. Cardinality(Before) \in Nat /\ Cardinality(Earliest(D, n)) \in Nat /\ IsFiniteSet(Earliest(D, n))
  BY TimesFinite DEF Earliest
<1>5. ~(Cardinality(Before) < n)
  BY <1>2 DEF Earliest
<1> HIDE DEF Before
<1>6. Cardinality(Before) <= Cardinality(Earliest(D, n))
  BY <1>3, <1>4, FS_Subset
<1> QED
  BY <1>4, <1>5, <1>6

LEMMA GridInWindow ==
  ASSUME NEW kind, NEW week, NEW horizon
  PROVE  Grid(kind, week, horizon) \subseteq {s \in Times : InWindow(s, horizon)}
  BY DEF Grid, InWindow

(* Generate takes the earliest starts of each day. *)
LEMMA CandidatesOnDay ==
  ASSUME NEW r, NEW d
  PROVE  {s \in Candidates(r) : DayOf(s) = d}
           = Earliest({s \in Grid(r.kind[r.type], r.rules, r.rules.horizon) \ r.occupied : DayOf(s) = d}, r.room[d])
<1> DEFINE open == Grid(r.kind[r.type], r.rules, r.rules.horizon) \ r.occupied
           D == {s \in open : DayOf(s) = d}
<1>1. \A s \in D : {u \in open : u < s /\ DayOf(u) = DayOf(s)} = {u \in D : u < s}
  OBVIOUS
<1>2. {s \in Candidates(r) : DayOf(s) = d}
        = {s \in D : Cardinality({u \in open : u < s /\ DayOf(u) = DayOf(s)}) < r.room[d]}
  <2> HIDE DEF open
  <2> QED
    BY DEF Candidates, open
<1> HIDE DEF open
<1>3. ASSUME NEW s \in D
      PROVE  Cardinality({u \in open : u < s /\ DayOf(u) = DayOf(s)}) = Cardinality({u \in D : u < s})
  BY <1>1, Zenon
<1> HIDE DEF D
<1>4. {s \in D : Cardinality({u \in open : u < s /\ DayOf(u) = DayOf(s)}) < r.room[d]} = Earliest(D, r.room[d])
  BY <1>3 DEF Earliest
<1> QED
  BY <1>2, <1>4 DEF D, open

(* The rows v, and those at the starts of C that are inserted. *)
WithRows(C, length, v) == [s \in Times |-> IF s \in C THEN length ELSE v[s]]

(* The request r has read v and cleared the window of it. *)
Ready(r, v, K, length) ==
  /\ length = r.kind[r.type].duration /\ r.rules.maxPerDay \in Nat
  /\ r.occupied = {s \in Times : InWindow(s, r.rules.horizon) /\ v[s] # 0}
  /\ \A d \in Days : r.room[d] = Room({s \in Times : v[s] # 0}, r.rules.maxPerDay, d)
  /\ ClearWindow(v, r.rules, K)
  /\ Candidates(r) # {} => length # 0

(* What is inserted makes the rows those of the rules. *)
LEMMA InsertFits ==
  ASSUME NEW r, NEW v \in [Times -> Nat], NEW K \in SUBSET Times, NEW length \in Nat, Ready(r, v, K, length)
  PROVE  FitsWindow(WithRows(Candidates(r), length, v), r.kind[r.type], r.rules, K)
<1> USE DEF Ready
<1> DEFINE C == Candidates(r)
           w == [s \in Times |-> IF s \in C THEN length ELSE v[s]]
           kind == r.kind[r.type]
           max == r.rules.maxPerDay
           grid == Grid(kind, r.rules, r.rules.horizon)
           On(d) == {s \in C : DayOf(s) = d}
           Vacant(d) == {s \in grid \ r.occupied : DayOf(s) = d}
<1>1. C \subseteq grid \ r.occupied /\ grid \subseteq {s \in Times : InWindow(s, r.rules.horizon)}
  BY GridInWindow DEF Candidates
<1>2. \A d \in Days : On(d) = Earliest(Vacant(d), r.room[d]) /\ On(d) \subseteq Times /\ Vacant(d) \subseteq Times
  BY <1>1, CandidatesOnDay, Zenon
<1> HIDE DEF C, grid
<1>3. \A s \in Times : w[s] = IF s \in C THEN length ELSE v[s]
  OBVIOUS
<1>4. \A s \in C : s \in Times /\ InWindow(s, r.rules.horizon) /\ v[s] = 0 /\ length # 0
  BY <1>1 DEF C
<1> HIDE DEF w
<1>5. ASSUME NEW d \in Days
      PROVE  /\ RowsOn(w, d) = RowsOn(v, d) \cup On(d)
             /\ Cardinality(RowsOn(w, d)) = Cardinality(RowsOn(v, d)) + Cardinality(On(d))
             /\ Cardinality(RowsOn(v, d)) \in Nat /\ Cardinality(On(d)) \in Nat
             /\ Cardinality(On(d)) <= r.room[d]
             /\ \A s \in Vacant(d) : s \notin C => Cardinality(On(d)) >= r.room[d]
             /\ r.room[d] = IF Cardinality(RowsOn(v, d)) < max THEN max - Cardinality(RowsOn(v, d)) ELSE 0
  <2>1. RowsOn(w, d) = RowsOn(v, d) \cup On(d) /\ RowsOn(v, d) \cap On(d) = {}
    BY <1>3, <1>4 DEF RowsOn
  <2>2. /\ IsFiniteSet(RowsOn(v, d)) /\ IsFiniteSet(On(d))
        /\ Cardinality(RowsOn(v, d)) \in Nat /\ Cardinality(On(d)) \in Nat
    BY <1>2, TimesFinite DEF RowsOn
  <2>3. Cardinality(RowsOn(v, d) \cup On(d)) = Cardinality(RowsOn(v, d)) + Cardinality(On(d))
    <3> HIDE DEF On
    <3>1. Cardinality(RowsOn(v, d) \cup On(d))
            = Cardinality(RowsOn(v, d)) + Cardinality(On(d)) - Cardinality(RowsOn(v, d) \cap On(d))
      BY <2>2, FS_Union
    <3>2. Cardinality(RowsOn(v, d) \cap On(d)) = 0
      BY <2>1, FS_EmptySet, Zenon
    <3> QED
      BY <2>2, <3>1, <3>2
  <2>4. {s \in {u \in Times : v[u] # 0} : DayOf(s) = d} = RowsOn(v, d)
    BY DEF RowsOn
  <2>5. r.room[d] = IF Cardinality(RowsOn(v, d)) < max THEN max - Cardinality(RowsOn(v, d)) ELSE 0
    BY <2>4 DEF Room
  <2>6. r.room[d] \in Nat
    BY <2>2, <2>5
  <2>7. Cardinality(On(d)) <= r.room[d]
    BY <1>2, <2>6, EarliestFew
  <2>8. ASSUME NEW s \in Vacant(d), s \notin C PROVE Cardinality(On(d)) >= r.room[d]
    <3>1. s \notin Earliest(Vacant(d), r.room[d])
      BY <1>2, <2>8
    <3> HIDE DEF On, Vacant
    <3> QED
      BY <1>2, <2>6, <3>1, EarliestMany
  <2> QED
    BY <2>1, <2>2, <2>3, <2>5, <2>7, <2>8
<1>6. ASSUME NEW s \in Times \ K, InWindow(s, r.rules.horizon), w[s] # 0
      PROVE  s \in grid /\ w[s] = kind.duration
  BY <1>1, <1>3, <1>6 DEF ClearWindow
<1>7. ASSUME NEW s \in grid, w[s] = 0
      PROVE  Cardinality(RowsOn(w, DayOf(s))) >= max
  <2>1. s \in Times /\ InWindow(s, r.rules.horizon) /\ DayOf(s) \in Days
    BY <1>1, DayType
  <2>2. s \notin C /\ v[s] = 0
    BY <1>3, <1>4, <1>7, <2>1
  <2>3. s \in Vacant(DayOf(s))
    BY <2>1, <2>2
  <2> HIDE DEF On, Vacant
  <2> QED
    BY <1>5, <2>1, <2>2, <2>3
<1>8. ASSUME NEW d \in Days, d < r.rules.horizon, Cardinality(RowsOn(w, d)) > max
      PROVE  RowsOn(w, d) \subseteq K
  <2>1. Cardinality(On(d)) = 0
    <3> HIDE DEF On, Open
    <3> QED
      BY <1>5, <1>8
  <2>2. On(d) = {}
    BY <1>2, <2>1, TimesFinite, FS_EmptySet
  <2>3. \A s \in RowsOn(v, d) : s \in Times /\ InWindow(s, r.rules.horizon) /\ v[s] # 0
    BY <1>8 DEF RowsOn, InWindow
  <2> HIDE DEF On
  <2> QED
    BY <1>5, <2>2, <2>3 DEF ClearWindow
<1> QED
  BY <1>6, <1>7, <1>8 DEF FitsWindow, C, w, grid, WithRows

-----------------------------------------------------------------------------
LEMMA FitsSame ==
  ASSUME NEW v \in [Times -> Nat], NEW w \in [Times -> Nat], NEW kind, NEW in, NEW K, NEW L, K \subseteq L,
         \A s \in Times : InWindow(s, in.horizon) => v[s] = w[s],
         FitsWindow(v, kind, in, K)
  PROVE  FitsWindow(w, kind, in, L)
<1> DEFINE grid == Grid(kind, in, in.horizon)
<1>1. grid \subseteq {s \in Times : InWindow(s, in.horizon)}
  BY GridInWindow
<1>2. \A d \in Days : d < in.horizon => RowsOn(w, d) = RowsOn(v, d)
  BY DEF RowsOn, InWindow
<1>3. \A s \in grid : RowsOn(w, DayOf(s)) = RowsOn(v, DayOf(s)) /\ v[s] = w[s]
  BY <1>1, <1>2, DayType DEF InWindow
<1> HIDE DEF grid
<1>4. \A s \in Times \ L : InWindow(s, in.horizon) /\ w[s] # 0 => s \in grid /\ w[s] = kind.duration
  BY DEF FitsWindow, grid
<1>5. \A s \in grid : w[s] = 0 => Cardinality(RowsOn(w, DayOf(s))) >= in.maxPerDay
  BY <1>3 DEF FitsWindow, grid
<1>6. \A d \in Days : d < in.horizon /\ Cardinality(RowsOn(w, d)) > in.maxPerDay => RowsOn(w, d) \subseteq L
  BY <1>2 DEF FitsWindow
<1> QED
  BY <1>4, <1>5, <1>6 DEF FitsWindow, grid

(* Only the five fields of the rules matter. *)
LEMMA RulesSame ==
  ASSUME NEW v, NEW kind, NEW K, NEW in, NEW read,
         read.maxPerDay = in.maxPerDay, read.horizon = in.horizon, read.hours = in.hours,
         read.breaks = in.breaks, read.timeOff = in.timeOff,
         FitsWindow(v, kind, read, K), ClearAfter(v, read, K)
  PROVE  Fits(v, kind, in, K)
<1>1. Grid(kind, read, read.horizon) = Grid(kind, in, in.horizon)
  BY DEF Grid, GridOf, Open, Within
<1> QED
  BY <1>1 DEF Fits, FitsWindow, ClearAfter

LEMMA EmptyFits ==
  ASSUME NEW t \in Types, NEW kind, NEW K
  PROVE  Fits(NoSlots[t], kind, NoRules, K)
<1>1. Grid(kind, NoRules, NoRules.horizon) = {}
  BY DEF Grid, NoRules
<1>2. \A s \in Times : NoSlots[t][s] = 0
  BY Constants
<1>3. \A d : RowsOn(NoSlots[t], d) = {}
  BY <1>2 DEF RowsOn
<1> QED
  BY <1>1, <1>2, <1>3 DEF Fits, FitsWindow, ClearAfter

(* A fitting type is as SettledSlots says. *)
LEMMA FitsSettled ==
  ASSUME TypeOK, SettledFit
  PROVE  SettledSlots
<1> SUFFICES ASSUME NEW t \in settled
             PROVE  LET grid == Grid(type[t], rules, rules.horizon) IN
               /\ \A s \in Times \ kept[t] : slot[t][s] # 0 => s \in grid /\ slot[t][s] = type[t].duration
               /\ \A s \in grid : slot[t][s] = 0 => Cardinality(DayRows(t, DayOf(s))) >= rules.maxPerDay
               /\ \A d \in Days : Cardinality(DayRows(t, d)) > rules.maxPerDay => DayRows(t, d) \subseteq kept[t]
  BY DEF SettledSlots
<1>1. FitsWindow(slot[t], type[t], rules, kept[t]) /\ ClearAfter(slot[t], rules, kept[t])
  BY DEF SettledFit, Fits
<1>2. \A d : DayRows(t, d) = RowsOn(slot[t], d)
  BY DEF DayRows, RowsOn
<1>3. ASSUME NEW d \in Days, ~(d < rules.horizon) PROVE RowsOn(slot[t], d) \subseteq kept[t]
  BY <1>1, <1>3 DEF RowsOn, ClearAfter, InWindow
<1> QED
  BY <1>1, <1>2, <1>3 DEF FitsWindow, ClearAfter

-----------------------------------------------------------------------------
Base == Inv /\ HistoryInv

(* What a step of p does to the requests beside it. *)
OthersStill(p) ==
  \A q \in Procs \ {p} :
    /\ pc'[q] = pc[q]
    /\ req'[q].undisturbed => req[q].undisturbed
    /\ req'[q].type = req[q].type
    /\ req'[q].victims \subseteq req[q].victims

LEMMA Frame ==
  ASSUME Base, NEW p \in Procs, pc[p] # "idle", OthersStill(p),
         pc'[p] = "idle" \/ (req'[p].undisturbed => req[p].undisturbed),
         tx'.by = tx.by \/ (tx.by = p /\ tx'.by = Nobody), tx'.by \in Procs => tx'.rules = tx.rules,
         tx'.by = p => pc'[p] \in {"listTypes"} \cup Listed, pc'[p] = "commit" => tx'.by = p,
         settled' \subseteq settled \/ req[p].undisturbed,
         pc'[p] \in Rebuilding /\ tx'.by # p => req'[p].type \notin settled',
         pc'[p] \in Deleting => req'[p].victims \subseteq {req'[p].type} \X Times,
         rules' = rules \/ rules' # NoRules,
         rules' = NoRules => \A t \in Types : slot'[t] = NoSlots[t],
         pc'[p] \in Listed \ {"settings"} /\ tx'.by # p => rules' # NoRules,
         pc'[p] # "idle" /\ req'[p].undisturbed => Claims(p, pc[p], req[p])',
         SettledFit'
  PROVE  HistoryInv'
<1> USE DEF OthersStill, Base, HistoryInv
<1>1. Nobody \notin Procs
  BY SlotRegenAssumption
<1>2. \A q \in Procs : q # p /\ pc[q] # "idle" => ~req[q].undisturbed /\ ~req[p].undisturbed
  BY DEF Alone
<1>3. Alone'
  BY <1>2 DEF Alone
<1>4. OwnerActive'
  BY <1>1 DEF OwnerActive
<1>5. Unsettled'
  <2>1. ASSUME NEW q \in Procs, q # p, pc'[q] \in Rebuilding, tx'.by # q PROVE req'[q].type \notin settled'
    <3>1. pc[q] \in Rebuilding /\ tx.by # q /\ ~req[p].undisturbed
      BY <1>2, <2>1 DEF Rebuilding
    <3> QED
      BY <2>1, <3>1 DEF Unsettled
  <2>2. ASSUME NEW q \in Procs, q # p, pc'[q] \in Deleting PROVE req'[q].victims \subseteq {req'[q].type} \X Times
    BY <2>2 DEF Unsettled
  <2> QED
    BY <2>1, <2>2 DEF Unsettled
<1>6. RulesFirst'
  BY <1>1 DEF RulesFirst
<1>7. RequestInv'
  BY <1>2 DEF RequestInv
<1> QED
  BY <1>3, <1>4, <1>5, <1>6, <1>7

LEMMA ClaimsStable ==
  ASSUME NEW p, NEW l, NEW r, UNCHANGED <<rules, type, slot, tx>>, pc'[p] = l, req'[p] = r, Claims(p, l, r)
  PROVE  Claims(p, pc[p], req[p])'
<1>1. RulesRead(p, pc[p], req[p])'
  BY DEF Claims, RulesRead, SeenRules
<1>2. KindsRead(pc[p], req[p])'
  BY DEF Claims, KindsRead
<1>3. Progress(p, pc[p], req[p])'
  BY DEF Claims, Progress, View, Seen
<1>4. OwnTx(p, pc[p], req[p])'
  BY DEF Claims, OwnTx, View, Seen, Exists
<1> QED
  BY <1>1, <1>2, <1>3, <1>4 DEF Claims

(* A request goes on and writes nothing but its own variables. *)
LEMMA LocalFrame ==
  ASSUME Base, NEW p \in Procs, pc[p] # "idle", NEW label \in Labels, label # "idle", NEW r \in Reqs,
         Goto(p, label), Set(p, r), r.undisturbed => req[p].undisturbed,
         UNCHANGED <<rules, type, slot, tx>>,
         settled' \subseteq settled, \A t \in settled' : kept'[t] = kept[t],
         tx.by = p => label \in {"listTypes"} \cup Listed, label = "commit" => tx.by = p,
         label \in Rebuilding /\ tx.by # p => r.type \notin settled',
         label \in Deleting => r.victims \subseteq {r.type} \X Times,
         label \in Listed \ {"settings"} /\ tx.by # p => rules # NoRules,
         r.undisturbed => Claims(p, label, r)
  PROVE  HistoryInv'
<1>1. pc'[p] = label /\ req'[p] = r /\ \A q \in Procs \ {p} : pc'[q] = pc[q] /\ req'[q] = req[q]
  BY DEF Goto, Set, Base, Inv, TypeOK
<1>2. OthersStill(p)
  BY <1>1 DEF OthersStill
<1>3. SettledFit'
  BY DEF Base, HistoryInv, SettledFit
<1>4. r.undisturbed => Claims(p, pc[p], req[p])'
  BY <1>1, ClaimsStable
<1>5. rules = NoRules => \A t \in Types : slot[t] = NoSlots[t]
  BY DEF Base, HistoryInv, RulesFirst
<1> HIDE DEF Base
<1> QED
  BY <1>1, <1>2, <1>3, <1>4, <1>5, Frame

LEMMA Actor ==
  ASSUME Base, NEW p \in Procs
  PROVE  /\ TypeOK /\ req[p] \in Reqs /\ (pc[p] \in TypeLabels => req[p].type \in Types)
         /\ pc[p] # "idle" /\ req[p].undisturbed => Claims(p, pc[p], req[p])
  BY DEF Base, Inv, TypeOK, HistoryInv, RequestInv

(* A request ends, and its transaction with it. *)
LEMMA EndFrame ==
  ASSUME Base, NEW p \in Procs, pc[p] # "idle", End(p), UNCHANGED <<rules, slot>>,
         settled' \subseteq settled \/ req[p].undisturbed, SettledFit'
  PROVE  HistoryInv'
<1> HIDE DEF NoReq
<1>1. pc'[p] = "idle" /\ \A q \in Procs \ {p} : pc'[q] = pc[q] /\ req'[q] = req[q]
  BY DEF End, Goto, Set, Base, Inv, TypeOK
<1>2. OthersStill(p)
  BY <1>1 DEF OthersStill
<1>3. tx'.by = tx.by \/ (tx.by = p /\ tx'.by = Nobody)
  BY DEF End, NoTx
<1>4. tx'.by \in Procs => tx'.rules = tx.rules
  BY SlotRegenAssumption DEF End, NoTx
<1>5. tx'.by # p
  BY SlotRegenAssumption DEF End, NoTx
<1>6. rules = NoRules => \A t \in Types : slot[t] = NoSlots[t]
  BY DEF Base, HistoryInv, RulesFirst
<1>7. pc'[p] \notin Rebuilding /\ pc'[p] \notin Deleting /\ pc'[p] \notin Listed /\ pc'[p] # "commit"
  BY <1>1 DEF Rebuilding, Deleting, Listed, Read
<1> HIDE DEF Base
<1> QED
  BY <1>1, <1>2, <1>3, <1>4, <1>5, <1>6, <1>7, Frame

LEMMA SettledStill ==
  ASSUME Base, UNCHANGED <<rules, slot>>, settled' \subseteq settled,
         \A t \in settled' : kept'[t] = kept[t] /\ type'[t] = type[t]
  PROVE  SettledFit'
  BY DEF Base, HistoryInv, SettledFit

LEMMA FailHistory ==
  ASSUME Base, NEW p \in Procs, Fail(p)
  PROVE  HistoryInv'
<1>1. SettledFit'
  BY SettledStill DEF Fail
<1> QED
  BY <1>1, EndFrame DEF Fail

LEMMA CountScheduledHistory ==
  ASSUME Base, NEW p \in Procs, CountScheduled(p)
  PROVE  HistoryInv'
<1>1. CASE End(p)
  BY <1>1, SettledStill, EndFrame DEF CountScheduled
<1>2. CASE Goto(p, "deleteType") /\ UNCHANGED <<req, tx>>
  <2>1. Set(p, req[p]) /\ tx.by # p
    BY <1>2 DEF Set, Base, Inv, TypeOK, HistoryInv, OwnerActive, CountScheduled, Listed, Read, Rebuilding
  <2>2. "deleteType" \in Labels /\ "deleteType" \notin Listed \cup Rebuilding \cup Deleting
    BY DEF Labels, Listed, Read, Rebuilding, Deleting
  <2>3. Claims(p, "deleteType", req[p])
    BY <2>1, <2>2 DEF Claims, RulesRead, KindsRead, Progress, OwnTx, Inserted, Read, Listed, Rebuilding
  <2>4. req[p] \in Reqs
    BY Actor
  <2> QED
    BY <1>2, <2>1, <2>2, <2>3, <2>4, LocalFrame DEF CountScheduled
<1> QED
  BY <1>1, <1>2 DEF CountScheduled

LEMMA ListTypesHistory ==
  ASSUME Base, NEW p \in Procs, ListTypes(p)
  PROVE  HistoryInv'
<1> DEFINE r == [req[p] EXCEPT !.kind = type, !.todo = {t \in Types : Exists(t)}]
<1>1. req[p] \in Reqs /\ TypeOK
  BY Actor
<1>2. r \in Reqs /\ r.undisturbed = req[p].undisturbed /\ r.kind = type /\ r.todo = {t \in Types : Exists(t)}
  BY <1>1 DEF Reqs, TypeOK
<1>3. "settings" \in Labels \cap Listed /\ "settings" \notin Rebuilding \cup Deleting \cup Read \cup Inserted
  BY DEF Labels, Listed, Read, Rebuilding, Deleting, Inserted
<1>4. Goto(p, "settings") /\ Set(p, r) /\ pc[p] = "listTypes"
  BY DEF ListTypes
<1>5. UNCHANGED <<rules, type, slot, tx, settled, kept>>
  BY DEF ListTypes
<1> HIDE DEF r
<1>6. ASSUME req[p].undisturbed PROVE Claims(p, "settings", r)
  <2>1. OwnTx(p, "listTypes", req[p])
    BY <1>4, <1>6, Actor DEF Claims
  <2>2. OwnTx(p, "settings", r)
    BY <1>2, <1>3, <2>1 DEF OwnTx
  <2>3. RulesRead(p, "settings", r) /\ KindsRead("settings", r) /\ Progress(p, "settings", r)
    BY <1>2, <1>3 DEF RulesRead, KindsRead, Progress, Listed, Read, Rebuilding, Inserted
  <2> QED
    BY <2>2, <2>3 DEF Claims
<1> HIDE DEF Base
<1> QED
  BY <1>2, <1>3, <1>4, <1>5, <1>6, LocalFrame

LEMMA GetTypeHistory ==
  ASSUME Base, NEW p \in Procs, GetType(p)
  PROVE  HistoryInv'
<1> DEFINE r == [req[p] EXCEPT !.todo = {req[p].type}]
<1>1. req[p] \in Reqs /\ TypeOK /\ req[p].type \in Types
  BY Actor DEF GetType, TypeLabels, Labels
<1>2. r \in Reqs /\ r.undisturbed = req[p].undisturbed /\ r.kind = req[p].kind /\ r.todo = {req[p].type}
  BY <1>1 DEF Reqs
<1>3. "settings" \in Labels \cap Listed /\ "settings" \notin Rebuilding \cup Deleting \cup Read \cup Inserted
  BY DEF Labels, Listed, Read, Rebuilding, Deleting, Inserted
<1>4. Goto(p, "settings") /\ Set(p, r) /\ pc[p] = "getType"
  BY DEF GetType
<1>5. UNCHANGED <<rules, type, slot, tx, settled, kept>>
  BY DEF GetType
<1>6. tx.by # p
  BY <1>4 DEF Base, HistoryInv, OwnerActive, Listed, Read, Rebuilding
<1> HIDE DEF r
<1>7. ASSUME req[p].undisturbed PROVE Claims(p, "settings", r)
  <2>1. KindsRead("getType", req[p])
    BY <1>4, <1>7, Actor DEF Claims
  <2>2. RulesRead(p, "settings", r) /\ Progress(p, "settings", r) /\ OwnTx(p, "settings", r)
    BY <1>3, <1>6 DEF RulesRead, OwnTx, Progress, Listed, Read, Rebuilding, Inserted
  <2>3. KindsRead("settings", r)
    BY <1>2, <1>3, <2>1 DEF KindsRead
  <2> QED
    BY <2>2, <2>3 DEF Claims
<1> HIDE DEF Base
<1> QED
  BY <1>2, <1>3, <1>4, <1>5, <1>6, <1>7, LocalFrame

(* A request reads a part of the rules. *)
LEMMA ReadFrame ==
  ASSUME Base, NEW p \in Procs, pc[p] \in {"settings", "hours", "breaks"},
         NEW label \in {"hours", "breaks", "timeOff"}, NEW r \in Reqs, Goto(p, label), Set(p, r),
         r.undisturbed = req[p].undisturbed, r.kind = req[p].kind, r.todo = req[p].todo, r.kept = req[p].kept,
         UNCHANGED <<rules, type, slot, tx, settled, kept>>,
         tx.by # p => rules # NoRules, req[p].undisturbed => RulesRead(p, label, r)
  PROVE  HistoryInv'
<1>1. label \in Labels \cap Listed /\ label \notin Rebuilding \cup Deleting \cup Inserted /\ label # "idle"
      /\ label # "commit" /\ label # "getType" /\ label # "listTypes"
  BY DEF Labels, Listed, Read, Rebuilding, Deleting, Inserted
<1>2. pc[p] # "idle" /\ pc[p] \in Listed
  BY DEF Listed
<1>3. ASSUME req[p].undisturbed PROVE Claims(p, label, r)
  <2>1. KindsRead(pc[p], req[p]) /\ OwnTx(p, pc[p], req[p])
    BY <1>2, <1>3, Actor DEF Claims
  <2>2. KindsRead(label, r)
    BY <1>1, <1>2, <2>1 DEF KindsRead
  <2>3. pc[p] \notin Inserted
    BY DEF Inserted
  <2>4. OwnTx(p, label, r)
    BY <1>1, <1>2, <2>1, <2>3 DEF OwnTx
  <2>5. Progress(p, label, r)
    BY <1>1 DEF Progress, Inserted
  <2> QED
    BY <1>3, <2>2, <2>4, <2>5 DEF Claims
<1> HIDE DEF Base
<1> QED
  BY <1>1, <1>2, <1>3, LocalFrame

(* A request n is like r, but for what it has read of the rules. *)
SameButRules(n, r) ==
  /\ n \in Reqs /\ n.type = r.type /\ n.kind = r.kind /\ n.todo = r.todo
  /\ n.undisturbed = r.undisturbed /\ n.kept = r.kept

LEMMA ReadFields ==
  ASSUME NEW r \in Reqs, NEW v \in Inputs \cup {NoRules}
  PROVE  /\ SameButRules([r EXCEPT !.rules.maxPerDay = v.maxPerDay, !.rules.horizon = v.horizon], r)
         /\ SameButRules([r EXCEPT !.rules.hours = v.hours], r)
         /\ SameButRules([r EXCEPT !.rules.breaks = v.breaks], r)
         /\ SameButRules([r EXCEPT !.rules.timeOff = v.timeOff], r)
<1>1. ASSUME NEW n, n \in Reqs,
             \/ n = [r EXCEPT !.rules.maxPerDay = v.maxPerDay, !.rules.horizon = v.horizon]
             \/ n = [r EXCEPT !.rules.hours = v.hours]
             \/ n = [r EXCEPT !.rules.breaks = v.breaks]
             \/ n = [r EXCEPT !.rules.timeOff = v.timeOff]
      PROVE  SameButRules(n, r)
  BY <1>1 DEF Reqs, SameButRules
<1> QED
  BY <1>1, ReadRulesType, Zenon

(* The parts themselves. *)
LEMMA ReadParts ==
  ASSUME NEW r \in Reqs, NEW v \in Inputs \cup {NoRules}
  PROVE  /\ LET n == [r EXCEPT !.rules.maxPerDay = v.maxPerDay, !.rules.horizon = v.horizon] IN
              n.rules.maxPerDay = v.maxPerDay /\ n.rules.horizon = v.horizon
         /\ LET n == [r EXCEPT !.rules.hours = v.hours] IN
              n.rules.hours = v.hours /\ n.rules.maxPerDay = r.rules.maxPerDay /\ n.rules.horizon = r.rules.horizon
         /\ LET n == [r EXCEPT !.rules.breaks = v.breaks] IN
              /\ n.rules.breaks = v.breaks /\ n.rules.hours = r.rules.hours
              /\ n.rules.maxPerDay = r.rules.maxPerDay /\ n.rules.horizon = r.rules.horizon
         /\ LET n == [r EXCEPT !.rules.timeOff = v.timeOff] IN
              /\ n.rules.timeOff = v.timeOff /\ n.rules.breaks = r.rules.breaks /\ n.rules.hours = r.rules.hours
              /\ n.rules.maxPerDay = r.rules.maxPerDay /\ n.rules.horizon = r.rules.horizon
<1>1. r.rules \in ReadRules
  BY DEF Reqs
<1> QED
  BY <1>1 DEF Reqs, ReadRules

LEMMA ReadSettingsHistory ==
  ASSUME Base, NEW p \in Procs, ReadSettings(p)
  PROVE  HistoryInv'
<1> DEFINE v == SeenRules(p)
           r == [req[p] EXCEPT !.rules.maxPerDay = v.maxPerDay, !.rules.horizon = v.horizon]
<1>1. TypeOK /\ req[p] \in Reqs /\ v \in Inputs \cup {NoRules}
  BY Actor, SeenRulesType
<1>2. pc[p] = "settings" /\ UNCHANGED <<rules, type, slot, booking, begun>>
  BY DEF ReadSettings
<1>3. CASE v = NoRules /\ End(p) /\ Settle(req[p], req[p].todo)
  <2>1. rules = NoRules
    BY <1>3 DEF Base, HistoryInv, RulesFirst, SeenRules
  <2>2. \A t \in Types : slot[t] = NoSlots[t]
    BY <2>1 DEF Base, HistoryInv, RulesFirst
  <2>3. settled' \subseteq Types
    <3>1. req[p].todo \subseteq Types /\ settled \subseteq Types
      BY <1>1 DEF Reqs, TypeOK
    <3> QED
      BY <1>3, <3>1 DEF Settle
  <2>4. SettledFit'
    <3>1. \A t \in settled' : Fits(NoSlots[t], type[t], NoRules, kept'[t])
      BY <2>3, EmptyFits
    <3> QED
      BY <1>2, <2>1, <2>2, <2>3, <3>1 DEF SettledFit
  <2>5. settled' \subseteq settled \/ req[p].undisturbed
    BY <1>3 DEF Settle
  <2> HIDE DEF Base
  <2> QED
    BY <1>2, <1>3, <2>4, <2>5, EndFrame
<1>4. CASE v # NoRules /\ Set(p, r) /\ Goto(p, "hours") /\ UNCHANGED <<tx, settled, kept>>
  <2>1. /\ r \in Reqs /\ r.kind = req[p].kind /\ r.todo = req[p].todo
        /\ r.undisturbed = req[p].undisturbed /\ r.kept = req[p].kept
    BY <1>1, ReadFields DEF SameButRules
  <2>2. r.rules.maxPerDay = v.maxPerDay /\ r.rules.horizon = v.horizon
    BY <1>1, ReadParts
  <2>3. tx.by # p => rules # NoRules
    BY <1>4 DEF SeenRules
  <2> HIDE DEF r
  <2>4. RulesRead(p, "hours", r)
    BY <2>2 DEF RulesRead, Listed, Read, Rebuilding
  <2> HIDE DEF Base
  <2> QED
    BY <1>2, <1>4, <2>1, <2>3, <2>4, ReadFrame
<1> QED
  BY <1>3, <1>4 DEF ReadSettings

(* Outside of a transaction a request that has read the settings has found rules. *)
LEMMA HasRules ==
  ASSUME Base, NEW p \in Procs, pc[p] \in Listed \ {"settings"}, tx.by # p
  PROVE  rules # NoRules
  BY DEF Base, HistoryInv, RulesFirst

LEMMA ListWorkingHoursHistory ==
  ASSUME Base, NEW p \in Procs, ListWorkingHours(p)
  PROVE  HistoryInv'
<1> DEFINE r == [req[p] EXCEPT !.rules.hours = SeenRules(p).hours]
<1>1. TypeOK /\ req[p] \in Reqs /\ SeenRules(p) \in Inputs \cup {NoRules}
  BY Actor, SeenRulesType
<1>2. pc[p] = "hours" /\ Goto(p, "breaks") /\ Set(p, r) /\ UNCHANGED <<rules, type, slot, tx, settled, kept>>
  BY DEF ListWorkingHours
<1>3. /\ r \in Reqs /\ r.kind = req[p].kind /\ r.todo = req[p].todo
      /\ r.undisturbed = req[p].undisturbed /\ r.kept = req[p].kept
  BY <1>1, ReadFields DEF SameButRules
<1>4. r.rules.hours = SeenRules(p).hours
      /\ r.rules.maxPerDay = req[p].rules.maxPerDay /\ r.rules.horizon = req[p].rules.horizon
  BY <1>1, ReadParts
<1>5. tx.by # p => rules # NoRules
  BY <1>2, HasRules DEF Listed
<1> HIDE DEF r
<1>6. ASSUME req[p].undisturbed PROVE RulesRead(p, "breaks", r)
  <2>1. RulesRead(p, "hours", req[p])
    BY <1>2, <1>6, Actor DEF Claims
  <2> QED
    BY <1>4, <2>1 DEF RulesRead, Listed, Read, Rebuilding
<1> HIDE DEF Base
<1> QED
  BY <1>2, <1>3, <1>5, <1>6, ReadFrame

LEMMA ListBreaksHistory ==
  ASSUME Base, NEW p \in Procs, ListBreaks(p)
  PROVE  HistoryInv'
<1> DEFINE r == [req[p] EXCEPT !.rules.breaks = SeenRules(p).breaks]
<1>1. TypeOK /\ req[p] \in Reqs /\ SeenRules(p) \in Inputs \cup {NoRules}
  BY Actor, SeenRulesType
<1>2. pc[p] = "breaks" /\ Goto(p, "timeOff") /\ Set(p, r) /\ UNCHANGED <<rules, type, slot, tx, settled, kept>>
  BY DEF ListBreaks
<1>3. /\ r \in Reqs /\ r.kind = req[p].kind /\ r.todo = req[p].todo
      /\ r.undisturbed = req[p].undisturbed /\ r.kept = req[p].kept
  BY <1>1, ReadFields DEF SameButRules
<1>4. r.rules.breaks = SeenRules(p).breaks /\ r.rules.hours = req[p].rules.hours
      /\ r.rules.maxPerDay = req[p].rules.maxPerDay /\ r.rules.horizon = req[p].rules.horizon
  BY <1>1, ReadParts
<1>5. tx.by # p => rules # NoRules
  BY <1>2, HasRules DEF Listed
<1> HIDE DEF r
<1>6. ASSUME req[p].undisturbed PROVE RulesRead(p, "timeOff", r)
  <2>1. RulesRead(p, "breaks", req[p])
    BY <1>2, <1>6, Actor DEF Claims
  <2> QED
    BY <1>4, <2>1 DEF RulesRead, Listed, Read, Rebuilding
<1> HIDE DEF Base
<1> QED
  BY <1>2, <1>3, <1>5, <1>6, ReadFrame

(* A request goes on to the next type, or ends. *)
LEMMA AdvanceFrame ==
  ASSUME Base, NEW p \in Procs, pc[p] \in Listed \ {"settings", "commit"}, NEW r \in Reqs, Advance(p, r),
         r.undisturbed => req[p].undisturbed, UNCHANGED <<rules, type, slot, tx>>,
         settled' \subseteq settled \/ req[p].undisturbed, SettledFit',
         req[p].undisturbed => Claims(p, "nextType", r)
  PROVE  HistoryInv'
<1> DEFINE label == IF r.todo # {} THEN "nextType" ELSE IF tx.by = p THEN "commit" ELSE "idle"
           next == IF r.todo # {} \/ tx.by = p THEN r ELSE NoReq
<1> HIDE DEF NoReq
<1>1. pc'[p] = label /\ req'[p] = next /\ \A q \in Procs \ {p} : pc'[q] = pc[q] /\ req'[q] = req[q]
  BY DEF Advance, Goto, Set, Base, Inv, TypeOK
<1>2. OthersStill(p)
  BY <1>1 DEF OthersStill
<1>3. pc[p] # "idle" /\ label \notin Rebuilding \cup Deleting \cup Inserted
      /\ "commit" \in Listed /\ "nextType" \in Listed
  BY DEF Listed, Rebuilding, Read, Deleting, Inserted
<1>4. tx.by # p => rules # NoRules
  BY HasRules
<1>5. rules = NoRules => \A t \in Types : slot[t] = NoSlots[t]
  BY DEF Base, HistoryInv, RulesFirst
<1>6. ASSUME label # "idle", next.undisturbed PROVE Claims(p, pc[p], req[p])'
  <2>1. next = r /\ Claims(p, "nextType", r)
    BY <1>6
  <2>2. CASE r.todo # {}
    BY <1>1, <2>1, <2>2, ClaimsStable
  <2>3. CASE r.todo = {} /\ tx.by = p
    <3>1. RulesRead(p, "commit", r)
      BY <2>1 DEF Claims, RulesRead, Listed, Read
    <3>2. KindsRead("commit", r)
      BY <2>3 DEF KindsRead, Rebuilding
    <3>3. Progress(p, "commit", r)
      BY DEF Progress, Inserted
    <3>4. OwnTx(p, "commit", r)
      BY <2>1, <2>3 DEF Claims, OwnTx, Inserted, Listed, Read
    <3>5. Claims(p, "commit", r)
      BY <3>1, <3>2, <3>3, <3>4 DEF Claims
    <3> QED
      BY <1>1, <2>1, <2>3, <3>5, ClaimsStable
  <2> QED
    BY <1>6, <2>2, <2>3
<1>7. label = "commit" => tx.by = p
  OBVIOUS
<1>8. tx.by = p => label \in Listed /\ label # "idle"
  BY <1>3
<1>9. label # "idle" /\ next.undisturbed => req[p].undisturbed
  OBVIOUS
<1> HIDE DEF Base, label, next
<1> QED
  BY <1>1, <1>2, <1>3, <1>4, <1>5, <1>6, <1>7, <1>8, <1>9, Frame

LEMMA ListTimeOffHistory ==
  ASSUME Base, NEW p \in Procs, ListTimeOff(p)
  PROVE  HistoryInv'
<1> DEFINE r == [req[p] EXCEPT !.rules.timeOff = SeenRules(p).timeOff]
<1>1. TypeOK /\ req[p] \in Reqs /\ SeenRules(p) \in Inputs \cup {NoRules}
  BY Actor, SeenRulesType
<1>2. pc[p] = "timeOff" /\ Advance(p, r) /\ UNCHANGED <<rules, type, slot, tx, settled, kept>>
  BY DEF ListTimeOff
<1>3. /\ r \in Reqs /\ r.kind = req[p].kind /\ r.todo = req[p].todo
      /\ r.undisturbed = req[p].undisturbed /\ r.kept = req[p].kept
  BY <1>1, ReadFields DEF SameButRules
<1>4. r.rules.timeOff = SeenRules(p).timeOff /\ r.rules.breaks = req[p].rules.breaks /\ r.rules.hours = req[p].rules.hours
      /\ r.rules.maxPerDay = req[p].rules.maxPerDay /\ r.rules.horizon = req[p].rules.horizon
  BY <1>1, ReadParts
<1>5. SettledFit'
  BY <1>2, SettledStill
<1> HIDE DEF r
<1>6. ASSUME req[p].undisturbed PROVE Claims(p, "nextType", r)
  <2>1. Claims(p, "timeOff", req[p])
    BY <1>2, <1>6, Actor
  <2>2. RulesRead(p, "nextType", r)
    BY <1>4, <2>1 DEF Claims, RulesRead, Listed, Read, Rebuilding
  <2>3. KindsRead("nextType", r)
    BY <1>3, <2>1 DEF Claims, KindsRead, Listed, Read, Rebuilding
  <2>4. Progress(p, "nextType", r)
    BY DEF Progress, Inserted
  <2>5. OwnTx(p, "nextType", r)
    BY <1>3, <2>1 DEF Claims, OwnTx, Listed, Read, Inserted
  <2> QED
    BY <2>2, <2>3, <2>4, <2>5 DEF Claims
<1>7. pc[p] \in Listed \ {"settings", "commit"}
  BY <1>2 DEF Listed
<1> HIDE DEF Base
<1> QED
  BY <1>2, <1>3, <1>5, <1>6, <1>7, AdvanceFrame

-----------------------------------------------------------------------------
LEMMA ViewType ==
  ASSUME TypeOK, NEW p, NEW t \in Types
  PROVE  /\ View(p, t) \in [Times -> Nat] /\ \A s \in Times : View(p, t)[s] = Seen(p, t, s)
         /\ tx.by # p => View(p, t) = slot[t]
<1>1. tx \in Txs
  BY TxType
<1>2. \A s \in Times : Seen(p, t, s) \in Nat
  BY <1>1 DEF Seen, TypeOK, Txs
<1>3. tx.by # p => \A s \in Times : Seen(p, t, s) = slot[t][s]
  BY DEF Seen
<1>4. View(p, t) \in [Times -> Nat] /\ \A s \in Times : View(p, t)[s] = Seen(p, t, s)
  BY <1>2 DEF View
<1>5. slot[t] \in [Times -> Nat]
  BY DEF TypeOK
<1> QED
  BY <1>3, <1>4, <1>5

(* A request n is like r, but keeps more starts of type t. *)
KeepsMore(n, r, t, starts) ==
  /\ n.type = r.type /\ n.kind = r.kind /\ n.todo = r.todo /\ n.rules = r.rules /\ n.victims = r.victims
  /\ n.kept[t] = r.kept[t] \cup starts
  /\ \A u \in Types \ {t} : n.kept[u] = r.kept[u]

LEMMA KeepFields ==
  ASSUME NEW r \in Reqs, NEW t \in Types, NEW starts \in SUBSET Times, r.undisturbed
  PROVE  KeepsMore(Keep(r, t, starts), r, t, starts)
  BY DEF Keep, Reqs, KeepsMore

LEMMA KeepUndisturbed ==
  ASSUME NEW r \in Reqs, NEW t \in Types, NEW starts \in SUBSET Times
  PROVE  LET n == Keep(r, t, starts) IN n.undisturbed = r.undisturbed /\ n.victims = r.victims
  BY DEF Keep, Reqs

LEMMA EndOfTypeHistory ==
  ASSUME Base, NEW p \in Procs, EndOfType(p)
  PROVE  HistoryInv'
<1> DEFINE t == req[p].type
           r == [req[p] EXCEPT !.type = NoType, !.todo = @ \ {t}]
<1>1. TypeOK /\ req[p] \in Reqs /\ t \in Types
  BY Actor DEF EndOfType, TypeLabels, Labels
<1>2. pc[p] = "nextOrEnd" /\ Advance(p, r) /\ UNCHANGED <<rules, type, slot, tx>>
  BY DEF EndOfType
<1>3. /\ r \in Reqs /\ r.kind = req[p].kind /\ r.todo = req[p].todo \ {t} /\ r.rules = req[p].rules
      /\ r.undisturbed = req[p].undisturbed /\ r.kept = req[p].kept
  BY <1>1 DEF Reqs
<1> HIDE DEF r
<1>4. ASSUME req[p].undisturbed
      PROVE  /\ Fits(View(p, t), type[t], SeenRules(p), req[p].kept[t])
             /\ Claims(p, "nextOrEnd", req[p])
  <2>1. Claims(p, "nextOrEnd", req[p])
    BY <1>2, <1>4, Actor
  <2>2. FitsWindow(View(p, t), req[p].kind[t], req[p].rules, req[p].kept[t])
        /\ ClearAfter(View(p, t), req[p].rules, req[p].kept[t])
    BY <2>1 DEF Claims, Progress, Inserted
  <2>3. req[p].kind[t] = type[t]
    BY <2>1 DEF Claims, KindsRead, Listed, Read, Rebuilding
  <2>4. /\ req[p].rules.maxPerDay = SeenRules(p).maxPerDay /\ req[p].rules.horizon = SeenRules(p).horizon
        /\ req[p].rules.hours = SeenRules(p).hours /\ req[p].rules.breaks = SeenRules(p).breaks
        /\ req[p].rules.timeOff = SeenRules(p).timeOff
    BY <2>1 DEF Claims, RulesRead, Listed, Read, Rebuilding
  <2>5. Fits(View(p, t), req[p].kind[t], SeenRules(p), req[p].kept[t])
    BY <2>2, <2>4, RulesSame
  <2> QED
    BY <2>1, <2>3, <2>5
<1>5. SettledFit' /\ (settled' \subseteq settled \/ req[p].undisturbed)
  <2>1. CASE UNCHANGED <<settled, kept>>
    BY <1>2, <2>1, SettledStill
  <2>2. CASE tx.by # p /\ req[p].undisturbed /\ Settle(req[p], {t})
    <3>1. settled' = settled \cup {t} /\ kept' = [u \in Types |-> IF u \in {t} THEN req[p].kept[u] ELSE kept[u]]
      BY <2>2 DEF Settle
    <3>2. Fits(slot[t], type[t], rules, req[p].kept[t])
      BY <1>1, <1>4, <2>2, ViewType DEF SeenRules
    <3>3. \A u \in settled : u \in Types /\ Fits(slot[u], type[u], rules, kept[u])
      BY <1>1 DEF Base, HistoryInv, SettledFit, TypeOK
    <3> QED
      BY <1>1, <1>2, <2>2, <3>1, <3>2, <3>3 DEF SettledFit
  <2>3. CASE tx.by # p /\ ~req[p].undisturbed /\ Settle(req[p], {t})
    BY <2>1, <2>3 DEF Settle
  <2> QED
    BY <2>1, <2>2, <2>3 DEF EndOfType
<1>6. ASSUME req[p].undisturbed PROVE Claims(p, "nextType", r)
  <2>1. Claims(p, "nextOrEnd", req[p])
    BY <1>4, <1>6
  <2>2. RulesRead(p, "nextType", r)
    BY <1>3, <2>1 DEF Claims, RulesRead, Listed, Read, Rebuilding
  <2>3. KindsRead("nextType", r)
    BY <1>3, <2>1 DEF Claims, KindsRead, Listed, Read, Rebuilding
  <2>4. Progress(p, "nextType", r)
    BY DEF Progress, Inserted
  <2>5. OwnTx(p, "nextType", r)
    <3> SUFFICES ASSUME tx.by = p PROVE OwnTx(p, "nextType", r)
      BY DEF OwnTx
    <3>1. \A u \in Types : u \in req[p].todo /\ u # t => tx.new[u] = NoSlots[u]
      BY <2>1 DEF Claims, OwnTx
    <3>2. \A u \in Types \ req[p].todo : Exists(u) => Fits(View(p, u), type[u], tx.rules, req[p].kept[u])
      BY <2>1 DEF Claims, OwnTx, Listed, Read, Rebuilding
    <3>3. Fits(View(p, t), type[t], tx.rules, req[p].kept[t])
      BY <1>4, <1>6 DEF SeenRules
    <3> QED
      BY <1>3, <3>1, <3>2, <3>3 DEF OwnTx, Inserted
  <2> QED
    BY <2>2, <2>3, <2>4, <2>5 DEF Claims
<1>7. pc[p] \in Listed \ {"settings", "commit"}
  BY <1>2 DEF Listed, Read, Rebuilding
<1> HIDE DEF Base
<1> QED
  BY <1>2, <1>3, <1>5, <1>6, <1>7, AdvanceFrame

(* The next statement of a type that is being rebuilt. *)
LEMMA RebuildFrame ==
  ASSUME Base, NEW p \in Procs, pc[p] \in Rebuilding, NEW label \in Rebuilding, NEW r \in Reqs,
         Goto(p, label), Set(p, r), r.undisturbed => req[p].undisturbed, r.type = req[p].type,
         UNCHANGED <<rules, type, slot, tx, settled, kept>>,
         label \in Deleting => r.victims \subseteq {r.type} \X Times,
         r.undisturbed => Claims(p, label, r)
  PROVE  HistoryInv'
<1>1. label \in Labels /\ label # "idle" /\ label # "commit" /\ pc[p] # "idle" /\ label \in Listed
      /\ pc[p] \in Listed \ {"settings"}
  BY DEF Rebuilding, Labels, Listed, Read
<1>2. tx.by # p => r.type \notin settled /\ rules # NoRules
  BY <1>1, HasRules DEF Base, HistoryInv, Unsettled
<1> HIDE DEF Base
<1> QED
  BY <1>1, <1>2, LocalFrame

(* What stays true while one type is rebuilt. *)
LEMMA RebuildClaims ==
  ASSUME NEW p, NEW l \in Rebuilding, NEW m \in Rebuilding, NEW r, NEW n, Claims(p, l, r),
         n.rules = r.rules, n.kind = r.kind, n.todo = r.todo, n.type = r.type,
         \A u \in Types \ {r.type} : n.kept[u] = r.kept[u], l \in Inserted <=> m \in Inserted
  PROVE  RulesRead(p, m, n) /\ KindsRead(m, n) /\ OwnTx(p, m, n)
<1>1. l \in Listed \ {"settings", "hours", "breaks", "timeOff"} /\ m \in Listed \ {"settings", "hours", "breaks", "timeOff"}
      /\ l # "commit" /\ m # "commit" /\ l # "getType" /\ m # "getType" /\ l # "listTypes" /\ m # "listTypes"
      /\ l \in Read /\ m \in Read
  BY DEF Rebuilding, Listed, Read
<1>2. RulesRead(p, m, n)
  BY <1>1 DEF Claims, RulesRead
<1>3. KindsRead(m, n)
  BY <1>1 DEF Claims, KindsRead
<1>4. r.type \in r.todo
  BY DEF Claims, KindsRead
<1>5. OwnTx(p, m, n)
  BY <1>1, <1>4 DEF Claims, OwnTx
<1> QED
  BY <1>2, <1>3, <1>5

LEMMA ListSlotsHistory ==
  ASSUME Base, NEW p \in Procs, ListSlots(p)
  PROVE  HistoryInv'
<1> DEFINE t == req[p].type
           occupied == {s \in Times : InWindow(s, req[p].rules.horizon) /\ Seen(p, t, s) # 0}
           r == [req[p] EXCEPT !.occupied = occupied]
<1>1. TypeOK /\ req[p] \in Reqs /\ t \in Types /\ pc[p] = "listSlots"
  BY Actor DEF ListSlots, TypeLabels, Labels
<1>2. Goto(p, "countSlots") /\ Set(p, r) /\ UNCHANGED <<rules, type, slot, tx, settled, kept>>
  BY DEF ListSlots
<1>3. occupied \in SUBSET Times
  OBVIOUS
<1>4. occupied = {s \in Times : InWindow(s, req[p].rules.horizon) /\ View(p, t)[s] # 0}
  BY <1>1, ViewType
<1> HIDE DEF occupied
<1>5. /\ r \in Reqs /\ r.kind = req[p].kind /\ r.todo = req[p].todo /\ r.rules = req[p].rules
      /\ r.undisturbed = req[p].undisturbed /\ r.kept = req[p].kept /\ r.type = t /\ r.occupied = occupied
  BY <1>1, <1>3 DEF Reqs
<1> HIDE DEF r
<1>6. "listSlots" \in Rebuilding /\ "countSlots" \in Rebuilding \ (Inserted \cup Deleting) /\ "listSlots" \notin Inserted
  BY DEF Rebuilding, Inserted, Deleting
<1>7. ASSUME req[p].undisturbed PROVE Claims(p, "countSlots", r)
  <2>1. Claims(p, "listSlots", req[p])
    BY <1>1, <1>7, Actor
  <2>2. Progress(p, "countSlots", r)
    BY <1>4, <1>5, <1>6, <2>1 DEF Claims, Progress
  <2> QED
    BY <1>5, <1>6, <2>1, <2>2, RebuildClaims DEF Claims
<1> HIDE DEF Base
<1> QED
  BY <1>1, <1>2, <1>5, <1>6, <1>7, RebuildFrame

LEMMA CountSlotsHistory ==
  ASSUME Base, NEW p \in Procs, NEW failing \in SUBSET Days, CountSlots(p, failing)
  PROVE  HistoryInv'
<1> DEFINE t == req[p].type
           rows == {s \in Times : Seen(p, t, s) # 0}
           room == [d \in Days |-> IF d \in failing THEN 0 ELSE Room(rows, req[p].rules.maxPerDay, d)]
           counted == [req[p] EXCEPT !.room = room]
           r == IF failing = {} THEN counted ELSE Disturbed(counted)
<1>1. TypeOK /\ req[p] \in Reqs /\ t \in Types /\ pc[p] = "countSlots"
  BY Actor DEF CountSlots, TypeLabels, Labels
<1>2. Goto(p, "insertSlots") /\ Set(p, r) /\ UNCHANGED <<rules, type, slot, tx, settled, kept>>
  BY DEF CountSlots
<1>3. rows = {s \in Times : View(p, t)[s] # 0} /\ rows \in SUBSET Times
  BY <1>1, ViewType
<1>4. req[p].rules.maxPerDay \in Nat
  BY <1>1, SlotRegenAssumption DEF Reqs, ReadRules, NoRules
<1> HIDE DEF rows
<1>5. room \in [Days -> Nat] /\ (failing = {} => \A d \in Days : room[d] = Room(rows, req[p].rules.maxPerDay, d))
  BY <1>3, <1>4, RoomType
<1> HIDE DEF room
<1>6. /\ counted \in Reqs /\ counted.kind = req[p].kind /\ counted.todo = req[p].todo /\ counted.rules = req[p].rules
      /\ counted.undisturbed = req[p].undisturbed /\ counted.kept = req[p].kept /\ counted.type = t
      /\ counted.room = room /\ counted.occupied = req[p].occupied
  BY <1>1, <1>5 DEF Reqs
<1> HIDE DEF counted
<1>7. "countSlots" \in Rebuilding \ Inserted /\ "insertSlots" \in Rebuilding \ (Inserted \cup Deleting)
  BY DEF Rebuilding, Inserted, Deleting
<1>8. CASE failing = {}
  <2>1. ASSUME req[p].undisturbed PROVE Claims(p, "insertSlots", counted)
    <3>1. Claims(p, "countSlots", req[p])
      BY <1>1, <2>1, Actor
    <3>2. Progress(p, "insertSlots", counted)
      BY <1>3, <1>5, <1>6, <1>7, <1>8, <3>1 DEF Claims, Progress
    <3> QED
      BY <1>6, <1>7, <3>1, <3>2, RebuildClaims DEF Claims
  <2>2. r = counted
    BY <1>8
  <2> HIDE DEF Base, r
  <2> QED
    BY <1>1, <1>2, <1>6, <1>7, <2>1, <2>2, RebuildFrame
<1>9. CASE failing # {}
  <2>1. r = Disturbed(counted) /\ r \in Reqs /\ r.type = t
    BY <1>6, <1>9, DisturbedType
  <2>2. ~r.undisturbed
    BY <1>6, <2>1 DEF Disturbed, Reqs
  <2> HIDE DEF Base, r
  <2> QED
    BY <1>1, <1>2, <1>7, <2>1, <2>2, RebuildFrame
<1> QED
  BY <1>8, <1>9

LEMMA BookedReferenced == \A t \in Types, s \in Times : Booked(t, s) => Referenced(t, s)
  BY DEF Booked, Referenced

(* What a snapshot leaves out is kept. *)
LEMMA SnapshotRows ==
  ASSUME NEW p \in Procs, NEW t \in Types, NEW starts \in SUBSET Times
  PROVE  /\ Snapshot(p, t, starts) \subseteq {t} \X starts
         /\ \A s \in starts : Seen(p, t, s) # 0 => s \in ReferencedStarts(t) \/ <<t, s>> \in Snapshot(p, t, starts)
  BY BookedReferenced DEF Snapshot, ReferencedStarts, Unbooked

LEMMA SnapshotWindowHistory ==
  ASSUME Base, NEW p \in Procs, NEW t \in Types, SnapshotWindow(p, t)
  PROVE  HistoryInv'
<1> DEFINE window == {s \in Times : InWindow(s, req[p].rules.horizon)}
           r == [req[p] EXCEPT !.type = t, !.victims = Snapshot(p, t, window)]
           n == Keep(r, t, ReferencedStarts(t))
<1>1. TypeOK /\ req[p] \in Reqs /\ pc[p] = "nextType" /\ t \in req[p].todo
  BY Actor DEF SnapshotWindow
<1>2. Goto(p, "deleteWindow") /\ Set(p, n) /\ UNCHANGED <<rules, type, slot, tx>>
  BY DEF SnapshotWindow
<1>3. window \in SUBSET Times /\ \A s \in Times : InWindow(s, req[p].rules.horizon) => s \in window
  OBVIOUS
<1> HIDE DEF window
<1>4. Snapshot(p, t, window) \in SUBSET (Types \X Times) /\ ReferencedStarts(t) \in SUBSET Times
  BY <1>3, SnapshotType
<1>5. /\ r \in Reqs /\ r.kind = req[p].kind /\ r.todo = req[p].todo /\ r.rules = req[p].rules /\ r.type = t
      /\ r.undisturbed = req[p].undisturbed /\ r.kept = req[p].kept /\ r.victims = Snapshot(p, t, window)
  BY <1>1, <1>4 DEF Reqs
<1> HIDE DEF r
<1>6. n \in Reqs /\ n.type = t /\ n.undisturbed = r.undisturbed /\ n.victims = r.victims
  BY <1>4, <1>5, KeepType, KeepUndisturbed
<1>7. n.victims \subseteq {t} \X Times
  BY <1>3, <1>5, <1>6, SnapshotRows
<1>8. ASSUME n.undisturbed PROVE Claims(p, "deleteWindow", n)
  <2>1. Claims(p, "nextType", req[p])
    BY <1>1, <1>5, <1>6, <1>8, Actor
  <2>2. /\ n.kind = req[p].kind /\ n.todo = req[p].todo /\ n.rules = req[p].rules
        /\ n.kept[t] = req[p].kept[t] \cup ReferencedStarts(t)
        /\ \A u \in Types \ {t} : n.kept[u] = req[p].kept[u]
    <3>1. KeepsMore(n, r, t, ReferencedStarts(t))
      BY <1>4, <1>5, <1>6, <1>8, KeepFields
    <3> HIDE DEF n
    <3> QED
      BY <1>5, <3>1 DEF KeepsMore
  <2> HIDE DEF n
  <2>3. RulesRead(p, "deleteWindow", n)
    BY <2>1, <2>2 DEF Claims, RulesRead, Listed, Read, Rebuilding
  <2>4. KindsRead("deleteWindow", n)
    BY <1>1, <1>6, <2>1, <2>2 DEF Claims, KindsRead, Listed, Read, Rebuilding
  <2>5. Progress(p, "deleteWindow", n)
    <3>1. ASSUME NEW s \in Times \ n.kept[t], InWindow(s, n.rules.horizon), View(p, t)[s] # 0
          PROVE  <<t, s>> \in n.victims
      <4>1. s \in window /\ Seen(p, t, s) # 0 /\ s \notin ReferencedStarts(t)
        BY <1>1, <1>3, <2>2, <3>1, ViewType
      <4> QED
        BY <1>3, <1>5, <1>6, <4>1, SnapshotRows
    <3> QED
      BY <1>6, <3>1 DEF Progress, Inserted
  <2>6. OwnTx(p, "deleteWindow", n)
    BY <1>1, <2>1, <2>2 DEF Claims, OwnTx, Listed, Read, Rebuilding, Inserted
  <2> QED
    BY <2>3, <2>4, <2>5, <2>6 DEF Claims
<1>9. settled' \subseteq settled /\ (tx.by # p => t \notin settled') /\ \A u \in settled' : kept'[u] = kept[u]
  BY <1>1 DEF SnapshotWindow, Unsettle, TypeOK
<1>10. "deleteWindow" \in Labels /\ pc[p] \in Listed \ {"settings"} /\ "deleteWindow" \in Listed
  BY <1>1 DEF Labels, Listed, Read, Rebuilding
<1>11. tx.by # p => rules # NoRules
  BY <1>10, HasRules
<1> HIDE DEF Base, n
<1> QED
  BY <1>1, <1>2, <1>5, <1>6, <1>7, <1>8, <1>9, <1>10, <1>11, LocalFrame

LEMMA SnapshotAfterHistory ==
  ASSUME Base, NEW p \in Procs, SnapshotAfter(p)
  PROVE  HistoryInv'
<1> DEFINE t == req[p].type
           after == {s \in Times : ~InWindow(s, req[p].rules.horizon)}
           r == [req[p] EXCEPT !.victims = Snapshot(p, t, after)]
           n == Keep(r, t, ReferencedStarts(t))
<1>1. TypeOK /\ req[p] \in Reqs /\ pc[p] = "snapshotAfter" /\ t \in Types
  BY Actor DEF SnapshotAfter, TypeLabels, Labels
<1>2. Goto(p, "deleteAfter") /\ Set(p, n) /\ UNCHANGED <<rules, type, slot, tx, settled, kept>>
  BY DEF SnapshotAfter
<1>3. after \in SUBSET Times /\ \A s \in Times : s \in after <=> ~InWindow(s, req[p].rules.horizon)
  OBVIOUS
<1> HIDE DEF after
<1>4. Snapshot(p, t, after) \in SUBSET (Types \X Times) /\ ReferencedStarts(t) \in SUBSET Times
  BY <1>1, <1>3, SnapshotType
<1>5. /\ r \in Reqs /\ r.kind = req[p].kind /\ r.todo = req[p].todo /\ r.rules = req[p].rules /\ r.type = t
      /\ r.undisturbed = req[p].undisturbed /\ r.kept = req[p].kept /\ r.victims = Snapshot(p, t, after)
  BY <1>1, <1>4 DEF Reqs
<1> HIDE DEF r
<1>6. n \in Reqs /\ n.type = t /\ n.undisturbed = r.undisturbed /\ n.victims = r.victims
  BY <1>1, <1>4, <1>5, KeepType, KeepUndisturbed
<1>7. n.victims \subseteq {t} \X after
  BY <1>1, <1>3, <1>5, <1>6, SnapshotRows
<1>8. ASSUME n.undisturbed PROVE Claims(p, "deleteAfter", n)
  <2>1. Claims(p, "snapshotAfter", req[p])
    BY <1>1, <1>5, <1>6, <1>8, Actor
  <2>2. /\ n.kind = req[p].kind /\ n.todo = req[p].todo /\ n.rules = req[p].rules
        /\ n.kept[t] = req[p].kept[t] \cup ReferencedStarts(t)
        /\ \A u \in Types \ {t} : n.kept[u] = req[p].kept[u]
    <3>1. KeepsMore(n, r, t, ReferencedStarts(t))
      BY <1>1, <1>4, <1>5, <1>6, <1>8, KeepFields
    <3> HIDE DEF n
    <3> QED
      BY <1>5, <3>1 DEF KeepsMore
  <2> HIDE DEF n
  <2>3. RulesRead(p, "deleteAfter", n) /\ KindsRead("deleteAfter", n) /\ OwnTx(p, "deleteAfter", n)
    <3>1. "snapshotAfter" \in Rebuilding \cap Inserted /\ "deleteAfter" \in Rebuilding \cap Inserted
      BY DEF Rebuilding, Inserted
    <3> QED
      BY <1>6, <2>1, <2>2, <3>1, RebuildClaims
  <2>4. FitsWindow(View(p, t), n.kind[t], n.rules, n.kept[t])
    <3>1. FitsWindow(View(p, t), req[p].kind[t], req[p].rules, req[p].kept[t])
      BY <2>1 DEF Claims, Progress, Inserted
    <3>2. View(p, t) \in [Times -> Nat]
      BY <1>1, ViewType
    <3> QED
      BY <2>2, <3>1, <3>2, FitsSame
  <2>5. ASSUME NEW s \in Times \ n.kept[t], ~InWindow(s, n.rules.horizon), View(p, t)[s] # 0
        PROVE  <<t, s>> \in n.victims
    <3>1. s \in after /\ Seen(p, t, s) # 0 /\ s \notin ReferencedStarts(t)
      BY <1>1, <1>3, <2>2, <2>5, ViewType
    <3> QED
      BY <1>1, <1>3, <1>5, <1>6, <3>1, SnapshotRows
  <2>6. \A s \in Times : <<t, s>> \in n.victims => ~InWindow(s, n.rules.horizon)
    BY <1>3, <1>7, <2>2
  <2>7. Progress(p, "deleteAfter", n)
    BY <1>6, <2>4, <2>5, <2>6 DEF Progress
  <2> QED
    BY <2>3, <2>7 DEF Claims
<1>9. pc[p] \in Rebuilding /\ "deleteAfter" \in Rebuilding
  BY <1>1 DEF Rebuilding
<1>10. n.victims \subseteq {n.type} \X Times
  BY <1>3, <1>6, <1>7
<1> HIDE DEF Base, n
<1> QED
  BY <1>2, <1>5, <1>6, <1>8, <1>9, <1>10, RebuildFrame

-----------------------------------------------------------------------------
(* A statement that changes the slots of the type at hand. *)
LEMMA TouchFrame ==
  ASSUME Base, NEW p \in Procs, pc[p] \in Rebuilding, NEW label \in Rebuilding \ Deleting, pc'[p] = label,
         OthersStill(p), req'[p].type = req[p].type, req'[p].undisturbed => req[p].undisturbed,
         UNCHANGED <<rules, type, settled, kept>>, tx'.by = tx.by, tx'.rules = tx.rules,
         tx.by = p => slot' = slot, \A u \in Types \ {req[p].type} : slot'[u] = slot[u],
         req'[p].undisturbed => Claims(p, pc[p], req[p])'
  PROVE  HistoryInv'
<1>1. label \in Listed \ {"settings", "commit"} /\ pc[p] \in Listed \ {"settings", "commit"} /\ pc[p] # "idle"
      /\ label # "commit"
  BY DEF Rebuilding, Listed, Read
<1>2. tx.by # p => rules # NoRules /\ req[p].type \notin settled
  BY <1>1, HasRules DEF Base, HistoryInv, Unsettled
<1>3. rules = NoRules => \A u \in Types : slot'[u] = NoSlots[u]
  BY <1>2 DEF Base, HistoryInv, RulesFirst
<1>4. \A u \in settled : u \in Types /\ slot'[u] = slot[u] /\ Fits(slot[u], type[u], rules, kept[u])
  BY <1>2 DEF Base, HistoryInv, SettledFit, Inv, TypeOK
<1>5. SettledFit'
  BY <1>4 DEF SettledFit
<1> HIDE DEF Base
<1> QED
  BY <1>1, <1>2, <1>3, <1>5, Frame

LEMMA TouchClaims ==
  ASSUME NEW p, NEW l \in Rebuilding, NEW m \in Rebuilding, NEW r, NEW n, Claims(p, l, r),
         pc'[p] = m, req'[p] = n,
         n.rules = r.rules, n.kind = r.kind, n.todo = r.todo, n.type = r.type,
         \A u \in Types \ {r.type} : n.kept[u] = r.kept[u],
         UNCHANGED <<rules, type>>, tx'.by = tx.by, tx'.rules = tx.rules,
         \A u \in Types \ {r.type} : tx'.new[u] = tx.new[u] /\ View(p, u)' = View(p, u),
         m \notin Inserted => l \notin Inserted /\ tx'.new = tx.new,
         m \in Inserted => \A s \in Times : tx.by = p /\ tx'.new[r.type][s] # 0 => InWindow(s, r.rules.horizon),
         Progress(p, pc[p], req[p])'
  PROVE  Claims(p, pc[p], req[p])'
<1>1. l \in Listed \ {"settings", "hours", "breaks", "timeOff"} /\ m \in Listed \ {"settings", "hours", "breaks", "timeOff"}
      /\ l # "commit" /\ m # "commit" /\ l # "getType" /\ m # "getType" /\ l # "listTypes" /\ m # "listTypes"
      /\ l \in Read /\ m \in Read
  BY DEF Rebuilding, Listed, Read
<1>2. RulesRead(p, pc[p], req[p])'
  BY <1>1 DEF Claims, RulesRead, SeenRules
<1>3. KindsRead(pc[p], req[p])'
  BY <1>1 DEF Claims, KindsRead
<1>4. r.type \in r.todo
  BY DEF Claims, KindsRead
<1>5. OwnTx(p, pc[p], req[p])'
  <2> SUFFICES ASSUME tx.by = p PROVE OwnTx(p, pc[p], req[p])'
    BY DEF OwnTx
  <2>1. /\ \A u \in Types : u \in r.todo /\ ~(l \in Inserted /\ u = r.type) => tx.new[u] = NoSlots[u]
        /\ \A u \in Types \ r.todo : type[u] # NoType => Fits(View(p, u), type[u], tx.rules, r.kept[u])
    BY <1>1 DEF Claims, OwnTx, Exists
  <2>2. ASSUME NEW u \in Types, u \in n.todo, ~(m \in Inserted /\ u = n.type) PROVE tx'.new[u] = NoSlots[u]
    BY <2>1, <2>2
  <2>3. ASSUME NEW u \in Types \ n.todo, type[u] # NoType PROVE Fits(View(p, u)', type[u], tx.rules, n.kept[u])
    BY <1>4, <2>1, <2>3
  <2> HIDE DEF NoSlots
  <2> QED
    BY <1>1, <2>2, <2>3 DEF OwnTx, Exists
<1> QED
  BY <1>2, <1>3, <1>5 DEF Claims

(* What a DELETE makes of the rows that its request sees. *)
LEMMA DeleteRows ==
  ASSUME TypeOK, NEW p \in Procs, NEW t \in Types, DeleteUnbooked(p), req[p].victims \subseteq {t} \X Times
  PROVE  /\ tx'.by = tx.by /\ tx'.rules = tx.rules /\ tx'.new = tx.new
         /\ tx.by = p => slot' = slot
         /\ \A u \in Types \ {t} : slot'[u] = slot[u] /\ View(p, u)' = View(p, u)
         /\ \A s \in Times : (tx.by = p => tx.new[t][s] = 0) \/ <<t, s>> \notin Gone(p) =>
              View(p, t)'[s] = IF <<t, s>> \in Gone(p) THEN 0 ELSE View(p, t)[s]
<1>1. Gone(p) \subseteq {t} \X Times
  BY DEF Gone
<1>2. tx \in Txs
  BY TxType
<1>3. CASE tx.by = p
  <2>1. tx' = [tx EXCEPT !.gone = @ \cup Gone(p)] /\ slot' = slot
    BY <1>3 DEF DeleteUnbooked
  <2>2. tx'.by = tx.by /\ tx'.rules = tx.rules /\ tx'.new = tx.new /\ tx'.gone = tx.gone \cup Gone(p)
    BY <1>2, <2>1 DEF Txs
  <2>3. \A u \in Types, s \in Times : <<u, s>> \notin Gone(p) => Seen(p, u, s)' = Seen(p, u, s)
    BY <1>3, <2>1, <2>2 DEF Seen
  <2>4. \A u \in Types \ {t}, s \in Times : <<u, s>> \notin Gone(p)
    BY <1>1
  <2>5. \A u \in Types \ {t} : View(p, u)' = View(p, u)
    BY <2>3, <2>4 DEF View
  <2>6. \A s \in Times : <<t, s>> \in Gone(p) /\ tx.new[t][s] = 0 => Seen(p, t, s)' = 0
    BY <1>3, <2>2 DEF Seen
  <2> QED
    BY <1>3, <2>1, <2>2, <2>3, <2>5, <2>6 DEF View
<1>4. CASE tx.by # p
  <2>1. slot' = [u \in Types |-> [s \in Times |-> IF <<u, s>> \in Gone(p) THEN 0 ELSE slot[u][s]]] /\ tx' = tx
    BY <1>4 DEF DeleteUnbooked
  <2>2. \A u \in Types \ {t} : slot'[u] = slot[u]
    <3>1. \A u \in Types \ {t}, s \in Times : <<u, s>> \notin Gone(p)
      BY <1>1
    <3>2. \A u \in Types : slot[u] \in [Times -> Nat]
      BY DEF TypeOK
    <3> QED
      BY <2>1, <3>1, <3>2
  <2>3. \A u \in Types, s \in Times : Seen(p, u, s)' = slot'[u][s] /\ Seen(p, u, s) = slot[u][s]
    BY <1>4, <2>1 DEF Seen
  <2>4. \A u \in Types \ {t} : View(p, u)' = View(p, u)
    BY <2>2, <2>3 DEF View
  <2>5. \A s \in Times : slot'[t][s] = IF <<t, s>> \in Gone(p) THEN 0 ELSE slot[t][s]
    BY <2>1
  <2> QED
    BY <1>4, <2>1, <2>2, <2>3, <2>4, <2>5 DEF View
<1> QED
  BY <1>3, <1>4

(* What the DELETE does not remove is kept. *)
LEMMA DeleteKeeps ==
  ASSUME NEW p \in Procs, NEW t \in Types, NEW s \in Times, <<t, s>> \in req[p].victims, <<t, s>> \notin Gone(p)
  PROVE  s \in ReferencedStarts(t)
  BY BookedReferenced DEF Gone, ReferencedStarts

(* The part of a DELETE that does not depend on which of the two it is. *)
LEMMA DeleteFrame ==
  ASSUME Base, NEW p \in Procs, pc[p] \in Deleting, NEW label \in Rebuilding \ Deleting,
         label \in Inserted <=> pc[p] \in Inserted, DeleteUnbooked(p), Goto(p, label),
         req[p].undisturbed => Progress(p, pc[p], req[p])'
  PROVE  HistoryInv'
<1> DEFINE t == req[p].type
           emptied == [req[p] EXCEPT !.victims = {}]
           n == Keep(emptied, t, ReferencedStarts(t))
<1>1. TypeOK /\ req[p] \in Reqs /\ t \in Types /\ pc[p] \in Rebuilding
  BY Actor DEF Deleting, Rebuilding, TypeLabels, Labels
<1>2. req[p].victims \subseteq {t} \X Times
  BY DEF Base, HistoryInv, Unsettled
<1>3. /\ emptied \in Reqs /\ emptied.kind = req[p].kind /\ emptied.todo = req[p].todo /\ emptied.rules = req[p].rules
      /\ emptied.undisturbed = req[p].undisturbed /\ emptied.kept = req[p].kept /\ emptied.type = t
  BY <1>1 DEF Reqs
<1>4. req' = [q \in Procs |-> IF q = p THEN n ELSE Forget(Gone(p), req[q])] /\ UNCHANGED <<rules, type, settled, kept>>
  BY DEF DeleteUnbooked
<1> HIDE DEF emptied
<1>5. ReferencedStarts(t) \in SUBSET Times
  BY DEF ReferencedStarts
<1>6. n \in Reqs /\ n.type = t /\ n.undisturbed = req[p].undisturbed
  BY <1>1, <1>3, <1>5, KeepType, KeepUndisturbed
<1>7. req[p].undisturbed => KeepsMore(n, emptied, t, ReferencedStarts(t))
  BY <1>1, <1>3, <1>5, KeepFields
<1> HIDE DEF n
<1>8. pc'[p] = label /\ req'[p] = n /\ \A q \in Procs \ {p} : pc'[q] = pc[q] /\ req'[q] = Forget(Gone(p), req[q])
  BY <1>1, <1>4 DEF Goto, TypeOK
<1>9. OthersStill(p)
  <2>1. \A q \in Procs : req[q] \in Reqs
    BY <1>1 DEF TypeOK
  <2>2. ASSUME NEW r \in Reqs
        PROVE  /\ Forget(Gone(p), r).type = r.type /\ Forget(Gone(p), r).undisturbed = r.undisturbed
               /\ Forget(Gone(p), r).victims \subseteq r.victims
    BY DEF Forget, Reqs
  <2> QED
    BY <1>8, <2>1, <2>2 DEF OthersStill
<1>10. /\ tx'.by = tx.by /\ tx'.rules = tx.rules /\ tx'.new = tx.new /\ (tx.by = p => slot' = slot)
       /\ \A u \in Types \ {t} : slot'[u] = slot[u] /\ View(p, u)' = View(p, u)
  BY <1>1, <1>2, DeleteRows
<1>11. ASSUME n.undisturbed PROVE Claims(p, pc[p], req[p])'
  <2>1. Claims(p, pc[p], req[p])
    BY <1>1, <1>6, <1>11, Actor DEF Rebuilding
  <2>2. /\ n.kind = req[p].kind /\ n.todo = req[p].todo /\ n.rules = req[p].rules /\ n.type = t
        /\ \A u \in Types \ {t} : n.kept[u] = req[p].kept[u]
    BY <1>3, <1>6, <1>7, <1>11 DEF KeepsMore
  <2>3. label \in Inserted => \A s \in Times : tx.by = p /\ tx'.new[t][s] # 0 => InWindow(s, req[p].rules.horizon)
    BY <1>10, <2>1 DEF Claims, OwnTx
  <2>4. Progress(p, pc[p], req[p])'
    BY <1>6, <1>11
  <2> QED
    BY <1>1, <1>4, <1>8, <1>10, <2>1, <2>2, <2>3, <2>4, TouchClaims
<1> HIDE DEF Base
<1> QED
  BY <1>1, <1>4, <1>6, <1>8, <1>9, <1>10, <1>11, TouchFrame

(* The variables of a request after its DELETE. *)
LEMMA DeleteReq ==
  ASSUME Base, NEW p \in Procs, pc[p] \in Deleting, DeleteUnbooked(p), req[p].undisturbed
  PROVE  KeepsMore(req'[p], [req[p] EXCEPT !.victims = {}], req[p].type, ReferencedStarts(req[p].type))
<1> DEFINE t == req[p].type
           emptied == [req[p] EXCEPT !.victims = {}]
<1>1. TypeOK /\ req[p] \in Reqs /\ t \in Types
  BY Actor DEF Deleting, TypeLabels, Labels
<1>2. emptied \in Reqs /\ emptied.undisturbed
  BY <1>1 DEF Reqs
<1>3. req'[p] = Keep(emptied, t, ReferencedStarts(t))
  BY DEF DeleteUnbooked
<1> HIDE DEF emptied
<1>4. ReferencedStarts(t) \in SUBSET Times
  BY DEF ReferencedStarts
<1>5. KeepsMore(Keep(emptied, t, ReferencedStarts(t)), emptied, t, ReferencedStarts(t))
  BY <1>1, <1>2, <1>4, KeepFields
<1> QED
  BY <1>3, <1>5 DEF emptied

LEMMA DeleteWindowHistory ==
  ASSUME Base, NEW p \in Procs, DeleteWindow(p)
  PROVE  HistoryInv'
<1>0. PICK t \in Types : t = req[p].type
  BY Actor DEF DeleteWindow, TypeLabels, Labels
<1> DEFINE n == req'[p]
<1>1. TypeOK /\ req[p] \in Reqs /\ req[p].type = t /\ pc[p] = "deleteWindow" /\ DeleteUnbooked(p) /\ Goto(p, "listSlots")
  BY <1>0, Actor DEF DeleteWindow
<1>2. "deleteWindow" \in Deleting /\ "listSlots" \in Rebuilding \ Deleting
      /\ "listSlots" \notin Inserted /\ "deleteWindow" \notin Inserted
  BY DEF Rebuilding, Deleting, Inserted
<1>3. ASSUME req[p].undisturbed PROVE Progress(p, pc[p], req[p])'
  <2>1. Claims(p, "deleteWindow", req[p])
    BY <1>1, <1>3, Actor
  <2>2. n.rules = req[p].rules /\ n.type = t /\ n.kept[t] = req[p].kept[t] \cup ReferencedStarts(t)
    <3>1. KeepsMore(n, [req[p] EXCEPT !.victims = {}], t, ReferencedStarts(t))
      BY <1>1, <1>2, <1>3, DeleteReq
    <3> QED
      BY <1>1, <3>1 DEF KeepsMore, Reqs
  <2>3. req[p].victims \subseteq {t} \X Times
    BY <1>1, <1>2 DEF Base, HistoryInv, Unsettled
  <2>4. tx.by = p => tx.new[t] = NoSlots[t]
    BY <1>1, <1>2, <2>1 DEF Claims, OwnTx, KindsRead, Rebuilding
  <2>5. \A s \in Times : View(p, t)'[s] = IF <<t, s>> \in Gone(p) THEN 0 ELSE View(p, t)[s]
    BY <1>1, <2>3, <2>4, DeleteRows, Constants
  <2>6. ASSUME NEW s \in Times \ n.kept[t], InWindow(s, n.rules.horizon) PROVE View(p, t)'[s] = 0
    <3>1. View(p, t)[s] # 0 => <<t, s>> \in req[p].victims
      BY <1>1, <2>1, <2>2, <2>6 DEF Claims, Progress
    <3> QED
      BY <1>1, <2>2, <2>5, <2>6, <3>1, DeleteKeeps
  <2>7. ClearWindow(View(p, t)', n.rules, n.kept[t])
    BY <2>6 DEF ClearWindow
  <2>8. pc'[p] = "listSlots"
    BY <1>1 DEF Goto, TypeOK
  <2> QED
    BY <1>2, <2>2, <2>7, <2>8 DEF Progress
<1> HIDE DEF Base
<1> QED
  BY <1>1, <1>2, <1>3, DeleteFrame

LEMMA DeleteAfterHistory ==
  ASSUME Base, NEW p \in Procs, DeleteAfter(p)
  PROVE  HistoryInv'
<1>0. PICK t \in Types : t = req[p].type
  BY Actor DEF DeleteAfter, TypeLabels, Labels
<1> DEFINE n == req'[p]
           v == View(p, t)
           w == View(p, t)'
<1>1. TypeOK /\ req[p] \in Reqs /\ req[p].type = t /\ pc[p] = "deleteAfter" /\ DeleteUnbooked(p) /\ Goto(p, "nextOrEnd")
  BY <1>0, Actor DEF DeleteAfter
<1>2. "deleteAfter" \in Deleting \cap Inserted /\ "nextOrEnd" \in (Rebuilding \ Deleting) \cap Inserted
  BY DEF Rebuilding, Deleting, Inserted
<1>3. ASSUME req[p].undisturbed PROVE Progress(p, pc[p], req[p])'
  <2>1. Claims(p, "deleteAfter", req[p])
    BY <1>1, <1>3, Actor
  <2>2. /\ n.rules = req[p].rules /\ n.type = t /\ n.kind = req[p].kind
        /\ n.kept[t] = req[p].kept[t] \cup ReferencedStarts(t)
    <3>1. KeepsMore(n, [req[p] EXCEPT !.victims = {}], t, ReferencedStarts(t))
      BY <1>1, <1>2, <1>3, DeleteReq
    <3> QED
      BY <1>1, <3>1 DEF KeepsMore, Reqs
  <2>3. req[p].victims \subseteq {t} \X Times /\ Gone(p) \subseteq req[p].victims
    BY <1>1, <1>2 DEF Base, HistoryInv, Unsettled, Gone
  <2>4. \A s \in Times : <<t, s>> \in req[p].victims => ~InWindow(s, req[p].rules.horizon)
    BY <1>1, <2>1 DEF Claims, Progress
  <2>5. \A s \in Times : <<t, s>> \in Gone(p) /\ tx.by = p => tx.new[t][s] = 0
    BY <1>1, <1>2, <2>1, <2>3, <2>4 DEF Claims, OwnTx
  <2>6. \A s \in Times : w[s] = IF <<t, s>> \in Gone(p) THEN 0 ELSE v[s]
    BY <1>1, <2>3, <2>5, DeleteRows
  <2>7. v \in [Times -> Nat]
    BY <1>1, ViewType
  <2>8. w \in [Times -> Nat]
    <3>1. w = [s \in Times |-> Seen(p, t, s)']
      BY DEF View
    <3> HIDE DEF v, w
    <3>2. ASSUME NEW s \in Times PROVE w[s] \in Nat
      <4>1. v[s] \in Nat
        BY <2>7
      <4>2. w[s] = 0 \/ w[s] = v[s]
        BY <2>6, Zenon
      <4> QED
        BY <4>1, <4>2
    <3> QED
      BY <3>1, <3>2
  <2>9. FitsWindow(v, req[p].kind[t], req[p].rules, req[p].kept[t])
    BY <1>1, <1>2, <2>1 DEF Claims, Progress
  <2> HIDE DEF w, v
  <2>10. FitsWindow(w, n.kind[t], n.rules, n.kept[t])
    <3>1. \A s \in Times : InWindow(s, req[p].rules.horizon) => v[s] = w[s]
      BY <2>3, <2>4, <2>6
    <3> QED
      BY <2>2, <2>7, <2>8, <2>9, <3>1, FitsSame
  <2>11. ASSUME NEW s \in Times \ n.kept[t], ~InWindow(s, n.rules.horizon) PROVE w[s] = 0
    <3>1. v[s] # 0 => <<t, s>> \in req[p].victims
      BY <1>1, <2>1, <2>2, <2>11 DEF Claims, Progress, v
    <3> QED
      BY <1>1, <2>2, <2>6, <2>11, <3>1, DeleteKeeps
  <2>12. ClearAfter(w, n.rules, n.kept[t])
    BY <2>11 DEF ClearAfter
  <2>13. pc'[p] = "nextOrEnd"
    BY <1>1 DEF Goto, TypeOK
  <2> QED
    BY <2>2, <2>10, <2>12, <2>13 DEF Progress, w
<1> HIDE DEF Base
<1> QED
  BY <1>1, <1>2, <1>3, DeleteFrame

LEMMA InsertSlotsHistory ==
  ASSUME Base, NEW p \in Procs, InsertSlots(p)
  PROVE  HistoryInv'
<1>0. PICK t \in Types : t = req[p].type
  BY Actor DEF InsertSlots, TypeLabels, Labels
<1> DEFINE new == Candidates(req[p])
           length == req[p].kind[t].duration
           n == [req[p] EXCEPT !.occupied = {}, !.room = NoReq.room]
           v == View(p, t)
           w == View(p, t)'
<1>1. TypeOK /\ req[p] \in Reqs /\ req[p].type = t /\ pc[p] = "insertSlots"
  BY <1>0, Actor DEF InsertSlots
<1>2. Goto(p, "snapshotAfter") /\ Set(p, n) /\ UNCHANGED <<rules, type, settled, kept>>
  BY DEF InsertSlots
<1>3. /\ n \in Reqs /\ n.kind = req[p].kind /\ n.todo = req[p].todo /\ n.rules = req[p].rules
      /\ n.undisturbed = req[p].undisturbed /\ n.kept = req[p].kept /\ n.type = t
  BY <1>1, NoReqType DEF Reqs
<1> HIDE DEF n
<1>4. new \in SUBSET Times /\ new \subseteq {s \in Times : InWindow(s, req[p].rules.horizon)}
  BY GridInWindow DEF Candidates
<1>5. length \in Nat
  BY <1>1, SlotRegenAssumption DEF Reqs, NoType
<1>6. new # {} => Exists(t)
  BY <1>1 DEF InsertSlots
<1>7. tx.by = p => /\ tx' = [tx EXCEPT !.new[t] = [s \in Times |-> IF s \in new THEN length ELSE tx.new[t][s]]]
                   /\ slot' = slot
  BY <1>1 DEF InsertSlots
<1>8. tx.by # p => /\ slot' = [slot EXCEPT ![t] = [s \in Times |-> IF s \in new THEN length ELSE slot[t][s]]]
                   /\ tx' = tx
  BY <1>1 DEF InsertSlots
<1>9. tx \in Txs
  BY <1>1, TxType
<1> HIDE DEF new, length
<1>10. /\ tx'.by = tx.by /\ tx'.rules = tx.rules /\ tx'.gone = tx.gone
       /\ \A u \in Types \ {t} : tx'.new[u] = tx.new[u] /\ slot'[u] = slot[u]
       /\ \A s \in Times : tx'.new[t][s] = IF s \in new /\ tx.by = p THEN length ELSE tx.new[t][s]
       /\ \A s \in Times : slot'[t][s] = IF s \in new /\ tx.by # p THEN length ELSE slot[t][s]
  <2> DEFINE rows(old) == [s \in Times |-> IF s \in new THEN length ELSE old[s]]
  <2>1. slot \in [Types -> [Times -> Nat]]
    BY <1>1 DEF TypeOK
  <2>2. \A old : \A s \in Times : rows(old)[s] = IF s \in new THEN length ELSE old[s]
    OBVIOUS
  <2>3. CASE tx.by = p
    <3>1. tx' = [tx EXCEPT !.new = [tx.new EXCEPT ![t] = rows(tx.new[t])]]
      BY <1>7, <1>9, <2>3 DEF Txs
    <3> HIDE DEF rows
    <3>2. tx'.by = tx.by /\ tx'.rules = tx.rules /\ tx'.gone = tx.gone /\ tx'.new = [tx.new EXCEPT ![t] = rows(tx.new[t])]
      BY <1>9, <3>1 DEF Txs
    <3>3. tx.new \in [Types -> [Times -> Nat]]
      BY <1>9 DEF Txs
    <3> QED
      BY <1>1, <1>7, <2>2, <2>3, <3>2, <3>3
  <2>4. CASE tx.by # p
    <3>1. slot' = [slot EXCEPT ![t] = rows(slot[t])] /\ tx' = tx
      BY <1>8, <2>4
    <3> HIDE DEF rows
    <3> QED
      BY <1>1, <2>1, <2>2, <2>4, <3>1
  <2> QED
    BY <2>3, <2>4
<1>11. \A u \in Types \ {t} : View(p, u)' = View(p, u)
  BY <1>10 DEF View, Seen
<1>12. "insertSlots" \in Rebuilding \ Inserted /\ "snapshotAfter" \in (Rebuilding \ Deleting) \cap Inserted
  BY DEF Rebuilding, Deleting, Inserted
<1>13. pc'[p] = "snapshotAfter" /\ req'[p] = n /\ \A q \in Procs \ {p} : pc'[q] = pc[q] /\ req'[q] = req[q]
  BY <1>1, <1>2 DEF Goto, Set, TypeOK
<1>14. OthersStill(p)
  BY <1>13 DEF OthersStill
<1>15. ASSUME req[p].undisturbed PROVE Claims(p, pc[p], req[p])'
  <2>1. Claims(p, "insertSlots", req[p])
    BY <1>1, <1>15, Actor
  <2>2. t \in req[p].todo /\ req[p].kind[t] = type[t]
    BY <1>1, <2>1 DEF Claims, KindsRead, Listed, Read, Rebuilding
  <2>3. tx.by = p => \A s \in Times : tx.new[t][s] = 0
    BY <1>1, <1>12, <2>1, <2>2, Constants DEF Claims, OwnTx
  <2>4. new # {} => length # 0
    BY <1>1, <1>6, <2>2, SlotRegenAssumption DEF Exists, TypeOK, length
  <2>5. \A s \in new : Seen(p, t, s) = 0
    BY <1>1 DEF InsertSlots, new
  <2>6. \A s \in Times : Seen(p, t, s)' = IF s \in new THEN length ELSE Seen(p, t, s)
    <3> SUFFICES ASSUME NEW s \in Times PROVE Seen(p, t, s)' = IF s \in new THEN length ELSE Seen(p, t, s)
      OBVIOUS
    <3>1. CASE tx.by = p
      BY <1>10, <2>3, <2>4, <3>1 DEF Seen
    <3>2. CASE tx.by # p
      BY <1>10, <3>2 DEF Seen
    <3> QED
      BY <3>1, <3>2
  <2>7. w = [s \in Times |-> IF s \in new THEN length ELSE v[s]]
    BY <2>6 DEF View
  <2>8. v \in [Times -> Nat]
    BY <1>1, ViewType
  <2>9. req[p].kept[t] \in SUBSET Times /\ req[p].rules.maxPerDay \in Nat
    BY <1>1, SlotRegenAssumption DEF Reqs, ReadRules, NoRules
  <2>10. /\ req[p].occupied = {s \in Times : InWindow(s, req[p].rules.horizon) /\ v[s] # 0}
         /\ \A d \in Days : req[p].room[d] = Room({s \in Times : v[s] # 0}, req[p].rules.maxPerDay, d)
         /\ ClearWindow(v, req[p].rules, req[p].kept[t])
    BY <1>1, <2>1 DEF Claims, Progress
  <2> HIDE DEF v, w
  <2>11. FitsWindow(w, req[p].kind[t], req[p].rules, req[p].kept[t])
    <3>1. length = req[p].kind[req[p].type].duration
      BY <1>1 DEF length
    <3>2. Candidates(req[p]) # {} => length # 0
      BY <2>4 DEF new
    <3> HIDE DEF length
    <3>3. Ready(req[p], v, req[p].kept[t], length)
      BY <2>9, <2>10, <3>1, <3>2 DEF Ready
    <3>4. FitsWindow(WithRows(Candidates(req[p]), length, v), req[p].kind[req[p].type], req[p].rules, req[p].kept[t])
      BY <1>5, <2>8, <2>9, <3>3, InsertFits
    <3>5. w = WithRows(Candidates(req[p]), length, v)
      BY <2>7 DEF WithRows, new
    <3> QED
      BY <1>1, <3>4, <3>5
  <2>12. Progress(p, pc[p], req[p])'
    BY <1>3, <1>13, <2>11 DEF Progress, w
  <2>13. \A s \in Times : tx.by = p /\ tx'.new[t][s] # 0 => InWindow(s, req[p].rules.horizon)
    BY <1>4, <1>10, <2>3
  <2> QED
    BY <1>1, <1>2, <1>3, <1>10, <1>11, <1>12, <1>13, <2>1, <2>12, <2>13, TouchClaims
<1>16. tx.by = p => slot' = slot
  BY <1>7
<1> HIDE DEF Base
<1> QED
  BY <1>1, <1>2, <1>3, <1>10, <1>12, <1>13, <1>14, <1>15, <1>16, TouchFrame

-----------------------------------------------------------------------------
LEMMA UpdateTypeHistory ==
  ASSUME Base, NEW p \in Procs, UpdateType(p)
  PROVE  HistoryInv'
<1>0. PICK t \in Types : t = req[p].type
  BY Actor DEF UpdateType, TypeLabels, Labels
<1> DEFINE k == req[p].kind[t]
           r == [req[p] EXCEPT !.existing = NoType]
<1>1. /\ TypeOK /\ req[p] \in Reqs /\ pc[p] = "updateType" /\ UNCHANGED <<rules, slot>>
      /\ type' = [type EXCEPT ![t] = k]
      /\ IF k = type[t] THEN UNCHANGED <<settled, kept>> ELSE Unsettle(t)
      /\ IF k # req[p].existing THEN Goto(p, "getType") /\ Set(p, r) /\ UNCHANGED tx ELSE End(p)
  BY <1>0, Actor DEF UpdateType
<1>2. /\ r.undisturbed = req[p].undisturbed /\ r.kind = req[p].kind /\ r.type = t
      /\ r.victims = req[p].victims
  BY <1>0, <1>1 DEF Reqs
<1> HIDE DEF r, k
<1>3. settled' \subseteq settled /\ \A u \in settled' : kept'[u] = kept[u] /\ type'[u] = type[u]
  <2>1. \A u \in Types : u # t => type'[u] = type[u]
    BY <1>1 DEF TypeOK
  <2>2. settled \subseteq Types /\ kept \in [Types -> SUBSET Times] /\ type \in [Types -> Kinds \cup {NoType}]
    BY <1>1 DEF TypeOK
  <2>3. CASE k = type[t]
    BY <1>1, <2>1, <2>2, <2>3
  <2>4. CASE k # type[t]
    BY <1>1, <2>1, <2>2, <2>4 DEF Unsettle
  <2> QED
    BY <2>3, <2>4
<1>4. SettledFit'
  BY <1>1, <1>3, SettledStill
<1>5. CASE End(p)
  <2> HIDE DEF Base
  <2> QED
    BY <1>1, <1>3, <1>4, <1>5, EndFrame
<1>6. CASE Goto(p, "getType") /\ Set(p, r) /\ UNCHANGED tx
  <2>1. pc'[p] = "getType" /\ req'[p] = r /\ \A q \in Procs \ {p} : pc'[q] = pc[q] /\ req'[q] = req[q]
    BY <1>1, <1>6 DEF Goto, Set, TypeOK
  <2>2. OthersStill(p)
    BY <2>1 DEF OthersStill
  <2>3. tx.by # p
    BY <1>1 DEF Base, HistoryInv, OwnerActive, Listed, Read, Rebuilding
  <2>4. "getType" \notin Listed \cup Rebuilding \cup Deleting \cup Read \cup Inserted
    BY DEF Listed, Read, Rebuilding, Deleting, Inserted
  <2>5. type'[t] = k
    BY <1>1 DEF TypeOK
  <2>6. Claims(p, pc[p], req[p])'
    <3>1. RulesRead(p, pc[p], req[p])' /\ Progress(p, pc[p], req[p])'
      BY <2>1, <2>4 DEF RulesRead, Progress
    <3>2. KindsRead(pc[p], req[p])'
      BY <1>2, <2>1, <2>4, <2>5 DEF KindsRead, k
    <3>3. OwnTx(p, pc[p], req[p])'
      BY <1>6, <2>3 DEF OwnTx
    <3> QED
      BY <3>1, <3>2, <3>3 DEF Claims
  <2>7. rules' = NoRules => \A u \in Types : slot'[u] = NoSlots[u]
    BY <1>1 DEF Base, HistoryInv, RulesFirst
  <2> HIDE DEF Base
  <2> QED
    BY <1>1, <1>2, <1>3, <1>4, <1>6, <2>1, <2>2, <2>3, <2>4, <2>6, <2>7, Frame
<1> QED
  BY <1>1, <1>5, <1>6

(* The deletion of a type leaves the slots of the others. *)
LEMMA DeleteTypeHistory ==
  ASSUME Base, NEW p \in Procs, DeleteType(p)
  PROVE  HistoryInv'
<1>0. PICK t \in Types : t = req[p].type
  BY Actor DEF DeleteType, TypeLabels, Labels
<1> HIDE DEF NoSlots, NoType
<1>1. /\ TypeOK /\ req[p] \in Reqs /\ pc[p] = "deleteType" /\ UNCHANGED <<rules, tx>> /\ Goto(p, "listTypes")
      /\ type' = [type EXCEPT ![t] = NoType] /\ slot' = [slot EXCEPT ![t] = NoSlots[t]] /\ Unsettle(t)
      /\ req' = [q \in Procs |-> IF q = p THEN [req[p] EXCEPT !.type = NoType] ELSE Forget({t} \X Times, req[q])]
  BY <1>0, Actor DEF DeleteType
<1>2. \A u \in Types : u # t => type'[u] = type[u] /\ slot'[u] = slot[u]
  BY <1>1 DEF TypeOK
<1>3. slot'[t] = NoSlots[t]
  BY <1>1 DEF TypeOK
<1>4. settled' \subseteq settled \ {t} /\ settled \subseteq Types /\ \A u \in settled' : kept'[u] = kept[u]
  BY <1>1 DEF Unsettle, TypeOK
<1>5. SettledFit'
  <2>1. \A u \in settled : Fits(slot[u], type[u], rules, kept[u])
    BY DEF Base, HistoryInv, SettledFit
  <2>2. \A u \in settled' : Fits(slot'[u], type'[u], rules, kept'[u])
    BY <1>2, <1>4, <2>1
  <2> QED
    BY <1>1, <2>2 DEF SettledFit
<1>6. pc'[p] = "listTypes" /\ req'[p].undisturbed = req[p].undisturbed /\ \A q \in Procs \ {p} : pc'[q] = pc[q]
  BY <1>1 DEF Goto, TypeOK, Reqs
<1>7. OthersStill(p)
  <2>1. ASSUME NEW q \in Procs \ {p}
        PROVE  /\ req'[q].undisturbed = req[q].undisturbed /\ req'[q].type = req[q].type
               /\ req'[q].victims \subseteq req[q].victims
    BY <1>1 DEF Forget, TypeOK, Reqs
  <2> QED
    BY <1>6, <2>1 DEF OthersStill
<1>8. tx.by # p
  BY <1>1 DEF Base, HistoryInv, OwnerActive, Listed, Read, Rebuilding
<1>9. "listTypes" \notin Listed \cup Rebuilding \cup Deleting \cup Read \cup Inserted
  BY DEF Listed, Read, Rebuilding, Deleting, Inserted
<1>10. rules = NoRules => \A u \in Types : slot'[u] = NoSlots[u]
  BY <1>2, <1>3 DEF Base, HistoryInv, RulesFirst
<1>11. Claims(p, pc[p], req[p])'
  BY <1>1, <1>6, <1>8, <1>9 DEF Claims, RulesRead, KindsRead, Progress, OwnTx
<1> HIDE DEF Base
<1> QED
  BY <1>1, <1>4, <1>5, <1>6, <1>7, <1>8, <1>9, <1>10, <1>11, Frame

(* The Commit makes the rows of the transaction those of all, and its rules
   those in force. *)
LEMMA CommitHistory ==
  ASSUME Base, NEW p \in Procs, Commit(p)
  PROVE  HistoryInv'
<1> HIDE DEF NoSlots, NoType, NoReq, NoRules, NoTx
<1>1. /\ TypeOK /\ req[p] \in Reqs /\ pc[p] = "commit" /\ UNCHANGED type /\ Goto(p, "idle")
      /\ rules' = tx.rules /\ tx' = NoTx /\ kept' = req[p].kept
      /\ slot' = [t \in Types |-> [s \in Times |-> Seen(p, t, s)]]
      /\ settled' = IF req[p].undisturbed THEN {t \in Types : Exists(t)} ELSE {}
      /\ req' = [q \in Procs |-> IF q = p THEN NoReq ELSE Forget(tx.gone, req[q])]
  BY Actor DEF Commit
<1>2. tx.by = p /\ tx.rules # NoRules
  BY <1>1 DEF Base, HistoryInv, OwnerActive, RulesFirst
<1>3. pc'[p] = "idle" /\ \A q \in Procs \ {p} : pc'[q] = pc[q]
  BY <1>1 DEF Goto, TypeOK
<1>4. OthersStill(p)
  <2>1. ASSUME NEW q \in Procs \ {p}
        PROVE  /\ req'[q].undisturbed = req[q].undisturbed /\ req'[q].type = req[q].type
               /\ req'[q].victims \subseteq req[q].victims
    BY <1>1 DEF Forget, TypeOK, Reqs
  <2> QED
    BY <1>3, <2>1 DEF OthersStill
<1>5. SettledFit'
  <2> SUFFICES ASSUME NEW t \in settled' PROVE Fits(slot'[t], type[t], tx.rules, req[p].kept[t])
    BY <1>1 DEF SettledFit
  <2>1. req[p].undisturbed /\ t \in Types /\ Exists(t)
    BY <1>1
  <2>2. Claims(p, "commit", req[p])
    BY <1>1, <2>1, Actor
  <2>3. req[p].todo = {}
    BY <2>2 DEF Claims, KindsRead
  <2>4. Fits(View(p, t), type[t], tx.rules, req[p].kept[t])
    BY <1>2, <2>1, <2>2, <2>3 DEF Claims, OwnTx, Listed, Read
  <2>5. slot'[t] = View(p, t)
    BY <1>1, <2>1 DEF View
  <2> QED
    BY <2>4, <2>5
<1>6. tx'.by = Nobody /\ Nobody \notin Procs
  BY <1>1, Constants, SlotRegenAssumption
<1>7. settled' \subseteq settled \/ req[p].undisturbed
  BY <1>1
<1>8. "idle" \notin Listed \cup Rebuilding \cup Deleting
  BY DEF Listed, Read, Rebuilding, Deleting
<1> HIDE DEF Base
<1> QED
  BY <1>1, <1>2, <1>3, <1>4, <1>5, <1>6, <1>7, <1>8, Frame

-----------------------------------------------------------------------------
(* What a request that begins does to the others: it disturbs them. *)
LEMMA BeginFrame ==
  ASSUME Base, NEW p \in Procs, NEW label \in Labels \ ({"idle"} \cup Rebuilding \cup Read), NEW r \in Reqs,
         Begin(p, label, r), UNCHANGED <<rules, slot>>,
         settled' \subseteq settled, \A t \in settled' : kept'[t] = kept[t] /\ type'[t] = type[t],
         label \notin Listed,
         tx' = tx \/ (tx = NoTx /\ tx'.by = p /\ label = "listTypes" /\ tx'.rules # NoRules),
         req'[p].undisturbed => Claims(p, pc[p], req[p])'
  PROVE  HistoryInv'
<1> USE DEF Base, HistoryInv
<1> HIDE DEF NoTx, NoReq, NoRules
<1> DEFINE own == [r EXCEPT !.undisturbed = \A o \in Procs : pc[o] = "idle"]
<1>1. /\ TypeOK /\ pc[p] = "idle" /\ pc' = [pc EXCEPT ![p] = label]
      /\ req' = [q \in Procs |->
           CASE q = p -> own [] q # p /\ pc[q] # "idle" -> Disturbed(req[q]) [] OTHER -> req[q]]
  BY DEF Begin, Goto, Inv
<1>2. pc'[p] = label /\ \A q \in Procs \ {p} : pc'[q] = pc[q]
  BY <1>1 DEF TypeOK
<1>3. req'[p].undisturbed => \A o \in Procs : pc[o] = "idle"
  BY <1>1 DEF Reqs
<1>4. ASSUME NEW q \in Procs \ {p}, pc[q] # "idle"
      PROVE  ~req'[q].undisturbed /\ req'[q].type = req[q].type /\ req'[q].victims = req[q].victims
  <2>1. req'[q] = Disturbed(req[q]) /\ req[q] \in Reqs
    BY <1>1, <1>4, Zenon DEF TypeOK
  <2>2. Disturbed(req[q]) = [[req[q] EXCEPT !.undisturbed = FALSE] EXCEPT !.kept = NoReq.kept]
    BY DEF Disturbed
  <2> QED
    BY <2>1, <2>2 DEF Reqs
<1>5. Alone'
  BY <1>2, <1>3, <1>4 DEF Alone
<1>6. tx.by # p
  BY <1>1 DEF OwnerActive, Listed, Read, Rebuilding
<1>7. NoTx.by \notin Procs
  BY Constants, SlotRegenAssumption
<1>8. OwnerActive'
  BY <1>2, <1>6, <1>7 DEF OwnerActive, Read
<1>9. Unsettled'
  <2>1. label \notin Rebuilding /\ label \notin Deleting /\ "idle" \notin Rebuilding \cup Deleting
    BY DEF Rebuilding, Deleting
  <2>2. ASSUME NEW q \in Procs, pc'[q] \in Rebuilding, tx'.by # q PROVE req'[q].type \notin settled'
    <3>1. q # p /\ pc[q] \in Rebuilding /\ pc[q] # "idle" /\ tx.by # q
      BY <1>2, <1>7, <2>1, <2>2
    <3> QED
      BY <1>4, <3>1 DEF Unsettled
  <2>3. ASSUME NEW q \in Procs, pc'[q] \in Deleting PROVE req'[q].victims \subseteq {req'[q].type} \X Times
    <3>1. q # p /\ pc[q] \in Deleting /\ pc[q] # "idle"
      BY <1>2, <2>1, <2>3
    <3> QED
      BY <1>4, <3>1 DEF Unsettled
  <2> QED
    BY <2>2, <2>3 DEF Unsettled
<1>10. RulesFirst'
  <2>1. rules' = NoRules => \A t \in Types : slot'[t] = NoSlots[t]
    BY DEF RulesFirst
  <2>2. tx'.by \in Procs => tx'.rules # NoRules
    BY DEF RulesFirst
  <2>3. ASSUME NEW q \in Procs, pc'[q] \in Listed \ {"settings"}, tx'.by # q PROVE rules' # NoRules
    <3>1. q # p
      BY <1>2, <2>3
    <3>2. tx.by # q
      BY <1>7, <2>3, <3>1
    <3> QED
      BY <1>2, <2>3, <3>1, <3>2 DEF RulesFirst
  <2> QED
    BY <2>1, <2>2, <2>3 DEF RulesFirst
<1>11. RequestInv'
  <2> SUFFICES ASSUME NEW q \in Procs, pc'[q] # "idle", req'[q].undisturbed PROVE Claims(q, pc[q], req[q])'
    BY DEF RequestInv
  <2>1. q = p
    BY <1>2, <1>4
  <2> QED
    BY <2>1
<1>12. SettledFit'
  BY SettledStill
<1> QED
  BY <1>5, <1>8, <1>9, <1>10, <1>11, <1>12

LEMMA Beginning ==
  ASSUME TypeOK, NEW p \in Procs, NEW label \in Labels, NEW r \in Reqs, Begin(p, label, r)
  PROVE  /\ pc[p] = "idle" /\ pc'[p] = label
         /\ req'[p] \in Reqs /\ req'[p].type = r.type /\ req'[p].kind = r.kind /\ req'[p].todo = r.todo
  BY DEF Begin, Goto, TypeOK, Reqs

(* A label of a request that has not listed its types yet. *)
LEMMA EarlyClaims ==
  ASSUME NEW p, pc'[p] \in {"getType", "updateType", "countScheduled"},
         pc'[p] = "getType" => req'[p].kind[req'[p].type] = type'[req'[p].type], tx'.by # p
  PROVE  Claims(p, pc[p], req[p])'
<1>1. pc'[p] \notin Listed \cup Rebuilding \cup Deleting \cup Read \cup Inserted
  BY DEF Listed, Read, Rebuilding, Deleting, Inserted
<1>2. RulesRead(p, pc[p], req[p])' /\ Progress(p, pc[p], req[p])'
  BY <1>1 DEF RulesRead, Progress
<1>3. KindsRead(pc[p], req[p])'
  BY <1>1 DEF KindsRead
<1>4. OwnTx(p, pc[p], req[p])'
  BY DEF OwnTx
<1> QED
  BY <1>2, <1>3, <1>4 DEF Claims

LEMMA NotYetListed ==
  /\ \A l \in {"getType", "updateType", "countScheduled", "listTypes"} :
       l \in Labels \ ({"idle"} \cup Rebuilding \cup Read) /\ l \notin Listed
  /\ "idle" \notin {"listTypes"} \cup Listed
  BY DEF Labels, Listed, Read, Rebuilding

LEMMA NotOwner ==
  ASSUME Base, NEW p \in Procs, pc[p] = "idle"
  PROVE  tx.by # p
  BY NotYetListed DEF Base, HistoryInv, OwnerActive

LEMMA UpsertHistory ==
  ASSUME Base, NEW p \in Procs, NEW in \in Inputs, Upsert(p, in)
  PROVE  HistoryInv'
<1> HIDE DEF NoReq, NoSlots, NoTx
<1>1. /\ TypeOK /\ ValidInput(in) /\ tx = NoTx /\ Begin(p, "listTypes", NoReq)
      /\ tx' = [by |-> p, rules |-> in, gone |-> {}, new |-> NoSlots]
      /\ UNCHANGED <<rules, type, slot, settled, kept>>
  BY Actor DEF Upsert
<1>2. in # NoRules
  BY <1>1 DEF ValidInput, NoRules
<1>3. NoReq \in Reqs /\ pc'[p] = "listTypes"
  BY <1>1, NoReqType, NotYetListed, Beginning
<1>4. tx'.by = p /\ tx'.rules = in /\ tx'.new = NoSlots
  BY <1>1
<1>5. Claims(p, pc[p], req[p])'
  <2>1. "listTypes" \notin Listed \cup Rebuilding \cup Deleting \cup Read \cup Inserted
    BY DEF Listed, Read, Rebuilding, Deleting, Inserted
  <2> QED
    BY <1>3, <1>4, <2>1 DEF Claims, RulesRead, KindsRead, Progress, OwnTx
<1> HIDE DEF Base
<1> QED
  BY <1>1, <1>2, <1>3, <1>4, <1>5, NotYetListed, BeginFrame

LEMMA CreateTypeHistory ==
  ASSUME Base, NEW p \in Procs, NEW t \in Types, NEW k \in Kinds, CreateType(p, t, k)
  PROVE  HistoryInv'
<1> DEFINE r == [NoReq EXCEPT !.type = t, !.kind[t] = k]
<1>1. /\ TypeOK /\ type' = [type EXCEPT ![t] = k] /\ Begin(p, "getType", r) /\ Unsettle(t)
      /\ UNCHANGED <<rules, slot, tx>>
  BY Actor DEF CreateType
<1>2. r \in Reqs /\ r.type = t /\ r.kind[t] = k
  BY NoReqType DEF Reqs
<1> HIDE DEF r, Base
<1>3. pc[p] = "idle" /\ pc'[p] = "getType" /\ req'[p].type = t /\ req'[p].kind[t] = k
  BY <1>1, <1>2, NotYetListed, Beginning
<1>4. type'[t] = k /\ \A u \in Types : u # t => type'[u] = type[u]
  BY <1>1 DEF TypeOK
<1>5. settled' \subseteq settled /\ \A u \in settled' : kept'[u] = kept[u] /\ type'[u] = type[u]
  BY <1>1, <1>4 DEF Unsettle, TypeOK
<1>6. Claims(p, pc[p], req[p])'
  BY <1>1, <1>3, <1>4, NotOwner, EarlyClaims
<1> QED
  BY <1>1, <1>2, <1>5, <1>6, NotYetListed, BeginFrame

LEMMA ReadExistingHistory ==
  ASSUME Base, NEW p \in Procs, NEW t \in Types, NEW k \in Kinds, ReadExisting(p, t, k)
  PROVE  HistoryInv'
<1> DEFINE r == [NoReq EXCEPT !.type = t, !.kind[t] = k, !.existing = type[t]]
<1>1. TypeOK /\ Begin(p, "updateType", r) /\ UNCHANGED <<rules, type, slot, tx, settled, kept>>
  BY Actor DEF ReadExisting
<1>2. r \in Reqs
  BY <1>1, NoReqType DEF Reqs, TypeOK
<1> HIDE DEF r, Base
<1>3. pc[p] = "idle" /\ pc'[p] = "updateType"
  BY <1>1, <1>2, NotYetListed, Beginning
<1>4. Claims(p, pc[p], req[p])'
  BY <1>1, <1>3, NotOwner, EarlyClaims
<1> QED
  BY <1>1, <1>2, <1>4, NotYetListed, BeginFrame

LEMMA BeginDeleteHistory ==
  ASSUME Base, NEW p \in Procs, NEW t \in Types, BeginDelete(p, t)
  PROVE  HistoryInv'
<1> DEFINE r == [NoReq EXCEPT !.type = t]
<1>1. TypeOK /\ Begin(p, "countScheduled", r) /\ UNCHANGED <<rules, type, slot, tx, settled, kept>>
  BY Actor DEF BeginDelete
<1>2. r \in Reqs
  BY NoReqType DEF Reqs
<1> HIDE DEF r, Base
<1>3. pc[p] = "idle" /\ pc'[p] = "countScheduled"
  BY <1>1, <1>2, NotYetListed, Beginning
<1>4. Claims(p, pc[p], req[p])'
  BY <1>1, <1>3, NotOwner, EarlyClaims
<1> QED
  BY <1>1, <1>2, <1>4, NotYetListed, BeginFrame

LEMMA QuietHistory ==
  ASSUME Base, UNCHANGED <<rules, type, slot, tx, pc, req, kept, settled>>
  PROVE  HistoryInv'
<1>1. Alone' /\ OwnerActive' /\ Unsettled' /\ RulesFirst' /\ SettledFit'
  BY DEF Base, HistoryInv, Alone, OwnerActive, Unsettled, RulesFirst, SettledFit
<1>2. ASSUME NEW p \in Procs, pc[p] # "idle", req[p].undisturbed PROVE Claims(p, pc[p], req[p])'
  BY <1>2, Actor, ClaimsStable
<1>3. RequestInv'
  BY <1>2 DEF RequestInv
<1> QED
  BY <1>1, <1>3 DEF HistoryInv

-----------------------------------------------------------------------------
(* A type that is built before anything is booked fits the rules. *)
LEMMA BuiltFits ==
  ASSUME NEW t \in Types, NEW kind \in [Types -> Kinds \cup {NoType}], kind[t] \in Kinds, NEW in \in Inputs
  PROVE  Fits(Built(t, kind, in), kind[t], in, {})
<1> DEFINE r == [NoReq EXCEPT !.kind = kind, !.type = t, !.rules = in, !.room = [d \in Days |-> in.maxPerDay]]
           v == NoSlots[t]
<1>1. /\ r.kind = kind /\ r.type = t /\ r.rules = in /\ r.occupied = {}
      /\ \A d \in Days : r.room[d] = in.maxPerDay
  BY DEF NoReq
<1>2. Built(t, kind, in) = WithRows(Candidates(r), kind[t].duration, v)
  BY Constants DEF Built, WithRows
<1>3. v \in [Times -> Nat] /\ \A s \in Times : v[s] = 0
  BY Constants
<1>4. kind[t].duration \in Nat \ {0} /\ in.maxPerDay \in Nat
  BY SlotRegenAssumption
<1>5. Candidates(r) \subseteq {s \in Times : InWindow(s, in.horizon)}
  <2> HIDE DEF r
  <2> QED
    BY <1>1, GridInWindow DEF Candidates
<1> HIDE DEF r, v
<1>6. Ready(r, v, {}, kind[t].duration)
  <2>1. {s \in Times : InWindow(s, in.horizon) /\ v[s] # 0} = {} /\ {s \in Times : v[s] # 0} = {}
    BY <1>3
  <2>2. \A d \in Days : Room({}, in.maxPerDay, d) = in.maxPerDay
    <3> SUFFICES ASSUME NEW d \in Days PROVE Room({}, in.maxPerDay, d) = in.maxPerDay
      OBVIOUS
    <3>1. {s \in {} : DayOf(s) = d} = {}
      OBVIOUS
    <3>2. Cardinality({s \in {} : DayOf(s) = d}) = 0
      BY <3>1, FS_EmptySet
    <3> QED
      BY <1>4, <3>2 DEF Room
  <2>3. ClearWindow(v, in, {})
    BY <1>3 DEF ClearWindow
  <2> QED
    BY <1>1, <1>4, <2>1, <2>2, <2>3 DEF Ready
<1>7. FitsWindow(Built(t, kind, in), kind[t], in, {})
  BY <1>1, <1>2, <1>3, <1>4, <1>6, InsertFits
<1>8. ClearAfter(Built(t, kind, in), in, {})
  BY <1>2, <1>3, <1>5 DEF ClearAfter, WithRows
<1> QED
  BY <1>7, <1>8 DEF Fits

LEMMA InitHistory == Init => HistoryInv
<1> SUFFICES ASSUME Init PROVE HistoryInv
  OBVIOUS
<1> HIDE DEF NoReq, NoTx, NoSlots, NoRules, NoType
<1>1. /\ \A p \in Procs : pc[p] = "idle" /\ req[p] = NoReq
      /\ tx = NoTx /\ tx.by \notin Procs
  BY Constants, SlotRegenAssumption DEF Init
<1>2. "idle" \notin Listed \cup Rebuilding \cup Deleting /\ "idle" # "commit"
  BY DEF Listed, Read, Rebuilding, Deleting
<1>3. type \in [Types -> Kinds \cup {NoType}] /\ rules \in Inputs \cup {NoRules}
  BY SlotRegenAssumption DEF Init
<1>4. ASSUME NEW t \in Types, rules = NoRules PROVE slot[t] = NoSlots[t]
  <2>1. ASSUME NEW k, NEW s PROVE Candidates([NoReq EXCEPT !.kind = k, !.type = t, !.rules = NoRules, !.room = s]) = {}
    BY DEF Candidates, Grid, NoRules, NoReq
  <2>2. Built(t, type, NoRules) = NoSlots[t]
    BY <2>1, Constants DEF Built, NoSlots
  <2> QED
    BY <1>4, <2>2 DEF Init
<1>5. SettledFit
  <2> SUFFICES ASSUME NEW t \in settled PROVE Fits(slot[t], type[t], rules, kept[t])
    BY DEF SettledFit
  <2>1. t \in Types /\ type[t] # NoType /\ kept[t] = {}
    BY DEF Init, Exists
  <2>2. slot[t] = Built(t, type, rules)
    BY <2>1 DEF Init, Exists
  <2>3. type[t] \in Kinds
    BY <1>3, <2>1
  <2>4. CASE rules \in Inputs
    BY <1>3, <2>1, <2>2, <2>3, <2>4, BuiltFits
  <2>5. CASE rules = NoRules
    BY <1>4, <2>1, <2>5, EmptyFits
  <2> QED
    BY <1>3, <2>4, <2>5
<1>6. Alone /\ OwnerActive /\ Unsettled /\ RequestInv
  BY <1>1, <1>2 DEF Alone, OwnerActive, Unsettled, RequestInv
<1>7. RulesFirst
  BY <1>1, <1>2, <1>4 DEF RulesFirst
<1> QED
  BY <1>5, <1>6, <1>7 DEF HistoryInv

LEMMA StepHistory == Base /\ [Next]_vars => HistoryInv'
<1> SUFFICES ASSUME Base, [Next]_vars PROVE HistoryInv'
  OBVIOUS
<1> HIDE DEF Base
<1>1. ASSUME NEW p \in Procs, Request(p) PROVE HistoryInv'
  BY <1>1, UpsertHistory, CreateTypeHistory, ReadExistingHistory, BeginDeleteHistory DEF Request
<1>2. ASSUME NEW p \in Procs, Step(p) PROVE HistoryInv'
  <2>1. CASE UpdateType(p) \/ CountScheduled(p) \/ DeleteType(p) \/ ListTypes(p) \/ GetType(p)
    BY <2>1, UpdateTypeHistory, CountScheduledHistory, DeleteTypeHistory, ListTypesHistory, GetTypeHistory
  <2>2. CASE ReadSettings(p) \/ ListWorkingHours(p) \/ ListBreaks(p) \/ ListTimeOff(p)
    BY <2>2, ReadSettingsHistory, ListWorkingHoursHistory, ListBreaksHistory, ListTimeOffHistory
  <2>3. CASE (\E t \in Types : SnapshotWindow(p, t)) \/ DeleteWindow(p) \/ ListSlots(p)
    BY <2>3, SnapshotWindowHistory, DeleteWindowHistory, ListSlotsHistory
  <2>4. CASE \E failing \in SUBSET Days : CountSlots(p, failing)
    BY <2>4, CountSlotsHistory
  <2>5. CASE InsertSlots(p) \/ SnapshotAfter(p) \/ DeleteAfter(p)
    BY <2>5, InsertSlotsHistory, SnapshotAfterHistory, DeleteAfterHistory
  <2>6. CASE EndOfType(p) \/ Commit(p) \/ Fail(p)
    BY <2>6, EndOfTypeHistory, CommitHistory, FailHistory
  <2> QED
    BY <1>2, <2>1, <2>2, <2>3, <2>4, <2>5, <2>6 DEF Step
<1>3. ASSUME NEW b \in Bookings, BookingStep(b) PROVE HistoryInv'
  BY <1>3, QuietHistory DEF BookingStep, Book, Reschedule, Cancel
<1>4. CASE UNCHANGED vars
  BY <1>4, QuietHistory DEF vars
<1> QED
  BY <1>1, <1>2, <1>3, <1>4 DEF Next

(* A type whose last rebuild no other request overlapped has the slots of the
   rules in force, however the bookings moved meanwhile: DELETE, the kept
   starts, the counts per day, Generate and BulkInsertSlots agree. *)
THEOREM SettledCorrect == Spec => []SettledSlots
<1>1. Init => Inv /\ HistoryInv
  BY InitInv, InitHistory
<1>2. Inv /\ HistoryInv /\ [Next]_vars => (Inv /\ HistoryInv)'
  BY StepInv, StepHistory DEF Base
<1>3. Inv /\ HistoryInv => SettledSlots
  BY FitsSettled DEF Inv, HistoryInv
<1> QED
  BY <1>1, <1>2, <1>3, PTL DEF Spec
=============================================================================
