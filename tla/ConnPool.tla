------------------------------ MODULE ConnPool ------------------------------
(***************************************************************************)
(* The connections of the API process.  A statement outside a transaction  *)
(* takes a connection of the pool for itself; a transaction takes one at   *)
(* its Begin and keeps it until it ends.  CancelByToken alone reads        *)
(* through the pool, with s.q, while its transaction is open.              *)
(*                                                                         *)
(* A transaction locks one row here: Booking shows that requests never     *)
(* wait in a circle for the rows they lock.                                *)
(***************************************************************************)
EXTENDS Naturals, FiniteSets

CONSTANTS
  Procs,   \* requests that can be in progress at the same time
  Conns,   \* the connections of the pool
  Rows,    \* rows that transactions lock
  Free,    \* holder of a connection or of a row that is free
  NoRow

ASSUME ConnPoolAssumption ==
  /\ Free \notin Procs
  /\ NoRow \notin Rows

VARIABLES
  conn,     \* the request that holds each connection
  rowLock,  \* the request whose transaction has locked each row
  pc, req   \* the next statement and the local variables of each request

vars == <<conn, rowLock, pc, req>>

Ops == {"query", "transaction", "cancelByToken"}
NoReq == [op |-> "none", row |-> NoRow]

Init ==
  /\ conn = [c \in Conns |-> Free]
  /\ rowLock = [r \in Rows |-> Free]
  /\ pc = [p \in Procs |-> "idle"]
  /\ req = [p \in Procs |-> NoReq]

-----------------------------------------------------------------------------
(* The operators named Mutant... are seeded faults, as in Booking. *)

Goto(p, label) == pc' = [pc EXCEPT ![p] = label]

MutantAfterLock(op) == "readOrg"

(* Only CancelByToken reads the organization through s.q, with its row
   locked: the other transactions use qtx, or read before Begin. *)
AfterLock(op) == IF op = "cancelByToken" THEN "readOrg" ELSE "finish"

Without(p, holder) == [x \in DOMAIN holder |-> IF holder[x] = p THEN Free ELSE holder[x]]

MutantRelease(p) == conn' = Without(p, conn) /\ UNCHANGED rowLock

MutantReleaseOne(p) ==
  /\ \E c \in Conns : conn[c] = p /\ conn' = [conn EXCEPT ![c] = Free]
  /\ rowLock' = Without(p, rowLock)

(* Commit, or the deferred Rollback: the row and every connection go back. *)
Release(p) == conn' = Without(p, conn) /\ rowLock' = Without(p, rowLock)

-----------------------------------------------------------------------------
Request(p, op, r) ==
  /\ pc[p] = "idle"
  /\ Goto(p, "acquire")
  /\ req' = [req EXCEPT ![p] = [op |-> op, row |-> r]]
  /\ UNCHANGED <<conn, rowLock>>

(* pool.Begin, or the statement of a request without a transaction. *)
Acquire(p, c) ==
  /\ pc[p] = "acquire"
  /\ conn[c] = Free
  /\ conn' = [conn EXCEPT ![c] = p]
  /\ Goto(p, IF req[p].op = "query" THEN "finish" ELSE "lockRow")
  /\ UNCHANGED <<rowLock, req>>

(* SELECT ... FOR UPDATE *)
LockRow(p) ==
  LET r == req[p].row IN
  /\ pc[p] = "lockRow"
  /\ rowLock[r] = Free
  /\ rowLock' = [rowLock EXCEPT ![r] = p]
  /\ Goto(p, AfterLock(req[p].op))
  /\ UNCHANGED <<conn, req>>

(* s.q.GetOrganizationByID takes a second connection ... *)
AcquireSecond(p, c) ==
  /\ pc[p] = "readOrg"
  /\ conn[c] = Free
  /\ conn' = [conn EXCEPT ![c] = p]
  /\ Goto(p, "readingOrg")
  /\ UNCHANGED <<rowLock, req>>

(* ... and gives one back: they are alike. *)
ReadOrg(p) ==
  /\ pc[p] = "readingOrg"
  /\ \E c \in Conns : conn[c] = p /\ conn' = [conn EXCEPT ![c] = Free]
  /\ Goto(p, "finish")
  /\ UNCHANGED <<rowLock, req>>

End(p) ==
  /\ Release(p)
  /\ Goto(p, "idle")
  /\ req' = [req EXCEPT ![p] = NoReq]

Finish(p) == pc[p] = "finish" /\ End(p)

(* A statement fails, or the client goes away, which cancels the context of
   the request wherever it waits. *)
Abort(p) == pc[p] # "idle" /\ End(p)

Step(p) ==
  \/ \E c \in Conns : Acquire(p, c) \/ AcquireSecond(p, c)
  \/ LockRow(p) \/ ReadOrg(p) \/ Finish(p)

Next ==
  \E p \in Procs :
    \/ \E op \in Ops, r \in Rows : Request(p, op, r)
    \/ Step(p)
    \/ Abort(p)

Spec == Init /\ [][Next]_vars

(* The pool and the server serve their waiters in turn.  No client is assumed
   to go away. *)
FairSpec == Spec /\ \A p \in Procs : SF_vars(Step(p))

-----------------------------------------------------------------------------
Labels == {"idle", "acquire", "lockRow", "readOrg", "readingOrg", "finish"}

HasConn(p) == \E c \in Conns : conn[c] = p

(* The types of the variables; a connection belongs to a request that has
   passed its Begin, and a row to a transaction that has locked it. *)
TypeOK ==
  /\ conn \in [Conns -> Procs \cup {Free}]
  /\ rowLock \in [Rows -> Procs \cup {Free}]
  /\ pc \in [Procs -> Labels]
  /\ req \in [Procs -> {NoReq} \cup [op : Ops, row : Rows]]
  /\ \A p \in Procs :
       /\ pc[p] # "idle" => req[p] # NoReq
       /\ pc[p] = "readOrg" => req[p].op = "cancelByToken"
       /\ HasConn(p) <=> pc[p] \in {"lockRow", "readOrg", "readingOrg", "finish"}
       /\ pc[p] = "readingOrg" => \E c, d \in Conns : c # d /\ conn[c] = p /\ conn[d] = p
       /\ \A r \in Rows :
            rowLock[r] = p => r = req[p].row /\ pc[p] \in {"readOrg", "readingOrg", "finish"}

NoneFree == \A c \in Conns : conn[c] # Free

Blocked(p) ==
  \/ pc[p] \in {"acquire", "readOrg"} /\ NoneFree
  \/ pc[p] = "lockRow" /\ rowLock[req[p].row] # Free

(* Every connection is held by a request that waits: nothing moves until a
   client goes away. *)
Stalled == \A c \in Conns : conn[c] # Free /\ Blocked(conn[c])

AwaitsSecond(p) == pc[p] = "readOrg" /\ req[p].op = "cancelByToken"

(* The pool can only stall through CancelByToken: each connection is then held
   by one that asks for its second connection, or by a transaction that waits
   for a row such a request has locked.  No other mix of requests, however
   large, exhausts the pool for good. *)
StallNeedsCancel ==
  Stalled => \A c \in Conns :
    \/ AwaitsSecond(conn[c])
    \/ /\ pc[conn[c]] = "lockRow"
       /\ rowLock[req[conn[c]].row] \in {p \in Procs : AwaitsSecond(p)}

(* Short of a stall every request ends, although no client ever goes away: no
   connection and no lock is kept by a request that is over. *)
RequestsEnd == []~Stalled => \A p \in Procs : pc[p] # "idle" ~> pc[p] = "idle"
=============================================================================
