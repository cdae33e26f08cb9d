--------------------------- MODULE ConnPoolProofs ---------------------------
(***************************************************************************)
(* Proofs about ConnPool, for pools, requests and rows of any number: the  *)
(* types, which say who holds what at which statement, are inductive, and  *)
(* imply that a stall has a CancelByToken behind every connection.         *)
(***************************************************************************)
EXTENDS ConnPool, TLAPS

-----------------------------------------------------------------------------
(* Who holds nothing at the start. *)
LEMMA InitType == Init => TypeOK
  BY ConnPoolAssumption DEF Init, TypeOK, HasConn, Labels

(* Giving a request's connections and rows back leaves those of the others. *)
LEMMA ReleaseTypes ==
  ASSUME TypeOK, NEW p \in Procs, Release(p)
  PROVE  /\ conn' \in [Conns -> Procs \cup {Free}]
         /\ rowLock' \in [Rows -> Procs \cup {Free}]
         /\ \A c \in Conns : conn'[c] # p /\ (conn[c] # p => conn'[c] = conn[c])
         /\ \A c \in Conns : conn'[c] # Free => conn'[c] = conn[c]
         /\ \A r \in Rows : rowLock'[r] # p /\ (rowLock'[r] # Free => rowLock'[r] = rowLock[r])
<1>1. conn' = [c \in Conns |-> IF conn[c] = p THEN Free ELSE conn[c]]
  BY DEF TypeOK, Release, Without
<1>2. rowLock' = [r \in Rows |-> IF rowLock[r] = p THEN Free ELSE rowLock[r]]
  BY DEF TypeOK, Release, Without
<1> QED
  BY <1>1, <1>2, ConnPoolAssumption DEF TypeOK, HasConn

(* Every step keeps the types. *)
LEMMA NextType == TypeOK /\ [Next]_vars => TypeOK'
<1> SUFFICES ASSUME TypeOK, [Next]_vars PROVE TypeOK'
  OBVIOUS
<1> USE ConnPoolAssumption
<1>1. ASSUME NEW p \in Procs, NEW op \in Ops, NEW r \in Rows, Request(p, op, r) PROVE TypeOK'
  BY <1>1 DEF Request, Goto, TypeOK, HasConn, Labels, NoReq, Ops
<1>2. ASSUME NEW p \in Procs, NEW c \in Conns, Acquire(p, c) PROVE TypeOK'
  BY <1>2 DEF Acquire, Goto, TypeOK, HasConn, Labels
<1>3. ASSUME NEW p \in Procs, NEW c \in Conns, AcquireSecond(p, c) PROVE TypeOK'
  BY <1>3 DEF AcquireSecond, Goto, TypeOK, HasConn, Labels
<1>4. ASSUME NEW p \in Procs, LockRow(p) PROVE TypeOK'
  BY <1>4 DEF LockRow, Goto, AfterLock, TypeOK, HasConn, Labels, NoReq
<1>5. ASSUME NEW p \in Procs, ReadOrg(p) PROVE TypeOK'
  BY <1>5 DEF ReadOrg, Goto, TypeOK, HasConn, Labels
<1>6. ASSUME NEW p \in Procs, End(p), pc[p] # "idle" PROVE TypeOK'
  <2>1. Release(p)
    BY <1>6 DEF End
  <2> QED
    BY <1>6, <2>1, ReleaseTypes DEF End, Goto, TypeOK, HasConn, Labels, NoReq
<1>7. CASE UNCHANGED vars
  BY <1>7 DEF vars, TypeOK, HasConn
<1> QED
  BY <1>1, <1>2, <1>3, <1>4, <1>5, <1>6, <1>7 DEF Next, Step, Finish, Abort

(* A request holds connections and rows exactly at the statements that need
   them. *)
THEOREM TypeCorrect == Spec => []TypeOK
  BY InitType, NextType, PTL DEF Spec

-----------------------------------------------------------------------------
(* In a stall the holder of a connection is past its Begin, so it waits for a
   second connection or for a row; the request that locked the row holds a
   connection too and waits, and after its lock only CancelByToken does. *)
LEMMA StallCause == TypeOK => StallNeedsCancel
<1> SUFFICES ASSUME TypeOK, Stalled, NEW c \in Conns
             PROVE  \/ AwaitsSecond(conn[c])
                    \/ /\ pc[conn[c]] = "lockRow"
                       /\ rowLock[req[conn[c]].row] \in {p \in Procs : AwaitsSecond(p)}
  BY DEF StallNeedsCancel
<1>1. ASSUME NEW p \in Procs, HasConn(p), pc[p] # "lockRow" PROVE AwaitsSecond(p)
  BY <1>1 DEF TypeOK, HasConn, Stalled, Blocked, AwaitsSecond
<1>2. conn[c] \in Procs /\ HasConn(conn[c]) /\ Blocked(conn[c])
  BY DEF TypeOK, Stalled, HasConn
<1>3. CASE pc[conn[c]] # "lockRow"
  BY <1>1, <1>2, <1>3
<1>4. CASE pc[conn[c]] = "lockRow"
  <2> DEFINE r == req[conn[c]].row
             q == rowLock[r]
  <2>1. r \in Rows /\ q # Free
    BY <1>2, <1>4 DEF TypeOK, Blocked
  <2>2. q \in Procs /\ pc[q] \in {"readOrg", "readingOrg", "finish"}
    BY <2>1 DEF TypeOK
  <2>3. HasConn(q)
    BY <2>2 DEF TypeOK
  <2>4. AwaitsSecond(q)
    BY <1>1, <2>2, <2>3
  <2> QED
    BY <1>4, <2>2, <2>4
<1> QED
  BY <1>3, <1>4

(* However large the pool and the load, the pool stalls only through requests
   of CancelByToken that ask for a second connection. *)
THEOREM StallOnlyByCancel == Spec => []StallNeedsCancel
  BY TypeCorrect, StallCause, PTL
=============================================================================
