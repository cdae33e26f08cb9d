--------------------------- MODULE SessionsProofs ---------------------------
(***************************************************************************)
(* Proofs about Sessions, for browsers, users, requests and tokens of any  *)
(* number.  The first invariant ties each request to the rows it names,    *)
(* and gives NoLockout; the second one follows the one usable token of a   *)
(* session nothing has disturbed, and gives LogoutFinal.                   *)
(***************************************************************************)
EXTENDS Sessions, TLAPS

Starting == {"findUser", "createUser", "touchLastLogin"}

(* What a request holds at each of its statements. *)
Shape ==
  \A p \in Procs : LET r == req[p] IN
    /\ pc[p] = "idle" <=> r = NoReq
    /\ pc[p] # "idle" => r.client \in Clients
    /\ r.op \in {"refresh", "logout"} <=> r.old # NoToken
    /\ pc[p] \in {"findToken", "revokeToken"} => r.old # NoToken
    /\ pc[p] \in Starting => r.old = NoToken /\ r.user \in Users
    /\ r.op = "logout" => pc[p] # "createToken"
    /\ r.new # NoToken <=> r.op # "logout" /\ pc[p] \in {"revokeToken", "reply"}
    /\ pc[p] = "revokeToken" => r.op \in {"refresh", "logout"}

Exists(t) == token[t].status # "none"

(* The tokens in cookies and requests are rows of the browser. *)
Rows ==
  /\ \A c \in Clients : cookie[c] # NoToken => Exists(cookie[c]) /\ token[cookie[c]].client = c
  /\ \A p \in Procs : req[p].old # NoToken =>
       Exists(req[p].old) /\ token[req[p].old].client = req[p].client

(* A token that has not been answered yet is nowhere else, and not revoked. *)
Unused ==
  \A p \in Procs : LET t == req[p].new IN
    t # NoToken =>
      /\ Exists(t) /\ token[t].client = req[p].client
      /\ token[t].status # "revoked"
      /\ \A c \in Clients : cookie[c] # t
      /\ \A q \in Procs : req[q].old # t /\ (q # p => req[q].new # t)

Inv == Types /\ Shape /\ Rows /\ Unused /\ NoLockout

-----------------------------------------------------------------------------
(* Nothing exists at the start. *)
LEMMA InitInv == Init => Inv
  BY SessionsAssumption
  DEF Init, Inv, Types, Shape, Rows, Unused, NoLockout, NoRow, NoReq, Labels, Starting

(* Beginning a request. *)
LEMMA BeginType ==
  ASSUME Types, NEW p \in Procs, NEW label \in Labels,
         NEW r \in [op : Ops, client : Clients, user : Users \cup {"none"},
                    old : Tokens \cup {NoToken}, new : Tokens \cup {NoToken}],
         Begin(p, label, r), r.old # NoToken => token[r.old].session \in Tokens
  PROVE  Types'
<1>1. SessionOf(r.old) \subseteq Tokens
  BY DEF SessionOf
<1>2. disturbed' \subseteq Tokens
  BY <1>1 DEF Begin, Types
<1> QED
  BY <1>2 DEF Begin, Types, Goto

LEMMA RequestInv ==
  ASSUME Inv, NEW p \in Procs, Request(p)
  PROVE  Inv'
<1> USE SessionsAssumption DEF Inv
<1>1. ASSUME NEW c \in Clients, NEW u \in Users, Register(p, c, u) \/ Login(p, c, u) PROVE Inv'
  <2> PICK r \in {[NoReq EXCEPT !.op = "register", !.client = c, !.user = u],
                  [NoReq EXCEPT !.op = "login", !.client = c, !.user = u]} : Begin(p, "findUser", r)
    BY <1>1 DEF Register, Login
  <2>1. /\ r \in [op : Ops, client : Clients, user : Users \cup {"none"},
                  old : Tokens \cup {NoToken}, new : Tokens \cup {NoToken}]
        /\ r.op \in {"register", "login"} /\ r.client = c /\ r.user \in Users /\ r.old = NoToken /\ r.new = NoToken
    BY DEF NoReq, Ops
  <2>2. Types'
    BY <2>1, BeginType DEF Labels
  <2>3. pc' = [pc EXCEPT ![p] = "findUser"] /\ req' = [req EXCEPT ![p] = r] /\ pc[p] = "idle"
        /\ UNCHANGED <<account, token, cookie, lost, ended>>
    BY DEF Begin, Goto
  <2>4. Shape' /\ Rows'
    BY <2>1, <2>3 DEF Types, Shape, Rows, Exists, NoReq, Starting, Ops
  <2>5. Unused'
    BY <2>1, <2>3 DEF Types, Unused, Exists
  <2>6. NoLockout'
    BY <2>3 DEF Types, NoLockout, Replacing
  <2> QED
    BY <2>2, <2>4, <2>5, <2>6
<1>2. ASSUME NEW c \in Clients, Refresh(p, c) \/ Logout(p, c) PROVE Inv'
  <2> PICK r \in {[NoReq EXCEPT !.op = "refresh", !.client = c, !.old = cookie[c]],
                  [NoReq EXCEPT !.op = "logout", !.client = c, !.old = cookie[c]]} :
             Begin(p, "findToken", r) /\ cookie[c] # NoToken
    BY <1>2 DEF Refresh, Logout
  <2>0. cookie[c] \in Tokens /\ Exists(cookie[c]) /\ token[cookie[c]].client = c
    BY DEF Types, Rows
  <2>1. /\ r \in [op : Ops, client : Clients, user : Users \cup {"none"},
                  old : Tokens \cup {NoToken}, new : Tokens \cup {NoToken}]
        /\ r.op \in {"refresh", "logout"} /\ r.client = c /\ r.old = cookie[c] /\ r.new = NoToken
        /\ r.old \in Tokens /\ Exists(r.old) /\ token[r.old].client = c
    BY <2>0 DEF NoReq, Ops
  <2>2. Types'
    BY <2>1, BeginType DEF Labels, Types, Exists, NoRow
  <2>3. pc' = [pc EXCEPT ![p] = "findToken"] /\ req' = [req EXCEPT ![p] = r] /\ pc[p] = "idle"
        /\ UNCHANGED <<account, token, cookie, lost, ended>>
    BY DEF Begin, Goto
  <2>4. Shape' /\ Rows'
    BY <2>1, <2>3 DEF Types, Shape, Rows, Exists, NoReq, Starting, Ops
  <2>5. Unused'
    BY <2>1, <2>3 DEF Types, Unused, Exists
  <2>6. NoLockout'
    BY <2>3 DEF Types, NoLockout, Replacing
  <2> QED
    BY <2>2, <2>4, <2>5, <2>6
<1> QED
  BY <1>1, <1>2 DEF Request

(* Ending a request, with its answer lost or not sent. *)
LEMMA EndInv ==
  ASSUME Inv, NEW p \in Procs, pc[p] # "reply", End(p),
         UNCHANGED <<account, token, cookie, lost, ended>>, disturbed' \subseteq Tokens
  PROVE  Inv'
<1> USE SessionsAssumption DEF Inv
<1>1. Types'
  BY DEF End, Goto, Types, Labels
<1>2. Shape' /\ Rows'
  BY DEF End, Goto, Types, Shape, Rows, Exists, NoReq, Starting
<1>3. Unused'
  BY DEF End, Goto, Types, Unused, Exists, NoReq
<1>4. NoLockout'
  BY DEF End, Goto, Types, NoLockout, Replacing, NoReq
<1> QED
  BY <1>1, <1>2, <1>3, <1>4

(* Going on to the next statement without a change to the rows. *)
LEMMA SkipInv ==
  ASSUME Inv, NEW p \in Procs, pc[p] \in Starting \cup {"findToken"}, account' \subseteq Users,
         Continue(p), UNCHANGED <<token, cookie, req, lost, disturbed, ended>>
  PROVE  Inv'
<1> USE SessionsAssumption DEF Inv
<1>1. req[p].op \in Ops
  BY DEF Shape, Types, NoReq, Starting
<1>2. pc' = [pc EXCEPT ![p] = After(req[p].op, pc[p])]
  BY DEF Continue, Goto
<1>3. /\ After(req[p].op, pc[p]) \in Starting \cup {"createToken", "revokeToken"}
      /\ req[p].op = "logout" => After(req[p].op, pc[p]) = "revokeToken"
      /\ After(req[p].op, pc[p]) = "revokeToken" => req[p].op = "logout"
      /\ After(req[p].op, pc[p]) \in Starting => req[p].old = NoToken
  BY <1>1 DEF After, Starting, Ops, Shape
<1>4. Types'
  BY <1>2, <1>3 DEF Types, Labels, Starting
<1>5. Shape' /\ Rows'
  BY <1>2, <1>3 DEF Types, Shape, Rows, Exists, Starting, NoReq
<1>6. Unused'
  BY DEF Unused, Exists
<1>7. NoLockout'
  BY <1>2, <1>3 DEF Types, NoLockout, Replacing, Starting
<1> QED
  BY <1>4, <1>5, <1>6, <1>7

LEMMA CreateTokenInv ==
  ASSUME Inv, NEW p \in Procs, NEW t \in Tokens, CreateToken(p, t)
  PROVE  Inv'
<1> USE SessionsAssumption DEF Inv
<1> DEFINE x == Created(req[p], t)
<1>1. /\ req[p].op \in {"register", "login", "refresh"}
      /\ req[p].client \in Clients /\ req[p].new = NoToken
      /\ req[p].old \in Tokens \cup {NoToken}
      /\ req[p].op = "refresh" <=> req[p].old # NoToken
      /\ req[p].old # NoToken => Exists(req[p].old)
  BY DEF CreateToken, Shape, Types, Rows, NoReq, Ops
<1>2. x \in [status : {"live", "revoked", "expired"}, client : Clients, session : Tokens]
      /\ x.status = "live" /\ x.client = req[p].client
  BY <1>1 DEF Created, Types, Exists, NoRow
<1>3. /\ token' = [token EXCEPT ![t] = x] /\ ~Exists(t)
      /\ req' = [req EXCEPT ![p].new = t]
      /\ pc' = [pc EXCEPT ![p] = IF req[p].op = "refresh" THEN "revokeToken" ELSE "reply"]
      /\ pc[p] = "createToken"
      /\ UNCHANGED <<account, cookie, lost, disturbed, ended>>
  BY <1>1 DEF CreateToken, Continue, Goto, After, Exists, NoRow, Types
<1> HIDE DEF x
<1>4. Types'
  BY <1>1, <1>2, <1>3 DEF Types, Labels, NoReq
<1>5. Shape' /\ Rows'
  BY <1>1, <1>2, <1>3 DEF Types, Shape, Rows, Exists, NoReq, Starting
<1>6. Unused'
  BY <1>1, <1>2, <1>3 DEF Types, Unused, Exists, Rows, NoReq
<1>7. NoLockout'
  BY <1>1, <1>2, <1>3 DEF Types, NoLockout, Replacing, Rows, Exists
<1> QED
  BY <1>4, <1>5, <1>6, <1>7

LEMMA RevokeTokenInv ==
  ASSUME Inv, NEW p \in Procs, RevokeToken(p)
  PROVE  Inv'
<1> USE SessionsAssumption DEF Inv
<1>1. /\ req[p].op \in {"refresh", "logout"} /\ req[p].old \in Tokens /\ Exists(req[p].old)
      /\ req[p].client \in Clients /\ token[req[p].old].client = req[p].client
  BY DEF RevokeToken, Shape, Types, Rows, NoReq
<1>2. /\ token' = [token EXCEPT ![req[p].old].status = "revoked"]
      /\ pc' = [pc EXCEPT ![p] = "reply"] /\ pc[p] = "revokeToken"
      /\ UNCHANGED <<account, cookie, req, lost, disturbed, ended>>
  BY <1>1 DEF RevokeToken, Continue, Goto, After
<1>3. Types'
  BY <1>1, <1>2 DEF Types, Labels, Exists, NoRow
<1>4. Shape' /\ Rows'
  BY <1>1, <1>2 DEF Types, Shape, Rows, Exists, NoReq, Starting
<1>5. Unused'
  BY <1>1, <1>2 DEF Types, Unused, Exists
<1>6. NoLockout'
  BY <1>1, <1>2 DEF Types, NoLockout, Replacing, Rows
<1> QED
  BY <1>3, <1>4, <1>5, <1>6

LEMMA ReplyInv ==
  ASSUME Inv, NEW p \in Procs, Reply(p)
  PROVE  Inv'
<1> USE SessionsAssumption DEF Inv
<1> DEFINE r == req[p]
<1>1. /\ r.client \in Clients /\ r.new \in Tokens \cup {NoToken}
      /\ r.new # NoToken => Exists(r.new) /\ token[r.new].client = r.client /\ token[r.new].status # "revoked"
  BY DEF Reply, Shape, Types, Unused, NoReq
<1>2. /\ cookie' = [cookie EXCEPT ![r.client] = r.new]
      /\ pc' = [pc EXCEPT ![p] = "idle"] /\ req' = [req EXCEPT ![p] = NoReq]
      /\ pc[p] = "reply" /\ UNCHANGED <<account, token, lost, disturbed>>
  BY DEF Reply, End, Goto
<1>3. ended' \subseteq Tokens
  <2>1. r.op = "logout" => r.old \in Tokens /\ Exists(r.old)
    BY DEF Reply, Shape, Types, Rows, NoReq
  <2>2. r.op = "logout" => token[r.old].session \in Tokens
    BY <2>1 DEF Types, Exists, NoRow
  <2> QED
    BY <2>2 DEF Reply, Types, SessionOf
<1>4. Types'
  BY <1>1, <1>2, <1>3 DEF Types, Labels
<1>5. Shape' /\ Rows'
  BY <1>1, <1>2 DEF Types, Shape, Rows, Exists, NoReq, Starting
<1>6. Unused'
  BY <1>1, <1>2 DEF Types, Unused, Exists, NoReq
<1>7. NoLockout'
  BY <1>1, <1>2 DEF Types, NoLockout, Replacing, Rows
<1> QED
  BY <1>4, <1>5, <1>6, <1>7

LEMMA LoseReplyInv ==
  ASSUME Inv, NEW p \in Procs, LoseReply(p), disturbed' \subseteq Tokens
  PROVE  Inv'
<1> USE SessionsAssumption DEF Inv
<1>1. /\ pc' = [pc EXCEPT ![p] = "idle"] /\ req' = [req EXCEPT ![p] = NoReq]
      /\ lost' = lost \cup {req[p].client} /\ req[p].client \in Clients
      /\ UNCHANGED <<account, token, cookie, ended>>
  BY DEF LoseReply, End, Goto, Shape
<1>2. Types'
  BY <1>1 DEF Types, Labels
<1>3. Shape' /\ Rows'
  BY <1>1 DEF Types, Shape, Rows, Exists, NoReq, Starting
<1>4. Unused'
  BY <1>1 DEF Types, Unused, Exists, NoReq
<1>5. NoLockout'
  BY <1>1 DEF Types, NoLockout, Replacing
<1> QED
  BY <1>2, <1>3, <1>4, <1>5

LEMMA ExpireInv ==
  ASSUME Inv, NEW t \in Tokens, Expire(t)
  PROVE  Inv'
<1> USE SessionsAssumption DEF Inv
<1>1. Types'
  BY DEF Expire, Types, NoRow
<1>2. Shape' /\ Rows'
  BY DEF Expire, Types, Shape, Rows, Exists
<1>3. Unused'
  BY DEF Expire, Types, Unused, Exists
<1>4. NoLockout'
  BY DEF Expire, Types, NoLockout, Replacing
<1> QED
  BY <1>1, <1>2, <1>3, <1>4

(* Sessions of the tokens in requests are tokens. *)
LEMMA DisturbedType ==
  ASSUME Inv, NEW p \in Procs
  PROVE  disturbed \cup SessionOf(req[p].old) \subseteq Tokens
<1>1. req[p].old # NoToken => token[req[p].old].session \in Tokens
  BY DEF Inv, Types, Rows, Exists, NoRow, NoReq
<1> QED
  BY <1>1 DEF Inv, Types, SessionOf

LEMMA NextInv == Inv /\ [Next]_vars => Inv'
<1> SUFFICES ASSUME Inv, [Next]_vars PROVE Inv'
  OBVIOUS
<1>1. ASSUME NEW p \in Procs, Request(p) PROVE Inv'
  BY <1>1, RequestInv
<1>2. ASSUME NEW p \in Procs, FindUser(p) \/ CreateUser(p) \/ TouchLastLogin(p) \/ FindToken(p) PROVE Inv'
  <2>0. disturbed \subseteq Tokens /\ account \subseteq Users
    BY DEF Inv, Types
  <2>1. CASE Continue(p) /\ UNCHANGED req
    <3>1. account' \subseteq Users
      <4>1. pc[p] = "createUser" => req[p].user \in Users
        BY DEF Inv, Shape, Starting
      <4> QED
        BY <1>2, <2>0, <4>1 DEF FindUser, CreateUser, TouchLastLogin, FindToken
    <3> QED
      BY <1>2, <2>1, <3>1, SkipInv DEF FindUser, CreateUser, TouchLastLogin, FindToken, Starting
  <2>2. CASE End(p) /\ UNCHANGED account
    BY <1>2, <2>0, <2>2, EndInv DEF FindUser, CreateUser, TouchLastLogin, FindToken
  <2> QED
    BY <1>2, <2>1, <2>2 DEF FindUser, CreateUser, TouchLastLogin, FindToken
<1>3. ASSUME NEW p \in Procs, NEW t \in Tokens, CreateToken(p, t) PROVE Inv'
  BY <1>3, CreateTokenInv
<1>4. ASSUME NEW p \in Procs, RevokeToken(p) PROVE Inv'
  BY <1>4, RevokeTokenInv
<1>5. ASSUME NEW p \in Procs, Reply(p) PROVE Inv'
  BY <1>5, ReplyInv
<1>6. ASSUME NEW p \in Procs, LoseReply(p) PROVE Inv'
  BY <1>6, DisturbedType, LoseReplyInv DEF LoseReply
<1>7. ASSUME NEW p \in Procs, Fail(p) PROVE Inv'
  BY <1>7, DisturbedType, EndInv DEF Fail
<1>8. ASSUME NEW t \in Tokens, Expire(t) PROVE Inv'
  BY <1>8, ExpireInv
<1>9. CASE UNCHANGED vars
  BY <1>9 DEF vars, Inv, Types, Shape, Rows, Unused, Exists, NoLockout, Replacing
<1> QED
  BY <1>1, <1>2, <1>3, <1>4, <1>5, <1>6, <1>7, <1>8, <1>9 DEF Next, Step

LEMMA Inductive == Spec => []Inv
  BY InitInv, NextInv, PTL DEF Spec

(* The types hold in every reachable state, and no request revokes a token or
   answers without the token it should hold. *)
THEOREM TypeCorrect == Spec => []TypeOK
<1>1. Inv => TypeOK
  BY DEF Inv, Shape, TypeOK
<1> QED
  BY <1>1, Inductive, PTL

(* No refresh locks a browser out, whatever requests it has in the air. *)
THEOREM NobodyLockedOut == Spec => []NoLockout
  BY Inductive, PTL DEF Inv

-----------------------------------------------------------------------------
(* A session is the client's, begins with its first token and, once ended,
   has existed. *)
Chains ==
  /\ \A t \in Tokens : Exists(t) =>
       Exists(token[t].session) /\ token[token[t].session].client = token[t].client
  /\ \A s \in ended : Exists(s)

(* A token not answered yet begins a session of its own or continues that of
   the token it replaces. *)
NewTokens ==
  \A p \in Procs : LET r == req[p] IN
    r.new # NoToken =>
      IF r.old = NoToken
      THEN token[r.new].session = r.new /\ \A u \in Tokens : token[u].session = r.new => u = r.new
      ELSE token[r.new].session = token[r.old].session

Busy(p, s) == req[p].old # NoToken /\ token[req[p].old].session = s
Live(s) == {t \in Tokens : token[t].session = s /\ Usable(t)}

OneAtATime(s) == \A p, q \in Procs : Busy(p, s) /\ Busy(q, s) => p = q

(* While a request uses the session, only the tokens it knows are usable ... *)
KnownLive(s) ==
  \A p \in Procs : Busy(p, s) =>
    \A t \in Live(s) : (t = req[p].old /\ pc[p] # "reply") \/ t = req[p].new

(* ... and otherwise only the one in the cookie. *)
CookieLive(s) ==
  (\A p \in Procs : ~Busy(p, s)) =>
    \A c \in Clients : cookie[c] # NoToken /\ token[cookie[c]].session = s =>
      \A t \in Live(s) : t = cookie[c]

(* After the logout nothing is usable, and requests do not get past the test. *)
Over(s) ==
  s \in ended => Live(s) = {} /\ \A p \in Procs : Busy(p, s) => pc[p] = "findToken"

Orderly(s) == OneAtATime(s) /\ KnownLive(s) /\ CookieLive(s) /\ Over(s)

SessionInv == Inv /\ Chains /\ NewTokens /\ \A s \in Tokens \ disturbed : Orderly(s)

LEMMA InitSession == Init => SessionInv
<1> SUFFICES ASSUME Init PROVE SessionInv
  OBVIOUS
<1>1. Inv
  BY InitInv
<1>2. Chains /\ NewTokens
  BY DEF Init, Chains, NewTokens, Exists, NoRow, NoReq
<1>3. ASSUME NEW s \in Tokens PROVE Orderly(s)
  BY SessionsAssumption
  DEF Init, Orderly, OneAtATime, KnownLive, CookieLive, Over, Busy, Live, NoRow, NoReq
<1> QED
  BY <1>1, <1>2, <1>3 DEF SessionInv

(* What a step that changes no request, cookie or ended session and makes no
   token usable leaves alone. *)
LEMMA FewerLive ==
  ASSUME SessionInv, NEW s \in Tokens, Orderly(s),
         \A t \in Tokens : token'[t].session = token[t].session,
         \A t \in Tokens : Usable(t)' => Usable(t),
         UNCHANGED <<cookie, req, ended>>,
         \A p \in Procs : pc'[p] = pc[p] \/ ~Busy(p, s)
  PROVE  Orderly(s)'
<1>1. \A p \in Procs : Busy(p, s)' <=> Busy(p, s)
  BY DEF Busy, SessionInv, Inv, Types, NoReq
<1>2. Live(s)' \subseteq Live(s)
  BY DEF Live
<1>3. \A c \in Clients : cookie[c] # NoToken => token'[cookie[c]].session = token[cookie[c]].session
  BY DEF SessionInv, Inv, Types
<1>4. OneAtATime(s)' /\ KnownLive(s)'
  BY <1>1, <1>2 DEF Orderly, OneAtATime, KnownLive
<1>5. CookieLive(s)' /\ Over(s)'
  BY <1>1, <1>2, <1>3 DEF Orderly, CookieLive, Over
<1> QED
  BY <1>4, <1>5 DEF Orderly

(* A request begins.  The sessions it overlaps with others are disturbed. *)
LEMMA BeginSession ==
  ASSUME SessionInv, Inv', NEW p \in Procs, NEW label, NEW r, Begin(p, label, r), r.new = NoToken,
         \/ r.old = NoToken
         \/ label = "findToken" /\ \E c \in Clients : r.old = cookie[c] /\ cookie[c] # NoToken
  PROVE  SessionInv'
<1> USE SessionsAssumption
<1>1. /\ pc[p] = "idle" /\ req[p] = NoReq
      /\ pc' = [pc EXCEPT ![p] = label] /\ req' = [req EXCEPT ![p] = r]
      /\ UNCHANGED <<token, cookie, ended>>
      /\ disturbed \subseteq disturbed'
  BY DEF Begin, Goto, SessionInv, Inv, Shape
<1>2. Chains' /\ NewTokens'
  BY <1>1 DEF SessionInv, Inv, Types, Chains, Exists, NewTokens, NoReq
<1>3. ASSUME NEW s \in Tokens \ disturbed' PROVE Orderly(s)'
  <2>1. Orderly(s)
    BY <1>1, <1>3 DEF SessionInv
  <2>2. ~Busy(p, s) /\ \A q \in Procs \ {p} : Busy(q, s)' <=> Busy(q, s)
    BY <1>1 DEF Busy, NoReq, SessionInv, Inv, Types
  <2>3. Live(s)' = Live(s)
    BY <1>1 DEF Live, Usable
  <2>4. CASE ~Busy(p, s)'
    <3>1. \A q \in Procs : Busy(q, s)' <=> Busy(q, s)
      BY <2>2, <2>4
    <3>2. \A q \in Procs : Busy(q, s) => q # p /\ pc'[q] = pc[q] /\ req'[q] = req[q]
      BY <1>1, <2>2 DEF SessionInv, Inv, Types
    <3> QED
      BY <1>1, <2>1, <2>3, <3>1, <3>2 DEF Orderly, OneAtATime, KnownLive, CookieLive, Over
  <2>5. CASE Busy(p, s)'
    <3>1. PICK c \in Clients : r.old = cookie[c] /\ cookie[c] # NoToken /\ token[r.old].session = s
                              /\ label = "findToken"
      BY <1>1, <2>5 DEF Busy, SessionInv, Inv, Types
    <3>2. ASSUME NEW q \in Procs PROVE ~Busy(q, s)
      <4>1. SUFFICES ASSUME Busy(q, s) PROVE FALSE
        OBVIOUS
      <4>2. pc[q] # "idle"
        BY <4>1 DEF Busy, SessionInv, Inv, Shape, NoReq
      <4>3. s \in SessionOf(r.old) \cap SessionOf(req[q].old)
        BY <3>1, <4>1 DEF Busy, SessionOf
      <4> QED
        BY <1>3, <4>2, <4>3 DEF Begin
    <3>3. pc'[p] = "findToken" /\ req'[p] = r
      BY <1>1, <3>1 DEF SessionInv, Inv, Types
    <3>4. \A t \in Live(s) : t = r.old
      BY <2>1, <3>1, <3>2 DEF Orderly, CookieLive
    <3>5. \A q \in Procs : Busy(q, s)' => q = p
      BY <2>2, <3>2
    <3>6. s \in ended => Live(s) = {}
      BY <2>1 DEF Orderly, Over
    <3> QED
      BY <1>1, <2>3, <2>5, <3>3, <3>4, <3>5, <3>6 DEF Orderly, OneAtATime, KnownLive, CookieLive, Over
  <2> QED
    BY <2>4, <2>5
<1> QED
  BY <1>2, <1>3 DEF SessionInv

LEMMA RequestSession ==
  ASSUME SessionInv, NEW p \in Procs, Request(p)
  PROVE  SessionInv'
<1>0. Inv'
  BY RequestInv DEF SessionInv
<1>1. ASSUME NEW c \in Clients, NEW u \in Users, Register(p, c, u) \/ Login(p, c, u) PROVE SessionInv'
  BY <1>0, <1>1, BeginSession DEF Register, Login, NoReq
<1>2. ASSUME NEW c \in Clients, Refresh(p, c) \/ Logout(p, c) PROVE SessionInv'
  BY <1>0, <1>2, BeginSession DEF Refresh, Logout, NoReq
<1> QED
  BY <1>1, <1>2 DEF Request

(* A request ends without a new cookie: its session is disturbed, or the token
   it asked for was not usable. *)
LEMMA EndSession ==
  ASSUME SessionInv, Inv', NEW p \in Procs, End(p), UNCHANGED <<token, cookie, ended>>,
         disturbed \subseteq disturbed',
         \/ SessionOf(req[p].old) \subseteq disturbed'
         \/ pc[p] = "findToken" /\ ~Usable(req[p].old)
  PROVE  SessionInv'
<1> USE SessionsAssumption
<1>1. pc' = [pc EXCEPT ![p] = "idle"] /\ req' = [req EXCEPT ![p] = NoReq]
  BY DEF End, Goto
<1>2. Chains' /\ NewTokens'
  BY <1>1 DEF SessionInv, Inv, Types, Chains, Exists, NewTokens, NoReq
<1>3. ASSUME NEW s \in Tokens \ disturbed' PROVE Orderly(s)'
  <2>1. Orderly(s)
    BY <1>3 DEF SessionInv
  <2>2. Live(s)' = Live(s)
    BY DEF Live, Usable
  <2>3. ~Busy(p, s)' /\ \A q \in Procs \ {p} : Busy(q, s)' <=> Busy(q, s)
    BY <1>1 DEF Busy, NoReq, SessionInv, Inv, Types
  <2>4. Busy(p, s) => Live(s) = {}
    <3>1. SUFFICES ASSUME Busy(p, s) PROVE Live(s) = {}
      OBVIOUS
    <3>2. pc[p] = "findToken" /\ ~Usable(req[p].old)
      BY <1>3, <3>1 DEF Busy, SessionOf
    <3>3. req[p].new = NoToken
      BY <3>2 DEF SessionInv, Inv, Shape
    <3> QED
      BY <2>1, <3>1, <3>2, <3>3 DEF Orderly, KnownLive, Live
  <2>5. \A q \in Procs \ {p} : pc'[q] = pc[q] /\ req'[q] = req[q]
    BY <1>1 DEF SessionInv, Inv, Types
  <2>6. OneAtATime(s)' /\ KnownLive(s)' /\ Over(s)'
    BY <2>1, <2>2, <2>3, <2>5 DEF Orderly, OneAtATime, KnownLive, Over
  <2>7. CookieLive(s)'
    BY <2>1, <2>2, <2>3, <2>4 DEF Orderly, CookieLive
  <2> QED
    BY <2>6, <2>7 DEF Orderly
<1> QED
  BY <1>2, <1>3 DEF SessionInv

LEMMA CreateTokenSession ==
  ASSUME SessionInv, NEW p \in Procs, NEW t \in Tokens, CreateToken(p, t)
  PROVE  SessionInv'
<1> USE SessionsAssumption
<1>0. Inv'
  BY CreateTokenInv DEF SessionInv
<1> DEFINE o == req[p].old
           x == Created(req[p], t)
<1>1. /\ token' = [token EXCEPT ![t] = x] /\ ~Exists(t) /\ token[t].session = NoToken
      /\ req' = [req EXCEPT ![p].new = t] /\ req[p].new = NoToken
      /\ pc[p] = "createToken" /\ \A q \in Procs \ {p} : pc'[q] = pc[q] /\ req'[q] = req[q]
      /\ pc'[p] \in {"revokeToken", "reply"} /\ (o # NoToken => pc'[p] = "revokeToken")
      /\ req'[p].new = t /\ req'[p].old = o
      /\ UNCHANGED <<account, cookie, lost, disturbed, ended>>
  <2>1. req[p].op \in {"register", "login", "refresh"} /\ (req[p].op = "refresh" <=> o # NoToken)
        /\ req[p].new = NoToken
    BY DEF CreateToken, SessionInv, Inv, Shape, Types, NoReq, Ops
  <2> QED
    BY <2>1 DEF CreateToken, Continue, Goto, After, Exists, NoRow, SessionInv, Inv, Types
<1>2. /\ x.status = "live" /\ x.client = req[p].client
      /\ x.session = IF o = NoToken THEN t ELSE token[o].session
  BY DEF Created
<1>3. /\ o # NoToken => o \in Tokens /\ Exists(o) /\ o # t /\ token[o].client = req[p].client
      /\ \A q \in Procs : req[q].old # NoToken => req[q].old \in Tokens /\ req[q].old # t /\ Exists(req[q].old)
      /\ \A c \in Clients : cookie[c] # NoToken => cookie[c] \in Tokens /\ cookie[c] # t /\ Exists(cookie[c])
      /\ \A q \in Procs : req[q].new # NoToken => req[q].new \in Tokens /\ Exists(req[q].new) /\ req[q].new # t
  BY <1>1 DEF SessionInv, Inv, Rows, Unused, Types, Exists, NoReq
<1>4. \A u \in Tokens : Exists(u) => token[u].session \in Tokens /\ token[u].session # t
  BY <1>1 DEF SessionInv, Chains, Inv, Types, Exists, NoRow
<1>5. \A u \in Tokens : ~Exists(u) => token[u].session = NoToken
  BY DEF SessionInv, Inv, Types, Exists, NoRow
<1> HIDE DEF x
<1>6. token'[t] = x /\ \A u \in Tokens \ {t} : token'[u] = token[u]
  BY <1>1 DEF SessionInv, Inv, Types
<1>7. Chains'
  BY <1>1, <1>2, <1>3, <1>4, <1>6 DEF SessionInv, Inv, Types, Chains, Exists
<1>8. NewTokens'
  <2>1. ASSUME NEW q \in Procs, req'[q].new # NoToken
        PROVE IF req'[q].old = NoToken
              THEN /\ token'[req'[q].new].session = req'[q].new
                   /\ \A u \in Tokens : token'[u].session = req'[q].new => u = req'[q].new
              ELSE token'[req'[q].new].session = token'[req'[q].old].session
    <3>1. CASE q = p
      BY <1>1, <1>2, <1>3, <1>4, <1>5, <1>6, <3>1
    <3>2. CASE q # p
      <4>1. req'[q] = req[q] /\ req[q].new # t /\ Exists(req[q].new) /\ req[q].new \in Tokens
        BY <1>1, <1>3, <2>1, <3>2
      <4>2. CASE req[q].old = NoToken
        <5>1. o # NoToken => o # req[q].new
          BY <3>2, <4>1 DEF SessionInv, Inv, Unused
        <5>2. o # NoToken => token[o].session # req[q].new
          BY <1>3, <4>1, <4>2, <5>1 DEF SessionInv, NewTokens
        <5> QED
          BY <1>2, <1>6, <4>1, <4>2, <5>2 DEF SessionInv, NewTokens
      <4>3. CASE req[q].old # NoToken
        BY <1>3, <1>6, <4>1, <4>3 DEF SessionInv, NewTokens
      <4> QED
        BY <4>2, <4>3
    <3> QED
      BY <3>1, <3>2
  <2> QED
    BY <2>1 DEF NewTokens
<1>9. ASSUME NEW s \in Tokens \ disturbed' PROVE Orderly(s)'
  <2>1. Orderly(s)
    BY <1>1, <1>9 DEF SessionInv
  <2>2. \A q \in Procs : Busy(q, s)' <=> Busy(q, s)
    BY <1>1, <1>3, <1>6 DEF Busy
  <2>3. Live(s)' = IF x.session = s THEN Live(s) \cup {t} ELSE Live(s)
    BY <1>1, <1>2, <1>6 DEF Live, Usable, Exists
  <2>4. \A c \in Clients : cookie[c] # NoToken => token'[cookie[c]] = token[cookie[c]]
    BY <1>3, <1>6
  <2>5. CASE Busy(p, s)
    <3>1. o # NoToken /\ token[o].session = s /\ x.session = s
      BY <1>2, <2>5 DEF Busy
    <3>2. s \notin ended
      BY <1>1, <2>1, <2>5 DEF Orderly, Over
    <3>3. \A u \in Live(s) : u = o
      BY <1>1, <2>1, <2>5 DEF Orderly, KnownLive, Live
    <3>4. \A q \in Procs : Busy(q, s) => q = p
      BY <2>1, <2>5 DEF Orderly, OneAtATime
    <3> QED
      BY <1>1, <2>2, <2>3, <2>5, <3>1, <3>2, <3>3, <3>4
      DEF Orderly, OneAtATime, KnownLive, CookieLive, Over
  <2>6. CASE ~Busy(p, s) /\ x.session # s
    <3>1. Live(s)' = Live(s)
      BY <2>3, <2>6
    <3>2. \A q \in Procs : Busy(q, s) => q # p
      BY <2>6
    <3> QED
      BY <1>1, <2>1, <2>2, <2>4, <3>1, <3>2 DEF Orderly, OneAtATime, KnownLive, CookieLive, Over
  <2>7. CASE ~Busy(p, s) /\ x.session = s
    <3>1. o = NoToken /\ s = t
      BY <1>2, <2>7 DEF Busy
    <3>2. \A q \in Procs : ~Busy(q, s)
      BY <1>3, <1>4, <3>1 DEF Busy
    <3>3. \A c \in Clients : cookie[c] # NoToken => token[cookie[c]].session # s
      BY <1>3, <1>4, <3>1
    <3>4. s \notin ended
      BY <1>1, <3>1 DEF SessionInv, Chains
    <3> QED
      BY <1>1, <2>2, <2>4, <3>2, <3>3, <3>4 DEF Orderly, OneAtATime, KnownLive, CookieLive, Over
  <2> QED
    BY <2>5, <2>6, <2>7
<1> QED
  BY <1>0, <1>7, <1>8, <1>9 DEF SessionInv

LEMMA RevokeTokenSession ==
  ASSUME SessionInv, NEW p \in Procs, RevokeToken(p)
  PROVE  SessionInv'
<1> USE SessionsAssumption
<1>0. Inv'
  BY RevokeTokenInv DEF SessionInv
<1> DEFINE o == req[p].old
<1>1. /\ req[p].op \in {"refresh", "logout"} /\ o # NoToken /\ o \in Tokens /\ Exists(o)
      /\ req[p].new = NoToken <=> req[p].op = "logout"
  BY DEF RevokeToken, SessionInv, Inv, Shape, Rows, Types, NoReq
<1>2. /\ token' = [token EXCEPT ![o].status = "revoked"]
      /\ pc' = [pc EXCEPT ![p] = "reply"] /\ pc[p] = "revokeToken"
      /\ UNCHANGED <<account, cookie, req, lost, disturbed, ended>>
  BY <1>1 DEF RevokeToken, Continue, Goto, After
<1>3. /\ \A t \in Tokens : token'[t].session = token[t].session /\ token'[t].client = token[t].client
      /\ \A t \in Tokens : Exists(t)' <=> Exists(t)
      /\ \A t \in Tokens : Usable(t)' <=> Usable(t) /\ t # o
  BY <1>1, <1>2 DEF SessionInv, Inv, Types, Exists, NoRow, Usable
<1>4. /\ \A q \in Procs : req[q].old \in Tokens \cup {NoToken} /\ req[q].new \in Tokens \cup {NoToken}
      /\ \A c \in Clients : cookie[c] \in Tokens \cup {NoToken}
      /\ \A t \in Tokens : token[t].session \in Tokens \cup {NoToken}
      /\ \A t \in Tokens : Exists(t) => token[t].session \in Tokens
      /\ ended \subseteq Tokens
  BY DEF SessionInv, Inv, Types, NoReq, NoRow, Exists
<1>5. Chains'
  BY <1>2, <1>3, <1>4 DEF SessionInv, Chains
<1>6. NewTokens'
  BY <1>2, <1>3, <1>4 DEF SessionInv, NewTokens
<1>7. ASSUME NEW s \in Tokens \ disturbed' PROVE Orderly(s)'
  <2>1. Orderly(s)
    BY <1>2, <1>7 DEF SessionInv
  <2>2. \A q \in Procs : Busy(q, s)' <=> Busy(q, s)
    BY <1>2, <1>3, <1>4 DEF Busy
  <2>3. Live(s)' = Live(s) \ {o}
    BY <1>3 DEF Live
  <2>4. \A c \in Clients : cookie[c] # NoToken => token'[cookie[c]].session = token[cookie[c]].session
    BY <1>3, <1>4
  <2>5. \A q \in Procs : pc'[q] = IF q = p THEN "reply" ELSE pc[q]
    BY <1>2 DEF SessionInv, Inv, Types
  <2>6. Busy(p, s) => s \notin ended
    BY <1>2, <2>1 DEF Orderly, Over
  <2> QED
    BY <1>2, <2>1, <2>2, <2>3, <2>4, <2>5, <2>6 DEF Orderly, OneAtATime, KnownLive, CookieLive, Over
<1> QED
  BY <1>0, <1>5, <1>6, <1>7 DEF SessionInv

LEMMA ReplySession ==
  ASSUME SessionInv, NEW p \in Procs, Reply(p)
  PROVE  SessionInv'
<1> USE SessionsAssumption
<1>0. Inv'
  BY ReplyInv DEF SessionInv
<1> DEFINE o == req[p].old
           n == req[p].new
           k == req[p].client
<1>1. /\ pc[p] = "reply" /\ req[p] # NoReq /\ k \in Clients
      /\ cookie' = [cookie EXCEPT ![k] = n]
      /\ pc' = [pc EXCEPT ![p] = "idle"] /\ req' = [req EXCEPT ![p] = NoReq]
      /\ ended' = IF req[p].op = "logout" THEN ended \cup SessionOf(o) ELSE ended
      /\ UNCHANGED <<account, token, lost, disturbed>>
  BY DEF Reply, End, Goto, SessionInv, Inv, Shape
<1>2. /\ o # NoToken => o \in Tokens /\ Exists(o) /\ token[o].session \in Tokens
                      /\ token[o].client = k /\ Exists(token[o].session)
                      /\ token[token[o].session].client = k
      /\ n # NoToken => n \in Tokens /\ Exists(n) /\ token[n].client = k
      /\ req[p].op = "logout" => o # NoToken /\ n = NoToken
      /\ n = NoToken => req[p].op = "logout"
  BY <1>1 DEF SessionInv, Inv, Shape, Rows, Unused, Chains, Types, NoReq, NoRow, Exists
<1>3. Chains'
  BY <1>1, <1>2 DEF SessionInv, Chains, Exists, SessionOf
<1>4. /\ \A q \in Procs \ {p} : req'[q] = req[q] /\ pc'[q] = pc[q]
      /\ req'[p] = NoReq
      /\ \A c \in Clients : cookie'[c] = IF c = k THEN n ELSE cookie[c]
  BY <1>1 DEF SessionInv, Inv, Types
<1>5. NewTokens'
  BY <1>1, <1>4 DEF SessionInv, NewTokens, NoReq
<1>6. ASSUME NEW s \in Tokens \ disturbed' PROVE Orderly(s)'
  <2>1. Orderly(s)
    BY <1>1, <1>6 DEF SessionInv
  <2>2. ~Busy(p, s)' /\ \A q \in Procs \ {p} : Busy(q, s)' <=> Busy(q, s)
    BY <1>1, <1>4 DEF Busy, NoReq
  <2>3. Live(s)' = Live(s)
    BY <1>1 DEF Live, Usable
  <2>4. OneAtATime(s)' /\ KnownLive(s)'
    BY <1>4, <2>1, <2>2, <2>3 DEF Orderly, OneAtATime, KnownLive
  <2>5. Over(s)'
    <3>1. CASE s \in ended
      BY <1>4, <2>1, <2>2, <2>3, <3>1 DEF Orderly, Over
    <3>2. CASE s \notin ended /\ s \in ended'
      <4>1. Busy(p, s) /\ n = NoToken
        BY <1>1, <1>2, <3>2 DEF SessionOf, Busy
      <4>2. Live(s) = {}
        BY <1>1, <2>1, <4>1 DEF Orderly, KnownLive, Live
      <4>3. \A q \in Procs : ~Busy(q, s)'
        BY <2>1, <2>2, <4>1 DEF Orderly, OneAtATime
      <4> QED
        BY <2>3, <4>2, <4>3 DEF Over
    <3>3. CASE s \notin ended'
      BY <3>3 DEF Over
    <3> QED
      BY <3>1, <3>2, <3>3
  <2>6. CookieLive(s)'
    <3>1. SUFFICES ASSUME \A q \in Procs : ~Busy(q, s)', NEW c \in Clients, cookie'[c] # NoToken,
                          token[cookie'[c]].session = s, NEW t \in Live(s)
                   PROVE  t = cookie'[c]
      BY <1>1, <2>3 DEF CookieLive
    <3>2. CASE Busy(p, s)
      <4>1. t = n
        BY <1>1, <2>1, <3>2 DEF Orderly, KnownLive
      <4>2. c = k
        <5>1. SUFFICES ASSUME c # k PROVE FALSE
          OBVIOUS
        <5>2. cookie[c] # NoToken /\ token[cookie[c]].session = s /\ cookie[c] \in Tokens
          BY <1>4, <3>1, <5>1 DEF SessionInv, Inv, Types
        <5>3. token[cookie[c]].client = c /\ Exists(cookie[c])
          BY <5>2 DEF SessionInv, Inv, Rows
        <5>4. token[s].client = c
          BY <5>2, <5>3 DEF SessionInv, Chains
        <5>5. token[s].client = k
          BY <1>2, <3>2 DEF Busy
        <5> QED
          BY <5>1, <5>4, <5>5
      <4> QED
        BY <1>4, <4>1, <4>2
    <3>3. CASE ~Busy(p, s) /\ c # k
      BY <1>4, <2>1, <2>2, <3>1, <3>3 DEF Orderly, CookieLive
    <3>4. CASE ~Busy(p, s) /\ c = k
      <4>1. n # NoToken /\ token[n].session = s /\ cookie'[c] = n
        BY <1>4, <3>1, <3>4
      <4>2. o = NoToken
        BY <3>4, <4>1 DEF SessionInv, NewTokens, Busy
      <4>3. \A u \in Tokens : token[u].session = n => u = n
        BY <4>1, <4>2 DEF SessionInv, NewTokens
      <4>4. s = n
        <5>1. Exists(s)
          BY <1>2, <4>1 DEF SessionInv, Chains
        <5>2. token[n].session = n
          BY <1>2, <4>1, <4>2 DEF SessionInv, NewTokens
        <5> QED
          BY <4>1, <5>2
      <4> QED
        BY <4>1, <4>3, <4>4 DEF Live
    <3> QED
      BY <3>2, <3>3, <3>4
  <2> QED
    BY <2>4, <2>5, <2>6 DEF Orderly
<1> QED
  BY <1>0, <1>3, <1>5, <1>6 DEF SessionInv

LEMMA ExpireSession ==
  ASSUME SessionInv, NEW t \in Tokens, Expire(t)
  PROVE  SessionInv'
<1> USE SessionsAssumption
<1>0. Inv'
  BY ExpireInv DEF SessionInv
<1>1. /\ \A u \in Tokens : token'[u].session = token[u].session /\ token'[u].client = token[u].client
      /\ \A u \in Tokens : Exists(u)' <=> Exists(u)
      /\ \A u \in Tokens : Usable(u)' => Usable(u)
      /\ UNCHANGED <<cookie, req, pc, disturbed, ended>>
  BY DEF Expire, SessionInv, Inv, Types, Exists, NoRow, Usable
<1>2. /\ \A q \in Procs : req[q].old \in Tokens \cup {NoToken} /\ req[q].new \in Tokens \cup {NoToken}
      /\ \A u \in Tokens : Exists(u) => token[u].session \in Tokens
      /\ ended \subseteq Tokens
  BY DEF SessionInv, Inv, Types, NoReq, NoRow, Exists
<1>3. Chains' /\ NewTokens'
  BY <1>1, <1>2 DEF SessionInv, Chains, NewTokens
<1>4. ASSUME NEW s \in Tokens \ disturbed' PROVE Orderly(s)'
  BY <1>1, <1>4, FewerLive DEF SessionInv
<1> QED
  BY <1>0, <1>3, <1>4 DEF SessionInv

(* Statements that change no token. *)
LEMMA SkipSession ==
  ASSUME SessionInv, Inv', NEW p \in Procs, pc[p] \in Starting \cup {"findToken"},
         pc[p] = "findToken" => Usable(req[p].old),
         Continue(p), UNCHANGED <<token, cookie, req, lost, disturbed, ended>>
  PROVE  SessionInv'
<1> USE SessionsAssumption
<1>1. Chains' /\ NewTokens'
  BY DEF SessionInv, Chains, Exists, NewTokens
<1>2. ASSUME NEW s \in Tokens \ disturbed' PROVE Orderly(s)'
  <2>1. Orderly(s)
    BY <1>2 DEF SessionInv
  <2>2. (\A q \in Procs : Busy(q, s)' <=> Busy(q, s)) /\ Live(s)' = Live(s)
    BY DEF Busy, Live, Usable
  <2>3. \A q \in Procs \ {p} : pc'[q] = pc[q]
    BY DEF Continue, Goto, SessionInv, Inv, Types
  <2>4. Busy(p, s) => req[p].old \in Live(s) /\ req[p].new = NoToken
    BY DEF Busy, Live, SessionInv, Inv, Shape, Types, NoReq
  <2>5. Busy(p, s) => s \notin ended
    BY <2>1, <2>4 DEF Orderly, Over
  <2>6. Busy(p, s) => pc[p] = "findToken" /\ pc'[p] \in {"createToken", "revokeToken"}
    <3>1. req[p].op \in Ops
      BY DEF SessionInv, Inv, Shape, Types, NoReq, Starting
    <3> QED
      BY <3>1 DEF Busy, Continue, Goto, After, SessionInv, Inv, Shape, Types, Ops, Starting
  <2> QED
    BY <2>1, <2>2, <2>3, <2>5, <2>6 DEF Orderly, OneAtATime, KnownLive, CookieLive, Over
<1> QED
  BY <1>1, <1>2 DEF SessionInv

LEMMA NextSession == SessionInv /\ [Next]_vars => SessionInv'
<1> SUFFICES ASSUME SessionInv, [Next]_vars PROVE SessionInv'
  OBVIOUS
<1>0. Inv'
  BY NextInv DEF SessionInv
<1>1. ASSUME NEW p \in Procs, Request(p) PROVE SessionInv'
  BY <1>1, RequestSession
<1>2. ASSUME NEW p \in Procs, FindUser(p) \/ CreateUser(p) \/ TouchLastLogin(p) \/ FindToken(p)
      PROVE SessionInv'
  <2>1. CASE FindToken(p) /\ Usable(req[p].old)
    BY <1>0, <2>1, SkipSession DEF FindToken
  <2>2. CASE FindToken(p) /\ ~Usable(req[p].old)
    BY <1>0, <2>2, EndSession DEF FindToken
  <2>3. CASE FindUser(p) \/ CreateUser(p) \/ TouchLastLogin(p)
    <3>1. pc[p] \in Starting /\ pc[p] # "findToken" /\ UNCHANGED <<token, cookie, lost, disturbed, ended>>
      BY <2>3 DEF FindUser, CreateUser, TouchLastLogin, Starting
    <3>2. SessionOf(req[p].old) = {}
      BY <3>1 DEF SessionInv, Inv, Shape, SessionOf
    <3>3. CASE Continue(p) /\ UNCHANGED req
      BY <1>0, <3>1, <3>3, SkipSession
    <3>4. CASE End(p)
      BY <1>0, <3>1, <3>2, <3>4, EndSession
    <3> QED
      BY <2>3, <3>3, <3>4 DEF FindUser, CreateUser, TouchLastLogin
  <2> QED
    BY <1>2, <2>1, <2>2, <2>3
<1>3. ASSUME NEW p \in Procs, NEW t \in Tokens, CreateToken(p, t) PROVE SessionInv'
  BY <1>3, CreateTokenSession
<1>4. ASSUME NEW p \in Procs, RevokeToken(p) PROVE SessionInv'
  BY <1>4, RevokeTokenSession
<1>5. ASSUME NEW p \in Procs, Reply(p) PROVE SessionInv'
  BY <1>5, ReplySession
<1>6. ASSUME NEW p \in Procs, LoseReply(p) \/ Fail(p) PROVE SessionInv'
  BY <1>0, <1>6, EndSession DEF LoseReply, Fail
<1>7. ASSUME NEW t \in Tokens, Expire(t) PROVE SessionInv'
  BY <1>7, ExpireSession
<1>8. CASE UNCHANGED vars
  <2>1. Chains' /\ NewTokens'
    BY <1>8 DEF vars, SessionInv, Chains, Exists, NewTokens
  <2>2. ASSUME NEW s \in Tokens \ disturbed' PROVE Orderly(s)'
    BY <1>8, <2>2, FewerLive DEF vars, SessionInv, Usable
  <2> QED
    BY <1>0, <2>1, <2>2 DEF SessionInv
<1> QED
  BY <1>1, <1>2, <1>3, <1>4, <1>5, <1>6, <1>7, <1>8 DEF Next, Step

(* A logout is final for every session whose requests neither overlapped nor
   failed. *)
THEOREM LogoutIsFinal == Spec => []LogoutFinal
<1>1. SessionInv => LogoutFinal
  BY DEF SessionInv, LogoutFinal, Orderly, Over, Live, Inv, Types
<1> QED
  BY <1>1, InitSession, NextSession, PTL DEF Spec
=============================================================================
