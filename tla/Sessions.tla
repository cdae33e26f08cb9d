------------------------------ MODULE Sessions ------------------------------
(***************************************************************************)
(* The sessions of browsers: Register, Login, Refresh and Logout, each as  *)
(* the statements it runs, every one of them committed on its own.  A      *)
(* browser keeps one refresh token in its cookie, sends it with several    *)
(* requests at once, and gets the answers in any order or not at all.      *)
(*                                                                         *)
(* Passwords are right, since a wrong one only ends the request.  Access   *)
(* tokens are not kept anywhere and are left out.                          *)
(***************************************************************************)
EXTENDS Naturals, FiniteSets

CONSTANTS
  Users,     \* e-mail addresses
  Clients,   \* browsers
  Procs,     \* requests that can be in progress at the same time
  Tokens,    \* ids a refresh_tokens row can get
  NoToken

ASSUME SessionsAssumption == NoToken \notin Tokens

VARIABLES
  account,   \* users that have a row
  token,     \* refresh_tokens rows
  cookie,    \* the refresh token each browser holds
  pc, req,   \* the next statement and the local variables of each request
  lost,      \* history: browsers that lost the answer to a completed request
  disturbed, \* history: sessions with a request that failed or that overlapped another
  ended      \* history: sessions whose logout was answered

vars == <<account, token, cookie, pc, req, lost, disturbed, ended>>

(* The session of a token is the first token of its chain of rotations. *)
NoRow == [status |-> "none", client |-> "none", session |-> NoToken]
NoReq == [op |-> "none", client |-> "none", user |-> "none", old |-> NoToken, new |-> NoToken]

Init ==
  /\ account = {}
  /\ token = [t \in Tokens |-> NoRow]
  /\ cookie = [c \in Clients |-> NoToken]
  /\ pc = [p \in Procs |-> "idle"]
  /\ req = [p \in Procs |-> NoReq]
  /\ lost = {}
  /\ disturbed = {}
  /\ ended = {}

-----------------------------------------------------------------------------
(* The operators named Mutant... are seeded faults, as in Booking. *)

MutantAfter(op, label) ==
  CASE label = "findToken" -> "revokeToken"
    [] label = "revokeToken" /\ op = "refresh" -> "createToken"
    [] label = "findUser" -> IF op = "register" THEN "createUser" ELSE "touchLastLogin"
    [] label \in {"createUser", "touchLastLogin"} -> "createToken"
    [] OTHER -> "reply"

MutantNoRevoke(op, label) ==
  CASE label = "findToken" -> IF op = "refresh" THEN "createToken" ELSE "revokeToken"
    [] label = "findUser" -> IF op = "register" THEN "createUser" ELSE "touchLastLogin"
    [] label \in {"createUser", "touchLastLogin"} -> "createToken"
    [] OTHER -> "reply"

MutantNoToken(op, label) ==
  CASE label = "findToken" -> IF op = "refresh" THEN "createToken" ELSE "revokeToken"
    [] label = "createToken" /\ op = "refresh" -> "revokeToken"
    [] label = "findUser" -> IF op = "register" THEN "createUser" ELSE "touchLastLogin"
    [] label = "createUser" -> "createToken"
    [] OTHER -> "reply"

(* The order of the statements: Refresh creates the new token before it
   revokes the old one. *)
After(op, label) ==
  CASE label = "findToken" -> IF op = "refresh" THEN "createToken" ELSE "revokeToken"
    [] label = "createToken" /\ op = "refresh" -> "revokeToken"
    [] label = "findUser" -> IF op = "register" THEN "createUser" ELSE "touchLastLogin"
    [] label \in {"createUser", "touchLastLogin"} -> "createToken"
    [] OTHER -> "reply"

(* GetRefreshTokenByHash: revoked_at IS NULL AND expires_at > now(). *)
Usable(t) == token[t].status = "live"

(* The row that CreateRefreshToken inserts: a token that replaces none begins
   a session. *)
Created(r, t) ==
  [status |-> "live", client |-> r.client,
   session |-> IF r.old = NoToken THEN t ELSE token[r.old].session]

SessionOf(t) == IF t = NoToken THEN {} ELSE {token[t].session}
Goto(p, label) == pc' = [pc EXCEPT ![p] = label]
Continue(p) == Goto(p, After(req[p].op, pc[p]))
End(p) == Goto(p, "idle") /\ req' = [req EXCEPT ![p] = NoReq]

(* Requests of one session that overlap disturb it. *)
Begin(p, label, r) ==
  /\ pc[p] = "idle"
  /\ Goto(p, label)
  /\ req' = [req EXCEPT ![p] = r]
  /\ disturbed' = disturbed \cup
       UNION {SessionOf(r.old) \cap SessionOf(req[q].old) : q \in {q \in Procs : pc[q] # "idle"}}
  /\ UNCHANGED <<account, token, cookie, lost, ended>>

-----------------------------------------------------------------------------
Register(p, c, u) == Begin(p, "findUser", [NoReq EXCEPT !.op = "register", !.client = c, !.user = u])

Login(p, c, u) == Begin(p, "findUser", [NoReq EXCEPT !.op = "login", !.client = c, !.user = u])

(* The handlers refuse a request without a cookie. *)
Refresh(p, c) ==
  /\ cookie[c] # NoToken
  /\ Begin(p, "findToken", [NoReq EXCEPT !.op = "refresh", !.client = c, !.old = cookie[c]])

Logout(p, c) ==
  /\ cookie[c] # NoToken
  /\ Begin(p, "findToken", [NoReq EXCEPT !.op = "logout", !.client = c, !.old = cookie[c]])

(* GetUserByEmail: Register goes on without a row, Login with one. *)
FindUser(p) ==
  /\ pc[p] = "findUser"
  /\ IF (req[p].user \in account) = (req[p].op = "login")
     THEN Continue(p) /\ UNCHANGED req
     ELSE End(p)
  /\ UNCHANGED <<account, token, cookie, lost, disturbed, ended>>

(* CreateUser: the address may have been taken since. *)
CreateUser(p) ==
  /\ pc[p] = "createUser"
  /\ IF req[p].user \in account
     THEN End(p) /\ UNCHANGED account
     ELSE account' = account \cup {req[p].user} /\ Continue(p) /\ UNCHANGED req
  /\ UNCHANGED <<token, cookie, lost, disturbed, ended>>

(* TouchLastLogin, whose column nothing reads. *)
TouchLastLogin(p) ==
  /\ pc[p] = "touchLastLogin"
  /\ Continue(p)
  /\ UNCHANGED <<account, token, cookie, req, lost, disturbed, ended>>

(* GetRefreshTokenByHash *)
FindToken(p) ==
  /\ pc[p] = "findToken"
  /\ IF Usable(req[p].old) THEN Continue(p) /\ UNCHANGED req ELSE End(p)
  /\ UNCHANGED <<account, token, cookie, lost, disturbed, ended>>

(* CreateRefreshToken *)
CreateToken(p, t) ==
  /\ pc[p] = "createToken"
  /\ token[t] = NoRow
  /\ token' = [token EXCEPT ![t] = Created(req[p], t)]
  /\ req' = [req EXCEPT ![p].new = t]
  /\ Continue(p)
  /\ UNCHANGED <<account, cookie, lost, disturbed, ended>>

(* RevokeRefreshToken, by id: whatever has happened to the token since. *)
RevokeToken(p) ==
  /\ pc[p] = "revokeToken"
  /\ token' = [token EXCEPT ![req[p].old].status = "revoked"]
  /\ Continue(p)
  /\ UNCHANGED <<account, cookie, req, lost, disturbed, ended>>

(* The answer reaches the browser, with the cookie that it sets or clears. *)
Reply(p) ==
  /\ pc[p] = "reply"
  /\ cookie' = [cookie EXCEPT ![req[p].client] = req[p].new]
  /\ ended' = IF req[p].op = "logout" THEN ended \cup SessionOf(req[p].old) ELSE ended
  /\ End(p)
  /\ UNCHANGED <<account, token, lost, disturbed>>

(* The answer is lost, or the process dies before it is sent. *)
LoseReply(p) ==
  /\ pc[p] = "reply"
  /\ lost' = lost \cup {req[p].client}
  /\ disturbed' = disturbed \cup SessionOf(req[p].old)
  /\ End(p)
  /\ UNCHANGED <<account, token, cookie, ended>>

(* A statement fails, or the process dies before it. *)
Fail(p) ==
  /\ pc[p] \notin {"idle", "reply"}
  /\ disturbed' = disturbed \cup SessionOf(req[p].old)
  /\ End(p)
  /\ UNCHANGED <<account, token, cookie, lost, ended>>

(* expires_at passes. *)
Expire(t) ==
  /\ token[t].status = "live"
  /\ token' = [token EXCEPT ![t].status = "expired"]
  /\ UNCHANGED <<account, cookie, pc, req, lost, disturbed, ended>>

Request(p) ==
  \E c \in Clients :
    \/ \E u \in Users : Register(p, c, u) \/ Login(p, c, u)
    \/ Refresh(p, c) \/ Logout(p, c)

Step(p) ==
  \/ FindUser(p) \/ CreateUser(p) \/ TouchLastLogin(p)
  \/ FindToken(p) \/ (\E t \in Tokens : CreateToken(p, t)) \/ RevokeToken(p)
  \/ Reply(p) \/ LoseReply(p) \/ Fail(p)

Next ==
  \/ \E p \in Procs : Request(p) \/ Step(p)
  \/ \E t \in Tokens : Expire(t)

Spec == Init /\ [][Next]_vars

-----------------------------------------------------------------------------
Ops == {"register", "login", "refresh", "logout"}
Labels == {"idle", "findUser", "createUser", "touchLastLogin", "findToken", "createToken", "revokeToken", "reply"}

(* The values of the variables. *)
Types ==
  /\ account \subseteq Users
  /\ token \in [Tokens -> {NoRow} \cup
       [status : {"live", "revoked", "expired"}, client : Clients, session : Tokens]]
  /\ cookie \in [Clients -> Tokens \cup {NoToken}]
  /\ pc \in [Procs -> Labels]
  /\ req \in [Procs -> {NoReq} \cup
       [op : Ops, client : Clients, user : Users \cup {"none"},
        old : Tokens \cup {NoToken}, new : Tokens \cup {NoToken}]]
  /\ lost \subseteq Clients
  /\ disturbed \subseteq Tokens
  /\ ended \subseteq Tokens

(* The types of the variables, and the tokens a request holds: the old one from
   its cookie if it is a refresh or a logout, and a new one, unless it is a
   logout, by the time it revokes the old one or answers. *)
TypeOK ==
  /\ Types
  /\ \A p \in Procs :
       /\ req[p].old # NoToken <=> req[p].op \in {"refresh", "logout"}
       /\ req[p].new # NoToken <=> req[p].op # "logout" /\ pc[p] \in {"revokeToken", "reply"}

(* The token a request has revoked and will replace, or clear, in its answer. *)
Replacing(c, t) == \E p \in Procs : pc[p] = "reply" /\ req[p].client = c /\ req[p].old = t

(* No browser is locked out by a refresh: the token in its cookie is only
   revoked when the answer that replaces it is on its way or was lost, however
   many refreshes and logouts run at once and wherever they fail. *)
NoLockout ==
  \A c \in Clients :
    cookie[c] # NoToken /\ token[cookie[c]].status = "revoked" => c \in lost \/ Replacing(c, cookie[c])

(* A logout is final for a session whose requests never overlapped or failed:
   none of the tokens of its rotations is accepted any more. *)
LogoutFinal ==
  \A t \in Tokens : token[t].session \in ended \ disturbed => ~Usable(t)
=============================================================================
