------------------------------ MODULE Catalog ------------------------------
(***************************************************************************)
(* Organisations, their interview types and the Google connection of their *)
(* owners: requests that check first and write later, every statement      *)
(* committed on its own, with the unique indexes and foreign keys of the   *)
(* database behind them.                                                   *)
(*                                                                         *)
(* What the requests do to slots, and the bookings that keep a type from   *)
(* being deleted, are in SlotRegen: here they are among the statements     *)
(* that may fail.  Names, logos and the other fields that no check reads   *)
(* are left out.                                                           *)
(***************************************************************************)
EXTENDS Integers, FiniteSets

CONSTANTS
  Users,      \* recruiters
  Orgs,       \* ids an organization row can get
  Types,      \* ids an interview_type row can get
  OrgSlugs,   \* slugs of organisations
  Slugs,      \* slugs of interview types
  Plans,      \* "free" and others
  Procs,      \* requests that can be in progress at the same time
  Limit,      \* FreeMaxInterviewTypes
  MaxRequests,\* bound on the requests ever made
  NoOrg,
  NoType

ASSUME CatalogAssumption ==
  /\ NoOrg \notin Orgs
  /\ NoType \notin Types
  /\ "free" \in Plans
  /\ Limit \in Nat \ {0}
  /\ MaxRequests \in Nat
  /\ IsFiniteSet(Procs) /\ Procs # {}
  /\ IsFiniteSet(Types)

VARIABLES
  org,        \* organization rows
  type,       \* interview_type rows
  google,     \* users whose google_connected_at is set
  pc, req,    \* the next statement and the local variables of each request
  begun,      \* requests so far
  paid,       \* history: organisations that have been on a paid plan
  linked      \* history: users whose Google account has been connected

vars == <<org, type, google, pc, req, begun, paid, linked>>

(* A row that was deleted is not one that can be inserted: ids are not reused. *)
NoRow == [row |-> "none"]
Gone == [row |-> "gone"]
OrgRows == [row : {"org"}, owner : Users, slug : OrgSlugs, plan : Plans]
TypeRows == [row : {"type"}, org : Orgs, slug : Slugs, meet : BOOLEAN]

NoReq == [op |-> "none", user |-> "none", org |-> NoOrg, type |-> NoType, slug |-> "none", in |-> "none", meet |-> FALSE]

Init ==
  /\ org = [g \in Orgs |-> NoRow]
  /\ type = [t \in Types |-> NoRow]
  /\ google = {}
  /\ pc = [p \in Procs |-> "idle"]
  /\ req = [p \in Procs |-> NoReq]
  /\ begun = 0
  /\ paid = {}
  /\ linked = {}

-----------------------------------------------------------------------------
LiveOrgs == {g \in Orgs : org[g].row = "org"}
LiveTypes == {t \in Types : type[t].row = "type"}

(* GetOrganizationsByOwner *)
OrgsOf(u) == {g \in LiveOrgs : org[g].owner = u}

(* OrganizationExistsBySlug, GetOrganizationBySlug *)
OrgsAt(s) == {g \in LiveOrgs : org[g].slug = s}

(* CountInterviewTypesByOrg *)
TypesOf(g) == {t \in LiveTypes : type[t].org = g}

(* InterviewTypeExistsBySlug, GetInterviewTypeByOrgAndSlug *)
TypesAt(g, s) == {t \in TypesOf(g) : type[t].slug = s}

(* The operators named Mutant... are seeded faults, as in Booking. *)

MutantUnderLimit(count) == count <= Limit

(* enforceInterviewTypeLimit: count >= freePlanMaxTypes is refused. *)
UnderLimit(count) == count < Limit

(* getForOrg *)
OwnedType(t, g) == t \in TypesOf(g)

MutantOwnedOrg(g, u) == g \in LiveOrgs

(* getOrgForOwner *)
OwnedOrg(g, u) == g \in LiveOrgs /\ org[g].owner = u

MutantNeedsGoogle(r) == r.meet /\ r.op = "createType"

(* ensureGoogleConnected tests nothing for the other meeting providers. *)
NeedsGoogle(r) == r.meet

MutantInserted(r) == [row |-> "type", org |-> r.org, slug |-> r.in, meet |-> r.meet]

(* The row CreateInterviewType inserts. *)
Inserted(r) == [row |-> "type", org |-> r.org, slug |-> r.slug, meet |-> r.meet]

Goto(p, label) == pc' = [pc EXCEPT ![p] = label]
Set(p, r) == req' = [req EXCEPT ![p] = r]
End(p) == Goto(p, "idle") /\ Set(p, NoReq)
Begin(p, label, r) ==
  /\ pc[p] = "idle"
  /\ Goto(p, label)
  /\ begun < MaxRequests
  /\ begun' = begun + 1
  /\ Set(p, r)
  /\ UNCHANGED <<org, type, google, paid, linked>>

(* A test that ends the request unless it holds. *)
Check(p, label, holds, next) ==
  /\ pc[p] = label
  /\ IF holds THEN Goto(p, next) /\ UNCHANGED req ELSE End(p)
  /\ UNCHANGED <<org, type, google, begun, paid, linked>>

-----------------------------------------------------------------------------
(* CreateOrg: *)
CreateOrg(p, u, s) == Begin(p, "findOrgOfOwner", [NoReq EXCEPT !.op = "createOrg", !.user = u, !.slug = s])

(* the owner has none, *)
FindOrgOfOwner(p) == Check(p, "findOrgOfOwner", OrgsOf(req[p].user) = {}, "orgSlugFree")

(* the slug is free, *)
OrgSlugFree(p) ==
  Check(p, "orgSlugFree", OrgsAt(req[p].slug) = {}, IF req[p].op = "createOrg" THEN "insertOrg" ELSE "updateOrg")

(* and CreateOrganization, which the unique indexes may still refuse. *)
InsertOrg(p, g) ==
  /\ pc[p] = "insertOrg"
  /\ org[g] = NoRow
  /\ org' = IF OrgsOf(req[p].user) = {} /\ OrgsAt(req[p].slug) = {}
            THEN [org EXCEPT ![g] = [row |-> "org", owner |-> req[p].user, slug |-> req[p].slug, plan |-> "free"]]
            ELSE org
  /\ End(p)
  /\ UNCHANGED <<type, google, begun, paid, linked>>

(* UpdateOrg and DeleteOrg: *)
UpdateOrg(p, u, g, s) ==
  Begin(p, "getOrg", [NoReq EXCEPT !.op = "updateOrg", !.user = u, !.org = g, !.slug = s])

DeleteOrg(p, u, g) == Begin(p, "getOrg", [NoReq EXCEPT !.op = "deleteOrg", !.user = u, !.org = g])

(* the organisation is the user's own, *)
GetOrg(p) ==
  LET r == req[p] IN
  Check(p, "getOrg", OwnedOrg(r.org, r.user),
        IF r.op = "deleteOrg" THEN "deleteOrg"
        ELSE IF r.slug = org[r.org].slug THEN "updateOrg" ELSE "orgSlugFree")

(* UpdateOrganization, *)
UpdateOrganization(p) ==
  LET r == req[p] IN
  /\ pc[p] = "updateOrg"
  /\ org' = IF r.org \in LiveOrgs /\ OrgsAt(r.slug) \subseteq {r.org}
            THEN [org EXCEPT ![r.org].slug = r.slug] ELSE org
  /\ End(p)
  /\ UNCHANGED <<type, google, begun, paid, linked>>

(* or DeleteOrganization, with its interview types and everything else. *)
DeleteOrganization(p) ==
  LET g == req[p].org IN
  /\ pc[p] = "deleteOrg"
  /\ org' = IF g \in LiveOrgs THEN [org EXCEPT ![g] = Gone] ELSE org
  /\ type' = [t \in Types |-> IF t \in TypesOf(g) THEN Gone ELSE type[t]]
  /\ End(p)
  /\ UNCHANGED <<google, begun, paid, linked>>

(* The administrator sets a plan; what there is beyond it stays. *)
UpdatePlan(g, plan) ==
  /\ g \in LiveOrgs
  /\ org' = [org EXCEPT ![g].plan = plan]
  /\ paid' = IF plan = "free" THEN paid ELSE paid \cup {g}
  /\ UNCHANGED <<type, google, pc, req, begun, linked>>

-----------------------------------------------------------------------------
(* Create, Update and Delete of an interview type: *)
CreateType(p, u, s, m) ==
  Begin(p, "ownOrg", [NoReq EXCEPT !.op = "createType", !.user = u, !.slug = s, !.meet = m])

UpdateType(p, u, t, s, m) ==
  Begin(p, "ownOrg", [NoReq EXCEPT !.op = "updateType", !.user = u, !.type = t, !.slug = s, !.meet = m])

DeleteType(p, u, t) == Begin(p, "ownOrg", [NoReq EXCEPT !.op = "deleteType", !.user = u, !.type = t])

(* the organisation of the user, with its plan, *)
GetByOwner(p) ==
  /\ pc[p] = "ownOrg"
  /\ \/ OrgsOf(req[p].user) = {} /\ End(p)
     \/ \E g \in OrgsOf(req[p].user) :
          /\ Set(p, [req[p] EXCEPT !.org = g])
          /\ Goto(p, IF req[p].op # "createType" THEN "getType"
                     ELSE IF org[g].plan = "free" THEN "countTypes" ELSE "google")
  /\ UNCHANGED <<org, type, google, begun, paid, linked>>

(* the limit of the free plan, when one is created, *)
CountTypes(p) ==
  Check(p, "countTypes", UnderLimit(Cardinality(TypesOf(req[p].org))), "google")

(* the type and its slug, when one is changed or deleted, *)
GetType(p) ==
  LET r == req[p] IN
  /\ pc[p] = "getType"
  /\ IF OwnedType(r.type, r.org)
     THEN /\ Goto(p, IF r.op = "deleteType" THEN "deleteType" ELSE "google")
          /\ Set(p, [r EXCEPT !.in = type[r.type].slug])
     ELSE End(p)
  /\ UNCHANGED <<org, type, google, begun, paid, linked>>

(* the Google account, for a type on Google Meet, *)
EnsureGoogleConnected(p) ==
  LET r == req[p] IN
  Check(p, "google", NeedsGoogle(r) => r.user \in google,
        IF r.op = "createType" THEN "typeSlugFree"
        ELSE IF r.slug = r.in THEN "updateType" ELSE "typeSlugFree")

(* that no other type has the slug, *)
TypeSlugFree(p) ==
  LET r == req[p] IN
  Check(p, "typeSlugFree", TypesAt(r.org, r.slug) \subseteq {r.type},
        IF r.op = "createType" THEN "insertType" ELSE "updateType")

(* and CreateInterviewType, which the unique index or the foreign key may still
   refuse, *)
InsertType(p, t) ==
  LET r == req[p] IN
  /\ pc[p] = "insertType"
  /\ type[t] = NoRow
  /\ type' = IF r.org \in LiveOrgs /\ TypesAt(r.org, r.slug) = {}
             THEN [type EXCEPT ![t] = Inserted(r)] ELSE type
  /\ End(p)
  /\ UNCHANGED <<org, google, begun, paid, linked>>

(* UpdateInterviewType *)
UpdateInterviewType(p) ==
  LET r == req[p] IN
  /\ pc[p] = "updateType"
  /\ type' = IF r.type \in LiveTypes /\ TypesAt(type[r.type].org, r.slug) \subseteq {r.type}
             THEN [type EXCEPT ![r.type].slug = r.slug, ![r.type].meet = r.meet] ELSE type
  /\ End(p)
  /\ UNCHANGED <<org, google, begun, paid, linked>>

(* or DeleteInterviewType. *)
DeleteInterviewType(p) ==
  LET t == req[p].type IN
  /\ pc[p] = "deleteType"
  /\ type' = IF t \in LiveTypes THEN [type EXCEPT ![t] = Gone] ELSE type
  /\ End(p)
  /\ UNCHANGED <<org, google, begun, paid, linked>>

-----------------------------------------------------------------------------
(* ResolveType, for the public pages: the organisation at a slug, and then its
   type at another. *)
Resolve(p, s, ts) == Begin(p, "resolveOrg", [NoReq EXCEPT !.op = "resolve", !.slug = ts, !.in = s])

GetBySlug(p) ==
  /\ pc[p] = "resolveOrg"
  /\ \/ OrgsAt(req[p].in) = {} /\ End(p)
     \/ \E g \in OrgsAt(req[p].in) : Set(p, [req[p] EXCEPT !.org = g]) /\ Goto(p, "resolveType")
  /\ UNCHANGED <<org, type, google, begun, paid, linked>>

GetTypeBySlug(p) ==
  /\ pc[p] = "resolveType"
  /\ \/ TypesAt(req[p].org, req[p].slug) = {} /\ End(p)
     \/ \E t \in TypesAt(req[p].org, req[p].slug) : Set(p, [req[p] EXCEPT !.type = t]) /\ Goto(p, "resolved")
  /\ UNCHANGED <<org, type, google, begun, paid, linked>>

(* The answer. *)
Resolved(p) ==
  /\ pc[p] = "resolved"
  /\ End(p)
  /\ UNCHANGED <<org, type, google, begun, paid, linked>>

-----------------------------------------------------------------------------
(* HandleCallback, up to verifyState: the user asked for the login less than
   stateTTL ago, and may present the state any number of times. *)
HandleCallback(p, u) == Begin(p, "setConnection", [NoReq EXCEPT !.op = "callback", !.user = u])

(* SetUserGoogleConnection, after the exchange of the code. *)
SetConnection(p) ==
  /\ pc[p] = "setConnection"
  /\ google' = google \cup {req[p].user}
  /\ linked' = linked \cup {req[p].user}
  /\ End(p)
  /\ UNCHANGED <<org, type, begun, paid>>

(* ClearUserGoogleConnection: the types on Google Meet stay. *)
Disconnect(u) ==
  /\ google' = google \ {u}
  /\ UNCHANGED <<org, type, pc, req, begun, paid, linked>>

(* A statement or a call fails, or the process dies. *)
Fail(p) ==
  /\ pc[p] # "idle"
  /\ End(p)
  /\ UNCHANGED <<org, type, google, begun, paid, linked>>

Request(p) ==
  \/ \E u \in Users, s \in OrgSlugs : CreateOrg(p, u, s)
  \/ \E u \in Users, g \in Orgs : DeleteOrg(p, u, g) \/ \E s \in OrgSlugs : UpdateOrg(p, u, g, s)
  \/ \E u \in Users, s \in Slugs, m \in BOOLEAN :
       CreateType(p, u, s, m) \/ \E t \in Types : UpdateType(p, u, t, s, m)
  \/ \E u \in Users, t \in Types : DeleteType(p, u, t)
  \/ \E s \in OrgSlugs, ts \in Slugs : Resolve(p, s, ts)
  \/ \E u \in Users : HandleCallback(p, u)

Step(p) ==
  \/ FindOrgOfOwner(p) \/ OrgSlugFree(p) \/ (\E g \in Orgs : InsertOrg(p, g))
  \/ GetOrg(p) \/ UpdateOrganization(p) \/ DeleteOrganization(p)
  \/ GetByOwner(p) \/ CountTypes(p) \/ GetType(p) \/ EnsureGoogleConnected(p) \/ TypeSlugFree(p)
  \/ (\E t \in Types : InsertType(p, t)) \/ UpdateInterviewType(p) \/ DeleteInterviewType(p)
  \/ GetBySlug(p) \/ GetTypeBySlug(p) \/ Resolved(p)
  \/ SetConnection(p) \/ Fail(p)

Next ==
  \/ \E p \in Procs : Request(p) \/ Step(p)
  \/ \E g \in Orgs, plan \in Plans : UpdatePlan(g, plan)
  \/ \E u \in Users : Disconnect(u)

Spec == Init /\ [][Next]_vars

-----------------------------------------------------------------------------
Labels == {"idle", "findOrgOfOwner", "orgSlugFree", "insertOrg", "getOrg", "updateOrg", "deleteOrg", "ownOrg",
           "countTypes", "getType", "google", "typeSlugFree", "insertType", "updateType", "deleteType",
           "resolveOrg", "resolveType", "resolved", "setConnection"}

Ops == {"none", "createOrg", "updateOrg", "deleteOrg", "createType", "updateType", "deleteType", "resolve", "callback"}

Reqs == [op : Ops, user : Users \cup {"none"}, org : Orgs \cup {NoOrg}, type : Types \cup {NoType},
         slug : OrgSlugs \cup Slugs \cup {"none"}, in : OrgSlugs \cup Slugs \cup {"none"}, meet : BOOLEAN]

(* The types of the variables. *)
TypeOK ==
  /\ org \in [Orgs -> {NoRow, Gone} \cup OrgRows]
  /\ type \in [Types -> {NoRow, Gone} \cup TypeRows]
  /\ google \subseteq linked
  /\ linked \subseteq Users
  /\ pc \in [Procs -> Labels]
  /\ req \in [Procs -> Reqs]
  /\ begun \in 0..MaxRequests
  /\ paid \subseteq Orgs

(* Only the owner of an organisation changes or deletes it and its interview
   types, although the statements that write name the row alone and the tests
   ran in statements before; a plan is changed by the administrator. *)
Writer(p, u) == pc[p] \in {"updateOrg", "deleteOrg", "updateType", "deleteType"} /\ pc'[p] = "idle" /\ req[p].user = u

OnlyOwnerWrites ==
  [][/\ \A g \in LiveOrgs :
          org'[g].row # "org" \/ org'[g].slug # org[g].slug => \E p \in Procs : Writer(p, org[g].owner)
     /\ \A t \in LiveTypes :
          type'[t] # type[t] => \E p \in Procs : Writer(p, org[type[t].org].owner)]_vars

(* The limit of the free plan is tested before the insert, so that requests
   that overlap can exceed it, but by no more than their number less one:
   an organisation that never had a paid plan stays within this bound however
   many types are created, deleted and created again. *)
TypesBounded ==
  \A g \in LiveOrgs \ paid : Cardinality(TypesOf(g)) <= Limit - 1 + Cardinality(Procs)

(* A type is on Google Meet only for an owner who has connected an account at
   some time, whichever requests overlap. *)
MeetTypesLinked ==
  \A t \in LiveTypes : type[t].meet => org[type[t].org].owner \in linked
=============================================================================
