---------------------------- MODULE CatalogProofs ----------------------------
(***************************************************************************)
(* Proofs about Catalog, for any numbers of recruiters, organisations,     *)
(* types and requests.  Every request is tied to what its tests found and  *)
(* what cannot change since: ids are not reused, owners do not change and  *)
(* types do not move.                                                      *)
(***************************************************************************)
EXTENDS Catalog, TLAPS, FiniteSetTheorems

(* The statements of each operation and the inputs it holds. *)
Shape(p) == LET r == req[p] IN
  /\ r.op = "none" => pc[p] = "idle"
  /\ r.op = "createOrg" => pc[p] \in {"findOrgOfOwner", "orgSlugFree", "insertOrg"}
  /\ r.op = "updateOrg" => pc[p] \in {"getOrg", "orgSlugFree", "updateOrg"}
  /\ r.op = "deleteOrg" => pc[p] \in {"getOrg", "deleteOrg"}
  /\ r.op = "createType" => pc[p] \in {"ownOrg", "countTypes", "google", "typeSlugFree", "insertType"}
  /\ r.op = "updateType" => pc[p] \in {"ownOrg", "getType", "google", "typeSlugFree", "updateType"}
  /\ r.op = "deleteType" => pc[p] \in {"ownOrg", "getType", "deleteType"}
  /\ r.op = "resolve" => pc[p] \in {"resolveOrg", "resolveType", "resolved"}
  /\ r.op = "callback" => pc[p] = "setConnection"
  /\ r.op \notin {"none", "resolve"} => r.user \in Users
  /\ r.op \in {"createOrg", "updateOrg"} => r.slug \in OrgSlugs
  /\ r.op \in {"createType", "updateType"} => r.slug \in Slugs
  /\ r.op \in {"updateOrg", "deleteOrg"} => r.org \in Orgs
  /\ r.op \in {"updateType", "deleteType"} => r.type \in Types

(* The organisation was the user's, and is his as long as it is there. *)
OrgOfUser(r) ==
  /\ r.org \in Orgs
  /\ org[r.org] # NoRow
  /\ r.org \in LiveOrgs => org[r.org].owner = r.user

TypeOfOrg(r) ==
  /\ r.type \in Types
  /\ type[r.type] # NoRow
  /\ r.type \in LiveTypes => type[r.type].org = r.org

(* What the tests of a request have found. *)
Found(p) == LET r == req[p] IN
  /\ pc[p] \in {"updateOrg", "deleteOrg", "countTypes", "getType", "google", "typeSlugFree",
                "insertType", "updateType", "deleteType"} => OrgOfUser(r)
  /\ pc[p] = "orgSlugFree" /\ r.op = "updateOrg" => OrgOfUser(r)
  /\ pc[p] \in {"google", "typeSlugFree"} /\ r.op = "updateType" => TypeOfOrg(r)
  /\ pc[p] \in {"updateType", "deleteType"} => TypeOfOrg(r)
  /\ pc[p] \in {"typeSlugFree", "insertType", "updateType"} /\ r.meet => r.user \in linked

Good(p) == Shape(p) /\ Found(p)

TypesHaveOrg == \A t \in LiveTypes : type[t].org \in LiveOrgs

Inv ==
  /\ TypeOK
  /\ \A p \in Procs : Good(p)
  /\ TypesHaveOrg
  /\ MeetTypesLinked

(* Rows age: what a request has found stays true of them. *)
Older ==
  /\ \A g \in Orgs : org[g] # NoRow =>
       org'[g] # NoRow /\ (g \in LiveOrgs' => g \in LiveOrgs /\ org'[g].owner = org[g].owner)
  /\ \A t \in Types : type[t] # NoRow =>
       type'[t] # NoRow /\ (t \in LiveTypes' => t \in LiveTypes /\ type'[t].org = type[t].org)
  /\ linked \subseteq linked'

-----------------------------------------------------------------------------
LEMMA InitInv == Init => Inv
  BY CatalogAssumption
  DEF Init, Inv, TypeOK, Labels, Reqs, Ops, NoReq, Good, Shape, Found, TypesHaveOrg, MeetTypesLinked,
      LiveTypes, NoRow

LEMMA NoReqType == NoReq \in Reqs
  BY DEF NoReq, Reqs, Ops

(* The other requests are as good as before. *)
LEMMA OthersGood ==
  ASSUME NEW q \in Procs, Good(q), Older, req'[q] = req[q], pc'[q] = pc[q]
  PROVE  Good(q)'
<1>1. Shape(q)'
  BY DEF Good, Shape
<1>2. OrgOfUser(req[q]) => OrgOfUser(req[q])'
  BY DEF OrgOfUser, Older
<1>3. TypeOfOrg(req[q]) => TypeOfOrg(req[q])'
  BY DEF TypeOfOrg, Older
<1>4. Found(q)'
  BY <1>2, <1>3 DEF Good, Found, OrgOfUser, TypeOfOrg, Older
<1> QED
  BY <1>1, <1>4 DEF Good

(* A request goes on or ends while no row changes. *)
LEMMA LocalStep ==
  ASSUME Inv, NEW p \in Procs, NEW label \in Labels, NEW r \in Reqs,
         Goto(p, label), Set(p, r), Good(p)',
         UNCHANGED <<org, type, google, paid, linked>>, begun' \in 0..MaxRequests
  PROVE  Inv'
<1>1. TypeOK'
  BY DEF Inv, TypeOK, Goto, Set
<1>2. Older
  BY DEF Older, LiveOrgs, LiveTypes
<1>3. ASSUME NEW q \in Procs PROVE Good(q)'
  <2>1. CASE q = p
    BY <2>1
  <2>2. CASE q # p
    BY <1>2, <2>2, OthersGood DEF Goto, Set, Inv, TypeOK
  <2> QED
    BY <2>1, <2>2
<1>4. TypesHaveOrg' /\ MeetTypesLinked'
  BY DEF Inv, TypesHaveOrg, MeetTypesLinked, LiveOrgs, LiveTypes
<1> QED
  BY <1>1, <1>3, <1>4 DEF Inv

LEMMA EndGood ==
  ASSUME NEW p \in Procs, TypeOK, End(p)
  PROVE  Good(p)' /\ pc' \in [Procs -> Labels] /\ req' \in [Procs -> Reqs]
         /\ \A q \in Procs \ {p} : req'[q] = req[q] /\ pc'[q] = pc[q]
<1>1. pc' = [pc EXCEPT ![p] = "idle"] /\ req' = [req EXCEPT ![p] = NoReq]
  BY DEF End, Goto, Set
<1>2. pc'[p] = "idle" /\ req'[p] = NoReq
  BY <1>1 DEF TypeOK
<1> QED
  BY <1>1, <1>2, NoReqType DEF TypeOK, Labels, Good, Shape, Found, NoReq

LEMMA EndStep ==
  ASSUME Inv, NEW p \in Procs, End(p), UNCHANGED <<org, type, google, begun, paid, linked>>
  PROVE  Inv'
<1>1. Good(p)'
  BY EndGood DEF Inv
<1> QED
  BY <1>1, LocalStep, NoReqType DEF End, Inv, TypeOK, Labels

(* A test passes. *)
LEMMA PassStep ==
  ASSUME Inv, NEW p \in Procs, NEW label, NEW holds, NEW next \in Labels, Check(p, label, holds, next),
         holds => Shape(p)' /\ Found(p)'
  PROVE  Inv'
<1>1. CASE holds
  BY <1>1, LocalStep DEF Check, Good, Set, Inv, TypeOK
<1>2. CASE ~holds
  BY <1>2, EndStep DEF Check
<1> QED
  BY <1>1, <1>2

(* A request writes and ends. *)
LEMMA WriteStep ==
  ASSUME Inv, NEW p \in Procs, End(p), Older, TypesHaveOrg', MeetTypesLinked',
         org' \in [Orgs -> {NoRow, Gone} \cup OrgRows],
         type' \in [Types -> {NoRow, Gone} \cup TypeRows],
         google' \subseteq linked', linked' \subseteq Users, begun' = begun, paid' = paid
  PROVE  Inv'
<1>1. Good(p)' /\ pc' \in [Procs -> Labels] /\ req' \in [Procs -> Reqs]
  BY EndGood DEF Inv
<1>2. ASSUME NEW q \in Procs PROVE Good(q)'
  <2>1. CASE q = p
    BY <1>1, <2>1
  <2>2. CASE q # p
    BY <2>2, EndGood, OthersGood DEF Inv
  <2> QED
    BY <2>1, <2>2
<1>3. TypeOK'
  BY <1>1 DEF Inv, TypeOK
<1> QED
  BY <1>2, <1>3 DEF Inv

(* Beginning a request. *)
LEMMA BeginStep ==
  ASSUME Inv, NEW p \in Procs, NEW label \in Labels, NEW r \in Reqs, Begin(p, label, r), Shape(p)',
         label \in {"findOrgOfOwner", "getOrg", "ownOrg", "resolveOrg", "setConnection"}
  PROVE  Inv'
<1>1. pc'[p] = label
  BY DEF Begin, Goto, Inv, TypeOK
<1>2. Good(p)'
  BY <1>1 DEF Good, Found
<1>3. begun' \in 0..MaxRequests
  BY CatalogAssumption DEF Begin, Inv, TypeOK
<1> QED
  BY <1>2, <1>3, LocalStep DEF Begin

LEMMA RequestStep ==
  ASSUME Inv, NEW p \in Procs, Request(p)
  PROVE  Inv'
<1> USE DEF NoReq, Reqs, Ops, Labels
<1>1. ASSUME NEW u \in Users, NEW s \in OrgSlugs, CreateOrg(p, u, s) PROVE Inv'
  <2> DEFINE r == [NoReq EXCEPT !.op = "createOrg", !.user = u, !.slug = s]
  <2>1. Begin(p, "findOrgOfOwner", r) /\ r \in Reqs
    BY <1>1 DEF CreateOrg
  <2>2. Shape(p)'
    BY <2>1 DEF Begin, Goto, Set, Shape, Inv, TypeOK
  <2> HIDE DEF r, NoReq, Reqs, Ops
  <2> QED
    BY <2>1, <2>2, BeginStep
<1>2. ASSUME NEW u \in Users, NEW g \in Orgs, NEW s \in OrgSlugs, UpdateOrg(p, u, g, s) PROVE Inv'
  <2> DEFINE r == [NoReq EXCEPT !.op = "updateOrg", !.user = u, !.org = g, !.slug = s]
  <2>1. Begin(p, "getOrg", r) /\ r \in Reqs
    BY <1>2 DEF UpdateOrg
  <2>2. Shape(p)'
    BY <2>1 DEF Begin, Goto, Set, Shape, Inv, TypeOK
  <2> HIDE DEF r, NoReq, Reqs, Ops
  <2> QED
    BY <2>1, <2>2, BeginStep
<1>3. ASSUME NEW u \in Users, NEW g \in Orgs, DeleteOrg(p, u, g) PROVE Inv'
  <2> DEFINE r == [NoReq EXCEPT !.op = "deleteOrg", !.user = u, !.org = g]
  <2>1. Begin(p, "getOrg", r) /\ r \in Reqs
    BY <1>3 DEF DeleteOrg
  <2>2. Shape(p)'
    BY <2>1 DEF Begin, Goto, Set, Shape, Inv, TypeOK
  <2> HIDE DEF r, NoReq, Reqs, Ops
  <2> QED
    BY <2>1, <2>2, BeginStep
<1>4. ASSUME NEW u \in Users, NEW s \in Slugs, NEW m \in BOOLEAN, CreateType(p, u, s, m) PROVE Inv'
  <2> DEFINE r == [NoReq EXCEPT !.op = "createType", !.user = u, !.slug = s, !.meet = m]
  <2>1. Begin(p, "ownOrg", r) /\ r \in Reqs
    BY <1>4 DEF CreateType
  <2>2. Shape(p)'
    BY <2>1 DEF Begin, Goto, Set, Shape, Inv, TypeOK
  <2> HIDE DEF r, NoReq, Reqs, Ops
  <2> QED
    BY <2>1, <2>2, BeginStep
<1>5. ASSUME NEW u \in Users, NEW t \in Types, NEW s \in Slugs, NEW m \in BOOLEAN, UpdateType(p, u, t, s, m)
      PROVE Inv'
  <2> DEFINE r == [NoReq EXCEPT !.op = "updateType", !.user = u, !.type = t, !.slug = s, !.meet = m]
  <2>1. Begin(p, "ownOrg", r) /\ r \in Reqs
    BY <1>5 DEF UpdateType
  <2>2. Shape(p)'
    BY <2>1 DEF Begin, Goto, Set, Shape, Inv, TypeOK
  <2> HIDE DEF r, NoReq, Reqs, Ops
  <2> QED
    BY <2>1, <2>2, BeginStep
<1>6. ASSUME NEW u \in Users, NEW t \in Types, DeleteType(p, u, t) PROVE Inv'
  <2> DEFINE r == [NoReq EXCEPT !.op = "deleteType", !.user = u, !.type = t]
  <2>1. Begin(p, "ownOrg", r) /\ r \in Reqs
    BY <1>6 DEF DeleteType
  <2>2. Shape(p)'
    BY <2>1 DEF Begin, Goto, Set, Shape, Inv, TypeOK
  <2> HIDE DEF r, NoReq, Reqs, Ops
  <2> QED
    BY <2>1, <2>2, BeginStep
<1>7. ASSUME NEW s \in OrgSlugs, NEW ts \in Slugs, Resolve(p, s, ts) PROVE Inv'
  <2> DEFINE r == [NoReq EXCEPT !.op = "resolve", !.slug = ts, !.in = s]
  <2>1. Begin(p, "resolveOrg", r) /\ r \in Reqs
    BY <1>7 DEF Resolve
  <2>2. Shape(p)'
    BY <2>1 DEF Begin, Goto, Set, Shape, Inv, TypeOK
  <2> HIDE DEF r, NoReq, Reqs, Ops
  <2> QED
    BY <2>1, <2>2, BeginStep
<1>8. ASSUME NEW u \in Users, HandleCallback(p, u) PROVE Inv'
  <2> DEFINE r == [NoReq EXCEPT !.op = "callback", !.user = u]
  <2>1. Begin(p, "setConnection", r) /\ r \in Reqs
    BY <1>8 DEF HandleCallback
  <2>2. Shape(p)'
    BY <2>1 DEF Begin, Goto, Set, Shape, Inv, TypeOK
  <2> HIDE DEF r, NoReq, Reqs, Ops
  <2> QED
    BY <2>1, <2>2, BeginStep
<1> QED
  BY <1>1, <1>2, <1>3, <1>4, <1>5, <1>6, <1>7, <1>8 DEF Request

(* The tests. *)
LEMMA CheckStep ==
  ASSUME Inv, NEW p \in Procs,
         FindOrgOfOwner(p) \/ OrgSlugFree(p) \/ GetOrg(p) \/ CountTypes(p)
           \/ EnsureGoogleConnected(p) \/ TypeSlugFree(p)
  PROVE  Inv'
<1> DEFINE r == req[p]
<1>0. Good(p)
  BY DEF Inv
<1>1. CASE FindOrgOfOwner(p)
  <2>1. OrgsOf(r.user) = {} => Shape(p)' /\ Found(p)'
    BY <1>0, <1>1 DEF FindOrgOfOwner, Check, Goto, Inv, TypeOK, Good, Shape, Found
  <2> QED
    BY <1>1, <2>1, PassStep DEF FindOrgOfOwner, Labels
<1>2. CASE OrgSlugFree(p)
  <2> DEFINE next == IF r.op = "createOrg" THEN "insertOrg" ELSE "updateOrg"
  <2>1. OrgsAt(r.slug) = {} => Shape(p)' /\ Found(p)'
    BY <1>0, <1>2 DEF OrgSlugFree, Check, Goto, Inv, TypeOK, Good, Shape, Found, OrgOfUser, LiveOrgs, Reqs, Ops
  <2> QED
    BY <1>2, <2>1, PassStep DEF OrgSlugFree, Labels
<1>3. CASE GetOrg(p)
  <2>1. OwnedOrg(r.org, r.user) => Shape(p)' /\ Found(p)'
    BY <1>0, <1>3
    DEF GetOrg, Check, Goto, Inv, TypeOK, Good, Shape, Found, OrgOfUser, LiveOrgs, OwnedOrg, NoRow, Reqs, Ops
  <2> QED
    BY <1>3, <2>1, PassStep DEF GetOrg, Labels
<1>4. CASE CountTypes(p)
  <2>1. UnderLimit(Cardinality(TypesOf(r.org))) => Shape(p)' /\ Found(p)'
    <3>1. pc[p] = "countTypes" /\ r.op = "createType"
      BY <1>0, <1>4 DEF CountTypes, Check, Good, Shape, Inv, TypeOK, Reqs, Ops
    <3> QED
      BY <1>0, <1>4, <3>1 DEF CountTypes, Check, Goto, Inv, TypeOK, Good, Shape, Found, OrgOfUser, LiveOrgs
  <2> QED
    BY <1>4, <2>1, PassStep DEF CountTypes, Labels
<1>5. CASE EnsureGoogleConnected(p)
  <2>1. (NeedsGoogle(r) => r.user \in google) => Shape(p)' /\ Found(p)'
    <3>1. pc[p] = "google" /\ r.op \in {"createType", "updateType"}
      BY <1>0, <1>5 DEF EnsureGoogleConnected, Check, Good, Shape, Inv, TypeOK, Reqs, Ops
    <3> QED
      BY <1>0, <1>5, <3>1 DEF EnsureGoogleConnected, Check, Goto, Inv, TypeOK, Good, Shape, Found, OrgOfUser,
             TypeOfOrg, LiveOrgs, LiveTypes, NeedsGoogle
  <2> QED
    BY <1>5, <2>1, PassStep DEF EnsureGoogleConnected, Labels
<1>6. CASE TypeSlugFree(p)
  <2>1. TypesAt(r.org, r.slug) \subseteq {r.type} => Shape(p)' /\ Found(p)'
    <3>1. pc[p] = "typeSlugFree" /\ r.op \in {"createType", "updateType"}
      BY <1>0, <1>6 DEF TypeSlugFree, Check, Good, Shape, Inv, TypeOK, Reqs, Ops
    <3> QED
      BY <1>0, <1>6, <3>1 DEF TypeSlugFree, Check, Goto, Inv, TypeOK, Good, Shape, Found, OrgOfUser,
             TypeOfOrg, LiveOrgs, LiveTypes
  <2> QED
    BY <1>6, <2>1, PassStep DEF TypeSlugFree, Labels
<1> QED
  BY <1>1, <1>2, <1>3, <1>4, <1>5, <1>6

(* The reads that fill in a variable of the request. *)
LEMMA ReadStep ==
  ASSUME Inv, NEW p \in Procs, GetByOwner(p) \/ GetType(p) \/ GetBySlug(p) \/ GetTypeBySlug(p) \/ Resolved(p)
  PROVE  Inv'
<1> DEFINE r == req[p]
<1>0. Good(p) /\ r \in Reqs /\ begun \in 0..MaxRequests
  BY DEF Inv, TypeOK
<1>1. CASE GetByOwner(p)
  <2>1. CASE OrgsOf(r.user) = {} /\ End(p)
    BY <1>1, <2>1, EndStep DEF GetByOwner
  <2>2. ASSUME NEW g \in OrgsOf(r.user), Set(p, [r EXCEPT !.org = g]),
               Goto(p, IF r.op # "createType" THEN "getType"
                       ELSE IF org[g].plan = "free" THEN "countTypes" ELSE "google")
        PROVE Inv'
    <3>1. g \in Orgs /\ g \in LiveOrgs /\ org[g].owner = r.user
      BY <2>2 DEF OrgsOf, LiveOrgs
    <3>2. pc[p] = "ownOrg" /\ r.op \in {"createType", "updateType", "deleteType"}
      BY <1>0, <1>1 DEF GetByOwner, Good, Shape, Reqs, Ops
    <3>3. [r EXCEPT !.org = g] \in Reqs
      BY <1>0, <3>1 DEF Reqs
    <3>4. Good(p)'
      BY <1>0, <1>1, <2>2, <3>1, <3>2
      DEF GetByOwner, Goto, Set, Good, Shape, Found, OrgOfUser, LiveOrgs, NoRow, Inv, TypeOK, Reqs
    <3> QED
      BY <1>0, <1>1, <2>2, <3>3, <3>4, LocalStep DEF GetByOwner, Labels
  <2> QED
    BY <1>1, <2>1, <2>2 DEF GetByOwner
<1>2. CASE GetType(p)
  <2>1. CASE ~OwnedType(r.type, r.org)
    BY <1>2, <2>1, EndStep DEF GetType
  <2>2. CASE OwnedType(r.type, r.org)
    <3>1. pc[p] = "getType" /\ r.op \in {"updateType", "deleteType"} /\ OrgOfUser(r)
      BY <1>0, <1>2 DEF GetType, Good, Shape, Found, Reqs, Ops
    <3>2. r.type \in Types /\ r.type \in LiveTypes /\ type[r.type] # NoRow /\ type[r.type].org = r.org
      BY <2>2 DEF OwnedType, TypesOf, LiveTypes, NoRow
    <3>3. type[r.type].slug \in Slugs
      BY <3>2 DEF Inv, TypeOK, TypeRows, NoRow, Gone, LiveTypes
    <3>4. [r EXCEPT !.in = type[r.type].slug] \in Reqs
      BY <1>0, <3>3 DEF Reqs
    <3>5. Good(p)'
      BY <1>0, <1>2, <2>2, <3>1, <3>2
      DEF GetType, Goto, Set, Good, Shape, Found, OrgOfUser, TypeOfOrg, LiveOrgs, LiveTypes, Inv, TypeOK, Reqs
    <3> QED
      BY <1>0, <1>2, <2>2, <3>4, <3>5, LocalStep DEF GetType, Labels
  <2> QED
    BY <2>1, <2>2
<1>3. CASE GetBySlug(p)
  <2>1. CASE End(p)
    BY <1>3, <2>1, EndStep DEF GetBySlug
  <2>2. ASSUME NEW g \in OrgsAt(r.in), Set(p, [r EXCEPT !.org = g]), Goto(p, "resolveType") PROVE Inv'
    <3>1. [r EXCEPT !.org = g] \in Reqs /\ r.op = "resolve"
      BY <1>0, <1>3 DEF Reqs, Ops, OrgsAt, LiveOrgs, GetBySlug, Good, Shape
    <3>2. Good(p)'
      BY <1>0, <2>2, <3>1 DEF Goto, Set, Good, Shape, Found, Inv, TypeOK, Reqs
    <3> QED
      BY <1>0, <1>3, <2>2, <3>1, <3>2, LocalStep DEF GetBySlug, Labels
  <2> QED
    BY <1>3, <2>1, <2>2 DEF GetBySlug
<1>4. CASE GetTypeBySlug(p)
  <2>1. CASE End(p)
    BY <1>4, <2>1, EndStep DEF GetTypeBySlug
  <2>2. ASSUME NEW t \in TypesAt(r.org, r.slug), Set(p, [r EXCEPT !.type = t]), Goto(p, "resolved") PROVE Inv'
    <3>1. [r EXCEPT !.type = t] \in Reqs /\ r.op = "resolve"
      BY <1>0, <1>4 DEF Reqs, Ops, TypesAt, TypesOf, LiveTypes, GetTypeBySlug, Good, Shape
    <3>2. Good(p)'
      BY <1>0, <2>2, <3>1 DEF Goto, Set, Good, Shape, Found, Inv, TypeOK, Reqs
    <3> QED
      BY <1>0, <1>4, <2>2, <3>1, <3>2, LocalStep DEF GetTypeBySlug, Labels
  <2> QED
    BY <1>4, <2>1, <2>2 DEF GetTypeBySlug
<1>5. CASE Resolved(p)
  BY <1>5, EndStep DEF Resolved
<1> QED
  BY <1>1, <1>2, <1>3, <1>4, <1>5

-----------------------------------------------------------------------------
(* The writes of a request. *)
LEMMA WriteOrg ==
  ASSUME Inv, NEW p \in Procs,
         (\E g \in Orgs : InsertOrg(p, g)) \/ UpdateOrganization(p) \/ DeleteOrganization(p)
  PROVE  Inv'
<1> DEFINE r == req[p]
<1>0. Good(p) /\ TypeOK /\ TypesHaveOrg /\ MeetTypesLinked
  BY DEF Inv
<1>1. ASSUME NEW g \in Orgs, InsertOrg(p, g) PROVE Inv'
  <2> DEFINE x == [row |-> "org", owner |-> r.user, slug |-> r.slug, plan |-> "free"]
  <2>1. pc[p] = "insertOrg" /\ org[g] = NoRow /\ End(p) /\ UNCHANGED <<type, google, begun, paid, linked>>
        /\ org' \in {org, [org EXCEPT ![g] = x]}
    BY <1>1 DEF InsertOrg
  <2>2. r.user \in Users /\ r.slug \in OrgSlugs
    BY <1>0, <2>1 DEF Good, Shape, TypeOK, Reqs, Ops
  <2>3. x \in OrgRows
    BY <2>2, CatalogAssumption DEF OrgRows
  <2>4. org' \in [Orgs -> {NoRow, Gone} \cup OrgRows]
    BY <1>0, <2>1, <2>3 DEF TypeOK
  <2>5. \A h \in Orgs : org[h] # NoRow => org'[h] = org[h]
    BY <1>0, <2>1 DEF TypeOK
  <2> HIDE DEF x
  <2>6. Older
    BY <2>1, <2>5 DEF Older, LiveOrgs, LiveTypes
  <2>7. \A t \in LiveTypes : type[t].org \in Orgs /\ org[type[t].org] # NoRow
    BY <1>0 DEF TypesHaveOrg, LiveOrgs, NoRow
  <2>8. TypesHaveOrg' /\ MeetTypesLinked'
    BY <1>0, <2>1, <2>5, <2>7 DEF TypesHaveOrg, MeetTypesLinked, LiveOrgs, LiveTypes
  <2> QED
    BY <1>0, <2>1, <2>4, <2>6, <2>8, WriteStep DEF TypeOK
<1>2. CASE UpdateOrganization(p)
  <2>1. pc[p] = "updateOrg" /\ End(p) /\ UNCHANGED <<type, google, begun, paid, linked>>
        /\ org' \in {org} \cup (IF r.org \in LiveOrgs THEN {[org EXCEPT ![r.org].slug = r.slug]} ELSE {})
    BY <1>2 DEF UpdateOrganization
  <2>2. r.org \in Orgs /\ r.slug \in OrgSlugs
    BY <1>0, <2>1 DEF Good, Shape, TypeOK, Reqs, Ops
  <2>3. org' \in [Orgs -> {NoRow, Gone} \cup OrgRows]
    BY <1>0, <2>1, <2>2 DEF TypeOK, LiveOrgs, OrgRows, NoRow, Gone
  <2>4. \A g \in Orgs : /\ g \in LiveOrgs' <=> g \in LiveOrgs
                        /\ g \in LiveOrgs => org'[g].owner = org[g].owner
                        /\ org[g] # NoRow => org'[g] # NoRow
    BY <1>0, <2>1, <2>2 DEF TypeOK, LiveOrgs, OrgRows, NoRow, Gone
  <2>5. Older
    <3>1. \A t \in Types : type'[t] = type[t]
      BY <2>1
    <3>2. LiveTypes' = LiveTypes
      BY <2>1 DEF LiveTypes
    <3> QED
      BY <2>1, <2>4, <3>1, <3>2 DEF Older
  <2>6. LiveTypes' = LiveTypes /\ \A t \in LiveTypes : type[t].org \in Orgs
    BY <1>0, <2>1 DEF LiveTypes, TypesHaveOrg, LiveOrgs
  <2>7. \A t \in LiveTypes : type'[t] = type[t] /\ type[t].org \in LiveOrgs' /\ type[t].org \in LiveOrgs
                             /\ org'[type[t].org].owner = org[type[t].org].owner
    BY <1>0, <2>1, <2>4, <2>6 DEF TypesHaveOrg
  <2>8. TypesHaveOrg' /\ MeetTypesLinked'
    BY <1>0, <2>1, <2>6, <2>7 DEF TypesHaveOrg, MeetTypesLinked
  <2> QED
    BY <1>0, <2>1, <2>3, <2>5, <2>8, WriteStep DEF TypeOK
<1>3. CASE DeleteOrganization(p)
  <2> DEFINE g == r.org
  <2>1. pc[p] = "deleteOrg" /\ End(p) /\ UNCHANGED <<google, begun, paid, linked>>
        /\ org' = (IF g \in LiveOrgs THEN [org EXCEPT ![g] = Gone] ELSE org)
        /\ type' = [t \in Types |-> IF t \in TypesOf(g) THEN Gone ELSE type[t]]
    BY <1>3 DEF DeleteOrganization
  <2>2. org' \in [Orgs -> {NoRow, Gone} \cup OrgRows] /\ type' \in [Types -> {NoRow, Gone} \cup TypeRows]
    BY <1>0, <2>1 DEF TypeOK
  <2>3. \A h \in Orgs : /\ h \in LiveOrgs' <=> h \in LiveOrgs /\ h # g
                        /\ h \in LiveOrgs' => org'[h] = org[h]
                        /\ h \notin LiveOrgs => org'[h] = org[h]
                        /\ org[h] # NoRow => org'[h] # NoRow
    BY <1>0, <2>1 DEF TypeOK, LiveOrgs, NoRow, Gone
  <2>4. \A t \in Types : /\ t \in LiveTypes' <=> t \in LiveTypes /\ type[t].org # g
                         /\ t \in LiveTypes' => type'[t] = type[t]
                         /\ type[t] # NoRow => type'[t] # NoRow
    BY <2>1 DEF LiveTypes, TypesOf, NoRow, Gone
  <2>5. Older
    <3>1. \A h \in Orgs : org[h] # NoRow =>
            org'[h] # NoRow /\ (h \in LiveOrgs' => h \in LiveOrgs /\ org'[h].owner = org[h].owner)
      BY <2>3
    <3>2. \A t \in Types : type[t] # NoRow =>
            type'[t] # NoRow /\ (t \in LiveTypes' => t \in LiveTypes /\ type'[t].org = type[t].org)
      BY <2>4
    <3> QED
      BY <2>1, <3>1, <3>2 DEF Older
  <2>6. LiveTypes' \subseteq Types /\ \A t \in LiveTypes : type[t].org \in Orgs
    BY <1>0 DEF LiveTypes, TypesHaveOrg, LiveOrgs
  <2>7. \A t \in LiveTypes' : t \in LiveTypes /\ type'[t] = type[t] /\ type[t].org \in LiveOrgs'
                              /\ org'[type[t].org] = org[type[t].org]
    BY <1>0, <2>3, <2>4, <2>6 DEF TypesHaveOrg
  <2>8. TypesHaveOrg' /\ MeetTypesLinked'
    BY <1>0, <2>1, <2>7 DEF TypesHaveOrg, MeetTypesLinked
  <2> QED
    BY <1>0, <2>1, <2>2, <2>5, <2>8, WriteStep DEF TypeOK
<1> QED
  BY <1>1, <1>2, <1>3

LEMMA WriteType ==
  ASSUME Inv, NEW p \in Procs,
         (\E t \in Types : InsertType(p, t)) \/ UpdateInterviewType(p) \/ DeleteInterviewType(p)
  PROVE  Inv'
<1> DEFINE r == req[p]
<1>0. Good(p) /\ TypeOK /\ TypesHaveOrg /\ MeetTypesLinked /\ r \in Reqs
  BY DEF Inv, TypeOK
<1>1. ASSUME NEW t \in Types, InsertType(p, t) PROVE Inv'
  <2> DEFINE x == Inserted(r)
  <2>1. pc[p] = "insertType" /\ type[t] = NoRow /\ End(p) /\ UNCHANGED <<org, google, begun, paid, linked>>
        /\ type' \in {type} \cup (IF r.org \in LiveOrgs THEN {[type EXCEPT ![t] = x]} ELSE {})
    BY <1>1 DEF InsertType
  <2>2. r.org \in Orgs /\ r.slug \in Slugs /\ r.meet \in BOOLEAN /\ OrgOfUser(r)
        /\ (r.meet => r.user \in linked)
    BY <1>0, <2>1 DEF Good, Shape, Found, OrgOfUser, TypeOK, Reqs, Ops
  <2>3. x \in TypeRows /\ x.org = r.org /\ x.meet = r.meet
    BY <2>2 DEF TypeRows, Inserted
  <2>4. type' \in [Types -> {NoRow, Gone} \cup TypeRows]
    BY <1>0, <2>1, <2>3 DEF TypeOK
  <2> HIDE DEF x
  <2>5. \A u \in Types : type'[u] = type[u] \/ (u = t /\ type'[u] = x /\ r.org \in LiveOrgs)
    BY <1>0, <2>1 DEF TypeOK
  <2>6. Older
    BY <2>1, <2>5 DEF Older, LiveOrgs, LiveTypes
  <2>7. TypesHaveOrg' /\ MeetTypesLinked'
    BY <1>0, <2>1, <2>2, <2>3, <2>5 DEF TypesHaveOrg, MeetTypesLinked, LiveOrgs, LiveTypes, OrgOfUser
  <2> QED
    BY <1>0, <2>1, <2>4, <2>6, <2>7, WriteStep DEF TypeOK
<1>2. CASE UpdateInterviewType(p)
  <2> DEFINE t == r.type
             x == [type[t] EXCEPT !.slug = r.slug, !.meet = r.meet]
  <2>1. pc[p] = "updateType" /\ End(p) /\ UNCHANGED <<org, google, begun, paid, linked>>
        /\ type' \in {type} \cup (IF t \in LiveTypes THEN {[type EXCEPT ![t] = x]} ELSE {})
    BY <1>0, <1>2 DEF UpdateInterviewType, TypeOK, LiveTypes, TypeRows, NoRow, Gone
  <2>2. t \in Types /\ r.slug \in Slugs /\ r.meet \in BOOLEAN /\ OrgOfUser(r) /\ TypeOfOrg(r)
        /\ (r.meet => r.user \in linked)
    BY <1>0, <2>1 DEF Good, Shape, Found, TypeOK, Reqs, Ops
  <2>3. t \in LiveTypes => x \in TypeRows /\ x.org = type[t].org /\ x.meet = r.meet /\ x.row = "type"
    <3>1. t \in LiveTypes => type[t] \in TypeRows
      BY <1>0, <2>2 DEF TypeOK, LiveTypes, NoRow, Gone
    <3> QED
      BY <2>2, <3>1 DEF TypeRows
  <2> HIDE DEF x
  <2>4. type' \in [Types -> {NoRow, Gone} \cup TypeRows]
    BY <1>0, <2>1, <2>3 DEF TypeOK
  <2>5. \A u \in Types : type'[u] = type[u] \/ (u = t /\ type'[u] = x /\ t \in LiveTypes)
    BY <1>0, <2>1 DEF TypeOK
  <2>6. Older
    BY <2>1, <2>3, <2>5 DEF Older, LiveOrgs, LiveTypes, NoRow
  <2>7. t \in LiveTypes => type[t].org = r.org /\ r.org \in LiveOrgs /\ org[r.org].owner = r.user
    BY <1>0, <2>2 DEF TypeOfOrg, OrgOfUser, TypesHaveOrg
  <2>8. TypesHaveOrg' /\ MeetTypesLinked'
    BY <1>0, <2>1, <2>2, <2>3, <2>5, <2>7 DEF TypesHaveOrg, MeetTypesLinked, LiveOrgs, LiveTypes
  <2> QED
    BY <1>0, <2>1, <2>4, <2>6, <2>8, WriteStep DEF TypeOK
<1>3. CASE DeleteInterviewType(p)
  <2>1. pc[p] = "deleteType" /\ End(p) /\ UNCHANGED <<org, google, begun, paid, linked>>
        /\ type' \in {type, [type EXCEPT ![r.type] = Gone]}
    BY <1>3 DEF DeleteInterviewType
  <2>2. type[r.type] # NoRow
    BY <1>0, <2>1 DEF Good, Found, TypeOfOrg
  <2>3. type' \in [Types -> {NoRow, Gone} \cup TypeRows]
    BY <1>0, <2>1 DEF TypeOK
  <2>4. \A u \in Types : type'[u] = type[u] \/ (u = r.type /\ type'[u] = Gone)
    BY <1>0, <2>1 DEF TypeOK
  <2>5. Older /\ LiveTypes' \subseteq LiveTypes /\ \A u \in LiveTypes' : type'[u] = type[u]
    BY <2>1, <2>4 DEF Older, LiveOrgs, LiveTypes, NoRow, Gone
  <2>6. TypesHaveOrg' /\ MeetTypesLinked'
    BY <1>0, <2>1, <2>5 DEF TypesHaveOrg, MeetTypesLinked, LiveOrgs
  <2> QED
    BY <1>0, <2>1, <2>3, <2>5, <2>6, WriteStep DEF TypeOK
<1> QED
  BY <1>1, <1>2, <1>3

(* The Google connection and the plan. *)
LEMMA ConnectionStep ==
  ASSUME Inv, NEW p \in Procs, SetConnection(p)
  PROVE  Inv'
<1>1. pc[p] = "setConnection" /\ End(p) /\ UNCHANGED <<org, type, begun, paid>>
      /\ google' = google \cup {req[p].user} /\ linked' = linked \cup {req[p].user}
  BY DEF SetConnection
<1>2. req[p].user \in Users
  BY <1>1 DEF Inv, Good, Shape, TypeOK, Reqs, Ops
<1>3. Older /\ TypesHaveOrg' /\ MeetTypesLinked'
  BY <1>1 DEF Inv, Older, TypesHaveOrg, MeetTypesLinked, LiveOrgs, LiveTypes
<1> QED
  BY <1>1, <1>2, <1>3, WriteStep DEF Inv, TypeOK

LEMMA AdminStep ==
  ASSUME Inv, (\E g \in Orgs, plan \in Plans : UpdatePlan(g, plan)) \/ (\E u \in Users : Disconnect(u))
  PROVE  Inv'
<1>1. ASSUME NEW g \in Orgs, NEW plan \in Plans, UpdatePlan(g, plan) PROVE Inv'
  <2>1. g \in LiveOrgs /\ org' = [org EXCEPT ![g].plan = plan] /\ paid' \subseteq paid \cup {g}
        /\ UNCHANGED <<type, google, pc, req, begun, linked>>
    BY <1>1 DEF UpdatePlan
  <2>2. org' \in [Orgs -> {NoRow, Gone} \cup OrgRows]
    BY <2>1 DEF Inv, TypeOK, LiveOrgs, OrgRows, NoRow, Gone
  <2>3. \A h \in Orgs : /\ h \in LiveOrgs' <=> h \in LiveOrgs
                        /\ h \in LiveOrgs => org'[h].owner = org[h].owner
                        /\ org[h] # NoRow => org'[h] # NoRow
    BY <2>1 DEF Inv, TypeOK, LiveOrgs, OrgRows, NoRow, Gone
  <2>4. Older
    <3>1. LiveTypes' = LiveTypes /\ \A t \in Types : type'[t] = type[t]
      BY <2>1 DEF LiveTypes
    <3> QED
      BY <2>1, <2>3, <3>1 DEF Older
  <2>5. LiveTypes' = LiveTypes /\ \A t \in LiveTypes : type[t].org \in Orgs
    BY <2>1 DEF Inv, LiveTypes, TypesHaveOrg, LiveOrgs
  <2>6. \A t \in LiveTypes : type'[t] = type[t] /\ type[t].org \in LiveOrgs' /\ type[t].org \in LiveOrgs
                             /\ org'[type[t].org].owner = org[type[t].org].owner
    BY <2>1, <2>3, <2>5 DEF Inv, TypesHaveOrg
  <2>7. TypesHaveOrg' /\ MeetTypesLinked'
    BY <2>1, <2>5, <2>6 DEF Inv, TypesHaveOrg, MeetTypesLinked
  <2>8. \A q \in Procs : Good(q)'
    BY <2>1, <2>4, OthersGood DEF Inv
  <2> QED
    BY <2>1, <2>2, <2>7, <2>8 DEF Inv, TypeOK
<1>2. ASSUME NEW u \in Users, Disconnect(u) PROVE Inv'
  <2>1. google' \subseteq google /\ UNCHANGED <<org, type, pc, req, begun, paid, linked>>
    BY <1>2 DEF Disconnect
  <2>2. Older /\ TypesHaveOrg' /\ MeetTypesLinked'
    BY <2>1 DEF Inv, Older, TypesHaveOrg, MeetTypesLinked, LiveOrgs, LiveTypes
  <2>3. \A q \in Procs : Good(q)'
    BY <2>1, <2>2, OthersGood DEF Inv
  <2> QED
    BY <2>1, <2>2, <2>3 DEF Inv, TypeOK
<1> QED
  BY <1>1, <1>2

LEMMA NextInv == Inv /\ [Next]_vars => Inv'
<1> SUFFICES ASSUME Inv, [Next]_vars PROVE Inv'
  OBVIOUS
<1>1. ASSUME NEW p \in Procs, Request(p) PROVE Inv'
  BY <1>1, RequestStep
<1>2. ASSUME NEW p \in Procs, Step(p) PROVE Inv'
  <2>1. CASE Fail(p)
    BY <2>1, EndStep DEF Fail
  <2> QED
    BY <1>2, <2>1, CheckStep, ReadStep, WriteOrg, WriteType, ConnectionStep DEF Step
<1>3. CASE UNCHANGED vars
  <2>1. Older /\ TypesHaveOrg' /\ MeetTypesLinked'
    BY <1>3 DEF vars, Inv, Older, TypesHaveOrg, MeetTypesLinked, LiveOrgs, LiveTypes
  <2>2. \A q \in Procs : Good(q)'
    BY <1>3, <2>1, OthersGood DEF vars, Inv
  <2> QED
    BY <1>3, <2>1, <2>2 DEF vars, Inv, TypeOK
<1> QED
  BY <1>1, <1>2, <1>3, AdminStep DEF Next

LEMMA Inductive == Spec => []Inv
  BY InitInv, NextInv, PTL DEF Spec

(* The types hold in every reachable state. *)
THEOREM TypeCorrect == Spec => []TypeOK
  BY Inductive, PTL DEF Inv

(* No interleaving of requests puts a type on Google Meet for an owner who
   never connected an account. *)
THEOREM MeetNeedsGoogle == Spec => []MeetTypesLinked
  BY Inductive, PTL DEF Inv

-----------------------------------------------------------------------------
(* Rows are written by the five writes and by the administrator alone. *)
LEMMA OwnerStep ==
  ASSUME Inv, [Next]_vars
  PROVE  /\ \A g \in LiveOrgs :
              org'[g].row # "org" \/ org'[g].slug # org[g].slug => \E p \in Procs : Writer(p, org[g].owner)
         /\ \A t \in LiveTypes :
              type'[t] # type[t] => \E p \in Procs : Writer(p, org[type[t].org].owner)
<1> DEFINE OrgPart == \A g \in LiveOrgs :
              org'[g].row # "org" \/ org'[g].slug # org[g].slug => \E p \in Procs : Writer(p, org[g].owner)
           TypePart == \A t \in LiveTypes :
              type'[t] # type[t] => \E p \in Procs : Writer(p, org[type[t].org].owner)
<1>0. TypeOK /\ TypesHaveOrg /\ \A p \in Procs : Good(p)
  BY DEF Inv
<1>1. org' = org => OrgPart
  BY DEF LiveOrgs
<1>2. type' = type => TypePart
  OBVIOUS
<1>3. ASSUME NEW p \in Procs, End(p) PROVE pc'[p] = "idle"
  BY <1>0, <1>3 DEF End, Goto, TypeOK
<1>4. ASSUME NEW p \in Procs, NEW g \in Orgs, InsertOrg(p, g) PROVE OrgPart /\ TypePart
  <2>1. \A h \in LiveOrgs : org'[h] = org[h]
    BY <1>0, <1>4 DEF InsertOrg, LiveOrgs, TypeOK, NoRow
  <2>2. type' = type
    BY <1>4 DEF InsertOrg
  <2> QED
    BY <1>2, <2>1, <2>2 DEF LiveOrgs
<1>5. ASSUME NEW p \in Procs, UpdateOrganization(p) PROVE OrgPart /\ TypePart
  <2>1. pc[p] = "updateOrg" /\ pc'[p] = "idle" /\ type' = type
    BY <1>3, <1>5 DEF UpdateOrganization
  <2>2. OrgOfUser(req[p])
    BY <1>0, <2>1 DEF Good, Found
  <2>3. ASSUME NEW g \in LiveOrgs, g # req[p].org PROVE org'[g] = org[g]
    BY <1>0, <1>5, <2>3 DEF UpdateOrganization, LiveOrgs, TypeOK
  <2>4. req[p].org \in LiveOrgs => Writer(p, org[req[p].org].owner)
    BY <2>1, <2>2 DEF Writer, OrgOfUser
  <2> QED
    BY <1>2, <2>1, <2>3, <2>4 DEF LiveOrgs
<1>6. ASSUME NEW p \in Procs, DeleteOrganization(p) PROVE OrgPart /\ TypePart
  <2>1. pc[p] = "deleteOrg" /\ pc'[p] = "idle"
    BY <1>3, <1>6 DEF DeleteOrganization
  <2>2. OrgOfUser(req[p])
    BY <1>0, <2>1 DEF Good, Found
  <2>3. ASSUME NEW g \in LiveOrgs, g # req[p].org PROVE org'[g] = org[g]
    BY <1>0, <1>6, <2>3 DEF DeleteOrganization, LiveOrgs, TypeOK
  <2>4. req[p].org \in LiveOrgs => Writer(p, org[req[p].org].owner)
    BY <2>1, <2>2 DEF Writer, OrgOfUser
  <2>5. ASSUME NEW t \in LiveTypes, type'[t] # type[t] PROVE type[t].org = req[p].org
    BY <1>6, <2>5 DEF DeleteOrganization, TypesOf, LiveTypes
  <2> QED
    BY <1>0, <2>3, <2>4, <2>5 DEF LiveOrgs, TypesHaveOrg
<1>7. ASSUME NEW p \in Procs, NEW t \in Types, InsertType(p, t) PROVE OrgPart /\ TypePart
  <2>1. \A u \in LiveTypes : type'[u] = type[u]
    BY <1>0, <1>7 DEF InsertType, LiveTypes, TypeOK, NoRow
  <2>2. org' = org
    BY <1>7 DEF InsertType
  <2> QED
    BY <1>1, <2>1, <2>2
<1>8. ASSUME NEW p \in Procs, UpdateInterviewType(p) \/ DeleteInterviewType(p) PROVE OrgPart /\ TypePart
  <2>1. pc[p] \in {"updateType", "deleteType"} /\ pc'[p] = "idle" /\ org' = org
    BY <1>3, <1>8 DEF UpdateInterviewType, DeleteInterviewType
  <2>2. OrgOfUser(req[p]) /\ TypeOfOrg(req[p])
    BY <1>0, <2>1 DEF Good, Found
  <2>3. ASSUME NEW t \in LiveTypes, t # req[p].type PROVE type'[t] = type[t]
    BY <1>0, <1>8, <2>3 DEF UpdateInterviewType, DeleteInterviewType, LiveTypes, TypeOK
  <2>4. req[p].type \in LiveTypes => type[req[p].type].org = req[p].org
    BY <2>2 DEF TypeOfOrg
  <2>5. req[p].type \in LiveTypes => Writer(p, org[type[req[p].type].org].owner)
    BY <1>0, <2>1, <2>2, <2>4 DEF Writer, OrgOfUser, TypesHaveOrg
  <2> QED
    BY <1>1, <2>1, <2>3, <2>5
<1>9. ASSUME NEW g \in Orgs, NEW plan \in Plans, UpdatePlan(g, plan) PROVE OrgPart /\ TypePart
  <2>1. \A h \in LiveOrgs : org'[h].row = "org" /\ org'[h].slug = org[h].slug
    BY <1>0, <1>9 DEF UpdatePlan, LiveOrgs, TypeOK, OrgRows, NoRow, Gone
  <2>2. type' = type
    BY <1>9 DEF UpdatePlan
  <2> QED
    BY <1>2, <2>1, <2>2
<1>10. CASE UNCHANGED <<org, type>>
  BY <1>1, <1>2, <1>10
<1>11. ASSUME NEW p \in Procs,
              FindOrgOfOwner(p) \/ OrgSlugFree(p) \/ GetOrg(p) \/ CountTypes(p) \/ EnsureGoogleConnected(p)
                \/ TypeSlugFree(p) \/ GetByOwner(p) \/ GetType(p) \/ GetBySlug(p) \/ GetTypeBySlug(p)
                \/ Resolved(p) \/ SetConnection(p) \/ Fail(p)
       PROVE UNCHANGED <<org, type>>
  BY <1>11 DEF FindOrgOfOwner, OrgSlugFree, GetOrg, CountTypes, EnsureGoogleConnected, TypeSlugFree, Check,
       GetByOwner, GetType, GetBySlug, GetTypeBySlug, Resolved, SetConnection, Fail
<1>12. ASSUME NEW p \in Procs, Request(p) PROVE UNCHANGED <<org, type>>
  BY <1>12 DEF Request, CreateOrg, UpdateOrg, DeleteOrg, CreateType, UpdateType, DeleteType, Resolve,
       HandleCallback, Begin
<1>13. ASSUME NEW u \in Users, Disconnect(u) PROVE UNCHANGED <<org, type>>
  BY <1>13 DEF Disconnect
<1>14. CASE UNCHANGED vars
  BY <1>10, <1>14 DEF vars
<1> QED
  BY <1>4, <1>5, <1>6, <1>7, <1>8, <1>9, <1>10, <1>11, <1>12, <1>13, <1>14 DEF Next, Step

(* Whatever requests interleave, only the owner's own requests change or delete
   an organisation and its types. *)
THEOREM OwnerOnly == Spec => OnlyOwnerWrites
  BY OwnerStep, Inductive, PTL DEF Spec, OnlyOwnerWrites

-----------------------------------------------------------------------------
(* The creates that have passed the count, or did not have to. *)
Pending(g) ==
  {p \in Procs : req[p].op = "createType" /\ req[p].org = g /\ pc[p] \in {"google", "typeSlugFree", "insertType"}}

(* A create under way already counts: so many types can be there before the
   next count finds the limit reached. *)
Bounded(g) ==
  g \notin paid =>
    /\ org[g].row = "org" => org[g].plan = "free"
    /\ Cardinality(TypesOf(g)) + Cardinality(Pending(g)) <= Limit - 1 + Cardinality(Procs)

BoundInv == Inv /\ \A g \in Orgs : Bounded(g)

LEMMA Sizes ==
  ASSUME NEW g
  PROVE  /\ IsFiniteSet(TypesOf(g)) /\ Cardinality(TypesOf(g)) \in Nat
         /\ IsFiniteSet(Pending(g)) /\ Cardinality(Pending(g)) \in Nat
         /\ Cardinality(Procs) \in Nat \ {0} /\ Cardinality(Pending(g)) <= Cardinality(Procs)
<1>1. TypesOf(g) \subseteq Types /\ Pending(g) \subseteq Procs
  BY DEF TypesOf, LiveTypes, Pending
<1>2. IsFiniteSet(TypesOf(g)) /\ IsFiniteSet(Pending(g)) /\ Cardinality(Pending(g)) <= Cardinality(Procs)
  BY <1>1, FS_Subset, CatalogAssumption
<1>3. Cardinality(Procs) # 0
  BY FS_EmptySet, CatalogAssumption
<1> QED
  BY <1>2, <1>3, FS_CardinalityType, CatalogAssumption

LEMMA InitBound == Init => BoundInv
<1> SUFFICES ASSUME Init, NEW g \in Orgs PROVE Bounded(g)
  BY InitInv DEF BoundInv
<1>1. TypesOf(g) = {} /\ Pending(g) = {}
  BY DEF Init, TypesOf, LiveTypes, Pending, NoRow, NoReq
<1>2. Cardinality(TypesOf(g)) = 0 /\ Cardinality(Pending(g)) = 0
  BY <1>1, FS_EmptySet
<1> QED
  BY <1>2, Sizes, CatalogAssumption DEF Init, Bounded, NoRow

(* A step that adds neither a type nor a create. *)
LEMMA BoundKept ==
  ASSUME NEW g \in Orgs, Bounded(g), TypesOf(g)' \subseteq TypesOf(g), Pending(g)' \subseteq Pending(g),
         paid \subseteq paid', g \notin paid' /\ org'[g].row = "org" => org'[g].plan = "free"
  PROVE  Bounded(g)'
<1>1. Cardinality(TypesOf(g)') <= Cardinality(TypesOf(g)) /\ Cardinality(Pending(g)') <= Cardinality(Pending(g))
      /\ Cardinality(TypesOf(g)') \in Nat /\ Cardinality(Pending(g)') \in Nat
  <2>1. IsFiniteSet(TypesOf(g)) /\ IsFiniteSet(Pending(g))
    BY Sizes
  <2> QED
    BY <2>1, FS_Subset, FS_CardinalityType
<1> QED
  BY <1>1, Sizes, CatalogAssumption DEF Bounded

(* The requests under way as creates do not become more. *)
LEMMA PendingKept ==
  ASSUME TypeOK, NEW p \in Procs, NEW g,
         \A q \in Procs \ {p} : req'[q] = req[q] /\ pc'[q] = pc[q],
         p \in Pending(g)' => p \in Pending(g)
  PROVE  Pending(g)' \subseteq Pending(g)
  BY DEF Pending

LEMMA BoundStep == BoundInv /\ [Next]_vars => BoundInv'
<1> SUFFICES ASSUME BoundInv, [Next]_vars, NEW g \in Orgs PROVE Bounded(g)'
  BY NextInv DEF BoundInv
<1>0. TypeOK /\ Bounded(g) /\ \A p \in Procs : Good(p)
  BY DEF BoundInv, Inv
<1>1. ASSUME NEW p \in Procs, NEW next, NEW r, Goto(p, next), Set(p, r)
      PROVE  /\ pc'[p] = next /\ req'[p] = r
             /\ \A q \in Procs \ {p} : req'[q] = req[q] /\ pc'[q] = pc[q]
  BY <1>0, <1>1 DEF Goto, Set, TypeOK
<1>2. ASSUME NEW p \in Procs, End(p), TypesOf(g)' \subseteq TypesOf(g), paid' = paid,
             org'[g].row = "org" => org'[g].plan = "free" \/ (org[g].row = "org" /\ org'[g].plan = org[g].plan)
      PROVE  Bounded(g)'
  <2>1. pc'[p] = "idle"
    BY <1>1, <1>2 DEF End
  <2>2. Pending(g)' \subseteq Pending(g)
    BY <1>0, <1>1, <1>2, <2>1, PendingKept DEF End, Pending
  <2> QED
    BY <1>0, <1>2, <2>2, BoundKept DEF Bounded
<1>3. ASSUME NEW p \in Procs, End(p), UNCHANGED <<org, type, paid>> PROVE Bounded(g)'
  BY <1>2, <1>3 DEF TypesOf, LiveTypes
<1>4. ASSUME NEW p \in Procs, NEW next, NEW r, Goto(p, next), Set(p, r), UNCHANGED <<org, type, paid>>,
             g \notin paid /\ next \in {"google", "typeSlugFree", "insertType"} /\ r.op = "createType" /\ r.org = g
               => p \in Pending(g)
      PROVE  Bounded(g)'
  <2>1. CASE g \in paid
    BY <1>4, <2>1 DEF Bounded
  <2>2. CASE g \notin paid
    <3>1. Pending(g)' \subseteq Pending(g)
      <4>1. pc'[p] = next /\ req'[p] = r /\ \A q \in Procs \ {p} : req'[q] = req[q] /\ pc'[q] = pc[q]
        BY <1>1, <1>4
      <4>2. p \in Pending(g)' => p \in Pending(g)
        BY <1>4, <2>2, <4>1 DEF Pending
      <4> QED
        BY <1>0, <4>1, <4>2, PendingKept
    <3> QED
      BY <1>0, <1>4, <3>1, BoundKept DEF Bounded, TypesOf, LiveTypes
  <2> QED
    BY <2>1, <2>2
<1>5. ASSUME NEW p \in Procs, NEW label, NEW holds, NEW next, Check(p, label, holds, next),
             holds => (next \in {"google", "typeSlugFree", "insertType"} /\ req[p].op = "createType"
                         /\ req[p].org = g => p \in Pending(g))
      PROVE  Bounded(g)'
  <2>1. CASE holds
    BY <1>0, <1>4, <1>5, <2>1 DEF Check, Set, TypeOK
  <2>2. CASE ~holds
    BY <1>3, <1>5, <2>2 DEF Check
  <2> QED
    BY <2>1, <2>2
<1>6. ASSUME NEW p \in Procs, Request(p) PROVE Bounded(g)'
  <2>1. PICK label \in {"findOrgOfOwner", "getOrg", "ownOrg", "resolveOrg", "setConnection"}, r \in {req'[p]} :
          Goto(p, label) /\ Set(p, r) /\ UNCHANGED <<org, type, paid>>
    BY <1>0, <1>6 DEF Request, CreateOrg, UpdateOrg, DeleteOrg, CreateType, UpdateType, DeleteType, Resolve,
       HandleCallback, Begin, Goto, Set, TypeOK
  <2> QED
    BY <1>4, <2>1
<1>7. ASSUME NEW p \in Procs, FindOrgOfOwner(p) \/ OrgSlugFree(p) \/ GetOrg(p) PROVE Bounded(g)'
  BY <1>5, <1>7 DEF FindOrgOfOwner, OrgSlugFree, GetOrg
<1>8. ASSUME NEW p \in Procs, EnsureGoogleConnected(p) \/ TypeSlugFree(p) PROVE Bounded(g)'
  <2>1. pc[p] \in {"google", "typeSlugFree"}
    BY <1>8 DEF EnsureGoogleConnected, TypeSlugFree, Check
  <2> QED
    BY <1>5, <1>8, <2>1 DEF EnsureGoogleConnected, TypeSlugFree, Pending
<1>9. ASSUME NEW p \in Procs, CountTypes(p) PROVE Bounded(g)'
  <2>1. CASE req[p].org # g \/ ~UnderLimit(Cardinality(TypesOf(req[p].org)))
    BY <1>5, <1>9, <2>1 DEF CountTypes
  <2>2. CASE req[p].org = g /\ UnderLimit(Cardinality(TypesOf(req[p].org)))
    <3>1. UNCHANGED <<org, type, paid>>
      BY <1>9 DEF CountTypes, Check
    <3>2. TypesOf(g)' = TypesOf(g) /\ Cardinality(TypesOf(g)) < Limit
      BY <2>2, <3>1 DEF TypesOf, LiveTypes, UnderLimit
    <3>3. Pending(g)' \subseteq Procs
      BY DEF Pending
    <3>4. Cardinality(Pending(g)') <= Cardinality(Procs) /\ Cardinality(Pending(g)') \in Nat
      BY <3>3, FS_Subset, FS_CardinalityType, CatalogAssumption
    <3> QED
      BY <1>0, <3>1, <3>2, <3>4, Sizes, CatalogAssumption DEF Bounded
  <2> QED
    BY <2>1, <2>2
<1>10. ASSUME NEW p \in Procs, GetByOwner(p) PROVE Bounded(g)'
  <2>1. CASE End(p)
    BY <1>3, <1>10, <2>1 DEF GetByOwner
  <2>2. ASSUME NEW h \in OrgsOf(req[p].user), Set(p, [req[p] EXCEPT !.org = h]),
               Goto(p, IF req[p].op # "createType" THEN "getType"
                       ELSE IF org[h].plan = "free" THEN "countTypes" ELSE "google")
        PROVE Bounded(g)'
    <3>1. org[h].row = "org" /\ [req[p] EXCEPT !.org = h].org = h
      BY <1>0, <2>2 DEF OrgsOf, LiveOrgs, TypeOK, Reqs
    <3>2. g \notin paid /\ h = g => org[h].plan = "free"
      BY <1>0, <3>1 DEF Bounded
    <3> QED
      BY <1>4, <1>10, <2>2, <3>1, <3>2 DEF GetByOwner
  <2> QED
    BY <1>10, <2>1, <2>2 DEF GetByOwner
<1>11. ASSUME NEW p \in Procs, GetType(p) \/ GetBySlug(p) \/ GetTypeBySlug(p) PROVE Bounded(g)'
  <2>1. CASE End(p)
    BY <1>3, <1>11, <2>1 DEF GetType, GetBySlug, GetTypeBySlug
  <2>2. CASE GetType(p) /\ ~End(p)
    <3>1. pc[p] = "getType" /\ req[p].op # "createType" /\ req[p] \in Reqs
      BY <1>0, <2>2 DEF GetType, Good, Shape, TypeOK
    <3>2. [req[p] EXCEPT !.in = type[req[p].type].slug].op # "createType"
      BY <3>1 DEF Reqs
    <3> QED
      BY <1>4, <2>2, <3>2 DEF GetType
  <2>3. CASE (GetBySlug(p) \/ GetTypeBySlug(p)) /\ ~End(p)
    BY <1>4, <2>3 DEF GetBySlug, GetTypeBySlug
  <2> QED
    BY <1>11, <2>1, <2>2, <2>3
<1>12. ASSUME NEW p \in Procs, Resolved(p) \/ Fail(p) \/ SetConnection(p) PROVE Bounded(g)'
  BY <1>3, <1>12 DEF Resolved, Fail, SetConnection
<1>13. ASSUME NEW p \in Procs, NEW h \in Orgs, InsertOrg(p, h) PROVE Bounded(g)'
  <2>1. TypesOf(g)' \subseteq TypesOf(g)
    BY <1>13 DEF InsertOrg, TypesOf, LiveTypes
  <2>2. org'[g].row = "org" => org'[g].plan = "free" \/ (org[g].row = "org" /\ org'[g].plan = org[g].plan)
    BY <1>0, <1>13 DEF InsertOrg, TypeOK
  <2> QED
    BY <1>2, <1>13, <2>1, <2>2 DEF InsertOrg
<1>14. ASSUME NEW p \in Procs, UpdateOrganization(p) \/ DeleteOrganization(p) PROVE Bounded(g)'
  <2>1. TypesOf(g)' \subseteq TypesOf(g)
    BY <1>14 DEF UpdateOrganization, DeleteOrganization, TypesOf, LiveTypes, Gone
  <2>2. org'[g].row = "org" => org'[g].plan = "free" \/ (org[g].row = "org" /\ org'[g].plan = org[g].plan)
    BY <1>0, <1>14 DEF UpdateOrganization, DeleteOrganization, TypeOK, LiveOrgs, OrgRows, NoRow, Gone
  <2> QED
    BY <1>2, <1>14, <2>1, <2>2 DEF UpdateOrganization, DeleteOrganization
<1>15. ASSUME NEW p \in Procs, UpdateInterviewType(p) \/ DeleteInterviewType(p) PROVE Bounded(g)'
  <2>1. TypesOf(g)' \subseteq TypesOf(g)
    BY <1>0, <1>15 DEF UpdateInterviewType, DeleteInterviewType, TypesOf, LiveTypes, TypeOK, TypeRows, NoRow, Gone
  <2> QED
    BY <1>2, <1>15, <2>1 DEF UpdateInterviewType, DeleteInterviewType
<1>16. ASSUME NEW p \in Procs, NEW t \in Types, InsertType(p, t) PROVE Bounded(g)'
  <2>1. End(p) /\ UNCHANGED <<org, paid>> /\ type[t] = NoRow /\ pc[p] = "insertType" /\ req[p].op = "createType"
    BY <1>0, <1>16 DEF InsertType, Good, Shape, TypeOK, Reqs, Ops
  <2>2. CASE req[p].org # g \/ type' = type
    <3>1. TypesOf(g)' \subseteq TypesOf(g)
      BY <1>0, <1>16, <2>2 DEF InsertType, Inserted, TypesOf, LiveTypes, TypeOK
    <3> QED
      BY <1>2, <2>1, <3>1
  <2>3. CASE req[p].org = g /\ type' # type
    <3>1. TypesOf(g)' \subseteq TypesOf(g) \cup {t}
      BY <1>0, <1>16 DEF InsertType, TypesOf, LiveTypes, TypeOK
    <3>2. Pending(g)' \subseteq Pending(g) \ {p} /\ p \in Pending(g)
      BY <1>1, <2>1, <2>3 DEF End, Pending
    <3>3. Cardinality(TypesOf(g)') <= Cardinality(TypesOf(g)) + 1 /\ Cardinality(TypesOf(g)') \in Nat
      <4>1. IsFiniteSet(TypesOf(g) \cup {t}) /\ Cardinality(TypesOf(g) \cup {t}) <= Cardinality(TypesOf(g)) + 1
        <5>1. IsFiniteSet(TypesOf(g)) /\ Cardinality(TypesOf(g)) \in Nat
          BY Sizes
        <5>2. t \notin TypesOf(g)
          BY <2>1 DEF TypesOf, LiveTypes, NoRow
        <5> QED
          BY <5>1, <5>2, FS_AddElement
      <4>2. Cardinality(TypesOf(g)') <= Cardinality(TypesOf(g) \cup {t}) /\ IsFiniteSet(TypesOf(g)')
        BY <3>1, <4>1, FS_Subset
      <4> QED
        BY <4>1, <4>2, Sizes, FS_CardinalityType
    <3>4. Cardinality(Pending(g)') <= Cardinality(Pending(g)) - 1 /\ Cardinality(Pending(g)') \in Nat
      <4>1. IsFiniteSet(Pending(g) \ {p}) /\ Cardinality(Pending(g) \ {p}) = Cardinality(Pending(g)) - 1
        BY <3>2, Sizes, FS_RemoveElement
      <4>2. Cardinality(Pending(g)') <= Cardinality(Pending(g) \ {p}) /\ IsFiniteSet(Pending(g)')
        BY <3>2, <4>1, FS_Subset
      <4> QED
        BY <4>1, <4>2, Sizes, FS_CardinalityType
    <3> QED
      BY <1>0, <2>1, <3>3, <3>4, Sizes, CatalogAssumption DEF Bounded
  <2> QED
    BY <2>2, <2>3
<1>17. ASSUME NEW h \in Orgs, NEW plan \in Plans, UpdatePlan(h, plan) PROVE Bounded(g)'
  <2>1. TypesOf(g)' = TypesOf(g) /\ Pending(g)' = Pending(g)
    BY <1>17 DEF UpdatePlan, TypesOf, LiveTypes, Pending
  <2>2. paid \subseteq paid' /\ (g \notin paid' /\ org'[g].row = "org" => org'[g].plan = "free")
    BY <1>0, <1>17 DEF UpdatePlan, Bounded, TypeOK, LiveOrgs, OrgRows, NoRow, Gone
  <2> QED
    BY <1>0, <2>1, <2>2, BoundKept
<1>18. CASE (\E u \in Users : Disconnect(u)) \/ UNCHANGED vars
  <2>1. UNCHANGED <<org, type, pc, req, paid>>
    BY <1>18 DEF Disconnect, vars
  <2>2. TypesOf(g)' = TypesOf(g) /\ Pending(g)' = Pending(g)
    BY <2>1 DEF TypesOf, LiveTypes, Pending
  <2> QED
    BY <1>0, <2>1, <2>2 DEF Bounded
<1> QED
  BY <1>6, <1>7, <1>8, <1>9, <1>10, <1>11, <1>12, <1>13, <1>14, <1>15, <1>16, <1>17, <1>18 DEF Next, Step

(* An organisation that never paid has at most Limit - 1 types more than there
   can be requests at once. *)
THEOREM LimitBounded == Spec => []TypesBounded
<1>1. BoundInv => TypesBounded
  <2> SUFFICES ASSUME BoundInv, NEW g \in LiveOrgs \ paid
               PROVE  Cardinality(TypesOf(g)) <= Limit - 1 + Cardinality(Procs)
    BY DEF TypesBounded
  <2>1. g \in Orgs
    BY DEF LiveOrgs
  <2> QED
    BY <2>1, Sizes, CatalogAssumption DEF BoundInv, Bounded
<1> QED
  BY <1>1, InitBound, BoundStep, PTL DEF Spec
=============================================================================
