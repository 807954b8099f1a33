-------------------------- MODULE OrganizationsProofs --------------------------
(***************************************************************************)
(* The types and the inductive invariant of Organizations, for any number of *)
(* users, regions and overlapping requests, and the properties it gives.     *)
(***************************************************************************)
EXTENDS Organizations, TLAPS

\* A request that works on an organization has one.
ReqOK(q) ==
    /\ q \in Request
    /\ q.pc \in OrgLabels => q.org \in Orgs
    /\ q.pc \in TargetLabels => q.target \in Orgs

\* The requests other than r are where they were.
Others(r) == \A x \in Requests \ {r} : req'[x] = req[x]

\* Where the mutations begin.
FirstSteps == {"first.read", "create.count", "delete.find", "update.list",
               "default.clear", "regions.count", "cluster.count", "cluster.check",
               "add.missing", "spaces.create", "invite.check", "remove.check"}

\* What a client may ask for: an organization it names has a member.
Started(q) ==
    /\ ReqOK(q)
    /\ q.pc \in FirstSteps
    /\ q.pc \in OrgLabels => HasMember(q.org)
    /\ q.pc = "delete.find" => q.orgs = {}
    /\ q.pc = "invite.check" => \A o \in q.orgs : HasMember(o)

-----------------------------------------------------------------------------
\* The request of an idle slot is well formed.
LEMMA IdleOK == ReqOK(Idle) /\ Idle.pc = "idle" /\ Idle.orgs = {}
<1>1. Users # {} /\ Names # {} /\ SlugOf \in [Names -> Slugs] /\ India \in Regions
  BY OrganizationsAssumption
<1>2. (CHOOSE u \in Users : TRUE) \in Users /\ AnyName \in Names
  BY <1>1 DEF AnyName
<1>3. Idle \in Request
  BY <1>1, <1>2 DEF Idle, Request, Labels, KindNames, NoOrg
<1> QED
  BY <1>3 DEF ReqOK, Idle, OrgLabels, TargetLabels

\* A slot that takes up a well formed request leaves the requests well typed.
LEMMA BecomeType ==
    ASSUME TypeOK, NEW r \in Requests, NEW q, Become(r, q), ReqOK(q)
    PROVE  /\ req' \in [Requests -> Request]
           /\ \A x \in Requests : /\ req'[x].pc \in OrgLabels => req'[x].org \in Orgs
                                  /\ req'[x].pc \in TargetLabels => req'[x].target \in Orgs
           /\ req'[r] = q
           /\ Others(r)
<1>1. /\ req \in [Requests -> Request] /\ q \in Request
      /\ req' = [req EXCEPT ![r] = q]
  BY DEF TypeOK, Become, ReqOK
<1>2. req' \in [Requests -> Request] /\ req'[r] = q /\ Others(r)
  BY <1>1 DEF Others
<1> QED
  BY <1>2 DEF TypeOK, ReqOK, Others

\* The request a slot executes is well formed.
LEMMA RequestOK == ASSUME TypeOK, NEW r \in Requests PROVE ReqOK(req[r])
BY DEF TypeOK, ReqOK

\* A request that goes on at another step.
LEMMA GotoOK ==
    ASSUME TypeOK, NEW r \in Requests, NEW label \in Labels,
           label \in OrgLabels => req[r].org \in Orgs,
           label \in TargetLabels => req[r].target \in Orgs
    PROVE  ReqOK([req[r] EXCEPT !.pc = label])
BY DEF TypeOK, ReqOK, Request

\* A request that visits the next region, or goes on behind the last.
LEMMA NextRegionOK ==
    ASSUME TypeOK, NEW r \in Requests, NEW left \in SUBSET Regions,
           NEW again \in Labels, NEW after \in Labels,
           {again, after} \cap OrgLabels # {} => req[r].org \in Orgs,
           {again, after} \cap TargetLabels # {} => req[r].target \in Orgs,
           NextRegion(r, left, again, after)
    PROVE  \E q : Become(r, q) /\ ReqOK(q)
<1>1. \A label \in {again, after}, R \in SUBSET Regions :
        ReqOK([req[r] EXCEPT !.pc = label, !.regions = R])
  <2> SUFFICES ASSUME NEW label \in {again, after}, NEW R \in SUBSET Regions
               PROVE  ReqOK([req[r] EXCEPT !.pc = label, !.regions = R])
    OBVIOUS
  <2>1. req[r] \in Request
    BY DEF TypeOK
  <2>2. /\ label \in OrgLabels => req[r].org \in Orgs
        /\ label \in TargetLabels => req[r].target \in Orgs
    OBVIOUS
  <2> QED
    BY <2>1, <2>2 DEF ReqOK, Request
<1>2. CASE left # {}
  BY <1>1, <1>2 DEF NextRegion
<1>3. CASE left = {} /\ after = "idle"
  BY <1>3, IdleOK DEF NextRegion
<1>4. CASE left = {} /\ after # "idle"
  BY <1>1, <1>4 DEF NextRegion
<1> QED
  BY <1>2, <1>3, <1>4

\* A request that visits the next organization.
LEMMA NextOrgOK ==
    ASSUME TypeOK, NEW r \in Requests, NEW left \in SUBSET Orgs,
           NEW again \in Labels \ (OrgLabels \cup TargetLabels), NextOrg(r, left, again)
    PROVE  \E q : Become(r, q) /\ ReqOK(q)
<1>1. CASE left = {}
  BY <1>1, IdleOK DEF NextOrg
<1>2. CASE left # {}
  <2>1. req[r] \in Request
    BY DEF TypeOK
  <2>2. ReqOK([req[r] EXCEPT !.pc = again, !.orgs = left])
    BY <2>1 DEF ReqOK, Request
  <2> QED
    BY <1>2, <2>2 DEF NextOrg
<1> QED
  BY <1>1, <1>2

\* The tables keep their types and a slot takes up a well formed request.
LEMMA TablesType ==
    ASSUME TypeOK, NEW r \in Requests, \E q : Become(r, q) /\ ReqOK(q),
           organization' \in [Orgs -> OrganizationRow],
           member' \in [Orgs -> [Users -> MemberRows]],
           mapped' \in [Orgs -> [Regions -> RegionRows]],
           own' \in [Users -> SUBSET Regions],
           first' \in [Users -> BOOLEAN],
           namespace' \in [Regions -> SUBSET Slugs],
           stripped' \in SUBSET Slugs,
           asked' \in [Regions -> SUBSET Slugs],
           nextOrg' \in 1 .. MaxRequests + 1,
           issued' \in 0 .. MaxRequests
    PROVE  TypeOK'
BY BecomeType DEF TypeOK

\* A step that only reads.
LEMMA ReadsType ==
    ASSUME TypeOK, NEW r \in Requests, \E q : Become(r, q) /\ ReqOK(q), Reads
    PROVE  TypeOK'
BY TablesType DEF Reads, Tables, TypeOK

\* The clusters a user sees are regions.
LEMMA ActiveClusters ==
    ASSUME TypeOK, NEW u \in Users
    PROVE  GetActiveClusterDetails(u) \subseteq Regions /\ Platform \subseteq GetActiveClusterDetails(u)
BY OrganizationsAssumption DEF TypeOK, GetActiveClusterDetails

\* The organizations a client lists have a member, the user.
LEMMA Listed ==
    ASSUME TypeOK, NEW u \in Users, NEW o \in AllOrganizations(u)
    PROVE  o \in Orgs /\ Live(o) /\ HasMember(o)
<1>1. o \in Orgs /\ Live(o) /\ member[o][u].active > 0
  BY DEF AllOrganizations
<1>2. member[o][u].active \in Nat /\ member[o][u].inactive \in Nat
  BY <1>1 DEF TypeOK, MemberRows
<1> QED
  BY <1>1, <1>2 DEF HasMember, HasRow

\* A mutation that begins: its request, and nothing written.
LEMMA BeginStarts ==
    ASSUME TypeOK, NEW r \in Requests, NEW kind \in KindNames, NEW label \in FirstSteps,
           NEW q \in Request, Begin(r, kind, label, q),
           label \in OrgLabels => q.org \in Orgs /\ HasMember(q.org),
           label = "delete.find" => q.orgs = {},
           label = "invite.check" => \A o \in q.orgs : HasMember(o)
    PROVE  /\ At(r, "idle") /\ UNCHANGED Tables
           /\ issued' \in 0 .. MaxRequests
           /\ \E p : Become(r, p) /\ Started(p)
<1>1. PICK p : p = [q EXCEPT !.pc = label, !.kind = kind]
  OBVIOUS
<1>2. /\ p \in Request
      /\ p.pc = label /\ p.org = q.org /\ p.orgs = q.orgs
  BY <1>1 DEF Request, FirstSteps, Labels
<1>3. label \notin TargetLabels
  BY DEF FirstSteps, TargetLabels
<1>4. Started(p)
  BY <1>2, <1>3 DEF Started, ReqOK
<1>5. Become(r, p) /\ At(r, "idle") /\ UNCHANGED Tables
  BY <1>1 DEF Begin
<1>6. issued' \in 0 .. MaxRequests
  BY OrganizationsAssumption DEF Begin, TypeOK
<1> QED
  BY <1>4, <1>5, <1>6

\* A well formed request with another value in some of its fields.
LEMMA Named ==
    ASSUME NEW q \in Request
    PROVE  /\ \A n \in Names : [q EXCEPT !.name = n] \in Request
           /\ \A s \in Slugs : [q EXCEPT !.slug = s] \in Request
           /\ \A g \in Regions : [q EXCEPT !.region = g] \in Request
           /\ \A n \in Names, o \in Orgs : [q EXCEPT !.name = n, !.org = o] \in Request
BY DEF Request

\* A well formed request that names an organization.
LEMMA NamedOrg ==
    ASSUME NEW q \in Request, NEW o \in Orgs
    PROVE  /\ [q EXCEPT !.org = o] \in Request
           /\ [q EXCEPT !.org = o].org = o
           /\ [q EXCEPT !.org = o].orgs = q.orgs
BY DEF Request

\* Every mutation begins with a well formed request that names what its client has.
LEMMA MutationStarts ==
    ASSUME TypeOK, NEW r \in Requests, Mutation(r)
    PROVE  /\ At(r, "idle") /\ UNCHANGED Tables
           /\ issued' \in 0 .. MaxRequests
           /\ \E p : Become(r, p) /\ Started(p)
<1>1. \A u \in Users : By(u) \in Request /\ By(u).orgs = {}
  BY IdleOK DEF By, ReqOK, Request, Idle
<1>2. CASE Login(r)
  <2>1. PICK u \in Users : Begin(r, "login", "first.read", [By(u) EXCEPT !.name = CompanyOf[u]])
    BY <1>2 DEF Login
  <2> DEFINE q == [By(u) EXCEPT !.name = CompanyOf[u]]
  <2>2. q \in Request
    BY <1>1, Named, OrganizationsAssumption
  <2>3. Begin(r, "login", "first.read", q)
    BY <2>1
  <2> HIDE DEF q
  <2> QED
    BY <2>2, <2>3, BeginStarts DEF FirstSteps, KindNames, OrgLabels
<1>3. CASE CreateOrganization(r)
  <2>1. PICK u \in Users, n \in Names : Begin(r, "create", "create.count", [By(u) EXCEPT !.name = n])
    BY <1>3 DEF CreateOrganization
  <2> DEFINE q == [By(u) EXCEPT !.name = n]
  <2>2. q \in Request
    BY <1>1, Named
  <2>3. Begin(r, "create", "create.count", q)
    BY <2>1
  <2> HIDE DEF q
  <2> QED
    BY <2>2, <2>3, BeginStarts DEF FirstSteps, KindNames, OrgLabels
<1>4. CASE CreateSubOrganization(r)
  <2>1. PICK u \in Users, n \in Names, o \in Orgs :
            o \in AllOrganizations(u) /\ Begin(r, "createsub", "create.count", [By(u) EXCEPT !.name = n, !.org = o])
    BY <1>4 DEF AllOrganizations, CreateSubOrganization
  <2> DEFINE q == [By(u) EXCEPT !.name = n, !.org = o]
  <2>2. q \in Request
    BY <1>1, Named
  <2>3. Begin(r, "createsub", "create.count", q)
    BY <2>1
  <2> HIDE DEF q
  <2> QED
    BY <2>2, <2>3, BeginStarts DEF FirstSteps, KindNames, OrgLabels
<1>5. CASE DeleteOrganization(r) \/ DeleteSubOrganization(r)
  <2>1. PICK u \in Users, o \in Orgs, kind \in {"delete", "deletesub"} :
            o \in AllOrganizations(u) /\ Begin(r, kind, "delete.find", [By(u) EXCEPT !.org = o])
    BY <1>5 DEF AllOrganizations, DeleteOrganization, DeleteSubOrganization
  <2>2. HasMember(o)
    BY <2>1, Listed
  <2> DEFINE q == [By(u) EXCEPT !.org = o]
  <2>3. q \in Request /\ q.org = o /\ q.orgs = {}
    BY <1>1, NamedOrg
  <2>4. Begin(r, kind, "delete.find", q)
    BY <2>1
  <2> HIDE DEF q
  <2> QED
    BY <2>2, <2>3, <2>4, BeginStarts DEF FirstSteps, KindNames, OrgLabels
<1>6. CASE UpdateOrganization(r)
  <2>1. PICK u \in Users, o \in Orgs :
            o \in AllOrganizations(u) /\ Begin(r, "update", "update.list", [By(u) EXCEPT !.slug = organization[o].slug])
    BY <1>6 DEF AllOrganizations, UpdateOrganization
  <2> DEFINE q == [By(u) EXCEPT !.slug = organization[o].slug]
  <2>2. q \in Request
    BY <1>1, Named DEF TypeOK, OrganizationRow
  <2>3. Begin(r, "update", "update.list", q)
    BY <2>1
  <2> HIDE DEF q
  <2> QED
    BY <2>2, <2>3, BeginStarts DEF FirstSteps, KindNames, OrgLabels
<1>7. CASE UpdateDefaultRegion(r)
  <2>1. PICK u \in Users, o \in Orgs, g \in Regions :
            o \in AllOrganizations(u) /\ Begin(r, "default", "default.clear", [By(u) EXCEPT !.org = o, !.region = g])
    BY <1>7 DEF AllOrganizations, UpdateDefaultRegion
  <2>2. HasMember(o)
    BY <2>1, Listed
  <2> DEFINE q == [By(u) EXCEPT !.org = o, !.region = g]
  <2>3. q \in Request /\ q.org = o
    <3>1. By(u) \in Request
      BY <1>1
    <3> QED
      BY <3>1 DEF Request
  <2>4. Begin(r, "default", "default.clear", q)
    BY <2>1
  <2> HIDE DEF q
  <2> QED
    BY <2>2, <2>3, <2>4, BeginStarts DEF FirstSteps, KindNames, OrgLabels
<1>8. CASE MutipleRegion(r)
  <2>1. PICK u \in Users, isDefault \in BOOLEAN, o \in Orgs, R \in SUBSET Regions :
            o \in AllOrganizations(u) /\ Begin(r, "regions", "regions.count",
                  [By(u) EXCEPT !.org = o, !.regions = R, !.isDefault = isDefault])
    BY <1>8 DEF AllOrganizations, MutipleRegion
  <2>2. HasMember(o)
    BY <2>1, Listed
  <2> DEFINE q == [By(u) EXCEPT !.org = o, !.regions = R, !.isDefault = isDefault]
  <2>3. q \in Request /\ q.org = o
    <3>1. By(u) \in Request
      BY <1>1
    <3> QED
      BY <3>1 DEF Request
  <2>4. Begin(r, "regions", "regions.count", q)
    BY <2>1
  <2> HIDE DEF q
  <2> QED
    BY <2>2, <2>3, <2>4, BeginStarts DEF FirstSteps, KindNames, OrgLabels
<1>9. CASE AddRegionUsingKubeConfig(r) \/ DeleteKubeConfigRegion(r)
  <2>1. PICK u \in Users, g \in Regions, kind \in {"addcluster", "dropcluster"},
             label \in {"cluster.count", "cluster.check"} :
            Begin(r, kind, label, [By(u) EXCEPT !.region = g])
    BY <1>9 DEF AddRegionUsingKubeConfig, DeleteKubeConfigRegion, TypeOK
  <2> DEFINE q == [By(u) EXCEPT !.region = g]
  <2>2. q \in Request
    BY <1>1, Named
  <2>3. Begin(r, kind, label, q)
    BY <2>1
  <2> HIDE DEF q
  <2> QED
    BY <2>2, <2>3, BeginStarts DEF FirstSteps, KindNames, OrgLabels
<1>10. CASE AddUserAddedregionsToOrganizatiom(r)
  <2>1. PICK u \in Users, o \in Orgs :
            o \in AllOrganizations(u) /\ Begin(r, "addregions", "add.missing", [By(u) EXCEPT !.org = o])
    BY <1>10 DEF AllOrganizations, AddUserAddedregionsToOrganizatiom
  <2>2. HasMember(o)
    BY <2>1, Listed
  <2> DEFINE q == [By(u) EXCEPT !.org = o]
  <2>3. q \in Request /\ q.org = o
    BY <1>1, NamedOrg
  <2>4. Begin(r, "addregions", "add.missing", q)
    BY <2>1
  <2> HIDE DEF q
  <2> QED
    BY <2>2, <2>3, <2>4, BeginStarts DEF FirstSteps, KindNames, OrgLabels
<1>11. CASE AddUserToOrg(r)
  <2>1. PICK u \in Users, guest \in Users, O \in SUBSET Orgs :
            O \subseteq AllOrganizations(u) /\ Begin(r, "invite", "invite.check", [By(guest) EXCEPT !.orgs = O])
    BY <1>11 DEF AllOrganizations, AddUserToOrg
  <2>2. \A o \in O : HasMember(o)
    BY <2>1, Listed
  <2> DEFINE q == [By(guest) EXCEPT !.orgs = O]
  <2>3. q \in Request /\ q.orgs = O
    <3>1. By(guest) \in Request
      BY <1>1
    <3> QED
      BY <3>1 DEF Request
  <2>4. Begin(r, "invite", "invite.check", q)
    BY <2>1
  <2> HIDE DEF q
  <2> QED
    BY <2>2, <2>3, <2>4, BeginStarts DEF FirstSteps, KindNames, OrgLabels
<1>12. CASE RemoveUserOrg(r)
  <2>1. PICK u \in Users, guest \in Users, o \in Orgs :
            o \in AllOrganizations(u) /\ Begin(r, "remove", "remove.check", [By(guest) EXCEPT !.org = o])
    BY <1>12 DEF AllOrganizations, RemoveUserOrg
  <2>2. HasMember(o)
    BY <2>1, Listed
  <2> DEFINE q == [By(guest) EXCEPT !.org = o]
  <2>3. q \in Request /\ q.org = o
    BY <1>1, NamedOrg
  <2>4. Begin(r, "remove", "remove.check", q)
    BY <2>1
  <2> HIDE DEF q
  <2> QED
    BY <2>2, <2>3, <2>4, BeginStarts DEF FirstSteps, KindNames, OrgLabels
<1>13. CASE CreateNamespaceInCluster(r)
  <2>1. PICK s \in Slugs :
            Begin(r, "namespaces", "spaces.create", [Idle EXCEPT !.slug = s, !.regions = Platform])
    BY <1>13 DEF CreateNamespaceInCluster
  <2> DEFINE q == [Idle EXCEPT !.slug = s, !.regions = Platform]
  <2>2. q \in Request
    <3>1. Idle \in Request /\ Platform \in SUBSET Regions
      BY IdleOK, OrganizationsAssumption DEF ReqOK
    <3> QED
      BY <3>1 DEF Request
  <2>3. Begin(r, "namespaces", "spaces.create", q)
    BY <2>1
  <2> HIDE DEF q
  <2> QED
    BY <2>2, <2>3, BeginStarts DEF FirstSteps, KindNames, OrgLabels
<1> QED
  BY <1>2, <1>3, <1>4, <1>5, <1>6, <1>7, <1>8, <1>9, <1>10, <1>11, <1>12, <1>13 DEF Mutation

-----------------------------------------------------------------------------
\* The steps of Login and of a creation, before the row.
LEMMA LookupType ==
    ASSUME TypeOK, NEW r \in Requests,
           FirstRead(r) \/ FirstSlug(r) \/ CreateCount(r) \/ CreateFind(r) \/ CreateCheck(r)
    PROVE  TypeOK'
<1>1. ReqOK(req[r]) /\ req[r] \in Request
  BY RequestOK DEF ReqOK
<1>2. SlugOf[req[r].name] \in Slugs /\ Numbered[req[r].name] \subseteq Slugs
  BY <1>1, OrganizationsAssumption DEF Request
<1>3. \A s \in Slugs, d \in BOOLEAN :
        /\ ReqOK([req[r] EXCEPT !.pc = "create.insert", !.slug = s])
        /\ ReqOK([req[r] EXCEPT !.pc = "create.insert", !.slug = s, !.isDefault = d])
  <2>1. "create.insert" \in Labels \ (OrgLabels \cup TargetLabels)
    BY DEF Labels, OrgLabels, TargetLabels
  <2> QED
    BY <1>1, <2>1 DEF ReqOK, Request
<1>4. CASE FirstRead(r)
  <2>1. ReqOK([req[r] EXCEPT !.pc = "first.slug"])
    BY GotoOK DEF Labels, OrgLabels, TargetLabels
  <2> QED
    BY <1>4, <2>1, IdleOK, ReadsType DEF FirstRead, Goto, End
<1>5. CASE FirstSlug(r)
  <2>1. PICK s \in Slugs : Become(r, [req[r] EXCEPT !.pc = "create.insert", !.slug = s, !.isDefault = TRUE])
    BY <1>2, <1>5 DEF FirstSlug, Renamed
  <2>2. ReqOK([req[r] EXCEPT !.pc = "create.insert", !.slug = s, !.isDefault = TRUE])
    BY <1>3
  <2> QED
    BY <1>5, <2>1, <2>2, ReadsType DEF FirstSlug
<1>6. CASE CreateCount(r)
  <2>1. ReqOK([req[r] EXCEPT !.pc = "create.find"])
    BY GotoOK DEF Labels, OrgLabels, TargetLabels
  <2> QED
    BY <1>6, <2>1, IdleOK, ReadsType DEF CreateCount, Goto, End
<1>7. CASE CreateFind(r)
  <2>1. CASE Become(r, [req[r] EXCEPT !.pc = "create.insert", !.slug = SlugOf[req[r].name]])
    <3>1. ReqOK([req[r] EXCEPT !.pc = "create.insert", !.slug = SlugOf[req[r].name]])
      BY <1>2, <1>3
    <3> QED
      BY <1>7, <2>1, <3>1, ReadsType DEF CreateFind
  <2>2. ASSUME NEW o \in Orgs, Become(r, [req[r] EXCEPT !.pc = "create.check", !.target = o])
        PROVE  TypeOK'
    <3>1. ReqOK([req[r] EXCEPT !.pc = "create.check", !.target = o])
      BY <1>1 DEF ReqOK, Request, Labels, OrgLabels, TargetLabels
    <3> QED
      BY <1>7, <2>2, <3>1, ReadsType DEF CreateFind
  <2> QED
    BY <1>7, <2>1, <2>2 DEF CreateFind, GetOrganization
<1>8. CASE CreateCheck(r)
  <2>1. CASE End(r)
    BY <1>8, <2>1, IdleOK, ReadsType DEF CreateCheck, End
  <2>2. ASSUME NEW s \in Slugs, Become(r, [req[r] EXCEPT !.pc = "create.insert", !.slug = s])
        PROVE  TypeOK'
    BY <1>3, <1>8, <2>2, ReadsType DEF CreateCheck
  <2> QED
    BY <1>2, <1>8, <2>1, <2>2 DEF CreateCheck, Renamed
<1> QED
  BY <1>4, <1>5, <1>6, <1>7, <1>8

\* One more row of a region.
LEMMA CountType ==
    ASSUME TypeOK, NEW o \in Orgs, NEW g \in Regions
    PROVE  /\ [mapped EXCEPT ![o][g].default = @ + 1] \in [Orgs -> [Regions -> RegionRows]]
           /\ [mapped EXCEPT ![o][g].plain = @ + 1] \in [Orgs -> [Regions -> RegionRows]]
<1>1. mapped \in [Orgs -> [Regions -> RegionRows]] /\ mapped[o][g] \in RegionRows
  BY DEF TypeOK
<1>2. /\ [mapped[o][g] EXCEPT !.default = @ + 1] \in RegionRows
      /\ [mapped[o][g] EXCEPT !.plain = @ + 1] \in RegionRows
  BY <1>1 DEF RegionRows
<1> QED
  BY <1>1, <1>2

\* The row of a creation, and its regions.
LEMMA MapType ==
    ASSUME TypeOK, NEW r \in Requests,
           CreateInsert(r) \/ MapNamespace(r) \/ MapRegion(r)
    PROVE  TypeOK'
<1>1. ReqOK(req[r]) /\ req[r] \in Request
  BY RequestOK DEF ReqOK
<1>2. CASE CreateInsert(r)
  <2>1. \A n \in Orgs, R \in SUBSET Regions :
            ReqOK([req[r] EXCEPT !.pc = "map.namespace", !.target = n, !.regions = R])
    <3>1. "map.namespace" \in Labels \ OrgLabels
      BY DEF Labels, OrgLabels
    <3> QED
      BY <1>1, <3>1 DEF ReqOK, Request
  <2>2. GetActiveClusterDetails(req[r].user) \in SUBSET Regions
    BY <1>1, ActiveClusters DEF Request
  <2>3. \E q : Become(r, q) /\ ReqOK(q)
    BY <1>2, <2>1, <2>2 DEF CreateInsert
  <2>4. [status |-> "live", slug |-> req[r].slug, parent |-> req[r].org,
         default |-> req[r].isDefault] \in OrganizationRow
    BY <1>1 DEF Request, OrganizationRow
  <2>5. organization' \in [Orgs -> OrganizationRow]
    BY <1>2, <2>4 DEF CreateInsert, TypeOK
  <2>6. nextOrg' \in 1 .. MaxRequests + 1
    BY <1>2, OrganizationsAssumption DEF CreateInsert, TypeOK, Orgs
  <2> QED
    BY <1>2, <2>3, <2>5, <2>6, TablesType DEF CreateInsert, OnlyOrganization, TypeOK
<1>3. CASE MapNamespace(r)
  <2>1. \A g \in req[r].regions :
            ReqOK([req[r] EXCEPT !.pc = "map.region", !.region = g, !.regions = @ \ {g}])
    BY <1>1, <1>3 DEF MapNamespace, At, ReqOK, Request, Labels, OrgLabels, TargetLabels
  <2>2. \E q : Become(r, q) /\ ReqOK(q)
    BY <1>3, <2>1, IdleOK DEF MapNamespace, End
  <2>3. namespace' \in [Regions -> SUBSET Slugs]
    <3>1. req[r].slug \in Slugs /\ namespace \in [Regions -> SUBSET Slugs]
      BY <1>1 DEF Request, TypeOK
    <3>2. \A g \in Regions :
            [namespace EXCEPT ![g] = @ \cup {req[r].slug}] \in [Regions -> SUBSET Slugs]
      BY <3>1
    <3>3. \/ \E g \in Regions : namespace' = [namespace EXCEPT ![g] = @ \cup {req[r].slug}]
          \/ UNCHANGED namespace
      BY <1>1, <1>3 DEF MapNamespace, Request
    <3> QED
      BY <3>1, <3>2, <3>3
  <2> QED
    BY <1>3, <2>2, <2>3, TablesType DEF MapNamespace, OnlyNamespace, TypeOK
<1>4. CASE MapRegion(r)
  <2>1. req[r].target \in Orgs /\ req[r].region \in Regions /\ req[r].regions \in SUBSET Regions
    BY <1>1, <1>4 DEF MapRegion, At, ReqOK, TargetLabels, Request
  <2>2. NextRegion(r, req[r].regions, "map.namespace", "map.member")
    BY <1>4 DEF MapRegion
  <2>3. \E q : Become(r, q) /\ ReqOK(q)
    BY <2>1, <2>2, NextRegionOK DEF Labels, OrgLabels, TargetLabels
  <2>4. \A o \in Orgs, g \in Regions :
            /\ [mapped EXCEPT ![o][g].default = @ + 1] \in [Orgs -> [Regions -> RegionRows]]
            /\ [mapped EXCEPT ![o][g].plain = @ + 1] \in [Orgs -> [Regions -> RegionRows]]
    BY CountType
  <2>5. mapped' \in [Orgs -> [Regions -> RegionRows]]
    BY <1>4, <2>1, <2>4 DEF MapRegion
  <2> QED
    BY <1>4, <2>3, <2>5, TablesType DEF MapRegion, OnlyMapped, TypeOK
<1> QED
  BY <1>2, <1>3, <1>4

\* Another member, and the first organization of a user.
LEMMA MemberType ==
    ASSUME TypeOK, NEW r \in Requests, MapMember(r) \/ FirstDone(r) \/ Members(r)
    PROVE  TypeOK'
<1>1. ReqOK(req[r]) /\ req[r] \in Request
  BY RequestOK DEF ReqOK
<1>2. ASSUME NEW o \in Orgs, NEW u \in Users
      PROVE  AddUser(o, u) \in [Orgs -> [Users -> MemberRows]]
  <2>1. member[o][u] \in MemberRows /\ member \in [Orgs -> [Users -> MemberRows]]
    BY DEF TypeOK
  <2>2. [member[o][u] EXCEPT !.active = @ + 1] \in MemberRows
    BY <2>1 DEF MemberRows
  <2> QED
    BY <2>1, <2>2 DEF AddUser
<1>3. CASE MapMember(r)
  <2>1. req[r].target \in Orgs /\ req[r].user \in Users
    BY <1>1, <1>3 DEF MapMember, At, ReqOK, TargetLabels, Request
  <2>2. ReqOK([req[r] EXCEPT !.pc = "first.done"])
    BY GotoOK DEF Labels, OrgLabels, TargetLabels
  <2> QED
    BY <1>2, <1>3, <2>1, <2>2, IdleOK, TablesType DEF MapMember, Goto, End, OnlyMember, TypeOK
<1>4. CASE FirstDone(r)
  BY <1>1, <1>4, IdleOK, TablesType DEF FirstDone, End, TypeOK
<1>5. CASE InviteCheck(r)
  <2>1. PICK o \in req[r].orgs :
            IF HasRow(o, req[r].user) THEN NextOrg(r, req[r].orgs \ {o}, "invite.check")
            ELSE Become(r, [req[r] EXCEPT !.pc = "invite.insert", !.target = o])
    BY <1>5 DEF InviteCheck
  <2>2. o \in Orgs /\ req[r].orgs \ {o} \in SUBSET Orgs
    BY <1>1 DEF Request
  <2>3. ReqOK([req[r] EXCEPT !.pc = "invite.insert", !.target = o])
    BY <1>1, <2>2 DEF ReqOK, Request, Labels, OrgLabels, TargetLabels
  <2>4. "invite.check" \in Labels \ (OrgLabels \cup TargetLabels)
    BY DEF Labels, OrgLabels, TargetLabels
  <2> QED
    BY <1>5, <2>1, <2>2, <2>3, <2>4, NextOrgOK, ReadsType DEF InviteCheck
<1>6. CASE InviteInsert(r)
  <2>1. /\ req[r].target \in Orgs /\ req[r].user \in Users
        /\ req[r].orgs \ {req[r].target} \in SUBSET Orgs
    BY <1>1, <1>6 DEF InviteInsert, At, ReqOK, TargetLabels, Request
  <2>2. "invite.check" \in Labels \ (OrgLabels \cup TargetLabels)
    BY DEF Labels, OrgLabels, TargetLabels
  <2>3. \E q : Become(r, q) /\ ReqOK(q)
    BY <1>6, <2>1, <2>2, NextOrgOK DEF InviteInsert
  <2> QED
    BY <1>2, <1>6, <2>1, <2>3, TablesType DEF InviteInsert, OnlyMember, TypeOK
<1>7. CASE RemoveCheck(r)
  <2>1. ReqOK([req[r] EXCEPT !.pc = "remove.write"])
    BY <1>1, <1>7, GotoOK DEF RemoveCheck, At, ReqOK, Labels, OrgLabels, TargetLabels
  <2> QED
    BY <1>7, <2>1, IdleOK, ReadsType DEF RemoveCheck, Goto, End
<1>8. CASE RemoveWrite(r)
  <2>1. req[r].org \in Orgs /\ req[r].user \in Users
    BY <1>1, <1>8 DEF RemoveWrite, At, ReqOK, OrgLabels, Request
  <2>2. \A m \in MemberRows : [active |-> 0, inactive |-> m.active + m.inactive] \in MemberRows
    BY DEF MemberRows
  <2>3. member' \in [Orgs -> [Users -> MemberRows]]
    BY <1>8, <2>1, <2>2 DEF RemoveWrite, TypeOK
  <2> QED
    BY <1>8, <2>3, IdleOK, TablesType DEF RemoveWrite, End, OnlyMember, TypeOK
<1> QED
  BY <1>3, <1>4, <1>5, <1>6, <1>7, <1>8 DEF Members

\* A deletion.
LEMMA DeleteType ==
    ASSUME TypeOK, NEW r \in Requests, Delete(r)
    PROVE  TypeOK'
<1>1. ReqOK(req[r]) /\ req[r] \in Request
  BY RequestOK DEF ReqOK
<1>2. req[r].org \in Orgs
  BY <1>1 DEF Delete, DeleteFind, DeleteSubs, DeleteNext, DestroyNamespaces, DestroyRows,
              At, ReqOK, OrgLabels
<1>3. \A label \in {"delete.subs", "delete.next"}, O \in SUBSET Orgs :
        /\ ReqOK([req[r] EXCEPT !.pc = label])
        /\ ReqOK([req[r] EXCEPT !.pc = label, !.orgs = O])
  <2>1. {"delete.subs", "delete.next"} \subseteq Labels \ TargetLabels
    BY DEF Labels, TargetLabels
  <2> QED
    BY <1>1, <1>2, <2>1 DEF ReqOK, Request
<1>4. CASE DeleteFind(r)
  BY <1>3, <1>4, IdleOK, ReadsType DEF DeleteFind, Goto, End
<1>5. CASE DeleteSubs(r)
  <2>1. GetSubOrganization(req[r].org) \in SUBSET Orgs
    BY DEF GetSubOrganization
  <2> QED
    BY <1>3, <1>5, <2>1, ReadsType DEF DeleteSubs
<1>6. CASE DeleteNext(r)
  <2>1. GetActiveClusterDetails(req[r].user) \in SUBSET Regions
    BY <1>1, ActiveClusters DEF Request
  <2>2. \A o \in Orgs :
            ReqOK([req[r] EXCEPT !.pc = "destroy.namespaces", !.target = o, !.orgs = @ \ {o},
                                 !.slug = organization[o].slug,
                                 !.regions = GetActiveClusterDetails(req[r].user)])
    <3>1. "destroy.namespaces" \in Labels
      BY DEF Labels
    <3>2. \A o \in Orgs : organization[o].slug \in Slugs
      BY DEF TypeOK, OrganizationRow
    <3> QED
      BY <1>1, <1>2, <2>1, <3>1, <3>2 DEF ReqOK, Request
  <2>3. At(r, "delete.next") /\ req[r].orgs \subseteq Orgs
    BY <1>1, <1>6 DEF DeleteNext, Request
  <2>4. \A o \in Orgs : ReqOK([req[r] EXCEPT !.orgs = @ \ {o}])
    BY <1>1, <1>2, <2>3 DEF ReqOK, Request, At, TargetLabels
  <2>5. \E q : Become(r, q) /\ ReqOK(q)
    BY <1>2, <1>6, <2>2, <2>3, <2>4, IdleOK DEF DeleteNext, End
  <2> QED
    BY <1>6, <2>5, ReadsType DEF DeleteNext
<1>7. CASE DestroyNamespaces(r)
  <2>1. /\ req[r].target \in Orgs /\ req[r].slug \in Slugs /\ req[r].regions \subseteq Regions
    BY <1>1, <1>7 DEF DestroyNamespaces, At, ReqOK, TargetLabels, Request
  <2>2. PICK g \in Regions :
            NextRegion(r, req[r].regions \ {g}, "destroy.namespaces", "destroy.rows")
    BY <1>7, <2>1 DEF DestroyNamespaces
  <2>3. \E q : Become(r, q) /\ ReqOK(q)
    BY <1>2, <2>1, <2>2, NextRegionOK DEF Labels
  <2>4. namespace' \in [Regions -> SUBSET Slugs] /\ asked' \in [Regions -> SUBSET Slugs]
    <3>1. namespace \in [Regions -> SUBSET Slugs] /\ asked \in [Regions -> SUBSET Slugs]
      BY DEF TypeOK
    <3>2. CASE UNCHANGED <<namespace, asked>>
      BY <3>1, <3>2
    <3>3. ASSUME NEW h \in Regions, RemoveNamespace(h, req[r].slug)
          PROVE  namespace' \in [Regions -> SUBSET Slugs] /\ asked' \in [Regions -> SUBSET Slugs]
      BY <3>1, <3>3 DEF RemoveNamespace
    <3> QED
      BY <1>7, <2>1, <3>2, <3>3 DEF DestroyNamespaces
  <2>5. stripped' \in SUBSET Slugs
    BY <1>7, <2>1 DEF DestroyNamespaces, TypeOK
  <2> QED
    BY <1>7, <2>3, <2>4, <2>5, TablesType DEF DestroyNamespaces, OnlyNamespace, TypeOK
<1>8. CASE DestroyRows(r)
  <2>1. req[r].target \in Orgs
    BY <1>1, <1>8 DEF DestroyRows, At, ReqOK, TargetLabels
  <2>2. organization' \in [Orgs -> OrganizationRow]
    <3>1. organization \in [Orgs -> OrganizationRow]
      BY DEF TypeOK
    <3>2. [organization[req[r].target] EXCEPT !.status = "deleted"] \in OrganizationRow
      BY <2>1, <3>1 DEF OrganizationRow
    <3> QED
      BY <1>8, <2>1, <3>1, <3>2 DEF DestroyRows
  <2> QED
    BY <1>3, <1>8, <2>2, IdleOK, TablesType DEF DestroyRows, Goto, End, OnlyOrganization, TypeOK
<1> QED
  BY <1>4, <1>5, <1>6, <1>7, <1>8 DEF Delete

\* The default organization and the default regions.
LEMMA DefaultsType ==
    ASSUME TypeOK, NEW r \in Requests,
           \/ UpdateList(r) \/ UpdateType(r) \/ DefaultClear(r) \/ DefaultSet(r)
           \/ RegionsCount(r) \/ RegionsSet(r)
    PROVE  TypeOK'
<1>1. ReqOK(req[r]) /\ req[r] \in Request
  BY RequestOK DEF ReqOK
<1>2. "update.type" \in Labels \ (OrgLabels \cup TargetLabels)
  BY DEF Labels, OrgLabels, TargetLabels
<1>3. {"default.set", "regions.set", "idle"} \subseteq Labels \ TargetLabels
  BY DEF Labels, TargetLabels
<1>4. \A o \in Orgs, g \in Regions, d \in BOOLEAN : Marked(o, g, d) \in RegionRows
  BY DEF Marked, RowCount, TypeOK, RegionRows
<1>5. CASE UpdateList(r)
  <2>1. AllOrganizations(req[r].user) \in SUBSET Orgs
    BY DEF AllOrganizations
  <2> QED
    BY <1>2, <1>5, <2>1, NextOrgOK, ReadsType DEF UpdateList
<1>6. CASE UpdateType(r)
  <2>1. PICK o \in Orgs :
            /\ organization' = [x \in Orgs |->
                    IF organization[x].status # "none"
                       /\ organization[x].slug = organization[o].slug
                    THEN [organization[x] EXCEPT !.default = organization[o].slug = req[r].slug]
                    ELSE organization[x]]
            /\ NextOrg(r, req[r].orgs \ {o}, "update.type")
    BY <1>1, <1>6 DEF UpdateType, Request
  <2>2. organization' \in [Orgs -> OrganizationRow]
    <3>1. organization \in [Orgs -> OrganizationRow]
      BY DEF TypeOK
    <3>2. \A x \in Orgs, d \in BOOLEAN : [organization[x] EXCEPT !.default = d] \in OrganizationRow
      BY <3>1 DEF OrganizationRow
    <3>3. (organization[o].slug = req[r].slug) \in BOOLEAN
      OBVIOUS
    <3> QED
      BY <2>1, <3>1, <3>2, <3>3
  <2>3. req[r].orgs \ {o} \in SUBSET Orgs
    BY <1>1 DEF Request
  <2>4. \E q : Become(r, q) /\ ReqOK(q)
    BY <1>2, <2>1, <2>3, NextOrgOK
  <2> QED
    BY <1>6, <2>2, <2>4, TablesType DEF UpdateType, OnlyOrganization, TypeOK
<1>7. CASE DefaultClear(r)
  <2>1. req[r].org \in Orgs
    BY <1>1, <1>7 DEF DefaultClear, At, ReqOK, OrgLabels
  <2>2. mapped' \in [Orgs -> [Regions -> RegionRows]]
    BY <1>4, <1>7, <2>1 DEF DefaultClear, TypeOK
  <2>3. ReqOK([req[r] EXCEPT !.pc = "default.set"])
    BY <1>3, <2>1, GotoOK
  <2> QED
    BY <1>7, <2>2, <2>3, TablesType DEF DefaultClear, Goto, OnlyMapped, TypeOK
<1>8. CASE DefaultSet(r)
  <2>1. req[r].org \in Orgs /\ req[r].region \in Regions
    BY <1>1, <1>8 DEF DefaultSet, At, ReqOK, OrgLabels, Request
  <2>2. mapped' \in [Orgs -> [Regions -> RegionRows]]
    BY <1>4, <1>8, <2>1 DEF DefaultSet, TypeOK
  <2> QED
    BY <1>8, <2>2, IdleOK, TablesType DEF DefaultSet, End, OnlyMapped, TypeOK
<1>9. CASE RegionsCount(r)
  <2>1. req[r].org \in Orgs
    BY <1>1, <1>9 DEF RegionsCount, At, ReqOK, OrgLabels
  <2>2. ReqOK([req[r] EXCEPT !.pc = "regions.set"])
    BY <1>3, <2>1, GotoOK
  <2> QED
    BY <1>9, <2>2, IdleOK, ReadsType DEF RegionsCount, Goto, End
<1>10. CASE RegionsSet(r)
  <2>1. req[r].org \in Orgs /\ req[r].regions \subseteq Regions /\ req[r].isDefault \in BOOLEAN
    BY <1>1, <1>10 DEF RegionsSet, At, ReqOK, OrgLabels, Request
  <2>2. PICK g \in Regions :
            /\ mapped' = [mapped EXCEPT ![req[r].org][g] = Marked(req[r].org, g, req[r].isDefault)]
            /\ NextRegion(r, req[r].regions \ {g}, "regions.set", "idle")
    BY <1>10, <2>1 DEF RegionsSet
  <2>3. mapped' \in [Orgs -> [Regions -> RegionRows]]
    BY <1>4, <2>1, <2>2 DEF TypeOK
  <2>4. \E q : Become(r, q) /\ ReqOK(q)
    BY <1>3, <2>1, <2>2, NextRegionOK
  <2> QED
    BY <1>10, <2>3, <2>4, TablesType DEF RegionsSet, OnlyMapped, TypeOK
<1> QED
  BY <1>5, <1>6, <1>7, <1>8, <1>9, <1>10

\* A user's own clusters, and their way into an organization.
LEMMA ClustersType ==
    ASSUME TypeOK, NEW r \in Requests,
           \/ ClusterCount(r) \/ ClusterInsert(r) \/ ClusterCheck(r) \/ ClusterDrop(r)
           \/ AddMissing(r) \/ AddRow(r) \/ AddNamespace(r)
    PROVE  TypeOK'
<1>1. ReqOK(req[r]) /\ req[r] \in Request
  BY RequestOK DEF ReqOK
<1>2. /\ req[r].user \in Users /\ req[r].region \in Regions
      /\ req[r].regions \in SUBSET Regions
  BY <1>1 DEF Request
<1>3. \A label \in {"cluster.insert", "cluster.drop"} : ReqOK([req[r] EXCEPT !.pc = label])
  BY GotoOK DEF Labels, OrgLabels, TargetLabels
<1>4. {"add.row", "add.namespace", "idle"} \subseteq Labels \ TargetLabels
  BY DEF Labels, TargetLabels
<1>5. CASE ClusterCount(r)
  BY <1>3, <1>5, IdleOK, ReadsType DEF ClusterCount, Goto, End
<1>6. CASE ClusterInsert(r)
  <2>1. own' \in [Users -> SUBSET Regions]
    BY <1>2, <1>6 DEF ClusterInsert, TypeOK
  <2> QED
    BY <1>6, <2>1, IdleOK, TablesType DEF ClusterInsert, End, OnlyOwn, TypeOK
<1>7. CASE ClusterCheck(r)
  BY <1>3, <1>7, IdleOK, ReadsType DEF ClusterCheck, Goto, End
<1>8. CASE ClusterDrop(r)
  <2>1. own' \in [Users -> SUBSET Regions]
    BY <1>2, <1>8 DEF ClusterDrop, TypeOK
  <2> QED
    BY <1>8, <2>1, IdleOK, TablesType DEF ClusterDrop, End, OnlyOwn, TypeOK
<1>9. CASE AddMissing(r)
  <2>1. req[r].org \in Orgs
    BY <1>1, <1>9 DEF AddMissing, At, ReqOK, OrgLabels
  <2>2. {g \in GetActiveClusterDetails(req[r].user) : RowCount(req[r].org, g) = 0}
            \in SUBSET Regions
    BY <1>2, ActiveClusters
  <2>3. \E q : Become(r, q) /\ ReqOK(q)
    BY <1>4, <1>9, <2>1, <2>2, NextRegionOK DEF AddMissing
  <2> QED
    BY <1>9, <2>3, ReadsType DEF AddMissing
<1>10. CASE AddRow(r)
  <2>1. req[r].org \in Orgs
    BY <1>1, <1>10 DEF AddRow, At, ReqOK, OrgLabels
  <2>2. PICK g \in req[r].regions :
            \/ /\ mapped' = [mapped EXCEPT ![req[r].org][g].plain = @ + 1]
               /\ Become(r, [req[r] EXCEPT !.pc = "add.namespace", !.region = g,
                                           !.regions = @ \ {g}])
            \/ /\ NextRegion(r, req[r].regions \ {g}, "add.row", "idle")
               /\ UNCHANGED mapped
    BY <1>10 DEF AddRow
  <2>3. g \in Regions /\ req[r].regions \ {g} \in SUBSET Regions
    BY <1>2
  <2>4. mapped' \in [Orgs -> [Regions -> RegionRows]]
    <3>1. mapped \in [Orgs -> [Regions -> RegionRows]]
      BY DEF TypeOK
    <3>2. [mapped EXCEPT ![req[r].org][g].plain = @ + 1] \in [Orgs -> [Regions -> RegionRows]]
      BY <2>1, <2>3, CountType
    <3> QED
      BY <2>2, <3>1, <3>2
  <2>5. ReqOK([req[r] EXCEPT !.pc = "add.namespace", !.region = g, !.regions = @ \ {g}])
    BY <1>1, <1>4, <2>1, <2>3 DEF ReqOK, Request
  <2>6. \E q : Become(r, q) /\ ReqOK(q)
    BY <1>4, <2>1, <2>2, <2>3, <2>5, NextRegionOK
  <2> QED
    BY <1>10, <2>4, <2>6, TablesType DEF AddRow, OnlyMapped, TypeOK
<1>11. CASE AddNamespace(r)
  <2>1. req[r].org \in Orgs
    BY <1>1, <1>11 DEF AddNamespace, At, ReqOK, OrgLabels
  <2>2. namespace' \in [Regions -> SUBSET Slugs]
    <3>1. organization[req[r].org].slug \in Slugs
      BY <2>1 DEF TypeOK, OrganizationRow
    <3> QED
      BY <1>2, <1>11, <3>1 DEF AddNamespace, TypeOK
  <2>3. \E q : Become(r, q) /\ ReqOK(q)
    BY <1>2, <1>4, <1>11, <2>1, NextRegionOK DEF AddNamespace
  <2> QED
    BY <1>11, <2>2, <2>3, TablesType DEF AddNamespace, OnlyNamespace, TypeOK
<1> QED
  BY <1>5, <1>6, <1>7, <1>8, <1>9, <1>10, <1>11

\* A namespace that a client asked for by name.
LEMMA SpacesType ==
    ASSUME TypeOK, NEW r \in Requests, SpacesCreate(r)
    PROVE  TypeOK'
<1>1. req[r] \in Request /\ req[r].slug \in Slugs /\ req[r].regions \subseteq Regions
  BY DEF TypeOK, Request
<1>2. PICK g \in Regions : NextRegion(r, req[r].regions \ {g}, "spaces.create", "idle")
  BY <1>1 DEF SpacesCreate
<1>3. \E q : Become(r, q) /\ ReqOK(q)
  BY <1>1, <1>2, NextRegionOK DEF Labels, OrgLabels, TargetLabels
<1>4. namespace' \in [Regions -> SUBSET Slugs] /\ asked' \in [Regions -> SUBSET Slugs]
  <2>1. namespace \in [Regions -> SUBSET Slugs] /\ asked \in [Regions -> SUBSET Slugs]
    BY DEF TypeOK
  <2>2. CASE UNCHANGED <<namespace, asked>>
    BY <2>1, <2>2
  <2>3. ASSUME NEW h \in Regions,
               namespace' = [namespace EXCEPT ![h] = @ \cup {req[r].slug}],
               asked' = [asked EXCEPT ![h] = @ \cup {req[r].slug}]
        PROVE  namespace' \in [Regions -> SUBSET Slugs] /\ asked' \in [Regions -> SUBSET Slugs]
    BY <1>1, <2>1, <2>3
  <2> QED
    BY <1>1, <2>2, <2>3 DEF SpacesCreate
<1> QED
  BY <1>3, <1>4, TablesType DEF SpacesCreate, OnlyNamespace, TypeOK

\* Every step of the server keeps the types.
LEMMA StepType == TypeOK /\ [Next]_vars => TypeOK'
<1> SUFFICES ASSUME TypeOK, [Next]_vars PROVE TypeOK'
  OBVIOUS
<1>1. CASE UNCHANGED vars
  BY <1>1 DEF vars, TypeOK
<1>2. ASSUME NEW r \in Requests, Mutation(r) PROVE TypeOK'
  BY <1>2, MutationStarts, TablesType DEF Started, Tables, TypeOK
<1>3. ASSUME NEW r \in Requests, Create(r) PROVE TypeOK'
  BY <1>3, LookupType, MapType, MemberType DEF Create
<1>4. ASSUME NEW r \in Requests, Settings(r) PROVE TypeOK'
  BY <1>4, DefaultsType, ClustersType, SpacesType DEF Settings
<1>5. ASSUME NEW r \in Requests, SqlFails(r) PROVE TypeOK'
  BY <1>5, IdleOK, ReadsType DEF SqlFails, End
<1>6. CASE Crash
  <2>1. Idle \in Request /\ Idle.pc \notin OrgLabels \cup TargetLabels
    BY IdleOK DEF ReqOK, OrgLabels, TargetLabels
  <2> QED
    BY <1>6, <2>1 DEF Crash, Reads, Tables, TypeOK
<1> QED
  BY <1>1, <1>2, <1>3, <1>4, <1>5, <1>6, DeleteType, MemberType DEF Next, Done

\* Organizations, members, regions and namespaces keep their types, and a request
\* that works on an organization has one.
THEOREM OrganizationsTypeCorrect == Spec => []TypeOK
<1>1. Init => TypeOK
  <2> SUFFICES ASSUME Init PROVE TypeOK
    OBVIOUS
  <2>1. Names # {} /\ SlugOf \in [Names -> Slugs] /\ MaxRequests \in Nat
    BY OrganizationsAssumption
  <2>2. SlugOf[AnyName] \in Slugs
    BY <2>1 DEF AnyName
  <2>3. Idle \in Request /\ Idle.pc \notin OrgLabels \cup TargetLabels
    BY IdleOK DEF ReqOK, OrgLabels, TargetLabels
  <2> QED
    BY <2>1, <2>2, <2>3 DEF Init, TypeOK, OrganizationRow, MemberRows, RegionRows, NoOrg
<1> QED
  BY <1>1, StepType, PTL DEF Spec

-----------------------------------------------------------------------------
\* Rows stay: an organization keeps its slug, its members and its regions.
Grow ==
    /\ \A o \in Orgs : Known(o) => Known(o)' /\ organization'[o].slug = organization[o].slug
    /\ \A o \in Orgs, u \in Users : HasRow(o, u) => HasRow(o, u)'
    /\ \A o \in Orgs, g \in Regions : RowCount(o, g) > 0 => RowCount(o, g)' > 0

\* What the invariant says of the request r alone.
Knows(r) == MapsKnows(r) /\ NamesKnow(r) /\ DestroysKnows(r)

\* A slot takes up what it becomes.
LEMMA BecomeIs ==
    ASSUME TypeOK, NEW r \in Requests, NEW q, Become(r, q)
    PROVE  req'[r] = q /\ Others(r)
BY DEF TypeOK, Become, Others

\* A request that ends knows nothing.
LEMMA IdleKnows ==
    ASSUME NEW r \in Requests, req'[r] = Idle
    PROVE  Knows(r)' /\ ~Maps(r)'
BY IdleOK DEF Knows, MapsKnows, NamesKnow, DestroysKnows, Maps, Destroys, Adds, Invites, At, OrgLabels

\* Where nothing changes, rows stay.
LEMMA SameGrow ==
    ASSUME UNCHANGED <<organization, member, mapped>>
    PROVE  /\ Grow
           /\ \A o \in Orgs : (HasMember(o)' <=> HasMember(o)) /\ (Known(o)' <=> Known(o))
BY DEF Grow, HasMember, HasRow, RowCount, Known

\* A member stays a member, a namesake a namesake.
LEMMA GrowMembers ==
    ASSUME Grow
    PROVE  /\ \A o \in Orgs : HasMember(o) => HasMember(o)'
           /\ \A o \in Orgs : Known(o) /\ Namesake(o) => Namesake(o)'
<1>1. \A o \in Orgs : HasMember(o) => HasMember(o)'
  BY DEF Grow, HasMember
<1>2. ASSUME NEW o \in Orgs, Known(o), Namesake(o) PROVE Namesake(o)'
  BY <1>2 DEF Grow, Namesake
<1> QED
  BY <1>1, <1>2

\* What a request that stays where it is knows of its organizations stays true.
LEMMA KeepNames ==
    ASSUME TypeOK, Grow, NEW x \in Requests, req'[x] = req[x], NamesKnow(x)
    PROVE  NamesKnow(x)'
<1>1. ReqOK(req[x]) /\ req[x] \in Request
  BY RequestOK DEF ReqOK
<1>2. At(x, "first.done") => \E o \in Orgs : HasRow(o, req[x].user)'
  BY <1>1 DEF NamesKnow, At, Grow, Request
<1>3. req[x].pc \in OrgLabels => HasMember(req[x].org)'
  BY <1>1, GrowMembers DEF NamesKnow, ReqOK
<1>4. req[x].orgs \subseteq Orgs
  BY <1>1 DEF Request
<1>5. Invites(x) => \A o \in req[x].orgs : HasMember(o)'
  BY <1>4, GrowMembers DEF NamesKnow
<1>6. At(x, "delete.find") \/ At(x, "delete.next") \/ Destroys(x) =>
        \A o \in req[x].orgs : Known(o)'
  BY <1>4 DEF NamesKnow, Grow
<1> QED
  BY <1>2, <1>3, <1>5, <1>6 DEF NamesKnow, At, Destroys, Invites, Adds

\* A creation that stays where it is.
LEMMA KeepMaps ==
    ASSUME TypeOK, Grow, NEW x \in Requests, req'[x] = req[x], MapsKnows(x),
           Maps(x) => ~HasMember(req[x].target)'
    PROVE  MapsKnows(x)'
<1>1. CASE Maps(x)
  <2>1. req[x].target \in Orgs
    BY <1>1, RequestOK DEF Maps, ReqOK, TargetLabels
  <2>2. /\ Known(req[x].target)'
        /\ organization'[req[x].target].slug = req[x].slug
    BY <1>1, <2>1 DEF MapsKnows, Grow
  <2>3. Platform \subseteq Regions
    BY OrganizationsAssumption
  <2>4. \A g \in Platform \ req[x].regions :
            (req[x].pc = "map.region" => g # req[x].region) => RowCount(req[x].target, g)' > 0
    BY <1>1, <2>1, <2>3 DEF MapsKnows, Grow
  <2> QED
    BY <1>1, <2>2, <2>4 DEF MapsKnows, Maps
<1>2. CASE ~Maps(x)
  BY <1>2 DEF MapsKnows, Maps
<1> QED
  BY <1>1, <1>2

\* A deletion that stays where it is: a namespace that comes back is a namesake's.
LEMMA KeepDestroys ==
    ASSUME TypeOK, Grow, NEW x \in Requests, req'[x] = req[x], DestroysKnows(x),
           (Destroys(x) /\ "destroy" \notin Faults /\ req[x].target = req[x].org) =>
                \A g \in Platform : req[x].slug \in Made(g)' =>
                    req[x].slug \in Made(g) \/ Namesake(req[x].target)'
    PROVE  DestroysKnows(x)'
<1>1. CASE Destroys(x)
  <2>1. req[x].target \in Orgs
    BY <1>1, RequestOK DEF Destroys, ReqOK, TargetLabels
  <2>2. /\ Known(req[x].target) /\ Known(req[x].target)'
        /\ organization'[req[x].target].slug = req[x].slug
    BY <1>1, <2>1 DEF DestroysKnows, Grow
  <2>3. ("destroy" \notin Faults /\ req[x].target = req[x].org) =>
            \A g \in Platform \ req[x].regions :
                req[x].slug \in Made(g)' => Namesake(req[x].target)'
    BY <1>1, <2>1, <2>2, GrowMembers DEF DestroysKnows
  <2> QED
    BY <1>1, <2>2, <2>3 DEF DestroysKnows, Destroys
<1>2. CASE ~Destroys(x)
  BY <1>2 DEF DestroysKnows, Destroys
<1> QED
  BY <1>1, <1>2

\* Who claims a namespace is known.
LEMMA ClaimsKnown ==
    ASSUME TypeOK, OrganizationsInv, NEW o \in Orgs, NEW g, Claims(o, g)
    PROVE  Known(o)
BY DEF OrganizationsInv, FreshOrgs, MapsKnows, Claims

\* Namespaces keep their owners where nobody claims more and none is lost but to
\* a deletion.
LEMMA KeepOwner ==
    ASSUME TypeOK, OrganizationsInv, Grow,
           \A g \in Platform, o \in Orgs : Claims(o, g)' => Claims(o, g),
           stripped \subseteq stripped',
           \A g \in Platform : namespace[g] \subseteq namespace'[g] \cup stripped'
    PROVE  NamespaceHasOneOwner'
<1> SUFFICES ASSUME NEW g \in Platform, NEW o \in Orgs, Claims(o, g)',
                    organization'[o].slug \notin stripped'
             PROVE  /\ organization'[o].slug \in namespace'[g]
                    /\ \A p \in Orgs :
                        (Claims(p, g)' /\ organization'[p].slug = organization'[o].slug) => p = o
  BY DEF NamespaceHasOneOwner
<1>1. \A p \in Orgs : Claims(p, g)' =>
            Claims(p, g) /\ organization'[p].slug = organization[p].slug
  BY ClaimsKnown DEF Grow
<1> QED
  BY <1>1 DEF OrganizationsInv, NamespaceHasOneOwner

\* A step of r keeps the invariant when the others may stay as they are.
LEMMA KeepInv ==
    ASSUME TypeOK, OrganizationsInv, NEW r \in Requests, Others(r), Grow,
           FreshOrgs', Knows(r)',
           \A x \in Requests \ {r} : Maps(x) => ~HasMember(req[x].target)',
           \A x \in Requests \ {r} :
                (Destroys(x) /\ "destroy" \notin Faults /\ req[x].target = req[x].org) =>
                    \A g \in Platform : req[x].slug \in Made(g)' =>
                        req[x].slug \in Made(g) \/ Namesake(req[x].target)',
           Maps(r)' => \A x \in Requests \ {r} : Maps(x) => req'[r].target # req[x].target,
           MembersHaveRegions', FirstLoginMadeMember', NamespaceHasOneOwner'
    PROVE  OrganizationsInv'
<1>1. \A x \in Requests \ {r} : Knows(x)'
  BY KeepMaps, KeepNames, KeepDestroys DEF OrganizationsInv, Knows, Others
<1>2. OneMaker'
  BY DEF OrganizationsInv, OneMaker, Others, Maps
<1> QED
  BY <1>1, <1>2 DEF OrganizationsInv, Knows

\* A step that makes no organization, no member and no namespace on the platform,
\* and claims none.
LEMMA QuietInv ==
    ASSUME TypeOK, OrganizationsInv, NEW r \in Requests, Others(r), Grow,
           \A o \in Orgs : (HasMember(o)' => HasMember(o)) /\ (Known(o)' => Known(o)),
           nextOrg' = nextOrg, stripped' = stripped,
           \A g \in Platform : namespace'[g] = namespace[g] /\ asked'[g] = asked[g],
           FirstLoginMadeMember', Knows(r)',
           Maps(r)' => /\ Maps(r) /\ req'[r].target = req[r].target
                       /\ req[r].regions \subseteq req'[r].regions
    PROVE  OrganizationsInv'
<1>1. FreshOrgs'
  BY GrowMembers DEF OrganizationsInv, FreshOrgs, Grow
<1>2. ASSUME NEW x \in Requests \ {r}, Maps(x) PROVE ~HasMember(req[x].target)'
  <2>1. req[x].target \in Orgs
    BY <1>2, RequestOK DEF Maps, ReqOK, TargetLabels
  <2> QED
    BY <1>2, <2>1 DEF OrganizationsInv, MapsKnows, Others
<1>3. MembersHaveRegions'
  BY OrganizationsAssumption DEF OrganizationsInv, MembersHaveRegions, Grow
<1>4. ASSUME NEW g \in Platform, NEW o \in Orgs, Claims(o, g)' PROVE Claims(o, g)
  BY <1>4 DEF Claims, Others, Maps
<1>5. NamespaceHasOneOwner'
  BY <1>4, KeepOwner
<1>6. Maps(r)' => \A x \in Requests \ {r} : Maps(x) => req'[r].target # req[x].target
  BY DEF OrganizationsInv, OneMaker
<1>7. \A g \in Platform : Made(g)' = Made(g)
  BY DEF Made
<1> QED
  BY <1>1, <1>2, <1>3, <1>5, <1>6, <1>7, KeepInv

\* A step that only reads.
LEMMA ReadsInv ==
    ASSUME TypeOK, OrganizationsInv, NEW r \in Requests, Others(r), UNCHANGED Tables,
           Knows(r)', ~Maps(r)'
    PROVE  OrganizationsInv'
<1>1. FirstLoginMadeMember'
  BY DEF OrganizationsInv, FirstLoginMadeMember, HasRow, Tables
<1> QED
  BY <1>1, SameGrow, QuietInv DEF Tables

-----------------------------------------------------------------------------
\* Where a request has nothing to know.
FreeLabels == {"idle", "first.read", "first.slug", "create.count", "create.find",
    "create.check", "create.insert", "update.list", "update.type", "cluster.count",
    "cluster.insert", "cluster.check", "cluster.drop", "spaces.create"}

\* Where all it knows is that its organization has a member.
OwnerLabels == {"delete.subs", "default.clear", "default.set", "regions.count",
    "regions.set", "add.missing", "remove.check", "remove.write"}

LEMMA FreeKnows ==
    ASSUME NEW r \in Requests, req'[r].pc \in FreeLabels
    PROVE  Knows(r)' /\ ~Maps(r)'
BY DEF FreeLabels, Knows, MapsKnows, NamesKnow, DestroysKnows, Maps, Destroys, Adds,
       Invites, At, OrgLabels

LEMMA OwnerKnows ==
    ASSUME NEW r \in Requests, req'[r].pc \in OwnerLabels, HasMember(req[r].org)'
    PROVE  Knows(r)' /\ ~Maps(r)'
BY DEF OwnerLabels, Knows, MapsKnows, NamesKnow, DestroysKnows, Maps, Destroys, Adds,
       Invites, At, OrgLabels

\* A request at a step keeps its other fields when it goes on.
LEMMA GotoIs ==
    ASSUME TypeOK, NEW r \in Requests, NEW label, Goto(r, label)
    PROVE  /\ Others(r)
           /\ req'[r].pc = label
           /\ req'[r].org = req[r].org /\ req'[r].orgs = req[r].orgs
           /\ req'[r].user = req[r].user
<1>1. req'[r] = [req[r] EXCEPT !.pc = label] /\ Others(r)
  BY BecomeIs DEF Goto
<1>2. req[r] \in Request
  BY DEF TypeOK
<1> QED
  BY <1>1, <1>2 DEF Request

\* The end of a request.
LEMMA EndIs ==
    ASSUME TypeOK, NEW r \in Requests, End(r)
    PROVE  Others(r) /\ Knows(r)' /\ ~Maps(r)'
BY BecomeIs, IdleKnows DEF End

\* The next organization, or the end.
LEMMA NextOrgIs ==
    ASSUME TypeOK, NEW r \in Requests, NEW left, NEW again, NextOrg(r, left, again)
    PROVE  /\ Others(r)
           /\ \/ req'[r] = Idle
              \/ req'[r].pc = again /\ req'[r].orgs = left /\ req'[r].org = req[r].org
<1>1. CASE left = {}
  BY <1>1, BecomeIs DEF NextOrg
<1>2. CASE left # {}
  <2>1. req'[r] = [req[r] EXCEPT !.pc = again, !.orgs = left] /\ Others(r)
    BY <1>2, BecomeIs DEF NextOrg
  <2>2. req[r] \in Request
    BY DEF TypeOK
  <2> QED
    BY <2>1, <2>2 DEF Request
<1> QED
  BY <1>1, <1>2

\* The next region, or what comes behind the last.
LEMMA NextRegionIs ==
    ASSUME TypeOK, NEW r \in Requests, NEW left, NEW again, NEW after,
           NextRegion(r, left, again, after)
    PROVE  /\ Others(r)
           /\ \/ req'[r] = Idle
              \/ /\ \/ req'[r].pc = again /\ left # {}
                    \/ req'[r].pc = after /\ left = {}
                 /\ req'[r].regions = left
                 /\ req'[r].org = req[r].org /\ req'[r].orgs = req[r].orgs
                 /\ req'[r].target = req[r].target /\ req'[r].slug = req[r].slug
                 /\ req'[r].region = req[r].region /\ req'[r].user = req[r].user
<1>1. req[r] \in Request
  BY DEF TypeOK
<1>2. CASE left # {}
  <2>1. req'[r] = [req[r] EXCEPT !.pc = again, !.regions = left] /\ Others(r)
    BY <1>2, BecomeIs DEF NextRegion
  <2> QED
    BY <1>1, <1>2, <2>1 DEF Request
<1>3. CASE left = {} /\ after = "idle"
  BY <1>3, BecomeIs DEF NextRegion
<1>4. CASE left = {} /\ after # "idle"
  <2>1. req'[r] = [req[r] EXCEPT !.pc = after, !.regions = {}] /\ Others(r)
    BY <1>4, BecomeIs DEF NextRegion
  <2> QED
    BY <1>1, <1>4, <2>1 DEF Request
<1> QED
  BY <1>2, <1>3, <1>4

\* The organization a request works on has a member, and so it is known.
LEMMA OwnerHasMember ==
    ASSUME TypeOK, OrganizationsInv, NEW r \in Requests, req[r].pc \in OrgLabels
    PROVE  req[r].org \in Orgs /\ HasMember(req[r].org) /\ Known(req[r].org)
BY DEF TypeOK, OrganizationsInv, NamesKnow, FreshOrgs

-----------------------------------------------------------------------------
\* A mutation begins.
LEMMA MutationInv ==
    ASSUME TypeOK, OrganizationsInv, NEW r \in Requests, Mutation(r)
    PROVE  OrganizationsInv'
<1>1. UNCHANGED Tables
  BY MutationStarts
<1>2. PICK q : Become(r, q) /\ Started(q)
  BY MutationStarts
<1>3. req'[r] = q /\ Others(r)
  BY <1>2, BecomeIs
<1>4. /\ ~Maps(r)' /\ ~Destroys(r)' /\ ~Adds(r)' /\ q.pc # "first.done"
      /\ q.pc # "delete.next" /\ q.pc # "invite.insert" /\ q.pc # "add.namespace"
  BY <1>2, <1>3 DEF Started, FirstSteps, Maps, Destroys, Adds
<1>5. \A o : HasMember(o)' = HasMember(o)
  BY <1>1 DEF Tables, HasMember, HasRow
<1>6. q.pc \in OrgLabels => HasMember(q.org)
  BY <1>2 DEF Started
<1>7. Knows(r)'
  BY <1>2, <1>3, <1>4, <1>5, <1>6
  DEF Knows, MapsKnows, NamesKnow, DestroysKnows, Started, FirstSteps, Invites, At
<1> QED
  BY <1>1, <1>3, <1>4, <1>7, ReadsInv

\* A creation that looks its name up, a step about the user's own clusters, the
\* list of a user's organizations, and a statement that fails: only reads.
LEMMA LookupInv ==
    ASSUME TypeOK, OrganizationsInv, NEW r \in Requests,
           \/ FirstRead(r) \/ FirstSlug(r) \/ CreateCount(r) \/ CreateFind(r) \/ CreateCheck(r)
           \/ ClusterCount(r) \/ ClusterCheck(r) \/ UpdateList(r) \/ SqlFails(r)
    PROVE  OrganizationsInv'
<1>1. UNCHANGED Tables
  BY DEF FirstRead, FirstSlug, CreateCount, CreateFind, CreateCheck, ClusterCount,
         ClusterCheck, UpdateList, SqlFails, Reads
<1>2. req[r] \in Request
  BY DEF TypeOK
<1>3. Idle.pc \in FreeLabels
  BY IdleOK DEF FreeLabels
<1>4. Others(r) /\ req'[r].pc \in FreeLabels
  <2>1. CASE FirstRead(r) \/ CreateCount(r) \/ ClusterCount(r) \/ ClusterCheck(r) \/ SqlFails(r)
    <3>1. End(r) \/ \E label \in FreeLabels : Goto(r, label)
      BY <2>1 DEF FirstRead, CreateCount, ClusterCount, ClusterCheck, SqlFails, FreeLabels
    <3> QED
      BY <1>3, <3>1, BecomeIs, GotoIs DEF End
  <2>2. CASE FirstSlug(r)
    <3>1. PICK s : Become(r, [req[r] EXCEPT !.pc = "create.insert", !.slug = s, !.isDefault = TRUE])
      BY <2>2 DEF FirstSlug
    <3>2. req'[r] = [req[r] EXCEPT !.pc = "create.insert", !.slug = s, !.isDefault = TRUE] /\ Others(r)
      BY <3>1, BecomeIs
    <3> QED
      BY <1>2, <3>2 DEF Request, FreeLabels
  <2>3. CASE CreateFind(r) \/ CreateCheck(r)
    <3>1. \/ \E s : Become(r, [req[r] EXCEPT !.pc = "create.insert", !.slug = s])
          \/ \E o : Become(r, [req[r] EXCEPT !.pc = "create.check", !.target = o])
          \/ End(r)
      BY <2>3 DEF CreateFind, CreateCheck
    <3>2. ASSUME NEW s, Become(r, [req[r] EXCEPT !.pc = "create.insert", !.slug = s])
          PROVE  Others(r) /\ req'[r].pc \in FreeLabels
      <4>1. req'[r] = [req[r] EXCEPT !.pc = "create.insert", !.slug = s] /\ Others(r)
        BY <3>2, BecomeIs
      <4> QED
        BY <1>2, <4>1 DEF Request, FreeLabels
    <3>3. ASSUME NEW o, Become(r, [req[r] EXCEPT !.pc = "create.check", !.target = o])
          PROVE  Others(r) /\ req'[r].pc \in FreeLabels
      <4>1. req'[r] = [req[r] EXCEPT !.pc = "create.check", !.target = o] /\ Others(r)
        BY <3>3, BecomeIs
      <4> QED
        BY <1>2, <4>1 DEF Request, FreeLabels
    <3> QED
      BY <1>3, <3>1, <3>2, <3>3, BecomeIs DEF End
  <2>4. CASE UpdateList(r)
    <3>1. NextOrg(r, AllOrganizations(req[r].user), "update.type")
      BY <2>4 DEF UpdateList
    <3> QED
      BY <1>3, <3>1, NextOrgIs DEF FreeLabels
  <2> QED
    BY <2>1, <2>2, <2>3, <2>4
<1> QED
  BY <1>1, <1>4, FreeKnows, ReadsInv

\* The row of a creation: nobody has claimed anything for it.
LEMMA CreateInsertInv ==
    ASSUME TypeOK, OrganizationsInv, NEW r \in Requests, CreateInsert(r)
    PROVE  OrganizationsInv'
<1>1. req[r] \in Request
  BY DEF TypeOK
<1>2. PICK n \in Orgs : n = nextOrg
  BY DEF CreateInsert
<1>3. /\ nextOrg' = n + 1
      /\ UNCHANGED <<member, mapped, first, namespace, stripped, asked>>
      /\ organization' = [organization EXCEPT ![n] = [status |-> "live", slug |-> req[r].slug,
                            parent |-> req[r].org, default |-> req[r].isDefault]]
  BY <1>2 DEF CreateInsert, OnlyOrganization
<1>4. /\ Others(r)
      /\ req'[r] = [req[r] EXCEPT !.pc = "map.namespace", !.target = n,
                        !.regions = GetActiveClusterDetails(req[r].user)]
  BY <1>2, BecomeIs DEF CreateInsert
<1>5. /\ req'[r].pc = "map.namespace" /\ req'[r].target = n /\ req'[r].slug = req[r].slug
      /\ Platform \subseteq req'[r].regions
  BY <1>1, <1>4, ActiveClusters DEF Request
<1>6. ~Known(n) /\ ~HasMember(n) /\ \A o \in Orgs : Known(o) <=> o < n
  BY <1>2, OrganizationsAssumption DEF OrganizationsInv, FreshOrgs, Orgs
<1>7. /\ organization'[n].status = "live" /\ organization'[n].slug = req[r].slug
      /\ \A o \in Orgs \ {n} : organization'[o] = organization[o]
  BY <1>3 DEF TypeOK
<1>8. \A o \in Orgs : Known(o)' <=> Known(o) \/ o = n
  BY <1>7 DEF Known
<1>9. \A o : (HasMember(o)' <=> HasMember(o)) /\ \A u : HasRow(o, u)' <=> HasRow(o, u)
  BY <1>3 DEF HasMember, HasRow
<1>10. Grow
  BY <1>3, <1>6, <1>7, <1>8, <1>9 DEF Grow, RowCount
<1>11. FreshOrgs'
  BY <1>3, <1>6, <1>8, <1>9 DEF OrganizationsInv, FreshOrgs, Orgs
<1>12. Knows(r)'
  BY <1>5, <1>6, <1>7, <1>8, <1>9
  DEF Knows, MapsKnows, NamesKnow, DestroysKnows, Maps, Destroys, Adds, Invites, At, OrgLabels
<1>13. ASSUME NEW x \in Requests \ {r}, Maps(x)
       PROVE  ~HasMember(req[x].target)' /\ req'[r].target # req[x].target
  BY <1>5, <1>6, <1>9, <1>13, <1>4 DEF OrganizationsInv, MapsKnows, Others
<1>14. MembersHaveRegions' /\ FirstLoginMadeMember'
  BY <1>3, <1>9 DEF OrganizationsInv, MembersHaveRegions, FirstLoginMadeMember, RowCount
<1>15. ASSUME NEW g \in Platform, NEW o \in Orgs, Claims(o, g)' PROVE Claims(o, g)
  BY <1>4, <1>5, <1>9, <1>15 DEF Claims, Others, Maps
<1>16. NamespaceHasOneOwner'
  BY <1>3, <1>10, <1>15, KeepOwner
<1>17. \A g \in Platform : Made(g)' = Made(g)
  BY <1>3 DEF Made
<1> QED
  BY <1>4, <1>10, <1>11, <1>12, <1>13, <1>14, <1>16, <1>17, KeepInv

\* The namespace of a creation: its cluster had none of that slug, so nobody
\* who claims one there is left, unless a deletion was at work.
LEMMA MapNamespaceInv ==
    ASSUME TypeOK, OrganizationsInv, NEW r \in Requests, MapNamespace(r)
    PROVE  OrganizationsInv'
<1>1. /\ req[r] \in Request /\ req[r].pc = "map.namespace" /\ req[r].target \in Orgs
      /\ UNCHANGED <<organization, member, mapped, first, nextOrg, stripped, asked>>
  BY RequestOK DEF MapNamespace, At, OnlyNamespace, ReqOK, TargetLabels
<1>2. Grow /\ \A o \in Orgs : (HasMember(o)' <=> HasMember(o)) /\ (Known(o)' <=> Known(o))
  BY <1>1, SameGrow
<1>3. FirstLoginMadeMember' /\ MembersHaveRegions' /\ FreshOrgs'
  BY <1>1 DEF OrganizationsInv, FirstLoginMadeMember, MembersHaveRegions, FreshOrgs,
              HasMember, HasRow, RowCount, Known
<1>4. CASE End(r) /\ UNCHANGED namespace
  BY <1>1, <1>2, <1>3, <1>4, EndIs, QuietInv
<1>5. ASSUME NEW g \in req[r].regions, req[r].slug \notin namespace[g],
             namespace' = [namespace EXCEPT ![g] = @ \cup {req[r].slug}],
             Become(r, [req[r] EXCEPT !.pc = "map.region", !.region = g, !.regions = @ \ {g}])
      PROVE  OrganizationsInv'
  <2>1. /\ Others(r)
        /\ req'[r] = [req[r] EXCEPT !.pc = "map.region", !.region = g, !.regions = @ \ {g}]
    BY <1>5, BecomeIs
  <2>2. /\ req'[r].pc = "map.region" /\ req'[r].region = g
        /\ req'[r].regions = req[r].regions \ {g}
        /\ req'[r].target = req[r].target /\ req'[r].slug = req[r].slug
    BY <1>1, <2>1 DEF Request
  <2>3. MapsKnows(r) /\ Maps(r) /\ organization[req[r].target].slug = req[r].slug
    BY <1>1 DEF OrganizationsInv, MapsKnows, Maps
  <2>4. Knows(r)'
    BY <1>1, <2>2, <2>3
    DEF Knows, MapsKnows, NamesKnow, DestroysKnows, Maps, Destroys, Adds, Invites, At,
        OrgLabels, Known, HasMember, HasRow, RowCount
  <2>5. g \in Regions /\ namespace \in [Regions -> SUBSET Slugs]
    BY <1>1 DEF Request, TypeOK
  <2>6. /\ namespace'[g] = namespace[g] \cup {req[r].slug}
        /\ \A h \in Regions \ {g} : namespace'[h] = namespace[h]
    BY <1>5, <2>5
  <2>7. ASSUME NEW x \in Requests \ {r}, Maps(x)
        PROVE  ~HasMember(req[x].target)' /\ req'[r].target # req[x].target
    BY <1>1, <2>1, <2>2, <2>3, <2>7
    DEF OrganizationsInv, MapsKnows, OneMaker, Others, HasMember, HasRow
  <2>8. ASSUME NEW x \in Requests \ {r}, Destroys(x), req[x].target = req[x].org,
               NEW h \in Platform, req[x].slug \in Made(h)'
        PROVE  req[x].slug \in Made(h) \/ Namesake(req[x].target)'
    <3>1. CASE req[x].slug \in namespace[h]
      BY <1>1, <2>8, <3>1 DEF Made
    <3>2. CASE req[x].slug \notin namespace[h]
      <4>1. req[x].slug = req[r].slug
        BY <2>6, <2>8, <3>2, OrganizationsAssumption DEF Made
      <4>2. req[x].pc \in OrgLabels
        BY <2>8 DEF Destroys, OrgLabels
      <4>3. HasMember(req[x].target) /\ organization[req[x].target].slug = req[x].slug
        BY <2>8, <4>2, OwnerHasMember DEF OrganizationsInv, DestroysKnows
      <4>4. ~HasMember(req[r].target) /\ Known(req[r].target)
        BY <2>3 DEF MapsKnows
      <4>5. req[r].target \in Orgs \ {req[x].target}
        BY <1>1, <4>3, <4>4
      <4>6. Namesake(req[x].target)
        BY <2>3, <4>1, <4>3, <4>4, <4>5 DEF Namesake
      <4>7. UNCHANGED organization /\ req'[x] = req[x]
        BY <1>1, <2>1 DEF Others
      <4> QED
        BY <4>6, <4>7 DEF Namesake, Known
    <3> QED
      BY <3>1, <3>2
  <2>9. ASSUME NEW h \in Platform, NEW o \in Orgs, Claims(o, h)', ~Claims(o, h)
        PROVE  o = req[r].target /\ h = g
    <3>1. ~HasMember(o)
      BY <2>9 DEF Claims
    <3>2. PICK x \in Requests : Maps(x)' /\ req'[x].target = o /\ h \notin req'[x].regions
      BY <1>2, <2>9, <3>1 DEF Claims
    <3>3. x = r
      BY <2>1, <2>9, <3>2 DEF Claims, Others, Maps
    <3> QED
      BY <2>2, <2>3, <2>9, <3>2, <3>3 DEF Claims
  <2>10. NamespaceHasOneOwner'
    <3> SUFFICES ASSUME NEW h \in Platform, NEW o \in Orgs, Claims(o, h)',
                        organization[o].slug \notin stripped
                 PROVE  /\ organization[o].slug \in namespace'[h]
                        /\ \A p \in Orgs :
                            (Claims(p, h)' /\ organization[p].slug = organization[o].slug) => p = o
      BY <1>1 DEF NamespaceHasOneOwner
    <3>1. h \in Regions
      BY OrganizationsAssumption
    <3>2. ASSUME NEW p \in Orgs, Claims(p, h), organization[p].slug \notin stripped
          PROVE  /\ organization[p].slug \in namespace[h]
                 /\ \A q \in Orgs :
                     (Claims(q, h) /\ organization[q].slug = organization[p].slug) => q = p
      BY <3>2 DEF OrganizationsInv, NamespaceHasOneOwner
    <3>3. organization[o].slug \in namespace'[h]
      BY <2>3, <2>6, <2>9, <3>1, <3>2
    <3>4. ASSUME NEW p \in Orgs, Claims(p, h)', organization[p].slug = organization[o].slug, p # o
          PROVE  FALSE
      <4>1. CASE Claims(o, h) /\ Claims(p, h)
        BY <3>2, <3>4, <4>1
      <4>2. CASE ~Claims(o, h)
        <5>1. o = req[r].target /\ h = g /\ Claims(p, h)
          BY <2>9, <3>4, <4>2
        <5> QED
          BY <1>5, <2>3, <3>2, <3>4, <5>1
      <4>3. CASE ~Claims(p, h)
        <5>1. p = req[r].target /\ h = g /\ Claims(o, h)
          BY <2>9, <3>4, <4>3
        <5> QED
          BY <1>5, <2>3, <3>2, <3>4, <5>1
      <4> QED
        BY <4>1, <4>2, <4>3
    <3> QED
      BY <3>3, <3>4
  <2> QED
    BY <1>2, <1>3, <2>1, <2>4, <2>7, <2>8, <2>10, KeepInv
<1> QED
  BY <1>4, <1>5 DEF MapNamespace

\* The region's row of a creation.
LEMMA MapRegionInv ==
    ASSUME TypeOK, OrganizationsInv, NEW r \in Requests, MapRegion(r)
    PROVE  OrganizationsInv'
<1>1. /\ req[r] \in Request /\ req[r].pc = "map.region"
      /\ req[r].target \in Orgs /\ req[r].region \in Regions
      /\ UNCHANGED <<organization, member, first, namespace, stripped, asked, nextOrg>>
  BY RequestOK DEF MapRegion, At, OnlyMapped, ReqOK, TargetLabels, Request
<1>2. mapped \in [Orgs -> [Regions -> RegionRows]]
  BY DEF TypeOK
<1>3. /\ \A o \in Orgs, g \in Regions : RowCount(o, g) > 0 => RowCount(o, g)' > 0
      /\ \A o \in Orgs, g \in Regions :
            o = req[r].target /\ g = req[r].region => RowCount(o, g)' > 0
  <2>1. CASE mapped' = [mapped EXCEPT ![req[r].target][req[r].region].default = @ + 1]
    BY <1>1, <1>2, <2>1 DEF RowCount, RegionRows
  <2>2. CASE mapped' = [mapped EXCEPT ![req[r].target][req[r].region].plain = @ + 1]
    BY <1>1, <1>2, <2>2 DEF RowCount, RegionRows
  <2> QED
    BY <2>1, <2>2 DEF MapRegion
<1>4. /\ Others(r)
      /\ req'[r].pc \in {"map.namespace", "map.member"}
      /\ req'[r].pc = "map.member" => req[r].regions = {}
      /\ req'[r].regions = req[r].regions
      /\ req'[r].target = req[r].target /\ req'[r].slug = req[r].slug
  <2>1. CASE req[r].regions # {}
    <3>1. /\ Others(r)
          /\ req'[r] = [req[r] EXCEPT !.pc = "map.namespace", !.regions = req[r].regions]
      BY <2>1, BecomeIs DEF MapRegion, NextRegion
    <3> QED
      BY <1>1, <3>1 DEF Request
  <2>2. CASE req[r].regions = {}
    <3>1. Others(r) /\ req'[r] = [req[r] EXCEPT !.pc = "map.member", !.regions = {}]
      BY <2>2, BecomeIs DEF MapRegion, NextRegion
    <3> QED
      BY <1>1, <2>2, <3>1 DEF Request
  <2> QED
    BY <2>1, <2>2
<1>5. /\ \A o : HasMember(o)' <=> HasMember(o)
      /\ \A o : Known(o)' <=> Known(o)
      /\ \A o, u : HasRow(o, u)' <=> HasRow(o, u)
  BY <1>1 DEF HasMember, HasRow, Known
<1>6. Grow
  BY <1>1, <1>3, <1>5 DEF Grow
<1>7. MapsKnows(r) /\ Maps(r)
  BY <1>1 DEF OrganizationsInv, Maps
<1>8. \A g \in Platform \ req[r].regions : RowCount(req[r].target, g)' > 0
  <2> SUFFICES ASSUME NEW g \in Platform \ req[r].regions, NEW o \in Orgs, o = req[r].target
               PROVE  RowCount(o, g)' > 0
    BY <1>1, <1>4
  <2>1. g \in Regions
    BY OrganizationsAssumption
  <2>2. CASE g = req[r].region
    BY <1>3, <2>1, <2>2
  <2>3. CASE g # req[r].region
    BY <1>1, <1>3, <1>7, <2>1, <2>3 DEF MapsKnows
  <2> QED
    BY <2>2, <2>3
<1>9. Knows(r)'
  BY <1>1, <1>4, <1>5, <1>7, <1>8
  DEF Knows, MapsKnows, NamesKnow, DestroysKnows, Maps, Destroys, Adds, Invites, At, OrgLabels
<1>10. FirstLoginMadeMember'
  BY <1>1, <1>5 DEF OrganizationsInv, FirstLoginMadeMember
<1> QED
  BY <1>1, <1>4, <1>5, <1>6, <1>7, <1>9, <1>10, QuietInv

\* One more member's row.
LEMMA AddUserRows ==
    ASSUME TypeOK, NEW t \in Orgs, NEW v \in Users, member' = AddUser(t, v)
    PROVE  /\ \A o \in Orgs, u \in Users : HasRow(o, u) => HasRow(o, u)'
           /\ \A o \in Orgs, u \in Users : o = t /\ u = v => HasRow(o, u)'
           /\ \A o \in Orgs \ {t} : HasMember(o)' <=> HasMember(o)
<1>1. member \in [Orgs -> [Users -> MemberRows]]
  BY DEF TypeOK
<1>2. /\ \A o \in Orgs, u \in Users : HasRow(o, u) => HasRow(o, u)'
      /\ \A o \in Orgs, u \in Users : o = t /\ u = v => HasRow(o, u)'
  BY <1>1 DEF AddUser, HasRow, MemberRows
<1>3. \A o \in Orgs \ {t} : member'[o] = member[o]
  BY <1>1 DEF AddUser
<1> QED
  BY <1>2, <1>3 DEF HasMember, HasRow

\* The first member of an organization that has all its regions.
LEMMA MapMemberInv ==
    ASSUME TypeOK, OrganizationsInv, NEW r \in Requests, MapMember(r)
    PROVE  OrganizationsInv'
<1>1. /\ req[r] \in Request /\ req[r].pc = "map.member" /\ req[r].user \in Users
      /\ UNCHANGED <<organization, mapped, first, namespace, stripped, asked, nextOrg>>
  BY DEF MapMember, At, OnlyMember, TypeOK, Request
<1>2. PICK t \in Orgs : t = req[r].target
  BY <1>1, RequestOK DEF ReqOK, TargetLabels
<1>3. MapsKnows(r) /\ Maps(r) /\ req[r].regions = {}
  BY <1>1 DEF OrganizationsInv, Maps, MapsKnows
<1>4. member' = AddUser(t, req[r].user)
  BY <1>2 DEF MapMember
<1>5. /\ \A o \in Orgs, u \in Users : HasRow(o, u) => HasRow(o, u)'
      /\ \A o \in Orgs \ {t} : HasMember(o)' <=> HasMember(o)
  BY <1>1, <1>4, AddUserRows DEF HasRow
<1>6. \A o \in Orgs : Known(o)' <=> Known(o)
  BY <1>1 DEF Known
<1>7. Grow
  BY <1>1, <1>5, <1>6 DEF Grow, RowCount
<1>8. /\ Others(r)
      /\ req'[r].pc \in {"idle", "first.done"}
      /\ req'[r].pc = "first.done" => req'[r].user = req[r].user
  <2>1. CASE End(r)
    BY <2>1, BecomeIs, IdleOK DEF End
  <2>2. CASE Goto(r, "first.done")
    BY <2>2, GotoIs
  <2> QED
    BY <2>1, <2>2 DEF MapMember
<1>9. req'[r].pc = "first.done" => \E o \in Orgs : HasRow(o, req[r].user)'
  <2>1. \A u \in Users : u = req[r].user => HasRow(t, u)'
    BY <1>1, <1>4, AddUserRows
  <2> QED
    BY <1>1, <1>8, <2>1
<1>10. Knows(r)' /\ ~Maps(r)'
  BY <1>8, <1>9
  DEF Knows, MapsKnows, NamesKnow, DestroysKnows, Maps, Destroys, Adds, Invites, At, OrgLabels
<1>11. FreshOrgs'
  BY <1>1, <1>2, <1>3, <1>5, <1>6 DEF OrganizationsInv, FreshOrgs, MapsKnows
<1>12. ASSUME NEW x \in Requests \ {r}, Maps(x) PROVE ~HasMember(req[x].target)'
  <2>1. req[x].target \in Orgs \ {t}
    BY <1>2, <1>3, <1>12, RequestOK DEF Maps, ReqOK, TargetLabels, OrganizationsInv, OneMaker
  <2>2. ~HasMember(req[x].target)
    BY <1>12 DEF OrganizationsInv, MapsKnows
  <2>3. req'[x] = req[x]
    BY <1>8 DEF Others
  <2> QED
    BY <1>5, <2>1, <2>2, <2>3
<1>13. MembersHaveRegions'
  <2> SUFFICES ASSUME NEW o \in Orgs, HasMember(o)', NEW g \in Platform
               PROVE  RowCount(o, g) > 0
    BY <1>1 DEF MembersHaveRegions, RowCount
  <2>1. CASE o = t
    BY <1>1, <1>2, <1>3, <2>1 DEF MapsKnows
  <2>2. CASE o # t
    BY <1>5, <2>2 DEF OrganizationsInv, MembersHaveRegions
  <2> QED
    BY <2>1, <2>2
<1>14. FirstLoginMadeMember'
  BY <1>1, <1>5 DEF OrganizationsInv, FirstLoginMadeMember
<1>15. ASSUME NEW g \in Platform, NEW o \in Orgs, Claims(o, g)' PROVE Claims(o, g)
  <2>1. CASE o = t
    BY <1>2, <1>3, <2>1 DEF Claims
  <2>2. CASE o # t
    BY <1>5, <1>8, <1>10, <1>15, <2>2 DEF Claims, Others, Maps
  <2> QED
    BY <2>1, <2>2
<1>16. NamespaceHasOneOwner'
  BY <1>1, <1>7, <1>15, KeepOwner
<1>17. \A g \in Platform : Made(g)' = Made(g)
  BY <1>1 DEF Made
<1> QED
  BY <1>7, <1>8, <1>10, <1>11, <1>12, <1>13, <1>14, <1>16, <1>17, KeepInv

\* The user of a first login has an organization.
LEMMA FirstDoneInv ==
    ASSUME TypeOK, OrganizationsInv, NEW r \in Requests, FirstDone(r)
    PROVE  OrganizationsInv'
<1>1. /\ At(r, "first.done") /\ first' = [first EXCEPT ![req[r].user] = FALSE]
      /\ UNCHANGED <<organization, member, mapped, namespace, stripped, asked, nextOrg>>
  BY DEF FirstDone
<1>2. \E o \in Orgs : HasRow(o, req[r].user)
  BY <1>1 DEF OrganizationsInv, NamesKnow, At
<1>3. FirstLoginMadeMember'
  BY <1>1, <1>2 DEF OrganizationsInv, FirstLoginMadeMember, HasRow, TypeOK
<1> QED
  BY <1>1, <1>3, EndIs, SameGrow, QuietInv DEF FirstDone

\* A deletion finds its organization, its sub organizations, and the next of them.
LEMMA DeleteNextInv ==
    ASSUME TypeOK, OrganizationsInv, NEW r \in Requests,
           DeleteFind(r) \/ DeleteSubs(r) \/ DeleteNext(r)
    PROVE  OrganizationsInv'
<1>1. /\ req[r] \in Request /\ req[r].pc \in OrgLabels /\ UNCHANGED Tables
  BY DEF DeleteFind, DeleteSubs, DeleteNext, At, OrgLabels, Reads, TypeOK
<1>2. /\ \A o : (HasMember(o)' <=> HasMember(o))
      /\ \A o : (Known(o)' <=> Known(o))
  BY <1>1 DEF Tables, HasMember, HasRow, Known
<1>3. req[r].org \in Orgs /\ HasMember(req[r].org) /\ Known(req[r].org)
  BY <1>1, OwnerHasMember
<1>4. ASSUME Others(r), req'[r].pc = "delete.next", req'[r].org = req[r].org,
             \A o \in req'[r].orgs : Known(o)
      PROVE  OrganizationsInv'
  <2>1. Knows(r)' /\ ~Maps(r)'
    BY <1>2, <1>3, <1>4
    DEF Knows, MapsKnows, NamesKnow, DestroysKnows, Maps, Destroys, Adds, Invites, At
  <2> QED
    BY <1>1, <1>4, <2>1, ReadsInv
<1>5. ASSUME Goto(r, "delete.subs") PROVE OrganizationsInv'
  BY <1>1, <1>2, <1>3, <1>5, GotoIs, OwnerKnows, ReadsInv DEF OwnerLabels
<1>6. ASSUME End(r) PROVE OrganizationsInv'
  BY <1>1, <1>6, EndIs, ReadsInv
<1>7. CASE DeleteFind(r)
  <2>1. CASE Goto(r, "delete.next")
    <3>1. \A o \in req[r].orgs : Known(o)
      BY <1>7 DEF DeleteFind, OrganizationsInv, NamesKnow
    <3> QED
      BY <1>4, <2>1, <3>1, GotoIs
  <2> QED
    BY <1>5, <1>6, <1>7, <2>1 DEF DeleteFind
<1>8. CASE DeleteSubs(r)
  <2>1. /\ Others(r)
        /\ req'[r] = [req[r] EXCEPT !.pc = "delete.next", !.orgs = GetSubOrganization(req[r].org)]
    BY <1>8, BecomeIs DEF DeleteSubs
  <2>2. /\ req'[r].pc = "delete.next" /\ req'[r].org = req[r].org
        /\ req'[r].orgs = GetSubOrganization(req[r].org)
    BY <1>1, <2>1 DEF Request
  <2>3. \A o \in GetSubOrganization(req[r].org) : Known(o)
    BY DEF GetSubOrganization, Live, Known
  <2> QED
    BY <1>4, <2>1, <2>2, <2>3
<1>9. CASE DeleteNext(r)
  <2>1. /\ \A o \in req[r].orgs : o \in Orgs /\ Known(o)
        /\ req[r].pc = "delete.next"
    BY <1>1, <1>9 DEF DeleteNext, At, OrganizationsInv, NamesKnow, Request
  <2>2. ASSUME NEW o \in Orgs, Known(o),
               Become(r, [req[r] EXCEPT !.pc = "destroy.namespaces", !.target = o,
                              !.orgs = @ \ {o}, !.slug = organization[o].slug,
                              !.regions = GetActiveClusterDetails(req[r].user)])
        PROVE  OrganizationsInv'
    <3>1. /\ Others(r)
          /\ req'[r] = [req[r] EXCEPT !.pc = "destroy.namespaces", !.target = o,
                              !.orgs = @ \ {o}, !.slug = organization[o].slug,
                              !.regions = GetActiveClusterDetails(req[r].user)]
      BY <2>2, BecomeIs
    <3>2. /\ req'[r].pc = "destroy.namespaces" /\ req'[r].target = o
          /\ req'[r].org = req[r].org /\ req'[r].orgs = req[r].orgs \ {o}
          /\ req'[r].slug = organization[o].slug
          /\ req'[r].regions = GetActiveClusterDetails(req[r].user)
      BY <1>1, <3>1 DEF Request
    <3>3. Platform \subseteq req'[r].regions
      BY <1>1, <3>2, ActiveClusters DEF Request
    <3>4. organization' = organization
      BY <1>1 DEF Tables
    <3>5. Knows(r)' /\ ~Maps(r)'
      BY <1>2, <1>3, <2>1, <2>2, <3>2, <3>3, <3>4
      DEF Knows, MapsKnows, NamesKnow, DestroysKnows, Maps, Destroys, Adds, Invites, At
    <3> QED
      BY <1>1, <3>1, <3>5, ReadsInv
  <2>3. ASSUME NEW o, Become(r, [req[r] EXCEPT !.orgs = @ \ {o}]) PROVE OrganizationsInv'
    <3>1. Others(r) /\ req'[r] = [req[r] EXCEPT !.orgs = @ \ {o}]
      BY <2>3, BecomeIs
    <3>2. /\ req'[r].pc = "delete.next" /\ req'[r].org = req[r].org
          /\ req'[r].orgs = req[r].orgs \ {o}
      BY <1>1, <2>1, <3>1 DEF Request
    <3> QED
      BY <1>4, <2>1, <3>1, <3>2
  <2> QED
    BY <1>3, <1>6, <1>9, <2>1, <2>2, <2>3 DEF DeleteNext
<1> QED
  BY <1>7, <1>8, <1>9

\* Namespaces go, and their slug is one a deletion has removed.
LEMMA DestroyNamespacesInv ==
    ASSUME TypeOK, OrganizationsInv, NEW r \in Requests, DestroyNamespaces(r)
    PROVE  OrganizationsInv'
<1>1. /\ req[r] \in Request /\ req[r].pc = "destroy.namespaces"
      /\ stripped' = stripped \cup {req[r].slug}
      /\ UNCHANGED <<organization, member, mapped, first, nextOrg>>
  BY DEF DestroyNamespaces, At, OnlyNamespace, TypeOK
<1>2. PICK g \in req[r].regions :
        /\ \/ RemoveNamespace(g, req[r].slug)
           \/ "destroy" \in Faults /\ UNCHANGED <<namespace, asked>>
        /\ NextRegion(r, req[r].regions \ {g}, "destroy.namespaces", "destroy.rows")
  BY DEF DestroyNamespaces
<1>3. Grow /\ \A o \in Orgs : (HasMember(o)' <=> HasMember(o)) /\ (Known(o)' <=> Known(o))
  BY <1>1, SameGrow
<1>4. FirstLoginMadeMember' /\ MembersHaveRegions' /\ FreshOrgs'
  BY <1>1 DEF OrganizationsInv, FirstLoginMadeMember, MembersHaveRegions, FreshOrgs,
              HasMember, HasRow, RowCount, Known
<1>5. /\ g \in Regions /\ Platform \subseteq Regions
      /\ namespace \in [Regions -> SUBSET Slugs] /\ asked \in [Regions -> SUBSET Slugs]
  BY <1>1, OrganizationsAssumption DEF Request, TypeOK
<1>6. /\ \A h \in Regions : Made(h)' \subseteq Made(h)
      /\ \A h \in Regions : namespace[h] \subseteq namespace'[h] \cup stripped'
      /\ "destroy" \notin Faults => req[r].slug \notin Made(g)'
  <2>1. CASE UNCHANGED <<namespace, asked>> /\ "destroy" \in Faults
    BY <2>1 DEF Made
  <2>2. CASE RemoveNamespace(g, req[r].slug)
    <3>1. /\ namespace'[g] = namespace[g] \ {req[r].slug}
          /\ asked'[g] = asked[g] \ {req[r].slug}
          /\ \A h \in Regions \ {g} : namespace'[h] = namespace[h] /\ asked'[h] = asked[h]
      BY <1>5, <2>2 DEF RemoveNamespace
    <3> QED
      BY <1>1, <1>5, <3>1 DEF Made
  <2> QED
    BY <1>2, <2>1, <2>2
<1>7. /\ Others(r)
      /\ \/ req'[r] = Idle
         \/ /\ req'[r].pc \in {"destroy.namespaces", "destroy.rows"}
            /\ req'[r].pc = "destroy.rows" => req'[r].regions = {}
            /\ req'[r].regions = req[r].regions \ {g}
            /\ req'[r].org = req[r].org /\ req'[r].orgs = req[r].orgs
            /\ req'[r].target = req[r].target /\ req'[r].slug = req[r].slug
  BY <1>2, NextRegionIs
<1>8. Knows(r) /\ Destroys(r)
  BY <1>1 DEF OrganizationsInv, Knows, Destroys
<1>9. Knows(r)' /\ ~Maps(r)'
  <2>1. CASE req'[r] = Idle
    BY <2>1, IdleKnows
  <2>2. CASE req'[r] # Idle
    <3>1. ASSUME "destroy" \notin Faults, req[r].target = req[r].org,
                 NEW h \in Platform \ req'[r].regions, req[r].slug \in Made(h)'
          PROVE  Namesake(req[r].target)'
      <4>1. h # g /\ h \notin req[r].regions /\ req[r].slug \in Made(h)
        BY <1>5, <1>6, <1>7, <2>2, <3>1
      <4>2. Namesake(req[r].target)
        BY <1>8, <3>1, <4>1 DEF Knows, DestroysKnows
      <4>3. req'[r].target = req[r].target
        BY <1>7, <2>2
      <4> QED
        BY <1>1, <4>2, <4>3 DEF Namesake, Known
    <3>2. DestroysKnows(r)'
      BY <1>1, <1>7, <1>8, <2>2, <3>1 DEF Knows, DestroysKnows, Destroys, Known
    <3>3. req[r].pc \in OrgLabels
      BY <1>1 DEF OrgLabels
    <3>4. HasMember(req[r].org)' /\ \A o \in req[r].orgs : Known(o)'
      BY <1>1, <1>7, <1>8, <2>2, <3>3 DEF Knows, NamesKnow, HasMember, HasRow, Known
    <3> QED
      BY <1>7, <2>2, <3>2, <3>4 DEF Knows, MapsKnows, NamesKnow, Maps, Destroys, Adds, Invites, At
  <2> QED
    BY <2>1, <2>2
<1>10. ASSUME NEW x \in Requests \ {r}, Maps(x) PROVE ~HasMember(req[x].target)'
  BY <1>1, <1>7, <1>10 DEF OrganizationsInv, MapsKnows, Others, HasMember, HasRow
<1>11. ASSUME NEW h \in Platform, NEW o \in Orgs, Claims(o, h)' PROVE Claims(o, h)
  BY <1>3, <1>7, <1>9, <1>11 DEF Claims, Others, Maps
<1>12. NamespaceHasOneOwner'
  BY <1>1, <1>3, <1>5, <1>6, <1>11, KeepOwner
<1> QED
  BY <1>3, <1>4, <1>5, <1>6, <1>7, <1>9, <1>10, <1>12, KeepInv

\* The rows of a deletion, and the default organization: slugs stay.
LEMMA RowsInv ==
    ASSUME TypeOK, OrganizationsInv, NEW r \in Requests, DestroyRows(r) \/ UpdateType(r)
    PROVE  OrganizationsInv'
<1>1. /\ req[r] \in Request
      /\ organization \in [Orgs -> OrganizationRow]
      /\ UNCHANGED <<member, mapped, first, namespace, stripped, asked, nextOrg>>
  BY DEF DestroyRows, UpdateType, OnlyOrganization, TypeOK
<1>2. \A o \in Orgs : /\ organization'[o].slug = organization[o].slug
                      /\ Known(o)' <=> Known(o)
  <2>1. CASE DestroyRows(r)
    <3>1. req[r].target \in Orgs /\ Known(req[r].target)
      BY <1>1, <2>1, RequestOK
      DEF DestroyRows, At, ReqOK, TargetLabels, OrganizationsInv, DestroysKnows, Destroys
    <3> QED
      BY <1>1, <2>1, <3>1 DEF DestroyRows, OrganizationRow, Known
  <2>2. CASE UpdateType(r)
    <3>1. PICK o \in req[r].orgs : organization' = [x \in Orgs |->
                IF organization[x].status # "none"
                   /\ organization[x].slug = organization[o].slug
                THEN [organization[x] EXCEPT !.default = organization[o].slug = req[r].slug]
                ELSE organization[x]]
      BY <2>2 DEF UpdateType
    <3>2. \A x \in Orgs : \A d :
            /\ [organization[x] EXCEPT !.default = d].slug = organization[x].slug
            /\ [organization[x] EXCEPT !.default = d].status = organization[x].status
      BY <1>1 DEF OrganizationRow
    <3>3. \A x \in Orgs : /\ organization'[x].slug = organization[x].slug
                          /\ organization'[x].status = organization[x].status
      BY <3>1, <3>2
    <3> QED
      BY <3>3 DEF Known
  <2> QED
    BY <2>1, <2>2
<1>3. \A o : (HasMember(o)' <=> HasMember(o)) /\ \A u : HasRow(o, u)' <=> HasRow(o, u)
  BY <1>1 DEF HasMember, HasRow
<1>4. Grow /\ FirstLoginMadeMember'
  BY <1>1, <1>2, <1>3 DEF Grow, RowCount, OrganizationsInv, FirstLoginMadeMember
<1>5. Others(r) /\ Knows(r)' /\ ~Maps(r)'
  <2>1. ASSUME End(r) PROVE Others(r) /\ Knows(r)' /\ ~Maps(r)'
    BY <2>1, EndIs
  <2>2. CASE DestroyRows(r) /\ Goto(r, "delete.next")
    <3>1. req[r].pc \in OrgLabels /\ req[r].pc = "destroy.rows" /\ req[r].orgs \subseteq Orgs
      BY <1>1, <2>2 DEF DestroyRows, At, OrgLabels, Request
    <3>2. HasMember(req[r].org)' /\ \A o \in req[r].orgs : Known(o)'
      BY <1>2, <1>3, <2>2, <3>1, GotoIs DEF OrganizationsInv, NamesKnow, Destroys
    <3> QED
      BY <2>2, <3>2, GotoIs
      DEF Knows, MapsKnows, NamesKnow, DestroysKnows, Maps, Destroys, Adds, Invites, At
  <2>3. CASE UpdateType(r)
    <3>1. \E o : NextOrg(r, req[r].orgs \ {o}, "update.type")
      BY <2>3 DEF UpdateType
    <3> QED
      BY <3>1, NextOrgIs, IdleOK, FreeKnows DEF FreeLabels
  <2> QED
    BY <2>1, <2>2, <2>3 DEF DestroyRows
<1> QED
  BY <1>1, <1>2, <1>3, <1>4, <1>5, QuietInv

\* The default regions: no row of a region goes.
LEMMA DefaultsInv ==
    ASSUME TypeOK, OrganizationsInv, NEW r \in Requests,
           DefaultClear(r) \/ DefaultSet(r) \/ RegionsCount(r) \/ RegionsSet(r)
    PROVE  OrganizationsInv'
<1>1. /\ req[r] \in Request /\ req[r].pc \in OrgLabels /\ req[r].region \in Regions
      /\ req[r].regions \subseteq Regions
      /\ UNCHANGED <<organization, member, first, namespace, stripped, asked, nextOrg>>
  BY DEF DefaultClear, DefaultSet, RegionsCount, RegionsSet, OnlyMapped, Reads, Tables,
         At, OrgLabels, TypeOK, Request
<1>2. req[r].org \in Orgs /\ HasMember(req[r].org)
  BY <1>1, OwnerHasMember
<1>3. mapped \in [Orgs -> [Regions -> RegionRows]]
  BY DEF TypeOK
<1>4. /\ \A o : HasMember(o)' <=> HasMember(o)
      /\ \A o : Known(o)' <=> Known(o)
      /\ \A o, u : HasRow(o, u)' <=> HasRow(o, u)
  BY <1>1 DEF HasMember, HasRow, Known
<1>5. \A o \in Orgs, g \in Regions, d \in BOOLEAN :
        Marked(o, g, d).plain + Marked(o, g, d).default = RowCount(o, g)
  BY <1>3 DEF Marked, RowCount, RegionRows
<1>6. \A o \in Orgs, g \in Regions : RowCount(o, g)' = RowCount(o, g)
  <2>1. CASE DefaultClear(r)
    BY <1>2, <1>3, <1>5, <2>1 DEF DefaultClear, RowCount
  <2>2. CASE DefaultSet(r)
    BY <1>1, <1>2, <1>3, <1>5, <2>2 DEF DefaultSet, RowCount
  <2>3. CASE RegionsCount(r)
    BY <2>3 DEF RegionsCount, Reads, Tables, RowCount
  <2>4. CASE RegionsSet(r)
    <3>1. req[r].isDefault \in BOOLEAN
      BY <1>1 DEF Request
    <3>2. PICK h \in Regions :
            mapped' = [mapped EXCEPT ![req[r].org][h] = Marked(req[r].org, h, req[r].isDefault)]
      BY <1>1, <2>4 DEF RegionsSet
    <3> QED
      BY <1>2, <1>3, <1>5, <3>1, <3>2 DEF RowCount
  <2> QED
    BY <2>1, <2>2, <2>3, <2>4
<1>7. Grow /\ FirstLoginMadeMember'
  BY <1>1, <1>4, <1>6 DEF Grow, OrganizationsInv, FirstLoginMadeMember
<1>8. /\ Others(r)
      /\ \/ req'[r] = Idle
         \/ req'[r].pc \in {"default.set", "regions.set"} /\ req'[r].org = req[r].org
  <2>1. ASSUME End(r) PROVE Others(r) /\ req'[r] = Idle
    BY <2>1, BecomeIs DEF End
  <2>2. ASSUME Goto(r, "default.set") \/ Goto(r, "regions.set")
        PROVE  Others(r) /\ req'[r].pc \in {"default.set", "regions.set"} /\ req'[r].org = req[r].org
    BY <2>2, GotoIs
  <2>3. CASE RegionsSet(r)
    <3>1. PICK h : NextRegion(r, req[r].regions \ {h}, "regions.set", "idle")
      BY <2>3 DEF RegionsSet
    <3>2. CASE req[r].regions \ {h} # {}
      BY <3>1, <3>2, NextRegionIs
    <3>3. CASE req[r].regions \ {h} = {}
      BY <3>1, <3>3, BecomeIs DEF NextRegion
    <3> QED
      BY <3>2, <3>3
  <2> QED
    BY <2>1, <2>2, <2>3 DEF DefaultClear, DefaultSet, RegionsCount
<1>9. Knows(r)' /\ ~Maps(r)'
  <2>1. CASE req'[r] = Idle
    BY <2>1, IdleKnows
  <2>2. CASE req'[r].pc \in {"default.set", "regions.set"} /\ req'[r].org = req[r].org
    <3>1. HasMember(req[r].org)'
      BY <1>2, <1>4, <2>2 DEF HasMember, HasRow
    <3> QED
      BY <2>2, <3>1, OwnerKnows DEF OwnerLabels
  <2> QED
    BY <1>8, <2>1, <2>2
<1> QED
  BY <1>1, <1>4, <1>7, <1>8, <1>9, QuietInv

\* A cluster of the user's comes or goes.
LEMMA ClustersInv ==
    ASSUME TypeOK, OrganizationsInv, NEW r \in Requests, ClusterInsert(r) \/ ClusterDrop(r)
    PROVE  OrganizationsInv'
<1>1. UNCHANGED <<organization, member, mapped, first, namespace, stripped, asked, nextOrg>> /\ End(r)
  BY DEF ClusterInsert, ClusterDrop, OnlyOwn
<1>2. FirstLoginMadeMember'
  BY <1>1 DEF OrganizationsInv, FirstLoginMadeMember, HasRow
<1> QED
  BY <1>1, <1>2, EndIs, SameGrow, QuietInv

\* A user's cluster is added to an organization, which has the platform's regions.
LEMMA AddInv ==
    ASSUME TypeOK, OrganizationsInv, NEW r \in Requests,
           AddMissing(r) \/ AddRow(r) \/ AddNamespace(r)
    PROVE  OrganizationsInv'
<1>1. /\ req[r] \in Request /\ req[r].pc \in OrgLabels /\ req[r].region \in Regions
      /\ req[r].regions \subseteq Regions
      /\ UNCHANGED <<organization, member, first, stripped, asked, nextOrg>>
  BY DEF AddMissing, AddRow, AddNamespace, OnlyMapped, OnlyNamespace, Reads, Tables,
         At, OrgLabels, TypeOK, Request
<1>2. req[r].org \in Orgs /\ HasMember(req[r].org)
  BY <1>1, OwnerHasMember
<1>3. /\ \A o : HasMember(o)' <=> HasMember(o)
      /\ \A o : Known(o)' <=> Known(o)
      /\ \A o, u : HasRow(o, u)' <=> HasRow(o, u)
  BY <1>1 DEF HasMember, HasRow, Known
<1>4. FirstLoginMadeMember'
  BY <1>1, <1>3 DEF OrganizationsInv, FirstLoginMadeMember
<1>5. \A o \in Orgs, g \in Regions : RowCount(o, g) > 0 => RowCount(o, g)' > 0
  <2>1. CASE UNCHANGED mapped
    BY <2>1 DEF RowCount
  <2>2. ASSUME NEW h \in Regions, mapped' = [mapped EXCEPT ![req[r].org][h].plain = @ + 1]
        PROVE  \A o \in Orgs, g \in Regions : RowCount(o, g) > 0 => RowCount(o, g)' > 0
    <3>1. mapped \in [Orgs -> [Regions -> RegionRows]]
      BY DEF TypeOK
    <3> QED
      BY <1>2, <2>2, <3>1 DEF RowCount, RegionRows
  <2> QED
    BY <1>1, <2>1, <2>2 DEF AddMissing, AddRow, AddNamespace, OnlyNamespace, Reads, Tables
<1>6. Grow
  BY <1>1, <1>3, <1>5 DEF Grow
<1>7. Adds(r) => req[r].regions \cap Platform = {}
  BY DEF OrganizationsInv, NamesKnow
<1>8. \A g \in Platform : namespace'[g] = namespace[g]
  <2>1. CASE AddMissing(r) \/ AddRow(r)
    BY <2>1 DEF AddMissing, AddRow, Reads, Tables, OnlyMapped
  <2>2. CASE AddNamespace(r)
    <3>1. req[r].region \notin Platform
      BY <2>2 DEF AddNamespace, OrganizationsInv, NamesKnow, At
    <3>2. namespace \in [Regions -> SUBSET Slugs]
      BY DEF TypeOK
    <3> QED
      BY <2>2, <3>1, <3>2, OrganizationsAssumption DEF AddNamespace
  <2> QED
    BY <2>1, <2>2
<1>9. ASSUME req'[r].pc \in {"add.row", "add.namespace"}, req'[r].org = req[r].org,
             req'[r].regions \cap Platform = {},
             req'[r].pc = "add.namespace" => req'[r].region \notin Platform
      PROVE  Knows(r)' /\ ~Maps(r)'
  <2>1. HasMember(req[r].org)'
    BY <1>2, <1>3, <1>9 DEF HasMember, HasRow
  <2> QED
    BY <1>9, <2>1 DEF Knows, MapsKnows, NamesKnow, DestroysKnows, Maps, Destroys, Adds, Invites, At
<1>10. ASSUME NEW left, left \cap Platform = {}, NextRegion(r, left, "add.row", "idle")
       PROVE  Others(r) /\ Knows(r)' /\ ~Maps(r)'
  <2>1. CASE left # {}
    <3>1. /\ Others(r) /\ \/ req'[r] = Idle
                          \/ /\ req'[r].pc = "add.row" /\ req'[r].regions = left
                             /\ req'[r].org = req[r].org
      BY <1>10, <2>1, NextRegionIs
    <3> QED
      BY <1>9, <1>10, <3>1, IdleKnows
  <2>2. CASE left = {}
    BY <1>10, <2>2, BecomeIs, IdleKnows DEF NextRegion
  <2> QED
    BY <2>1, <2>2
<1>11. Others(r) /\ Knows(r)' /\ ~Maps(r)'
  <2>1. CASE AddMissing(r)
    <3>1. {g \in GetActiveClusterDetails(req[r].user) : RowCount(req[r].org, g) = 0} \cap Platform = {}
      BY <1>2 DEF OrganizationsInv, MembersHaveRegions
    <3> QED
      BY <1>10, <2>1, <3>1 DEF AddMissing
  <2>2. CASE AddRow(r)
    <3>1. PICK g \in req[r].regions :
            \/ Become(r, [req[r] EXCEPT !.pc = "add.namespace", !.region = g, !.regions = @ \ {g}])
            \/ NextRegion(r, req[r].regions \ {g}, "add.row", "idle")
      BY <2>2 DEF AddRow
    <3>2. g \notin Platform /\ (req[r].regions \ {g}) \cap Platform = {}
      BY <1>7, <2>2 DEF AddRow, Adds, At
    <3>3. CASE NextRegion(r, req[r].regions \ {g}, "add.row", "idle")
      BY <1>10, <3>2, <3>3
    <3>4. CASE Become(r, [req[r] EXCEPT !.pc = "add.namespace", !.region = g, !.regions = @ \ {g}])
      <4>1. /\ Others(r)
            /\ req'[r] = [req[r] EXCEPT !.pc = "add.namespace", !.region = g, !.regions = @ \ {g}]
        BY <3>4, BecomeIs
      <4>2. /\ req'[r].pc = "add.namespace" /\ req'[r].region = g /\ req'[r].org = req[r].org
            /\ req'[r].regions = req[r].regions \ {g}
        BY <1>1, <4>1 DEF Request
      <4> QED
        BY <1>9, <3>2, <4>1, <4>2
    <3> QED
      BY <3>1, <3>3, <3>4
  <2>3. CASE AddNamespace(r)
    BY <1>7, <1>10, <2>3 DEF AddNamespace, Adds, At
  <2> QED
    BY <2>1, <2>2, <2>3
<1> QED
  BY <1>1, <1>3, <1>4, <1>6, <1>8, <1>11, QuietInv

\* Members come and go: their rows stay, and only a member's organization is named.
LEMMA MembersInv ==
    ASSUME TypeOK, OrganizationsInv, NEW r \in Requests, Members(r)
    PROVE  OrganizationsInv'
<1>1. /\ req[r] \in Request /\ req[r].user \in Users /\ req[r].orgs \subseteq Orgs
      /\ UNCHANGED <<organization, mapped, first, namespace, stripped, asked, nextOrg>>
  BY DEF Members, InviteCheck, InviteInsert, RemoveCheck, RemoveWrite, OnlyMember, Reads,
         Tables, TypeOK, Request
<1>2. /\ Invites(r) => \A o \in req[r].orgs : HasMember(o)
      /\ req[r].pc = "invite.insert" => req[r].target \in req[r].orgs
  BY DEF OrganizationsInv, NamesKnow
<1>3. member \in [Orgs -> [Users -> MemberRows]]
  BY DEF TypeOK
<1>4. /\ \A o \in Orgs, u \in Users : HasRow(o, u) => HasRow(o, u)'
      /\ \A o \in Orgs : HasMember(o)' => HasMember(o)
  <2>1. CASE UNCHANGED member
    BY <2>1 DEF HasMember, HasRow
  <2>2. CASE InviteInsert(r)
    <3>1. PICK t \in Orgs : t = req[r].target /\ HasMember(t)
      BY <1>1, <1>2, <2>2 DEF InviteInsert, At, Invites
    <3>2. member' = AddUser(t, req[r].user)
      BY <2>2, <3>1 DEF InviteInsert
    <3> QED
      BY <1>1, <3>1, <3>2, AddUserRows
  <2>3. CASE RemoveWrite(r)
    <3>1. req[r].org \in Orgs
      BY <2>3, OwnerHasMember DEF RemoveWrite, At, OrgLabels
    <3>2. \A o \in Orgs, u \in Users : HasRow(o, u)' <=> HasRow(o, u)
      BY <1>1, <1>3, <2>3, <3>1 DEF RemoveWrite, HasRow, MemberRows
    <3> QED
      BY <3>2 DEF HasMember
  <2> QED
    BY <2>1, <2>2, <2>3 DEF Members, InviteCheck, RemoveCheck, Reads, Tables
<1>5. Grow /\ FirstLoginMadeMember' /\ \A o \in Orgs : Known(o)' <=> Known(o)
  BY <1>1, <1>4 DEF Grow, RowCount, Known, OrganizationsInv, FirstLoginMadeMember
<1>6. ASSUME Others(r), req'[r].pc = "invite.check", req'[r].orgs \subseteq req[r].orgs, Invites(r)
      PROVE  Knows(r)' /\ ~Maps(r)'
  <2>1. \A o \in req'[r].orgs : HasMember(o)'
    BY <1>1, <1>2, <1>5, <1>6, GrowMembers
  <2> QED
    BY <1>6, <2>1
    DEF Knows, MapsKnows, NamesKnow, DestroysKnows, Maps, Destroys, Adds, Invites, At, OrgLabels
<1>7. ASSUME NEW left, left \subseteq req[r].orgs, NextOrg(r, left, "invite.check"), Invites(r)
      PROVE  Others(r) /\ Knows(r)' /\ ~Maps(r)'
  BY <1>6, <1>7, NextOrgIs, IdleKnows
<1>8. Others(r) /\ Knows(r)' /\ ~Maps(r)'
  <2>1. CASE InviteCheck(r)
    <3>1. PICK o \in req[r].orgs :
            \/ NextOrg(r, req[r].orgs \ {o}, "invite.check")
            \/ Become(r, [req[r] EXCEPT !.pc = "invite.insert", !.target = o])
      BY <2>1 DEF InviteCheck
    <3>2. CASE NextOrg(r, req[r].orgs \ {o}, "invite.check")
      <4>1. Invites(r) /\ req[r].orgs \ {o} \subseteq req[r].orgs
        BY <2>1 DEF InviteCheck, At, Invites
      <4> QED
        BY <1>7, <3>2, <4>1
    <3>3. CASE Become(r, [req[r] EXCEPT !.pc = "invite.insert", !.target = o])
      <4>1. Others(r) /\ req'[r] = [req[r] EXCEPT !.pc = "invite.insert", !.target = o]
        BY <3>3, BecomeIs
      <4>2. /\ req'[r].pc = "invite.insert" /\ req'[r].target = o /\ req'[r].orgs = req[r].orgs
        BY <1>1, <4>1 DEF Request
      <4>3. \A p \in req[r].orgs : HasMember(p)'
        BY <1>1, <1>2, <1>5, <2>1, GrowMembers DEF InviteCheck, At, Invites
      <4> QED
        BY <3>1, <4>1, <4>2, <4>3
        DEF Knows, MapsKnows, NamesKnow, DestroysKnows, Maps, Destroys, Adds, Invites, At, OrgLabels
    <3> QED
      BY <3>1, <3>2, <3>3
  <2>2. CASE InviteInsert(r)
    <3>1. Invites(r) /\ req[r].orgs \ {req[r].target} \subseteq req[r].orgs
      BY <2>2 DEF InviteInsert, At, Invites
    <3> QED
      BY <1>7, <2>2, <3>1 DEF InviteInsert
  <2>3. CASE RemoveCheck(r)
    <3>1. req[r].org \in Orgs /\ HasMember(req[r].org)
      BY <2>3, OwnerHasMember DEF RemoveCheck, At, OrgLabels
    <3>2. CASE Goto(r, "remove.write")
      <4>1. Others(r) /\ req'[r].pc = "remove.write" /\ req'[r].org = req[r].org
        BY <3>2, GotoIs
      <4>2. HasMember(req[r].org)'
        BY <1>5, <3>1, <4>1, GrowMembers
      <4> QED
        BY <4>1, <4>2, OwnerKnows DEF OwnerLabels
    <3> QED
      BY <2>3, <3>2, EndIs DEF RemoveCheck
  <2>4. CASE RemoveWrite(r)
    BY <2>4, EndIs DEF RemoveWrite
  <2> QED
    BY <2>1, <2>2, <2>3, <2>4 DEF Members
<1> QED
  BY <1>1, <1>4, <1>5, <1>8, QuietInv

\* A namespace that a client asked for by name: nobody claims it, and none is lost.
LEMMA SpacesInv ==
    ASSUME TypeOK, OrganizationsInv, NEW r \in Requests, SpacesCreate(r)
    PROVE  OrganizationsInv'
<1>1. /\ req[r] \in Request
      /\ UNCHANGED <<organization, member, mapped, first, nextOrg, stripped>>
  BY DEF SpacesCreate, OnlyNamespace, TypeOK
<1>2. PICK g \in req[r].regions :
        /\ \/ /\ namespace' = [namespace EXCEPT ![g] = @ \cup {req[r].slug}]
              /\ asked' = [asked EXCEPT ![g] = @ \cup {req[r].slug}]
           \/ UNCHANGED <<namespace, asked>>
        /\ NextRegion(r, req[r].regions \ {g}, "spaces.create", "idle")
  BY DEF SpacesCreate
<1>3. Grow /\ \A o \in Orgs : (HasMember(o)' <=> HasMember(o)) /\ (Known(o)' <=> Known(o))
  BY <1>1, SameGrow
<1>4. FirstLoginMadeMember' /\ MembersHaveRegions' /\ FreshOrgs'
  BY <1>1 DEF OrganizationsInv, FirstLoginMadeMember, MembersHaveRegions, FreshOrgs,
              HasMember, HasRow, RowCount, Known
<1>5. /\ g \in Regions /\ Platform \subseteq Regions
      /\ namespace \in [Regions -> SUBSET Slugs] /\ asked \in [Regions -> SUBSET Slugs]
  BY <1>1, OrganizationsAssumption DEF Request, TypeOK
<1>6. /\ \A h \in Platform : namespace[h] \subseteq namespace'[h]
      /\ \A h \in Platform : Made(h)' \subseteq Made(h)
  <2>1. CASE UNCHANGED <<namespace, asked>>
    BY <2>1 DEF Made
  <2>2. CASE /\ namespace' = [namespace EXCEPT ![g] = @ \cup {req[r].slug}]
             /\ asked' = [asked EXCEPT ![g] = @ \cup {req[r].slug}]
    <3>1. /\ namespace'[g] = namespace[g] \cup {req[r].slug}
          /\ asked'[g] = asked[g] \cup {req[r].slug}
          /\ \A h \in Regions \ {g} : namespace'[h] = namespace[h] /\ asked'[h] = asked[h]
      BY <1>5, <2>2
    <3> QED
      BY <1>5, <3>1 DEF Made
  <2> QED
    BY <1>2, <2>1, <2>2
<1>7. Others(r) /\ Knows(r)' /\ ~Maps(r)'
  <2>1. Others(r) /\ (req'[r] = Idle \/ req'[r].pc \in {"spaces.create", "idle"})
    BY <1>2, NextRegionIs
  <2> QED
    BY <2>1, IdleKnows, FreeKnows DEF FreeLabels
<1>8. ASSUME NEW x \in Requests \ {r}, Maps(x) PROVE ~HasMember(req[x].target)'
  BY <1>1, <1>7, <1>8 DEF OrganizationsInv, MapsKnows, Others, HasMember, HasRow
<1>9. ASSUME NEW h \in Platform, NEW o \in Orgs, Claims(o, h)' PROVE Claims(o, h)
  BY <1>3, <1>7, <1>9 DEF Claims, Others, Maps
<1>10. NamespaceHasOneOwner'
  BY <1>1, <1>3, <1>6, <1>9, KeepOwner
<1> QED
  BY <1>3, <1>4, <1>6, <1>7, <1>8, <1>10, KeepInv

\* The server stops: every request is forgotten, every row and namespace stays.
LEMMA CrashInv ==
    ASSUME TypeOK, OrganizationsInv, Crash
    PROVE  OrganizationsInv'
<1>1. /\ \A r \in Requests : req'[r] = Idle
      /\ UNCHANGED <<organization, member, mapped, first, namespace, stripped, asked, nextOrg>>
  BY DEF Crash, Reads, Tables
<1>2. \A r \in Requests : Knows(r)' /\ ~Maps(r)'
  BY <1>1, IdleKnows
<1>3. Grow
  BY <1>1, SameGrow
<1>4. FreshOrgs' /\ MembersHaveRegions' /\ FirstLoginMadeMember'
  BY <1>1 DEF OrganizationsInv, FreshOrgs, MembersHaveRegions, FirstLoginMadeMember,
              HasMember, HasRow, RowCount, Known
<1>5. OneMaker'
  BY <1>2 DEF OneMaker
<1>6. \A g \in Platform, o \in Orgs : Claims(o, g)' => Claims(o, g)
  BY <1>1, <1>2 DEF Claims, HasMember, HasRow
<1>7. NamespaceHasOneOwner'
  BY <1>1, <1>3, <1>6, KeepOwner
<1> QED
  BY <1>2, <1>4, <1>5, <1>7 DEF OrganizationsInv, Knows

\* Every step of the server keeps the invariant.
LEMMA StepInv == TypeOK /\ OrganizationsInv /\ [Next]_vars => OrganizationsInv'
<1> SUFFICES ASSUME TypeOK, OrganizationsInv, [Next]_vars PROVE OrganizationsInv'
  OBVIOUS
<1>1. CASE UNCHANGED vars
  BY <1>1 DEF vars, OrganizationsInv, FreshOrgs, MapsKnows, NamesKnow, DestroysKnows, OneMaker,
              MembersHaveRegions, FirstLoginMadeMember, NamespaceHasOneOwner, Known, HasMember,
              HasRow, RowCount, Namesake, Made, Claims, Maps, Destroys, Adds, Invites, At
<1>2. ASSUME NEW r \in Requests, Create(r) PROVE OrganizationsInv'
  BY <1>2, LookupInv, CreateInsertInv, MapNamespaceInv, MapRegionInv, MapMemberInv, FirstDoneInv
  DEF Create
<1>3. ASSUME NEW r \in Requests, Delete(r) PROVE OrganizationsInv'
  BY <1>3, DeleteNextInv, DestroyNamespacesInv, RowsInv DEF Delete
<1>4. ASSUME NEW r \in Requests, Settings(r) PROVE OrganizationsInv'
  BY <1>4, LookupInv, RowsInv, DefaultsInv, ClustersInv, AddInv, SpacesInv DEF Settings
<1>5. ASSUME NEW r \in Requests, SqlFails(r) PROVE OrganizationsInv'
  BY <1>5, LookupInv
<1> QED
  BY <1>1, <1>2, <1>3, <1>4, <1>5, MutationInv, MembersInv, CrashInv DEF Next, Done

\* The invariant holds of the empty tables.
LEMMA InitInv == Init => OrganizationsInv
<1> SUFFICES ASSUME Init PROVE OrganizationsInv
  OBVIOUS
<1>1. /\ \A r \in Requests : req[r] = Idle
      /\ \A o \in Orgs : ~Known(o) /\ ~HasMember(o)
      /\ \A u \in Users : first[u]
      /\ nextOrg = 1
  BY DEF Init, Known, HasMember, HasRow
<1>2. \A r \in Requests : MapsKnows(r) /\ NamesKnow(r) /\ DestroysKnows(r) /\ ~Maps(r)
  BY <1>1, IdleOK DEF MapsKnows, NamesKnow, DestroysKnows, Maps, Destroys, Adds, Invites, At, OrgLabels
<1> QED
  BY <1>1, <1>2 DEF OrganizationsInv, FreshOrgs, OneMaker, MembersHaveRegions,
                    FirstLoginMadeMember, NamespaceHasOneOwner, Claims, Orgs

\* Requests know what their next step relies on, and in every cluster of the
\* platform a namespace has one owner, in every reachable state.
THEOREM OrganizationsInvariant == Spec => [](TypeOK /\ OrganizationsInv)
<1>1. Init => OrganizationsInv
  BY InitInv
<1>2. OrganizationsInv /\ TypeOK /\ [Next]_vars => OrganizationsInv'
  BY StepInv
<1> QED
  BY <1>1, <1>2, OrganizationsTypeCorrect, PTL DEF Spec

\* However requests overlap, fail or stop, an organization that has a member has
\* a row for every region of the platform.
THEOREM MembersAlwaysHaveRegions == Spec => []MembersHaveRegions
<1>1. OrganizationsInv => MembersHaveRegions
  BY DEF OrganizationsInv
<1> QED
  BY <1>1, OrganizationsInvariant, PTL

\* Login never leaves a user without an organization who is no longer new.
THEOREM FirstLoginAlwaysMadeMember == Spec => []FirstLoginMadeMember
<1>1. OrganizationsInv => FirstLoginMadeMember
  BY DEF OrganizationsInv
<1> QED
  BY <1>1, OrganizationsInvariant, PTL

\* Live organizations with members share no slug, unless a deletion has removed
\* the namespaces of that slug.
THEOREM MembersNeverShareASlug == Spec => []MembersShareNoSlug
<1>1. ASSUME OrganizationsInv PROVE MembersShareNoSlug
  <2> SUFFICES ASSUME NEW o \in Orgs, NEW p \in Orgs, o # p, HasMember(o), HasMember(p),
                      organization[o].slug = organization[p].slug,
                      organization[o].slug \notin stripped
               PROVE  FALSE
    BY DEF MembersShareNoSlug
  <2>1. PICK g : g \in Platform
    BY OrganizationsAssumption
  <2>2. Claims(o, g) /\ Claims(p, g)
    BY DEF Claims
  <2> QED
    BY <1>1, <2>1, <2>2 DEF OrganizationsInv, NamespaceHasOneOwner
<1> QED
  BY <1>1, OrganizationsInvariant, PTL

\* Where clusters delete the namespaces they are asked to, the organization that a
\* request marks deleted has none left on the platform, but for a namesake's and
\* one that CreateNamespaceInCluster made after the deletion passed its cluster.
THEOREM DeletionLeavesNone == "destroy" \notin Faults /\ Spec => DeletionLeavesNoNamespace
<1> SUFFICES ASSUME "destroy" \notin Faults PROVE Spec => DeletionLeavesNoNamespace
  OBVIOUS
<1>1. ASSUME TypeOK, OrganizationsInv, NEW r \in Requests, Deletes(r)
      PROVE  \A g \in Platform :
                organization[req[r].org].slug \in Made(g) => Namesake(req[r].org)
  <2>1. Destroys(r) /\ req[r].pc = "destroy.rows" /\ req[r].target = req[r].org
    BY <1>1 DEF Deletes, Destroys, At
  <2> QED
    BY <1>1, <2>1 DEF OrganizationsInv, DestroysKnows
<1>2. TypeOK /\ OrganizationsInv =>
        \A r \in Requests :
            LET o == req[r].org
            IN Deletes(r) /\ Live(o) /\ organization'[o].status = "deleted"
               => \A g \in Platform :
                    organization[o].slug \in Made(g) =>
                        \E p \in Orgs \ {o} :
                            /\ organization[p].status # "none"
                            /\ organization[p].slug = organization[o].slug
  BY <1>1 DEF Namesake, Known
<1> QED
  BY <1>2, OrganizationsInvariant, PTL DEF DeletionLeavesNoNamespace
=============================================================================
