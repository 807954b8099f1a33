----------------------------- MODULE Organizations -----------------------------
(***************************************************************************)
(* Organizations and what hangs on them: their rows, members, regions, and  *)
(* the namespace each has in every cluster.  The mutations that change them *)
(* are those of organizations.resolvers.go, region.resolvers.go, the BYOC   *)
(* clusters of cluster.resolvers.go, membership of user.resolvers.go, and   *)
(* the first organization Login makes for a new user.  MigrateOrganization, *)
(* which moves applications and sub organizations, is left out.             *)
(*                                                                          *)
(* As in AppLifecycle a step is one SQL statement or one call to a cluster, *)
(* requests interleave without a lock or a transaction, and an error ends   *)
(* the request where it happens.  Reads that only lead to an error or to a  *)
(* log entry are part of the step before them.                              *)
(***************************************************************************)
EXTENDS Integers, FiniteSets, FiniteSetsExt

CONSTANTS
    Users,         \* users of role admin, registered with a company
    Regions,       \* region codes
    Platform,      \* those of cluster_info; the others are clusters users add
    India,         \* "IND", the region MapOrganization makes the default
    Slugs,
    Names,         \* what clients call an organization
    SlugOf,        \* [^\w] removed, in lower case
    Plain,         \* the names that are their own slug but for the case
    Numbered,      \* slugs of a name with "-" and four random digits
    CompanyOf,     \* the company a user registered with, a name
    Limit,         \* of the user's plan
    Requests,      \* request slots: how many requests run at once
    MaxRequests,   \* bound on the requests issued in a behaviour
    Kinds,         \* the mutations the clients issue
    Faults         \* what may go wrong outside the server, see FaultKinds

KindNames == {"login", "create", "createsub", "delete", "deletesub", "update",
              "default", "regions", "addcluster", "dropcluster", "addregions",
              "namespaces", "invite", "remove"}

FaultKinds == {
    "sql",         \* a statement, or a call before it, fails
    "namespace",   \* a cluster refuses to create a namespace
    "destroy",     \* a cluster refuses to delete a namespace
    "crash"}       \* the server stops

ASSUME OrganizationsAssumption ==
    /\ Users # {}
    /\ Platform # {} /\ Platform \subseteq Regions /\ IsFiniteSet(Regions)
    /\ India \in Regions
    /\ Names # {} /\ Plain \subseteq Names
    /\ SlugOf \in [Names -> Slugs]
    /\ Numbered \in [Names -> SUBSET Slugs]
    /\ CompanyOf \in [Users -> Names]
    /\ Limit \in Nat /\ MaxRequests \in Nat
    /\ Kinds \subseteq KindNames
    /\ Faults \subseteq FaultKinds

\* A request makes at most one organization.
Orgs == 1 .. MaxRequests
NoOrg == 0

VARIABLES
    organization,  \* table organization, by id
    member,        \* table organization_users: how many rows, by is_active
    mapped,        \* table organization_regions: how many rows, by is_default
    own,           \* table cluster_info_user: the active clusters of a user
    first,         \* user.first_time_user
    namespace,     \* the namespaces that exist in a region's cluster
    stripped,      \* history: slugs whose namespaces a deletion asked to delete
    asked,         \* history: those of namespace that a client asked for by name
    nextOrg,       \* next fresh organization uuid
    req,           \* the request each slot executes
    issued         \* requests issued so far

vars == <<organization, member, mapped, own, first, namespace, stripped, asked, nextOrg, req, issued>>

OrganizationRow == [status: {"none", "live", "deleted"}, slug: Slugs,
                    parent: Orgs \cup {NoOrg}, default: BOOLEAN]
MemberRows == [active: Nat, inactive: Nat]
RegionRows == [plain: Nat, default: Nat]

Labels == {"idle",
    "first.read", "first.slug", "first.done",
    "create.count", "create.find", "create.check", "create.insert",
    "map.namespace", "map.region", "map.member",
    "delete.find", "delete.subs", "delete.next", "destroy.namespaces", "destroy.rows",
    "update.list", "update.type", "default.clear", "default.set",
    "regions.count", "regions.set", "cluster.count", "cluster.insert",
    "cluster.check", "cluster.drop", "add.missing", "add.row", "add.namespace",
    "spaces.create", "invite.check", "invite.insert", "remove.check", "remove.write"}

OrgLabels == {"delete.find", "delete.subs", "delete.next", "destroy.namespaces",
    "destroy.rows", "default.clear", "default.set", "regions.count", "regions.set",
    "add.missing", "add.row", "add.namespace", "remove.check", "remove.write"}

TargetLabels == {"create.check", "map.namespace", "map.region", "map.member",
    "destroy.namespaces", "destroy.rows", "invite.insert"}

Request ==
    [pc: Labels, kind: KindNames \cup {"none"}, user: Users,
     name: Names, slug: Slugs,
     org: Orgs \cup {NoOrg},       \* the organization the client names, a parent too
     target: Orgs \cup {NoOrg},    \* the organization in hand
     orgs: SUBSET Orgs,            \* organizations still to visit
     region: Regions, regions: SUBSET Regions,   \* in hand, and still to visit
     isDefault: BOOLEAN]

AnyName == CHOOSE n \in Names : TRUE

Idle ==
    [pc |-> "idle", kind |-> "none", user |-> CHOOSE u \in Users : TRUE,
     name |-> AnyName, slug |-> SlugOf[AnyName],
     org |-> NoOrg, target |-> NoOrg, orgs |-> {},
     region |-> India, regions |-> {}, isDefault |-> FALSE]

TypeOK ==
    /\ organization \in [Orgs -> OrganizationRow]
    /\ member \in [Orgs -> [Users -> MemberRows]]
    /\ mapped \in [Orgs -> [Regions -> RegionRows]]
    /\ own \in [Users -> SUBSET Regions]
    /\ first \in [Users -> BOOLEAN]
    /\ namespace \in [Regions -> SUBSET Slugs]
    /\ stripped \in SUBSET Slugs
    /\ asked \in [Regions -> SUBSET Slugs]
    /\ nextOrg \in 1 .. MaxRequests + 1
    /\ req \in [Requests -> Request]
    /\ issued \in 0 .. MaxRequests
    \* a request that works on an organization has one
    /\ \A r \in Requests :
        /\ req[r].pc \in OrgLabels => req[r].org \in Orgs
        /\ req[r].pc \in TargetLabels => req[r].target \in Orgs

Init ==
    /\ organization = [o \in Orgs |-> [status |-> "none", slug |-> SlugOf[AnyName],
                                       parent |-> NoOrg, default |-> FALSE]]
    /\ member = [o \in Orgs |-> [u \in Users |-> [active |-> 0, inactive |-> 0]]]
    /\ mapped = [o \in Orgs |-> [g \in Regions |-> [plain |-> 0, default |-> 0]]]
    /\ own = [u \in Users |-> {}]
    /\ first = [u \in Users |-> TRUE]
    /\ namespace = [g \in Regions |-> {}]
    /\ stripped = {}
    /\ asked = [g \in Regions |-> {}]
    /\ nextOrg = 1
    /\ req = [r \in Requests |-> Idle]
    /\ issued = 0

-----------------------------------------------------------------------------
(***************************************************************************)
(* What the statements read                                                *)
(***************************************************************************)
Live(o) == organization[o].status = "live"

\* GetOrganization("", slug): any live row, the one scanned last.
GetOrganization(slug) == {o \in Orgs : Live(o) /\ organization[o].slug = slug}

GetSubOrganization(o) == {s \in Orgs : Live(s) /\ organization[s].parent = o}

\* CheckOrgExistByUser and GetOrgByUserId read is_active rows and others.
HasRow(o, u) == member[o][u].active + member[o][u].inactive > 0

\* AllOrganizations, from which the clients take the ids they name.
AllOrganizations(u) == {o \in Orgs : Live(o) /\ member[o][u].active > 0}

\* A membership counts once for each of its rows.
GetOrganizationCountById(u, sub) ==
    MapThenSumSet(LAMBDA o : member[o][u].active,
                  {o \in AllOrganizations(u) : (organization[o].parent # NoOrg) = sub})

GetActiveClusterDetails(u) == Platform \cup own[u]

RowCount(o, g) == mapped[o][g].plain + mapped[o][g].default

\* GetRegionByOrgId, counted by MutipleRegion.
DefaultCount(o, u) ==
    MapThenSumSet(LAMBDA g : mapped[o][g].default, GetActiveClusterDetails(u))

\* UPDATE organization_regions SET is_default, for every row of the region.
Marked(o, g, isDefault) ==
    IF isDefault THEN [plain |-> 0, default |-> RowCount(o, g)]
    ELSE [plain |-> RowCount(o, g), default |-> 0]

-----------------------------------------------------------------------------
(***************************************************************************)
(* Control                                                                 *)
(***************************************************************************)
At(r, label) == req[r].pc = label
Become(r, q) == req' = [req EXCEPT ![r] = q]
Goto(r, label) == Become(r, [req[r] EXCEPT !.pc = label])
End(r) == Become(r, Idle)

\* Visit the regions still to come, or go on.
NextRegion(r, left, again, after) ==
    Become(r, IF left # {} THEN [req[r] EXCEPT !.pc = again, !.regions = left]
              ELSE IF after = "idle" THEN Idle
              ELSE [req[r] EXCEPT !.pc = after, !.regions = {}])

NextOrg(r, left, again) ==
    Become(r, IF left = {} THEN Idle ELSE [req[r] EXCEPT !.pc = again, !.orgs = left])

Tables == <<organization, member, mapped, own, first, namespace, stripped, asked, nextOrg>>
Reads == UNCHANGED <<Tables, issued>>
OnlyOrganization == UNCHANGED <<member, mapped, own, first, namespace, stripped, asked, issued>>
OnlyMember == UNCHANGED <<organization, mapped, own, first, namespace, stripped, asked, nextOrg, issued>>
OnlyMapped == UNCHANGED <<organization, member, own, first, namespace, stripped, asked, nextOrg, issued>>
OnlyNamespace == UNCHANGED <<organization, member, mapped, own, first, nextOrg, issued>>
OnlyOwn == UNCHANGED <<organization, member, mapped, first, namespace, stripped, asked, nextOrg, issued>>

-----------------------------------------------------------------------------
(***************************************************************************)
(* The mutations.  Clients name organizations from the lists the server     *)
(* gave them, regions from the organization's, and users freely.            *)
(***************************************************************************)
Begin(r, kind, label, q) ==
    /\ At(r, "idle")
    /\ issued < MaxRequests
    /\ kind \in Kinds
    /\ Become(r, [q EXCEPT !.pc = label, !.kind = kind])
    /\ issued' = issued + 1
    /\ UNCHANGED Tables

By(u) == [Idle EXCEPT !.user = u]

Login(r) ==
    \E u \in Users :
        Begin(r, "login", "first.read", [By(u) EXCEPT !.name = CompanyOf[u]])

CreateOrganization(r) ==
    \E u \in Users, n \in Names :
        Begin(r, "create", "create.count", [By(u) EXCEPT !.name = n])

CreateSubOrganization(r) ==
    \E u \in Users, n \in Names : \E o \in AllOrganizations(u) :
        Begin(r, "createsub", "create.count", [By(u) EXCEPT !.name = n, !.org = o])

DeleteOrganization(r) ==
    \E u \in Users : \E o \in AllOrganizations(u) :
        Begin(r, "delete", "delete.find", [By(u) EXCEPT !.org = o])

DeleteSubOrganization(r) ==
    \E u \in Users : \E o \in AllOrganizations(u) :
        /\ organization[o].parent # NoOrg
        /\ Begin(r, "deletesub", "delete.find", [By(u) EXCEPT !.org = o])

UpdateOrganization(r) ==
    \E u \in Users : \E o \in AllOrganizations(u) :
        Begin(r, "update", "update.list", [By(u) EXCEPT !.slug = organization[o].slug])

UpdateDefaultRegion(r) ==
    \E u \in Users : \E o \in AllOrganizations(u) :
        \E g \in {g \in Regions : RowCount(o, g) > 0} :
            Begin(r, "default", "default.clear", [By(u) EXCEPT !.org = o, !.region = g])

MutipleRegion(r) ==
    \E u \in Users, isDefault \in BOOLEAN : \E o \in AllOrganizations(u) :
        \E R \in (SUBSET {g \in Regions : RowCount(o, g) > 0}) \ {{}} :
            Begin(r, "regions", "regions.count",
                  [By(u) EXCEPT !.org = o, !.regions = R, !.isDefault = isDefault])

\* One request at a time adds the same cluster: own counts it once.
AddRegionUsingKubeConfig(r) ==
    \E u \in Users, g \in Regions \ Platform :
        /\ g \notin own[u]
        /\ \A x \in Requests : ~(req[x].kind = "addcluster" /\ req[x].user = u
                                 /\ req[x].region = g)
        /\ Begin(r, "addcluster", "cluster.count", [By(u) EXCEPT !.region = g])

DeleteKubeConfigRegion(r) ==
    \E u \in Users : \E g \in own[u] :
        Begin(r, "dropcluster", "cluster.check", [By(u) EXCEPT !.region = g])

AddUserAddedregionsToOrganizatiom(r) ==
    \E u \in Users : \E o \in AllOrganizations(u) :
        Begin(r, "addregions", "add.missing", [By(u) EXCEPT !.org = o])

\* Any user, or none, and any names; a list of names is as many requests.
CreateNamespaceInCluster(r) ==
    \E s \in Slugs :
        Begin(r, "namespaces", "spaces.create", [Idle EXCEPT !.slug = s, !.regions = Platform])

\* The user in the request is the one invited, or removed.
AddUserToOrg(r) ==
    \E u \in Users, guest \in Users :
        \E O \in (SUBSET AllOrganizations(u)) \ {{}} :
            Begin(r, "invite", "invite.check", [By(guest) EXCEPT !.orgs = O])

RemoveUserOrg(r) ==
    \E u \in Users, guest \in Users : \E o \in AllOrganizations(u) :
        Begin(r, "remove", "remove.check", [By(guest) EXCEPT !.org = o])

Mutation(r) ==
    \/ Login(r) \/ CreateOrganization(r) \/ CreateSubOrganization(r)
    \/ DeleteOrganization(r) \/ DeleteSubOrganization(r)
    \/ UpdateOrganization(r) \/ UpdateDefaultRegion(r) \/ MutipleRegion(r)
    \/ AddRegionUsingKubeConfig(r) \/ DeleteKubeConfigRegion(r)
    \/ AddUserAddedregionsToOrganizatiom(r) \/ CreateNamespaceInCluster(r)
    \/ AddUserToOrg(r) \/ RemoveUserOrg(r)

-----------------------------------------------------------------------------
(***************************************************************************)
(* Login's first organization, and CreateOrganization                      *)
(***************************************************************************)
\* Mutation of FirstRead: the user stops being new before the creation.
FirstReadClears(r) ==
    /\ At(r, "first.read")
    /\ IF first[req[r].user] THEN Goto(r, "first.slug") ELSE End(r)
    /\ first' = [first EXCEPT ![req[r].user] = FALSE]
    /\ UNCHANGED <<organization, member, mapped, own, namespace, stripped, asked, nextOrg, issued>>

FirstRead(r) ==
    /\ At(r, "first.read")
    /\ IF first[req[r].user] THEN Goto(r, "first.slug") ELSE End(r)
    /\ Reads

\* A name that is taken gets four random digits.
Renamed(r) == Numbered[req[r].name]

\* A lookup that fails is taken for one that finds nothing: its error is dropped.
FirstSlug(r) ==
    /\ At(r, "first.slug")
    /\ LET slug == SlugOf[req[r].name]
           insert(s) == Become(r, [req[r] EXCEPT !.pc = "create.insert", !.slug = s,
                                                 !.isDefault = TRUE])
       IN \/ GetOrganization(slug) # {} /\ \E s \in Renamed(r) : insert(s)
          \/ (GetOrganization(slug) = {} \/ "sql" \in Faults) /\ insert(slug)
    /\ Reads

CreateCount(r) ==
    /\ At(r, "create.count")
    /\ IF GetOrganizationCountById(req[r].user, req[r].kind = "createsub") >= Limit
       THEN End(r) ELSE Goto(r, "create.find")
    /\ Reads

\* The name itself is looked up among the slugs.
CreateFind(r) ==
    /\ At(r, "create.find")
    /\ LET found == IF req[r].name \in Plain THEN GetOrganization(SlugOf[req[r].name])
                    ELSE {}
       IN \/ /\ found = {}
             /\ Become(r, [req[r] EXCEPT !.pc = "create.insert",
                                         !.slug = SlugOf[req[r].name]])
          \/ \E o \in found :
                Become(r, [req[r] EXCEPT !.pc = "create.check", !.target = o])
    /\ Reads

CreateCheck(r) ==
    /\ At(r, "create.check")
    /\ IF HasRow(req[r].target, req[r].user)
       THEN \E s \in Renamed(r) :
                Become(r, [req[r] EXCEPT !.pc = "create.insert", !.slug = s])
       ELSE End(r)
    /\ Reads

\* INSERT INTO organization, then GetActiveClusterDetails.
CreateInsert(r) ==
    /\ At(r, "create.insert")
    /\ nextOrg \in Orgs
    /\ organization' = [organization EXCEPT ![nextOrg] =
            [status |-> "live", slug |-> req[r].slug, parent |-> req[r].org,
             default |-> req[r].isDefault]]
    /\ nextOrg' = nextOrg + 1
    /\ Become(r, [req[r] EXCEPT !.pc = "map.namespace", !.target = nextOrg,
                                !.regions = GetActiveClusterDetails(req[r].user)])
    /\ OnlyOrganization

\* Mutation of MapNamespace: an error of the cluster is logged, the next region tried.
MapNamespaceLogged(r) ==
    /\ At(r, "map.namespace")
    /\ \E g \in req[r].regions :
        \/ /\ req[r].slug \notin namespace[g]
           /\ namespace' = [namespace EXCEPT ![g] = @ \cup {req[r].slug}]
           /\ Become(r, [req[r] EXCEPT !.pc = "map.region", !.region = g,
                                       !.regions = @ \ {g}])
        \/ /\ req[r].slug \in namespace[g]
           /\ NextRegion(r, req[r].regions \ {g}, "map.namespace", "map.member")
           /\ UNCHANGED namespace
    /\ OnlyNamespace
    /\ UNCHANGED <<stripped, asked>>

\* Mutation of MapNamespace: a namespace that exists will do.
MapNamespaceExisting(r) ==
    /\ At(r, "map.namespace")
    /\ \E g \in req[r].regions :
        /\ namespace' = [namespace EXCEPT ![g] = @ \cup {req[r].slug}]
        /\ Become(r, [req[r] EXCEPT !.pc = "map.region", !.region = g, !.regions = @ \ {g}])
    /\ OnlyNamespace
    /\ UNCHANGED <<stripped, asked>>

\* A namespace that exists is an error, which leaves the row without a member.
MapNamespace(r) ==
    /\ At(r, "map.namespace")
    /\ \E g \in req[r].regions :
        \/ /\ req[r].slug \notin namespace[g]
           /\ namespace' = [namespace EXCEPT ![g] = @ \cup {req[r].slug}]
           /\ Become(r, [req[r] EXCEPT !.pc = "map.region", !.region = g,
                                       !.regions = @ \ {g}])
        \/ /\ req[r].slug \in namespace[g] \/ "namespace" \in Faults
           /\ End(r)
           /\ UNCHANGED namespace
    /\ OnlyNamespace
    /\ UNCHANGED <<stripped, asked>>

MapRegion(r) ==
    /\ At(r, "map.region")
    /\ mapped' = IF req[r].region = India
                 THEN [mapped EXCEPT ![req[r].target][req[r].region].default = @ + 1]
                 ELSE [mapped EXCEPT ![req[r].target][req[r].region].plain = @ + 1]
    /\ NextRegion(r, req[r].regions, "map.namespace", "map.member")
    /\ OnlyMapped

\* AddUserToOrg of organization_users.go: a row for each call.
AddUser(o, u) == [member EXCEPT ![o][u].active = @ + 1]

MapMember(r) ==
    /\ At(r, "map.member")
    /\ member' = AddUser(req[r].target, req[r].user)
    /\ IF req[r].kind = "login" THEN Goto(r, "first.done") ELSE End(r)
    /\ OnlyMember

\* ChangeFirstUserOption
FirstDone(r) ==
    /\ At(r, "first.done")
    /\ first' = [first EXCEPT ![req[r].user] = FALSE]
    /\ End(r)
    /\ UNCHANGED <<organization, member, mapped, own, namespace, stripped, asked, nextOrg, issued>>

Create(r) ==
    \/ FirstRead(r) \/ FirstSlug(r) \/ CreateCount(r) \/ CreateFind(r) \/ CreateCheck(r)
    \/ CreateInsert(r) \/ MapNamespace(r) \/ MapRegion(r) \/ MapMember(r) \/ FirstDone(r)

-----------------------------------------------------------------------------
(***************************************************************************)
(* DeleteOrganization and DeleteSubOrganization.  The first deletes its sub *)
(* organizations one by one, dropping their errors, and then its own        *)
(* resources.  The stored procedure that marks the rows is not in the       *)
(* repository; it answers 1 when it has.                                    *)
(***************************************************************************)
DeleteFind(r) ==
    /\ At(r, "delete.find")
    /\ IF ~Live(req[r].org) THEN End(r)
       ELSE IF req[r].kind = "delete" THEN Goto(r, "delete.subs")
       ELSE Goto(r, "delete.next")
    /\ Reads

DeleteSubs(r) ==
    /\ At(r, "delete.subs")
    /\ Become(r, [req[r] EXCEPT !.pc = "delete.next",
                                !.orgs = GetSubOrganization(req[r].org)])
    /\ Reads

\* Fetching a kubeconfig may fail before anything is deleted.
DeleteNext(r) ==
    /\ At(r, "delete.next")
    /\ LET destroy(o) == [req[r] EXCEPT !.pc = "destroy.namespaces", !.target = o,
                              !.orgs = @ \ {o}, !.slug = organization[o].slug,
                              !.regions = GetActiveClusterDetails(req[r].user)]
       IN \/ /\ req[r].orgs = {}
             /\ \/ Become(r, destroy(req[r].org))
                \/ "sql" \in Faults /\ End(r)
          \/ \E o \in req[r].orgs :
                \/ Live(o) /\ Become(r, destroy(o))
                \/ /\ ~Live(o) \/ "sql" \in Faults
                   /\ Become(r, [req[r] EXCEPT !.orgs = @ \ {o}])
    /\ Reads

\* DeleteNamespaceInCluster
RemoveNamespace(g, slug) ==
    /\ namespace' = [namespace EXCEPT ![g] = @ \ {slug}]
    /\ asked' = [asked EXCEPT ![g] = @ \ {slug}]

\* Mutation of DestroyNamespaces: the loop ends with the first cluster.
DestroyNamespacesOnce(r) ==
    /\ At(r, "destroy.namespaces")
    /\ \E g \in req[r].regions : RemoveNamespace(g, req[r].slug)
    /\ NextRegion(r, {}, "destroy.namespaces", "destroy.rows")
    /\ stripped' = stripped \cup {req[r].slug}
    /\ OnlyNamespace

\* A namespace the cluster does not delete is logged.
DestroyNamespaces(r) ==
    /\ At(r, "destroy.namespaces")
    /\ \E g \in req[r].regions :
        /\ \/ RemoveNamespace(g, req[r].slug)
           \/ "destroy" \in Faults /\ UNCHANGED <<namespace, asked>>
        /\ NextRegion(r, req[r].regions \ {g}, "destroy.namespaces", "destroy.rows")
    /\ stripped' = stripped \cup {req[r].slug}
    /\ OnlyNamespace

DestroyRows(r) ==
    /\ At(r, "destroy.rows")
    /\ \/ organization' = [organization EXCEPT ![req[r].target].status = "deleted"]
       \/ "sql" \in Faults /\ UNCHANGED organization
    /\ IF req[r].target = req[r].org THEN End(r) ELSE Goto(r, "delete.next")
    /\ OnlyOrganization
    /\ UNCHANGED nextOrg

Delete(r) ==
    \/ DeleteFind(r) \/ DeleteSubs(r) \/ DeleteNext(r)
    \/ DestroyNamespaces(r) \/ DestroyRows(r)

-----------------------------------------------------------------------------
(***************************************************************************)
(* UpdateOrganization: the default organization of a user.                 *)
(***************************************************************************)
UpdateList(r) ==
    /\ At(r, "update.list")
    /\ NextOrg(r, AllOrganizations(req[r].user), "update.type")
    /\ Reads

\* UPDATE organization SET type WHERE slug: rows of anybody, deleted ones too.
UpdateType(r) ==
    /\ At(r, "update.type")
    /\ \E o \in req[r].orgs :
        /\ organization' = [x \in Orgs |->
                IF organization[x].status # "none"
                   /\ organization[x].slug = organization[o].slug
                THEN [organization[x] EXCEPT !.default = organization[o].slug = req[r].slug]
                ELSE organization[x]]
        /\ NextOrg(r, req[r].orgs \ {o}, "update.type")
    /\ OnlyOrganization
    /\ UNCHANGED nextOrg

-----------------------------------------------------------------------------
(***************************************************************************)
(* The default regions of an organization                                  *)
(***************************************************************************)
\* RemoveDefaultRegion
DefaultClear(r) ==
    /\ At(r, "default.clear")
    /\ mapped' = [mapped EXCEPT ![req[r].org] =
            [g \in Regions |-> Marked(req[r].org, g, FALSE)]]
    /\ Goto(r, "default.set")
    /\ OnlyMapped

DefaultSet(r) ==
    /\ At(r, "default.set")
    /\ mapped' = [mapped EXCEPT ![req[r].org][req[r].region] =
            Marked(req[r].org, req[r].region, TRUE)]
    /\ End(r)
    /\ OnlyMapped

\* The check compares two numbers, not two lists.
RegionsCount(r) ==
    /\ At(r, "regions.count")
    /\ IF /\ ~req[r].isDefault
          /\ DefaultCount(req[r].org, req[r].user) = Cardinality(req[r].regions)
       THEN End(r) ELSE Goto(r, "regions.set")
    /\ Reads

\* UpdateMultipleRegion
RegionsSet(r) ==
    /\ At(r, "regions.set")
    /\ \E g \in req[r].regions :
        /\ mapped' = [mapped EXCEPT ![req[r].org][g] =
                Marked(req[r].org, g, req[r].isDefault)]
        /\ NextRegion(r, req[r].regions \ {g}, "regions.set", "idle")
    /\ OnlyMapped

-----------------------------------------------------------------------------
(***************************************************************************)
(* A user's own clusters                                                   *)
(***************************************************************************)
\* CheckUserAddedRegion against the plan.
ClusterCount(r) ==
    /\ At(r, "cluster.count")
    /\ IF Cardinality(own[req[r].user]) >= Limit THEN End(r) ELSE Goto(r, "cluster.insert")
    /\ Reads

ClusterInsert(r) ==
    /\ At(r, "cluster.insert")
    /\ own' = [own EXCEPT ![req[r].user] = @ \cup {req[r].region}]
    /\ End(r)
    /\ OnlyOwn

\* Applications in the region, which this module does not have, refuse it.
ClusterCheck(r) ==
    /\ At(r, "cluster.check")
    /\ \/ req[r].region \in own[req[r].user] /\ Goto(r, "cluster.drop")
       \/ End(r)
    /\ Reads

ClusterDrop(r) ==
    /\ At(r, "cluster.drop")
    /\ own' = [own EXCEPT ![req[r].user] = @ \ {req[r].region}]
    /\ End(r)
    /\ OnlyOwn

AddMissing(r) ==
    /\ At(r, "add.missing")
    /\ NextRegion(r, {g \in GetActiveClusterDetails(req[r].user) :
                        RowCount(req[r].org, g) = 0}, "add.row", "idle")
    /\ Reads

\* InsertOrganizationRegion: the row comes first; its errors are dropped.
AddRow(r) ==
    /\ At(r, "add.row")
    /\ \E g \in req[r].regions :
        \/ /\ mapped' = [mapped EXCEPT ![req[r].org][g].plain = @ + 1]
           /\ Become(r, [req[r] EXCEPT !.pc = "add.namespace", !.region = g,
                                       !.regions = @ \ {g}])
        \/ /\ "sql" \in Faults
           /\ NextRegion(r, req[r].regions \ {g}, "add.row", "idle")
           /\ UNCHANGED mapped
    /\ OnlyMapped

AddNamespace(r) ==
    /\ At(r, "add.namespace")
    /\ \/ namespace' = [namespace EXCEPT ![req[r].region] =
                            @ \cup {organization[req[r].org].slug}]
       \/ Faults \cap {"namespace", "sql"} # {} /\ UNCHANGED namespace
    /\ NextRegion(r, req[r].regions, "add.row", "idle")
    /\ OnlyNamespace
    /\ UNCHANGED <<stripped, asked>>

\* A cluster without a configuration is passed over, an error of a cluster is logged.
SpacesCreate(r) ==
    /\ At(r, "spaces.create")
    /\ \E g \in req[r].regions :
        /\ \/ /\ req[r].slug \notin namespace[g]
              /\ namespace' = [namespace EXCEPT ![g] = @ \cup {req[r].slug}]
              /\ asked' = [asked EXCEPT ![g] = @ \cup {req[r].slug}]
           \/ UNCHANGED <<namespace, asked>>
        /\ NextRegion(r, req[r].regions \ {g}, "spaces.create", "idle")
    /\ OnlyNamespace
    /\ UNCHANGED stripped

Settings(r) ==
    \/ UpdateList(r) \/ UpdateType(r) \/ DefaultClear(r) \/ DefaultSet(r)
    \/ RegionsCount(r) \/ RegionsSet(r) \/ ClusterCount(r) \/ ClusterInsert(r)
    \/ ClusterCheck(r) \/ ClusterDrop(r) \/ AddMissing(r) \/ AddRow(r) \/ AddNamespace(r)
    \/ SpacesCreate(r)

-----------------------------------------------------------------------------
(***************************************************************************)
(* Members                                                                 *)
(***************************************************************************)
\* InviteUserAddOrgs: a user who has a row, active or not, is skipped.
InviteCheck(r) ==
    /\ At(r, "invite.check")
    /\ \E o \in req[r].orgs :
        IF HasRow(o, req[r].user) THEN NextOrg(r, req[r].orgs \ {o}, "invite.check")
        ELSE Become(r, [req[r] EXCEPT !.pc = "invite.insert", !.target = o])
    /\ Reads

InviteInsert(r) ==
    /\ At(r, "invite.insert")
    /\ member' = AddUser(req[r].target, req[r].user)
    /\ NextOrg(r, req[r].orgs \ {req[r].target}, "invite.check")
    /\ OnlyMember

RemoveCheck(r) ==
    /\ At(r, "remove.check")
    /\ IF HasRow(req[r].org, req[r].user) THEN Goto(r, "remove.write") ELSE End(r)
    /\ Reads

\* Mutation of RemoveWrite: one row, as if the user had an active one.
RemoveOneRow(r) ==
    /\ At(r, "remove.write")
    /\ member' = [member EXCEPT ![req[r].org][req[r].user] =
            [active |-> @.active - 1, inactive |-> @.inactive + 1]]
    /\ End(r)
    /\ OnlyMember

\* UpdateUserInActive: every row of the user in the organization.
RemoveWrite(r) ==
    /\ At(r, "remove.write")
    /\ member' = [member EXCEPT ![req[r].org][req[r].user] =
            [active |-> 0, inactive |-> @.active + @.inactive]]
    /\ End(r)
    /\ OnlyMember

Members(r) == InviteCheck(r) \/ InviteInsert(r) \/ RemoveCheck(r) \/ RemoveWrite(r)

-----------------------------------------------------------------------------
\* Where a failed statement does not simply end the request, or does nothing.
FailsElsewhere == {"idle", "first.slug", "delete.next", "destroy.namespaces", "destroy.rows",
                   "add.row", "add.namespace", "spaces.create"}

SqlFails(r) ==
    /\ "sql" \in Faults
    /\ req[r].pc \notin FailsElsewhere
    /\ End(r)
    /\ Reads

\* The server stops: what was written stays.
Crash ==
    /\ "crash" \in Faults
    /\ req' = [r \in Requests |-> Idle]
    /\ Reads

Quiet == \A r \in Requests : At(r, "idle")
Done == Quiet /\ issued = MaxRequests /\ UNCHANGED vars

Next ==
    \/ \E r \in Requests :
        Mutation(r) \/ Create(r) \/ Delete(r) \/ Settings(r) \/ Members(r) \/ SqlFails(r)
    \/ Crash
    \/ Done

Spec == Init /\ [][Next]_vars
-----------------------------------------------------------------------------
HasMember(o) == \E u \in Users : HasRow(o, u)

\* An organization that has a member has a row for every region of the platform:
\* MapOrganization writes the member last, so a creation that fails or stops in
\* any region leaves an organization nobody is a member of.
MembersHaveRegions ==
    \A o \in Orgs : HasMember(o) => \A g \in Platform : RowCount(o, g) > 0

\* A user who is no longer new has been made a member of an organization: Login
\* clears first_time_user after the creation only, whatever fails in between.
FirstLoginMadeMember ==
    \A u \in Users : ~first[u] => \E o \in Orgs : HasRow(o, u)

\* Two organizations with members share a slug, and so their namespaces, only if
\* a deletion has removed namespaces of that slug: nothing compares the slugs of
\* overlapping creations, and it is the cluster's refusal to make a namespace
\* twice that stops the second one.
MembersShareNoSlug ==
    \A o, p \in Orgs :
        (o # p /\ Live(o) /\ Live(p) /\ HasMember(o) /\ HasMember(p)
         /\ organization[o].slug = organization[p].slug)
        => organization[o].slug \in stripped

Deletes(r) == At(r, "destroy.rows") /\ req[r].target = req[r].org

\* The namespaces in a cluster that organizations were made with, or regions added with.
Made(g) == namespace[g] \ asked[g]

\* When the organization a client asked to delete is marked deleted, no cluster
\* of the platform holds a namespace of its slug, but for two cases: another
\* organization has had that slug, or CreateNamespaceInCluster has made the
\* namespace anew after the deletion passed that cluster.  What
\* DestoryOrganizationResources removed before it read the applications and called
\* the procedure does not come back through work on the regions, the members or
\* the names of the organization, nor through another deletion of it.
DeletionLeavesNoNamespace ==
    [][\A r \in Requests :
        LET o == req[r].org
        IN Deletes(r) /\ Live(o) /\ organization'[o].status = "deleted"
           => \A g \in Platform :
                organization[o].slug \in Made(g) =>
                    \E p \in Orgs \ {o} :
                        /\ organization[p].status # "none"
                        /\ organization[p].slug = organization[o].slug]_vars

-----------------------------------------------------------------------------
(***************************************************************************)
(* The inductive invariant behind the properties                           *)
(***************************************************************************)
Maps(r) == req[r].pc \in {"map.namespace", "map.region", "map.member"}
Destroys(r) == req[r].pc \in {"destroy.namespaces", "destroy.rows"}
Adds(r) == req[r].pc \in {"add.row", "add.namespace"}
Invites(r) == req[r].pc \in {"invite.check", "invite.insert"}

Known(o) == organization[o].status # "none"
Namesake(o) == \E p \in Orgs \ {o} : Known(p) /\ organization[p].slug = organization[o].slug

\* An organization that was made, or is being made, with the namespace of region g.
Claims(o, g) ==
    \/ HasMember(o)
    \/ \E r \in Requests : Maps(r) /\ req[r].target = o /\ g \notin req[r].regions

FreshOrgs == \A o \in Orgs : (Known(o) <=> o < nextOrg) /\ (HasMember(o) => Known(o))

\* A creation has its row, no member yet, and the regions it has passed.
MapsKnows(r) ==
    Maps(r) =>
        /\ Known(req[r].target)
        /\ organization[req[r].target].slug = req[r].slug
        /\ ~HasMember(req[r].target)
        /\ req[r].pc = "map.member" => req[r].regions = {}
        /\ \A g \in Platform \ req[r].regions :
            (req[r].pc = "map.region" => g # req[r].region) => RowCount(req[r].target, g) > 0

\* What clients name has a member.
NamesKnow(r) ==
    /\ req[r].pc \in OrgLabels => HasMember(req[r].org)
    /\ Invites(r) => \A o \in req[r].orgs : HasMember(o)
    /\ req[r].pc = "invite.insert" => req[r].target \in req[r].orgs
    /\ At(r, "delete.find") \/ At(r, "delete.next") \/ Destroys(r) =>
        \A o \in req[r].orgs : Known(o)
    /\ req[r].pc = "first.done" => \E o \in Orgs : HasRow(o, req[r].user)
    /\ Adds(r) => req[r].regions \cap Platform = {}
    /\ req[r].pc = "add.namespace" => req[r].region \notin Platform

\* A deletion has removed the namespaces of the regions it has passed; one that is
\* there again belongs to a namesake or was asked for by name.
DestroysKnows(r) ==
    Destroys(r) =>
        /\ Known(req[r].target)
        /\ organization[req[r].target].slug = req[r].slug
        /\ req[r].pc = "destroy.rows" => req[r].regions = {}
        /\ "destroy" \notin Faults /\ req[r].target = req[r].org =>
            \A g \in Platform \ req[r].regions :
                req[r].slug \in Made(g) => Namesake(req[r].target)

OneMaker ==
    \A r, x \in Requests : (r # x /\ Maps(r) /\ Maps(x)) => req[r].target # req[x].target

\* In every cluster of the platform a namespace belongs to one organization: the
\* one that made it, from the step that made it to the deletion of its slug.
NamespaceHasOneOwner ==
    \A g \in Platform, o \in Orgs :
        (Claims(o, g) /\ organization[o].slug \notin stripped) =>
            /\ organization[o].slug \in namespace[g]
            /\ \A p \in Orgs :
                (Claims(p, g) /\ organization[p].slug = organization[o].slug) => p = o

\* Every request knows what its next step relies on, and every namespace has at
\* most one owner: what the properties above follow from.
OrganizationsInv ==
    /\ FreshOrgs
    /\ \A r \in Requests : MapsKnows(r) /\ NamesKnow(r) /\ DestroysKnows(r)
    /\ OneMaker
    /\ MembersHaveRegions
    /\ FirstLoginMadeMember
    /\ NamespaceHasOneOwner
=============================================================================
