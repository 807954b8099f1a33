----------------------------- MODULE AppLifecycle -----------------------------
(***************************************************************************)
(* The life of one application on the kube_config clusters: DeployImage,   *)
(* ConfigureRegions, MoveApp, PauseApp, ResumeApp, UpdateImage,             *)
(* UpdateConfigApps (redeploy and revert) and DeleteApp, with the service    *)
(* functions they call.                                                     *)
(*                                                                          *)
(* Every HTTP request runs in a goroutine of its own, without a lock and     *)
(* without a transaction, so a step of this module is one SQL statement or   *)
(* one call to a cluster, and the steps of requests interleave.  A request   *)
(* is a program counter, the labels it still has to return to, and the       *)
(* local variables that survive a step.  An error ends the request where it  *)
(* happens and undoes nothing.  A panic in a request's own goroutine is       *)
(* recovered by the GraphQL server and ends the request; a panic in a         *)
(* goroutine the request started ends the server.                            *)
(***************************************************************************)
EXTENDS AppTables, Sequences

CONSTANTS
    Requests,      \* request slots: how many requests run at once
    MaxRequests,   \* bound on the requests issued in a behaviour
    Kinds,         \* the mutations the clients issue
    AllowLists,    \* the AllowRegions, DenyRegions and BackupRegions they send
    DenyLists,
    BackupLists,
    Faults         \* what may go wrong outside the server, see FaultKinds

KindNames == {"deploy", "configure", "move", "pause", "resume", "image",
              "redeploy", "revert", "delete"}

FaultKinds == {
    "create",       \* a cluster refuses a deployment
    "container",    \* a deployment is created but none of its pods is listed
    "service",      \* a cluster refuses a service
    "loadbalancer", \* a service never gets an address
    "route",        \* the load balancer refuses a route
    "undeploy",     \* a cluster refuses a deletion asked by UnDeploy
    "config",       \* the kubeconfig UnDeploy fetched does not load
    "rolldelete",   \* a cluster refuses a deletion asked by a release worker
    "scale",        \* a cluster refuses to scale
    "insert",       \* an INSERT fails
    "crash"}        \* the server stops

ASSUME LifecycleAssumption ==
    /\ MaxRequests \in Nat
    /\ Kinds \subseteq KindNames
    /\ AllowLists \subseteq SUBSET Regions
    /\ DenyLists \subseteq SUBSET Regions
    /\ BackupLists \subseteq SUBSET Regions
    /\ Faults \subseteq FaultKinds
    /\ "no region" \notin Regions

NoRegion == "no region"   \* DeleteApp called with regionCode ""
Gone == "gone"            \* what GetApp says of an application that does not exist

VARIABLES
    req,      \* the request each slot executes
    worker,   \* the goroutines a request has started, one per old deployment
    issued    \* requests issued so far

vars == <<app, release, row, cluster, nextDeployment, nextRelease, req, worker, issued>>

Labels == {"idle",
    "deploy.find", "roll.current", "roll.app", "roll.rows", "roll.wait", "roll.retire",
    "roll.publish", "roll.version", "create", "service",
    "first.release", "first.record", "first.route",
    "regions.read", "regions.add", "add.release", "add.record", "add.route",
    "regions.standby", "standby.drop", "regions.del", "regions.backup", "regions.write",
    "undeploy.find", "undeploy.route", "undeploy.pods", "undeploy.service",
    "undeploy.mark", "status.release", "status.rows", "status.write",
    "scale.find", "scale.pods", "scale.mark",
    "delete.read", "delete.bare", "delete.check", "delete.app", "delete.rows",
    "delete.releases", "config.again", "config.release", "config.retire",
    "config.latest", "config.publish", "config.attach", "config.activate",
    "config.version", "image.release", "image.retire", "image.publish"}

\* Where a called function may return to.
ReturnLabels == {"first.release", "first.route", "add.release", "standby.drop",
    "regions.del", "regions.backup", "regions.read",
    "delete.read", "delete.bare", "delete.check", "config.again", "config.release"}

Request ==
    [pc: Labels, ret: Seq(ReturnLabels), kind: KindNames \cup {"none"},
     \* arguments of the mutation, of AddOrRemoveRegions, UnDeploy, SuspendResumePods
     adds: SUBSET Regions, dels: SUBSET Regions, backs: SUBSET Regions,
     toDeploy: BOOLEAN, region: Regions \cup {NoRegion}, from: {"running", "suspended"},
     \* app.Regions as read, the local lists, backups still to remove, RegionItem
     found: SUBSET Regions, regions: SUBSET Regions, backups: SUBSET Regions,
     standby: SUBSET Regions, items: SUBSET Regions,
     \* ids, version and status in hand
     dep: DeploymentIds \cup {NoDeployment}, last: DeploymentIds \cup {NoDeployment},
     rel: ReleaseIds \cup {NoRelease}, fresh: ReleaseIds \cup {NoRelease},
     version: Nat, seen: AppStatus \cup {Gone}]

Idle ==
    [pc |-> "idle", ret |-> <<>>, kind |-> "none",
     adds |-> {}, dels |-> {}, backs |-> {},
     toDeploy |-> FALSE, region |-> NoRegion, from |-> "running",
     found |-> {}, regions |-> {}, backups |-> {}, standby |-> {}, items |-> {},
     dep |-> NoDeployment, last |-> NoDeployment,
     rel |-> NoRelease, fresh |-> NoRelease, version |-> 0, seen |-> Gone]

WorkerStage == {"off", "delete", "mark", "create", "record"}
Worker == [stage: WorkerStage, new: DeploymentIds \cup {NoDeployment}]
NoWorker == [stage |-> "off", new |-> NoDeployment]

TypeOK ==
    /\ TablesTypeOK
    /\ req \in [Requests -> Request]
    /\ worker \in [Requests -> [DeploymentIds -> Worker]]
    /\ issued \in 0 .. MaxRequests
    \* a deployment goes to a region, and the status written is one of the app's
    /\ \A r \in Requests :
        /\ req[r].pc = "create" => req[r].region \in Regions
        /\ req[r].pc = "status.write" => req[r].seen \in AppStatus

Init ==
    /\ TablesInit
    /\ req = [r \in Requests |-> Idle]
    /\ worker = [r \in Requests |-> [d \in DeploymentIds |-> NoWorker]]
    /\ issued = 0

-----------------------------------------------------------------------------
(***************************************************************************)
(* Control                                                                 *)
(***************************************************************************)
At(r, label) == req[r].pc = label

Become(r, q) == req' = [req EXCEPT ![r] = q]

Goto(q, label) == [q EXCEPT !.pc = label]

Call(q, label, back) == [q EXCEPT !.pc = label, !.ret = back \o q.ret]

Return(q) == IF q.ret = <<>> THEN Idle
             ELSE [q EXCEPT !.pc = Head(q.ret), !.ret = Tail(q.ret)]

End(r) == Become(r, Idle)

\* Steps that leave a part of the state alone.
Reads == UNCHANGED <<app, release, row, cluster, nextDeployment, nextRelease, worker, issued>>
Same == UNCHANGED <<worker, issued>>
OnlyApp == UNCHANGED <<release, row, cluster, nextDeployment, nextRelease>>
OnlyRelease == UNCHANGED <<app, row, cluster, nextDeployment, nextRelease>>
OnlyRow == UNCHANGED <<app, release, cluster, nextDeployment, nextRelease>>
OnlyCluster == UNCHANGED <<app, release, row, nextDeployment, nextRelease>>

-----------------------------------------------------------------------------
(***************************************************************************)
(* The mutations.  Each begins with GetApp; with no such application they  *)
(* end at once.                                                            *)
(***************************************************************************)
Issue(r, kind, q) ==
    /\ At(r, "idle")
    /\ kind \in Kinds
    /\ issued < MaxRequests
    /\ app.exists
    /\ issued' = issued + 1
    /\ Become(r, [q EXCEPT !.kind = kind])
    /\ UNCHANGED <<tables, worker>>

DeployImage(r) == Issue(r, "deploy", Goto(Idle, "deploy.find"))

\* AddOrRemoveRegions(adds, dels, no backups, toDeploy = true).
ChangeRegions(adds, dels) ==
    [Idle EXCEPT !.pc = "regions.read", !.toDeploy = TRUE, !.adds = adds, !.dels = dels]

\* Every region of the application is removed, and then added again.
Rebuild == [ChangeRegions({}, app.regions) EXCEPT !.ret = <<"config.again">>,
                                                  !.items = app.regions]

ConfigureRegions(r) ==
    \E adds \in AllowLists, dels \in DenyLists, backs \in BackupLists :
        /\ adds \cup dels \cup backs # {}
        /\ Issue(r, "configure", [ChangeRegions(adds, dels) EXCEPT !.backs = backs])

MoveApp(r) ==
    \E source, dest \in Regions : Issue(r, "move", ChangeRegions({dest}, {source}))

PauseApp(r) ==
    \E g \in Regions :
        Issue(r, "pause", [Idle EXCEPT !.pc = "scale.find", !.region = g,
                                       !.from = "running"])

ResumeApp(r) ==
    \E g \in Regions :
        Issue(r, "resume", [Idle EXCEPT !.pc = "scale.find", !.region = g,
                                        !.from = "suspended"])

UpdateImage(r) == Issue(r, "image", Goto(Idle, "image.release"))

\* UpdateConfigApps with Version 0.  An application that is not Active only has
\* its configuration rewritten (New) or is refused.
Redeploy(r) == app.status = "Active" /\ Issue(r, "redeploy", Rebuild)

\* UpdateConfigApps with the version to go back to.
Revert(r) ==
    /\ app.status = "Active"
    /\ \E x \in Inserted :
        Issue(r, "revert", [Rebuild EXCEPT !.version = release[x].version])

\* A suspended application is resumed in the given region before it is deleted.
DeleteApp(r) ==
    \E g \in Regions \cup {NoRegion} :
        LET q == [Idle EXCEPT !.pc = "delete.read", !.region = g,
                              !.dels = IF g = NoRegion THEN {} ELSE {g}]
        IN  IF app.status = "Suspended"
            THEN /\ g # NoRegion
                 /\ Issue(r, "delete", Call([q EXCEPT !.from = "suspended"],
                                            "scale.find", <<"delete.read">>))
            ELSE Issue(r, "delete", q)

Mutation(r) ==
    \/ DeployImage(r) \/ ConfigureRegions(r) \/ MoveApp(r)
    \/ PauseApp(r) \/ ResumeApp(r) \/ UpdateImage(r)
    \/ Redeploy(r) \/ Revert(r) \/ DeleteApp(r)

-----------------------------------------------------------------------------
(***************************************************************************)
(* Deploy: the first deployment of the application in its primary region,  *)
(* or a new release when one runs there already.                           *)
(***************************************************************************)
\* Mutation of DeployFind: it looks for a suspended deployment.
DeployFindSuspended(r) ==
    /\ At(r, "deploy.find")
    /\ \E d \in GetDeploymentsRecordSingle(Primary, "suspended") :
        Become(r, IF d = NoDeployment
                  THEN Call([req[r] EXCEPT !.region = Primary], "create", <<"first.release">>)
                  ELSE [req[r] EXCEPT !.pc = "roll.current", !.rel = row[d].release])
    /\ Reads

DeployFind(r) ==
    /\ At(r, "deploy.find")
    /\ \E d \in GetDeploymentsRecordSingle(Primary, "running") :
        Become(r, IF d = NoDeployment
                  THEN Call([req[r] EXCEPT !.region = Primary], "create", <<"first.release">>)
                  ELSE [req[r] EXCEPT !.pc = "roll.current", !.rel = row[d].release])
    /\ Reads

\* Deployment.  With redeploy (toDeploy) the Services call that follows is
\* UpdateService, whose failure Services drops: it creates nothing.
Create(r) ==
    LET q == req[r]
        n == nextDeployment
    IN  /\ At(r, "create")
        /\ n \in DeploymentIds
        /\ \/ /\ cluster' = CreatePods(n, q.region)
              /\ nextDeployment' = n + 1
              /\ LET made == [q EXCEPT !.dep = n]
                 IN  Become(r, IF q.toDeploy THEN Return(made) ELSE Goto(made, "service"))
           \/ /\ "create" \in Faults
              /\ End(r)
              /\ UNCHANGED <<cluster, nextDeployment>>
           \/ /\ "container" \in Faults
              /\ cluster' = CreatePods(n, q.region)
              /\ nextDeployment' = n + 1
              /\ End(r)
        /\ UNCHANGED <<app, release, row, nextRelease>>
        /\ Same

\* CreateService.  Without an address after the last attempt it takes the
\* deployment and the service back.
CreateService(r) ==
    LET q == req[r]
    IN  /\ At(r, "service")
        /\ \/ /\ cluster' = [cluster EXCEPT ![q.dep].service = TRUE]
              /\ Become(r, Return(q))
           \/ /\ "service" \in Faults
              /\ End(r)
              /\ UNCHANGED cluster
           \/ /\ "loadbalancer" \in Faults
              /\ cluster' = DeletePods(q.dep)
              /\ End(r)
        /\ OnlyCluster
        /\ Same

FirstRelease(r) ==
    /\ At(r, "first.release")
    /\ nextRelease \in ReleaseIds
    /\ \/ /\ release' = CreateAppRelease(nextRelease, 1)
          /\ nextRelease' = nextRelease + 1
          /\ Become(r, [req[r] EXCEPT !.pc = "first.record", !.rel = nextRelease])
       \/ /\ "insert" \in Faults
          /\ End(r)
          /\ UNCHANGED <<release, nextRelease>>
    /\ UNCHANGED <<app, row, cluster, nextDeployment>>
    /\ Same

\* CreateDeploymentsRecord, then AddOrRemoveRegions of the primary region
\* without deploying.
FirstRecord(r) ==
    LET q == req[r]
    IN  /\ At(r, "first.record")
        /\ \/ /\ row' = CreateDeploymentsRecord(q.dep, q.rel, TRUE)
              /\ Become(r, Call([q EXCEPT !.adds = {Primary}], "regions.read", <<"first.route">>))
           \/ /\ "insert" \in Faults
              /\ End(r)
              /\ UNCHANGED row
        /\ OnlyRow
        /\ Same

\* CreateCLBRoute, then ConfigureRegions for the other default regions.
FirstRoute(r) ==
    /\ At(r, "first.route")
    /\ \/ /\ app' = [app EXCEPT !.routed = TRUE]
          /\ IF Defaults = {Primary}
             THEN End(r)
             ELSE Become(r, [req[r] EXCEPT !.pc = "regions.read", !.toDeploy = TRUE,
                                           !.adds = Defaults \ {Primary}])
       \/ /\ "route" \in Faults
          /\ End(r)
          /\ UNCHANGED app
    /\ OnlyApp
    /\ Same

-----------------------------------------------------------------------------
(***************************************************************************)
(* CreateNewAppRelease: a goroutine per deployment of the previous release  *)
(* (rel) replaces it by one of the new release (fresh); the request waits.  *)
(***************************************************************************)
RollCurrent(r) ==
    /\ At(r, "roll.current")
    /\ \E x \in GetAppRelease("active") :
        Become(r, [req[r] EXCEPT !.pc = "roll.app", !.version = VersionOf(x)])
    /\ Reads

RollApp(r) ==
    /\ At(r, "roll.app")
    /\ Become(r, [req[r] EXCEPT !.pc = "roll.rows",
                               !.seen = IF app.exists THEN app.status ELSE Gone])
    /\ Reads

RollRows(r) ==
    /\ At(r, "roll.rows")
    /\ nextRelease \in ReleaseIds
    /\ nextRelease' = nextRelease + 1
    /\ worker' = [worker EXCEPT ![r] =
                    [d \in DeploymentIds |->
                        IF d \in GetDeploymentsByReleaseId(req[r].rel)
                        THEN [NoWorker EXCEPT !.stage = "delete"] ELSE NoWorker]]
    /\ Become(r, [req[r] EXCEPT !.pc = "roll.wait", !.fresh = nextRelease])
    /\ UNCHANGED <<app, release, row, cluster, nextDeployment, issued>>

RollWait(r) ==
    /\ At(r, "roll.wait")
    /\ \A d \in DeploymentIds : worker[r][d].stage = "off"
    /\ Become(r, Goto(req[r], "roll.retire"))
    /\ Reads

RollRetire(r) ==
    /\ At(r, "roll.retire")
    /\ release' = UpdateAppRelease("inactive", req[r].rel)
    /\ Become(r, Goto(req[r], "roll.publish"))
    /\ OnlyRelease
    /\ Same

\* Mutation of RollPublish: the release replaced is rewritten.
RollPublishOver(r) ==
    /\ At(r, "roll.publish")
    /\ release' = CreateAppRelease(req[r].rel, req[r].version + 1)
    /\ Become(r, Goto(req[r], "roll.version"))
    /\ OnlyRelease
    /\ Same

\* The error of this INSERT is dropped.
RollPublish(r) ==
    /\ At(r, "roll.publish")
    /\ \/ release' = CreateAppRelease(req[r].fresh, req[r].version + 1)
       \/ "insert" \in Faults /\ UNCHANGED release
    /\ Become(r, Goto(req[r], "roll.version"))
    /\ OnlyRelease
    /\ Same

RollVersion(r) ==
    /\ At(r, "roll.version")
    /\ app' = IF app.exists THEN [app EXCEPT !.version = req[r].version + 1] ELSE app
    /\ End(r)
    /\ OnlyApp
    /\ Same

-----------------------------------------------------------------------------
(***************************************************************************)
(* The goroutine of request r that replaces deployment d.                   *)
(***************************************************************************)
Stage(r, d, w) == worker' = [worker EXCEPT ![r][d] = w]

\* What a stopped server forgets.
Halt ==
    /\ req' = [r \in Requests |-> Idle]
    /\ worker' = [r \in Requests |-> [d \in DeploymentIds |-> NoWorker]]
    /\ UNCHANGED <<tables, issued>>

\* Mutation of WorkerDelete: the deployment is left for later.
WorkerDeleteLater(r, d) ==
    /\ worker[r][d].stage = "delete"
    /\ Stage(r, d, [worker[r][d] EXCEPT !.stage = "mark"])
    /\ UNCHANGED <<cluster, req, issued>>
    /\ OnlyCluster

\* A refused deletion is logged.
WorkerDelete(r, d) ==
    /\ worker[r][d].stage = "delete"
    /\ \/ cluster' = DeletePods(DeploymentId(d))
       \/ "rolldelete" \in Faults /\ UNCHANGED cluster
    /\ Stage(r, d, [worker[r][d] EXCEPT !.stage = "mark"])
    /\ OnlyCluster
    /\ UNCHANGED <<req, issued>>

\* Mutation of WorkerMark: the row is left as it is.
WorkerMarkForgotten(r, d) ==
    /\ worker[r][d].stage = "mark"
    /\ Stage(r, d, [worker[r][d] EXCEPT !.stage = "create"])
    /\ UNCHANGED <<cluster, req, issued>>
    /\ OnlyCluster

WorkerMark(r, d) ==
    /\ worker[r][d].stage = "mark"
    /\ row' = UpdateDeploymentsRecord("destroyed", DeploymentId(d))
    /\ Stage(r, d, [worker[r][d] EXCEPT !.stage = "create"])
    /\ OnlyRow
    /\ UNCHANGED <<req, issued>>

\* Mutation of WorkerCreate: the new deployment takes the id of the old one.
WorkerCreateReuses(r, d) ==
    /\ worker[r][d].stage = "create"
    /\ req[r].seen # Gone
    /\ cluster' = CreatePods(d, cluster[d].region)
    /\ Stage(r, d, [stage |-> "record", new |-> d])
    /\ OnlyCluster
    /\ UNCHANGED <<req, issued>>

\* The application's configuration is a nil pointer when GetApp found none:
\* this panic is in no request's own goroutine.
WorkerCreate(r, d) ==
    LET n == nextDeployment
        goes(new) == Stage(r, d, [stage |-> "record", new |-> new])
    IN  /\ worker[r][d].stage = "create"
        /\ req[r].seen # Gone
        /\ n \in DeploymentIds
        /\ \/ /\ cluster' = CreatePods(n, cluster[d].region)
              /\ nextDeployment' = n + 1
              /\ goes(n)
           \/ /\ "create" \in Faults
              /\ goes(NoDeployment)
              /\ UNCHANGED <<cluster, nextDeployment>>
           \/ /\ "container" \in Faults
              /\ cluster' = CreatePods(n, cluster[d].region)
              /\ nextDeployment' = n + 1
              /\ goes(NoDeployment)
        /\ UNCHANGED <<app, release, row, nextRelease, req, issued>>

WorkerPanic(r, d) ==
    /\ worker[r][d].stage = "create"
    /\ req[r].seen = Gone
    /\ Halt

\* The row is inserted whether or not the deployment was created; a failed
\* INSERT is logged.
WorkerRecord(r, d) ==
    LET new == worker[r][d].new
        x == req[r].fresh
    IN  /\ worker[r][d].stage = "record"
        /\ \/ /\ new # NoDeployment
              /\ row' = CreateDeploymentsRecord(new, x, TRUE)
              /\ UNCHANGED <<cluster, nextDeployment>>
           \/ /\ new = NoDeployment
              /\ nextDeployment \in DeploymentIds
              /\ row' = CreateDeploymentsRecord(nextDeployment, x, FALSE)
              /\ cluster' = [cluster EXCEPT ![nextDeployment].region = cluster[d].region]
              /\ nextDeployment' = nextDeployment + 1
           \/ /\ "insert" \in Faults
              /\ UNCHANGED <<row, cluster, nextDeployment>>
        /\ Stage(r, d, NoWorker)
        /\ UNCHANGED <<app, release, nextRelease, req, issued>>

Work(r, d) ==
    \/ WorkerDelete(r, d) \/ WorkerMark(r, d) \/ WorkerCreate(r, d)
    \/ WorkerPanic(r, d) \/ WorkerRecord(r, d)

-----------------------------------------------------------------------------
(***************************************************************************)
(* AddOrRemoveRegions.  It edits copies of the two lists of regions it has  *)
(* read, and writes both back at the end.                                   *)
(***************************************************************************)
RegionsRead(r) ==
    LET q == req[r]
        oneLeft == Cardinality(app.regions) = 1 /\ Cardinality(q.dels) = 1
    IN  /\ At(r, "regions.read")
        /\ IF ~app.exists
           THEN End(r)
           ELSE Become(r, [q EXCEPT !.pc = "regions.add",
                                    !.found = app.regions, !.regions = app.regions,
                                    !.backups = app.backups,
                                    !.adds = @ \ app.regions, !.backs = @ \ app.backups,
                                    !.standby = IF oneLeft THEN app.backups ELSE {},
                                    !.last = NoDeployment])
        /\ Reads

RegionsAdded(r) ==
    /\ At(r, "regions.add")
    /\ req[r].adds = {}
    /\ Become(r, Goto(req[r], "regions.standby"))
    /\ Reads

RegionsAddOnly(r) ==
    /\ At(r, "regions.add")
    /\ ~req[r].toDeploy
    /\ \E g \in req[r].adds :
        Become(r, [req[r] EXCEPT !.adds = @ \ {g}, !.regions = @ \cup {g}])
    /\ Reads

\* Mutation of RegionsDeploy: the new deployment is not recorded.
RegionsDeployUnrecorded(r) ==
    /\ At(r, "regions.add")
    /\ req[r].toDeploy
    /\ \E g \in req[r].adds : \E d \in GetDeploymentsRecordSingle(g, "running") :
        Become(r, IF d # NoDeployment THEN Idle
                  ELSE Call([req[r] EXCEPT !.adds = @ \ {g}, !.regions = @ \cup {g},
                                           !.region = g],
                            "create", <<"regions.backup">>))
    /\ Reads

\* Deploy answers an existing deployment without the URL this loop reads: the
\* request panics.
RegionsDeploy(r) ==
    /\ At(r, "regions.add")
    /\ req[r].toDeploy
    /\ \E g \in req[r].adds : \E d \in GetDeploymentsRecordSingle(g, "running") :
        Become(r, IF d # NoDeployment THEN Idle
                  ELSE Call([req[r] EXCEPT !.adds = @ \ {g}, !.regions = @ \cup {g},
                                           !.region = g],
                            "create", <<"add.release">>))
    /\ Reads

AddRelease(r) ==
    /\ At(r, "add.release")
    /\ \E x \in GetAppRelease("active") :
        Become(r, [req[r] EXCEPT !.pc = "add.record", !.rel = x])
    /\ Reads

AddRecord(r) ==
    LET q == req[r]
    IN  /\ At(r, "add.record")
        /\ \/ /\ row' = CreateDeploymentsRecord(q.dep, q.rel, TRUE)
              /\ Become(r, [q EXCEPT !.pc = "add.route", !.last = q.dep])
           \/ /\ "insert" \in Faults
              /\ End(r)
              /\ UNCHANGED row
        /\ OnlyRow
        /\ Same

AddRoute(r) ==
    /\ At(r, "add.route")
    /\ \/ /\ app' = [app EXCEPT !.routed = TRUE]
          /\ Become(r, Goto(req[r], "regions.add"))
       \/ /\ "route" \in Faults
          /\ End(r)
          /\ UNCHANGED app
    /\ OnlyApp
    /\ Same

\* When the only region is removed, the backup regions go too.
RegionsStandby(r) ==
    LET q == req[r]
    IN  /\ At(r, "regions.standby")
        /\ \E b \in q.standby :
            LET less == [q EXCEPT !.standby = @ \ {b}, !.region = b]
            IN  Become(r, IF q.toDeploy THEN Call(less, "undeploy.find", <<"standby.drop">>)
                          ELSE Goto(less, "standby.drop"))
        /\ Reads

\* The loop drops element i of a list that is already i shorter: past the middle
\* the index is out of range and the request panics.
StandbyDrop(r) ==
    LET q == req[r]
        left == Cardinality(q.standby)
    IN  /\ At(r, "standby.drop")
        /\ Become(r, IF Cardinality(q.backups) > 2 * left + 1 THEN Idle
                     ELSE [q EXCEPT !.pc = "regions.standby",
                                    !.backups = IF left = 0 THEN {} ELSE @])
        /\ Reads

StandbyDone(r) ==
    /\ At(r, "regions.standby")
    /\ req[r].standby = {}
    /\ Become(r, Goto(req[r], "regions.del"))
    /\ Reads

\* Mutation of RegionsDelete: the region stays in the list.
RegionsDeleteKeeps(r) ==
    LET q == req[r]
    IN  /\ At(r, "regions.del")
        /\ \E g \in q.dels \cap q.regions :
            LET less == [q EXCEPT !.region = g]
            IN  Become(r, IF q.toDeploy THEN Call(less, "undeploy.find", <<"regions.del">>)
                          ELSE less)
        /\ Reads

\* An error of UnDeploy is dropped: the region leaves the list all the same.
RegionsDelete(r) ==
    LET q == req[r]
    IN  /\ At(r, "regions.del")
        /\ \E g \in q.dels \cap q.regions :
            LET less == [q EXCEPT !.regions = @ \ {g}, !.region = g]
            IN  Become(r, IF q.toDeploy THEN Call(less, "undeploy.find", <<"regions.del">>)
                          ELSE less)
        /\ Reads

\* The loop passes over app.Regions when it is nil: the empty list that was read may
\* be, as it was never written, and then a region that was just added stays.  Who does
\* not deploy does not add what it removes.
RegionsDeleted(r) ==
    /\ At(r, "regions.del")
    /\ \/ req[r].dels \cap req[r].regions = {}
       \/ req[r].toDeploy /\ req[r].found = {}
    /\ Become(r, Goto(req[r], "regions.backup"))
    /\ Reads

\* A backup region is checked against the regions read at the start.  Its
\* deployment is created, if the region runs none, and no row is inserted.
RegionsBackup(r) ==
    LET q == req[r]
    IN  /\ At(r, "regions.backup")
        /\ \E b \in q.backs :
            LET less == [q EXCEPT !.backs = @ \ {b}, !.backups = @ \cup {b}, !.region = b]
            IN  \/ b \in q.found /\ End(r)
                \/ /\ b \notin q.found
                   /\ \E d \in GetDeploymentsRecordSingle(b, "running") :
                        Become(r, IF d # NoDeployment THEN less
                                  ELSE Call(less, "create", <<"regions.backup">>))
        /\ Reads

\* Mutation of RegionsWrite: the regions are not written.
RegionsWriteBackups(r) ==
    LET q == req[r]
    IN  /\ At(r, "regions.backup")
        /\ q.backs = {}
        /\ app' = IF app.exists THEN [app EXCEPT !.backups = q.backups] ELSE app
        /\ Become(r, Goto(q, "status.release"))
        /\ OnlyApp
        /\ Same

RegionsWrite(r) ==
    LET q == req[r]
    IN  /\ At(r, "regions.backup")
        /\ q.backs = {}
        /\ app' = IF app.exists
                  THEN [app EXCEPT !.regions = q.regions, !.backups = q.backups] ELSE app
        /\ Become(r, Goto(q, "status.release"))
        /\ OnlyApp
        /\ Same

AddOrRemoveRegions(r) ==
    \/ RegionsRead(r) \/ RegionsAdded(r) \/ RegionsAddOnly(r) \/ RegionsDeploy(r)
    \/ AddRelease(r) \/ AddRecord(r) \/ AddRoute(r)
    \/ RegionsStandby(r) \/ StandbyDrop(r) \/ StandbyDone(r)
    \/ RegionsDelete(r) \/ RegionsDeleted(r) \/ RegionsBackup(r) \/ RegionsWrite(r)

-----------------------------------------------------------------------------
(***************************************************************************)
(* UpdateAppStatus                                                         *)
(***************************************************************************)
\* Mutation of StatusRelease: the rows are not read.
StatusUnread(r) ==
    /\ At(r, "status.release")
    /\ Become(r, Goto(req[r], "status.write"))
    /\ Reads

StatusRelease(r) ==
    /\ At(r, "status.release")
    /\ \E x \in GetAppRelease("active") :
        Become(r, [req[r] EXCEPT !.pc = "status.rows", !.rel = x])
    /\ Reads

StatusRows(r) ==
    /\ At(r, "status.rows")
    /\ Become(r, [req[r] EXCEPT !.pc = "status.write",
                               !.seen = StatusFrom(GetDeploymentsByReleaseId(req[r].rel))])
    /\ Reads

StatusWrite(r) ==
    /\ At(r, "status.write")
    /\ app' = IF app.exists THEN [app EXCEPT !.status = req[r].seen] ELSE app
    /\ Become(r, Return(req[r]))
    /\ OnlyApp
    /\ Same

UpdateAppStatus(r) == StatusRelease(r) \/ StatusRows(r) \/ StatusWrite(r)

-----------------------------------------------------------------------------
(***************************************************************************)
(* UnDeploy of the region in hand.  Only DeleteApp, which calls it with     *)
(* redeployordelete = false, looks at its error.                            *)
(***************************************************************************)
\* Mutation of UndeployFails: the error is not looked at.
UndeployAnyway(r) ==
    /\ "undeploy" \in Faults
    /\ Become(r, Goto(req[r], "undeploy.mark"))
    /\ Reads

UndeployFails(r) ==
    /\ "undeploy" \in Faults
    /\ Become(r, IF req[r].kind = "delete" THEN Idle ELSE Return(req[r]))
    /\ Reads

UndeployFind(r) ==
    /\ At(r, "undeploy.find")
    /\ \E d \in GetDeploymentsRecordSingle(req[r].region, "running") :
        Become(r, [req[r] EXCEPT !.pc = "undeploy.route", !.dep = d])
    /\ Reads

\* A kubeconfig that does not load is no error.  Without the application the
\* request panics.
UndeployRoute(r) ==
    /\ At(r, "undeploy.route")
    /\ \/ /\ app.exists
          /\ app' = IF Cardinality(app.regions) = 1 THEN [app EXCEPT !.routed = FALSE] ELSE app
          /\ Become(r, Goto(req[r], "undeploy.pods"))
       \/ /\ ~app.exists
          /\ End(r)
          /\ UNCHANGED app
       \/ /\ "config" \in Faults
          /\ Become(r, Return(req[r]))
          /\ UNCHANGED app
    /\ OnlyApp
    /\ Same

UndeployPods(r) ==
    /\ At(r, "undeploy.pods")
    /\ \/ /\ cluster' = DeletePods(DeploymentId(req[r].dep))
          /\ Become(r, Goto(req[r], IF req[r].kind = "delete" THEN "undeploy.service"
                                    ELSE "undeploy.mark"))
          /\ OnlyCluster
          /\ Same
       \/ UndeployFails(r)

UndeployService(r) ==
    /\ At(r, "undeploy.service")
    /\ \/ /\ \E x \in GetAppReleaseByVersion :
              \E d \in OrElse(GetDeploymentIdByReleaseId(x), NoDeployment) :
                  cluster' = DeleteService(DeploymentId(d), req[r].region)
          /\ Become(r, Goto(req[r], "undeploy.mark"))
          /\ OnlyCluster
          /\ Same
       \/ UndeployFails(r)

UndeployMark(r) ==
    /\ At(r, "undeploy.mark")
    /\ row' = UpdateDeploymentsRecord("destroyed", DeploymentId(req[r].dep))
    /\ Become(r, Return(req[r]))
    /\ OnlyRow
    /\ Same

UnDeploy(r) ==
    \/ UndeployFind(r) \/ UndeployRoute(r) \/ UndeployPods(r)
    \/ UndeployService(r) \/ UndeployMark(r)

-----------------------------------------------------------------------------
(***************************************************************************)
(* SuspendResumePods                                                       *)
(***************************************************************************)
ScaleFind(r) ==
    /\ At(r, "scale.find")
    /\ \E d \in GetDeploymentsRecordSingle(req[r].region, req[r].from) :
        Become(r, [req[r] EXCEPT !.pc = "scale.pods", !.dep = d])
    /\ Reads

ScalePods(r) ==
    LET q == req[r]
        d == DeploymentId(q.dep)
        pods == IF q.from = "running" THEN "zero" ELSE "up"
    IN  /\ At(r, "scale.pods")
        /\ \/ /\ d # NoDeployment
              /\ cluster[d].pods # "none"
              /\ cluster' = [cluster EXCEPT ![d].pods = pods]
              /\ Become(r, Goto(q, "scale.mark"))
           \/ /\ \/ d = NoDeployment
                 \/ d # NoDeployment /\ cluster[d].pods = "none"
                 \/ "scale" \in Faults
              /\ End(r)
              /\ UNCHANGED cluster
        /\ OnlyCluster
        /\ Same

\* Mutation of ScaleMark: it writes the status it looked for.
ScaleMarkAsFound(r) ==
    LET q == req[r]
    IN  /\ At(r, "scale.mark")
        /\ row' = UpdateDeploymentsRecord(q.from, DeploymentId(q.dep))
        /\ Become(r, Goto(q, "status.release"))
        /\ OnlyRow
        /\ Same

ScaleMark(r) ==
    LET q == req[r]
        status == IF q.from = "running" THEN "suspended" ELSE "running"
    IN  /\ At(r, "scale.mark")
        /\ row' = UpdateDeploymentsRecord(status, DeploymentId(q.dep))
        /\ Become(r, Goto(q, "status.release"))
        /\ OnlyRow
        /\ Same

SuspendResumePods(r) == ScaleFind(r) \/ ScalePods(r) \/ ScaleMark(r)

-----------------------------------------------------------------------------
(***************************************************************************)
(* DeleteApp                                                               *)
(***************************************************************************)
\* With no region it computes the status, and drops the application alone when
\* the status read before that was not Active.
DeleteRead(r) ==
    LET q == req[r]
    IN  /\ At(r, "delete.read")
        /\ IF ~app.exists THEN End(r)
           ELSE IF q.region = NoRegion
           THEN Become(r, Call(q, "status.release",
                               IF app.status = "Active" THEN <<>> ELSE <<"delete.bare">>))
           ELSE Become(r, Call(q, "undeploy.find", <<"regions.read", "delete.check">>))
        /\ Reads

DeleteCheck(r) ==
    /\ At(r, "delete.check")
    /\ Become(r, IF app.exists /\ app.status = "Active" THEN Idle
                 ELSE Goto(req[r], "delete.app"))
    /\ Reads

\* DeleteAppRecord "app": the whole deletion when no region was given.
DeleteRecord(r) ==
    /\ At(r, "delete.bare") \/ At(r, "delete.app")
    /\ app' = [app EXCEPT !.exists = FALSE]
    /\ Become(r, IF At(r, "delete.bare") THEN Idle ELSE Goto(req[r], "delete.rows"))
    /\ OnlyApp
    /\ Same

DeleteRows(r) ==
    /\ At(r, "delete.rows")
    /\ row' = [d \in DeploymentIds |-> [row[d] EXCEPT !.status = "none"]]
    /\ Become(r, Goto(req[r], "delete.releases"))
    /\ OnlyRow
    /\ Same

DeleteReleases(r) ==
    /\ At(r, "delete.releases")
    /\ release' = [x \in ReleaseIds |-> NoReleaseRow]
    /\ End(r)
    /\ OnlyRelease
    /\ Same

Delete(r) ==
    \/ DeleteRead(r) \/ DeleteCheck(r) \/ DeleteRecord(r)
    \/ DeleteRows(r) \/ DeleteReleases(r)

-----------------------------------------------------------------------------
(***************************************************************************)
(* UpdateConfigApps: every region is removed, every region is added again,  *)
(* and then the releases are rewritten.                                     *)
(***************************************************************************)
ConfigAgain(r) ==
    /\ At(r, "config.again")
    /\ Become(r, Call([req[r] EXCEPT !.adds = req[r].items, !.dels = {}],
                      "regions.read", <<"config.release">>))
    /\ Reads

\* The release the configuration or the image replaces.
ReleaseRead(r, here, next) ==
    /\ At(r, here)
    /\ \E x \in GetAppRelease("active") :
        Become(r, [req[r] EXCEPT !.pc = next, !.rel = x])
    /\ Reads

ReleaseRetire(r, here, next) ==
    /\ At(r, here)
    /\ release' = UpdateAppRelease("inactive", req[r].rel)
    /\ Become(r, Goto(req[r], next))
    /\ OnlyRelease
    /\ Same

ReleasePublish(r, here, q) ==
    /\ At(r, here)
    /\ nextRelease \in ReleaseIds
    /\ \/ /\ release' = CreateAppRelease(nextRelease, req[r].version)
          /\ nextRelease' = nextRelease + 1
          /\ Become(r, q)
       \/ /\ "insert" \in Faults
          /\ End(r)
          /\ UNCHANGED <<release, nextRelease>>
    /\ UNCHANGED <<app, row, cluster, nextDeployment>>
    /\ Same

ConfigRelease(r) == ReleaseRead(r, "config.release", "config.retire")

ConfigRetire(r) ==
    ReleaseRetire(r, "config.retire", IF req[r].kind = "revert" THEN "config.activate"
                                      ELSE "config.latest")

ConfigLatest(r) ==
    /\ At(r, "config.latest")
    /\ \E v \in GetLatestVersion :
        Become(r, [req[r] EXCEPT !.pc = "config.publish", !.version = v + 1])
    /\ Reads

ConfigPublish(r) ==
    ReleasePublish(r, "config.publish",
                   [req[r] EXCEPT !.pc = "config.attach", !.fresh = nextRelease])

\* Only the last row the second AddOrRemoveRegions inserted.
ConfigAttach(r) ==
    /\ At(r, "config.attach")
    /\ row' = UpdateDeploymentsReleaseId(req[r].last, req[r].fresh)
    /\ Become(r, Goto(req[r], "config.version"))
    /\ OnlyRow
    /\ Same

\* Mutation of ConfigActivate: the release gets the status of the one retired.
ConfigActivateInactive(r) ==
    /\ At(r, "config.activate")
    /\ release' = UpdateAppReleases("inactive", req[r].version)
    /\ Become(r, Goto(req[r], "config.version"))
    /\ OnlyRelease
    /\ Same

ConfigActivate(r) ==
    /\ At(r, "config.activate")
    /\ release' = UpdateAppReleases("active", req[r].version)
    /\ Become(r, Goto(req[r], "config.version"))
    /\ OnlyRelease
    /\ Same

ConfigVersion(r) ==
    /\ At(r, "config.version")
    /\ app' = IF app.exists
              THEN [app EXCEPT !.version = req[r].version, !.status = "Active"] ELSE app
    /\ End(r)
    /\ OnlyApp
    /\ Same

Config(r) ==
    \/ ConfigAgain(r) \/ ConfigRelease(r) \/ ConfigRetire(r) \/ ConfigLatest(r)
    \/ ConfigPublish(r) \/ ConfigAttach(r) \/ ConfigActivate(r) \/ ConfigVersion(r)

-----------------------------------------------------------------------------
(***************************************************************************)
(* UpdateImage: a new release, and nothing deployed.                       *)
(***************************************************************************)
ImageRelease(r) ==
    /\ At(r, "image.release")
    /\ \E x \in GetAppRelease("active") :
        Become(r, [req[r] EXCEPT !.pc = "image.retire", !.rel = x,
                                 !.version = VersionOf(x) + 1])
    /\ Reads

ImageRetire(r) == ReleaseRetire(r, "image.retire", "image.publish")

ImagePublish(r) == ReleasePublish(r, "image.publish", Idle)

Image(r) == ImageRelease(r) \/ ImageRetire(r) \/ ImagePublish(r)

-----------------------------------------------------------------------------
Deploy(r) ==
    \/ DeployFind(r) \/ Create(r) \/ CreateService(r)
    \/ FirstRelease(r) \/ FirstRecord(r) \/ FirstRoute(r)

CreateNewAppRelease(r) ==
    \/ RollCurrent(r) \/ RollApp(r) \/ RollRows(r) \/ RollWait(r)
    \/ RollRetire(r) \/ RollPublish(r) \/ RollVersion(r)

Step(r) ==
    \/ Deploy(r) \/ CreateNewAppRelease(r) \/ AddOrRemoveRegions(r)
    \/ UpdateAppStatus(r) \/ UnDeploy(r) \/ SuspendResumePods(r)
    \/ Delete(r) \/ Config(r) \/ Image(r)

\* The server stops between two steps.
Crash ==
    /\ "crash" \in Faults
    /\ Halt

\* Every request has been answered and no client sends another.
Quiet == \A r \in Requests : At(r, "idle")
Done == Quiet /\ (issued = MaxRequests \/ ~app.exists) /\ UNCHANGED vars

Next ==
    \/ \E r \in Requests :
        \/ Mutation(r)
        \/ Step(r)
        \/ \E d \in DeploymentIds : Work(r, d)
    \/ Crash
    \/ Done

\* A goroutine that can take a step eventually does.
Fairness ==
    \A r \in Requests :
        /\ WF_vars(Step(r))
        /\ \A d \in DeploymentIds : WF_vars(Work(r, d))

Spec == Init /\ [][Next]_vars /\ Fairness
=============================================================================
