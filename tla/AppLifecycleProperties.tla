----------------------- MODULE AppLifecycleProperties -----------------------
(***************************************************************************)
(* What should be true of an application whatever its requests do.  The    *)
(* names below read the tables the way the mutations read them.            *)
(***************************************************************************)
EXTENDS AppLifecycle

Live == {d \in Rows : row[d].status \in {"running", "suspended"}}

LiveIn(region) == {d \in Live : cluster[d].region = region}

Active == {x \in Inserted : release[x].status = "active"}

\* A request is between retiring the current release and publishing the next.
Replacing(r) ==
    req[r].pc \in {"roll.publish", "config.latest", "config.publish",
                   "config.activate", "image.publish"}

\* A request or one of its goroutines will still insert the row of d.
Recording(d) ==
    \E r \in Requests :
        \/ /\ req[r].dep = d
           /\ req[r].pc \in {"service", "first.release", "first.record",
                             "add.release", "add.record"}
        \/ \E e \in DeploymentIds :
            worker[r][e].stage = "record" /\ worker[r][e].new = d

-----------------------------------------------------------------------------
\* A row says "destroyed" only after the cluster has dropped the deployment:
\* UnDeploy and the goroutines of updateDeloyments delete before they mark, a
\* row without a deployment_id never had pods, and no scaling brings a deleted
\* deployment back.
DestroyedIsGone ==
    \A d \in DeploymentIds : row[d].status = "destroyed" => cluster[d].pods = "none"

\* Once an application has a release it always has a current one, except while
\* a request replaces it: Deploy into a new region, UpdateAppStatus and the next
\* version number are all computed from the active release.
SomeReleaseIsActive ==
    Inserted # {} => Active # {} \/ \E r \in Requests : Replacing(r)

\* No deployment runs in a cluster unknown to app_deployments: it has a live row,
\* or the request that created it has not come to its INSERT yet.
EveryPodIsTracked ==
    \A d \in DeploymentIds : cluster[d].pods # "none" => d \in Live \/ Recording(d)

\* When no request runs, a suspended row has been scaled to zero and a running
\* row has not: SuspendResumePods scales the deployment whose row it marks.
ScaleMatchesStatus ==
    Quiet => \A d \in Live :
                IF row[d].status = "suspended" THEN cluster[d].pods = "zero"
                                               ELSE cluster[d].pods = "up"

\* When no request runs, app.regions lists exactly the regions that have a live
\* row: AddOrRemoveRegions edits the list and the rows in different statements.
RegionsMatchRows ==
    Quiet /\ app.exists => app.regions = {cluster[d].region : d \in Live}

\* The application never has two live deployments in one region: Deploy creates
\* one only where it finds none, and a new release destroys before it inserts.
OneDeploymentPerRegion ==
    \A g \in Regions : Cardinality(LiveIn(g)) <= 1

\* A destroyed deployment is never brought back by a later UPDATE of its row.
RowsMoveForward ==
    [][\A d \in DeploymentIds :
        row[d].status = "destroyed" => row'[d].status \in {"destroyed", "none"}]_vars

\* Every request is answered, and no goroutine it waits for is left behind: the
\* wait group of updateDeloyments and the loops of AddOrRemoveRegions end.
EveryRequestEnds == \A r \in Requests : ~At(r, "idle") ~> At(r, "idle")

-----------------------------------------------------------------------------
(***************************************************************************)
(* Why DestroyedIsGone is preserved.  A row is marked destroyed through an *)
(* id: marking the empty id hits every row without one, and a deletion of   *)
(* the empty id deletes nothing.  So the argument needs who knows what       *)
(* about the id in hand between the deletion and the mark.                   *)
(***************************************************************************)
\* Ids not handed out yet name nothing.
FreshIds ==
    \A d \in DeploymentIds : d >= nextDeployment =>
        row[d].status = "none" /\ cluster[d].pods = "none"

\* Every id a request or a goroutine holds has been handed out.
HeldIds ==
    \A r \in Requests :
        /\ req[r].dep < nextDeployment
        /\ \A d \in DeploymentIds :
            /\ worker[r][d].new < nextDeployment
            /\ worker[r][d].stage # "off" => d < nextDeployment

\* The row of d carries its id, or the cluster has nothing to delete.
Identified(d) == row[d].named \/ cluster[d].pods = "none"

UnnamedHasNoPods == \A d \in Rows : Identified(d)

\* What a request in UnDeploy knows of the deployment it found.
UndeployKnows(q) ==
    q.dep # NoDeployment =>
        /\ q.pc \in {"undeploy.route", "undeploy.pods"} => Identified(q.dep)
        /\ q.pc \in {"undeploy.service", "undeploy.mark"} => cluster[q.dep].pods = "none"

\* What a goroutine that replaces d knows of it.
WorkerKnows(r, d) ==
    /\ worker[r][d].stage = "delete" => Identified(d)
    /\ worker[r][d].stage = "mark" => cluster[d].pods = "none"

\* Between the deletion of a deployment and the mark of its row, the request or
\* the goroutine in between holds an id whose pods are gone, whatever the other
\* requests do meanwhile: ids are handed out once, and nothing scales or creates
\* pods under an id that has none.
DestroyedInv ==
    /\ FreshIds
    /\ HeldIds
    /\ UnnamedHasNoPods
    /\ \A r \in Requests : UndeployKnows(req[r])
    /\ \A r \in Requests, d \in DeploymentIds : WorkerKnows(r, d)
    /\ DestroyedIsGone

-----------------------------------------------------------------------------
(***************************************************************************)
(* Why SomeReleaseIsActive and EveryPodIsTracked are preserved while nobody *)
(* deletes the application.  A request that retires the current release     *)
(* must come to its publication, and one that has created pods to its       *)
(* INSERT: so the argument needs where a request can go from its label and  *)
(* the labels it returns to.                                                *)
(***************************************************************************)
DeleteLabels == {"delete.read", "delete.bare", "delete.check", "delete.app",
                 "delete.rows", "delete.releases"}

\* The labels where Deployment returns to have its deployment recorded.
Recorders == {"first.release", "add.release"}

\* The labels that lead to a version of the request's own.
Renumbers == {"deploy.find", "roll.current", "config.latest", "image.release"}

NoBackups == BackupLists \subseteq {{}}

OnCourse(q) ==
    /\ q.pc \notin DeleteLabels
    /\ q.ret \in Seq(ReturnLabels \ DeleteLabels)
    /\ q.pc \in {"roll.rows", "roll.wait"} => q.seen # Gone
    /\ q.kind = "revert" => q.pc \notin Renumbers
    /\ q.pc = "config.activate" => q.kind = "revert"
    /\ NoBackups => q.backs = {}
    /\ NoBackups /\ q.pc \in {"create", "service"} =>
        q.ret # <<>> /\ Head(q.ret) \in Recorders

\* Goroutines are at work only for a request that waits for them.
NeverDeleted ==
    /\ app.exists
    /\ \A r \in Requests : OnCourse(req[r])
    /\ \A r \in Requests, d \in DeploymentIds :
        worker[r][d].stage # "off" => At(r, "roll.wait")

HoldsFresh(r) == req[r].pc \in {"roll.wait", "roll.retire", "roll.publish"}

\* The id of the release to come is the request's own, and a revert goes back to
\* a version there is.
ReleasesKnown ==
    /\ \A x \in ReleaseIds : x >= nextRelease => release[x].status = "none"
    /\ \A r \in Requests : HoldsFresh(r) =>
        /\ req[r].fresh \in ReleaseIds
        /\ req[r].fresh < nextRelease
        /\ release[req[r].fresh].status = "none"
    /\ \A r, s \in Requests :
        r # s /\ HoldsFresh(r) /\ HoldsFresh(s) => req[r].fresh # req[s].fresh
    /\ \A r \in Requests : req[r].kind = "revert" =>
        \E x \in Inserted : release[x].version = req[r].version

\* No deployment runs without a row, unless it is about to get one.
PodsKnown == \A d \in DeploymentIds : cluster[d].pods # "none" => d \in Rows \/ Recording(d)

\* However releases overlap, who retires the current release is on its way to
\* publish the next one under an id nobody else has, and a revert finds the
\* version it activates.
ReleaseInv == NeverDeleted /\ ReleasesKnown /\ SomeReleaseIsActive

\* Moreover every deployment created is on its way into the table: whatever
\* called Deployment returns to the label that records it.
OverlapInv == ReleaseInv /\ PodsKnown

-----------------------------------------------------------------------------
(***************************************************************************)
(* Why RowsMoveForward is preserved while nobody pauses.  An INSERT writes   *)
(* a whole row: so the argument needs that no two of the requests and        *)
(* goroutines that overlap have the same deployment in hand, and none one    *)
(* that has a row.                                                          *)
(***************************************************************************)
\* The request has created a deployment and not inserted its row.
Unrecorded == {"service", "first.release", "first.record", "add.release", "add.record"}

\* The deployment whose row request r will insert, or its goroutine for d.
InHand(r, d) ==
    IF d = NoDeployment
    THEN IF req[r].pc \in Unrecorded THEN req[r].dep ELSE NoDeployment
    ELSE IF worker[r][d].stage = "record" THEN worker[r][d].new ELSE NoDeployment

\* Only Deployment returns to the labels that insert a row.
Returns(q) ==
    IF q.pc \in {"create", "service"}
    THEN q.ret # <<>> /\ Tail(q.ret) \in Seq(ReturnLabels \ Recorders)
    ELSE q.ret \in Seq(ReturnLabels \ Recorders)

\* Every deployment in hand is somebody's own, handed out, and without a row.
InsertInv ==
    /\ \A d \in DeploymentIds : d >= nextDeployment => row[d].status = "none"
    /\ \A r \in Requests : Returns(req[r])
    /\ \A r \in Requests : req[r].pc \in Unrecorded => req[r].dep # NoDeployment
    /\ \A r \in Requests, d \in DeploymentIds \cup {NoDeployment} :
        InHand(r, d) # NoDeployment =>
            /\ InHand(r, d) < nextDeployment
            /\ row[InHand(r, d)].status = "none"
            /\ \A s \in Requests, e \in DeploymentIds \cup {NoDeployment} :
                InHand(s, e) = InHand(r, d) => s = r /\ e = d

\* Without PauseApp nothing is suspended, so nothing is resumed either.
NothingSuspended ==
    /\ \A d \in DeploymentIds : row[d].status # "suspended"
    /\ \A r \in Requests :
        /\ req[r].pc \in {"scale.find", "scale.pods"} => req[r].from = "suspended"
        /\ req[r].pc = "scale.pods" => req[r].dep = NoDeployment
        /\ req[r].pc # "scale.mark"

-----------------------------------------------------------------------------
(***************************************************************************)
(* What the source says and the code does not do.                          *)
(***************************************************************************)
\* "CREATE NEW RELEASE BY TERMINATING DEPLOYMENTS": when a new release has been
\* published, every live deployment of the application belongs to it.
NewReleaseTerminatesDeployments ==
    \A r \in Requests : At(r, "roll.version") =>
        \A d \in Live : row[d].release = req[r].fresh

\* "Cannot Add Region %s As Backup, Beacuse It is in Primary Region".
BackupIsNotPrimary == app.regions \cap app.backups = {}

\* "Service fetches list of service and create one if not exists": when no
\* request runs, a service exists in every region the application is deployed to.
EveryRegionHasService ==
    Quiet => \A g \in app.regions :
                \E d \in DeploymentIds : cluster[d].region = g /\ cluster[d].service

\* "This app is already terminated": a Terminated application runs nothing.
TerminatedIsGone ==
    Quiet /\ app.exists /\ app.status = "Terminated" =>
        \A d \in DeploymentIds : cluster[d].pods # "up"
=============================================================================
