----------------------------- MODULE AppSequence -----------------------------
(***************************************************************************)
(* What requests that come one after the other preserve, and why: rows only *)
(* move forward, a region has one deployment, a suspended row is scaled to  *)
(* zero, and the regions listed are those deployed to.  None of the four is *)
(* true of any two requests at once.  Each needs what the request at work   *)
(* knows about the rows, from the statement that read them to the one that  *)
(* writes them, across the functions it calls in between.                   *)
(***************************************************************************)
EXTENDS AppLifecycleProperties

\* One request at a time.
Alone == \A r, s \in Requests : r = s

-----------------------------------------------------------------------------
(***************************************************************************)
(* Who has called whom                                                     *)
(***************************************************************************)
Undeploying == {"undeploy.find", "undeploy.route", "undeploy.pods", "undeploy.service",
                "undeploy.mark"}

\* The labels of the mutation itself that a request may still come back to,
Awaits(kind) ==
    IF kind = "deploy" THEN {"first.route"}
    ELSE IF kind \in {"redeploy", "revert"} THEN {"config.again", "config.release"}
    ELSE IF kind = "delete" THEN {"delete.read", "delete.bare", "delete.check"}
    ELSE {}

\* and those that Deployment and UnDeploy return to first.
DeployCallers(kind) ==
    {"add.release", "regions.backup"} \cup (IF kind = "deploy" THEN {"first.release"} ELSE {})

UndeployCallers(kind) ==
    {"standby.drop", "regions.del"} \cup (IF kind = "delete" THEN {"regions.read"} ELSE {})

CalledFrom(q, callers) ==
    q.ret # <<>> /\ Head(q.ret) \in callers /\ Tail(q.ret) \in Seq(Awaits(q.kind))

InPlace(q) ==
    /\ IF q.pc \in {"create", "service"} THEN CalledFrom(q, DeployCallers(q.kind))
       ELSE IF q.pc \in Undeploying THEN CalledFrom(q, UndeployCallers(q.kind))
       ELSE q.ret \in Seq(Awaits(q.kind))
    /\ q.pc \in {"deploy.find", "first.release", "first.record", "first.route"} => q.kind = "deploy"
    /\ q.pc = "config.again" => q.kind \in {"redeploy", "revert"}
    /\ q.pc \in DeleteLabels => q.kind = "delete"

-----------------------------------------------------------------------------
(***************************************************************************)
(* Rows move forward                                                       *)
(***************************************************************************)
\* What the request at work knows of the row it will write.
RowKnows(q) ==
    /\ app.exists \/ q.pc \in {"idle", "delete.rows", "delete.releases"}
    /\ q.pc \in {"roll.rows", "roll.wait"} => q.seen # Gone
    /\ q.pc \in Unrecorded =>
        q.dep \in DeploymentIds /\ q.dep < nextDeployment /\ row[q.dep].status = "none"
    /\ q.pc = "scale.pods" /\ q.dep # NoDeployment => row[q.dep].status = q.from
    /\ q.pc = "scale.mark" =>
        q.dep # NoDeployment /\ row[q.dep].named /\ row[q.dep].status = q.from

\* What a goroutine knows of the row it replaces and of the one it inserts.
ReplacerKnows(r, d) ==
    LET w == worker[r][d]
    IN  /\ w.stage # "off" => At(r, "roll.wait") /\ d \in Rows
        /\ w.stage \in {"create", "record"} => row[d].status = "destroyed"
        /\ w.stage = "record" /\ w.new # NoDeployment =>
            /\ w.new < nextDeployment
            /\ row[w.new].status = "none"
            /\ \A e \in DeploymentIds :
                worker[r][e].stage = "record" /\ worker[r][e].new = w.new => e = d

\* The rows inserted are new, and the row a scaling marks is still as found.
SequenceInv ==
    /\ \A d \in DeploymentIds : d >= nextDeployment => row[d].status = "none"
    /\ \A r \in Requests : InPlace(req[r]) /\ RowKnows(req[r])
    /\ \A r \in Requests, d \in DeploymentIds : ReplacerKnows(r, d)

-----------------------------------------------------------------------------
(***************************************************************************)
(* One deployment per region, as long as nobody pauses: a deploy does not  *)
(* see a suspended row.                                                     *)
(***************************************************************************)
\* The region of the deployment in hand has no live row.
RegionKnows(q) ==
    /\ q.pc \in {"scale.find", "scale.pods", "scale.mark"} => q.from = "suspended"
    /\ q.pc = "create" /\ Head(q.ret) \in Recorders => LiveIn(q.region) = {}
    /\ q.pc \in Unrecorded /\ (q.pc = "service" => Head(q.ret) \in Recorders) =>
        LiveIn(cluster[q.dep].region) = {}

\* A goroutine has the region of its row to itself.
PlaceKnows(r, d) ==
    LET w == worker[r][d]
    IN  w.stage # "off" =>
            /\ LiveIn(cluster[d].region) \subseteq {d}
            /\ \A e \in DeploymentIds :
                worker[r][e].stage # "off" /\ cluster[e].region = cluster[d].region => e = d
            /\ w.stage = "record" /\ w.new # NoDeployment =>
                cluster[w.new].region = cluster[d].region

\* Who is about to insert a row has a region without one.
RegionInv ==
    /\ \A d \in Rows : row[d].status # "suspended"
    /\ OneDeploymentPerRegion
    /\ \A r \in Requests : RegionKnows(req[r])
    /\ \A r \in Requests, d \in DeploymentIds : PlaceKnows(r, d)

-----------------------------------------------------------------------------
(***************************************************************************)
(* The status of a row and the scale of its deployment                     *)
(***************************************************************************)
Agrees(d) == cluster[d].pods = IF row[d].status = "suspended" THEN "zero" ELSE "up"

\* Between a call to the cluster and the statement that marks the row.
Unsettled(d) ==
    \E r \in Requests :
        \/ /\ req[r].pc \in {"undeploy.service", "undeploy.mark", "scale.mark"}
           /\ req[r].dep = d
        \/ worker[r][d].stage = "mark"

\* A deployment without a row is up, and one scaled is as its row will say.
ScaleKnows(q) ==
    /\ q.pc \in Unrecorded => cluster[q.dep].pods = "up"
    /\ q.pc = "scale.mark" =>
        cluster[q.dep].pods = IF q.from = "running" THEN "zero" ELSE "up"

SettledInv ==
    /\ \A d \in Rows : row[d].named
    /\ \A d \in Live : Unsettled(d) \/ Agrees(d)
    /\ \A r \in Requests : ScaleKnows(req[r])
    /\ \A r \in Requests, d \in DeploymentIds : worker[r][d].stage = "record" =>
        worker[r][d].new # NoDeployment /\ cluster[worker[r][d].new].pods = "up"

-----------------------------------------------------------------------------
(***************************************************************************)
(* The regions listed and the regions deployed to                          *)
(***************************************************************************)
LiveRegions == {cluster[d].region : d \in Live}

\* The labels where list and rows differ, or a copy of the list is edited.
Editing == {"regions.read", "regions.add", "regions.standby", "standby.drop", "regions.del",
            "regions.backup", "add.route", "create", "roll.wait"} \cup Unrecorded \cup Undeploying

\* What the rows say of the list a request starts from: all of it, or, when it is
\* not to deploy anything, all of it with its edits.
Edited(q, list) == IF q.toDeploy THEN list ELSE (list \cup q.adds) \ q.dels

\* The deployment in hand is the application's first.
First(q) ==
    \/ q.pc \in {"first.release", "first.record"}
    \/ q.pc \in {"create", "service"} /\ Head(q.ret) = "first.release"

Place(q) == IF q.pc = "create" THEN q.region ELSE cluster[q.dep].region

\* Nobody has backup regions; a redeployment deploys, a deletion removes the one
\* region it was given, and Deploy removes none.
Lists(q) ==
    /\ q.standby = {} /\ q.backs = {} /\ q.backups = {} /\ q.pc # "standby.drop"
    /\ q.pc \in {"create", "service"} => Head(q.ret) # "regions.backup"
    /\ q.pc \in Undeploying => Head(q.ret) # "standby.drop"
    /\ q.kind \in {"redeploy", "revert"} => q.toDeploy
    /\ q.kind = "delete" =>
        ~q.toDeploy /\ q.adds = {} /\ q.dels = {q.region} \ {NoRegion}
    /\ q.pc = "deploy.find" \/ First(q) => ~q.toDeploy /\ q.dels = {}
    /\ q.pc = "service" => ~q.toDeploy

\* What AddOrRemoveRegions and the functions it calls know of the rows.
ListKnows(q) ==
    /\ q.pc \notin {"delete.rows", "delete.releases"}
    /\ q.pc \notin Editing => LiveRegions = app.regions
    /\ q.pc = "regions.read" => LiveRegions = Edited(q, app.regions)
    /\ q.pc \in {"regions.add", "regions.standby", "regions.del"} =>
        LiveRegions = Edited(q, q.regions)
    /\ q.pc \in {"regions.backup", "add.route"} => LiveRegions = q.regions
    /\ q.pc \in {"regions.standby", "regions.del"} => q.adds = {}
    /\ q.pc = "add.route" => q.toDeploy
    /\ q.pc \in {"regions.add", "add.route"} => q.adds \cap q.regions = {}
    /\ q.pc \in {"create"} \cup Unrecorded =>
        IF First(q) THEN /\ Place(q) = Primary
                         /\ Primary \notin LiveRegions
                         /\ LiveRegions = app.regions
        ELSE /\ q.toDeploy
             /\ Place(q) \in q.regions
             /\ LiveRegions = q.regions \ {Place(q)}
             /\ q.adds \cap q.regions = {}
    /\ q.pc \in Undeploying =>
        IF Head(q.ret) = "regions.del"
        THEN /\ q.toDeploy
             /\ q.adds = {}
             /\ q.region \notin q.regions
             /\ LiveRegions \ {q.region} = q.regions
        ELSE LiveRegions \ {q.region} = app.regions \ {q.region}
    /\ q.pc \in Undeploying \ {"undeploy.find"} =>
        \A d \in Live : d = q.dep <=> cluster[d].region = q.region

\* While a new release is rolled out, a region has its row or its goroutine.
RollKnows(r) ==
    At(r, "roll.wait") =>
        LET replaced == {d \in DeploymentIds : worker[r][d].stage # "off"}
        IN  LiveRegions \cup {cluster[d].region : d \in replaced} = app.regions

ListInv ==
    /\ app.backups = {}
    /\ \A d \in Rows : row[d].named
    /\ \A r \in Requests, d \in DeploymentIds :
        worker[r][d].stage = "record" => worker[r][d].new # NoDeployment
    /\ \A r \in Requests :
        /\ Lists(req[r])
        /\ app.exists => ListKnows(req[r]) /\ RollKnows(r)
=============================================================================
