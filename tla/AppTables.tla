------------------------------ MODULE AppTables ------------------------------
(***************************************************************************)
(* The state one application shares between all requests: its row of the   *)
(* table app, its rows of app_release and app_deployments, and what the     *)
(* clusters of its regions run.  The operators below are the SQL statements *)
(* of pkg/helper/deployment.go and service/*.go.  A statement that reads    *)
(* "the" matching row scans every match into the same variable and has no   *)
(* ORDER BY, so it answers any of them: these operators return the set of   *)
(* possible answers.  A statement that writes returns the table it leaves.  *)
(***************************************************************************)
EXTENDS Naturals, FiniteSets

CONSTANTS
    Regions,          \* region codes of the organization
    Primary,          \* clusterDet[0] of DeployImage
    Defaults,         \* the organization's default regions, Primary among them
    MaxDeployments,   \* bound on the uuids handed to deployments
    MaxReleases       \* bound on the uuids handed to releases

ASSUME TablesAssumption ==
    /\ Primary \in Defaults
    /\ Defaults \subseteq Regions
    /\ MaxDeployments \in Nat
    /\ MaxReleases \in Nat

DeploymentIds == 1 .. MaxDeployments
ReleaseIds == 1 .. MaxReleases
NoDeployment == 0      \* the empty deployment_id
NoRelease == 0         \* the empty release_id

AppStatus == {"New", "Active", "Suspended", "Terminated"}
RowStatus == {"none", "running", "suspended", "destroyed"}

VARIABLES
    app,              \* the row of table app, and its route in the load balancer
    release,          \* table app_release, by id
    row,              \* table app_deployments, by id
    cluster,          \* what the clusters hold under a deployment's name
    nextDeployment,   \* next fresh deployment uuid
    nextRelease       \* next fresh release uuid

tables == <<app, release, row, cluster, nextDeployment, nextRelease>>

AppRow == [exists: BOOLEAN, status: AppStatus, version: Nat,
           regions: SUBSET Regions, backups: SUBSET Regions, routed: BOOLEAN]
ReleaseRow == [status: {"none", "active", "inactive"}, version: Nat]
DeploymentRow == [status: RowStatus, release: ReleaseIds \cup {NoRelease},
                  named: BOOLEAN]
Workload == [region: Regions, pods: {"none", "up", "zero"}, service: BOOLEAN]

NoReleaseRow == [status |-> "none", version |-> 0]
NoDeploymentRow == [status |-> "none", release |-> NoRelease, named |-> FALSE]

TablesTypeOK ==
    /\ app \in AppRow
    /\ release \in [ReleaseIds -> ReleaseRow]
    /\ row \in [DeploymentIds -> DeploymentRow]
    /\ cluster \in [DeploymentIds -> Workload]
    /\ nextDeployment \in 1 .. MaxDeployments + 1
    /\ nextRelease \in 1 .. MaxReleases + 1

\* CreateApp has inserted the application: status New, version 1, no region.
TablesInit ==
    /\ app = [exists |-> TRUE, status |-> "New", version |-> 1,
              regions |-> {}, backups |-> {}, routed |-> FALSE]
    /\ release = [x \in ReleaseIds |-> NoReleaseRow]
    /\ row = [d \in DeploymentIds |-> NoDeploymentRow]
    /\ cluster = [d \in DeploymentIds |->
                    [region |-> Primary, pods |-> "none", service |-> FALSE]]
    /\ nextDeployment = 1
    /\ nextRelease = 1

OrElse(S, none) == IF S = {} THEN {none} ELSE S

(***************************************************************************)
(* Releases                                                                *)
(***************************************************************************)
Inserted == {x \in ReleaseIds : release[x].status # "none"}

GetAppRelease(status) ==
    OrElse({x \in ReleaseIds : release[x].status = status}, NoRelease)

GetAppReleaseByVersion == OrElse({x \in Inserted : release[x].version = 1}, NoRelease)

VersionOf(x) == IF x = NoRelease THEN 0 ELSE release[x].version

GetLatestVersion ==
    LET versions == {release[x].version : x \in Inserted}
    IN  OrElse({v \in versions : \A w \in versions : w <= v}, 0)

CreateAppRelease(x, version) ==
    [release EXCEPT ![x] = [status |-> "active", version |-> version]]

UpdateAppRelease(status, x) ==
    [y \in ReleaseIds |-> IF y = x /\ y \in Inserted
                          THEN [release[y] EXCEPT !.status = status] ELSE release[y]]

\* "where app_id = ? and version = ?": every release of that version.
UpdateAppReleases(status, version) ==
    [y \in ReleaseIds |-> IF y \in Inserted /\ release[y].version = version
                          THEN [release[y] EXCEPT !.status = status] ELSE release[y]]

(***************************************************************************)
(* Deployments.  A row is named when its deployment_id is not empty; then  *)
(* its own id stands for the deployment_id as well.  The region of a row is *)
(* the region its id was handed out for.                                   *)
(***************************************************************************)
Rows == {d \in DeploymentIds : row[d].status # "none"}

GetDeploymentsRecordSingle(region, status) ==
    OrElse({d \in Rows : cluster[d].region = region /\ row[d].status = status},
           NoDeployment)

GetDeploymentsByReleaseId(x) ==
    {d \in Rows : row[d].release = x /\ row[d].status # "destroyed"}

GetDeploymentIdByReleaseId(x) == {d \in Rows : row[d].release = x}

DeploymentId(d) == IF d # NoDeployment /\ row[d].named THEN d ELSE NoDeployment

CreateDeploymentsRecord(d, x, named) ==
    [row EXCEPT ![d] = [status |-> "running", release |-> x, named |-> named]]

\* Mutation of UpdateDeploymentsRecord: "where appId = ?".
UpdateEveryRecord(status, id) ==
    [d \in DeploymentIds |->
        IF d \in Rows THEN [row[d] EXCEPT !.status = status] ELSE row[d]]

\* "where appId = ? and deployment_id = ?": the empty id matches every unnamed row.
UpdateDeploymentsRecord(status, id) ==
    [d \in DeploymentIds |->
        IF d \in Rows /\ DeploymentId(d) = id
        THEN [row[d] EXCEPT !.status = status] ELSE row[d]]

UpdateDeploymentsReleaseId(d, x) ==
    [e \in DeploymentIds |-> IF e = d /\ e \in Rows
                             THEN [row[e] EXCEPT !.release = x] ELSE row[e]]

\* What UpdateAppStatus concludes from the rows it has read.
StatusFrom(ds) ==
    IF ds = {} THEN "Terminated"
    ELSE IF \E d \in ds : row[d].status = "running" THEN "Active"
    ELSE "Suspended"

(***************************************************************************)
(* Clusters                                                                *)
(***************************************************************************)
CreatePods(d, region) ==
    [cluster EXCEPT ![d] = [region |-> region, pods |-> "up", service |-> FALSE]]

DeletePods(d) ==
    [e \in DeploymentIds |-> IF e = d THEN [cluster[e] EXCEPT !.pods = "none"]
                             ELSE cluster[e]]

\* DeleteDeployment looks for the service in one region's cluster, under the
\* name of a deployment of the version-1 release.
DeleteService(d, region) ==
    [e \in DeploymentIds |->
        IF e = d /\ cluster[e].region = region
        THEN [cluster[e] EXCEPT !.service = FALSE] ELSE cluster[e]]
=============================================================================
