# nife: a TLA+ development of the deployment service

`nife.io.go` serves a GraphQL API that deploys containers to Kubernetes clusters in
several regions and keeps what it did in MySQL tables. This directory holds TLA+
modules translated from that code, TLC configurations that check them, and proofs that
TLAPS checks. The modules follow the source; comments in the source are quoted only where
the code does something else.

## 1. The system

| Part | Where | State it keeps | Operations |
|---|---|---|---|
| HTTP server | `nife.io.go`, `api/resolver.go` | none of its own; a gocron job | one goroutine per request, no lock, no transaction; gqlgen recovers a panic of a resolver, nobody recovers one of a goroutine that a resolver starts |
| Application mutations | `api/apps.resolvers.go`, `api/deploy.resolvers.go` | row of `app` (status, version, regions, backup regions) | CreateApp, DeployImage, ConfigureRegions, MoveApp, PauseApp, ResumeApp, RestartApp, UpdateApp, UpdateImage, UpdateConfigApps, DeleteApp |
| Region and status service | `service/app_service.go` | the lists of regions, the status | AddOrRemoveRegions, UpdateAppStatus, DeleteAppRecord |
| Cluster operations | `service/deployment_service.go` | the clusters' Deployments and Services, routes of the load balancer, a kubeconfig directory | Deployment, CreateService, Deploy, UnDeploy, DeleteDeployment, SuspendResumePods |
| Releases | `service/app_release.go` | `app_release` | CreateNewAppRelease, updateDeloyments (a goroutine per deployment) |
| Tables | `pkg/helper/deployment.go` | `app_release`, `app_deployments` | one function per SQL statement |
| S3 sites | `api/deploy.resolvers.go`, `service/s3_deployment_service.go` | build directory, process environment, `s3_deployments` | S3Deployment, DeleteS3Deployment |
| One-time codes | `internal/email_verification_code`, `internal/forgot_password` | rows of codes | issue, verify, expire, delete |
| Users, login | `internal/users`, `service/user_service.go` | users, `first_time_user`, tokens | register, activate, log in (a first login makes an organization) |
| Organizations | `service/organization_service.go`, `api/organizations.resolvers.go`, `internal/organizaiton_users` | `organization`, `organization_users`, a namespace per organization in every cluster | create, create sub organization, delete with all applications, choose the default one, make namespaces by name, invite and remove users, migrate |
| Regions of an organization | `service/region_service.go`, `api/cluster.resolvers.go`, `internal/cluster_info` | `organization_regions` with default flags, `cluster_info_user` | change the default region or regions, add and drop a cluster of one's own, add the clusters to an organization |
| Workloads | `api/workLoadManagement.resolvers.go`, `service/workload_management_service.go` | a workload, its regions | create, delete, AddWorkloadRegions (a goroutine per region), RemoveWorkloadRegions |
| Virtual machines | `api/vmInstance.resolvers.go`, `service/vm_instance_service.go`, `internal/links` | `host`; the file `temp.json` with the credentials of the GCP request at work | NodeAction and its AWS and Azure forms (start, stop), CreateHost, DeleteHost |
| Duplo | `api/duplo.resolvers.go`, `internal/duplo` | `duplo_deploy_status` | deploy, delete |
| Rule engine | `pkg/ruleengine` | none | evaluation of rules |
| Quotas, sessions, secrets, metrics, logs | `internal/stripes`, `internal/cli_session`, `internal/secret_registry`, `service/metrics_service.go` | a table each, or nothing | statements and queries |

How they interact: a mutation reads the application once (`GetApp`) and passes the copy to
the services; a service changes clusters through the Kubernetes API and then the tables
through one statement per step; it returns to the mutation, which goes on with the copy it
has. Requests meet only in the tables and in the clusters.

What is hard there:

- **Interleaving.** Two requests of one application alternate between any two statements.
- **Partial failure.** An error ends the request where it happens and undoes nothing;
  several errors are logged or dropped instead (`app_release.go:90`, `app_service.go:1065`).
- **Statements that hit the wrong rows.** A `WHERE deployment_id = ''`, a SELECT without
  ORDER BY read into one variable, versions that repeat.
- **Protocol sequences.** The meaning of the active release depends on which mutation made it.
- **Goroutines.** `updateDeloyments` waits for a wait group; a nil pointer in one of its
  goroutines stops the server. `AddWorkloadRegions` receives from its goroutines until the
  first error, or until another goroutine closes the channel.
- **Names looked up, then used.** `CreateOrganization` looks a slug up and inserts it some
  statements later; nothing but the clusters' refusal of a second namespace of one name
  tells two creations apart. A first login does the same, and clears `first_time_user` last.
- **Work region by region.** Namespaces and rows of regions are made and deleted one by one;
  an error or a stop leaves a part of them.
- **A file shared by all requests.** Requests on GCP machines write, read and remove
  `temp.json` in the server's working directory.
- **Loops without a limit.** Starting and stopping a machine polls its cloud until the
  state is the wanted one.

What makes each part correct. Tables: statements touch the rows they are meant for.
Cluster operations: a row says what the cluster runs. Regions: `app.regions` lists the
regions that run the application, each once. Releases: there is a current release, and it
covers what runs. Server: every request is answered. Workloads: the answer is what the
goroutines did. Codes: the row last issued decides. S3 sites: a build sees its own directory and environment.
Organizations: members have their regions, no two organizations own one namespace, deletion
leaves nothing. Virtual machines: the host says what the machine is, every action ends. The
hazards of `PROJECT.json` name the lines.

## 2. Modules

| Module | What it holds |
|---|---|
| `AppTables` | the shared state (row of `app`, releases, deployments, clusters) and one operator per SQL statement or cluster call |
| `AppLifecycle` | the mutations, services and goroutines as actions over it; `Spec` |
| `AppLifecycleProperties` | the properties, and the invariants behind `DestroyedIsGone`, the overlapping releases and the overlapping INSERTs |
| `MCAppLifecycle` | instances for TLC |
| `AppLifecycleProofs` | the theorems |
| `DeploymentLedger` | abstract specification: what the rows of `app_deployments` promise of the deployments they name |
| `AppReleaseProofs` | the proofs about overlapping requests: a current release, deployments that reach their table, rows inserted once that stay destroyed |
| `AppSequence` | the invariants of requests that come one after the other: what the request at work knows of the rows and of the list of regions |
| `AppSequenceProofs`, `AppRegionProofs` | the proofs of those invariants: rows and scale, then regions |
| `AppLedger`, `AppLedgerProofs` | the map of `AppLifecycle`'s state to the ledger's, and the proof that it implements it |
| `Organizations` | organizations, their members, regions and namespaces; the properties and the inductive invariant |
| `MCOrganizations`, `OrganizationsProofs` | its instance and its theorems |
| `VirtualMachines` | hosts, machines in their clouds and `temp.json`; the properties and the inductive invariant |
| `MCVirtualMachines`, `VirtualMachinesProofs` | its instance and its theorems |
| `WorkloadRegions` | the regions of a workload: `AddWorkloadRegions` with its goroutines and channel, `RemoveWorkloadRegions`, `DeleteWorkloadManagement`; the properties |
| `MCWorkloadRegions`, `WorkloadRegionsProofs` | its instance and its theorems |

The four specifications share almost no state. A workload's regions are in a table of
their own, which no mutation of an application writes, and so are hosts. `DeployImage` reads
the organization's default regions, or the workload's regions, once (`Defaults` of
`AppTables`); deleting an organization deletes its applications one after the other with the
steps of `DeleteApp`, which `AppLifecycle` has.

### State

| Variable | Code |
|---|---|
| `app` | row of `app`: `exists`, `status`, `version`, `regions`, `backups`; `routed` is the CNAME route of `CreateCLBRoute` |
| `release[x]` | row of `app_release` with id `x`: status and version |
| `row[d]` | row of `app_deployments` of deployment `d`: status, release id, and whether the row carries the id (`named`): some paths insert it empty |
| `cluster[d]` | what the cluster of `region` holds under the name of `d`: pods none, up or scaled to zero, and the Service |
| `nextDeployment`, `nextRelease` | the uuids handed out so far |
| `req[r]` | the request of slot `r`: program counter, labels to return to, and the Go locals that outlive a step (`app.Regions` as read, `regions`, `backupRegionsList`, the ids, the status) |
| `worker[r][d]` | the goroutine by which request `r` replaces deployment `d` |
| `issued` | requests issued; bound of the model |

`WorkloadRegions` has `active` (`is_active` of the workload), `recorded[g]` (its rows of
region `g`), and for each request its program counter, argument and answer, the regions
whose goroutine is still to be started (`left`), the goroutines (`stage[r][g]`: inserting,
sending its error, ended) and the one that closes the channel (`closer`).

`Organizations` has `organization` (status, slug, parent, default flag), `member[o][u]` and
`mapped[o][g]` (how many rows, because nothing keeps a second one out), `own[u]` (a user's
clusters), `first[u]` (`first_time_user`), `namespace[g]` (the slugs that have a namespace in
the cluster of `g`), `stripped` (history: slugs whose namespaces a deletion asked to
delete), `asked[g]` (history: the namespaces there that `CreateNamespaceInCluster` made) and for each request its locals, among them the organizations and regions its
loop has still to visit.

`VirtualMachines` has `machine` (off, starting, on or stopping, in its cloud), `host` (rows
by id), `temp` (what `temp.json` holds: nothing, something unreadable, or the credentials of
an account), `open` (requests whose open file is the one of that name), and for each request
the host it found, the account of its client, the project it read and the state last
polled. `alone` is history: the slots whose request overlapped no other one on its machine,
or on the file, and had no statement fail.

### Actions

In `AppLifecycle` one action is one SQL statement or one call to a cluster, with the Go code up to the next
one; the steps of a mutation's prologue that only read (user, GetApp, quota, organization) are one step, `Issue`.
A called function (`AddOrRemoveRegions`, `UnDeploy`, `Deployment`) is entered with `Call`,
which pushes the label to return to, and left with `Return`; `End` is an error return, or
the answer. Names follow the code: `Deploy*` and `Roll*` are `Deploy` and
`CreateNewAppRelease`/`updateDeloyments`, `Worker*` its goroutines, `First*` the branch of
`DeployImage` for a first deployment, `Regions*`/`Add*` `AddOrRemoveRegions`, `Undeploy*`
and `Scale*` `UnDeploy` and `SuspendResumePods`, `Status*` `UpdateAppStatus`, `Config*` and
`Image*` the ends of `UpdateConfigApps` and `UpdateImage`, `Delete*` `DeleteApp`.
`Halt` stops the server: every request and goroutine is gone, the tables and clusters stay.
It happens by `Crash`, and by `WorkerPanic`, the nil pointer at `app_release.go:100`.

`Faults` says what may go wrong outside the server; each kind enables the error branch of
one call (`FaultKinds` explains them). A statement that may match several rows and keeps one
of them is a set of outcomes, chosen by `\E`.

`Init` is the state after CreateApp and UpdateApp: the application exists, is New,
and has its build configuration.

`Organizations` and `VirtualMachines` are written in the same way; their actions carry the
names of the resolvers (`CreateOrganization`, `NodeAction`) and, after the mutation's first
label, of the steps (`Create*`, `Map*`, `Delete*`, `Destroy*`, `Spaces*`; `File*`, `Check`,
`Command`, `Poll`, `MarkHost`).

### Abstractions

- One application; the applications of other names share no row with it. Regions are the
  codes of the organization's kube_config clusters; byoh clusters are left out.
- Image names, ports, environment, hostnames, mails and activity rows are left out; no
  guard of the modelled code depends on them apart from the ports `CheckPortInUse` tries.
- Regions that were never written are nil in Go and empty here: `RegionsDeleted` may then pass
  over a removal, as the loop of `AddOrRemoveRegions` does on nil (`app_service.go:1015`).
- Database failures other than a failed INSERT are left out: each ends the request like the
  modelled errors.
- `ConfigAppChange` may rename the application; the model keeps the name.
- Two steps whose order no other request can see are one.

In `WorkloadRegions` the channel has no buffer: sending and receiving are one step
(`Receive`), after which the worker has ended. `wg.Done` is part of that step, or of `Insert`,
so the wait group is at zero when no worker inserts or sends (`AllDone`). The argument is a
set of regions. One user owns the workload; `Faults` has the failed INSERT.

In `Organizations`:

- A client names organizations from the list `AllOrganizations` gave it, and regions that
  the organization has. Users are administrators who registered with a company.
- A name is what the code makes of it: its slug, whether it equals its slug (MySQL compares
  without case), and the slugs it gets with four random digits.
- Deleting a namespace takes effect at once; in a cluster it may be terminating for a while.
- `CreateNamespaceInCluster` takes a list of names: it is as many requests. A name that is no
  organization's slug makes a namespace nobody looks at. A cluster without a configuration
  path is passed over, as one that refuses.
- A first login whose lookup of the slug fails goes on with the slug as it is: the code drops
  that error.
- The list of clusters is read in the step of the INSERT before it. A user's own cluster
  counts once, and two requests of one user do not add the same one at the same time.
- The stored procedure that marks an organization and its rows deleted is not in the
  repository; the model has the status it is called for.
- Registry secrets, workloads, business units, DNS records and S3 deployments that a
  deletion also removes are left out, and so is `MigrateOrganization`, which moves
  applications and sub organizations to another organization. Single sign-on makes a first
  organization with the same statements as `Login`, and is not a second action; the
  invitation of a user who is new, and a change of company, are left out.

In `VirtualMachines`:

- The clouds are external. A machine refuses a start while it stops and a stop while it
  starts; what it was asked for comes to be (`Settle`). So an Azure machine ends as "VM running"
  or "VM stopped". `AzureInstanceStatus` returns any other display status as it is
  (`vm_instance_service.go:321`); one that lasts, of a deallocated machine say, would keep the loops
  at lines 371 and 421 polling, and `EveryActionEnds` assumes that away.
- The hosts are those of one user. No action clears `is_active`: `GetHostDetailsById` selects
  only a row that says `running`, `DeleteHost` refuses that one, and for any other the scan
  of no row is an error, so `DeleteHostActivity` is never reached (`DeleteFind`).
- `FileWrite` may write to a file that was removed under it, or leave the tail of a longer
  one. `GetInstanceStatus` panics when it cannot read the file or the project does not have the
  instance; the panic ends the request.
- The queries, and the move of hosts when an organization migrates, are left out.
- Two overlapping `CreateHost` of one machine may insert two rows; no property denies it.

## 3. Runs

The runs of `AppLifecycle` use `MCAppLifecycle` with two regions, of which `a` is the primary one (the first
default region of the organization).

| Run | Question | Instance |
|---|---|---|
| `AppFaults` | do rows marked destroyed stand for deployments that are gone, under overlap, faults and stops? `TypeOK`, `DestroyedIsGone`, `DestroyedInv`. Is every row inserted once, by one request? `InsertInv`. Do rows and deployments behave as the ledger? `ImplementsLedger` | two requests at once, every kind, every fault but `rolldelete` |
| `AppOverlap` | do overlapping releases keep a current release and track every deployment? `SomeReleaseIsActive`, `EveryPodIsTracked`, and their inductive strengthening `OverlapInv`. Does a destroyed row stay so? `RowsMoveForward` | three requests, two at once: deploy, move, image, revert |
| `AppEnds` | is every request answered? `EveryRequestEnds` | three requests, two at once: deploy, configure and delete; a goroutine may be refused its deletion, or panic when the application is gone |
| `AppSequential` | do rows and pods agree on suspension; does a destroyed row stay so? `ScaleMatchesStatus`, `RowsMoveForward`, and the inductive `SettledInv`, `SequenceInv` | four requests in a row, every kind, the second region allowed or backed up, the first denied; a refused service, kubeconfig, scaling or deletion of a goroutine, a failed INSERT |
| `AppRegions` | do `app.regions` and the rows agree; one deployment per region? `RegionsMatchRows`, `OneDeploymentPerRegion`, and the inductive `ListInv`, `RegionInv` | four requests in a row, two default regions, no pause; services refused or without an address, deletions of a goroutine and scalings refused |
| `AppRolls` | violated: "CREATE NEW RELEASE BY TERMINATING DEPLOYMENTS" | deploy and redeploy |
| `AppBackups` | violated: "Cannot Add Region %s As Backup, Beacuse It is in Primary Region" | deploy and configure |
| `AppServices` | violated: "create one if not exists" | one deploy |
| `AppTerminated` | violated: "This app is already terminated" | deploy, image, configure |
| `WorkloadRegions` | are the answers true, is the channel closed after the last send, is every request answered, do goroutines end? `TypeOK`, `AnswerIsTrue`, `NobodySendsOnClosed`, `EveryRequestIsAnswered`, `GoroutinesEnd` | two requests of any kind, three regions, failed inserts |
| `Organizations` | do members have their regions, is a user new until a member, who owns a namespace, does deletion leave one that was made with an organization or a region? `TypeOK`, `MembersHaveRegions`, `FirstLoginMadeMember`, `MembersShareNoSlug`, `OrganizationsInv`, `DeletionLeavesNoNamespace` | three requests of any kind, two at once; two users, a platform region and another one; every fault but `destroy` |
| `VirtualMachines` | does a host say what its machine is once an action was answered, and does every action end? `TypeOK`, `AnsweredHostAgrees`, `VirtualMachinesInv`, `EveryActionEnds` | two overlapping requests of any kind on two GCP machines of different accounts, one in AWS and one in Azure; every fault |

**Bounds.** `MaxRequests` and the number of slots bound a behaviour; two slots let any two
requests interleave at every statement, and the code keeps no state that needs a third.
Two regions are the fewest in which a mutation can succeed in one and fail in the other,
and in which the last region is special (`UnDeploy`, `AddOrRemoveRegions`).
`MaxDeployments` and `MaxReleases` are never the limit in a passing run: an action that
needs an id and finds none cannot take its step, its request would stop, and TLC reports
the deadlock. Deadlock is checked in every run of `AppLifecycle`; `Done` is the state in
which all requests are answered and none is left to issue.

`Organizations` has three requests: two creations that overlap and a deletion between or
after them, or a creation, an invitation and a removal. With two users there is always one
who is not a member. One name is its own slug and the other is not, which is what
decides whether a taken slug is found; a numbered slug may be one that exists.

`VirtualMachines` has two GCP machines because two accounts must meet in `temp.json`; one
machine of each other cloud reaches the branches they have. The machines are at first all
off, all on, or only one on: a start and a stop then find each state.

`WorkloadRegions` has three regions: two workers that fail are left waiting and a third one
succeeds. Two requests overlap. Its run does not check deadlock, because a behaviour really
may end with goroutines that wait for ever; `EveryRequestIsAnswered` and
`GoroutinesEnd` say where it may stop.

**Restrictions that matter.** `ScaleMatchesStatus`, `RegionsMatchRows` and
`OneDeploymentPerRegion` are checked for requests one after the other, and so is
`RowsMoveForward` when somebody pauses: for overlapping requests the code does not keep them
(the hazards say at which lines). `AppRegions` leaves
out Pause, because removing a suspended region leaves its row, backups, whose
deployments are in no table, and the faults that end a request between a row and the list.
`AppSequential` leaves out the four faults that leave a deployment and its row apart, and two,
`route` and `loadbalancer`, that end a request with no row left to write; section
4 says how. `AppFaults` leaves out the refused deletion in a release
goroutine, which marks the row all the same. `Organizations` leaves out the namespace a
cluster fails to delete: the error is logged and the organization marked deleted, so
`DeletionLeavesNoNamespace` fails with it. The property, and `DestroysKnows` in
`OrganizationsInv`, except two namespaces: that of another organization which has had the slug,
and one that `CreateNamespaceInCluster` made after the deletion passed its cluster, since
that mutation asks neither who owns the name nor who is deleting it. Without either exception TLC finds
a violation. An organization that is marked is not deleted again, so such a namespace stays. `AnsweredHostAgrees` is about requests in `alone`:
two that overlap on one machine, or on the file, leave any status.

**Fairness.** Weak fairness of every request's and every goroutine's steps: the Go scheduler runs
what can run. It assumes that each cluster call and statement returns, with an answer or
an error. There is no fairness on clients,
on `Crash` or on the choice of an outcome. `EveryRequestEnds` is checked without `Crash`,
but with the panic that stops the server, after which no request is left. In
`WorkloadRegions` it is the same for requests, workers and closing goroutines; nothing obliges
an INSERT to succeed. `GoroutinesEnd` excepts the request that saw two failures:
`AddWorkloadRegions` returns the first error and nobody receives the second
(`workLoadManagement.resolvers.go:217`), so that goroutine and the closing one stay for ever.
`VirtualMachines` has weak fairness of each request and of each machine's settling, and strong
fairness of a poll that is answered: a cloud may fail to answer, and does not do so for ever
to a request that keeps asking; a machine settles on running or stopped (section 2). `EveryActionEnds` then says what still keeps a loop
going: a machine that another request has turned the other way, or the credentials of
another account in `temp.json`.

**Violations.** `AppRolls`: `UpdateConfigApps` attaches only the last row to the
release it publishes, so a later deploy rolls a part of the application. `AppBackups`: the
check compares with the regions read at the start of the same call. `AppServices`: an
added region is deployed with `redeploy` set, which only updates an existing service, and
its failure is dropped. `AppTerminated`: the status is computed from the rows of the
active release, and `UpdateImage` leaves that release without rows.

## 4. Proofs

`AppLifecycleProofs` proves, for any sets and bounds that satisfy `TablesAssumption` and
`LifecycleAssumption`:

| Theorem | States |
|---|---|
| `TypeCorrect` | `Spec => []TypeOK` |
| `DestroyedInvariant` | `"rolldelete" \notin Faults /\ Spec => []DestroyedInv` |
| `DestroyedRowsAreGone` | `"rolldelete" \notin Faults /\ Spec => []DestroyedIsGone` |

*Type correctness* is inductive as it stands. The control half shows that the record
each action writes is a request: `Follows` says what a record must carry over, the
`...Advance` lemmas show it of each function of the code. The data half shows that each
statement keeps the type of its table (`RowTypes`, `ClusterTypes`, `ReleaseTypes`), and the
`...Tables` lemmas that each action does. `StepType`, `WorkType`, `HaltType` put them together.

*A destroyed row has no pods* is not inductive: what makes the mark right was done some
steps before. `DestroyedInv` adds: ids not handed out name nothing (`FreshIds`); every id
held was handed out (`HeldIds`); a row without its deployment id never has
pods (`UnnamedHasNoPods`), because marking the empty id marks all of them; and what a
request between `DeleteDeployment` and the mark, or a release goroutine, knows of its
deployment (`UndeployKnows`, `WorkerKnows`). The proof is a rely-guarantee argument:
`Steady` says what the statements of others never do to a deployment with no pods (give it
pods, take its id away), the `...IsSteady` lemmas show it of each statement, and `RequestInv` and `WorkerInv`
carry the knowledge of all other requests over a steady step; what is left for an action is
its own request. The assumption on `rolldelete` is used in `WorkInv` only, for the
goroutine that logs the refusal and marks the row.

`WorkloadRegionsProofs` proves, for any regions, requests and faults, `RegionsTypeCorrect`
(`[]TypeOK`), `AnswersAreTrue` (`[]AnswerIsTrue`) and `NobodyPanics`
(`[]NobodySendsOnClosed`). *An answer is true* is not inductive: that the loop ended says
only that the channel is closed. `AddInv` adds what makes it so: when the loop starts every
goroutine was started; none that was started has failed to the end while the request has no answer,
because an error that is received is the answer; the channel is closed only with no worker
left; and as long as nobody removes, an inserted region has a row. A step of one
request leaves the others' part alone (`AloneInv`), so each action is checked for its own.

`AppLedgerProofs` proves `LedgerImplemented`: `"rolldelete" \notin Faults /\ Spec =>
ImplementsLedger`. Each step is one step of the ledger or a stutter: `...Steps` lemmas show
it of each statement and cluster call. That a row is marked only when its deployments have
ended is where `DestroyedInv` is needed; that nothing starts twice follows from `FreshIds`.

`AppReleaseProofs` proves three theorems, for any regions, requests and bounds:

| Theorem | States | Assumes |
|---|---|---|
| `ReleaseAlwaysActive` | `[]SomeReleaseIsActive` | `KeepsReleases`: no DeleteApp, no failed INSERT, no server stop |
| `OverlapInvariant` | `[]OverlapInv` | moreover `RecordsPods`: no backup regions, no cluster that lists no pods or refuses a service |
| `PodsAlwaysTracked` | `[]EveryPodIsTracked` | moreover no `rolldelete` |

Each assumption names what breaks the property as the code is written: a failed INSERT after
`UpdateAppRelease("inactive", ...)` leaves no active release, backup regions are deployed
without a row, an error after `Deployment` leaves its pods unrecorded. *There is an active release
or somebody about to publish one* is not inductive, since it says nothing of whether the
publication will find what it needs. `NeverDeleted` follows a request over its labels
(`OnCourse`): whatever called `Deployment` returns to the label that records, a revert never
computes a version of its own, goroutines work only while their request waits, and a request
that waits has read an application. `ReleasesKnown` says that the id a request will publish under is fresh,
unpublished and nobody else's, and that a revert names the version of a release in the
table. `PodsKnown` says that pods have a row or a recorder. The `...Course` lemmas show where each
step leads, `StepRelease` and `StepPods` single out the few steps that write releases or
create pods, and each of these has a lemma of its own.

`OrganizationsProofs` proves, for any users, regions, names and slugs:

| Theorem | States |
|---|---|
| `OrganizationsTypeCorrect` | `Spec => []TypeOK` |
| `OrganizationsInvariant` | `Spec => [](TypeOK /\ OrganizationsInv)` |
| `MembersAlwaysHaveRegions`, `FirstLoginAlwaysMadeMember`, `MembersNeverShareASlug` | the invariants of the run |
| `DeletionLeavesNone` | `"destroy" \notin Faults /\ Spec => DeletionLeavesNoNamespace`, with the two exceptions of section 3 |

`OrganizationsInv` says what each request relies on: a creation has a row, no member yet,
and a row for each region it passed (`MapsKnows`); an organization that a client named has a member
(`NamesKnow`); a deletion has removed what it passed, and what is there again is a namesake's
or was asked for by name (`DestroysKnows`, over `Made`: `namespace` less `asked`); no two
creations work on one organization (`OneMaker`). `NamespaceHasOneOwner` carries the
argument for slugs: who has a member, or has passed a region in its creation, claims
the namespace there; a creation passes a region only by making the namespace, so a
second claim of one slug needs a deletion of that slug in between. Frame lemmas (`Grow`,
`KeepInv`, `QuietInv`, `KeepOwner`) show that steps which only add rows, or touch
none of this, keep it all; one lemma for each remaining action does the rest.

`VirtualMachinesProofs` proves, for any machines, accounts and hosts, `TypeCorrect`,
`VirtualMachinesCorrect` (`[]VirtualMachinesInv`) and `AnsweredHostCorrect`
(`[]AnsweredHostAgrees`). *A host agrees with its machine* is not inductive: the status is
written before or after the machine moves, according to the cloud. `VirtualMachinesInv` adds
that a request keeps to a host of its own machine (`ActsOnItsHost`), that an undisturbed
one shares its machine with no request at work (`Undisturbed`), that the machine is on its
way (`Toward`) and the host says so once written (`Marked`). `Apart` turns `Undisturbed` into
different machines, hence different hosts, and each action of another request leaves both alone.

The same module goes on to requests of any kind:

| Theorem | States | Assumes |
|---|---|---|
| `InsertInvariant` | `[]InsertInv` | nothing |
| `OverlappingRowsMoveForward` | `RowsMoveForward` | nobody pauses |

An INSERT writes a whole row, so *a destroyed row stays destroyed* needs that no INSERT meets
a row that is there. `InsertInv` says who has a deployment in hand (`InHand`): a request
between `Deployment` and its INSERT, or a goroutine in the same place; each has its own,
handed out, without a row. What a request returns to is part of it (`Returns`): only
`Deployment` returns to the labels that insert. `HandsKept` and `HandsOut` say when a step keeps
the invariant; a `...Calm` lemma for each function shows that most steps neither take a
deployment in hand nor insert, and the few that do have a `...Hands` lemma each. That nobody pauses
is assumed for the UPDATE of `SuspendResumePods`: it marks the row as running or suspended
that it found before the scaling, and an UnDeploy in between has marked it destroyed.
Without a pause nothing is suspended, and a resumption finds nothing (`NothingSuspended`).

`AppSequenceProofs` and `AppRegionProofs` are about requests one after the other (`Alone`: at
most one slot, with its goroutines, which still interleave), for any kinds, regions and bounds:

| Theorem | States | Assumes, besides `Alone` |
|---|---|---|
| `SequenceInvariant` | `[]SequenceInv` | nothing |
| `RowsAlwaysMoveForward` | `RowsMoveForward` | nothing: pauses and every fault included |
| `SettledInvariant`, `ScaleAlwaysMatches` | `[]SettledInv`, `[]ScaleMatchesStatus` | `Obeyed`: none of the faults `create`, `container`, `undeploy`, `crash` |
| `RegionInvariant`, `OneDeploymentAlways` | `[]RegionInv`, `[]OneDeploymentPerRegion` | nobody pauses |
| `ListInvariant` | `[]ListInv` | nobody pauses; `Undisturbed`: no backup regions, no fault but `service`, `loadbalancer`, `rolldelete`, `scale` |
| `RegionsAlwaysMatch` | `[]RegionsMatchRows` | the same, and that there is a slot |

Each assumption is one the code needs: TLC finds `ScaleMatchesStatus` violated with each of
the four faults alone, `RegionsMatchRows` with each fault that `Undisturbed` excludes, with a
pause and with a backup region, `OneDeploymentPerRegion` with a pause, and `RowsMoveForward`
with a pause among overlapping requests. A release goroutine inserts its row even when
the deployment was refused or none of its pods was listed (`create`, `container`); a refused
deletion of the service ends DeleteApp after the pods are gone and before the row is marked
(`undeploy`); a stop comes between the call and the mark (`crash`). A paused region is invisible
to Deploy and to UnDeploy, which look for a running row. A failed INSERT, route or kubeconfig
ends the request, or lets it go on, between the row and the list; a backup region is deployed
without a row.

None of the properties is inductive: each compares two things that the code writes in different
statements, several function calls apart. The argument goes up in four steps.
`InPlace` says who has called whom, so what a function returns to. `SequenceInv` adds what a
request knows of the row it will write: the row to insert is new, the row a scaling will mark
is still as found. `RegionInv` adds that whoever is to insert a row has a region without a
live one; for a goroutine, that it is alone in its region. `ListInv` follows the list: at
each label, and through `Deployment` and `UnDeploy`, it says how `app.regions` or the
request's copy of it differs from the regions that have a live row. `SettledInv` is the
same for pods: every live row agrees with its deployment unless a request or goroutine is
between the call and the mark (`Unsettled`). The proofs have one lemma for each function of the
code, on top of lemmas that say what the steps which write no row keep.

Only model-checked: liveness (`EveryRequestEnds`, `EveryActionEnds`,
`EveryRequestIsAnswered`, `GoroutinesEnd`), which is out of the prover's reach, and the four
properties that the code does not keep.

## 5. Plan

Done: tables, lifecycle and the first safety theorem; the regions of a workload; the
deployment ledger and its refinement; overlapping releases and INSERTs; requests one after
the other, with rows, scale and regions; organizations with members, regions and
namespaces; virtual machines. All with proofs. Left, in this order:

1. The build directory and environment of the process between concurrent S3 builds;
   one-time codes (a code is read from rows without order); command line sessions.
2. `RuleEngine`: the comparators and composites as functions, against a reference
   definition, in a module for TLC alone, because it recurses over trees.
3. CreateApp with its quota, UpdateApp, RestartApp and the byoh branches of the lifecycle;
   ports and the kubeconfig directory as detail of the cluster operations.
4. Organizations with their applications: `DeleteOrganization` over the steps of
   `DeleteApp`, and the migration of applications and hosts.
5. Theorems: `WorkloadRegions` as an implementation of a set of regions that is added to
   and removed from; which of the sequential properties survive an overlap of mutations that
   touch different regions.

RECURSIVE operators are kept out of every module a theorem reaches.

## 6. Not modelled

`PROJECT.json` lists every component with its status. Left out for good: generated
GraphQL code (`generated.go` alone is 60,399 of the 92,671 lines of Go, and only moves
arguments to the resolvers), metrics, logs and notifications (pure input and output), billing
(external), the shape of Kubernetes objects and text templates, and the queries, which change
nothing. Duplo is a second deployment path to one external service and raises few
questions of its own. Left for later: section 5.
