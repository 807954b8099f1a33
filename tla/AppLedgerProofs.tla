---------------------------- MODULE AppLedgerProofs ----------------------------
(***************************************************************************)
(* AppLifecycle implements DeploymentLedger: every step of a request, of a  *)
(* goroutine or of the environment is a step of the ledger or leaves it      *)
(* alone.  The conditions of the ledger's steps come from DestroyedInv.      *)
(***************************************************************************)
EXTENDS AppLedger, AppLifecycleProofs

LedgerStep == [Ledger!LedgerNext]_(Ledger!ledger)

\* What the types say of the state the ledger is read from.
LEMMA LedgerState ==
    ASSUME TypeOK
    PROVE  /\ nextDeployment \in Nat \ {0}
           /\ \A d \in DeploymentIds : d \in Nat
           /\ \A d \in DeploymentIds : cluster[d].pods \in {"none", "up", "zero"}
<1>1. nextDeployment \in Nat \ {0} /\ \A d \in DeploymentIds : d \in Nat
  BY IdsAreNat
<1> QED
  BY <1>1 DEF TypeOK, TablesTypeOK, Workload

\* The ledger reads the status of a row, the pods and the next id, nothing else.
LEMMA LedgerKept ==
    ASSUME nextDeployment' = nextDeployment,
           \A d \in DeploymentIds : cluster'[d].pods = cluster[d].pods,
           \A d \in DeploymentIds : row'[d].status = row[d].status
    PROVE  LedgerStep
<1>1. Lives' = Lives
  BY DEF Lives, LifeOf
<1>2. MarkedRows' = MarkedRows
  BY DEF MarkedRows
<1> QED
  BY <1>1, <1>2 DEF LedgerStep, Ledger!ledger

\* A statement that only adds marks, or only removes some.
LEMMA RowsStep ==
    ASSUME TypeOK, DestroyedInv', UNCHANGED <<cluster, nextDeployment>>,
           MarkedRows \subseteq MarkedRows' \/ MarkedRows' \subseteq MarkedRows
    PROVE  LedgerStep
<1>1. Lives' = Lives
  BY DEF Lives, LifeOf
<1>2. ASSUME NEW d \in MarkedRows' PROVE Lives[d] = "ended"
  <2>1. d \in DeploymentIds /\ row'[d].status = "destroyed"
    BY <1>2 DEF MarkedRows
  <2>2. ~(d >= nextDeployment) /\ cluster[d].pods = "none"
    BY <2>1 DEF DestroyedInv, FreshIds, DestroyedIsGone
  <2> QED
    BY <2>1, <2>2 DEF Lives, LifeOf, Seen
<1>3. CASE MarkedRows \subseteq MarkedRows'
  <2>1. MarkedRows' = MarkedRows \cup MarkedRows' /\ MarkedRows' \in SUBSET DeploymentIds
    BY <1>3 DEF MarkedRows
  <2>2. Ledger!Mark(MarkedRows')
    BY <1>1, <1>2, <2>1 DEF Ledger!Mark
  <2> QED
    BY <2>1, <2>2 DEF LedgerStep, Ledger!LedgerNext
<1>4. CASE MarkedRows' \subseteq MarkedRows
  <2> DEFINE S == MarkedRows \ MarkedRows'
  <2>1. MarkedRows' = MarkedRows \ S /\ S \in SUBSET DeploymentIds
    BY <1>4 DEF MarkedRows
  <2>2. Ledger!Unmark(S)
    BY <1>1, <2>1 DEF Ledger!Unmark
  <2> QED
    BY <2>1, <2>2 DEF LedgerStep, Ledger!LedgerNext
<1> QED
  BY <1>3, <1>4

\* Only deployment d changes in the ledger.
LEMMA OneLife ==
    ASSUME NEW d \in DeploymentIds, MarkedRows' = MarkedRows,
           \A e \in DeploymentIds : e # d => LifeOf(e)' = LifeOf(e),
           NEW from, LifeOf(d) \in from
    PROVE  Ledger!Becomes(d, from, LifeOf(d)')
<1>1. Lives' = [Lives EXCEPT ![d] = LifeOf(d)']
  BY DEF Lives
<1>2. Lives[d] = LifeOf(d)
  BY DEF Lives
<1> QED
  BY <1>1, <1>2 DEF Ledger!Becomes

\* One deployment is scaled or deleted, or had no pods.
LEMMA PodsStep ==
    ASSUME TypeOK, TypeOK', DestroyedInv, UNCHANGED <<row, nextDeployment>>, NEW d,
           d \in DeploymentIds => (cluster[d].pods = "none" => cluster'[d].pods = "none"),
           \A e \in DeploymentIds : e # d => cluster'[e].pods = cluster[e].pods
    PROVE  LedgerStep
<1>1. CASE d \notin DeploymentIds \/ cluster'[d].pods = cluster[d].pods
  BY <1>1, LedgerKept
<1>2. CASE d \in DeploymentIds /\ cluster'[d].pods # cluster[d].pods
  <2>1. cluster[d].pods \in {"up", "zero"} /\ cluster'[d].pods \in {"none", "up", "zero"}
    BY <1>2, LedgerState DEF TypeOK, TablesTypeOK, Workload
  <2>2. ~(d >= nextDeployment)
    BY <1>2, <2>1 DEF DestroyedInv, FreshIds
  <2>3. LifeOf(d) \in {"running", "scaled"} /\ LifeOf(d)' \in {"running", "scaled", "ended"}
    BY <2>1, <2>2 DEF LifeOf, Seen
  <2>4. Ledger!Becomes(d, {"running", "scaled"}, LifeOf(d)')
    BY <1>2, <2>3, OneLife DEF LifeOf, MarkedRows
  <2>5. Ledger!Suspend(d) \/ Ledger!Resume(d) \/ Ledger!Finish(d)
    BY <2>3, <2>4 DEF Ledger!Suspend, Ledger!Resume, Ledger!Finish
  <2> QED
    BY <1>2, <2>5 DEF LedgerStep, Ledger!LedgerNext
<1> QED
  BY <1>1, <1>2

\* The next id, n, is given to a new deployment, or to a row without one.
LEMMA NewIdStep ==
    ASSUME TypeOK, NEW n \in DeploymentIds, n = nextDeployment,
           nextDeployment' = n + 1, MarkedRows' = MarkedRows,
           cluster'[n].pods \in {"up", "none"},
           \A e \in DeploymentIds : e # n => cluster'[e].pods = cluster[e].pods
    PROVE  LedgerStep
<1>1. n \in Nat /\ \A d \in DeploymentIds : d \in Nat
  BY LedgerState
<1>2. LifeOf(n) = "fresh"
  BY <1>1 DEF LifeOf
<1>3. LifeOf(n)' \in {"running", "ended"}
  <2>1. ~(n >= nextDeployment')
    BY <1>1
  <2> QED
    BY <2>1 DEF LifeOf, Seen
<1>4. ASSUME NEW e \in DeploymentIds, e # n PROVE LifeOf(e)' = LifeOf(e)
  <2>1. e >= n + 1 <=> e >= n
    BY <1>1, <1>4
  <2> QED
    BY <1>4, <2>1 DEF LifeOf
<1>5. Ledger!Becomes(n, {"fresh"}, LifeOf(n)')
  BY <1>2, <1>4, OneLife
<1>6. Ledger!Start(n) \/ Ledger!Skip(n)
  BY <1>3, <1>5 DEF Ledger!Start, Ledger!Skip
<1> QED
  BY <1>6 DEF LedgerStep, Ledger!LedgerNext

\* What an UPDATE of the status does to the marks.
LEMMA UpdateMarks ==
    ASSUME TypeOK, NEW status \in RowStatus, NEW id, row' = UpdateDeploymentsRecord(status, id)
    PROVE  IF status = "destroyed" THEN MarkedRows \subseteq MarkedRows'
                                   ELSE MarkedRows' \subseteq MarkedRows
<1>1. \A d \in DeploymentIds :
        row'[d].status = IF d \in Rows /\ DeploymentId(d) = id THEN status ELSE row[d].status
  BY DEF UpdateDeploymentsRecord, TypeOK, TablesTypeOK, DeploymentRow
<1> QED
  BY <1>1 DEF MarkedRows

\* An inserted row runs.
LEMMA RecordMarks ==
    ASSUME TypeOK, NEW d, NEW x, NEW named, row' = CreateDeploymentsRecord(d, x, named)
    PROVE  MarkedRows' \subseteq MarkedRows
<1>1. \A e \in DeploymentIds :
        row'[e].status = IF e = d THEN "running" ELSE row[e].status
  BY DEF CreateDeploymentsRecord, TypeOK, TablesTypeOK
<1> QED
  BY <1>1 DEF MarkedRows

-----------------------------------------------------------------------------
(***************************************************************************)
(* The steps of requests                                                   *)
(***************************************************************************)
\* Most steps touch neither rows nor clusters.
LEMMA ElsewhereStep ==
    ASSUME UNCHANGED <<row, cluster, nextDeployment>> PROVE LedgerStep
  BY LedgerKept

\* Deployment starts what gets the next id; CreateService may take it back.
LEMMA DeployStep ==
    ASSUME TypeOK, TypeOK', DestroyedInv, DestroyedInv', NEW r \in Requests, Deploy(r)
    PROVE  LedgerStep
<1>1. CASE Create(r)
  <2>1. CASE UNCHANGED <<cluster, nextDeployment>>
    BY <1>1, <2>1, ElsewhereStep DEF Create
  <2>2. CASE cluster' = CreatePods(nextDeployment, req[r].region)
             /\ nextDeployment' = nextDeployment + 1
    <3>1. nextDeployment \in DeploymentIds /\ UNCHANGED row
      BY <1>1 DEF Create
    <3>2. \A e \in DeploymentIds :
            /\ e = nextDeployment => cluster'[e].pods = "up"
            /\ e # nextDeployment => cluster'[e] = cluster[e]
      BY <2>2 DEF CreatePods, TypeOK, TablesTypeOK
    <3> QED
      BY <2>2, <3>1, <3>2, NewIdStep DEF MarkedRows
  <2> QED
    BY <1>1, <2>1, <2>2 DEF Create
<1>2. CASE CreateService(r)
  <2>1. UNCHANGED <<row, nextDeployment>>
    BY <1>2 DEF CreateService, OnlyCluster
  <2>2. CASE cluster' = [cluster EXCEPT ![req[r].dep].service = TRUE] \/ cluster' = cluster
    <3>1. cluster \in [DeploymentIds -> Workload]
      BY DEF TypeOK, TablesTypeOK
    <3>2. ASSUME NEW d, cluster' = [cluster EXCEPT ![d].service = TRUE],
                 NEW e \in DeploymentIds
          PROVE  cluster'[e].pods = cluster[e].pods
      BY <3>1, <3>2 DEF Workload
    <3> QED
      BY <2>1, <2>2, <3>2, LedgerKept
  <2>3. CASE cluster' = DeletePods(req[r].dep)
    <3>1. \A e \in DeploymentIds :
            /\ e # req[r].dep => cluster'[e].pods = cluster[e].pods
            /\ cluster[e].pods = "none" => cluster'[e].pods = "none"
      BY <2>3 DEF DeletePods, TypeOK, TablesTypeOK, Workload
    <3> QED
      BY <2>1, <3>1, PodsStep
  <2> QED
    BY <1>2, <2>2, <2>3 DEF CreateService
<1>3. CASE FirstRecord(r)
  <2>1. CASE row' = row
    BY <1>3, <2>1, ElsewhereStep DEF FirstRecord, OnlyRow
  <2>2. CASE row' = CreateDeploymentsRecord(req[r].dep, req[r].rel, TRUE)
    BY <1>3, <2>2, RecordMarks, RowsStep DEF FirstRecord, OnlyRow
  <2> QED
    BY <1>3, <2>1, <2>2 DEF FirstRecord
<1>4. CASE DeployFind(r) \/ FirstRelease(r) \/ FirstRoute(r)
  BY <1>4, ElsewhereStep DEF DeployFind, FirstRelease, FirstRoute, Reads, OnlyApp
<1> QED
  BY <1>1, <1>2, <1>3, <1>4 DEF Deploy

\* A new release: the rows are the goroutines' business.
LEMMA RollStep ==
    ASSUME NEW r \in Requests, CreateNewAppRelease(r) PROVE LedgerStep
  BY ElsewhereStep DEF CreateNewAppRelease, RollCurrent, RollApp, RollRows, RollWait, RollRetire,
     RollPublish, RollVersion, Reads, OnlyRelease, OnlyApp

\* AddOrRemoveRegions inserts rows.
LEMMA RegionsStep ==
    ASSUME TypeOK, DestroyedInv', NEW r \in Requests, AddOrRemoveRegions(r)
    PROVE  LedgerStep
<1>1. CASE AddRecord(r)
  <2>1. CASE row' = row
    BY <1>1, <2>1, ElsewhereStep DEF AddRecord, OnlyRow
  <2>2. CASE row' = CreateDeploymentsRecord(req[r].dep, req[r].rel, TRUE)
    BY <1>1, <2>2, RecordMarks, RowsStep DEF AddRecord, OnlyRow
  <2> QED
    BY <1>1, <2>1, <2>2 DEF AddRecord
<1>2. CASE ~AddRecord(r)
  <2>1. UNCHANGED <<row, cluster, nextDeployment>>
    BY <1>2 DEF AddOrRemoveRegions, RegionsRead, RegionsAdded, RegionsAddOnly, RegionsDeploy,
               AddRelease, AddRoute, RegionsStandby, StandbyDrop, StandbyDone, RegionsDelete,
               RegionsDeleted, RegionsBackup, RegionsWrite, Reads, OnlyApp
  <2> QED
    BY <2>1, ElsewhereStep
<1> QED
  BY <1>1, <1>2

\* UnDeploy deletes one deployment and marks the rows of its id.
LEMMA UndeployStep ==
    ASSUME TypeOK, TypeOK', DestroyedInv, DestroyedInv', NEW r \in Requests, UnDeploy(r)
    PROVE  LedgerStep
<1>1. CASE UndeployFind(r) \/ UndeployRoute(r) \/ UndeployFails(r)
  BY <1>1, ElsewhereStep DEF UndeployFind, UndeployRoute, UndeployFails, Reads, OnlyApp
<1>2. CASE UndeployPods(r) /\ ~UndeployFails(r)
  <2>1. cluster' = DeletePods(DeploymentId(req[r].dep)) /\ UNCHANGED <<row, nextDeployment>>
    BY <1>2 DEF UndeployPods, OnlyCluster
  <2>2. \A e \in DeploymentIds :
          /\ e # DeploymentId(req[r].dep) => cluster'[e].pods = cluster[e].pods
          /\ cluster[e].pods = "none" => cluster'[e].pods = "none"
    BY <2>1 DEF DeletePods, TypeOK, TablesTypeOK, Workload
  <2> QED
    BY <2>1, <2>2, PodsStep
<1>3. CASE UndeployService(r) /\ ~UndeployFails(r)
  <2>1. /\ \E d : cluster' = DeleteService(d, req[r].region)
        /\ UNCHANGED <<row, nextDeployment>>
    BY <1>3 DEF UndeployService, OnlyCluster
  <2>2. \A e \in DeploymentIds : cluster'[e].pods = cluster[e].pods
    BY <2>1 DEF DeleteService, TypeOK, TablesTypeOK, Workload
  <2> QED
    BY <2>1, <2>2, LedgerKept
<1>4. CASE UndeployMark(r)
  <2>1. row' = UpdateDeploymentsRecord("destroyed", DeploymentId(req[r].dep))
        /\ UNCHANGED <<cluster, nextDeployment>>
    BY <1>4 DEF UndeployMark, OnlyRow
  <2>2. MarkedRows \subseteq MarkedRows'
    BY <2>1, UpdateMarks DEF RowStatus
  <2> QED
    BY <2>1, <2>2, RowsStep
<1> QED
  BY <1>1, <1>2, <1>3, <1>4 DEF UnDeploy

\* SuspendResumePods scales only what runs; its mark may take back a "destroyed".
LEMMA ScaleStep ==
    ASSUME TypeOK, TypeOK', DestroyedInv, DestroyedInv', NEW r \in Requests, SuspendResumePods(r)
    PROVE  LedgerStep
<1>1. CASE ScaleFind(r)
  BY <1>1, ElsewhereStep DEF ScaleFind, Reads
<1>2. CASE ScalePods(r)
  <2>1. UNCHANGED <<row, nextDeployment>>
    BY <1>2 DEF ScalePods, OnlyCluster
  <2>2. CASE cluster' = cluster
    BY <2>1, <2>2, ElsewhereStep
  <2>3. CASE \E d, pods : cluster[d].pods # "none" /\ cluster' = [cluster EXCEPT ![d].pods = pods]
    <3>1. PICK d, pods : cluster[d].pods # "none" /\ cluster' = [cluster EXCEPT ![d].pods = pods]
      BY <2>3
    <3>2. \A e \in DeploymentIds : e # d => cluster'[e].pods = cluster[e].pods
      BY <3>1 DEF TypeOK, TablesTypeOK
    <3> QED
      BY <2>1, <3>1, <3>2, PodsStep
  <2> QED
    BY <1>2, <2>2, <2>3 DEF ScalePods
<1>3. CASE ScaleMark(r)
  <2>1. PICK status \in {"suspended", "running"} :
          row' = UpdateDeploymentsRecord(status, DeploymentId(req[r].dep))
    BY <1>3 DEF ScaleMark
  <2>2. MarkedRows' \subseteq MarkedRows
    BY <2>1, UpdateMarks DEF RowStatus
  <2> QED
    BY <1>3, <2>2, RowsStep DEF ScaleMark, OnlyRow
<1> QED
  BY <1>1, <1>2, <1>3 DEF SuspendResumePods

\* UpdateAppStatus, DeleteApp, UpdateConfigApps and UpdateImage: rows are dropped
\* or given to another release.
LEMMA TableStep ==
    ASSUME TypeOK, DestroyedInv', NEW r \in Requests,
           UpdateAppStatus(r) \/ Delete(r) \/ Config(r) \/ Image(r)
    PROVE  LedgerStep
<1>1. CASE DeleteRows(r)
  <2>1. \A d \in DeploymentIds : row'[d].status = "none"
    BY <1>1 DEF DeleteRows, TypeOK, TablesTypeOK, DeploymentRow
  <2> QED
    BY <1>1, <2>1, RowsStep DEF MarkedRows, DeleteRows, OnlyRow
<1>2. CASE ConfigAttach(r)
  <2>1. \A d \in DeploymentIds : row'[d].status = row[d].status
    BY <1>2 DEF ConfigAttach, UpdateDeploymentsReleaseId, TypeOK, TablesTypeOK, DeploymentRow
  <2>2. UNCHANGED <<cluster, nextDeployment>>
    BY <1>2 DEF ConfigAttach, OnlyRow
  <2> QED
    BY <2>1, <2>2, LedgerKept
<1>3. CASE ~(DeleteRows(r) \/ ConfigAttach(r))
  <2>1. UNCHANGED <<row, cluster, nextDeployment>>
    BY <1>3 DEF UpdateAppStatus, StatusRelease, StatusRows, StatusWrite, Delete, DeleteRead,
               DeleteCheck, DeleteRecord, DeleteReleases, Config, ConfigAgain, ConfigRelease,
               ConfigRetire, ConfigLatest, ConfigPublish, ConfigActivate, ConfigVersion, Image,
               ImageRelease, ImageRetire, ImagePublish, ReleaseRead, ReleaseRetire,
               ReleasePublish, Reads, OnlyApp, OnlyRelease
  <2> QED
    BY <2>1, ElsewhereStep
<1> QED
  BY <1>1, <1>2, <1>3

\* The goroutine of a release deletes, marks, creates and records.
LEMMA WorkStep ==
    ASSUME TypeOK, TypeOK', DestroyedInv, DestroyedInv', NEW r \in Requests, NEW d \in DeploymentIds,
           Work(r, d)
    PROVE  LedgerStep
<1>1. CASE WorkerDelete(r, d)
  <2>1. UNCHANGED <<row, nextDeployment>> /\ (cluster' = DeletePods(DeploymentId(d)) \/ cluster' = cluster)
    BY <1>1 DEF WorkerDelete, OnlyCluster
  <2>2. \A e \in DeploymentIds :
          /\ e # DeploymentId(d) => cluster'[e].pods = cluster[e].pods
          /\ cluster[e].pods = "none" => cluster'[e].pods = "none"
    BY <2>1 DEF DeletePods, TypeOK, TablesTypeOK, Workload
  <2> QED
    BY <2>1, <2>2, PodsStep
<1>2. CASE WorkerMark(r, d)
  <2>1. MarkedRows \subseteq MarkedRows'
    BY <1>2, UpdateMarks DEF WorkerMark, RowStatus
  <2> QED
    BY <1>2, <2>1, RowsStep DEF WorkerMark, OnlyRow
<1>3. CASE WorkerCreate(r, d)
  <2>1. nextDeployment \in DeploymentIds /\ UNCHANGED row
    BY <1>3 DEF WorkerCreate
  <2>2. CASE UNCHANGED <<cluster, nextDeployment>>
    BY <2>1, <2>2, ElsewhereStep
  <2>3. CASE cluster' = CreatePods(nextDeployment, cluster[d].region)
             /\ nextDeployment' = nextDeployment + 1
    <3>1. \A e \in DeploymentIds :
            /\ e = nextDeployment => cluster'[e].pods = "up"
            /\ e # nextDeployment => cluster'[e] = cluster[e]
      BY <2>3 DEF CreatePods, TypeOK, TablesTypeOK
    <3> QED
      BY <2>1, <2>3, <3>1, NewIdStep DEF MarkedRows
  <2> QED
    BY <1>3, <2>2, <2>3 DEF WorkerCreate
<1>4. CASE WorkerPanic(r, d)
  BY <1>4, ElsewhereStep DEF WorkerPanic, Halt, tables
<1>5. CASE WorkerRecord(r, d)
  <2>1. CASE UNCHANGED <<row, cluster, nextDeployment>>
    BY <2>1, ElsewhereStep
  <2>2. CASE /\ row' = CreateDeploymentsRecord(worker[r][d].new, req[r].fresh, TRUE)
             /\ UNCHANGED <<cluster, nextDeployment>>
    BY <2>2, RecordMarks, RowsStep
  <2>3. CASE /\ nextDeployment \in DeploymentIds
             /\ row' = CreateDeploymentsRecord(nextDeployment, req[r].fresh, FALSE)
             /\ cluster' = [cluster EXCEPT ![nextDeployment].region = cluster[d].region]
             /\ nextDeployment' = nextDeployment + 1
    <3>1. PICK n \in DeploymentIds : n = nextDeployment
      BY <2>3
    <3>2. cluster[n].pods = "none" /\ row[n].status = "none"
      BY <3>1, LedgerState DEF DestroyedInv, FreshIds
    <3>3. \A e \in DeploymentIds :
            /\ cluster'[e].pods = cluster[e].pods
            /\ row'[e].status = IF e = n THEN "running" ELSE row[e].status
      BY <2>3, <3>1 DEF CreateDeploymentsRecord, TypeOK, TablesTypeOK, Workload
    <3>4. MarkedRows' = MarkedRows
      BY <3>2, <3>3 DEF MarkedRows
    <3> QED
      BY <2>3, <3>1, <3>2, <3>3, <3>4, NewIdStep
  <2> QED
    BY <1>5, <2>1, <2>2, <2>3 DEF WorkerRecord
<1> QED
  BY <1>1, <1>2, <1>3, <1>4, <1>5 DEF Work

\* Nothing is deployed or marked at first.
LEMMA LedgerStarts == Init => Ledger!LedgerInit
<1> SUFFICES ASSUME Init PROVE Ledger!LedgerInit
  OBVIOUS
<1>1. nextDeployment = 1 /\ \A d \in DeploymentIds : row[d].status = "none"
  BY DEF Init, TablesInit, NoDeploymentRow
<1>2. \A d \in DeploymentIds : d >= 1
  BY TablesAssumption DEF DeploymentIds
<1>3. Lives = [d \in DeploymentIds |-> "fresh"]
  BY <1>1, <1>2 DEF Lives, LifeOf
<1>4. MarkedRows = {}
  BY <1>1 DEF MarkedRows
<1> QED
  BY <1>3, <1>4 DEF Ledger!LedgerInit

\* Every step is a step of the ledger.
LEMMA LedgerMoves ==
    TypeOK /\ TypeOK' /\ DestroyedInv /\ DestroyedInv' /\ [Next]_vars => LedgerStep
<1> SUFFICES ASSUME TypeOK, TypeOK', DestroyedInv, DestroyedInv', [Next]_vars
             PROVE  LedgerStep
  OBVIOUS
<1>1. CASE UNCHANGED vars
  BY <1>1, ElsewhereStep DEF vars
<1>2. ASSUME NEW r \in Requests, Mutation(r) PROVE LedgerStep
  <2>1. UNCHANGED <<row, cluster, nextDeployment>>
    BY <1>2 DEF Mutation, DeployImage, ConfigureRegions, MoveApp, PauseApp, ResumeApp,
       UpdateImage, Redeploy, Revert, DeleteApp, Issue, tables
  <2> QED
    BY <2>1, ElsewhereStep
<1>3. ASSUME NEW r \in Requests, Step(r) PROVE LedgerStep
  BY <1>3, DeployStep, RollStep, RegionsStep, UndeployStep, ScaleStep, TableStep DEF Step
<1>4. ASSUME NEW r \in Requests, NEW d \in DeploymentIds, Work(r, d) PROVE LedgerStep
  BY <1>4, WorkStep
<1>5. CASE Crash
  BY <1>5, ElsewhereStep DEF Crash, Halt, tables
<1> QED
  BY <1>1, <1>2, <1>3, <1>4, <1>5 DEF Next, Done

\* Requests and goroutines, in any number and interleaving and with any failure
\* but a deletion refused to a goroutine, implement the ledger: no deployment
\* starts twice or outlives its deletion, and rows are marked after it.
THEOREM LedgerImplemented == "rolldelete" \notin Faults /\ Spec => ImplementsLedger
<1> SUFFICES ASSUME "rolldelete" \notin Faults PROVE Spec => ImplementsLedger
  OBVIOUS
<1>1. TypeOK /\ TypeOK' /\ DestroyedInv /\ DestroyedInv' /\ [Next]_vars
        => [Ledger!LedgerNext]_(Ledger!ledger)
  BY LedgerMoves DEF LedgerStep
<1> QED
  BY <1>1, LedgerStarts, TypeCorrect, DestroyedInvariant, PTL
  DEF Spec, ImplementsLedger, Ledger!LedgerSpec
=============================================================================
