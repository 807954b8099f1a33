--------------------------- MODULE AppRegionProofs ---------------------------
(***************************************************************************)
(* Requests one after the other: a region has at most one live deployment,  *)
(* and the regions listed are those deployed to.  First, what a step must   *)
(* keep of the rows of a region; then every step.                           *)
(***************************************************************************)
EXTENDS AppSequenceProofs, FiniteSetTheorems

-----------------------------------------------------------------------------
(***************************************************************************)
(* The live rows of a region                                               *)
(***************************************************************************)
\* Any two live rows of a region are the same.
OneEach == \A d, e \in Live : cluster[d].region = cluster[e].region => d = e

\* A set of deployments has at most one element when any two are equal.
LEMMA AtMostOne ==
    ASSUME NEW S, S \subseteq DeploymentIds
    PROVE  Cardinality(S) <= 1 <=> \A d, e \in S : d = e
<1>1. IsFiniteSet(S) /\ Cardinality(S) \in Nat
  <2>1. IsFiniteSet(DeploymentIds)
    BY FS_Interval, TablesAssumption DEF DeploymentIds
  <2> QED
    BY <2>1, FS_Subset, FS_CardinalityType
<1>2. ASSUME Cardinality(S) <= 1 PROVE \A d, e \in S : d = e
  <2>1. CASE Cardinality(S) = 0
    BY <1>1, <2>1, FS_EmptySet
  <2>2. CASE Cardinality(S) = 1
    BY <1>1, <2>2, FS_Singleton
  <2> QED
    BY <1>1, <1>2, <2>1, <2>2
<1>3. ASSUME \A d, e \in S : d = e PROVE Cardinality(S) <= 1
  <2>1. CASE S = {}
    BY <2>1, FS_EmptySet
  <2>2. ASSUME NEW d \in S PROVE Cardinality(S) <= 1
    <3>1. S = {d}
      BY <1>3
    <3> QED
      BY <3>1, FS_Singleton
  <2> QED
    BY <2>1, <2>2
<1> QED
  BY <1>2, <1>3

\* The number of live rows of a region, and what two of them have in common.
LEMMA OneEachCounts == OneEach => OneDeploymentPerRegion
<1> SUFFICES ASSUME OneEach, NEW g \in Regions PROVE Cardinality(LiveIn(g)) <= 1
  BY DEF OneDeploymentPerRegion
<1>1. LiveIn(g) \subseteq DeploymentIds
  BY DEF LiveIn, Live, Rows
<1>2. \A d, e \in LiveIn(g) : d = e
  BY DEF OneEach, LiveIn
<1> QED
  BY <1>1, <1>2, AtMostOne

\* and back.
LEMMA CountsOneEach == TypeOK /\ OneDeploymentPerRegion => OneEach
<1> SUFFICES ASSUME TypeOK, OneDeploymentPerRegion, NEW d \in Live, NEW e \in Live,
                    cluster[d].region = cluster[e].region
             PROVE  d = e
  BY DEF OneEach
<1>1. PICK g \in Regions : g = cluster[d].region
  BY DEF TypeOK, TablesTypeOK, Workload, Live, Rows
<1>2. LiveIn(g) \subseteq DeploymentIds /\ d \in LiveIn(g) /\ e \in LiveIn(g)
  BY <1>1 DEF LiveIn, Live, Rows
<1> QED
  BY <1>2, AtMostOne DEF OneDeploymentPerRegion

-----------------------------------------------------------------------------
(***************************************************************************)
(* RegionInv, step by step                                                 *)
(***************************************************************************)
\* A step of the only request,
LEMMA ActRegion ==
    ASSUME Alone, TypeOK, NEW r \in Requests, NEW n, Become(r, n), RegionKnows(n)', OneEach',
           \A d \in Rows' : row'[d].status # "suspended",
           \A d \in DeploymentIds : PlaceKnows(r, d)'
    PROVE  RegionInv'
<1>1. req'[r] = n /\ \A s \in Requests : s = r
  BY DEF Become, TypeOK, Alone
<1>2. OneDeploymentPerRegion'
  BY OneEachCounts, PTL
<1> QED
  BY <1>1, <1>2 DEF RegionInv

\* one for which nobody works,
LEMMA SoleRegion ==
    ASSUME Alone, TypeOK, SequenceInv, NEW r \in Requests, req[r].pc # "roll.wait",
           UNCHANGED worker, NEW n, Become(r, n), RegionKnows(n)', OneEach',
           \A d \in Rows' : row'[d].status # "suspended"
    PROVE  RegionInv'
<1>1. \A d \in DeploymentIds : worker'[r][d].stage = "off"
  BY NobodyWorks
<1>2. \A d \in DeploymentIds : PlaceKnows(r, d)'
  BY <1>1 DEF PlaceKnows
<1> QED
  BY <1>2, ActRegion

\* one that only takes rows away,
LEMMA LessRegion ==
    ASSUME Alone, TypeOK, SequenceInv, RegionInv, NEW r \in Requests, req[r].pc # "roll.wait",
           UNCHANGED worker, NEW n, Become(r, n), n.pc \notin Watched,
           \A d \in Rows' : d \in Rows /\ row'[d].status \in {row[d].status, "destroyed"},
           \A d \in DeploymentIds : cluster'[d].region = cluster[d].region
    PROVE  RegionInv'
<1>1. OneEach
  BY CountsOneEach DEF RegionInv
<1>2. \A d \in Rows' : row'[d].status # "suspended"
  BY DEF RegionInv
<1>3. \A d \in Live' : d \in Live /\ cluster'[d].region = cluster[d].region
  BY DEF Live, Rows
<1>4. OneEach'
  BY <1>1, <1>3 DEF OneEach
<1>5. RegionKnows(n)'
  BY DEF RegionKnows, Watched
<1> QED
  BY <1>2, <1>4, <1>5, SoleRegion

\* and one that changes neither a status nor a deployment.
LEMMA CalmRegion ==
    ASSUME Alone, TypeOK, RegionInv, NEW r \in Requests, NEW n, Become(r, n), Lasting,
           RegionKnows(n)'
    PROVE  RegionInv'
<1>1. Rows' = Rows /\ Live' = Live
  BY DEF Lasting, SameRows, Rows, Live
<1>2. \A d \in Rows' : row'[d].status # "suspended"
  BY <1>1 DEF RegionInv, Lasting, SameRows, Rows
<1>3. OneEach'
  BY <1>1, CountsOneEach DEF RegionInv, OneEach, Lasting
<1>4. \A d \in DeploymentIds : PlaceKnows(r, d)'
  BY <1>1 DEF RegionInv, PlaceKnows, Lasting, LiveIn
<1> QED
  BY <1>2, <1>3, <1>4, ActRegion

\* A region without a running row has no live row at all.
LEMMA NoneLive ==
    ASSUME RegionInv, NEW g, \A d \in Rows : ~(cluster[d].region = g /\ row[d].status = "running")
    PROVE  LiveIn(g) = {}
  BY DEF RegionInv, LiveIn, Live

\* Deploy and AddOrRemoveRegions call Deployment for a region without a live row.
LEMMA CallRegion ==
    ASSUME Alone, TypeOK, SequenceInv, RegionInv, NEW r \in Requests,
           DeployFind(r) \/ RegionsDeploy(r) \/ RegionsBackup(r)
    PROVE  RegionInv'
<1> DEFINE q == req[r]
<1>1. q \in Request /\ Lasting
  BY LastingSteps DEF DeployFind, RegionsDeploy, RegionsBackup, TypeOK
<1>3. \A g : LiveIn(g)' = LiveIn(g)
  BY <1>1 DEF Lasting, SameRows, LiveIn, Live, Rows
<1>4. ASSUME NEW n, Become(r, n), n.pc \notin Watched PROVE RegionInv'
  <2>1. RegionKnows(n)'
    BY <1>4 DEF RegionKnows, Watched
  <2> QED
    BY <1>1, <1>4, <2>1, CalmRegion
<1>5. ASSUME NEW n, Become(r, n), n.pc = "create",
             Head(n.ret) \in Recorders => LiveIn(n.region) = {}
      PROVE  RegionInv'
  <2>1. RegionKnows(n)'
    BY <1>3, <1>5 DEF RegionKnows, Unrecorded
  <2> QED
    BY <1>1, <1>5, <2>1, CalmRegion
<1>6. CASE End(r)
  <2>1. Idle.pc \notin Watched
    BY DEF Idle, Watched, Unrecorded
  <2> QED
    BY <1>4, <1>6, <2>1 DEF End
<1>7. CASE DeployFind(r)
  <2>1. PICK n : /\ Become(r, n)
                 /\ \/ n.pc = "roll.current"
                    \/ /\ n.pc = "create"
                       /\ Alike([q EXCEPT !.region = Primary], n)
                       /\ \A d \in Rows : ~(cluster[d].region = Primary /\ row[d].status = "running")
    BY <1>7, DeployFindDoes
  <2>2. CASE n.pc = "roll.current"
    BY <1>4, <2>1, <2>2 DEF Watched, Unrecorded
  <2>3. CASE n.pc = "create"
    <3>1. n.region = Primary /\ LiveIn(Primary) = {}
      BY <1>1, <2>1, <2>3, NoneLive DEF Alike, Request
    <3> QED
      BY <1>5, <2>1, <2>3, <3>1
  <2> QED
    BY <2>1, <2>2, <2>3
<1>8. CASE RegionsDeploy(r)
  <2>1. SUFFICES ASSUME ~End(r) PROVE RegionInv'
    BY <1>6
  <2>2. PICK g \in q.adds : \E n :
            /\ Become(r, n) /\ n.pc = "create"
            /\ Alike([q EXCEPT !.adds = q.adds \ {g}, !.regions = q.regions \cup {g},
                               !.region = g], n)
            /\ \A d \in Rows : ~(cluster[d].region = g /\ row[d].status = "running")
    BY <1>8, <2>1, RegionsDeployDoes
  <2>5. PICK n : /\ Become(r, n) /\ n.pc = "create"
                 /\ Alike([q EXCEPT !.adds = q.adds \ {g}, !.regions = q.regions \cup {g},
                                    !.region = g], n)
    BY <2>2
  <2>3. n.region = g
    BY <1>1, <2>5 DEF Alike, Request
  <2>4. LiveIn(g) = {}
    BY <2>2, NoneLive
  <2> QED
    BY <1>5, <2>3, <2>4, <2>5
<1>9. CASE RegionsBackup(r)
  <2>1. SUFFICES ASSUME ~End(r) PROVE RegionInv'
    BY <1>6
  <2>2. PICK n : /\ Become(r, n)
                 /\ n.pc = "regions.backup" \/ (n.pc = "create" /\ Head(n.ret) = "regions.backup")
    BY <1>9, <2>1, RegionsBackupDoes
  <2> QED
    BY <1>4, <1>5, <2>2 DEF Watched, Unrecorded, Recorders
<1> QED
  BY <1>7, <1>8, <1>9

\* A row inserted where there was none,
LEMMA InsertRegion ==
    ASSUME TypeOK, OneEach, NEW d \in DeploymentIds, row[d].status = "none",
           row'[d].status = "running", LiveIn(cluster'[d].region) = {},
           \A e \in Rows : e # d => row'[e] = row[e] /\ cluster'[e].region = cluster[e].region,
           \A e \in Rows' : e = d \/ e \in Rows
    PROVE  /\ OneEach'
           /\ \A g : LiveIn(g)' \subseteq LiveIn(g) \cup (IF g = cluster'[d].region THEN {d} ELSE {})
<1>1. \A e \in Live' : e = d \/ (e \in Live /\ e # d /\ cluster'[e].region = cluster[e].region)
  BY DEF Live, Rows
<1>2. \A e \in Live : cluster[e].region # cluster'[d].region
  BY DEF LiveIn
<1>3. OneEach'
  BY <1>1, <1>2 DEF OneEach
<1>4. \A g : LiveIn(g)' \subseteq LiveIn(g) \cup (IF g = cluster'[d].region THEN {d} ELSE {})
  BY <1>1 DEF LiveIn
<1> QED
  BY <1>3, <1>4

\* and it is inserted in the region that was found without one.
LEMMA DeployRegion ==
    ASSUME Alone, TypeOK, SequenceInv, RegionInv, NEW r \in Requests,
           Create(r) \/ CreateService(r) \/ FirstRelease(r) \/ FirstRecord(r)
             \/ AddRelease(r) \/ AddRecord(r)
    PROVE  RegionInv'
<1> DEFINE q == req[r]
<1>1. q \in Request /\ RowKnows(q) /\ RegionKnows(q)
  BY DEF TypeOK, SequenceInv, RegionInv
<1>2. q.pc \in {"create"} \cup Unrecorded /\ q.pc # "roll.wait" /\ q.pc \notin Marking
  BY DEF Create, CreateService, FirstRelease, FirstRecord, AddRelease, AddRecord, At,
     Unrecorded, Marking
<1>3. q.pc # "create" => q.dep \in DeploymentIds /\ row[q.dep].status = "none"
  BY <1>1, <1>2 DEF RowKnows
<1>4. OneEach
  BY CountsOneEach DEF RegionInv
<1>5. Idle.pc \notin Watched /\ "regions.read" \notin Watched /\ "add.route" \notin Watched
  BY DEF Idle, Watched, Unrecorded
<1>6. ASSUME NEW n, Become(r, n), UNCHANGED <<row, worker>>, RegionKnows(n)',
             \A d \in Rows : cluster'[d].region = cluster[d].region
      PROVE  RegionInv'
  <2>1. Live' = Live /\ Rows' = Rows
    BY <1>6 DEF Live, Rows
  <2>2. OneEach' /\ \A d \in Rows' : row'[d].status # "suspended"
    BY <1>4, <1>6, <2>1 DEF OneEach, Live, RegionInv
  <2> QED
    BY <1>2, <1>6, <2>2, SoleRegion
<1>7. ASSUME NEW n, Become(r, n), UNCHANGED <<row, worker>>, n.pc \notin Watched,
             \A d \in Rows : cluster'[d].region = cluster[d].region
      PROVE  RegionInv'
  <2>1. RegionKnows(n)'
    BY <1>7 DEF RegionKnows, Watched
  <2> QED
    BY <1>6, <1>7, <2>1
<1>8. ASSUME NEW n, Become(r, n), n.pc \notin Watched, UNCHANGED <<cluster, worker>>,
             q.pc \in {"first.record", "add.record"},
             row' = CreateDeploymentsRecord(q.dep, q.rel, TRUE)
      PROVE  RegionInv'
  <2>1. LiveIn(cluster[q.dep].region) = {}
    BY <1>1, <1>8 DEF RegionKnows, Unrecorded
  <2>2. /\ \A e \in DeploymentIds : e # q.dep => row'[e] = row[e]
        /\ row'[q.dep].status = "running" /\ q.dep \in DeploymentIds /\ row[q.dep].status = "none"
    BY <1>3, <1>8, RecordKeeps
  <2>3. OneEach'
    BY <1>4, <1>8, <2>1, <2>2, InsertRegion DEF Rows
  <2>4. \A d \in Rows' : row'[d].status # "suspended"
    BY <2>2 DEF Rows, RegionInv
  <2>5. RegionKnows(n)'
    BY <1>8 DEF RegionKnows, Watched
  <2> QED
    BY <1>2, <1>8, <2>3, <2>4, <2>5, SoleRegion
<1>9. CASE Create(r)
  <2>1. UNCHANGED <<row, worker>> /\ q.pc = "create" /\ nextDeployment \in DeploymentIds
    BY <1>9, CreateDoes DEF Create, At
  <2>2. nextDeployment \notin Rows
    BY <2>1, IdsAreNat DEF SequenceInv, Rows
  <2>3. cluster' = cluster \/ cluster' = CreatePods(nextDeployment, q.region)
    BY <1>9 DEF Create
  <2>4. \A d \in Rows : cluster'[d] = cluster[d]
    BY <2>2, <2>3 DEF CreatePods, TypeOK, TablesTypeOK, Rows
  <2>5. CASE End(r)
    BY <1>5, <1>7, <2>1, <2>4, <2>5 DEF End
  <2>6. CASE ~End(r)
    <3>1. /\ cluster' = CreatePods(nextDeployment, q.region)
          /\ \E n : /\ Become(r, n) /\ Alike([q EXCEPT !.dep = nextDeployment], n)
                    /\ \/ n.pc = "service" /\ n.ret = q.ret
                       \/ n.pc = Head(q.ret) /\ n.pc \in DeployCallers(n.kind)
      BY <1>9, <2>6, CreateDoes
    <3>2. PICK n : /\ Become(r, n) /\ Alike([q EXCEPT !.dep = nextDeployment], n)
                   /\ \/ n.pc = "service" /\ n.ret = q.ret
                      \/ n.pc = Head(q.ret) /\ n.pc \in DeployCallers(n.kind)
      BY <3>1
    <3>3. n.dep = nextDeployment
      BY <1>1, <3>2 DEF Alike, Request
    <3>4. cluster'[n.dep].region = q.region
      BY <2>1, <3>1, <3>3 DEF CreatePods, TypeOK, TablesTypeOK
    <3>5. Head(q.ret) \in Recorders => LiveIn(q.region) = {}
      BY <1>1, <2>1 DEF RegionKnows
    <3>6. \A g : LiveIn(g)' = LiveIn(g)
      BY <2>1, <2>4 DEF LiveIn, Live, Rows
    <3>7. n.pc \in {"service", "first.release", "add.release", "regions.backup"}
      BY <3>2 DEF DeployCallers
    <3>8. n.pc \in Unrecorded /\ (n.pc = "service" => Head(n.ret) \in Recorders)
            => Head(q.ret) \in Recorders
      BY <3>2, <3>7 DEF Unrecorded, Recorders, DeployCallers
    <3>9. RegionKnows(n)'
      BY <3>4, <3>5, <3>6, <3>7, <3>8 DEF RegionKnows
    <3> QED
      BY <1>6, <2>1, <2>4, <3>2, <3>9
  <2> QED
    BY <2>5, <2>6
<1>10. CASE CreateService(r)
  <2>1. UNCHANGED <<row, worker>> /\ q.pc = "service" /\ q.dep \in DeploymentIds
    BY <1>3, <1>10, ServiceDoes DEF CreateService, At
  <2>2. \/ cluster' = cluster \/ cluster' = [cluster EXCEPT ![q.dep].service = TRUE]
        \/ cluster' = DeletePods(q.dep)
    BY <1>10 DEF CreateService
  <2>3. \A d \in DeploymentIds : cluster'[d].region = cluster[d].region
    <3>1. \A d \in DeploymentIds : cluster[d] \in Workload
      BY DEF TypeOK, TablesTypeOK
    <3>2. CASE cluster' = [cluster EXCEPT ![q.dep].service = TRUE]
      BY <2>1, <3>1, <3>2 DEF TypeOK, TablesTypeOK, Workload
    <3>3. CASE cluster' = DeletePods(q.dep)
      BY <3>1, <3>3 DEF DeletePods, Workload
    <3> QED
      BY <2>2, <3>2, <3>3
  <2>4. \A d \in Rows : cluster'[d].region = cluster[d].region
    BY <2>3 DEF Rows
  <2>5. CASE End(r)
    BY <1>5, <1>7, <2>1, <2>4, <2>5 DEF End
  <2>6. CASE ~End(r)
    <3>1. PICK n : /\ Become(r, n) /\ Alike(q, n) /\ n.pc = Head(q.ret)
                   /\ n.pc \in DeployCallers(n.kind)
      BY <1>10, <2>6, ServiceDoes
    <3>2. n.dep = q.dep /\ n.pc \in {"first.release", "add.release", "regions.backup"}
      BY <3>1 DEF Alike, DeployCallers
    <3>3. Head(q.ret) \in Recorders => LiveIn(cluster[q.dep].region) = {}
      BY <1>1, <2>1 DEF RegionKnows, Unrecorded
    <3>4. \A g : LiveIn(g)' = LiveIn(g)
      BY <2>1, <2>4 DEF LiveIn, Live, Rows
    <3>5. cluster'[n.dep].region = cluster[q.dep].region
      BY <2>1, <2>3, <3>2
    <3>6. n.pc \in Unrecorded => n.pc \in Recorders
      BY <3>2 DEF Unrecorded, Recorders
    <3>7. RegionKnows(n)'
      BY <3>1, <3>2, <3>3, <3>4, <3>5, <3>6 DEF RegionKnows
    <3> QED
      BY <1>6, <2>1, <2>4, <3>1, <3>7
  <2> QED
    BY <2>5, <2>6
<1>11. CASE FirstRelease(r) \/ AddRelease(r)
  <2>1. UNCHANGED <<row, worker, cluster>> /\ q.pc \in {"first.release", "add.release"}
    BY <1>11, FirstReleaseDoes, AddReleaseDoes DEF FirstRelease, AddRelease, At, Reads
  <2>2. CASE End(r)
    BY <1>5, <1>7, <2>1, <2>2 DEF End
  <2>3. CASE ~End(r)
    <3>1. PICK n : Become(r, n) /\ Alike(q, n) /\ n.pc \in {"first.record", "add.record"}
      BY <1>11, <2>3, FirstReleaseDoes, AddReleaseDoes
    <3>2. n.dep = q.dep
      BY <3>1 DEF Alike
    <3>3. LiveIn(cluster[q.dep].region) = {}
      BY <1>1, <2>1 DEF RegionKnows, Unrecorded
    <3>4. \A g : LiveIn(g)' = LiveIn(g)
      BY <2>1 DEF LiveIn, Live, Rows
    <3>5. RegionKnows(n)'
      BY <2>1, <3>1, <3>2, <3>3, <3>4 DEF RegionKnows
    <3> QED
      BY <1>6, <2>1, <3>1, <3>5
  <2> QED
    BY <2>2, <2>3
<1>12. CASE FirstRecord(r) \/ AddRecord(r)
  <2>1. UNCHANGED <<cluster, worker>> /\ q.pc \in {"first.record", "add.record"}
    BY <1>12, FirstRecordDoes, AddRecordDoes DEF FirstRecord, AddRecord, At
  <2>2. CASE End(r) /\ UNCHANGED row
    BY <1>5, <1>7, <2>1, <2>2 DEF End
  <2>3. CASE ~(End(r) /\ UNCHANGED row)
    <3>1. row' = CreateDeploymentsRecord(q.dep, q.rel, TRUE)
      BY <1>12, <2>3, FirstRecordDoes, AddRecordDoes
    <3>2. PICK n : Become(r, n) /\ n.pc \in {"regions.read", "add.route"}
      BY <1>12, <2>3, FirstRecordDoes, AddRecordDoes
    <3> QED
      BY <1>5, <1>8, <2>1, <3>1, <3>2
  <2> QED
    BY <2>2, <2>3
<1> QED
  BY <1>9, <1>10, <1>11, <1>12

\* UnDeploy, SuspendResumePods and DeleteApp only take rows away: without a
\* suspended row there is nothing to scale.
LEMMA UndeployRegion ==
    ASSUME Alone, TypeOK, SequenceInv, RegionInv, NEW r \in Requests,
           UndeployPods(r) \/ UndeployService(r) \/ UndeployMark(r)
    PROVE  RegionInv'
<1> DEFINE q == req[r]
<1>1. q.pc \in Undeploying /\ q.pc # "roll.wait" /\ UNCHANGED worker /\ Shaped(q)
  BY DEF UndeployPods, UndeployService, UndeployMark, UndeployFails, At, Undeploying, Reads, Same,
     TypeOK, Shaped
<1>2. PICK back : back = Return(q)
  OBVIOUS
<1>3. back.pc \notin Watched
  <2>1. back.pc \in {"standby.drop", "regions.del", "regions.read"}
    BY <1>1, <1>2, UndeployReturns
  <2> QED
    BY <2>1 DEF Watched, Unrecorded
<1>4. \A label \in {"undeploy.service", "undeploy.mark"} : Goto(q, label).pc \notin Watched
  BY <1>1, GotoFields DEF Watched, Unrecorded
<1>5. Idle.pc \notin Watched
  BY DEF Idle, Watched, Unrecorded
<1>6. \E n : Become(r, n) /\ n.pc \notin Watched
  BY <1>2, <1>3, <1>4, <1>5 DEF UndeployPods, UndeployService, UndeployMark, UndeployFails
<1>7. \A d \in DeploymentIds : cluster'[d].region = cluster[d].region
  <2>1. \A d \in DeploymentIds : cluster[d] \in Workload
    BY DEF TypeOK, TablesTypeOK
  <2>2. \/ cluster' = cluster \/ cluster' = DeletePods(DeploymentId(q.dep))
        \/ \E d : cluster' = DeleteService(d, q.region)
    BY DEF UndeployPods, UndeployService, UndeployMark, UndeployFails, Reads, OnlyRow
  <2>3. CASE cluster' = DeletePods(DeploymentId(q.dep))
    BY <2>1, <2>3 DEF DeletePods, Workload
  <2>4. ASSUME NEW d, cluster' = DeleteService(d, q.region)
        PROVE  \A e \in DeploymentIds : cluster'[e].region = cluster[e].region
    BY <2>1, <2>4 DEF DeleteService, Workload
  <2> QED
    BY <2>2, <2>3, <2>4
<1>8. row' = row \/ row' = UpdateDeploymentsRecord("destroyed", DeploymentId(q.dep))
  BY DEF UndeployPods, UndeployService, UndeployMark, UndeployFails, Reads, OnlyCluster
<1>9. \A d \in Rows' : d \in Rows /\ row'[d].status \in {row[d].status, "destroyed"}
  BY <1>8, MarkKeeps DEF Rows
<1> QED
  BY <1>1, <1>6, <1>7, <1>9, LessRegion

\* SuspendResumePods only resumes, and no row is suspended.
LEMMA ScaleRegion ==
    ASSUME Alone, TypeOK, SequenceInv, RegionInv, NEW r \in Requests, SuspendResumePods(r)
    PROVE  RegionInv'
<1> DEFINE q == req[r]
<1>1. q \in Request /\ RowKnows(q) /\ RegionKnows(q)
  BY DEF TypeOK, SequenceInv, RegionInv
<1>2. q.from = "suspended"
  BY <1>1 DEF RegionKnows, SuspendResumePods, ScaleFind, ScalePods, ScaleMark, At
<1>3. \A d \in DeploymentIds : row[d].status # "suspended"
  BY DEF RegionInv, Rows
<1>4. CASE ScaleFind(r)
  <2>1. PICK d : Become(r, [q EXCEPT !.pc = "scale.pods", !.dep = d])
    BY <1>4 DEF ScaleFind
  <2>2. PICK n : n = [q EXCEPT !.pc = "scale.pods", !.dep = d]
    OBVIOUS
  <2>3. n.pc = "scale.pods" /\ n.from = "suspended" /\ Become(r, n)
    BY <1>1, <1>2, <2>1, <2>2 DEF Request
  <2>4. Lasting
    BY <1>4, LastingSteps DEF ScaleFind
  <2>5. RegionKnows(n)'
    BY <2>3 DEF RegionKnows, Unrecorded
  <2> QED
    BY <2>3, <2>4, <2>5, CalmRegion
<1>5. CASE ScalePods(r)
  <2>1. q.dep = NoDeployment
    BY <1>1, <1>2, <1>3, <1>5 DEF RowKnows, ScalePods, At, Request
  <2>2. End(r) /\ Lasting
    BY <1>5, <2>1 DEF ScalePods, DeploymentId, OnlyCluster, Same, Lasting, SameRows
  <2>3. RegionKnows(Idle)'
    BY DEF RegionKnows, Idle, Unrecorded
  <2> QED
    BY <2>2, <2>3, CalmRegion DEF End
<1>6. ~ScaleMark(r)
  BY <1>1, <1>2, <1>3 DEF ScaleMark, At, RowKnows, Request
<1> QED
  BY <1>4, <1>5, <1>6 DEF SuspendResumePods

\* Every step of a request.
LEMMA StepRegion ==
    ASSUME Alone, TypeOK, SequenceInv, RegionInv, NEW r \in Requests, Step(r)
    PROVE  RegionInv'
<1> DEFINE q == req[r]
<1>1. q \in Request
  BY DEF TypeOK
<1>2. CASE Bookkeeping(r)
  <2>1. PICK n : Become(r, n) /\ n.pc \notin Watched
    BY <1>2, BookkeepingHarmless DEF Harmless
  <2>2. RegionKnows(n)'
    BY <2>1 DEF RegionKnows, Watched
  <2> QED
    BY <1>2, <2>1, <2>2, BookkeepingHarmless, CalmRegion DEF Harmless
<1>3. CASE RollRows(r)
  <2>1. PICK n : n = [q EXCEPT !.pc = "roll.wait", !.fresh = nextRelease]
    OBVIOUS
  <2>2. n.pc = "roll.wait" /\ Become(r, n) /\ UNCHANGED <<row, cluster>>
    BY <1>1, <1>3, <2>1 DEF RollRows, Request
  <2>3. \A d \in DeploymentIds :
          /\ worker'[r][d].stage \in {"off", "delete"}
          /\ worker'[r][d].stage # "off" => d \in GetDeploymentsByReleaseId(q.rel)
    BY <1>3 DEF RollRows, NoWorker, TypeOK
  <2>4. \A d \in Rows : row[d].status \in {"running", "destroyed"}
    BY DEF RegionInv, TypeOK, TablesTypeOK, DeploymentRow, RowStatus, Rows
  <2>5. GetDeploymentsByReleaseId(q.rel) \subseteq Live
    BY <2>4 DEF GetDeploymentsByReleaseId, Live
  <2>6. OneEach
    BY CountsOneEach DEF RegionInv
  <2>7. Live' = Live /\ Rows' = Rows
    BY <2>2 DEF Live, Rows
  <2>8. \A d \in DeploymentIds : PlaceKnows(r, d)'
    BY <2>2, <2>3, <2>5, <2>6, <2>7 DEF PlaceKnows, LiveIn, OneEach
  <2>9. OneEach' /\ \A d \in Rows' : row'[d].status # "suspended"
    BY <2>2, <2>6, <2>7 DEF OneEach, RegionInv
  <2>10. RegionKnows(n)'
    BY <2>2 DEF RegionKnows, Unrecorded
  <2> QED
    BY <2>2, <2>8, <2>9, <2>10, ActRegion
<1>4. CASE DeleteRows(r)
  <2>1. q.pc = "delete.rows" /\ q.pc # "roll.wait" /\ UNCHANGED <<cluster, worker>>
    BY <1>4 DEF DeleteRows, At, Same, OnlyRow
  <2>2. PICK n : n = Goto(q, "delete.releases")
    OBVIOUS
  <2>3. n.pc \notin Watched /\ Become(r, n)
    BY <1>1, <1>4, <2>2 DEF DeleteRows, Goto, Request, Watched, Unrecorded
  <2>4. Rows' = {}
    BY <1>4 DEF DeleteRows, Rows, TypeOK, TablesTypeOK, DeploymentRow
  <2> QED
    BY <2>1, <2>3, <2>4, LessRegion
<1> QED
  BY <1>2, <1>3, <1>4, OtherSteps, CallRegion, DeployRegion, UndeployRegion, ScaleRegion

\* A goroutine inserts its row in the region it has emptied.
LEMMA WorkRegion ==
    ASSUME Alone, TypeOK, SequenceInv, RegionInv,
           NEW r \in Requests, NEW d \in DeploymentIds, Work(r, d)
    PROVE  RegionInv'
<1> DEFINE w == worker[r][d]
<1>1. w.stage # "off"
  BY DEF Work, WorkerDelete, WorkerMark, WorkerCreate, WorkerPanic, WorkerRecord
<1>2. req[r].pc = "roll.wait" /\ req[r].seen # Gone /\ d \in Rows
  BY <1>1 DEF SequenceInv, ReplacerKnows, RowKnows, At
<1>3. ~WorkerPanic(r, d)
  BY <1>2 DEF WorkerPanic
<1>4. \A s \in Requests : s = r
  BY DEF Alone
<1>5. \A e \in DeploymentIds : PlaceKnows(r, e) /\ ReplacerKnows(r, e) /\ worker[r][e] \in Worker
  BY DEF RegionInv, SequenceInv, TypeOK
<1>6. \A x : Stage(r, d, x) => /\ worker'[r][d] = x
                               /\ \A e \in DeploymentIds : e # d => worker'[r][e] = worker[r][e]
  BY DEF Stage, TypeOK
<1>7. OneEach
  BY CountsOneEach DEF RegionInv
<1>8. \A e \in DeploymentIds : e >= nextDeployment => e \notin Rows
  BY DEF SequenceInv, Rows
<1>9. ASSUME UNCHANGED req, OneEach', \A e \in Rows' : row'[e].status # "suspended",
             \A e \in DeploymentIds : PlaceKnows(r, e)'
      PROVE  RegionInv'
  <2>1. RegionKnows(req[r])'
    BY <1>2, <1>9 DEF RegionKnows, Unrecorded
  <2>2. OneDeploymentPerRegion'
    BY <1>9, OneEachCounts, PTL
  <2> QED
    BY <1>4, <1>9, <2>1, <2>2 DEF RegionInv
<1>10. CASE WorkerDelete(r, d) \/ WorkerMark(r, d)
  <2>1. PICK x : x = [w EXCEPT !.stage = IF w.stage = "delete" THEN "mark" ELSE "create"]
    OBVIOUS
  <2>2. x.stage \in {"mark", "create"} /\ Stage(r, d, x) /\ UNCHANGED req
    BY <1>5, <1>10, <2>1 DEF WorkerDelete, WorkerMark, Worker
  <2>3. /\ cluster' = cluster \/ cluster' = DeletePods(DeploymentId(d))
        /\ row' = row \/ row' = UpdateDeploymentsRecord("destroyed", DeploymentId(d))
    BY <1>10 DEF WorkerDelete, WorkerMark, OnlyCluster, OnlyRow
  <2>4. \A e \in DeploymentIds : cluster'[e].region = cluster[e].region
    BY <2>3 DEF DeletePods, TypeOK, TablesTypeOK, Workload
  <2>5. \A e \in Rows' : e \in Rows /\ row'[e].status \in {row[e].status, "destroyed"}
    BY <2>3, MarkKeeps DEF Rows
  <2>6. Live' \subseteq Live /\ \A e \in Rows' : row'[e].status # "suspended"
    BY <2>5 DEF Live, RegionInv
  <2>7. OneEach'
    BY <1>7, <2>4, <2>6 DEF OneEach, Live, Rows
  <2>8. ASSUME NEW e \in DeploymentIds PROVE PlaceKnows(r, e)'
    <3>1. \A g : LiveIn(g)' \subseteq LiveIn(g)
      BY <2>4, <2>6 DEF LiveIn, Live, Rows
    <3>2. \A a \in DeploymentIds : worker'[r][a].stage # "off" => worker[r][a].stage # "off"
      BY <1>1, <1>6, <2>2
    <3>3. worker'[r][e].stage = "record" => worker'[r][e] = worker[r][e]
      BY <1>6, <2>2
    <3> QED
      BY <1>5, <2>4, <3>1, <3>2, <3>3 DEF PlaceKnows, Worker
  <2> QED
    BY <1>9, <2>2, <2>6, <2>7, <2>8
<1>11. CASE WorkerCreate(r, d)
  <2>1. /\ UNCHANGED <<req, row>> /\ nextDeployment \in DeploymentIds
        /\ cluster' = cluster \/ cluster' = CreatePods(nextDeployment, cluster[d].region)
    BY <1>11 DEF WorkerCreate
  <2>2. PICK x : /\ Stage(r, d, x) /\ x.stage = "record"
                 /\ \/ x.new = NoDeployment
                    \/ /\ x.new = nextDeployment
                       /\ cluster' = CreatePods(nextDeployment, cluster[d].region)
    BY <1>11 DEF WorkerCreate
  <2>3. /\ \A e \in DeploymentIds : e # nextDeployment => cluster'[e] = cluster[e]
        /\ x.new # NoDeployment => cluster'[x.new].region = cluster[d].region
    BY <2>1, <2>2 DEF CreatePods, TypeOK, TablesTypeOK
  <2>4. nextDeployment \notin Rows
    BY <1>8, <2>1, IdsAreNat
  <2>5. Live' = Live /\ Rows' = Rows /\ \A e \in Rows : cluster'[e] = cluster[e]
    BY <2>1, <2>3, <2>4 DEF Live, Rows
  <2>6. OneEach' /\ \A e \in Rows' : row'[e].status # "suspended"
    BY <1>7, <2>1, <2>5 DEF OneEach, Live, RegionInv
  <2>7. ASSUME NEW e \in DeploymentIds, worker'[r][e].stage # "off" PROVE PlaceKnows(r, e)'
    <3>1. \A a \in DeploymentIds : worker'[r][a].stage # "off" => worker[r][a].stage # "off"
      BY <1>1, <1>6, <2>2
    <3>2. \A a \in DeploymentIds : worker[r][a].stage # "off" => cluster'[a] = cluster[a]
      BY <1>5, <2>5 DEF ReplacerKnows
    <3>3. LiveIn(cluster[e].region)' = LiveIn(cluster[e].region)
      BY <2>5, <2>7, <3>1, <3>2 DEF LiveIn, Live
    <3>4. worker'[r][e].stage = "record" /\ worker'[r][e].new # NoDeployment
            => cluster'[worker'[r][e].new].region = cluster[e].region
      <4>1. CASE e = d
        BY <1>6, <2>2, <2>3, <4>1
      <4>2. CASE e # d
        <5>1. worker'[r][e] = worker[r][e]
          BY <1>6, <2>2, <4>2
        <5>2. worker[r][e].stage = "record" /\ worker[r][e].new # NoDeployment =>
                worker[r][e].new \in DeploymentIds /\ worker[r][e].new < nextDeployment
          BY <1>5 DEF ReplacerKnows, Worker
        <5> QED
          BY <1>5, <2>1, <2>3, <5>1, <5>2, IdsAreNat DEF PlaceKnows
      <4> QED
        BY <4>1, <4>2
    <3> QED
      BY <1>5, <2>7, <3>1, <3>2, <3>3, <3>4 DEF PlaceKnows
  <2>8. \A e \in DeploymentIds : PlaceKnows(r, e)'
    BY <2>7 DEF PlaceKnows
  <2> QED
    BY <1>9, <2>1, <2>6, <2>8
<1>12. CASE WorkerRecord(r, d)
  <2>1. Stage(r, d, NoWorker) /\ w.stage = "record" /\ UNCHANGED req /\ NoWorker.stage = "off"
    BY <1>12 DEF WorkerRecord, NoWorker
  <2>2. /\ \A e \in DeploymentIds : worker'[r][e].stage # "off" =>
              e # d /\ worker[r][e].stage # "off" /\ worker'[r][e] = worker[r][e]
    BY <1>6, <2>1
  <2>3. CASE UNCHANGED <<row, cluster>>
    <3>1. Live' = Live /\ Rows' = Rows
      BY <2>3 DEF Live, Rows
    <3>2. OneEach' /\ \A e \in Rows' : row'[e].status # "suspended"
      BY <1>7, <2>3, <3>1 DEF OneEach, RegionInv
    <3>3. \A e \in DeploymentIds : PlaceKnows(r, e)'
      BY <1>5, <2>2, <2>3, <3>1 DEF PlaceKnows, LiveIn
    <3> QED
      BY <1>9, <2>1, <3>2, <3>3
  <2>4. ASSUME NEW new \in DeploymentIds, NEW named,
               row' = CreateDeploymentsRecord(new, req[r].fresh, named),
               row[new].status = "none", cluster'[new].region = cluster[d].region,
               \A e \in DeploymentIds : e # new => cluster'[e] = cluster[e],
               \A e \in DeploymentIds : worker'[r][e].stage = "record" => worker[r][e].new # new
        PROVE  RegionInv'
    <3>1. /\ \A e \in DeploymentIds : e # new => row'[e] = row[e]
          /\ row'[new].status = "running"
      BY <2>4, RecordKeeps
    <3>2. LiveIn(cluster[d].region) = {}
      <4>1. LiveIn(cluster[d].region) \subseteq {d} /\ row[d].status = "destroyed"
        BY <1>1, <1>5, <2>1 DEF PlaceKnows, ReplacerKnows
      <4> QED
        BY <4>1 DEF LiveIn, Live
    <3>3. /\ OneEach'
          /\ \A g : LiveIn(g)' \subseteq LiveIn(g) \cup (IF g = cluster[d].region THEN {new} ELSE {})
      <4>1. /\ \A e \in Rows : e # new => row'[e] = row[e] /\ cluster'[e].region = cluster[e].region
            /\ \A e \in Rows' : e = new \/ e \in Rows
        BY <2>4, <3>1 DEF Rows
      <4>2. LiveIn(cluster'[new].region) = {}
        BY <2>4, <3>2
      <4> QED
        BY <1>7, <2>4, <3>1, <4>1, <4>2, InsertRegion
    <3>4. \A e \in Rows' : row'[e].status # "suspended"
      BY <3>1 DEF RegionInv, Rows
    <3>5. ASSUME NEW e \in DeploymentIds, worker'[r][e].stage # "off" PROVE PlaceKnows(r, e)'
      <4>1. e # d /\ cluster[e].region # cluster[d].region
        BY <1>1, <1>5, <2>2, <3>5 DEF PlaceKnows
      <4>2. \A a \in DeploymentIds : worker[r][a].stage # "off" => cluster'[a] = cluster[a]
        BY <1>5, <2>4 DEF ReplacerKnows, Rows
      <4>3. LiveIn(cluster[e].region)' \subseteq {e}
        BY <1>5, <2>2, <3>3, <3>5, <4>1, <4>2 DEF PlaceKnows
      <4>4. worker'[r][e].stage = "record" /\ worker'[r][e].new # NoDeployment
              => cluster'[worker'[r][e].new].region = cluster[e].region
        BY <1>5, <2>2, <2>4, <3>5 DEF PlaceKnows, Worker
      <4> QED
        BY <1>5, <2>2, <3>5, <4>2, <4>3, <4>4 DEF PlaceKnows
    <3>6. \A e \in DeploymentIds : PlaceKnows(r, e)'
      BY <3>5 DEF PlaceKnows
    <3> QED
      BY <1>9, <2>1, <3>3, <3>4, <3>6
  <2>5. CASE /\ w.new # NoDeployment /\ UNCHANGED cluster
             /\ row' = CreateDeploymentsRecord(w.new, req[r].fresh, TRUE)
    <3>1. /\ w.new \in DeploymentIds /\ row[w.new].status = "none"
          /\ cluster[w.new].region = cluster[d].region
      BY <1>5, <2>1, <2>5 DEF PlaceKnows, ReplacerKnows, Worker
    <3>2. \A e \in DeploymentIds : worker'[r][e].stage = "record" => worker[r][e].new # w.new
      BY <1>5, <2>1, <2>2, <2>5 DEF ReplacerKnows
    <3> QED
      BY <2>4, <2>5, <3>1, <3>2
  <2>6. CASE /\ nextDeployment \in DeploymentIds
             /\ row' = CreateDeploymentsRecord(nextDeployment, req[r].fresh, FALSE)
             /\ cluster' = [cluster EXCEPT ![nextDeployment].region = cluster[d].region]
    <3>1. row[nextDeployment].status = "none"
      BY <1>8, <2>6, IdsAreNat DEF Rows
    <3>2. /\ cluster'[nextDeployment].region = cluster[d].region
          /\ \A e \in DeploymentIds : e # nextDeployment => cluster'[e] = cluster[e]
      BY <2>6 DEF TypeOK, TablesTypeOK, Workload
    <3>3. \A e \in DeploymentIds : worker'[r][e].stage = "record" => worker[r][e].new # nextDeployment
      <4>1. NoDeployment # nextDeployment /\ nextDeployment \in Nat
        BY <2>6, IdsAreNat DEF NoDeployment, DeploymentIds
      <4>2. ASSUME NEW e \in DeploymentIds, worker'[r][e].stage = "record"
            PROVE  worker[r][e].new = NoDeployment \/ worker[r][e].new < nextDeployment
        BY <1>5, <2>2, <4>2 DEF ReplacerKnows
      <4> QED
        BY <4>1, <4>2
    <3> QED
      BY <2>4, <2>6, <3>1, <3>2, <3>3
  <2> QED
    BY <1>12, <2>3, <2>5, <2>6 DEF WorkerRecord
<1> QED
  BY <1>3, <1>10, <1>11, <1>12 DEF Work

\* Every step.
LEMMA NextRegion ==
    ASSUME Alone, "pause" \notin Kinds, TypeOK, SequenceInv, RegionInv, [Next]_vars
    PROVE  RegionInv'
<1>1. CASE UNCHANGED vars
  BY <1>1 DEF vars, RegionInv, OneDeploymentPerRegion, RegionKnows, PlaceKnows, LiveIn, Live, Rows
<1>2. CASE Done
  BY <1>1, <1>2 DEF Done
<1>3. CASE Crash
  <2>1. /\ UNCHANGED <<row, cluster>>
        /\ \A r \in Requests : req'[r] = Idle
        /\ \A r \in Requests, d \in DeploymentIds : worker'[r][d].stage = "off"
    BY <1>3 DEF Crash, Halt, tables, NoWorker
  <2>2. RegionKnows(Idle)'
    BY DEF RegionKnows, Idle, Unrecorded
  <2> QED
    BY <2>1, <2>2 DEF RegionInv, OneDeploymentPerRegion, PlaceKnows, LiveIn, Live, Rows
<1>4. ASSUME NEW r \in Requests, Mutation(r) PROVE RegionInv'
  <2>1. PICK n : Issued(n) /\ Become(r, n)
    BY <1>4, MutationDoes
  <2>2. Lasting
    BY <1>4, MutationDoes DEF tables, Lasting, SameRows
  <2>3. RegionKnows(n)'
    BY <2>1 DEF Issued, RegionKnows, Unrecorded
  <2> QED
    BY <2>1, <2>2, <2>3, CalmRegion
<1> QED
  BY <1>1, <1>2, <1>3, <1>4, StepRegion, WorkRegion DEF Next

\* One request after the other, and as long as nobody pauses, whoever is about to
\* insert a row has a region without a live one, whatever fails.
THEOREM RegionInvariant == Alone /\ "pause" \notin Kinds /\ Spec => []RegionInv
<1> SUFFICES ASSUME Alone, "pause" \notin Kinds PROVE Spec => []RegionInv
  OBVIOUS
<1>1. TypeOK /\ SequenceInv /\ RegionInv /\ [Next]_vars => RegionInv'
  BY NextRegion
<1>2. Init => RegionInv
  <2> SUFFICES ASSUME Init PROVE RegionInv
    OBVIOUS
  <2>1. Rows = {}
    BY DEF Init, TablesInit, NoDeploymentRow, Rows
  <2>2. RegionKnows(Idle)
    BY DEF RegionKnows, Idle, Unrecorded
  <2>3. OneDeploymentPerRegion
    BY <2>1, OneEachCounts DEF OneEach, Live
  <2> QED
    BY <2>1, <2>2, <2>3 DEF Init, NoWorker, RegionInv, PlaceKnows
<1> QED
  BY <1>1, <1>2, TypeCorrect, SequenceInvariant, PTL DEF Spec

\* So no region ever has two live rows.
THEOREM OneDeploymentAlways == Alone /\ "pause" \notin Kinds /\ Spec => []OneDeploymentPerRegion
<1>1. RegionInv => OneDeploymentPerRegion
  BY DEF RegionInv
<1> QED
  BY <1>1, RegionInvariant, PTL

-----------------------------------------------------------------------------
(***************************************************************************)
(* ListInv: the list of regions                                            *)
(***************************************************************************)
\* Nothing fails, except what leaves the list and the rows alone.  With backup
\* regions, or any of the other failures, the property is false: a request ends
\* between a row and the list, or takes one region for another.
Undisturbed == NoBackups /\ Faults \subseteq {"service", "loadbalancer", "rolldelete", "scale"}

\* What a step keeps of the application,
AppKept ==
    app'.exists = app.exists /\ app'.regions = app.regions /\ app'.backups = app.backups

\* and of the request's own lists.
SameLists(q, n) ==
    /\ n.kind = q.kind /\ n.toDeploy = q.toDeploy /\ n.region = q.region
    /\ n.adds = q.adds /\ n.dels = q.dels /\ n.backs = q.backs
    /\ n.regions = q.regions /\ n.backups = q.backups /\ n.standby = q.standby

\* A jump, a call and a return keep the lists.
LEMMA AlikeLists == ASSUME NEW q, NEW n, Alike(q, n) PROVE SameLists(q, n) /\ n.dep = q.dep
  BY DEF Alike, SameLists

\* Every row is named, and so is its own deployment.
LEMMA RowsNamed ==
    ASSUME TypeOK, ListInv
    PROVE  \A d \in Rows : row[d].named /\ DeploymentId(d) = d /\ d # NoDeployment
  BY TablesAssumption DEF ListInv, DeploymentId, Rows, DeploymentIds, NoDeployment

\* A step of the only request,
LEMMA ActList ==
    ASSUME Alone, TypeOK, NEW r \in Requests, NEW n, Become(r, n), Lists(n),
           app'.backups = {}, \A d \in Rows' : row'[d].named,
           \A d \in DeploymentIds :
             worker'[r][d].stage = "record" => worker'[r][d].new # NoDeployment,
           app'.exists => ListKnows(n)' /\ RollKnows(r)'
    PROVE  ListInv'
<1>1. req'[r] = n /\ \A s \in Requests : s = r
  BY DEF Become, TypeOK, Alone
<1>2. Lists(n)'
  BY DEF Lists, First
<1> QED
  BY <1>1, <1>2 DEF ListInv

\* one for which nobody works,
LEMMA SoleList ==
    ASSUME Alone, TypeOK, SequenceInv, NEW r \in Requests, req[r].pc # "roll.wait",
           UNCHANGED worker, NEW n, Become(r, n), Lists(n), n.pc # "roll.wait",
           app'.backups = {}, \A d \in Rows' : row'[d].named,
           app'.exists => ListKnows(n)'
    PROVE  ListInv'
<1>1. \A d \in DeploymentIds : worker'[r][d].stage = "off"
  BY NobodyWorks
<1>2. req'[r] = n
  BY DEF Become, TypeOK
<1>3. RollKnows(r)'
  BY <1>2 DEF RollKnows, At
<1> QED
  BY <1>1, <1>3, ActList

\* one that leaves the rows alone,
LEMMA CalmList ==
    ASSUME Alone, TypeOK, SequenceInv, ListInv, NEW r \in Requests, req[r].pc # "roll.wait",
           Lasting, AppKept, NEW n, Become(r, n), Lists(n), n.pc # "roll.wait",
           app.exists => ListKnows(n)
    PROVE  ListInv'
<1>1. Rows' = Rows /\ Live' = Live /\ UNCHANGED <<cluster, worker>>
  BY DEF Lasting, SameRows, Rows, Live
<1>2. app'.backups = {} /\ \A d \in Rows' : row'[d].named
  BY <1>1 DEF ListInv, AppKept, Lasting, SameRows, Rows
<1>3. LiveRegions' = LiveRegions
  BY <1>1 DEF LiveRegions
<1>4. Place(n)' = Place(n)
  BY <1>1 DEF Place
<1>5. app.exists => ListKnows(n)'
  BY <1>1, <1>3, <1>4 DEF ListKnows, AppKept, Edited, First
<1> QED
  BY <1>1, <1>2, <1>5, SoleList DEF AppKept

\* The labels at which the list may differ from the rows.
Parted == Editing \cup {"deploy.find", "delete.rows", "delete.releases"}

\* and one that edits no list.
LEMMA PlainList ==
    ASSUME Alone, TypeOK, SequenceInv, ListInv, NEW r \in Requests, Lasting, AppKept,
           req[r].pc \notin Editing, NEW n, Become(r, n), n.pc \notin Parted,
           n = Idle \/ SameLists(req[r], n)
    PROVE  ListInv'
<1>1. Lists(req[r]) /\ (app.exists => ListKnows(req[r]))
  BY DEF ListInv
<1>2. n.pc # "roll.wait" /\ req[r].pc # "roll.wait" /\ ~First(n)
  BY DEF Parted, Editing, First, Unrecorded
<1>3. n.pc \notin {"create", "service", "standby.drop"} \cup Undeploying
  BY DEF Parted, Editing, Unrecorded
<1>4. Idle.standby = {} /\ Idle.backs = {} /\ Idle.backups = {} /\ Idle.kind = "none"
  BY DEF Idle
<1>5. Lists(n)
  BY <1>1, <1>2, <1>3, <1>4 DEF Lists, SameLists, Parted
<1>6. app.exists => LiveRegions = app.regions
  BY <1>1 DEF ListKnows
<1>7. app.exists => ListKnows(n)
  BY <1>2, <1>3, <1>6 DEF ListKnows, Parted, Editing
<1> QED
  BY <1>2, <1>5, <1>7, CalmList

-----------------------------------------------------------------------------
(***************************************************************************)
(* The steps that edit no list                                             *)
(***************************************************************************)
\* The labels of UpdateAppStatus, UpdateImage, UpdateConfigApps, CreateNewAppRelease,
\* SuspendResumePods, and of DeleteApp before it deletes.
Plains == {"idle", "status.release", "status.rows", "status.write",
    "image.release", "image.retire", "image.publish",
    "config.again", "config.release", "config.retire", "config.latest", "config.publish",
    "config.attach", "config.activate", "config.version",
    "roll.current", "roll.app", "roll.rows", "roll.retire", "roll.publish", "roll.version",
    "scale.find", "scale.pods", "scale.mark", "first.route",
    "delete.read", "delete.bare", "delete.check", "delete.app"}

\* None of them.
LEMMA PlainsApart == Plains \cap Parted = {} /\ Plains \cap Editing = {}
  BY DEF Plains, Parted, Editing, Unrecorded, Undeploying

\* A step from one of these labels to another.
PlainStep(r) ==
    /\ Lasting /\ AppKept
    /\ req[r].pc \in Plains
    /\ \E n : Become(r, n) /\ n.pc \in Plains /\ (n = Idle \/ SameLists(req[r], n))

\* It keeps the invariant.
LEMMA PlainStepList ==
    ASSUME Alone, TypeOK, SequenceInv, ListInv, NEW r \in Requests, PlainStep(r)
    PROVE  ListInv'
<1>1. PICK n : Become(r, n) /\ n.pc \in Plains /\ (n = Idle \/ SameLists(req[r], n))
  BY DEF PlainStep
<1>2. n.pc \notin Parted /\ req[r].pc \notin Editing /\ Lasting /\ AppKept
  BY <1>1, PlainsApart DEF PlainStep
<1> QED
  BY <1>1, <1>2, PlainList

\* What leaves the application's lists alone.
LEMMA KeptSteps ==
    ASSUME TypeOK
    PROVE  /\ UNCHANGED app => AppKept
           /\ \A status : app' = [app EXCEPT !.status = status] => AppKept
           /\ \A routed : app' = [app EXCEPT !.routed = routed] => AppKept
           /\ \A version : app' = [app EXCEPT !.version = version] => AppKept
           /\ \A version, status :
                app' = [app EXCEPT !.version = version, !.status = status] => AppKept
  BY DEF AppKept, TypeOK, TablesTypeOK, AppRow

\* An end of the request,
LEMMA EndPlain ==
    ASSUME NEW r \in Requests, End(r), Lasting, AppKept, req[r].pc \in Plains
    PROVE  PlainStep(r)
<1>1. Idle.pc \in Plains
  BY DEF Idle, Plains
<1> QED
  BY <1>1 DEF PlainStep, End

\* a jump,
LEMMA GotoPlain ==
    ASSUME TypeOK, NEW r \in Requests, NEW label \in Plains, Become(r, Goto(req[r], label)),
           Lasting, AppKept, req[r].pc \in Plains
    PROVE  PlainStep(r)
<1>1. PICK n : n = Goto(req[r], label)
  OBVIOUS
<1>2. n.pc = label /\ Alike(req[r], n)
  BY <1>1, GotoFields DEF TypeOK, Shaped
<1> QED
  BY <1>1, <1>2, AlikeLists DEF PlainStep

\* and a return to the mutation.
LEMMA ReturnPlain ==
    ASSUME TypeOK, SequenceInv, NEW r \in Requests, Become(r, Return(req[r])),
           Lasting, AppKept, req[r].pc \in Plains
    PROVE  PlainStep(r)
<1>1. PICK n : n = Return(req[r])
  OBVIOUS
<1>2. req[r].pc \notin Called
  BY DEF Plains, Called, Deploying, Undeploying
<1>3. req[r] \in Request /\ Shaped(req[r]) /\ req[r].ret \in Seq(Awaits(req[r].kind))
  BY <1>2, OutsidePlace
<1>4. CASE req[r].ret = <<>>
  BY <1>1, <1>4, EndPlain DEF Return, End
<1>5. CASE req[r].ret # <<>>
  <2>1. Alike(req[r], n) /\ n.pc = Head(req[r].ret)
    BY <1>1, <1>3, <1>5, ReturnFields
  <2>2. n.pc \in Awaits(req[r].kind)
    <3> DEFINE own == Awaits(req[r].kind)
    <3> HIDE DEF own
    <3>1. req[r].ret \in Seq(own)
      BY <1>3 DEF own
    <3>2. Head(req[r].ret) \in own
      BY <1>5, <3>1
    <3> QED
      BY <2>1, <3>2 DEF own
  <2>3. n.pc \in Plains
    BY <2>2 DEF Awaits, Plains
  <2> QED
    BY <1>1, <2>1, <2>3, AlikeLists DEF PlainStep
<1> QED
  BY <1>4, <1>5

\* A rewrite of what the request has read.
LEMMA RewritePlain ==
    ASSUME NEW r \in Requests, Lasting, AppKept, req[r].pc \in Plains,
           NEW n, Become(r, n), n.pc \in Plains, SameLists(req[r], n)
    PROVE  PlainStep(r)
  BY DEF PlainStep

\* UpdateAppStatus,
LEMMA StatusPlain ==
    ASSUME TypeOK, SequenceInv, NEW r \in Requests, UpdateAppStatus(r)
    PROVE  PlainStep(r)
<1>1. Lasting /\ req[r] \in Request
  BY LastingSteps DEF UpdateAppStatus, StatusRelease, StatusRows, StatusWrite, TypeOK
<1>2. AppKept
  BY KeptSteps DEF UpdateAppStatus, StatusRelease, StatusRows, StatusWrite, Reads
<1>3. req[r].pc \in Plains
  BY DEF UpdateAppStatus, StatusRelease, StatusRows, StatusWrite, At, Plains
<1>4. CASE StatusRelease(r)
  <2>1. PICK x : Become(r, [req[r] EXCEPT !.pc = "status.rows", !.rel = x])
    BY <1>4 DEF StatusRelease
  <2>2. PICK n : n = [req[r] EXCEPT !.pc = "status.rows", !.rel = x]
    OBVIOUS
  <2>3. SameLists(req[r], n) /\ n.pc \in Plains
    BY <1>1, <2>2 DEF Request, SameLists, Plains
  <2> QED
    BY <1>1, <1>2, <1>3, <2>1, <2>2, <2>3, RewritePlain
<1>5. CASE StatusRows(r)
  <2>1. PICK seen : Become(r, [req[r] EXCEPT !.pc = "status.write", !.seen = seen])
    BY <1>5 DEF StatusRows
  <2>2. PICK n : n = [req[r] EXCEPT !.pc = "status.write", !.seen = seen]
    OBVIOUS
  <2>3. SameLists(req[r], n) /\ n.pc \in Plains
    BY <1>1, <2>2 DEF Request, SameLists, Plains
  <2> QED
    BY <1>1, <1>2, <1>3, <2>1, <2>2, <2>3, RewritePlain
<1>6. CASE StatusWrite(r)
  BY <1>1, <1>2, <1>3, <1>6, ReturnPlain DEF StatusWrite
<1> QED
  BY <1>4, <1>5, <1>6 DEF UpdateAppStatus

\* UpdateImage,
LEMMA ImagePlain ==
    ASSUME TypeOK, NEW r \in Requests, Image(r)
    PROVE  PlainStep(r)
<1>1. Lasting /\ req[r] \in Request
  BY LastingSteps DEF Image, ImageRelease, ImageRetire, ReleaseRetire, ImagePublish,
     ReleasePublish, TypeOK, Same, Lasting, SameRows
<1>2. AppKept
  BY KeptSteps DEF Image, ImageRelease, ImageRetire, ReleaseRetire, ImagePublish,
     ReleasePublish, Reads, OnlyRelease
<1>3. req[r].pc \in Plains
  BY DEF Image, ImageRelease, ImageRetire, ReleaseRetire, ImagePublish, ReleasePublish, At, Plains
<1>4. CASE ImageRelease(r)
  <2>1. PICK x : Become(r, [req[r] EXCEPT !.pc = "image.retire", !.rel = x,
                                         !.version = VersionOf(x) + 1])
    BY <1>4 DEF ImageRelease
  <2>2. PICK n : n = [req[r] EXCEPT !.pc = "image.retire", !.rel = x, !.version = VersionOf(x) + 1]
    OBVIOUS
  <2>3. SameLists(req[r], n) /\ n.pc \in Plains
    BY <1>1, <2>2 DEF Request, SameLists, Plains
  <2> QED
    BY <1>1, <1>2, <1>3, <2>1, <2>2, <2>3, RewritePlain
<1>5. CASE ImageRetire(r)
  BY <1>1, <1>2, <1>3, <1>5, GotoPlain DEF ImageRetire, ReleaseRetire, Plains
<1>6. CASE ImagePublish(r)
  BY <1>1, <1>2, <1>3, <1>6, EndPlain DEF ImagePublish, ReleasePublish, End
<1> QED
  BY <1>4, <1>5, <1>6 DEF Image

\* UpdateConfigApps once the regions are back,
LEMMA ConfigPlain ==
    ASSUME TypeOK, NEW r \in Requests, Config(r), ~ConfigAgain(r)
    PROVE  PlainStep(r)
<1>1. req[r] \in Request
  BY DEF TypeOK
<1>2. Lasting
  <2>1. CASE ConfigAttach(r)
    BY <2>1 DEF ConfigAttach, UpdateDeploymentsReleaseId, Lasting, SameRows, OnlyRow, Same, TypeOK,
       TablesTypeOK, DeploymentRow
  <2>2. CASE ConfigPublish(r)
    BY <2>2 DEF ConfigPublish, ReleasePublish, Same, Lasting, SameRows
  <2> QED
    BY <2>1, <2>2, LastingSteps DEF Config, ConfigRelease, ReleaseRead, ConfigRetire,
       ReleaseRetire, ConfigLatest, ConfigActivate, ConfigVersion
<1>3. AppKept
  <2>1. CASE ConfigVersion(r)
    <3>1. \/ app' = app
          \/ app' = [app EXCEPT !.version = req[r].version, !.status = "Active"]
      BY <2>1 DEF ConfigVersion
    <3> QED
      BY <3>1, KeptSteps
  <2> QED
    BY <2>1, KeptSteps DEF Config, ConfigRelease, ReleaseRead, ConfigRetire, ReleaseRetire,
       ConfigLatest, ConfigPublish, ReleasePublish, ConfigAttach, ConfigActivate, Reads,
       OnlyRelease, OnlyRow
<1>4. req[r].pc \in Plains
  BY DEF Config, ConfigAgain, ConfigRelease, ReleaseRead, ConfigRetire, ReleaseRetire,
     ConfigLatest, ConfigPublish, ReleasePublish, ConfigAttach, ConfigActivate, ConfigVersion,
     At, Plains
<1>5. ASSUME NEW n, Become(r, n), n.pc \in Plains, SameLists(req[r], n) PROVE PlainStep(r)
  BY <1>2, <1>3, <1>4, <1>5, RewritePlain
<1>6. CASE ConfigRelease(r)
  <2>1. PICK x : Become(r, [req[r] EXCEPT !.pc = "config.retire", !.rel = x])
    BY <1>6 DEF ConfigRelease, ReleaseRead
  <2>2. PICK n : n = [req[r] EXCEPT !.pc = "config.retire", !.rel = x]
    OBVIOUS
  <2>3. SameLists(req[r], n) /\ n.pc \in Plains
    BY <1>1, <2>2 DEF Request, SameLists, Plains
  <2> QED
    BY <1>5, <2>1, <2>2, <2>3
<1>7. CASE ConfigLatest(r)
  <2>1. PICK v : Become(r, [req[r] EXCEPT !.pc = "config.publish", !.version = v + 1])
    BY <1>7 DEF ConfigLatest
  <2>2. PICK n : n = [req[r] EXCEPT !.pc = "config.publish", !.version = v + 1]
    OBVIOUS
  <2>3. SameLists(req[r], n) /\ n.pc \in Plains
    BY <1>1, <2>2 DEF Request, SameLists, Plains
  <2> QED
    BY <1>5, <2>1, <2>2, <2>3
<1>8. CASE ConfigPublish(r)
  <2>1. PICK n : n = [req[r] EXCEPT !.pc = "config.attach", !.fresh = nextRelease]
    OBVIOUS
  <2>2. SameLists(req[r], n) /\ n.pc \in Plains
    BY <1>1, <2>1 DEF Request, SameLists, Plains
  <2>3. Become(r, n) \/ End(r)
    BY <1>8, <2>1 DEF ConfigPublish, ReleasePublish
  <2> QED
    BY <1>2, <1>3, <1>4, <1>5, <2>2, <2>3, EndPlain
<1>9. CASE ConfigRetire(r) \/ ConfigAttach(r) \/ ConfigActivate(r)
  <2>1. PICK label \in {"config.activate", "config.latest", "config.version"} :
          Become(r, Goto(req[r], label))
    BY <1>9 DEF ConfigRetire, ReleaseRetire, ConfigAttach, ConfigActivate
  <2>2. label \in Plains
    BY DEF Plains
  <2> QED
    BY <1>2, <1>3, <1>4, <2>1, <2>2, GotoPlain
<1>10. CASE ConfigVersion(r)
  BY <1>2, <1>3, <1>4, <1>10, EndPlain DEF ConfigVersion
<1> QED
  BY <1>6, <1>7, <1>8, <1>9, <1>10 DEF Config

\* CreateNewAppRelease away from its goroutines,
LEMMA RollPlain ==
    ASSUME TypeOK, NEW r \in Requests,
           RollCurrent(r) \/ RollApp(r) \/ RollRetire(r) \/ RollPublish(r) \/ RollVersion(r)
    PROVE  PlainStep(r)
<1>1. req[r] \in Request
  BY DEF TypeOK
<1>2. Lasting
  BY LastingSteps DEF RollCurrent, RollApp, RollRetire, RollPublish, RollVersion
<1>3. AppKept
  <2>1. CASE RollVersion(r)
    <3>1. app' = app \/ app' = [app EXCEPT !.version = req[r].version + 1]
      BY <2>1 DEF RollVersion
    <3> QED
      BY <3>1, KeptSteps
  <2> QED
    BY <2>1, KeptSteps DEF RollCurrent, RollApp, RollRetire, RollPublish, Reads, OnlyRelease
<1>4. req[r].pc \in Plains
  BY DEF RollCurrent, RollApp, RollRetire, RollPublish, RollVersion, At, Plains
<1>5. CASE RollCurrent(r)
  <2>1. PICK x : Become(r, [req[r] EXCEPT !.pc = "roll.app", !.version = VersionOf(x)])
    BY <1>5 DEF RollCurrent
  <2>2. PICK n : n = [req[r] EXCEPT !.pc = "roll.app", !.version = VersionOf(x)]
    OBVIOUS
  <2>3. SameLists(req[r], n) /\ n.pc \in Plains
    BY <1>1, <2>2 DEF Request, SameLists, Plains
  <2> QED
    BY <1>2, <1>3, <1>4, <2>1, <2>2, <2>3, RewritePlain
<1>6. CASE RollApp(r)
  <2>1. PICK seen : Become(r, [req[r] EXCEPT !.pc = "roll.rows", !.seen = seen])
    BY <1>6 DEF RollApp
  <2>2. PICK n : n = [req[r] EXCEPT !.pc = "roll.rows", !.seen = seen]
    OBVIOUS
  <2>3. SameLists(req[r], n) /\ n.pc \in Plains
    BY <1>1, <2>2 DEF Request, SameLists, Plains
  <2> QED
    BY <1>2, <1>3, <1>4, <2>1, <2>2, <2>3, RewritePlain
<1>7. CASE RollRetire(r) \/ RollPublish(r)
  <2>1. PICK label \in {"roll.publish", "roll.version"} : Become(r, Goto(req[r], label))
    BY <1>7 DEF RollRetire, RollPublish
  <2>2. label \in Plains
    BY DEF Plains
  <2> QED
    BY <1>2, <1>3, <1>4, <2>1, <2>2, GotoPlain
<1>8. CASE RollVersion(r)
  BY <1>2, <1>3, <1>4, <1>8, EndPlain DEF RollVersion
<1> QED
  BY <1>5, <1>6, <1>7, <1>8

\* and SuspendResumePods, which finds nothing to scale.
LEMMA ScalePlain ==
    ASSUME TypeOK, SequenceInv, RegionInv, NEW r \in Requests, SuspendResumePods(r)
    PROVE  PlainStep(r)
<1> DEFINE q == req[r]
<1>1. q \in Request /\ RowKnows(q) /\ RegionKnows(q)
  BY DEF TypeOK, SequenceInv, RegionInv
<1>2. q.from = "suspended" /\ q.pc \in Plains
  BY <1>1 DEF RegionKnows, SuspendResumePods, ScaleFind, ScalePods, ScaleMark, At, Plains
<1>3. \A d \in DeploymentIds : row[d].status # "suspended"
  BY DEF RegionInv, Rows
<1>4. CASE ScaleFind(r)
  <2>1. PICK d : Become(r, [q EXCEPT !.pc = "scale.pods", !.dep = d])
    BY <1>4 DEF ScaleFind
  <2>2. PICK n : n = [q EXCEPT !.pc = "scale.pods", !.dep = d]
    OBVIOUS
  <2>3. SameLists(q, n) /\ n.pc \in Plains
    BY <1>1, <2>2 DEF Request, SameLists, Plains
  <2>4. Lasting /\ AppKept
    BY <1>4, LastingSteps, KeptSteps DEF ScaleFind, Reads
  <2> QED
    BY <1>2, <2>1, <2>2, <2>3, <2>4, RewritePlain
<1>5. CASE ScalePods(r)
  <2>1. q.dep = NoDeployment
    BY <1>1, <1>2, <1>3, <1>5 DEF RowKnows, ScalePods, At, Request
  <2>2. End(r) /\ Lasting /\ AppKept
    BY <1>5, <2>1, KeptSteps DEF ScalePods, DeploymentId, OnlyCluster, Same, Lasting, SameRows
  <2> QED
    BY <1>2, <2>2, EndPlain
<1>6. ~ScaleMark(r)
  BY <1>1, <1>2, <1>3 DEF ScaleMark, At, RowKnows, Request
<1> QED
  BY <1>4, <1>5, <1>6 DEF SuspendResumePods

-----------------------------------------------------------------------------
(***************************************************************************)
(* The steps that edit the lists                                           *)
(***************************************************************************)
\* AddOrRemoveRegions reads the list: all that is to be added is outside of it.
LEMMA ReadList ==
    ASSUME Alone, TypeOK, SequenceInv, ListInv, NEW r \in Requests, RegionsRead(r)
    PROVE  ListInv'
<1> DEFINE q == req[r]
<1>1. /\ q \in Request /\ q.pc = "regions.read" /\ Lists(q) /\ app.backups = {}
      /\ app.exists => ListKnows(q)
  BY DEF TypeOK, RegionsRead, At, ListInv
<1>2. Lasting /\ AppKept
  BY RegionsReadDoes, LastingSteps, KeptSteps DEF Reads
<1>3. CASE app.exists
  <2>1. PICK n : /\ Become(r, n) /\ n.pc = "regions.add" /\ n.standby \subseteq app.backups
                 /\ Alike([q EXCEPT !.regions = app.regions, !.backups = app.backups,
                                    !.adds = q.adds \ app.regions,
                                    !.backs = q.backs \ app.backups,
                                    !.standby = n.standby], n)
    BY <1>3, RegionsReadDoes
  <2>2. /\ n.regions = app.regions /\ n.backups = {} /\ n.adds = q.adds \ app.regions
        /\ n.backs = q.backs \ {} /\ n.standby = {} /\ n.dels = q.dels /\ n.kind = q.kind
        /\ n.toDeploy = q.toDeploy /\ n.region = q.region
    BY <1>1, <2>1 DEF Alike, Request
  <2>3. Lists(n)
    BY <1>1, <2>1, <2>2 DEF Lists, First, Undeploying
  <2>4. LiveRegions = Edited(q, app.regions)
    BY <1>1, <1>3 DEF ListKnows
  <2>5. Edited(n, n.regions) = Edited(q, app.regions)
    BY <2>2 DEF Edited
  <2>6. ListKnows(n)
    BY <2>1, <2>2, <2>4, <2>5 DEF ListKnows, Editing, Unrecorded, Undeploying
  <2> QED
    BY <1>1, <1>2, <2>1, <2>3, <2>6, CalmList
<1>4. CASE ~app.exists
  <2>1. End(r)
    BY <1>4 DEF RegionsRead
  <2>2. Lists(Idle) /\ Idle.pc = "idle"
    BY DEF Lists, First, Idle, Undeploying
  <2> QED
    BY <1>1, <1>2, <1>4, <2>1, <2>2, CalmList DEF End
<1> QED
  BY <1>3, <1>4

\* It edits the copy: the list with its edits stays the same, or loses the region to
\* undeploy from.
LEMMA EditList ==
    ASSUME Alone, TypeOK, SequenceInv, ListInv, NEW r \in Requests,
           RegionsAddOnly(r) \/ RegionsDelete(r)
    PROVE  ListInv'
<1> DEFINE q == req[r]
<1>1. q \in Request /\ Lists(q) /\ (app.exists => ListKnows(q))
  BY DEF TypeOK, ListInv
<1>2. Lasting /\ AppKept /\ q.pc \in {"regions.add", "regions.del"}
  BY LastingSteps, KeptSteps DEF RegionsAddOnly, RegionsDelete, Reads, At
<1>3. CASE RegionsAddOnly(r)
  <2>1. PICK g \in q.adds : \E n :
          /\ Become(r, n) /\ n.pc = "regions.add"
          /\ Alike([q EXCEPT !.adds = q.adds \ {g}, !.regions = q.regions \cup {g}], n)
    BY <1>3, RegionsAddOnlyDoes
  <2>2. PICK n : /\ Become(r, n) /\ n.pc = "regions.add"
                 /\ Alike([q EXCEPT !.adds = q.adds \ {g}, !.regions = q.regions \cup {g}], n)
    BY <2>1
  <2>3. ~q.toDeploy /\ q.pc = "regions.add"
    BY <1>3, RegionsAddOnlyDoes DEF RegionsAddOnly, At
  <2>4. /\ n.regions = q.regions \cup {g} /\ n.backups = q.backups /\ n.adds = q.adds \ {g}
        /\ n.backs = q.backs /\ n.standby = q.standby /\ n.dels = q.dels /\ n.kind = q.kind
        /\ n.toDeploy = q.toDeploy /\ n.region = q.region
    BY <1>1, <2>2 DEF Alike, Request
  <2>5. Lists(n)
    BY <1>1, <2>2, <2>3, <2>4 DEF Lists, First, Undeploying
  <2>6. Edited(n, n.regions) = Edited(q, q.regions)
    BY <2>1, <2>3, <2>4 DEF Edited
  <2>7. app.exists => LiveRegions = Edited(q, q.regions) /\ q.adds \cap q.regions = {}
    BY <1>1, <2>3 DEF ListKnows
  <2>8. app.exists => ListKnows(n)
    BY <2>2, <2>4, <2>6, <2>7 DEF ListKnows, Editing, Unrecorded, Undeploying
  <2> QED
    BY <1>2, <2>2, <2>5, <2>8, CalmList
<1>4. CASE RegionsDelete(r)
  <2>1. PICK g \in q.dels \cap q.regions : \E n :
          /\ Become(r, n)
          /\ IF q.toDeploy THEN n.pc = "undeploy.find" /\ Head(n.ret) = "regions.del"
             ELSE n.pc = "regions.del"
          /\ Alike([q EXCEPT !.regions = q.regions \ {g}, !.region = g], n)
    BY <1>4, RegionsDeleteDoes
  <2>2. PICK n : /\ Become(r, n)
                 /\ IF q.toDeploy THEN n.pc = "undeploy.find" /\ Head(n.ret) = "regions.del"
                    ELSE n.pc = "regions.del"
                 /\ Alike([q EXCEPT !.regions = q.regions \ {g}, !.region = g], n)
    BY <2>1
  <2>3. q.pc = "regions.del"
    BY <1>4 DEF RegionsDelete, At
  <2>4. /\ n.regions = q.regions \ {g} /\ n.backups = q.backups /\ n.adds = q.adds
        /\ n.backs = q.backs /\ n.standby = q.standby /\ n.dels = q.dels /\ n.kind = q.kind
        /\ n.toDeploy = q.toDeploy /\ n.region = g
    BY <1>1, <2>2 DEF Alike, Request
  <2>5. n.kind = "delete" => n.region = q.region
    BY <1>1, <2>1, <2>4 DEF Lists
  <2>6. Lists(n)
    BY <1>1, <2>2, <2>3, <2>4, <2>5 DEF Lists, First, Undeploying
  <2>7. app.exists => LiveRegions = Edited(q, q.regions) /\ q.adds = {}
    BY <1>1, <2>3 DEF ListKnows
  <2>8. CASE q.toDeploy
    <3>1. app.exists => LiveRegions \ {g} = n.regions
      BY <2>4, <2>7, <2>8 DEF Edited
    <3>2. n.pc \in Undeploying /\ n.pc = "undeploy.find" /\ n.pc \in Editing
      BY <2>2, <2>8 DEF Undeploying, Editing
    <3>3. g \notin n.regions /\ n.toDeploy
      BY <2>4, <2>8
    <3>4. app.exists => ListKnows(n)
      BY <2>2, <2>4, <2>7, <2>8, <3>1, <3>2, <3>3 DEF ListKnows, Unrecorded
    <3> QED
      BY <1>2, <2>3, <2>6, <3>2, <3>4, <2>2, CalmList
  <2>9. CASE ~q.toDeploy
    <3>1. n.pc = "regions.del"
      BY <2>2, <2>9
    <3>2. Edited(n, n.regions) = Edited(q, q.regions)
      BY <2>1, <2>4, <2>9 DEF Edited
    <3>3. app.exists => ListKnows(n)
      BY <2>4, <2>7, <3>1, <3>2 DEF ListKnows, Editing, Unrecorded, Undeploying
    <3> QED
      BY <1>2, <2>2, <2>3, <2>6, <3>1, <3>3, CalmList
  <2> QED
    BY <2>8, <2>9
<1> QED
  BY <1>3, <1>4

\* It goes from one loop to the next,
LEMMA LoopList ==
    ASSUME Alone, TypeOK, SequenceInv, ListInv, NEW r \in Requests, Undisturbed,
           RegionsAdded(r) \/ StandbyDone(r) \/ RegionsDeleted(r) \/ AddRoute(r)
    PROVE  ListInv'
<1> DEFINE q == req[r]
<1>1. q \in Request /\ Shaped(q) /\ Lists(q) /\ (app.exists => ListKnows(q))
  BY DEF TypeOK, ListInv, Shaped
<1>2. "route" \notin Faults
  BY DEF Undisturbed
<1>3. Lasting /\ AppKept
  BY <1>2, LastingSteps, KeptSteps DEF RegionsAdded, StandbyDone, RegionsDeleted, AddRoute, Reads
<1>4. q.pc \in {"regions.add", "regions.standby", "regions.del", "add.route"}
  BY DEF RegionsAdded, StandbyDone, RegionsDeleted, AddRoute, At
<1>5. PICK label \in {"regions.standby", "regions.del", "regions.backup", "regions.add"} :
        /\ Become(r, Goto(q, label))
        /\ label = "regions.standby" => q.pc = "regions.add" /\ q.adds = {}
        /\ label = "regions.del" => q.pc = "regions.standby"
        /\ label = "regions.backup" =>
            q.pc = "regions.del" /\ (q.toDeploy \/ q.dels \cap q.regions = {})
        /\ label = "regions.add" => q.pc = "add.route"
  BY <1>2 DEF RegionsAdded, StandbyDone, RegionsDeleted, AddRoute, At
<1>6. PICK n : n = Goto(q, label)
  OBVIOUS
<1>7. n.pc = label /\ SameLists(q, n)
  BY <1>1, <1>6, GotoFields, AlikeLists
<1>8. Lists(n)
  BY <1>1, <1>7 DEF Lists, SameLists, First, Undeploying
<1>9. \A list : Edited(n, list) = Edited(q, list)
  BY <1>7 DEF Edited, SameLists
<1>10. app.exists => ListKnows(n)
  <2> SUFFICES ASSUME app.exists PROVE ListKnows(n)
    OBVIOUS
  <2>1. q.pc = "add.route" => /\ q.toDeploy /\ LiveRegions = q.regions /\ q.adds \cap q.regions = {}
    BY <1>1 DEF ListKnows
  <2>2. q.pc # "add.route" => LiveRegions = Edited(q, q.regions)
    BY <1>1, <1>4 DEF ListKnows
  <2>3. q.pc \in {"regions.standby", "regions.del"} => q.adds = {}
    BY <1>1 DEF ListKnows
  <2>4. label = "regions.backup" => LiveRegions = n.regions
    BY <1>5, <1>7, <2>2, <2>3 DEF Edited, SameLists
  <2>5. label \in {"regions.add", "regions.standby", "regions.del"}
          => LiveRegions = Edited(n, n.regions)
    BY <1>5, <1>7, <1>9, <2>1, <2>2 DEF Edited, SameLists
  <2>6. label \in {"regions.standby", "regions.del"} => n.adds = {}
    BY <1>5, <1>7, <2>3 DEF SameLists
  <2>7. label = "regions.add" => n.adds \cap n.regions = {}
    BY <1>5, <1>7, <2>1 DEF SameLists
  <2> QED
    BY <1>7, <2>4, <2>5, <2>6, <2>7 DEF ListKnows, Editing, Unrecorded, Undeploying
<1> QED
  BY <1>3, <1>4, <1>5, <1>6, <1>7, <1>8, <1>10, CalmList

\* and writes back what it has.
LEMMA WriteList ==
    ASSUME Alone, TypeOK, SequenceInv, ListInv, NEW r \in Requests, RegionsWrite(r)
    PROVE  ListInv'
<1> DEFINE q == req[r]
<1>1. q \in Request /\ Shaped(q) /\ Lists(q) /\ (app.exists => ListKnows(q))
  BY DEF TypeOK, ListInv, Shaped
<1>2. q.pc = "regions.backup" /\ UNCHANGED <<row, cluster, worker>>
  BY DEF RegionsWrite, At, OnlyApp, Same
<1>3. /\ app'.exists = app.exists /\ app'.backups = {}
      /\ app.exists => app'.regions = q.regions
  BY <1>1 DEF RegionsWrite, TypeOK, TablesTypeOK, AppRow, ListInv, Lists
<1>4. PICK n : n = Goto(q, "status.release")
  OBVIOUS
<1>5. n.pc = "status.release" /\ SameLists(q, n) /\ Become(r, n)
  BY <1>1, <1>4, GotoFields, AlikeLists DEF RegionsWrite
<1>6. Lists(n)
  BY <1>1, <1>5 DEF Lists, SameLists, First, Undeploying
<1>7. app.exists => LiveRegions = q.regions
  BY <1>1, <1>2 DEF ListKnows
<1>8. LiveRegions' = LiveRegions
  BY <1>2 DEF LiveRegions, Live, Rows
<1>9. app'.exists => ListKnows(n)'
  BY <1>3, <1>5, <1>7, <1>8 DEF ListKnows, Editing, Unrecorded, Undeploying
<1>10. \A d \in Rows' : row'[d].named
  BY <1>2 DEF ListInv, Rows
<1> QED
  BY <1>2, <1>3, <1>5, <1>6, <1>9, <1>10, SoleList

\* UpdateConfigApps, Deploy and DeleteApp hand their lists to AddOrRemoveRegions: a
\* redeployment adds the regions it has removed,
LEMMA AgainList ==
    ASSUME Alone, TypeOK, SequenceInv, ListInv, NEW r \in Requests, ConfigAgain(r)
    PROVE  ListInv'
<1> DEFINE q == req[r]
<1>1. /\ q \in Request /\ q.pc = "config.again" /\ Lists(q) /\ (app.exists => ListKnows(q))
      /\ InPlace(q)
  BY DEF TypeOK, ConfigAgain, At, ListInv, SequenceInv
<1>2. q.kind \in {"redeploy", "revert"} /\ q.toDeploy
  BY <1>1 DEF InPlace, Lists
<1>3. PICK again : again = [q EXCEPT !.adds = q.items, !.dels = {}]
  OBVIOUS
<1>4. PICK n : n = Call(again, "regions.read", <<"config.release">>)
  OBVIOUS
<1>5. Shaped(again) /\ SameLists([q EXCEPT !.adds = q.items, !.dels = {}], again)
  BY <1>1, <1>3 DEF Shaped, Request, SameLists
<1>6. Become(r, n) /\ n.pc = "regions.read" /\ Alike(again, n)
  BY <1>3, <1>4, <1>5, CallFields DEF ConfigAgain
<1>7. /\ n.kind = q.kind /\ n.toDeploy /\ n.region = q.region /\ n.dels = {}
      /\ n.backs = q.backs /\ n.backups = q.backups /\ n.standby = q.standby
  BY <1>1, <1>2, <1>3, <1>6 DEF Alike, Request
<1>8. Lists(n)
  BY <1>1, <1>2, <1>6, <1>7 DEF Lists, First, Undeploying
<1>9. app.exists => LiveRegions = app.regions
  BY <1>1 DEF ListKnows, Editing, Unrecorded, Undeploying
<1>10. app.exists => ListKnows(n)
  BY <1>6, <1>7, <1>9 DEF ListKnows, Edited, Editing, Unrecorded, Undeploying
<1>11. Lasting /\ AppKept
  BY LastingSteps, KeptSteps DEF ConfigAgain, Reads
<1> QED
  BY <1>1, <1>6, <1>8, <1>10, <1>11, CalmList

\* Deploy the other default regions,
LEMMA RouteList ==
    ASSUME Alone, TypeOK, SequenceInv, ListInv, NEW r \in Requests, FirstRoute(r)
    PROVE  ListInv'
<1> DEFINE q == req[r]
<1>1. /\ q \in Request /\ q.pc = "first.route" /\ Lists(q) /\ (app.exists => ListKnows(q))
      /\ InPlace(q)
  BY DEF TypeOK, FirstRoute, At, ListInv, SequenceInv
<1>2. q.kind = "deploy" /\ q.pc \in Plains
  BY <1>1 DEF InPlace, Plains
<1>3. Lasting /\ AppKept
  BY FirstRouteDoes DEF Lasting, SameRows, AppKept
<1>4. CASE End(r)
  BY <1>2, <1>3, <1>4, EndPlain, PlainStepList
<1>5. CASE ~End(r)
  <2>1. PICK n : /\ Become(r, n) /\ n.pc = "regions.read"
                 /\ Alike([q EXCEPT !.toDeploy = TRUE, !.adds = Defaults \ {Primary}], n)
    BY <1>5, FirstRouteDoes
  <2>2. /\ n.kind = q.kind /\ n.toDeploy /\ n.region = q.region /\ n.dels = q.dels
        /\ n.backs = q.backs /\ n.backups = q.backups /\ n.standby = q.standby
    BY <1>1, <2>1 DEF Alike, Request
  <2>3. Lists(n)
    BY <1>1, <1>2, <2>1, <2>2 DEF Lists, First, Undeploying
  <2>4. app.exists => LiveRegions = app.regions
    BY <1>1 DEF ListKnows, Editing, Unrecorded, Undeploying
  <2>5. app.exists => ListKnows(n)
    BY <2>1, <2>2, <2>4 DEF ListKnows, Edited, Editing, Unrecorded, Undeploying
  <2> QED
    BY <1>1, <1>3, <2>1, <2>3, <2>5, CalmList
<1> QED
  BY <1>4, <1>5

\* and a deletion removes the region it undeploys from first.
LEMMA DeleteReadList ==
    ASSUME Alone, TypeOK, SequenceInv, ListInv, NEW r \in Requests, DeleteRead(r)
    PROVE  ListInv'
<1> DEFINE q == req[r]
<1>1. /\ q \in Request /\ Shaped(q) /\ q.pc = "delete.read"
      /\ Lists(q) /\ (app.exists => ListKnows(q))
  BY DEF TypeOK, DeleteRead, At, ListInv, Shaped
<1>2. q.kind = "delete" /\ q.pc \in Plains /\ q.ret \in Seq(Awaits(q.kind))
  <2>1. q.pc \notin Called
    BY <1>1 DEF Called, Deploying, Undeploying
  <2> QED
    BY <1>1, <2>1, OutsidePlace DEF InPlace, DeleteLabels, Plains
<1>3. Lasting /\ AppKept
  BY LastingSteps, KeptSteps DEF DeleteRead, Reads
<1>4. CASE ~app.exists
  BY <1>2, <1>3, <1>4, EndPlain, PlainStepList DEF DeleteRead
<1>5. CASE app.exists /\ q.region = NoRegion
  <2>1. PICK back : Become(r, Call(q, "status.release", back))
    BY <1>5 DEF DeleteRead
  <2>2. PICK n : n = Call(q, "status.release", back)
    OBVIOUS
  <2>3. n.pc = "status.release" /\ SameLists(q, n)
    BY <1>1, <2>2, CallFields, AlikeLists
  <2>4. n.pc \in Plains
    BY <2>3 DEF Plains
  <2> QED
    BY <1>2, <1>3, <2>1, <2>2, <2>3, <2>4, RewritePlain, PlainStepList
<1>6. CASE app.exists /\ q.region # NoRegion
  <2>1. PICK n : n = Call(q, "undeploy.find", <<"regions.read", "delete.check">>)
    OBVIOUS
  <2>2. Become(r, n) /\ n.pc = "undeploy.find" /\ SameLists(q, n)
    BY <1>1, <1>6, <2>1, CallFields, AlikeLists DEF DeleteRead
  <2>3. Head(n.ret) = "regions.read"
    <3> DEFINE back == <<"delete.check">>
               own == Awaits(q.kind)
    <3>1. "regions.read" \in UndeployCallers(q.kind) /\ "delete.check" \in own
      BY <1>2 DEF UndeployCallers, Awaits
    <3> HIDE DEF own
    <3>2. back \in Seq(own)
      BY <3>1
    <3> HIDE DEF back
    <3>3. Head(Call(q, "undeploy.find", <<"regions.read">> \o back).ret) = "regions.read"
      BY <1>1, <1>2, <3>1, <3>2, CallUndeployPlace DEF own
    <3>4. <<"regions.read">> \o back = <<"regions.read", "delete.check">>
      BY PushTwo DEF back
    <3> QED
      BY <2>1, <3>3, <3>4
  <2>4. Lists(n)
    BY <1>1, <2>2, <2>3 DEF Lists, First, Undeploying, SameLists
  <2>5. LiveRegions = app.regions
    BY <1>1, <1>6 DEF ListKnows, Editing, Unrecorded, Undeploying
  <2>6. ListKnows(n)
    BY <2>2, <2>3, <2>5 DEF ListKnows, Editing, Unrecorded, Undeploying
  <2> QED
    BY <1>1, <1>3, <2>2, <2>4, <2>6, CalmList
<1> QED
  BY <1>4, <1>5, <1>6

\* DeleteApp ends with an application that is Active,
LEMMA DeleteCheckPlain ==
    ASSUME TypeOK, NEW r \in Requests, DeleteCheck(r)
    PROVE  PlainStep(r)
<1>1. req[r].pc \in Plains /\ Lasting /\ AppKept
  BY LastingSteps, KeptSteps DEF DeleteCheck, At, Reads, Plains
<1>2. "delete.app" \in Plains
  BY DEF Plains
<1> QED
  BY <1>1, <1>2, EndPlain, GotoPlain DEF DeleteCheck, End

-----------------------------------------------------------------------------
(***************************************************************************)
(* The steps that find a region with a deployment or without one           *)
(***************************************************************************)
\* The primary region had no deployment, and is not listed.
LEMMA FindList ==
    ASSUME Alone, TypeOK, SequenceInv, RegionInv, ListInv, NEW r \in Requests, DeployFind(r)
    PROVE  ListInv'
<1> DEFINE q == req[r]
<1>1. /\ q \in Request /\ q.pc = "deploy.find" /\ Lists(q) /\ (app.exists => ListKnows(q))
      /\ InPlace(q)
  BY DEF TypeOK, DeployFind, At, ListInv, SequenceInv
<1>2. q.kind = "deploy" /\ ~q.toDeploy /\ q.dels = {}
  BY <1>1 DEF InPlace, Lists
<1>3. Lasting /\ AppKept
  BY LastingSteps, KeptSteps DEF DeployFind, Reads
<1>4. app.exists => LiveRegions = app.regions
  BY <1>1 DEF ListKnows, Editing, Unrecorded, Undeploying
<1>5. PICK n : /\ Become(r, n)
               /\ \/ n.pc = "roll.current" /\ Alike(q, n)
                  \/ /\ n.pc = "create" /\ Head(n.ret) = "first.release"
                     /\ Alike([q EXCEPT !.region = Primary], n)
                     /\ \A d \in Rows : ~(cluster[d].region = Primary /\ row[d].status = "running")
  BY DeployFindDoes
<1>6. /\ n.kind = q.kind /\ n.toDeploy = q.toDeploy /\ n.dels = q.dels
      /\ n.backs = q.backs /\ n.backups = q.backups /\ n.standby = q.standby
      /\ n.pc = "create" => n.region = Primary
  BY <1>1, <1>5 DEF Alike, Request
<1>7. Lists(n) /\ n.pc # "roll.wait"
  BY <1>1, <1>2, <1>5, <1>6 DEF Lists, First, Undeploying
<1>8. CASE n.pc = "roll.current"
  <2>1. app.exists => ListKnows(n)
    BY <1>4, <1>8 DEF ListKnows, Editing, Unrecorded, Undeploying
  <2> QED
    BY <1>1, <1>3, <1>5, <1>7, <2>1, CalmList
<1>9. CASE n.pc = "create"
  <2>1. LiveIn(Primary) = {}
    BY <1>5, <1>9, NoneLive
  <2>2. Primary \notin LiveRegions
    BY <2>1 DEF LiveRegions, LiveIn
  <2>3. First(n) /\ Place(n) = Primary
    BY <1>5, <1>6, <1>9 DEF First, Place
  <2>4. app.exists => ListKnows(n)
    BY <1>4, <1>9, <2>2, <2>3 DEF ListKnows, Editing, Unrecorded, Undeploying
  <2> QED
    BY <1>1, <1>3, <1>5, <1>7, <2>4, CalmList
<1> QED
  BY <1>5, <1>8, <1>9

\* A region to add is not listed, so it has no deployment and gets one.
LEMMA RegionsDeployList ==
    ASSUME Alone, TypeOK, SequenceInv, ListInv, NEW r \in Requests, RegionsDeploy(r)
    PROVE  ListInv'
<1> DEFINE q == req[r]
<1>1. /\ q \in Request /\ Shaped(q) /\ q.pc = "regions.add" /\ Lists(q) /\ RowKnows(q)
      /\ q.toDeploy
  BY DEF TypeOK, RegionsDeploy, At, ListInv, SequenceInv, Shaped
<1>2. app.exists /\ ListKnows(q)
  BY <1>1 DEF RowKnows, ListInv
<1>3. LiveRegions = q.regions /\ q.adds \cap q.regions = {} /\ q.kind # "delete"
  BY <1>1, <1>2 DEF ListKnows, Edited, Lists
<1>4. Lasting /\ AppKept
  BY LastingSteps, KeptSteps DEF RegionsDeploy, Reads
<1>5. ~End(r)
  <2>1. PICK g \in q.adds : \E d \in GetDeploymentsRecordSingle(g, "running") :
          Become(r, IF d # NoDeployment THEN Idle
                    ELSE Call([q EXCEPT !.adds = q.adds \ {g}, !.regions = q.regions \cup {g},
                                        !.region = g], "create", <<"add.release">>))
    BY DEF RegionsDeploy
  <2>2. PICK d \in GetDeploymentsRecordSingle(g, "running") :
          Become(r, IF d # NoDeployment THEN Idle
                    ELSE Call([q EXCEPT !.adds = q.adds \ {g}, !.regions = q.regions \cup {g},
                                        !.region = g], "create", <<"add.release">>))
    BY <2>1
  <2>3. d = NoDeployment
    <3>1. d # NoDeployment => d \in Live /\ cluster[d].region = g
      BY <2>2 DEF GetDeploymentsRecordSingle, OrElse, Live
    <3>2. g \notin LiveRegions
      BY <1>3, <2>1
    <3> QED
      BY <3>1, <3>2 DEF LiveRegions
  <2>4. PICK here : here = [q EXCEPT !.adds = q.adds \ {g}, !.regions = q.regions \cup {g},
                                     !.region = g]
    OBVIOUS
  <2>5. Shaped(here)
    BY <1>1, <2>4 DEF Shaped, Request
  <2>6. PICK n : n = Call(here, "create", <<"add.release">>)
    OBVIOUS
  <2>7. n.pc = "create" /\ Become(r, n)
    BY <2>2, <2>3, <2>4, <2>5, <2>6, CallFields
  <2> QED
    BY <2>7 DEF End, Become, Idle, TypeOK
<1>6. PICK g \in q.adds : \E n :
        /\ Become(r, n) /\ n.pc = "create" /\ Head(n.ret) = "add.release"
        /\ Alike([q EXCEPT !.adds = q.adds \ {g}, !.regions = q.regions \cup {g},
                           !.region = g], n)
  BY <1>5, RegionsDeployDoes
<1>7. PICK n : /\ Become(r, n) /\ n.pc = "create" /\ Head(n.ret) = "add.release"
               /\ Alike([q EXCEPT !.adds = q.adds \ {g}, !.regions = q.regions \cup {g},
                                  !.region = g], n)
  BY <1>6
<1>8. /\ n.regions = q.regions \cup {g} /\ n.backups = q.backups /\ n.adds = q.adds \ {g}
      /\ n.backs = q.backs /\ n.standby = q.standby /\ n.dels = q.dels /\ n.kind = q.kind
      /\ n.toDeploy /\ n.region = g
  BY <1>1, <1>7 DEF Alike, Request
<1>9. ~First(n) /\ Place(n) = g
  BY <1>7, <1>8 DEF First, Place
<1>10. Lists(n)
  BY <1>1, <1>3, <1>7, <1>8, <1>9 DEF Lists, Undeploying
<1>11. /\ Place(n) \in n.regions /\ LiveRegions = n.regions \ {Place(n)}
       /\ n.adds \cap n.regions = {}
  BY <1>3, <1>6, <1>8, <1>9
<1>12. ListKnows(n)
  BY <1>7, <1>8, <1>9, <1>11 DEF ListKnows, Editing, Unrecorded, Undeploying
<1> QED
  BY <1>1, <1>4, <1>7, <1>10, <1>12, CalmList

\* UnDeploy finds the one deployment of its region, or none.
LEMMA UndeployFindList ==
    ASSUME Alone, TypeOK, SequenceInv, RegionInv, ListInv, NEW r \in Requests, UndeployFind(r)
    PROVE  ListInv'
<1> DEFINE q == req[r]
<1>1. /\ q \in Request /\ q.pc = "undeploy.find" /\ Lists(q) /\ (app.exists => ListKnows(q))
  BY DEF TypeOK, UndeployFind, At, ListInv
<1>2. Lasting /\ AppKept
  BY LastingSteps, KeptSteps DEF UndeployFind, Reads
<1>3. PICK d \in GetDeploymentsRecordSingle(q.region, "running") :
        Become(r, [q EXCEPT !.pc = "undeploy.route", !.dep = d])
  BY DEF UndeployFind
<1>4. PICK n : n = [q EXCEPT !.pc = "undeploy.route", !.dep = d]
  OBVIOUS
<1>5. n.pc = "undeploy.route" /\ n.dep = d /\ n.ret = q.ret /\ SameLists(q, n) /\ Become(r, n)
  BY <1>1, <1>3, <1>4 DEF Request, SameLists
<1>6. \A e \in Live : e = d <=> cluster[e].region = q.region
  <2> DEFINE found == {e \in Rows : cluster[e].region = q.region /\ row[e].status = "running"}
  <2>1. \A e \in Live : e \in found <=> cluster[e].region = q.region
    BY DEF Live, RegionInv, TypeOK, TablesTypeOK, DeploymentRow, RowStatus, Rows
  <2>2. \A e, f \in Live : cluster[e].region = cluster[f].region => e = f
    BY CountsOneEach DEF RegionInv, OneEach
  <2>3. found \subseteq Live /\ NoDeployment \notin Live
    BY TablesAssumption DEF Live, Rows, DeploymentIds, NoDeployment
  <2>4. d \in OrElse(found, NoDeployment)
    BY <1>3 DEF GetDeploymentsRecordSingle
  <2>5. CASE found = {}
    BY <2>1, <2>3, <2>4, <2>5 DEF OrElse
  <2>6. CASE d \in found
    BY <2>1, <2>2, <2>3, <2>6
  <2> QED
    BY <2>4, <2>5, <2>6 DEF OrElse
<1>7. Lists(n)
  BY <1>1, <1>5 DEF Lists, SameLists, First, Undeploying
<1>8. app.exists => ListKnows(n)
  BY <1>1, <1>5, <1>6 DEF ListKnows, SameLists, Editing, Unrecorded, Undeploying
<1> QED
  BY <1>1, <1>2, <1>5, <1>7, <1>8, CalmList

\* The route is removed; rows and lists stay.
LEMMA UndeployRouteList ==
    ASSUME Alone, TypeOK, SequenceInv, ListInv, Undisturbed, NEW r \in Requests, UndeployRoute(r)
    PROVE  ListInv'
<1> DEFINE q == req[r]
<1>1. /\ q \in Request /\ Shaped(q) /\ q.pc = "undeploy.route" /\ Lists(q) /\ RowKnows(q)
  BY DEF TypeOK, UndeployRoute, At, ListInv, Shaped, SequenceInv
<1>2. app.exists /\ ListKnows(q) /\ "config" \notin Faults
  BY <1>1 DEF RowKnows, ListInv, Undisturbed
<1>3. PICK n : n = Goto(q, "undeploy.pods")
  OBVIOUS
<1>4. /\ n.pc = "undeploy.pods" /\ n.ret = q.ret /\ n.dep = q.dep /\ SameLists(q, n)
      /\ Become(r, n)
  BY <1>1, <1>2, <1>3, GotoFields, AlikeLists DEF UndeployRoute
<1>5. Lasting
  BY LastingSteps DEF UndeployRoute
<1>6. AppKept
  BY <1>2, KeptSteps DEF UndeployRoute
<1>7. Lists(n)
  BY <1>1, <1>4 DEF Lists, SameLists, First, Undeploying
<1>8. ListKnows(n)
  BY <1>1, <1>2, <1>4 DEF ListKnows, SameLists, Editing, Unrecorded, Undeploying
<1> QED
  BY <1>1, <1>4, <1>5, <1>6, <1>7, <1>8, CalmList

\* A new deployment waits for its release to be read, or inserted.
LEMMA ReleaseList ==
    ASSUME Alone, TypeOK, SequenceInv, ListInv, Undisturbed, NEW r \in Requests,
           FirstRelease(r) \/ AddRelease(r)
    PROVE  ListInv'
<1> DEFINE q == req[r]
<1>1. /\ q \in Request /\ q.pc \in {"first.release", "add.release"} /\ Lists(q)
      /\ (app.exists => ListKnows(q))
  BY DEF TypeOK, FirstRelease, AddRelease, At, ListInv
<1>2. Lasting /\ AppKept
  BY LastingSteps, FirstReleaseDoes, AddReleaseDoes
  DEF Lasting, SameRows, AppKept, Reads
<1>3. ~End(r) \/ AddRelease(r)
  <2>1. CASE FirstRelease(r)
    <3>1. PICK n : n = [q EXCEPT !.pc = "first.record", !.rel = nextRelease]
      OBVIOUS
    <3>2. Become(r, n) /\ n.pc = "first.record"
      BY <1>1, <2>1, <3>1 DEF FirstRelease, Undisturbed, Request
    <3> QED
      BY <3>2 DEF End, Become, Idle, TypeOK
  <2> QED
    BY <2>1
<1>4. PICK n : /\ Become(r, n) /\ Alike(q, n)
               /\ n.pc = IF q.pc = "first.release" THEN "first.record" ELSE "add.record"
  BY <1>1, <1>3, FirstReleaseDoes, AddReleaseDoes DEF FirstRelease, AddRelease, At
<1>5. SameLists(q, n) /\ n.dep = q.dep
  BY <1>4, AlikeLists
<1>6. Lists(n) /\ n.pc # "roll.wait"
  BY <1>1, <1>4, <1>5 DEF Lists, SameLists, First, Undeploying
<1>7. /\ First(n) <=> First(q)
      /\ Place(n) = Place(q)
      /\ n.pc \in Unrecorded /\ q.pc \in Unrecorded
  BY <1>1, <1>4, <1>5 DEF First, Place, Unrecorded
<1>8. ASSUME app.exists PROVE ListKnows(n)
  <2>1. IF First(q) THEN Place(q) = Primary /\ Primary \notin LiveRegions /\ LiveRegions = app.regions
        ELSE /\ q.toDeploy /\ Place(q) \in q.regions
             /\ LiveRegions = q.regions \ {Place(q)} /\ q.adds \cap q.regions = {}
    BY <1>1, <1>7, <1>8 DEF ListKnows
  <2>2. IF First(n) THEN Place(n) = Primary /\ Primary \notin LiveRegions /\ LiveRegions = app.regions
        ELSE /\ n.toDeploy /\ Place(n) \in n.regions
             /\ LiveRegions = n.regions \ {Place(n)} /\ n.adds \cap n.regions = {}
    BY <1>5, <1>7, <2>1 DEF SameLists
  <2>3. n.pc \in {"first.record", "add.record"}
    BY <1>4
  <2> QED
    BY <2>2, <2>3 DEF ListKnows, Editing, Unrecorded, Undeploying
<1> QED
  BY <1>1, <1>2, <1>4, <1>6, <1>8, CalmList

-----------------------------------------------------------------------------
(***************************************************************************)
(* The steps that create a deployment and insert its row                   *)
(***************************************************************************)
\* The regions of the rows, when no row and no region of one changes.
LEMMA SameLive ==
    ASSUME UNCHANGED row, \A d \in Rows : cluster'[d].region = cluster[d].region
    PROVE  LiveRegions' = LiveRegions /\ Live' = Live /\ Rows' = Rows
<1>1. Live' = Live /\ Rows' = Rows /\ Live \subseteq Rows
  BY DEF Live, Rows
<1> QED
  BY <1>1 DEF LiveRegions

\* One more row.
LEMMA OneMore ==
    ASSUME TypeOK, ListInv, NEW d \in DeploymentIds, row[d].status = "none", NEW x,
           row' = CreateDeploymentsRecord(d, x, TRUE), UNCHANGED cluster
    PROVE  LiveRegions' = LiveRegions \cup {cluster[d].region} /\ \A e \in Rows' : row'[e].named
<1>1. row'[d].status = "running" /\ row'[d].named
  BY DEF CreateDeploymentsRecord, TypeOK, TablesTypeOK
<1>2. \A e \in DeploymentIds : e # d => row'[e] = row[e]
  BY DEF CreateDeploymentsRecord, TypeOK, TablesTypeOK
<1>3. Live' = Live \cup {d}
  BY <1>1, <1>2 DEF Live, Rows
<1>4. \A e \in Rows' : row'[e].named
  BY <1>1, <1>2 DEF ListInv, Rows
<1> QED
  BY <1>3, <1>4 DEF LiveRegions

\* The deployment goes to the region that Deploy or AddOrRemoveRegions asked for.
LEMMA CreateList ==
    ASSUME Alone, TypeOK, SequenceInv, ListInv, Undisturbed, NEW r \in Requests, Create(r)
    PROVE  ListInv'
<1> DEFINE q == req[r]
<1>1. q \in Request /\ q.pc = "create" /\ Lists(q) /\ RowKnows(q)
  BY DEF TypeOK, Create, At, ListInv, SequenceInv
<1>2. app.exists /\ ListKnows(q) /\ "create" \notin Faults /\ "container" \notin Faults
  BY <1>1 DEF RowKnows, ListInv, Undisturbed
<1>3. UNCHANGED <<app, row, worker>> /\ nextDeployment \in DeploymentIds
  BY CreateDoes DEF Create
<1>4. nextDeployment' = nextDeployment + 1 /\ nextDeployment + 1 # nextDeployment
  BY <1>2, <1>3, IdsAreNat DEF Create
<1>5. /\ cluster' = CreatePods(nextDeployment, q.region)
      /\ \E n : /\ Become(r, n) /\ Alike([q EXCEPT !.dep = nextDeployment], n)
                /\ \/ n.pc = "service" /\ n.ret = q.ret /\ ~q.toDeploy
                   \/ n.pc = Head(q.ret) /\ n.pc \in DeployCallers(n.kind)
  BY <1>2, <1>4, CreateDoes
<1>6. PICK n : /\ Become(r, n) /\ Alike([q EXCEPT !.dep = nextDeployment], n)
               /\ \/ n.pc = "service" /\ n.ret = q.ret /\ ~q.toDeploy
                  \/ n.pc = Head(q.ret) /\ n.pc \in DeployCallers(n.kind)
  BY <1>5
<1>7. SameLists(q, n) /\ n.dep = nextDeployment
  BY <1>1, <1>6 DEF SameLists, Alike, Request
<1>8. \/ n.pc = "service" /\ n.ret = q.ret /\ ~q.toDeploy
      \/ n.pc = Head(q.ret) /\ n.pc \in {"first.release", "add.release"}
  BY <1>1, <1>6 DEF DeployCallers, Lists
<1>9. First(n) <=> First(q)
  BY <1>1, <1>8 DEF First
<1>10. Lists(n)
  <2>1. n.pc = "service" => ~n.toDeploy /\ Head(n.ret) # "regions.backup"
    BY <1>1, <1>6, <1>7, <1>8 DEF Lists, SameLists, DeployCallers
  <2> QED
    BY <1>1, <1>7, <1>8, <1>9, <2>1 DEF Lists, SameLists, Undeploying
<1>11. LiveRegions' = LiveRegions /\ Live' = Live /\ Rows' = Rows
  <2>1. nextDeployment \notin Rows
    BY <1>3, IdsAreNat DEF SequenceInv, Rows
  <2>2. \A d \in Rows : cluster'[d] = cluster[d]
    BY <1>5, <2>1 DEF CreatePods, TypeOK, TablesTypeOK, Rows
  <2> QED
    BY <1>3, <2>2, SameLive
<1>12. Place(n)' = Place(q)
  <2>1. cluster'[nextDeployment].region = q.region
    BY <1>3, <1>5 DEF CreatePods, TypeOK, TablesTypeOK
  <2>2. n.pc # "create"
    BY <1>8
  <2> QED
    BY <1>1, <1>7, <2>1, <2>2 DEF Place
<1>13. IF First(q) THEN Place(q) = Primary /\ Primary \notin LiveRegions /\ LiveRegions = app.regions
       ELSE /\ q.toDeploy /\ Place(q) \in q.regions
            /\ LiveRegions = q.regions \ {Place(q)} /\ q.adds \cap q.regions = {}
  BY <1>1, <1>2 DEF ListKnows
<1>14. IF First(n)' THEN /\ Place(n)' = Primary /\ Primary \notin LiveRegions'
                         /\ LiveRegions' = app'.regions
       ELSE /\ n.toDeploy /\ Place(n)' \in n.regions
            /\ LiveRegions' = n.regions \ {Place(n)'} /\ n.adds \cap n.regions = {}
  <2>1. First(n)' <=> First(n)
    BY DEF First
  <2> QED
    BY <1>3, <1>7, <1>9, <1>11, <1>12, <1>13, <2>1 DEF SameLists
<1>15. ListKnows(n)'
  BY <1>8, <1>14 DEF ListKnows, Editing, Unrecorded, Undeploying
<1>16. app'.backups = {} /\ \A d \in Rows' : row'[d].named
  BY <1>3, <1>11 DEF ListInv
<1>17. n.pc # "roll.wait" /\ q.pc # "roll.wait"
  BY <1>1, <1>8
<1> QED
  BY <1>3, <1>6, <1>10, <1>15, <1>16, <1>17, SoleList

\* Only the first deployment has its service made: when that fails, the application
\* is without it, in the list and in the rows.
LEMMA ServiceList ==
    ASSUME Alone, TypeOK, SequenceInv, ListInv, NEW r \in Requests, CreateService(r)
    PROVE  ListInv'
<1> DEFINE q == req[r]
<1>1. q \in Request /\ q.pc = "service" /\ Lists(q) /\ RowKnows(q)
  BY DEF TypeOK, CreateService, At, ListInv, SequenceInv
<1>2. app.exists /\ ListKnows(q)
  BY <1>1 DEF RowKnows, ListInv
<1>3. ~q.toDeploy /\ First(q)
  BY <1>1, <1>2 DEF Lists, ListKnows, Unrecorded
<1>4. Place(q) = Primary /\ Primary \notin LiveRegions /\ LiveRegions = app.regions
  BY <1>1, <1>2, <1>3 DEF ListKnows, Unrecorded
<1>5. UNCHANGED <<app, row, worker>> /\ q.dep \in DeploymentIds
  BY <1>1, ServiceDoes DEF RowKnows, Unrecorded
<1>6. \A d \in DeploymentIds : cluster'[d].region = cluster[d].region
  <2>1. \A d \in DeploymentIds : cluster[d] \in Workload
    BY DEF TypeOK, TablesTypeOK
  <2>2. \/ cluster' = cluster \/ cluster' = [cluster EXCEPT ![q.dep].service = TRUE]
        \/ cluster' = DeletePods(q.dep)
    BY DEF CreateService
  <2>3. CASE cluster' = [cluster EXCEPT ![q.dep].service = TRUE]
    BY <1>5, <2>1, <2>3 DEF TypeOK, TablesTypeOK, Workload
  <2>4. CASE cluster' = DeletePods(q.dep)
    BY <2>1, <2>4 DEF DeletePods, Workload
  <2> QED
    BY <2>2, <2>3, <2>4
<1>7. LiveRegions' = LiveRegions /\ Rows' = Rows
  BY <1>5, <1>6, SameLive DEF Rows
<1>8. app'.backups = {} /\ \A d \in Rows' : row'[d].named
  BY <1>5, <1>7 DEF ListInv
<1>9. CASE End(r)
  <2>1. Lists(Idle) /\ Idle.pc = "idle"
    BY DEF Lists, First, Idle, Undeploying
  <2>2. ListKnows(Idle)'
    BY <1>4, <1>5, <1>7, <2>1 DEF ListKnows, Editing, Unrecorded, Undeploying
  <2> QED
    BY <1>1, <1>5, <1>8, <1>9, <2>1, <2>2, SoleList DEF End
<1>10. CASE ~End(r)
  <2>1. PICK n : /\ Become(r, n) /\ Alike(q, n) /\ n.pc = Head(q.ret)
    BY <1>10, ServiceDoes
  <2>2. n.pc = "first.release" /\ SameLists(q, n) /\ n.dep = q.dep
    BY <1>1, <1>3, <2>1, AlikeLists DEF First
  <2>3. Lists(n)
    BY <1>1, <1>3, <2>2 DEF Lists, SameLists, First, Undeploying
  <2>4. Place(n)' = Primary
    BY <1>1, <1>4, <1>5, <1>6, <2>2 DEF Place
  <2>5. First(n)'
    BY <2>2 DEF First
  <2>6. ListKnows(n)'
    BY <1>4, <1>5, <1>7, <2>2, <2>4, <2>5 DEF ListKnows, Editing, Unrecorded, Undeploying
  <2> QED
    BY <1>1, <1>5, <1>8, <2>1, <2>2, <2>3, <2>6, SoleList
<1> QED
  BY <1>9, <1>10

\* The row of the first deployment, before its region is listed,
LEMMA FirstRecordList ==
    ASSUME Alone, TypeOK, SequenceInv, ListInv, Undisturbed, NEW r \in Requests, FirstRecord(r)
    PROVE  ListInv'
<1> DEFINE q == req[r]
<1>1. /\ q \in Request /\ q.pc = "first.record" /\ Lists(q) /\ RowKnows(q) /\ First(q)
      /\ InPlace(q)
  BY DEF TypeOK, FirstRecord, At, ListInv, SequenceInv, First
<1>2. app.exists /\ ListKnows(q) /\ "insert" \notin Faults /\ q.kind = "deploy"
  BY <1>1 DEF RowKnows, ListInv, Undisturbed, InPlace
<1>3. /\ cluster[q.dep].region = Primary /\ LiveRegions = app.regions
      /\ ~q.toDeploy /\ q.dels = {} /\ q.dep \in DeploymentIds /\ row[q.dep].status = "none"
  BY <1>1, <1>2 DEF ListKnows, Lists, RowKnows, Place, Unrecorded
<1>4. UNCHANGED <<app, cluster, worker>> /\ row' = CreateDeploymentsRecord(q.dep, q.rel, TRUE)
  BY <1>2, FirstRecordDoes DEF FirstRecord
<1>5. PICK n : n = Call([q EXCEPT !.adds = {Primary}], "regions.read", <<"first.route">>)
  OBVIOUS
<1>6. /\ Become(r, n) /\ n.pc = "regions.read" /\ n.adds = {Primary} /\ n.kind = q.kind
      /\ n.dels = {} /\ ~n.toDeploy /\ n.region = q.region
      /\ n.backs = q.backs /\ n.backups = q.backups /\ n.standby = q.standby
  BY <1>1, <1>2, <1>3, <1>5 DEF FirstRecord, Call, Request
<1>7. Lists(n)
  BY <1>1, <1>2, <1>6 DEF Lists, First, Undeploying
<1>8. LiveRegions' = LiveRegions \cup {Primary} /\ \A e \in Rows' : row'[e].named
  BY <1>3, <1>4, OneMore
<1>9. LiveRegions' = Edited(n, app'.regions)
  BY <1>3, <1>4, <1>6, <1>8 DEF Edited
<1>10. ListKnows(n)'
  BY <1>6, <1>9 DEF ListKnows, Edited, Editing, Unrecorded, Undeploying
<1>11. app'.backups = {}
  BY <1>4 DEF ListInv
<1> QED
  BY <1>1, <1>4, <1>6, <1>7, <1>8, <1>10, <1>11, SoleList

\* and the row of a region that is.
LEMMA AddRecordList ==
    ASSUME Alone, TypeOK, SequenceInv, ListInv, Undisturbed, NEW r \in Requests, AddRecord(r)
    PROVE  ListInv'
<1> DEFINE q == req[r]
<1>1. q \in Request /\ q.pc = "add.record" /\ Lists(q) /\ RowKnows(q) /\ ~First(q)
  BY DEF TypeOK, AddRecord, At, ListInv, SequenceInv, First
<1>2. app.exists /\ ListKnows(q) /\ "insert" \notin Faults
  BY <1>1 DEF RowKnows, ListInv, Undisturbed
<1>3. /\ q.toDeploy /\ cluster[q.dep].region \in q.regions
      /\ LiveRegions = q.regions \ {cluster[q.dep].region} /\ q.adds \cap q.regions = {}
      /\ q.dep \in DeploymentIds /\ row[q.dep].status = "none"
  BY <1>1, <1>2 DEF ListKnows, RowKnows, Place, Unrecorded
<1>4. UNCHANGED <<app, cluster, worker>> /\ row' = CreateDeploymentsRecord(q.dep, q.rel, TRUE)
  BY <1>2, AddRecordDoes DEF AddRecord
<1>5. PICK n : n = [q EXCEPT !.pc = "add.route", !.last = q.dep]
  OBVIOUS
<1>6. Become(r, n) /\ n.pc = "add.route" /\ SameLists(q, n)
  BY <1>1, <1>2, <1>5 DEF AddRecord, SameLists, Request
<1>7. Lists(n)
  BY <1>1, <1>6 DEF Lists, SameLists, First, Undeploying
<1>8. LiveRegions' = LiveRegions \cup {cluster[q.dep].region} /\ \A e \in Rows' : row'[e].named
  BY <1>3, <1>4, OneMore
<1>9. LiveRegions' = n.regions /\ n.toDeploy /\ n.adds \cap n.regions = {}
  BY <1>3, <1>6, <1>8 DEF SameLists
<1>10. ListKnows(n)'
  BY <1>6, <1>9 DEF ListKnows, Editing, Unrecorded, Undeploying
<1>11. app'.backups = {}
  BY <1>4 DEF ListInv
<1> QED
  BY <1>1, <1>4, <1>6, <1>7, <1>8, <1>10, <1>11, SoleList

-----------------------------------------------------------------------------
(***************************************************************************)
(* The steps that take a deployment or its row away                        *)
(***************************************************************************)
\* The cluster deletes the deployment; its row is marked later.
LEMMA UndeployPodsList ==
    ASSUME Alone, TypeOK, SequenceInv, ListInv, Undisturbed, NEW r \in Requests,
           UndeployPods(r) \/ UndeployService(r)
    PROVE  ListInv'
<1> DEFINE q == req[r]
<1>1. /\ q \in Request /\ Shaped(q) /\ q.pc \in {"undeploy.pods", "undeploy.service"}
      /\ Lists(q) /\ (app.exists => ListKnows(q))
  BY DEF TypeOK, UndeployPods, UndeployService, At, ListInv, Shaped
<1>2. ~UndeployFails(r)
  BY DEF UndeployFails, Undisturbed
<1>3. /\ UNCHANGED <<app, row, worker>>
      /\ \/ cluster' = DeletePods(DeploymentId(q.dep))
         \/ \E d : cluster' = DeleteService(d, q.region)
  BY <1>2 DEF UndeployPods, UndeployService, OnlyCluster, Same
<1>4. \A d \in DeploymentIds : cluster'[d].region = cluster[d].region
  <2>1. \A d \in DeploymentIds : cluster[d] \in Workload
    BY DEF TypeOK, TablesTypeOK
  <2>2. CASE cluster' = DeletePods(DeploymentId(q.dep))
    BY <2>1, <2>2 DEF DeletePods, Workload
  <2>3. ASSUME NEW d, cluster' = DeleteService(d, q.region)
        PROVE  \A e \in DeploymentIds : cluster'[e].region = cluster[e].region
    BY <2>1, <2>3 DEF DeleteService, Workload
  <2> QED
    BY <1>3, <2>2, <2>3
<1>5. PICK label \in {"undeploy.service", "undeploy.mark"} : Become(r, Goto(q, label))
  BY <1>2 DEF UndeployPods, UndeployService
<1>6. PICK n : n = Goto(q, label)
  OBVIOUS
<1>7. n.pc = label /\ n.ret = q.ret /\ n.dep = q.dep /\ SameLists(q, n) /\ Become(r, n)
  BY <1>1, <1>5, <1>6, GotoFields, AlikeLists
<1>8. Lists(n)
  BY <1>1, <1>7 DEF Lists, SameLists, First, Undeploying
<1>9. LiveRegions' = LiveRegions /\ Live' = Live /\ Rows' = Rows
  BY <1>3, <1>4, SameLive DEF Rows
<1>10. app.exists => ListKnows(n)
  BY <1>1, <1>7 DEF ListKnows, SameLists, Editing, Unrecorded, Undeploying
<1>11. app'.exists => ListKnows(n)'
  <2>1. \A d \in Live : cluster'[d].region = cluster[d].region
    BY <1>4 DEF Live, Rows
  <2> QED
    BY <1>3, <1>7, <1>9, <1>10, <2>1 DEF ListKnows, Editing, Unrecorded, Undeploying
<1>12. app'.backups = {} /\ \A d \in Rows' : row'[d].named
  BY <1>3, <1>9 DEF ListInv
<1> QED
  BY <1>1, <1>3, <1>7, <1>8, <1>11, <1>12, SoleList

\* A row marked as destroyed is the row of its own deployment.
LEMMA OneLess ==
    ASSUME TypeOK, ListInv, NEW d,
           row' = UpdateDeploymentsRecord("destroyed", DeploymentId(d))
    PROVE  Live' = Live \ {d} /\ Rows' = Rows /\ \A e \in Rows' : row'[e].named
<1>1. \A e \in Rows : DeploymentId(e) = e /\ e # NoDeployment
  BY RowsNamed
<1>2. \A e \in Rows : DeploymentId(e) = DeploymentId(d) <=> e = d
  BY <1>1 DEF DeploymentId
<1>3. \A e \in DeploymentIds :
        /\ row[e].status = "none" => row'[e] = row[e]
        /\ row'[e].named = row[e].named
        /\ IF e \in Rows /\ e = d THEN row'[e].status = "destroyed"
           ELSE row'[e].status = row[e].status
  BY <1>2, MarkKeeps
<1>4. Rows' = Rows
  BY <1>3 DEF Rows
<1>5. Live' = Live \ {d}
  BY <1>3, <1>4 DEF Live, Rows
<1> QED
  BY <1>3, <1>4, <1>5 DEF ListInv, Rows

\* Without its row a region is no longer deployed to.
LEMMA UndeployMarkList ==
    ASSUME Alone, TypeOK, SequenceInv, ListInv, NEW r \in Requests, UndeployMark(r)
    PROVE  ListInv'
<1> DEFINE q == req[r]
<1>1. /\ q \in Request /\ q.pc = "undeploy.mark" /\ q.pc \in Undeploying /\ Lists(q)
      /\ InPlace(q) /\ RowKnows(q)
  BY DEF TypeOK, UndeployMark, At, ListInv, SequenceInv, Undeploying
<1>2. app.exists /\ ListKnows(q)
  BY <1>1 DEF RowKnows, ListInv
<1>3. UNCHANGED <<app, cluster, worker>>
  BY DEF UndeployMark, OnlyRow, Same
<1>4. Live' = Live \ {q.dep} /\ \A e \in Rows' : row'[e].named
  BY OneLess DEF UndeployMark
<1>5. LiveRegions' = LiveRegions \ {q.region}
  <2>1. \A d \in Live : d = q.dep <=> cluster[d].region = q.region
    BY <1>1, <1>2 DEF ListKnows
  <2> QED
    BY <1>3, <1>4, <2>1 DEF LiveRegions
<1>6. PICK n : n = Return(q)
  OBVIOUS
<1>7. /\ Become(r, n) /\ SameLists(q, n) /\ n.pc = Head(q.ret)
      /\ n.pc \in {"regions.del", "regions.read"}
  BY <1>1, <1>6, UndeployReturns, AlikeLists DEF UndeployMark, Lists
<1>8. Lists(n)
  BY <1>1, <1>7 DEF Lists, SameLists, First, Undeploying
<1>9. ListKnows(n)'
  <2>1. CASE n.pc = "regions.del"
    <3>1. q.toDeploy /\ q.adds = {} /\ LiveRegions \ {q.region} = q.regions
      BY <1>1, <1>2, <1>7, <2>1 DEF ListKnows
    <3>2. LiveRegions' = Edited(n, n.regions) /\ n.adds = {}
      BY <1>5, <1>7, <3>1 DEF Edited, SameLists
    <3> QED
      BY <2>1, <3>2 DEF ListKnows, Edited, Editing, Unrecorded, Undeploying
  <2>2. CASE n.pc = "regions.read"
    <3>1. LiveRegions \ {q.region} = app.regions \ {q.region}
      BY <1>1, <1>2, <1>7, <2>2 DEF ListKnows
    <3>2. q.kind = "delete"
      BY <1>1, <1>7, <2>2 DEF InPlace, CalledFrom, UndeployCallers, Undeploying
    <3>3. ~q.toDeploy /\ q.adds = {} /\ q.dels = {q.region} \ {NoRegion}
      BY <1>1, <3>2 DEF Lists
    <3>4. NoRegion \notin app.regions
      BY LifecycleAssumption DEF NoRegion, TypeOK, TablesTypeOK, AppRow
    <3>5. LiveRegions' = Edited(n, app'.regions)
      BY <1>3, <1>5, <1>7, <3>1, <3>3, <3>4 DEF Edited, SameLists
    <3> QED
      BY <2>2, <3>5 DEF ListKnows, Edited, Editing, Unrecorded, Undeploying
  <2> QED
    BY <1>7, <2>1, <2>2
<1>10. app'.backups = {} /\ n.pc # "roll.wait"
  BY <1>3, <1>7 DEF ListInv
<1> QED
  BY <1>1, <1>3, <1>4, <1>7, <1>8, <1>9, <1>10, SoleList

\* Of an application that is deleted the list does not matter any more.
LEMMA DeleteList ==
    ASSUME Alone, TypeOK, SequenceInv, ListInv, NEW r \in Requests,
           DeleteRecord(r) \/ DeleteRows(r) \/ DeleteReleases(r)
    PROVE  ListInv'
<1> DEFINE q == req[r]
<1>1. /\ q \in Request /\ Shaped(q) /\ Lists(q) /\ (app.exists => ListKnows(q))
      /\ q.pc \in {"delete.bare", "delete.app", "delete.rows", "delete.releases"}
  BY DEF TypeOK, DeleteRecord, DeleteRows, DeleteReleases, At, ListInv, Shaped
<1>2. ~app'.exists /\ app'.backups = {} /\ UNCHANGED worker
  <2>1. app \in AppRow /\ app.backups = {}
    BY DEF TypeOK, TablesTypeOK, ListInv
  <2>2. CASE DeleteRecord(r)
    BY <2>1, <2>2 DEF DeleteRecord, Same, AppRow
  <2>3. CASE DeleteRows(r) \/ DeleteReleases(r)
    BY <1>1, <2>1, <2>3 DEF DeleteRows, DeleteReleases, At, OnlyRow, OnlyRelease, Same, ListKnows
  <2> QED
    BY <2>2, <2>3
<1>3. \A d \in Rows' : row'[d].named
  <2>1. CASE DeleteRows(r)
    BY <2>1 DEF DeleteRows, Rows, TypeOK, TablesTypeOK, DeploymentRow
  <2>2. CASE UNCHANGED row
    BY <2>2 DEF ListInv, Rows
  <2> QED
    BY <2>1, <2>2 DEF DeleteRecord, DeleteReleases, OnlyApp, OnlyRelease
<1>4. \E n : /\ Become(r, n) /\ n.pc \in {"idle", "delete.rows", "delete.releases"}
             /\ n = Idle \/ SameLists(q, n)
  <2>1. CASE End(r)
    BY <2>1 DEF End, Idle
  <2>2. ASSUME NEW label \in {"delete.rows", "delete.releases"}, Become(r, Goto(q, label))
        PROVE  \E n : /\ Become(r, n) /\ n.pc \in {"idle", "delete.rows", "delete.releases"}
                      /\ n = Idle \/ SameLists(q, n)
    <3>1. PICK n : n = Goto(q, label)
      OBVIOUS
    <3>2. n.pc = label /\ SameLists(q, n)
      BY <1>1, <3>1, GotoFields, AlikeLists
    <3> QED
      BY <2>2, <3>1, <3>2
  <2> QED
    BY <2>1, <2>2 DEF DeleteRecord, DeleteRows, DeleteReleases, End
<1>5. PICK n : /\ Become(r, n) /\ n.pc \in {"idle", "delete.rows", "delete.releases"}
               /\ n = Idle \/ SameLists(q, n)
  BY <1>4
<1>6. Idle.standby = {} /\ Idle.backs = {} /\ Idle.backups = {} /\ Idle.kind = "none"
  BY DEF Idle
<1>7. Lists(n)
  BY <1>1, <1>5, <1>6 DEF Lists, SameLists, First, Undeploying
<1>8. q.pc # "roll.wait" /\ n.pc # "roll.wait"
  BY <1>1, <1>5
<1> QED
  BY <1>2, <1>3, <1>5, <1>7, <1>8, SoleList

-----------------------------------------------------------------------------
(***************************************************************************)
(* A new release is rolled out                                             *)
(***************************************************************************)
\* Each row of the old release gets its goroutine; at the end none is left.
LEMMA RollList ==
    ASSUME Alone, TypeOK, SequenceInv, ListInv, NEW r \in Requests, RollRows(r) \/ RollWait(r)
    PROVE  ListInv'
<1> DEFINE q == req[r]
<1>1. q \in Request /\ Shaped(q) /\ Lists(q) /\ RowKnows(q)
  BY DEF TypeOK, ListInv, Shaped, SequenceInv
<1>2. UNCHANGED <<app, row, cluster>> /\ q.pc \in {"roll.rows", "roll.wait"}
  BY DEF RollRows, RollWait, Reads, At
<1>3. app.exists /\ ListKnows(q) /\ RollKnows(r)
  BY <1>1, <1>2 DEF RowKnows, ListInv
<1>4. LiveRegions' = LiveRegions /\ Live' = Live /\ Rows' = Rows
  BY <1>2, SameLive
<1>5. app'.backups = {} /\ \A d \in Rows' : row'[d].named
  BY <1>2, <1>4 DEF ListInv
<1>6. CASE RollRows(r)
  <2>1. PICK n : n = [q EXCEPT !.pc = "roll.wait", !.fresh = nextRelease]
    OBVIOUS
  <2>2. n.pc = "roll.wait" /\ SameLists(q, n) /\ Become(r, n)
    BY <1>1, <1>6, <2>1 DEF RollRows, Request, SameLists
  <2>3. \A d \in DeploymentIds :
          /\ worker'[r][d].stage \in {"off", "delete"}
          /\ worker'[r][d].stage # "off" => d \in GetDeploymentsByReleaseId(q.rel)
    BY <1>6 DEF RollRows, NoWorker, TypeOK
  <2>4. GetDeploymentsByReleaseId(q.rel) \subseteq Live
    BY DEF GetDeploymentsByReleaseId, Live, Rows, TypeOK, TablesTypeOK, DeploymentRow, RowStatus
  <2>5. LiveRegions = app.regions
    BY <1>3, <1>6 DEF RollRows, At, ListKnows, Editing, Unrecorded, Undeploying
  <2>6. LiveRegions' \cup {cluster'[d].region : d \in {e \in DeploymentIds : worker'[r][e].stage # "off"}}
          = app'.regions
    BY <1>2, <1>4, <2>3, <2>4, <2>5 DEF LiveRegions
  <2>7. RollKnows(r)'
    BY <2>6 DEF RollKnows
  <2>8. Lists(n)
    BY <1>1, <2>2 DEF Lists, SameLists, First, Undeploying
  <2>9. ListKnows(n)'
    BY <2>2 DEF ListKnows, Editing, Unrecorded, Undeploying
  <2> QED
    BY <1>5, <2>2, <2>3, <2>7, <2>8, <2>9, ActList
<1>7. CASE RollWait(r)
  <2>1. PICK n : n = Goto(q, "roll.retire")
    OBVIOUS
  <2>2. n.pc = "roll.retire" /\ SameLists(q, n) /\ Become(r, n)
    BY <1>1, <1>7, <2>1, GotoFields, AlikeLists DEF RollWait
  <2>3. \A d \in DeploymentIds : worker[r][d].stage = "off" /\ worker'[r][d].stage = "off"
    BY <1>7 DEF RollWait, Reads
  <2>4. LiveRegions = app.regions
    BY <1>3, <1>7, <2>3 DEF RollWait, At, RollKnows
  <2>5. RollKnows(r)'
    BY <2>2 DEF RollKnows, At, Become, TypeOK
  <2>6. Lists(n)
    BY <1>1, <2>2 DEF Lists, SameLists, First, Undeploying
  <2>7. ListKnows(n)'
    BY <1>2, <1>4, <2>2, <2>4 DEF ListKnows, Editing, Unrecorded, Undeploying
  <2> QED
    BY <1>5, <2>2, <2>3, <2>5, <2>6, <2>7, ActList
<1> QED
  BY <1>6, <1>7

\* Between its deployment's end and the next one's row, a region has its goroutine.
LEMMA WorkList ==
    ASSUME Alone, TypeOK, SequenceInv, RegionInv, ListInv, Undisturbed,
           NEW r \in Requests, NEW d \in DeploymentIds, Work(r, d)
    PROVE  ListInv'
<1> DEFINE w == worker[r][d]
           Replaced == {e \in DeploymentIds : worker[r][e].stage # "off"}
           Covered == LiveRegions \cup {cluster[e].region : e \in Replaced}
<1>1. w.stage # "off" /\ app' = app
  BY DEF Work, WorkerDelete, WorkerMark, WorkerCreate, WorkerPanic, WorkerRecord, OnlyCluster,
     OnlyRow, Halt, tables
<1>2. req[r].pc = "roll.wait" /\ req[r].seen # Gone /\ app.exists /\ d \in Rows
  BY <1>1 DEF SequenceInv, ReplacerKnows, RowKnows, At
<1>3. ~WorkerPanic(r, d)
  BY <1>2 DEF WorkerPanic
<1>4. \A s \in Requests : s = r
  BY DEF Alone
<1>5. \A e \in DeploymentIds :
        PlaceKnows(r, e) /\ ReplacerKnows(r, e) /\ worker[r][e] \in Worker
  BY DEF RegionInv, SequenceInv, TypeOK
<1>6. \A x : Stage(r, d, x) => /\ worker'[r][d] = x
                               /\ \A e \in DeploymentIds : e # d => worker'[r][e] = worker[r][e]
  BY DEF Stage, TypeOK
<1>7. "create" \notin Faults /\ "container" \notin Faults /\ "insert" \notin Faults
  BY DEF Undisturbed
<1>8. Lists(req[r]) /\ Covered = app.regions /\ \A e \in Rows : row[e].named
  BY <1>2 DEF ListInv, RollKnows, At
<1>9. \A e \in DeploymentIds : worker[r][e].stage = "record" => worker[r][e].new # NoDeployment
  BY DEF ListInv
<1>10. Replaced \subseteq Rows /\ d \in Replaced
  BY <1>1, <1>5 DEF ReplacerKnows
<1>11. ASSUME UNCHANGED req, \A e \in Rows' : row'[e].named, Covered' = Covered,
              \A e \in DeploymentIds :
                worker'[r][e].stage = "record" => worker'[r][e].new # NoDeployment
       PROVE  ListInv'
  <2>1. ListKnows(req[r])'
    BY <1>2, <1>11 DEF ListKnows, Editing, Unrecorded, Undeploying
  <2>2. RollKnows(r)'
    BY <1>1, <1>8, <1>11 DEF RollKnows
  <2>3. Lists(req[r])'
    BY <1>8, <1>11 DEF Lists, First
  <2>4. app'.backups = {}
    BY <1>1 DEF ListInv
  <2> QED
    BY <1>4, <1>11, <2>1, <2>2, <2>3, <2>4 DEF ListInv
<1>12. CASE WorkerDelete(r, d) \/ WorkerMark(r, d)
  <2>1. PICK x : x = [w EXCEPT !.stage = IF w.stage = "delete" THEN "mark" ELSE "create"]
    OBVIOUS
  <2>2. x.stage \in {"mark", "create"} /\ Stage(r, d, x) /\ UNCHANGED req
    BY <1>5, <1>12, <2>1 DEF WorkerDelete, WorkerMark, Worker
  <2>3. /\ cluster' = cluster \/ cluster' = DeletePods(DeploymentId(d))
        /\ row' = row \/ row' = UpdateDeploymentsRecord("destroyed", DeploymentId(d))
    BY <1>12 DEF WorkerDelete, WorkerMark, OnlyCluster, OnlyRow
  <2>4. \A e \in DeploymentIds : cluster'[e].region = cluster[e].region
    BY <2>3 DEF DeletePods, TypeOK, TablesTypeOK, Workload
  <2>5. /\ Live' = Live \/ Live' = Live \ {d}
        /\ \A e \in Rows' : row'[e].named
    <3>1. CASE row' = row
      BY <1>8, <3>1 DEF Live, Rows
    <3>2. CASE row' = UpdateDeploymentsRecord("destroyed", DeploymentId(d))
      BY <3>2, OneLess
    <3> QED
      BY <2>3, <3>1, <3>2
  <2>6. Replaced' = Replaced
    BY <1>1, <1>6, <2>2
  <2>7. Live \subseteq DeploymentIds /\ Replaced \subseteq DeploymentIds
    BY DEF Live, Rows
  <2>8. Covered' = Covered
    <3> HIDE DEF Replaced
    <3>1. \A e \in Live : e \in Live' \/ e \in Replaced
      BY <1>10, <2>5
    <3>2. Live' \subseteq Live
      BY <2>5
    <3> QED
      BY <2>4, <2>6, <2>7, <3>1, <3>2 DEF LiveRegions
  <2>9. \A e \in DeploymentIds :
          worker'[r][e].stage = "record" => worker'[r][e].new # NoDeployment
    BY <1>6, <1>9, <2>2
  <2> QED
    BY <1>11, <2>2, <2>5, <2>8, <2>9
<1>13. CASE WorkerCreate(r, d)
  <2>1. /\ UNCHANGED <<req, row>> /\ nextDeployment \in DeploymentIds
        /\ cluster' = CreatePods(nextDeployment, cluster[d].region)
        /\ Stage(r, d, [stage |-> "record", new |-> nextDeployment])
    BY <1>7, <1>13 DEF WorkerCreate
  <2>2. nextDeployment \notin Rows
    BY <2>1, IdsAreNat DEF SequenceInv, Rows
  <2>3. \A e \in Rows : cluster'[e] = cluster[e]
    BY <2>1, <2>2 DEF CreatePods, TypeOK, TablesTypeOK, Rows
  <2>4. Replaced' = Replaced
    BY <1>1, <1>6, <2>1
  <2>5. LiveRegions' = LiveRegions /\ Rows' = Rows
    BY <2>1, <2>3, SameLive
  <2>6. Covered' = Covered
    <3> HIDE DEF Replaced
    <3> QED
      BY <1>10, <2>3, <2>4, <2>5
  <2>7. \A e \in DeploymentIds :
          worker'[r][e].stage = "record" => worker'[r][e].new # NoDeployment
    BY <1>6, <1>9, <2>1, IdsAreNat, TablesAssumption DEF NoDeployment, DeploymentIds
  <2> QED
    BY <1>8, <1>11, <2>1, <2>5, <2>6, <2>7
<1>14. CASE WorkerRecord(r, d)
  <2>1. /\ Stage(r, d, NoWorker) /\ w.stage = "record" /\ UNCHANGED <<req, cluster>>
        /\ row' = CreateDeploymentsRecord(w.new, req[r].fresh, TRUE)
    BY <1>7, <1>9, <1>14 DEF WorkerRecord
  <2>2. /\ w.new \in DeploymentIds /\ row[w.new].status = "none"
        /\ cluster[w.new].region = cluster[d].region
    BY <1>5, <1>9, <2>1 DEF PlaceKnows, ReplacerKnows, Worker
  <2>3. LiveRegions' = LiveRegions \cup {cluster[w.new].region} /\ \A e \in Rows' : row'[e].named
    BY <2>1, <2>2, OneMore
  <2>4. Replaced' = Replaced \ {d}
    BY <1>6, <2>1 DEF NoWorker
  <2>5. Covered' = Covered
    <3> HIDE DEF Replaced
    <3> QED
      BY <1>10, <2>1, <2>2, <2>3, <2>4
  <2>6. \A e \in DeploymentIds :
          worker'[r][e].stage = "record" => worker'[r][e].new # NoDeployment
    BY <1>6, <1>9, <2>1 DEF NoWorker
  <2> QED
    BY <1>11, <2>1, <2>3, <2>5, <2>6
<1> QED
  BY <1>3, <1>12, <1>13, <1>14 DEF Work

-----------------------------------------------------------------------------
(***************************************************************************)
(* Every step                                                              *)
(***************************************************************************)
\* A request starts from the list as it is.
LEMMA MutationList ==
    ASSUME Alone, TypeOK, SequenceInv, ListInv, Undisturbed, NEW r \in Requests, Mutation(r)
    PROVE  ListInv'
<1>1. PICK n : Issued(n) /\ Become(r, n)
  BY MutationDoes
<1>2. req[r].pc = "idle" /\ Lasting /\ AppKept
  BY MutationDoes DEF tables, Lasting, SameRows, AppKept
<1>3. n.pc \in {"deploy.find", "regions.read", "scale.find", "image.release", "delete.read"}
  BY <1>1 DEF Issued
<1>4. Lists(n)
  BY <1>1, <1>3 DEF Issued, Lists, First, Undeploying, Undisturbed
<1>5. app.exists => LiveRegions = app.regions
  BY <1>2 DEF ListInv, ListKnows, Editing, Unrecorded, Undeploying
<1>6. n.pc = "regions.read" => n.toDeploy
  BY <1>1 DEF Issued
<1>7. app.exists => ListKnows(n)
  BY <1>3, <1>5, <1>6 DEF ListKnows, Edited, Editing, Unrecorded, Undeploying
<1> QED
  BY <1>1, <1>2, <1>3, <1>4, <1>7, CalmList

\* Nobody has backup regions.
LEMMA NoStandby ==
    ASSUME ListInv, NEW r \in Requests
    PROVE  ~RegionsStandby(r) /\ ~StandbyDrop(r) /\ ~RegionsBackup(r)
  BY DEF ListInv, Lists, RegionsStandby, StandbyDrop, RegionsBackup, At

\* Every step of a request, a mutation's first one and a goroutine's apart,
LEMMA StepList ==
    ASSUME Alone, TypeOK, SequenceInv, RegionInv, ListInv, Undisturbed,
           NEW r \in Requests, Step(r)
    PROVE  ListInv'
<1>1. CASE Deploy(r)
  BY <1>1, FindList, CreateList, ServiceList, ReleaseList, FirstRecordList, RouteList DEF Deploy
<1>2. CASE CreateNewAppRelease(r)
  BY <1>2, RollList, RollPlain, PlainStepList DEF CreateNewAppRelease
<1>3. CASE AddOrRemoveRegions(r)
  BY <1>3, ReadList, EditList, LoopList, WriteList, RegionsDeployList, ReleaseList, AddRecordList,
     NoStandby DEF AddOrRemoveRegions
<1>4. CASE UnDeploy(r)
  BY <1>4, UndeployFindList, UndeployRouteList, UndeployPodsList, UndeployMarkList DEF UnDeploy
<1>5. CASE Delete(r)
  BY <1>5, DeleteReadList, DeleteCheckPlain, DeleteList, PlainStepList DEF Delete
<1>6. CASE Config(r)
  BY <1>6, AgainList, ConfigPlain, PlainStepList
<1>7. CASE UpdateAppStatus(r) \/ SuspendResumePods(r) \/ Image(r)
  BY <1>7, StatusPlain, ScalePlain, ImagePlain, PlainStepList
<1> QED
  BY <1>1, <1>2, <1>3, <1>4, <1>5, <1>6, <1>7 DEF Step

\* and every step there is.
LEMMA NextList ==
    ASSUME Alone, "pause" \notin Kinds, Undisturbed, TypeOK, SequenceInv, RegionInv, ListInv,
           [Next]_vars
    PROVE  ListInv'
<1>1. CASE UNCHANGED vars
  BY <1>1 DEF vars, ListInv, Lists, ListKnows, RollKnows, LiveRegions, Live, Rows, Edited, First,
     Place, At
<1>2. CASE Done
  BY <1>1, <1>2 DEF Done
<1>3. ~Crash
  BY DEF Crash, Undisturbed
<1> QED
  BY <1>1, <1>2, <1>3, MutationList, StepList, WorkList DEF Next

\* One request after the other, without a pause, without backup regions and with no
\* failure between a row and the list, what a request knows of the list holds.
THEOREM ListInvariant == Alone /\ "pause" \notin Kinds /\ Undisturbed /\ Spec => []ListInv
<1> SUFFICES ASSUME Alone, "pause" \notin Kinds, Undisturbed PROVE Spec => []ListInv
  OBVIOUS
<1>1. TypeOK /\ SequenceInv /\ RegionInv /\ ListInv /\ [Next]_vars => ListInv'
  BY NextList
<1>2. Init => ListInv
  <2> SUFFICES ASSUME Init PROVE ListInv
    OBVIOUS
  <2>1. Rows = {} /\ app.regions = {} /\ app.backups = {}
    BY DEF Init, TablesInit, NoDeploymentRow, Rows
  <2>2. LiveRegions = {}
    BY <2>1 DEF LiveRegions, Live
  <2>3. Lists(Idle)
    BY DEF Lists, First, Idle, Undeploying
  <2>4. ListKnows(Idle)
    BY <2>1, <2>2 DEF ListKnows, Idle, Editing, Unrecorded, Undeploying
  <2>5. \A r \in Requests : req[r] = Idle /\ Idle.pc = "idle"
    BY DEF Init, Idle
  <2>6. \A r \in Requests, d \in DeploymentIds : worker[r][d].stage = "off"
    BY DEF Init, NoWorker
  <2> QED
    BY <2>1, <2>3, <2>4, <2>5, <2>6 DEF ListInv, RollKnows, At
<1>3. "pause" \notin Kinds
  OBVIOUS
<1> QED
  BY <1>1, <1>2, <1>3, TypeCorrect, SequenceInvariant, RegionInvariant, PTL DEF Spec

\* When every request has been answered, the regions listed are those deployed to.
\* (Without a slot for a request ListInv would say nothing.)
THEOREM RegionsAlwaysMatch ==
    /\ Alone /\ Requests # {} /\ "pause" \notin Kinds /\ Undisturbed
    /\ Spec
    => []RegionsMatchRows
<1> SUFFICES ASSUME Alone, Requests # {}, "pause" \notin Kinds, Undisturbed
             PROVE  Spec => []RegionsMatchRows
  OBVIOUS
<1>1. ListInv => RegionsMatchRows
  <2> SUFFICES ASSUME ListInv PROVE RegionsMatchRows
    OBVIOUS
  <2>1. ASSUME NEW r \in Requests, At(r, "idle"), app.exists PROVE LiveRegions = app.regions
    BY <2>1 DEF ListInv, ListKnows, At, Editing, Unrecorded, Undeploying
  <2> QED
    BY <2>1 DEF RegionsMatchRows, Quiet, LiveRegions
<1>2. Alone /\ "pause" \notin Kinds /\ Undisturbed
  OBVIOUS
<1> QED
  BY <1>1, <1>2, ListInvariant, PTL
=============================================================================
