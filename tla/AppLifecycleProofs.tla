-------------------------- MODULE AppLifecycleProofs --------------------------
(***************************************************************************)
(* Two theorems about every behaviour of AppLifecycle: its type invariant, *)
(* and that a row says "destroyed" only once the cluster has dropped the    *)
(* deployment.                                                              *)
(***************************************************************************)
EXTENDS AppLifecycleProperties, TLAPS

-----------------------------------------------------------------------------
(***************************************************************************)
(* The record of a request                                                 *)
(***************************************************************************)
\* The labels at which UnDeploy knows something of the deployment in hand.
UndeployLabels ==
    {"undeploy.route", "undeploy.pods", "undeploy.service", "undeploy.mark"}

\* q is a request with the deployment p has in hand, or none.
Carries(p, q) == q \in Request /\ q.dep \in {p.dep, NoDeployment}

\* Moreover it is outside of UnDeploy, and has in hand what its label needs.
Follows(p, q) ==
    /\ Carries(p, q)
    /\ q.pc \notin UndeployLabels
    /\ q.pc = "create" => q.region \in Regions
    /\ q.pc = "status.write" => q.seen \in AppStatus

\* The labels that need nothing.
PlainLabels == Labels \ (UndeployLabels \cup {"create", "status.write"})

\* Every plain label is a label of the program.
LEMMA PlainAreLabels == PlainLabels \subseteq Labels
  BY DEF PlainLabels

\* A request that reaches a plain label needs nothing more.
LEMMA PlainFollows ==
    ASSUME NEW p, NEW q, Carries(p, q), q.pc \in PlainLabels PROVE Follows(p, q)
  BY DEF Follows, PlainLabels

\* A request that has ended follows from any other.
LEMMA IdleFollows ==
    ASSUME NEW p PROVE Follows(p, Idle)
<1>1. Idle \in Request
  BY DEF Idle, Request, Labels, DeploymentIds, ReleaseIds, NoDeployment, NoRelease,
         NoRegion, Gone
<1>2. Idle.dep = NoDeployment /\ Idle.pc = "idle"
  BY DEF Idle
<1> QED
  BY <1>1, <1>2 DEF Follows, Carries, UndeployLabels

\* Moving on to a plain label.
LEMMA GotoFollows ==
    ASSUME NEW p, NEW q, Carries(p, q), NEW label \in PlainLabels
    PROVE  Follows(p, Goto(q, label))
<1>1. Carries(p, Goto(q, label)) /\ Goto(q, label).pc = label
  BY PlainAreLabels DEF Carries, Goto, Request
<1> QED
  BY <1>1, PlainFollows

\* What Call and Return do to a request.
Jump(q, label, back) == [q EXCEPT !.pc = label, !.ret = back]

\* A new label and a new list of places to return to keep the type.
LEMMA JumpType ==
    ASSUME NEW q \in Request, NEW label \in Labels, NEW back \in Seq(ReturnLabels)
    PROVE  /\ Jump(q, label, back) \in Request
           /\ Jump(q, label, back).pc = label
           /\ Jump(q, label, back).dep = q.dep
           /\ Jump(q, label, back).region = q.region
  BY ZenonT(60) DEF Request, Jump

\* A call keeps the deployment and the region in hand.
LEMMA CallType ==
    ASSUME NEW p, NEW q, Carries(p, q),
           NEW label \in Labels, NEW back \in Seq(ReturnLabels)
    PROVE  /\ Carries(p, Call(q, label, back))
           /\ Call(q, label, back).pc = label
           /\ Call(q, label, back).region = q.region
<1>1. q \in Request
  BY DEF Carries
<1> DEFINE rest == back \o q.ret
<1>2. rest \in Seq(ReturnLabels)
  BY <1>1 DEF Request
<1>3. Call(q, label, back) = Jump(q, label, rest)
  BY DEF Call, Jump
<1> HIDE DEF rest
<1> QED
  BY <1>1, <1>2, <1>3, JumpType DEF Carries

\* Calling a function that needs nothing.
LEMMA CallFollows ==
    ASSUME NEW p, NEW q, Carries(p, q),
           NEW label \in PlainLabels, NEW back \in Seq(ReturnLabels)
    PROVE  Follows(p, Call(q, label, back))
  BY CallType, PlainFollows, PlainAreLabels

\* Calling Deployment, which needs the region to deploy to.
LEMMA CallCreateFollows ==
    ASSUME NEW p, NEW q, Carries(p, q), q.region \in Regions,
           NEW back \in Seq(ReturnLabels)
    PROVE  Follows(p, Call(q, "create", back))
<1>1. "create" \in Labels
  BY DEF Labels
<1> QED
  BY <1>1, CallType DEF Follows, UndeployLabels

\* Returning from a function, or ending when nothing is left to return to.
LEMMA ReturnFollows ==
    ASSUME NEW p, NEW q, Carries(p, q) PROVE Follows(p, Return(q))
<1>1. q \in Request
  BY DEF Carries
<1>2. q.ret \in Seq(ReturnLabels)
  BY <1>1 DEF Request
<1>3. CASE q.ret = <<>>
  BY <1>3, IdleFollows DEF Return
<1>4. CASE q.ret # <<>>
  <2> DEFINE label == Head(q.ret)
             rest == Tail(q.ret)
  <2>1. label \in PlainLabels
    BY <1>2, <1>4 DEF ReturnLabels, Labels, UndeployLabels, PlainLabels
  <2>2. rest \in Seq(ReturnLabels)
    BY <1>2, <1>4
  <2>3. Return(q) = Jump(q, label, rest)
    BY <1>4 DEF Return, Jump
  <2> HIDE DEF label, rest
  <2>4. Return(q) \in Request /\ Return(q).pc = label /\ Return(q).dep = q.dep
    BY <1>1, <2>1, <2>2, <2>3, JumpType, PlainAreLabels
  <2> QED
    BY <2>1, <2>4, PlainFollows DEF Carries
<1> QED
  BY <1>3, <1>4

-----------------------------------------------------------------------------
(***************************************************************************)
(* The step of a request: outside of UnDeploy the request it becomes       *)
(* follows the one it was.                                                  *)
(***************************************************************************)
Advance(r) == \E q : Follows(req[r], q) /\ Become(r, q)

\* The four ways in which a step moves its request on: to a plain label,
LEMMA PlainAdvance ==
    ASSUME NEW r \in Requests, NEW q, Carries(req[r], q), q.pc \in PlainLabels, Become(r, q)
    PROVE  Advance(r)
  BY PlainFollows DEF Advance

\* by ending it,
LEMMA EndAdvance ==
    ASSUME NEW r \in Requests, End(r) PROVE Advance(r)
  BY IdleFollows DEF Advance, End

\* by a jump to a plain label,
LEMMA GotoAdvance ==
    ASSUME NEW r \in Requests, req[r] \in Request,
           NEW label \in PlainLabels, Become(r, Goto(req[r], label))
    PROVE  Advance(r)
<1>1. Carries(req[r], req[r])
  BY DEF Carries
<1> QED
  BY <1>1, GotoFollows DEF Advance

\* and by a return.
LEMMA ReturnAdvance ==
    ASSUME NEW r \in Requests, req[r] \in Request, Become(r, Return(req[r]))
    PROVE  Advance(r)
<1>1. Carries(req[r], req[r])
  BY DEF Carries
<1> QED
  BY <1>1, ReturnFollows DEF Advance

\* The statements that find a release or a deployment answer an id or none.
LEMMA ReleaseFound ==
    ASSUME NEW status, NEW x \in GetAppRelease(status)
    PROVE  x \in ReleaseIds \cup {NoRelease}
  BY DEF GetAppRelease, OrElse

\* Likewise for a deployment of a region.
LEMMA DeploymentFound ==
    ASSUME NEW region, NEW status, NEW d \in GetDeploymentsRecordSingle(region, status)
    PROVE  d = NoDeployment \/ d \in Rows
  BY DEF GetDeploymentsRecordSingle, OrElse

\* Deploy, up to the deployment it finds in the primary region.
LEMMA DeployFindAdvance ==
    ASSUME TypeOK, NEW r \in Requests, DeployFind(r) PROVE Advance(r)
<1>1. req[r] \in Request
  BY DEF TypeOK
<1>2. PICK d \in GetDeploymentsRecordSingle(Primary, "running") :
        Become(r, IF d = NoDeployment
                  THEN Call([req[r] EXCEPT !.region = Primary], "create", <<"first.release">>)
                  ELSE [req[r] EXCEPT !.pc = "roll.current", !.rel = row[d].release])
  BY DEF DeployFind
<1>3. CASE d = NoDeployment
  <2> DEFINE here == [req[r] EXCEPT !.region = Primary]
  <2>1. Primary \in Regions
    BY TablesAssumption
  <2>2. Carries(req[r], here) /\ here.region \in Regions
    BY <1>1, <2>1 DEF Carries, Request
  <2>3. <<"first.release">> \in Seq(ReturnLabels)
    BY DEF ReturnLabels
  <2>4. Become(r, Call(here, "create", <<"first.release">>))
    BY <1>2, <1>3
  <2> HIDE DEF here
  <2> QED
    BY <2>2, <2>3, <2>4, CallCreateFollows DEF Advance
<1>4. CASE d # NoDeployment
  <2>1. row[d].release \in ReleaseIds \cup {NoRelease}
    BY <1>2, <1>4, DeploymentFound DEF TypeOK, TablesTypeOK, DeploymentRow, Rows
  <2>2. "roll.current" \in PlainLabels
    BY DEF Labels, UndeployLabels, PlainLabels
  <2> DEFINE next == [req[r] EXCEPT !.pc = "roll.current", !.rel = row[d].release]
  <2>3. Carries(req[r], next) /\ next.pc \in PlainLabels
    BY <1>1, <2>1, <2>2, PlainAreLabels, ZenonT(60) DEF Carries, Request
  <2>4. Become(r, next)
    BY <1>2, <1>4
  <2> HIDE DEF next
  <2> QED
    BY <2>3, <2>4, PlainAdvance
<1> QED
  BY <1>3, <1>4

\* The first release of an application.
LEMMA FirstAdvance ==
    ASSUME TypeOK, NEW r \in Requests,
           FirstRelease(r) \/ FirstRecord(r) \/ FirstRoute(r)
    PROVE  Advance(r)
<1>1. req[r] \in Request
  BY DEF TypeOK
<1> DEFINE q == req[r]
<1>2. CASE FirstRelease(r)
  <2> DEFINE next == [q EXCEPT !.pc = "first.record", !.rel = nextRelease]
  <2>1. nextRelease \in ReleaseIds \cup {NoRelease} /\ (End(r) \/ Become(r, next))
    BY <1>2 DEF FirstRelease
  <2>2. "first.record" \in PlainLabels
    BY DEF Labels, UndeployLabels, PlainLabels
  <2>3. Carries(q, next) /\ next.pc \in PlainLabels
    BY <1>1, <2>1, <2>2, PlainAreLabels, ZenonT(60) DEF Carries, Request
  <2> HIDE DEF next
  <2> QED
    BY <2>1, <2>3, EndAdvance, PlainAdvance
<1>3. CASE FirstRecord(r)
  <2> DEFINE next == [q EXCEPT !.adds = {Primary}]
  <2>1. {Primary} \in SUBSET Regions
    BY TablesAssumption
  <2>2. Carries(q, next)
    BY <1>1, <2>1, ZenonT(60) DEF Carries, Request
  <2>3. "regions.read" \in PlainLabels /\ <<"first.route">> \in Seq(ReturnLabels)
    BY DEF Labels, UndeployLabels, PlainLabels, ReturnLabels
  <2>4. End(r) \/ Become(r, Call(next, "regions.read", <<"first.route">>))
    BY <1>3 DEF FirstRecord
  <2> HIDE DEF next
  <2> QED
    BY <2>2, <2>3, <2>4, CallFollows, EndAdvance DEF Advance
<1>4. CASE FirstRoute(r)
  <2> DEFINE others == Defaults \ {Primary}
             next == [q EXCEPT !.pc = "regions.read", !.toDeploy = TRUE, !.adds = others]
  <2>1. others \in SUBSET Regions
    BY TablesAssumption
  <2>2. End(r) \/ Become(r, next)
    BY <1>4 DEF FirstRoute
  <2>3. "regions.read" \in PlainLabels
    BY DEF Labels, UndeployLabels, PlainLabels
  <2> HIDE DEF others
  <2>4. Carries(q, next) /\ next.pc \in PlainLabels
    BY <1>1, <2>1, <2>3, PlainAreLabels, ZenonT(60) DEF Carries, Request
  <2> HIDE DEF next
  <2> QED
    BY <2>2, <2>4, EndAdvance, PlainAdvance
<1> QED
  BY <1>2, <1>3, <1>4

\* A new release by CreateNewAppRelease.
LEMMA RollAdvance ==
    ASSUME TypeOK, NEW r \in Requests, CreateNewAppRelease(r)
    PROVE  Advance(r)
<1>1. req[r] \in Request
  BY DEF TypeOK
<1> DEFINE q == req[r]
<1>2. CASE RollCurrent(r)
  <2>1. PICK x \in GetAppRelease("active") :
          Become(r, [q EXCEPT !.pc = "roll.app", !.version = VersionOf(x)])
    BY <1>2 DEF RollCurrent
  <2>2. VersionOf(x) \in Nat
    BY <2>1, ReleaseFound DEF VersionOf, NoRelease, TypeOK, TablesTypeOK, ReleaseRow
  <2>3. "roll.app" \in PlainLabels
    BY DEF Labels, UndeployLabels, PlainLabels
  <2> DEFINE next == [q EXCEPT !.pc = "roll.app", !.version = VersionOf(x)]
  <2>4. Carries(q, next) /\ next.pc \in PlainLabels
    BY <1>1, <2>2, <2>3, PlainAreLabels, ZenonT(60) DEF Carries, Request
  <2>5. Become(r, next)
    BY <2>1
  <2> HIDE DEF next
  <2> QED
    BY <2>4, <2>5, PlainAdvance
<1>3. CASE RollApp(r)
  <2> DEFINE seen == IF app.exists THEN app.status ELSE Gone
             next == [q EXCEPT !.pc = "roll.rows", !.seen = seen]
  <2>1. seen \in AppStatus \cup {Gone}
    BY DEF TypeOK, TablesTypeOK, AppRow
  <2>2. "roll.rows" \in PlainLabels
    BY DEF Labels, UndeployLabels, PlainLabels
  <2>3. Become(r, next)
    BY <1>3 DEF RollApp
  <2> HIDE DEF seen
  <2>4. Carries(q, next) /\ next.pc \in PlainLabels
    BY <1>1, <2>1, <2>2, PlainAreLabels, ZenonT(60) DEF Carries, Request
  <2> HIDE DEF next
  <2> QED
    BY <2>3, <2>4, PlainAdvance
<1>4. CASE RollRows(r)
  <2> DEFINE next == [q EXCEPT !.pc = "roll.wait", !.fresh = nextRelease]
  <2>1. nextRelease \in ReleaseIds \cup {NoRelease} /\ Become(r, next)
    BY <1>4 DEF RollRows
  <2>2. "roll.wait" \in PlainLabels
    BY DEF Labels, UndeployLabels, PlainLabels
  <2>3. Carries(q, next) /\ next.pc \in PlainLabels
    BY <1>1, <2>1, <2>2, PlainAreLabels, ZenonT(60) DEF Carries, Request
  <2> HIDE DEF next
  <2> QED
    BY <2>1, <2>3, PlainAdvance
<1>5. CASE RollWait(r) \/ RollRetire(r) \/ RollPublish(r)
  <2>1. {"roll.retire", "roll.publish", "roll.version"} \subseteq PlainLabels
    BY DEF Labels, UndeployLabels, PlainLabels
  <2> QED
    BY <1>1, <1>5, <2>1, GotoAdvance DEF RollWait, RollRetire, RollPublish
<1>6. CASE RollVersion(r)
  BY <1>6, EndAdvance DEF RollVersion
<1> QED
  BY <1>2, <1>3, <1>4, <1>5, <1>6 DEF CreateNewAppRelease

\* AddOrRemoveRegions: what it reads,
LEMMA RegionsReadAdvance ==
    ASSUME TypeOK, NEW r \in Requests, RegionsRead(r)
    PROVE  Advance(r)
<1>1. req[r] \in Request
  BY DEF TypeOK
<1> DEFINE q == req[r]
           oneLeft == Cardinality(app.regions) = 1 /\ Cardinality(q.dels) = 1
           adds == q.adds \ app.regions
           backs == q.backs \ app.backups
           standby == IF oneLeft THEN app.backups ELSE {}
           next == [q EXCEPT !.pc = "regions.add",
                             !.found = app.regions, !.regions = app.regions,
                             !.backups = app.backups, !.adds = adds, !.backs = backs,
                             !.standby = standby, !.last = NoDeployment]
<1>2. End(r) \/ Become(r, next)
  BY DEF RegionsRead
<1>3. app.regions \in SUBSET Regions /\ app.backups \in SUBSET Regions
  BY DEF TypeOK, TablesTypeOK, AppRow
<1>4. adds \in SUBSET Regions /\ backs \in SUBSET Regions /\ standby \in SUBSET Regions
  BY <1>1, <1>3 DEF Request
<1>5. "regions.add" \in PlainLabels
  BY DEF Labels, UndeployLabels, PlainLabels
<1> HIDE DEF adds, backs, standby
<1>6. next \in Request
  BY <1>1, <1>3, <1>4, <1>5, PlainAreLabels DEF Request, NoDeployment
<1>7. next.dep = q.dep /\ next.pc = "regions.add"
  BY <1>1 DEF Request
<1> HIDE DEF next
<1>8. Follows(q, next)
  BY <1>5, <1>6, <1>7, PlainFollows DEF Carries
<1> QED
  BY <1>2, <1>8, EndAdvance DEF Advance

\* the regions it adds,
LEMMA RegionsAddAdvance ==
    ASSUME TypeOK, NEW r \in Requests,
           RegionsAddOnly(r) \/ RegionsDeploy(r) \/ AddRelease(r) \/ AddRecord(r)
    PROVE  Advance(r)
<1>1. req[r] \in Request
  BY DEF TypeOK
<1> DEFINE q == req[r]
<1>2. CASE RegionsAddOnly(r)
  <2>1. PICK g \in q.adds :
          Become(r, [q EXCEPT !.adds = q.adds \ {g}, !.regions = q.regions \cup {g}])
    BY <1>2 DEF RegionsAddOnly
  <2> DEFINE adds == q.adds \ {g}
             regions == q.regions \cup {g}
             next == [q EXCEPT !.adds = adds, !.regions = regions]
  <2>2. adds \in SUBSET Regions /\ regions \in SUBSET Regions
    BY <1>1, <2>1 DEF Request
  <2>3. q.pc = "regions.add" /\ Become(r, next)
    BY <1>2, <2>1 DEF RegionsAddOnly, At
  <2> HIDE DEF adds, regions
  <2>4. Carries(q, next) /\ next.pc = "regions.add"
    BY <1>1, <2>2, <2>3, ZenonT(60) DEF Carries, Request
  <2>5. "regions.add" \in PlainLabels
    BY DEF Labels, UndeployLabels, PlainLabels
  <2> HIDE DEF next
  <2> QED
    BY <2>3, <2>4, <2>5, PlainAdvance
<1>3. CASE RegionsDeploy(r)
  <2>1. PICK g \in q.adds :
          LET next == [q EXCEPT !.adds = q.adds \ {g}, !.regions = q.regions \cup {g},
                                !.region = g]
          IN  End(r) \/ Become(r, Call(next, "create", <<"add.release">>))
    BY <1>3 DEF RegionsDeploy, End
  <2> DEFINE adds == q.adds \ {g}
             regions == q.regions \cup {g}
             next == [q EXCEPT !.adds = adds, !.regions = regions, !.region = g]
  <2>2. adds \in SUBSET Regions /\ regions \in SUBSET Regions /\ g \in Regions
    BY <1>1, <2>1 DEF Request
  <2>3. End(r) \/ Become(r, Call(next, "create", <<"add.release">>))
    BY <2>1
  <2> HIDE DEF adds, regions
  <2>4. Carries(q, next) /\ next.region \in Regions
    BY <1>1, <2>2, ZenonT(60) DEF Carries, Request
  <2>5. <<"add.release">> \in Seq(ReturnLabels)
    BY DEF ReturnLabels
  <2> HIDE DEF next
  <2> QED
    BY <2>3, <2>4, <2>5, CallCreateFollows, EndAdvance DEF Advance
<1>4. CASE AddRelease(r)
  <2>1. PICK x \in GetAppRelease("active") :
          Become(r, [q EXCEPT !.pc = "add.record", !.rel = x])
    BY <1>4 DEF AddRelease
  <2>2. x \in ReleaseIds \cup {NoRelease}
    BY <2>1, ReleaseFound
  <2>3. "add.record" \in PlainLabels
    BY DEF Labels, UndeployLabels, PlainLabels
  <2> DEFINE next == [q EXCEPT !.pc = "add.record", !.rel = x]
  <2>4. Carries(q, next) /\ next.pc \in PlainLabels
    BY <1>1, <2>2, <2>3, PlainAreLabels, ZenonT(60) DEF Carries, Request
  <2>5. Become(r, next)
    BY <2>1
  <2> HIDE DEF next
  <2> QED
    BY <2>4, <2>5, PlainAdvance
<1>5. CASE AddRecord(r)
  <2> DEFINE next == [q EXCEPT !.pc = "add.route", !.last = q.dep]
  <2>1. End(r) \/ Become(r, next)
    BY <1>5 DEF AddRecord
  <2>2. "add.route" \in PlainLabels
    BY DEF Labels, UndeployLabels, PlainLabels
  <2>3. Carries(q, next) /\ next.pc \in PlainLabels
    BY <1>1, <2>2, PlainAreLabels, ZenonT(60) DEF Carries, Request
  <2> HIDE DEF next
  <2> QED
    BY <2>1, <2>3, EndAdvance, PlainAdvance
<1> QED
  BY <1>2, <1>3, <1>4, <1>5

\* the backup regions it removes,
LEMMA RegionsStandbyAdvance ==
    ASSUME TypeOK, NEW r \in Requests, RegionsStandby(r) \/ StandbyDrop(r)
    PROVE  Advance(r)
<1>1. req[r] \in Request
  BY DEF TypeOK
<1> DEFINE q == req[r]
<1>2. CASE RegionsStandby(r)
  <2>1. PICK b \in q.standby :
          LET less == [q EXCEPT !.standby = q.standby \ {b}, !.region = b]
          IN  Become(r, IF q.toDeploy THEN Call(less, "undeploy.find", <<"standby.drop">>)
                        ELSE Goto(less, "standby.drop"))
    BY <1>2 DEF RegionsStandby
  <2> DEFINE standby == q.standby \ {b}
             less == [q EXCEPT !.standby = standby, !.region = b]
  <2>2. standby \in SUBSET Regions /\ b \in Regions
    BY <1>1, <2>1 DEF Request
  <2>3. \/ Become(r, Call(less, "undeploy.find", <<"standby.drop">>))
        \/ Become(r, Goto(less, "standby.drop"))
    BY <2>1
  <2> HIDE DEF standby
  <2>4. Carries(q, less)
    BY <1>1, <2>2, ZenonT(60) DEF Carries, Request
  <2>5. /\ {"undeploy.find", "standby.drop"} \subseteq PlainLabels
        /\ <<"standby.drop">> \in Seq(ReturnLabels)
    BY DEF Labels, UndeployLabels, PlainLabels, ReturnLabels
  <2> HIDE DEF less
  <2>6. Follows(q, Goto(less, "standby.drop"))
    BY <2>4, <2>5, GotoFollows
  <2> QED
    BY <2>3, <2>4, <2>5, <2>6, CallFollows DEF Advance
<1>3. CASE StandbyDrop(r)
  <2> DEFINE left == Cardinality(q.standby)
             backups == IF left = 0 THEN {} ELSE q.backups
             next == [q EXCEPT !.pc = "regions.standby", !.backups = backups]
  <2>1. End(r) \/ Become(r, next)
    BY <1>3 DEF StandbyDrop, End
  <2>2. backups \in SUBSET Regions
    BY <1>1 DEF Request
  <2>3. "regions.standby" \in PlainLabels
    BY DEF Labels, UndeployLabels, PlainLabels
  <2> HIDE DEF backups
  <2>4. Carries(q, next) /\ next.pc \in PlainLabels
    BY <1>1, <2>2, <2>3, PlainAreLabels, ZenonT(60) DEF Carries, Request
  <2> HIDE DEF next
  <2> QED
    BY <2>1, <2>4, EndAdvance, PlainAdvance
<1> QED
  BY <1>2, <1>3

\* the regions it removes,
LEMMA RegionsDeleteAdvance ==
    ASSUME TypeOK, NEW r \in Requests, RegionsDelete(r)
    PROVE  Advance(r)
<1>1. req[r] \in Request
  BY DEF TypeOK
<1> DEFINE q == req[r]
<1>2. PICK g \in q.dels \cap q.regions :
        LET less == [q EXCEPT !.regions = q.regions \ {g}, !.region = g]
        IN  Become(r, IF q.toDeploy THEN Call(less, "undeploy.find", <<"regions.del">>)
                      ELSE less)
  BY DEF RegionsDelete
<1> DEFINE regions == q.regions \ {g}
           less == [q EXCEPT !.regions = regions, !.region = g]
<1>3. regions \in SUBSET Regions /\ g \in Regions /\ q.pc = "regions.del"
  BY <1>1, <1>2 DEF Request, RegionsDelete, At
<1>4. Become(r, Call(less, "undeploy.find", <<"regions.del">>)) \/ Become(r, less)
  BY <1>2
<1> HIDE DEF regions
<1>5. Carries(q, less) /\ less.pc = "regions.del"
  BY <1>1, <1>3, ZenonT(60) DEF Carries, Request
<1>6. /\ {"undeploy.find", "regions.del"} \subseteq PlainLabels
      /\ <<"regions.del">> \in Seq(ReturnLabels)
  BY DEF Labels, UndeployLabels, PlainLabels, ReturnLabels
<1> HIDE DEF less
<1> QED
  BY <1>4, <1>5, <1>6, CallFollows, PlainAdvance DEF Advance

\* the backup regions it adds,
LEMMA RegionsBackupAdvance ==
    ASSUME TypeOK, NEW r \in Requests, RegionsBackup(r)
    PROVE  Advance(r)
<1>1. req[r] \in Request
  BY DEF TypeOK
<1> DEFINE q == req[r]
<1>2. PICK b \in q.backs :
        LET less == [q EXCEPT !.backs = q.backs \ {b}, !.backups = q.backups \cup {b},
                              !.region = b]
        IN  \/ End(r)
            \/ Become(r, less)
            \/ Become(r, Call(less, "create", <<"regions.backup">>))
  BY DEF RegionsBackup
<1> DEFINE backs == q.backs \ {b}
           backups == q.backups \cup {b}
           less == [q EXCEPT !.backs = backs, !.backups = backups, !.region = b]
<1>3. /\ backs \in SUBSET Regions /\ backups \in SUBSET Regions /\ b \in Regions
      /\ q.pc = "regions.backup"
  BY <1>1, <1>2 DEF Request, RegionsBackup, At
<1>4. \/ End(r)
      \/ Become(r, less)
      \/ Become(r, Call(less, "create", <<"regions.backup">>))
  BY <1>2
<1> HIDE DEF backs, backups
<1>5. Carries(q, less) /\ less.pc = "regions.backup" /\ less.region \in Regions
  BY <1>1, <1>3, ZenonT(60) DEF Carries, Request
<1>6. "regions.backup" \in PlainLabels /\ <<"regions.backup">> \in Seq(ReturnLabels)
  BY DEF Labels, UndeployLabels, PlainLabels, ReturnLabels
<1> HIDE DEF less
<1> QED
  BY <1>4, <1>5, <1>6, CallCreateFollows, PlainAdvance, EndAdvance DEF Advance

\* and all of them together.
LEMMA RegionsAdvance ==
    ASSUME TypeOK, NEW r \in Requests, AddOrRemoveRegions(r)
    PROVE  Advance(r)
<1>1. req[r] \in Request
  BY DEF TypeOK
<1>2. CASE RegionsAdded(r) \/ AddRoute(r) \/ StandbyDone(r) \/ RegionsDeleted(r)
           \/ RegionsWrite(r)
  <2>1. {"regions.standby", "regions.add", "regions.del", "regions.backup",
         "status.release"} \subseteq PlainLabels
    BY DEF Labels, UndeployLabels, PlainLabels
  <2> QED
    BY <1>1, <1>2, <2>1, GotoAdvance, EndAdvance
    DEF RegionsAdded, AddRoute, StandbyDone, RegionsDeleted, RegionsWrite
<1> QED
  BY <1>2, RegionsReadAdvance, RegionsAddAdvance, RegionsStandbyAdvance,
     RegionsDeleteAdvance, RegionsBackupAdvance DEF AddOrRemoveRegions

\* UpdateAppStatus writes a status it has computed.
LEMMA StatusAdvance ==
    ASSUME TypeOK, NEW r \in Requests, UpdateAppStatus(r)
    PROVE  Advance(r)
<1>1. req[r] \in Request
  BY DEF TypeOK
<1> DEFINE q == req[r]
<1>2. CASE StatusRelease(r)
  <2>1. PICK x \in GetAppRelease("active") :
          Become(r, [q EXCEPT !.pc = "status.rows", !.rel = x])
    BY <1>2 DEF StatusRelease
  <2>2. x \in ReleaseIds \cup {NoRelease}
    BY <2>1, ReleaseFound
  <2>3. "status.rows" \in PlainLabels
    BY DEF Labels, UndeployLabels, PlainLabels
  <2> DEFINE next == [q EXCEPT !.pc = "status.rows", !.rel = x]
  <2>4. Carries(q, next) /\ next.pc \in PlainLabels
    BY <1>1, <2>2, <2>3, PlainAreLabels, ZenonT(60) DEF Carries, Request
  <2>5. Become(r, next)
    BY <2>1
  <2> HIDE DEF next
  <2> QED
    BY <2>4, <2>5, PlainAdvance
<1>3. CASE StatusRows(r)
  <2> DEFINE seen == StatusFrom(GetDeploymentsByReleaseId(q.rel))
             next == [q EXCEPT !.pc = "status.write", !.seen = seen]
  <2>1. seen \in AppStatus
    BY DEF StatusFrom, AppStatus
  <2>2. "status.write" \in Labels
    BY DEF Labels
  <2>3. Become(r, next)
    BY <1>3 DEF StatusRows
  <2> HIDE DEF seen
  <2>4. Carries(q, next) /\ next.pc = "status.write" /\ next.seen = seen
    BY <1>1, <2>1, <2>2, ZenonT(60) DEF Carries, Request
  <2> HIDE DEF next
  <2>5. Follows(q, next)
    BY <2>1, <2>4 DEF Follows, UndeployLabels
  <2> QED
    BY <2>3, <2>5 DEF Advance
<1>4. CASE StatusWrite(r)
  BY <1>1, <1>4, ReturnAdvance DEF StatusWrite
<1> QED
  BY <1>2, <1>3, <1>4 DEF UpdateAppStatus

\* SuspendResumePods after it has found the deployment.
LEMMA ScaleAdvance ==
    ASSUME TypeOK, NEW r \in Requests, ScalePods(r) \/ ScaleMark(r)
    PROVE  Advance(r)
<1>1. req[r] \in Request
  BY DEF TypeOK
<1>2. {"scale.mark", "status.release"} \subseteq PlainLabels
  BY DEF Labels, UndeployLabels, PlainLabels
<1> QED
  BY <1>1, <1>2, GotoAdvance, EndAdvance DEF ScalePods, ScaleMark

\* The steps of DeleteApp itself.
LEMMA DeleteAdvance ==
    ASSUME TypeOK, NEW r \in Requests, Delete(r)
    PROVE  Advance(r)
<1>1. req[r] \in Request /\ Carries(req[r], req[r])
  BY DEF TypeOK, Carries
<1>2. CASE DeleteRead(r)
  <2>1. /\ {"status.release", "undeploy.find"} \subseteq PlainLabels
        /\ <<>> \in Seq(ReturnLabels) /\ <<"delete.bare">> \in Seq(ReturnLabels)
        /\ <<"regions.read", "delete.check">> \in Seq(ReturnLabels)
    BY DEF Labels, UndeployLabels, PlainLabels, ReturnLabels
  <2>2. \/ End(r)
        \/ Become(r, Call(req[r], "status.release", <<>>))
        \/ Become(r, Call(req[r], "status.release", <<"delete.bare">>))
        \/ Become(r, Call(req[r], "undeploy.find", <<"regions.read", "delete.check">>))
    BY <1>2 DEF DeleteRead
  <2> QED
    BY <1>1, <2>1, <2>2, CallFollows, EndAdvance DEF Advance
<1>3. CASE DeleteCheck(r) \/ DeleteRecord(r) \/ DeleteRows(r) \/ DeleteReleases(r)
  <2>1. {"delete.app", "delete.rows", "delete.releases"} \subseteq PlainLabels
    BY DEF Labels, UndeployLabels, PlainLabels
  <2>2. \/ End(r)
        \/ \E label \in {"delete.app", "delete.rows", "delete.releases"} :
             Become(r, Goto(req[r], label))
    BY <1>3 DEF DeleteCheck, DeleteRecord, DeleteRows, DeleteReleases, End
  <2> QED
    BY <1>1, <2>1, <2>2, GotoAdvance, EndAdvance
<1> QED
  BY <1>2, <1>3 DEF Delete

\* The steps of a new release that redeploy, revert and UpdateImage share.
LEMMA ReleaseAdvance ==
    ASSUME TypeOK, NEW r \in Requests,
           ConfigRelease(r) \/ ConfigRetire(r) \/ ImageRetire(r)
    PROVE  Advance(r)
<1>1. req[r] \in Request
  BY DEF TypeOK
<1> DEFINE q == req[r]
<1>2. CASE ConfigRelease(r)
  <2>1. PICK x \in GetAppRelease("active") :
          Become(r, [q EXCEPT !.pc = "config.retire", !.rel = x])
    BY <1>2 DEF ConfigRelease, ReleaseRead
  <2>2. x \in ReleaseIds \cup {NoRelease}
    BY <2>1, ReleaseFound
  <2>3. "config.retire" \in PlainLabels
    BY DEF Labels, UndeployLabels, PlainLabels
  <2> DEFINE next == [q EXCEPT !.pc = "config.retire", !.rel = x]
  <2>4. Carries(q, next) /\ next.pc \in PlainLabels
    BY <1>1, <2>2, <2>3, PlainAreLabels, ZenonT(60) DEF Carries, Request
  <2>5. Become(r, next)
    BY <2>1
  <2> HIDE DEF next
  <2> QED
    BY <2>4, <2>5, PlainAdvance
<1>3. CASE ConfigRetire(r) \/ ImageRetire(r)
  <2>1. {"config.activate", "config.latest", "image.publish"} \subseteq PlainLabels
    BY DEF Labels, UndeployLabels, PlainLabels
  <2>2. \E label \in {"config.activate", "config.latest", "image.publish"} :
          Become(r, Goto(req[r], label))
    BY <1>3 DEF ConfigRetire, ImageRetire, ReleaseRetire
  <2> QED
    BY <1>1, <2>1, <2>2, GotoAdvance
<1> QED
  BY <1>2, <1>3

\* The versions read from the releases are numbers.
LEMMA VersionsAreNat ==
    ASSUME TypeOK
    PROVE  /\ GetLatestVersion \subseteq Nat
           /\ \A x \in ReleaseIds \cup {NoRelease} : VersionOf(x) \in Nat
<1>1. \A x \in ReleaseIds : release[x].version \in Nat
  BY DEF TypeOK, TablesTypeOK, ReleaseRow
<1> QED
  BY <1>1 DEF GetLatestVersion, Inserted, OrElse, VersionOf, NoRelease

\* The releases that redeploy and revert rewrite.
LEMMA ConfigAdvance ==
    ASSUME TypeOK, NEW r \in Requests, Config(r)
    PROVE  Advance(r)
<1>1. req[r] \in Request
  BY DEF TypeOK
<1> DEFINE q == req[r]
<1>2. CASE ConfigAgain(r)
  <2> DEFINE next == [q EXCEPT !.adds = q.items, !.dels = {}]
  <2>1. Carries(q, next)
    BY <1>1, ZenonT(60) DEF Carries, Request
  <2>2. "regions.read" \in PlainLabels /\ <<"config.release">> \in Seq(ReturnLabels)
    BY DEF Labels, UndeployLabels, PlainLabels, ReturnLabels
  <2>3. Become(r, Call(next, "regions.read", <<"config.release">>))
    BY <1>2 DEF ConfigAgain
  <2> HIDE DEF next
  <2> QED
    BY <2>1, <2>2, <2>3, CallFollows DEF Advance
<1>3. CASE ConfigLatest(r)
  <2>1. PICK v \in GetLatestVersion :
          Become(r, [q EXCEPT !.pc = "config.publish", !.version = v + 1])
    BY <1>3 DEF ConfigLatest
  <2> DEFINE version == v + 1
             next == [q EXCEPT !.pc = "config.publish", !.version = version]
  <2>2. version \in Nat
    BY <2>1, VersionsAreNat
  <2>3. "config.publish" \in PlainLabels /\ Become(r, next)
    BY <2>1 DEF Labels, UndeployLabels, PlainLabels
  <2> HIDE DEF version
  <2>4. Carries(q, next) /\ next.pc \in PlainLabels
    BY <1>1, <2>2, <2>3, PlainAreLabels, ZenonT(60) DEF Carries, Request
  <2> HIDE DEF next
  <2> QED
    BY <2>3, <2>4, PlainAdvance
<1>4. CASE ConfigPublish(r)
  <2> DEFINE next == [q EXCEPT !.pc = "config.attach", !.fresh = nextRelease]
  <2>1. nextRelease \in ReleaseIds \cup {NoRelease} /\ (End(r) \/ Become(r, next))
    BY <1>4 DEF ConfigPublish, ReleasePublish
  <2>2. "config.attach" \in PlainLabels
    BY DEF Labels, UndeployLabels, PlainLabels
  <2>3. Carries(q, next) /\ next.pc \in PlainLabels
    BY <1>1, <2>1, <2>2, PlainAreLabels, ZenonT(60) DEF Carries, Request
  <2> HIDE DEF next
  <2> QED
    BY <2>1, <2>3, EndAdvance, PlainAdvance
<1>5. CASE ConfigAttach(r) \/ ConfigActivate(r) \/ ConfigVersion(r)
  <2>1. "config.version" \in PlainLabels
    BY DEF Labels, UndeployLabels, PlainLabels
  <2> QED
    BY <1>1, <1>5, <2>1, GotoAdvance, EndAdvance
    DEF ConfigAttach, ConfigActivate, ConfigVersion
<1> QED
  BY <1>2, <1>3, <1>4, <1>5, ReleaseAdvance DEF Config

\* The release of UpdateImage.
LEMMA ImageAdvance ==
    ASSUME TypeOK, NEW r \in Requests, Image(r)
    PROVE  Advance(r)
<1>1. req[r] \in Request
  BY DEF TypeOK
<1> DEFINE q == req[r]
<1>2. CASE ImageRelease(r)
  <2>1. PICK x \in GetAppRelease("active") :
          Become(r, [q EXCEPT !.pc = "image.retire", !.rel = x, !.version = VersionOf(x) + 1])
    BY <1>2 DEF ImageRelease
  <2> DEFINE version == VersionOf(x) + 1
             next == [q EXCEPT !.pc = "image.retire", !.rel = x, !.version = version]
  <2>2. x \in ReleaseIds \cup {NoRelease} /\ version \in Nat
    BY <2>1, ReleaseFound, VersionsAreNat
  <2>3. "image.retire" \in PlainLabels
    BY DEF Labels, UndeployLabels, PlainLabels
  <2>4. Become(r, next)
    BY <2>1
  <2> HIDE DEF version
  <2>5. Carries(q, next) /\ next.pc \in PlainLabels
    BY <1>1, <2>2, <2>3, PlainAreLabels, ZenonT(60) DEF Carries, Request
  <2> HIDE DEF next
  <2> QED
    BY <2>4, <2>5, PlainAdvance
<1>3. CASE ImagePublish(r)
  BY <1>3, EndAdvance DEF ImagePublish, ReleasePublish, End
<1> QED
  BY <1>2, <1>3, ReleaseAdvance DEF Image

\* The last step of UnDeploy, and the service of a first deployment.
LEMMA MarkAndServiceAdvance ==
    ASSUME TypeOK, NEW r \in Requests, UndeployMark(r) \/ CreateService(r)
    PROVE  Advance(r)
<1>1. req[r] \in Request
  BY DEF TypeOK
<1> QED
  BY <1>1, ReturnAdvance, EndAdvance DEF UndeployMark, CreateService

\* A client sends a request.
LEMMA IssueAdvance ==
    ASSUME NEW r \in Requests, NEW kind, NEW q, Follows(req[r], q), Issue(r, kind, q)
    PROVE  Advance(r)
<1> DEFINE next == [q EXCEPT !.kind = kind]
<1>1. kind \in KindNames /\ q \in Request /\ Become(r, next)
  BY LifecycleAssumption DEF Issue, Follows, Carries
<1>2. /\ next \in Request
      /\ next.dep = q.dep /\ next.pc = q.pc /\ next.region = q.region /\ next.seen = q.seen
  BY <1>1 DEF Request
<1> HIDE DEF next
<1> QED
  BY <1>1, <1>2 DEF Advance, Follows, Carries

\* The requests that begin with AddOrRemoveRegions,
LEMMA ChangeRegionsCarries ==
    ASSUME NEW p, NEW adds \in SUBSET Regions, NEW dels \in SUBSET Regions
    PROVE  Carries(p, ChangeRegions(adds, dels)) /\ ChangeRegions(adds, dels).pc = "regions.read"
<1>1. Idle \in Request /\ Idle.dep = NoDeployment
  BY IdleFollows DEF Follows, Carries, Idle
<1>2. "regions.read" \in Labels
  BY DEF Labels
<1> QED
  BY <1>1, <1>2, ZenonT(60) DEF ChangeRegions, Carries, Request

\* those that remove every region first,
LEMMA RebuildCarries ==
    ASSUME NEW p, app.regions \in SUBSET Regions
    PROVE  Carries(p, Rebuild) /\ Rebuild.pc = "regions.read"
<1> DEFINE change == ChangeRegions({}, app.regions)
<1>1. Carries(p, change) /\ change.pc = "regions.read"
  BY ChangeRegionsCarries
<1>2. <<"config.again">> \in Seq(ReturnLabels)
  BY DEF ReturnLabels
<1>3. Rebuild = [change EXCEPT !.ret = <<"config.again">>, !.items = app.regions]
  BY DEF Rebuild
<1> HIDE DEF change
<1> QED
  BY <1>1, <1>2, <1>3 DEF Carries, Request

\* those that scale,
LEMMA IssueScaleAdvance ==
    ASSUME NEW r \in Requests, NEW kind, NEW g \in Regions,
           NEW from \in {"running", "suspended"},
           Issue(r, kind, [Idle EXCEPT !.pc = "scale.find", !.region = g, !.from = from])
    PROVE  Advance(r)
<1> DEFINE next == [Idle EXCEPT !.pc = "scale.find", !.region = g, !.from = from]
<1>1. Idle \in Request /\ Idle.dep = NoDeployment
  BY IdleFollows DEF Follows, Carries, Idle
<1>2. "scale.find" \in PlainLabels
  BY DEF Labels, UndeployLabels, PlainLabels
<1>3. next \in Request /\ next.dep = Idle.dep /\ next.pc = "scale.find"
  BY <1>1, <1>2, PlainAreLabels, ZenonT(60) DEF Request
<1>4. Issue(r, kind, next)
  OBVIOUS
<1> HIDE DEF next
<1> QED
  BY <1>1, <1>2, <1>3, <1>4, PlainFollows, IssueAdvance DEF Carries

\* those that delete,
LEMMA DeleteAppAdvance ==
    ASSUME NEW r \in Requests, DeleteApp(r) PROVE Advance(r)
<1>1. PICK g \in Regions \cup {NoRegion} :
        LET q == [Idle EXCEPT !.pc = "delete.read", !.region = g,
                              !.dels = IF g = NoRegion THEN {} ELSE {g}]
        IN  \/ Issue(r, "delete", q)
            \/ Issue(r, "delete", Call([q EXCEPT !.from = "suspended"],
                                       "scale.find", <<"delete.read">>))
  BY DEF DeleteApp
<1> DEFINE dels == IF g = NoRegion THEN {} ELSE {g}
           q == [Idle EXCEPT !.pc = "delete.read", !.region = g, !.dels = dels]
           asleep == [q EXCEPT !.from = "suspended"]
<1>2. dels \in SUBSET Regions
  BY <1>1
<1>3. \/ Issue(r, "delete", q)
      \/ Issue(r, "delete", Call(asleep, "scale.find", <<"delete.read">>))
  BY <1>1
<1>4. Idle \in Request /\ Idle.dep = NoDeployment
  BY IdleFollows DEF Follows, Carries, Idle
<1>5. {"delete.read", "scale.find"} \subseteq PlainLabels /\ <<"delete.read">> \in Seq(ReturnLabels)
  BY DEF Labels, UndeployLabels, PlainLabels, ReturnLabels
<1> HIDE DEF dels
<1>6. q \in Request /\ q.dep = NoDeployment /\ q.pc = "delete.read"
  BY <1>2, <1>4, <1>5, PlainAreLabels, ZenonT(60) DEF Request
<1> HIDE DEF q
<1>7. asleep \in Request /\ asleep.dep = NoDeployment
  BY <1>6, ZenonT(60) DEF Request
<1> HIDE DEF asleep
<1>8. Follows(req[r], q) /\ Follows(req[r], Call(asleep, "scale.find", <<"delete.read">>))
  BY <1>5, <1>6, <1>7, PlainFollows, CallFollows DEF Carries
<1> QED
  BY <1>3, <1>8, IssueAdvance

\* and every mutation.
LEMMA MutationAdvance ==
    ASSUME TypeOK, NEW r \in Requests, Mutation(r) PROVE Advance(r)
<1>1. CASE DeployImage(r) \/ UpdateImage(r)
  <2>1. Carries(req[r], Idle)
    BY IdleFollows DEF Follows
  <2>2. {"deploy.find", "image.release"} \subseteq PlainLabels
    BY DEF Labels, UndeployLabels, PlainLabels
  <2>3. \/ Issue(r, "deploy", Goto(Idle, "deploy.find"))
        \/ Issue(r, "image", Goto(Idle, "image.release"))
    BY <1>1 DEF DeployImage, UpdateImage
  <2> QED
    BY <2>1, <2>2, <2>3, GotoFollows, IssueAdvance
<1>2. CASE PauseApp(r) \/ ResumeApp(r)
  BY <1>2, IssueScaleAdvance DEF PauseApp, ResumeApp
<1>3. "regions.read" \in PlainLabels
  BY DEF Labels, UndeployLabels, PlainLabels
<1>4. app.regions \in SUBSET Regions
  BY DEF TypeOK, TablesTypeOK, AppRow
<1>5. CASE ConfigureRegions(r)
  <2>1. PICK adds \in AllowLists, dels \in DenyLists, backs \in BackupLists :
          Issue(r, "configure", [ChangeRegions(adds, dels) EXCEPT !.backs = backs])
    BY <1>5 DEF ConfigureRegions
  <2> DEFINE change == ChangeRegions(adds, dels)
             next == [change EXCEPT !.backs = backs]
  <2>2. adds \in SUBSET Regions /\ dels \in SUBSET Regions /\ backs \in SUBSET Regions
    BY LifecycleAssumption
  <2>3. Carries(req[r], change) /\ change.pc = "regions.read" /\ Issue(r, "configure", next)
    BY <2>1, <2>2, ChangeRegionsCarries
  <2> HIDE DEF change
  <2>4. Carries(req[r], next) /\ next.pc = "regions.read"
    BY <2>2, <2>3, ZenonT(60) DEF Carries, Request
  <2> HIDE DEF next
  <2> QED
    BY <1>3, <2>3, <2>4, PlainFollows, IssueAdvance
<1>6. CASE MoveApp(r)
  <2>1. PICK source \in Regions, dest \in Regions :
          Issue(r, "move", ChangeRegions({dest}, {source}))
    BY <1>6 DEF MoveApp
  <2> QED
    BY <1>3, <2>1, ChangeRegionsCarries, PlainFollows, IssueAdvance
<1>7. CASE Redeploy(r)
  BY <1>3, <1>4, <1>7, RebuildCarries, PlainFollows, IssueAdvance DEF Redeploy
<1>8. CASE Revert(r)
  <2>1. PICK x \in Inserted :
          Issue(r, "revert", [Rebuild EXCEPT !.version = release[x].version])
    BY <1>8 DEF Revert
  <2> DEFINE next == [Rebuild EXCEPT !.version = release[x].version]
  <2>2. release[x].version \in Nat
    BY DEF TypeOK, TablesTypeOK, ReleaseRow, Inserted
  <2>3. Carries(req[r], next) /\ next.pc = "regions.read"
    BY <1>4, <2>2, RebuildCarries DEF Carries, Request
  <2>4. Issue(r, "revert", next)
    BY <2>1
  <2> HIDE DEF next
  <2> QED
    BY <1>3, <2>3, <2>4, PlainFollows, IssueAdvance
<1> QED
  BY <1>1, <1>2, <1>5, <1>6, <1>7, <1>8, DeleteAppAdvance DEF Mutation

-----------------------------------------------------------------------------
(***************************************************************************)
(* The SQL statements and the calls to a cluster leave tables of their type *)
(***************************************************************************)
LEMMA RowTypes ==
    ASSUME TablesTypeOK
    PROVE  /\ \A status \in RowStatus : \A id :
                UpdateDeploymentsRecord(status, id) \in [DeploymentIds -> DeploymentRow]
           /\ \A x \in ReleaseIds \cup {NoRelease} : \A d :
                UpdateDeploymentsReleaseId(d, x) \in [DeploymentIds -> DeploymentRow]
<1>1. row \in [DeploymentIds -> DeploymentRow]
  BY DEF TablesTypeOK
<1>2. ASSUME NEW status \in RowStatus, NEW id
      PROVE  UpdateDeploymentsRecord(status, id) \in [DeploymentIds -> DeploymentRow]
  BY <1>1 DEF UpdateDeploymentsRecord, DeploymentRow
<1>3. ASSUME NEW d, NEW x \in ReleaseIds \cup {NoRelease}
      PROVE  UpdateDeploymentsReleaseId(d, x) \in [DeploymentIds -> DeploymentRow]
  BY <1>1 DEF UpdateDeploymentsReleaseId, DeploymentRow
<1> QED
  BY <1>2, <1>3

\* A row that has been inserted is a row.
LEMMA RecordType ==
    ASSUME TablesTypeOK, NEW d, NEW x \in ReleaseIds \cup {NoRelease}, NEW named \in BOOLEAN,
           row' = CreateDeploymentsRecord(d, x, named)
    PROVE  row' \in [DeploymentIds -> DeploymentRow]
<1>1. row \in [DeploymentIds -> DeploymentRow]
  BY DEF TablesTypeOK
<1> QED
  BY <1>1 DEF CreateDeploymentsRecord, DeploymentRow, RowStatus

\* What the calls to a cluster leave is a workload.
LEMMA ClusterTypes ==
    ASSUME TablesTypeOK
    PROVE  /\ \A region \in Regions : \A d : CreatePods(d, region) \in [DeploymentIds -> Workload]
           /\ \A d : DeletePods(d) \in [DeploymentIds -> Workload]
           /\ \A d, region : DeleteService(d, region) \in [DeploymentIds -> Workload]
<1>1. cluster \in [DeploymentIds -> Workload]
  BY DEF TablesTypeOK
<1>2. ASSUME NEW d, NEW region \in Regions
      PROVE  CreatePods(d, region) \in [DeploymentIds -> Workload]
  BY <1>1 DEF CreatePods, Workload
<1>3. ASSUME NEW d PROVE DeletePods(d) \in [DeploymentIds -> Workload]
  BY <1>1 DEF DeletePods, Workload
<1>4. ASSUME NEW d, NEW region PROVE DeleteService(d, region) \in [DeploymentIds -> Workload]
  BY <1>1 DEF DeleteService, Workload
<1> QED
  BY <1>2, <1>3, <1>4

\* The statements on app_release leave releases.
LEMMA ReleaseTypes ==
    ASSUME TablesTypeOK
    PROVE  /\ \A version \in Nat : \A x :
                CreateAppRelease(x, version) \in [ReleaseIds -> ReleaseRow]
           /\ \A status \in {"active", "inactive"} : \A x :
                UpdateAppRelease(status, x) \in [ReleaseIds -> ReleaseRow]
           /\ \A status \in {"active", "inactive"} : \A version :
                UpdateAppReleases(status, version) \in [ReleaseIds -> ReleaseRow]
<1>1. release \in [ReleaseIds -> ReleaseRow]
  BY DEF TablesTypeOK
<1>2. ASSUME NEW x, NEW version \in Nat
      PROVE  CreateAppRelease(x, version) \in [ReleaseIds -> ReleaseRow]
  BY <1>1 DEF CreateAppRelease, ReleaseRow
<1>3. ASSUME NEW status \in {"active", "inactive"}, NEW x
      PROVE  UpdateAppRelease(status, x) \in [ReleaseIds -> ReleaseRow]
  BY <1>1 DEF UpdateAppRelease, ReleaseRow
<1>4. ASSUME NEW status \in {"active", "inactive"}, NEW version
      PROVE  UpdateAppReleases(status, version) \in [ReleaseIds -> ReleaseRow]
  BY <1>1 DEF UpdateAppReleases, ReleaseRow
<1> QED
  BY <1>2, <1>3, <1>4

\* The next id is handed out only while there is one.
LEMMA NextIds ==
    /\ nextDeployment \in DeploymentIds => nextDeployment + 1 \in 1 .. MaxDeployments + 1
    /\ nextRelease \in ReleaseIds => nextRelease + 1 \in 1 .. MaxReleases + 1
  BY TablesAssumption DEF DeploymentIds, ReleaseIds

-----------------------------------------------------------------------------
(***************************************************************************)
(* TypeOK                                                                   *)
(***************************************************************************)
\* What TypeOK says of one request.
Fit(q) ==
    /\ q \in Request
    /\ q.pc = "create" => q.region \in Regions
    /\ q.pc = "status.write" => q.seen \in AppStatus

Moves(r) == \E q : Fit(q) /\ Become(r, q)

\* Outside of Deployment and UnDeploy's search a step advances its request.
LEMMA AdvanceMoves ==
    ASSUME NEW r \in Requests, Advance(r) PROVE Moves(r)
  BY DEF Advance, Moves, Fit, Follows, Carries

\* One request moves, and the tables keep their types.
LEMMA MovesType ==
    ASSUME TypeOK, NEW r \in Requests, Moves(r),
           TablesTypeOK', worker' \in [Requests -> [DeploymentIds -> Worker]],
           issued' \in 0 .. MaxRequests
    PROVE  TypeOK'
<1>1. PICK q : Fit(q) /\ Become(r, q)
  BY DEF Moves
<1>2. req \in [Requests -> Request]
  BY DEF TypeOK
<1>3. \A s \in Requests : req'[s] = IF s = r THEN q ELSE req[s]
  BY <1>1, <1>2 DEF Become
<1>4. req' \in [Requests -> Request]
  BY <1>1, <1>2 DEF Become, Fit
<1>5. \A s \in Requests : Fit(req[s])
  BY <1>2 DEF TypeOK, Fit
<1>6. \A s \in Requests : Fit(req'[s])
  BY <1>1, <1>3, <1>5
<1> QED
  BY <1>4, <1>6 DEF TypeOK, Fit

\* Goto, where the label may be one of UnDeploy.
LEMMA GotoType ==
    ASSUME NEW q \in Request, NEW label \in Labels
    PROVE  Goto(q, label) \in Request /\ Goto(q, label).pc = label /\ Goto(q, label).dep = q.dep
  BY DEF Goto, Request

\* The labels of UnDeploy are labels.
LEMMA UndeployLabelsType == UndeployLabels \subseteq Labels \ {"create", "status.write"}
  BY DEF UndeployLabels, Labels

\* Deployment hands the request the id it has created.
LEMMA CreateMoves ==
    ASSUME TypeOK, NEW r \in Requests, Create(r)
    PROVE  End(r) \/ \E q : Follows([req[r] EXCEPT !.dep = nextDeployment], q) /\ Become(r, q)
<1>1. req[r] \in Request
  BY DEF TypeOK
<1> DEFINE made == [req[r] EXCEPT !.dep = nextDeployment]
<1>2. nextDeployment \in DeploymentIds
      /\ (End(r) \/ Become(r, Return(made)) \/ Become(r, Goto(made, "service")))
  BY DEF Create
<1>3. Carries(made, made)
  BY <1>1, <1>2 DEF Carries, Request
<1>4. "service" \in PlainLabels
  BY DEF Labels, UndeployLabels, PlainLabels
<1> HIDE DEF made
<1>5. Follows(made, Return(made)) /\ Follows(made, Goto(made, "service"))
  BY <1>3, <1>4, ReturnFollows, GotoFollows
<1> QED
  BY <1>2, <1>5 DEF made

\* UnDeploy and SuspendResumePods take a row of the table, or none.
LEMMA FindMoves ==
    ASSUME TypeOK, NEW r \in Requests, UndeployFind(r) \/ ScaleFind(r)
    PROVE  \E q \in Request, d \in Rows \cup {NoDeployment} :
             /\ Become(r, q)
             /\ q.dep = d
             /\ q.pc \in {"undeploy.route", "scale.pods"}
<1>1. req[r] \in Request
  BY DEF TypeOK
<1>2. PICK label \in {"undeploy.route", "scale.pods"}, d \in Rows \cup {NoDeployment} :
        Become(r, [req[r] EXCEPT !.pc = label, !.dep = d])
  BY DeploymentFound DEF UndeployFind, ScaleFind
<1> DEFINE next == [req[r] EXCEPT !.pc = label, !.dep = d]
<1>3. label \in Labels /\ d \in DeploymentIds \cup {NoDeployment}
  BY DEF Labels, Rows
<1>4. next \in Request /\ next.dep = d /\ next.pc = label
  BY <1>1, <1>3, ZenonT(60) DEF Request
<1>5. Become(r, next)
  BY <1>2
<1> HIDE DEF next
<1> QED
  BY <1>4, <1>5

\* Every step of a request leaves it well formed.
LEMMA StepMoves ==
    ASSUME TypeOK, NEW r \in Requests, Step(r) PROVE Moves(r)
<1>1. req[r] \in Request
  BY DEF TypeOK
<1>2. CASE Create(r)
  BY <1>2, CreateMoves, EndAdvance, AdvanceMoves DEF Moves, Fit, Follows, Carries
<1>3. CASE UndeployFind(r) \/ ScaleFind(r)
  BY <1>3, FindMoves DEF Moves, Fit
<1>4. CASE UndeployRoute(r) \/ UndeployPods(r) \/ UndeployService(r)
  <2>1. \/ End(r)
        \/ Become(r, Return(req[r]))
        \/ \E label \in UndeployLabels : Become(r, Goto(req[r], label))
    BY <1>4 DEF UndeployRoute, UndeployPods, UndeployService, UndeployFails, End, UndeployLabels
  <2> QED
    BY <1>1, <2>1, EndAdvance, ReturnAdvance, AdvanceMoves, GotoType, UndeployLabelsType
    DEF Moves, Fit
<1>5. CASE DeployFind(r) \/ CreateService(r) \/ FirstRelease(r) \/ FirstRecord(r)
           \/ FirstRoute(r)
  BY <1>5, DeployFindAdvance, FirstAdvance, MarkAndServiceAdvance, AdvanceMoves
<1>6. CASE ScalePods(r) \/ ScaleMark(r) \/ UndeployMark(r)
  BY <1>6, ScaleAdvance, MarkAndServiceAdvance, AdvanceMoves
<1>7. CASE CreateNewAppRelease(r) \/ AddOrRemoveRegions(r) \/ UpdateAppStatus(r)
           \/ Delete(r) \/ Config(r) \/ Image(r)
  BY <1>7, RollAdvance, RegionsAdvance, StatusAdvance, DeleteAdvance, ConfigAdvance,
     ImageAdvance, AdvanceMoves
<1> QED
  BY <1>2, <1>3, <1>4, <1>5, <1>6, <1>7 DEF Step, Deploy, UnDeploy, SuspendResumePods

\* Which tables a step of a request writes, and that their types survive.
LEMMA DeployTables ==
    ASSUME TypeOK, NEW r \in Requests, Deploy(r)
    PROVE  TablesTypeOK' /\ UNCHANGED <<worker, issued>>
<1>1. TablesTypeOK /\ req[r] \in Request /\ row \in [DeploymentIds -> DeploymentRow]
  BY DEF TypeOK, TablesTypeOK
<1>2. CASE DeployFind(r)
  BY <1>1, <1>2 DEF DeployFind, Reads, TablesTypeOK
<1>3. CASE Create(r)
  <2>1. req[r].region \in Regions
    BY <1>3 DEF TypeOK, Create, At
  <2>2. cluster' \in [DeploymentIds -> Workload]
    BY <1>1, <1>3, <2>1, ClusterTypes DEF Create, TablesTypeOK
  <2>3. nextDeployment' \in 1 .. MaxDeployments + 1
    BY <1>1, <1>3, NextIds DEF Create, TablesTypeOK
  <2> QED
    BY <1>1, <1>3, <2>2, <2>3 DEF Create, Same, TablesTypeOK
<1>4. CASE CreateService(r)
  <2>1. [cluster EXCEPT ![req[r].dep].service = TRUE] \in [DeploymentIds -> Workload]
    BY <1>1 DEF TablesTypeOK, Workload
  <2>2. cluster' \in [DeploymentIds -> Workload]
    BY <1>1, <1>4, <2>1, ClusterTypes DEF CreateService, TablesTypeOK
  <2> QED
    BY <1>1, <1>4, <2>2 DEF CreateService, OnlyCluster, Same, TablesTypeOK
<1>5. CASE FirstRelease(r)
  <2>1. release' \in [ReleaseIds -> ReleaseRow] /\ nextRelease' \in 1 .. MaxReleases + 1
    BY <1>1, <1>5, ReleaseTypes, NextIds, ZenonT(60) DEF FirstRelease, TablesTypeOK
  <2> QED
    BY <1>1, <1>5, <2>1 DEF FirstRelease, Same, TablesTypeOK
<1>6. CASE FirstRecord(r)
  <2>1. req[r].rel \in ReleaseIds \cup {NoRelease}
    BY <1>1 DEF Request
  <2>2. row' = CreateDeploymentsRecord(req[r].dep, req[r].rel, TRUE) \/ row' = row
    BY <1>6 DEF FirstRecord
  <2>3. row' \in [DeploymentIds -> DeploymentRow]
    BY <1>1, <2>1, <2>2, RecordType, Zenon
  <2> QED
    BY <1>1, <1>6, <2>3 DEF FirstRecord, OnlyRow, Same, TablesTypeOK
<1>7. CASE FirstRoute(r)
  <2>1. app' \in AppRow
    BY <1>1, <1>7 DEF FirstRoute, TablesTypeOK, AppRow
  <2> QED
    BY <1>1, <1>7, <2>1 DEF FirstRoute, OnlyApp, Same, TablesTypeOK
<1> QED
  BY <1>2, <1>3, <1>4, <1>5, <1>6, <1>7 DEF Deploy

\* A new release: only here do a request's steps start goroutines.
LEMMA RollTables ==
    ASSUME TypeOK, NEW r \in Requests, CreateNewAppRelease(r)
    PROVE  /\ TablesTypeOK'
           /\ worker' \in [Requests -> [DeploymentIds -> Worker]]
           /\ issued' = issued
<1>1. TablesTypeOK /\ req[r] \in Request /\ worker \in [Requests -> [DeploymentIds -> Worker]]
  BY DEF TypeOK
<1>2. CASE RollCurrent(r) \/ RollApp(r) \/ RollWait(r)
  BY <1>1, <1>2 DEF RollCurrent, RollApp, RollWait, Reads, TablesTypeOK
<1>3. CASE RollRows(r)
  <2> DEFINE started == [d \in DeploymentIds |->
                           IF d \in GetDeploymentsByReleaseId(req[r].rel)
                           THEN [NoWorker EXCEPT !.stage = "delete"] ELSE NoWorker]
  <2>1. NoWorker \in Worker /\ [NoWorker EXCEPT !.stage = "delete"] \in Worker
    BY DEF NoWorker, Worker, WorkerStage
  <2>2. started \in [DeploymentIds -> Worker]
    BY <2>1
  <2>3. worker' = [worker EXCEPT ![r] = started]
    BY <1>3 DEF RollRows
  <2> HIDE DEF started
  <2>4. worker' \in [Requests -> [DeploymentIds -> Worker]]
    BY <1>1, <2>2, <2>3
  <2>5. nextRelease' \in 1 .. MaxReleases + 1
    BY <1>1, <1>3, NextIds DEF RollRows
  <2> QED
    BY <1>1, <1>3, <2>4, <2>5 DEF RollRows, TablesTypeOK
<1>4. CASE RollRetire(r) \/ RollPublish(r)
  <2>1. req[r].version + 1 \in Nat
    BY <1>1 DEF Request
  <2>2. release' \in [ReleaseIds -> ReleaseRow]
    BY <1>1, <1>4, <2>1, ReleaseTypes DEF RollRetire, RollPublish, TablesTypeOK
  <2> QED
    BY <1>1, <1>4, <2>2 DEF RollRetire, RollPublish, OnlyRelease, Same, TablesTypeOK
<1>5. CASE RollVersion(r)
  <2>1. req[r].version + 1 \in Nat
    BY <1>1 DEF Request
  <2>2. app' \in AppRow
    BY <1>1, <1>5, <2>1 DEF RollVersion, TablesTypeOK, AppRow
  <2> QED
    BY <1>1, <1>5, <2>2 DEF RollVersion, OnlyApp, Same, TablesTypeOK
<1> QED
  BY <1>2, <1>3, <1>4, <1>5 DEF CreateNewAppRelease

\* AddOrRemoveRegions.
LEMMA RegionsTables ==
    ASSUME TypeOK, NEW r \in Requests, AddOrRemoveRegions(r)
    PROVE  TablesTypeOK' /\ UNCHANGED <<worker, issued>>
<1>1. TablesTypeOK /\ req[r] \in Request /\ row \in [DeploymentIds -> DeploymentRow]
  BY DEF TypeOK, TablesTypeOK
<1>2. CASE AddRecord(r)
  <2>1. req[r].rel \in ReleaseIds \cup {NoRelease}
    BY <1>1 DEF Request
  <2>2. row' = CreateDeploymentsRecord(req[r].dep, req[r].rel, TRUE) \/ row' = row
    BY <1>2 DEF AddRecord
  <2>3. row' \in [DeploymentIds -> DeploymentRow]
    BY <1>1, <2>1, <2>2, RecordType, Zenon
  <2> QED
    BY <1>1, <1>2, <2>3 DEF AddRecord, OnlyRow, Same, TablesTypeOK
<1>3. CASE AddRoute(r) \/ RegionsWrite(r)
  <2>1. req[r].regions \in SUBSET Regions /\ req[r].backups \in SUBSET Regions
    BY <1>1 DEF Request
  <2>2. app' \in AppRow
    BY <1>1, <1>3, <2>1 DEF AddRoute, RegionsWrite, TablesTypeOK, AppRow
  <2> QED
    BY <1>1, <1>3, <2>2 DEF AddRoute, RegionsWrite, OnlyApp, Same, TablesTypeOK
<1>4. CASE ~(AddRecord(r) \/ AddRoute(r) \/ RegionsWrite(r))
  <2>1. Reads
    BY <1>4 DEF AddOrRemoveRegions, RegionsRead, RegionsAdded, RegionsAddOnly, RegionsDeploy,
               AddRelease, RegionsStandby, StandbyDrop, StandbyDone, RegionsDelete,
               RegionsDeleted, RegionsBackup
  <2> QED
    BY <1>1, <2>1 DEF Reads, TablesTypeOK
<1> QED
  BY <1>2, <1>3, <1>4

\* UnDeploy.
LEMMA UndeployTables ==
    ASSUME TypeOK, NEW r \in Requests, UnDeploy(r)
    PROVE  TablesTypeOK' /\ UNCHANGED <<worker, issued>>
<1>1. TablesTypeOK
  BY DEF TypeOK
<1>2. CASE Reads
  BY <1>1, <1>2 DEF Reads, TablesTypeOK
<1>3. CASE UndeployRoute(r)
  <2>1. app' \in AppRow
    BY <1>1, <1>3 DEF UndeployRoute, TablesTypeOK, AppRow
  <2> QED
    BY <1>1, <1>3, <2>1 DEF UndeployRoute, OnlyApp, Same, TablesTypeOK
<1>4. CASE (UndeployPods(r) \/ UndeployService(r)) /\ ~Reads
  <2>1. cluster' \in [DeploymentIds -> Workload] /\ OnlyCluster /\ Same
    BY <1>1, <1>4, ClusterTypes DEF UndeployPods, UndeployService, UndeployFails
  <2> QED
    BY <1>1, <2>1 DEF OnlyCluster, Same, TablesTypeOK
<1>5. CASE UndeployMark(r)
  <2>1. row' \in [DeploymentIds -> DeploymentRow]
    BY <1>1, <1>5, RowTypes DEF UndeployMark, RowStatus
  <2> QED
    BY <1>1, <1>5, <2>1 DEF UndeployMark, OnlyRow, Same, TablesTypeOK
<1> QED
  BY <1>2, <1>3, <1>4, <1>5 DEF UnDeploy, UndeployFind

\* SuspendResumePods.
LEMMA ScaleTables ==
    ASSUME TypeOK, NEW r \in Requests, SuspendResumePods(r)
    PROVE  TablesTypeOK' /\ UNCHANGED <<worker, issued>>
<1>1. TablesTypeOK
  BY DEF TypeOK
<1>2. CASE ScaleFind(r)
  BY <1>1, <1>2 DEF ScaleFind, Reads, TablesTypeOK
<1>3. CASE ScalePods(r)
  <2>1. \A pods \in {"zero", "up"} : \A d :
          [cluster EXCEPT ![d].pods = pods] \in [DeploymentIds -> Workload]
    BY <1>1 DEF TablesTypeOK, Workload
  <2>2. cluster' \in [DeploymentIds -> Workload]
    BY <1>1, <1>3, <2>1 DEF ScalePods, TablesTypeOK
  <2> QED
    BY <1>1, <1>3, <2>2 DEF ScalePods, OnlyCluster, Same, TablesTypeOK
<1>4. CASE ScaleMark(r)
  <2>1. row' \in [DeploymentIds -> DeploymentRow]
    BY <1>1, <1>4, RowTypes DEF ScaleMark, RowStatus
  <2> QED
    BY <1>1, <1>4, <2>1 DEF ScaleMark, OnlyRow, Same, TablesTypeOK
<1> QED
  BY <1>2, <1>3, <1>4 DEF SuspendResumePods

\* UpdateAppStatus and DeleteApp.
LEMMA StatusAndDeleteTables ==
    ASSUME TypeOK, NEW r \in Requests, UpdateAppStatus(r) \/ Delete(r)
    PROVE  TablesTypeOK' /\ UNCHANGED <<worker, issued>>
<1>1. TablesTypeOK /\ req[r] \in Request
  BY DEF TypeOK
<1>2. CASE StatusRelease(r) \/ StatusRows(r) \/ DeleteRead(r) \/ DeleteCheck(r)
  BY <1>1, <1>2 DEF StatusRelease, StatusRows, DeleteRead, DeleteCheck, Reads, TablesTypeOK
<1>3. CASE StatusWrite(r)
  <2>1. req[r].seen \in AppStatus
    BY <1>3 DEF StatusWrite, At, TypeOK
  <2>2. app' \in AppRow
    BY <1>1, <1>3, <2>1 DEF StatusWrite, TablesTypeOK, AppRow
  <2> QED
    BY <1>1, <1>3, <2>2 DEF StatusWrite, OnlyApp, Same, TablesTypeOK
<1>4. CASE DeleteRecord(r)
  <2>1. app' \in AppRow
    BY <1>1, <1>4 DEF DeleteRecord, TablesTypeOK, AppRow
  <2> QED
    BY <1>1, <1>4, <2>1 DEF DeleteRecord, OnlyApp, Same, TablesTypeOK
<1>5. CASE DeleteRows(r)
  <2>1. row' \in [DeploymentIds -> DeploymentRow]
    BY <1>1, <1>5 DEF DeleteRows, TablesTypeOK, DeploymentRow, RowStatus
  <2> QED
    BY <1>1, <1>5, <2>1 DEF DeleteRows, OnlyRow, Same, TablesTypeOK
<1>6. CASE DeleteReleases(r)
  <2>1. release' \in [ReleaseIds -> ReleaseRow]
    BY <1>6 DEF DeleteReleases, NoReleaseRow, ReleaseRow
  <2> QED
    BY <1>1, <1>6, <2>1 DEF DeleteReleases, OnlyRelease, Same, TablesTypeOK
<1> QED
  BY <1>2, <1>3, <1>4, <1>5, <1>6 DEF UpdateAppStatus, Delete

\* UpdateConfigApps and UpdateImage.
LEMMA ConfigAndImageTables ==
    ASSUME TypeOK, NEW r \in Requests, Config(r) \/ Image(r)
    PROVE  TablesTypeOK' /\ UNCHANGED <<worker, issued>>
<1>1. TablesTypeOK /\ req[r] \in Request
  BY DEF TypeOK
<1>2. req[r].version \in Nat /\ req[r].fresh \in ReleaseIds \cup {NoRelease}
  BY <1>1 DEF Request
<1>3. CASE ConfigAgain(r) \/ ConfigRelease(r) \/ ConfigLatest(r) \/ ImageRelease(r)
  BY <1>1, <1>3 DEF ConfigAgain, ConfigRelease, ConfigLatest, ImageRelease, ReleaseRead,
                    Reads, TablesTypeOK
<1>4. CASE ConfigRetire(r) \/ ImageRetire(r) \/ ConfigActivate(r)
  <2>1. release' \in [ReleaseIds -> ReleaseRow]
    BY <1>1, <1>4, ReleaseTypes DEF ConfigRetire, ImageRetire, ReleaseRetire, ConfigActivate
  <2>2. OnlyRelease /\ Same
    BY <1>4 DEF ConfigRetire, ImageRetire, ReleaseRetire, ConfigActivate
  <2> QED
    BY <1>1, <2>1, <2>2 DEF OnlyRelease, Same, TablesTypeOK
<1>5. CASE ConfigPublish(r) \/ ImagePublish(r)
  <2>1. /\ nextRelease \in ReleaseIds
        /\ \/ /\ release' = CreateAppRelease(nextRelease, req[r].version)
              /\ nextRelease' = nextRelease + 1
           \/ UNCHANGED <<release, nextRelease>>
        /\ UNCHANGED <<app, row, cluster, nextDeployment>>
        /\ Same
    BY <1>5 DEF ConfigPublish, ImagePublish, ReleasePublish
  <2>2. release' \in [ReleaseIds -> ReleaseRow] /\ nextRelease' \in 1 .. MaxReleases + 1
    BY <1>1, <1>2, <2>1, ReleaseTypes, NextIds DEF TablesTypeOK
  <2> QED
    BY <1>1, <2>1, <2>2 DEF Same, TablesTypeOK
<1>6. CASE ConfigAttach(r)
  <2>1. row' \in [DeploymentIds -> DeploymentRow]
    BY <1>1, <1>2, <1>6, RowTypes DEF ConfigAttach
  <2> QED
    BY <1>1, <1>6, <2>1 DEF ConfigAttach, OnlyRow, Same, TablesTypeOK
<1>7. CASE ConfigVersion(r)
  <2>1. app' \in AppRow
    BY <1>1, <1>2, <1>7 DEF ConfigVersion, TablesTypeOK, AppRow, AppStatus
  <2> QED
    BY <1>1, <1>7, <2>1 DEF ConfigVersion, OnlyApp, Same, TablesTypeOK
<1> QED
  BY <1>3, <1>4, <1>5, <1>6, <1>7 DEF Config, Image

\* TypeOK is inductive: the steps of requests,
LEMMA StepType ==
    ASSUME TypeOK, NEW r \in Requests, Step(r) PROVE TypeOK'
<1>1. worker \in [Requests -> [DeploymentIds -> Worker]] /\ issued \in 0 .. MaxRequests
  BY DEF TypeOK
<1>2. /\ TablesTypeOK'
      /\ worker' \in [Requests -> [DeploymentIds -> Worker]]
      /\ issued' \in 0 .. MaxRequests
  BY <1>1, DeployTables, RollTables, RegionsTables, StatusAndDeleteTables, UndeployTables,
     ScaleTables, ConfigAndImageTables DEF Step
<1> QED
  BY <1>2, StepMoves, MovesType

\* the requests that arrive,
LEMMA MutationType ==
    ASSUME TypeOK, NEW r \in Requests, Mutation(r) PROVE TypeOK'
<1>1. UNCHANGED <<tables, worker>> /\ issued < MaxRequests /\ issued' = issued + 1
  BY DEF Mutation, DeployImage, ConfigureRegions, MoveApp, PauseApp, ResumeApp, UpdateImage,
         Redeploy, Revert, DeleteApp, Issue
<1>2. TablesTypeOK' /\ worker' \in [Requests -> [DeploymentIds -> Worker]]
  BY <1>1 DEF TypeOK, TablesTypeOK, tables
<1>3. issued' \in 0 .. MaxRequests
  <2>1. MaxRequests \in Nat
    BY LifecycleAssumption
  <2>2. issued \in 0 .. MaxRequests
    BY DEF TypeOK
  <2> QED
    BY <1>1, <2>1, <2>2
<1> QED
  BY <1>2, <1>3, MutationAdvance, AdvanceMoves, MovesType

\* a server that stops,
LEMMA HaltType ==
    ASSUME TypeOK, Halt PROVE TypeOK'
<1>1. Idle \in Request /\ Idle.pc = "idle"
  BY IdleFollows DEF Follows, Carries, Idle
<1>2. NoWorker \in Worker
  BY DEF NoWorker, Worker, WorkerStage
<1>3. req' \in [Requests -> Request] /\ \A r \in Requests : req'[r].pc = "idle"
  BY <1>1 DEF Halt
<1> QED
  BY <1>2, <1>3 DEF Halt, TypeOK, TablesTypeOK, tables

\* the goroutines of a new release,
LEMMA WorkType ==
    ASSUME TypeOK, NEW r \in Requests, NEW d \in DeploymentIds, Work(r, d) PROVE TypeOK'
<1>1. /\ TablesTypeOK
      /\ req[r] \in Request
      /\ worker \in [Requests -> [DeploymentIds -> Worker]]
      /\ worker[r][d] \in Worker
      /\ cluster[d].region \in Regions
  BY DEF TypeOK, TablesTypeOK, Workload
<1>2. \A w \in Worker : Stage(r, d, w) => worker' \in [Requests -> [DeploymentIds -> Worker]]
  BY <1>1 DEF Stage
<1>3. SUFFICES ASSUME ~WorkerPanic(r, d)
               PROVE  TablesTypeOK' /\ worker' \in [Requests -> [DeploymentIds -> Worker]]
  BY HaltType DEF WorkerPanic, Work, WorkerDelete, WorkerMark, WorkerCreate, WorkerRecord, TypeOK
<1>4. CASE WorkerDelete(r, d)
  <2>1. cluster' \in [DeploymentIds -> Workload]
    BY <1>1, <1>4, ClusterTypes DEF WorkerDelete, TablesTypeOK
  <2>2. [worker[r][d] EXCEPT !.stage = "mark"] \in Worker
    BY <1>1 DEF Worker, WorkerStage
  <2> QED
    BY <1>1, <1>2, <1>4, <2>1, <2>2 DEF WorkerDelete, OnlyCluster, TablesTypeOK
<1>5. CASE WorkerMark(r, d)
  <2>1. row' \in [DeploymentIds -> DeploymentRow]
    BY <1>1, <1>5, RowTypes DEF WorkerMark, RowStatus
  <2>2. [worker[r][d] EXCEPT !.stage = "create"] \in Worker
    BY <1>1 DEF Worker, WorkerStage
  <2> QED
    BY <1>1, <1>2, <1>5, <2>1, <2>2 DEF WorkerMark, OnlyRow, TablesTypeOK
<1>6. CASE WorkerCreate(r, d)
  <2>1. nextDeployment \in DeploymentIds
    BY <1>6 DEF WorkerCreate
  <2>2. \A new \in {nextDeployment, NoDeployment} : [stage |-> "record", new |-> new] \in Worker
    BY <2>1 DEF Worker, WorkerStage
  <2>3. cluster' \in [DeploymentIds -> Workload] /\ nextDeployment' \in 1 .. MaxDeployments + 1
    BY <1>1, <1>6, <2>1, ClusterTypes, NextIds DEF WorkerCreate, TablesTypeOK
  <2>4. \E new \in {nextDeployment, NoDeployment} :
          Stage(r, d, [stage |-> "record", new |-> new])
    BY <1>6 DEF WorkerCreate
  <2> QED
    BY <1>1, <1>2, <1>6, <2>2, <2>3, <2>4 DEF WorkerCreate, TablesTypeOK
<1>7. CASE WorkerRecord(r, d)
  <2>1. NoWorker \in Worker
    BY DEF NoWorker, Worker, WorkerStage
  <2>2. req[r].fresh \in ReleaseIds \cup {NoRelease}
    BY <1>1 DEF Request
  <2>3. \/ row' = row
        \/ row' = CreateDeploymentsRecord(worker[r][d].new, req[r].fresh, TRUE)
        \/ row' = CreateDeploymentsRecord(nextDeployment, req[r].fresh, FALSE)
    BY <1>7 DEF WorkerRecord
  <2>4. row \in [DeploymentIds -> DeploymentRow]
    BY <1>1 DEF TablesTypeOK
  <2>5. row' \in [DeploymentIds -> DeploymentRow]
    BY <1>1, <2>2, <2>3, <2>4, RecordType, Zenon
  <2>6. [cluster EXCEPT ![nextDeployment].region = cluster[d].region]
          \in [DeploymentIds -> Workload]
    BY <1>1 DEF TablesTypeOK, Workload
  <2>7. cluster' \in [DeploymentIds -> Workload] /\ nextDeployment' \in 1 .. MaxDeployments + 1
    BY <1>1, <1>7, <2>6, NextIds DEF WorkerRecord, TablesTypeOK
  <2> QED
    BY <1>1, <1>2, <1>7, <2>1, <2>5, <2>7 DEF WorkerRecord, TablesTypeOK
<1> QED
  BY <1>3, <1>4, <1>5, <1>6, <1>7 DEF Work

\* the initial state,
LEMMA InitType == Init => TypeOK
<1> SUFFICES ASSUME Init PROVE TypeOK
  OBVIOUS
<1>1. Idle \in Request /\ Idle.pc = "idle"
  BY IdleFollows DEF Follows, Carries, Idle
<1>2. NoWorker \in Worker
  BY DEF NoWorker, Worker, WorkerStage
<1>3. TablesTypeOK
  BY TablesAssumption DEF Init, TablesInit, TablesTypeOK, AppRow, AppStatus, ReleaseRow,
     NoReleaseRow, DeploymentRow, NoDeploymentRow, RowStatus, Workload
<1>4. req \in [Requests -> Request] /\ \A r \in Requests : req[r].pc = "idle"
  BY <1>1 DEF Init
<1>5. worker \in [Requests -> [DeploymentIds -> Worker]]
  BY <1>2 DEF Init
<1>6. issued \in 0 .. MaxRequests
  <2>1. issued = 0 /\ MaxRequests \in Nat
    BY LifecycleAssumption DEF Init
  <2> QED
    BY <2>1
<1> QED
  BY <1>3, <1>4, <1>5, <1>6 DEF TypeOK

\* and every step of the system.
LEMMA NextType == TypeOK /\ [Next]_vars => TypeOK'
<1> SUFFICES ASSUME TypeOK, [Next]_vars PROVE TypeOK'
  OBVIOUS
<1>1. CASE UNCHANGED vars
  BY <1>1 DEF vars, TypeOK, TablesTypeOK
<1>2. ASSUME NEW r \in Requests, Mutation(r) PROVE TypeOK'
  BY <1>2, MutationType
<1>3. ASSUME NEW r \in Requests, Step(r) PROVE TypeOK'
  BY <1>3, StepType
<1>4. ASSUME NEW r \in Requests, NEW d \in DeploymentIds, Work(r, d) PROVE TypeOK'
  BY <1>4, WorkType
<1>5. CASE Crash
  BY <1>5, HaltType DEF Crash
<1> QED
  BY <1>1, <1>2, <1>3, <1>4, <1>5 DEF Next, Done

\* Every behaviour is well typed, with any number of requests, regions, releases
\* and faults.  In particular UpdateAppStatus only ever writes a status it has
\* computed, and every deployment is created in a region.
THEOREM TypeCorrect == Spec => []TypeOK
<1> QED
  BY InitType, NextType, PTL DEF Spec

-----------------------------------------------------------------------------
(***************************************************************************)
(* DestroyedIsGone.  What a step does to the tables is separated from what  *)
(* it does to the requests: Steady is what the other requests rely on.      *)
(***************************************************************************)
TablesInv == FreshIds /\ UnnamedHasNoPods /\ DestroyedIsGone

\* The step takes nothing back of what was known about an id handed out before.
Steady ==
    /\ nextDeployment' >= nextDeployment
    /\ \A d \in DeploymentIds : d < nextDeployment =>
        /\ Identified(d) => Identified(d)'
        /\ cluster[d].pods = "none" => cluster'[d].pods = "none"

\* The ids a request may hold.
LEMMA IdsAreNat ==
    ASSUME TypeOK
    PROVE  /\ nextDeployment \in Nat \ {0}
           /\ \A d \in DeploymentIds : d \in Nat /\ d # 0
           /\ \A q \in Request : q.dep \in Nat /\ (q.dep # NoDeployment => q.dep \in DeploymentIds)
<1>1. MaxDeployments \in Nat /\ nextDeployment \in 1 .. MaxDeployments + 1
  BY TablesAssumption DEF TypeOK, TablesTypeOK
<1>2. nextDeployment \in Nat \ {0}
  BY <1>1
<1>3. \A d \in DeploymentIds : d \in Nat /\ d # 0
  BY <1>1 DEF DeploymentIds
<1>4. ASSUME NEW q \in Request
      PROVE  q.dep \in Nat /\ (q.dep # NoDeployment => q.dep \in DeploymentIds)
  <2>1. q.dep \in DeploymentIds \cup {NoDeployment}
    BY DEF Request
  <2> QED
    BY <1>3, <2>1 DEF NoDeployment
<1> QED
  BY <1>2, <1>3, <1>4

\* The ids a goroutine may hold.
LEMMA NewIdsAreNat ==
    ASSUME TypeOK, NEW w \in Worker PROVE w.new \in Nat
<1>1. w.new \in DeploymentIds \cup {NoDeployment}
  BY DEF Worker
<1>2. \A d \in DeploymentIds : d \in Nat
  BY IdsAreNat
<1> QED
  BY <1>1, <1>2 DEF NoDeployment

\* Every request other than r keeps what it knows, and r becomes q.
LEMMA RequestsKnow ==
    ASSUME TypeOK, TypeOK', DestroyedInv, Steady, NEW r \in Requests, NEW q, Become(r, q),
           q.dep < nextDeployment', UndeployKnows(q)'
    PROVE  \A s \in Requests : req'[s].dep < nextDeployment' /\ UndeployKnows(req[s])'
<1>1. \A s \in Requests : req'[s] = IF s = r THEN q ELSE req[s]
  BY DEF Become, TypeOK
<1>2. ASSUME NEW s \in Requests, s # r
      PROVE  req'[s].dep < nextDeployment' /\ UndeployKnows(req[s])'
  <2>1. req[s] \in Request /\ req'[s] = req[s]
    BY <1>1, <1>2 DEF TypeOK
  <2>2. req[s].dep < nextDeployment
    BY DEF DestroyedInv, HeldIds
  <2>3. nextDeployment' \in Nat /\ nextDeployment' >= nextDeployment
    BY TablesAssumption DEF Steady, TypeOK, TablesTypeOK
  <2>4. UndeployKnows(req[s])
    BY DEF DestroyedInv
  <2>5. req[s].dep # NoDeployment =>
          /\ Identified(req[s].dep) => Identified(req[s].dep)'
          /\ cluster[req[s].dep].pods = "none" => cluster'[req[s].dep].pods = "none"
    BY <2>1, <2>2, IdsAreNat DEF Steady
  <2> QED
    BY <2>1, <2>2, <2>3, <2>4, <2>5, IdsAreNat DEF UndeployKnows
<1> QED
  BY <1>1, <1>2

\* A step of a request that leaves the goroutines alone.
LEMMA RequestInv ==
    ASSUME TypeOK, TypeOK', DestroyedInv, Steady, TablesInv', UNCHANGED worker,
           NEW r \in Requests, NEW q, Become(r, q), q.dep < nextDeployment', UndeployKnows(q)'
    PROVE  DestroyedInv'
<1>1. \A s \in Requests : req'[s].dep < nextDeployment' /\ UndeployKnows(req[s])'
  BY RequestsKnow
<1>2. ASSUME NEW s \in Requests, NEW d \in DeploymentIds
      PROVE  /\ worker'[s][d].new < nextDeployment'
             /\ worker'[s][d].stage # "off" => d < nextDeployment'
             /\ WorkerKnows(s, d)'
  <2>1. worker[s][d] \in Worker /\ d \in Nat
    BY IdsAreNat DEF TypeOK
  <2>2. worker[s][d].new \in Nat
    BY <2>1, NewIdsAreNat
  <2>3. /\ worker[s][d].new < nextDeployment
        /\ worker[s][d].stage # "off" => d < nextDeployment
        /\ WorkerKnows(s, d)
    BY DEF DestroyedInv, HeldIds
  <2>4. nextDeployment \in Nat /\ nextDeployment' \in Nat /\ nextDeployment' >= nextDeployment
    BY TablesAssumption DEF Steady, TypeOK, TablesTypeOK
  <2>5. worker[s][d].stage # "off" =>
          /\ Identified(d) => Identified(d)'
          /\ cluster[d].pods = "none" => cluster'[d].pods = "none"
    BY <2>3 DEF Steady
  <2>6. worker'[s][d] = worker[s][d]
    OBVIOUS
  <2> QED
    BY <2>1, <2>2, <2>3, <2>4, <2>5, <2>6 DEF WorkerKnows
<1> QED
  BY <1>1, <1>2 DEF DestroyedInv, HeldIds, TablesInv

\* Outside of UnDeploy a request knows nothing it could be wrong about.
LEMMA AdvanceInv ==
    ASSUME TypeOK, TypeOK', DestroyedInv, Steady, TablesInv', UNCHANGED worker,
           NEW r \in Requests, Advance(r)
    PROVE  DestroyedInv'
<1>1. PICK q : Follows(req[r], q) /\ Become(r, q)
  BY DEF Advance
<1>2. UndeployKnows(q)'
  BY <1>1 DEF UndeployKnows, Follows, UndeployLabels
<1>3. req[r].dep < nextDeployment /\ req[r] \in Request
  BY DEF DestroyedInv, HeldIds, TypeOK
<1>4. req[r].dep \in Nat /\ q.dep \in {req[r].dep, NoDeployment}
  BY <1>1, <1>3, IdsAreNat DEF Follows, Carries
<1>5. nextDeployment \in Nat \ {0} /\ nextDeployment' \in Nat /\ nextDeployment' >= nextDeployment
  BY TablesAssumption DEF Steady, TypeOK, TablesTypeOK
<1>6. q.dep < nextDeployment'
  BY <1>3, <1>4, <1>5 DEF NoDeployment
<1> QED
  BY <1>1, <1>2, <1>6, RequestInv

\* A step of the goroutine that replaces d.
LEMMA WorkerInv ==
    ASSUME TypeOK, TypeOK', DestroyedInv, Steady, TablesInv', UNCHANGED req,
           NEW r \in Requests, NEW d \in DeploymentIds, NEW w \in Worker, Stage(r, d, w),
           worker[r][d].stage # "off", w.new < nextDeployment',
           w.stage # "delete", w.stage = "mark" => cluster'[d].pods = "none"
    PROVE  DestroyedInv'
<1>1. ASSUME NEW s \in Requests
      PROVE  req'[s].dep < nextDeployment' /\ UndeployKnows(req[s])'
  <2>1. req[s] \in Request /\ req'[s] = req[s] /\ UndeployKnows(req[s])
    BY DEF TypeOK, DestroyedInv
  <2>2. req[s].dep < nextDeployment
    BY DEF DestroyedInv, HeldIds
  <2>3. nextDeployment \in Nat /\ nextDeployment' \in Nat /\ nextDeployment' >= nextDeployment
    BY TablesAssumption DEF Steady, TypeOK, TablesTypeOK
  <2>4. req[s].dep # NoDeployment =>
          /\ Identified(req[s].dep) => Identified(req[s].dep)'
          /\ cluster[req[s].dep].pods = "none" => cluster'[req[s].dep].pods = "none"
    BY <2>1, <2>2, IdsAreNat DEF Steady
  <2> QED
    BY <2>1, <2>2, <2>3, <2>4, IdsAreNat DEF UndeployKnows
<1>2. ASSUME NEW s \in Requests, NEW e \in DeploymentIds
      PROVE  /\ worker'[s][e].new < nextDeployment'
             /\ worker'[s][e].stage # "off" => e < nextDeployment'
             /\ WorkerKnows(s, e)'
  <2>1. worker[s][e] \in Worker /\ e \in Nat
    BY IdsAreNat DEF TypeOK
  <2>2. worker[s][e].new \in Nat
    BY <2>1, NewIdsAreNat
  <2>3. /\ worker[s][e].new < nextDeployment
        /\ worker[s][e].stage # "off" => e < nextDeployment
        /\ WorkerKnows(s, e)
    BY DEF DestroyedInv, HeldIds
  <2>4. nextDeployment \in Nat /\ nextDeployment' \in Nat /\ nextDeployment' >= nextDeployment
    BY TablesAssumption DEF Steady, TypeOK, TablesTypeOK
  <2>5. worker[s][e].stage # "off" =>
          /\ Identified(e) => Identified(e)'
          /\ cluster[e].pods = "none" => cluster'[e].pods = "none"
    BY <2>3 DEF Steady
  <2>6. worker'[s][e] = IF s = r /\ e = d THEN w ELSE worker[s][e]
    BY DEF Stage, TypeOK
  <2> QED
    BY <2>1, <2>2, <2>3, <2>4, <2>5, <2>6 DEF WorkerKnows
<1> QED
  BY <1>1, <1>2 DEF DestroyedInv, HeldIds, TablesInv

-----------------------------------------------------------------------------
(***************************************************************************)
(* Every statement is Steady and preserves TablesInv                       *)
(***************************************************************************)
LEMMA NothingIsSteady ==
    ASSUME TypeOK, TablesInv, UNCHANGED <<row, cluster, nextDeployment>>
    PROVE  Steady /\ TablesInv'
<1>1. nextDeployment' >= nextDeployment
  BY IdsAreNat
<1> QED
  BY <1>1 DEF Steady, TablesInv, FreshIds, UnnamedHasNoPods, DestroyedIsGone, Identified, Rows

\* A row is marked destroyed when no row of that id has pods.
LEMMA MarkIsSteady ==
    ASSUME TypeOK, TablesInv, NEW status \in RowStatus \ {"none"}, NEW id,
           row' = UpdateDeploymentsRecord(status, id), UNCHANGED <<cluster, nextDeployment>>,
           status = "destroyed" =>
             \A d \in Rows : DeploymentId(d) = id => cluster[d].pods = "none"
    PROVE  Steady /\ TablesInv'
<1>1. nextDeployment' >= nextDeployment
  BY IdsAreNat
<1>2. \A d \in DeploymentIds :
        /\ row'[d].named = row[d].named
        /\ row'[d].status = IF d \in Rows /\ DeploymentId(d) = id THEN status ELSE row[d].status
  BY DEF UpdateDeploymentsRecord, TypeOK, TablesTypeOK, DeploymentRow
<1>3. Rows' = Rows
  BY <1>2 DEF Rows, RowStatus
<1>4. Steady
  BY <1>1, <1>2 DEF Steady, Identified
<1>5. FreshIds'
  BY <1>2 DEF TablesInv, FreshIds, Rows
<1>6. UnnamedHasNoPods'
  BY <1>2, <1>3 DEF TablesInv, UnnamedHasNoPods, Identified, Rows
<1>7. DestroyedIsGone'
  BY <1>2 DEF TablesInv, DestroyedIsGone
<1> QED
  BY <1>4, <1>5, <1>6, <1>7 DEF TablesInv

\* A row is inserted under an id handed out before.
LEMMA RecordIsSteady ==
    ASSUME TypeOK, TablesInv, NEW d \in DeploymentIds \cup {NoDeployment}, d < nextDeployment,
           NEW x, row' = CreateDeploymentsRecord(d, x, TRUE), UNCHANGED <<cluster, nextDeployment>>
    PROVE  Steady /\ TablesInv'
<1>1. nextDeployment' >= nextDeployment
  BY IdsAreNat
<1>2. \A e \in DeploymentIds :
        /\ e # d => row'[e] = row[e]
        /\ e = d => row'[e].named /\ row'[e].status = "running"
  BY DEF CreateDeploymentsRecord, TypeOK, TablesTypeOK
<1>3. Steady
  BY <1>1, <1>2 DEF Steady, Identified
<1>4. FreshIds'
  <2>1. ASSUME NEW e \in DeploymentIds, e >= nextDeployment PROVE e # d
    BY <2>1, IdsAreNat DEF NoDeployment
  <2> QED
    BY <1>2, <2>1 DEF TablesInv, FreshIds
<1>5. UnnamedHasNoPods'
  BY <1>2 DEF TablesInv, UnnamedHasNoPods, Identified, Rows
<1>6. DestroyedIsGone'
  BY <1>2 DEF TablesInv, DestroyedIsGone
<1> QED
  BY <1>3, <1>4, <1>5, <1>6 DEF TablesInv

\* Giving a row to another release changes no status.
LEMMA AttachIsSteady ==
    ASSUME TypeOK, TablesInv, NEW d, NEW x, row' = UpdateDeploymentsReleaseId(d, x),
           UNCHANGED <<cluster, nextDeployment>>
    PROVE  Steady /\ TablesInv'
<1>1. nextDeployment' >= nextDeployment
  BY IdsAreNat
<1>2. \A e \in DeploymentIds : row'[e].named = row[e].named /\ row'[e].status = row[e].status
  BY DEF UpdateDeploymentsReleaseId, TypeOK, TablesTypeOK, DeploymentRow
<1>3. Rows' = Rows
  BY <1>2 DEF Rows
<1> QED
  BY <1>1, <1>2, <1>3 DEF Steady, TablesInv, FreshIds, UnnamedHasNoPods, DestroyedIsGone,
                         Identified, Rows

\* DeleteApp drops the rows: no row is left to say "destroyed".
LEMMA DeleteRowsIsSteady ==
    ASSUME TypeOK, TablesInv, NEW r \in Requests, DeleteRows(r)
    PROVE  Steady /\ TablesInv'
<1>1. nextDeployment' >= nextDeployment
  BY IdsAreNat DEF DeleteRows, OnlyRow
<1>2. \A e \in DeploymentIds : row'[e].named = row[e].named /\ row'[e].status = "none"
  BY DEF DeleteRows, TypeOK, TablesTypeOK, DeploymentRow
<1>3. UNCHANGED <<cluster, nextDeployment>>
  BY DEF DeleteRows, OnlyRow
<1> QED
  BY <1>1, <1>2, <1>3 DEF Steady, TablesInv, FreshIds, UnnamedHasNoPods, DestroyedIsGone,
                         Identified, Rows

\* Pods are deleted, scaled where there are some, or left alone.
LEMMA PodsAreSteady ==
    ASSUME TypeOK, TablesInv, UNCHANGED <<row, nextDeployment>>,
           \A d \in DeploymentIds : cluster[d].pods = "none" => cluster'[d].pods = "none"
    PROVE  Steady /\ TablesInv'
<1>1. nextDeployment' >= nextDeployment
  BY IdsAreNat
<1> QED
  BY <1>1 DEF Steady, TablesInv, FreshIds, UnnamedHasNoPods, DestroyedIsGone, Identified, Rows

\* Pods are created under an id that nobody holds yet.
LEMMA CreateIsSteady ==
    ASSUME TypeOK, TablesInv, nextDeployment \in DeploymentIds, NEW region,
           cluster' = CreatePods(nextDeployment, region),
           nextDeployment' = nextDeployment + 1, UNCHANGED row
    PROVE  Steady /\ TablesInv'
<1>1. nextDeployment \in Nat /\ \A d \in DeploymentIds : d \in Nat
  BY IdsAreNat
<1>2. \A d \in DeploymentIds : d # nextDeployment => cluster'[d] = cluster[d]
  BY DEF CreatePods, TypeOK, TablesTypeOK
<1>3. row[nextDeployment].status = "none"
  BY <1>1 DEF TablesInv, FreshIds
<1>4. \A d \in DeploymentIds :
        /\ d < nextDeployment => d # nextDeployment
        /\ d >= nextDeployment' => d >= nextDeployment /\ d # nextDeployment
  BY <1>1
<1>5. Steady
  <2>1. nextDeployment' >= nextDeployment
    BY <1>1
  <2>2. \A d \in DeploymentIds : d < nextDeployment => cluster'[d] = cluster[d]
    BY <1>2, <1>4
  <2> QED
    BY <2>1, <2>2 DEF Steady, Identified
<1>6. FreshIds'
  BY <1>2, <1>4 DEF TablesInv, FreshIds
<1>7. UnnamedHasNoPods' /\ DestroyedIsGone'
  BY <1>2, <1>3 DEF TablesInv, UnnamedHasNoPods, DestroyedIsGone, Identified, Rows
<1> QED
  BY <1>5, <1>6, <1>7 DEF TablesInv

-----------------------------------------------------------------------------
(***************************************************************************)
(* DestroyedInv is inductive                                               *)
(***************************************************************************)
\* The steps that read, or write app and app_release only.
Elsewhere == UNCHANGED <<row, cluster, nextDeployment, worker>>

\* A step that touches neither rows nor clusters.
LEMMA ElsewhereInv ==
    ASSUME TypeOK, TypeOK', DestroyedInv, Elsewhere, NEW r \in Requests, Advance(r)
    PROVE  DestroyedInv'
<1>1. Steady /\ TablesInv'
  BY NothingIsSteady DEF Elsewhere, DestroyedInv, TablesInv
<1> QED
  BY <1>1, AdvanceInv DEF Elsewhere

\* A request that arrives.
LEMMA MutationInv ==
    ASSUME TypeOK, TypeOK', DestroyedInv, NEW r \in Requests, Mutation(r)
    PROVE  DestroyedInv'
<1>1. Elsewhere
  BY DEF Mutation, DeployImage, ConfigureRegions, MoveApp, PauseApp, ResumeApp, UpdateImage,
         Redeploy, Revert, DeleteApp, Issue, tables, Elsewhere
<1> QED
  BY <1>1, MutationAdvance, ElsewhereInv

\* CreateNewAppRelease starts its goroutines on rows of the table.
LEMMA RollInv ==
    ASSUME TypeOK, TypeOK', DestroyedInv, NEW r \in Requests, CreateNewAppRelease(r)
    PROVE  DestroyedInv'
<1>1. CASE RollRows(r)
  <2>1. Steady /\ TablesInv'
    BY <1>1, NothingIsSteady DEF RollRows, DestroyedInv, TablesInv
  <2>2. PICK q : Follows(req[r], q) /\ Become(r, q)
    BY RollAdvance DEF Advance
  <2>3. UndeployKnows(q)'
    BY <2>2 DEF UndeployKnows, Follows, UndeployLabels
  <2>4. q.dep < nextDeployment'
    <3>1. q.dep = req[r].dep \/ q.dep = 0
      BY <2>2 DEF Follows, Carries, NoDeployment
    <3>2. req[r].dep < nextDeployment /\ 0 < nextDeployment /\ nextDeployment' = nextDeployment
      BY <1>1, IdsAreNat DEF RollRows, DestroyedInv, HeldIds
    <3> QED
      BY <3>1, <3>2
  <2>5. \A s \in Requests : req'[s].dep < nextDeployment' /\ UndeployKnows(req[s])'
    BY <2>1, <2>2, <2>3, <2>4, RequestsKnow
  <2>6. ASSUME NEW s \in Requests, NEW d \in DeploymentIds
        PROVE  /\ worker'[s][d].new < nextDeployment'
               /\ worker'[s][d].stage # "off" => d < nextDeployment'
               /\ WorkerKnows(s, d)'
    <3>1. UNCHANGED <<row, cluster, nextDeployment>>
      BY <1>1 DEF RollRows
    <3>2. CASE s # r
      <4>1. worker'[s] = worker[s]
        BY <1>1, <3>2 DEF RollRows, TypeOK
      <4> QED
        BY <3>1, <4>1 DEF DestroyedInv, HeldIds, WorkerKnows, Identified
    <3>3. CASE s = r
      <4>1. worker'[s][d] = IF d \in GetDeploymentsByReleaseId(req[r].rel)
                            THEN [NoWorker EXCEPT !.stage = "delete"] ELSE NoWorker
        BY <1>1, <3>3 DEF RollRows, TypeOK
      <4>2. /\ worker'[s][d].new = 0
            /\ worker'[s][d].stage \in {"off", "delete"}
            /\ worker'[s][d].stage = "delete" => d \in Rows
        BY <4>1 DEF NoWorker, NoDeployment, GetDeploymentsByReleaseId
      <4>3. d \in Rows => Identified(d) /\ ~(d >= nextDeployment)
        BY DEF DestroyedInv, UnnamedHasNoPods, FreshIds, Rows
      <4>4. nextDeployment \in Nat \ {0} /\ d \in Nat
        BY IdsAreNat
      <4> QED
        BY <3>1, <4>2, <4>3, <4>4 DEF WorkerKnows, Identified
    <3> QED
      BY <3>2, <3>3
  <2> QED
    BY <2>1, <2>5, <2>6 DEF DestroyedInv, HeldIds, TablesInv
<1>2. CASE ~RollRows(r)
  <2>1. Elsewhere
    BY <1>2 DEF CreateNewAppRelease, RollCurrent, RollApp, RollWait, RollRetire, RollPublish,
               RollVersion, Reads, OnlyRelease, OnlyApp, Same, Elsewhere
  <2> QED
    BY <2>1, RollAdvance, ElsewhereInv
<1> QED
  BY <1>1, <1>2

\* The request's own id was handed out, so it may insert the row of that id.
LEMMA RecordInv ==
    ASSUME TypeOK, TypeOK', DestroyedInv, NEW r \in Requests, FirstRecord(r) \/ AddRecord(r)
    PROVE  DestroyedInv'
<1>1. Advance(r) /\ UNCHANGED <<cluster, nextDeployment, worker>>
  BY FirstAdvance, RegionsAddAdvance DEF FirstRecord, AddRecord, OnlyRow, Same
<1>2. row' = CreateDeploymentsRecord(req[r].dep, req[r].rel, TRUE) \/ row' = row
  BY DEF FirstRecord, AddRecord
<1>3. CASE row' = row
  BY <1>1, <1>3, ElsewhereInv DEF Elsewhere
<1>4. CASE row' = CreateDeploymentsRecord(req[r].dep, req[r].rel, TRUE)
  <2>1. req[r].dep \in DeploymentIds \cup {NoDeployment} /\ req[r].dep < nextDeployment
    BY DEF TypeOK, Request, DestroyedInv, HeldIds
  <2>2. TablesInv
    BY DEF DestroyedInv, TablesInv
  <2>3. Steady /\ TablesInv'
    BY <1>1, <1>4, <2>1, <2>2, RecordIsSteady
  <2> QED
    BY <1>1, <2>3, AdvanceInv
<1> QED
  BY <1>2, <1>3, <1>4

\* AddOrRemoveRegions inserts the row of the deployment it has created.
LEMMA RegionsInv ==
    ASSUME TypeOK, TypeOK', DestroyedInv, NEW r \in Requests, AddOrRemoveRegions(r)
    PROVE  DestroyedInv'
<1>1. CASE AddRecord(r)
  BY <1>1, RecordInv
<1>2. CASE ~AddRecord(r)
  <2>1. Elsewhere
    BY <1>2 DEF AddOrRemoveRegions, RegionsRead, RegionsAdded, RegionsAddOnly, RegionsDeploy,
               AddRelease, AddRoute, RegionsStandby, StandbyDrop, StandbyDone, RegionsDelete,
               RegionsDeleted, RegionsBackup, RegionsWrite, Reads, OnlyApp, Same, Elsewhere
  <2> QED
    BY <2>1, RegionsAdvance, ElsewhereInv
<1> QED
  BY <1>1, <1>2

\* UpdateAppStatus and DeleteApp.
LEMMA StatusAndDeleteInv ==
    ASSUME TypeOK, TypeOK', DestroyedInv, NEW r \in Requests, UpdateAppStatus(r) \/ Delete(r)
    PROVE  DestroyedInv'
<1>1. Advance(r)
  BY StatusAdvance, DeleteAdvance
<1>2. CASE DeleteRows(r)
  BY <1>1, <1>2, DeleteRowsIsSteady, AdvanceInv
  DEF DeleteRows, Same, DestroyedInv, TablesInv
<1>3. CASE ~DeleteRows(r)
  <2>1. Elsewhere
    BY <1>3 DEF UpdateAppStatus, StatusRelease, StatusRows, StatusWrite, Delete, DeleteRead,
               DeleteCheck, DeleteRecord, DeleteReleases, Reads, OnlyApp, OnlyRelease, Same,
               Elsewhere
  <2> QED
    BY <1>1, <2>1, ElsewhereInv
<1> QED
  BY <1>2, <1>3

\* UpdateConfigApps moves a row to another release.
LEMMA ConfigAndImageInv ==
    ASSUME TypeOK, TypeOK', DestroyedInv, NEW r \in Requests, Config(r) \/ Image(r)
    PROVE  DestroyedInv'
<1>1. Advance(r)
  BY ConfigAdvance, ImageAdvance
<1>2. CASE ConfigAttach(r)
  <2>1. Steady /\ TablesInv'
    BY <1>2, AttachIsSteady DEF ConfigAttach, OnlyRow, DestroyedInv, TablesInv
  <2> QED
    BY <1>1, <1>2, <2>1, AdvanceInv DEF ConfigAttach, Same
<1>3. CASE ~ConfigAttach(r)
  <2>1. Elsewhere
    BY <1>3 DEF Config, ConfigAgain, ConfigRelease, ConfigRetire, ConfigLatest, ConfigPublish,
               ConfigActivate, ConfigVersion, Image, ImageRelease, ImageRetire, ImagePublish,
               ReleaseRead, ReleaseRetire, ReleasePublish, Reads, OnlyApp, OnlyRelease, Same,
               Elsewhere
  <2> QED
    BY <1>1, <2>1, ElsewhereInv
<1> QED
  BY <1>2, <1>3

\* Create hands out an id; its request is the only one to hold it.
LEMMA CreateInv ==
    ASSUME TypeOK, TypeOK', DestroyedInv, NEW r \in Requests, Create(r)
    PROVE  DestroyedInv'
<1>1. UNCHANGED <<row, worker>> /\ nextDeployment \in DeploymentIds
  BY DEF Create, Same
<1>2. \/ Elsewhere
      \/ /\ \E region : cluster' = CreatePods(nextDeployment, region)
         /\ nextDeployment' = nextDeployment + 1
  BY <1>1 DEF Create, Elsewhere
<1>3. Steady /\ TablesInv'
  BY <1>1, <1>2, NothingIsSteady, CreateIsSteady DEF Elsewhere, DestroyedInv, TablesInv
<1>4. CASE End(r)
  BY <1>1, <1>3, <1>4, EndAdvance, AdvanceInv
<1>5. CASE ~End(r)
  <2>1. PICK q : Follows([req[r] EXCEPT !.dep = nextDeployment], q) /\ Become(r, q)
    BY <1>5, CreateMoves
  <2>2. nextDeployment' = nextDeployment + 1
    BY <1>5 DEF Create
  <2>3. [req[r] EXCEPT !.dep = nextDeployment].dep = nextDeployment
    BY DEF TypeOK, Request
  <2>4. q.dep = nextDeployment \/ q.dep = 0
    BY <2>1, <2>3 DEF Follows, Carries, NoDeployment
  <2>5. q.dep < nextDeployment'
    BY <2>2, <2>4, IdsAreNat
  <2>6. UndeployKnows(q)'
    BY <2>1 DEF UndeployKnows, Follows, UndeployLabels
  <2> QED
    BY <1>1, <1>3, <2>1, <2>5, <2>6, RequestInv
<1> QED
  BY <1>4, <1>5

\* Deploy and Deployment.
LEMMA DeployInv ==
    ASSUME TypeOK, TypeOK', DestroyedInv, NEW r \in Requests, Deploy(r)
    PROVE  DestroyedInv'
<1>1. CASE DeployFind(r) \/ FirstRelease(r) \/ FirstRoute(r)
  <2>1. Elsewhere
    BY <1>1 DEF DeployFind, FirstRelease, FirstRoute, Reads, OnlyApp, Same, Elsewhere
  <2> QED
    BY <1>1, <2>1, DeployFindAdvance, FirstAdvance, ElsewhereInv
<1>2. CASE CreateService(r)
  <2>1. UNCHANGED <<row, nextDeployment, worker>>
    BY <1>2 DEF CreateService, OnlyCluster, Same
  <2>2. \A d \in DeploymentIds : cluster[d].pods = "none" => cluster'[d].pods = "none"
    <3>1. \/ cluster' = [cluster EXCEPT ![req[r].dep].service = TRUE]
          \/ cluster' = cluster
          \/ cluster' = DeletePods(req[r].dep)
      BY <1>2 DEF CreateService
    <3> QED
      BY <3>1 DEF DeletePods, TypeOK, TablesTypeOK, Workload
  <2> QED
    BY <1>2, <2>1, <2>2, PodsAreSteady, MarkAndServiceAdvance, AdvanceInv
    DEF DestroyedInv, TablesInv
<1> QED
  BY <1>1, <1>2, CreateInv, RecordInv DEF Deploy

\* A row that is found carries its id, or has nothing to delete.
LEMMA FindInv ==
    ASSUME TypeOK, TypeOK', DestroyedInv, NEW r \in Requests, UndeployFind(r) \/ ScaleFind(r)
    PROVE  DestroyedInv'
<1>1. PICK q \in Request, d \in Rows \cup {NoDeployment} :
        Become(r, q) /\ q.dep = d /\ q.pc \in {"undeploy.route", "scale.pods"}
  BY FindMoves
<1>2. UNCHANGED <<row, cluster, nextDeployment, worker>>
  BY DEF UndeployFind, ScaleFind, Reads
<1>3. Steady /\ TablesInv'
  BY <1>2, NothingIsSteady DEF DestroyedInv, TablesInv
<1>4. q.dep # NoDeployment => Identified(q.dep) /\ ~(q.dep >= nextDeployment)
  BY <1>1 DEF DestroyedInv, UnnamedHasNoPods, FreshIds, Rows
<1>5. q.dep < nextDeployment'
  BY <1>2, <1>4, IdsAreNat DEF NoDeployment
<1>6. UndeployKnows(q)'
  BY <1>1, <1>2, <1>4 DEF UndeployKnows, Identified
<1> QED
  BY <1>1, <1>2, <1>3, <1>5, <1>6, RequestInv

\* SuspendResumePods scales only what has pods, and revives no other row.
LEMMA ScaleInv ==
    ASSUME TypeOK, TypeOK', DestroyedInv, NEW r \in Requests, SuspendResumePods(r)
    PROVE  DestroyedInv'
<1>1. CASE ScaleFind(r)
  BY <1>1, FindInv
<1>2. CASE ScalePods(r)
  <2>1. UNCHANGED <<row, nextDeployment, worker>>
    BY <1>2 DEF ScalePods, OnlyCluster, Same
  <2>2. \A d \in DeploymentIds : cluster[d].pods = "none" => cluster'[d].pods = "none"
    <3>1. \/ cluster' = cluster
          \/ \E e, pods : cluster[e].pods # "none" /\ cluster' = [cluster EXCEPT ![e].pods = pods]
      BY <1>2 DEF ScalePods
    <3> QED
      BY <3>1 DEF TypeOK, TablesTypeOK, Workload
  <2> QED
    BY <1>2, <2>1, <2>2, PodsAreSteady, ScaleAdvance, AdvanceInv DEF DestroyedInv, TablesInv
<1>3. CASE ScaleMark(r)
  <2>1. PICK status \in {"suspended", "running"} :
          row' = UpdateDeploymentsRecord(status, DeploymentId(req[r].dep))
    BY <1>3 DEF ScaleMark
  <2>2. UNCHANGED <<cluster, nextDeployment, worker>>
    BY <1>3 DEF ScaleMark, OnlyRow, Same
  <2>3. status \in RowStatus \ {"none"} /\ status # "destroyed"
    BY DEF RowStatus
  <2>4. Steady /\ TablesInv'
    BY <2>1, <2>2, <2>3, MarkIsSteady DEF DestroyedInv, TablesInv
  <2> QED
    BY <1>3, <2>2, <2>4, ScaleAdvance, AdvanceInv
<1> QED
  BY <1>1, <1>2, <1>3 DEF SuspendResumePods

\* Rows that share the id of a deployment without pods have no pods: they are
\* that deployment, or they carry no id.
LEMMA SharedIdHasNoPods ==
    ASSUME TypeOK, UnnamedHasNoPods, NEW e \in DeploymentIds \cup {NoDeployment},
           e # NoDeployment => cluster[e].pods = "none"
    PROVE  \A d \in Rows : DeploymentId(d) = DeploymentId(e) => cluster[d].pods = "none"
<1> SUFFICES ASSUME NEW d \in Rows, DeploymentId(d) = DeploymentId(e)
             PROVE  cluster[d].pods = "none"
  OBVIOUS
<1>1. d \in DeploymentIds /\ d # NoDeployment
  BY IdsAreNat DEF Rows, NoDeployment
<1>2. CASE row[d].named
  BY <1>1, <1>2 DEF DeploymentId
<1>3. CASE ~row[d].named
  BY <1>3 DEF UnnamedHasNoPods, Identified
<1> QED
  BY <1>2, <1>3

\* UnDeploy deletes under an id before it marks that id.
LEMMA UndeployInv ==
    ASSUME TypeOK, TypeOK', DestroyedInv, NEW r \in Requests, UnDeploy(r)
    PROVE  DestroyedInv'
<1>1. /\ req[r] \in Request
      /\ req[r].dep \in DeploymentIds \cup {NoDeployment}
      /\ UndeployKnows(req[r])
      /\ TablesInv
      /\ UnnamedHasNoPods
  BY DEF TypeOK, Request, DestroyedInv, TablesInv
<1>2. Carries(req[r], req[r])
  BY <1>1 DEF Carries
<1>3. UndeployLabels \subseteq Labels
  BY UndeployLabelsType
<1>4. ASSUME Steady, NEW label \in UndeployLabels, Become(r, Goto(req[r], label))
      PROVE  \E q : /\ Become(r, q)
                    /\ q.pc = label /\ q.dep = req[r].dep /\ q.dep < nextDeployment'
  <2>1. Goto(req[r], label).pc = label /\ Goto(req[r], label).dep = req[r].dep
    BY <1>1, <1>3, GotoType
  <2>2. req[r].dep < nextDeployment /\ req[r].dep \in Nat
    BY <1>1, IdsAreNat DEF DestroyedInv, HeldIds
  <2>3. nextDeployment \in Nat /\ nextDeployment' \in Nat /\ nextDeployment' >= nextDeployment
    BY <1>4, TablesAssumption DEF Steady, TypeOK, TablesTypeOK
  <2> QED
    BY <1>4, <2>1, <2>2, <2>3
<1>5. CASE Elsewhere /\ (End(r) \/ Become(r, Return(req[r])))
  BY <1>1, <1>5, EndAdvance, ReturnAdvance, ElsewhereInv
<1>6. CASE UndeployFind(r)
  BY <1>6, FindInv
<1>7. CASE UndeployRoute(r)
  <2>1. Elsewhere
    BY <1>7 DEF UndeployRoute, OnlyApp, Same, Elsewhere
  <2>2. CASE Become(r, Goto(req[r], "undeploy.pods"))
    <3>1. Steady /\ TablesInv'
      BY <1>1, <2>1, NothingIsSteady DEF Elsewhere
    <3>2. PICK q : /\ Become(r, q)
                   /\ q.pc = "undeploy.pods" /\ q.dep = req[r].dep /\ q.dep < nextDeployment'
      BY <1>4, <2>2, <3>1 DEF UndeployLabels
    <3>3. req[r].dep # NoDeployment => Identified(req[r].dep)
      BY <1>1, <1>7 DEF UndeployKnows, UndeployRoute, At
    <3>4. UndeployKnows(q)'
      BY <2>1, <3>2, <3>3 DEF UndeployKnows, Elsewhere, Identified
    <3> QED
      BY <2>1, <3>1, <3>2, <3>4, RequestInv DEF Elsewhere
  <2> QED
    BY <1>5, <1>7, <2>1, <2>2 DEF UndeployRoute
<1>8. CASE UndeployPods(r) /\ ~UndeployFails(r)
  <2>1. PICK label \in {"undeploy.service", "undeploy.mark"} :
          Become(r, Goto(req[r], label))
    BY <1>8 DEF UndeployPods
  <2>2. /\ cluster' = DeletePods(DeploymentId(req[r].dep))
        /\ UNCHANGED <<row, nextDeployment, worker>>
    BY <1>8 DEF UndeployPods, OnlyCluster, Same
  <2>3. \A d \in DeploymentIds :
          /\ cluster[d].pods = "none" => cluster'[d].pods = "none"
          /\ d = DeploymentId(req[r].dep) => cluster'[d].pods = "none"
    BY <2>2 DEF DeletePods, TypeOK, TablesTypeOK, Workload
  <2>4. Steady /\ TablesInv'
    BY <1>1, <2>2, <2>3, PodsAreSteady
  <2>5. PICK q : /\ Become(r, q)
                 /\ q.pc = label /\ q.dep = req[r].dep /\ q.dep < nextDeployment'
    BY <1>4, <2>1, <2>4 DEF UndeployLabels
  <2>6. req[r].dep # NoDeployment => Identified(req[r].dep)
    BY <1>1, <1>8 DEF UndeployKnows, UndeployPods, At
  <2>7. req[r].dep # NoDeployment => cluster'[req[r].dep].pods = "none"
    BY <1>1, <2>3, <2>6 DEF Identified, DeploymentId
  <2>8. UndeployKnows(q)'
    BY <2>5, <2>7 DEF UndeployKnows
  <2> QED
    BY <2>2, <2>4, <2>5, <2>8, RequestInv
<1>9. CASE UndeployService(r) /\ ~UndeployFails(r)
  <2>1. Become(r, Goto(req[r], "undeploy.mark"))
    BY <1>9 DEF UndeployService
  <2>2. /\ \E d : cluster' = DeleteService(d, req[r].region)
        /\ UNCHANGED <<row, nextDeployment, worker>>
    BY <1>9 DEF UndeployService, OnlyCluster, Same
  <2>3. \A d \in DeploymentIds : cluster[d].pods = "none" => cluster'[d].pods = "none"
    BY <2>2 DEF DeleteService, TypeOK, TablesTypeOK, Workload
  <2>4. Steady /\ TablesInv'
    BY <1>1, <2>2, <2>3, PodsAreSteady
  <2>5. PICK q : /\ Become(r, q)
                 /\ q.pc = "undeploy.mark" /\ q.dep = req[r].dep /\ q.dep < nextDeployment'
    BY <1>4, <2>1, <2>4 DEF UndeployLabels
  <2>6. req[r].dep # NoDeployment => cluster'[req[r].dep].pods = "none"
    BY <1>1, <1>9, <2>3 DEF UndeployKnows, UndeployService, At
  <2>7. UndeployKnows(q)'
    BY <2>5, <2>6 DEF UndeployKnows
  <2> QED
    BY <2>2, <2>4, <2>5, <2>7, RequestInv
<1>10. CASE UndeployFails(r)
  BY <1>5, <1>10 DEF UndeployFails, End, Reads, Elsewhere
<1>11. CASE UndeployMark(r)
  <2>1. /\ row' = UpdateDeploymentsRecord("destroyed", DeploymentId(req[r].dep))
        /\ UNCHANGED <<cluster, nextDeployment, worker>>
    BY <1>11 DEF UndeployMark, OnlyRow, Same
  <2>2. req[r].dep # NoDeployment => cluster[req[r].dep].pods = "none"
    BY <1>1, <1>11 DEF UndeployKnows, UndeployMark, At
  <2>3. \A d \in Rows :
          DeploymentId(d) = DeploymentId(req[r].dep) => cluster[d].pods = "none"
    BY <1>1, <2>2, SharedIdHasNoPods
  <2>4. "destroyed" \in RowStatus \ {"none"}
    BY DEF RowStatus
  <2>5. Steady /\ TablesInv'
    BY <1>1, <2>1, <2>3, <2>4, MarkIsSteady
  <2> QED
    BY <1>11, <2>1, <2>5, MarkAndServiceAdvance, AdvanceInv
<1> QED
  BY <1>6, <1>7, <1>8, <1>9, <1>10, <1>11 DEF UnDeploy

\* A release worker deletes before it marks, unless a refused deletion is only
\* logged: with that fault the invariant would not hold.
LEMMA WorkInv ==
    ASSUME TypeOK, TypeOK', DestroyedInv, "rolldelete" \notin Faults,
           NEW r \in Requests, NEW d \in DeploymentIds, Work(r, d), ~WorkerPanic(r, d)
    PROVE  DestroyedInv'
<1>1. /\ worker[r][d] \in Worker
      /\ WorkerKnows(r, d)
      /\ worker[r][d].new < nextDeployment
      /\ TablesInv
      /\ UnnamedHasNoPods
  BY DEF TypeOK, DestroyedInv, HeldIds, TablesInv
<1>2. nextDeployment \in Nat \ {0} /\ nextDeployment' \in Nat
  BY IdsAreNat, TablesAssumption DEF TypeOK, TablesTypeOK
<1>3. CASE WorkerDelete(r, d)
  <2> DEFINE w == [worker[r][d] EXCEPT !.stage = "mark"]
  <2>1. /\ cluster' = DeletePods(DeploymentId(d))
        /\ UNCHANGED <<row, nextDeployment, req>>
        /\ worker[r][d].stage = "delete"
        /\ Stage(r, d, w)
    BY <1>3 DEF WorkerDelete, OnlyCluster
  <2>2. w \in Worker /\ w.stage = "mark" /\ w.new = worker[r][d].new
    BY <1>1 DEF Worker, WorkerStage
  <2>3. \A e \in DeploymentIds :
          /\ cluster[e].pods = "none" => cluster'[e].pods = "none"
          /\ e = DeploymentId(d) => cluster'[e].pods = "none"
    BY <2>1 DEF DeletePods, TypeOK, TablesTypeOK, Workload
  <2>4. Steady /\ TablesInv'
    BY <1>1, <2>1, <2>3, PodsAreSteady
  <2>5. cluster'[d].pods = "none"
    BY <1>1, <2>1, <2>3, IdsAreNat DEF WorkerKnows, Identified, DeploymentId, NoDeployment
  <2> HIDE DEF w
  <2> QED
    BY <1>1, <1>2, <2>1, <2>2, <2>4, <2>5, WorkerInv
<1>4. CASE WorkerMark(r, d)
  <2> DEFINE w == [worker[r][d] EXCEPT !.stage = "create"]
  <2>1. /\ row' = UpdateDeploymentsRecord("destroyed", DeploymentId(d))
        /\ UNCHANGED <<cluster, nextDeployment, req>>
        /\ worker[r][d].stage = "mark"
        /\ Stage(r, d, w)
    BY <1>4 DEF WorkerMark, OnlyRow
  <2>2. w \in Worker /\ w.stage = "create" /\ w.new = worker[r][d].new
    BY <1>1 DEF Worker, WorkerStage
  <2>3. \A e \in Rows : DeploymentId(e) = DeploymentId(d) => cluster[e].pods = "none"
    BY <1>1, <2>1, SharedIdHasNoPods DEF WorkerKnows
  <2>4. "destroyed" \in RowStatus \ {"none"}
    BY DEF RowStatus
  <2>5. Steady /\ TablesInv'
    BY <1>1, <2>1, <2>3, <2>4, MarkIsSteady
  <2> HIDE DEF w
  <2> QED
    BY <1>1, <1>2, <2>1, <2>2, <2>5, WorkerInv
<1>5. CASE WorkerCreate(r, d)
  <2>1. PICK new \in {nextDeployment, NoDeployment} :
          /\ Stage(r, d, [stage |-> "record", new |-> new])
          /\ \/ /\ cluster' = CreatePods(nextDeployment, cluster[d].region)
                /\ nextDeployment' = nextDeployment + 1
             \/ UNCHANGED <<cluster, nextDeployment>> /\ new = NoDeployment
    BY <1>5 DEF WorkerCreate
  <2>2. /\ worker[r][d].stage = "create"
        /\ nextDeployment \in DeploymentIds
        /\ UNCHANGED <<row, req>>
    BY <1>5 DEF WorkerCreate
  <2>3. Steady /\ TablesInv'
    BY <1>1, <2>1, <2>2, NothingIsSteady, CreateIsSteady
  <2> DEFINE w == [stage |-> "record", new |-> new]
  <2>4. w \in Worker /\ w.stage = "record" /\ w.new = new
    BY <2>1, <2>2 DEF Worker, WorkerStage
  <2>5. new < nextDeployment'
    BY <1>2, <2>1 DEF NoDeployment
  <2>6. Stage(r, d, w)
    BY <2>1
  <2> HIDE DEF w
  <2> QED
    BY <2>2, <2>3, <2>4, <2>5, <2>6, WorkerInv
<1>6. CASE WorkerRecord(r, d)
  <2>1. Stage(r, d, NoWorker) /\ UNCHANGED req /\ worker[r][d].stage = "record"
    BY <1>6 DEF WorkerRecord
  <2>2. /\ NoWorker \in Worker /\ NoWorker.stage = "off"
        /\ NoWorker.new < nextDeployment'
    <3>1. 0 < nextDeployment'
      BY TypeOK', TablesAssumption DEF TypeOK, TablesTypeOK
    <3> QED
      BY <3>1 DEF NoWorker, Worker, WorkerStage, NoDeployment
  <2>3. Steady /\ TablesInv'
    <3> DEFINE new == worker[r][d].new
               n == nextDeployment
    <3>1. CASE UNCHANGED <<row, cluster, nextDeployment>>
      BY <1>1, <3>1, NothingIsSteady
    <3>2. CASE /\ row' = CreateDeploymentsRecord(new, req[r].fresh, TRUE)
               /\ UNCHANGED <<cluster, nextDeployment>>
      <4>1. new \in DeploymentIds \cup {NoDeployment}
        BY <1>1 DEF Worker
      <4> QED
        BY <1>1, <3>2, <4>1, RecordIsSteady
    <3>3. CASE /\ n \in DeploymentIds
               /\ row' = CreateDeploymentsRecord(n, req[r].fresh, FALSE)
               /\ cluster' = [cluster EXCEPT ![n].region = cluster[d].region]
               /\ nextDeployment' = n + 1
      <4>1. \A e \in DeploymentIds :
              /\ cluster'[e].pods = cluster[e].pods
              /\ e # n => row'[e] = row[e]
              /\ e = n => row'[e].status = "running"
        BY <3>3 DEF CreateDeploymentsRecord, TypeOK, TablesTypeOK, Workload
      <4>2. cluster[n].pods = "none"
        BY <1>1, <1>2, <3>3 DEF TablesInv, FreshIds
      <4>3. \A e \in DeploymentIds :
              /\ e < n => e # n
              /\ e >= nextDeployment' => e >= n /\ e # n
        BY <1>2, <3>3, IdsAreNat
      <4>4. Steady
        <5>1. nextDeployment' >= nextDeployment
          BY <1>2, <3>3
        <5> QED
          BY <4>1, <4>3, <5>1 DEF Steady, Identified
      <4>5. FreshIds'
        BY <1>1, <4>1, <4>3 DEF TablesInv, FreshIds
      <4>6. UnnamedHasNoPods' /\ DestroyedIsGone'
        BY <1>1, <4>1, <4>2 DEF TablesInv, UnnamedHasNoPods, DestroyedIsGone, Identified, Rows
      <4> QED
        BY <4>4, <4>5, <4>6 DEF TablesInv
    <3> QED
      BY <1>6, <3>1, <3>2, <3>3 DEF WorkerRecord
  <2> QED
    BY <2>1, <2>2, <2>3, WorkerInv
<1> QED
  BY <1>3, <1>4, <1>5, <1>6 DEF Work

\* A stopped server forgets its requests: what they knew is not needed.
LEMMA HaltInv ==
    ASSUME TypeOK, DestroyedInv, Halt PROVE DestroyedInv'
<1>1. Idle.dep = 0 /\ Idle.pc = "idle" /\ NoWorker.new = 0 /\ NoWorker.stage = "off"
  BY DEF Idle, NoWorker, NoDeployment
<1>2. UNCHANGED <<row, cluster, nextDeployment>> /\ 0 < nextDeployment'
  BY IdsAreNat DEF Halt, tables
<1>3. TablesInv'
  BY <1>2, NothingIsSteady DEF DestroyedInv, TablesInv
<1>4. \A r \in Requests : req'[r].dep = 0 /\ req'[r].pc = "idle"
  BY <1>1 DEF Halt
<1>5. \A r \in Requests, d \in DeploymentIds : worker'[r][d].new = 0 /\ worker'[r][d].stage = "off"
  BY <1>1 DEF Halt
<1> QED
  BY <1>2, <1>3, <1>4, <1>5
  DEF DestroyedInv, HeldIds, UndeployKnows, WorkerKnows, TablesInv, NoDeployment

\* Nothing is deployed at first.
LEMMA InitInv == Init => DestroyedInv
<1> SUFFICES ASSUME Init PROVE DestroyedInv
  OBVIOUS
<1>1. Idle.dep = 0 /\ Idle.pc = "idle" /\ NoWorker.new = 0 /\ NoWorker.stage = "off"
  BY DEF Idle, NoWorker, NoDeployment
<1>2. \A d \in DeploymentIds : row[d].status = "none" /\ cluster[d].pods = "none"
  BY DEF Init, TablesInit, NoDeploymentRow
<1>3. TablesInv
  BY <1>2 DEF TablesInv, FreshIds, UnnamedHasNoPods, DestroyedIsGone, Identified, Rows
<1>4. nextDeployment = 1
  BY DEF Init, TablesInit
<1>5. \A r \in Requests : req[r].dep = 0 /\ req[r].pc = "idle"
  BY <1>1 DEF Init
<1>6. \A r \in Requests, d \in DeploymentIds : worker[r][d].new = 0 /\ worker[r][d].stage = "off"
  BY <1>1 DEF Init
<1> QED
  BY <1>3, <1>4, <1>5, <1>6
  DEF DestroyedInv, HeldIds, UndeployKnows, WorkerKnows, TablesInv, NoDeployment

\* DestroyedInv is inductive, provided release goroutines are not refused a deletion.
LEMMA NextInv ==
    "rolldelete" \notin Faults /\ TypeOK /\ DestroyedInv /\ [Next]_vars => DestroyedInv'
<1> SUFFICES ASSUME "rolldelete" \notin Faults, TypeOK, DestroyedInv, [Next]_vars
             PROVE  DestroyedInv'
  OBVIOUS
<1>1. TypeOK'
  BY NextType
<1>2. CASE UNCHANGED vars
  BY <1>2 DEF vars, DestroyedInv, FreshIds, HeldIds, UnnamedHasNoPods, UndeployKnows,
              WorkerKnows, DestroyedIsGone, Identified, Rows
<1>3. ASSUME NEW r \in Requests, Mutation(r) PROVE DestroyedInv'
  BY <1>1, <1>3, MutationInv
<1>4. ASSUME NEW r \in Requests, Step(r) PROVE DestroyedInv'
  BY <1>1, <1>4, DeployInv, RollInv, RegionsInv, StatusAndDeleteInv, UndeployInv, ScaleInv,
     ConfigAndImageInv DEF Step
<1>5. ASSUME NEW r \in Requests, NEW d \in DeploymentIds, Work(r, d) PROVE DestroyedInv'
  BY <1>1, <1>5, WorkInv, HaltInv DEF WorkerPanic
<1>6. CASE Crash
  BY <1>6, HaltInv DEF Crash
<1> QED
  BY <1>2, <1>3, <1>4, <1>5, <1>6 DEF Next, Done

\* However requests, release goroutines, failures and crashes interleave, every
\* id that UnDeploy or a release worker is about to mark destroyed names a
\* deployment whose pods are gone.
THEOREM DestroyedInvariant == "rolldelete" \notin Faults /\ Spec => []DestroyedInv
<1> SUFFICES ASSUME "rolldelete" \notin Faults PROVE Spec => []DestroyedInv
  OBVIOUS
<1>1. TypeOK /\ DestroyedInv /\ [Next]_vars => DestroyedInv'
  BY NextInv
<1> QED
  BY <1>1, InitInv, TypeCorrect, PTL DEF Spec

\* app_deployments says "destroyed" only of deployments the cluster has dropped,
\* unless a release worker was refused a deletion.
THEOREM DestroyedRowsAreGone == "rolldelete" \notin Faults /\ Spec => []DestroyedIsGone
<1>1. DestroyedInv => DestroyedIsGone
  BY DEF DestroyedInv
<1> QED
  BY <1>1, DestroyedInvariant, PTL
=============================================================================
