--------------------------- MODULE AppReleaseProofs ---------------------------
(***************************************************************************)
(* Overlapping requests.  An application nobody deletes keeps an active     *)
(* release, and every deployment it creates comes into its table: first,   *)
(* where a request can go from a label; then, what every step does to the   *)
(* application, to its releases and to its deployments.  And whatever the   *)
(* requests are, a row is inserted by one of them only, and what is marked  *)
(* destroyed stays so unless somebody pauses: who has which deployment in   *)
(* hand, and what becomes of the rows.                                      *)
(***************************************************************************)
EXTENDS AppLifecycleProofs

-----------------------------------------------------------------------------
(***************************************************************************)
(* Where a request can go                                                  *)
(***************************************************************************)
\* n has the return labels, the mutation and no other backup list than q.
Kept(q, n) == n.ret = q.ret /\ n.kind = q.kind /\ n.backs \subseteq q.backs

\* Moreover it has the version in hand.
Similar(q, n) == Kept(q, n) /\ n.version = q.version /\ DOMAIN n = DOMAIN q

\* q may become n: the labels that publish a release follow one another with
\* the same id in hand, and a revert keeps its version.
Course(q, n) ==
    /\ OnCourse(n)
    /\ n.kind = "revert" => q.kind = "revert" /\ n.version = q.version
    /\ n.pc = "roll.wait" => q.pc = "roll.rows"
    /\ n.pc = "roll.retire" => q.pc = "roll.wait" /\ n.fresh = q.fresh
    /\ n.pc = "roll.publish" => q.pc = "roll.retire" /\ n.fresh = q.fresh

\* The labels OnCourse and Course say something of.
CareLabels == {"roll.rows", "roll.wait", "roll.retire", "roll.publish", "create", "service",
               "config.activate"} \cup DeleteLabels

\* The others, that no renumbering leads from.
EasyLabels == Labels \ (CareLabels \cup Renumbers)

\* A request may always end.
LEMMA IdleCourse == ASSUME NEW q PROVE Course(q, Idle)
<1>1. <<>> \in Seq(ReturnLabels \ DeleteLabels)
  OBVIOUS
<1> QED
  BY <1>1 DEF Course, OnCourse, Idle, DeleteLabels, Renumbers

\* It may go to an easy label,
LEMMA EasyCourse ==
    ASSUME NEW q \in Request, OnCourse(q), NEW n, Similar(q, n), n.pc \in EasyLabels
    PROVE  Course(q, n)
<1>1. /\ n.pc \notin DeleteLabels \cup Renumbers
      /\ n.pc \notin {"roll.rows", "roll.wait", "roll.retire", "roll.publish", "create",
                      "service", "config.activate"}
  BY DEF EasyLabels, CareLabels
<1> QED
  BY <1>1 DEF Course, OnCourse, Similar, Kept

\* in one assignment,
LEMMA GotoCourse ==
    ASSUME NEW q \in Request, OnCourse(q), NEW n, Similar(q, n), NEW label \in EasyLabels
    PROVE  Course(q, Goto(n, label))
<1>1. Similar(q, Goto(n, label)) /\ Goto(n, label).pc = label
  BY DEF Similar, Kept, Goto, EasyLabels, Request
<1> QED
  BY <1>1, EasyCourse

\* or calling a function that begins at one;
LEMMA CallCourse ==
    ASSUME NEW q \in Request, OnCourse(q), NEW n, Similar(q, n), NEW label \in EasyLabels,
           NEW back \in Seq(ReturnLabels \ DeleteLabels)
    PROVE  Course(q, Call(n, label, back))
<1> DEFINE m == Call(n, label, back)
<1>1. m.pc = label /\ m.kind = q.kind /\ m.version = q.version /\ m.backs \subseteq q.backs
  BY DEF Similar, Kept, Call, EasyLabels, Request
<1>2. m.ret = back \o q.ret
  BY DEF Similar, Kept, Call, Request
<1> HIDE DEF m
<1>3. m.ret \in Seq(ReturnLabels \ DeleteLabels)
  BY <1>2 DEF OnCourse
<1>4. Course(q, m)
  BY <1>1, <1>3 DEF Course, OnCourse, EasyLabels, CareLabels
<1> QED
  BY <1>4 DEF m

\* it may call Deployment if it is to return where the row is inserted,
LEMMA CallCreateCourse ==
    ASSUME NEW q \in Request, OnCourse(q), NEW n, Similar(q, n), NEW label \in ReturnLabels \ DeleteLabels,
           NoBackups => label \in Recorders
    PROVE  Course(q, Call(n, "create", <<label>>))
<1> DEFINE m == Call(n, "create", <<label>>)
<1>1. m.pc = "create" /\ m.kind = q.kind /\ m.version = q.version /\ m.backs \subseteq q.backs
  BY DEF Similar, Kept, Call, Request
<1>2. m.ret = <<label>> \o q.ret
  BY DEF Similar, Kept, Call, Request
<1>3. <<label>> \in Seq(ReturnLabels \ DeleteLabels)
  OBVIOUS
<1> HIDE DEF m
<1>4. m.ret \in Seq(ReturnLabels \ DeleteLabels)
  BY <1>2, <1>3 DEF OnCourse
<1>5. m.ret # <<>> /\ Head(m.ret) = label
  BY <1>2, <1>3 DEF OnCourse
<1>6. Course(q, m)
  BY <1>1, <1>4, <1>5 DEF Course, OnCourse, DeleteLabels, Renumbers
<1> QED
  BY <1>6 DEF m

\* and return from whatever it has called.
LEMMA ReturnCourse ==
    ASSUME NEW q \in Request, OnCourse(q), NEW n, Similar(q, n)
    PROVE  Course(q, Return(n))
<1>1. CASE n.ret = <<>>
  BY <1>1, IdleCourse DEF Return
<1>2. CASE n.ret # <<>>
  <2>1. q.ret \in Seq(ReturnLabels \ DeleteLabels) /\ q.ret # <<>>
    BY <1>2 DEF OnCourse, Similar, Kept
  <2>2. Head(q.ret) \in ReturnLabels \ DeleteLabels /\ Tail(q.ret) \in Seq(ReturnLabels \ DeleteLabels)
    BY <2>1
  <2> DEFINE m == Return(n)
  <2>3. m = [n EXCEPT !.pc = Head(q.ret), !.ret = Tail(q.ret)]
    BY <1>2 DEF Return, Similar, Kept
  <2>4. /\ m.pc = Head(q.ret) /\ m.ret = Tail(q.ret)
        /\ m.kind = q.kind /\ m.version = q.version /\ m.backs \subseteq q.backs
    BY <2>3 DEF Similar, Kept, Request
  <2>5. Head(q.ret) \in EasyLabels
    BY <2>2 DEF ReturnLabels, EasyLabels, CareLabels, Labels, DeleteLabels, Renumbers
  <2> HIDE DEF m
  <2>6. Course(q, m)
    BY <2>2, <2>4, <2>5 DEF Course, OnCourse, EasyLabels, CareLabels
  <2> QED
    BY <2>6 DEF m
<1> QED
  BY <1>1, <1>2

\* A request that is no revert may also take another version.
LEMMA FieldsCourse ==
    ASSUME NEW q \in Request, OnCourse(q), NEW n, Kept(q, n), n.pc \in Labels \ CareLabels,
           q.kind # "revert" \/ (n.version = q.version /\ n.pc \notin Renumbers)
    PROVE  Course(q, n)
  BY DEF Course, OnCourse, Kept, CareLabels, DeleteLabels

\* The step of r is on course.
GoesOn(r) == \E n : Course(req[r], n) /\ Become(r, n)

\* Deploy calls Deployment to record a first release, or begins a new one.
LEMMA DeployFindCourse ==
    ASSUME TypeOK, NEW r \in Requests, OnCourse(req[r]), DeployFind(r) PROVE GoesOn(r)
<1>1. req[r] \in Request /\ req[r].pc = "deploy.find"
  BY DEF TypeOK, DeployFind, At
<1>2. PICK d \in GetDeploymentsRecordSingle(Primary, "running") :
        Become(r, IF d = NoDeployment
                  THEN Call([req[r] EXCEPT !.region = Primary], "create", <<"first.release">>)
                  ELSE [req[r] EXCEPT !.pc = "roll.current", !.rel = row[d].release])
  BY DEF DeployFind
<1>3. CASE d = NoDeployment
  <2> DEFINE here == [req[r] EXCEPT !.region = Primary]
  <2>1. Similar(req[r], here)
    BY <1>1 DEF Similar, Kept, Request
  <2>2. Become(r, Call(here, "create", <<"first.release">>))
    BY <1>2, <1>3
  <2>3. "first.release" \in (ReturnLabels \ DeleteLabels) \cap Recorders
    BY DEF ReturnLabels, DeleteLabels, Recorders
  <2> HIDE DEF here
  <2> QED
    BY <1>1, <2>1, <2>2, <2>3, CallCreateCourse DEF GoesOn
<1>4. CASE d # NoDeployment
  <2> DEFINE next == [req[r] EXCEPT !.pc = "roll.current", !.rel = row[d].release]
  <2>1. Kept(req[r], next) /\ next.pc = "roll.current"
    BY <1>1 DEF Kept, Request
  <2>2. req[r].kind # "revert"
    BY <1>1 DEF OnCourse, Renumbers
  <2>3. "roll.current" \in Labels \ CareLabels
    BY DEF Labels, CareLabels, DeleteLabels
  <2>4. Become(r, next)
    BY <1>2, <1>4
  <2> HIDE DEF next
  <2> QED
    BY <1>1, <2>1, <2>2, <2>3, <2>4, FieldsCourse DEF GoesOn
<1> QED
  BY <1>3, <1>4

\* Most steps end, return or go to one easy label.
LEMMA JumpCourse ==
    ASSUME TypeOK, NEW r \in Requests, OnCourse(req[r]),
           \/ End(r)
           \/ Become(r, Return(req[r]))
           \/ \E label \in EasyLabels : Become(r, Goto(req[r], label))
    PROVE  GoesOn(r)
<1>1. req[r] \in Request /\ Similar(req[r], req[r])
  BY DEF TypeOK, Similar, Kept
<1> QED
  BY <1>1, IdleCourse, ReturnCourse, GotoCourse DEF GoesOn, End

\* Deployment returns, or goes on to CreateService with the same way back.
LEMMA CreateCourse ==
    ASSUME TypeOK, NEW r \in Requests, OnCourse(req[r]), Create(r) PROVE GoesOn(r)
<1>1. req[r] \in Request /\ req[r].pc = "create"
  BY DEF TypeOK, Create, At
<1> DEFINE made == [req[r] EXCEPT !.dep = nextDeployment]
<1>2. Similar(req[r], made)
  BY <1>1 DEF Similar, Kept, Request
<1>3. End(r) \/ Become(r, Return(made)) \/ Become(r, Goto(made, "service"))
  BY DEF Create
<1> HIDE DEF made
<1> DEFINE next == Goto(made, "service")
<1>4. /\ next.pc = "service" /\ Kept(req[r], next) /\ next.version = req[r].version
  BY <1>1, <1>2 DEF Similar, Kept, Goto, Request
<1>5. Become(r, next) => GoesOn(r)
  <2> HIDE DEF next
  <2>1. Course(req[r], next)
    BY <1>1, <1>4 DEF Course, OnCourse, Kept, DeleteLabels, Renumbers
  <2> QED
    BY <2>1 DEF GoesOn
<1> QED
  BY <1>1, <1>2, <1>3, <1>5, IdleCourse, ReturnCourse DEF GoesOn, End

\* Every step of a first deployment is on course,
LEMMA DeployCourse ==
    ASSUME TypeOK, NEW r \in Requests, OnCourse(req[r]), Deploy(r) PROVE GoesOn(r)
<1>1. req[r] \in Request
  BY DEF TypeOK
<1> DEFINE q == req[r]
<1>2. CASE CreateService(r)
  BY <1>2, JumpCourse DEF CreateService
<1>3. CASE FirstRelease(r)
  <2> DEFINE next == [q EXCEPT !.pc = "first.record", !.rel = nextRelease]
  <2>1. Similar(q, next) /\ next.pc = "first.record" /\ (End(r) \/ Become(r, next))
    BY <1>1, <1>3 DEF FirstRelease, Similar, Kept, Request
  <2>2. "first.record" \in EasyLabels
    BY DEF Labels, EasyLabels, CareLabels, DeleteLabels, Renumbers
  <2> HIDE DEF next
  <2> QED
    BY <1>1, <2>1, <2>2, EasyCourse, IdleCourse DEF GoesOn, End
<1>4. CASE FirstRecord(r)
  <2> DEFINE next == [q EXCEPT !.adds = {Primary}]
  <2>1. Similar(q, next)
    BY <1>1 DEF Similar, Kept, Request
  <2>2. End(r) \/ Become(r, Call(next, "regions.read", <<"first.route">>))
    BY <1>4 DEF FirstRecord
  <2>3. "regions.read" \in EasyLabels /\ <<"first.route">> \in Seq(ReturnLabels \ DeleteLabels)
    BY DEF Labels, EasyLabels, CareLabels, DeleteLabels, Renumbers, ReturnLabels
  <2> HIDE DEF next
  <2> QED
    BY <1>1, <2>1, <2>2, <2>3, CallCourse, IdleCourse DEF GoesOn, End
<1>5. CASE FirstRoute(r)
  <2> DEFINE next == [q EXCEPT !.pc = "regions.read", !.toDeploy = TRUE,
                               !.adds = Defaults \ {Primary}]
  <2>1. Similar(q, next) /\ next.pc = "regions.read" /\ (End(r) \/ Become(r, next))
    BY <1>1, <1>5 DEF FirstRoute, Similar, Kept, Request
  <2>2. "regions.read" \in EasyLabels
    BY DEF Labels, EasyLabels, CareLabels, DeleteLabels, Renumbers
  <2> HIDE DEF next
  <2> QED
    BY <1>1, <2>1, <2>2, EasyCourse, IdleCourse DEF GoesOn, End
<1> QED
  BY <1>2, <1>3, <1>4, <1>5, DeployFindCourse, CreateCourse DEF Deploy

\* every step of a new release of an application there is,
LEMMA RollCourse ==
    ASSUME TypeOK, app.exists, NEW r \in Requests, OnCourse(req[r]), CreateNewAppRelease(r)
    PROVE  GoesOn(r)
<1>1. req[r] \in Request /\ Gone \notin AppStatus
  BY DEF TypeOK, Gone, AppStatus
<1> DEFINE q == req[r]
<1>2. CASE RollCurrent(r)
  <2>1. PICK x : Become(r, [q EXCEPT !.pc = "roll.app", !.version = VersionOf(x)])
    BY <1>2 DEF RollCurrent
  <2> DEFINE next == [q EXCEPT !.pc = "roll.app", !.version = VersionOf(x)]
  <2>2. Kept(q, next) /\ next.pc = "roll.app" /\ Become(r, next)
    BY <1>1, <2>1 DEF Kept, Request
  <2>3. q.kind # "revert" /\ "roll.app" \in Labels \ CareLabels
    BY <1>2 DEF RollCurrent, At, OnCourse, Renumbers, Labels, CareLabels, DeleteLabels
  <2> HIDE DEF next
  <2> QED
    BY <1>1, <2>2, <2>3, FieldsCourse DEF GoesOn
<1>3. CASE RollApp(r)
  <2> DEFINE next == [q EXCEPT !.pc = "roll.rows", !.seen = app.status]
  <2>1. app.status # Gone
    BY <1>1 DEF TypeOK, TablesTypeOK, AppRow
  <2>2. /\ Similar(q, next) /\ next.pc = "roll.rows" /\ next.seen = app.status
        /\ Become(r, next)
    BY <1>1, <1>3 DEF RollApp, Similar, Kept, Request
  <2> HIDE DEF next
  <2>3. Course(q, next)
    BY <2>1, <2>2 DEF Similar, Kept, Course, OnCourse, DeleteLabels, Renumbers
  <2> QED
    BY <2>2, <2>3 DEF GoesOn
<1>4. CASE RollRows(r)
  <2> DEFINE next == [q EXCEPT !.pc = "roll.wait", !.fresh = nextRelease]
  <2>1. /\ Similar(q, next) /\ next.pc = "roll.wait" /\ next.seen = q.seen
        /\ Become(r, next)
    BY <1>1, <1>4 DEF RollRows, Similar, Kept, Request
  <2>2. q.pc = "roll.rows"
    BY <1>4 DEF RollRows, At
  <2> HIDE DEF next
  <2>3. Course(q, next)
    BY <2>1, <2>2 DEF Similar, Kept, Course, OnCourse, DeleteLabels, Renumbers
  <2> QED
    BY <2>1, <2>3 DEF GoesOn
<1>5. ASSUME NEW next, next \in {"roll.retire", "roll.publish"},
             next = "roll.retire" => q.pc = "roll.wait",
             next = "roll.publish" => q.pc = "roll.retire",
             Become(r, Goto(q, next))
      PROVE  GoesOn(r)
  <2> DEFINE n == Goto(q, next)
  <2>1. Similar(q, n) /\ n.pc = next /\ n.fresh = q.fresh /\ n.ret = q.ret
    BY <1>1, <1>5 DEF Goto, Similar, Kept, Request
  <2> HIDE DEF n
  <2>2. Course(q, n)
    BY <1>5, <2>1 DEF Course, OnCourse, Similar, Kept, DeleteLabels, Renumbers
  <2> QED
    BY <1>5, <2>2 DEF GoesOn, n
<1>6. CASE RollWait(r) \/ RollRetire(r)
  BY <1>5, <1>6 DEF RollWait, RollRetire, At
<1>7. CASE RollPublish(r) \/ RollVersion(r)
  <2>1. "roll.version" \in EasyLabels
    BY DEF Labels, EasyLabels, CareLabels, DeleteLabels, Renumbers
  <2> QED
    BY <1>7, <2>1, JumpCourse DEF RollPublish, RollVersion
<1> QED
  BY <1>2, <1>3, <1>4, <1>6, <1>7 DEF CreateNewAppRelease

\* The labels of AddOrRemoveRegions are easy.
LEMMA RegionsLabels ==
    /\ {"regions.read", "regions.add", "regions.standby", "standby.drop", "regions.del",
         "regions.backup", "add.record", "add.route", "status.release", "undeploy.find"}
            \subseteq EasyLabels
    /\ {"add.release", "standby.drop", "regions.del", "regions.backup"}
            \subseteq ReturnLabels \ DeleteLabels
  BY DEF Labels, EasyLabels, CareLabels, DeleteLabels, Renumbers, ReturnLabels

\* Adding regions is on course,
LEMMA RegionsAddCourse ==
    ASSUME TypeOK, NEW r \in Requests, OnCourse(req[r]),
           RegionsRead(r) \/ RegionsAddOnly(r) \/ RegionsDeploy(r) \/ AddRelease(r) \/ AddRecord(r)
    PROVE  GoesOn(r)
<1>1. req[r] \in Request
  BY DEF TypeOK
<1> DEFINE q == req[r]
<1>2. CASE RegionsRead(r)
  <2> DEFINE oneLeft == Cardinality(app.regions) = 1 /\ Cardinality(q.dels) = 1
             next == [q EXCEPT !.pc = "regions.add",
                               !.found = app.regions, !.regions = app.regions,
                               !.backups = app.backups,
                               !.adds = @ \ app.regions, !.backs = @ \ app.backups,
                               !.standby = IF oneLeft THEN app.backups ELSE {},
                               !.last = NoDeployment]
  <2>1. End(r) \/ Become(r, next)
    BY <1>2 DEF RegionsRead
  <2> HIDE DEF oneLeft
  <2>2. Similar(q, next) /\ next.pc = "regions.add"
    BY <1>1 DEF Similar, Kept, Request
  <2> HIDE DEF next
  <2> QED
    BY <1>1, <2>1, <2>2, RegionsLabels, EasyCourse, IdleCourse DEF GoesOn, End
<1>3. CASE RegionsAddOnly(r)
  <2>1. PICK g : Become(r, [q EXCEPT !.adds = @ \ {g}, !.regions = @ \cup {g}])
    BY <1>3 DEF RegionsAddOnly
  <2> DEFINE next == [q EXCEPT !.adds = @ \ {g}, !.regions = @ \cup {g}]
  <2>2. Similar(q, next) /\ next.pc = "regions.add" /\ Become(r, next)
    BY <1>1, <1>3, <2>1 DEF RegionsAddOnly, At, Similar, Kept, Request
  <2> HIDE DEF next
  <2> QED
    BY <1>1, <2>2, RegionsLabels, EasyCourse DEF GoesOn
<1>4. CASE RegionsDeploy(r)
  <2>1. PICK g :
          \/ End(r)
          \/ Become(r, Call([q EXCEPT !.adds = @ \ {g}, !.regions = @ \cup {g}, !.region = g],
                            "create", <<"add.release">>))
    BY <1>4 DEF RegionsDeploy, End
  <2> DEFINE less == [q EXCEPT !.adds = @ \ {g}, !.regions = @ \cup {g}, !.region = g]
  <2>2. Similar(q, less) /\ (End(r) \/ Become(r, Call(less, "create", <<"add.release">>)))
    BY <1>1, <2>1 DEF Similar, Kept, Request
  <2>3. "add.release" \in Recorders
    BY DEF Recorders
  <2> HIDE DEF less
  <2> QED
    BY <1>1, <2>2, <2>3, RegionsLabels, CallCreateCourse, IdleCourse DEF GoesOn, End
<1>5. CASE AddRelease(r)
  <2>1. PICK x : Become(r, [q EXCEPT !.pc = "add.record", !.rel = x])
    BY <1>5 DEF AddRelease
  <2> DEFINE next == [q EXCEPT !.pc = "add.record", !.rel = x]
  <2>2. Similar(q, next) /\ next.pc = "add.record" /\ Become(r, next)
    BY <1>1, <2>1 DEF Similar, Kept, Request
  <2> HIDE DEF next
  <2> QED
    BY <1>1, <2>2, RegionsLabels, EasyCourse DEF GoesOn
<1>6. CASE AddRecord(r)
  <2> DEFINE next == [q EXCEPT !.pc = "add.route", !.last = q.dep]
  <2>1. Similar(q, next) /\ next.pc = "add.route" /\ (End(r) \/ Become(r, next))
    BY <1>1, <1>6 DEF AddRecord, Similar, Kept, Request
  <2> HIDE DEF next
  <2> QED
    BY <1>1, <2>1, RegionsLabels, EasyCourse, IdleCourse DEF GoesOn, End
<1> QED
  BY <1>2, <1>3, <1>4, <1>5, <1>6

\* and so are removing them and deploying the backups.
LEMMA RegionsCourse ==
    ASSUME TypeOK, NEW r \in Requests, OnCourse(req[r]), AddOrRemoveRegions(r)
    PROVE  GoesOn(r)
<1>1. req[r] \in Request
  BY DEF TypeOK
<1> DEFINE q == req[r]
<1>2. CASE RegionsAdded(r) \/ AddRoute(r) \/ StandbyDone(r) \/ RegionsDeleted(r)
           \/ RegionsWrite(r)
  BY <1>2, RegionsLabels, JumpCourse
  DEF RegionsAdded, AddRoute, StandbyDone, RegionsDeleted, RegionsWrite
<1>3. CASE RegionsStandby(r)
  <2>1. PICK b :
          \/ Become(r, Call([q EXCEPT !.standby = @ \ {b}, !.region = b],
                            "undeploy.find", <<"standby.drop">>))
          \/ Become(r, Goto([q EXCEPT !.standby = @ \ {b}, !.region = b], "standby.drop"))
    BY <1>3 DEF RegionsStandby
  <2> DEFINE less == [q EXCEPT !.standby = @ \ {b}, !.region = b]
  <2>2. /\ Similar(q, less)
        /\ \/ Become(r, Call(less, "undeploy.find", <<"standby.drop">>))
           \/ Become(r, Goto(less, "standby.drop"))
    BY <1>1, <2>1 DEF Similar, Kept, Request
  <2>3. <<"standby.drop">> \in Seq(ReturnLabels \ DeleteLabels)
    BY RegionsLabels
  <2> HIDE DEF less
  <2> QED
    BY <1>1, <2>2, <2>3, RegionsLabels, CallCourse, GotoCourse DEF GoesOn
<1>4. CASE StandbyDrop(r)
  <2> DEFINE backups == IF Cardinality(q.standby) = 0 THEN {} ELSE q.backups
             next == [q EXCEPT !.pc = "regions.standby", !.backups = backups]
  <2>1. End(r) \/ Become(r, next)
    BY <1>4 DEF StandbyDrop, End
  <2> HIDE DEF backups
  <2>2. Similar(q, next) /\ next.pc = "regions.standby"
    BY <1>1 DEF Similar, Kept, Request
  <2> HIDE DEF next
  <2> QED
    BY <1>1, <2>1, <2>2, RegionsLabels, EasyCourse, IdleCourse DEF GoesOn, End
<1>5. CASE RegionsDelete(r)
  <2>1. PICK g :
          \/ Become(r, Call([q EXCEPT !.regions = @ \ {g}, !.region = g],
                            "undeploy.find", <<"regions.del">>))
          \/ Become(r, [q EXCEPT !.regions = @ \ {g}, !.region = g])
    BY <1>5 DEF RegionsDelete
  <2> DEFINE less == [q EXCEPT !.regions = @ \ {g}, !.region = g]
  <2>2. /\ Similar(q, less) /\ less.pc = "regions.del"
        /\ Become(r, Call(less, "undeploy.find", <<"regions.del">>)) \/ Become(r, less)
    BY <1>1, <1>5, <2>1 DEF RegionsDelete, At, Similar, Kept, Request
  <2>3. <<"regions.del">> \in Seq(ReturnLabels \ DeleteLabels)
    BY RegionsLabels
  <2> HIDE DEF less
  <2> QED
    BY <1>1, <2>2, <2>3, RegionsLabels, CallCourse, EasyCourse DEF GoesOn
<1>6. CASE RegionsBackup(r)
  <2>1. PICK b \in q.backs :
          LET less == [q EXCEPT !.backs = @ \ {b}, !.backups = @ \cup {b}, !.region = b]
          IN  \/ End(r)
              \/ Become(r, less)
              \/ Become(r, Call(less, "create", <<"regions.backup">>))
    BY <1>6 DEF RegionsBackup, End
  <2> DEFINE less == [q EXCEPT !.backs = @ \ {b}, !.backups = @ \cup {b}, !.region = b]
  <2>2. /\ Similar(q, less) /\ less.pc = "regions.backup"
        /\ \/ End(r)
           \/ Become(r, less)
           \/ Become(r, Call(less, "create", <<"regions.backup">>))
    BY <1>1, <1>6, <2>1 DEF RegionsBackup, At, Similar, Kept, Request
  <2>3. ~NoBackups
    BY <2>1 DEF OnCourse
  <2> HIDE DEF less
  <2> QED
    BY <1>1, <2>2, <2>3, RegionsLabels, CallCreateCourse, EasyCourse, IdleCourse DEF GoesOn, End
<1> QED
  BY <1>2, <1>3, <1>4, <1>5, <1>6, RegionsAddCourse DEF AddOrRemoveRegions

\* The labels of UpdateAppStatus, UnDeploy and SuspendResumePods are easy.
LEMMA ServiceLabels ==
    {"status.release", "status.rows", "status.write", "scale.find", "scale.pods", "scale.mark",
     "undeploy.find", "undeploy.route", "undeploy.pods", "undeploy.service", "undeploy.mark"}
        \subseteq EasyLabels
  BY DEF Labels, EasyLabels, CareLabels, DeleteLabels, Renumbers

\* Every step of theirs is on course,
LEMMA ServiceCourse ==
    ASSUME TypeOK, NEW r \in Requests, OnCourse(req[r]),
           UpdateAppStatus(r) \/ UnDeploy(r) \/ SuspendResumePods(r)
    PROVE  GoesOn(r)
<1>1. req[r] \in Request
  BY DEF TypeOK
<1> DEFINE q == req[r]
<1>2. CASE StatusRelease(r) \/ StatusRows(r)
  <2>0. PICK label \in {"status.rows", "status.write"} :
          \E x, seen : \/ Become(r, [q EXCEPT !.pc = label, !.rel = x])
                       \/ Become(r, [q EXCEPT !.pc = label, !.seen = seen])
    BY <1>2 DEF StatusRelease, StatusRows
  <2>1. PICK x, seen : \/ Become(r, [q EXCEPT !.pc = label, !.rel = x])
                       \/ Become(r, [q EXCEPT !.pc = label, !.seen = seen])
    BY <2>0
  <2> DEFINE found == [q EXCEPT !.pc = label, !.rel = x]
             told == [q EXCEPT !.pc = label, !.seen = seen]
  <2>2. /\ label \in {"status.rows", "status.write"}
        /\ Similar(q, found) /\ found.pc = label
        /\ Similar(q, told) /\ told.pc = label
        /\ Become(r, found) \/ Become(r, told)
    BY <1>1, <2>1 DEF Similar, Kept, Request
  <2> HIDE DEF found, told
  <2> QED
    BY <1>1, <2>2, ServiceLabels, EasyCourse DEF GoesOn
<1>3. CASE UndeployFind(r) \/ ScaleFind(r)
  <2>0. PICK label \in {"undeploy.route", "scale.pods"} :
          \E d : Become(r, [q EXCEPT !.pc = label, !.dep = d])
    BY <1>3 DEF UndeployFind, ScaleFind
  <2>1. PICK d : Become(r, [q EXCEPT !.pc = label, !.dep = d])
    BY <2>0
  <2> DEFINE next == [q EXCEPT !.pc = label, !.dep = d]
  <2>2. /\ label \in {"undeploy.route", "scale.pods"}
        /\ Similar(q, next) /\ next.pc = label /\ Become(r, next)
    BY <1>1, <2>1 DEF Similar, Kept, Request
  <2> HIDE DEF next
  <2> QED
    BY <1>1, <2>2, ServiceLabels, EasyCourse DEF GoesOn
<1>4. CASE StatusWrite(r) \/ UndeployRoute(r) \/ UndeployPods(r) \/ UndeployService(r)
           \/ UndeployMark(r) \/ ScalePods(r) \/ ScaleMark(r)
  <2>1. \/ End(r)
        \/ Become(r, Return(q))
        \/ \E label \in {"undeploy.pods", "undeploy.service", "undeploy.mark", "scale.mark",
                         "status.release"} : Become(r, Goto(q, label))
    BY <1>4 DEF StatusWrite, UndeployRoute, UndeployPods, UndeployService, UndeployFails,
                UndeployMark, ScalePods, ScaleMark, End
  <2> QED
    BY <2>1, ServiceLabels, JumpCourse
<1> QED
  BY <1>2, <1>3, <1>4 DEF UpdateAppStatus, UnDeploy, SuspendResumePods

\* and every step of UpdateConfigApps and UpdateImage: only a revert comes to
\* activate a version again.
LEMMA ConfigCourse ==
    ASSUME TypeOK, NEW r \in Requests, OnCourse(req[r]), Config(r) \/ Image(r)
    PROVE  GoesOn(r)
<1>1. req[r] \in Request
  BY DEF TypeOK
<1> DEFINE q == req[r]
<1>2. {"config.retire", "config.publish", "config.attach", "config.version",
       "image.retire", "image.publish", "regions.read"} \subseteq EasyLabels
  BY DEF Labels, EasyLabels, CareLabels, DeleteLabels, Renumbers
<1>3. CASE ConfigAgain(r)
  <2> DEFINE next == [q EXCEPT !.adds = q.items, !.dels = {}]
  <2>1. Similar(q, next) /\ Become(r, Call(next, "regions.read", <<"config.release">>))
    BY <1>1, <1>3 DEF ConfigAgain, Similar, Kept, Request
  <2>2. <<"config.release">> \in Seq(ReturnLabels \ DeleteLabels)
    BY DEF ReturnLabels, DeleteLabels
  <2> HIDE DEF next
  <2> QED
    BY <1>1, <1>2, <2>1, <2>2, CallCourse DEF GoesOn
<1>4. CASE ConfigRelease(r)
  <2>1. PICK x : Become(r, [q EXCEPT !.pc = "config.retire", !.rel = x])
    BY <1>4 DEF ConfigRelease, ReleaseRead
  <2> DEFINE next == [q EXCEPT !.pc = "config.retire", !.rel = x]
  <2>2. Similar(q, next) /\ next.pc = "config.retire" /\ Become(r, next)
    BY <1>1, <2>1 DEF Similar, Kept, Request
  <2> HIDE DEF next
  <2> QED
    BY <1>1, <1>2, <2>2, EasyCourse DEF GoesOn
<1>5. CASE ConfigRetire(r)
  <2>1. CASE q.kind = "revert"
    <3> DEFINE next == Goto(q, "config.activate")
    <3>1. Similar(q, next) /\ next.pc = "config.activate" /\ Become(r, next)
      BY <1>1, <1>5, <2>1 DEF ConfigRetire, ReleaseRetire, Goto, Similar, Kept, Request
    <3> HIDE DEF next
    <3>2. Course(q, next)
      BY <2>1, <3>1 DEF Course, OnCourse, Similar, Kept, DeleteLabels, Renumbers
    <3> QED
      BY <3>1, <3>2 DEF GoesOn
  <2>2. CASE q.kind # "revert"
    <3> DEFINE next == Goto(q, "config.latest")
    <3>1. Kept(q, next) /\ next.pc = "config.latest" /\ Become(r, next)
      BY <1>1, <1>5, <2>2 DEF ConfigRetire, ReleaseRetire, Goto, Kept, Request
    <3>2. "config.latest" \in Labels \ CareLabels
      BY DEF Labels, CareLabels, DeleteLabels
    <3> HIDE DEF next
    <3> QED
      BY <1>1, <2>2, <3>1, <3>2, FieldsCourse DEF GoesOn
  <2> QED
    BY <2>1, <2>2
<1>6. CASE ConfigLatest(r)
  <2>1. PICK v : Become(r, [q EXCEPT !.pc = "config.publish", !.version = v + 1])
    BY <1>6 DEF ConfigLatest
  <2> DEFINE version == v + 1
             next == [q EXCEPT !.pc = "config.publish", !.version = version]
  <2> HIDE DEF version
  <2>2. Kept(q, next) /\ next.pc = "config.publish"
    BY <1>1 DEF Kept, Request
  <2>3. q.kind # "revert" /\ "config.publish" \in Labels \ CareLabels
    BY <1>6 DEF ConfigLatest, At, OnCourse, Renumbers, Labels, CareLabels, DeleteLabels
  <2>4. Become(r, next)
    BY <2>1 DEF version
  <2> HIDE DEF next
  <2> QED
    BY <1>1, <2>2, <2>3, <2>4, FieldsCourse DEF GoesOn
<1>7. CASE ConfigPublish(r)
  <2> DEFINE next == [q EXCEPT !.pc = "config.attach", !.fresh = nextRelease]
  <2>1. Similar(q, next) /\ next.pc = "config.attach" /\ (End(r) \/ Become(r, next))
    BY <1>1, <1>7 DEF ConfigPublish, ReleasePublish, Similar, Kept, Request
  <2> HIDE DEF next
  <2> QED
    BY <1>1, <1>2, <2>1, EasyCourse, IdleCourse DEF GoesOn, End
<1>8. CASE ImageRelease(r)
  <2>1. PICK x : Become(r, [q EXCEPT !.pc = "image.retire", !.rel = x,
                                     !.version = VersionOf(x) + 1])
    BY <1>8 DEF ImageRelease
  <2> DEFINE version == VersionOf(x) + 1
             next == [q EXCEPT !.pc = "image.retire", !.rel = x, !.version = version]
  <2> HIDE DEF version
  <2>2. Kept(q, next) /\ next.pc = "image.retire"
    BY <1>1 DEF Kept, Request
  <2>3. q.kind # "revert" /\ "image.retire" \in Labels \ CareLabels
    BY <1>8 DEF ImageRelease, At, OnCourse, Renumbers, Labels, CareLabels, DeleteLabels
  <2>4. Become(r, next)
    BY <2>1 DEF version
  <2> HIDE DEF next
  <2> QED
    BY <1>1, <2>2, <2>3, <2>4, FieldsCourse DEF GoesOn
<1>9. CASE ConfigAttach(r) \/ ConfigActivate(r) \/ ConfigVersion(r) \/ ImageRetire(r)
           \/ ImagePublish(r)
  <2>1. End(r) \/ \E label \in {"config.version", "image.publish"} : Become(r, Goto(q, label))
    BY <1>9 DEF ConfigAttach, ConfigActivate, ConfigVersion, ImageRetire, ReleaseRetire,
                ImagePublish, ReleasePublish, End
  <2> QED
    BY <1>2, <2>1, JumpCourse
<1> QED
  BY <1>3, <1>4, <1>5, <1>6, <1>7, <1>8, <1>9 DEF Config, Image

\* A request on course stays on it and deletes nothing.
LEMMA StepCourse ==
    ASSUME TypeOK, app.exists, NEW r \in Requests, OnCourse(req[r]), Step(r)
    PROVE  GoesOn(r) /\ ~Delete(r)
<1>1. ~Delete(r)
  BY DEF Delete, DeleteRead, DeleteCheck, DeleteRecord, DeleteRows, DeleteReleases, At,
         OnCourse, DeleteLabels
<1> QED
  BY <1>1, DeployCourse, RollCourse, RegionsCourse, ServiceCourse, ConfigCourse DEF Step

\* A request arrives on course; a revert names the version of a release.
Enters(r) ==
    /\ At(r, "idle")
    /\ UNCHANGED <<tables, worker>>
    /\ \E n : /\ Become(r, n)
              /\ OnCourse(n)
              /\ n.pc \notin CareLabels
              /\ n.kind = "revert" => \E x \in Inserted : release[x].version = n.version

\* What an issued request must have to be on course.
LEMMA IssueEnters ==
    ASSUME NEW r \in Requests, NEW kind \in KindNames, NEW q \in Request, Issue(r, kind, q),
           q.pc \notin CareLabels,
           q.ret \in Seq(ReturnLabels \ DeleteLabels),
           NoBackups => q.backs = {},
           kind = "revert" => /\ q.pc \notin Renumbers
                              /\ \E x \in Inserted : release[x].version = q.version
    PROVE  Enters(r)
<1> DEFINE n == [q EXCEPT !.kind = kind]
<1>1. /\ n.pc = q.pc /\ n.ret = q.ret /\ n.kind = kind /\ n.backs = q.backs
      /\ n.version = q.version
  BY DEF Request
<1>2. Become(r, n) /\ At(r, "idle") /\ UNCHANGED <<tables, worker>>
  BY DEF Issue
<1> HIDE DEF n
<1>3. OnCourse(n)
  BY <1>1 DEF OnCourse, CareLabels
<1> QED
  BY <1>1, <1>2, <1>3 DEF Enters

\* What ConfigureRegions and MoveApp begin with,
LEMMA ChangeEnters ==
    ASSUME NEW adds \in SUBSET Regions, NEW dels \in SUBSET Regions
    PROVE  /\ ChangeRegions(adds, dels) \in Request
           /\ ChangeRegions(adds, dels).pc = "regions.read"
           /\ ChangeRegions(adds, dels).ret = <<>>
           /\ ChangeRegions(adds, dels).backs = {}
<1>1. ChangeRegions(adds, dels) \in Request /\ ChangeRegions(adds, dels).pc = "regions.read"
  BY ChangeRegionsCarries DEF Carries
<1> QED
  BY <1>1 DEF ChangeRegions, Idle

\* what a redeployment and a revert begin with,
LEMMA RebuildEnters ==
    ASSUME app.regions \in SUBSET Regions, NEW version \in Nat
    PROVE  LET q == [Rebuild EXCEPT !.version = version]
           IN  /\ q \in Request
               /\ q.pc = "regions.read"
               /\ q.ret = <<"config.again">>
               /\ q.backs = {}
               /\ q.version = version
               /\ Rebuild \in Request
               /\ Rebuild.pc = "regions.read"
               /\ Rebuild.ret = <<"config.again">>
               /\ Rebuild.backs = {}
<1> DEFINE change == ChangeRegions({}, app.regions)
<1>1. Rebuild \in Request /\ Rebuild.pc = "regions.read"
  BY RebuildCarries DEF Carries
<1>2. change \in Request /\ change.backs = {}
  BY ChangeEnters
<1>3. Rebuild = [change EXCEPT !.ret = <<"config.again">>, !.items = app.regions]
  BY DEF Rebuild
<1> HIDE DEF change
<1>4. Rebuild.ret = <<"config.again">> /\ Rebuild.backs = {}
  BY <1>2, <1>3 DEF Request
<1> QED
  BY <1>1, <1>4 DEF Request

\* and the labels where the mutations begin.
LEMMA EntryLabels ==
    /\ {"deploy.find", "regions.read", "scale.find", "image.release"} \cap CareLabels = {}
    /\ "regions.read" \notin Renumbers
    /\ <<>> \in Seq(ReturnLabels \ DeleteLabels)
    /\ <<"config.again">> \in Seq(ReturnLabels \ DeleteLabels)
<1>1. "config.again" \in ReturnLabels \ DeleteLabels
  BY DEF ReturnLabels, DeleteLabels
<1> QED
  BY <1>1 DEF CareLabels, DeleteLabels, Renumbers

\* Without DeleteApp every mutation enters on course.
LEMMA MutationEnters ==
    ASSUME TypeOK, "delete" \notin Kinds, NEW r \in Requests, Mutation(r) PROVE Enters(r)
<1>1. /\ Idle \in Request /\ Idle.ret = <<>> /\ Idle.backs = {}
      /\ app.regions \in SUBSET Regions
  BY IdleFollows DEF Follows, Carries, Idle, TypeOK, TablesTypeOK, AppRow
<1>2. CASE DeployImage(r) \/ UpdateImage(r)
  <2>1. PICK label \in {"deploy.find", "image.release"}, kind \in {"deploy", "image"} :
          Issue(r, kind, Goto(Idle, label))
    BY <1>2 DEF DeployImage, UpdateImage
  <2> DEFINE q == Goto(Idle, label)
  <2>2. q \in Request /\ q.pc = label /\ q.ret = <<>> /\ q.backs = {}
    BY <1>1 DEF Goto, Request, Labels
  <2> HIDE DEF q
  <2> QED
    BY <2>1, <2>2, EntryLabels, IssueEnters DEF KindNames, q
<1>3. CASE ConfigureRegions(r)
  <2>1. PICK adds \in AllowLists, dels \in DenyLists, backs \in BackupLists :
          Issue(r, "configure", [ChangeRegions(adds, dels) EXCEPT !.backs = backs])
    BY <1>3 DEF ConfigureRegions
  <2>2. adds \in SUBSET Regions /\ dels \in SUBSET Regions /\ backs \in SUBSET Regions
    BY LifecycleAssumption
  <2>3. NoBackups => backs = {}
    BY DEF NoBackups
  <2> DEFINE change == ChangeRegions(adds, dels)
             q == [change EXCEPT !.backs = backs]
  <2>4. change \in Request /\ change.pc = "regions.read" /\ change.ret = <<>>
    BY <2>2, ChangeEnters
  <2> HIDE DEF change
  <2>5. q \in Request /\ q.pc = "regions.read" /\ q.ret = <<>> /\ q.backs = backs
    BY <2>2, <2>4 DEF Request
  <2>6. Issue(r, "configure", q)
    BY <2>1 DEF change
  <2> HIDE DEF q
  <2> QED
    BY <2>3, <2>5, <2>6, EntryLabels, IssueEnters DEF KindNames
<1>4. CASE MoveApp(r)
  <2>1. PICK source \in Regions, dest \in Regions : Issue(r, "move", ChangeRegions({dest}, {source}))
    BY <1>4 DEF MoveApp
  <2> DEFINE q == ChangeRegions({dest}, {source})
  <2>2. q \in Request /\ q.pc = "regions.read" /\ q.ret = <<>> /\ q.backs = {}
    BY ChangeEnters
  <2> HIDE DEF q
  <2> QED
    BY <2>1, <2>2, EntryLabels, IssueEnters DEF KindNames, q
<1>5. CASE PauseApp(r) \/ ResumeApp(r)
  <2>1. PICK g \in Regions, from \in {"running", "suspended"}, kind \in {"pause", "resume"} :
          Issue(r, kind, [Idle EXCEPT !.pc = "scale.find", !.region = g, !.from = from])
    BY <1>5 DEF PauseApp, ResumeApp
  <2> DEFINE q == [Idle EXCEPT !.pc = "scale.find", !.region = g, !.from = from]
  <2>2. /\ q = [Idle EXCEPT !.pc = "scale.find", !.region = g, !.from = from]
        /\ "scale.find" \in Labels /\ g \in Regions \cup {NoRegion}
    BY DEF Labels
  <2>3. q \in Request /\ q.pc = "scale.find" /\ q.ret = <<>> /\ q.backs = {}
    <3> HIDE DEF q
    <3> QED
      BY <1>1, <2>2 DEF Request
  <2> HIDE DEF q
  <2> QED
    BY <2>1, <2>3, EntryLabels, IssueEnters DEF KindNames, q
<1>6. CASE Redeploy(r)
  <2>1. Issue(r, "redeploy", Rebuild)
    BY <1>6 DEF Redeploy
  <2> QED
    BY <1>1, <2>1, EntryLabels, RebuildEnters, IssueEnters DEF KindNames
<1>7. CASE Revert(r)
  <2>1. PICK x \in Inserted : Issue(r, "revert", [Rebuild EXCEPT !.version = release[x].version])
    BY <1>7 DEF Revert
  <2>2. release[x].version \in Nat
    BY DEF Inserted, TypeOK, TablesTypeOK, ReleaseRow
  <2> DEFINE q == [Rebuild EXCEPT !.version = release[x].version]
  <2>3. /\ q \in Request /\ q.pc = "regions.read" /\ q.ret = <<"config.again">>
        /\ q.backs = {} /\ q.version = release[x].version
    BY <1>1, <2>2, RebuildEnters
  <2> HIDE DEF q
  <2> QED
    BY <2>1, <2>3, EntryLabels, IssueEnters DEF KindNames, q
<1>8. ~DeleteApp(r)
  BY DEF DeleteApp, Issue
<1> QED
  BY <1>2, <1>3, <1>4, <1>5, <1>6, <1>7, <1>8 DEF Mutation

-----------------------------------------------------------------------------
(***************************************************************************)
(* What a step does to the application and to the goroutines                *)
(***************************************************************************)
\* Only the steps of DeleteApp remove the application.
LEMMA StepKeepsApp ==
    ASSUME TypeOK, app.exists, NEW r \in Requests, Step(r), ~Delete(r) PROVE app'.exists
<1>1. app \in AppRow
  BY DEF TypeOK, TablesTypeOK
<1>2. CASE UNCHANGED app
  BY <1>2
<1>3. CASE FirstRoute(r) \/ RollVersion(r) \/ AddRoute(r) \/ RegionsWrite(r)
  BY <1>1, <1>3 DEF FirstRoute, RollVersion, AddRoute, RegionsWrite, AppRow
<1>4. CASE StatusWrite(r) \/ UndeployRoute(r) \/ ConfigVersion(r)
  BY <1>1, <1>4 DEF StatusWrite, UndeployRoute, ConfigVersion, AppRow
<1>5. Deploy(r) => UNCHANGED app \/ FirstRoute(r)
  BY DEF Deploy, DeployFind, Create, CreateService, FirstRelease, FirstRecord, Reads,
         OnlyCluster, OnlyRow
<1>6. CreateNewAppRelease(r) => UNCHANGED app \/ RollVersion(r)
  BY DEF CreateNewAppRelease, RollCurrent, RollApp, RollRows, RollWait, RollRetire, RollPublish,
         Reads, OnlyRelease
<1>7. AddOrRemoveRegions(r) => UNCHANGED app \/ AddRoute(r) \/ RegionsWrite(r)
  BY DEF AddOrRemoveRegions, RegionsRead, RegionsAdded, RegionsAddOnly, RegionsDeploy,
         AddRelease, AddRecord, RegionsStandby, StandbyDrop, StandbyDone, RegionsDelete,
         RegionsDeleted, RegionsBackup, Reads, OnlyRow
<1>8. UpdateAppStatus(r) \/ UnDeploy(r) \/ SuspendResumePods(r) =>
        UNCHANGED app \/ StatusWrite(r) \/ UndeployRoute(r)
  BY DEF UpdateAppStatus, StatusRelease, StatusRows, UnDeploy, UndeployFind, UndeployPods,
         UndeployService, UndeployFails, UndeployMark, SuspendResumePods, ScaleFind, ScalePods,
         ScaleMark, Reads, OnlyCluster, OnlyRow
<1>9. Config(r) \/ Image(r) => UNCHANGED app \/ ConfigVersion(r)
  BY DEF Config, ConfigAgain, ConfigRelease, ConfigRetire, ConfigLatest, ConfigPublish,
         ConfigAttach, ConfigActivate, Image, ImageRelease, ImageRetire, ImagePublish,
         ReleaseRead, ReleaseRetire, ReleasePublish, Reads, OnlyRelease, OnlyRow
<1> QED
  BY <1>2, <1>3, <1>4, <1>5, <1>6, <1>7, <1>8, <1>9 DEF Step

\* Only RollRows starts goroutines, and a request that waits for its own does
\* nothing else.
LEMMA StepWorkers ==
    ASSUME TypeOK, NEW r \in Requests, Step(r)
    PROVE  /\ UNCHANGED worker \/ RollRows(r)
           /\ At(r, "roll.wait") => RollWait(r)
<1>1. UNCHANGED worker \/ RollRows(r)
  <2>1. CreateNewAppRelease(r) => UNCHANGED worker \/ RollRows(r)
    BY DEF CreateNewAppRelease, RollCurrent, RollApp, RollWait, RollRetire, RollPublish,
           RollVersion, Reads, Same
  <2> QED
    BY <2>1, DeployTables, RegionsTables, StatusAndDeleteTables, UndeployTables, ScaleTables,
       ConfigAndImageTables DEF Step
<1>2. ASSUME At(r, "roll.wait") PROVE RollWait(r)
  <2>1. ~Deploy(r)
    BY <1>2 DEF At, Deploy, DeployFind, Create, CreateService, FirstRelease, FirstRecord,
                FirstRoute
  <2>2. CreateNewAppRelease(r) => RollWait(r)
    BY <1>2 DEF At, CreateNewAppRelease, RollCurrent, RollApp, RollRows, RollRetire,
                RollPublish, RollVersion
  <2>3. ~AddOrRemoveRegions(r)
    BY <1>2 DEF At, AddOrRemoveRegions, RegionsRead, RegionsAdded, RegionsAddOnly,
                RegionsDeploy, AddRelease, AddRecord, AddRoute, RegionsStandby, StandbyDrop,
                StandbyDone, RegionsDelete, RegionsDeleted, RegionsBackup, RegionsWrite
  <2>4. ~(UpdateAppStatus(r) \/ UnDeploy(r) \/ SuspendResumePods(r))
    BY <1>2 DEF At, UpdateAppStatus, StatusRelease, StatusRows, StatusWrite, UnDeploy,
                UndeployFind, UndeployRoute, UndeployPods, UndeployService, UndeployMark,
                SuspendResumePods, ScaleFind, ScalePods, ScaleMark
  <2>5. ~(Delete(r) \/ Config(r) \/ Image(r))
    BY <1>2 DEF At, Delete, DeleteRead, DeleteCheck, DeleteRecord, DeleteRows, DeleteReleases,
                Config, ConfigAgain, ConfigRelease, ConfigRetire, ConfigLatest, ConfigPublish,
                ConfigAttach, ConfigActivate, ConfigVersion, Image, ImageRelease, ImageRetire,
                ImagePublish, ReleaseRead, ReleaseRetire, ReleasePublish
  <2> QED
    BY <2>1, <2>2, <2>3, <2>4, <2>5 DEF Step
<1> QED
  BY <1>1, <1>2

\* A step of one request changes no other.
LEMMA OthersStay ==
    ASSUME TypeOK, NEW r \in Requests, NEW n, Become(r, n)
    PROVE  \A s \in Requests : req'[s] = IF s = r THEN n ELSE req[s]
  BY DEF Become, TypeOK

\* NeverDeleted is preserved by the steps of requests,
LEMMA StepNeverDeleted ==
    ASSUME TypeOK, NeverDeleted, NEW r \in Requests, Step(r) PROVE NeverDeleted'
<1>1. app.exists /\ (\A s \in Requests : OnCourse(req[s]))
  BY DEF NeverDeleted
<1>2. app'.exists
  BY <1>1, StepCourse, StepKeepsApp
<1>3. PICK n : Course(req[r], n) /\ Become(r, n)
  BY <1>1, StepCourse DEF GoesOn
<1>4. \A s \in Requests : OnCourse(req'[s])
  BY <1>1, <1>3, OthersStay DEF Course
<1>5. ASSUME NEW s \in Requests, NEW d \in DeploymentIds, worker'[s][d].stage # "off"
      PROVE  req'[s].pc = "roll.wait"
  <2>1. CASE UNCHANGED worker
    <3>1. At(s, "roll.wait")
      BY <1>5, <2>1 DEF NeverDeleted
    <3>2. s # r
      BY <1>5, <2>1, <3>1, StepWorkers DEF RollWait
    <3> QED
      BY <1>3, <3>1, <3>2, OthersStay DEF At
  <2>2. CASE RollRows(r)
    <3>1. s # r => worker'[s] = worker[s]
      BY <2>2 DEF RollRows, TypeOK
    <3>2. req'[r].pc = "roll.wait"
      BY <2>2 DEF RollRows, Become, TypeOK, Request
    <3>3. s # r => req'[s].pc = "roll.wait"
      BY <1>3, <1>5, <3>1, OthersStay DEF NeverDeleted, At
    <3> QED
      BY <3>2, <3>3
  <2> QED
    BY <2>1, <2>2, StepWorkers
<1> QED
  BY <1>2, <1>4, <1>5 DEF NeverDeleted, At

\* The goroutines belong to a request that waits, read an application that was
\* there, and touch neither the releases nor the requests.
LEMMA WorkCourse ==
    ASSUME TypeOK, NeverDeleted, NEW r \in Requests, NEW d \in DeploymentIds, Work(r, d)
    PROVE  /\ ~WorkerPanic(r, d)
           /\ worker[r][d].stage # "off" /\ At(r, "roll.wait")
           /\ UNCHANGED <<app, release, nextRelease, req>>
<1>1. worker[r][d].stage # "off"
  BY DEF Work, WorkerDelete, WorkerMark, WorkerCreate, WorkerPanic, WorkerRecord
<1>2. At(r, "roll.wait") /\ OnCourse(req[r])
  BY <1>1 DEF NeverDeleted
<1>3. ~WorkerPanic(r, d)
  BY <1>2 DEF WorkerPanic, OnCourse, At
<1> QED
  BY <1>1, <1>2, <1>3 DEF Work, WorkerDelete, WorkerMark, WorkerCreate, WorkerRecord,
                          OnlyCluster, OnlyRow

\* by theirs,
LEMMA WorkNeverDeleted ==
    ASSUME TypeOK, NeverDeleted, NEW r \in Requests, NEW d \in DeploymentIds, Work(r, d)
    PROVE  NeverDeleted'
<1>1. PICK w : Stage(r, d, w)
  BY WorkCourse DEF Work, WorkerDelete, WorkerMark, WorkerCreate, WorkerRecord
<1>2. \A s \in Requests, e \in DeploymentIds :
        s # r \/ e # d => worker'[s][e] = worker[s][e]
  BY <1>1 DEF Stage, TypeOK
<1> QED
  BY <1>2, WorkCourse DEF NeverDeleted, At

\* and by the requests that arrive.
LEMMA MutationNeverDeleted ==
    ASSUME TypeOK, "delete" \notin Kinds, NeverDeleted, NEW r \in Requests, Mutation(r)
    PROVE  NeverDeleted'
<1>0. Enters(r)
  BY MutationEnters
<1>1. PICK n : Become(r, n) /\ OnCourse(n)
  BY <1>0 DEF Enters
<1>2. UNCHANGED <<tables, worker>> /\ At(r, "idle")
  BY <1>0 DEF Enters
<1> QED
  BY <1>1, <1>2, OthersStay DEF NeverDeleted, tables, At

-----------------------------------------------------------------------------
(***************************************************************************)
(* Releases                                                                 *)
(***************************************************************************)
\* The labels where a request holds the id of a release to come, or is between
\* retiring and publishing.
ReleaseLabels ==
    {"roll.rows", "roll.wait", "roll.retire", "roll.publish", "config.latest",
     "config.publish", "config.activate", "image.publish"}

\* The steps that write releases or leave one of these labels.
LEMMA StepRelease ==
    ASSUME NEW r \in Requests, Step(r), ~Delete(r)
    PROVE  \/ /\ UNCHANGED <<release, nextRelease>>
              /\ req[r].pc \notin ReleaseLabels
           \/ RollRows(r) \/ RollWait(r) \/ RollRetire(r) \/ RollPublish(r)
           \/ FirstRelease(r)
           \/ ConfigRetire(r) \/ ConfigLatest(r) \/ ConfigPublish(r) \/ ConfigActivate(r)
           \/ ImageRetire(r) \/ ImagePublish(r)
<1> DEFINE Away == UNCHANGED <<release, nextRelease>> /\ req[r].pc \notin ReleaseLabels
<1>1. Deploy(r) => Away \/ FirstRelease(r)
  BY DEF Deploy, DeployFind, Create, CreateService, FirstRecord, FirstRoute, Reads,
         OnlyCluster, OnlyRow, OnlyApp, At, ReleaseLabels
<1>2. CreateNewAppRelease(r) =>
        Away \/ RollRows(r) \/ RollWait(r) \/ RollRetire(r) \/ RollPublish(r)
  BY DEF CreateNewAppRelease, RollCurrent, RollApp, RollVersion, Reads, OnlyApp, At,
         ReleaseLabels
<1>3. AddOrRemoveRegions(r) => Away
  BY DEF AddOrRemoveRegions, RegionsRead, RegionsAdded, RegionsAddOnly, RegionsDeploy,
         AddRelease, AddRecord, AddRoute, RegionsStandby, StandbyDrop, StandbyDone,
         RegionsDelete, RegionsDeleted, RegionsBackup, RegionsWrite, Reads, OnlyRow, OnlyApp,
         At, ReleaseLabels
<1>4. UpdateAppStatus(r) \/ UnDeploy(r) \/ SuspendResumePods(r) => Away
  BY DEF UpdateAppStatus, StatusRelease, StatusRows, StatusWrite, UnDeploy, UndeployFind,
         UndeployRoute, UndeployPods, UndeployService, UndeployFails, UndeployMark,
         SuspendResumePods, ScaleFind, ScalePods, ScaleMark, Reads, OnlyCluster, OnlyRow,
         OnlyApp, At, ReleaseLabels
<1>5. Config(r) => \/ Away \/ ConfigRetire(r) \/ ConfigLatest(r) \/ ConfigPublish(r)
                   \/ ConfigActivate(r)
  BY DEF Config, ConfigAgain, ConfigRelease, ConfigAttach, ConfigVersion, ReleaseRead, Reads,
         OnlyRow, OnlyApp, At, ReleaseLabels
<1>6. Image(r) => Away \/ ImageRetire(r) \/ ImagePublish(r)
  BY DEF Image, ImageRelease, Reads, At, ReleaseLabels
<1> QED
  BY <1>1, <1>2, <1>3, <1>4, <1>5, <1>6 DEF Step

\* Ids of releases are positive.
LEMMA ReleaseIdsAreNat ==
    ASSUME TypeOK
    PROVE  /\ ReleaseIds \subseteq Nat \ {0} /\ nextRelease \in Nat \ {0}
           /\ release \in [ReleaseIds -> ReleaseRow]
  BY TablesAssumption DEF TypeOK, TablesTypeOK, ReleaseIds

\* ReleasesKnown survives a step that adds at most one release, under an id
\* nobody holds afterwards, and that changes no version.
LEMMA ReleasesKept ==
    ASSUME TypeOK, TypeOK', ReleasesKnown, NEW r \in Requests, NEW n, Course(req[r], n),
           Become(r, n), n.pc # "roll.wait",
           nextRelease' >= nextRelease,
           NEW y \in Nat, y < nextRelease',
           \A s \in Requests : HoldsFresh(s)' => req'[s].fresh # y,
           \A x \in ReleaseIds \ {y} :
               release[x].status = "none" => release'[x].status = "none",
           \A x \in Inserted : x \in Inserted' /\ release'[x].version = release[x].version
    PROVE  ReleasesKnown'
<1>1. \A s \in Requests : req'[s] = IF s = r THEN n ELSE req[s]
  BY OthersStay
<1>2. \A s \in Requests : HoldsFresh(s)' => HoldsFresh(s) /\ req'[s].fresh = req[s].fresh
  BY <1>1 DEF HoldsFresh, Course
<1>3. \A s \in Requests : req'[s].kind = "revert" =>
        req[s].kind = "revert" /\ req'[s].version = req[s].version
  BY <1>1 DEF Course
<1>4. /\ ReleaseIds \subseteq Nat /\ nextRelease \in Nat /\ nextRelease' \in Nat
  BY ReleaseIdsAreNat DEF TypeOK, TablesTypeOK
<1>5. ASSUME NEW x \in ReleaseIds, x >= nextRelease' PROVE release'[x].status = "none"
  <2>1. x \in Nat /\ x >= nextRelease /\ x # y
    BY <1>4, <1>5
  <2> QED
    BY <2>1 DEF ReleasesKnown
<1>6. ASSUME NEW s \in Requests, HoldsFresh(s)'
      PROVE  /\ req'[s].fresh \in ReleaseIds
             /\ req'[s].fresh < nextRelease'
             /\ release'[req'[s].fresh].status = "none"
  <2>1. /\ req'[s].fresh = req[s].fresh /\ req[s].fresh \in ReleaseIds
        /\ req[s].fresh < nextRelease /\ release[req[s].fresh].status = "none"
    BY <1>2, <1>6 DEF ReleasesKnown
  <2>2. req'[s].fresh # y
    BY <1>6
  <2> DEFINE x == req[s].fresh
  <2>3. x \in ReleaseIds \ {y} /\ x < nextRelease /\ release[x].status = "none"
    BY <2>1, <2>2
  <2> HIDE DEF x
  <2>4. release'[x].status = "none"
    BY <2>3
  <2>5. x < nextRelease'
    BY <1>4, <2>3
  <2> QED
    BY <2>1, <2>4, <2>5 DEF x
<1>7. ASSUME NEW s \in Requests, NEW t \in Requests, s # t, HoldsFresh(s)', HoldsFresh(t)'
      PROVE  req'[s].fresh # req'[t].fresh
  BY <1>2, <1>7 DEF ReleasesKnown
<1>8. ASSUME NEW s \in Requests, req'[s].kind = "revert"
      PROVE  \E x \in Inserted' : release'[x].version = req'[s].version
  BY <1>3, <1>8 DEF ReleasesKnown
<1> QED
  BY <1>5, <1>6, <1>7, <1>8 DEF ReleasesKnown

\* In particular one that writes no release.
LEMMA SameReleases ==
    ASSUME TypeOK, TypeOK', ReleasesKnown, UNCHANGED <<release, nextRelease>>,
           NEW r \in Requests, NEW n, Course(req[r], n), Become(r, n), n.pc # "roll.wait"
    PROVE  ReleasesKnown'
<1>1. \A s \in Requests : req'[s] = IF s = r THEN n ELSE req[s]
  BY OthersStay
<1>2. \A s \in Requests : HoldsFresh(s)' => HoldsFresh(s) /\ req'[s].fresh = req[s].fresh
  BY <1>1 DEF HoldsFresh, Course
<1>3. \A s \in Requests : HoldsFresh(s)' => req'[s].fresh # 0
  BY <1>2, ReleaseIdsAreNat DEF ReleasesKnown
<1>4. nextRelease \in Nat /\ 0 < nextRelease' /\ nextRelease' >= nextRelease
  BY ReleaseIdsAreNat
<1>5. \A x \in Inserted : x \in Inserted' /\ release'[x].version = release[x].version
  BY DEF Inserted
<1> QED
  BY <1>3, <1>4, <1>5, ReleasesKept

\* RollRows hands out the next id.
LEMMA RollRowsKnown ==
    ASSUME TypeOK, ReleasesKnown, NEW r \in Requests, RollRows(r) PROVE ReleasesKnown'
<1> DEFINE n == [req[r] EXCEPT !.pc = "roll.wait", !.fresh = nextRelease]
<1>1. /\ n.fresh = nextRelease /\ n.kind = req[r].kind /\ n.version = req[r].version
      /\ Become(r, n) /\ nextRelease \in ReleaseIds /\ nextRelease' = nextRelease + 1
      /\ UNCHANGED release
  BY DEF RollRows, TypeOK, Request
<1> HIDE DEF n
<1>2. \A s \in Requests : req'[s] = IF s = r THEN n ELSE req[s]
  BY <1>1, OthersStay
<1>3. ReleaseIds \subseteq Nat /\ nextRelease \in Nat /\ Inserted' = Inserted
  BY <1>1, ReleaseIdsAreNat DEF Inserted
<1>4. release[nextRelease].status = "none"
  BY <1>1, <1>3 DEF ReleasesKnown
<1>5. \A x \in ReleaseIds : x >= nextRelease' => release'[x].status = "none"
  BY <1>1, <1>3 DEF ReleasesKnown
<1>6. ASSUME NEW s \in Requests, s # r, HoldsFresh(s)'
      PROVE  /\ req'[s].fresh = req[s].fresh /\ req[s].fresh \in ReleaseIds
             /\ req[s].fresh < nextRelease /\ release[req[s].fresh].status = "none"
  BY <1>2, <1>6 DEF ReleasesKnown, HoldsFresh
<1>7. ASSUME NEW s \in Requests, HoldsFresh(s)'
      PROVE  /\ req'[s].fresh \in ReleaseIds
             /\ req'[s].fresh < nextRelease'
             /\ release'[req'[s].fresh].status = "none"
  <2>1. CASE s = r
    <3>1. req'[s].fresh = nextRelease
      BY <1>1, <1>2, <2>1
    <3>2. release'[nextRelease].status = "none"
      BY <1>1, <1>4
    <3>3. nextRelease \in ReleaseIds /\ nextRelease < nextRelease'
      BY <1>1, <1>3
    <3> QED
      BY <3>1, <3>2, <3>3, Zenon
  <2>2. CASE s # r
    <3> DEFINE x == req[s].fresh
    <3>1. /\ req'[s].fresh = x /\ x \in ReleaseIds /\ x < nextRelease
          /\ release[x].status = "none"
      BY <1>6, <1>7, <2>2
    <3> HIDE DEF x
    <3>2. x < nextRelease' /\ release'[x].status = "none"
      BY <1>1, <1>3, <3>1
    <3> QED
      BY <3>1, <3>2
  <2> QED
    BY <2>1, <2>2
<1>8. ASSUME NEW s \in Requests, NEW t \in Requests, s # t, HoldsFresh(s)', HoldsFresh(t)'
      PROVE  req'[s].fresh # req'[t].fresh
  <2>1. CASE s # r /\ t # r
    BY <1>2, <1>8, <2>1 DEF ReleasesKnown, HoldsFresh
  <2>2. CASE s = r \/ t = r
    BY <1>1, <1>2, <1>3, <1>6, <1>8, <2>2
  <2> QED
    BY <2>1, <2>2
<1>9. \A s \in Requests : req'[s].kind = "revert" =>
        \E x \in Inserted' : release'[x].version = req'[s].version
  BY <1>1, <1>2, <1>3 DEF ReleasesKnown
<1> QED
  BY <1>5, <1>7, <1>8, <1>9 DEF ReleasesKnown

\* Who holds an id after a step held it before.
LEMMA HeldIsKnown ==
    ASSUME TypeOK, ReleasesKnown, NEW r \in Requests, NEW n, Course(req[r], n), Become(r, n),
           n.pc # "roll.wait", NEW s \in Requests, HoldsFresh(s)'
    PROVE  /\ HoldsFresh(s) /\ req'[s].fresh = req[s].fresh
           /\ req[s].fresh \in ReleaseIds /\ req[s].fresh < nextRelease
           /\ s # r /\ HoldsFresh(r) => req[s].fresh # req[r].fresh
<1>1. req'[s] = IF s = r THEN n ELSE req[s]
  BY OthersStay
<1>2. HoldsFresh(s) /\ req'[s].fresh = req[s].fresh
  BY <1>1 DEF HoldsFresh, Course
<1> QED
  BY <1>2 DEF ReleasesKnown

\* A release published under the next id is active, and its id nobody's.
LEMMA PublishKnown ==
    ASSUME TypeOK, TypeOK', ReleasesKnown, NEW r \in Requests, NEW n, Course(req[r], n),
           Become(r, n), n.pc # "roll.wait", NEW version,
           nextRelease \in ReleaseIds, release' = CreateAppRelease(nextRelease, version),
           nextRelease' = nextRelease + 1
    PROVE  ReleasesKnown' /\ Active' # {}
<1>1. nextRelease \in Nat /\ release \in [ReleaseIds -> ReleaseRow]
  BY ReleaseIdsAreNat
<1>2. \A s \in Requests : HoldsFresh(s)' => req'[s].fresh # nextRelease
  BY <1>1, HeldIsKnown, ReleaseIdsAreNat
<1>3. \A x \in ReleaseIds :
        release'[x] = IF x = nextRelease THEN [status |-> "active", version |-> version]
                      ELSE release[x]
  BY <1>1 DEF CreateAppRelease
<1>4. release[nextRelease].status = "none"
  BY <1>1 DEF ReleasesKnown
<1>5. \A x \in Inserted : x \in Inserted' /\ release'[x].version = release[x].version
  BY <1>3, <1>4 DEF Inserted
<1>6. nextRelease < nextRelease' /\ nextRelease' >= nextRelease
  BY <1>1
<1>7. ReleasesKnown'
  BY <1>1, <1>2, <1>3, <1>5, <1>6, ReleasesKept
<1>8. nextRelease \in Active'
  BY <1>3 DEF Active, Inserted
<1> QED
  BY <1>7, <1>8

\* So is the one published under the id CreateNewAppRelease held: it has not
\* been inserted and no other request holds it.
LEMMA RollPublishKnown ==
    ASSUME TypeOK, TypeOK', ReleasesKnown, NEW r \in Requests, NEW n, Course(req[r], n),
           Become(r, n), "insert" \notin Faults, RollPublish(r)
    PROVE  ReleasesKnown' /\ Active' # {}
<1> DEFINE x == req[r].fresh
<1>1. /\ HoldsFresh(r) /\ release' = CreateAppRelease(x, req[r].version + 1)
      /\ Become(r, Goto(req[r], "roll.version")) /\ nextRelease' = nextRelease
  BY DEF RollPublish, HoldsFresh, At, OnlyRelease
<1>2. req'[r] = n /\ n.pc = "roll.version"
  BY <1>1, OthersStay DEF Goto, TypeOK, Request, Become
<1>3. x \in ReleaseIds /\ x < nextRelease /\ release[x].status = "none"
  BY <1>1 DEF ReleasesKnown
<1>4. \A s \in Requests : HoldsFresh(s)' => req'[s].fresh # x
  BY <1>1, <1>2, HeldIsKnown DEF HoldsFresh
<1> HIDE DEF x
<1>5. \A y \in ReleaseIds :
        release'[y] = IF y = x THEN [status |-> "active", version |-> req[r].version + 1]
                      ELSE release[y]
  BY <1>1, ReleaseIdsAreNat DEF CreateAppRelease
<1>6. \A y \in Inserted : y \in Inserted' /\ release'[y].version = release[y].version
  BY <1>3, <1>5 DEF Inserted
<1>7. x \in Nat /\ x < nextRelease' /\ nextRelease' >= nextRelease
  BY <1>1, <1>3, ReleaseIdsAreNat
<1>8. ReleasesKnown'
  BY <1>2, <1>4, <1>5, <1>6, <1>7, ReleasesKept
<1>9. x \in Active'
  BY <1>3, <1>5 DEF Active, Inserted
<1> QED
  BY <1>8, <1>9

\* An UPDATE inserts and renumbers nothing.
LEMMA RewriteKnown ==
    ASSUME TypeOK, TypeOK', ReleasesKnown, NEW r \in Requests, NEW n, Course(req[r], n),
           Become(r, n), n.pc # "roll.wait", nextRelease' = nextRelease, NEW x, NEW status,
           status \in {"active", "inactive"},
           release' = UpdateAppRelease(status, x) \/ release' = UpdateAppReleases(status, x)
    PROVE  ReleasesKnown'
<1>1. \A y \in ReleaseIds :
        /\ release[y].status = "none" => release'[y].status = "none"
        /\ y \in Inserted => y \in Inserted' /\ release'[y].version = release[y].version
  BY ReleaseIdsAreNat DEF UpdateAppRelease, UpdateAppReleases, Inserted, ReleaseRow
<1>2. \A s \in Requests : HoldsFresh(s)' => req'[s].fresh # 0
  BY HeldIsKnown, ReleaseIdsAreNat
<1>3. nextRelease \in Nat /\ 0 < nextRelease' /\ nextRelease' >= nextRelease
  BY ReleaseIdsAreNat
<1>4. \A y \in Inserted : y \in Inserted' /\ release'[y].version = release[y].version
  BY <1>1 DEF Inserted
<1> QED
  BY <1>1, <1>2, <1>3, <1>4, ReleasesKept

\* A revert activates at least the release it was asked for.
LEMMA ActivateFinds ==
    ASSUME TypeOK, NeverDeleted, ReleasesKnown, NEW r \in Requests, ConfigActivate(r)
    PROVE  Active' # {}
<1>1. req[r].kind = "revert"
  BY DEF NeverDeleted, OnCourse, ConfigActivate, At
<1>2. PICK x \in Inserted : release[x].version = req[r].version
  BY <1>1 DEF ReleasesKnown
<1>3. x \in ReleaseIds /\ release[x] \in ReleaseRow
  BY ReleaseIdsAreNat DEF Inserted
<1>4. release'[x] = [release[x] EXCEPT !.status = "active"]
  BY <1>2, <1>3 DEF ConfigActivate, UpdateAppReleases
<1>5. release'[x].status = "active"
  BY <1>3, <1>4 DEF ReleaseRow
<1>6. x \in Active'
  BY <1>3, <1>5 DEF Active, Inserted
<1> QED
  BY <1>6

\* A step that writes no release and leaves no request between retiring and
\* publishing keeps an active release or its replacement.
LEMMA StillReplacing ==
    ASSUME TypeOK, SomeReleaseIsActive, UNCHANGED release, NEW r \in Requests,
           ~Replacing(r) \/ Replacing(r)', NEW n, Become(r, n)
    PROVE  SomeReleaseIsActive'
<1>1. \A s \in Requests : Replacing(s) => Replacing(s)'
  BY OthersStay DEF Replacing
<1> QED
  BY <1>1 DEF SomeReleaseIsActive, Active, Inserted

\* The steps of requests, one by one,
LEMMA StepReleases ==
    ASSUME TypeOK, TypeOK', "insert" \notin Faults, NeverDeleted, ReleasesKnown,
           SomeReleaseIsActive, NEW r \in Requests, Step(r)
    PROVE  ReleasesKnown' /\ SomeReleaseIsActive'
<1>1. PICK n : Course(req[r], n) /\ Become(r, n)
  BY StepCourse DEF NeverDeleted, GoesOn
<1>2. ~Delete(r) /\ req[r] \in Request /\ req'[r] = n
  BY <1>1, StepCourse, OthersStay DEF NeverDeleted, TypeOK
<1>3. CASE UNCHANGED <<release, nextRelease>> /\ req[r].pc \notin ReleaseLabels
  <2>1. n.pc # "roll.wait" /\ ~Replacing(r)
    BY <1>1, <1>3 DEF Course, ReleaseLabels, Replacing
  <2> QED
    BY <1>1, <1>3, <2>1, SameReleases, StillReplacing
<1>4. CASE RollRows(r)
  <2>1. ~Replacing(r) /\ UNCHANGED release
    BY <1>4 DEF RollRows, At, Replacing
  <2> QED
    BY <1>1, <1>4, <2>1, RollRowsKnown, StillReplacing
<1>5. CASE RollWait(r)
  <2>1. ~Replacing(r) /\ UNCHANGED <<release, nextRelease>> /\ n.pc # "roll.wait"
    BY <1>1, <1>5 DEF RollWait, At, Replacing, Reads, Course
  <2> QED
    BY <1>1, <2>1, SameReleases, StillReplacing
<1>6. CASE RollRetire(r) \/ ConfigRetire(r) \/ ImageRetire(r)
  <2>1. PICK label \in {"roll.publish", "config.activate", "config.latest", "image.publish"} :
          Become(r, Goto(req[r], label))
    BY <1>6 DEF RollRetire, ConfigRetire, ImageRetire, ReleaseRetire
  <2>2. n.pc = label
    BY <1>2, <2>1 DEF Goto, Become, Request, TypeOK
  <2>3. Replacing(r)'
    BY <1>2, <2>2 DEF Replacing
  <2>4. nextRelease' = nextRelease /\ release' = UpdateAppRelease("inactive", req[r].rel)
    BY <1>6 DEF RollRetire, ConfigRetire, ImageRetire, ReleaseRetire, OnlyRelease
  <2> QED
    BY <1>1, <2>2, <2>3, <2>4, RewriteKnown DEF SomeReleaseIsActive
<1>7. CASE RollPublish(r)
  BY <1>1, <1>7, RollPublishKnown DEF SomeReleaseIsActive
<1>8. CASE FirstRelease(r) \/ ConfigPublish(r) \/ ImagePublish(r)
  <2>1. /\ nextRelease \in ReleaseIds /\ nextRelease' = nextRelease + 1
        /\ \E version : release' = CreateAppRelease(nextRelease, version)
    BY <1>8 DEF FirstRelease, ConfigPublish, ImagePublish, ReleasePublish
  <2>2. req[r].pc # "roll.rows"
    BY <1>8 DEF FirstRelease, ConfigPublish, ImagePublish, ReleasePublish, At
  <2>3. n.pc # "roll.wait"
    BY <1>1, <2>2 DEF Course
  <2> QED
    BY <1>1, <2>1, <2>3, PublishKnown DEF SomeReleaseIsActive
<1>9. CASE ConfigLatest(r)
  <2>1. UNCHANGED <<release, nextRelease>>
    BY <1>9 DEF ConfigLatest, Reads
  <2>2. PICK v : Become(r, [req[r] EXCEPT !.pc = "config.publish", !.version = v + 1])
    BY <1>9 DEF ConfigLatest
  <2> DEFINE version == v + 1
  <2>3. Become(r, [req[r] EXCEPT !.pc = "config.publish", !.version = version])
    BY <2>2
  <2> HIDE DEF version
  <2>4. n.pc = "config.publish"
    BY <1>2, <2>3 DEF Become, Request, TypeOK
  <2>5. Replacing(r)' /\ n.pc # "roll.wait"
    BY <1>2, <2>4 DEF Replacing
  <2> QED
    BY <1>1, <2>1, <2>5, SameReleases, StillReplacing
<1>10. CASE ConfigActivate(r)
  <2>1. /\ release' = UpdateAppReleases("active", req[r].version)
        /\ nextRelease' = nextRelease /\ req[r].pc # "roll.rows"
    BY <1>10 DEF ConfigActivate, OnlyRelease, At
  <2>2. n.pc # "roll.wait"
    BY <1>1, <2>1 DEF Course
  <2> QED
    BY <1>1, <1>10, <2>1, <2>2, RewriteKnown, ActivateFinds DEF SomeReleaseIsActive
<1> QED
  BY <1>2, <1>3, <1>4, <1>5, <1>6, <1>7, <1>8, <1>9, <1>10, StepRelease

\* the requests that arrive
LEMMA MutationReleases ==
    ASSUME TypeOK, TypeOK', "delete" \notin Kinds, ReleasesKnown, SomeReleaseIsActive,
           NEW r \in Requests, Mutation(r)
    PROVE  ReleasesKnown' /\ SomeReleaseIsActive'
<1>0. Enters(r)
  BY MutationEnters
<1>1. PICK n : /\ Become(r, n)
               /\ n.pc \notin CareLabels
               /\ n.kind = "revert" => \E x \in Inserted : release[x].version = n.version
  BY <1>0 DEF Enters
<1>2. UNCHANGED <<release, nextRelease>> /\ At(r, "idle")
  BY <1>0 DEF Enters, tables
<1>3. \A s \in Requests : req'[s] = IF s = r THEN n ELSE req[s]
  BY <1>1, OthersStay
<1>4. \A s \in Requests : HoldsFresh(s)' => HoldsFresh(s) /\ req'[s] = req[s]
  BY <1>1, <1>3 DEF HoldsFresh, CareLabels
<1>5. \A s \in Requests : req'[s].kind = "revert" =>
        \E x \in Inserted : release[x].version = req'[s].version
  BY <1>1, <1>3 DEF ReleasesKnown
<1>6. ReleasesKnown'
  BY <1>2, <1>4, <1>5 DEF ReleasesKnown, Inserted
<1>7. ~Replacing(r)
  BY <1>2 DEF Replacing, At
<1> QED
  BY <1>1, <1>2, <1>6, <1>7, StillReplacing

\* and the goroutines keep an active release.
LEMMA WorkReleases ==
    ASSUME TypeOK, NeverDeleted, ReleasesKnown, SomeReleaseIsActive,
           NEW r \in Requests, NEW d \in DeploymentIds, Work(r, d)
    PROVE  ReleasesKnown' /\ SomeReleaseIsActive'
<1>1. UNCHANGED <<release, nextRelease, req>>
  BY WorkCourse
<1> QED
  BY <1>1 DEF ReleasesKnown, HoldsFresh, Inserted, SomeReleaseIsActive, Active, Replacing

-----------------------------------------------------------------------------
(***************************************************************************)
(* Deployments                                                              *)
(***************************************************************************)
\* The labels from Deployment to the INSERT.
PodLabels == {"create", "service", "first.release", "first.record", "add.release", "add.record"}

\* The step creates no pods and deletes no row.
PodsStay ==
    /\ Rows \subseteq Rows'
    /\ \A d \in DeploymentIds : cluster'[d].pods # "none" => cluster[d].pods # "none"

\* So do an UPDATE of the status of rows,
LEMMA UpdateStays ==
    ASSUME TypeOK, NEW status \in RowStatus \ {"none"}, NEW d,
           row' = UpdateDeploymentsRecord(status, d), UNCHANGED cluster
    PROVE  PodsStay
<1>1. row \in [DeploymentIds -> DeploymentRow]
  BY DEF TypeOK, TablesTypeOK
<1>2. \A e \in Rows : row'[e].status \in {status, row[e].status}
  BY <1>1 DEF UpdateDeploymentsRecord, Rows, DeploymentRow
<1>3. \A e \in Rows : row'[e].status # "none"
  BY <1>2 DEF Rows, RowStatus
<1> QED
  BY <1>3 DEF PodsStay, Rows

\* the deletion of a deployment,
LEMMA DeleteStays ==
    ASSUME TypeOK, NEW d, cluster' = DeletePods(d), UNCHANGED row PROVE PodsStay
<1>1. cluster \in [DeploymentIds -> Workload]
  BY DEF TypeOK, TablesTypeOK
<1>2. \A e \in DeploymentIds : cluster'[e].pods \in {"none", cluster[e].pods}
  BY <1>1 DEF DeletePods, Workload
<1> QED
  BY <1>2 DEF PodsStay, Rows

\* a step that writes neither rows nor clusters,
LEMMA NothingStays == ASSUME UNCHANGED <<row, cluster>> PROVE PodsStay
  BY DEF PodsStay, Rows

\* the deletion of a service,
LEMMA ServiceStays ==
    ASSUME TypeOK, NEW d, NEW region, cluster' = DeleteService(d, region), UNCHANGED row
    PROVE  PodsStay
<1>1. cluster \in [DeploymentIds -> Workload]
  BY DEF TypeOK, TablesTypeOK
<1>2. \A e \in DeploymentIds : cluster'[e].pods = cluster[e].pods
  BY <1>1 DEF DeleteService, Workload
<1> QED
  BY <1>2 DEF PodsStay, Rows

\* the scaling of a deployment that is there,
LEMMA ScaleStays ==
    ASSUME TypeOK, NEW r \in Requests, ScalePods(r) PROVE PodsStay
<1>1. cluster \in [DeploymentIds -> Workload]
  BY DEF TypeOK, TablesTypeOK
<1>2. UNCHANGED row
  BY DEF ScalePods, OnlyCluster
<1>3. CASE UNCHANGED cluster
  BY <1>2, <1>3, NothingStays
<1>4. CASE \E d, pods : cluster[d].pods # "none" /\ cluster' = [cluster EXCEPT ![d].pods = pods]
  <2>1. PICK d, pods : cluster[d].pods # "none" /\ cluster' = [cluster EXCEPT ![d].pods = pods]
    BY <1>4
  <2>2. \A e \in DeploymentIds : e # d => cluster'[e] = cluster[e]
    BY <1>1, <2>1
  <2> QED
    BY <1>2, <2>1, <2>2 DEF PodsStay, Rows
<1> QED
  BY <1>3, <1>4 DEF ScalePods

\* and an UPDATE of the release of a row.
LEMMA AttachStays ==
    ASSUME TypeOK, NEW d, NEW x, row' = UpdateDeploymentsReleaseId(d, x), UNCHANGED cluster
    PROVE  PodsStay
<1>1. row \in [DeploymentIds -> DeploymentRow]
  BY DEF TypeOK, TablesTypeOK
<1>2. \A e \in DeploymentIds : row'[e].status = row[e].status
  BY <1>1 DEF UpdateDeploymentsReleaseId, DeploymentRow
<1> QED
  BY <1>2 DEF PodsStay, Rows

\* Every step of a request but those from Deployment to the INSERT.
LEMMA StepPods ==
    ASSUME TypeOK, NEW r \in Requests, Step(r), ~Delete(r)
    PROVE  \/ PodsStay /\ req[r].pc \notin PodLabels
           \/ Create(r) \/ CreateService(r)
           \/ FirstRelease(r) \/ FirstRecord(r) \/ AddRelease(r) \/ AddRecord(r)
<1> DEFINE Here == req[r].pc \notin PodLabels
           Away == UNCHANGED <<row, cluster>> /\ Here
<1>1. CASE Deploy(r)
  <2>1. DeployFind(r) \/ FirstRoute(r) => Away
    BY DEF DeployFind, FirstRoute, Reads, OnlyApp, At, PodLabels
  <2> QED
    BY <1>1, <2>1, NothingStays DEF Deploy
<1>2. CASE CreateNewAppRelease(r)
  <2>1. Away
    BY <1>2 DEF CreateNewAppRelease, RollCurrent, RollApp, RollRows, RollWait, RollRetire,
                RollPublish, RollVersion, Reads, OnlyApp, OnlyRelease, At, PodLabels
  <2> QED
    BY <2>1, NothingStays
<1>3. CASE AddOrRemoveRegions(r)
  <2>1. Away \/ AddRelease(r) \/ AddRecord(r)
    BY <1>3 DEF AddOrRemoveRegions, RegionsRead, RegionsAdded, RegionsAddOnly, RegionsDeploy,
                AddRoute, RegionsStandby, StandbyDrop, StandbyDone, RegionsDelete,
                RegionsDeleted, RegionsBackup, RegionsWrite, Reads, OnlyApp, At, PodLabels
  <2> QED
    BY <2>1, NothingStays
<1>4. CASE UpdateAppStatus(r) \/ UnDeploy(r) \/ SuspendResumePods(r)
  <2>1. Here
    BY <1>4 DEF UpdateAppStatus, StatusRelease, StatusRows, StatusWrite, UnDeploy, UndeployFind,
                UndeployRoute, UndeployPods, UndeployService, UndeployMark, SuspendResumePods,
                ScaleFind, ScalePods, ScaleMark, At, PodLabels
  <2>2. CASE UNCHANGED <<row, cluster>>
    BY <2>1, <2>2, NothingStays
  <2>3. CASE UndeployMark(r) \/ ScaleMark(r)
    <3>1. PICK status, d :
            /\ status \in RowStatus \ {"none"}
            /\ row' = UpdateDeploymentsRecord(status, d)
            /\ UNCHANGED cluster
      BY <2>3 DEF UndeployMark, ScaleMark, RowStatus, OnlyRow
    <3> QED
      BY <2>1, <3>1, UpdateStays
  <2>4. CASE ScalePods(r)
    BY <2>1, <2>4, ScaleStays
  <2>5. CASE (UndeployPods(r) \/ UndeployService(r)) /\ ~UNCHANGED <<row, cluster>>
    <3>1. UNCHANGED row
      BY <2>5 DEF UndeployPods, UndeployService, UndeployFails, OnlyCluster, Reads
    <3>2. \/ \E d : cluster' = DeletePods(d)
          \/ \E d, region : cluster' = DeleteService(d, region)
      BY <2>5 DEF UndeployPods, UndeployService, UndeployFails, Reads
    <3> QED
      BY <2>1, <3>1, <3>2, DeleteStays, ServiceStays
  <2>6. StatusRelease(r) \/ StatusRows(r) \/ StatusWrite(r) \/ UndeployFind(r)
          \/ UndeployRoute(r) \/ ScaleFind(r) => UNCHANGED <<row, cluster>>
    BY DEF StatusRelease, StatusRows, StatusWrite, UndeployFind, UndeployRoute, ScaleFind,
           Reads, OnlyApp
  <2> QED
    BY <1>4, <2>2, <2>3, <2>4, <2>5, <2>6 DEF UpdateAppStatus, UnDeploy, SuspendResumePods
<1>5. CASE Config(r) \/ Image(r)
  <2>1. Here
    BY <1>5 DEF Config, ConfigAgain, ConfigRelease, ConfigRetire, ConfigLatest, ConfigPublish,
                ConfigAttach, ConfigActivate, ConfigVersion, Image, ImageRelease, ImageRetire,
                ImagePublish, ReleaseRead, ReleaseRetire, ReleasePublish, At, PodLabels
  <2>2. CASE ConfigAttach(r)
    BY <2>1, <2>2, AttachStays DEF ConfigAttach, OnlyRow
  <2>3. CASE ~ConfigAttach(r)
    <3>1. UNCHANGED <<row, cluster>>
      BY <1>5, <2>3 DEF Config, ConfigAgain, ConfigRelease, ConfigRetire, ConfigLatest,
                ConfigPublish, ConfigActivate, ConfigVersion, Image, ImageRelease, ImageRetire,
                ImagePublish, ReleaseRead, ReleaseRetire, ReleasePublish, Reads, OnlyRelease,
                OnlyApp
    <3> QED
      BY <2>1, <3>1, NothingStays
  <2> QED
    BY <2>2, <2>3
<1> QED
  BY <1>1, <1>2, <1>3, <1>4, <1>5 DEF Step

\* What a request alone contributes to Recording(d).
Records(q, d) == q.dep = d /\ q.pc \in PodLabels \ {"create"}

\* No step of a request stops a goroutine.
LEMMA WorkersStillRecord ==
    ASSUME TypeOK, NeverDeleted, NEW r \in Requests, Step(r), NEW s \in Requests,
           NEW e \in DeploymentIds, worker[s][e].stage # "off"
    PROVE  worker'[s][e] = worker[s][e]
<1>1. CASE UNCHANGED worker
  BY <1>1
<1>2. CASE RollRows(r)
  <2>1. s # r
    BY <1>2 DEF NeverDeleted, RollRows, At
  <2> QED
    BY <1>2, <2>1 DEF RollRows, TypeOK
<1> QED
  BY <1>1, <1>2, StepWorkers

\* PodsKnown survives a step of a request that will record the pods it creates,
\* and that drops a deployment it has in hand only once it is recorded or gone.
LEMMA StillRecording ==
    ASSUME TypeOK, NeverDeleted, PodsKnown, NEW r \in Requests, Step(r), NEW n, Become(r, n),
           Rows \subseteq Rows',
           \A d \in DeploymentIds :
               cluster'[d].pods # "none" => cluster[d].pods # "none" \/ Records(n, d),
           \A d \in DeploymentIds :
               Records(req[r], d) =>
                   d \in Rows' \/ Records(n, d) \/ cluster'[d].pods = "none"
    PROVE  PodsKnown'
<1> SUFFICES ASSUME NEW d \in DeploymentIds, cluster'[d].pods # "none", d \notin Rows'
             PROVE  Recording(d)'
  BY DEF PodsKnown
<1>1. \A s \in Requests : req'[s] = IF s = r THEN n ELSE req[s]
  BY OthersStay
<1>2. CASE Records(n, d)
  BY <1>1, <1>2 DEF Records, Recording, PodLabels
<1>3. CASE ~Records(n, d)
  <2>1. Recording(d) /\ ~Records(req[r], d)
    BY <1>3 DEF PodsKnown
  <2>2. PICK s \in Requests :
          \/ Records(req[s], d)
          \/ \E e \in DeploymentIds : worker[s][e].stage = "record" /\ worker[s][e].new = d
    BY <2>1 DEF Recording, Records, PodLabels
  <2>3. CASE Records(req[s], d)
    BY <1>1, <2>1, <2>3 DEF Records, Recording, PodLabels
  <2>4. CASE \E e \in DeploymentIds : worker[s][e].stage = "record" /\ worker[s][e].new = d
    BY <2>4, WorkersStillRecord DEF Recording
  <2> QED
    BY <2>2, <2>3, <2>4
<1> QED
  BY <1>2, <1>3

\* An INSERT adds the row of its deployment,
LEMMA RecordStays ==
    ASSUME TypeOK, NEW d, NEW x, NEW named, row' = CreateDeploymentsRecord(d, x, named)
    PROVE  Rows \subseteq Rows' /\ (d \in DeploymentIds => d \in Rows')
<1>1. row \in [DeploymentIds -> DeploymentRow]
  BY DEF TypeOK, TablesTypeOK
<1>2. \A e \in DeploymentIds :
        row'[e] = IF e = d THEN [status |-> "running", release |-> x, named |-> named]
                  ELSE row[e]
  BY <1>1 DEF CreateDeploymentsRecord
<1> QED
  BY <1>2 DEF Rows

\* and a creation touches one deployment only.
LEMMA CreateStays ==
    ASSUME TypeOK, NEW d, NEW region, cluster' = CreatePods(d, region)
    PROVE  \A e \in DeploymentIds : e # d => cluster'[e] = cluster[e]
<1>1. cluster \in [DeploymentIds -> Workload]
  BY DEF TypeOK, TablesTypeOK
<1> QED
  BY <1>1 DEF CreatePods

\* Deployment and CreateService return to the label that records.
LEMMA ReturnRecords ==
    ASSUME NEW q \in Request, OnCourse(q), NoBackups, q.pc \in {"create", "service"},
           NEW dep, NEW p, p = [q EXCEPT !.dep = dep]
    PROVE  Return(p).dep = dep /\ Return(p).pc \in Recorders
<1>1. q.ret # <<>> /\ Head(q.ret) \in Recorders
  BY DEF OnCourse
<1>2. p.ret = q.ret /\ p.dep = dep
  BY DEF Request
<1>3. Return(p) = [p EXCEPT !.pc = Head(q.ret), !.ret = Tail(q.ret)]
  BY <1>1, <1>2 DEF Return
<1> QED
  BY <1>1, <1>2, <1>3 DEF Request

\* Every creation is followed by its INSERT or by CreateService,
LEMMA CreateTracked ==
    ASSUME TypeOK, NeverDeleted, PodsKnown, NoBackups, "container" \notin Faults,
           NEW r \in Requests, Step(r), Create(r)
    PROVE  PodsKnown'
<1> DEFINE q == req[r]
           made == [q EXCEPT !.dep = nextDeployment]
<1>1. /\ q \in Request /\ OnCourse(q) /\ q.pc = "create" /\ UNCHANGED row
  BY DEF TypeOK, NeverDeleted, Create, At
<1>2. \A d \in DeploymentIds : ~Records(q, d)
  BY <1>1 DEF Records
<1>3. Rows \subseteq Rows'
  BY <1>1 DEF Rows
<1>4. CASE UNCHANGED cluster
  <2>1. PICK n : Become(r, n)
    BY <1>4, StepCourse DEF NeverDeleted, GoesOn
  <2> QED
    BY <1>2, <1>3, <1>4, <2>1, StillRecording
<1>5. CASE /\ cluster' = CreatePods(nextDeployment, q.region)
           /\ Become(r, IF q.toDeploy THEN Return(made) ELSE Goto(made, "service"))
  <2> DEFINE n == IF q.toDeploy THEN Return(made) ELSE Goto(made, "service")
  <2>1. Return(made).dep = nextDeployment /\ Return(made).pc \in Recorders
    BY <1>1, ReturnRecords
  <2>2. Goto(made, "service").dep = nextDeployment /\ Goto(made, "service").pc = "service"
    BY <1>1 DEF Goto, Request
  <2>3. n.dep = nextDeployment /\ n.pc \in PodLabels \ {"create"}
    BY <2>1, <2>2 DEF Recorders, PodLabels
  <2>4. Become(r, n)
    BY <1>5
  <2> HIDE DEF n
  <2>5. \A d \in DeploymentIds :
          cluster'[d].pods # "none" => cluster[d].pods # "none" \/ Records(n, d)
    BY <1>5, <2>3, CreateStays DEF Records
  <2> QED
    BY <1>2, <1>3, <2>4, <2>5, StillRecording
<1> QED
  BY <1>4, <1>5 DEF Create

\* which takes the deployment back when its service has no address;
LEMMA ServiceTracked ==
    ASSUME TypeOK, NeverDeleted, PodsKnown, NoBackups, "service" \notin Faults,
           NEW r \in Requests, Step(r), CreateService(r)
    PROVE  PodsKnown'
<1> DEFINE q == req[r]
<1>1. /\ q \in Request /\ OnCourse(q) /\ q.pc = "service" /\ UNCHANGED row
      /\ cluster \in [DeploymentIds -> Workload]
  BY DEF TypeOK, TablesTypeOK, NeverDeleted, CreateService, At, OnlyCluster
<1>2. Rows \subseteq Rows'
  BY <1>1 DEF Rows
<1>3. CASE cluster' = [cluster EXCEPT ![q.dep].service = TRUE] /\ Become(r, Return(q))
  <2>1. q = [q EXCEPT !.dep = q.dep]
    BY <1>1 DEF Request
  <2>2. Return(q).dep = q.dep /\ Return(q).pc \in Recorders
    BY <1>1, <2>1, ReturnRecords
  <2>3. \A d \in DeploymentIds : Records(Return(q), d) <=> d = q.dep
    BY <2>2 DEF Records, Recorders, PodLabels
  <2>4. \A d \in DeploymentIds : cluster'[d].pods = cluster[d].pods
    BY <1>1, <1>3 DEF Workload
  <2> QED
    BY <1>2, <1>3, <2>3, <2>4, StillRecording DEF Records
<1>4. CASE cluster' = DeletePods(q.dep) /\ End(r)
  <2>1. PodsStay /\ \A d \in DeploymentIds : d = q.dep => cluster'[d].pods = "none"
    BY <1>1, <1>4, DeleteStays DEF DeletePods, Workload
  <2> QED
    BY <1>2, <1>4, <2>1, StillRecording DEF Records, PodsStay, End
<1> QED
  BY <1>3, <1>4 DEF CreateService

\* the INSERT follows the release it names.
LEMMA RowTracked ==
    ASSUME TypeOK, NeverDeleted, PodsKnown, "insert" \notin Faults, NEW r \in Requests, Step(r),
           FirstRelease(r) \/ FirstRecord(r) \/ AddRelease(r) \/ AddRecord(r)
    PROVE  PodsKnown'
<1> DEFINE q == req[r]
<1>1. q \in Request
  BY DEF TypeOK
<1>2. CASE FirstRelease(r) \/ AddRelease(r)
  <2>0. PICK label \in {"first.record", "add.record"} :
          \E x : Become(r, [q EXCEPT !.pc = label, !.rel = x])
    BY <1>2 DEF FirstRelease, AddRelease
  <2>1. PICK x : Become(r, [q EXCEPT !.pc = label, !.rel = x])
    BY <2>0
  <2> DEFINE n == [q EXCEPT !.pc = label, !.rel = x]
  <2>2. label \in {"first.record", "add.record"} /\ n.dep = q.dep /\ n.pc = label
    BY <1>1, <2>1 DEF Request
  <2>3. Become(r, n) /\ UNCHANGED <<row, cluster>>
    BY <1>2, <2>1 DEF FirstRelease, AddRelease, Reads
  <2> HIDE DEF n
  <2>4. \A d \in DeploymentIds : Records(q, d) => Records(n, d)
    BY <2>2 DEF Records, PodLabels
  <2> QED
    BY <2>3, <2>4, NothingStays, StillRecording DEF PodsStay
<1>3. CASE FirstRecord(r) \/ AddRecord(r)
  <2>1. row' = CreateDeploymentsRecord(q.dep, q.rel, TRUE) /\ UNCHANGED cluster
    BY <1>3 DEF FirstRecord, AddRecord, OnlyRow
  <2>2. PICK n : Become(r, n)
    BY StepCourse DEF NeverDeleted, GoesOn
  <2> QED
    BY <2>1, <2>2, RecordStays, StillRecording DEF Records
<1> QED
  BY <1>2, <1>3

\* So the steps of requests,
LEMMA StepTracked ==
    ASSUME TypeOK, NeverDeleted, PodsKnown, NoBackups,
           Faults \cap {"insert", "container", "service"} = {}, NEW r \in Requests, Step(r)
    PROVE  PodsKnown'
<1>1. ~Delete(r)
  BY StepCourse DEF NeverDeleted
<1>2. CASE PodsStay /\ req[r].pc \notin PodLabels
  <2>1. PICK n : Become(r, n)
    BY StepCourse DEF NeverDeleted, GoesOn
  <2> QED
    BY <1>2, <2>1, StillRecording DEF PodsStay, Records
<1> QED
  BY <1>1, <1>2, StepPods, CreateTracked, ServiceTracked, RowTracked

\* the requests that arrive
LEMMA MutationTracked ==
    ASSUME TypeOK, "delete" \notin Kinds, PodsKnown, NEW r \in Requests, Mutation(r)
    PROVE  PodsKnown'
<1>0. Enters(r)
  BY MutationEnters
<1>1. PICK n : Become(r, n)
  BY <1>0 DEF Enters
<1>2. UNCHANGED <<row, cluster, worker>> /\ At(r, "idle")
  BY <1>0 DEF Enters, tables
<1>3. \A s \in Requests : req'[s] = IF s = r THEN n ELSE req[s]
  BY <1>1, OthersStay
<1>4. \A d \in DeploymentIds : Recording(d) => Recording(d)'
  BY <1>2, <1>3 DEF Recording, At
<1> QED
  BY <1>2, <1>4 DEF PodsKnown, Rows

\* and the goroutines, which record what they have created, keep PodsKnown.
LEMMA WorkTracked ==
    ASSUME TypeOK, NeverDeleted, PodsKnown, Faults \cap {"insert", "container"} = {},
           NEW r \in Requests, NEW d \in DeploymentIds, Work(r, d)
    PROVE  PodsKnown'
<1>1. UNCHANGED req /\ cluster \in [DeploymentIds -> Workload]
  BY WorkCourse DEF TypeOK, TablesTypeOK
<1>2. ASSUME NEW w, Stage(r, d, w)
      PROVE  \A s \in Requests, e \in DeploymentIds :
               worker'[s][e] = IF s = r /\ e = d THEN w ELSE worker[s][e]
  BY <1>2 DEF Stage, TypeOK
<1>3. ASSUME NEW w, Stage(r, d, w), worker[r][d].stage # "record" \/ worker[r][d].new \in Rows'
      PROVE  \A e \in DeploymentIds : Recording(e) => Recording(e)' \/ e \in Rows'
  BY <1>1, <1>2, <1>3 DEF Recording
<1>4. CASE WorkerDelete(r, d)
  <2>1. PodsStay
    BY <1>4, DeleteStays, NothingStays DEF WorkerDelete, OnlyCluster
  <2>2. PICK w : Stage(r, d, w) /\ worker[r][d].stage = "delete"
    BY <1>4 DEF WorkerDelete
  <2> QED
    BY <1>3, <2>1, <2>2 DEF PodsKnown, PodsStay
<1>5. CASE WorkerMark(r, d)
  <2>1. PodsStay
    BY <1>5, UpdateStays DEF WorkerMark, RowStatus, OnlyRow
  <2>2. PICK w : Stage(r, d, w) /\ worker[r][d].stage = "mark"
    BY <1>5 DEF WorkerMark
  <2> QED
    BY <1>3, <2>1, <2>2 DEF PodsKnown, PodsStay
<1>6. CASE WorkerCreate(r, d)
  <2>1. PICK new :
          /\ Stage(r, d, [stage |-> "record", new |-> new])
          /\ \/ cluster' = CreatePods(new, cluster[d].region)
             \/ UNCHANGED cluster
    BY <1>6 DEF WorkerCreate
  <2> DEFINE w == [stage |-> "record", new |-> new]
  <2>2. Stage(r, d, w) /\ w.stage = "record" /\ w.new = new
    BY <2>1
  <2>3. worker[r][d].stage = "create" /\ Rows' = Rows
    BY <1>6 DEF WorkerCreate, Rows
  <2> HIDE DEF w
  <2>4. worker'[r][d] = w
    BY <1>2, <2>2
  <2>5. Recording(new)'
    BY <2>2, <2>4 DEF Recording
  <2>6. \A e \in DeploymentIds : e # new => (cluster'[e].pods # "none" => cluster[e].pods # "none")
    BY <2>1, CreateStays
  <2> QED
    BY <1>3, <2>2, <2>3, <2>5, <2>6 DEF PodsKnown
<1>7. CASE WorkerRecord(r, d)
  <2>1. Stage(r, d, NoWorker)
    BY <1>7 DEF WorkerRecord
  <2>2. CASE worker[r][d].new # NoDeployment
    <3>1. row' = CreateDeploymentsRecord(worker[r][d].new, req[r].fresh, TRUE) /\ UNCHANGED cluster
      BY <1>7, <2>2 DEF WorkerRecord
    <3>2. worker[r][d].new \in DeploymentIds
      BY <2>2 DEF TypeOK, Worker
    <3>3. Rows \subseteq Rows' /\ worker[r][d].new \in Rows'
      BY <3>1, <3>2, RecordStays
    <3> QED
      BY <1>3, <2>1, <3>1, <3>3 DEF PodsKnown
  <2>3. CASE worker[r][d].new = NoDeployment
    <3>1. /\ row' = CreateDeploymentsRecord(nextDeployment, req[r].fresh, FALSE)
          /\ cluster' = [cluster EXCEPT ![nextDeployment].region = cluster[d].region]
      BY <1>7, <2>3 DEF WorkerRecord
    <3>2. \A e \in DeploymentIds : cluster'[e].pods = cluster[e].pods
      BY <1>1, <3>1 DEF Workload
    <3>3. Rows \subseteq Rows'
      BY <3>1, RecordStays
    <3>4. \A e \in DeploymentIds : Recording(e) => Recording(e)'
      <4>1. \A e \in DeploymentIds : worker[r][d].new # e
        BY <2>3 DEF NoDeployment, DeploymentIds
      <4> QED
        BY <1>1, <1>2, <2>1, <4>1 DEF Recording
    <3> QED
      BY <3>2, <3>3, <3>4 DEF PodsKnown
  <2> QED
    BY <2>2, <2>3
<1> QED
  BY <1>4, <1>5, <1>6, <1>7, WorkCourse DEF Work

-----------------------------------------------------------------------------
(***************************************************************************)
(* The invariants                                                           *)
(***************************************************************************)
\* Nobody deletes the application, no INSERT fails and the server stays up.
KeepsReleases == "delete" \notin Kinds /\ Faults \cap {"insert", "crash"} = {}

\* No backup regions, which have no rows; a cluster that creates a deployment
\* lists its pods and makes its service.
RecordsPods == NoBackups /\ Faults \cap {"container", "service"} = {}

\* The initial state,
LEMMA OverlapInit == Init => OverlapInv
<1> SUFFICES ASSUME Init PROVE OverlapInv
  OBVIOUS
<1>1. \A r \in Requests : req[r] = Idle
  BY DEF Init
<1>2. OnCourse(Idle) /\ Idle.kind # "revert" /\ Idle.pc = "idle"
  BY IdleCourse DEF Course, Idle
<1>3. \A r \in Requests, d \in DeploymentIds : worker[r][d].stage = "off"
  BY DEF Init, NoWorker
<1>4. app.exists
  BY DEF Init, TablesInit
<1>5. NeverDeleted
  BY <1>1, <1>2, <1>3, <1>4 DEF NeverDeleted
<1>6. \A x \in ReleaseIds : release[x].status = "none"
  BY DEF Init, TablesInit, NoReleaseRow
<1>7. ReleasesKnown
  BY <1>1, <1>2, <1>6 DEF ReleasesKnown, HoldsFresh
<1>8. SomeReleaseIsActive
  BY <1>6 DEF SomeReleaseIsActive, Inserted
<1>9. PodsKnown
  BY DEF PodsKnown, Init, TablesInit
<1> QED
  BY <1>5, <1>7, <1>8, <1>9 DEF OverlapInv, ReleaseInv

\* and every step keeps the releases,
LEMMA ReleaseNext ==
    KeepsReleases /\ TypeOK /\ ReleaseInv /\ [Next]_vars => ReleaseInv'
<1> SUFFICES ASSUME KeepsReleases, TypeOK, ReleaseInv, [Next]_vars PROVE ReleaseInv'
  OBVIOUS
<1>1. TypeOK' /\ NeverDeleted /\ ReleasesKnown /\ SomeReleaseIsActive
  BY NextType DEF ReleaseInv
<1>2. "delete" \notin Kinds /\ "insert" \notin Faults /\ ~Crash
  BY DEF KeepsReleases, Crash
<1>3. CASE UNCHANGED vars
  BY <1>3 DEF vars, ReleaseInv, NeverDeleted, ReleasesKnown, SomeReleaseIsActive, HoldsFresh,
              Inserted, Active, Replacing, At
<1>4. ASSUME NEW r \in Requests, Mutation(r) PROVE ReleaseInv'
  BY <1>1, <1>2, <1>4, MutationNeverDeleted, MutationReleases DEF ReleaseInv
<1>5. ASSUME NEW r \in Requests, Step(r) PROVE ReleaseInv'
  BY <1>1, <1>2, <1>5, StepNeverDeleted, StepReleases DEF ReleaseInv
<1>6. ASSUME NEW r \in Requests, NEW d \in DeploymentIds, Work(r, d) PROVE ReleaseInv'
  BY <1>1, <1>2, <1>6, WorkNeverDeleted, WorkReleases DEF ReleaseInv
<1> QED
  BY <1>2, <1>3, <1>4, <1>5, <1>6 DEF Next, Done

\* and the deployments.
LEMMA PodsNext ==
    KeepsReleases /\ RecordsPods /\ TypeOK /\ OverlapInv /\ [Next]_vars => PodsKnown'
<1> SUFFICES ASSUME KeepsReleases, RecordsPods, TypeOK, OverlapInv, [Next]_vars
             PROVE  PodsKnown'
  OBVIOUS
<1>1. NeverDeleted /\ PodsKnown
  BY DEF OverlapInv, ReleaseInv
<1>2. /\ "delete" \notin Kinds /\ ~Crash /\ NoBackups
      /\ Faults \cap {"insert", "container", "service"} = {}
  BY DEF KeepsReleases, RecordsPods, Crash
<1>3. CASE UNCHANGED vars
  BY <1>1, <1>3 DEF vars, PodsKnown, Rows, Recording
<1>4. ASSUME NEW r \in Requests, Mutation(r) PROVE PodsKnown'
  BY <1>1, <1>2, <1>4, MutationTracked
<1>5. ASSUME NEW r \in Requests, Step(r) PROVE PodsKnown'
  BY <1>1, <1>2, <1>5, StepTracked
<1>6. ASSUME NEW r \in Requests, NEW d \in DeploymentIds, Work(r, d) PROVE PodsKnown'
  BY <1>1, <1>2, <1>6, WorkTracked
<1> QED
  BY <1>2, <1>3, <1>4, <1>5, <1>6 DEF Next, Done

\* However requests and release goroutines interleave, a request that retires
\* the current release holds an id of its own to publish the next one under, or
\* the version of a release there is.
THEOREM ReleaseInvariant == KeepsReleases /\ Spec => []ReleaseInv
<1> SUFFICES ASSUME KeepsReleases PROVE Spec => []ReleaseInv
  OBVIOUS
<1>1. TypeOK /\ ReleaseInv /\ [Next]_vars => ReleaseInv'
  BY ReleaseNext
<1>2. Init => ReleaseInv
  BY OverlapInit DEF OverlapInv
<1> QED
  BY <1>1, <1>2, TypeCorrect, PTL DEF Spec

\* The application has an active release, or a request is between retiring one
\* and publishing the next, with any number of overlapping deployments, image
\* updates, redeployments and reverts.
THEOREM ReleaseAlwaysActive == KeepsReleases /\ Spec => []SomeReleaseIsActive
<1>1. ReleaseInv => SomeReleaseIsActive
  BY DEF ReleaseInv
<1> QED
  BY <1>1, ReleaseInvariant, PTL

\* Moreover every deployment with pods has a row or is on its way to its INSERT.
THEOREM OverlapInvariant == KeepsReleases /\ RecordsPods /\ Spec => []OverlapInv
<1> SUFFICES ASSUME KeepsReleases, RecordsPods PROVE Spec => []OverlapInv
  OBVIOUS
<1>1. TypeOK /\ OverlapInv /\ [Next]_vars => OverlapInv'
  BY ReleaseNext, PodsNext DEF OverlapInv
<1> QED
  BY <1>1, OverlapInit, TypeCorrect, PTL DEF Spec

\* No deployment runs unknown to app_deployments: its row is live, or the
\* request or goroutine that created it is about to insert it.
THEOREM PodsAlwaysTracked ==
    KeepsReleases /\ RecordsPods /\ "rolldelete" \notin Faults /\ Spec => []EveryPodIsTracked
<1>1. TypeOK /\ PodsKnown /\ DestroyedIsGone => EveryPodIsTracked
  <2>1. TypeOK => \A d \in DeploymentIds : row[d].status \in RowStatus
    BY DEF TypeOK, TablesTypeOK, DeploymentRow
  <2> QED
    BY <2>1 DEF PodsKnown, DestroyedIsGone, EveryPodIsTracked, Live, Rows, RowStatus
<1> QED
  BY <1>1, TypeCorrect, OverlapInvariant, DestroyedRowsAreGone, PTL DEF OverlapInv

-----------------------------------------------------------------------------
(***************************************************************************)
(* Who will insert a row                                                   *)
(***************************************************************************)
\* The labels at which InsertInv or NothingSuspended says something of a request.
Scales == {"scale.find", "scale.pods", "scale.mark"}
Tough == {"create"} \cup Unrecorded \cup Scales

\* The labels to return to outside of Deployment.
Outside == ReturnLabels \ Recorders

\* q may become n: a deployment in hand stays the same until its INSERT.
Leads(q, n) ==
    /\ Returns(n)
    /\ n.pc \in Unrecorded => q.pc \in Unrecorded /\ n.dep = q.dep
    /\ n.pc \notin Scales

\* A request may end,
LEMMA IdleLeads == ASSUME NEW q PROVE Leads(q, Idle)
<1>1. <<>> \in Seq(ReturnLabels \ Recorders)
  OBVIOUS
<1> QED
  BY <1>1 DEF Leads, Returns, Idle, Unrecorded, Scales

\* go on without a call,
LEMMA StayLeads ==
    ASSUME NEW q, Returns(q), q.pc \notin {"create", "service"},
           NEW n, n.ret = q.ret, n.pc \notin Tough
    PROVE  Leads(q, n)
  BY DEF Leads, Returns, Tough, Unrecorded

\* call a function,
LEMMA CallLeads ==
    ASSUME NEW q, Returns(q), q.pc \notin {"create", "service"},
           NEW back \in Seq(Outside), NEW n, n.ret = back \o q.ret, n.pc \notin Tough
    PROVE  Leads(q, n)
<1>1. q.ret \in Seq(Outside) /\ n.pc \notin {"create", "service"} \cup Unrecorded \cup Scales
  BY DEF Returns, Outside, Tough, Unrecorded
<1>2. n.ret \in Seq(Outside)
  BY <1>1
<1> QED
  BY <1>1, <1>2 DEF Leads, Returns, Outside

\* call Deployment,
LEMMA CallCreateLeads ==
    ASSUME NEW q, Returns(q), q.pc \notin {"create", "service"}, NEW label \in ReturnLabels,
           NEW n, n.ret = <<label>> \o q.ret, n.pc = "create"
    PROVE  Leads(q, n)
<1> DEFINE rest == q.ret
<1>1. rest \in Seq(Outside)
  BY DEF Returns, Outside
<1> HIDE DEF rest
<1>2. <<label>> \o rest # <<>> /\ Tail(<<label>> \o rest) = rest
  <2>1. <<label>> \in Seq(ReturnLabels) /\ rest \in Seq(ReturnLabels)
    BY <1>1 DEF Outside
  <2>2. Len(<<label>> \o rest) = 1 + Len(rest)
    BY <2>1
  <2>3. Tail(<<label>> \o rest) = rest
    BY <2>1
  <2> QED
    BY <2>1, <2>2, <2>3
<1>3. Returns(n)
  BY <1>1, <1>2 DEF Returns, Outside, rest
<1> QED
  BY <1>3 DEF Leads, Unrecorded, Scales

\* and return from any function but Deployment.
LEMMA ReturnLeads ==
    ASSUME NEW q \in Request, Returns(q), q.pc \notin {"create", "service"}
    PROVE  Leads(q, Return(q))
<1>1. CASE q.ret = <<>>
  BY <1>1, IdleLeads DEF Return
<1>2. CASE q.ret # <<>>
  <2> DEFINE n == Return(q)
  <2>1. q.ret \in Seq(Outside)
    BY DEF Returns, Outside
  <2>2. Head(q.ret) \in Outside /\ Tail(q.ret) \in Seq(Outside)
    BY <1>2, <2>1
  <2>3. n.pc = Head(q.ret) /\ n.ret = Tail(q.ret)
    BY <1>2 DEF Return, Request
  <2> HIDE DEF n
  <2>4. n.pc \notin Tough \cup {"service"}
    BY <2>2, <2>3 DEF Outside, ReturnLabels, Recorders, Tough, Unrecorded, Scales
  <2>5. Returns(n)
    BY <2>2, <2>3, <2>4 DEF Returns, Outside, Tough
  <2>6. Leads(q, n)
    BY <2>4, <2>5 DEF Leads, Tough
  <2> QED
    BY <2>6 DEF n
<1> QED
  BY <1>1, <1>2

\* Deployment returns with its deployment in hand.
LEMMA ReturnDeployed ==
    ASSUME NEW q \in Request, Returns(q), q.pc \in {"create", "service"},
           NEW dep \in DeploymentIds
    PROVE  LET n == Return([q EXCEPT !.dep = dep])
           IN  Returns(n) /\ n.dep = dep /\ n.pc \notin Scales
<1> DEFINE made == [q EXCEPT !.dep = dep]
           n == Return(made)
<1>1. made.ret = q.ret /\ made.dep = dep /\ made \in Request
  BY DEF Request
<1> HIDE DEF made
<1>2. q.ret # <<>> /\ q.ret \in Seq(ReturnLabels) /\ Tail(q.ret) \in Seq(Outside)
  BY DEF Returns, Request, Outside
<1>3. Head(q.ret) \in ReturnLabels
  BY <1>2
<1>4. n.pc = Head(q.ret) /\ n.ret = Tail(q.ret) /\ n.dep = dep
  BY <1>1, <1>2 DEF Return, Request
<1> HIDE DEF n
<1>5. n.pc \notin {"create", "service"} \cup Scales
  BY <1>3, <1>4 DEF ReturnLabels, Scales
<1>6. Returns(n)
  BY <1>2, <1>4, <1>5 DEF Returns, Outside
<1> QED
  BY <1>4, <1>5, <1>6 DEF n, made

\* The rows that are there stay as they are, are marked destroyed, or go.
RowsCalm ==
    \A d \in DeploymentIds :
        \/ row'[d].status = row[d].status
        \/ row'[d].status = "none"
        \/ d \in Rows /\ row'[d].status = "destroyed"

\* A step of r that hands out no deployment and inserts no row.
Calm(r) ==
    /\ \E n : Become(r, n) /\ Leads(req[r], n)
    /\ RowsCalm
    /\ UNCHANGED <<nextDeployment, worker>>

LEMMA SameCalm == UNCHANGED row => RowsCalm
  BY DEF RowsCalm

\* What the steps of a request become, label by label.
LEMMA EndCalm ==
    ASSUME NEW r \in Requests, End(r), RowsCalm, UNCHANGED <<nextDeployment, worker>>
    PROVE  Calm(r)
  BY IdleLeads DEF Calm, End

LEMMA StayCalm ==
    ASSUME NEW r \in Requests, Returns(req[r]), req[r].pc \notin {"create", "service"},
           NEW n, Become(r, n), n.ret = req[r].ret, n.pc \notin Tough,
           RowsCalm, UNCHANGED <<nextDeployment, worker>>
    PROVE  Calm(r)
  BY StayLeads DEF Calm

LEMMA GotoCalm ==
    ASSUME TypeOK, NEW r \in Requests, Returns(req[r]), req[r].pc \notin {"create", "service"},
           NEW label, label \notin Tough, Become(r, Goto(req[r], label)),
           RowsCalm, UNCHANGED <<nextDeployment, worker>>
    PROVE  Calm(r)
<1> DEFINE n == Goto(req[r], label)
<1>1. n.ret = req[r].ret /\ n.pc = label
  BY DEF TypeOK, Goto, Request
<1> HIDE DEF n
<1> QED
  BY <1>1, StayCalm DEF n

LEMMA ReturnCalm ==
    ASSUME TypeOK, NEW r \in Requests, Returns(req[r]), req[r].pc \notin {"create", "service"},
           Become(r, Return(req[r])), RowsCalm, UNCHANGED <<nextDeployment, worker>>
    PROVE  Calm(r)
  BY ReturnLeads DEF Calm, TypeOK

LEMMA CallCalm ==
    ASSUME NEW r \in Requests, Returns(req[r]), req[r].pc \notin {"create", "service"},
           NEW m, DOMAIN m = DOMAIN Idle, m.ret = req[r].ret, NEW label, label \notin Tough,
           NEW back \in Seq(Outside), Become(r, Call(m, label, back)),
           RowsCalm, UNCHANGED <<nextDeployment, worker>>
    PROVE  Calm(r)
<1> DEFINE n == Call(m, label, back)
<1>1. n.ret = back \o req[r].ret /\ n.pc = label
  BY DEF Call, Idle
<1> HIDE DEF n
<1> QED
  BY <1>1, CallLeads DEF Calm, n

LEMMA CallCreateCalm ==
    ASSUME NEW r \in Requests, Returns(req[r]), req[r].pc \notin {"create", "service"},
           NEW m, DOMAIN m = DOMAIN Idle, m.ret = req[r].ret, NEW label \in ReturnLabels,
           Become(r, Call(m, "create", <<label>>)),
           RowsCalm, UNCHANGED <<nextDeployment, worker>>
    PROVE  Calm(r)
<1> DEFINE n == Call(m, "create", <<label>>)
<1>1. n.ret = <<label>> \o req[r].ret /\ n.pc = "create"
  BY DEF Call, Idle
<1> HIDE DEF n
<1> QED
  BY <1>1, CallCreateLeads DEF Calm, n

\* No mutation marks, attaches or drops a row in a way RowsCalm forbids.
LEMMA DestroyCalm ==
    ASSUME NEW id, row' = UpdateDeploymentsRecord("destroyed", id) PROVE RowsCalm
  BY DEF RowsCalm, UpdateDeploymentsRecord

LEMMA AttachCalm ==
    ASSUME TypeOK, NEW d, NEW x, row' = UpdateDeploymentsReleaseId(d, x) PROVE RowsCalm
<1>1. \A e \in DeploymentIds : row'[e].status = row[e].status
  BY DEF UpdateDeploymentsReleaseId, TypeOK, TablesTypeOK, DeploymentRow
<1> QED
  BY <1>1 DEF RowsCalm

LEMMA DropCalm ==
    ASSUME row' = [d \in DeploymentIds |-> [row[d] EXCEPT !.status = "none"]], TypeOK
    PROVE  RowsCalm
  BY DEF RowsCalm, TypeOK, TablesTypeOK, DeploymentRow

\* Deploy,
LEMMA DeployFindCalm ==
    ASSUME TypeOK, NEW r \in Requests, Returns(req[r]), DeployFind(r) PROVE Calm(r)
<1>1. req[r] \in Request /\ req[r].pc \notin {"create", "service"}
  BY DEF TypeOK, DeployFind, At
<1>2. RowsCalm /\ UNCHANGED <<nextDeployment, worker>>
  BY SameCalm DEF DeployFind, Reads
<1>3. PICK d \in GetDeploymentsRecordSingle(Primary, "running") :
        Become(r, IF d = NoDeployment
                  THEN Call([req[r] EXCEPT !.region = Primary], "create", <<"first.release">>)
                  ELSE [req[r] EXCEPT !.pc = "roll.current", !.rel = row[d].release])
  BY DEF DeployFind
<1>4. CASE d = NoDeployment
  <2> DEFINE here == [req[r] EXCEPT !.region = Primary]
  <2>1. DOMAIN here = DOMAIN Idle /\ here.ret = req[r].ret
    BY <1>1 DEF Request, Idle
  <2>2. Become(r, Call(here, "create", <<"first.release">>))
    BY <1>3, <1>4
  <2>3. "first.release" \in ReturnLabels
    BY DEF ReturnLabels
  <2> HIDE DEF here
  <2> QED
    BY <1>1, <1>2, <2>1, <2>2, <2>3, CallCreateCalm
<1>5. CASE d # NoDeployment
  <2> DEFINE next == [req[r] EXCEPT !.pc = "roll.current", !.rel = row[d].release]
  <2>1. next.ret = req[r].ret /\ next.pc = "roll.current" /\ Become(r, next)
    BY <1>1, <1>3, <1>5 DEF Request
  <2>2. "roll.current" \notin Tough
    BY DEF Tough, Unrecorded, Scales
  <2> HIDE DEF next
  <2> QED
    BY <1>1, <1>2, <2>1, <2>2, StayCalm
<1> QED
  BY <1>4, <1>5

LEMMA DeployCalm ==
    ASSUME TypeOK, NEW r \in Requests, Returns(req[r]),
           req[r].pc \in Unrecorded => req[r].dep # NoDeployment,
           CreateService(r) \/ FirstRelease(r) \/ FirstRoute(r)
    PROVE  Calm(r)
<1> DEFINE q == req[r]
<1>1. q \in Request /\ RowsCalm /\ UNCHANGED <<nextDeployment, worker>>
  BY SameCalm DEF TypeOK, CreateService, FirstRelease, FirstRoute, OnlyCluster, OnlyApp, Same
<1>2. CASE CreateService(r)
  <2>1. q.pc = "service" /\ (End(r) \/ Become(r, Return(q)))
    BY <1>2 DEF CreateService, At
  <2>2. q.dep \in DeploymentIds
    BY <1>1, <2>1 DEF Request, Unrecorded
  <2>3. [q EXCEPT !.dep = q.dep] = q
    BY <1>1 DEF Request
  <2>4. Returns(Return(q)) /\ Return(q).dep = q.dep /\ Return(q).pc \notin Scales
    BY <1>1, <2>1, <2>2, <2>3, ReturnDeployed
  <2>5. Leads(q, Return(q))
    BY <2>1, <2>4 DEF Leads, Unrecorded
  <2> QED
    BY <1>1, <2>1, <2>5, EndCalm DEF Calm
<1>3. CASE FirstRelease(r)
  <2> DEFINE next == [q EXCEPT !.pc = "first.record", !.rel = nextRelease]
  <2>1. /\ q.pc = "first.release" /\ (End(r) \/ Become(r, next))
        /\ next.ret = q.ret /\ next.pc = "first.record" /\ next.dep = q.dep
    BY <1>1, <1>3 DEF FirstRelease, At, Request
  <2> HIDE DEF next
  <2>2. Leads(q, next)
    BY <2>1 DEF Leads, Returns, Unrecorded, Scales
  <2> QED
    BY <1>1, <2>1, <2>2, EndCalm DEF Calm
<1>4. CASE FirstRoute(r)
  <2> DEFINE next == [q EXCEPT !.pc = "regions.read", !.toDeploy = TRUE,
                               !.adds = Defaults \ {Primary}]
  <2>1. /\ q.pc = "first.route" /\ (End(r) \/ Become(r, next))
        /\ next.ret = q.ret /\ next.pc = "regions.read"
    BY <1>1, <1>4 DEF FirstRoute, At, Request
  <2>2. "regions.read" \notin Tough
    BY DEF Tough, Unrecorded, Scales
  <2> HIDE DEF next
  <2> QED
    BY <1>1, <2>1, <2>2, EndCalm, StayCalm
<1> QED
  BY <1>2, <1>3, <1>4

\* a new release,
LEMMA RollCalm ==
    ASSUME TypeOK, NEW r \in Requests, Returns(req[r]), CreateNewAppRelease(r), ~RollRows(r)
    PROVE  Calm(r)
<1> DEFINE q == req[r]
<1>1. q \in Request /\ RowsCalm /\ UNCHANGED <<nextDeployment, worker>>
  BY SameCalm DEF TypeOK, CreateNewAppRelease, RollCurrent, RollApp, RollWait, RollRetire,
     RollPublish, RollVersion, Reads, OnlyRelease, OnlyApp, Same
<1>2. q.pc \notin {"create", "service"}
  BY DEF CreateNewAppRelease, RollCurrent, RollApp, RollWait, RollRetire, RollPublish,
     RollVersion, At
<1>3. {"roll.app", "roll.rows", "roll.retire", "roll.publish", "roll.version"} \cap Tough = {}
  BY DEF Tough, Unrecorded, Scales
<1>4. CASE RollCurrent(r)
  <2>1. PICK x : Become(r, [q EXCEPT !.pc = "roll.app", !.version = VersionOf(x)])
    BY <1>4 DEF RollCurrent
  <2> DEFINE next == [q EXCEPT !.pc = "roll.app", !.version = VersionOf(x)]
  <2>2. next.ret = q.ret /\ next.pc = "roll.app" /\ Become(r, next)
    BY <1>1, <2>1 DEF Request
  <2> HIDE DEF next
  <2> QED
    BY <1>1, <1>2, <1>3, <2>2, StayCalm
<1>5. CASE RollApp(r)
  <2> DEFINE next == [q EXCEPT !.pc = "roll.rows",
                               !.seen = IF app.exists THEN app.status ELSE Gone]
  <2>1. next.ret = q.ret /\ next.pc = "roll.rows" /\ Become(r, next)
    BY <1>1, <1>5 DEF RollApp, Request
  <2> HIDE DEF next
  <2> QED
    BY <1>1, <1>2, <1>3, <2>1, StayCalm
<1>6. CASE RollWait(r) \/ RollRetire(r) \/ RollPublish(r)
  BY <1>1, <1>2, <1>3, <1>6, GotoCalm DEF RollWait, RollRetire, RollPublish
<1>7. CASE RollVersion(r)
  BY <1>1, <1>7, EndCalm DEF RollVersion
<1> QED
  BY <1>4, <1>5, <1>6, <1>7 DEF CreateNewAppRelease

\* AddOrRemoveRegions,
LEMMA RegionsAddCalm ==
    ASSUME TypeOK, NEW r \in Requests, Returns(req[r]),
           RegionsRead(r) \/ RegionsAddOnly(r) \/ RegionsDeploy(r) \/ AddRelease(r)
    PROVE  Calm(r)
<1> DEFINE q == req[r]
<1>1. q \in Request /\ RowsCalm /\ UNCHANGED <<nextDeployment, worker>>
  BY SameCalm DEF TypeOK, RegionsRead, RegionsAddOnly, RegionsDeploy, AddRelease, Reads
<1>2. q.pc \notin {"create", "service"}
  BY DEF RegionsRead, RegionsAddOnly, RegionsDeploy, AddRelease, At
<1>3. "regions.add" \notin Tough
  BY DEF Tough, Unrecorded, Scales
<1>4. CASE RegionsRead(r)
  <2> DEFINE oneLeft == Cardinality(app.regions) = 1 /\ Cardinality(q.dels) = 1
             next == [q EXCEPT !.pc = "regions.add",
                               !.found = app.regions, !.regions = app.regions,
                               !.backups = app.backups,
                               !.adds = @ \ app.regions, !.backs = @ \ app.backups,
                               !.standby = IF oneLeft THEN app.backups ELSE {},
                               !.last = NoDeployment]
  <2>1. End(r) \/ Become(r, next)
    BY <1>4 DEF RegionsRead
  <2> HIDE DEF oneLeft
  <2>2. next.ret = q.ret /\ next.pc = "regions.add"
    BY <1>1 DEF Request
  <2> HIDE DEF next
  <2> QED
    BY <1>1, <1>2, <1>3, <2>1, <2>2, EndCalm, StayCalm
<1>5. CASE RegionsAddOnly(r)
  <2>1. PICK g : Become(r, [q EXCEPT !.adds = @ \ {g}, !.regions = @ \cup {g}])
    BY <1>5 DEF RegionsAddOnly
  <2> DEFINE next == [q EXCEPT !.adds = @ \ {g}, !.regions = @ \cup {g}]
  <2>2. next.ret = q.ret /\ next.pc = "regions.add" /\ Become(r, next)
    BY <1>1, <1>5, <2>1 DEF RegionsAddOnly, At, Request
  <2> HIDE DEF next
  <2> QED
    BY <1>1, <1>2, <1>3, <2>2, StayCalm
<1>6. CASE RegionsDeploy(r)
  <2>1. PICK g :
          \/ End(r)
          \/ Become(r, Call([q EXCEPT !.adds = @ \ {g}, !.regions = @ \cup {g}, !.region = g],
                            "create", <<"add.release">>))
    BY <1>6 DEF RegionsDeploy, End
  <2> DEFINE less == [q EXCEPT !.adds = @ \ {g}, !.regions = @ \cup {g}, !.region = g]
  <2>2. /\ less.ret = q.ret /\ DOMAIN less = DOMAIN Idle
        /\ End(r) \/ Become(r, Call(less, "create", <<"add.release">>))
    BY <1>1, <2>1 DEF Request, Idle
  <2>3. "add.release" \in ReturnLabels
    BY DEF ReturnLabels
  <2> HIDE DEF less
  <2> QED
    BY <1>1, <1>2, <2>2, <2>3, EndCalm, CallCreateCalm
<1>7. CASE AddRelease(r)
  <2>1. PICK x : Become(r, [q EXCEPT !.pc = "add.record", !.rel = x])
    BY <1>7 DEF AddRelease
  <2> DEFINE next == [q EXCEPT !.pc = "add.record", !.rel = x]
  <2>2. /\ q.pc = "add.release" /\ Become(r, next)
        /\ next.ret = q.ret /\ next.pc = "add.record" /\ next.dep = q.dep
    BY <1>1, <1>7, <2>1 DEF AddRelease, At, Request
  <2> HIDE DEF next
  <2>3. Leads(q, next)
    BY <2>2 DEF Leads, Returns, Unrecorded, Scales
  <2> QED
    BY <1>1, <2>2, <2>3 DEF Calm
<1> QED
  BY <1>4, <1>5, <1>6, <1>7

LEMMA RegionsCalm ==
    ASSUME TypeOK, NEW r \in Requests, Returns(req[r]), AddOrRemoveRegions(r), ~AddRecord(r)
    PROVE  Calm(r)
<1> DEFINE q == req[r]
<1>1. CASE RegionsRead(r) \/ RegionsAddOnly(r) \/ RegionsDeploy(r) \/ AddRelease(r)
  BY <1>1, RegionsAddCalm
<1>2. CASE \/ RegionsAdded(r) \/ AddRoute(r) \/ RegionsStandby(r) \/ StandbyDrop(r)
           \/ StandbyDone(r) \/ RegionsDelete(r) \/ RegionsDeleted(r) \/ RegionsBackup(r)
           \/ RegionsWrite(r)
  <2>1. q \in Request /\ RowsCalm /\ UNCHANGED <<nextDeployment, worker>>
    BY <1>2, SameCalm DEF TypeOK, RegionsAdded, AddRoute, RegionsStandby, StandbyDrop,
       StandbyDone, RegionsDelete, RegionsDeleted, RegionsBackup, RegionsWrite, Reads,
       OnlyApp, Same
  <2>2. q.pc \notin {"create", "service"}
    BY <1>2 DEF RegionsAdded, AddRoute, RegionsStandby, StandbyDrop, StandbyDone,
       RegionsDelete, RegionsDeleted, RegionsBackup, RegionsWrite, At
  <2>3. {"regions.add", "regions.standby", "standby.drop", "regions.del", "regions.backup",
         "status.release", "undeploy.find"} \cap Tough = {}
    BY DEF Tough, Unrecorded, Scales
  <2>4. /\ <<"standby.drop">> \in Seq(Outside) /\ <<"regions.del">> \in Seq(Outside)
        /\ "regions.backup" \in ReturnLabels
    BY DEF Outside, ReturnLabels, Recorders
  <2>5. CASE RegionsAdded(r) \/ AddRoute(r) \/ StandbyDone(r) \/ RegionsDeleted(r)
             \/ RegionsWrite(r)
    BY <2>1, <2>2, <2>3, <2>5, EndCalm, GotoCalm
    DEF RegionsAdded, AddRoute, StandbyDone, RegionsDeleted, RegionsWrite
  <2>6. CASE RegionsStandby(r)
    <3>1. PICK b :
            \/ Become(r, Call([q EXCEPT !.standby = @ \ {b}, !.region = b],
                              "undeploy.find", <<"standby.drop">>))
            \/ Become(r, Goto([q EXCEPT !.standby = @ \ {b}, !.region = b], "standby.drop"))
      BY <2>6 DEF RegionsStandby
    <3> DEFINE less == [q EXCEPT !.standby = @ \ {b}, !.region = b]
               next == Goto(less, "standby.drop")
    <3>2. less.ret = q.ret /\ DOMAIN less = DOMAIN Idle
      BY <2>1 DEF Request, Idle
    <3>3. next.ret = q.ret /\ next.pc = "standby.drop"
      BY <2>1 DEF Request, Goto
    <3>4. Become(r, Call(less, "undeploy.find", <<"standby.drop">>)) \/ Become(r, next)
      BY <3>1
    <3> HIDE DEF less, next
    <3> QED
      BY <2>1, <2>2, <2>3, <2>4, <3>2, <3>3, <3>4, CallCalm, StayCalm
  <2>7. CASE StandbyDrop(r)
    <3>1. PICK bs : End(r) \/ Become(r, [q EXCEPT !.pc = "regions.standby", !.backups = bs])
      BY <2>7 DEF StandbyDrop, End
    <3> DEFINE next == [q EXCEPT !.pc = "regions.standby", !.backups = bs]
    <3>2. next.ret = q.ret /\ next.pc = "regions.standby" /\ (End(r) \/ Become(r, next))
      BY <2>1, <3>1 DEF Request
    <3> HIDE DEF next
    <3> QED
      BY <2>1, <2>2, <2>3, <3>2, EndCalm, StayCalm
  <2>8. CASE RegionsDelete(r)
    <3>1. PICK g :
            \/ Become(r, Call([q EXCEPT !.regions = @ \ {g}, !.region = g],
                              "undeploy.find", <<"regions.del">>))
            \/ Become(r, [q EXCEPT !.regions = @ \ {g}, !.region = g])
      BY <2>8 DEF RegionsDelete
    <3> DEFINE less == [q EXCEPT !.regions = @ \ {g}, !.region = g]
    <3>2. less.ret = q.ret /\ less.pc = "regions.del" /\ DOMAIN less = DOMAIN Idle
      BY <2>1, <2>8 DEF RegionsDelete, At, Request, Idle
    <3>3. Become(r, Call(less, "undeploy.find", <<"regions.del">>)) \/ Become(r, less)
      BY <3>1
    <3> HIDE DEF less
    <3> QED
      BY <2>1, <2>2, <2>3, <2>4, <3>2, <3>3, CallCalm, StayCalm
  <2>9. CASE RegionsBackup(r)
    <3> DEFINE here(b) == [q EXCEPT !.backs = @ \ {b}, !.backups = @ \cup {b}, !.region = b]
    <3>1. PICK b :
            \/ End(r)
            \/ Become(r, here(b))
            \/ Become(r, Call(here(b), "create", <<"regions.backup">>))
      BY <2>9 DEF RegionsBackup
    <3> DEFINE less == here(b)
    <3>2. less.ret = q.ret /\ less.pc = "regions.backup" /\ DOMAIN less = DOMAIN Idle
      BY <2>1, <2>9 DEF RegionsBackup, At, Request, Idle
    <3>3. \/ End(r)
          \/ Become(r, less)
          \/ Become(r, Call(less, "create", <<"regions.backup">>))
      BY <3>1
    <3> HIDE DEF less, here
    <3> QED
      BY <2>1, <2>2, <2>3, <2>4, <3>2, <3>3, EndCalm, StayCalm, CallCreateCalm
  <2> QED
    BY <1>2, <2>5, <2>6, <2>7, <2>8, <2>9
<1> QED
  BY <1>1, <1>2 DEF AddOrRemoveRegions

\* UpdateAppStatus and UnDeploy,
LEMMA ServiceCalm ==
    ASSUME TypeOK, NEW r \in Requests, Returns(req[r]), UpdateAppStatus(r) \/ UnDeploy(r)
    PROVE  Calm(r)
<1> DEFINE q == req[r]
<1>1. q \in Request
  BY DEF TypeOK
<1>2. q.pc \notin {"create", "service"}
  BY DEF UpdateAppStatus, StatusRelease, StatusRows, StatusWrite, UnDeploy, UndeployFind,
     UndeployRoute, UndeployPods, UndeployService, UndeployMark, At
<1>3. {"status.rows", "status.write", "undeploy.route", "undeploy.pods", "undeploy.service",
       "undeploy.mark"} \cap Tough = {}
  BY DEF Tough, Unrecorded, Scales
<1>4. UNCHANGED <<nextDeployment, worker>>
  BY DEF UpdateAppStatus, StatusRelease, StatusRows, StatusWrite, UnDeploy, UndeployFind,
     UndeployRoute, UndeployPods, UndeployService, UndeployMark, UndeployFails, Reads,
     OnlyApp, OnlyRow, OnlyCluster, Same
<1>5. CASE StatusRelease(r)
  <2>1. PICK x : Become(r, [q EXCEPT !.pc = "status.rows", !.rel = x])
    BY <1>5 DEF StatusRelease
  <2> DEFINE next == [q EXCEPT !.pc = "status.rows", !.rel = x]
  <2>2. next.ret = q.ret /\ next.pc = "status.rows" /\ Become(r, next) /\ RowsCalm
    BY <1>1, <1>5, <2>1, SameCalm DEF StatusRelease, Reads, Request
  <2> HIDE DEF next
  <2> QED
    BY <1>2, <1>3, <1>4, <2>2, StayCalm
<1>6. CASE StatusRows(r)
  <2> DEFINE next == [q EXCEPT !.pc = "status.write",
                               !.seen = StatusFrom(GetDeploymentsByReleaseId(q.rel))]
  <2>1. next.ret = q.ret /\ next.pc = "status.write" /\ Become(r, next) /\ RowsCalm
    BY <1>1, <1>6, SameCalm DEF StatusRows, Reads, Request
  <2> HIDE DEF next
  <2> QED
    BY <1>2, <1>3, <1>4, <2>1, StayCalm
<1>7. CASE StatusWrite(r)
  BY <1>2, <1>4, <1>7, SameCalm, ReturnCalm DEF StatusWrite, OnlyApp
<1>8. CASE UndeployFind(r)
  <2>1. PICK d : Become(r, [q EXCEPT !.pc = "undeploy.route", !.dep = d])
    BY <1>8 DEF UndeployFind
  <2> DEFINE next == [q EXCEPT !.pc = "undeploy.route", !.dep = d]
  <2>2. next.ret = q.ret /\ next.pc = "undeploy.route" /\ Become(r, next) /\ RowsCalm
    BY <1>1, <1>8, <2>1, SameCalm DEF UndeployFind, Reads, Request
  <2> HIDE DEF next
  <2> QED
    BY <1>2, <1>3, <1>4, <2>2, StayCalm
<1>9. CASE UndeployRoute(r) \/ UndeployPods(r) \/ UndeployService(r)
  <2>1. RowsCalm
    BY <1>9, SameCalm DEF UndeployRoute, UndeployPods, UndeployService, UndeployFails,
       OnlyApp, OnlyCluster, Reads
  <2>2. \/ End(r)
        \/ Become(r, Return(q))
        \/ \E label \in {"undeploy.pods", "undeploy.service", "undeploy.mark"} :
              Become(r, Goto(q, label))
    BY <1>9 DEF UndeployRoute, UndeployPods, UndeployService, UndeployFails, End
  <2> QED
    BY <1>2, <1>3, <1>4, <2>1, <2>2, EndCalm, ReturnCalm, GotoCalm
<1>10. CASE UndeployMark(r)
  BY <1>2, <1>4, <1>10, DestroyCalm, ReturnCalm DEF UndeployMark
<1> QED
  BY <1>5, <1>6, <1>7, <1>8, <1>9, <1>10 DEF UpdateAppStatus, UnDeploy

\* DeleteApp,
LEMMA DeleteCalm ==
    ASSUME TypeOK, NEW r \in Requests, Returns(req[r]), Delete(r) PROVE Calm(r)
<1> DEFINE q == req[r]
<1>1. q \in Request
  BY DEF TypeOK
<1>2. q.pc \notin {"create", "service"} /\ UNCHANGED <<nextDeployment, worker>>
  BY DEF Delete, DeleteRead, DeleteCheck, DeleteRecord, DeleteRows, DeleteReleases, At,
     Reads, OnlyApp, OnlyRow, OnlyRelease, Same
<1>3. {"status.release", "undeploy.find", "delete.app", "delete.rows", "delete.releases"}
        \cap Tough = {}
  BY DEF Tough, Unrecorded, Scales
<1>4. /\ <<>> \in Seq(Outside) /\ <<"delete.bare">> \in Seq(Outside)
      /\ <<"regions.read", "delete.check">> \in Seq(Outside)
  BY DEF Outside, ReturnLabels, Recorders
<1>5. DOMAIN q = DOMAIN Idle
  BY <1>1 DEF Request, Idle
<1>6. CASE DeleteRead(r)
  <2>1. \/ End(r)
        \/ Become(r, Call(q, "status.release", <<>>))
        \/ Become(r, Call(q, "status.release", <<"delete.bare">>))
        \/ Become(r, Call(q, "undeploy.find", <<"regions.read", "delete.check">>))
    BY <1>6 DEF DeleteRead
  <2>2. RowsCalm
    BY <1>6, SameCalm DEF DeleteRead, Reads
  <2> QED
    BY <1>2, <1>3, <1>4, <1>5, <2>1, <2>2, EndCalm, CallCalm
<1>7. CASE DeleteCheck(r) \/ DeleteRecord(r) \/ DeleteReleases(r)
  <2>1. RowsCalm
    BY <1>7, SameCalm DEF DeleteCheck, DeleteRecord, DeleteReleases, Reads, OnlyApp, OnlyRelease
  <2> QED
    BY <1>2, <1>3, <1>7, <2>1, EndCalm, GotoCalm
    DEF DeleteCheck, DeleteRecord, DeleteReleases, End
<1>8. CASE DeleteRows(r)
  BY <1>2, <1>3, <1>8, DropCalm, GotoCalm DEF DeleteRows
<1> QED
  BY <1>6, <1>7, <1>8 DEF Delete

\* UpdateConfigApps and UpdateImage.
LEMMA ConfigCalm ==
    ASSUME TypeOK, NEW r \in Requests, Returns(req[r]), Config(r) \/ Image(r) PROVE Calm(r)
<1> DEFINE q == req[r]
<1>1. q \in Request
  BY DEF TypeOK
<1>2. q.pc \notin {"create", "service"} /\ UNCHANGED <<nextDeployment, worker>>
  BY DEF Config, ConfigAgain, ConfigRelease, ConfigRetire, ConfigLatest, ConfigPublish,
     ConfigAttach, ConfigActivate, ConfigVersion, Image, ImageRelease, ImageRetire,
     ImagePublish, ReleaseRead, ReleaseRetire, ReleasePublish, At, Reads, OnlyApp, OnlyRow,
     OnlyRelease, Same
<1>3. ~ConfigAttach(r) => RowsCalm
  BY SameCalm DEF Config, ConfigAgain, ConfigRelease, ConfigRetire, ConfigLatest,
     ConfigPublish, ConfigActivate, ConfigVersion, Image, ImageRelease, ImageRetire,
     ImagePublish, ReleaseRead, ReleaseRetire, ReleasePublish, Reads, OnlyApp, OnlyRelease
<1>4. ConfigAttach(r) => RowsCalm
  BY AttachCalm DEF ConfigAttach
<1>5. {"regions.read", "config.retire", "config.activate", "config.latest", "config.publish",
       "config.attach", "config.version", "image.retire", "image.publish"} \cap Tough = {}
  BY DEF Tough, Unrecorded, Scales
<1>6. ASSUME NEW n, Become(r, n), n.ret = q.ret, n.pc \notin Tough PROVE Calm(r)
  BY <1>2, <1>3, <1>4, <1>6, StayCalm
<1>7. CASE ConfigAgain(r)
  <2> DEFINE here == [q EXCEPT !.adds = q.items, !.dels = {}]
  <2>1. /\ here.ret = q.ret /\ DOMAIN here = DOMAIN Idle
        /\ Become(r, Call(here, "regions.read", <<"config.release">>))
    BY <1>1, <1>7 DEF ConfigAgain, Request, Idle
  <2>2. <<"config.release">> \in Seq(Outside)
    BY DEF Outside, ReturnLabels, Recorders
  <2> HIDE DEF here
  <2> QED
    BY <1>2, <1>3, <1>4, <1>5, <2>1, <2>2, CallCalm
<1>8. CASE ConfigRelease(r) \/ ImageRelease(r)
  <2>1. \/ \E x : Become(r, [q EXCEPT !.pc = "config.retire", !.rel = x])
        \/ \E x, v : Become(r, [q EXCEPT !.pc = "image.retire", !.rel = x, !.version = v])
    BY <1>8 DEF ConfigRelease, ReleaseRead, ImageRelease
  <2>2. ASSUME NEW x, Become(r, [q EXCEPT !.pc = "config.retire", !.rel = x]) PROVE Calm(r)
    <3> DEFINE next == [q EXCEPT !.pc = "config.retire", !.rel = x]
    <3>1. next.ret = q.ret /\ next.pc = "config.retire" /\ Become(r, next)
      BY <1>1, <2>2 DEF Request
    <3> HIDE DEF next
    <3> QED
      BY <1>5, <1>6, <3>1
  <2>3. ASSUME NEW x, NEW v,
               Become(r, [q EXCEPT !.pc = "image.retire", !.rel = x, !.version = v])
        PROVE  Calm(r)
    <3> DEFINE next == [q EXCEPT !.pc = "image.retire", !.rel = x, !.version = v]
    <3>1. next.ret = q.ret /\ next.pc = "image.retire" /\ Become(r, next)
      BY <1>1, <2>3 DEF Request
    <3> HIDE DEF next
    <3> QED
      BY <1>5, <1>6, <3>1
  <2> QED
    BY <2>1, <2>2, <2>3
<1>9. CASE \/ ConfigRetire(r) \/ ConfigAttach(r) \/ ConfigActivate(r) \/ ConfigVersion(r)
           \/ ImageRetire(r)
  <2>1. \/ End(r)
        \/ \E label \in {"config.activate", "config.latest", "config.version",
                         "image.publish"} : Become(r, Goto(q, label))
    BY <1>9 DEF ConfigRetire, ConfigAttach, ConfigActivate, ConfigVersion, ImageRetire,
       ReleaseRetire
  <2> QED
    BY <1>2, <1>3, <1>4, <1>5, <2>1, EndCalm, GotoCalm
<1>10. CASE ConfigLatest(r)
  <2>1. PICK v : Become(r, [q EXCEPT !.pc = "config.publish", !.version = v + 1])
    BY <1>10 DEF ConfigLatest
  <2> DEFINE next == [q EXCEPT !.pc = "config.publish", !.version = v + 1]
  <2>2. next.ret = q.ret /\ next.pc = "config.publish" /\ Become(r, next)
    BY <1>1, <2>1 DEF Request
  <2> HIDE DEF next
  <2> QED
    BY <1>5, <1>6, <2>2
<1>11. CASE ConfigPublish(r)
  <2> DEFINE next == [q EXCEPT !.pc = "config.attach", !.fresh = nextRelease]
  <2>1. next.ret = q.ret /\ next.pc = "config.attach" /\ (End(r) \/ Become(r, next))
    BY <1>1, <1>11 DEF ConfigPublish, ReleasePublish, Request
  <2> HIDE DEF next
  <2> QED
    BY <1>2, <1>3, <1>4, <1>5, <1>6, <2>1, EndCalm
<1>12. CASE ImagePublish(r)
  BY <1>2, <1>3, <1>4, <1>12, EndCalm DEF ImagePublish, ReleasePublish, End
<1> QED
  BY <1>7, <1>8, <1>9, <1>10, <1>11, <1>12 DEF Config, Image

-----------------------------------------------------------------------------
(***************************************************************************)
(* The deployments in hand                                                 *)
(***************************************************************************)
HandIds == DeploymentIds \cup {NoDeployment}

\* A request holds a deployment, or none.
LEMMA HandTyped ==
    ASSUME TypeOK, NEW r \in Requests, NEW d \in HandIds PROVE InHand(r, d) \in HandIds
  BY DEF HandIds, InHand, TypeOK, Request, Worker

\* A request has its way back, and a deployment where it is to insert a row.
Ready(q) == Returns(q) /\ (q.pc \in Unrecorded => q.dep # NoDeployment)

\* The invariant is kept by a step that puts deployments out of hand, and writes
\* no row of those that stay,
LEMMA HandsKept ==
    ASSUME TypeOK, InsertInv,
           \A r \in Requests : Ready(req'[r]),
           nextDeployment' \in Nat, nextDeployment <= nextDeployment',
           \A d \in DeploymentIds : d >= nextDeployment' => row'[d].status = "none",
           \A r \in Requests, d \in HandIds :
                \/ InHand(r, d)' = NoDeployment
                \/ /\ InHand(r, d)' = InHand(r, d)
                   /\ row[InHand(r, d)].status = "none" => row'[InHand(r, d)].status = "none"
    PROVE  InsertInv'
<1>1. \A r \in Requests, d \in HandIds :
        InHand(r, d) # NoDeployment =>
            /\ InHand(r, d) < nextDeployment
            /\ row[InHand(r, d)].status = "none"
            /\ \A s \in Requests, e \in HandIds :
                InHand(s, e) = InHand(r, d) => s = r /\ e = d
  BY DEF InsertInv, HandIds
<1>2. \A r \in Requests, d \in HandIds : InHand(r, d) \in Nat
  BY HandTyped DEF HandIds, DeploymentIds, NoDeployment
<1>3. nextDeployment \in Nat
  BY DEF TypeOK, TablesTypeOK
<1>4. ASSUME NEW r \in Requests, NEW d \in HandIds, InHand(r, d)' # NoDeployment
      PROVE  /\ InHand(r, d)' < nextDeployment'
             /\ row'[InHand(r, d)'].status = "none"
             /\ \A s \in Requests, e \in HandIds :
                    InHand(s, e)' = InHand(r, d)' => s = r /\ e = d
  <2>1. InHand(r, d)' = InHand(r, d) /\ InHand(r, d) # NoDeployment
    BY <1>4
  <2>2. \A s \in Requests, e \in HandIds :
            InHand(s, e)' = InHand(r, d)' => InHand(s, e) = InHand(r, d)
    BY <1>4, <2>1
  <2>3. InHand(r, d) < nextDeployment'
    BY <1>1, <1>2, <1>3, <2>1
  <2>4. row'[InHand(r, d)].status = "none"
    BY <1>1, <1>4, <2>1
  <2> QED
    BY <1>1, <2>1, <2>2, <2>3, <2>4
<1> QED
  BY <1>4 DEF InsertInv, HandIds, Ready

\* and by a step that hands out a deployment.
LEMMA HandsOut ==
    ASSUME TypeOK, InsertInv, nextDeployment \in DeploymentIds,
           \A r \in Requests : Ready(req'[r]),
           nextDeployment' = nextDeployment + 1, UNCHANGED row,
           NEW s \in Requests, NEW e \in HandIds,
           InHand(s, e)' \in {nextDeployment, NoDeployment},
           \A r \in Requests, d \in HandIds :
                r # s \/ d # e => InHand(r, d)' \in {InHand(r, d), NoDeployment}
    PROVE  InsertInv'
<1>1. \A r \in Requests, d \in HandIds :
        InHand(r, d) # NoDeployment =>
            /\ InHand(r, d) < nextDeployment
            /\ row[InHand(r, d)].status = "none"
            /\ \A t \in Requests, f \in HandIds :
                InHand(t, f) = InHand(r, d) => t = r /\ f = d
  BY DEF InsertInv, HandIds
<1>2. \A r \in Requests, d \in HandIds : InHand(r, d) \in Nat
  BY HandTyped DEF HandIds, DeploymentIds, NoDeployment
<1>3. nextDeployment \in Nat
  BY DEF DeploymentIds
<1>4. row[nextDeployment].status = "none"
  BY <1>3 DEF InsertInv
<1>5. \A d \in DeploymentIds : d >= nextDeployment' => row'[d].status = "none"
  BY <1>3 DEF InsertInv, DeploymentIds
<1>6. ASSUME NEW r \in Requests, NEW d \in HandIds, InHand(r, d)' # NoDeployment
      PROVE  /\ InHand(r, d)' < nextDeployment'
             /\ row'[InHand(r, d)'].status = "none"
             /\ \A t \in Requests, f \in HandIds :
                    InHand(t, f)' = InHand(r, d)' => t = r /\ f = d
  <2>1. CASE r = s /\ d = e
    <3>1. InHand(r, d)' = nextDeployment
      BY <1>6, <2>1
    <3>2. \A t \in Requests, f \in HandIds :
            t # s \/ f # e => InHand(t, f)' # nextDeployment
      BY <1>1, <1>2, <1>3 DEF DeploymentIds, NoDeployment
    <3> QED
      BY <1>3, <1>4, <2>1, <3>1, <3>2
  <2>2. CASE ~(r = s /\ d = e)
    <3>1. InHand(r, d)' = InHand(r, d) /\ InHand(r, d) # NoDeployment
      BY <1>6, <2>2
    <3>2. InHand(r, d) < nextDeployment /\ row[InHand(r, d)].status = "none"
      BY <1>1, <3>1
    <3>3. InHand(r, d) # nextDeployment /\ InHand(r, d) < nextDeployment'
      BY <1>2, <1>3, <3>2
    <3>4. \A t \in Requests, f \in HandIds : InHand(t, f)' = InHand(r, d)' =>
            InHand(t, f) = InHand(r, d)
      BY <1>6, <3>1, <3>3
    <3> QED
      BY <1>1, <3>1, <3>2, <3>3, <3>4
  <2> QED
    BY <2>1, <2>2
<1> QED
  BY <1>5, <1>6 DEF InsertInv, HandIds, Ready

LEMMA InsertReady == InsertInv => \A r \in Requests : Ready(req[r])
  BY DEF InsertInv, Ready

\* What the other requests do when r becomes n.
LEMMA BecomeReady ==
    ASSUME TypeOK, InsertInv, NEW r \in Requests, NEW n, Become(r, n), Ready(n)
    PROVE  \A s \in Requests : Ready(req'[s])
<1>1. \A s \in Requests : req'[s] = IF s = r THEN n ELSE req[s]
  BY DEF Become, TypeOK
<1> QED
  BY <1>1, InsertReady

LEMMA BecomeHands ==
    ASSUME TypeOK, NEW r \in Requests, NEW n, Become(r, n), UNCHANGED worker
    PROVE  /\ \A s \in Requests, d \in HandIds :
                s # r \/ d # NoDeployment => InHand(s, d)' = InHand(s, d)
           /\ InHand(r, NoDeployment)' =
                IF n.pc \in Unrecorded THEN n.dep ELSE NoDeployment
<1>1. \A s \in Requests : req'[s] = IF s = r THEN n ELSE req[s]
  BY DEF Become, TypeOK
<1> QED
  BY <1>1 DEF InHand

\* Calm steps keep the invariant; so do those that mark rows live again.
LEMMA CalmHands ==
    ASSUME TypeOK, InsertInv, NEW r \in Requests, NEW n, Become(r, n), Returns(n),
           n.pc \in Unrecorded => req[r].pc \in Unrecorded /\ n.dep = req[r].dep,
           UNCHANGED <<nextDeployment, worker>>,
           \A d \in DeploymentIds : row[d].status = "none" => row'[d].status = "none"
    PROVE  InsertInv'
<1>1. Ready(n)
  BY DEF InsertInv, Ready
<1>2. \A s \in Requests : Ready(req'[s])
  BY <1>1, BecomeReady
<1>3. nextDeployment' \in Nat /\ nextDeployment <= nextDeployment'
  BY DEF TypeOK, TablesTypeOK
<1>4. \A d \in DeploymentIds : d >= nextDeployment' => row'[d].status = "none"
  BY DEF InsertInv
<1>5. InHand(r, NoDeployment)' \in {InHand(r, NoDeployment), NoDeployment}
  BY BecomeHands DEF InHand
<1>6. ASSUME NEW s \in Requests, NEW d \in HandIds
      PROVE  \/ InHand(s, d)' = NoDeployment
             \/ /\ InHand(s, d)' = InHand(s, d)
                /\ row[InHand(s, d)].status = "none" => row'[InHand(s, d)].status = "none"
  <2>1. InHand(s, d)' \in {InHand(s, d), NoDeployment}
    BY <1>5, BecomeHands
  <2> QED
    BY <2>1, HandTyped DEF HandIds
<1> QED
  BY <1>2, <1>3, <1>4, <1>6, HandsKept

LEMMA CalmInserts ==
    ASSUME TypeOK, InsertInv, NEW r \in Requests, Calm(r) PROVE InsertInv'
<1>1. \A d \in DeploymentIds : row[d].status = "none" => row'[d].status = "none"
  BY DEF Calm, RowsCalm, Rows
<1> QED
  BY <1>1, CalmHands DEF Calm, Leads

\* Deployment hands out the deployment it returns with.
LEMMA CreateHands ==
    ASSUME TypeOK, InsertInv, NEW r \in Requests, Create(r) PROVE InsertInv'
<1> DEFINE q == req[r]
           made == [q EXCEPT !.dep = nextDeployment]
<1>1. q \in Request /\ q.pc = "create" /\ Returns(q) /\ nextDeployment \in DeploymentIds
  BY DEF TypeOK, Create, At, InsertInv
<1>2. UNCHANGED <<row, worker>>
  BY DEF Create, Same
<1>3. ASSUME NEW n, Become(r, n), Returns(n),
             n.pc \in Unrecorded => n.dep = nextDeployment,
             nextDeployment' = nextDeployment + 1
      PROVE  InsertInv'
  <2>1. Ready(n)
    BY <1>1, <1>3 DEF Ready, DeploymentIds, NoDeployment
  <2>2. \A s \in Requests : Ready(req'[s])
    BY <1>3, <2>1, BecomeReady
  <2>3. InHand(r, NoDeployment)' \in {nextDeployment, NoDeployment}
    BY <1>2, <1>3, BecomeHands
  <2>4. \A s \in Requests, d \in HandIds :
            s # r \/ d # NoDeployment => InHand(s, d)' \in {InHand(s, d), NoDeployment}
    BY <1>2, <1>3, BecomeHands
  <2>5. NoDeployment \in HandIds
    BY DEF HandIds
  <2> QED
    BY <1>1, <1>2, <1>3, <2>2, <2>3, <2>4, <2>5, HandsOut
<1>4. Returns(Idle) /\ Idle.pc \notin Unrecorded
  BY IdleLeads DEF Leads, Idle, Unrecorded
<1>5. \/ nextDeployment' = nextDeployment + 1 /\ Become(r, Return(made))
      \/ nextDeployment' = nextDeployment + 1 /\ Become(r, Goto(made, "service"))
      \/ nextDeployment' = nextDeployment + 1 /\ End(r)
      \/ UNCHANGED nextDeployment /\ End(r)
  BY DEF Create
<1>6. CASE nextDeployment' = nextDeployment + 1 /\ Become(r, Return(made))
  <2>1. Returns(Return(made)) /\ Return(made).dep = nextDeployment
    BY <1>1, ReturnDeployed
  <2> QED
    BY <1>3, <1>6, <2>1
<1>7. CASE nextDeployment' = nextDeployment + 1 /\ Become(r, Goto(made, "service"))
  <2> DEFINE n == Goto(made, "service")
  <2>1. n.pc = "service" /\ n.ret = q.ret /\ n.dep = nextDeployment
    BY <1>1 DEF Goto, Request
  <2> HIDE DEF n
  <2>2. Returns(n)
    BY <1>1, <2>1 DEF Returns
  <2> QED
    BY <1>3, <1>7, <2>1, <2>2 DEF n
<1>8. CASE nextDeployment' = nextDeployment + 1 /\ End(r)
  BY <1>3, <1>4, <1>8 DEF End
<1>9. CASE UNCHANGED nextDeployment /\ End(r)
  BY <1>2, <1>9, EndCalm, SameCalm, CalmInserts
<1> QED
  BY <1>5, <1>6, <1>7, <1>8, <1>9

\* An INSERT puts the deployment of its row out of hand.
LEMMA RecordHands ==
    ASSUME TypeOK, InsertInv, NEW r \in Requests, req[r].pc \in Unrecorded,
           NEW n, Become(r, n), Returns(n), n.pc \notin Unrecorded,
           NEW x, row' = CreateDeploymentsRecord(req[r].dep, x, TRUE),
           UNCHANGED <<nextDeployment, worker>>
    PROVE  InsertInv'
<1>1. \A s \in Requests : Ready(req'[s])
  BY BecomeReady DEF Ready
<1>2. InHand(r, NoDeployment) = req[r].dep /\ req[r].dep # NoDeployment
  BY DEF InHand, InsertInv
<1>3. /\ req[r].dep < nextDeployment
      /\ \A s \in Requests, e \in HandIds :
            InHand(s, e) = req[r].dep => s = r /\ e = NoDeployment
  BY <1>2 DEF InsertInv, HandIds
<1>4. \A d \in DeploymentIds : d # req[r].dep => row'[d] = row[d]
  BY DEF CreateDeploymentsRecord, TypeOK, TablesTypeOK
<1>5. nextDeployment' \in Nat /\ nextDeployment <= nextDeployment'
  BY DEF TypeOK, TablesTypeOK
<1>6. ASSUME NEW d \in DeploymentIds, d >= nextDeployment' PROVE row'[d].status = "none"
  <2>1. req[r].dep \in Nat /\ d \in Nat /\ d >= nextDeployment /\ nextDeployment \in Nat
    BY <1>5, <1>6 DEF TypeOK, TablesTypeOK, Request, DeploymentIds, NoDeployment
  <2>2. d # req[r].dep
    BY <1>3, <2>1
  <2> QED
    BY <1>4, <2>1, <2>2 DEF InsertInv
<1>7. ASSUME NEW s \in Requests, NEW e \in HandIds
      PROVE  \/ InHand(s, e)' = NoDeployment
             \/ /\ InHand(s, e)' = InHand(s, e)
                /\ row[InHand(s, e)].status = "none" => row'[InHand(s, e)].status = "none"
  <2>1. CASE s = r /\ e = NoDeployment
    BY <2>1, BecomeHands
  <2>2. CASE ~(s = r /\ e = NoDeployment)
    <3>1. InHand(s, e)' = InHand(s, e) /\ InHand(s, e) # req[r].dep
      BY <1>3, <2>2, BecomeHands
    <3> QED
      BY <1>4, <3>1, HandTyped DEF HandIds
  <2> QED
    BY <2>1, <2>2
<1> QED
  BY <1>1, <1>5, <1>6, <1>7, HandsKept

\* The requests insert such rows, after their first release or into a region.
LEMMA InsertHands ==
    ASSUME TypeOK, InsertInv, NEW r \in Requests, FirstRecord(r) \/ AddRecord(r)
    PROVE  InsertInv'
<1> DEFINE q == req[r]
<1>1. q \in Request /\ Returns(q) /\ q.pc \in {"first.record", "add.record"}
  BY DEF TypeOK, InsertInv, FirstRecord, AddRecord, At
<1>2. UNCHANGED <<nextDeployment, worker>>
  BY DEF FirstRecord, AddRecord, OnlyRow, Same
<1>3. CASE End(r) /\ UNCHANGED row
  BY <1>2, <1>3, EndCalm, SameCalm, CalmInserts
<1>4. CASE FirstRecord(r) /\ ~(End(r) /\ UNCHANGED row)
  <2> DEFINE here == [q EXCEPT !.adds = {Primary}]
             n == Call(here, "regions.read", <<"first.route">>)
  <2>1. row' = CreateDeploymentsRecord(q.dep, q.rel, TRUE) /\ Become(r, n)
    BY <1>4 DEF FirstRecord
  <2>2. n.ret = <<"first.route">> \o q.ret /\ n.pc = "regions.read"
    BY <1>1 DEF Call, Request
  <2>3. <<"first.route">> \in Seq(Outside)
    BY DEF Outside, ReturnLabels, Recorders
  <2> HIDE DEF n
  <2>4. Leads(q, n)
    BY <1>1, <2>2, <2>3, CallLeads DEF Tough, Unrecorded, Scales
  <2> QED
    BY <1>1, <1>2, <2>1, <2>2, <2>4, RecordHands DEF Leads, Unrecorded
<1>5. CASE AddRecord(r) /\ ~(End(r) /\ UNCHANGED row)
  <2> DEFINE n == [q EXCEPT !.pc = "add.route", !.last = q.dep]
  <2>1. row' = CreateDeploymentsRecord(q.dep, q.rel, TRUE) /\ Become(r, n)
    BY <1>5 DEF AddRecord
  <2>2. n.ret = q.ret /\ n.pc = "add.route"
    BY <1>1 DEF Request
  <2> HIDE DEF n
  <2>3. Returns(n) /\ n.pc \notin Unrecorded
    BY <1>1, <2>2 DEF Returns, Unrecorded
  <2> QED
    BY <1>1, <1>2, <2>1, <2>3, RecordHands DEF Unrecorded
<1> QED
  BY <1>3, <1>4, <1>5

\* A new release starts goroutines that hold nothing yet.
LEMMA RollRowsHands ==
    ASSUME TypeOK, InsertInv, NEW r \in Requests, RollRows(r) PROVE InsertInv'
<1> DEFINE q == req[r]
           n == [q EXCEPT !.pc = "roll.wait", !.fresh = nextRelease]
<1>1. Become(r, n) /\ n.pc = "roll.wait" /\ n.ret = q.ret /\ Returns(q) /\ q.pc = "roll.rows"
  BY DEF RollRows, At, TypeOK, Request, InsertInv
<1>2. worker' = [worker EXCEPT ![r] =
                    [d \in DeploymentIds |->
                        IF d \in GetDeploymentsByReleaseId(q.rel)
                        THEN [NoWorker EXCEPT !.stage = "delete"] ELSE NoWorker]]
  BY DEF RollRows
<1>3. UNCHANGED <<row, nextDeployment>>
  BY DEF RollRows
<1> HIDE DEF n
<1>4. Ready(n) /\ n.pc \notin Unrecorded
  BY <1>1 DEF Ready, Returns, Unrecorded
<1>5. \A s \in Requests : Ready(req'[s])
  BY <1>1, <1>4, BecomeReady
<1>6. \A s \in Requests : req'[s] = IF s = r THEN n ELSE req[s]
  BY <1>1 DEF Become, TypeOK
<1>7. \A s \in Requests : s # r => worker'[s] = worker[s]
  BY <1>2 DEF TypeOK
<1>8. \A d \in DeploymentIds : worker'[r][d].stage # "record"
  BY <1>2 DEF TypeOK, NoWorker
<1>9. nextDeployment' \in Nat /\ nextDeployment <= nextDeployment'
  BY <1>3 DEF TypeOK, TablesTypeOK
<1>10. \A d \in DeploymentIds : d >= nextDeployment' => row'[d].status = "none"
  BY <1>3 DEF InsertInv
<1>11. ASSUME NEW s \in Requests, NEW d \in HandIds
       PROVE  InHand(s, d)' \in {InHand(s, d), NoDeployment}
  <2>1. CASE s = r
    BY <1>4, <1>6, <1>8, <2>1 DEF InHand, HandIds
  <2>2. CASE s # r
    BY <1>6, <1>7, <2>2 DEF InHand
  <2> QED
    BY <2>1, <2>2
<1> QED
  BY <1>3, <1>5, <1>9, <1>10, <1>11, HandsKept

\* SuspendResumePods inserts nothing.
LEMMA ScaleHands ==
    ASSUME TypeOK, InsertInv, NEW r \in Requests, SuspendResumePods(r) PROVE InsertInv'
<1> DEFINE q == req[r]
<1>1. q \in Request /\ Returns(q) /\ q.pc \in Scales
  BY DEF TypeOK, InsertInv, SuspendResumePods, ScaleFind, ScalePods, ScaleMark, At, Scales
<1>2. UNCHANGED <<nextDeployment, worker>>
  BY DEF SuspendResumePods, ScaleFind, ScalePods, ScaleMark, Reads, OnlyCluster, OnlyRow, Same
<1>3. \A d \in DeploymentIds : row[d].status = "none" => row'[d].status = "none"
  BY DEF SuspendResumePods, ScaleFind, ScalePods, ScaleMark, Reads, OnlyCluster,
     UpdateDeploymentsRecord, Rows
<1>4. ASSUME NEW n, Become(r, n), n.ret = q.ret,
             n.pc \in {"scale.pods", "scale.mark", "status.release"}
      PROVE  InsertInv'
  <2>1. Returns(n) /\ n.pc \notin Unrecorded
    BY <1>1, <1>4 DEF Returns, Scales, Unrecorded
  <2> QED
    BY <1>2, <1>3, <1>4, <2>1, CalmHands
<1>5. CASE End(r)
  <2>1. Returns(Idle) /\ Idle.pc \notin Unrecorded
    BY IdleLeads DEF Leads, Idle, Unrecorded
  <2> QED
    BY <1>2, <1>3, <1>5, <2>1, CalmHands DEF End
<1>6. CASE ScaleFind(r)
  <2>1. PICK d : Become(r, [q EXCEPT !.pc = "scale.pods", !.dep = d])
    BY <1>6 DEF ScaleFind
  <2> DEFINE n == [q EXCEPT !.pc = "scale.pods", !.dep = d]
  <2>2. n.ret = q.ret /\ n.pc = "scale.pods" /\ Become(r, n)
    BY <1>1, <2>1 DEF Request
  <2> HIDE DEF n
  <2> QED
    BY <1>4, <2>2
<1>7. ASSUME NEW label \in {"scale.mark", "status.release"}, Become(r, Goto(q, label))
      PROVE  InsertInv'
  <2> DEFINE n == Goto(q, label)
  <2>1. n.ret = q.ret /\ n.pc = label
    BY <1>1 DEF Goto, Request
  <2> HIDE DEF n
  <2> QED
    BY <1>4, <1>7, <2>1 DEF n
<1>8. CASE ScalePods(r) \/ ScaleMark(r)
  BY <1>5, <1>7, <1>8 DEF ScalePods, ScaleMark
<1> QED
  BY <1>6, <1>8 DEF SuspendResumePods

\* So every step of a request keeps the invariant,
LEMMA StepInserts ==
    ASSUME TypeOK, InsertInv, NEW r \in Requests, Step(r) PROVE InsertInv'
<1>1. Returns(req[r]) /\ (req[r].pc \in Unrecorded => req[r].dep # NoDeployment)
  BY DEF InsertInv
<1>2. CASE Deploy(r)
  BY <1>1, <1>2, DeployFindCalm, DeployCalm, CalmInserts, CreateHands, InsertHands DEF Deploy
<1>3. CASE CreateNewAppRelease(r)
  BY <1>1, <1>3, RollCalm, CalmInserts, RollRowsHands
<1>4. CASE AddOrRemoveRegions(r)
  BY <1>1, <1>4, RegionsCalm, CalmInserts, InsertHands
<1>5. CASE UpdateAppStatus(r) \/ UnDeploy(r)
  BY <1>1, <1>5, ServiceCalm, CalmInserts
<1>6. CASE SuspendResumePods(r)
  BY <1>6, ScaleHands
<1>7. CASE Delete(r)
  BY <1>1, <1>7, DeleteCalm, CalmInserts
<1>8. CASE Config(r) \/ Image(r)
  BY <1>1, <1>8, ConfigCalm, CalmInserts
<1> QED
  BY <1>2, <1>3, <1>4, <1>5, <1>6, <1>7, <1>8 DEF Step

\* a stopped server holds nothing,
LEMMA HaltHands == ASSUME TypeOK, InsertInv, Halt PROVE InsertInv'
<1>1. UNCHANGED <<row, nextDeployment>>
  BY DEF Halt, tables
<1>2. \A r \in Requests : req'[r] = Idle /\ \A d \in DeploymentIds : worker'[r][d] = NoWorker
  BY DEF Halt
<1>3. Ready(Idle) /\ Idle.pc \notin Unrecorded
  BY IdleLeads DEF Leads, Idle, Unrecorded, Ready
<1>4. nextDeployment' \in Nat /\ nextDeployment <= nextDeployment'
  BY <1>1 DEF TypeOK, TablesTypeOK
<1>5. \A d \in DeploymentIds : d >= nextDeployment' => row'[d].status = "none"
  BY <1>1 DEF InsertInv
<1>6. \A s \in Requests, d \in HandIds : InHand(s, d)' = NoDeployment
  BY <1>2, <1>3 DEF InHand, HandIds, NoWorker
<1> QED
  BY <1>2, <1>3, <1>4, <1>5, <1>6, HandsKept

\* a mutation begins with nothing in hand,
LEMMA MutationBecomes ==
    ASSUME TypeOK, NEW r \in Requests, Mutation(r)
    PROVE  \E n : /\ Become(r, n)
                  /\ n.pc \in {"deploy.find", "regions.read", "scale.find", "image.release",
                               "delete.read"}
                  /\ n.ret \in {<<>>, <<"config.again">>, <<"delete.read">>}
                  /\ n.pc = "scale.find" /\ "pause" \notin Kinds => n.from = "suspended"
<1>1. ASSUME NEW kind, NEW q, DOMAIN q = DOMAIN Idle, Issue(r, kind, q),
             q.pc \in {"deploy.find", "regions.read", "scale.find", "image.release",
                       "delete.read"},
             q.ret \in {<<>>, <<"config.again">>, <<"delete.read">>},
             q.pc = "scale.find" /\ "pause" \notin Kinds => q.from = "suspended"
      PROVE  \E n : /\ Become(r, n)
                    /\ n.pc \in {"deploy.find", "regions.read", "scale.find", "image.release",
                                 "delete.read"}
                    /\ n.ret \in {<<>>, <<"config.again">>, <<"delete.read">>}
                    /\ n.pc = "scale.find" /\ "pause" \notin Kinds => n.from = "suspended"
  <2> DEFINE n == [q EXCEPT !.kind = kind]
  <2>1. n.pc = q.pc /\ n.ret = q.ret /\ n.from = q.from
    BY <1>1 DEF Idle
  <2>2. Become(r, n)
    BY <1>1 DEF Issue
  <2> HIDE DEF n
  <2> QED
    BY <1>1, <2>1, <2>2
<1>2. CASE DeployImage(r) \/ UpdateImage(r)
  BY <1>1, <1>2 DEF DeployImage, UpdateImage, Goto, Idle
<1>3. CASE ConfigureRegions(r) \/ MoveApp(r)
  BY <1>1, <1>3 DEF ConfigureRegions, MoveApp, ChangeRegions, Idle
<1>4. CASE PauseApp(r)
  <2>1. PICK g : Issue(r, "pause", [Idle EXCEPT !.pc = "scale.find", !.region = g,
                                                !.from = "running"])
    BY <1>4 DEF PauseApp
  <2>2. "pause" \in Kinds
    BY <2>1 DEF Issue
  <2> QED
    BY <1>1, <2>1, <2>2 DEF Idle
<1>5. CASE ResumeApp(r)
  BY <1>1, <1>5 DEF ResumeApp, Idle
<1>6. CASE Redeploy(r) \/ Revert(r)
  BY <1>1, <1>6 DEF Redeploy, Revert, Rebuild, ChangeRegions, Idle
<1>7. CASE DeleteApp(r)
  <2>1. PICK g \in Regions \cup {NoRegion} :
            LET q == [Idle EXCEPT !.pc = "delete.read", !.region = g,
                                  !.dels = IF g = NoRegion THEN {} ELSE {g}]
            IN  \/ Issue(r, "delete", q)
                \/ Issue(r, "delete", Call([q EXCEPT !.from = "suspended"],
                                            "scale.find", <<"delete.read">>))
    BY <1>7 DEF DeleteApp
  <2> DEFINE gs == IF g = NoRegion THEN {} ELSE {g}
             q == [Idle EXCEPT !.pc = "delete.read", !.region = g, !.dels = gs]
             p == Call([q EXCEPT !.from = "suspended"], "scale.find", <<"delete.read">>)
  <2>2. q.pc = "delete.read" /\ q.ret = <<>> /\ DOMAIN q = DOMAIN Idle
    BY DEF Idle
  <2>3. p.pc = "scale.find" /\ p.from = "suspended" /\ DOMAIN p = DOMAIN Idle
    BY DEF Call, Idle
  <2>4. p.ret = <<"delete.read">> \o <<>>
    BY DEF Call, Idle
  <2>5. p.ret = <<"delete.read">>
    <3> HIDE DEF p
    <3>1. <<"delete.read">> \in Seq(ReturnLabels)
      BY DEF ReturnLabels
    <3> QED
      BY <2>4, <3>1
  <2>6. Issue(r, "delete", q) \/ Issue(r, "delete", p)
    BY <2>1
  <2> HIDE DEF p, q
  <2> QED
    BY <1>1, <2>2, <2>3, <2>5, <2>6
<1> QED
  BY <1>2, <1>3, <1>4, <1>5, <1>6, <1>7 DEF Mutation

LEMMA MutationInserts ==
    ASSUME TypeOK, InsertInv, NEW r \in Requests, Mutation(r) PROVE InsertInv'
<1>1. PICK n : /\ Become(r, n)
               /\ n.pc \in {"deploy.find", "regions.read", "scale.find", "image.release",
                            "delete.read"}
               /\ n.ret \in {<<>>, <<"config.again">>, <<"delete.read">>}
  BY MutationBecomes
<1>2. /\ <<>> \in Seq(Outside) /\ <<"config.again">> \in Seq(Outside)
      /\ <<"delete.read">> \in Seq(Outside)
  BY DEF Outside, ReturnLabels, Recorders
<1>3. Returns(n) /\ n.pc \notin Unrecorded
  BY <1>1, <1>2 DEF Returns, Outside, Unrecorded
<1>4. UNCHANGED <<row, nextDeployment, worker>>
  BY DEF Mutation, DeployImage, ConfigureRegions, MoveApp, PauseApp, ResumeApp, UpdateImage,
     Redeploy, Revert, DeleteApp, Issue, tables
<1> QED
  BY <1>1, <1>3, <1>4, CalmHands

\* and so does a goroutine, which has in hand what it will record.
LEMMA StageHands ==
    ASSUME TypeOK, InsertInv, NEW r \in Requests, NEW d \in DeploymentIds, NEW w,
           Stage(r, d, w), UNCHANGED req
    PROVE  /\ \A s \in Requests : Ready(req'[s])
           /\ \A s \in Requests, e \in HandIds :
                s # r \/ e # d => InHand(s, e)' = InHand(s, e)
           /\ InHand(r, d)' = IF w.stage = "record" THEN w.new ELSE NoDeployment
<1>1. d # NoDeployment
  BY DEF DeploymentIds, NoDeployment
<1>2. \A s \in Requests, e \in DeploymentIds :
        worker'[s][e] = IF s = r /\ e = d THEN w ELSE worker[s][e]
  BY DEF Stage, TypeOK
<1> QED
  BY <1>1, <1>2, InsertReady DEF InHand, HandIds

LEMMA WorkerReplaceHands ==
    ASSUME TypeOK, InsertInv, NEW r \in Requests, NEW d \in DeploymentIds,
           WorkerDelete(r, d) \/ WorkerMark(r, d)
    PROVE  InsertInv'
<1>1. PICK w : Stage(r, d, w) /\ w.stage # "record"
  <2>1. worker[r][d] \in Worker
    BY DEF TypeOK
  <2>2. /\ [worker[r][d] EXCEPT !.stage = "mark"].stage # "record"
        /\ [worker[r][d] EXCEPT !.stage = "create"].stage # "record"
    BY <2>1 DEF Worker
  <2> QED
    BY <2>2 DEF WorkerDelete, WorkerMark
<1>2. UNCHANGED <<req, nextDeployment>>
  BY DEF WorkerDelete, WorkerMark, OnlyCluster, OnlyRow
<1>3. \A e \in DeploymentIds : row[e].status = "none" => row'[e].status = "none"
  BY DEF WorkerDelete, WorkerMark, OnlyCluster, UpdateDeploymentsRecord, Rows
<1>4. nextDeployment' \in Nat /\ nextDeployment <= nextDeployment'
  BY <1>2 DEF TypeOK, TablesTypeOK
<1>5. \A e \in DeploymentIds : e >= nextDeployment' => row'[e].status = "none"
  BY <1>2, <1>3 DEF InsertInv
<1>6. ASSUME NEW s \in Requests, NEW e \in HandIds
      PROVE  \/ InHand(s, e)' = NoDeployment
             \/ /\ InHand(s, e)' = InHand(s, e)
                /\ row[InHand(s, e)].status = "none" => row'[InHand(s, e)].status = "none"
  <2>1. InHand(s, e)' \in {InHand(s, e), NoDeployment}
    BY <1>1, <1>2, StageHands
  <2> QED
    BY <1>3, <2>1, HandTyped DEF HandIds
<1>7. \A s \in Requests : Ready(req'[s])
  BY <1>1, <1>2, StageHands
<1> QED
  BY <1>4, <1>5, <1>6, <1>7, HandsKept

LEMMA WorkerCreateHands ==
    ASSUME TypeOK, InsertInv, NEW r \in Requests, NEW d \in DeploymentIds, WorkerCreate(r, d)
    PROVE  InsertInv'
<1>1. /\ nextDeployment \in DeploymentIds /\ UNCHANGED <<row, req>>
      /\ \/ /\ nextDeployment' = nextDeployment + 1
            /\ \E new \in {nextDeployment, NoDeployment} :
                    Stage(r, d, [stage |-> "record", new |-> new])
         \/ UNCHANGED nextDeployment /\ Stage(r, d, [stage |-> "record", new |-> NoDeployment])
  BY DEF WorkerCreate
<1>2. d \in HandIds
  BY DEF HandIds
<1>3. CASE /\ nextDeployment' = nextDeployment + 1
           /\ \E new \in {nextDeployment, NoDeployment} :
                    Stage(r, d, [stage |-> "record", new |-> new])
  <2>1. PICK new \in {nextDeployment, NoDeployment} :
            Stage(r, d, [stage |-> "record", new |-> new])
    BY <1>3
  <2>2. InHand(r, d)' = new /\ \A s \in Requests : Ready(req'[s])
    BY <1>1, <2>1, StageHands
  <2>3. \A s \in Requests, e \in HandIds :
            s # r \/ e # d => InHand(s, e)' \in {InHand(s, e), NoDeployment}
    BY <1>1, <2>1, StageHands
  <2> QED
    BY <1>1, <1>2, <1>3, <2>2, <2>3, HandsOut
<1>4. CASE UNCHANGED nextDeployment /\ Stage(r, d, [stage |-> "record", new |-> NoDeployment])
  <2>1. InHand(r, d)' = NoDeployment /\ \A s \in Requests : Ready(req'[s])
    BY <1>1, <1>4, StageHands
  <2>2. \A s \in Requests, e \in HandIds : InHand(s, e)' \in {InHand(s, e), NoDeployment}
    BY <1>1, <1>4, <2>1, StageHands
  <2>3. nextDeployment' \in Nat /\ nextDeployment <= nextDeployment'
    BY <1>4 DEF TypeOK, TablesTypeOK
  <2>4. \A e \in DeploymentIds : e >= nextDeployment' => row'[e].status = "none"
    BY <1>1, <1>4 DEF InsertInv
  <2> QED
    BY <1>1, <2>1, <2>2, <2>3, <2>4, HandsKept
<1> QED
  BY <1>1, <1>3, <1>4

\* The row a goroutine inserts is that of its own deployment, or of nobody's.
InsertsRow(r, d, new) ==
    /\ \E x, named : row' = CreateDeploymentsRecord(new, x, named)
    /\ row[new].status = "none"
    /\ \/ new = InHand(r, d) /\ new < nextDeployment /\ UNCHANGED nextDeployment
       \/ new = nextDeployment /\ nextDeployment' = nextDeployment + 1

LEMMA WorkerRecordRow ==
    ASSUME TypeOK, InsertInv, NEW r \in Requests, NEW d \in DeploymentIds, WorkerRecord(r, d)
    PROVE  \/ UNCHANGED <<row, nextDeployment>>
           \/ \E new \in DeploymentIds : InsertsRow(r, d, new)
<1> DEFINE new == worker[r][d].new
<1>1. CASE /\ new # NoDeployment
           /\ row' = CreateDeploymentsRecord(new, req[r].fresh, TRUE)
           /\ UNCHANGED nextDeployment
  <2>1. InHand(r, d) = new
    BY DEF WorkerRecord, InHand, DeploymentIds, NoDeployment
  <2>2. new \in DeploymentIds
    BY <1>1 DEF TypeOK, Worker
  <2>3. new < nextDeployment /\ row[new].status = "none"
    BY <1>1, <2>1 DEF InsertInv
  <2> QED
    BY <1>1, <2>1, <2>2, <2>3 DEF InsertsRow
<1>2. CASE /\ nextDeployment \in DeploymentIds
           /\ row' = CreateDeploymentsRecord(nextDeployment, req[r].fresh, FALSE)
           /\ nextDeployment' = nextDeployment + 1
  <2>1. row[nextDeployment].status = "none"
    BY <1>2 DEF InsertInv, DeploymentIds
  <2> QED
    BY <1>2, <2>1 DEF InsertsRow
<1> QED
  BY <1>1, <1>2 DEF WorkerRecord

LEMMA WorkerRecordHands ==
    ASSUME TypeOK, InsertInv, NEW r \in Requests, NEW d \in DeploymentIds, WorkerRecord(r, d)
    PROVE  InsertInv'
<1>1. Stage(r, d, NoWorker) /\ UNCHANGED req /\ NoWorker.stage # "record"
  BY DEF WorkerRecord, NoWorker
<1>2. /\ \A s \in Requests : Ready(req'[s])
      /\ \A s \in Requests, e \in HandIds : s # r \/ e # d => InHand(s, e)' = InHand(s, e)
      /\ InHand(r, d)' = NoDeployment
  BY <1>1, StageHands
<1>3. nextDeployment \in Nat /\ d \in HandIds
  BY DEF TypeOK, TablesTypeOK, HandIds
<1>4. CASE UNCHANGED <<row, nextDeployment>>
  <2>1. \A e \in DeploymentIds : e >= nextDeployment' => row'[e].status = "none"
    BY <1>4 DEF InsertInv
  <2>2. nextDeployment' \in Nat /\ nextDeployment <= nextDeployment'
    BY <1>3, <1>4
  <2>3. \A s \in Requests, e \in HandIds : InHand(s, e)' \in {InHand(s, e), NoDeployment}
    BY <1>2
  <2> QED
    BY <1>2, <1>4, <2>1, <2>2, <2>3, HandsKept
<1>5. CASE \E new \in DeploymentIds : InsertsRow(r, d, new)
  <2>1. PICK new \in DeploymentIds : InsertsRow(r, d, new)
    BY <1>5
  <2>2. \A e \in DeploymentIds : e # new => row'[e] = row[e]
    BY <2>1 DEF InsertsRow, CreateDeploymentsRecord, TypeOK, TablesTypeOK
  <2>3. new \in Nat /\ new < nextDeployment'
    BY <1>3, <2>1 DEF InsertsRow, DeploymentIds
  <2>4. nextDeployment' \in Nat /\ nextDeployment <= nextDeployment'
    BY <1>3, <2>1 DEF InsertsRow
  <2>5. ASSUME NEW e \in DeploymentIds, e >= nextDeployment' PROVE row'[e].status = "none"
    <3>1. e \in Nat /\ e # new /\ e >= nextDeployment
      BY <1>3, <2>3, <2>4, <2>5 DEF DeploymentIds
    <3> QED
      BY <2>2, <3>1 DEF InsertInv
  <2>6. ASSUME NEW s \in Requests, NEW e \in HandIds, s # r \/ e # d,
               InHand(s, e) # NoDeployment
        PROVE  InHand(s, e) # new
    <3>1. /\ InHand(s, e) < nextDeployment
          /\ \A t \in Requests, f \in HandIds : InHand(t, f) = InHand(s, e) => t = s /\ f = e
      BY <2>6 DEF InsertInv, HandIds
    <3>2. InHand(s, e) \in Nat
      BY HandTyped DEF HandIds, DeploymentIds, NoDeployment
    <3> QED
      BY <1>3, <2>1, <2>6, <3>1, <3>2 DEF InsertsRow
  <2>7. ASSUME NEW s \in Requests, NEW e \in HandIds
        PROVE  \/ InHand(s, e)' = NoDeployment
               \/ /\ InHand(s, e)' = InHand(s, e)
                  /\ row[InHand(s, e)].status = "none" => row'[InHand(s, e)].status = "none"
    <3>1. CASE s = r /\ e = d
      BY <1>2, <3>1
    <3>2. CASE s # r \/ e # d
      <4>1. InHand(s, e)' = InHand(s, e)
        BY <1>2, <3>2
      <4>2. CASE InHand(s, e) # NoDeployment
        <5>1. InHand(s, e) \in DeploymentIds /\ InHand(s, e) # new
          BY <2>6, <3>2, <4>2, HandTyped DEF HandIds
        <5> QED
          BY <2>2, <4>1, <5>1
      <4> QED
        BY <4>1, <4>2
    <3> QED
      BY <3>1, <3>2
  <2> QED
    BY <1>2, <2>4, <2>5, <2>7, HandsKept
<1> QED
  BY <1>4, <1>5, WorkerRecordRow

LEMMA WorkInserts ==
    ASSUME TypeOK, InsertInv, NEW r \in Requests, NEW d \in DeploymentIds, Work(r, d)
    PROVE  InsertInv'
  BY WorkerReplaceHands, WorkerCreateHands, WorkerRecordHands, HaltHands DEF Work, WorkerPanic

LEMMA InsertInit == Init => InsertInv
<1> SUFFICES ASSUME Init PROVE InsertInv
  OBVIOUS
<1>1. \A d \in DeploymentIds : row[d].status = "none"
  BY DEF Init, TablesInit, NoDeploymentRow
<1>2. \A r \in Requests : req[r] = Idle /\ \A d \in DeploymentIds : worker[r][d] = NoWorker
  BY DEF Init
<1>3. Ready(Idle) /\ Idle.pc \notin Unrecorded
  BY IdleLeads DEF Leads, Idle, Unrecorded, Ready
<1>4. \A s \in Requests, d \in HandIds : InHand(s, d) = NoDeployment
  BY <1>2, <1>3 DEF InHand, HandIds, NoWorker
<1> QED
  BY <1>1, <1>2, <1>3, <1>4 DEF InsertInv, HandIds, Ready

LEMMA InsertNext == TypeOK /\ InsertInv /\ [Next]_vars => InsertInv'
<1> SUFFICES ASSUME TypeOK, InsertInv, [Next]_vars PROVE InsertInv'
  OBVIOUS
<1>1. ASSUME NEW r \in Requests, Mutation(r) PROVE InsertInv'
  BY <1>1, MutationInserts
<1>2. ASSUME NEW r \in Requests, Step(r) PROVE InsertInv'
  BY <1>2, StepInserts
<1>3. ASSUME NEW r \in Requests, NEW d \in DeploymentIds, Work(r, d) PROVE InsertInv'
  BY <1>3, WorkInserts
<1>4. CASE Crash
  BY <1>4, HaltHands DEF Crash
<1>5. CASE UNCHANGED vars
  BY <1>5 DEF InsertInv, InHand, vars
<1> QED
  BY <1>1, <1>2, <1>3, <1>4, <1>5 DEF Next, Done

\* However requests overlap, fail and are cut off, a row is inserted only for a
\* deployment that has none, by the one request or goroutine that created it.
THEOREM InsertInvariant == Spec => []InsertInv
<1>1. Init => InsertInv
  BY InsertInit
<1>2. TypeOK /\ InsertInv /\ [Next]_vars => InsertInv'
  BY InsertNext
<1> QED
  BY <1>1, <1>2, TypeCorrect, PTL DEF Spec

-----------------------------------------------------------------------------
(***************************************************************************)
(* What becomes of the rows                                                *)
(***************************************************************************)
\* A row is inserted, marked destroyed, dropped, or left with its status.
RowsForward ==
    \A d \in DeploymentIds :
        \/ row'[d].status = row[d].status
        \/ row'[d].status = "none"
        \/ row[d].status # "none" /\ row'[d].status = "destroyed"
        \/ row[d].status = "none" /\ row'[d].status = "running"

\* A request resumes nothing.
Unpaused(q) ==
    /\ q.pc \in {"scale.find", "scale.pods"} => q.from = "suspended"
    /\ q.pc = "scale.pods" => q.dep = NoDeployment
    /\ q.pc # "scale.mark"

LEMMA SuspendedSplit ==
    NothingSuspended <=> /\ \A d \in DeploymentIds : row[d].status # "suspended"
                         /\ \A r \in Requests : Unpaused(req[r])
  BY DEF NothingSuspended, Unpaused

LEMMA SameForward == UNCHANGED row => RowsForward
  BY DEF RowsForward

LEMMA InsertForward ==
    ASSUME TypeOK, NEW new \in DeploymentIds, row[new].status = "none",
           NEW x, NEW named, row' = CreateDeploymentsRecord(new, x, named)
    PROVE  RowsForward
  BY DEF RowsForward, CreateDeploymentsRecord, TypeOK, TablesTypeOK

\* r goes on without scaling.
Forward(r) == RowsForward /\ \E n : Become(r, n) /\ Unpaused(n)

LEMMA ElsewhereUnpaused == ASSUME NEW n, n.pc \notin Scales PROVE Unpaused(n)
  BY DEF Unpaused, Scales

LEMMA EndForward == ASSUME NEW r \in Requests, End(r), RowsForward PROVE Forward(r)
<1>1. Idle.pc \notin Scales
  BY DEF Idle, Scales
<1> QED
  BY <1>1, ElsewhereUnpaused DEF Forward, End

LEMMA CalmForward == ASSUME NEW r \in Requests, Calm(r) PROVE Forward(r)
  BY ElsewhereUnpaused DEF Calm, Leads, RowsCalm, RowsForward, Forward, Rows

LEMMA CreateForward ==
    ASSUME TypeOK, InsertInv, NEW r \in Requests, Create(r) PROVE Forward(r)
<1> DEFINE q == req[r]
           made == [q EXCEPT !.dep = nextDeployment]
<1>1. q \in Request /\ q.pc = "create" /\ Returns(q) /\ nextDeployment \in DeploymentIds
  BY DEF TypeOK, Create, At, InsertInv
<1>2. RowsForward
  BY SameForward DEF Create
<1>3. End(r) \/ Become(r, Return(made)) \/ Become(r, Goto(made, "service"))
  BY DEF Create
<1>4. Return(made).pc \notin Scales
  BY <1>1, ReturnDeployed
<1>5. Goto(made, "service").pc \notin Scales
  BY <1>1 DEF Goto, Request, Scales
<1> QED
  BY <1>2, <1>3, <1>4, <1>5, EndForward, ElsewhereUnpaused DEF Forward

LEMMA RecordForward ==
    ASSUME TypeOK, InsertInv, NEW r \in Requests, FirstRecord(r) \/ AddRecord(r)
    PROVE  Forward(r)
<1> DEFINE q == req[r]
           n == [q EXCEPT !.pc = "add.route", !.last = q.dep]
           m == Call([q EXCEPT !.adds = {Primary}], "regions.read", <<"first.route">>)
<1>1. q \in Request /\ q.pc \in Unrecorded
  BY DEF TypeOK, FirstRecord, AddRecord, At, Unrecorded
<1>2. InHand(r, NoDeployment) = q.dep /\ q.dep # NoDeployment /\ q.dep \in DeploymentIds
  BY <1>1 DEF InHand, InsertInv, Request
<1>3. row[q.dep].status = "none"
  BY <1>2 DEF InsertInv
<1>4. RowsForward
  BY <1>2, <1>3, SameForward, InsertForward DEF FirstRecord, AddRecord
<1>5. n.pc = "add.route" /\ m.pc = "regions.read"
  BY <1>1 DEF Call, Request
<1>6. End(r) \/ Become(r, n) \/ Become(r, m)
  BY DEF FirstRecord, AddRecord
<1> HIDE DEF n, m
<1>7. n.pc \notin Scales /\ m.pc \notin Scales
  BY <1>5 DEF Scales
<1> QED
  BY <1>4, <1>6, <1>7, EndForward, ElsewhereUnpaused DEF Forward

LEMMA RollRowsForward ==
    ASSUME TypeOK, NEW r \in Requests, RollRows(r) PROVE Forward(r)
<1> DEFINE n == [req[r] EXCEPT !.pc = "roll.wait", !.fresh = nextRelease]
<1>1. Become(r, n) /\ n.pc = "roll.wait" /\ RowsForward
  BY SameForward DEF RollRows, TypeOK, Request
<1> HIDE DEF n
<1>2. n.pc \notin Scales
  BY <1>1 DEF Scales
<1> QED
  BY <1>1, <1>2, ElsewhereUnpaused DEF Forward

\* With nothing suspended there is nothing to resume.
LEMMA ScaleForward ==
    ASSUME TypeOK, NothingSuspended, NEW r \in Requests, SuspendResumePods(r)
    PROVE  Forward(r)
<1> DEFINE q == req[r]
<1>1. q \in Request /\ Unpaused(q) /\ \A d \in DeploymentIds : row[d].status # "suspended"
  BY SuspendedSplit DEF TypeOK
<1>2. CASE ScaleFind(r)
  <2>1. q.from = "suspended" /\ RowsForward
    BY <1>1, <1>2, SameForward DEF ScaleFind, At, Unpaused, Reads
  <2>2. PICK d \in GetDeploymentsRecordSingle(q.region, q.from) :
            Become(r, [q EXCEPT !.pc = "scale.pods", !.dep = d])
    BY <1>2 DEF ScaleFind
  <2>3. d = NoDeployment
    BY <1>1, <2>1 DEF GetDeploymentsRecordSingle, OrElse, Rows
  <2> DEFINE n == [q EXCEPT !.pc = "scale.pods", !.dep = d]
  <2>4. n.pc = "scale.pods" /\ n.dep = NoDeployment /\ n.from = "suspended" /\ Become(r, n)
    BY <1>1, <2>1, <2>2, <2>3 DEF Request
  <2> HIDE DEF n
  <2> QED
    BY <2>1, <2>4 DEF Forward, Unpaused
<1>3. CASE ScalePods(r)
  <2>1. DeploymentId(q.dep) = NoDeployment
    BY <1>1, <1>3 DEF ScalePods, At, Unpaused, DeploymentId
  <2>2. End(r) /\ RowsForward
    BY <1>3, <2>1, SameForward DEF ScalePods, OnlyCluster
  <2> QED
    BY <2>2, EndForward
<1>4. CASE ScaleMark(r)
  BY <1>1, <1>4 DEF ScaleMark, At, Unpaused
<1> QED
  BY <1>2, <1>3, <1>4 DEF SuspendResumePods

LEMMA StepForward ==
    ASSUME TypeOK, InsertInv, NothingSuspended, NEW r \in Requests, Step(r) PROVE Forward(r)
<1>1. Returns(req[r]) /\ (req[r].pc \in Unrecorded => req[r].dep # NoDeployment)
  BY DEF InsertInv
<1>2. CASE Deploy(r)
  BY <1>1, <1>2, DeployFindCalm, DeployCalm, CalmForward, CreateForward, RecordForward
  DEF Deploy
<1>3. CASE CreateNewAppRelease(r)
  BY <1>1, <1>3, RollCalm, CalmForward, RollRowsForward
<1>4. CASE AddOrRemoveRegions(r)
  BY <1>1, <1>4, RegionsCalm, CalmForward, RecordForward
<1>5. CASE UpdateAppStatus(r) \/ UnDeploy(r)
  BY <1>1, <1>5, ServiceCalm, CalmForward
<1>6. CASE SuspendResumePods(r)
  BY <1>6, ScaleForward
<1>7. CASE Delete(r)
  BY <1>1, <1>7, DeleteCalm, CalmForward
<1>8. CASE Config(r) \/ Image(r)
  BY <1>1, <1>8, ConfigCalm, CalmForward
<1> QED
  BY <1>2, <1>3, <1>4, <1>5, <1>6, <1>7, <1>8 DEF Step

LEMMA MutationForward ==
    ASSUME TypeOK, "pause" \notin Kinds, NEW r \in Requests, Mutation(r) PROVE Forward(r)
<1>1. RowsForward
  BY SameForward DEF Mutation, DeployImage, ConfigureRegions, MoveApp, PauseApp, ResumeApp,
     UpdateImage, Redeploy, Revert, DeleteApp, Issue, tables
<1> QED
  BY <1>1, MutationBecomes DEF Forward, Unpaused

LEMMA WorkForward ==
    ASSUME TypeOK, InsertInv, NEW r \in Requests, NEW d \in DeploymentIds, Work(r, d)
    PROVE  RowsForward /\ (UNCHANGED req \/ Halt)
<1>1. UNCHANGED req \/ Halt
  BY DEF Work, WorkerDelete, WorkerMark, WorkerCreate, WorkerPanic, WorkerRecord
<1>2. CASE WorkerRecord(r, d)
  <2>1. CASE UNCHANGED row
    BY <1>1, <2>1, SameForward
  <2>2. CASE \E new \in DeploymentIds : InsertsRow(r, d, new)
    <3>1. PICK new \in DeploymentIds : InsertsRow(r, d, new)
      BY <2>2
    <3>2. RowsForward
      BY <3>1, InsertForward DEF InsertsRow
    <3> QED
      BY <1>1, <3>2
  <2> QED
    BY <1>2, <2>1, <2>2, WorkerRecordRow
<1>3. CASE WorkerMark(r, d)
  BY <1>3 DEF WorkerMark, UpdateDeploymentsRecord, Rows, RowsForward
<1>4. CASE WorkerDelete(r, d) \/ WorkerCreate(r, d) \/ WorkerPanic(r, d)
  BY <1>4, SameForward DEF WorkerDelete, WorkerCreate, WorkerPanic, Halt, tables, OnlyCluster
<1> QED
  BY <1>1, <1>2, <1>3, <1>4 DEF Work

LEMMA SuspendedInit == Init => NothingSuspended
  BY DEF Init, TablesInit, NoDeploymentRow, NothingSuspended, Idle

LEMMA RowsNext ==
    "pause" \notin Kinds /\ TypeOK /\ InsertInv /\ NothingSuspended /\ [Next]_vars
        => RowsForward /\ NothingSuspended'
<1> SUFFICES ASSUME "pause" \notin Kinds, TypeOK, InsertInv, NothingSuspended, [Next]_vars
             PROVE  RowsForward /\ NothingSuspended'
  OBVIOUS
<1>1. /\ \A d \in DeploymentIds : row[d].status # "suspended"
      /\ \A r \in Requests : Unpaused(req[r])
  BY SuspendedSplit
<1>2. RowsForward => \A d \in DeploymentIds : row'[d].status # "suspended"
  BY <1>1 DEF RowsForward
<1>3. ASSUME RowsForward, \A r \in Requests : Unpaused(req'[r]) PROVE NothingSuspended'
  BY <1>2, <1>3 DEF NothingSuspended, Unpaused
<1>4. ASSUME NEW r \in Requests, Forward(r) PROVE RowsForward /\ NothingSuspended'
  <2>1. PICK n : Become(r, n) /\ Unpaused(n)
    BY <1>4 DEF Forward
  <2>2. \A s \in Requests : req'[s] = IF s = r THEN n ELSE req[s]
    BY <2>1 DEF Become, TypeOK
  <2> QED
    BY <1>1, <1>3, <1>4, <2>1, <2>2 DEF Forward
<1>5. ASSUME Halt PROVE RowsForward /\ NothingSuspended'
  <2>1. RowsForward /\ \A r \in Requests : req'[r] = Idle
    BY <1>5, SameForward DEF Halt, tables
  <2>2. Unpaused(Idle)
    BY DEF Unpaused, Idle
  <2> QED
    BY <1>3, <2>1, <2>2
<1>6. ASSUME UNCHANGED <<row, req>> PROVE RowsForward /\ NothingSuspended'
  BY <1>6, SameForward DEF NothingSuspended
<1>7. ASSUME NEW r \in Requests, NEW d \in DeploymentIds, Work(r, d)
      PROVE  RowsForward /\ NothingSuspended'
  BY <1>1, <1>3, <1>5, <1>7, WorkForward
<1>8. ASSUME NEW r \in Requests, Mutation(r) \/ Step(r) PROVE RowsForward /\ NothingSuspended'
  BY <1>4, <1>8, MutationForward, StepForward
<1> QED
  BY <1>5, <1>6, <1>7, <1>8 DEF Next, Crash, Done, vars

\* However requests overlap, fail and are cut off, no destroyed deployment comes
\* back to life, as long as nobody pauses the application: a resumption marks
\* the rows of a deployment running that UnDeploy may just have destroyed.
THEOREM OverlappingRowsMoveForward == "pause" \notin Kinds /\ Spec => RowsMoveForward
<1> SUFFICES ASSUME "pause" \notin Kinds PROVE Spec => RowsMoveForward
  OBVIOUS
<1>1. TypeOK /\ InsertInv /\ NothingSuspended /\ [Next]_vars =>
        /\ NothingSuspended'
        /\ [\A d \in DeploymentIds :
                row[d].status = "destroyed" => row'[d].status \in {"destroyed", "none"}]_vars
  BY RowsNext DEF RowsForward
<1> QED
  BY <1>1, SuspendedInit, TypeCorrect, InsertInvariant, PTL DEF Spec, RowsMoveForward
=============================================================================
