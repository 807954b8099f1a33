-------------------------- MODULE AppSequenceProofs --------------------------
(***************************************************************************)
(* Requests one after the other: rows only move forward, and the scale of a *)
(* deployment is what its row says.  First, who a request returns to; then,  *)
(* for each property, what every step does to the rows and what the request *)
(* and its goroutines know of them afterwards.                              *)
(***************************************************************************)
EXTENDS AppLifecycleProofs, AppSequence

-----------------------------------------------------------------------------
(***************************************************************************)
(* Who a request returns to                                                *)
(***************************************************************************)
\* The labels of Deployment and of UnDeploy.
Deploying == {"create", "service"}

\* The labels of a function that was called.
Called == Deploying \cup Undeploying

\* The labels that only one mutation has.
Owned == {"deploy.find", "first.release", "first.record", "first.route", "config.again"}
  \cup DeleteLabels

\* n has the fields of q, except for the label and the labels to return to.
Alike(q, n) ==
    /\ DOMAIN n = DOMAIN q
    /\ n.kind = q.kind /\ n.toDeploy = q.toDeploy
    /\ n.adds = q.adds /\ n.dels = q.dels /\ n.backs = q.backs
    /\ n.region = q.region /\ n.from = q.from
    /\ n.regions = q.regions /\ n.backups = q.backups /\ n.standby = q.standby
    /\ n.dep = q.dep /\ n.seen = q.seen /\ n.items = q.items

\* n has the fields of a request.
Shaped(n) == \E q \in Request : DOMAIN n = DOMAIN q

\* A jump, a call and a return keep the other fields.
LEMMA GotoFields ==
    ASSUME NEW q, Shaped(q), NEW label
    PROVE  Alike(q, Goto(q, label)) /\ Goto(q, label).pc = label /\ Goto(q, label).ret = q.ret
  BY DEF Alike, Goto, Shaped, Request

\* The label called is on top of those to return to,
LEMMA CallFields ==
    ASSUME NEW q, Shaped(q), NEW label, NEW back
    PROVE  /\ Alike(q, Call(q, label, back))
           /\ Call(q, label, back).pc = label
           /\ Call(q, label, back).ret = back \o q.ret
  BY DEF Alike, Call, Shaped, Request

\* and a return takes the top one.
LEMMA ReturnFields ==
    ASSUME NEW q, Shaped(q), q.ret # <<>>
    PROVE  /\ Alike(q, Return(q))
           /\ Return(q).pc = Head(q.ret)
           /\ Return(q).ret = Tail(q.ret)
  BY DEF Alike, Return, Shaped, Request

\* What the head and the tail of a list are after a push.
LEMMA Push ==
    ASSUME NEW S, NEW x, NEW s \in Seq(S)
    PROVE  <<x>> \o s # <<>> /\ Head(<<x>> \o s) = x /\ Tail(<<x>> \o s) = s
<1> DEFINE T == S \cup {x}
           t == <<x>> \o s
<1>1. <<x>> \in Seq(T) /\ s \in Seq(T) /\ Len(<<x>>) = 1
  OBVIOUS
<1> HIDE DEF T
<1>2. t \in Seq(T) /\ Len(t) = 1 + Len(s) /\ t[1] = x
  BY <1>1
<1>3. \A i \in 1 .. Len(s) : t[1 + i] = s[i]
  BY <1>1
<1>4. Tail(t) = s
  BY <1>1, <1>2, <1>3
<1> QED
  BY <1>1, <1>2, <1>4

\* Two pushes at once.
LEMMA PushAll ==
    ASSUME NEW S, NEW x, NEW b \in Seq(S), NEW s \in Seq(S)
    PROVE  (<<x>> \o b) \o s = <<x>> \o (b \o s) /\ b \o s \in Seq(S)
<1> DEFINE T == S \cup {x}
<1>1. <<x>> \in Seq(T) /\ s \in Seq(T) /\ b \in Seq(T)
  OBVIOUS
<1> HIDE DEF T
<1> QED
  BY <1>1

\* Two pushes, one by one.
LEMMA PushTwo == ASSUME NEW x, NEW y PROVE <<x>> \o <<y>> = <<x, y>>
<1> DEFINE T == {x, y}
           s == <<x>> \o <<y>>
           t == <<x, y>>
<1>1. <<x>> \in Seq(T) /\ <<y>> \in Seq(T) /\ Len(<<x>>) = 1 /\ Len(<<y>>) = 1
  OBVIOUS
<1>2. t \in Seq(T) /\ Len(t) = 2 /\ t[1] = x /\ t[2] = y
  OBVIOUS
<1> HIDE DEF T, t
<1>3. s \in Seq(T) /\ Len(s) = 2 /\ s[1] = x /\ s[2] = y
  BY <1>1
<1> HIDE DEF s
<1>4. s = t
  BY <1>2, <1>3
<1> QED
  BY <1>4 DEF s, t

\* The labels of Awaits are neither called nor another mutation's.
LEMMA AwaitsLabels ==
    ASSUME NEW kind
    PROVE  /\ Awaits(kind) \subseteq {"first.route", "config.again", "config.release",
                                      "delete.read", "delete.bare", "delete.check"}
           /\ Awaits(kind) \cap Called = {}
           /\ "config.again" \in Awaits(kind) => kind \in {"redeploy", "revert"}
           /\ "first.route" \in Awaits(kind) => kind = "deploy"
           /\ Awaits(kind) \cap DeleteLabels # {} => kind = "delete"
           /\ Awaits(kind) \cap {"deploy.find", "first.release", "first.record"} = {}
  BY DEF Awaits, Called, Deploying, Undeploying, DeleteLabels

\* A request may end,
LEMMA IdlePlace == InPlace(Idle)
<1>1. <<>> \in Seq(Awaits("none"))
  OBVIOUS
<1> QED
  BY <1>1 DEF InPlace, Idle, Undeploying, DeleteLabels

\* go on in the same function,
LEMMA StayPlace ==
    ASSUME NEW q, InPlace(q), NEW n, n.ret = q.ret, n.kind = q.kind, n.pc \notin Owned,
           \/ q.pc \notin Called /\ n.pc \notin Called
           \/ q.pc \in Deploying /\ n.pc \in Deploying
           \/ q.pc \in Undeploying /\ n.pc \in Undeploying
    PROVE  InPlace(n)
<1>1. Deploying \cap Undeploying = {} /\ Deploying \cap Owned = {} /\ Undeploying \cap Owned = {}
  BY DEF Deploying, Undeploying, Owned, DeleteLabels
<1> QED
  BY <1>1 DEF InPlace, CalledFrom, Called, Deploying, Owned

\* move on within its own mutation,
LEMMA OwnPlace ==
    ASSUME NEW q, InPlace(q), q.pc \notin Called, NEW n, n.ret = q.ret, n.kind = q.kind,
           \/ n.pc \in {"deploy.find", "first.release", "first.record"} /\ n.kind = "deploy"
           \/ n.pc \in DeleteLabels /\ n.kind = "delete"
    PROVE  InPlace(n)
<1>1. n.pc \notin Called
  BY DEF Called, Deploying, Undeploying, DeleteLabels
<1>2. n.ret \in Seq(Awaits(n.kind))
  BY DEF InPlace, Called, Deploying
<1> QED
  BY <1>1, <1>2 DEF InPlace, Called, Deploying, DeleteLabels

\* call AddOrRemoveRegions, UpdateAppStatus or SuspendResumePods,
LEMMA CallPlace ==
    ASSUME NEW q, Shaped(q), NEW label, label \notin Called \cup Owned, NEW back,
           back \in Seq(Awaits(q.kind)), q.ret \in Seq(Awaits(q.kind))
    PROVE  InPlace(Call(q, label, back))
<1> DEFINE n == Call(q, label, back)
<1>1. n.pc = label /\ n.kind = q.kind /\ n.ret = back \o q.ret
  BY CallFields DEF Alike
<1>2. n.ret \in Seq(Awaits(n.kind))
  BY <1>1
<1> HIDE DEF n
<1>3. InPlace(n)
  BY <1>1, <1>2 DEF InPlace, Called, Deploying, Owned
<1> QED
  BY <1>3 DEF n

\* Deployment,
LEMMA CallDeployPlace ==
    ASSUME NEW q, Shaped(q), q.ret \in Seq(Awaits(q.kind)), NEW label \in DeployCallers(q.kind)
    PROVE  /\ InPlace(Call(q, "create", <<label>>))
           /\ Head(Call(q, "create", <<label>>).ret) = label
<1> DEFINE back == <<label>>
           n == Call(q, "create", back)
           callers == DeployCallers(q.kind)
           own == Awaits(q.kind)
<1> HIDE DEF back, callers, own
<1>1. n.pc = "create" /\ n.kind = q.kind /\ n.ret = back \o q.ret
  BY CallFields DEF Alike
<1> HIDE DEF n
<1>2. n.ret # <<>> /\ Head(n.ret) = label /\ Tail(n.ret) = q.ret
  BY <1>1, Push DEF own, back
<1>3. InPlace(n)
  BY <1>1, <1>2 DEF InPlace, CalledFrom, DeleteLabels, callers, own
<1> QED
  BY <1>2, <1>3 DEF n, back

\* or UnDeploy,
LEMMA CallUndeployPlace ==
    ASSUME NEW q, Shaped(q), q.ret \in Seq(Awaits(q.kind)), NEW label \in UndeployCallers(q.kind),
           NEW back, back \in Seq(Awaits(q.kind))
    PROVE  /\ InPlace(Call(q, "undeploy.find", <<label>> \o back))
           /\ Head(Call(q, "undeploy.find", <<label>> \o back).ret) = label
<1> DEFINE all == <<label>> \o back
           n == Call(q, "undeploy.find", all)
           own == Awaits(q.kind)
<1>0. back \in Seq(own) /\ q.ret \in Seq(own)
  OBVIOUS
<1> HIDE DEF all, own
<1>1. n.pc = "undeploy.find" /\ n.kind = q.kind /\ n.ret = all \o q.ret
  BY CallFields DEF Alike
<1> HIDE DEF n
<1> DEFINE rest == back \o q.ret
<1>2. (<<label>> \o back) \o q.ret = <<label>> \o rest /\ rest \in Seq(own)
  <2> DEFINE s == q.ret
  <2>0. s \in Seq(own)
    BY <1>0
  <2> HIDE DEF s
  <2>1. (<<label>> \o back) \o s = <<label>> \o (back \o s)
    BY <1>0, <2>0, PushAll, SMT
  <2>2. back \o q.ret \in Seq(own)
    BY <1>0
  <2> QED
    BY <2>1, <2>2 DEF s
<1> HIDE DEF rest
<1>3. n.ret = <<label>> \o rest
  BY <1>1, <1>2 DEF all
<1>4. n.ret # <<>> /\ Head(n.ret) = label /\ Tail(n.ret) \in Seq(own)
  BY <1>3, <1>2, Push
<1>5. InPlace(n)
  BY <1>1, <1>4 DEF InPlace, CalledFrom, DeleteLabels, Undeploying, own
<1> QED
  BY <1>4, <1>5 DEF n, all

\* with nothing else to come back to,
LEMMA CallUndeployAlone ==
    ASSUME NEW q, Shaped(q), q.ret \in Seq(Awaits(q.kind)), NEW label \in UndeployCallers(q.kind)
    PROVE  /\ InPlace(Call(q, "undeploy.find", <<label>>))
           /\ Head(Call(q, "undeploy.find", <<label>>).ret) = label
<1> DEFINE back == <<label>>
           n == Call(q, "undeploy.find", back)
           own == Awaits(q.kind)
<1> HIDE DEF back, own
<1>1. n.pc = "undeploy.find" /\ n.kind = q.kind /\ n.ret = back \o q.ret
  BY CallFields DEF Alike
<1> HIDE DEF n
<1>2. n.ret # <<>> /\ Head(n.ret) = label /\ Tail(n.ret) = q.ret
  BY <1>1, Push DEF own, back
<1>3. InPlace(n)
  BY <1>1, <1>2 DEF InPlace, CalledFrom, DeleteLabels, Undeploying, own
<1> QED
  BY <1>2, <1>3 DEF n, back

\* and return: to its mutation,
LEMMA ReturnPlace ==
    ASSUME NEW q, Shaped(q), q.ret \in Seq(Awaits(q.kind))
    PROVE  /\ InPlace(Return(q))
           /\ \/ Return(q) = Idle
              \/ Alike(q, Return(q)) /\ Return(q).pc \in Awaits(q.kind)
<1>1. CASE q.ret = <<>>
  BY <1>1, IdlePlace DEF Return
<1>2. CASE q.ret # <<>>
  <2> DEFINE n == Return(q)
             own == Awaits(q.kind)
  <2>1. Alike(q, n) /\ n.pc = Head(q.ret) /\ n.ret = Tail(q.ret)
    BY <1>2, ReturnFields
  <2> HIDE DEF n, own
  <2>0. q.ret \in Seq(own)
    BY DEF own
  <2>2. Head(q.ret) \in own /\ Tail(q.ret) \in Seq(own)
    BY <1>2, <2>0
  <2>3. n.kind = q.kind /\ n.pc \in own /\ n.ret \in Seq(own)
    BY <2>1, <2>2 DEF Alike
  <2>4. InPlace(n)
    BY <2>3, AwaitsLabels DEF InPlace, Called, Deploying, own
  <2> QED
    BY <2>1, <2>3, <2>4 DEF n, own
<1> QED
  BY <1>1, <1>2

\* or to who has called Deployment or UnDeploy.
LEMMA ReturnCalledPlace ==
    ASSUME NEW q, Shaped(q), NEW callers, CalledFrom(q, callers),
           callers \in {DeployCallers(q.kind), UndeployCallers(q.kind)}
    PROVE  /\ InPlace(Return(q))
           /\ Alike(q, Return(q))
           /\ Return(q).pc = Head(q.ret)
           /\ Return(q).pc \in callers
<1> DEFINE n == Return(q)
<1>1. Alike(q, n) /\ n.pc = Head(q.ret) /\ n.ret = Tail(q.ret)
  BY ReturnFields DEF CalledFrom
<1> HIDE DEF n
<1>2. n.kind = q.kind /\ n.pc \in callers /\ n.ret \in Seq(Awaits(n.kind))
  BY <1>1 DEF CalledFrom, Alike
<1>3. callers \cap (Called \cup DeleteLabels
      \cup {"deploy.find", "first.record", "first.route", "config.again"}) = {}
  BY DEF DeployCallers, UndeployCallers, Called, Deploying, Undeploying, DeleteLabels
<1>4. "first.release" \in callers => q.kind = "deploy"
  BY DEF DeployCallers, UndeployCallers
<1>5. InPlace(n)
  BY <1>2, <1>3, <1>4 DEF InPlace, Called, Deploying
<1> QED
  BY <1>1, <1>2, <1>5 DEF n

-----------------------------------------------------------------------------
(***************************************************************************)
(* Steps that leave the rows alone                                         *)
(***************************************************************************)
\* The labels at which a request knows something of a row,
Heeding == {"roll.rows", "roll.wait", "scale.pods", "scale.mark"} \cup Unrecorded

\* and those a request may be at without its application.
Orphaned == {"idle", "delete.rows", "delete.releases"}

\* A step of the only request after which it knows nothing of the rows.
LEMMA LooseSeq ==
    ASSUME Alone, TypeOK, SequenceInv, NEW r \in Requests, NEW n, Become(r, n),
           InPlace(n), n.pc \notin Heeding, app'.exists \/ n.pc \in Orphaned,
           \A d \in DeploymentIds : d >= nextDeployment' => row'[d].status = "none",
           UNCHANGED worker, \A d \in DeploymentIds : worker[r][d].stage = "off"
    PROVE  SequenceInv'
<1>1. req'[r] = n
  BY DEF Become, TypeOK
<1>2. RowKnows(n)'
  BY DEF RowKnows, Heeding, Unrecorded, Orphaned
<1>3. \A s \in Requests : s = r
  BY DEF Alone
<1>4. \A d \in DeploymentIds : worker'[r][d].stage = "off"
  OBVIOUS
<1>5. \A d \in DeploymentIds : ReplacerKnows(r, d)'
  BY <1>4 DEF ReplacerKnows
<1> QED
  BY <1>1, <1>2, <1>3, <1>5 DEF SequenceInv

\* Moreover it has left them alone.
LEMMA CalmSeq ==
    ASSUME Alone, TypeOK, SequenceInv, NEW r \in Requests, NEW n, Become(r, n),
           InPlace(n), n.pc \notin Heeding, app'.exists \/ n.pc \in Orphaned,
           UNCHANGED <<row, nextDeployment, worker>>,
           \A d \in DeploymentIds : worker[r][d].stage = "off"
    PROVE  SequenceInv'
<1>1. \A d \in DeploymentIds : d >= nextDeployment' => row'[d].status = "none"
  BY DEF SequenceInv
<1> QED
  BY <1>1, LooseSeq

\* Outside of the wait for them, no goroutine is at work.
LEMMA NobodyWorks ==
    ASSUME SequenceInv, NEW r \in Requests, req[r].pc # "roll.wait"
    PROVE  \A d \in DeploymentIds : worker[r][d].stage = "off"
  BY DEF SequenceInv, ReplacerKnows, At

\* Steps within one function.
LEMMA StaySeq ==
    ASSUME Alone, TypeOK, SequenceInv, NEW r \in Requests, NEW n, Become(r, n),
           n.ret = req[r].ret, n.kind = req[r].kind,
           n.pc \notin Owned \cup Heeding,
           \/ req[r].pc \notin Called /\ n.pc \notin Called
           \/ req[r].pc \in Deploying /\ n.pc \in Deploying
           \/ req[r].pc \in Undeploying /\ n.pc \in Undeploying,
           req[r].pc \notin Orphaned \cup {"roll.wait"},
           app'.exists = app.exists, UNCHANGED <<row, nextDeployment, worker>>
    PROVE  SequenceInv'
<1>1. InPlace(req[r]) /\ app.exists
  BY DEF SequenceInv, RowKnows, Orphaned
<1>2. InPlace(n)
  BY <1>1, StayPlace
<1> QED
  BY <1>1, <1>2, NobodyWorks, CalmSeq

\* The end of a request.
LEMMA EndSeq ==
    ASSUME Alone, TypeOK, SequenceInv, NEW r \in Requests, End(r),
           req[r].pc # "roll.wait", UNCHANGED <<row, nextDeployment, worker>>
    PROVE  SequenceInv'
<1>1. Idle.pc = "idle"
  BY DEF Idle
<1> QED
  BY <1>1, IdlePlace, NobodyWorks, CalmSeq DEF End, Heeding, Unrecorded, Orphaned

\* A return to the mutation.
LEMMA ReturnSeq ==
    ASSUME Alone, TypeOK, SequenceInv, NEW r \in Requests, Become(r, Return(req[r])),
           req[r].pc \notin Called \cup Orphaned \cup {"roll.wait"},
           app'.exists = app.exists, UNCHANGED <<row, nextDeployment, worker>>
    PROVE  SequenceInv'
<1> DEFINE q == req[r]
           n == Return(q)
<1>1. Shaped(q) /\ q.ret \in Seq(Awaits(q.kind)) /\ app.exists
  BY DEF TypeOK, Shaped, SequenceInv, InPlace, RowKnows, Called, Deploying, Orphaned
<1> HIDE DEF q
<1>2. InPlace(n) /\ (n = Idle \/ n.pc \in Awaits(q.kind))
  BY <1>1, ReturnPlace
<1>3. n.pc \notin Heeding
  BY <1>2, AwaitsLabels DEF Idle, Heeding, Unrecorded
<1> HIDE DEF n
<1> QED
  BY <1>1, <1>2, <1>3, NobodyWorks, CalmSeq DEF n, q

\* A jump within one function.
LEMMA GotoSeq ==
    ASSUME Alone, TypeOK, SequenceInv, NEW r \in Requests, NEW label,
           Become(r, Goto(req[r], label)), label \notin Owned \cup Heeding,
           \/ req[r].pc \notin Called /\ label \notin Called
           \/ req[r].pc \in Deploying /\ label \in Deploying
           \/ req[r].pc \in Undeploying /\ label \in Undeploying,
           req[r].pc \notin Orphaned \cup {"roll.wait"},
           app'.exists = app.exists, UNCHANGED <<row, nextDeployment, worker>>
    PROVE  SequenceInv'
<1> DEFINE n == Goto(req[r], label)
<1>1. Shaped(req[r])
  BY DEF TypeOK, Shaped
<1>2. n.ret = req[r].ret /\ n.kind = req[r].kind /\ n.pc = label
  BY <1>1, GotoFields DEF Alike
<1> HIDE DEF n
<1> QED
  BY <1>2, StaySeq DEF n

\* A step of the only request that stays within one function, given as the record
\* that it becomes.
LEMMA SetSeq ==
    ASSUME Alone, TypeOK, SequenceInv, NEW r \in Requests, NEW n, Become(r, n),
           n.ret = req[r].ret, n.kind = req[r].kind, n.pc \notin Owned \cup Heeding \cup Called,
           req[r].pc \notin Called \cup Orphaned \cup {"roll.wait"},
           Reads
    PROVE  SequenceInv'
  BY StaySeq DEF Reads

\* UpdateAppStatus,
LEMMA StatusSeq ==
    ASSUME Alone, TypeOK, SequenceInv, NEW r \in Requests, UpdateAppStatus(r)
    PROVE  SequenceInv'
<1>1. req[r] \in Request
  BY DEF TypeOK
<1>2. {"status.release", "status.rows", "status.write"}
        \cap (Called \cup Orphaned \cup Owned \cup Heeding) = {}
  BY DEF Called, Deploying, Undeploying, Orphaned, Owned, DeleteLabels, Heeding, Unrecorded
<1>3. CASE StatusRelease(r)
  <2>1. PICK x \in GetAppRelease("active") :
          Become(r, [req[r] EXCEPT !.pc = "status.rows", !.rel = x])
    BY <1>3 DEF StatusRelease
  <2> DEFINE n == [req[r] EXCEPT !.pc = "status.rows", !.rel = x]
  <2>2. n.pc = "status.rows" /\ n.ret = req[r].ret /\ n.kind = req[r].kind
    BY <1>1 DEF Request
  <2> HIDE DEF n
  <2> QED
    BY <1>2, <1>3, <2>1, <2>2, SetSeq DEF StatusRelease, At, n
<1>4. CASE StatusRows(r)
  <2> DEFINE n == [req[r] EXCEPT !.pc = "status.write",
                                 !.seen = StatusFrom(GetDeploymentsByReleaseId(req[r].rel))]
  <2>2. n.pc = "status.write" /\ n.ret = req[r].ret /\ n.kind = req[r].kind
    BY <1>1 DEF Request
  <2> HIDE DEF n
  <2> QED
    BY <1>2, <1>4, <2>2, SetSeq DEF StatusRows, At, n
<1>5. CASE StatusWrite(r)
  <2>1. app'.exists = app.exists
    BY <1>5 DEF StatusWrite, TypeOK, TablesTypeOK, AppRow
  <2> QED
    BY <1>2, <1>5, <2>1, ReturnSeq DEF StatusWrite, At, OnlyApp, Same
<1> QED
  BY <1>3, <1>4, <1>5 DEF UpdateAppStatus

\* UpdateImage,
LEMMA ImageSeq ==
    ASSUME Alone, TypeOK, SequenceInv, NEW r \in Requests, Image(r)
    PROVE  SequenceInv'
<1>1. req[r] \in Request
  BY DEF TypeOK
<1>2. {"image.release", "image.retire", "image.publish"}
        \cap (Called \cup Orphaned \cup Owned \cup Heeding) = {}
  BY DEF Called, Deploying, Undeploying, Orphaned, Owned, DeleteLabels, Heeding, Unrecorded
<1>3. CASE ImageRelease(r)
  <2>1. PICK x \in GetAppRelease("active") :
          Become(r, [req[r] EXCEPT !.pc = "image.retire", !.rel = x,
                                   !.version = VersionOf(x) + 1])
    BY <1>3 DEF ImageRelease
  <2> DEFINE n == [req[r] EXCEPT !.pc = "image.retire", !.rel = x, !.version = VersionOf(x) + 1]
  <2>2. n.pc = "image.retire" /\ n.ret = req[r].ret /\ n.kind = req[r].kind
    BY <1>1 DEF Request
  <2> HIDE DEF n
  <2> QED
    BY <1>2, <1>3, <2>1, <2>2, SetSeq DEF ImageRelease, At, n
<1>4. CASE ImageRetire(r)
  BY <1>2, <1>4, GotoSeq DEF ImageRetire, ReleaseRetire, At, OnlyRelease, Same
<1>5. CASE ImagePublish(r)
  BY <1>2, <1>5, EndSeq DEF ImagePublish, ReleasePublish, End, At, Same
<1> QED
  BY <1>3, <1>4, <1>5 DEF Image

\* and UpdateConfigApps.
LEMMA ConfigSeq ==
    ASSUME Alone, TypeOK, SequenceInv, NEW r \in Requests, Config(r)
    PROVE  SequenceInv'
<1>1. req[r] \in Request
  BY DEF TypeOK
<1> DEFINE here == {"config.again", "config.release", "config.retire", "config.latest",
                    "config.publish", "config.attach", "config.activate", "config.version"}
<1>2. /\ here \cap (Called \cup Orphaned \cup Heeding) = {}
      /\ (here \ {"config.again"}) \cap Owned = {}
      /\ "roll.wait" \notin here
  BY DEF Called, Deploying, Undeploying, Orphaned, Owned, DeleteLabels, Heeding, Unrecorded
<1>3. CASE ConfigAgain(r)
  <2> DEFINE q == [req[r] EXCEPT !.adds = req[r].items, !.dels = {}]
             back == <<"config.release">>
             n == Call(q, "regions.read", back)
  <2>1. Shaped(q) /\ q.ret = req[r].ret /\ q.kind = req[r].kind
    BY <1>1 DEF Request, Shaped
  <2>2. req[r].ret \in Seq(Awaits(req[r].kind)) /\ app.exists
        /\ req[r].kind \in {"redeploy", "revert"}
    BY <1>3 DEF SequenceInv, InPlace, RowKnows, ConfigAgain, At, Undeploying
  <2>3. back \in Seq(Awaits(q.kind))
    <3> DEFINE own == Awaits(q.kind)
    <3>1. "config.release" \in own
      BY <2>1, <2>2 DEF Awaits
    <3> HIDE DEF own
    <3>2. back \in Seq(own)
      BY <3>1
    <3> QED
      BY <3>2 DEF own
  <2>4. "regions.read" \notin Called \cup Owned \cup Heeding
    BY DEF Called, Deploying, Undeploying, Owned, DeleteLabels, Heeding, Unrecorded
  <2> HIDE DEF q, back
  <2>5. InPlace(n) /\ n.pc = "regions.read"
    BY <2>1, <2>2, <2>3, <2>4, CallPlace, CallFields
  <2> HIDE DEF n
  <2>6. Become(r, n) /\ At(r, "config.again") /\ Reads
    BY <1>3 DEF ConfigAgain, n, q, back
  <2> QED
    BY <2>2, <2>4, <2>5, <2>6, NobodyWorks, CalmSeq DEF At, Reads
<1>4. CASE ConfigRelease(r)
  <2>1. PICK x \in GetAppRelease("active") :
          Become(r, [req[r] EXCEPT !.pc = "config.retire", !.rel = x])
    BY <1>4 DEF ConfigRelease, ReleaseRead
  <2> DEFINE n == [req[r] EXCEPT !.pc = "config.retire", !.rel = x]
  <2>2. n.pc = "config.retire" /\ n.ret = req[r].ret /\ n.kind = req[r].kind
    BY <1>1 DEF Request
  <2> HIDE DEF n
  <2> QED
    BY <1>2, <1>4, <2>1, <2>2, SetSeq DEF ConfigRelease, ReleaseRead, At, n
<1>5. CASE ConfigRetire(r)
  <2>1. PICK label \in {"config.activate", "config.latest"} : Become(r, Goto(req[r], label))
    BY <1>5 DEF ConfigRetire, ReleaseRetire
  <2> QED
    BY <1>2, <1>5, <2>1, GotoSeq DEF ConfigRetire, ReleaseRetire, At, OnlyRelease, Same
<1>6. CASE ConfigLatest(r)
  <2>1. PICK v \in GetLatestVersion :
          Become(r, [req[r] EXCEPT !.pc = "config.publish", !.version = v + 1])
    BY <1>6 DEF ConfigLatest
  <2> DEFINE n == [req[r] EXCEPT !.pc = "config.publish", !.version = v + 1]
  <2>2. n.pc = "config.publish" /\ n.ret = req[r].ret /\ n.kind = req[r].kind
    BY <1>1 DEF Request
  <2> HIDE DEF n
  <2> QED
    BY <1>2, <1>6, <2>1, <2>2, SetSeq DEF ConfigLatest, At, n
<1>7. CASE ConfigPublish(r)
  <2> DEFINE n == [req[r] EXCEPT !.pc = "config.attach", !.fresh = nextRelease]
  <2>1. n.pc = "config.attach" /\ n.ret = req[r].ret /\ n.kind = req[r].kind
    BY <1>1 DEF Request
  <2>2. UNCHANGED <<app, row, nextDeployment, worker>> /\ At(r, "config.publish")
    BY <1>7 DEF ConfigPublish, ReleasePublish, Same
  <2>3. End(r) \/ Become(r, n)
    BY <1>7 DEF ConfigPublish, ReleasePublish
  <2> HIDE DEF n
  <2> QED
    BY <1>2, <2>1, <2>2, <2>3, EndSeq, StaySeq DEF At
<1>8. CASE ConfigAttach(r)
  <2> DEFINE n == Goto(req[r], "config.version")
  <2>2. n.ret = req[r].ret /\ n.kind = req[r].kind /\ n.pc = "config.version"
    BY <1>1 DEF Goto, Request
  <2>3. At(r, "config.attach") /\ UNCHANGED <<app, nextDeployment, worker>> /\ Become(r, n)
    BY <1>8 DEF ConfigAttach, OnlyRow, Same
  <2> HIDE DEF n
  <2>4. \A d \in DeploymentIds : row'[d].status = row[d].status
    BY <1>8 DEF ConfigAttach, UpdateDeploymentsReleaseId, TypeOK, TablesTypeOK, DeploymentRow
  <2>5. InPlace(n) /\ app.exists
    BY <1>2, <2>2, <2>3, StayPlace DEF SequenceInv, RowKnows, At, Orphaned
  <2>6. \A d \in DeploymentIds : d >= nextDeployment' => row'[d].status = "none"
    BY <2>3, <2>4 DEF SequenceInv
  <2> QED
    BY <1>2, <2>2, <2>3, <2>5, <2>6, NobodyWorks, LooseSeq DEF At
<1>9. CASE ConfigActivate(r)
  BY <1>2, <1>9, GotoSeq DEF ConfigActivate, At, OnlyRelease, Same
<1>10. CASE ConfigVersion(r)
  BY <1>2, <1>10, EndSeq DEF ConfigVersion, At, OnlyApp, Same
<1> QED
  BY <1>3, <1>4, <1>5, <1>6, <1>7, <1>8, <1>9, <1>10 DEF Config

-----------------------------------------------------------------------------
(***************************************************************************)
(* Deletions                                                               *)
(***************************************************************************)
\* UnDeploy returns to a statement that knows nothing of the rows.
LEMMA UndeployReturns ==
    ASSUME TypeOK, SequenceInv, NEW r \in Requests, req[r].pc \in Undeploying
    PROVE  /\ InPlace(Return(req[r])) /\ Alike(req[r], Return(req[r]))
           /\ Return(req[r]).pc = Head(req[r].ret)
           /\ Return(req[r]).pc \in {"standby.drop", "regions.del", "regions.read"}
<1> DEFINE q == req[r]
           callers == UndeployCallers(q.kind)
<1>1. Shaped(q) /\ CalledFrom(q, callers)
  BY DEF TypeOK, Shaped, SequenceInv, InPlace, Undeploying
<1>2. callers \subseteq {"standby.drop", "regions.del", "regions.read"}
  BY DEF UndeployCallers
<1> QED
  BY <1>1, <1>2, ReturnCalledPlace

\* A mark inserts no row and takes none away.
LEMMA MarkKeeps ==
    ASSUME TypeOK, NEW status, NEW id, NEW d \in DeploymentIds
    PROVE  LET marked == UpdateDeploymentsRecord(status, id)
           IN  /\ row[d].status = "none" => marked[d] = row[d]
               /\ marked[d].named = row[d].named
               /\ IF d \in Rows /\ DeploymentId(d) = id THEN marked[d].status = status
                  ELSE marked[d].status = row[d].status
  BY DEF UpdateDeploymentsRecord, Rows, TypeOK, TablesTypeOK, DeploymentRow

\* UnDeploy leaves every row where it was, or marks one.
LEMMA UndeploySeq ==
    ASSUME Alone, TypeOK, SequenceInv, NEW r \in Requests, UnDeploy(r)
    PROVE  SequenceInv'
<1>1. req[r] \in Request
  BY DEF TypeOK
<1>2. Undeploying \cap (Orphaned \cup Owned \cup Heeding \cup Deploying \cup {"roll.wait"}) = {}
  BY DEF Deploying, Undeploying, Orphaned, Owned, DeleteLabels, Heeding, Unrecorded
<1>3. req[r].pc \in Undeploying
  BY DEF UnDeploy, UndeployFind, UndeployRoute, UndeployPods, UndeployService, UndeployMark,
         UndeployFails, Undeploying, At
<1>4. app.exists /\ \A d \in DeploymentIds : worker[r][d].stage = "off"
  BY <1>2, <1>3, NobodyWorks DEF SequenceInv, RowKnows, Orphaned
<1> DEFINE n == Return(req[r])
<1>5. InPlace(n) /\ n.pc \notin Heeding
  BY <1>3, UndeployReturns DEF Heeding, Unrecorded
<1> HIDE DEF n
<1>6. ASSUME Become(r, n), app'.exists = app.exists, UNCHANGED <<row, nextDeployment, worker>>
      PROVE  SequenceInv'
  BY <1>4, <1>5, <1>6, CalmSeq
<1>7. ASSUME NEW label \in Undeploying, Become(r, Goto(req[r], label)),
             app'.exists = app.exists, UNCHANGED <<row, nextDeployment, worker>>
      PROVE  SequenceInv'
  BY <1>2, <1>3, <1>7, GotoSeq
<1>8. CASE UndeployFind(r)
  <2>1. PICK d \in GetDeploymentsRecordSingle(req[r].region, "running") :
          Become(r, [req[r] EXCEPT !.pc = "undeploy.route", !.dep = d])
    BY <1>8 DEF UndeployFind
  <2> DEFINE m == [req[r] EXCEPT !.pc = "undeploy.route", !.dep = d]
  <2>2. m.pc = "undeploy.route" /\ m.ret = req[r].ret /\ m.kind = req[r].kind
    BY <1>1 DEF Request
  <2>3. "undeploy.route" \in Undeploying
    BY DEF Undeploying
  <2> HIDE DEF m
  <2>4. Become(r, m) /\ UNCHANGED <<app, row, nextDeployment, worker>>
    BY <1>8, <2>1 DEF m, UndeployFind, Reads
  <2> QED
    BY <1>2, <1>3, <2>2, <2>3, <2>4, StaySeq
<1>9. CASE UndeployFails(r)
  <2>1. UNCHANGED <<app, row, nextDeployment, worker>> /\ (End(r) \/ Become(r, n))
    BY <1>9 DEF UndeployFails, Reads, End, n
  <2> QED
    BY <1>2, <1>3, <1>6, <2>1, EndSeq
<1>10. CASE UndeployRoute(r)
  <2>1. app'.exists = app.exists /\ UNCHANGED <<row, nextDeployment, worker>>
    BY <1>10 DEF UndeployRoute, OnlyApp, Same, TypeOK, TablesTypeOK, AppRow
  <2>2. "undeploy.pods" \in Undeploying
    BY DEF Undeploying
  <2>3. Become(r, Goto(req[r], "undeploy.pods")) \/ End(r) \/ Become(r, n)
    BY <1>10 DEF UndeployRoute, n
  <2> QED
    BY <1>2, <1>3, <1>6, <1>7, <2>1, <2>2, <2>3, EndSeq
<1>11. CASE (UndeployPods(r) \/ UndeployService(r)) /\ ~UndeployFails(r)
  <2>1. UNCHANGED <<app, row, nextDeployment, worker>>
    BY <1>11 DEF UndeployPods, UndeployService, OnlyCluster, Same
  <2>2. {"undeploy.service", "undeploy.mark"} \subseteq Undeploying
    BY DEF Undeploying
  <2>3. \E label \in {"undeploy.service", "undeploy.mark"} : Become(r, Goto(req[r], label))
    BY <1>11 DEF UndeployPods, UndeployService
  <2> QED
    BY <1>7, <2>1, <2>2, <2>3
<1>12. CASE UndeployMark(r)
  <2>1. /\ row' = UpdateDeploymentsRecord("destroyed", DeploymentId(req[r].dep))
        /\ Become(r, n) /\ UNCHANGED <<app, nextDeployment, worker>>
    BY <1>12 DEF UndeployMark, OnlyRow, Same, n
  <2>2. \A d \in DeploymentIds : d >= nextDeployment' => row'[d].status = "none"
    BY <2>1, MarkKeeps DEF SequenceInv
  <2> QED
    BY <1>4, <1>5, <2>1, <2>2, LooseSeq
<1> QED
  BY <1>8, <1>9, <1>10, <1>11, <1>12 DEF UnDeploy

\* DeleteApp.
LEMMA DeleteSeq ==
    ASSUME Alone, TypeOK, SequenceInv, NEW r \in Requests, Delete(r)
    PROVE  SequenceInv'
<1> DEFINE q == req[r]
<1>1. q \in Request /\ Shaped(q)
  BY DEF TypeOK, Shaped
<1>2. DeleteLabels \cap (Called \cup Heeding \cup {"roll.wait"}) = {}
  BY DEF Called, Deploying, Undeploying, DeleteLabels, Heeding, Unrecorded
<1>3. q.pc \in DeleteLabels
  BY DEF Delete, DeleteRead, DeleteCheck, DeleteRecord, DeleteRows, DeleteReleases,
         DeleteLabels, At
<1>4. InPlace(q) /\ q.kind = "delete" /\ q.ret \in Seq(Awaits(q.kind))
  BY <1>2, <1>3 DEF SequenceInv, InPlace, Called, Deploying
<1>5. \A d \in DeploymentIds : worker[r][d].stage = "off"
  BY <1>2, <1>3, NobodyWorks
<1>6. ASSUME NEW label \in DeleteLabels, Become(r, Goto(q, label)),
             app'.exists \/ label \in Orphaned,
             \A d \in DeploymentIds : d >= nextDeployment' => row'[d].status = "none",
             UNCHANGED worker
      PROVE  SequenceInv'
  <2> DEFINE n == Goto(q, label)
  <2>1. n.ret = q.ret /\ n.kind = q.kind /\ n.pc = label
    BY <1>1, GotoFields DEF Alike
  <2> HIDE DEF q, n
  <2>2. InPlace(n)
    BY <1>2, <1>3, <1>4, <2>1, OwnPlace
  <2>3. Become(r, n)
    BY <1>6 DEF n
  <2> QED
    BY <1>2, <1>5, <1>6, <2>1, <2>2, <2>3, LooseSeq DEF q
<1>7. ASSUME NEW n, Become(r, n), InPlace(n), n.pc \in {"status.release", "undeploy.find"},
             app.exists, Reads
      PROVE  SequenceInv'
  BY <1>5, <1>7, CalmSeq DEF Reads, Heeding, Unrecorded
<1>8. CASE DeleteRead(r)
  <2>1. CASE ~app.exists
    BY <1>2, <1>3, <1>8, <2>1, EndSeq DEF DeleteRead, Reads
  <2>2. CASE app.exists /\ q.region = NoRegion
    <3>1. PICK back \in {<<>>, <<"delete.bare">>} : Become(r, Call(q, "status.release", back))
      BY <1>8, <2>2 DEF DeleteRead
    <3> DEFINE n == Call(q, "status.release", back)
    <3>2. back \in Seq(Awaits(q.kind))
      <4> DEFINE own == Awaits(q.kind)
      <4>1. "delete.bare" \in own
        BY <1>4 DEF Awaits
      <4> HIDE DEF own
      <4>2. <<>> \in Seq(own) /\ <<"delete.bare">> \in Seq(own)
        BY <4>1
      <4> QED
        BY <4>2 DEF own
    <3>3. "status.release" \notin Called \cup Owned
      BY DEF Called, Deploying, Undeploying, Owned, DeleteLabels
    <3>4. InPlace(n) /\ n.pc = "status.release"
      BY <1>1, <1>4, <3>2, <3>3, CallPlace, CallFields
    <3> HIDE DEF n
    <3>5. Become(r, n) /\ Reads
      BY <1>8, <3>1 DEF DeleteRead, n
    <3> QED
      BY <1>7, <2>2, <3>4, <3>5
  <2>3. CASE app.exists /\ q.region # NoRegion
    <3> DEFINE back == <<"delete.check">>
               n == Call(q, "undeploy.find", <<"regions.read">> \o back)
    <3>1. back \in Seq(Awaits(q.kind)) /\ "regions.read" \in UndeployCallers(q.kind)
      <4> DEFINE own == Awaits(q.kind)
      <4>1. "delete.check" \in own
        BY <1>4 DEF Awaits
      <4> HIDE DEF own
      <4>2. back \in Seq(own)
        BY <4>1
      <4> QED
        BY <1>4, <4>2 DEF own, UndeployCallers
    <3>2. <<"regions.read">> \o back = <<"regions.read", "delete.check">>
      BY PushTwo
    <3> HIDE DEF back
    <3>3. InPlace(n) /\ n.pc = "undeploy.find"
      BY <1>1, <1>4, <3>1, CallUndeployPlace, CallFields
    <3>4. Become(r, n) /\ Reads
      BY <1>8, <2>3, <3>2 DEF DeleteRead
    <3> HIDE DEF n
    <3> QED
      BY <1>7, <2>3, <3>3, <3>4
  <2> QED
    BY <2>1, <2>2, <2>3
<1>9. \A d \in DeploymentIds : d >= nextDeployment => row[d].status = "none"
  BY DEF SequenceInv
<1>10. CASE DeleteCheck(r)
  <2>1. app.exists
    BY <1>10 DEF DeleteCheck, At, SequenceInv, RowKnows
  <2>2. "delete.app" \in DeleteLabels
    BY DEF DeleteLabels
  <2>3. End(r) \/ Become(r, Goto(q, "delete.app"))
    BY <1>10 DEF DeleteCheck, End
  <2> QED
    BY <1>2, <1>3, <1>6, <1>9, <1>10, <2>1, <2>2, <2>3, EndSeq DEF DeleteCheck, Reads
<1>11. CASE DeleteRecord(r)
  <2>1. "delete.rows" \in DeleteLabels \cap Orphaned
    BY DEF DeleteLabels, Orphaned
  <2>2. End(r) \/ Become(r, Goto(q, "delete.rows"))
    BY <1>11 DEF DeleteRecord, End
  <2>3. UNCHANGED <<row, nextDeployment, worker>>
    BY <1>11 DEF DeleteRecord, OnlyApp, Same
  <2> QED
    BY <1>2, <1>3, <1>6, <1>9, <2>1, <2>2, <2>3, EndSeq
<1>12. CASE DeleteRows(r)
  <2>1. "delete.releases" \in DeleteLabels \cap Orphaned
    BY DEF DeleteLabels, Orphaned
  <2>2. \A d \in DeploymentIds : row'[d].status = "none"
    BY <1>12 DEF DeleteRows, TypeOK, TablesTypeOK, DeploymentRow
  <2>3. Become(r, Goto(q, "delete.releases")) /\ UNCHANGED worker
    BY <1>12 DEF DeleteRows, Same
  <2> QED
    BY <1>6, <2>1, <2>2, <2>3
<1>13. CASE DeleteReleases(r)
  BY <1>2, <1>3, <1>13, EndSeq DEF DeleteReleases, OnlyRelease, Same
<1> QED
  BY <1>8, <1>10, <1>11, <1>12, <1>13 DEF Delete

-----------------------------------------------------------------------------
(***************************************************************************)
(* Steps after which the request knows something of the rows               *)
(***************************************************************************)
\* A step of the only request.
LEMMA ActSeq ==
    ASSUME Alone, TypeOK, NEW r \in Requests, NEW n, Become(r, n),
           InPlace(n), RowKnows(n)', \A d \in DeploymentIds : ReplacerKnows(r, d)',
           \A d \in DeploymentIds : d >= nextDeployment' => row'[d].status = "none"
    PROVE  SequenceInv'
<1>1. req'[r] = n /\ \A s \in Requests : s = r
  BY DEF Become, TypeOK, Alone
<1> QED
  BY <1>1 DEF SequenceInv

\* Moreover nobody works for it.
LEMMA SoleSeq ==
    ASSUME Alone, TypeOK, SequenceInv, NEW r \in Requests, req[r].pc # "roll.wait",
           NEW n, Become(r, n), InPlace(n), RowKnows(n)', UNCHANGED worker,
           \A d \in DeploymentIds : d >= nextDeployment' => row'[d].status = "none"
    PROVE  SequenceInv'
<1>1. \A d \in DeploymentIds : worker'[r][d].stage = "off"
  BY NobodyWorks
<1>2. \A d \in DeploymentIds : ReplacerKnows(r, d)'
  BY <1>1 DEF ReplacerKnows
<1> QED
  BY <1>2, ActSeq

\* SuspendResumePods marks the row it has found.
LEMMA ScaleSeq ==
    ASSUME Alone, TypeOK, SequenceInv, NEW r \in Requests, SuspendResumePods(r)
    PROVE  SequenceInv'
<1> DEFINE q == req[r]
           here == {"scale.find", "scale.pods", "scale.mark"}
<1>1. q \in Request
  BY DEF TypeOK
<1>2. (here \cup {"status.release"}) \cap (Called \cup Orphaned \cup Owned \cup {"roll.wait"}) = {}
  BY DEF Called, Deploying, Undeploying, Orphaned, Owned, DeleteLabels
<1>3. q.pc \in here
  BY DEF SuspendResumePods, ScaleFind, ScalePods, ScaleMark, At
<1>4. InPlace(q) /\ RowKnows(q) /\ app.exists
  BY <1>2, <1>3 DEF SequenceInv, RowKnows, Orphaned
<1>5. \A d \in DeploymentIds : d >= nextDeployment => row[d].status = "none"
  BY DEF SequenceInv
<1>6. CASE ScaleFind(r)
  <2>1. PICK d \in GetDeploymentsRecordSingle(q.region, q.from) :
          Become(r, [q EXCEPT !.pc = "scale.pods", !.dep = d])
    BY <1>6 DEF ScaleFind
  <2>0. PICK n : n = [q EXCEPT !.pc = "scale.pods", !.dep = d]
    OBVIOUS
  <2>2. n.pc = "scale.pods" /\ n.ret = q.ret /\ n.kind = q.kind /\ n.dep = d /\ n.from = q.from
    BY <1>1, <2>0 DEF Request
  <2>3. d # NoDeployment => row[d].status = q.from
    BY <2>1 DEF GetDeploymentsRecordSingle, OrElse
  <2>4. Become(r, n) /\ UNCHANGED <<app, row, nextDeployment, worker>>
    BY <1>6, <2>1, <2>0 DEF ScaleFind, Reads
  <2>5. InPlace(n)
    BY <1>2, <1>3, <1>4, <2>2, StayPlace
  <2>6. RowKnows(n)'
    BY <1>4, <2>2, <2>3, <2>4 DEF RowKnows, Unrecorded
  <2> QED
    BY <1>2, <1>3, <1>5, <2>4, <2>5, <2>6, SoleSeq
<1>7. CASE ScalePods(r)
  <2>0. PICK n : n = Goto(q, "scale.mark")
    OBVIOUS
  <2>1. n.pc = "scale.mark" /\ n.ret = q.ret /\ n.kind = q.kind /\ n.dep = q.dep /\ n.from = q.from
    BY <1>1, <2>0 DEF Request, Goto
  <2>2. UNCHANGED <<app, row, nextDeployment, worker>>
    BY <1>7 DEF ScalePods, OnlyCluster, Same
  <2>3. CASE End(r)
    BY <1>2, <1>3, <2>2, <2>3, EndSeq
  <2>4. CASE Become(r, n) /\ DeploymentId(q.dep) # NoDeployment
    <3>1. q.dep # NoDeployment /\ row[q.dep].named /\ row[q.dep].status = q.from
      BY <1>4, <1>7, <2>4 DEF DeploymentId, RowKnows, ScalePods, At
    <3>2. InPlace(n)
      BY <1>2, <1>3, <1>4, <2>1, StayPlace
    <3>3. RowKnows(n)'
      BY <1>4, <2>1, <2>2, <3>1 DEF RowKnows, Unrecorded
    <3> QED
      BY <1>2, <1>3, <1>5, <2>2, <2>4, <3>2, <3>3, SoleSeq
  <2> QED
    BY <1>7, <2>3, <2>4, <2>0 DEF ScalePods
<1>8. CASE ScaleMark(r)
  <2> DEFINE n == Goto(q, "status.release")
             status == IF q.from = "running" THEN "suspended" ELSE "running"
  <2>1. n.pc = "status.release" /\ n.ret = q.ret /\ n.kind = q.kind
    BY <1>1 DEF Request, Goto
  <2>2. /\ row' = UpdateDeploymentsRecord(status, DeploymentId(q.dep))
        /\ Become(r, n) /\ UNCHANGED <<app, nextDeployment, worker>>
    BY <1>8 DEF ScaleMark, OnlyRow, Same
  <2> HIDE DEF n, status
  <2>3. \A d \in DeploymentIds : d >= nextDeployment' => row'[d].status = "none"
    BY <1>5, <2>2, MarkKeeps
  <2>4. InPlace(n)
    BY <1>2, <1>3, <1>4, <2>1, StayPlace
  <2>5. n.pc \notin Heeding
    BY <2>1 DEF Heeding, Unrecorded
  <2> QED
    BY <1>2, <1>3, <1>4, <2>2, <2>3, <2>4, <2>5, NobodyWorks, LooseSeq
<1> QED
  BY <1>6, <1>7, <1>8 DEF SuspendResumePods

\* CreateNewAppRelease starts a goroutine for every row it has read.
LEMMA RollSeq ==
    ASSUME Alone, TypeOK, SequenceInv, NEW r \in Requests, CreateNewAppRelease(r)
    PROVE  SequenceInv'
<1> DEFINE q == req[r]
           here == {"roll.current", "roll.app", "roll.rows", "roll.wait", "roll.retire",
                    "roll.publish", "roll.version"}
<1>1. q \in Request
  BY DEF TypeOK
<1>2. here \cap (Called \cup Orphaned \cup Owned) = {}
      /\ {"roll.current", "roll.app", "roll.retire", "roll.publish", "roll.version"}
            \cap (Heeding \cup {"roll.wait"}) = {}
  BY DEF Called, Deploying, Undeploying, Orphaned, Owned, DeleteLabels, Heeding, Unrecorded
<1>3. q.pc \in here
  BY DEF CreateNewAppRelease, RollCurrent, RollApp, RollRows, RollWait, RollRetire,
         RollPublish, RollVersion, At
<1>4. InPlace(q) /\ RowKnows(q) /\ app.exists
  BY <1>2, <1>3 DEF SequenceInv, RowKnows, Orphaned
<1>5. \A d \in DeploymentIds : d >= nextDeployment => row[d].status = "none"
  BY DEF SequenceInv
<1>6. CASE RollCurrent(r)
  <2>1. PICK x \in GetAppRelease("active") :
          Become(r, [q EXCEPT !.pc = "roll.app", !.version = VersionOf(x)])
    BY <1>6 DEF RollCurrent
  <2> DEFINE n == [q EXCEPT !.pc = "roll.app", !.version = VersionOf(x)]
  <2>2. n.pc = "roll.app" /\ n.ret = q.ret /\ n.kind = q.kind
    BY <1>1 DEF Request
  <2> HIDE DEF n
  <2> QED
    BY <1>2, <1>6, <2>1, <2>2, SetSeq DEF RollCurrent, At, n
<1>7. CASE RollApp(r)
  <2>0. PICK n : n = [q EXCEPT !.pc = "roll.rows",
                               !.seen = IF app.exists THEN app.status ELSE Gone]
    OBVIOUS
  <2>1. n.pc = "roll.rows" /\ n.ret = q.ret /\ n.kind = q.kind /\ n.seen = app.status
    BY <1>1, <1>4, <2>0 DEF Request
  <2>2. app.status # Gone
    BY DEF TypeOK, TablesTypeOK, AppRow, AppStatus, Gone
  <2>3. Become(r, n) /\ At(r, "roll.app") /\ UNCHANGED <<app, row, nextDeployment, worker>>
    BY <1>7, <2>0 DEF RollApp, Reads
  <2>4. InPlace(n)
    BY <1>2, <1>3, <1>4, <2>1, StayPlace
  <2>5. RowKnows(n)'
    BY <1>4, <2>1, <2>2, <2>3 DEF RowKnows, Unrecorded
  <2> QED
    BY <1>5, <2>3, <2>4, <2>5, SoleSeq DEF At
<1>8. CASE RollRows(r)
  <2>0. PICK n : n = [q EXCEPT !.pc = "roll.wait", !.fresh = nextRelease]
    OBVIOUS
  <2> DEFINE read == GetDeploymentsByReleaseId(q.rel)
  <2>1. n.pc = "roll.wait" /\ n.ret = q.ret /\ n.kind = q.kind /\ n.seen = q.seen
    BY <1>1, <2>0 DEF Request
  <2>2. /\ Become(r, n) /\ At(r, "roll.rows") /\ UNCHANGED <<app, row, nextDeployment>>
        /\ worker' = [worker EXCEPT ![r] =
                        [d \in DeploymentIds |->
                            IF d \in read THEN [NoWorker EXCEPT !.stage = "delete"] ELSE NoWorker]]
    BY <1>8, <2>0 DEF RollRows
  <2>3. \A d \in DeploymentIds :
          worker'[r][d] = IF d \in read THEN [NoWorker EXCEPT !.stage = "delete"] ELSE NoWorker
    BY <2>2 DEF TypeOK
  <2>4. read \subseteq Rows
    BY DEF GetDeploymentsByReleaseId
  <2> HIDE DEF read
  <2>5. \A d \in DeploymentIds :
          worker'[r][d].stage = IF d \in read THEN "delete" ELSE "off"
    BY <2>3 DEF NoWorker
  <2>6. InPlace(n)
    BY <1>2, <1>3, <1>4, <2>1, StayPlace
  <2>7. RowKnows(n)'
    BY <1>4, <2>1, <2>2 DEF RowKnows, Unrecorded, At
  <2>8. At(r, "roll.wait")'
    BY <2>1, <2>2 DEF At, Become, TypeOK
  <2>9. \A d \in DeploymentIds : ReplacerKnows(r, d)'
    BY <2>2, <2>4, <2>5, <2>8 DEF ReplacerKnows, Rows
  <2> QED
    BY <1>5, <2>2, <2>6, <2>7, <2>9, ActSeq
<1>9. CASE RollWait(r)
  <2> DEFINE n == Goto(q, "roll.retire")
  <2>1. n.pc = "roll.retire" /\ n.ret = q.ret /\ n.kind = q.kind
    BY <1>1 DEF Request, Goto
  <2> HIDE DEF n
  <2>2. Become(r, n) /\ UNCHANGED <<app, row, nextDeployment, worker>>
    BY <1>9 DEF n, RollWait, Reads
  <2>3. \A d \in DeploymentIds : worker[r][d].stage = "off"
    BY <1>9 DEF RollWait
  <2>4. InPlace(n)
    BY <1>2, <1>3, <1>4, <2>1, StayPlace
  <2> QED
    BY <1>2, <1>4, <2>1, <2>2, <2>3, <2>4, CalmSeq
<1>10. CASE RollRetire(r) \/ RollPublish(r)
  BY <1>2, <1>10, GotoSeq DEF RollRetire, RollPublish, At, OnlyRelease, Same
<1>11. CASE RollVersion(r)
  BY <1>2, <1>11, EndSeq DEF RollVersion, At, OnlyApp, Same
<1> QED
  BY <1>6, <1>7, <1>8, <1>9, <1>10, <1>11 DEF CreateNewAppRelease

\* What is inserted is running.
LEMMA RecordKeeps ==
    ASSUME TypeOK, NEW d \in DeploymentIds, NEW x, NEW named,
           row' = CreateDeploymentsRecord(d, x, named)
    PROVE  /\ \A e \in DeploymentIds : e # d => row'[e] = row[e]
           /\ row'[d].status = "running" /\ row'[d].release = x /\ row'[d].named = named
  BY DEF CreateDeploymentsRecord, TypeOK, TablesTypeOK

\* A step of a goroutine of the only request.
LEMMA StagedSeq ==
    ASSUME Alone, TypeOK, SequenceInv, NEW r \in Requests, UNCHANGED <<app, req>>,
           At(r, "roll.wait"), \A d \in DeploymentIds : ReplacerKnows(r, d)',
           \A d \in DeploymentIds : d >= nextDeployment' => row'[d].status = "none"
    PROVE  SequenceInv'
<1>1. \A s \in Requests : s = r
  BY DEF Alone
<1>2. InPlace(req'[r])
  BY DEF SequenceInv
<1>3. RowKnows(req[r])
  BY DEF SequenceInv
<1>4. PICK q : q = req[r]
  OBVIOUS
<1>5. RowKnows(q)'
  BY <1>3, <1>4 DEF RowKnows, At, Unrecorded
<1> QED
  BY <1>1, <1>2, <1>4, <1>5 DEF SequenceInv

\* A goroutine destroys before it inserts, and inserts what it has created.
LEMMA WorkSeq ==
    ASSUME Alone, TypeOK, SequenceInv, NEW r \in Requests, NEW d \in DeploymentIds,
           Work(r, d), ~WorkerPanic(r, d)
    PROVE  SequenceInv'
<1>1. \A e \in DeploymentIds : ReplacerKnows(r, e) /\ worker[r][e] \in Worker
  BY DEF SequenceInv, TypeOK
<1>2. worker[r][d].stage # "off"
  BY DEF Work, WorkerDelete, WorkerMark, WorkerCreate, WorkerRecord
<1>3. At(r, "roll.wait") /\ d \in Rows
  BY <1>1, <1>2 DEF ReplacerKnows
<1>4. \A e \in DeploymentIds : e >= nextDeployment => row[e].status = "none"
  BY DEF SequenceInv
<1>5. \A w : Stage(r, d, w) => /\ worker'[r][d] = w
                               /\ \A e \in DeploymentIds : e # d => worker'[r][e] = worker[r][e]
  BY DEF Stage, TypeOK
<1>6. nextDeployment \in Nat
  BY IdsAreNat, TablesAssumption DEF TypeOK, TablesTypeOK
<1>7. CASE WorkerDelete(r, d)
  <2>1. PICK w : w = [worker[r][d] EXCEPT !.stage = "mark"]
    OBVIOUS
  <2>2. /\ worker[r][d].stage = "delete" /\ Stage(r, d, w)
        /\ UNCHANGED <<app, req, row, nextDeployment>>
    BY <1>7, <2>1 DEF WorkerDelete, OnlyCluster
  <2>3. w.stage = "mark"
    BY <1>1, <2>1 DEF Worker
  <2>4. At(r, "roll.wait")'
    BY <1>3, <2>2 DEF At
  <2>5. \A e \in DeploymentIds : ReplacerKnows(r, e)'
    BY <1>1, <1>3, <1>5, <2>2, <2>3, <2>4 DEF ReplacerKnows, Rows
  <2> QED
    BY <1>3, <1>4, <2>2, <2>5, StagedSeq
<1>8. CASE WorkerMark(r, d)
  <2>1. PICK w : w = [worker[r][d] EXCEPT !.stage = "create"]
    OBVIOUS
  <2>2. /\ worker[r][d].stage = "mark" /\ Stage(r, d, w)
        /\ UNCHANGED <<app, req, nextDeployment>>
        /\ row' = UpdateDeploymentsRecord("destroyed", DeploymentId(d))
    BY <1>8, <2>1 DEF WorkerMark, OnlyRow
  <2>3. w.stage = "create"
    BY <1>1, <2>1 DEF Worker
  <2>4. At(r, "roll.wait")'
    BY <1>3, <2>2 DEF At
  <2>5. \A e \in DeploymentIds :
          /\ row[e].status \in {"none", "destroyed"} => row'[e].status = row[e].status
          /\ row[e].status # "none" => row'[e].status # "none"
          /\ e = d => row'[e].status = "destroyed"
    BY <1>3, <2>2, MarkKeeps DEF Rows
  <2>6. \A e \in DeploymentIds : ReplacerKnows(r, e)'
    <3> SUFFICES ASSUME NEW e \in DeploymentIds PROVE ReplacerKnows(r, e)'
      OBVIOUS
    <3>1. CASE e = d
      BY <1>1, <1>3, <1>5, <2>2, <2>3, <2>4, <2>5, <3>1 DEF ReplacerKnows, Rows
    <3>2. CASE e # d
      <4>1. worker'[r][e] = worker[r][e] /\ ReplacerKnows(r, e)
        BY <1>1, <1>5, <2>2, <3>2
      <4>2. worker[r][e].new \in DeploymentIds \cup {NoDeployment}
        BY <1>1 DEF Worker
      <4>3. \A f \in DeploymentIds : worker'[r][f].stage = "record" =>
              f # d /\ worker'[r][f] = worker[r][f]
        BY <1>5, <2>2, <2>3
      <4> QED
        BY <2>2, <2>4, <2>5, <4>1, <4>2, <4>3 DEF ReplacerKnows, Rows
    <3> QED
      BY <3>1, <3>2
  <2>7. \A e \in DeploymentIds : e >= nextDeployment' => row'[e].status = "none"
    BY <1>4, <2>2, <2>5
  <2> QED
    BY <1>3, <2>2, <2>6, <2>7, StagedSeq
<1>9. CASE WorkerCreate(r, d)
  <2>1. PICK w, new : /\ w = [stage |-> "record", new |-> new]
                      /\ Stage(r, d, w)
                      /\ \/ new = nextDeployment /\ nextDeployment' = nextDeployment + 1
                         \/ new = NoDeployment
    BY <1>9 DEF WorkerCreate
  <2>2. /\ worker[r][d].stage = "create" /\ UNCHANGED <<app, req, row>>
        /\ nextDeployment' \in {nextDeployment, nextDeployment + 1}
    BY <1>9 DEF WorkerCreate
  <2>3. w.stage = "record" /\ w.new = new
    BY <2>1
  <2>4. At(r, "roll.wait")' /\ row[d].status = "destroyed"
    BY <1>1, <1>3, <2>2 DEF At, ReplacerKnows
  <2>5. nextDeployment <= nextDeployment' /\ nextDeployment' \in Nat
    BY <1>6, <2>2
  <2>6. \A e \in DeploymentIds : worker[r][e].stage = "record" /\ worker[r][e].new # NoDeployment =>
            worker[r][e].new < nextDeployment /\ worker[r][e].new \in DeploymentIds
    BY <1>1 DEF ReplacerKnows, Worker
  <2>7. nextDeployment \in DeploymentIds
    BY <1>9 DEF WorkerCreate
  <2>8. \A e \in DeploymentIds : ReplacerKnows(r, e)'
    <3> SUFFICES ASSUME NEW e \in DeploymentIds PROVE ReplacerKnows(r, e)'
      OBVIOUS
    <3>1. CASE e = d
      <4>1. worker'[r][e] = w /\ e \in Rows' /\ row'[e].status = "destroyed"
        BY <1>3, <1>5, <2>1, <2>2, <2>4, <3>1 DEF Rows
      <4>2. CASE new = NoDeployment
        BY <2>3, <2>4, <4>1, <4>2 DEF ReplacerKnows
      <4>3. CASE new # NoDeployment
        <5>1. new = nextDeployment /\ new < nextDeployment' /\ row'[new].status = "none"
          BY <1>4, <1>6, <2>1, <2>2, <2>7, <4>3
        <5>2. \A f \in DeploymentIds : worker'[r][f].stage = "record" /\ worker'[r][f].new = new => f = d
          BY <1>5, <1>6, <2>1, <2>6, <4>3, <5>1
        <5> QED
          BY <2>3, <2>4, <3>1, <4>1, <5>1, <5>2 DEF ReplacerKnows
      <4> QED
        BY <4>2, <4>3
    <3>2. CASE e # d
      <4>1. worker'[r][e] = worker[r][e] /\ ReplacerKnows(r, e)
        BY <1>1, <1>5, <2>1, <3>2
      <4>2. worker[r][e].stage = "record" /\ worker[r][e].new # NoDeployment =>
              worker[r][e].new < nextDeployment' /\ worker[r][e].new # new
        BY <1>6, <2>1, <2>5, <2>6, IdsAreNat DEF NoDeployment
      <4>3. \A f \in DeploymentIds : worker'[r][f] = IF f = d THEN w ELSE worker[r][f]
        BY <1>5, <2>1
      <4> QED
        BY <2>2, <2>3, <2>4, <4>1, <4>2, <4>3 DEF ReplacerKnows, Rows
    <3> QED
      BY <3>1, <3>2
  <2>9. \A e \in DeploymentIds : e >= nextDeployment' => row'[e].status = "none"
    BY <1>4, <1>6, <2>2, <2>5, IdsAreNat
  <2> QED
    BY <1>3, <2>2, <2>8, <2>9, StagedSeq
<1>10. CASE WorkerRecord(r, d)
  <2> DEFINE w == worker[r][d]
  <2>1. Stage(r, d, NoWorker) /\ w.stage = "record" /\ UNCHANGED <<app, req>>
    BY <1>10 DEF WorkerRecord
  <2>2. NoWorker.stage = "off"
    BY DEF NoWorker
  <2>3. \A e \in DeploymentIds : worker'[r][e] = IF e = d THEN NoWorker ELSE worker[r][e]
    BY <1>5, <2>1
  <2>4. At(r, "roll.wait")'
    BY <1>3, <2>1 DEF At
  <2>5. \A e \in DeploymentIds : worker[r][e].stage = "record" /\ worker[r][e].new # NoDeployment =>
            worker[r][e].new < nextDeployment /\ worker[r][e].new \in DeploymentIds
    BY <1>1 DEF ReplacerKnows, Worker
  <2>6. ASSUME NEW n \in DeploymentIds, row[n].status = "none", n < nextDeployment',
               nextDeployment' \in {nextDeployment, nextDeployment + 1},
               \A e \in DeploymentIds : e # d /\ worker[r][e].stage = "record" =>
                    worker[r][e].new # n,
               \A e \in DeploymentIds : e # n => row'[e] = row[e],
               row'[n].status = "running"
        PROVE  SequenceInv'
    <3>1. \A e \in DeploymentIds : e >= nextDeployment' => row'[e].status = "none"
      BY <1>4, <1>6, <2>6, IdsAreNat
    <3>2. \A e \in DeploymentIds : ReplacerKnows(r, e)'
      <4> SUFFICES ASSUME NEW e \in DeploymentIds PROVE ReplacerKnows(r, e)'
        OBVIOUS
      <4>1. CASE e = d
        BY <2>2, <2>3, <4>1 DEF ReplacerKnows
      <4>2. CASE e # d
        <5>1. worker'[r][e] = worker[r][e] /\ ReplacerKnows(r, e)
          BY <1>1, <2>3, <4>2
        <5>2. e \in Rows => e \in Rows' /\ row'[e] = row[e]
          BY <2>6 DEF Rows
        <5>3. worker[r][e].stage = "record" /\ worker[r][e].new # NoDeployment =>
                /\ worker[r][e].new < nextDeployment'
                /\ row'[worker[r][e].new] = row[worker[r][e].new]
          BY <1>6, <2>5, <2>6, <4>2, IdsAreNat
        <5>4. \A f \in DeploymentIds : worker'[r][f].stage = "record" => worker'[r][f] = worker[r][f]
          BY <2>2, <2>3
        <5> QED
          BY <2>4, <5>1, <5>2, <5>3, <5>4 DEF ReplacerKnows
      <4> QED
        BY <4>1, <4>2
    <3> QED
      BY <1>3, <2>1, <3>1, <3>2, StagedSeq
  <2>7. CASE /\ w.new # NoDeployment
             /\ row' = CreateDeploymentsRecord(w.new, req[r].fresh, TRUE)
             /\ UNCHANGED nextDeployment
    <3>1. w.new \in DeploymentIds /\ w.new < nextDeployment /\ row[w.new].status = "none"
      BY <1>1, <2>1, <2>7 DEF ReplacerKnows, Worker
    <3>2. \A e \in DeploymentIds : e # d /\ worker[r][e].stage = "record" => worker[r][e].new # w.new
      BY <1>1, <2>1, <2>7 DEF ReplacerKnows
    <3>3. /\ \A e \in DeploymentIds : e # w.new => row'[e] = row[e]
          /\ row'[w.new].status = "running"
      BY <2>7, <3>1, RecordKeeps
    <3> QED
      BY <2>6, <2>7, <3>1, <3>2, <3>3
  <2>8. CASE /\ nextDeployment \in DeploymentIds
             /\ row' = CreateDeploymentsRecord(nextDeployment, req[r].fresh, FALSE)
             /\ nextDeployment' = nextDeployment + 1
    <3>1. nextDeployment < nextDeployment' /\ row[nextDeployment].status = "none"
      BY <1>4, <1>6, <2>8
    <3>2. \A e \in DeploymentIds : e # d /\ worker[r][e].stage = "record" =>
            worker[r][e].new # nextDeployment
      BY <1>6, <2>5, <2>8, IdsAreNat DEF NoDeployment
    <3>3. /\ \A e \in DeploymentIds : e # nextDeployment => row'[e] = row[e]
          /\ row'[nextDeployment].status = "running"
      BY <2>8, RecordKeeps
    <3> QED
      BY <2>6, <2>8, <3>1, <3>2, <3>3
  <2>9. CASE UNCHANGED <<row, nextDeployment>>
    <3>1. \A e \in DeploymentIds : ReplacerKnows(r, e)'
      BY <1>1, <1>3, <2>1, <2>2, <2>3, <2>4, <2>9 DEF ReplacerKnows, Rows
    <3> QED
      BY <1>3, <1>4, <2>1, <2>9, <3>1, StagedSeq
  <2> QED
    BY <1>10, <2>7, <2>8, <2>9 DEF WorkerRecord
<1> QED
  BY <1>7, <1>8, <1>9, <1>10 DEF Work

-----------------------------------------------------------------------------
(***************************************************************************)
(* What the steps of Deploy and of AddOrRemoveRegions make of a request    *)
(***************************************************************************)
\* No row of the region has the status, if the statement finds none.
LEMMA NoneFound ==
    ASSUME NEW region, NEW status, NoDeployment \in GetDeploymentsRecordSingle(region, status)
    PROVE  \A d \in Rows : ~(cluster[d].region = region /\ row[d].status = status)
<1> DEFINE found == {d \in Rows : cluster[d].region = region /\ row[d].status = status}
<1>1. NoDeployment \notin Rows
  BY TablesAssumption DEF Rows, DeploymentIds, NoDeployment
<1>2. NoDeployment \in OrElse(found, NoDeployment) /\ NoDeployment \notin found
  BY <1>1 DEF GetDeploymentsRecordSingle
<1> HIDE DEF found
<1>3. found = {}
  BY <1>2 DEF OrElse
<1> QED
  BY <1>3 DEF found

\* A request outside of Deployment and UnDeploy may call either.
LEMMA OutsidePlace ==
    ASSUME TypeOK, SequenceInv, NEW r \in Requests, req[r].pc \notin Called
    PROVE  /\ req[r] \in Request /\ Shaped(req[r]) /\ InPlace(req[r])
           /\ req[r].ret \in Seq(Awaits(req[r].kind))
  BY DEF TypeOK, Shaped, SequenceInv, InPlace, Called, Deploying

\* Deploy goes on with a new release, or with the first deployment in the primary
\* region.
LEMMA DeployFindDoes ==
    ASSUME TypeOK, SequenceInv, NEW r \in Requests, DeployFind(r)
    PROVE  \E n : /\ Become(r, n) /\ InPlace(n)
                  /\ \/ n.pc = "roll.current" /\ Alike(req[r], n)
                     \/ /\ n.pc = "create" /\ Head(n.ret) = "first.release"
                        /\ Alike([req[r] EXCEPT !.region = Primary], n)
                        /\ \A d \in Rows : ~(cluster[d].region = Primary /\ row[d].status = "running")
<1> DEFINE q == req[r]
<1>1. PICK d \in GetDeploymentsRecordSingle(Primary, "running") :
        Become(r, IF d = NoDeployment
                  THEN Call([req[r] EXCEPT !.region = Primary], "create", <<"first.release">>)
                  ELSE [req[r] EXCEPT !.pc = "roll.current", !.rel = row[d].release])
  BY DEF DeployFind
<1>2. {"deploy.find", "roll.current"} \cap Called = {} /\ q.pc = "deploy.find"
  BY DEF Called, Deploying, Undeploying, DeployFind, At
<1>3. q \in Request /\ InPlace(q) /\ q.kind = "deploy" /\ q.ret \in Seq(Awaits(q.kind))
  BY <1>2, OutsidePlace DEF InPlace
<1>4. CASE d # NoDeployment
  <2> DEFINE n == [q EXCEPT !.pc = "roll.current", !.rel = row[d].release]
  <2>1. n.pc = "roll.current" /\ Alike(q, n) /\ n.ret = q.ret /\ n.kind = q.kind
    BY <1>3 DEF Alike, Request
  <2>2. Become(r, n)
    BY <1>1, <1>4
  <2>3. "roll.current" \notin Owned
    BY DEF Owned, DeleteLabels
  <2> HIDE DEF n, q
  <2>4. InPlace(n)
    BY <1>2, <1>3, <2>1, <2>3, StayPlace
  <2> QED
    BY <2>1, <2>2, <2>4 DEF q
<1>5. CASE d = NoDeployment
  <2> DEFINE here == [q EXCEPT !.region = Primary]
             back == <<"first.release">>
             n == Call(here, "create", back)
  <2>1. Shaped(here) /\ here.kind = q.kind /\ here.ret = q.ret
    BY <1>3 DEF Shaped, Request
  <2>2. "first.release" \in DeployCallers(here.kind)
    BY <1>3, <2>1 DEF DeployCallers
  <2> HIDE DEF here
  <2>3. InPlace(n) /\ Head(n.ret) = "first.release"
    BY <1>3, <2>1, <2>2, CallDeployPlace
  <2>4. Alike(here, n) /\ n.pc = "create"
    BY <2>1, CallFields
  <2> HIDE DEF n
  <2>5. Become(r, n)
    BY <1>1, <1>5 DEF n, here
  <2>6. \A e \in Rows : ~(cluster[e].region = Primary /\ row[e].status = "running")
    BY <1>1, <1>5, NoneFound
  <2> QED
    BY <2>3, <2>4, <2>5, <2>6 DEF here
<1> QED
  BY <1>4, <1>5

\* Deployment hands out an id, and answers it to its caller unless it still has
\* to create a service.
LEMMA CreateDoes ==
    ASSUME TypeOK, SequenceInv, NEW r \in Requests, Create(r)
    PROVE  /\ UNCHANGED <<app, row, worker>>
           /\ \/ End(r) /\ UNCHANGED <<cluster, nextDeployment>>
              \/ /\ cluster' = CreatePods(nextDeployment, req[r].region)
                 /\ nextDeployment \in DeploymentIds /\ nextDeployment' = nextDeployment + 1
                 /\ \/ End(r) /\ "container" \in Faults
                    \/ \E n : /\ Become(r, n) /\ InPlace(n)
                              /\ Alike([req[r] EXCEPT !.dep = nextDeployment], n)
                              /\ \/ n.pc = "service" /\ n.ret = req[r].ret /\ ~req[r].toDeploy
                                 \/ n.pc = Head(req[r].ret) /\ n.pc \in DeployCallers(n.kind)
<1> DEFINE q == req[r]
           made == [q EXCEPT !.dep = nextDeployment]
<1>1. q \in Request /\ InPlace(q) /\ q.pc = "create"
  BY DEF TypeOK, SequenceInv, Create, At
<1>2. CalledFrom(q, DeployCallers(q.kind))
  BY <1>1 DEF InPlace
<1>3. Shaped(made) /\ made.kind = q.kind /\ made.ret = q.ret /\ made.pc = q.pc
  BY <1>1 DEF Shaped, Request
<1>4. UNCHANGED <<app, row, worker>>
  BY DEF Create, Same
<1>5. nextDeployment \in DeploymentIds
  BY DEF Create
<1>6. CASE End(r) /\ UNCHANGED <<cluster, nextDeployment>>
  BY <1>4, <1>6
<1>7. CASE /\ cluster' = CreatePods(nextDeployment, q.region)
           /\ nextDeployment' = nextDeployment + 1
           /\ End(r) /\ "container" \in Faults
  BY <1>4, <1>5, <1>7
<1>8. CASE /\ cluster' = CreatePods(nextDeployment, q.region)
           /\ nextDeployment' = nextDeployment + 1
           /\ Become(r, Return(made))
  <2> DEFINE n == Return(made)
             callers == DeployCallers(made.kind)
  <2>1. CalledFrom(made, callers)
    BY <1>2, <1>3 DEF CalledFrom
  <2>2. callers = DeployCallers(q.kind) /\ made.ret = q.ret
    BY <1>3
  <2> HIDE DEF made
  <2>3. InPlace(n) /\ Alike(made, n) /\ n.pc = Head(made.ret) /\ n.pc \in callers
    BY <1>3, <2>1, ReturnCalledPlace
  <2> HIDE DEF n
  <2>4. n.kind = made.kind
    BY <2>3 DEF Alike
  <2>5. Become(r, n)
    BY <1>8 DEF n
  <2> QED
    BY <1>4, <1>5, <1>8, <2>2, <2>3, <2>4, <2>5 DEF made
<1>9. CASE /\ cluster' = CreatePods(nextDeployment, q.region)
           /\ nextDeployment' = nextDeployment + 1
           /\ ~made.toDeploy /\ Become(r, Goto(made, "service"))
  <2> DEFINE n == Goto(made, "service")
  <2>1. {"create", "service"} \subseteq Deploying /\ "service" \notin Owned
    BY DEF Deploying, Owned, DeleteLabels
  <2>6. ~q.toDeploy
    BY <1>1, <1>9 DEF Request
  <2> HIDE DEF made
  <2>2. Alike(made, n) /\ n.pc = "service" /\ n.ret = made.ret
    BY <1>3, GotoFields
  <2> HIDE DEF n
  <2>3. n.kind = q.kind /\ n.ret = q.ret
    BY <1>3, <2>2 DEF Alike
  <2> HIDE DEF q
  <2>4. InPlace(n)
    BY <1>1, <2>1, <2>2, <2>3, StayPlace
  <2>5. Become(r, n)
    BY <1>9 DEF n
  <2> QED
    BY <1>4, <1>5, <1>9, <2>2, <2>3, <2>4, <2>5, <2>6 DEF made, q
<1>10. made.toDeploy = q.toDeploy
  BY <1>1 DEF Request
<1> QED
  BY <1>6, <1>7, <1>8, <1>9, <1>10 DEF Create

\* A deployment keeps its request until it has a service.
LEMMA ServiceDoes ==
    ASSUME TypeOK, SequenceInv, NEW r \in Requests, CreateService(r)
    PROVE  /\ UNCHANGED <<app, row, nextDeployment, worker>>
           /\ \/ End(r)
              \/ /\ cluster' = [cluster EXCEPT ![req[r].dep].service = TRUE]
                 /\ \E n : /\ Become(r, n) /\ InPlace(n) /\ Alike(req[r], n)
                           /\ n.pc = Head(req[r].ret) /\ n.pc \in DeployCallers(n.kind)
<1> DEFINE q == req[r]
           n == Return(q)
           callers == DeployCallers(q.kind)
<1>1. q \in Request /\ Shaped(q) /\ InPlace(q) /\ q.pc = "service"
  BY DEF TypeOK, SequenceInv, CreateService, At, Shaped
<1>2. CalledFrom(q, callers)
  BY <1>1 DEF InPlace
<1>3. InPlace(n) /\ Alike(q, n) /\ n.pc = Head(q.ret) /\ n.pc \in callers
  BY <1>1, <1>2, ReturnCalledPlace
<1> HIDE DEF n
<1>4. n.kind = q.kind
  BY <1>3 DEF Alike
<1>5. /\ UNCHANGED <<app, row, nextDeployment, worker>>
      /\ \/ End(r)
         \/ cluster' = [cluster EXCEPT ![q.dep].service = TRUE] /\ Become(r, n)
  BY DEF CreateService, OnlyCluster, Same, n
<1> QED
  BY <1>3, <1>4, <1>5

\* The first release,
LEMMA FirstReleaseDoes ==
    ASSUME TypeOK, SequenceInv, NEW r \in Requests, FirstRelease(r)
    PROVE  /\ UNCHANGED <<app, row, cluster, nextDeployment, worker>>
           /\ \/ End(r)
              \/ \E n : /\ Become(r, n) /\ InPlace(n) /\ Alike(req[r], n)
                        /\ n.pc = "first.record"
<1> DEFINE q == req[r]
           n == [q EXCEPT !.pc = "first.record", !.rel = nextRelease]
<1>1. q.pc = "first.release" /\ q.pc \notin Called
  BY DEF FirstRelease, At, Called, Deploying, Undeploying
<1>2. q \in Request /\ InPlace(q) /\ q.kind = "deploy"
  BY <1>1, OutsidePlace DEF InPlace
<1>3. n.pc = "first.record" /\ Alike(q, n) /\ n.ret = q.ret /\ n.kind = q.kind
  BY <1>2 DEF Request, Alike
<1>4. UNCHANGED <<app, row, cluster, nextDeployment, worker>> /\ (End(r) \/ Become(r, n))
  BY DEF FirstRelease, Same
<1> HIDE DEF n
<1>5. InPlace(n)
  BY <1>1, <1>2, <1>3, OwnPlace
<1> QED
  BY <1>3, <1>4, <1>5

\* the first row
LEMMA FirstRecordDoes ==
    ASSUME TypeOK, SequenceInv, NEW r \in Requests, FirstRecord(r)
    PROVE  /\ UNCHANGED <<app, cluster, nextDeployment, worker>>
           /\ \/ End(r) /\ UNCHANGED row
              \/ /\ row' = CreateDeploymentsRecord(req[r].dep, req[r].rel, TRUE)
                 /\ \E n : /\ Become(r, n) /\ InPlace(n) /\ n.pc = "regions.read"
                           /\ Alike([req[r] EXCEPT !.adds = {Primary}], n)
<1> DEFINE q == req[r]
           here == [q EXCEPT !.adds = {Primary}]
           back == <<"first.route">>
           n == Call(here, "regions.read", back)
<1>1. q.pc = "first.record" /\ q.pc \notin Called
  BY DEF FirstRecord, At, Called, Deploying, Undeploying
<1>2. q \in Request /\ InPlace(q) /\ q.kind = "deploy" /\ q.ret \in Seq(Awaits(q.kind))
  BY <1>1, OutsidePlace DEF InPlace
<1>3. Shaped(here) /\ here.kind = q.kind /\ here.ret = q.ret
  BY <1>2 DEF Request, Shaped
<1>4. back \in Seq(Awaits(here.kind))
  <2> DEFINE own == Awaits(here.kind)
  <2>1. "first.route" \in own
    BY <1>2, <1>3 DEF Awaits
  <2> HIDE DEF own
  <2>2. back \in Seq(own)
    BY <2>1
  <2> QED
    BY <2>2 DEF own
<1>5. /\ UNCHANGED <<app, cluster, nextDeployment, worker>>
      /\ \/ End(r) /\ UNCHANGED row
         \/ row' = CreateDeploymentsRecord(q.dep, q.rel, TRUE) /\ Become(r, n)
  BY DEF FirstRecord, OnlyRow, Same
<1>6. "regions.read" \notin Called \cup Owned
  BY DEF Called, Deploying, Undeploying, Owned, DeleteLabels
<1> HIDE DEF here, back
<1>7. InPlace(n) /\ Alike(here, n) /\ n.pc = "regions.read"
  BY <1>2, <1>3, <1>4, <1>6, CallPlace, CallFields
<1> HIDE DEF n
<1> QED
  BY <1>5, <1>7 DEF here

\* and the first route of an application.
LEMMA FirstRouteDoes ==
    ASSUME TypeOK, SequenceInv, NEW r \in Requests, FirstRoute(r)
    PROVE  /\ UNCHANGED <<row, cluster, nextDeployment, worker>>
           /\ app'.exists = app.exists /\ app'.regions = app.regions
           /\ app'.backups = app.backups
           /\ \/ End(r)
              \/ \E n : /\ Become(r, n) /\ InPlace(n) /\ n.pc = "regions.read"
                        /\ Alike([req[r] EXCEPT !.toDeploy = TRUE,
                                               !.adds = Defaults \ {Primary}], n)
<1> DEFINE q == req[r]
           others == Defaults \ {Primary}
           n == [q EXCEPT !.pc = "regions.read", !.toDeploy = TRUE, !.adds = others]
<1>1. q.pc = "first.route" /\ q.pc \notin Called
  BY DEF FirstRoute, At, Called, Deploying, Undeploying
<1>2. q \in Request /\ InPlace(q)
  BY <1>1, OutsidePlace
<1>3. /\ UNCHANGED <<row, cluster, nextDeployment, worker>>
      /\ app'.exists = app.exists /\ app'.regions = app.regions
      /\ app'.backups = app.backups
      /\ End(r) \/ Become(r, n)
  BY DEF FirstRoute, OnlyApp, Same, TypeOK, TablesTypeOK, AppRow
<1> HIDE DEF others
<1>4. /\ n.pc = "regions.read" /\ n.ret = q.ret /\ n.kind = q.kind
      /\ Alike([q EXCEPT !.toDeploy = TRUE, !.adds = others], n)
  BY <1>2 DEF Request, Alike
<1>5. "regions.read" \notin Called \cup Owned
  BY DEF Called, Deploying, Undeploying, Owned, DeleteLabels
<1> HIDE DEF n
<1>6. InPlace(n)
  BY <1>1, <1>2, <1>4, <1>5, StayPlace
<1> QED
  BY <1>3, <1>4, <1>6 DEF others

\* AddOrRemoveRegions reads the two lists,
LEMMA RegionsReadDoes ==
    ASSUME TypeOK, SequenceInv, NEW r \in Requests, RegionsRead(r)
    PROVE  /\ Reads
           /\ \/ End(r) /\ ~app.exists
              \/ \E n : /\ Become(r, n) /\ InPlace(n) /\ n.pc = "regions.add"
                        /\ Alike([req[r] EXCEPT !.regions = app.regions,
                                               !.backups = app.backups,
                                               !.adds = req[r].adds \ app.regions,
                                               !.backs = req[r].backs \ app.backups,
                                               !.standby = n.standby], n)
                        /\ n.standby \subseteq app.backups
<1> DEFINE q == req[r]
           oneLeft == Cardinality(app.regions) = 1 /\ Cardinality(q.dels) = 1
           adds == q.adds \ app.regions
           backs == q.backs \ app.backups
           standby == IF oneLeft THEN app.backups ELSE {}
           n == [q EXCEPT !.pc = "regions.add", !.found = app.regions, !.regions = app.regions,
                          !.backups = app.backups, !.adds = adds, !.backs = backs,
                          !.standby = standby, !.last = NoDeployment]
<1>1. q.pc = "regions.read" /\ q.pc \notin Called
  BY DEF RegionsRead, At, Called, Deploying, Undeploying
<1>2. q \in Request /\ InPlace(q)
  BY <1>1, OutsidePlace
<1>3. Reads /\ ((End(r) /\ ~app.exists) \/ Become(r, n))
  BY DEF RegionsRead
<1>4. standby \subseteq app.backups
  OBVIOUS
<1> HIDE DEF adds, backs, standby
<1>5. n.pc = "regions.add" /\ n.ret = q.ret /\ n.kind = q.kind /\ n.standby = standby
  BY <1>2 DEF Request
<1>6. Alike([q EXCEPT !.regions = app.regions, !.backups = app.backups, !.adds = adds,
                      !.backs = backs, !.standby = standby], n)
  BY <1>2 DEF Request, Alike
<1>7. "regions.add" \notin Called \cup Owned
  BY DEF Called, Deploying, Undeploying, Owned, DeleteLabels
<1> HIDE DEF n
<1>8. InPlace(n)
  BY <1>1, <1>2, <1>5, <1>7, StayPlace
<1> QED
  BY <1>3, <1>4, <1>5, <1>6, <1>8 DEF adds, backs

\* adds a region to its copy,
LEMMA RegionsAddOnlyDoes ==
    ASSUME TypeOK, SequenceInv, NEW r \in Requests, RegionsAddOnly(r)
    PROVE  /\ Reads /\ ~req[r].toDeploy
           /\ \E g \in req[r].adds : \E n :
                /\ Become(r, n) /\ InPlace(n) /\ n.pc = "regions.add"
                /\ Alike([req[r] EXCEPT !.adds = req[r].adds \ {g},
                                       !.regions = req[r].regions \cup {g}], n)
<1> DEFINE q == req[r]
<1>1. q.pc = "regions.add" /\ q.pc \notin Called
  BY DEF RegionsAddOnly, At, Called, Deploying, Undeploying
<1>2. q \in Request /\ InPlace(q)
  BY <1>1, OutsidePlace
<1>3. PICK g \in q.adds :
        Become(r, [q EXCEPT !.adds = q.adds \ {g}, !.regions = q.regions \cup {g}])
  BY DEF RegionsAddOnly
<1> DEFINE adds == q.adds \ {g}
           regions == q.regions \cup {g}
           n == [q EXCEPT !.adds = adds, !.regions = regions]
<1>4. Become(r, n) /\ Reads /\ ~q.toDeploy
  BY <1>3 DEF RegionsAddOnly
<1> HIDE DEF adds, regions
<1>5. n.pc = q.pc /\ n.ret = q.ret /\ n.kind = q.kind
  BY <1>2 DEF Request
<1>6. Alike([q EXCEPT !.adds = adds, !.regions = regions], n)
  BY <1>2 DEF Request, Alike
<1>7. "regions.add" \notin Called \cup Owned
  BY DEF Called, Deploying, Undeploying, Owned, DeleteLabels
<1> HIDE DEF n
<1>8. InPlace(n)
  BY <1>1, <1>2, <1>5, <1>7, StayPlace
<1> QED
  BY <1>1, <1>3, <1>4, <1>5, <1>6, <1>8 DEF adds, regions

\* or deploys to it when it finds nothing running there,
LEMMA RegionsDeployDoes ==
    ASSUME TypeOK, SequenceInv, NEW r \in Requests, RegionsDeploy(r)
    PROVE  /\ Reads /\ req[r].toDeploy
           /\ \/ End(r)
              \/ \E g \in req[r].adds : \E n :
                    /\ Become(r, n) /\ InPlace(n) /\ n.pc = "create" /\ Head(n.ret) = "add.release"
                    /\ Alike([req[r] EXCEPT !.adds = req[r].adds \ {g},
                                           !.regions = req[r].regions \cup {g},
                                           !.region = g], n)
                    /\ \A d \in Rows : ~(cluster[d].region = g /\ row[d].status = "running")
<1> DEFINE q == req[r]
<1>1. q.pc = "regions.add" /\ q.pc \notin Called
  BY DEF RegionsDeploy, At, Called, Deploying, Undeploying
<1>2. q \in Request /\ InPlace(q) /\ q.ret \in Seq(Awaits(q.kind))
  BY <1>1, OutsidePlace
<1>3. PICK g \in q.adds : \E d \in GetDeploymentsRecordSingle(g, "running") :
        Become(r, IF d # NoDeployment THEN Idle
                  ELSE Call([q EXCEPT !.adds = q.adds \ {g}, !.regions = q.regions \cup {g},
                                      !.region = g], "create", <<"add.release">>))
  BY DEF RegionsDeploy
<1> DEFINE adds == q.adds \ {g}
           regions == q.regions \cup {g}
           here == [q EXCEPT !.adds = adds, !.regions = regions, !.region = g]
           n == Call(here, "create", <<"add.release">>)
<1>4. \/ End(r)
      \/ Become(r, n) /\ NoDeployment \in GetDeploymentsRecordSingle(g, "running")
  BY <1>3 DEF End
<1>5. Reads /\ q.toDeploy
  BY DEF RegionsDeploy
<1> HIDE DEF adds, regions
<1>6. Shaped(here) /\ here.kind = q.kind /\ here.ret = q.ret
  BY <1>2 DEF Shaped, Request
<1> HIDE DEF here
<1>7. "add.release" \in DeployCallers(here.kind)
  BY DEF DeployCallers
<1>8. InPlace(n) /\ Head(n.ret) = "add.release" /\ Alike(here, n) /\ n.pc = "create"
  BY <1>2, <1>6, <1>7, CallDeployPlace, CallFields
<1> HIDE DEF n
<1> QED
  BY <1>3, <1>4, <1>5, <1>8, NoneFound DEF here, adds, regions

\* records what it has deployed,
LEMMA AddReleaseDoes ==
    ASSUME TypeOK, SequenceInv, NEW r \in Requests, AddRelease(r)
    PROVE  /\ Reads
           /\ \E n : /\ Become(r, n) /\ InPlace(n) /\ Alike(req[r], n)
                     /\ n.pc = "add.record"
<1> DEFINE q == req[r]
<1>1. q.pc = "add.release" /\ q.pc \notin Called
  BY DEF AddRelease, At, Called, Deploying, Undeploying
<1>2. q \in Request /\ InPlace(q)
  BY <1>1, OutsidePlace
<1>3. PICK x : Become(r, [q EXCEPT !.pc = "add.record", !.rel = x])
  BY DEF AddRelease
<1> DEFINE n == [q EXCEPT !.pc = "add.record", !.rel = x]
<1>4. n.pc = "add.record" /\ Alike(q, n) /\ n.ret = q.ret /\ n.kind = q.kind
  BY <1>2 DEF Request, Alike
<1>5. "add.record" \notin Called \cup Owned
  BY DEF Called, Deploying, Undeploying, Owned, DeleteLabels
<1>6. Reads /\ Become(r, n)
  BY <1>3 DEF AddRelease
<1> HIDE DEF n
<1>7. InPlace(n)
  BY <1>1, <1>2, <1>4, <1>5, StayPlace
<1> QED
  BY <1>4, <1>6, <1>7

\* in a row,
LEMMA AddRecordDoes ==
    ASSUME TypeOK, SequenceInv, NEW r \in Requests, AddRecord(r)
    PROVE  /\ UNCHANGED <<app, cluster, nextDeployment, worker>>
           /\ \/ End(r) /\ UNCHANGED row
              \/ /\ row' = CreateDeploymentsRecord(req[r].dep, req[r].rel, TRUE)
                 /\ \E n : /\ Become(r, n) /\ InPlace(n) /\ Alike(req[r], n)
                           /\ n.pc = "add.route"
<1> DEFINE q == req[r]
           n == [q EXCEPT !.pc = "add.route", !.last = q.dep]
<1>1. q.pc = "add.record" /\ q.pc \notin Called
  BY DEF AddRecord, At, Called, Deploying, Undeploying
<1>2. q \in Request /\ InPlace(q)
  BY <1>1, OutsidePlace
<1>3. n.pc = "add.route" /\ Alike(q, n) /\ n.ret = q.ret /\ n.kind = q.kind
  BY <1>2 DEF Request, Alike
<1>4. "add.route" \notin Called \cup Owned
  BY DEF Called, Deploying, Undeploying, Owned, DeleteLabels
<1>5. /\ UNCHANGED <<app, cluster, nextDeployment, worker>>
      /\ \/ End(r) /\ UNCHANGED row
         \/ row' = CreateDeploymentsRecord(q.dep, q.rel, TRUE) /\ Become(r, n)
  BY DEF AddRecord, OnlyRow, Same
<1> HIDE DEF n
<1>6. InPlace(n)
  BY <1>1, <1>2, <1>3, <1>4, StayPlace
<1> QED
  BY <1>3, <1>5, <1>6

\* drops a backup region
LEMMA RegionsStandbyDoes ==
    ASSUME TypeOK, SequenceInv, NEW r \in Requests, RegionsStandby(r)
    PROVE  /\ Reads
           /\ \E b \in req[r].standby : \E n :
                /\ Become(r, n) /\ InPlace(n)
                /\ n.pc \in {"undeploy.find", "standby.drop"}
                /\ Alike([req[r] EXCEPT !.standby = req[r].standby \ {b}, !.region = b], n)
<1> DEFINE q == req[r]
<1>1. q.pc = "regions.standby" /\ q.pc \notin Called
  BY DEF RegionsStandby, At, Called, Deploying, Undeploying
<1>2. q \in Request /\ InPlace(q) /\ q.ret \in Seq(Awaits(q.kind))
  BY <1>1, OutsidePlace
<1>3. PICK b \in q.standby :
        LET less == [q EXCEPT !.standby = q.standby \ {b}, !.region = b]
        IN  Become(r, IF q.toDeploy THEN Call(less, "undeploy.find", <<"standby.drop">>)
                      ELSE Goto(less, "standby.drop"))
  BY DEF RegionsStandby
<1> DEFINE standby == q.standby \ {b}
           less == [q EXCEPT !.standby = standby, !.region = b]
<1>4. \/ Become(r, Call(less, "undeploy.find", <<"standby.drop">>))
      \/ Become(r, Goto(less, "standby.drop"))
  BY <1>3
<1>5. Reads
  BY DEF RegionsStandby
<1> HIDE DEF standby
<1>6. Shaped(less) /\ less.kind = q.kind /\ less.ret = q.ret /\ less.pc = q.pc
  BY <1>2 DEF Shaped, Request
<1> HIDE DEF less
<1>7. CASE Become(r, Goto(less, "standby.drop"))
  <2> DEFINE n == Goto(less, "standby.drop")
  <2>1. n.pc = "standby.drop" /\ n.ret = less.ret /\ Alike(less, n)
    BY <1>6, GotoFields
  <2>2. "standby.drop" \notin Called \cup Owned
    BY DEF Called, Deploying, Undeploying, Owned, DeleteLabels
  <2> HIDE DEF n
  <2>3. n.kind = q.kind
    BY <1>6, <2>1 DEF Alike
  <2>4. InPlace(n)
    BY <1>1, <1>2, <1>6, <2>1, <2>2, <2>3, StayPlace
  <2>5. Become(r, n)
    BY <1>7 DEF n
  <2> QED
    BY <1>3, <1>5, <2>1, <2>4, <2>5 DEF less, standby
<1>8. CASE Become(r, Call(less, "undeploy.find", <<"standby.drop">>))
  <2> DEFINE n == Call(less, "undeploy.find", <<"standby.drop">>)
  <2>1. "standby.drop" \in UndeployCallers(less.kind)
    BY DEF UndeployCallers
  <2>2. InPlace(n) /\ Alike(less, n) /\ n.pc = "undeploy.find"
    BY <1>2, <1>6, <2>1, CallUndeployAlone, CallFields
  <2> HIDE DEF n
  <2>3. Become(r, n)
    BY <1>8 DEF n
  <2> QED
    BY <1>3, <1>5, <2>2, <2>3 DEF less, standby
<1> QED
  BY <1>4, <1>7, <1>8

\* or fails to,
LEMMA StandbyDropDoes ==
    ASSUME TypeOK, SequenceInv, NEW r \in Requests, StandbyDrop(r)
    PROVE  /\ Reads
           /\ \/ End(r)
              \/ \E n : /\ Become(r, n) /\ InPlace(n) /\ n.pc = "regions.standby"
                        /\ Alike([req[r] EXCEPT !.backups = n.backups], n)
                        /\ n.backups \subseteq req[r].backups
<1> DEFINE q == req[r]
           left == Cardinality(q.standby)
           backups == IF left = 0 THEN {} ELSE q.backups
           n == [q EXCEPT !.pc = "regions.standby", !.backups = backups]
<1>1. q.pc = "standby.drop" /\ q.pc \notin Called
  BY DEF StandbyDrop, At, Called, Deploying, Undeploying
<1>2. q \in Request /\ InPlace(q)
  BY <1>1, OutsidePlace
<1>3. Reads /\ (End(r) \/ Become(r, n))
  BY DEF StandbyDrop, End
<1>4. backups \subseteq q.backups
  OBVIOUS
<1> HIDE DEF backups
<1>5. n.pc = "regions.standby" /\ n.ret = q.ret /\ n.kind = q.kind /\ n.backups = backups
  BY <1>2 DEF Request
<1>6. Alike([q EXCEPT !.backups = backups], n)
  BY <1>2 DEF Request, Alike
<1>7. "regions.standby" \notin Called \cup Owned
  BY DEF Called, Deploying, Undeploying, Owned, DeleteLabels
<1> HIDE DEF n
<1>8. InPlace(n)
  BY <1>1, <1>2, <1>5, <1>7, StayPlace
<1> QED
  BY <1>3, <1>4, <1>5, <1>6, <1>8

\* removes a region,
LEMMA RegionsDeleteDoes ==
    ASSUME TypeOK, SequenceInv, NEW r \in Requests, RegionsDelete(r)
    PROVE  /\ Reads
           /\ \E g \in req[r].dels \cap req[r].regions : \E n :
                /\ Become(r, n) /\ InPlace(n)
                /\ IF req[r].toDeploy THEN n.pc = "undeploy.find" /\ Head(n.ret) = "regions.del"
                   ELSE n.pc = "regions.del"
                /\ Alike([req[r] EXCEPT !.regions = req[r].regions \ {g}, !.region = g], n)
<1> DEFINE q == req[r]
<1>1. q.pc = "regions.del" /\ q.pc \notin Called
  BY DEF RegionsDelete, At, Called, Deploying, Undeploying
<1>2. q \in Request /\ InPlace(q) /\ q.ret \in Seq(Awaits(q.kind))
  BY <1>1, OutsidePlace
<1>3. PICK g \in q.dels \cap q.regions :
        LET less == [q EXCEPT !.regions = q.regions \ {g}, !.region = g]
        IN  Become(r, IF q.toDeploy THEN Call(less, "undeploy.find", <<"regions.del">>)
                      ELSE less)
  BY DEF RegionsDelete
<1> DEFINE regions == q.regions \ {g}
           less == [q EXCEPT !.regions = regions, !.region = g]
<1>4. Become(r, IF q.toDeploy THEN Call(less, "undeploy.find", <<"regions.del">>) ELSE less)
  BY <1>3
<1>5. Reads
  BY DEF RegionsDelete
<1> HIDE DEF regions
<1>6. Shaped(less) /\ less.kind = q.kind /\ less.ret = q.ret /\ less.pc = q.pc
  BY <1>2 DEF Shaped, Request
<1>7. Alike(less, less)
  BY <1>2 DEF Alike, Request
<1> HIDE DEF less
<1>8. CASE ~q.toDeploy
  <2>1. "regions.del" \notin Called \cup Owned
    BY DEF Called, Deploying, Undeploying, Owned, DeleteLabels
  <2>2. InPlace(less)
    BY <1>1, <1>2, <1>6, <2>1, StayPlace
  <2>3. Become(r, less)
    BY <1>4, <1>8
  <2> QED
    BY <1>1, <1>3, <1>5, <1>6, <1>7, <1>8, <2>2, <2>3 DEF less, regions
<1>9. CASE q.toDeploy
  <2> DEFINE n == Call(less, "undeploy.find", <<"regions.del">>)
  <2>1. "regions.del" \in UndeployCallers(less.kind)
    BY DEF UndeployCallers
  <2>2. /\ InPlace(n) /\ Alike(less, n) /\ n.pc = "undeploy.find"
        /\ Head(n.ret) = "regions.del"
    BY <1>2, <1>6, <2>1, CallUndeployAlone, CallFields
  <2> HIDE DEF n
  <2>3. Become(r, n)
    BY <1>4, <1>9 DEF n
  <2> QED
    BY <1>3, <1>5, <1>9, <2>2, <2>3 DEF less, regions
<1> QED
  BY <1>8, <1>9

\* and adds a backup region, which gets no row.
LEMMA RegionsBackupDoes ==
    ASSUME TypeOK, SequenceInv, NEW r \in Requests, RegionsBackup(r)
    PROVE  /\ Reads
           /\ \E b \in req[r].backs :
                \/ End(r)
                \/ \E n : /\ Become(r, n) /\ InPlace(n)
                          /\ \/ n.pc = "regions.backup"
                             \/ n.pc = "create" /\ Head(n.ret) = "regions.backup"
                          /\ Alike([req[r] EXCEPT !.backs = req[r].backs \ {b},
                                                 !.backups = req[r].backups \cup {b},
                                                 !.region = b], n)
<1> DEFINE q == req[r]
<1>1. q.pc = "regions.backup" /\ q.pc \notin Called
  BY DEF RegionsBackup, At, Called, Deploying, Undeploying
<1>2. q \in Request /\ InPlace(q) /\ q.ret \in Seq(Awaits(q.kind))
  BY <1>1, OutsidePlace
<1>3. PICK b \in q.backs :
        LET less == [q EXCEPT !.backs = q.backs \ {b}, !.backups = q.backups \cup {b},
                              !.region = b]
        IN  \/ End(r)
            \/ Become(r, less)
            \/ Become(r, Call(less, "create", <<"regions.backup">>))
  BY DEF RegionsBackup
<1> DEFINE backs == q.backs \ {b}
           backups == q.backups \cup {b}
           less == [q EXCEPT !.backs = backs, !.backups = backups, !.region = b]
<1>4. \/ End(r)
      \/ Become(r, less)
      \/ Become(r, Call(less, "create", <<"regions.backup">>))
  BY <1>3
<1>5. Reads
  BY DEF RegionsBackup
<1> HIDE DEF backs, backups
<1>6. Shaped(less) /\ less.kind = q.kind /\ less.ret = q.ret /\ less.pc = q.pc
  BY <1>2 DEF Shaped, Request
<1>7. Alike(less, less)
  BY <1>2 DEF Alike, Request
<1> HIDE DEF less
<1>8. CASE Become(r, less)
  <2>1. "regions.backup" \notin Called \cup Owned
    BY DEF Called, Deploying, Undeploying, Owned, DeleteLabels
  <2>2. InPlace(less)
    BY <1>1, <1>2, <1>6, <2>1, StayPlace
  <2> QED
    BY <1>1, <1>3, <1>5, <1>6, <1>7, <1>8, <2>2 DEF less, backs, backups
<1>9. CASE Become(r, Call(less, "create", <<"regions.backup">>))
  <2> DEFINE n == Call(less, "create", <<"regions.backup">>)
  <2>1. "regions.backup" \in DeployCallers(less.kind)
    BY DEF DeployCallers
  <2>2. /\ InPlace(n) /\ Alike(less, n) /\ n.pc = "create"
        /\ Head(n.ret) = "regions.backup"
    BY <1>2, <1>6, <2>1, CallDeployPlace, CallFields
  <2> HIDE DEF n
  <2>3. Become(r, n)
    BY <1>9 DEF n
  <2> QED
    BY <1>3, <1>5, <2>2, <2>3 DEF less, backs, backups
<1> QED
  BY <1>3, <1>4, <1>5, <1>8, <1>9

-----------------------------------------------------------------------------
(***************************************************************************)
(* Every step                                                              *)
(***************************************************************************)
\* The deployment in hand has no row until the request inserts it.
LEMMA CarrySeq ==
    ASSUME Alone, TypeOK, SequenceInv, NEW r \in Requests, req[r].pc \in Unrecorded,
           NEW n, Become(r, n), InPlace(n), Alike(req[r], n),
           n.pc \in Unrecorded \/ n.pc \notin Heeding,
           UNCHANGED <<app, row, nextDeployment, worker>>
    PROVE  SequenceInv'
<1>1. RowKnows(req[r]) /\ app.exists /\ n.dep = req[r].dep
  BY DEF SequenceInv, RowKnows, Unrecorded, Alike
<1>2. RowKnows(n)'
  BY <1>1 DEF RowKnows, Unrecorded, Heeding
<1>3. \A d \in DeploymentIds : d >= nextDeployment' => row'[d].status = "none"
  BY DEF SequenceInv
<1>4. req[r].pc # "roll.wait"
  BY DEF Unrecorded
<1> QED
  BY <1>2, <1>3, <1>4, SoleSeq

\* The row inserted is of the deployment in hand.
LEMMA InsertSeq ==
    ASSUME Alone, TypeOK, SequenceInv, NEW r \in Requests, req[r].pc \in Unrecorded,
           NEW n, Become(r, n), InPlace(n), n.pc \notin Heeding,
           NEW x, row' = CreateDeploymentsRecord(req[r].dep, x, TRUE),
           UNCHANGED <<app, nextDeployment, worker>>
    PROVE  SequenceInv'
<1>1. RowKnows(req[r]) /\ app.exists
  BY DEF SequenceInv, RowKnows, Unrecorded
<1>2. req[r].dep \in DeploymentIds /\ req[r].dep < nextDeployment
  BY <1>1 DEF RowKnows
<1>3. \A d \in DeploymentIds : d # req[r].dep => row'[d] = row[d]
  BY <1>2, RecordKeeps
<1>4. nextDeployment \in Nat /\ \A d \in DeploymentIds : d \in Nat
  BY IdsAreNat
<1>5. \A d \in DeploymentIds : d >= nextDeployment' => row'[d].status = "none"
  <2>1. \A d \in DeploymentIds : d >= nextDeployment => row[d].status = "none"
    BY DEF SequenceInv
  <2>2. PICK mine \in Nat : mine = req[r].dep
    BY <1>2, <1>4
  <2>3. \A d \in DeploymentIds : d >= nextDeployment => d # req[r].dep
    BY <1>2, <1>4, <2>2
  <2> QED
    BY <1>3, <2>1, <2>3
<1>6. req[r].pc # "roll.wait"
  BY DEF Unrecorded
<1> QED
  BY <1>1, <1>5, <1>6, NobodyWorks, LooseSeq

\* Deploy creates a deployment under a new id and inserts its row.
LEMMA DeploySeq ==
    ASSUME Alone, TypeOK, SequenceInv, NEW r \in Requests, Deploy(r)
    PROVE  SequenceInv'
<1> DEFINE q == req[r]
<1>1. \A label \in {"deploy.find", "create", "service", "first.release", "first.record", "first.route"} :
        label \notin Orphaned /\ label # "roll.wait"
  BY DEF Orphaned
<1>2. {"create", "roll.current", "regions.read", "regions.backup"} \cap Heeding = {}
  BY DEF Heeding, Unrecorded
<1>3. \A kind : DeployCallers(kind) \subseteq {"first.release", "add.release", "regions.backup"}
  BY DEF DeployCallers
<1>4. {"service", "first.release", "first.record", "add.release"} \subseteq Unrecorded
  BY DEF Unrecorded
<1>5. CASE DeployFind(r)
  <2>1. PICK n : Become(r, n) /\ InPlace(n) /\ n.pc \in {"roll.current", "create"}
    BY <1>5, DeployFindDoes
  <2>2. q.pc = "deploy.find" /\ UNCHANGED <<app, row, nextDeployment, worker>>
    BY <1>5 DEF DeployFind, At, Reads
  <2>3. app.exists
    BY <1>1, <2>2 DEF SequenceInv, RowKnows, Orphaned
  <2> QED
    BY <1>1, <1>2, <2>1, <2>2, <2>3, NobodyWorks, CalmSeq
<1>6. CASE Create(r)
  <2>1. q.pc = "create" /\ UNCHANGED <<app, row, worker>>
    BY <1>6, CreateDoes DEF Create, At
  <2>2. app.exists /\ q \in Request
    BY <1>1, <2>1 DEF SequenceInv, RowKnows, Orphaned, TypeOK
  <2>3. CASE End(r) /\ UNCHANGED nextDeployment
    BY <1>1, <2>1, <2>3, EndSeq
  <2>4. CASE nextDeployment \in DeploymentIds /\ nextDeployment' = nextDeployment + 1
    <3>1. nextDeployment \in Nat /\ \A d \in DeploymentIds : d \in Nat
      BY IdsAreNat
    <3>2. row[nextDeployment].status = "none" /\ nextDeployment < nextDeployment'
      BY <2>4, <3>1 DEF SequenceInv
    <3>3. \A d \in DeploymentIds : d >= nextDeployment' => row'[d].status = "none"
      BY <2>1, <2>4, <3>1 DEF SequenceInv
    <3>4. CASE End(r)
      <4>1. Idle.pc = "idle" /\ "idle" \notin Heeding /\ "idle" \in Orphaned
        BY DEF Idle, Heeding, Unrecorded, Orphaned
      <4> QED
        BY <1>1, <2>1, <3>3, <3>4, <4>1, IdlePlace, NobodyWorks, LooseSeq DEF End
    <3>5. CASE \E n : /\ Become(r, n) /\ InPlace(n)
                      /\ Alike([q EXCEPT !.dep = nextDeployment], n)
                      /\ \/ n.pc = "service"
                         \/ n.pc \in DeployCallers(n.kind)
      <4>1. PICK n : /\ Become(r, n) /\ InPlace(n)
                     /\ Alike([q EXCEPT !.dep = nextDeployment], n)
                     /\ n.pc \in {"service"} \cup DeployCallers(n.kind)
        BY <3>5
      <4>2. n.dep = nextDeployment
        BY <2>2, <4>1 DEF Alike, Request
      <4>3. n.pc \in {"service", "first.release", "add.release", "regions.backup"}
        BY <1>3, <4>1
      <4>4. RowKnows(n)'
        BY <2>1, <2>2, <2>4, <3>2, <4>2, <4>3 DEF RowKnows
      <4> QED
        BY <1>1, <2>1, <3>3, <4>1, <4>4, SoleSeq
    <3> QED
      BY <1>6, <2>4, <3>4, <3>5, CreateDoes
  <2> QED
    BY <1>6, <2>3, <2>4, CreateDoes
<1>7. CASE CreateService(r)
  <2>1. q.pc = "service" /\ UNCHANGED <<app, row, nextDeployment, worker>>
    BY <1>7, ServiceDoes DEF CreateService, At
  <2>2. CASE End(r)
    BY <1>1, <2>1, <2>2, EndSeq
  <2>3. ASSUME NEW n, Become(r, n), InPlace(n), Alike(q, n), n.pc \in DeployCallers(n.kind)
        PROVE  SequenceInv'
    BY <1>2, <1>3, <1>4, <2>1, <2>3, CarrySeq
  <2> QED
    BY <1>7, <2>2, <2>3, ServiceDoes
<1>8. CASE FirstRelease(r)
  <2>1. q.pc = "first.release" /\ UNCHANGED <<app, row, nextDeployment, worker>>
    BY <1>8, FirstReleaseDoes DEF FirstRelease, At
  <2>2. CASE End(r)
    BY <1>1, <2>1, <2>2, EndSeq
  <2>3. ASSUME NEW n, Become(r, n), InPlace(n), Alike(q, n), n.pc = "first.record"
        PROVE  SequenceInv'
    BY <1>4, <2>1, <2>3, CarrySeq
  <2> QED
    BY <1>8, <2>2, <2>3, FirstReleaseDoes
<1>9. CASE FirstRecord(r)
  <2>1. q.pc = "first.record" /\ UNCHANGED <<app, nextDeployment, worker>>
    BY <1>9, FirstRecordDoes DEF FirstRecord, At
  <2>2. CASE End(r) /\ UNCHANGED row
    BY <1>1, <2>1, <2>2, EndSeq
  <2>3. ASSUME NEW n, Become(r, n), InPlace(n), n.pc = "regions.read",
               row' = CreateDeploymentsRecord(q.dep, q.rel, TRUE)
        PROVE  SequenceInv'
    BY <1>2, <1>4, <2>1, <2>3, InsertSeq
  <2> QED
    BY <1>9, <2>2, <2>3, FirstRecordDoes
<1>10. CASE FirstRoute(r)
  <2>1. q.pc = "first.route" /\ app'.exists = app.exists /\ UNCHANGED <<row, nextDeployment, worker>>
    BY <1>10, FirstRouteDoes DEF FirstRoute, At
  <2>2. CASE End(r)
    BY <1>1, <2>1, <2>2, EndSeq
  <2>3. ASSUME NEW n, Become(r, n), InPlace(n), n.pc = "regions.read"
        PROVE  SequenceInv'
    <3>1. app.exists
      BY <1>1, <2>1 DEF SequenceInv, RowKnows, Orphaned
    <3> QED
      BY <1>1, <1>2, <2>1, <2>3, <3>1, NobodyWorks, CalmSeq
  <2> QED
    BY <1>10, <2>2, <2>3, FirstRouteDoes
<1> QED
  BY <1>5, <1>6, <1>7, <1>8, <1>9, <1>10 DEF Deploy

\* AddOrRemoveRegions inserts the row of what it has deployed.
LEMMA RegionsSeq ==
    ASSUME Alone, TypeOK, SequenceInv, NEW r \in Requests, AddOrRemoveRegions(r)
    PROVE  SequenceInv'
<1> DEFINE q == req[r]
           plain == {"regions.read", "regions.add", "add.route", "regions.standby",
                     "standby.drop", "regions.del", "regions.backup", "status.release"}
<1>1. q \in Request
  BY DEF TypeOK
<1>2. /\ plain \cap (Called \cup Orphaned \cup Owned \cup Heeding \cup {"roll.wait"}) = {}
      /\ {"create", "undeploy.find"} \cap Heeding = {}
  BY DEF Called, Deploying, Undeploying, Orphaned, Owned, DeleteLabels, Heeding, Unrecorded
<1>3. {"add.release", "add.record"} \subseteq Unrecorded
      /\ {"add.release", "add.record"} \cap (Orphaned \cup {"roll.wait"}) = {}
  BY DEF Unrecorded, Orphaned
<1>4. ASSUME q.pc \in plain, NEW n, Become(r, n), InPlace(n),
             n.pc \in plain \cup {"create", "undeploy.find"}, Reads
      PROVE  SequenceInv'
  <2>1. app.exists
    BY <1>2, <1>4 DEF SequenceInv, RowKnows, Orphaned
  <2> QED
    BY <1>2, <1>4, <2>1, NobodyWorks, CalmSeq DEF Reads
<1>5. CASE q.pc \in plain /\ End(r) /\ Reads
  BY <1>2, <1>5, EndSeq DEF Reads
<1>6. ASSUME q.pc \in plain, NEW label \in plain, Become(r, Goto(q, label)),
             app'.exists = app.exists, UNCHANGED <<row, nextDeployment, worker>>
      PROVE  SequenceInv'
  BY <1>2, <1>6, GotoSeq
<1>7. CASE RegionsRead(r)
  <2>1. q.pc = "regions.read"
    BY <1>7 DEF RegionsRead, At
  <2> QED
    BY <1>4, <1>5, <1>7, <2>1, RegionsReadDoes
<1>8. CASE RegionsAdded(r) \/ StandbyDone(r) \/ RegionsDeleted(r)
  <2>1. PICK label \in plain : Become(r, Goto(q, label))
    BY <1>8 DEF RegionsAdded, StandbyDone, RegionsDeleted
  <2>2. q.pc \in plain /\ app'.exists = app.exists /\ UNCHANGED <<row, nextDeployment, worker>>
    BY <1>8 DEF RegionsAdded, StandbyDone, RegionsDeleted, At, Reads
  <2> QED
    BY <1>6, <2>1, <2>2
<1>9. CASE AddRoute(r)
  <2>1. q.pc = "add.route" /\ app'.exists = app.exists /\ UNCHANGED <<row, nextDeployment, worker>>
    BY <1>9 DEF AddRoute, At, OnlyApp, Same, TypeOK, TablesTypeOK, AppRow
  <2>2. CASE End(r)
    BY <1>2, <2>1, <2>2, EndSeq
  <2>3. CASE Become(r, Goto(q, "regions.add"))
    BY <1>6, <2>1, <2>3
  <2> QED
    BY <1>9, <2>2, <2>3 DEF AddRoute
<1>10. CASE RegionsWrite(r)
  <2>1. q.pc = "regions.backup" /\ app'.exists = app.exists /\ UNCHANGED <<row, nextDeployment, worker>>
    BY <1>10 DEF RegionsWrite, At, OnlyApp, Same, TypeOK, TablesTypeOK, AppRow
  <2>2. Become(r, Goto(q, "status.release"))
    BY <1>10 DEF RegionsWrite
  <2> QED
    BY <1>6, <2>1, <2>2
<1>11. CASE RegionsAddOnly(r)
  <2>1. q.pc = "regions.add"
    BY <1>11 DEF RegionsAddOnly, At
  <2> QED
    BY <1>4, <1>11, <2>1, RegionsAddOnlyDoes
<1>12. CASE RegionsDeploy(r)
  <2>1. q.pc = "regions.add"
    BY <1>12 DEF RegionsDeploy, At
  <2> QED
    BY <1>4, <1>5, <1>12, <2>1, RegionsDeployDoes
<1>13. CASE RegionsStandby(r)
  <2>1. q.pc = "regions.standby"
    BY <1>13 DEF RegionsStandby, At
  <2>2. PICK n : Become(r, n) /\ InPlace(n) /\ n.pc \in {"undeploy.find", "standby.drop"}
    BY <1>13, RegionsStandbyDoes
  <2>3. Reads
    BY <1>13, RegionsStandbyDoes
  <2> QED
    BY <1>4, <2>1, <2>2, <2>3
<1>14. CASE StandbyDrop(r)
  <2>1. q.pc = "standby.drop"
    BY <1>14 DEF StandbyDrop, At
  <2> QED
    BY <1>4, <1>5, <1>14, <2>1, StandbyDropDoes
<1>15. CASE RegionsDelete(r)
  <2>1. q.pc = "regions.del"
    BY <1>15 DEF RegionsDelete, At
  <2>2. PICK n : Become(r, n) /\ InPlace(n) /\ n.pc \in {"undeploy.find", "regions.del"}
    BY <1>15, RegionsDeleteDoes
  <2>3. Reads
    BY <1>15, RegionsDeleteDoes
  <2> QED
    BY <1>4, <2>1, <2>2, <2>3
<1>16. CASE RegionsBackup(r)
  <2>1. q.pc = "regions.backup"
    BY <1>16 DEF RegionsBackup, At
  <2>2. Reads /\ (End(r) \/ \E n : Become(r, n) /\ InPlace(n) /\ n.pc \in {"regions.backup", "create"})
    BY <1>16, RegionsBackupDoes
  <2> QED
    BY <1>4, <1>5, <2>1, <2>2
<1>17. CASE AddRelease(r)
  <2>1. q.pc = "add.release"
    BY <1>17 DEF AddRelease, At
  <2>2. PICK n : Become(r, n) /\ InPlace(n) /\ Alike(q, n) /\ n.pc = "add.record"
    BY <1>17, AddReleaseDoes
  <2>3. Reads
    BY <1>17, AddReleaseDoes
  <2> QED
    BY <1>3, <2>1, <2>2, <2>3, CarrySeq DEF Reads
<1>18. CASE AddRecord(r)
  <2>1. q.pc = "add.record" /\ UNCHANGED <<app, nextDeployment, worker>>
    BY <1>18, AddRecordDoes DEF AddRecord, At
  <2>2. CASE End(r) /\ UNCHANGED row
    BY <1>3, <2>1, <2>2, EndSeq
  <2>3. ASSUME NEW n, Become(r, n), InPlace(n), n.pc = "add.route",
               row' = CreateDeploymentsRecord(q.dep, q.rel, TRUE)
        PROVE  SequenceInv'
    BY <1>2, <1>3, <2>1, <2>3, InsertSeq
  <2> QED
    BY <1>18, <2>2, <2>3, AddRecordDoes
<1> QED
  BY <1>7, <1>8, <1>9, <1>10, <1>11, <1>12, <1>13, <1>14, <1>15, <1>16, <1>17, <1>18
  DEF AddOrRemoveRegions

-----------------------------------------------------------------------------
(***************************************************************************)
(* The mutations                                                           *)
(***************************************************************************)
\* What a request is when it has been issued.
Issued(n) ==
    /\ InPlace(n)
    /\ n.pc \in {"deploy.find", "regions.read", "scale.find", "image.release", "delete.read"}
    /\ n.kind \in Kinds
    /\ n.standby = {} /\ n.backups = {}
    /\ NoBackups => n.backs = {}
    /\ n.pc = "deploy.find" => ~n.toDeploy /\ n.dels = {}
    /\ n.pc = "scale.find" /\ "pause" \notin Kinds => n.from = "suspended"
    /\ n.pc = "regions.read" \/ n.kind \in {"redeploy", "revert"} => n.toDeploy
    /\ n.kind = "delete" => ~n.toDeploy /\ n.adds = {} /\ n.dels = {n.region} \ {NoRegion}

\* An issued request has nothing to return to, except a deletion or a redeployment.
LEMMA IssueAlone ==
    ASSUME NEW n, n.ret = <<>>,
           \/ n.pc \in {"regions.read", "scale.find", "image.release"}
           \/ n.pc = "deploy.find" /\ n.kind = "deploy"
           \/ n.pc = "delete.read" /\ n.kind = "delete"
    PROVE  InPlace(n)
<1> DEFINE own == Awaits(n.kind)
<1>1. <<>> \in Seq(own)
  OBVIOUS
<1> HIDE DEF own
<1> QED
  BY <1>1 DEF InPlace, Undeploying, DeleteLabels, own

\* What a change of regions begins with.
LEMMA ChangeFields ==
    ASSUME NEW adds \in SUBSET Regions, NEW dels \in SUBSET Regions
    PROVE  /\ ChangeRegions(adds, dels) \in Request
           /\ ChangeRegions(adds, dels).pc = "regions.read"
           /\ ChangeRegions(adds, dels).ret = <<>>
           /\ ChangeRegions(adds, dels).toDeploy
           /\ ChangeRegions(adds, dels).standby = {}
           /\ ChangeRegions(adds, dels).backups = {}
           /\ ChangeRegions(adds, dels).backs = {}
<1>1. /\ Idle \in Request /\ Idle.ret = <<>> /\ Idle.standby = {} /\ Idle.backs = {}
      /\ Idle.backups = {}
  BY IdleFollows DEF Follows, Carries, Idle
<1>2. "regions.read" \in Labels
  BY DEF Labels
<1> QED
  BY <1>1, <1>2, ZenonT(60) DEF ChangeRegions, Request

\* A change of regions, a move,
LEMMA ChangeIssued ==
    ASSUME NEW r \in Requests, NEW kind \in {"configure", "move"},
           NEW adds \in SUBSET Regions, NEW dels \in SUBSET Regions, NEW backs \in SUBSET Regions,
           NoBackups => backs = {},
           Issue(r, kind, [ChangeRegions(adds, dels) EXCEPT !.backs = backs])
    PROVE  \E n : Issued(n) /\ Become(r, n)
<1> DEFINE change == ChangeRegions(adds, dels)
           q == [change EXCEPT !.backs = backs]
           n == [q EXCEPT !.kind = kind]
<1>1. /\ change \in Request /\ change.pc = "regions.read" /\ change.ret = <<>>
      /\ change.toDeploy /\ change.standby = {} /\ change.backups = {}
  BY ChangeFields
<1>2. kind \in Kinds /\ Become(r, n)
  BY DEF Issue
<1> HIDE DEF change
<1>3. /\ q \in Request /\ q.pc = "regions.read" /\ q.ret = <<>>
      /\ q.toDeploy /\ q.standby = {} /\ q.backs = backs /\ q.backups = {}
  BY <1>1, ZenonT(60) DEF Request
<1> HIDE DEF q
<1>4. /\ n.kind = kind /\ n.pc = "regions.read" /\ n.ret = <<>> /\ n.standby = {}
      /\ n.backs = backs /\ n.toDeploy /\ n.backups = {}
  BY <1>3 DEF Request
<1> HIDE DEF n
<1>5. InPlace(n)
  BY <1>4, IssueAlone
<1>6. Issued(n)
  BY <1>2, <1>4, <1>5 DEF Issued
<1> QED
  BY <1>2, <1>6

\* a redeployment or a revert,
LEMMA RebuildIssued ==
    ASSUME TypeOK, NEW r \in Requests, NEW kind \in {"redeploy", "revert"},
           \/ Issue(r, kind, Rebuild)
           \/ \E version : Issue(r, kind, [Rebuild EXCEPT !.version = version])
    PROVE  \E n : Issued(n) /\ Become(r, n)
<1>0. PICK change : change = ChangeRegions({}, app.regions)
  OBVIOUS
<1> DEFINE back == <<"config.again">>
<1>1. {} \in SUBSET Regions /\ app.regions \in SUBSET Regions
  BY DEF TypeOK, TablesTypeOK, AppRow
<1>2. /\ change \in Request /\ change.pc = "regions.read" /\ change.toDeploy
      /\ change.standby = {} /\ change.backs = {} /\ change.backups = {}
  BY <1>0, <1>1, ChangeFields
<1>3. Rebuild = [change EXCEPT !.ret = back, !.items = app.regions]
  BY <1>0 DEF Rebuild
<1>4. back \in Seq(Awaits(kind))
  <2> DEFINE own == Awaits(kind)
  <2>1. "config.again" \in own
    BY DEF Awaits
  <2> HIDE DEF own
  <2>2. back \in Seq(own)
    BY <2>1
  <2> QED
    BY <2>2 DEF own
<1> HIDE DEF back
<1>5. ASSUME NEW q, Issue(r, kind, q),
             q = Rebuild \/ \E version : q = [Rebuild EXCEPT !.version = version]
      PROVE  \E n : Issued(n) /\ Become(r, n)
  <2>0. PICK n : n = [q EXCEPT !.kind = kind]
    OBVIOUS
  <2>1. /\ n.kind = kind /\ n.pc = "regions.read" /\ n.ret = back /\ n.toDeploy
        /\ n.standby = {} /\ n.backs = {} /\ n.backups = {}
    BY <1>2, <1>3, <1>5, <2>0 DEF Request
  <2>2. kind \in Kinds /\ Become(r, n)
    BY <1>5, <2>0 DEF Issue
  <2>3. InPlace(n)
    BY <1>4, <2>1 DEF InPlace, Undeploying, DeleteLabels
  <2> QED
    BY <2>1, <2>2, <2>3 DEF Issued
<1> QED
  BY <1>5

\* a pause or a resumption,
LEMMA ScaleIssued ==
    ASSUME NEW r \in Requests, NEW kind \in {"pause", "resume"}, NEW g \in Regions,
           NEW from \in {"running", "suspended"}, kind = "resume" => from = "suspended",
           Issue(r, kind, [Idle EXCEPT !.pc = "scale.find", !.region = g, !.from = from])
    PROVE  \E n : Issued(n) /\ Become(r, n)
<1> DEFINE q == [Idle EXCEPT !.pc = "scale.find", !.region = g, !.from = from]
           n == [q EXCEPT !.kind = kind]
<1>1. n.kind = kind /\ n.pc = "scale.find" /\ n.ret = <<>> /\ n.standby = {}
      /\ n.backs = {} /\ n.backups = {} /\ n.from = from
  BY DEF Idle
<1>2. kind \in Kinds /\ Become(r, n)
  BY DEF Issue
<1> HIDE DEF n
<1>3. InPlace(n)
  BY <1>1, IssueAlone
<1> QED
  BY <1>1, <1>2, <1>3 DEF Issued

\* a deletion,
LEMMA DeleteIssued ==
    ASSUME NEW r \in Requests, DeleteApp(r)
    PROVE  \E n : Issued(n) /\ Become(r, n)
<1>1. PICK g \in Regions \cup {NoRegion} :
        LET q == [Idle EXCEPT !.pc = "delete.read", !.region = g,
                              !.dels = IF g = NoRegion THEN {} ELSE {g}]
        IN  \/ Issue(r, "delete", q)
            \/ Issue(r, "delete", Call([q EXCEPT !.from = "suspended"],
                                       "scale.find", <<"delete.read">>))
  BY DEF DeleteApp
<1> DEFINE dels == IF g = NoRegion THEN {} ELSE {g}
           back == <<"delete.read">>
           none == <<>>
           q == [Idle EXCEPT !.pc = "delete.read", !.region = g, !.dels = dels]
           asleep == [q EXCEPT !.from = "suspended"]
<1>2. \/ Issue(r, "delete", q)
      \/ Issue(r, "delete", Call(asleep, "scale.find", back))
  BY <1>1
<1>3. dels = {g} \ {NoRegion}
  OBVIOUS
<1>4. back \o none = back
  OBVIOUS
<1>5. back \in Seq(Awaits("delete"))
  <2> DEFINE own == Awaits("delete")
  <2>1. "delete.read" \in own
    BY DEF Awaits
  <2> HIDE DEF own
  <2>2. back \in Seq(own)
    BY <2>1
  <2> QED
    BY <2>2 DEF own
<1>6. CASE Issue(r, "delete", q)
  <2> DEFINE n == [q EXCEPT !.kind = "delete"]
  <2>1. /\ n.kind = "delete" /\ n.pc = "delete.read" /\ n.ret = <<>> /\ n.standby = {}
        /\ n.backs = {} /\ n.backups = {}
        /\ ~n.toDeploy /\ n.adds = {} /\ n.dels = dels /\ n.region = g
    BY DEF Idle
  <2>2. "delete" \in Kinds /\ Become(r, n)
    BY <1>6 DEF Issue
  <2> HIDE DEF n
  <2>3. InPlace(n)
    BY <2>1, IssueAlone
  <2> QED
    BY <1>3, <2>1, <2>2, <2>3 DEF Issued
<1>7. CASE Issue(r, "delete", Call(asleep, "scale.find", back))
  <2>1. /\ asleep.standby = {} /\ asleep.backs = {} /\ asleep.backups = {}
        /\ ~asleep.toDeploy /\ asleep.adds = {}
        /\ asleep.dels = dels /\ asleep.region = g /\ asleep.from = "suspended"
        /\ asleep.ret = none
        /\ DOMAIN asleep = DOMAIN Idle
    BY DEF Idle
  <2>2. {"pc", "ret", "kind", "standby", "backs", "backups", "toDeploy", "adds", "dels", "region", "from"}
          \subseteq DOMAIN Idle
    BY DEF Idle
  <2> HIDE DEF asleep, back, none, dels
  <2>3. PICK call : call = Call(asleep, "scale.find", back)
    OBVIOUS
  <2>4. PICK n : n = [call EXCEPT !.kind = "delete"]
    OBVIOUS
  <2>5. /\ n.kind = "delete" /\ n.pc = "scale.find" /\ n.ret = back /\ n.standby = {}
        /\ n.backs = {} /\ n.backups = {}
        /\ ~n.toDeploy /\ n.adds = {} /\ n.dels = dels /\ n.region = g
        /\ n.from = "suspended"
    BY <1>4, <2>1, <2>2, <2>3, <2>4 DEF Call
  <2>6. "delete" \in Kinds /\ Become(r, n)
    BY <1>7, <2>3, <2>4 DEF Issue
  <2>7. InPlace(n)
    BY <1>5, <2>5 DEF InPlace, Undeploying, DeleteLabels
  <2> QED
    BY <1>3, <2>5, <2>6, <2>7 DEF Issued
<1> QED
  BY <1>2, <1>6, <1>7

\* and every mutation.
LEMMA MutationDoes ==
    ASSUME TypeOK, NEW r \in Requests, Mutation(r)
    PROVE  /\ req[r].pc = "idle" /\ app.exists /\ UNCHANGED <<tables, worker>>
           /\ \E n : Issued(n) /\ Become(r, n)
<1>1. req[r].pc = "idle" /\ app.exists /\ UNCHANGED <<tables, worker>>
  BY DEF Mutation, DeployImage, ConfigureRegions, MoveApp, PauseApp, ResumeApp, UpdateImage,
         Redeploy, Revert, DeleteApp, Issue, At
<1>2. ASSUME NEW kind \in {"deploy", "image"}, NEW label, Issue(r, kind, Goto(Idle, label)),
             label = IF kind = "deploy" THEN "deploy.find" ELSE "image.release"
      PROVE  \E n : Issued(n) /\ Become(r, n)
  <2> DEFINE n == [Goto(Idle, label) EXCEPT !.kind = kind]
  <2>1. /\ n.kind = kind /\ n.pc = label /\ n.ret = <<>> /\ n.standby = {} /\ n.backs = {}
        /\ n.backups = {} /\ ~n.toDeploy /\ n.dels = {}
    BY DEF Idle, Goto
  <2>2. kind \in Kinds /\ Become(r, n)
    BY <1>2 DEF Issue
  <2> HIDE DEF n
  <2>3. InPlace(n)
    BY <1>2, <2>1, IssueAlone
  <2> QED
    BY <1>2, <2>1, <2>2, <2>3 DEF Issued
<1>3. CASE DeployImage(r)
  <2>1. Issue(r, "deploy", Goto(Idle, "deploy.find"))
    BY <1>3 DEF DeployImage
  <2> QED
    BY <1>1, <1>2, <2>1
<1>4. CASE UpdateImage(r)
  <2>1. Issue(r, "image", Goto(Idle, "image.release"))
    BY <1>4 DEF UpdateImage
  <2> QED
    BY <1>1, <1>2, <2>1
<1>5. CASE ConfigureRegions(r)
  <2>1. PICK adds \in AllowLists, dels \in DenyLists, backs \in BackupLists :
          Issue(r, "configure", [ChangeRegions(adds, dels) EXCEPT !.backs = backs])
    BY <1>5 DEF ConfigureRegions
  <2>2. adds \in SUBSET Regions /\ dels \in SUBSET Regions /\ backs \in SUBSET Regions
    BY LifecycleAssumption
  <2>3. NoBackups => backs = {}
    BY DEF NoBackups
  <2> QED
    BY <1>1, <2>1, <2>2, <2>3, ChangeIssued
<1>6. CASE MoveApp(r)
  <2>1. PICK source \in Regions, dest \in Regions :
          Issue(r, "move", ChangeRegions({dest}, {source}))
    BY <1>6 DEF MoveApp
  <2> DEFINE change == ChangeRegions({dest}, {source})
  <2>0. {dest} \in SUBSET Regions /\ {source} \in SUBSET Regions /\ {} \in SUBSET Regions
    OBVIOUS
  <2>2. change \in Request /\ change.backs = {}
    BY <2>0, ChangeFields
  <2>3. change = [change EXCEPT !.backs = {}]
    <3> HIDE DEF change
    <3> QED
      BY <2>2 DEF Request
  <2> QED
    BY <1>1, <2>0, <2>1, <2>3, ChangeIssued
<1>7. CASE Redeploy(r)
  <2>1. Issue(r, "redeploy", Rebuild)
    BY <1>7 DEF Redeploy
  <2> QED
    BY <1>1, <2>1, RebuildIssued
<1>8. CASE Revert(r)
  <2>1. \E version : Issue(r, "revert", [Rebuild EXCEPT !.version = version])
    BY <1>8 DEF Revert
  <2> QED
    BY <1>1, <2>1, RebuildIssued
<1>9. CASE PauseApp(r) \/ ResumeApp(r)
  <2>1. PICK kind \in {"pause", "resume"}, g \in Regions, from \in {"running", "suspended"} :
          /\ kind = "resume" => from = "suspended"
          /\ Issue(r, kind, [Idle EXCEPT !.pc = "scale.find", !.region = g, !.from = from])
    BY <1>9 DEF PauseApp, ResumeApp
  <2> QED
    BY <1>1, <2>1, ScaleIssued
<1>10. CASE DeleteApp(r)
  BY <1>1, <1>10, DeleteIssued
<1> QED
  BY <1>1, <1>3, <1>4, <1>5, <1>6, <1>7, <1>8, <1>9, <1>10 DEF Mutation

\* A new request knows nothing of the rows.
LEMMA MutationSeq ==
    ASSUME Alone, TypeOK, SequenceInv, NEW r \in Requests, Mutation(r)
    PROVE  SequenceInv'
<1>1. PICK n : Issued(n) /\ Become(r, n)
  BY MutationDoes
<1>2. req[r].pc = "idle" /\ app.exists /\ UNCHANGED <<app, row, nextDeployment, worker>>
  BY MutationDoes DEF tables
<1>3. InPlace(n) /\ n.pc \notin Heeding
  BY <1>1 DEF Issued, Heeding, Unrecorded
<1> QED
  BY <1>1, <1>2, <1>3, NobodyWorks, CalmSeq

\* A server that starts anew has nobody at work.
LEMMA HaltSeq ==
    ASSUME TypeOK, SequenceInv, Halt PROVE SequenceInv'
<1>1. \A r \in Requests : req'[r] = Idle
  BY DEF Halt
<1>2. \A r \in Requests, d \in DeploymentIds : worker'[r][d].stage = "off"
  BY DEF Halt, NoWorker
<1>3. RowKnows(Idle)'
  BY DEF RowKnows, Idle, Unrecorded
<1>4. \A d \in DeploymentIds : d >= nextDeployment' => row'[d].status = "none"
  BY DEF Halt, tables, SequenceInv
<1> QED
  BY <1>1, <1>2, <1>3, <1>4, IdlePlace DEF SequenceInv, ReplacerKnows

\* An application that has just been created has no row.
LEMMA InitSeq == Init => SequenceInv
<1> SUFFICES ASSUME Init PROVE SequenceInv
  OBVIOUS
<1>1. RowKnows(Idle)
  BY DEF RowKnows, Idle, Unrecorded
<1> QED
  BY <1>1, IdlePlace DEF Init, TablesInit, NoDeploymentRow, SequenceInv, ReplacerKnows, NoWorker

\* The row of a goroutine's deployment is destroyed after that deployment.
LEMMA NextSeq ==
    ASSUME Alone, TypeOK, SequenceInv, [Next]_vars PROVE SequenceInv'
<1>1. CASE UNCHANGED vars
  BY <1>1 DEF vars, SequenceInv, RowKnows, ReplacerKnows, Rows, At
<1>2. CASE Done
  BY <1>1, <1>2 DEF Done
<1>3. CASE Crash
  BY <1>3, HaltSeq DEF Crash
<1>4. ASSUME NEW r \in Requests, Mutation(r) PROVE SequenceInv'
  BY <1>4, MutationSeq
<1>5. ASSUME NEW r \in Requests, Step(r) PROVE SequenceInv'
  BY <1>5, DeploySeq, RollSeq, RegionsSeq, StatusSeq, UndeploySeq, ScaleSeq, DeleteSeq,
     ConfigSeq, ImageSeq DEF Step
<1>6. ASSUME NEW r \in Requests, NEW d \in DeploymentIds, Work(r, d) PROVE SequenceInv'
  BY <1>6, WorkSeq, HaltSeq DEF Work, WorkerPanic
<1> QED
  BY <1>1, <1>2, <1>3, <1>4, <1>5, <1>6 DEF Next

\* One request after the other, the rows inserted are new.
THEOREM SequenceInvariant == Alone /\ Spec => []SequenceInv
<1> SUFFICES ASSUME Alone PROVE Spec => []SequenceInv
  OBVIOUS
<1>1. TypeOK /\ SequenceInv /\ [Next]_vars => SequenceInv'
  BY NextSeq
<1> QED
  BY <1>1, InitSeq, TypeCorrect, PTL DEF Spec

-----------------------------------------------------------------------------
(***************************************************************************)
(* RowsMoveForward                                                         *)
(***************************************************************************)
SameRows ==
    \A d \in DeploymentIds :
        row'[d].status = row[d].status /\ row'[d].named = row[d].named

\* The statements that insert, mark and delete rows.
LEMMA RowWriters ==
    ASSUME TypeOK, NEW r \in Requests, Step(r)
    PROVE  \/ SameRows
           \/ FirstRecord(r) \/ AddRecord(r) \/ UndeployMark(r) \/ ScaleMark(r) \/ DeleteRows(r)
<1>1. UNCHANGED row => SameRows
  BY DEF SameRows
<1>2. CASE Deploy(r)
  BY <1>1, <1>2 DEF Deploy, DeployFind, Create, CreateService, FirstRelease, FirstRoute, Reads,
     OnlyCluster, OnlyApp
<1>3. CASE CreateNewAppRelease(r)
  BY <1>1, <1>3 DEF CreateNewAppRelease, RollCurrent, RollApp, RollRows, RollWait, RollRetire,
     RollPublish, RollVersion, Reads, OnlyRelease, OnlyApp
<1>4. CASE AddOrRemoveRegions(r)
  BY <1>1, <1>4 DEF AddOrRemoveRegions, RegionsRead, RegionsAdded, RegionsAddOnly, RegionsDeploy,
     AddRelease, AddRoute, RegionsStandby, StandbyDrop, StandbyDone, RegionsDelete,
     RegionsDeleted, RegionsBackup, RegionsWrite, Reads, OnlyApp
<1>5. CASE UpdateAppStatus(r) \/ SuspendResumePods(r)
  BY <1>1, <1>5 DEF UpdateAppStatus, StatusRelease, StatusRows, StatusWrite, SuspendResumePods,
     ScaleFind, ScalePods, Reads, OnlyApp, OnlyCluster
<1>6. CASE UnDeploy(r)
  BY <1>1, <1>6 DEF UnDeploy, UndeployFind, UndeployRoute, UndeployPods, UndeployService,
     UndeployFails, Reads, OnlyApp, OnlyCluster
<1>7. CASE Delete(r)
  BY <1>1, <1>7 DEF Delete, DeleteRead, DeleteCheck, DeleteRecord, DeleteReleases, Reads,
     OnlyApp, OnlyRelease
<1>8. CASE Image(r)
  BY <1>1, <1>8 DEF Image, ImageRelease, ImageRetire, ImagePublish, ReleaseRead, ReleaseRetire,
     ReleasePublish, Reads, OnlyRelease
<1>9. CASE Config(r)
  <2>1. CASE ConfigAttach(r)
    BY <2>1 DEF ConfigAttach, UpdateDeploymentsReleaseId, SameRows, TypeOK, TablesTypeOK,
       DeploymentRow
  <2> QED
    BY <1>1, <1>9, <2>1 DEF Config, ConfigAgain, ConfigRelease, ConfigRetire, ConfigLatest,
       ConfigPublish, ConfigActivate, ConfigVersion, ReleaseRead, ReleaseRetire,
       ReleasePublish, Reads, OnlyRelease, OnlyApp
<1> QED
  BY <1>2, <1>3, <1>4, <1>5, <1>6, <1>7, <1>8, <1>9 DEF Step

\* A row that is no longer live is never written again, except to be deleted.
LEMMA ForwardStep ==
    ASSUME Alone, TypeOK, SequenceInv, [Next]_vars
    PROVE  \A d \in DeploymentIds :
             row[d].status = "destroyed" => row'[d].status \in {"destroyed", "none"}
<1> DEFINE Forward == \A d \in DeploymentIds :
             row[d].status = "destroyed" => row'[d].status \in {"destroyed", "none"}
<1>1. SameRows => Forward
  BY DEF SameRows
<1>2. UNCHANGED row => Forward
  OBVIOUS
<1>3. ASSUME NEW d \in DeploymentIds, row[d].status = "none", NEW x, NEW named,
             row' = CreateDeploymentsRecord(d, x, named)
      PROVE  Forward
  <2>1. \A e \in DeploymentIds : e # d => row'[e] = row[e]
    BY <1>3, RecordKeeps
  <2> QED
    BY <1>3, <2>1
<1> HIDE DEF Forward
<1>4. ASSUME NEW id, row' = UpdateDeploymentsRecord("destroyed", id)
      PROVE  Forward
  BY <1>4, MarkKeeps DEF Forward
<1>5. ASSUME NEW r \in Requests, Step(r) PROVE Forward
  <2>1. RowKnows(req[r])
    BY DEF SequenceInv
  <2>2. CASE FirstRecord(r)
    <3>1. req[r].dep \in DeploymentIds /\ row[req[r].dep].status = "none"
      BY <2>1, <2>2 DEF RowKnows, Unrecorded, FirstRecord, At
    <3> QED
      BY <1>2, <1>3, <2>2, <3>1 DEF FirstRecord
  <2>3. CASE AddRecord(r)
    <3>1. req[r].dep \in DeploymentIds /\ row[req[r].dep].status = "none"
      BY <2>1, <2>3 DEF RowKnows, Unrecorded, AddRecord, At
    <3> QED
      BY <1>2, <1>3, <2>3, <3>1 DEF AddRecord
  <2>4. CASE UndeployMark(r)
    BY <1>4, <2>4 DEF UndeployMark
  <2>5. CASE DeleteRows(r)
    BY <2>5 DEF DeleteRows, Forward, TypeOK, TablesTypeOK, DeploymentRow
  <2>6. CASE ScaleMark(r)
    <3> DEFINE q == req[r]
    <3>1. /\ q.dep # NoDeployment /\ row[q.dep].named /\ row[q.dep].status = q.from
          /\ q.from \in {"running", "suspended"}
      BY <2>1, <2>6 DEF RowKnows, ScaleMark, At, TypeOK, Request
    <3>2. DeploymentId(q.dep) = q.dep /\ q.dep # NoDeployment
      BY <3>1 DEF DeploymentId
    <3>3. PICK status : row' = UpdateDeploymentsRecord(status, q.dep)
      BY <2>6, <3>2 DEF ScaleMark
    <3>4. \A d \in DeploymentIds : DeploymentId(d) = q.dep => d = q.dep
      BY <3>2 DEF DeploymentId
    <3>5. \A d \in DeploymentIds : row[d].status = "destroyed" => row'[d].status = row[d].status
      BY <3>1, <3>3, <3>4, MarkKeeps
    <3> QED
      BY <3>5 DEF Forward
  <2> QED
    BY <1>1, <1>5, <2>2, <2>3, <2>4, <2>5, <2>6, RowWriters
<1>6. ASSUME NEW r \in Requests, NEW d \in DeploymentIds, Work(r, d) PROVE Forward
  <2>1. CASE WorkerMark(r, d)
    BY <1>4, <2>1 DEF WorkerMark
  <2>2. CASE WorkerRecord(r, d)
    <3> DEFINE w == worker[r][d]
    <3>1. w.stage = "record" /\ w.new \in DeploymentIds \cup {NoDeployment}
      BY <2>2 DEF WorkerRecord, TypeOK, Worker
    <3>2. w.new # NoDeployment => row[w.new].status = "none"
      BY <3>1 DEF SequenceInv, ReplacerKnows
    <3>3. nextDeployment \in DeploymentIds => row[nextDeployment].status = "none"
      BY IdsAreNat DEF SequenceInv
    <3> QED
      BY <1>2, <1>3, <2>2, <3>1, <3>2, <3>3 DEF WorkerRecord
  <2> QED
    BY <1>2, <1>6, <2>1, <2>2 DEF Work, WorkerDelete, WorkerCreate, WorkerPanic, Halt, tables,
       OnlyCluster
<1>7. ASSUME NEW r \in Requests, Mutation(r) PROVE Forward
  BY <1>2, <1>7, MutationDoes DEF tables
<1>8. Crash \/ Done \/ UNCHANGED vars => Forward
  BY <1>2 DEF Crash, Halt, Done, vars, tables
<1>9. Forward
  BY <1>5, <1>6, <1>7, <1>8 DEF Next
<1> QED
  BY <1>9 DEF Forward

\* One request after the other, no UPDATE brings a destroyed deployment back: the
\* row that SuspendResumePods marks is still the one it has found and scaled.
THEOREM RowsAlwaysMoveForward == Alone /\ Spec => RowsMoveForward
<1> SUFFICES ASSUME Alone PROVE Spec => RowsMoveForward
  OBVIOUS
<1>1. TypeOK /\ SequenceInv /\ [Next]_vars =>
        [\A d \in DeploymentIds :
            row[d].status = "destroyed" => row'[d].status \in {"destroyed", "none"}]_vars
  BY ForwardStep
<1> QED
  BY <1>1, TypeCorrect, SequenceInvariant, PTL DEF RowsMoveForward, Spec

-----------------------------------------------------------------------------
(***************************************************************************)
(* Steps that touch neither the deployments nor the status of their rows   *)
(***************************************************************************)
\* The labels at which a request has a deployment or a region in hand.
Watched == Unrecorded \cup {"create", "scale.find", "scale.pods", "scale.mark"}

\* The labels at which it has touched a deployment and not yet its row.
Marking == {"undeploy.service", "undeploy.mark", "scale.mark"}

\* The rows, the clusters and the goroutines are left alone.
Lasting == SameRows /\ UNCHANGED <<cluster, nextDeployment, worker>>

\* A step after which the request has none in hand.
Harmless(r) ==
    /\ Lasting
    /\ req[r].pc \notin Watched \cup Marking
    /\ \E n : Become(r, n) /\ n.pc \notin Watched

\* Reading, rewriting the application and its releases, editing the list of regions.
Bookkeeping(r) ==
    \/ UpdateAppStatus(r) \/ Image(r) \/ Config(r)
    \/ RollCurrent(r) \/ RollApp(r) \/ RollWait(r)
    \/ RollRetire(r) \/ RollPublish(r) \/ RollVersion(r)
    \/ DeleteRead(r) \/ DeleteCheck(r) \/ DeleteRecord(r) \/ DeleteReleases(r)
    \/ FirstRoute(r) \/ RegionsRead(r) \/ RegionsAdded(r) \/ RegionsAddOnly(r) \/ AddRoute(r)
    \/ RegionsStandby(r) \/ StandbyDrop(r) \/ StandbyDone(r)
    \/ RegionsDelete(r) \/ RegionsDeleted(r) \/ RegionsWrite(r)
    \/ UndeployFind(r) \/ UndeployRoute(r)

\* What the steps of a request become, label by label: an end,
LEMMA EndHarmless ==
    ASSUME NEW r \in Requests, End(r), Lasting, req[r].pc \notin Watched \cup Marking
    PROVE  Harmless(r)
<1>1. Idle.pc \notin Watched
  BY DEF Idle, Watched, Unrecorded
<1> QED
  BY <1>1 DEF Harmless, End

\* a jump,
LEMMA GotoHarmless ==
    ASSUME TypeOK, NEW r \in Requests, NEW label, Become(r, Goto(req[r], label)), Lasting,
           label \notin Watched, req[r].pc \notin Watched \cup Marking
    PROVE  Harmless(r)
<1> DEFINE n == Goto(req[r], label)
<1>1. n.pc = label
  BY GotoFields DEF TypeOK, Shaped
<1> HIDE DEF n
<1> QED
  BY <1>1 DEF Harmless, n

\* or a return to the mutation.
LEMMA ReturnHarmless ==
    ASSUME TypeOK, SequenceInv, NEW r \in Requests, Become(r, Return(req[r])), Lasting,
           req[r].pc \notin Watched \cup Marking \cup Called
    PROVE  Harmless(r)
<1> DEFINE n == Return(req[r])
<1>1. n = Idle \/ n.pc \in Awaits(req[r].kind)
  BY OutsidePlace, ReturnPlace
<1> HIDE DEF n
<1>2. n.pc \notin Watched
  BY <1>1, AwaitsLabels DEF Idle, Watched, Unrecorded
<1> QED
  BY <1>2 DEF Harmless, n

\* Reads and Lasting.
LEMMA LastingSteps ==
    /\ Reads => Lasting
    /\ OnlyApp /\ Same => Lasting
    /\ OnlyRelease /\ Same => Lasting
  BY DEF Reads, OnlyApp, OnlyRelease, Same, Lasting, SameRows

\* UpdateAppStatus reads rows and writes the status.
LEMMA StatusHarmless ==
    ASSUME TypeOK, SequenceInv, NEW r \in Requests, UpdateAppStatus(r)
    PROVE  Harmless(r)
<1>1. {"status.release", "status.rows", "status.write"}
        \cap (Watched \cup Marking \cup Called) = {}
  BY DEF Watched, Unrecorded, Marking, Called, Deploying, Undeploying
<1>2. req[r] \in Request
  BY DEF TypeOK
<1>3. CASE StatusRelease(r)
  <2>1. PICK x : Become(r, [req[r] EXCEPT !.pc = "status.rows", !.rel = x])
    BY <1>3 DEF StatusRelease
  <2> DEFINE n == [req[r] EXCEPT !.pc = "status.rows", !.rel = x]
  <2>2. n.pc = "status.rows"
    BY <1>2 DEF Request
  <2> HIDE DEF n
  <2>3. Become(r, n) /\ req[r].pc = "status.release" /\ Lasting
    BY <1>3, <2>1, LastingSteps DEF StatusRelease, At, n
  <2> QED
    BY <1>1, <2>2, <2>3 DEF Harmless
<1>4. CASE StatusRows(r)
  <2> DEFINE seen == StatusFrom(GetDeploymentsByReleaseId(req[r].rel))
             n == [req[r] EXCEPT !.pc = "status.write", !.seen = seen]
  <2>1. Become(r, n) /\ req[r].pc = "status.rows" /\ Lasting
    BY <1>4, LastingSteps DEF StatusRows, At
  <2> HIDE DEF seen
  <2>2. n.pc = "status.write"
    BY <1>2 DEF Request
  <2> HIDE DEF n
  <2> QED
    BY <1>1, <2>1, <2>2 DEF Harmless
<1>5. CASE StatusWrite(r)
  <2>1. Become(r, Return(req[r])) /\ req[r].pc = "status.write" /\ Lasting
    BY <1>5, LastingSteps DEF StatusWrite, At
  <2> QED
    BY <1>1, <2>1, ReturnHarmless
<1> QED
  BY <1>3, <1>4, <1>5 DEF UpdateAppStatus

\* UpdateImage writes the application and its releases.
LEMMA ImageHarmless ==
    ASSUME TypeOK, NEW r \in Requests, Image(r)
    PROVE  Harmless(r)
<1>1. {"image.release", "image.retire", "image.publish"} \cap (Watched \cup Marking) = {}
  BY DEF Watched, Unrecorded, Marking
<1>2. req[r] \in Request
  BY DEF TypeOK
<1>3. CASE ImageRelease(r)
  <2>1. PICK x : Become(r, [req[r] EXCEPT !.pc = "image.retire", !.rel = x,
                                         !.version = VersionOf(x) + 1])
    BY <1>3 DEF ImageRelease
  <2> DEFINE n == [req[r] EXCEPT !.pc = "image.retire", !.rel = x, !.version = VersionOf(x) + 1]
  <2>2. n.pc = "image.retire"
    BY <1>2 DEF Request
  <2> HIDE DEF n
  <2>3. Become(r, n) /\ req[r].pc = "image.release" /\ Lasting
    BY <1>3, <2>1, LastingSteps DEF ImageRelease, At, n
  <2> QED
    BY <1>1, <2>2, <2>3 DEF Harmless
<1>4. CASE ImageRetire(r)
  BY <1>1, <1>4, LastingSteps, GotoHarmless DEF ImageRetire, ReleaseRetire, At
<1>5. CASE ImagePublish(r)
  <2>1. End(r) /\ req[r].pc = "image.publish" /\ Lasting
    BY <1>5 DEF ImagePublish, ReleasePublish, End, At, Lasting, SameRows, Same
  <2> QED
    BY <1>1, <2>1, EndHarmless
<1> QED
  BY <1>3, <1>4, <1>5 DEF Image

\* So does UpdateConfigApps.
LEMMA ConfigHarmless ==
    ASSUME TypeOK, NEW r \in Requests, Config(r)
    PROVE  Harmless(r)
<1>1. {"config.again", "config.release", "config.retire", "config.latest", "config.publish",
       "config.attach", "config.activate", "config.version", "regions.read"}
        \cap (Watched \cup Marking) = {}
  BY DEF Watched, Unrecorded, Marking
<1>2. req[r] \in Request
  BY DEF TypeOK
<1>3. CASE ConfigAgain(r)
  <2> DEFINE q == [req[r] EXCEPT !.adds = req[r].items, !.dels = {}]
             back == <<"config.release">>
             n == Call(q, "regions.read", back)
  <2>1. Shaped(q)
    BY <1>2 DEF Request, Shaped
  <2>2. Become(r, n) /\ req[r].pc = "config.again" /\ Lasting
    BY <1>3, LastingSteps DEF ConfigAgain, At
  <2> HIDE DEF q, back
  <2>3. n.pc = "regions.read"
    BY <2>1, CallFields
  <2> HIDE DEF n
  <2> QED
    BY <1>1, <2>2, <2>3 DEF Harmless
<1>4. CASE ConfigRelease(r)
  <2>1. PICK x : Become(r, [req[r] EXCEPT !.pc = "config.retire", !.rel = x])
    BY <1>4 DEF ConfigRelease, ReleaseRead
  <2> DEFINE n == [req[r] EXCEPT !.pc = "config.retire", !.rel = x]
  <2>2. n.pc = "config.retire"
    BY <1>2 DEF Request
  <2> HIDE DEF n
  <2>3. Become(r, n) /\ req[r].pc = "config.release" /\ Lasting
    BY <1>4, <2>1, LastingSteps DEF ConfigRelease, ReleaseRead, At, n
  <2> QED
    BY <1>1, <2>2, <2>3 DEF Harmless
<1>5. CASE ConfigRetire(r)
  <2>1. PICK label \in {"config.activate", "config.latest"} : Become(r, Goto(req[r], label))
    BY <1>5 DEF ConfigRetire, ReleaseRetire
  <2> QED
    BY <1>1, <1>5, <2>1, LastingSteps, GotoHarmless DEF ConfigRetire, ReleaseRetire, At
<1>6. CASE ConfigLatest(r)
  <2>1. PICK v : Become(r, [req[r] EXCEPT !.pc = "config.publish", !.version = v + 1])
    BY <1>6 DEF ConfigLatest
  <2> DEFINE n == [req[r] EXCEPT !.pc = "config.publish", !.version = v + 1]
  <2>2. n.pc = "config.publish"
    BY <1>2 DEF Request
  <2> HIDE DEF n
  <2>3. Become(r, n) /\ req[r].pc = "config.latest" /\ Lasting
    BY <1>6, <2>1, LastingSteps DEF ConfigLatest, At, n
  <2> QED
    BY <1>1, <2>2, <2>3 DEF Harmless
<1>7. CASE ConfigPublish(r)
  <2> DEFINE n == [req[r] EXCEPT !.pc = "config.attach", !.fresh = nextRelease]
  <2>1. n.pc = "config.attach"
    BY <1>2 DEF Request
  <2>2. End(r) \/ Become(r, n)
    BY <1>7 DEF ConfigPublish, ReleasePublish
  <2>3. req[r].pc = "config.publish" /\ Lasting
    BY <1>7 DEF ConfigPublish, ReleasePublish, At, Lasting, SameRows, Same
  <2> HIDE DEF n
  <2> QED
    BY <1>1, <2>1, <2>2, <2>3, EndHarmless DEF Harmless
<1>8. CASE ConfigAttach(r)
  <2>1. SameRows
    BY <1>8 DEF ConfigAttach, UpdateDeploymentsReleaseId, SameRows, TypeOK, TablesTypeOK,
       DeploymentRow
  <2> QED
    BY <1>1, <1>8, <2>1, GotoHarmless DEF ConfigAttach, OnlyRow, Same, Lasting, At
<1>9. CASE ConfigActivate(r)
  BY <1>1, <1>9, LastingSteps, GotoHarmless DEF ConfigActivate, At
<1>10. CASE ConfigVersion(r)
  BY <1>1, <1>10, LastingSteps, EndHarmless DEF ConfigVersion, At
<1> QED
  BY <1>3, <1>4, <1>5, <1>6, <1>7, <1>8, <1>9, <1>10 DEF Config

\* CreateNewAppRelease leaves the rows to its goroutines.
LEMMA RollHarmless ==
    ASSUME TypeOK, NEW r \in Requests, CreateNewAppRelease(r), ~RollRows(r)
    PROVE  Harmless(r)
<1>1. {"roll.current", "roll.app", "roll.rows", "roll.wait", "roll.retire", "roll.publish",
       "roll.version"} \cap (Watched \cup Marking) = {}
  BY DEF Watched, Unrecorded, Marking
<1>2. req[r] \in Request
  BY DEF TypeOK
<1>3. CASE RollCurrent(r)
  <2>1. PICK x : Become(r, [req[r] EXCEPT !.pc = "roll.app", !.version = VersionOf(x)])
    BY <1>3 DEF RollCurrent
  <2> DEFINE n == [req[r] EXCEPT !.pc = "roll.app", !.version = VersionOf(x)]
  <2>2. n.pc = "roll.app"
    BY <1>2 DEF Request
  <2> HIDE DEF n
  <2>3. Become(r, n) /\ req[r].pc = "roll.current" /\ Lasting
    BY <1>3, <2>1, LastingSteps DEF RollCurrent, At, n
  <2> QED
    BY <1>1, <2>2, <2>3 DEF Harmless
<1>4. CASE RollApp(r)
  <2> DEFINE seen == IF app.exists THEN app.status ELSE Gone
             n == [req[r] EXCEPT !.pc = "roll.rows", !.seen = seen]
  <2>1. Become(r, n) /\ req[r].pc = "roll.app" /\ Lasting
    BY <1>4, LastingSteps DEF RollApp, At
  <2> HIDE DEF seen
  <2>2. n.pc = "roll.rows"
    BY <1>2 DEF Request
  <2> HIDE DEF n
  <2> QED
    BY <1>1, <2>1, <2>2 DEF Harmless
<1>5. CASE RollWait(r) \/ RollRetire(r) \/ RollPublish(r)
  <2>1. PICK label \in {"roll.retire", "roll.publish", "roll.version"} : Become(r, Goto(req[r], label))
    BY <1>5 DEF RollWait, RollRetire, RollPublish
  <2> QED
    BY <1>1, <1>5, <2>1, LastingSteps, GotoHarmless DEF RollWait, RollRetire, RollPublish, At
<1>6. CASE RollVersion(r)
  BY <1>1, <1>6, LastingSteps, EndHarmless DEF RollVersion, At
<1> QED
  BY <1>3, <1>4, <1>5, <1>6 DEF CreateNewAppRelease

\* DeleteApp removes rows in one step only.
LEMMA DeleteHarmless ==
    ASSUME TypeOK, NEW r \in Requests, Delete(r), ~DeleteRows(r)
    PROVE  Harmless(r)
<1>1. (DeleteLabels \cup {"status.release", "undeploy.find"}) \cap (Watched \cup Marking) = {}
  BY DEF Watched, Unrecorded, Marking, DeleteLabels
<1>2. req[r].pc \in DeleteLabels /\ Lasting
  BY LastingSteps DEF Delete, DeleteRead, DeleteCheck, DeleteRecord, DeleteReleases, DeleteLabels, At
<1>3. Shaped(req[r])
  BY DEF TypeOK, Shaped
<1>4. CASE DeleteRead(r)
  <2>1. \/ End(r)
        \/ \E back : \E label \in {"status.release", "undeploy.find"} :
             Become(r, Call(req[r], label, back))
    BY <1>4 DEF DeleteRead
  <2>2. \A back : \A label \in {"status.release", "undeploy.find"} :
          Call(req[r], label, back).pc \notin Watched
    BY <1>1, <1>3, CallFields
  <2> QED
    BY <1>1, <1>2, <2>1, <2>2, EndHarmless DEF Harmless
<1>5. CASE DeleteCheck(r) \/ DeleteRecord(r)
  <2>1. End(r) \/ \E label \in DeleteLabels : Become(r, Goto(req[r], label))
    BY <1>5 DEF DeleteCheck, DeleteRecord, End, DeleteLabels
  <2> QED
    BY <1>1, <1>2, <2>1, EndHarmless, GotoHarmless
<1>6. CASE DeleteReleases(r)
  BY <1>1, <1>2, <1>6, EndHarmless DEF DeleteReleases
<1> QED
  BY <1>4, <1>5, <1>6 DEF Delete

\* AddOrRemoveRegions edits its lists, except where it calls or inserts.
LEMMA RegionsHarmless ==
    ASSUME TypeOK, SequenceInv, NEW r \in Requests,
           \/ FirstRoute(r) \/ RegionsRead(r) \/ RegionsAdded(r) \/ RegionsAddOnly(r) \/ AddRoute(r)
           \/ RegionsStandby(r) \/ StandbyDrop(r) \/ StandbyDone(r)
           \/ RegionsDelete(r) \/ RegionsDeleted(r) \/ RegionsWrite(r)
    PROVE  Harmless(r)
<1> DEFINE here == {"first.route", "regions.read", "regions.add", "add.route", "regions.standby",
                    "standby.drop", "regions.del", "regions.backup", "status.release",
                    "undeploy.find"}
<1>1. here \cap (Watched \cup Marking) = {}
  BY DEF Watched, Unrecorded, Marking
<1>2. req[r].pc \in here /\ Lasting
  BY LastingSteps DEF FirstRoute, RegionsRead, RegionsAdded, RegionsAddOnly, AddRoute,
     RegionsStandby, StandbyDrop, StandbyDone, RegionsDelete, RegionsDeleted, RegionsWrite, At
<1>3. ASSUME NEW n, Become(r, n), n.pc \in here PROVE Harmless(r)
  BY <1>1, <1>2, <1>3 DEF Harmless
<1>4. CASE End(r)
  BY <1>1, <1>2, <1>4, EndHarmless
<1>5. ASSUME NEW label \in here, Become(r, Goto(req[r], label)) PROVE Harmless(r)
  BY <1>1, <1>2, <1>5, GotoHarmless
<1>6. CASE FirstRoute(r)
  BY <1>3, <1>4, <1>6, FirstRouteDoes
<1>7. CASE RegionsRead(r)
  BY <1>3, <1>4, <1>7, RegionsReadDoes
<1>8. CASE RegionsAddOnly(r)
  BY <1>3, <1>8, RegionsAddOnlyDoes
<1>9. CASE RegionsStandby(r)
  BY <1>3, <1>9, RegionsStandbyDoes
<1>10. CASE StandbyDrop(r)
  BY <1>3, <1>4, <1>10, StandbyDropDoes
<1>11. CASE RegionsDelete(r)
  BY <1>3, <1>11, RegionsDeleteDoes
<1>12. CASE RegionsAdded(r) \/ AddRoute(r) \/ StandbyDone(r) \/ RegionsDeleted(r) \/ RegionsWrite(r)
  <2>1. End(r) \/ \E label \in here : Become(r, Goto(req[r], label))
    BY <1>12 DEF RegionsAdded, AddRoute, StandbyDone, RegionsDeleted, RegionsWrite
  <2> QED
    BY <1>4, <1>5, <2>1
<1> QED
  BY <1>6, <1>7, <1>8, <1>9, <1>10, <1>11, <1>12

\* UnDeploy has nothing in hand until the cluster is called.
LEMMA UndeployHarmless ==
    ASSUME TypeOK, SequenceInv, NEW r \in Requests, UndeployFind(r) \/ UndeployRoute(r)
    PROVE  Harmless(r)
<1> DEFINE here == {"undeploy.find", "undeploy.route", "undeploy.pods"}
<1>1. /\ (here \cup {"standby.drop", "regions.del", "regions.read"})
            \cap (Watched \cup Marking) = {}
      /\ here \subseteq Undeploying
  BY DEF Watched, Unrecorded, Marking, Undeploying
<1>2. req[r].pc \in here /\ Lasting /\ req[r] \in Request
  BY LastingSteps DEF UndeployFind, UndeployRoute, At, TypeOK
<1>3. CASE UndeployFind(r)
  <2>1. PICK d : Become(r, [req[r] EXCEPT !.pc = "undeploy.route", !.dep = d])
    BY <1>3 DEF UndeployFind
  <2> DEFINE n == [req[r] EXCEPT !.pc = "undeploy.route", !.dep = d]
  <2>2. n.pc = "undeploy.route"
    BY <1>2 DEF Request
  <2>3. Become(r, n)
    BY <2>1
  <2> HIDE DEF n
  <2> QED
    BY <1>1, <1>2, <2>2, <2>3 DEF Harmless
<1>4. CASE UndeployRoute(r)
  <2> DEFINE n == Return(req[r])
  <2>1. n.pc \in {"standby.drop", "regions.del", "regions.read"}
    BY <1>1, <1>2, UndeployReturns
  <2> HIDE DEF n
  <2>2. Become(r, Goto(req[r], "undeploy.pods")) \/ End(r) \/ Become(r, n)
    BY <1>4 DEF UndeployRoute, n
  <2>3. ASSUME Become(r, n) PROVE Harmless(r)
    BY <1>1, <1>2, <2>1, <2>3 DEF Harmless
  <2> QED
    BY <1>1, <1>2, <2>2, <2>3, EndHarmless, GotoHarmless
<1> QED
  BY <1>3, <1>4

\* All of them.
LEMMA BookkeepingHarmless ==
    ASSUME TypeOK, SequenceInv, NEW r \in Requests, Bookkeeping(r)
    PROVE  Harmless(r)
<1>1. RollCurrent(r) \/ RollApp(r) \/ RollWait(r) \/ RollRetire(r) \/ RollPublish(r) \/ RollVersion(r)
        => CreateNewAppRelease(r) /\ ~RollRows(r)
  BY DEF CreateNewAppRelease, RollCurrent, RollApp, RollWait, RollRetire, RollPublish, RollVersion,
     RollRows, At
<1>2. DeleteRead(r) \/ DeleteCheck(r) \/ DeleteRecord(r) \/ DeleteReleases(r)
        => Delete(r) /\ ~DeleteRows(r)
  BY DEF Delete, DeleteRead, DeleteCheck, DeleteRecord, DeleteReleases, DeleteRows, At
<1> QED
  BY <1>1, <1>2, StatusHarmless, ImageHarmless, ConfigHarmless, RollHarmless, DeleteHarmless,
     RegionsHarmless, UndeployHarmless DEF Bookkeeping

\* The others.
LEMMA OtherSteps ==
    ASSUME NEW r \in Requests, Step(r)
    PROVE  \/ Bookkeeping(r) \/ DeployFind(r) \/ Create(r) \/ CreateService(r)
           \/ FirstRelease(r) \/ FirstRecord(r) \/ RollRows(r) \/ RegionsDeploy(r)
           \/ AddRelease(r) \/ AddRecord(r) \/ RegionsBackup(r) \/ UndeployPods(r)
           \/ UndeployService(r) \/ UndeployMark(r) \/ SuspendResumePods(r) \/ DeleteRows(r)
  BY DEF Step, Bookkeeping, Deploy, CreateNewAppRelease, AddOrRemoveRegions, UnDeploy, Delete

-----------------------------------------------------------------------------
(***************************************************************************)
(* ScaleMatchesStatus                                                      *)
(***************************************************************************)
\* The clusters do what they are asked to, except for the address of a service,
\* and the server does not stop.  Without one of the four the property is false:
\* each leaves a deployment and its row apart for good.
Obeyed == Faults \cap {"create", "container", "undeploy", "crash"} = {}

\* Away from the marks, every live row agrees with its deployment.
LEMMA AllAgree ==
    ASSUME Alone, SequenceInv, SettledInv, NEW r \in Requests,
           req[r].pc \notin Marking \cup {"roll.wait"}
    PROVE  \A d \in Live : Agrees(d)
<1>1. \A d \in DeploymentIds : worker[r][d].stage = "off"
  BY NobodyWorks
<1> QED
  BY <1>1 DEF Alone, SettledInv, Unsettled, Marking, Live, Rows

\* A step of the only request,
LEMMA ActSettled ==
    ASSUME Alone, TypeOK, NEW r \in Requests, NEW n, Become(r, n), ScaleKnows(n)',
           \A d \in Rows' : row'[d].named,
           \A d \in Live' : Unsettled(d)' \/ Agrees(d)',
           \A d \in DeploymentIds : worker'[r][d].stage = "record" =>
                worker'[r][d].new # NoDeployment /\ cluster'[worker'[r][d].new].pods = "up"
    PROVE  SettledInv'
<1>1. req'[r] = n /\ \A s \in Requests : s = r
  BY DEF Become, TypeOK, Alone
<1> QED
  BY <1>1 DEF SettledInv

\* one for which nobody works,
LEMMA SoleSettled ==
    ASSUME Alone, TypeOK, SequenceInv, NEW r \in Requests, req[r].pc # "roll.wait",
           UNCHANGED worker, NEW n, Become(r, n), ScaleKnows(n)',
           \A d \in Rows' : row'[d].named,
           \A d \in Live' : Unsettled(d)' \/ Agrees(d)'
    PROVE  SettledInv'
<1>1. \A d \in DeploymentIds : worker'[r][d].stage = "off"
  BY NobodyWorks
<1> QED
  BY <1>1, ActSettled

\* and one that changes neither a status nor a deployment.
LEMMA CalmSettled ==
    ASSUME Alone, TypeOK, SettledInv, NEW r \in Requests, NEW n, Become(r, n), Lasting,
           req[r].pc \notin Marking, ScaleKnows(n)'
    PROVE  SettledInv'
<1>1. Rows' = Rows /\ Live' = Live
  BY DEF Lasting, SameRows, Rows, Live
<1>2. \A d \in Rows' : row'[d].named
  BY <1>1 DEF SettledInv, Lasting, SameRows, Rows
<1>3. \A d \in Live' : Unsettled(d)' \/ Agrees(d)'
  <2> SUFFICES ASSUME NEW d \in Live PROVE Unsettled(d)' \/ Agrees(d)'
    BY <1>1
  <2>1. CASE Agrees(d)
    BY <2>1 DEF Agrees, Lasting, SameRows, Live, Rows
  <2>2. CASE Unsettled(d)
    <3>1. worker[r][d].stage = "mark"
      BY <2>2 DEF Unsettled, Marking, Alone
    <3> QED
      BY <3>1 DEF Unsettled, Lasting
  <2> QED
    BY <2>1, <2>2 DEF SettledInv
<1>4. \A d \in DeploymentIds : worker'[r][d].stage = "record" =>
        worker'[r][d].new # NoDeployment /\ cluster'[worker'[r][d].new].pods = "up"
  BY DEF SettledInv, Lasting
<1> QED
  BY <1>2, <1>3, <1>4, ActSettled

\* Deploy and AddOrRemoveRegions create a deployment that is up, and insert its row.
LEMMA DeploySettled ==
    ASSUME Alone, Obeyed, TypeOK, SequenceInv, SettledInv, NEW r \in Requests,
           Create(r) \/ CreateService(r) \/ FirstRelease(r) \/ FirstRecord(r)
             \/ AddRelease(r) \/ AddRecord(r)
    PROVE  SettledInv'
<1> DEFINE q == req[r]
<1>1. q \in Request /\ RowKnows(q) /\ ScaleKnows(q)
  BY DEF TypeOK, SequenceInv, SettledInv
<1>2. \A n : n.pc \notin Unrecorded \cup {"scale.mark"} => ScaleKnows(n)'
  BY DEF ScaleKnows
<1>3. q.pc \in {"create"} \cup Unrecorded /\ q.pc # "roll.wait" /\ q.pc \notin Marking
  BY DEF Create, CreateService, FirstRelease, FirstRecord, AddRelease, AddRecord, At,
     Unrecorded, Marking
<1>4. \A d \in Live : Agrees(d)
  BY <1>3, AllAgree
<1>5. Idle.pc \notin Unrecorded \cup {"scale.mark"}
  BY DEF Idle, Unrecorded
<1>6. End(r) /\ Lasting => SettledInv'
  BY <1>2, <1>3, <1>5, CalmSettled DEF End
<1>7. ASSUME NEW n, Become(r, n), ScaleKnows(n)', UNCHANGED <<row, worker>>,
             \A d \in Live : cluster'[d].pods = cluster[d].pods
      PROVE  SettledInv'
  <2>1. Rows' = Rows /\ Live' = Live
    BY <1>7 DEF Rows, Live
  <2>2. \A d \in Live' : Agrees(d)'
    BY <1>4, <1>7, <2>1 DEF Agrees
  <2> QED
    BY <1>3, <1>7, <2>1, <2>2, SoleSettled DEF SettledInv
<1>8. CASE Create(r)
  <2>1. UNCHANGED <<app, row, worker>>
    BY <1>8, CreateDoes
  <2>9. CASE End(r) /\ UNCHANGED <<cluster, nextDeployment>>
    <3>1. Lasting
      BY <2>1, <2>9 DEF Lasting, SameRows
    <3> QED
      BY <1>6, <2>9, <3>1
  <2>10. SUFFICES ASSUME ~(End(r) /\ UNCHANGED <<cluster, nextDeployment>>) PROVE SettledInv'
    BY <2>9
  <2>11. "container" \notin Faults
    BY DEF Obeyed
  <2>2. /\ cluster' = CreatePods(nextDeployment, q.region) /\ nextDeployment \in DeploymentIds
        /\ \E n : /\ Become(r, n) /\ Alike([q EXCEPT !.dep = nextDeployment], n)
                  /\ n.pc = "service" \/ n.pc \in DeployCallers(n.kind)
    BY <1>8, <2>10, <2>11, CreateDoes
  <2>3. PICK n : /\ Become(r, n) /\ Alike([q EXCEPT !.dep = nextDeployment], n)
                 /\ n.pc = "service" \/ n.pc \in DeployCallers(n.kind)
    BY <2>2
  <2>4. n.dep = nextDeployment
    BY <1>1, <2>3 DEF Alike, Request
  <2>5. n.pc # "scale.mark"
    BY <2>3 DEF DeployCallers
  <2>6. cluster'[nextDeployment].pods = "up" /\ \A d \in DeploymentIds :
          d # nextDeployment => cluster'[d] = cluster[d]
    BY <2>2 DEF CreatePods, TypeOK, TablesTypeOK
  <2>7. nextDeployment \notin Live
    BY <2>2, IdsAreNat DEF SequenceInv, Live
  <2>8. ScaleKnows(n)'
    BY <2>4, <2>5, <2>6 DEF ScaleKnows
  <2> QED
    BY <1>7, <2>1, <2>3, <2>6, <2>7, <2>8 DEF Live, Rows
<1>9. ASSUME NEW n, Become(r, n), Alike(q, n), n.pc # "scale.mark", q.pc \in Unrecorded,
             UNCHANGED <<row, worker>>, \A d \in DeploymentIds : cluster'[d].pods = cluster[d].pods
      PROVE  SettledInv'
  <2>1. n.dep = q.dep /\ q.dep \in DeploymentIds /\ cluster[q.dep].pods = "up"
    BY <1>1, <1>9 DEF Alike, RowKnows, ScaleKnows
  <2>2. ScaleKnows(n)'
    BY <1>9, <2>1 DEF ScaleKnows
  <2> QED
    BY <1>7, <1>9, <2>2 DEF Live, Rows
<1>10. CASE CreateService(r)
  <2>1. UNCHANGED <<row, worker>> /\ q.pc \in Unrecorded
    BY <1>10 DEF CreateService, OnlyCluster, Same, At, Unrecorded
  <2>2. CASE cluster' = DeletePods(q.dep) /\ End(r)
    <3>1. \A d \in DeploymentIds : d # q.dep => cluster'[d].pods = cluster[d].pods
      BY <2>2 DEF DeletePods
    <3>2. q.dep \notin Live
      BY <1>1, <2>1 DEF RowKnows, Live
    <3> QED
      BY <1>2, <1>5, <1>7, <2>1, <2>2, <3>1, <3>2 DEF End, Live, Rows
  <2>3. CASE UNCHANGED cluster /\ End(r)
    BY <1>2, <1>5, <1>7, <2>1, <2>3 DEF End
  <2>4. CASE cluster' = [cluster EXCEPT ![q.dep].service = TRUE] /\ ~End(r)
    <3>1. PICK n : Become(r, n) /\ Alike(q, n) /\ n.pc \in DeployCallers(n.kind)
      BY <1>10, <2>4, ServiceDoes
    <3>2. n.pc # "scale.mark"
      BY <3>1 DEF DeployCallers
    <3>3. \A d \in DeploymentIds : cluster'[d].pods = cluster[d].pods
      BY <2>4 DEF TypeOK, TablesTypeOK, Workload
    <3> QED
      BY <1>9, <2>1, <3>1, <3>2, <3>3
  <2>5. CASE cluster' = [cluster EXCEPT ![q.dep].service = TRUE] /\ End(r)
    <3>1. \A d \in DeploymentIds : cluster'[d].pods = cluster[d].pods
      BY <2>5 DEF TypeOK, TablesTypeOK, Workload
    <3> QED
      BY <1>2, <1>5, <1>7, <2>1, <2>5, <3>1 DEF End, Live, Rows
  <2> QED
    BY <1>10, <2>2, <2>3, <2>4, <2>5 DEF CreateService
<1>11. CASE FirstRelease(r)
  <2>1. UNCHANGED <<row, worker, cluster, nextDeployment>> /\ q.pc \in Unrecorded
    BY <1>11, FirstReleaseDoes DEF FirstRelease, At, Unrecorded
  <2>2. Lasting
    BY <2>1 DEF Lasting, SameRows
  <2> QED
    BY <1>6, <1>9, <1>11, <2>1, <2>2, FirstReleaseDoes
<1>12. CASE AddRelease(r)
  <2>1. UNCHANGED <<row, worker, cluster>> /\ q.pc \in Unrecorded
    BY <1>12 DEF AddRelease, At, Unrecorded, Reads
  <2> QED
    BY <1>9, <1>12, <2>1, AddReleaseDoes
<1>13. ASSUME q.pc \in Unrecorded, row' = CreateDeploymentsRecord(q.dep, q.rel, TRUE),
              UNCHANGED <<cluster, worker>>,
              NEW n, Become(r, n), n.pc \notin Unrecorded \cup {"scale.mark"}
       PROVE  SettledInv'
  <2>1. q.dep \in DeploymentIds /\ cluster[q.dep].pods = "up"
    BY <1>1, <1>13 DEF RowKnows, ScaleKnows
  <2>2. \A d \in DeploymentIds : d # q.dep => row'[d] = row[d]
    BY <1>13, <2>1, RecordKeeps
  <2>3. row'[q.dep].status = "running" /\ row'[q.dep].named
    BY <1>13, <2>1 DEF CreateDeploymentsRecord, TypeOK, TablesTypeOK
  <2>4. \A d \in Rows' : row'[d].named
    BY <2>2, <2>3 DEF Rows, SettledInv
  <2>5. \A d \in Live' : Agrees(d)'
    BY <1>4, <1>13, <2>1, <2>2, <2>3 DEF Live, Rows, Agrees
  <2> QED
    BY <1>2, <1>3, <1>13, <2>4, <2>5, SoleSettled
<1>14. CASE FirstRecord(r)
  <2>1. UNCHANGED <<cluster, worker, nextDeployment>> /\ q.pc \in Unrecorded
        /\ "regions.read" \notin Unrecorded \cup {"scale.mark"}
    BY <1>14, FirstRecordDoes DEF FirstRecord, At, Unrecorded
  <2>2. UNCHANGED row => Lasting
    BY <2>1 DEF Lasting, SameRows
  <2> QED
    BY <1>6, <1>13, <1>14, <2>1, <2>2, FirstRecordDoes
<1>15. CASE AddRecord(r)
  <2>1. UNCHANGED <<cluster, worker, nextDeployment>> /\ q.pc \in Unrecorded
        /\ "add.route" \notin Unrecorded \cup {"scale.mark"}
    BY <1>15, AddRecordDoes DEF AddRecord, At, Unrecorded
  <2>2. UNCHANGED row => Lasting
    BY <2>1 DEF Lasting, SameRows
  <2> QED
    BY <1>6, <1>13, <1>15, <2>1, <2>2, AddRecordDoes
<1> QED
  BY <1>8, <1>10, <1>11, <1>12, <1>14, <1>15

\* UnDeploy marks the deployment that it has deleted,
LEMMA UndeploySettled ==
    ASSUME Alone, Obeyed, TypeOK, SequenceInv, SettledInv, NEW r \in Requests,
           UndeployPods(r) \/ UndeployService(r) \/ UndeployMark(r)
    PROVE  SettledInv'
<1> DEFINE q == req[r]
<1>1. q \in Request /\ Shaped(q) /\ q.dep \in DeploymentIds \cup {NoDeployment}
  BY DEF TypeOK, Shaped, Request
<1>2. \A n : n.pc \notin Unrecorded \cup {"scale.mark"} => ScaleKnows(n)'
  BY DEF ScaleKnows
<1>3. q.pc \in Undeploying /\ q.pc # "roll.wait"
  BY DEF UndeployPods, UndeployService, UndeployMark, UndeployFails, At, Undeploying, Obeyed
<1>4. ~UndeployFails(r)
  BY DEF UndeployFails, Obeyed
<1>5. \A d \in DeploymentIds : worker[r][d].stage = "off"
  BY <1>3, NobodyWorks
<1>6. NoDeployment \notin DeploymentIds
  BY TablesAssumption DEF DeploymentIds, NoDeployment
<1>7. \A d \in Live : d = q.dep \/ Agrees(d)
  BY <1>5 DEF SettledInv, Unsettled, Alone, Live, Rows
<1>8. ASSUME NEW label \in {"undeploy.service", "undeploy.mark"}, Become(r, Goto(q, label)),
             UNCHANGED <<row, worker>>,
             \A d \in DeploymentIds : d # q.dep => cluster'[d].pods = cluster[d].pods
      PROVE  SettledInv'
  <2>0. PICK n : n = Goto(q, label)
    OBVIOUS
  <2>1. Become(r, n) /\ n.pc = label /\ n.dep = q.dep
    BY <1>1, <1>8, <2>0, GotoFields DEF Alike
  <2>2. req'[r] = n
    BY <2>1 DEF Become, TypeOK
  <2>3. \A d : d = q.dep => Unsettled(d)'
    BY <1>8, <2>1, <2>2 DEF Unsettled
  <2>4. \A d \in Live' : Unsettled(d)' \/ Agrees(d)'
    BY <1>7, <1>8, <2>3 DEF Agrees, Live, Rows
  <2>5. \A d \in Rows' : row'[d].named
    BY <1>8 DEF SettledInv, Rows
  <2>6. n.pc \notin Unrecorded \cup {"scale.mark"}
    BY <2>1 DEF Unrecorded
  <2>7. ScaleKnows(n)'
    BY <2>6 DEF ScaleKnows
  <2> QED
    BY <1>3, <1>8, <2>1, <2>4, <2>5, <2>7, SoleSettled
<1>9. CASE UndeployPods(r)
  <2>1. cluster' = DeletePods(DeploymentId(q.dep)) /\ UNCHANGED <<row, worker>>
    BY <1>4, <1>9 DEF UndeployPods, OnlyCluster, Same
  <2>2. \E label \in {"undeploy.service", "undeploy.mark"} : Become(r, Goto(q, label))
    BY <1>4, <1>9 DEF UndeployPods
  <2>3. \A d \in DeploymentIds : d # q.dep => cluster'[d].pods = cluster[d].pods
    BY <1>6, <2>1 DEF DeletePods, DeploymentId
  <2> QED
    BY <1>8, <2>1, <2>2, <2>3
<1>10. CASE UndeployService(r)
  <2>1. Become(r, Goto(q, "undeploy.mark")) /\ UNCHANGED <<row, worker>>
    BY <1>4, <1>10 DEF UndeployService, OnlyCluster, Same
  <2>2. PICK d : cluster' = DeleteService(d, q.region)
    BY <1>4, <1>10 DEF UndeployService
  <2>3. \A e \in DeploymentIds : cluster'[e].pods = cluster[e].pods
    BY <2>2 DEF DeleteService, TypeOK, TablesTypeOK, Workload
  <2> QED
    BY <1>8, <2>1, <2>3
<1>11. CASE UndeployMark(r)
  <2>0. PICK n : n = Return(q)
    OBVIOUS
  <2>1. n.pc \in {"standby.drop", "regions.del", "regions.read"}
    BY <1>3, <2>0, UndeployReturns
  <2>2. /\ Become(r, n) /\ UNCHANGED <<worker, cluster>>
        /\ row' = UpdateDeploymentsRecord("destroyed", DeploymentId(q.dep))
    BY <1>11, <2>0 DEF UndeployMark, OnlyRow, Same
  <2>3. \A d \in Rows' : d \in Rows /\ row'[d].named
    BY <2>2, MarkKeeps DEF Rows, SettledInv
  <2>4. \A d \in Live' : d \in Live /\ d # q.dep /\ row'[d].status = row[d].status
    BY <2>2, <2>3, MarkKeeps DEF Live, Rows
  <2>5. \A d \in Live' : Agrees(d)'
    BY <1>7, <2>2, <2>4 DEF Agrees
  <2>6. ScaleKnows(n)'
    BY <2>1 DEF ScaleKnows, Unrecorded
  <2> QED
    BY <1>3, <2>2, <2>3, <2>5, <2>6, SoleSettled
<1> QED
  BY <1>9, <1>10, <1>11

\* and SuspendResumePods the one that it has scaled.
LEMMA ScaleSettled ==
    ASSUME Alone, TypeOK, SequenceInv, SettledInv, NEW r \in Requests, SuspendResumePods(r)
    PROVE  SettledInv'
<1> DEFINE q == req[r]
<1>1. q \in Request /\ q.from \in {"running", "suspended"} /\ RowKnows(q) /\ ScaleKnows(q)
  BY DEF TypeOK, Request, SequenceInv, SettledInv
<1>2. q.pc \in {"scale.find", "scale.pods", "scale.mark"} /\ q.pc # "roll.wait"
  BY DEF SuspendResumePods, ScaleFind, ScalePods, ScaleMark, At
<1>3. \A d \in DeploymentIds : worker[r][d].stage = "off"
  BY <1>2, NobodyWorks
<1>4. CASE ScaleFind(r)
  <2>1. PICK d : Become(r, [q EXCEPT !.pc = "scale.pods", !.dep = d])
    BY <1>4 DEF ScaleFind
  <2>0. PICK n : n = [q EXCEPT !.pc = "scale.pods", !.dep = d]
    OBVIOUS
  <2>2. n.pc = "scale.pods" /\ Become(r, n)
    BY <1>1, <2>0, <2>1 DEF Request
  <2>3. Lasting /\ q.pc \notin Marking
    BY <1>4, LastingSteps DEF ScaleFind, At, Marking
  <2>4. ScaleKnows(n)'
    BY <2>2 DEF ScaleKnows, Unrecorded
  <2> QED
    BY <2>2, <2>3, <2>4, CalmSettled
<1>5. CASE ScalePods(r)
  <2>1. q.pc = "scale.pods" /\ UNCHANGED <<row, nextDeployment, worker>> /\ q.pc \notin Marking
    BY <1>5 DEF ScalePods, At, OnlyCluster, Same, Marking
  <2>2. CASE End(r) /\ UNCHANGED cluster
    <3>1. ScaleKnows(Idle)'
      BY DEF ScaleKnows, Idle, Unrecorded
    <3>2. Lasting
      BY <2>1, <2>2 DEF Lasting, SameRows
    <3> QED
      BY <2>1, <2>2, <3>1, <3>2, CalmSettled DEF End
  <2>3. CASE ~(End(r) /\ UNCHANGED cluster)
    <3> DEFINE pods == IF q.from = "running" THEN "zero" ELSE "up"
    <3>1. /\ DeploymentId(q.dep) # NoDeployment /\ Become(r, Goto(q, "scale.mark"))
          /\ cluster' = [cluster EXCEPT ![DeploymentId(q.dep)].pods = pods]
      BY <1>5, <2>3 DEF ScalePods
    <3>2. DeploymentId(q.dep) = q.dep /\ q.dep \in DeploymentIds
      BY <1>1, <3>1 DEF DeploymentId, Request
    <3>3. cluster'[q.dep].pods = pods /\ \A d \in DeploymentIds : d # q.dep => cluster'[d] = cluster[d]
      BY <3>1, <3>2 DEF TypeOK, TablesTypeOK, Workload
    <3>0. PICK n : n = Goto(q, "scale.mark")
      OBVIOUS
    <3>4. n.pc = "scale.mark" /\ n.dep = q.dep /\ n.from = q.from /\ Become(r, n)
      BY <1>1, <3>0, <3>1 DEF Goto, Request
    <3>5. ScaleKnows(n)'
      BY <3>3, <3>4 DEF ScaleKnows, Unrecorded
    <3>6. req'[r] = n
      BY <3>4 DEF Become, TypeOK
    <3>7. \A d : d = q.dep => Unsettled(d)'
      BY <3>4, <3>6 DEF Unsettled
    <3>8. \A d \in Live : Agrees(d)
      BY <1>2, <2>1, AllAgree
    <3>9. \A d \in Live' : Unsettled(d)' \/ Agrees(d)'
      BY <2>1, <3>3, <3>7, <3>8 DEF Live, Rows, Agrees
    <3>10. \A d \in Rows' : row'[d].named
      BY <2>1 DEF SettledInv, Rows
    <3> QED
      BY <1>2, <2>1, <3>4, <3>5, <3>9, <3>10, SoleSettled
  <2> QED
    BY <2>2, <2>3
<1>6. CASE ScaleMark(r)
  <2> DEFINE status == IF q.from = "running" THEN "suspended" ELSE "running"
  <2>1. /\ row' = UpdateDeploymentsRecord(status, DeploymentId(q.dep))
        /\ UNCHANGED <<cluster, worker>> /\ q.pc = "scale.mark"
    BY <1>6 DEF ScaleMark, OnlyRow, Same, At
  <2>2. DeploymentId(q.dep) = q.dep /\ q.dep # NoDeployment
    BY <1>1, <2>1 DEF RowKnows, DeploymentId
  <2>0. PICK n : n = Goto(q, "status.release")
    OBVIOUS
  <2>3. n.pc = "status.release" /\ Become(r, n)
    BY <1>1, <1>6, <2>0 DEF ScaleMark, Goto, Request
  <2>4. ScaleKnows(n)'
    BY <2>3 DEF ScaleKnows, Unrecorded
  <2>5. cluster[q.dep].pods = IF q.from = "running" THEN "zero" ELSE "up"
    BY <1>1, <2>1 DEF ScaleKnows
  <2>6. \A d \in DeploymentIds : DeploymentId(d) = q.dep => d = q.dep
    BY <2>2 DEF DeploymentId
  <2>7. \A d \in Live : d # q.dep => Agrees(d)
    BY <1>3 DEF SettledInv, Unsettled, Alone, Live, Rows
  <2>8. \A d \in Rows' : d \in Rows /\ row'[d].named
    BY <2>1, MarkKeeps DEF Rows, SettledInv
  <2>9. \A d \in DeploymentIds : d # q.dep => row'[d].status = row[d].status
    BY <2>1, <2>2, <2>6, MarkKeeps
  <2>10. q.dep \in Rows => row'[q.dep].status = status
    BY <2>1, <2>2, MarkKeeps DEF Rows
  <2>11. ASSUME NEW d \in Live' PROVE Agrees(d)'
    <3>1. CASE d = q.dep
      BY <1>1, <2>1, <2>5, <2>8, <2>10, <3>1 DEF Agrees, Live
    <3>2. CASE d # q.dep
      BY <2>1, <2>7, <2>8, <2>9, <3>2 DEF Agrees, Live, Rows
    <3> QED
      BY <3>1, <3>2
  <2> QED
    BY <1>2, <2>1, <2>3, <2>4, <2>8, <2>11, SoleSettled
<1> QED
  BY <1>4, <1>5, <1>6 DEF SuspendResumePods

\* Steps that leave the deployments alone, and the start of the goroutines.
LEMMA StepSettled ==
    ASSUME Alone, Obeyed, TypeOK, SequenceInv, SettledInv, NEW r \in Requests, Step(r)
    PROVE  SettledInv'
<1> DEFINE q == req[r]
<1>1. \A n : n.pc \notin Watched => ScaleKnows(n)'
  BY DEF ScaleKnows, Watched
<1>2. CASE Bookkeeping(r)
  <2>1. Lasting /\ q.pc \notin Marking
    BY <1>2, BookkeepingHarmless DEF Harmless
  <2>2. PICK n : Become(r, n) /\ n.pc \notin Watched
    BY <1>2, BookkeepingHarmless DEF Harmless
  <2>3. ScaleKnows(n)'
    BY <2>2 DEF ScaleKnows, Watched
  <2> QED
    BY <2>1, <2>2, <2>3, CalmSettled
<1>3. CASE DeployFind(r) \/ RegionsDeploy(r) \/ RegionsBackup(r)
  <2>1. Lasting /\ q.pc \notin Marking
    BY <1>3, LastingSteps DEF DeployFind, RegionsDeploy, RegionsBackup, At, Marking
  <2>2. Idle.pc = "idle"
    BY DEF Idle
  <2>3. \E n : Become(r, n) /\ n.pc \in {"idle", "create", "roll.current", "regions.backup"}
    BY <1>3, <2>2, DeployFindDoes, RegionsDeployDoes, RegionsBackupDoes DEF End
  <2>4. PICK n : Become(r, n) /\ n.pc \in {"idle", "create", "roll.current", "regions.backup"}
    BY <2>3
  <2>5. ScaleKnows(n)'
    BY <2>4 DEF ScaleKnows, Unrecorded
  <2> QED
    BY <2>1, <2>4, <2>5, CalmSettled
<1>4. CASE RollRows(r)
  <2>1. q \in Request /\ q.pc = "roll.rows" /\ q.pc \notin Marking \cup {"roll.wait"}
    BY <1>4 DEF RollRows, At, Marking, TypeOK
  <2>0. PICK n : n = [q EXCEPT !.pc = "roll.wait", !.fresh = nextRelease]
    OBVIOUS
  <2>2. n.pc = "roll.wait" /\ Become(r, n) /\ UNCHANGED <<row, cluster>>
    BY <1>4, <2>0, <2>1 DEF RollRows, Request
  <2>3. \A d \in DeploymentIds : worker'[r][d].stage # "record"
    BY <1>4 DEF RollRows, NoWorker, TypeOK
  <2>4. \A d \in Live : Agrees(d)
    BY <2>1, AllAgree
  <2>5. (\A d \in Live' : Agrees(d)') /\ \A d \in Rows' : row'[d].named
    BY <2>2, <2>4 DEF Live, Rows, Agrees, SettledInv
  <2>6. ScaleKnows(n)'
    BY <2>2 DEF ScaleKnows, Unrecorded
  <2> QED
    BY <2>2, <2>3, <2>5, <2>6, ActSettled
<1>5. CASE DeleteRows(r)
  <2>1. q \in Request /\ q.pc = "delete.rows" /\ q.pc # "roll.wait" /\ UNCHANGED worker
    BY <1>5 DEF DeleteRows, At, TypeOK, Same
  <2>0. PICK n : n = Goto(q, "delete.releases")
    OBVIOUS
  <2>2. n.pc = "delete.releases" /\ Become(r, n)
    BY <1>5, <2>0, <2>1 DEF DeleteRows, Goto, Request
  <2>3. Rows' = {} /\ Live' = {}
    BY <1>5 DEF DeleteRows, Rows, Live, TypeOK, TablesTypeOK, DeploymentRow
  <2>4. ScaleKnows(n)'
    BY <2>2 DEF ScaleKnows, Unrecorded
  <2> QED
    BY <2>1, <2>2, <2>3, <2>4, SoleSettled
<1> QED
  BY <1>2, <1>3, <1>4, <1>5, OtherSteps, DeploySettled, UndeploySettled, ScaleSettled

\* A goroutine marks the deployment that it has deleted, and inserts one that is up.
LEMMA WorkSettled ==
    ASSUME Alone, Obeyed, TypeOK, SequenceInv, SettledInv,
           NEW r \in Requests, NEW d \in DeploymentIds, Work(r, d)
    PROVE  SettledInv'
<1> DEFINE w == worker[r][d]
<1>1. w.stage # "off"
  BY DEF Work, WorkerDelete, WorkerMark, WorkerCreate, WorkerPanic, WorkerRecord
<1>2. req[r].pc = "roll.wait" /\ d \in Rows /\ row[d].named /\ req[r].seen # Gone
  BY <1>1 DEF SequenceInv, ReplacerKnows, RowKnows, SettledInv, At
<1>3. DeploymentId(d) = d /\ d # NoDeployment
  BY <1>2, TablesAssumption DEF DeploymentId, DeploymentIds, NoDeployment
<1>4. ~WorkerPanic(r, d)
  BY <1>2 DEF WorkerPanic
<1>5. \A s \in Requests : s = r
  BY DEF Alone
<1>6. \A e \in DeploymentIds : worker[r][e].stage = "record" =>
        /\ worker[r][e].new \in DeploymentIds /\ row[worker[r][e].new].status = "none"
        /\ cluster[worker[r][e].new].pods = "up"
  BY DEF SequenceInv, ReplacerKnows, SettledInv, TypeOK, Worker
<1>7. \A e \in Live : worker[r][e].stage = "mark" \/ Agrees(e)
  BY <1>2, <1>5 DEF SettledInv, Unsettled
<1>8. \A x : Stage(r, d, x) => /\ worker'[r][d] = x
                               /\ \A e \in DeploymentIds : e # d => worker'[r][e] = worker[r][e]
  BY DEF Stage, TypeOK
<1>9. ASSUME UNCHANGED req, \A e \in Rows' : row'[e].named,
             \A e \in Live' : worker'[r][e].stage = "mark" \/ Agrees(e)',
             \A e \in DeploymentIds : worker'[r][e].stage = "record" =>
                worker'[r][e].new # NoDeployment /\ cluster'[worker'[r][e].new].pods = "up"
      PROVE  SettledInv'
  <2>1. ScaleKnows(req[r])'
    BY <1>2, <1>9 DEF ScaleKnows, Unrecorded
  <2>2. \A e \in Live' : Unsettled(e)' \/ Agrees(e)'
    BY <1>9 DEF Unsettled
  <2> QED
    BY <1>5, <1>9, <2>1, <2>2 DEF SettledInv
<1>10. NoDeployment \notin DeploymentIds
  BY TablesAssumption DEF DeploymentIds, NoDeployment
<1>11. \A e \in Rows : row[e].named
  BY DEF SettledInv
<1>12. CASE WorkerDelete(r, d)
  <2>1. PICK x : x = [w EXCEPT !.stage = "mark"]
    OBVIOUS
  <2>2. x.stage = "mark" /\ Stage(r, d, x) /\ UNCHANGED <<req, row>>
    BY <1>12, <2>1 DEF WorkerDelete, OnlyCluster, TypeOK, Worker
  <2>3. \A e \in DeploymentIds : e # d => cluster'[e].pods = cluster[e].pods
    BY <1>3, <1>12 DEF WorkerDelete, DeletePods
  <2>4. \A e \in Live' : worker'[r][e].stage = "mark" \/ Agrees(e)'
    BY <1>7, <1>8, <2>2, <2>3 DEF Live, Rows, Agrees
  <2>5. \A e \in DeploymentIds : worker'[r][e].stage = "record" =>
          worker'[r][e].new # NoDeployment /\ cluster'[worker'[r][e].new].pods = "up"
    BY <1>2, <1>6, <1>8, <1>10, <2>2, <2>3 DEF Rows
  <2> QED
    BY <1>9, <1>11, <2>2, <2>4, <2>5 DEF Rows
<1>13. CASE WorkerMark(r, d)
  <2>1. PICK x : x = [w EXCEPT !.stage = "create"]
    OBVIOUS
  <2>2. /\ x.stage = "create" /\ Stage(r, d, x) /\ UNCHANGED <<req, cluster>>
        /\ row' = UpdateDeploymentsRecord("destroyed", d)
    BY <1>3, <1>13, <2>1 DEF WorkerMark, OnlyRow, TypeOK, Worker
  <2>3. \A e \in Rows' : e \in Rows /\ row'[e].named
    BY <1>11, <2>2, MarkKeeps DEF Rows
  <2>4. \A e \in Live' : e # d /\ e \in Live /\ row'[e].status = row[e].status
    BY <1>3, <2>2, <2>3, MarkKeeps DEF Live, Rows
  <2>5. \A e \in Live' : worker'[r][e].stage = "mark" \/ Agrees(e)'
    BY <1>7, <1>8, <2>2, <2>4 DEF Agrees, Live, Rows
  <2>6. \A e \in DeploymentIds : worker'[r][e].stage = "record" =>
          worker'[r][e].new # NoDeployment /\ cluster'[worker'[r][e].new].pods = "up"
    BY <1>6, <1>8, <1>10, <2>2
  <2> QED
    BY <1>9, <2>2, <2>3, <2>5, <2>6
<1>14. CASE WorkerCreate(r, d)
  <2>1. PICK x : x = [stage |-> "record", new |-> nextDeployment]
    OBVIOUS
  <2>2. /\ Stage(r, d, x) /\ UNCHANGED <<req, row>> /\ w.stage = "create"
        /\ nextDeployment \in DeploymentIds
        /\ cluster' = CreatePods(nextDeployment, cluster[d].region)
    BY <1>14, <2>1 DEF WorkerCreate, Obeyed
  <2>3. x.stage = "record" /\ x.new = nextDeployment
    BY <2>1
  <2>4. /\ cluster'[nextDeployment].pods = "up"
        /\ \A e \in DeploymentIds : e # nextDeployment => cluster'[e] = cluster[e]
    BY <2>2 DEF CreatePods, TypeOK, TablesTypeOK
  <2>5. row[nextDeployment].status = "none"
    BY <2>2, IdsAreNat DEF SequenceInv
  <2>6. \A e \in Live' : worker'[r][e].stage = "mark" \/ Agrees(e)'
    BY <1>7, <1>8, <2>2, <2>4, <2>5 DEF Agrees, Live, Rows
  <2>7. \A e \in DeploymentIds : worker'[r][e].stage = "record" =>
          worker'[r][e].new # NoDeployment /\ cluster'[worker'[r][e].new].pods = "up"
    BY <1>6, <1>8, <1>10, <2>2, <2>3, <2>4
  <2> QED
    BY <1>9, <1>11, <2>2, <2>6, <2>7 DEF Rows
<1>15. CASE WorkerRecord(r, d)
  <2>1. Stage(r, d, NoWorker) /\ w.stage = "record" /\ UNCHANGED req /\ NoWorker.stage = "off"
    BY <1>15 DEF WorkerRecord, NoWorker
  <2>2. /\ w.new \in DeploymentIds /\ cluster[w.new].pods = "up" /\ w.new # NoDeployment
    BY <1>6, <1>10, <2>1
  <2>3. UNCHANGED cluster /\ (UNCHANGED row \/ row' = CreateDeploymentsRecord(w.new, req[r].fresh, TRUE))
    BY <1>15, <2>2 DEF WorkerRecord
  <2>4. \A e \in DeploymentIds : worker'[r][e].stage = "record" =>
          worker'[r][e].new # NoDeployment /\ cluster'[worker'[r][e].new].pods = "up"
    BY <1>6, <1>8, <1>10, <2>1, <2>3
  <2>5. CASE UNCHANGED row
    <3>1. \A e \in Live' : worker'[r][e].stage = "mark" \/ Agrees(e)'
      BY <1>7, <1>8, <2>1, <2>3, <2>5 DEF Agrees, Live, Rows
    <3> QED
      BY <1>9, <1>11, <2>1, <2>4, <2>5, <3>1 DEF Rows
  <2>6. CASE row' = CreateDeploymentsRecord(w.new, req[r].fresh, TRUE)
    <3>1. \A e \in DeploymentIds : e # w.new => row'[e] = row[e]
      BY <2>2, <2>6, RecordKeeps
    <3>2. row'[w.new].status = "running" /\ row'[w.new].named
      BY <2>2, <2>6 DEF CreateDeploymentsRecord, TypeOK, TablesTypeOK
    <3>3. \A e \in Live' : worker'[r][e].stage = "mark" \/ Agrees(e)'
      BY <1>7, <1>8, <2>1, <2>2, <2>3, <3>1, <3>2 DEF Agrees, Live, Rows
    <3>4. \A e \in Rows' : row'[e].named
      BY <1>11, <3>1, <3>2 DEF Rows
    <3> QED
      BY <1>9, <2>1, <2>4, <3>3, <3>4
  <2> QED
    BY <2>3, <2>5, <2>6
<1> QED
  BY <1>4, <1>12, <1>13, <1>14, <1>15 DEF Work

\* Every step.
LEMMA NextSettled ==
    ASSUME Alone, Obeyed, TypeOK, SequenceInv, SettledInv, [Next]_vars PROVE SettledInv'
<1>1. CASE UNCHANGED vars
  BY <1>1 DEF vars, SettledInv, Rows, Live, Agrees, Unsettled, ScaleKnows
<1>2. CASE Done
  BY <1>1, <1>2 DEF Done
<1>3. ~Crash
  BY DEF Crash, Obeyed
<1>4. ASSUME NEW r \in Requests, Mutation(r) PROVE SettledInv'
  <2>1. PICK n : Issued(n) /\ Become(r, n)
    BY <1>4, MutationDoes
  <2>2. Lasting /\ req[r].pc \notin Marking
    BY <1>4, MutationDoes DEF tables, Lasting, SameRows, Marking
  <2>3. ScaleKnows(n)'
    BY <2>1 DEF Issued, ScaleKnows, Unrecorded
  <2> QED
    BY <2>1, <2>2, <2>3, CalmSettled
<1> QED
  BY <1>1, <1>2, <1>3, <1>4, StepSettled, WorkSettled DEF Next

\* One request after the other, and unless the cluster or the server fails between
\* a call and its row, every live row agrees with its deployment once marked.
THEOREM SettledInvariant == Alone /\ Obeyed /\ Spec => []SettledInv
<1> SUFFICES ASSUME Alone, Obeyed PROVE Spec => []SettledInv
  OBVIOUS
<1>1. TypeOK /\ SequenceInv /\ SettledInv /\ [Next]_vars => SettledInv'
  BY NextSettled
<1>2. Init => SettledInv
  <2> SUFFICES ASSUME Init PROVE SettledInv
    OBVIOUS
  <2>1. ScaleKnows(Idle)
    BY DEF ScaleKnows, Idle, Unrecorded
  <2> QED
    BY <2>1 DEF Init, TablesInit, NoDeploymentRow, SettledInv, NoWorker, Rows, Live
<1> QED
  BY <1>1, <1>2, TypeCorrect, SequenceInvariant, PTL DEF Spec

\* So a suspended row has been scaled to zero, and a running row has not, whenever
\* no request runs.
THEOREM ScaleAlwaysMatches == Alone /\ Obeyed /\ Spec => []ScaleMatchesStatus
<1>1. SequenceInv /\ SettledInv => ScaleMatchesStatus
  <2> SUFFICES ASSUME SequenceInv, SettledInv, Quiet, NEW d \in Live PROVE Agrees(d)
    BY DEF ScaleMatchesStatus, Agrees
  <2>1. ~Unsettled(d)
    BY DEF Unsettled, Quiet, At, SequenceInv, ReplacerKnows, Live, Rows
  <2> QED
    BY <2>1 DEF SettledInv
<1> QED
  BY <1>1, SequenceInvariant, SettledInvariant, PTL
=============================================================================
