------------------------ MODULE WorkloadRegionsProofs ------------------------
(***************************************************************************)
(* What AddWorkloadRegions answers is true and nobody sends on a closed     *)
(* channel, for any number of overlapping requests, regions and failures.   *)
(***************************************************************************)
EXTENDS WorkloadRegions, TLAPS

\* A goroutine that has not failed, as far as its request knows.
Unreported == {"insert", "send", "inserted"}

\* What holds of the request r and of its goroutines: while it has no answer none
\* of them has failed to the end, and the channel is closed after the last one.
RequestInv(r) ==
    /\ answer[r] # "none" => pc[r] = "done"
    /\ pc[r] = "add.check" => left[r] = list[r]
    /\ pc[r] \in {"add.start", "add.range"} =>
        \A g \in list[r] \ left[r] : stage[r][g] \in Unreported
    /\ pc[r] = "add.range" => left[r] = {}
    /\ closer[r] # "off" => pc[r] \in {"add.range", "done"}
    /\ closer[r] = "closed" => AllDone(r)
    /\ answer[r] = "inserted" => \A g \in list[r] : stage[r][g] = "inserted"
    /\ answer[r] = "failed" => Failed(r) # {}

\* As long as nobody removes a region, a goroutine that inserted has left a row.
TableInv ==
    NeverRemoves =>
        \A r \in Requests, g \in Regions : stage[r][g] = "inserted" => recorded[g] > 0

AddInv == (\A r \in Requests : RequestInv(r)) /\ TableInv

Mine(r) == <<pc[r], list[r], left[r], answer[r], stage[r], closer[r]>>

\* A step that changes what belongs to r leaves the other requests alone.
Alone(r) == \A q \in Requests \ {r} : UNCHANGED Mine(q)

-----------------------------------------------------------------------------
\* Every step keeps the types: the requests take known steps, no count of rows
\* becomes negative.
LEMMA StepType == TypeOK /\ [Next]_vars => TypeOK'
<1> SUFFICES ASSUME TypeOK, [Next]_vars PROVE TypeOK'
  OBVIOUS
<1> USE DEF TypeOK, PC, Answer, Stage
<1>1. CASE UNCHANGED vars
  BY <1>1 DEF vars
<1>2. ASSUME NEW r \in Requests, AddWorkloadRegions(r) PROVE TypeOK'
  BY <1>2 DEF AddWorkloadRegions, Goto
<1>3. ASSUME NEW r \in Requests, AddCheck(r) PROVE TypeOK'
  BY <1>3 DEF AddCheck, Goto, Respond
<1>4. ASSUME NEW r \in Requests, StartWorker(r) PROVE TypeOK'
  BY <1>4 DEF StartWorker
<1>5. ASSUME NEW r \in Requests, StartCloser(r) PROVE TypeOK'
  BY <1>5 DEF StartCloser, Goto
<1>6. ASSUME NEW r \in Requests, RangeEnds(r) PROVE TypeOK'
  BY <1>6 DEF RangeEnds, Goto, Respond
<1>7. ASSUME NEW r \in Requests, NEW g \in Regions, Receive(r, g) PROVE TypeOK'
  BY <1>7 DEF Receive, Goto, Respond
<1>8. ASSUME NEW r \in Requests, NEW g \in Regions, Work(r, g) PROVE TypeOK'
  <2>1. CASE Insert(r, g)
    <3>1. recorded[g] + 1 \in Nat
      BY <1>8
    <3> QED
      BY <1>8, <2>1, <3>1 DEF Insert
  <2>2. CASE InsertFails(r, g)
    BY <1>8, <2>2 DEF InsertFails
  <2> QED
    BY <1>8, <2>1, <2>2 DEF Work
<1>9. ASSUME NEW r \in Requests, Close(r) PROVE TypeOK'
  BY <1>9 DEF Close
<1>10. ASSUME NEW r \in Requests, RemoveWorkloadRegions(r) PROVE TypeOK'
  BY <1>10 DEF RemoveWorkloadRegions, Goto
<1>11. ASSUME NEW r \in Requests, DeleteWorkloadRegion(r) PROVE TypeOK'
  BY <1>11 DEF DeleteWorkloadRegion, Goto, Respond
<1>12. ASSUME NEW r \in Requests, DeleteWorkloadManagement(r) \/ DeleteCheck(r) \/ DeleteWorkload(r)
       PROVE TypeOK'
  BY <1>12 DEF DeleteWorkloadManagement, DeleteCheck, DeleteWorkload, Goto, Respond
<1> QED
  BY <1>1, <1>2, <1>3, <1>4, <1>5, <1>6, <1>7, <1>8, <1>9, <1>10, <1>11, <1>12
  DEF Next, Issue, Step

\* AddWorkloadRegions, RemoveWorkloadRegions and DeleteWorkloadManagement keep
\* their variables within their types.
THEOREM RegionsTypeCorrect == Spec => []TypeOK
<1>1. Init => TypeOK
  BY DEF Init, TypeOK, PC, Answer, Stage
<1> QED
  BY <1>1, StepType, PTL DEF Spec

-----------------------------------------------------------------------------
\* A request nobody touched keeps its invariant.
LEMMA AloneInv ==
    ASSUME NEW r \in Requests, AddInv, Alone(r), RequestInv(r)'
    PROVE  \A q \in Requests : RequestInv(q)'
<1> SUFFICES ASSUME NEW q \in Requests, q # r PROVE RequestInv(q)'
  OBVIOUS
<1>1. RequestInv(q) /\ UNCHANGED Mine(q)
  BY DEF AddInv, Alone
<1> QED
  BY <1>1 DEF RequestInv, Mine, AllDone, Failed

\* A request that removes is not forgotten: it removes, and then it is answered.
LEMMA RemovalIsRemembered ==
    ASSUME TypeOK, AddInv, NEW r \in Requests, Alone(r),
           pc[r] = "remove" => answer'[r] = "removed",
           answer[r] = "removed" => answer'[r] = "removed"
    PROVE  NeverRemoves' => NeverRemoves
BY DEF NeverRemoves, Alone, Mine, At

\* A step of r that inserts no row and reports no insertion keeps the table's.
LEMMA SameTableInv ==
    ASSUME TypeOK, AddInv, NEW r \in Requests, Alone(r), UNCHANGED recorded,
           NeverRemoves' => NeverRemoves,
           \A g \in Regions : stage'[r][g] = "inserted" => stage[r][g] = "inserted"
    PROVE  TableInv'
BY DEF AddInv, TableInv, Alone, Mine

\* A request that starts has no answer and no goroutines.
LEMMA IssueInv ==
    ASSUME TypeOK, AddInv, NEW r \in Requests, Issue(r) PROVE AddInv'
<1>1. RequestInv(r) /\ pc[r] = "new"
  BY DEF AddInv, Issue, AddWorkloadRegions, RemoveWorkloadRegions, DeleteWorkloadManagement, At
<1>2. Alone(r) /\ UNCHANGED <<recorded, answer, stage, closer>>
  BY DEF Issue, AddWorkloadRegions, RemoveWorkloadRegions, DeleteWorkloadManagement,
         Goto, Alone, Mine, TypeOK
<1>3. pc'[r] \in {"add.check", "remove", "delete.check"}
  BY DEF Issue, AddWorkloadRegions, RemoveWorkloadRegions, DeleteWorkloadManagement, Goto, TypeOK
<1>4. answer[r] = "none" /\ closer[r] = "off"
  BY <1>1 DEF RequestInv
<1>5. pc'[r] = "add.check" => left'[r] = list'[r]
  BY DEF Issue, AddWorkloadRegions, RemoveWorkloadRegions, DeleteWorkloadManagement, Goto, TypeOK
<1>6. RequestInv(r)'
  BY <1>2, <1>3, <1>4, <1>5 DEF RequestInv
<1>7. TableInv'
  BY <1>1, <1>2, <1>4, RemovalIsRemembered, SameTableInv
<1> QED
  BY <1>2, <1>6, <1>7, AloneInv DEF AddInv

\* The check, and the steps of a deletion: nothing is started.
LEMMA CheckInv ==
    ASSUME TypeOK, AddInv, NEW r \in Requests,
           AddCheck(r) \/ DeleteCheck(r) \/ DeleteWorkload(r)
    PROVE  AddInv'
<1>1. /\ RequestInv(r)
      /\ pc[r] \in {"add.check", "delete.check", "delete"}
  BY DEF AddInv, AddCheck, DeleteCheck, DeleteWorkload, At
<1>2. Alone(r) /\ UNCHANGED <<recorded, list, left, stage, closer>>
  BY DEF AddCheck, DeleteCheck, DeleteWorkload, Goto, Respond, Alone, Mine, TypeOK
<1>3. answer[r] = "none" /\ closer[r] = "off"
  BY <1>1 DEF RequestInv
<1>4. \/ pc'[r] = "done" /\ answer'[r] \in {"missing", "deleted"}
      \/ pc'[r] \in {"add.start", "delete"} /\ answer'[r] = "none"
  BY <1>3 DEF AddCheck, DeleteCheck, DeleteWorkload, Goto, Respond, TypeOK
<1>5. pc'[r] = "add.start" => left[r] = list[r]
  BY <1>1 DEF AddCheck, DeleteCheck, DeleteWorkload, At, Goto, Respond, TypeOK, RequestInv
<1>6. RequestInv(r)'
  BY <1>2, <1>3, <1>4, <1>5 DEF RequestInv
<1>7. TableInv'
  BY <1>1, <1>2, <1>3, RemovalIsRemembered, SameTableInv
<1> QED
  BY <1>2, <1>6, <1>7, AloneInv DEF AddInv

\* DeleteWorkloadRegion: from now on somebody removes.
LEMMA RemoveInv ==
    ASSUME TypeOK, AddInv, NEW r \in Requests, DeleteWorkloadRegion(r) PROVE AddInv'
<1>1. RequestInv(r) /\ pc[r] = "remove"
  BY DEF AddInv, DeleteWorkloadRegion, At
<1>2. /\ Alone(r)
      /\ UNCHANGED <<list, left, stage, closer>>
      /\ pc'[r] = "done" /\ answer'[r] = "removed"
  BY DEF DeleteWorkloadRegion, Goto, Respond, Alone, Mine, TypeOK
<1>3. closer[r] = "off"
  BY <1>1 DEF RequestInv
<1>4. RequestInv(r)'
  BY <1>2, <1>3 DEF RequestInv
<1>5. TableInv'
  BY <1>2 DEF TableInv, NeverRemoves
<1> QED
  BY <1>2, <1>4, <1>5, AloneInv DEF AddInv

\* A new goroutine belongs to a region whose goroutine was not started, and the
\* channel is open.
LEMMA StartWorkerInv ==
    ASSUME TypeOK, AddInv, NEW r \in Requests, StartWorker(r) PROVE AddInv'
<1>1. RequestInv(r) /\ pc[r] = "add.start"
  BY DEF AddInv, StartWorker, At
<1>2. PICK g \in left[r] :
        /\ left' = [left EXCEPT ![r] = @ \ {g}]
        /\ stage' = [stage EXCEPT ![r][g] = "insert"]
  BY DEF StartWorker
<1>3. /\ Alone(r)
      /\ UNCHANGED <<recorded, list, answer, closer, pc>>
      /\ left'[r] = left[r] \ {g}
  BY <1>2 DEF StartWorker, Alone, Mine, TypeOK
<1>4. g \in Regions /\ stage'[r] = [stage[r] EXCEPT ![g] = "insert"]
  BY <1>2 DEF TypeOK
<1>5. /\ stage'[r][g] = "insert"
      /\ \A h \in Regions \ {g} : stage'[r][h] = stage[r][h]
  BY <1>4 DEF TypeOK
<1>6. answer[r] = "none" /\ closer[r] = "off"
  BY <1>1 DEF RequestInv
<1>7. \A h \in list[r] \ left'[r] : stage'[r][h] \in Unreported
  BY <1>1, <1>3, <1>5 DEF RequestInv, Unreported, TypeOK
<1>8. RequestInv(r)'
  BY <1>1, <1>3, <1>6, <1>7 DEF RequestInv
<1>9. TableInv'
  BY <1>1, <1>3, <1>5, <1>6, RemovalIsRemembered, SameTableInv
<1> QED
  BY <1>3, <1>8, <1>9, AloneInv DEF AddInv

\* The loop over the regions ends: every goroutine has been started.
LEMMA StartCloserInv ==
    ASSUME TypeOK, AddInv, NEW r \in Requests, StartCloser(r) PROVE AddInv'
<1>1. RequestInv(r) /\ pc[r] = "add.start" /\ left[r] = {}
  BY DEF AddInv, StartCloser, At
<1>2. /\ Alone(r)
      /\ UNCHANGED <<recorded, list, left, answer, stage>>
      /\ pc'[r] = "add.range" /\ closer'[r] = "waiting"
  BY DEF StartCloser, Goto, Alone, Mine, TypeOK
<1>3. answer[r] = "none"
  BY <1>1 DEF RequestInv
<1>4. RequestInv(r)'
  BY <1>1, <1>2, <1>3 DEF RequestInv
<1>5. TableInv'
  BY <1>1, <1>2, <1>3, RemovalIsRemembered, SameTableInv
<1> QED
  BY <1>2, <1>4, <1>5, AloneInv DEF AddInv

\* The wait group is at zero when the channel is closed.
LEMMA CloseInv ==
    ASSUME TypeOK, AddInv, NEW r \in Requests, Close(r) PROVE AddInv'
<1>1. RequestInv(r) /\ AllDone(r) /\ closer[r] = "waiting"
  BY DEF AddInv, Close
<1>2. /\ Alone(r)
      /\ UNCHANGED <<recorded, list, left, answer, stage, pc>>
      /\ closer'[r] = "closed"
  BY DEF Close, Alone, Mine, TypeOK
<1>3. RequestInv(r)'
  BY <1>1, <1>2 DEF RequestInv, AllDone, Failed
<1>4. TableInv'
  BY <1>2 DEF AddInv, TableInv, NeverRemoves, At
<1> QED
  BY <1>2, <1>3, <1>4, AloneInv DEF AddInv

\* No goroutine is at work when the loop over the channel ends, and none of them
\* has failed: its error would have ended the loop before.
LEMMA RangeEndsInv ==
    ASSUME TypeOK, AddInv, NEW r \in Requests, RangeEnds(r) PROVE AddInv'
<1>1. RequestInv(r) /\ pc[r] = "add.range" /\ closer[r] = "closed"
  BY DEF AddInv, RangeEnds, At
<1>2. /\ Alone(r)
      /\ UNCHANGED <<recorded, list, left, stage, closer>>
      /\ pc'[r] = "done" /\ answer'[r] = "inserted"
  BY DEF RangeEnds, Goto, Respond, Alone, Mine, TypeOK
<1>3. answer[r] = "none" /\ left[r] = {} /\ AllDone(r)
  BY <1>1 DEF RequestInv
<1>4. \A g \in list[r] : stage[r][g] = "inserted"
  BY <1>1, <1>3 DEF RequestInv, AllDone, Unreported, TypeOK
<1>5. RequestInv(r)'
  BY <1>1, <1>2, <1>3, <1>4 DEF RequestInv, AllDone
<1>6. TableInv'
  BY <1>1, <1>2, <1>3, RemovalIsRemembered, SameTableInv
<1> QED
  BY <1>2, <1>5, <1>6, AloneInv DEF AddInv

\* An error is received once, and it is the answer.
LEMMA ReceiveInv ==
    ASSUME TypeOK, AddInv, NEW r \in Requests, NEW g \in Regions, Receive(r, g)
    PROVE  AddInv'
<1>1. RequestInv(r) /\ pc[r] = "add.range" /\ stage[r][g] = "send"
  BY DEF AddInv, Receive, At
<1>2. /\ Alone(r)
      /\ UNCHANGED <<recorded, list, left, closer>>
      /\ pc'[r] = "done" /\ answer'[r] = "failed"
      /\ stage'[r] = [stage[r] EXCEPT ![g] = "failed"]
  BY DEF Receive, Goto, Respond, Alone, Mine, TypeOK
<1>3. /\ stage'[r][g] = "failed"
      /\ \A h \in Regions \ {g} : stage'[r][h] = stage[r][h]
  BY <1>2 DEF TypeOK
<1>4. answer[r] = "none" /\ closer[r] # "closed"
  BY <1>1 DEF RequestInv, AllDone
<1>5. g \in Failed(r)'
  BY <1>3 DEF Failed
<1>6. RequestInv(r)'
  BY <1>1, <1>2, <1>4, <1>5 DEF RequestInv
<1>7. TableInv'
  BY <1>1, <1>2, <1>3, <1>4, RemovalIsRemembered, SameTableInv
<1> QED
  BY <1>2, <1>6, <1>7, AloneInv DEF AddInv

\* A goroutine at work inserts, or fails and has its error to send.
LEMMA WorkInv ==
    ASSUME TypeOK, AddInv, NEW r \in Requests, NEW g \in Regions, Work(r, g)
    PROVE  AddInv'
<1>1. RequestInv(r) /\ stage[r][g] = "insert"
  BY DEF AddInv, Work, Insert, InsertFails
<1>2. PICK s \in {"inserted", "send"} : stage' = [stage EXCEPT ![r][g] = s]
  BY DEF Work, Insert, InsertFails
<1>3. /\ Alone(r)
      /\ UNCHANGED <<list, left, pc, answer, closer>>
      /\ stage'[r] = [stage[r] EXCEPT ![g] = s]
  BY <1>2 DEF Work, Insert, InsertFails, Alone, Mine, TypeOK
<1>4. /\ stage'[r][g] = s
      /\ \A h \in Regions \ {g} : stage'[r][h] = stage[r][h]
  BY <1>3 DEF TypeOK
<1>5. closer[r] # "closed" /\ ~(answer[r] = "inserted" /\ g \in list[r])
  BY <1>1 DEF RequestInv, AllDone
<1>6. \A h \in Regions : stage[r][h] \in Unreported => stage'[r][h] \in Unreported
  BY <1>4 DEF Unreported
<1>7. Failed(r) \subseteq Failed(r)'
  BY <1>1, <1>4 DEF Failed
<1>8. answer'[r] = "inserted" => \A h \in list'[r] : stage'[r][h] = "inserted"
  BY <1>1, <1>3, <1>4, <1>5 DEF RequestInv, TypeOK
<1>9. RequestInv(r)'
  BY <1>1, <1>3, <1>5, <1>6, <1>7, <1>8 DEF RequestInv, TypeOK
<1>10. NeverRemoves' => NeverRemoves
  BY <1>3 DEF NeverRemoves, At
<1>11. ASSUME Insert(r, g) PROVE TableInv'
  <2>1. /\ recorded'[g] = recorded[g] + 1
        /\ \A h \in Regions \ {g} : recorded'[h] = recorded[h]
        /\ recorded[g] \in Nat
    BY <1>11 DEF Insert, TypeOK
  <2>2. \A q \in Requests \ {r} : stage'[q] = stage[q]
    BY <1>3 DEF Alone, Mine
  <2> QED
    BY <1>4, <1>10, <2>1, <2>2 DEF AddInv, TableInv
<1>12. ASSUME InsertFails(r, g) PROVE TableInv'
  <2>1. UNCHANGED recorded /\ stage'[r][g] = "send"
    BY <1>12 DEF InsertFails, TypeOK
  <2> QED
    BY <1>3, <1>4, <1>10, <2>1, SameTableInv
<1> QED
  BY <1>3, <1>9, <1>11, <1>12, AloneInv DEF AddInv, Work

\* AddInv is inductive.
LEMMA StepInv == TypeOK /\ AddInv /\ [Next]_vars => AddInv'
<1> SUFFICES ASSUME TypeOK, AddInv, [Next]_vars PROVE AddInv'
  OBVIOUS
<1>1. CASE UNCHANGED vars
  BY <1>1 DEF vars, AddInv, RequestInv, TableInv, AllDone, Failed, NeverRemoves, At
<1>2. CASE Next
  BY <1>2, IssueInv, CheckInv, RemoveInv, StartWorkerInv, StartCloserInv, CloseInv,
     RangeEndsInv, ReceiveInv, WorkInv DEF Next, Step
<1> QED
  BY <1>1, <1>2

\* At first no request has a goroutine.
LEMMA AddInvInit == Init => AddInv
BY DEF Init, AddInv, RequestInv, TableInv

\* AddInv holds in every state.
LEMMA AddInvHolds == Spec => []AddInv
BY AddInvInit, StepInv, RegionsTypeCorrect, PTL DEF Spec

\* What AddWorkloadRegions answers is true: all regions inserted, or an error of
\* one of its goroutines, however requests and goroutines interleave.
THEOREM AnswersAreTrue == Spec => []AnswerIsTrue
<1>1. TypeOK /\ AddInv => AnswerIsTrue
  <2> SUFFICES ASSUME TypeOK, AddInv, NEW r \in Requests PROVE
        /\ answer[r] = "inserted" =>
            /\ \A g \in list[r] : stage[r][g] = "inserted"
            /\ NeverRemoves => \A g \in list[r] : recorded[g] > 0
        /\ answer[r] = "failed" => Failed(r) # {}
    BY DEF AnswerIsTrue
  <2> QED
    BY DEF AddInv, RequestInv, TableInv, TypeOK
<1> QED
  BY <1>1, AddInvHolds, RegionsTypeCorrect, PTL

\* No goroutine of AddWorkloadRegions ever sends on a closed channel.
THEOREM NobodyPanics == Spec => []NobodySendsOnClosed
<1>1. AddInv => NobodySendsOnClosed
  BY DEF AddInv, RequestInv, AllDone, NobodySendsOnClosed
<1> QED
  BY <1>1, AddInvHolds, PTL
=============================================================================
