--------------------------- MODULE WorkloadRegions ---------------------------
(***************************************************************************)
(* The regions of one workload: AddWorkloadRegions, RemoveWorkloadRegions  *)
(* and DeleteWorkloadManagement of one user, overlapping.                   *)
(*                                                                          *)
(* AddWorkloadRegions starts a goroutine per region, which inserts a row     *)
(* and sends its error, if any, on a channel without a buffer.  A further    *)
(* goroutine waits for all of them and closes the channel.  The request      *)
(* receives until the first error, or until the channel is closed.           *)
(* The argument is a set here: a code it repeats would insert one more row.   *)
(***************************************************************************)
EXTENDS Integers, FiniteSets

CONSTANTS
    Regions,     \* region codes
    Requests,    \* the requests of a behaviour, each issued at most once
    Faults       \* "insert": an INSERT may fail

ASSUME RegionsAssumption == Faults \subseteq {"insert"}

VARIABLES
    active,      \* is_active of the workload
    recorded,    \* how many rows workload_management_regions has of a region
    pc,          \* the step each request is at
    list,        \* its argument regionCode
    left,        \* the regions whose goroutine is still to be started
    answer,      \* what it was answered
    stage,       \* the goroutines of each request, by region
    closer       \* the goroutine that closes the channel of each request

vars == <<active, recorded, pc, list, left, answer, stage, closer>>

PC == {"new", "add.check", "add.start", "add.range", "remove",
       "delete.check", "delete", "done"}
Answer == {"none", "inserted", "failed", "missing", "removed", "deleted"}
Stage == {"off", "insert", "send", "inserted", "failed"}

TypeOK ==
    /\ active \in BOOLEAN
    /\ recorded \in [Regions -> Nat]
    /\ pc \in [Requests -> PC]
    /\ list \in [Requests -> SUBSET Regions]
    /\ left \in [Requests -> SUBSET Regions]
    /\ answer \in [Requests -> Answer]
    /\ stage \in [Requests -> [Regions -> Stage]]
    /\ closer \in [Requests -> {"off", "waiting", "closed"}]

\* CreateWorkloadManagement has inserted the workload.
Init ==
    /\ active = TRUE
    /\ recorded = [g \in Regions |-> 0]
    /\ pc = [r \in Requests |-> "new"]
    /\ list = [r \in Requests |-> {}]
    /\ left = [r \in Requests |-> {}]
    /\ answer = [r \in Requests |-> "none"]
    /\ stage = [r \in Requests |-> [g \in Regions |-> "off"]]
    /\ closer = [r \in Requests |-> "off"]

-----------------------------------------------------------------------------
At(r, label) == pc[r] = label

Goto(r, label) == pc' = [pc EXCEPT ![r] = label]

Respond(r, what) == Goto(r, "done") /\ answer' = [answer EXCEPT ![r] = what]

\* The wait group is at zero.
AllDone(r) == \A g \in Regions : stage[r][g] \notin {"insert", "send"}

-----------------------------------------------------------------------------
AddWorkloadRegions(r) ==
    /\ At(r, "new")
    /\ Goto(r, "add.check")
    /\ \E regions \in SUBSET Regions :
        /\ list' = [list EXCEPT ![r] = regions]
        /\ left' = [left EXCEPT ![r] = regions]
    /\ UNCHANGED <<active, recorded, answer, stage, closer>>

AddCheck(r) ==
    /\ At(r, "add.check")
    /\ IF active THEN Goto(r, "add.start") /\ UNCHANGED answer
                 ELSE Respond(r, "missing")
    /\ UNCHANGED <<active, recorded, list, left, stage, closer>>

\* wg.Add(1) and the goroutine of one more region.
StartWorker(r) ==
    /\ At(r, "add.start")
    /\ \E g \in left[r] :
        /\ left' = [left EXCEPT ![r] = @ \ {g}]
        /\ stage' = [stage EXCEPT ![r][g] = "insert"]
    /\ UNCHANGED <<active, recorded, pc, list, answer, closer>>

\* Mutation of StartCloser: the request does not receive.
StartCloserAndRespond(r) ==
    /\ At(r, "add.start")
    /\ left[r] = {}
    /\ closer' = [closer EXCEPT ![r] = "waiting"]
    /\ Respond(r, "failed")
    /\ UNCHANGED <<active, recorded, list, left, stage>>

\* Mutation of StartCloser: nobody will close the channel.
StartNoCloser(r) ==
    /\ At(r, "add.start")
    /\ left[r] = {}
    /\ Goto(r, "add.range")
    /\ UNCHANGED <<active, recorded, list, left, answer, stage, closer>>

StartCloser(r) ==
    /\ At(r, "add.start")
    /\ left[r] = {}
    /\ closer' = [closer EXCEPT ![r] = "waiting"]
    /\ Goto(r, "add.range")
    /\ UNCHANGED <<active, recorded, list, left, answer, stage>>

\* Mutation of InsertFails: the error is not sent.
InsertFailsSilently(r, g) ==
    /\ "insert" \in Faults
    /\ stage[r][g] = "insert"
    /\ stage' = [stage EXCEPT ![r][g] = "failed"]
    /\ UNCHANGED <<active, recorded, pc, list, left, answer, closer>>

\* AddWorkloadRegion, then wg.Done.
Insert(r, g) ==
    /\ stage[r][g] = "insert"
    /\ recorded' = [recorded EXCEPT ![g] = @ + 1]
    /\ stage' = [stage EXCEPT ![r][g] = "inserted"]
    /\ UNCHANGED <<active, pc, list, left, answer, closer>>

InsertFails(r, g) ==
    /\ "insert" \in Faults
    /\ stage[r][g] = "insert"
    /\ stage' = [stage EXCEPT ![r][g] = "send"]
    /\ UNCHANGED <<active, recorded, pc, list, left, answer, closer>>

\* The request receives the error of a goroutine, which ends, and returns it.
Receive(r, g) ==
    /\ At(r, "add.range")
    /\ stage[r][g] = "send"
    /\ stage' = [stage EXCEPT ![r][g] = "failed"]
    /\ Respond(r, "failed")
    /\ UNCHANGED <<active, recorded, list, left, closer>>

\* Mutation of Close: it does not wait.
CloseAtOnce(r) ==
    /\ closer[r] = "waiting"
    /\ closer' = [closer EXCEPT ![r] = "closed"]
    /\ UNCHANGED <<active, recorded, pc, list, left, answer, stage>>

Close(r) ==
    /\ closer[r] = "waiting"
    /\ AllDone(r)
    /\ closer' = [closer EXCEPT ![r] = "closed"]
    /\ UNCHANGED <<active, recorded, pc, list, left, answer, stage>>

\* The channel is closed: the loop ends.
RangeEnds(r) ==
    /\ At(r, "add.range")
    /\ closer[r] = "closed"
    /\ Respond(r, "inserted")
    /\ UNCHANGED <<active, recorded, list, left, stage, closer>>

-----------------------------------------------------------------------------
RemoveWorkloadRegions(r) ==
    /\ At(r, "new")
    /\ Goto(r, "remove")
    /\ \E g \in Regions : list' = [list EXCEPT ![r] = {g}]
    /\ UNCHANGED <<active, recorded, left, answer, stage, closer>>

\* Mutation of DeleteWorkloadRegion: one row goes, if there is one or not.
DeleteOneRow(r) ==
    /\ At(r, "remove")
    /\ recorded' = [g \in Regions |-> recorded[g] - IF g \in list[r] THEN 1 ELSE 0]
    /\ Respond(r, "removed")
    /\ UNCHANGED <<active, list, left, stage, closer>>

\* Every row of the region goes, however often it was added.
DeleteWorkloadRegion(r) ==
    /\ At(r, "remove")
    /\ recorded' = [g \in Regions |-> IF g \in list[r] THEN 0 ELSE recorded[g]]
    /\ Respond(r, "removed")
    /\ UNCHANGED <<active, list, left, stage, closer>>

DeleteWorkloadManagement(r) ==
    /\ At(r, "new")
    /\ Goto(r, "delete.check")
    /\ UNCHANGED <<active, recorded, list, left, answer, stage, closer>>

DeleteCheck(r) ==
    /\ At(r, "delete.check")
    /\ IF active THEN Goto(r, "delete") /\ UNCHANGED answer
                 ELSE Respond(r, "missing")
    /\ UNCHANGED <<active, recorded, list, left, stage, closer>>

\* The rows of its regions stay.
DeleteWorkload(r) ==
    /\ At(r, "delete")
    /\ active' = FALSE
    /\ Respond(r, "deleted")
    /\ UNCHANGED <<recorded, list, left, stage, closer>>

-----------------------------------------------------------------------------
Issue(r) ==
    AddWorkloadRegions(r) \/ RemoveWorkloadRegions(r) \/ DeleteWorkloadManagement(r)

Step(r) ==
    \/ AddCheck(r) \/ StartWorker(r) \/ StartCloser(r) \/ RangeEnds(r)
    \/ DeleteWorkloadRegion(r) \/ DeleteCheck(r) \/ DeleteWorkload(r)
    \/ \E g \in Regions : Receive(r, g)

Work(r, g) == Insert(r, g) \/ InsertFails(r, g)

Next ==
    \E r \in Requests :
        \/ Issue(r)
        \/ Step(r)
        \/ Close(r)
        \/ \E g \in Regions : Work(r, g)

\* The requests' goroutines, those they start and those that close the channels.
Fairness ==
    \A r \in Requests :
        /\ WF_vars(Step(r))
        /\ WF_vars(Close(r))
        /\ \A g \in Regions : WF_vars(Work(r, g))

Spec == Init /\ [][Next]_vars /\ Fairness

-----------------------------------------------------------------------------
(***************************************************************************)
(* Properties                                                              *)
(***************************************************************************)
Failed(r) == {g \in Regions : stage[r][g] \in {"send", "failed"}}

NeverRemoves == \A r \in Requests : ~At(r, "remove") /\ answer[r] # "removed"

\* What AddWorkloadRegions answers is true: "Successfully Inserted" when each of
\* its goroutines has inserted, so that unless a region is being removed the table
\* has a row of each; an error when one of them has failed.
AnswerIsTrue ==
    \A r \in Requests :
        /\ answer[r] = "inserted" =>
            /\ \A g \in list[r] : stage[r][g] = "inserted"
            /\ NeverRemoves => \A g \in list[r] : recorded[g] > 0
        /\ answer[r] = "failed" => Failed(r) # {}

\* No goroutine sends on a closed channel, which would stop the server.
NobodySendsOnClosed ==
    \A r \in Requests : closer[r] = "closed" =>
        \A g \in Regions : stage[r][g] \notin {"insert", "send"}

\* Every request is answered, whatever its goroutines meet.
EveryRequestIsAnswered == \A r \in Requests : ~At(r, "new") ~> At(r, "done")

\* The goroutines of a request end, the one that closes the channel too, unless
\* two of them have failed: the request receives one error, and nobody the next.
GoroutinesEnd ==
    \A r \in Requests :
        closer[r] = "waiting" ~> closer[r] = "closed" \/ Cardinality(Failed(r)) > 1
=============================================================================
