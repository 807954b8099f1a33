---------------------------- MODULE VirtualMachines ----------------------------
(***************************************************************************)
(* Virtual machines of three clouds, which a user registers as hosts, and   *)
(* starts and stops: the mutations of vmInstance.resolvers.go.  The clouds  *)
(* are external: a machine takes its time between two states.  Requests on  *)
(* GCP machines pass their credentials through the file temp.json in the    *)
(* working directory of the server, which all requests share.               *)
(*                                                                          *)
(* A step is one call to a cloud, one SQL statement, or one use of the      *)
(* file.  The hosts are those of one user, found by the machine's name.     *)
(***************************************************************************)
EXTENDS Integers, FiniteSets, Sequences

CONSTANTS
    Machines, CloudOf,  \* and the cloud each is in
    Accounts,           \* service accounts, each with a project of its own
    AccountOf,          \* the account a GCP machine belongs to
    Orgs,
    Registered,         \* the machines that are hosts at first
    FirstStates,        \* the states the machines may be in at first
    Requests, MaxRequests, Faults

Clouds == {"GCP", "AWS", "Azure"}
KindNames == {"start", "stop", "create", "delete"}
FaultKinds == {
    "cloud",   \* a call to a cloud or a download fails
    "sql",     \* a statement fails
    "crash"}   \* the server stops

ASSUME VirtualMachinesAssumption ==
    /\ Machines # {} /\ Orgs # {} /\ Accounts # {}
    /\ CloudOf \in [Machines -> Clouds]
    /\ AccountOf \in [Machines -> Accounts]
    /\ {"none", "unreadable"} \cap Accounts = {}
    /\ MaxRequests \in Nat
    /\ Registered \in Seq(Machines)
    /\ FirstStates \subseteq [Machines -> {"off", "on"}]
    /\ Faults \subseteq FaultKinds

AnyMachine == CHOOSE m \in Machines : TRUE
AnyOrg == CHOOSE o \in Orgs : TRUE

\* A request inserts at most one host.
FirstHosts == DOMAIN Registered
Hosts == 1 .. Len(Registered) + MaxRequests
NoHost == 0

VARIABLES
    machine,   \* the state of each machine in its cloud
    host,      \* table host, by id; nothing ever clears is_active
    nextHost,
    temp,      \* temp.json: "none", "unreadable", or the account it holds
    open,      \* requests whose open file is the one now called temp.json
    req,       \* the request each slot executes
    alone,     \* history: slots whose request nobody has disturbed
    issued     \* requests issued so far

vars == <<machine, host, nextHost, temp, open, req, alone, issued>>

MachineStates == {"off", "starting", "on", "stopping"}
HostStatus == {"running", "stopped", "other"}
HostRow == [present: BOOLEAN, machine: Machines, org: Orgs, status: HostStatus]

Labels == {"idle", "create.exists", "create.insert", "delete.find", "find",
    "file.create", "file.write", "file.service", "file.project", "file.remove",
    "check", "already", "command", "mark", "poll", "finish", "answer"}

\* What the request at a label may be about.
KindsAt(label) ==
    CASE label = "idle" -> {"none"}
      [] label = "delete.find" -> {"delete"}
      [] label \in {"create.exists", "create.insert"} -> {"create"}
      [] label \in {"find", "already", "command", "mark", "poll", "finish", "answer"} ->
            {"start", "stop"}
      [] OTHER -> {"start", "stop", "create"}

Request ==
    [pc: Labels, kind: KindNames \cup {"none"}, machine: Machines, org: Orgs,
     host: Hosts \cup {NoHost},
     account: Accounts \cup {"none"},   \* of the client computeService
     project: Accounts \cup {"none"},   \* credentials.ProjectID
     seen: MachineStates \cup {""}]     \* the status last read, "" after an error

Idle == [pc |-> "idle", kind |-> "none", machine |-> AnyMachine, org |-> AnyOrg,
         host |-> NoHost, account |-> "none", project |-> "none", seen |-> ""]

StatusOf(state) == IF state = "on" THEN "running" ELSE "stopped"

TypeOK ==
    /\ machine \in [Machines -> MachineStates]
    /\ host \in [Hosts -> HostRow]
    /\ nextHost \in Nat
    /\ temp \in Accounts \cup {"none", "unreadable"}
    /\ open \in SUBSET Requests
    /\ req \in [Requests -> Request]
    /\ alone \in SUBSET Requests
    /\ issued \in 0 .. MaxRequests
    /\ \A r \in Requests : req[r].kind \in KindsAt(req[r].pc)

Init ==
    /\ machine \in FirstStates
    /\ host = [h \in Hosts |->
            IF h \in FirstHosts
            THEN [present |-> TRUE, machine |-> Registered[h], org |-> AnyOrg,
                  status |-> StatusOf(machine[Registered[h]])]
            ELSE [present |-> FALSE, machine |-> AnyMachine, org |-> AnyOrg,
                  status |-> "other"]]
    /\ nextHost = Len(Registered) + 1
    /\ temp = "none"
    /\ open = {}
    /\ req = [r \in Requests |-> Idle]
    /\ alone = {}
    /\ issued = 0

-----------------------------------------------------------------------------
(***************************************************************************)
(* Control                                                                 *)
(***************************************************************************)
At(r, label) == req[r].pc = label
Become(r, q) == req' = [req EXCEPT ![r] = q]
Goto(r, label) == Become(r, [req[r] EXCEPT !.pc = label])
End(r) == Become(r, Idle)

Cloud(r) == CloudOf[req[r].machine]
Fails(kind) == kind \in Faults

File == <<temp, open>>
Ghosts == <<alone, issued>>
Reads == UNCHANGED <<machine, host, nextHost, File, Ghosts>>
OnlyHost == UNCHANGED <<machine, File, Ghosts>>
OnlyFile == UNCHANGED <<machine, host, nextHost, Ghosts>>

\* What the machine is to become, and the status of the host then.
Wanted(r) == IF req[r].kind = "start" THEN "on" ELSE "off"
WantedStatus(r) == StatusOf(Wanted(r))

\* UpdateHostStatus
Mark(r) == host' = [host EXCEPT ![req[r].host].status = WantedStatus(r)]

\* A statement that fails disturbs the request as well.
MarkFails(r) == Fails("sql") /\ UNCHANGED host /\ alone' = alone \ {r}

-----------------------------------------------------------------------------
(***************************************************************************)
(* The mutations                                                           *)
(***************************************************************************)
\* Requests on one machine, or on two that use the file.
Clash(m, n) == m = n \/ (CloudOf[m] = "GCP" /\ CloudOf[n] = "GCP")

Begin(r, kind, label, m, o) ==
    LET others == {x \in Requests \ {r} : ~At(x, "idle") /\ Clash(req[x].machine, m)}
    IN /\ At(r, "idle")
       /\ issued < MaxRequests
       /\ Become(r, [Idle EXCEPT !.pc = label, !.kind = kind, !.machine = m, !.org = o])
       /\ alone' = (alone \ (others \cup {r})) \cup (IF others = {} THEN {r} ELSE {})
       /\ issued' = issued + 1
       /\ UNCHANGED <<machine, host, nextHost, File>>

NodeAction(r) ==
    \E m \in Machines, kind \in {"start", "stop"} : Begin(r, kind, "find", m, AnyOrg)

CreateHost(r) ==
    \E m \in Machines, o \in Orgs : Begin(r, "create", "create.exists", m, o)

DeleteHost(r) ==
    \E h \in {h \in Hosts : host[h].present} :
        Begin(r, "delete", "delete.find", host[h].machine, host[h].org)

Mutation(r) == NodeAction(r) \/ CreateHost(r) \/ DeleteHost(r)

\* Mutation of Find: a row of any name.
FindAny(r) ==
    /\ At(r, "find")
    /\ \E h \in {x \in Hosts : host[x].present} :
        Become(r, [req[r] EXCEPT !.host = h,
                   !.pc = IF Cloud(r) = "GCP" THEN "file.create" ELSE "check"])
    /\ Reads

\* GetHostDetails: of several rows of the name the last one counts.
Find(r) ==
    /\ At(r, "find")
    /\ LET rows == {h \in Hosts : host[h].present /\ host[h].machine = req[r].machine}
       IN \/ (rows = {} \/ Fails("sql")) /\ End(r)
          \/ \E h \in rows :
                Become(r, [req[r] EXCEPT !.host = h,
                           !.pc = IF Cloud(r) = "GCP" THEN "file.create" ELSE "check"])
    /\ Reads

\* GetHostDetailsByNameAndOrgId
CreateExists(r) ==
    /\ At(r, "create.exists")
    /\ LET rows == {h \in Hosts : /\ host[h].present /\ host[h].machine = req[r].machine
                                   /\ host[h].org = req[r].org}
       IN \/ (rows # {} \/ Fails("sql")) /\ End(r)
          \/ rows = {} /\ Goto(r, IF Cloud(r) = "GCP" THEN "file.create" ELSE "check")
    /\ Reads

\* GetHostDetailsById selects only a row that says running, and such a host is
\* refused; for any other the scan of no row is an error.  DeleteHostActivity,
\* which would clear is_active, is never reached.
DeleteFind(r) ==
    /\ At(r, "delete.find")
    /\ End(r)
    /\ Reads

-----------------------------------------------------------------------------
(***************************************************************************)
(* The file temp.json: GetFileFromPrivateS3, its readers, its removal      *)
(***************************************************************************)
\* os.Create truncates a file that exists; the session of the store comes first.
FileCreate(r) ==
    /\ At(r, "file.create")
    /\ \/ temp' = "unreadable" /\ open' = open \cup {r} /\ Goto(r, "file.write")
       \/ Fails("cloud") /\ End(r) /\ UNCHANGED File
    /\ OnlyFile

\* A file that was removed meanwhile gets the bytes, but not the name; one that
\* another request has written may keep the tail of what it held.
FileWrite(r) ==
    /\ At(r, "file.write")
    /\ \/ /\ IF r \in open
             THEN \/ temp' = AccountOf[req[r].machine]
                  \/ temp \notin {"unreadable", AccountOf[req[r].machine]}
                     /\ temp' = "unreadable"
             ELSE UNCHANGED temp
          /\ Goto(r, IF req[r].kind = "create" THEN "file.project" ELSE "file.service")
       \/ Fails("cloud") /\ End(r) /\ UNCHANGED temp
    /\ open' = open \ {r}
    /\ OnlyFile

\* compute.NewService
FileService(r) ==
    /\ At(r, "file.service")
    /\ IF temp \in Accounts
       THEN Become(r, [req[r] EXCEPT !.pc = "file.project", !.account = temp])
       ELSE End(r)
    /\ Reads

\* helper.ReadFile
FileProject(r) ==
    /\ At(r, "file.project")
    /\ IF temp \in Accounts
       THEN Become(r, [req[r] EXCEPT !.pc = "check", !.project = temp])
       ELSE End(r)
    /\ Reads

FileRemove(r) ==
    /\ At(r, "file.remove")
    /\ temp' = "none"
    /\ open' = {}
    /\ Goto(r, IF req[r].kind = "create" THEN "create.insert" ELSE "answer")
    /\ OnlyFile

FileSteps(r) ==
    FileCreate(r) \/ FileWrite(r) \/ FileService(r) \/ FileProject(r) \/ FileRemove(r)

-----------------------------------------------------------------------------
(***************************************************************************)
(* Statuses.  GetInstanceStatus reads the file again on every call: it      *)
(* panics on one it can not read, and when the instance is not in the       *)
(* project, and answers with an error an account that is not the project's. *)
(* A panic ends the request.                                                *)
(***************************************************************************)
Panics(r) ==
    /\ Cloud(r) = "GCP"
    /\ \/ temp \notin Accounts
       \/ temp = req[r].project /\ temp # AccountOf[req[r].machine]

\* The outcomes of a read that returns.  A machine settles on or off: that Azure
\* leaves one in another display status (deallocated, say), which AzureInstanceStatus
\* returns as it is, is assumed not to happen; the loops would poll it for ever.
Seen(r) ==
    IF Cloud(r) = "GCP"
    THEN (IF temp = req[r].project THEN {machine[req[r].machine]} ELSE {""})
         \cup (IF Fails("cloud") THEN {""} ELSE {})
    ELSE {machine[req[r].machine]}

StatusFails(r) ==
    /\ req[r].pc \in {"check", "poll"}
    /\ Panics(r) \/ (Cloud(r) # "GCP" /\ Fails("cloud"))
    /\ End(r)
    /\ Reads

AlreadySo(r, state) ==
    \/ state = Wanted(r)
    \/ req[r].kind = "stop" /\ Cloud(r) = "GCP" /\ state = "stopping"

AfterCheck(r, state) ==
    IF req[r].kind = "create"
    THEN IF Cloud(r) = "GCP" THEN "file.remove" ELSE "create.insert"
    ELSE IF AlreadySo(r, state) THEN "already" ELSE "command"

Check(r) ==
    /\ At(r, "check")
    /\ ~Panics(r)
    /\ \E state \in Seen(r) :
        Become(r, [req[r] EXCEPT !.pc = AfterCheck(r, state), !.seen = state])
    /\ Reads

\* Mutation of Already: the status is not written.
AlreadyUnmarked(r) ==
    /\ At(r, "already")
    /\ Goto(r, "answer")
    /\ Reads

\* The status is written, its error dropped, and the request refused.
Already(r) ==
    /\ At(r, "already")
    /\ \/ Mark(r) /\ UNCHANGED alone
       \/ MarkFails(r)
    /\ Goto(r, "answer")
    /\ UNCHANGED <<machine, nextHost, File, issued>>

\* The call that starts or stops the machine, and what its cloud makes of it.
Accepts(r) ==
    machine[req[r].machine] # (IF req[r].kind = "start" THEN "stopping" ELSE "starting")
Obeys(r) ==
    machine' = [machine EXCEPT ![req[r].machine] =
        IF @ = "off" /\ req[r].kind = "start" THEN "starting"
        ELSE IF @ = "on" /\ req[r].kind = "stop" THEN "stopping" ELSE @]

Credible(r) ==
    Cloud(r) = "GCP" =>
        req[r].account = AccountOf[req[r].machine] /\ req[r].project = req[r].account

Command(r) ==
    /\ At(r, "command")
    /\ \/ /\ Credible(r) /\ Accepts(r)
          /\ Obeys(r)
          /\ Goto(r, IF Cloud(r) = "AWS" THEN "mark" ELSE "poll")
       \/ /\ ~(Credible(r) /\ Accepts(r)) \/ Fails("cloud")
          /\ End(r)
          /\ UNCHANGED machine
    /\ UNCHANGED <<host, nextHost, File, Ghosts>>

AfterPoll(r, state) ==
    IF Cloud(r) = "GCP" THEN "mark"
    ELSE IF state # Wanted(r) THEN "poll"
    ELSE IF Cloud(r) = "AWS" THEN "finish" ELSE "mark"

\* Mutation of PollReads: the loop tests the status read before the command.
PollStale(r, states) ==
    /\ At(r, "poll")
    /\ ~Panics(r)
    /\ states # {}
    /\ Goto(r, AfterPoll(r, req[r].seen))
    /\ Reads

PollReads(r, states) ==
    /\ At(r, "poll")
    /\ ~Panics(r)
    /\ \E state \in states :
        Become(r, [req[r] EXCEPT !.pc = AfterPoll(r, state), !.seen = state])
    /\ Reads

Poll(r) == PollReads(r, Seen(r))
PollAnswered(r) == PollReads(r, Seen(r) \ {""})

AfterMark(r) ==
    CASE Cloud(r) = "GCP" -> IF req[r].seen = Wanted(r) THEN "finish" ELSE "poll"
      [] Cloud(r) = "AWS" -> "poll"
      [] Cloud(r) = "Azure" -> "finish"

\* Only a start in AWS and an action in Azure give up when the statement fails.
MarkHost(r) ==
    /\ At(r, "mark")
    /\ \/ Mark(r) /\ Goto(r, AfterMark(r)) /\ UNCHANGED alone
       \/ /\ MarkFails(r)
          /\ IF Cloud(r) = "Azure" \/ (Cloud(r) = "AWS" /\ req[r].kind = "start")
             THEN End(r) ELSE Goto(r, AfterMark(r))
    /\ UNCHANGED <<machine, nextHost, File, issued>>

\* The activity row.
Finish(r) ==
    /\ At(r, "finish")
    /\ \/ Goto(r, IF Cloud(r) = "GCP" THEN "file.remove" ELSE "answer")
       \/ Fails("sql") /\ End(r)
    /\ Reads

Answer(r) == At(r, "answer") /\ End(r) /\ Reads

\* Mutation of CreateInsert: the state of the cloud as it is.
CreateInsertRaw(r) ==
    /\ At(r, "create.insert")
    /\ nextHost \in Hosts
    /\ host' = [host EXCEPT ![nextHost] =
            [present |-> TRUE, machine |-> req[r].machine, org |-> req[r].org,
             status |-> req[r].seen]]
    /\ nextHost' = nextHost + 1
    /\ End(r)
    /\ OnlyHost

\* CreateHostService, CreateHostAWSService and CreateHostAzureService: what is not
\* TERMINATED in GCP is running, the others keep the name of the state.
StatusSeen(r) ==
    CASE req[r].seen = "on" -> "running"
      [] req[r].seen = "off" -> "stopped"
      [] OTHER -> IF Cloud(r) = "GCP" THEN "running" ELSE "other"

CreateInsert(r) ==
    /\ At(r, "create.insert")
    /\ nextHost \in Hosts
    /\ \/ /\ host' = [host EXCEPT ![nextHost] =
                [present |-> TRUE, machine |-> req[r].machine, org |-> req[r].org,
                 status |-> StatusSeen(r)]]
          /\ nextHost' = nextHost + 1
       \/ Fails("sql") /\ UNCHANGED <<host, nextHost>>
    /\ End(r)
    /\ OnlyHost

Step(r) ==
    \/ Find(r) \/ CreateExists(r) \/ DeleteFind(r) \/ FileSteps(r)
    \/ StatusFails(r) \/ Check(r) \/ Already(r) \/ Command(r) \/ Poll(r)
    \/ MarkHost(r) \/ Finish(r) \/ Answer(r) \/ CreateInsert(r)

-----------------------------------------------------------------------------
\* The cloud: what has been asked for comes to be.
Settle(m) ==
    /\ machine[m] \in {"starting", "stopping"}
    /\ machine' = [machine EXCEPT ![m] = IF @ = "starting" THEN "on" ELSE "off"]
    /\ UNCHANGED <<host, nextHost, File, req, Ghosts>>

\* The server stops; the file stays.
Crash ==
    /\ Fails("crash")
    /\ req' = [r \in Requests |-> Idle]
    /\ open' = {}
    /\ UNCHANGED <<machine, host, nextHost, temp, Ghosts>>

Quiet == \A r \in Requests : At(r, "idle")
Done == Quiet /\ issued = MaxRequests /\ UNCHANGED vars

Next ==
    \/ \E r \in Requests : Mutation(r) \/ Step(r)
    \/ \E m \in Machines : Settle(m)
    \/ Crash
    \/ Done

Spec == Init /\ [][Next]_vars

\* The scheduler runs what can run; a cloud gets its machines there, and does not
\* fail for ever to answer a request that keeps asking.
FairSpec ==
    /\ Spec
    /\ \A r \in Requests : WF_vars(Step(r))
    /\ \A m \in Machines : WF_vars(Settle(m))
    /\ \A r \in Requests : SF_vars(PollAnswered(r))
-----------------------------------------------------------------------------
(***************************************************************************)
(* Properties                                                              *)
(***************************************************************************)
Acts(r) == req[r].kind \in {"start", "stop"}

Agrees(h) ==
    host[h].status = StatusOf(CASE machine[host[h].machine] \in {"on", "starting"} -> "on"
                                [] OTHER -> "off")

\* The host a start or a stop has answered for says what the machine is, or is
\* becoming, provided no statement failed and no request on the machine, or on the
\* file its credentials pass through, overlapped: whatever earlier requests that
\* failed, clashed or stopped half way have left in the row, in temp.json and in
\* the cloud, the next undisturbed action puts right.
AnsweredHostAgrees ==
    \A r \in alone :
        Acts(r) /\ req[r].pc \in {"finish", "file.remove", "answer"} => Agrees(req[r].host)

\* The parts of the inductive invariant.
HostsAreInOrder == \A h \in Hosts : host[h].present => h < nextHost

ActsOnItsHost(r) ==
    Acts(r) /\ req[r].pc # "find" =>
        /\ req[r].host \in Hosts
        /\ host[req[r].host].present
        /\ host[req[r].host].machine = req[r].machine

Undisturbed(r) ==
    \A x \in Requests \ {r} : ~At(r, "idle") /\ ~At(x, "idle") =>
        ~Clash(req[r].machine, req[x].machine)

Toward(r) ==
    Acts(r) /\ req[r].pc \in {"already", "mark", "poll", "finish", "file.remove", "answer"} =>
        machine[req[r].machine] \in
            IF req[r].kind = "start" THEN {"on", "starting"} ELSE {"off", "stopping"}

Marked(r) ==
    /\ Acts(r)
    /\ \/ req[r].pc \in {"finish", "file.remove", "answer"}
       \/ req[r].pc = "poll" /\ Cloud(r) = "AWS"
    => host[req[r].host].status = WantedStatus(r)

\* A request keeps to the host it has found, and one nobody disturbed finds the
\* machine on its way and, once it has written it, the status it wrote.
VirtualMachinesInv ==
    /\ HostsAreInOrder
    /\ \A r \in Requests : ActsOnItsHost(r)
    /\ \A r \in alone : Undisturbed(r)
    /\ \A r \in alone : Toward(r)
    /\ \A r \in alone : Marked(r)

\* What keeps a request in its loop: another has turned the machine the other way,
\* or has left the credentials of another account in the file.
Disturbed(r) ==
    LET m == req[r].machine
    IN /\ req[r].pc \in {"poll", "mark"}
       /\ \/ machine[m] = IF Wanted(r) = "on" THEN "off" ELSE "on"
          \/ CloudOf[m] = "GCP" /\ temp \in Accounts \ {AccountOf[m]}

\* Every request is answered, or ends with an error or a panic, unless it is kept
\* in its loop for ever in one of the two ways of Disturbed: the loops on the
\* status have no limit and no other way to hang.
EveryActionEnds ==
    \A r \in Requests : ([]<>At(r, "idle")) \/ (<>[]Disturbed(r))
=============================================================================
