------------------------- MODULE VirtualMachinesProofs -------------------------
(***************************************************************************)
(* The types and the inductive invariant of VirtualMachines, for any number  *)
(* of machines, hosts and overlapping requests, and the property it gives.   *)
(***************************************************************************)
EXTENDS VirtualMachines, TLAPS

\* A request that may be at its label.
ReqOK(q) == q \in Request /\ q.kind \in KindsAt(q.pc)

\* A request on the machine and the host of r, at a label of its own.
Goes(r, q) ==
    /\ q.machine = req[r].machine /\ q.kind = req[r].kind
    /\ q.pc # "idle"

\* What the inductive invariant asks of a request the slot executes.
OnHost(q) ==
    q.kind \in {"start", "stop"} /\ q.pc # "find" =>
        q.host \in Hosts /\ host[q.host].present /\ host[q.host].machine = q.machine

IsToward(q) ==
    q.kind \in {"start", "stop"}
        /\ q.pc \in {"already", "mark", "poll", "finish", "file.remove", "answer"} =>
    machine[q.machine] \in
        IF q.kind = "start" THEN {"on", "starting"} ELSE {"off", "stopping"}

StatusFor(kind) == StatusOf(IF kind = "start" THEN "on" ELSE "off")

IsMarked(q) ==
    /\ q.kind \in {"start", "stop"}
    /\ \/ q.pc \in {"finish", "file.remove", "answer"}
       \/ q.pc = "poll" /\ CloudOf[q.machine] = "AWS"
    => host[q.host].status = StatusFor(q.kind)

-----------------------------------------------------------------------------
(***************************************************************************)
(* Types                                                                   *)
(***************************************************************************)
\* The request of an idle slot is well formed, and a machine can be named.
LEMMA IdleOK == ReqOK(Idle) /\ Idle.pc = "idle" /\ Idle.kind = "none"
<1>1. AnyMachine \in Machines /\ AnyOrg \in Orgs
  BY VirtualMachinesAssumption DEF AnyMachine, AnyOrg
<1>2. Idle \in Request
  BY <1>1 DEF Idle, Request, Labels, NoHost
<1> QED
  BY <1>2 DEF ReqOK, Idle, KindsAt

\* The hosts at first are ids.
LEMMA FirstHostsOK ==
    /\ Len(Registered) \in Nat
    /\ FirstHosts = 1 .. Len(Registered)
    /\ FirstHosts \subseteq Hosts
    /\ \A h \in FirstHosts : Registered[h] \in Machines
BY VirtualMachinesAssumption DEF FirstHosts, Hosts

\* A slot that takes up a well formed request leaves the requests well typed.
LEMMA BecomeType ==
    ASSUME TypeOK, NEW r \in Requests, NEW q, Become(r, q), ReqOK(q)
    PROVE  /\ req' \in [Requests -> Request]
           /\ \A x \in Requests : req'[x].kind \in KindsAt(req'[x].pc)
           /\ req'[r] = q
           /\ \A x \in Requests \ {r} : req'[x] = req[x]
BY DEF TypeOK, Become, ReqOK

\* The initial state is well typed.
LEMMA InitType == Init => TypeOK
<1> SUFFICES ASSUME Init PROVE TypeOK
  OBVIOUS
<1>1. AnyMachine \in Machines /\ AnyOrg \in Orgs
  BY VirtualMachinesAssumption DEF AnyMachine, AnyOrg
<1>2. machine \in [Machines -> MachineStates]
  BY VirtualMachinesAssumption DEF Init, MachineStates
<1>3. \A s : StatusOf(s) \in HostStatus
  BY DEF StatusOf, HostStatus
<1>4. host \in [Hosts -> HostRow]
  BY <1>1, <1>3, FirstHostsOK DEF Init, HostRow, HostStatus
<1>5. req \in [Requests -> Request]
      /\ \A r \in Requests : req[r].kind \in KindsAt(req[r].pc)
  BY IdleOK DEF Init, ReqOK
<1>6. nextHost \in Nat
  BY FirstHostsOK DEF Init
<1>7. temp = "none" /\ open = {} /\ alone = {} /\ issued \in 0 .. MaxRequests
  BY VirtualMachinesAssumption DEF Init
<1> QED
  BY <1>2, <1>4, <1>5, <1>6, <1>7 DEF TypeOK

\* A step of a slot that leaves the machines and the hosts alone.
LEMMA ReadsType ==
    ASSUME TypeOK, NEW r \in Requests, NEW q, Become(r, q), ReqOK(q),
           UNCHANGED <<machine, host, nextHost, issued>>,
           temp' \in Accounts \cup {"none", "unreadable"},
           open' \in SUBSET Requests, alone' \in SUBSET Requests
    PROVE  TypeOK'
BY BecomeType DEF TypeOK

\* The beginning of a request.
LEMMA BeginType ==
    ASSUME TypeOK, NEW r \in Requests, NEW m \in Machines, NEW o \in Orgs,
           NEW kind \in KindNames, NEW label \in Labels, kind \in KindsAt(label),
           Begin(r, kind, label, m, o)
    PROVE  TypeOK'
<1> DEFINE q == [Idle EXCEPT !.pc = label, !.kind = kind, !.machine = m, !.org = o]
<1>1. ReqOK(q)
  BY IdleOK DEF ReqOK, Request
<1>2. Become(r, q) /\ UNCHANGED <<machine, host, nextHost, temp, open>>
  BY DEF Begin, File
<1>3. alone' \in SUBSET Requests /\ issued' \in 0 .. MaxRequests
  BY VirtualMachinesAssumption DEF Begin, TypeOK
<1> HIDE DEF q
<1> QED
  BY <1>1, <1>2, <1>3, BecomeType DEF TypeOK

\* A request that goes on at another label.
LEMMA GotoOK ==
    ASSUME TypeOK, NEW r \in Requests, NEW label \in Labels,
           req[r].kind \in KindsAt(label)
    PROVE  ReqOK([req[r] EXCEPT !.pc = label])
BY DEF TypeOK, ReqOK, Request

\* The steps on the file.
LEMMA FileType ==
    ASSUME TypeOK, NEW r \in Requests, FileSteps(r)
    PROVE  TypeOK'
<1>1. req[r] \in Request /\ req[r].kind \in KindsAt(req[r].pc)
      /\ AccountOf[req[r].machine] \in Accounts
  BY VirtualMachinesAssumption DEF TypeOK, Request
<1>2. CASE FileCreate(r)
  <2>1. ReqOK([req[r] EXCEPT !.pc = "file.write"])
    BY <1>1, <1>2, GotoOK DEF FileCreate, At, KindsAt, Labels
  <2>2. \E q : Become(r, q) /\ ReqOK(q)
    BY <1>2, <2>1, IdleOK DEF FileCreate, Goto, End
  <2>3. UNCHANGED <<machine, host, nextHost, issued, alone>>
        /\ temp' \in {"unreadable", temp} /\ open' \in SUBSET Requests
    BY <1>2 DEF FileCreate, OnlyFile, Ghosts, File, TypeOK
  <2> QED
    BY <2>2, <2>3, ReadsType DEF TypeOK
<1>3. CASE FileWrite(r)
  <2>1. ReqOK([req[r] EXCEPT !.pc =
               IF req[r].kind = "create" THEN "file.project" ELSE "file.service"])
    BY <1>1, <1>3, GotoOK DEF FileWrite, At, KindsAt, Labels
  <2>2. \E q : Become(r, q) /\ ReqOK(q)
    BY <1>3, <2>1, IdleOK DEF FileWrite, Goto, End
  <2>3. UNCHANGED <<machine, host, nextHost, issued, alone>>
        /\ temp' \in {"unreadable", temp, AccountOf[req[r].machine]}
        /\ open' \in SUBSET Requests
    BY <1>3 DEF FileWrite, OnlyFile, Ghosts, TypeOK
  <2> QED
    BY <1>1, <2>2, <2>3, ReadsType DEF TypeOK
<1>4. CASE FileService(r)
  <2>1. temp \in Accounts =>
            ReqOK([req[r] EXCEPT !.pc = "file.project", !.account = temp])
    BY <1>1, <1>4 DEF FileService, At, KindsAt, Labels, ReqOK, Request
  <2>2. \E q : Become(r, q) /\ ReqOK(q)
    BY <1>4, <2>1, IdleOK DEF FileService, End
  <2> QED
    BY <1>4, <2>2, ReadsType DEF FileService, Reads, File, Ghosts, TypeOK
<1>5. CASE FileProject(r)
  <2>1. temp \in Accounts => ReqOK([req[r] EXCEPT !.pc = "check", !.project = temp])
    BY <1>1, <1>5 DEF FileProject, At, KindsAt, Labels, ReqOK, Request
  <2>2. \E q : Become(r, q) /\ ReqOK(q)
    BY <1>5, <2>1, IdleOK DEF FileProject, End
  <2> QED
    BY <1>5, <2>2, ReadsType DEF FileProject, Reads, File, Ghosts, TypeOK
<1>6. CASE FileRemove(r)
  <2>1. ReqOK([req[r] EXCEPT !.pc =
               IF req[r].kind = "create" THEN "create.insert" ELSE "answer"])
    BY <1>1, <1>6, GotoOK DEF FileRemove, At, KindsAt, Labels
  <2>2. \E q : Become(r, q) /\ ReqOK(q)
    BY <1>6, <2>1 DEF FileRemove, Goto
  <2> QED
    BY <1>6, <2>2, ReadsType DEF FileRemove, OnlyFile, Ghosts, TypeOK
<1> QED
  BY <1>2, <1>3, <1>4, <1>5, <1>6 DEF FileSteps

\* What is seen of a machine is one of its states, or nothing.
LEMMA SeenOK ==
    ASSUME TypeOK, NEW r \in Requests
    PROVE  Seen(r) \subseteq MachineStates \cup {""}
<1>1. machine[req[r].machine] \in MachineStates
  BY DEF TypeOK, Request
<1> QED
  BY <1>1 DEF Seen

\* A request that has seen a state goes on at another label.
LEMMA SeesOK ==
    ASSUME TypeOK, NEW r \in Requests, NEW label \in Labels,
           req[r].kind \in KindsAt(label), NEW state \in Seen(r)
    PROVE  ReqOK([req[r] EXCEPT !.pc = label, !.seen = state])
<1>1. state \in MachineStates \cup {""}
  BY SeenOK
<1> QED
  BY <1>1 DEF TypeOK, ReqOK, Request

\* The steps on the statuses that leave the tables alone.
LEMMA StatusType ==
    ASSUME TypeOK, NEW r \in Requests,
           Find(r) \/ CreateExists(r) \/ DeleteFind(r) \/ StatusFails(r) \/ Check(r)
             \/ Poll(r) \/ Finish(r) \/ Answer(r)
    PROVE  TypeOK'
<1>1. req[r] \in Request /\ req[r].kind \in KindsAt(req[r].pc)
  BY DEF TypeOK
<1>2. CASE Find(r)
  <2>1. \A h \in Hosts : ReqOK([req[r] EXCEPT !.host = h,
                !.pc = IF Cloud(r) = "GCP" THEN "file.create" ELSE "check"])
    BY <1>1, <1>2 DEF Find, At, KindsAt, Labels, ReqOK, Request
  <2> QED
    BY <1>2, <2>1, IdleOK, ReadsType DEF Find, End, Reads, File, Ghosts, TypeOK
<1>3. CASE CreateExists(r)
  <2>1. ReqOK([req[r] EXCEPT !.pc = IF Cloud(r) = "GCP" THEN "file.create" ELSE "check"])
    BY <1>1, <1>3, GotoOK DEF CreateExists, At, KindsAt, Labels
  <2> QED
    BY <1>3, <2>1, IdleOK, ReadsType
       DEF CreateExists, Goto, End, Reads, File, Ghosts, TypeOK
<1>4. CASE DeleteFind(r) \/ StatusFails(r) \/ Answer(r)
  BY <1>4, IdleOK, ReadsType
     DEF DeleteFind, StatusFails, Answer, End, Reads, File, Ghosts, TypeOK
<1>5. CASE Check(r)
  <2>1. \A state \in Seen(r) :
          ReqOK([req[r] EXCEPT !.pc = AfterCheck(r, state), !.seen = state])
    <3>1. req[r].kind \in {"start", "stop", "create"}
      BY <1>1, <1>5 DEF Check, At, KindsAt
    <3>2. \A state : /\ AfterCheck(r, state) \in Labels
                     /\ req[r].kind \in KindsAt(AfterCheck(r, state))
      BY <3>1 DEF AfterCheck, Labels, KindsAt
    <3> QED
      BY <3>2, SeesOK
  <2>2. PICK state \in Seen(r) :
          Become(r, [req[r] EXCEPT !.pc = AfterCheck(r, state), !.seen = state])
    BY <1>5 DEF Check
  <2> DEFINE q == [req[r] EXCEPT !.pc = AfterCheck(r, state), !.seen = state]
  <2>3. Become(r, q) /\ ReqOK(q)
    BY <2>1, <2>2
  <2> HIDE DEF q
  <2> QED
    BY <1>5, <2>3, ReadsType DEF Check, Reads, File, Ghosts, TypeOK
<1>6. CASE Poll(r)
  <2>1. \A state \in Seen(r) :
          ReqOK([req[r] EXCEPT !.pc = AfterPoll(r, state), !.seen = state])
    <3>1. req[r].kind \in {"start", "stop"}
      BY <1>1, <1>6 DEF Poll, PollReads, At, KindsAt
    <3>2. \A state : /\ AfterPoll(r, state) \in Labels
                     /\ req[r].kind \in KindsAt(AfterPoll(r, state))
      BY <3>1 DEF AfterPoll, Labels, KindsAt
    <3> QED
      BY <3>2, SeesOK
  <2>2. PICK state \in Seen(r) :
          Become(r, [req[r] EXCEPT !.pc = AfterPoll(r, state), !.seen = state])
    BY <1>6 DEF Poll, PollReads
  <2> DEFINE q == [req[r] EXCEPT !.pc = AfterPoll(r, state), !.seen = state]
  <2>3. Become(r, q) /\ ReqOK(q)
    BY <2>1, <2>2
  <2> HIDE DEF q
  <2> QED
    BY <1>6, <2>3, ReadsType DEF Poll, PollReads, Reads, File, Ghosts, TypeOK
<1>7. CASE Finish(r)
  <2>1. ReqOK([req[r] EXCEPT !.pc = IF Cloud(r) = "GCP" THEN "file.remove" ELSE "answer"])
    BY <1>1, <1>7, GotoOK DEF Finish, At, KindsAt, Labels
  <2> QED
    BY <1>7, <2>1, IdleOK, ReadsType DEF Finish, Goto, End, Reads, File, Ghosts, TypeOK
<1> QED
  BY <1>2, <1>3, <1>4, <1>5, <1>6, <1>7

\* The rows of the table host stay rows when the status of one is written.
LEMMA MarkType ==
    ASSUME TypeOK, NEW r \in Requests, Mark(r)
    PROVE  host' \in [Hosts -> HostRow]
BY DEF TypeOK, Mark, WantedStatus, StatusOf, HostRow, HostStatus

\* The steps that write a status, give the command, or insert a host.
LEMMA WriteType ==
    ASSUME TypeOK, NEW r \in Requests,
           Already(r) \/ Command(r) \/ MarkHost(r) \/ CreateInsert(r)
    PROVE  TypeOK'
<1>1. req[r] \in Request /\ req[r].kind \in KindsAt(req[r].pc)
  BY DEF TypeOK
<1>2. CASE Already(r)
  <2>1. ReqOK([req[r] EXCEPT !.pc = "answer"])
    BY <1>1, <1>2, GotoOK DEF Already, At, KindsAt, Labels
  <2>2. host' \in [Hosts -> HostRow]
    BY <1>2, MarkType DEF Already, MarkFails, TypeOK
  <2> DEFINE q == [req[r] EXCEPT !.pc = "answer"]
  <2>3. ReqOK(q) /\ Become(r, q)
    BY <1>2, <2>1 DEF Already, Goto
  <2> HIDE DEF q
  <2> QED
    BY <1>2, <2>2, <2>3, BecomeType DEF Already, MarkFails, File, TypeOK
<1>3. CASE Command(r)
  <2>1. \A label \in {"mark", "poll"} : ReqOK([req[r] EXCEPT !.pc = label])
    BY <1>1, <1>3, GotoOK DEF Command, At, KindsAt, Labels
  <2>2. \E q : Become(r, q) /\ ReqOK(q)
    BY <1>3, <2>1, IdleOK DEF Command, Goto, End
  <2>3. machine' \in [Machines -> MachineStates]
    BY <1>1, <1>3 DEF Command, Obeys, TypeOK, MachineStates
  <2> QED
    BY <1>3, <2>2, <2>3, BecomeType DEF Command, File, Ghosts, TypeOK
<1>4. CASE MarkHost(r)
  <2>1. ReqOK([req[r] EXCEPT !.pc = AfterMark(r)])
    <3>1. Cloud(r) \in Clouds
      BY <1>1, VirtualMachinesAssumption DEF Cloud, Request
    <3>2. AfterMark(r) \in {"finish", "poll"}
      BY <3>1 DEF AfterMark, Clouds
    <3> QED
      BY <1>1, <1>4, <3>2, GotoOK DEF MarkHost, At, KindsAt, Labels
  <2>2. \E q : Become(r, q) /\ ReqOK(q)
    BY <1>4, <2>1, IdleOK DEF MarkHost, Goto, End
  <2>3. host' \in [Hosts -> HostRow]
    BY <1>4, MarkType DEF MarkHost, MarkFails, TypeOK
  <2>4. alone' \in SUBSET Requests
    BY <1>4 DEF MarkHost, MarkFails, TypeOK
  <2> QED
    BY <1>4, <2>2, <2>3, <2>4, BecomeType DEF MarkHost, File, TypeOK
<1>5. CASE CreateInsert(r)
  <2>1. StatusSeen(r) \in HostStatus
    BY DEF StatusSeen, HostStatus
  <2> DEFINE row == [present |-> TRUE, machine |-> req[r].machine, org |-> req[r].org,
                     status |-> StatusSeen(r)]
  <2>2. row \in HostRow
    BY <1>1, <2>1 DEF HostRow, Request
  <2>4. \/ host' = [host EXCEPT ![nextHost] = row] /\ nextHost' = nextHost + 1
        \/ UNCHANGED <<host, nextHost>>
    BY <1>5 DEF CreateInsert
  <2> HIDE DEF row
  <2>3. host' \in [Hosts -> HostRow] /\ nextHost' \in Nat
    BY <2>2, <2>4 DEF TypeOK
  <2> QED
    BY <1>5, <2>3, IdleOK, BecomeType DEF CreateInsert, End, OnlyHost, File, Ghosts, TypeOK
<1> QED
  BY <1>2, <1>3, <1>4, <1>5

\* Every step leaves the state well typed.
LEMMA NextType == TypeOK /\ [Next]_vars => TypeOK'
<1> SUFFICES ASSUME TypeOK, [Next]_vars PROVE TypeOK'
  OBVIOUS
<1>1. CASE UNCHANGED vars
  BY <1>1 DEF vars, TypeOK
<1>2. ASSUME NEW r \in Requests, Mutation(r) PROVE TypeOK'
  <2>1. CASE NodeAction(r)
    <3>1. AnyOrg \in Orgs
      BY VirtualMachinesAssumption DEF AnyOrg
    <3> QED
      BY <2>1, <3>1, BeginType DEF NodeAction, KindNames, Labels, KindsAt
  <2>2. CASE CreateHost(r)
    BY <2>2, BeginType DEF CreateHost, KindNames, Labels, KindsAt
  <2>3. CASE DeleteHost(r)
    <3>1. PICK h \in Hosts :
            Begin(r, "delete", "delete.find", host[h].machine, host[h].org)
      BY <2>3 DEF DeleteHost
    <3>2. host[h].machine \in Machines /\ host[h].org \in Orgs
      BY DEF TypeOK, HostRow
    <3> QED
      BY <3>1, <3>2, BeginType DEF KindNames, Labels, KindsAt
  <2> QED
    BY <1>2, <2>1, <2>2, <2>3 DEF Mutation
<1>3. ASSUME NEW r \in Requests, Step(r) PROVE TypeOK'
  BY <1>3, FileType, StatusType, WriteType DEF Step
<1>4. ASSUME NEW m \in Machines, Settle(m) PROVE TypeOK'
  <2>1. machine' \in [Machines -> MachineStates]
    BY <1>4 DEF Settle, TypeOK, MachineStates
  <2> QED
    BY <1>4, <2>1 DEF Settle, File, Ghosts, TypeOK
<1>5. CASE Crash
  BY <1>5, IdleOK DEF Crash, Ghosts, TypeOK, ReqOK
<1>6. CASE Done
  BY <1>6 DEF Done, vars, TypeOK
<1> QED
  BY <1>1, <1>2, <1>3, <1>4, <1>5, <1>6 DEF Next

\* The tables, the file and the requests of the virtual machines stay well typed, and
\* a request is only ever at a label of its mutation.
THEOREM TypeCorrect == Spec => []TypeOK
BY InitType, NextType, PTL DEF Spec

-----------------------------------------------------------------------------
(***************************************************************************)
(* The inductive invariant                                                 *)
(***************************************************************************)
\* The invariant, of the requests that are executed.
Parts ==
    /\ HostsAreInOrder
    /\ \A r \in Requests : OnHost(req[r])
    /\ \A r \in alone : Undisturbed(r)
    /\ \A r \in alone : IsToward(req[r])
    /\ \A r \in alone : IsMarked(req[r])

\* It is the invariant of the slots.
LEMMA InvParts == VirtualMachinesInv <=> Parts
<1>1. \A r : ActsOnItsHost(r) <=> OnHost(req[r])
  BY DEF ActsOnItsHost, OnHost, Acts
<1>2. \A r : Toward(r) <=> IsToward(req[r])
  BY DEF Toward, IsToward, Acts
<1>3. \A r : Marked(r) <=> IsMarked(req[r])
  BY DEF Marked, IsMarked, Acts, Cloud, WantedStatus, Wanted, StatusFor
<1> QED
  BY <1>1, <1>2, <1>3 DEF VirtualMachinesInv, Parts

\* Nothing is asked of an idle slot.
LEMMA IdleInv == OnHost(Idle) /\ IsToward(Idle) /\ IsMarked(Idle)
BY DEF Idle, OnHost, IsToward, IsMarked

\* Initially no slot executes a request.
LEMMA InitInv == Init => VirtualMachinesInv
<1> SUFFICES ASSUME Init PROVE VirtualMachinesInv
  OBVIOUS
<1>1. HostsAreInOrder
  BY FirstHostsOK DEF Init, HostsAreInOrder, Hosts
<1>2. alone = {} /\ \A r \in Requests : req[r] = Idle
  BY DEF Init
<1> QED
  BY <1>1, <1>2, IdleInv, InvParts DEF Parts

\* A step of a slot on its own request, or to its end, disturbs nobody.
LEMMA StillUndisturbed ==
    ASSUME TypeOK, VirtualMachinesInv, NEW r \in Requests, NEW q, Become(r, q), ReqOK(q),
           ~At(r, "idle"), q = Idle \/ Goes(r, q), alone' \subseteq alone
    PROVE  \A x \in alone' : Undisturbed(x)'
<1> SUFFICES ASSUME NEW x \in alone', NEW y \in Requests \ {x},
                    req'[x].pc # "idle", req'[y].pc # "idle"
             PROVE  ~Clash(req'[x].machine, req'[y].machine)
  BY DEF Undisturbed, At, Clash
<1>1. x \in Requests /\ y \in Requests
  BY DEF TypeOK
<1>2. \A z \in Requests : req'[z].pc # "idle" =>
        req[z].pc # "idle" /\ req'[z].machine = req[z].machine
  BY BecomeType, IdleOK DEF Goes, At
<1> QED
  BY <1>1, <1>2 DEF VirtualMachinesInv, Undisturbed, At

\* A step that leaves the machines and the hosts alone keeps the invariant, when what
\* it asks of the request itself still holds.
LEMMA ReadsInv ==
    ASSUME TypeOK, VirtualMachinesInv, NEW r \in Requests, NEW q, Become(r, q), ReqOK(q),
           ~At(r, "idle"), q = Idle \/ Goes(r, q), alone' \subseteq alone,
           UNCHANGED <<machine, host, nextHost>>,
           OnHost(q), r \in alone => IsToward(q) /\ IsMarked(q)
    PROVE  VirtualMachinesInv'
<1>1. \A x \in alone' : Undisturbed(x)'
  BY StillUndisturbed
<1>2. HostsAreInOrder'
  BY InvParts DEF HostsAreInOrder, Parts
<1>3. req'[r] = q /\ \A x \in Requests \ {r} : req'[x] = req[x]
  BY BecomeType
<1>4. \A x \in Requests : OnHost(req[x])' <=> OnHost(req'[x])
  BY DEF OnHost
<1>5. \A x \in Requests : IsToward(req[x])' <=> IsToward(req'[x])
  BY DEF IsToward
<1>6. \A x \in Requests : IsMarked(req[x])' <=> IsMarked(req'[x])
  BY DEF IsMarked
<1>7. \A x \in Requests : OnHost(req[x])'
  BY <1>3, <1>4, InvParts DEF Parts
<1>8. \A x \in alone' : IsToward(req[x])' /\ IsMarked(req[x])'
  <2> TAKE x \in alone'
  <2>1. x \in Requests /\ x \in alone
    BY DEF TypeOK
  <2> QED
    BY <1>3, <1>5, <1>6, <2>1, InvParts DEF Parts
<1>9. Parts'
  BY <1>1, <1>2, <1>7, <1>8 DEF Parts
<1> QED
  BY <1>9, InvParts, PTL

\* The request a typed slot takes up is well formed.
LEMMA BecomeOK ==
    ASSUME TypeOK, TypeOK', NEW r \in Requests, NEW q, Become(r, q)
    PROVE  ReqOK(q)
<1>1. req'[r] = q
  BY DEF TypeOK, Become
<1> QED
  BY <1>1 DEF TypeOK, ReqOK

\* The labels from which a request that acts has its machine on the way.
OnTheWay == {"already", "mark", "poll", "finish", "file.remove", "answer"}
AtTheEnd == {"finish", "file.remove", "answer"}

\* A step that leaves the machines and the hosts alone, of a slot that keeps its host.
LEMMA GoesInv ==
    ASSUME TypeOK, TypeOK', VirtualMachinesInv, NEW r \in Requests, NEW q, Become(r, q),
           ~At(r, "idle"), ~At(r, "find"), alone' \subseteq alone,
           UNCHANGED <<machine, host, nextHost>>,
           q = Idle \/ (/\ Goes(r, q) /\ q.host = req[r].host
                        /\ q.pc \in OnTheWay =>
                              req[r].pc \in OnTheWay \/ req[r].kind = "create"
                        /\ q.pc \in AtTheEnd =>
                              req[r].pc \in AtTheEnd \/ req[r].kind = "create"
                        /\ q.pc = "poll" /\ CloudOf[req[r].machine] = "AWS" =>
                              req[r].pc = "poll")
    PROVE  VirtualMachinesInv'
<1>1. ReqOK(q)
  BY BecomeOK
<1>2. OnHost(req[r]) /\ (r \in alone => IsToward(req[r]) /\ IsMarked(req[r]))
  BY InvParts DEF Parts
<1>3. CASE q = Idle
  BY <1>1, <1>3, IdleInv, ReadsInv
<1>4. CASE q # Idle
  <2>1. OnHost(q)
    BY <1>2, <1>4 DEF OnHost, Goes, At
  <2>2. IsToward(req[r]) => IsToward(q)
    BY <1>4 DEF IsToward, Goes, OnTheWay
  <2>3. IsMarked(req[r]) => IsMarked(q)
    BY <1>4 DEF IsMarked, Goes, AtTheEnd
  <2> QED
    BY <1>1, <1>2, <1>4, <2>1, <2>2, <2>3, ReadsInv
<1> QED
  BY <1>3, <1>4

\* The steps on the file.
LEMMA FileInv ==
    ASSUME TypeOK, TypeOK', VirtualMachinesInv, NEW r \in Requests, FileSteps(r)
    PROVE  VirtualMachinesInv'
<1>1. req[r] \in Request /\ UNCHANGED <<machine, host, nextHost>> /\ alone' \subseteq alone
  BY DEF TypeOK, FileSteps, FileCreate, FileWrite, FileService, FileProject, FileRemove,
         OnlyFile, Reads, Ghosts
<1>2. \A label \in Labels \ {"idle"} : Goes(r, [req[r] EXCEPT !.pc = label])
  BY <1>1 DEF Goes, Request
<1>3. CASE FileCreate(r)
  BY <1>1, <1>2, <1>3, GoesInv
     DEF FileCreate, At, Goto, End, OnTheWay, AtTheEnd, Labels, Request
<1>4. CASE FileWrite(r)
  BY <1>1, <1>2, <1>4, GoesInv
     DEF FileWrite, At, Goto, End, OnTheWay, AtTheEnd, Labels, Request
<1>5. CASE FileService(r)
  <2>1. \A a : LET q == [req[r] EXCEPT !.pc = "file.project", !.account = a]
               IN Goes(r, q) /\ q.host = req[r].host /\ q.pc = "file.project"
    BY <1>1 DEF Goes, Request
  <2> QED
    BY <1>1, <1>5, <2>1, GoesInv DEF FileService, At, End, OnTheWay, AtTheEnd
<1>6. CASE FileProject(r)
  <2>1. \A a : LET q == [req[r] EXCEPT !.pc = "check", !.project = a]
               IN Goes(r, q) /\ q.host = req[r].host /\ q.pc = "check"
    BY <1>1 DEF Goes, Request
  <2> QED
    BY <1>1, <1>6, <2>1, GoesInv DEF FileProject, At, End, OnTheWay, AtTheEnd
<1>7. CASE FileRemove(r)
  BY <1>1, <1>2, <1>7, GoesInv
     DEF FileRemove, At, Goto, OnTheWay, AtTheEnd, Labels, Request
<1> QED
  BY <1>3, <1>4, <1>5, <1>6, <1>7 DEF FileSteps

\* A request that finds its machine as it wants it finds it on the way.
LEMMA SeenToward ==
    ASSUME TypeOK, NEW r \in Requests, NEW state \in Seen(r), AlreadySo(r, state),
           req[r].kind \in {"start", "stop"}
    PROVE  machine[req[r].machine] \in
             IF req[r].kind = "start" THEN {"on", "starting"} ELSE {"off", "stopping"}
<1>1. state # ""
  BY DEF AlreadySo, Wanted
<1>2. state = machine[req[r].machine]
  BY <1>1 DEF Seen
<1> QED
  BY <1>2 DEF AlreadySo, Wanted

\* The steps on the statuses that leave the tables alone.
LEMMA StatusInv ==
    ASSUME TypeOK, TypeOK', VirtualMachinesInv, NEW r \in Requests,
           Find(r) \/ CreateExists(r) \/ DeleteFind(r) \/ StatusFails(r) \/ Check(r)
             \/ Poll(r) \/ Finish(r) \/ Answer(r)
    PROVE  VirtualMachinesInv'
<1>1. /\ req[r] \in Request /\ req[r].kind \in KindsAt(req[r].pc)
      /\ UNCHANGED <<machine, host, nextHost>> /\ alone' \subseteq alone
  BY DEF TypeOK, Find, CreateExists, DeleteFind, StatusFails, Check, Poll, PollReads,
         Finish, Answer, Reads, Ghosts
<1>2. \A label \in Labels \ {"idle"} : Goes(r, [req[r] EXCEPT !.pc = label])
  BY <1>1 DEF Goes, Request
<1>3. CASE Find(r)
  <2>1. CASE Become(r, Idle)
    BY <1>1, <1>3, <2>1, BecomeOK, IdleInv, ReadsInv DEF Find, At
  <2>2. CASE ~Become(r, Idle)
    <3> DEFINE label == IF Cloud(r) = "GCP" THEN "file.create" ELSE "check"
    <3>1. PICK h \in Hosts :
            /\ host[h].present /\ host[h].machine = req[r].machine
            /\ Become(r, [req[r] EXCEPT !.host = h, !.pc = label])
      BY <1>3, <2>2 DEF Find, End
    <3> DEFINE q == [req[r] EXCEPT !.host = h, !.pc = label]
    <3>2. /\ Become(r, q) /\ Goes(r, q) /\ q.host = h
          /\ q.pc \in {"file.create", "check"}
      BY <1>1, <3>1 DEF Goes, Request
    <3> HIDE DEF q
    <3>3. OnHost(q) /\ IsToward(q) /\ IsMarked(q)
      BY <3>1, <3>2 DEF OnHost, IsToward, IsMarked, Goes
    <3>4. ReqOK(q)
      BY <3>2, BecomeOK
    <3> QED
      BY <1>1, <1>3, <3>2, <3>3, <3>4, ReadsInv DEF Find, At
  <2> QED
    BY <2>1, <2>2
<1>4. CASE CreateExists(r)
  BY <1>1, <1>2, <1>4, GoesInv
     DEF CreateExists, At, Goto, End, OnTheWay, AtTheEnd, Labels, Request
<1>5. CASE DeleteFind(r) \/ StatusFails(r) \/ Answer(r)
  BY <1>1, <1>5, GoesInv DEF DeleteFind, StatusFails, Answer, At, End
<1>6. CASE Check(r)
  <2>1. PICK state \in Seen(r) :
          Become(r, [req[r] EXCEPT !.pc = AfterCheck(r, state), !.seen = state])
    BY <1>6 DEF Check
  <2> DEFINE q == [req[r] EXCEPT !.pc = AfterCheck(r, state), !.seen = state]
  <2>2. AfterCheck(r, state) \in Labels \ {"idle", "find"}
    BY DEF AfterCheck, Labels
  <2>3. Become(r, q) /\ Goes(r, q) /\ q.host = req[r].host /\ q.pc = AfterCheck(r, state)
    BY <1>1, <2>1, <2>2 DEF Goes, Request
  <2> HIDE DEF q
  <2>4. OnHost(q)
    <3>1. OnHost(req[r])
      BY InvParts DEF Parts
    <3> QED
      BY <1>6, <2>3, <3>1 DEF OnHost, Goes, Check, At
  <2>5. IsToward(q)
    <3>1. q.kind \in {"start", "stop"} /\ q.pc \in OnTheWay => AlreadySo(r, state)
      BY <2>3 DEF AfterCheck, Goes, OnTheWay
    <3> QED
      BY <2>3, <3>1, SeenToward DEF IsToward, Goes, OnTheWay
  <2>6. IsMarked(q)
    BY <2>3 DEF IsMarked, Goes, AfterCheck
  <2>7. ReqOK(q)
    BY <2>3, BecomeOK
  <2>8. ~At(r, "idle")
    BY <1>6 DEF Check, At
  <2> QED
    BY <1>1, <2>3, <2>4, <2>5, <2>6, <2>7, <2>8, ReadsInv
<1>7. CASE Poll(r)
  <2>1. PICK state \in Seen(r) :
          Become(r, [req[r] EXCEPT !.pc = AfterPoll(r, state), !.seen = state])
    BY <1>7 DEF Poll, PollReads
  <2> DEFINE q == [req[r] EXCEPT !.pc = AfterPoll(r, state), !.seen = state]
  <2>2. AfterPoll(r, state) \in {"mark", "poll", "finish"}
        /\ (AfterPoll(r, state) = "finish" => CloudOf[req[r].machine] = "AWS")
    BY DEF AfterPoll, Cloud
  <2>3. Become(r, q) /\ Goes(r, q) /\ q.host = req[r].host /\ q.pc = AfterPoll(r, state)
    BY <1>1, <2>1, <2>2 DEF Goes, Request
  <2> HIDE DEF q
  <2>4. OnHost(req[r]) /\ (r \in alone => IsToward(req[r]) /\ IsMarked(req[r]))
        /\ req[r].pc = "poll"
    BY <1>7, InvParts DEF Parts, Poll, PollReads, At
  <2>5. OnHost(q) /\ (IsToward(req[r]) => IsToward(q))
    BY <2>2, <2>3, <2>4 DEF OnHost, IsToward, Goes
  <2>6. IsMarked(req[r]) => IsMarked(q)
    BY <2>2, <2>3, <2>4 DEF IsMarked, Goes
  <2>7. ReqOK(q)
    BY <2>3, BecomeOK
  <2>8. ~At(r, "idle") /\ OnHost(q) /\ (r \in alone => IsToward(q) /\ IsMarked(q))
    BY <2>4, <2>5, <2>6 DEF At
  <2> QED
    BY <1>1, <2>3, <2>7, <2>8, ReadsInv
<1>8. CASE Finish(r)
  BY <1>1, <1>2, <1>8, GoesInv
     DEF Finish, At, Goto, End, OnTheWay, AtTheEnd, Labels, Request
<1> QED
  BY <1>3, <1>4, <1>5, <1>6, <1>7, <1>8

\* Two slots of which one is undisturbed work on different machines and hosts.
LEMMA Apart ==
    ASSUME TypeOK, VirtualMachinesInv, NEW x \in alone, NEW r \in Requests, x # r,
           ~At(x, "idle"), ~At(r, "idle")
    PROVE  /\ req[x].machine # req[r].machine
           /\ OnHost(req[x]) /\ OnHost(req[r])
<1>1. x \in Requests
  BY DEF TypeOK
<1> QED
  BY <1>1, InvParts DEF Parts, Undisturbed, Clash

\* A slot writes the status its action ends in: no other host changes, and every row
\* keeps its machine.
LEMMA WritesInv ==
    ASSUME TypeOK, TypeOK', VirtualMachinesInv, NEW r \in Requests, NEW q, Become(r, q),
           At(r, "already") \/ At(r, "mark"), q = Idle \/ Goes(r, q),
           q # Idle => q.host = req[r].host /\ q.pc \in OnTheWay,
           Mark(r), alone' \subseteq alone, UNCHANGED <<machine, nextHost>>
    PROVE  VirtualMachinesInv'
<1> DEFINE h == req[r].host
<1>1. /\ req[r] \in Request /\ req[r].kind \in {"start", "stop"}
      /\ ReqOK(q) /\ ~At(r, "idle")
  BY BecomeOK DEF TypeOK, At, KindsAt
<1>2. h \in Hosts /\ host[h].present /\ host[h].machine = req[r].machine
  BY <1>1, InvParts DEF Parts, OnHost, At
<1>3. /\ \A x \in Hosts : /\ host'[x].present = host[x].present
                          /\ host'[x].machine = host[x].machine
      /\ \A x \in Hosts \ {h} : host'[x] = host[x]
      /\ host'[h].status = StatusFor(req[r].kind)
  BY <1>2 DEF Mark, TypeOK, HostRow, WantedStatus, Wanted, StatusFor
<1>4. req'[r] = q /\ \A x \in Requests \ {r} : req'[x] = req[x]
  BY <1>1, BecomeType
<1> HIDE DEF h
<1>5. HostsAreInOrder'
  BY <1>3, InvParts DEF Parts, HostsAreInOrder, Hosts
<1>6. \A x \in alone' : Undisturbed(x)'
  BY <1>1, StillUndisturbed
<1>7. \A x \in Requests : OnHost(req[x])'
  <2>1. \A x \in Requests : OnHost(req[x])
    BY InvParts DEF Parts
  <2>2. \A x \in Requests \ {r} : OnHost(req[x])'
    BY <1>3, <1>4, <2>1 DEF OnHost, Hosts
  <2>3. OnHost(req[r])'
    <3>1. CASE q = Idle
      BY <1>4, <3>1, IdleOK DEF OnHost
    <3>2. CASE q # Idle
      BY <1>2, <1>3, <1>4, <3>2 DEF OnHost, Goes, h
    <3> QED
      BY <3>1, <3>2
  <2> QED
    BY <2>2, <2>3
<1>8. ASSUME NEW x \in alone' PROVE IsToward(req[x])' /\ IsMarked(req[x])'
  <2>1. x \in alone /\ x \in Requests /\ IsToward(req[x]) /\ IsMarked(req[x])
    BY InvParts DEF Parts, TypeOK
  <2>2. CASE x = r
    <3>1. CASE q = Idle
      BY <1>4, <2>2, <3>1, IdleOK DEF IsToward, IsMarked
    <3>2. CASE q # Idle
      <4>1. IsToward(req[r])'
        BY <1>1, <1>4, <2>1, <2>2, <3>2 DEF IsToward, Goes, At
      <4>2. IsMarked(req[r])'
        BY <1>3, <1>4, <3>2 DEF IsMarked, Goes, h
      <4> QED
        BY <2>2, <4>1, <4>2
    <3> QED
      BY <3>1, <3>2
  <2>3. CASE x # r /\ At(x, "idle")
    BY <1>4, <2>1, <2>3 DEF IsToward, IsMarked, At
  <2>4. CASE x # r /\ ~At(x, "idle")
    <3>1. req'[x] = req[x] /\ req[x].machine # req[r].machine /\ OnHost(req[x])
      BY <1>1, <1>4, <2>1, <2>4, Apart
    <3>2. IsToward(req[x])'
      BY <2>1, <3>1 DEF IsToward
    <3>3. IsMarked(req[x])'
      <4>1. CASE req[x].kind \in {"start", "stop"} /\ req[x].pc # "find"
        <5>1. req[x].host \in Hosts \ {h}
          BY <1>2, <3>1, <4>1 DEF OnHost
        <5> QED
          BY <1>3, <2>1, <3>1, <5>1 DEF IsMarked
      <4>2. CASE ~(req[x].kind \in {"start", "stop"} /\ req[x].pc # "find")
        BY <3>1, <4>2 DEF IsMarked
      <4> QED
        BY <4>1, <4>2
    <3> QED
      BY <3>2, <3>3
  <2> QED
    BY <2>2, <2>3, <2>4
<1>9. Parts'
  BY <1>5, <1>6, <1>7, <1>8 DEF Parts
<1> QED
  BY <1>9, InvParts, PTL

\* The steps that write a status.
LEMMA MarksInv ==
    ASSUME TypeOK, TypeOK', VirtualMachinesInv, NEW r \in Requests,
           Already(r) \/ MarkHost(r)
    PROVE  VirtualMachinesInv'
<1>1. /\ req[r] \in Request /\ req[r].pc \in {"already", "mark"} /\ alone' \subseteq alone
      /\ UNCHANGED <<machine, nextHost>>
      /\ Mark(r) \/ (UNCHANGED host /\ alone' = alone \ {r})
  BY DEF TypeOK, Already, MarkHost, MarkFails, At
<1>2. PICK q : /\ Become(r, q)
               /\ q = Idle \/ (/\ Goes(r, q) /\ q.host = req[r].host
                              /\ q.pc \in {"answer", "finish", "poll"})
  <2>1. \A label \in {"answer", "finish", "poll"} :
            LET q == [req[r] EXCEPT !.pc = label]
            IN Goes(r, q) /\ q.host = req[r].host /\ q.pc = label
    BY <1>1 DEF Goes, Request
  <2>2. CASE Already(r)
    BY <2>1, <2>2 DEF Already, Goto
  <2>3. CASE MarkHost(r)
    <3>1. AfterMark(r) \in {"finish", "poll"}
      <4>1. Cloud(r) \in Clouds
        BY <1>1, VirtualMachinesAssumption DEF Cloud, Request
      <4> QED
        BY <4>1 DEF AfterMark, Clouds
    <3>2. Become(r, Idle) \/ Become(r, [req[r] EXCEPT !.pc = AfterMark(r)])
      BY <2>3 DEF MarkHost, Goto, End
    <3> QED
      BY <2>1, <3>1, <3>2
  <2> QED
    BY <2>2, <2>3
<1>3. ReqOK(q) /\ ~At(r, "idle")
  BY <1>1, <1>2, BecomeOK DEF At
<1>4. CASE Mark(r)
  BY <1>1, <1>2, <1>4, WritesInv DEF At, OnTheWay
<1>5. CASE UNCHANGED host /\ alone' = alone \ {r}
  <2>1. OnHost(req[r]) => OnHost(q)
    BY <1>1, <1>2, IdleInv DEF OnHost, Goes
  <2>2. OnHost(q)
    BY <2>1, InvParts DEF Parts
  <2>3. Parts'
    <3>1. HostsAreInOrder' /\ \A x \in alone' : Undisturbed(x)'
      BY <1>1, <1>2, <1>3, <1>5, StillUndisturbed, InvParts DEF Parts, HostsAreInOrder
    <3>2. req'[r] = q /\ \A x \in Requests \ {r} : req'[x] = req[x]
      BY <1>2, <1>3, BecomeType
    <3>3. \A x \in Requests : OnHost(req[x])'
      BY <1>5, <2>2, <3>2, InvParts DEF Parts, OnHost
    <3>4. ASSUME NEW x \in alone' PROVE IsToward(req[x])' /\ IsMarked(req[x])'
      <4>1. x \in Requests \ {r} /\ IsToward(req[x]) /\ IsMarked(req[x])
        BY <1>5, InvParts DEF Parts, TypeOK
      <4> QED
        BY <1>1, <1>5, <3>2, <4>1 DEF IsToward, IsMarked
    <3> QED
      BY <3>1, <3>3, <3>4 DEF Parts
  <2> QED
    BY <2>3, InvParts, PTL
<1> QED
  BY <1>1, <1>4, <1>5

\* The call to the cloud.
LEMMA CommandInv ==
    ASSUME TypeOK, TypeOK', VirtualMachinesInv, NEW r \in Requests, Command(r)
    PROVE  VirtualMachinesInv'
<1>1. /\ req[r] \in Request /\ req[r].kind \in {"start", "stop"}
      /\ req[r].pc = "command" /\ ~At(r, "idle")
      /\ UNCHANGED <<host, nextHost, alone>>
  BY DEF TypeOK, Command, At, KindsAt, Ghosts
<1>2. CASE End(r) /\ UNCHANGED machine
  BY <1>1, <1>2, GoesInv DEF End, At
<1>3. CASE ~(End(r) /\ UNCHANGED machine)
  <2> DEFINE label == IF Cloud(r) = "AWS" THEN "mark" ELSE "poll"
             q == [req[r] EXCEPT !.pc = label]
  <2>1. Accepts(r) /\ Obeys(r) /\ Become(r, q)
    BY <1>3 DEF Command, Goto
  <2>2. /\ Goes(r, q) /\ q.host = req[r].host /\ q.pc \in {"mark", "poll"}
        /\ q.pc = "poll" => CloudOf[req[r].machine] # "AWS"
    BY <1>1 DEF Goes, Request, Cloud
  <2> HIDE DEF q
  <2>3. ReqOK(q)
    BY <2>1, BecomeOK
  <2>4. /\ \A m \in Machines \ {req[r].machine} : machine'[m] = machine[m]
        /\ machine'[req[r].machine] \in
             IF req[r].kind = "start" THEN {"on", "starting"} ELSE {"off", "stopping"}
    <3>1. machine[req[r].machine] \in MachineStates /\ req[r].machine \in Machines
      BY <1>1 DEF TypeOK, Request
    <3> QED
      BY <1>1, <2>1, <3>1 DEF Accepts, Obeys, TypeOK, MachineStates
  <2>5. req'[r] = q /\ \A x \in Requests \ {r} : req'[x] = req[x]
    BY <2>1, <2>3, BecomeType
  <2>6. HostsAreInOrder' /\ \A x \in alone' : Undisturbed(x)'
    BY <1>1, <2>1, <2>2, <2>3, StillUndisturbed, InvParts DEF Parts, HostsAreInOrder
  <2>7. OnHost(q)
    <3>1. OnHost(req[r])
      BY InvParts DEF Parts
    <3> QED
      BY <1>1, <2>2, <3>1 DEF OnHost, Goes
  <2>8. \A x \in Requests : OnHost(req[x])'
    BY <1>1, <2>5, <2>7, InvParts DEF Parts, OnHost
  <2>9. ASSUME NEW x \in alone' PROVE IsToward(req[x])' /\ IsMarked(req[x])'
    <3>1. x \in alone /\ x \in Requests /\ IsToward(req[x]) /\ IsMarked(req[x])
      BY <1>1, InvParts DEF Parts, TypeOK
    <3>2. CASE x = r
      BY <2>2, <2>4, <2>5, <3>2 DEF IsToward, IsMarked, Goes
    <3>3. CASE x # r /\ At(x, "idle")
      BY <2>5, <3>1, <3>3 DEF IsToward, IsMarked, At
    <3>4. CASE x # r /\ ~At(x, "idle")
      <4>1. req'[x] = req[x] /\ req[x].machine # req[r].machine
        BY <1>1, <2>5, <3>1, <3>4, Apart
      <4>2. req[x].machine \in Machines
        BY <3>1 DEF TypeOK, Request
      <4>3. machine'[req[x].machine] = machine[req[x].machine]
        BY <2>4, <4>1, <4>2
      <4>4. IsToward(req[x])'
        BY <3>1, <4>1, <4>3 DEF IsToward
      <4>5. IsMarked(req[x])'
        BY <1>1, <3>1, <4>1 DEF IsMarked
      <4> QED
        BY <4>4, <4>5
    <3> QED
      BY <3>2, <3>3, <3>4
  <2>10. Parts'
    BY <2>6, <2>8, <2>9 DEF Parts
  <2> QED
    BY <2>10, InvParts, PTL
<1> QED
  BY <1>2, <1>3

\* A new host takes the id nobody has.
LEMMA InsertInv ==
    ASSUME TypeOK, TypeOK', VirtualMachinesInv, NEW r \in Requests, CreateInsert(r)
    PROVE  VirtualMachinesInv'
<1>1. Become(r, Idle) /\ ~At(r, "idle") /\ UNCHANGED <<machine, alone>> /\ nextHost \in Hosts
  BY DEF CreateInsert, End, At, OnlyHost, Ghosts
<1>2. CASE UNCHANGED <<host, nextHost>>
  BY <1>1, <1>2, GoesInv DEF At, CreateInsert
<1>3. CASE ~UNCHANGED <<host, nextHost>>
  <2> DEFINE row == [present |-> TRUE, machine |-> req[r].machine, org |-> req[r].org,
                     status |-> StatusSeen(r)]
  <2>1. host' = [host EXCEPT ![nextHost] = row] /\ nextHost' = nextHost + 1
    BY <1>3 DEF CreateInsert
  <2> HIDE DEF row
  <2>2. HostsAreInOrder
    BY InvParts DEF Parts
  <2>3. HostsAreInOrder' /\ \A h \in Hosts : host[h].present => host'[h] = host[h]
    BY <1>1, <2>1, <2>2 DEF HostsAreInOrder, Hosts, TypeOK
  <2>4. \A x \in alone' : Undisturbed(x)'
    BY <1>1, IdleOK, StillUndisturbed
  <2>5. req'[r] = Idle /\ \A x \in Requests \ {r} : req'[x] = req[x]
    BY <1>1, IdleOK, BecomeType
  <2>6. ASSUME NEW x \in Requests PROVE OnHost(req[x])'
    <3>1. OnHost(req[x])
      BY InvParts DEF Parts
    <3>2. CASE x = r
      BY <2>5, <3>2, IdleOK DEF OnHost
    <3>3. CASE x # r
      BY <2>3, <2>5, <3>1, <3>3 DEF OnHost
    <3> QED
      BY <3>2, <3>3
  <2>7. ASSUME NEW x \in alone' PROVE IsToward(req[x])' /\ IsMarked(req[x])'
    <3>1. x \in Requests /\ OnHost(req[x]) /\ IsToward(req[x]) /\ IsMarked(req[x])
      BY <1>1, InvParts DEF Parts, TypeOK
    <3>2. CASE x = r
      BY <2>5, <3>2, IdleOK DEF IsToward, IsMarked
    <3>3. CASE x # r
      <4>1. IsToward(req[x])'
        BY <1>1, <2>5, <3>1, <3>3 DEF IsToward
      <4>2. IsMarked(req[x])'
        BY <2>3, <2>5, <3>1, <3>3 DEF IsMarked, OnHost
      <4> QED
        BY <4>1, <4>2
    <3> QED
      BY <3>2, <3>3
  <2>8. Parts'
    BY <2>3, <2>4, <2>6, <2>7 DEF Parts
  <2> QED
    BY <2>8, InvParts, PTL
<1> QED
  BY <1>2, <1>3

\* A request that begins takes alone from the requests it clashes with.
LEMMA BeginInv ==
    ASSUME TypeOK, TypeOK', VirtualMachinesInv, NEW r \in Requests, NEW m, NEW o,
           NEW kind, NEW label \in {"find", "create.exists", "delete.find"},
           label = "find" \/ kind \notin {"start", "stop"},
           Begin(r, kind, label, m, o)
    PROVE  VirtualMachinesInv'
<1> DEFINE q == [Idle EXCEPT !.pc = label, !.kind = kind, !.machine = m, !.org = o]
           others == {x \in Requests \ {r} : ~At(x, "idle") /\ Clash(req[x].machine, m)}
<1>1. /\ Become(r, q) /\ UNCHANGED <<machine, host, nextHost>>
      /\ alone' = (alone \ (others \cup {r})) \cup (IF others = {} THEN {r} ELSE {})
  BY DEF Begin
<1>2. q.pc = label /\ q.machine = m /\ q.kind = kind
  BY DEF Idle
<1> HIDE DEF q
<1>3. req'[r] = q /\ \A x \in Requests \ {r} : req'[x] = req[x]
  BY <1>1, BecomeOK, BecomeType
<1>4. OnHost(q) /\ IsToward(q) /\ IsMarked(q)
  BY <1>2 DEF OnHost, IsToward, IsMarked
<1>5. ASSUME NEW x \in alone' PROVE Undisturbed(x)'
  <2>1. SUFFICES ASSUME NEW y \in Requests \ {x},
                        req'[x].pc # "idle", req'[y].pc # "idle"
                 PROVE  ~Clash(req'[x].machine, req'[y].machine)
    BY DEF Undisturbed, At, Clash
  <2>2. x \in Requests
    BY DEF TypeOK
  <2>3. CASE x = r
    BY <1>1, <1>2, <1>3, <2>1, <2>3 DEF Clash, At
  <2>4. CASE x # r /\ y = r
    <3>1. x \notin others
      BY <1>1, <2>4
    <3> QED
      BY <1>2, <1>3, <2>1, <2>2, <2>4, <3>1 DEF Clash, At
  <2>5. CASE x # r /\ y # r
    <3>1. x \in alone
      BY <1>1, <2>5
    <3> QED
      BY <1>3, <2>1, <2>2, <2>5, <3>1, InvParts DEF Parts, Undisturbed, At
  <2> QED
    BY <2>3, <2>4, <2>5
<1>6. HostsAreInOrder' /\ \A x \in Requests : OnHost(req[x])'
  BY <1>1, <1>3, <1>4, InvParts DEF Parts, HostsAreInOrder, OnHost
<1>7. ASSUME NEW x \in alone' PROVE IsToward(req[x])' /\ IsMarked(req[x])'
  <2>1. x \in Requests /\ (x # r => IsToward(req[x]) /\ IsMarked(req[x]))
    BY <1>1, InvParts DEF Parts, TypeOK
  <2>2. IsToward(req[x])'
    BY <1>1, <1>3, <1>4, <2>1 DEF IsToward
  <2>3. IsMarked(req[x])'
    BY <1>1, <1>3, <1>4, <2>1 DEF IsMarked
  <2> QED
    BY <2>2, <2>3
<1>8. Parts'
  BY <1>5, <1>6, <1>7 DEF Parts
<1> QED
  BY <1>8, InvParts, PTL

\* A machine that settles stays on the way it was.
LEMMA SettleInv ==
    ASSUME TypeOK, VirtualMachinesInv, NEW m \in Machines, Settle(m)
    PROVE  VirtualMachinesInv'
<1>1. UNCHANGED <<host, nextHost, req, alone>>
  BY DEF Settle, Ghosts
<1>2. ASSUME NEW x \in alone' PROVE IsToward(req[x])'
  <2>1. IsToward(req[x])
    BY <1>1, InvParts DEF Parts
  <2>2. req[x].machine \in Machines
    BY <1>1 DEF TypeOK, Request
  <2>3. \/ machine'[req[x].machine] = machine[req[x].machine]
        \/ machine[req[x].machine] = "starting" /\ machine'[req[x].machine] = "on"
        \/ machine[req[x].machine] = "stopping" /\ machine'[req[x].machine] = "off"
    BY <2>2 DEF Settle, TypeOK
  <2> QED
    BY <1>1, <2>1, <2>3 DEF IsToward
<1>3. /\ HostsAreInOrder' /\ \A x \in Requests : OnHost(req[x])'
      /\ \A x \in alone' : Undisturbed(x)'
  BY <1>1, InvParts DEF Parts, HostsAreInOrder, OnHost, Undisturbed, At, Clash
<1>4. \A x \in alone' : IsMarked(req[x])'
  BY <1>1, InvParts DEF Parts, IsMarked
<1>5. Parts'
  BY <1>2, <1>3, <1>4 DEF Parts
<1> QED
  BY <1>5, InvParts, PTL

\* Nothing is left of the requests when the server stops.
LEMMA CrashInv ==
    ASSUME TypeOK, VirtualMachinesInv, Crash
    PROVE  VirtualMachinesInv'
<1>1. UNCHANGED <<machine, host, nextHost, alone>> /\ \A x \in Requests : req'[x] = Idle
  BY DEF Crash, Ghosts
<1>2. \A x \in Requests : OnHost(req[x])' /\ IsToward(req[x])' /\ IsMarked(req[x])'
  BY <1>1, IdleOK DEF OnHost, IsToward, IsMarked
<1>3. HostsAreInOrder'
  BY <1>1, InvParts DEF Parts, HostsAreInOrder
<1>4. \A x \in alone' : Undisturbed(x)'
  BY <1>1, IdleOK DEF Undisturbed, At, TypeOK
<1>5. Parts'
  BY <1>1, <1>2, <1>3, <1>4 DEF Parts, TypeOK
<1> QED
  BY <1>5, InvParts, PTL

\* Every step keeps the invariant.
LEMMA NextInv == TypeOK /\ VirtualMachinesInv /\ [Next]_vars => VirtualMachinesInv'
<1> SUFFICES ASSUME TypeOK, VirtualMachinesInv, [Next]_vars PROVE VirtualMachinesInv'
  OBVIOUS
<1>1. TypeOK'
  BY NextType
<1>2. CASE UNCHANGED vars
  BY <1>2 DEF vars, VirtualMachinesInv, HostsAreInOrder, ActsOnItsHost, Undisturbed,
              Toward, Marked, Acts, At, Cloud, WantedStatus, Wanted, StatusOf, Clash
<1>3. ASSUME NEW r \in Requests, Mutation(r) PROVE VirtualMachinesInv'
  BY <1>1, <1>3, BeginInv DEF Mutation, NodeAction, CreateHost, DeleteHost
<1>4. ASSUME NEW r \in Requests, Step(r) PROVE VirtualMachinesInv'
  BY <1>1, <1>4, FileInv, StatusInv, MarksInv, CommandInv, InsertInv DEF Step
<1>5. ASSUME NEW m \in Machines, Settle(m) PROVE VirtualMachinesInv'
  BY <1>5, SettleInv
<1>6. CASE Crash
  BY <1>6, CrashInv
<1>7. CASE Done
  BY <1>2, <1>7 DEF Done
<1> QED
  BY <1>2, <1>3, <1>4, <1>5, <1>6, <1>7 DEF Next

-----------------------------------------------------------------------------
\* Every request that acts keeps to the host it has found, and one that nobody disturbs
\* has its machine on the way, and its host marked by the time it records its activity.
THEOREM VirtualMachinesCorrect == Spec => []VirtualMachinesInv
<1>1. TypeOK /\ VirtualMachinesInv /\ [Next]_vars => TypeOK' /\ VirtualMachinesInv'
  BY NextType, NextInv
<1> QED
  BY <1>1, InitType, InitInv, PTL DEF Spec

\* The host that an undisturbed start or stop has answered for agrees with its machine,
\* whatever earlier requests left behind.
THEOREM AnsweredHostCorrect == Spec => []AnsweredHostAgrees
<1>1. TypeOK /\ VirtualMachinesInv => AnsweredHostAgrees
  <2> SUFFICES ASSUME TypeOK, VirtualMachinesInv, NEW r \in alone, Acts(r),
                      req[r].pc \in {"finish", "file.remove", "answer"}
               PROVE  Agrees(req[r].host)
    BY DEF AnsweredHostAgrees
  <2>1. /\ OnHost(req[r]) /\ IsToward(req[r]) /\ IsMarked(req[r])
        /\ req[r].kind \in {"start", "stop"}
    BY InvParts DEF Parts, TypeOK, Acts
  <2>2. host[req[r].host].machine = req[r].machine
    BY <2>1 DEF OnHost
  <2>3. machine[req[r].machine] \in
          IF req[r].kind = "start" THEN {"on", "starting"} ELSE {"off", "stopping"}
    BY <2>1 DEF IsToward
  <2>4. host[req[r].host].status = StatusFor(req[r].kind)
    BY <2>1 DEF IsMarked
  <2> QED
    BY <2>1, <2>2, <2>3, <2>4 DEF Agrees, StatusFor, StatusOf
<1> QED
  BY <1>1, TypeCorrect, VirtualMachinesCorrect, PTL
=============================================================================
