--------------------------- MODULE DeploymentLedger ---------------------------
(***************************************************************************)
(* What app_deployments promises of the deployments it names, without       *)
(* requests, regions or releases.  A deployment starts at most once, may be *)
(* scaled while it lives, and ends for good; a statement on the table marks *)
(* deployments destroyed only when each of them has ended.                  *)
(***************************************************************************)
CONSTANT Deployments

VARIABLES
    life,     \* what the cluster of the deployment's region has seen of it
    marked    \* the deployments whose row says destroyed

ledger == <<life, marked>>

Life == {"fresh", "running", "scaled", "ended"}

LedgerTypeOK ==
    /\ life \in [Deployments -> Life]
    /\ marked \in SUBSET Deployments

LedgerInit ==
    /\ life = [d \in Deployments |-> "fresh"]
    /\ marked = {}

Becomes(d, from, to) ==
    /\ life[d] \in from
    /\ life' = [life EXCEPT ![d] = to]
    /\ UNCHANGED marked

Start(d) == Becomes(d, {"fresh"}, "running")

\* An id is given to a row although no deployment was made.
Skip(d) == Becomes(d, {"fresh"}, "ended")

Suspend(d) == Becomes(d, {"running", "scaled"}, "scaled")

Resume(d) == Becomes(d, {"running", "scaled"}, "running")

Finish(d) == Becomes(d, {"running", "scaled"}, "ended")

\* One statement may mark several rows.
Mark(S) ==
    /\ \A d \in S : life[d] = "ended"
    /\ marked' = marked \cup S
    /\ UNCHANGED life

\* Rows are dropped with their application, or written by a late request.
Unmark(S) ==
    /\ marked' = marked \ S
    /\ UNCHANGED life

LedgerNext ==
    \/ \E d \in Deployments :
        Start(d) \/ Skip(d) \/ Suspend(d) \/ Resume(d) \/ Finish(d)
    \/ \E S \in SUBSET Deployments : Mark(S) \/ Unmark(S)

LedgerSpec == LedgerInit /\ [][LedgerNext]_ledger
=============================================================================
