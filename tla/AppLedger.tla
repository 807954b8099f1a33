------------------------------- MODULE AppLedger -------------------------------
(***************************************************************************)
(* AppLifecycle as an implementation of DeploymentLedger.  An id that was    *)
(* not handed out is fresh; one that was handed out and has no pods has     *)
(* ended, whether its deployment was deleted or never made.                 *)
(***************************************************************************)
EXTENDS AppLifecycleProperties

Seen == [up |-> "running", zero |-> "scaled", none |-> "ended"]

LifeOf(d) == IF d >= nextDeployment THEN "fresh" ELSE Seen[cluster[d].pods]

Lives == [d \in DeploymentIds |-> LifeOf(d)]

MarkedRows == {d \in DeploymentIds : row[d].status = "destroyed"}

Ledger == INSTANCE DeploymentLedger WITH
    Deployments <- DeploymentIds, life <- Lives, marked <- MarkedRows

\* However requests, goroutines, failures and stops interleave, deployments and
\* the rows that say "destroyed" behave as the ledger: none starts twice or comes
\* back after its deletion, and a row, or the rows a WHERE matches together, is
\* marked only when every one of its deployments is gone.
ImplementsLedger == Ledger!LedgerSpec
=============================================================================
