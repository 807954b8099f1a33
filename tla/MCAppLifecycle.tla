--------------------------- MODULE MCAppLifecycle ---------------------------
(***************************************************************************)
(* Instances of AppLifecycle for model checking: two regions of which "a"  *)
(* is the organization's first default region.                             *)
(***************************************************************************)
EXTENDS AppLedger, AppSequence

TwoRegions == {"a", "b"}
OneSlot == {1}
TwoSlots == {1, 2}

NoList == {{}}
AnyList == SUBSET TwoRegions
AllowB == {{}, {"b"}}
DenyA == {{}, {"a"}}

EveryKind == KindNames
KeepsTheApp == KindNames \ {"delete"}
Releases == {"deploy", "move", "image", "revert"}
NeverPaused == KindNames \ {"pause"}

NoFault == {}
\* Every fault but a deletion that a release goroutine is refused.
ReportedFaults == FaultKinds \ {"rolldelete"}
\* Those that keep the scale of a deployment and the status of its row together,
\* but for two that end a request with no row left to write;
RowFaults == {"service", "config", "rolldelete", "scale", "insert"}
\* and those that keep the list of regions and the rows together.
ListFaults == {"service", "loadbalancer", "rolldelete", "scale"}
=============================================================================
