--------------------------- MODULE MCVirtualMachines ---------------------------
(***************************************************************************)
(* Two GCP machines of different accounts, one of AWS and one of Azure.     *)
(***************************************************************************)
EXTENDS VirtualMachines

FourMachines == {"g", "h", "a", "z"}
Cloud4 == [g |-> "GCP", h |-> "GCP", a |-> "AWS", z |-> "Azure"]
TwoAccounts == {"ga", "ha"}
Account4 == [g |-> "ga", h |-> "ha", a |-> "ga", z |-> "ga"]
AllRegistered == <<"g", "h", "a", "z">>
AllOffOrOnOrOne == {[m \in FourMachines |-> "off"], [m \in FourMachines |-> "on"],
                    [m \in FourMachines |-> IF m = "g" THEN "on" ELSE "off"]}
TwoOrgs == {"o", "p"}
TwoSlots == {1, 2}
=============================================================================
