---------------------------- MODULE MCOrganizations ----------------------------
(***************************************************************************)
(* Instances of Organizations: two users, the platform's region and one      *)
(* that users bring, a name that is its own slug and one that is not.        *)
(***************************************************************************)
EXTENDS Organizations

TwoUsers == {"u", "v"}
TwoRegions == {"IND", "own"}
PlatformRegion == {"IND"}
TwoNames == {"ab", "a b"}
SlugOfName == [n \in TwoNames |-> "ab"]
NumberedName == [n \in TwoNames |-> {"ab1"}]
Company == [u |-> "ab", v |-> "a b"]
TwoSlots == {1, 2}
=============================================================================
