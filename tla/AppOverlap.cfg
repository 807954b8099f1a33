SPECIFICATION Spec
CONSTANTS
    Regions <- TwoRegions
    Primary = "a"
    Defaults = {"a"}
    MaxDeployments = 5
    MaxReleases = 4
    Requests <- TwoSlots
    MaxRequests = 3
    Kinds <- Releases
    AllowLists <- NoList
    DenyLists <- NoList
    BackupLists <- NoList
    Faults <- NoFault
INVARIANT SomeReleaseIsActive
INVARIANT EveryPodIsTracked
INVARIANT OverlapInv
PROPERTY RowsMoveForward
