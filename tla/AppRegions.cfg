SPECIFICATION Spec
CONSTANTS
    Regions <- TwoRegions
    Primary = "a"
    Defaults = {"a", "b"}
    MaxDeployments = 14
    MaxReleases = 6
    Requests <- OneSlot
    MaxRequests = 4
    Kinds <- NeverPaused
    AllowLists <- AnyList
    DenyLists <- AnyList
    BackupLists <- NoList
    Faults <- ListFaults
INVARIANT RegionsMatchRows
INVARIANT OneDeploymentPerRegion
INVARIANT RegionInv
INVARIANT ListInv
