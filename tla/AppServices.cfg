SPECIFICATION Spec
CONSTANTS
    Regions <- TwoRegions
    Primary = "a"
    Defaults = {"a", "b"}
    MaxDeployments = 6
    MaxReleases = 4
    Requests <- OneSlot
    MaxRequests = 1
    Kinds = {"deploy"}
    AllowLists <- NoList
    DenyLists <- NoList
    BackupLists <- NoList
    Faults <- NoFault
INVARIANT EveryRegionHasService
