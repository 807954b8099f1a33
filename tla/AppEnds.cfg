SPECIFICATION Spec
CONSTANTS
    Regions <- TwoRegions
    Primary = "a"
    Defaults = {"a"}
    MaxDeployments = 4
    MaxReleases = 4
    Requests <- TwoSlots
    MaxRequests = 3
    Kinds = {"deploy", "configure", "delete"}
    AllowLists <- NoList
    DenyLists <- DenyA
    BackupLists <- NoList
    Faults = {"rolldelete"}
PROPERTY EveryRequestEnds
