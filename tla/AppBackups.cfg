SPECIFICATION Spec
CONSTANTS
    Regions <- TwoRegions
    Primary = "a"
    Defaults = {"a"}
    MaxDeployments = 6
    MaxReleases = 4
    Requests <- OneSlot
    MaxRequests = 2
    Kinds = {"deploy", "configure"}
    AllowLists <- AllowB
    DenyLists <- NoList
    BackupLists <- AllowB
    Faults <- NoFault
INVARIANT BackupIsNotPrimary
