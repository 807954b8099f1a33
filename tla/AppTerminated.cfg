SPECIFICATION Spec
CONSTANTS
    Regions <- TwoRegions
    Primary = "a"
    Defaults = {"a", "b"}
    MaxDeployments = 6
    MaxReleases = 4
    Requests <- OneSlot
    MaxRequests = 3
    Kinds = {"deploy", "image", "configure"}
    AllowLists <- NoList
    DenyLists <- DenyA
    BackupLists <- NoList
    Faults <- NoFault
INVARIANT TerminatedIsGone
