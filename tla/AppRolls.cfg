SPECIFICATION Spec
CONSTANTS
    Regions <- TwoRegions
    Primary = "a"
    Defaults = {"a", "b"}
    MaxDeployments = 10
    MaxReleases = 4
    Requests <- OneSlot
    MaxRequests = 3
    Kinds = {"deploy", "redeploy"}
    AllowLists <- NoList
    DenyLists <- NoList
    BackupLists <- NoList
    Faults <- NoFault
INVARIANT NewReleaseTerminatesDeployments
