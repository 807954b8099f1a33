SPECIFICATION Spec
CONSTANTS
    Regions <- TwoRegions
    Primary = "a"
    Defaults = {"a"}
    MaxDeployments = 10
    MaxReleases = 6
    Requests <- OneSlot
    MaxRequests = 4
    Kinds <- EveryKind
    AllowLists <- AllowB
    DenyLists <- DenyA
    BackupLists <- AllowB
    Faults <- RowFaults
INVARIANT ScaleMatchesStatus
PROPERTY RowsMoveForward
INVARIANT SequenceInv
INVARIANT SettledInv
