SPECIFICATION Spec
CONSTANTS
    Regions <- TwoRegions
    Primary = "a"
    Defaults = {"a"}
    MaxDeployments = 6
    MaxReleases = 4
    Requests <- TwoSlots
    MaxRequests = 2
    Kinds <- EveryKind
    AllowLists <- AllowB
    DenyLists <- DenyA
    BackupLists <- AllowB
    Faults <- ReportedFaults
INVARIANT TypeOK
INVARIANT DestroyedIsGone
INVARIANT DestroyedInv
INVARIANT InsertInv
PROPERTY ImplementsLedger
