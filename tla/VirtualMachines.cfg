SPECIFICATION FairSpec
CONSTANTS
    Machines <- FourMachines
    CloudOf <- Cloud4
    Accounts <- TwoAccounts
    AccountOf <- Account4
    Orgs <- TwoOrgs
    Registered <- AllRegistered
    FirstStates <- AllOffOrOnOrOne
    Requests <- TwoSlots
    MaxRequests = 2
    Faults = {"cloud", "sql", "crash"}
INVARIANT TypeOK
INVARIANT AnsweredHostAgrees
INVARIANT VirtualMachinesInv
PROPERTY EveryActionEnds
