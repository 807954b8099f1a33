SPECIFICATION Spec
CONSTANTS
    Users <- TwoUsers
    Regions <- TwoRegions
    Platform <- PlatformRegion
    India = "IND"
    Slugs = {"ab", "ab1"}
    Names <- TwoNames
    SlugOf <- SlugOfName
    Plain = {"ab"}
    Numbered <- NumberedName
    CompanyOf <- Company
    Limit = 1
    Requests <- TwoSlots
    MaxRequests = 3
    Kinds = {"login", "create", "createsub", "delete", "deletesub", "update", "default", "regions", "addcluster", "dropcluster", "addregions", "namespaces", "invite", "remove"}
    Faults = {"sql", "namespace", "crash"}
INVARIANT TypeOK
INVARIANT MembersHaveRegions
INVARIANT FirstLoginMadeMember
INVARIANT MembersShareNoSlug
INVARIANT OrganizationsInv
PROPERTY DeletionLeavesNoNamespace
