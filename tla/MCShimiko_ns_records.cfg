SPECIFICATION Spec
CONSTANTS
    self = self  x = x  ns = ns  c1 = c1  c2 = c2  v1 = v1  v2 = v2
    Absent = Absent
    Self = self
    SelfValue = v1
    Names <- SelfAndX
    Values <- TwoValues
    Clients <- OneClient
    Operations = {"upsert", "bulk upsert"}
    UpsertNames <- OnlyX
    DeleteNames <- OnlyX
    ApexNames = {}
    PublicAddresses = {}
    RejectedValues = {}
    UnlexedNames = {}
    NSNames = {x}
    TornOutcomes = {}
    ReconcileInterval = 0
    MaxRequests = 2
    MaxFaults = 0
    MaxCrashes = 0
CHECK_DEADLOCK FALSE
INVARIANT SettledOnHosts
