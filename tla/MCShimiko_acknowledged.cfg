SPECIFICATION Spec
CONSTANTS
    self = self  x = x  ns = ns  c1 = c1  c2 = c2  v1 = v1  v2 = v2
    Absent = Absent
    Self = self
    SelfValue = v1
    Names <- SelfAndX
    Values <- OneValue
    Clients <- OneClient
    Operations = {"upsert", "delete"}
    UpsertNames <- OnlyX
    DeleteNames <- OnlyX
    ApexNames = {}
    PublicAddresses = {}
    RejectedValues = {}
    UnlexedNames = {}
    NSNames = {}
    TornOutcomes = {}
    ReconcileInterval = 0
    MaxRequests = 4
    MaxFaults = 0
    MaxCrashes = 0
CHECK_DEADLOCK FALSE
INVARIANT AcknowledgedUpsertStored
