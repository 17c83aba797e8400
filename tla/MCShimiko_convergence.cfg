SPECIFICATION Spec
CONSTANTS
    self = self  x = x  ns = ns  c1 = c1  c2 = c2  v1 = v1  v2 = v2
    Absent = Absent
    Self = self
    SelfValue = v1
    Names <- SelfXAndNS
    Values <- OneValue
    Clients <- OneClient
    Operations = {"upsert", "acme", "delete"}
    UpsertNames <- XAndNS
    DeleteNames <- SelfAndX
    ApexNames = {self}
    PublicAddresses = {v1}
    RejectedValues = {}
    UnlexedNames = {}
    NSNames = {ns}
    TornOutcomes = {"partial"}
    ReconcileInterval = 1
    MaxRequests = 1
    MaxFaults = 1
    MaxCrashes = 1
INVARIANT NoLostWakeup
PROPERTY Converges
