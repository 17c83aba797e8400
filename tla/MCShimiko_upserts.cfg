SPECIFICATION Spec
CONSTANTS
    self = self  x = x  ns = ns  c1 = c1  c2 = c2  v1 = v1  v2 = v2
    Absent = Absent
    Self = self
    SelfValue = v1
    Names <- SelfAndX
    Values <- TwoValues
    Clients <- TwoClients
    Operations = {"upsert", "bulk upsert"}
    UpsertNames <- SelfAndX
    DeleteNames <- OnlyX
    ApexNames = {x}
    PublicAddresses = {v1}
    RejectedValues = {}
    UnlexedNames = {}
    NSNames = {}
    TornOutcomes = {}
    ReconcileInterval = 0
    MaxRequests = 3
    MaxFaults = 0
    MaxCrashes = 0
CHECK_DEADLOCK FALSE
SYMMETRY ClientSymmetry
INVARIANT NoLostWakeup
INVARIANT SettledPublished
