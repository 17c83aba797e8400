SPECIFICATION Spec
CONSTANTS
    self = self  x = x  ns = ns  c1 = c1  c2 = c2  v1 = v1  v2 = v2
    Absent = Absent
    Self = self
    SelfValue = v1
    Names <- SelfAndX
    Values <- TwoValues
    Clients <- TwoClients
    Operations = {"acme", "delete", "bulk delete"}
    UpsertNames <- OnlyX
    DeleteNames <- SelfAndX
    ApexNames = {}
    PublicAddresses = {}
    RejectedValues = {v2}
    UnlexedNames = {}
    NSNames = {}
    TornOutcomes = {"partial", "garbled"}
    ReconcileInterval = 0
    MaxRequests = 3
    MaxFaults = 1
    MaxCrashes = 0
CHECK_DEADLOCK FALSE
SYMMETRY ClientSymmetry
INVARIANT AcknowledgedUpsertStored
