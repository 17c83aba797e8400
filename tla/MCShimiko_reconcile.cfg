SPECIFICATION Spec
CONSTANTS
    self = self  x = x  ns = ns  c1 = c1  c2 = c2  v1 = v1  v2 = v2
    Absent = Absent
    Self = self
    SelfValue = v1
    Names <- SelfXAndNS
    Values <- TwoValues
    Clients <- OneClient
    Operations = {"upsert", "delete", "refresh"}
    UpsertNames <- XAndNS
    DeleteNames <- XInBothSpellings
    ApexNames = {}
    PublicAddresses = {}
    RejectedValues = {}
    UnlexedNames = {}
    NSNames = {ns}
    TornOutcomes = {}
    ReconcileInterval = 0
    MaxRequests = 3
    MaxFaults = 1
    MaxCrashes = 0
CHECK_DEADLOCK FALSE
INVARIANT TypeOK
INVARIANT ReconcileExact
PROPERTY PurgedIsGone
PROPERTY ImplementsRecordStore
