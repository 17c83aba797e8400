SPECIFICATION Spec
CONSTANTS
    Configurations <- SeveralDomains
    Addresses = {"10.0.0.1"}
    RenewBelow = 2
    AcmeLifetime = 4
    SelfSignedLifetime = 6
    TornWrites = TRUE
    Removable = {"account key", "certificate"}
    MaxFaults = 1
    MaxCrashes = 3
    MaxRemovals = 1
CHECK_DEADLOCK FALSE
INVARIANT TypeOK
INVARIANT PairLoads
INVARIANT ServedInDate
INVARIANT ServedDomains
PROPERTY Serves
