SPECIFICATION IssuanceSpec
CONSTANTS
    Chains <- MCChains
    TrustedRoots <- MCTrustedRoots
    OptionSets <- MCOptionSets
    maxChainSignatureChecks = 4
    Garbage = Garbage
    Unset = Unset
    Nil = Nil
    Int64Bytes = 3
    Int32Bytes = 1
    Base128Bytes = 2
    MaxInt = 8191
    UintBytes = 3
    Absent = Absent
    KnownEKUs = {"serverAuth", "CertificateTransparency"}
    Workers = {w1, w2}
    MaxSCTs = 1
    MaxTime = 2
    MMD = 1
    Malformed = Malformed
    Radix = 4
    SeedSize = 2
    GroupOrder <- MCGroupOrder
    Setups <- MCSetups
    Source <- MCSource
    Existing <- MCExisting
    TargetRoots = {"r1"}
    NotAfterStart = 1
    NotAfterLimit = 3
    SctCount = 2
    SthCount = 2
    InvalidStretch = 10
    MaxParallelChains = 2
    GetEntriesCounts = {1, 2}
    Bias = {"AddChain", "AddPreChain", "GetSTH", "GetSTHConsistency", "GetProofByHash", "GetEntries", "GetRoots"}
    InvalidChance = {"AddChain", "GetSTHConsistency", "GetProofByHash", "GetEntries"}
    DuplicateChance = TRUE
    StrictSTHConsistencySize = FALSE
    OversizedGetEntries = TRUE
    Operations = 4
    MaxRetries = 1
INVARIANT
    MissingMeansLate
CHECK_DEADLOCK FALSE
