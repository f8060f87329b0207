SPECIFICATION MCSpec
CONSTANTS
    Brokers = {b1, b2}
    NoBroker = NoBroker
    MaxRecords = 3
    MaxEpoch = 3
    MaxVersions = 4
    IsrMayGrow = FALSE
    OneRead = TRUE
    Undisturbed = TRUE
    Retries = FALSE
INVARIANTS
    LogsMatchByEpoch
    ReconciledIsPrefix
SYMMETRY Symmetry
PROPERTY RefinesCommittedLog
