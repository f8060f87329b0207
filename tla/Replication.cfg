SPECIFICATION MCSpec
CONSTANTS
    Brokers = {b1, b2, b3}
    NoBroker = NoBroker
    MaxRecords = 2
    MaxEpoch = 1
    MaxVersions = 2
    IsrMayGrow = FALSE
    OneRead = TRUE
    Undisturbed = TRUE
    Retries = TRUE
INVARIANTS
    CommittedRecordsAgree
    AckedRecordsOnISR
SYMMETRY Symmetry
