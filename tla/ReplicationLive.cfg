SPECIFICATION MCLiveSpec
CONSTANTS
    Brokers = {b1, b2}
    NoBroker = NoBroker
    MaxRecords = 2
    MaxEpoch = 1
    MaxVersions = 2
    IsrMayGrow = FALSE
    OneRead = TRUE
    Undisturbed = TRUE
    Retries = FALSE
PROPERTIES
    ProducersAnswered
    ReplicasConverge
