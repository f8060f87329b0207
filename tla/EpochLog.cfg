SPECIFICATION Spec
CONSTANTS
    MaxEpoch = 3
    MaxOffset = 4
    OlderRecords = FALSE
INVARIANTS
    
    
    
    LeaderEpochIsDurable
