SPECIFICATION Spec
CONSTANTS
    Layouts <- TwoTopics
    Kinds = {"consumer", "follower"}
    Versions = {4, 5, 7, 11}
    Sizes = {1, 3}
    MaxBytes = 2
    PartitionMaxBytes = 2
    Busy <- PartitionA
    MaxLog = 2
    MaxEpoch = 3
INVARIANTS
    ConsumerReadsCommitted
    
    WithinBudget
PROPERTY
    ClientsCatchUp
