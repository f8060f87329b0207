SPECIFICATION MCSpec
CONSTANTS
    NoText = ""
    Names = {"PLAINTEXT", "plaintext"}
    Upper <- MCUpper
    Nodes = {n1, n2}
    Commands <- MCCommands
    MaxLog = 6
INVARIANTS
    SnapshotsRestorable
    
    PartitionEpochIdentifiesMetadata
    OneLeaderPerEpoch
    BrokerEpochIdentifiesIncarnation
PROPERTY ReadsNeverGoBack
SYMMETRY Symmetry
