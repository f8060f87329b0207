SPECIFICATION Spec
CONSTANTS
    NumTopics = 1
    MaxPartitions = 2
    Self = 1
    Other = 2
    NoLog = NoLog
    NoText = 0
    Names = {1}
    Upper <- AsWritten
    Modes = {TRUE, FALSE}
    Clients = {c1, c2}
    NoTopic = NoTopic
    MaxIncarnations = 2
    MaxUpdates = 1
INVARIANTS
    OpenLogsAccountedFor
    RolesComeFromController
    ServesAsRegistered
PROPERTIES
    EarlierPartitionsServed
    RemovedStopsServing
CHECK_DEADLOCK FALSE
