SPECIFICATION Spec
CONSTANTS
    Clients = {c1}
    NoClient = NoClient
    Leaders = {l1}
    Addrs = {a1, a2}
    NoAddr = NoAddr
    MaxWorkers = 2
    Conns = {k1}
    NoConn = NoConn
    MaxCalls = 2
    MaxChanges = 1
INVARIANTS
    NoRequestAfterShutdown
    QuietWhenDown
    StopChClosedOnce
    OneWorkerPerLeader
    ConnectionsClosed
CHECK_DEADLOCK FALSE
PROPERTIES ShutdownReturns WorkersFollowMetadata
