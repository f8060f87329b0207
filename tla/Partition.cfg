SPECIFICATION Spec
CONSTANTS
    Producers = {p1}
    Handlers = {h1}
    Self = self
    Followers = {f1}
    MaxLEO = 2
    MaxEpoch = 2
    MaxRefreshes = 2
    LeaderToLeader = FALSE
INVARIANTS
    NoStrandedProducer
    NoLostWakeup
PROPERTIES
    HWMonotoneWhileLeading
CHECK_DEADLOCK FALSE
