SPECIFICATION Spec
CONSTANTS
    MaxRecords = 3
    MaxGroup = 1
    MaxSegmentBytes = 1
    MaxIndexBytes = 1
    IndexIntervalBytes = 1
    TruncationFaults = FALSE
INVARIANT ReadsUseOpenPairs
