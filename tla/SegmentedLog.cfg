SPECIFICATION Spec
CONSTANTS
    MaxRecords = 6
    MaxGroup = 2
    MaxSegmentBytes = 3
    MaxIndexBytes = 2
    IndexIntervalBytes = 2
    TruncationFaults = TRUE
INVARIANTS
    Contiguous
    ReadsFindRecords
    IndexSearchable
PROPERTY RefinesOffsetLog
