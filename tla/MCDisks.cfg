SPECIFICATION DisksSpec
CONSTANTS
    Size = 6
    IdxWrap = 6
    NoAddr = NoAddr
    Capacity = 3
    Values = {1, 2, 3, 4}
    Junk = 0
    Blank = 4
    Chunks <- Writes
    BatchSlots = 3
    BounceSectors = 2
    QD = 2
    MaxSectors = 2
    MaxCalls = 2
INVARIANTS DescriptorsOwnedOnce VirtioOkMeansDone AhciOkMeansDone NvmeOkMeansDone
PROPERTIES VirtioChangesAsked CallReturns
CHECK_DEADLOCK FALSE
