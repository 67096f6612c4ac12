SPECIFICATION ReplicationSpec
CONSTANTS
    r1 = r1
    r2 = r2
    Absent = Absent
    Replicas <- TwoReplicas
    Keys = {1}
    Values = {1, 2}
    Stamps <- TwoStamps
    Walls = {1, 2}
    Pinnable = {r1}
    MaxLogical = 2
    MaxOps = 3
    MaxNet = 2
    Cores = {0, 1}
    Names = {1}
    CoreWalls = {0, 1}
    CoreOps = 3
CHECK_DEADLOCK FALSE
INVARIANTS NoResurrection MergeOrderIrrelevant ArrivalOrderIrrelevant
PROPERTIES PinnedNeverRolledBack HappensBefore Converges
