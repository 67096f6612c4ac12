SPECIFICATION StorageSpec
CONSTANTS
    Roots = {r1, r2}
    Keys = {k1, k2}
    MaxGen = 4
    None = None
    Objects = {1, 2}
    Seed = 2
    Cap = 4
    ManifestSizes = {1, 2}
    EstManifest = 1
    DeadLimit = 2
    MaxSaves = 3
    Refs <- ListsSeed
    Nothing = Nothing
INVARIANTS AckedSurvives AppendsKeepCommitted RestoreIsSaved
PROPERTIES NoRollback ImplementsCommittedRoot AppendsCommitAtomically
