SPECIFICATION HistorySpec
CONSTANTS
    Objects = {1, 2, 3}
    Seed = 2
    Cap = 8
    ManifestSizes = {1, 2}
    EstManifest = 1
    DeadLimit = 1
    MaxSaves = 4
    Refs <- ListsSeed
    Nothing = Nothing
INVARIANTS CrashKeepsCommitted
