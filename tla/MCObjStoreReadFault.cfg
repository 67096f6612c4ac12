SPECIFICATION HistorySpec
CONSTANTS
    Objects = {1, 2}
    Seed = 2
    Cap = 6
    ManifestSizes = {1}
    EstManifest = 1
    DeadLimit = 6
    MaxSaves = 3
    Refs <- ListsSeed
    Nothing = Nothing
PROPERTIES SavedFilesKept
