SPECIFICATION WorkersSpec
CONSTANTS
    a1 = a1
    a2 = a2
    bsp = bsp
    BSP = bsp
    APs <- OneAP
    Sizes <- MixedSizes
    MaxHangs = 1
    Workers = {0, 1}
    DeepQueue = 4
    ShallowQueue = 1
    StealBatch = 2
    Offered = {0, 3}
    PoolTasks = 4
    Cpu = "cpu"
    Kinds = {"gpu"}
    GraphTasks = 3
    MaxDeps = 2
    Components = {a, b}
    MaxFailures = 2
    Window = 4
    BaseBackoff = 1
    MaxBackoff = 3
    Cooldown = 2
    GlobalBudget = 3
    MaxTime = 6
CHECK_DEADLOCK FALSE
INVARIANTS SettledCallIsRight PoolTaskOnce DrainedIsHanded AnswerIsRight WaveIsDepth NoRestartStorm
PROPERTIES SettledWritesInside RunTerminates IsolatedUntilStable
