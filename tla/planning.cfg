\* Every graph of four modules, and every layout of one module's directories.
CONSTANTS
    Modules = {1, 2, 3, 4}
    RootModule = 0
    Home <- Homes
    MaxFiles = 4
    MaxLoc = 5
    MaxConcurrent = 2
    Inventories <- EveryPlan
    None = None
    Structure <- MCStructure
    Owned = {1, 2, 3, 4}
    ThirdParty = {8}
    MaxInherited = 4
    MaxDigest = 3
    MinDigest = 1
    MaxRows = 3
    MinRows = 1
    MaxGaps = 1
    Fixed = 2
    MaxPrompt = 12
    Imports <- MCImports
    Answer <- MCAnswer
    Unsure <- MCUnsure
    MaxLost = 1
SPECIFICATION ReadingSpec
INVARIANTS
    PartitionSound
    ScheduleSound
    DependenciesAreTold
PROPERTIES
    PlanIsMade
\* A plan that is read has no further step.
CHECK_DEADLOCK FALSE
