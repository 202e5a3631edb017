\* Every command, with a rollback and a checkout; no crash.
CONSTANTS
    c1 = c1
    c2 = c2
    root = root
    core = core
    Commits = {c1, c2}
    Nodes = {root, core}
    Scopes = {core}
    Root = root
    Drift <- AllSame
    Answer = answer
    Anon = cdp
    None = none
    KeepGenerations = 1
    Compaction = TRUE
    MaxPatches = 2
    MaxGeneration = 2
    MaxRollbacks = 1
    MaxCheckouts = 1
    MaxCrashes = 0
SPECIFICATION Spec
CONSTRAINT OneOfTheTwo
SYMMETRY CommitsSymmetry
INVARIANTS
    TypeOK
    CheckPasses
    GenerationsUnique
PROPERTIES
    QuestionsStick
    AppendOnly
    CompactionKeepsClaims
