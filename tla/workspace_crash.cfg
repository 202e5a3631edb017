\* The same with a crash between any two commits, over shorter logs.
CONSTANTS
    c1 = c1
    c2 = c2
    root = root
    core = core
    Commits = {c1, c2}
    Nodes = {root, core}
    Scopes = {core}
    Root = root
    Drift <- OneEdited
    Answer = answer
    Anon = cdp
    None = none
    KeepGenerations = 1
    Compaction = FALSE
    MaxPatches = 1
    MaxGeneration = 2
    MaxRollbacks = 1
    MaxCheckouts = 1
    MaxCrashes = 1
SPECIFICATION Spec
SYMMETRY CommitsSymmetry
INVARIANTS
    LedgerHonoured
    ManifestMarksComplete
