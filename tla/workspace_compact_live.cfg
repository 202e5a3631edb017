\* Compaction of a log with a run that was rolled back.
CONSTANTS
    c1 = c1
    c2 = c2
    root = root
    core = core
    Commits = {c1, c2}
    Nodes = {root, core}
    Scopes = {core}
    Root = root
    Drift <- OneEdited
    Answer = answer
    Anon = cdp
    None = none
    KeepGenerations = 1
    Compaction = TRUE
    MaxPatches = 2
    MaxGeneration = 2
    MaxRollbacks = 1
    MaxCheckouts = 0
    MaxCrashes = 0
SPECIFICATION Spec
PROPERTIES
    CompactionKeepsLive
