\* Link scans, refreshes and verdicts over two repositories.
CONSTANTS
    None = None
    Key <- MCKey
    Libraries = {"kafka"}
    Repos = {"shop", "depot"}
    Heads = {"h1", "h2"}
    Edges <- MCEdges
    First = "h1"
    After <- MCAfter
    MaxAttempts = 2
    MaxScans = 1
    MaxRefreshes = 1
SPECIFICATION Spec
INVARIANTS
    EveryCallIsAccounted
    VerdictsWereShown
PROPERTIES
    VerdictsStay
