\* Scans, refreshes and questions over four commits of a small repository.
CONSTANTS
    None = None
    Facts <- MCFacts
    SeenAt <- MCSeenAt
    Body <- MCBody
    Similar <- MCSimilar
    ManifestNames = {"pom"}
    Excludes = {"gen"}
    Role <- MCRole
    ThirdParty = {"java"}
    MaxHops = 3
    TraceHops = 2
    Commits = {"c1", "c2", "c3", "c4"}
    Tree <- MCTree
    Terms = {"core", "users", "settle"}
    Limits = {1, 4}
    RoleSets = {{}, {"test"}}
    Unlimited = 30
    MaxScans = 1
    RungCeiling = 1
    MaxDepth = 3
    ChartCeiling = 17
    ChartScopes <- MCScopes
    Focuses <- MCFocuses
    NodeIds <- MCNodeIds
SPECIFICATION PortalSpec
INVARIANTS
    TypeOK
    NothingSilent
    SearchIsFair
    PathsAreShortest
    ChartIsClosed
    RollupIsFaithful
    FlowHasThePaths
PROPERTIES
    RefreshIsScan
