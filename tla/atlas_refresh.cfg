\* Refreshes between a commit with a blank line and a migration more, and one without.
CONSTANTS
    None = None
    Facts <- MCFacts
    SeenAt <- MCSeenAt
    Body <- MCBody
    Similar <- MCSimilar
    ManifestNames = {"pom"}
    Excludes = {"gen"}
    Role <- MCRole
    ThirdParty = {"java"}
    MaxHops = 3
    TraceHops = 2
    Commits = {"c1", "c5"}
    Tree <- MCTree
    Terms = {"core"}
    Limits = {1}
    RoleSets = {{}}
    Unlimited = 30
    MaxScans = 1
    RungCeiling = 1
    MaxDepth = 3
    ChartCeiling = 17
    ChartScopes <- MCScopes
    Focuses <- MCFocuses
    NodeIds <- MCNodeIds
SPECIFICATION PortalSpec
PROPERTIES
    RefreshIsByteIdentical
