\* Termination and eventual accounting, under the scheduling the code has.
CONSTANTS
    p1 = p1
    p2 = p2
    Supervisors = {p1}
    NumScopes = 2
    MaxAttempts = 2
    LeaseSeconds = 1
    HeartbeatSeconds = 1
    PatchKinds <- Kinds
    RepoLock = TRUE
    Resume = TRUE
    Prompt = TRUE
    LateAnswers = FALSE
    MaxCrashes = 1
    NoOne = NoOne
SPECIFICATION PersistentSpec
PROPERTIES
    InvocationEnds
    EveryScopeIsAccountedFor
