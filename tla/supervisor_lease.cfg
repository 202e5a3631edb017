\* Two supervisors on one wave with nothing but leases between them.
CONSTANTS
    p1 = p1
    p2 = p2
    Supervisors = {p1, p2}
    NumScopes = 1
    MaxAttempts = 2
    LeaseSeconds = 2
    HeartbeatSeconds = 1
    PatchKinds <- GoodOnly
    RepoLock = FALSE
    Resume = TRUE
    Prompt = TRUE
    LateAnswers = FALSE
    MaxCrashes = 1
    NoOne = NoOne
SYMMETRY Symmetry
SPECIFICATION Spec
INVARIANTS
    ExclusiveDispatch
PROPERTIES
    ClaimsHold
