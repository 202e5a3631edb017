\* `cdp run --resume` under the repo lock: crashes, late answers, retries.
CONSTANTS
    p1 = p1
    p2 = p2
    Supervisors = {p1, p2}
    NumScopes = 2
    MaxAttempts = 2
    LeaseSeconds = 2
    HeartbeatSeconds = 1
    PatchKinds <- Kinds
    RepoLock = TRUE
    Resume = TRUE
    Prompt = TRUE
    LateAnswers = TRUE
    MaxCrashes = 1
    NoOne = NoOne
SYMMETRY Symmetry
SPECIFICATION Spec
INVARIANTS
    TypeOK
    FoldedIsInState
    FinishLeavesNoGap
    NoStaleAnswer
PROPERTIES
    AnswerSurvives
    LifecycleHolds
