\* Contention, questions, failing citations, and lines that move.
CONSTANTS
    None = None
    Nodes = {1, 2, 3}
    Module <- MCModule
    Mode = "strict"
    MIN_ANCHOR_LEN = 2
    MAX_ANCHOR_LEN = 3
    MAX_MATCHES_IN_FILE = 2
    LINE_WINDOW = 1
    MAX_SPAN = 2
    Scenarios <- Everything
    NewLines <- TextLines
SPECIFICATION Spec
INVARIANTS
    OrderIndependent
    NothingVanishes
    QuestionsAreGenuine
    CitationsFollow
\* All answers are collected.
CHECK_DEADLOCK FALSE
