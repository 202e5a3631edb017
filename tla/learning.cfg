SPECIFICATION Spec
CONSTANTS
    Repos = {1, 2}
    RunNames <- RunIds
    Hints = {h1, h2}
    Cutters = {c1, c2}
    Nobody = Nobody
    Home = 1
    Trees <- CleanTrees
    Budgets <- AllBudgets
SYMMETRY Interchangeable
INVARIANTS
    InheritedIsInLog
    HoldoutIsUnseen
    PinHolds
\* The budgets of a behaviour are spent.
CHECK_DEADLOCK FALSE
