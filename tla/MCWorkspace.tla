---------------------------- MODULE MCWorkspace -----------------------------
EXTENDS Workspace, TLC

CONSTANTS c1, c2, root, core

\* What happens to the cited files of root and of core between the commits.
AllSame == root :> "same" @@ core :> "same"
OneEdited == root :> "touched" @@ core :> "edited"

\* Rollbacks or compactions, and at most one step of the other that follows them.
OneOfTheTwo == archive = {} \/ rollbacks = 0

CommitsSymmetry == Permutations(Commits)
=============================================================================
