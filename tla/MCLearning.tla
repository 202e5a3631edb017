----------------------------- MODULE MCLearning -----------------------------
(* Instances of RunPlan and Lessons: two repositories that share a run id,  *)
(* two scopes that change with the commit or with the budgets of a scan,    *)
(* and two processes that cut lessons.                                      *)
EXTENDS RunPlan

S(node, hash) == [node |-> node, hash |-> hash]

(* One commit scanned with two budgets, and its successor. *)
CleanTrees == {
    [head |-> 1, snap |-> 1, waves |-> <<{S(1, 11)}, {S(2, 21)}>>],
    [head |-> 1, snap |-> 1, waves |-> <<{S(1, 12), S(2, 21)}>>],
    [head |-> 2, snap |-> 2, waves |-> <<{S(1, 13), S(2, 21)}>>]}

RunIds == {<<2, 1>>}

Interchangeable == Permutations(Cutters) \cup Permutations(Hints)

PlanBudget == [from |-> {1, 2}, scans |-> 2, runs |-> 3, leaves |-> 0, reflections |-> 0, cuts |-> 0]
LessonBudget == [from |-> {2}, scans |-> 0, runs |-> 2, leaves |-> 1, reflections |-> 2, cuts |-> 2]
AllBudgets == {PlanBudget, LessonBudget}
=============================================================================
