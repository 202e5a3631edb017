------------------------------ MODULE Layering ------------------------------
(***************************************************************************)
(* The layering of the module graph (cdp/graph.py, _find_cycles and        *)
(* _layer): Tarjan's strongly connected components, with the explicit work *)
(* stack of the code, one action per child looked at; then the longest     *)
(* path to a leaf, and the members of a cycle lifted to its deepest one.   *)
(*                                                                         *)
(* Modules are numbers, so that sorted(...) is the order of the numbers.   *)
(* An edge <<a, b>> says that a imports b; build_graph drops self edges.   *)
(***************************************************************************)
EXTENDS Integers, SequencesExt

CONSTANT Modules

ASSUME ModulesAreNumbers == Modules \subseteq Nat /\ IsFiniteSet(Modules)

VARIABLES
    edges,   \* observed_pairs
    index,   \* the order of discovery, of the modules discovered so far
    low,     \* the least index a module is known to reach
    stack,   \* discovered, not yet in a component
    work,    \* the explicit recursion: a module and the children left to look at
    cycles   \* result: the components of more than one module

tarjanVars == <<index, low, stack, work, cycles>>

Edges == {e \in Modules \X Modules : e[1] # e[2]}

Deps(m) == {d \in Modules : <<m, d>> \in edges}

Lesser(a, b) == IF a < b THEN a ELSE b

Unvisited == Modules \ DOMAIN index

Top == Last(work)

\* Mutant: every visit starts over with the children.
AdvancedNever == work

\* next(it): the first child left of the module on top has been taken.
Advanced == [work EXCEPT ![Len(work)].todo = @ \ {Min(@)}]

LayeringInit ==
    /\ index = <<>>
    /\ low = <<>>
    /\ stack = <<>>
    /\ work = <<>>
    /\ cycles = {}

-----------------------------------------------------------------------------

\* The function f with m mapped to v.
With(f, m, v) == [x \in DOMAIN f \union {m} |-> IF x = m THEN v ELSE f[x]]

\* m gets the next index and a frame of its own above `frames`.
Discover(m, frames) ==
    LET counter == Cardinality(DOMAIN index) IN
    /\ index' = With(index, m, counter)
    /\ low' = With(low, m, counter)
    /\ stack' = Append(stack, m)
    /\ work' = Append(frames, [node |-> m, todo |-> Deps(m)])
    /\ UNCHANGED cycles

\* for root in sorted(deps): a root that no earlier one has reached.
NextRoot ==
    /\ work = <<>>
    /\ Unvisited # {}
    /\ Discover(Min(Unvisited), work)

\* The next child is new: the loop over children is left to look at it first.
Descend ==
    /\ work # <<>>
    /\ Top.todo # {}
    /\ Min(Top.todo) \in Unvisited
    /\ Discover(Min(Top.todo), Advanced)

\* The next child is known: it lowers its parent if it is still on the stack.
LookBack ==
    /\ work # <<>>
    /\ Top.todo # {}
    /\ LET child == Min(Top.todo) IN
       /\ child \notin Unvisited
       /\ low' = IF child \in ToSet(stack)
                 THEN [low EXCEPT ![Top.node] = Lesser(@, index[child])]
                 ELSE low
    /\ work' = Advanced
    /\ UNCHANGED <<index, stack, cycles>>

\* No child left: hand `low` to the parent, and when the module is the root of
\* its component, pop the component.
Finish ==
    /\ work # <<>>
    /\ Top.todo = {}
    /\ LET m == Top.node
           rest == Front(work)
           at == SelectInSeq(stack, LAMBDA x : x = m)
           component == {stack[i] : i \in at..Len(stack)}
       IN
       /\ work' = rest
       /\ low' = IF rest = <<>> THEN low
                 ELSE [low EXCEPT ![Last(rest).node] = Lesser(@, low[m])]
       /\ IF low[m] = index[m]
          THEN /\ stack' = SubSeq(stack, 1, at - 1)
               /\ cycles' = IF Cardinality(component) > 1
                            THEN cycles \union {component} ELSE cycles
          ELSE UNCHANGED <<stack, cycles>>
    /\ UNCHANGED index

FindCycles == NextRoot \/ Descend \/ LookBack \/ Finish

CyclesFound == work = <<>> /\ Unvisited = {}

-----------------------------------------------------------------------------

SameCycle(a, b) == \E c \in cycles : {a, b} \subseteq c

\* depth(node, seen): outside the cycles the graph has none, so that `seen`
\* never stops the descent.
Depth ==
    LET depth[m \in Modules] ==
          Max({0} \union {depth[d] + 1 : d \in {x \in Deps(m) : ~SameCycle(m, x)}})
    IN depth

\* Mutant: the members of a cycle get the level of the shallowest one.
LiftedToLowest ==
    LET depth == Depth IN
    [m \in Modules |-> Min({depth[m]} \union {depth[x] : x \in {y \in Modules : SameCycle(m, y)}})]

\* The members of a cycle get the level of the deepest one.
Lifted ==
    LET depth == Depth IN
    [m \in Modules |-> Max({depth[m]} \union {depth[x] : x \in {y \in Modules : SameCycle(m, y)}})]

\* level_of of build_schedule: levels no module has are dropped.
LevelOf ==
    LET lifted == Lifted IN
    [m \in Modules |-> Cardinality({lifted[x] : x \in {y \in Modules : lifted[y] < lifted[m]}})]

-----------------------------------------------------------------------------

\* b is reached from a: every set that holds a and what its members import holds b.
Reaches(a, b) ==
    \A S \in SUBSET Modules :
        (a \in S /\ \A e \in edges : e[1] \in S => e[2] \in S) => b \in S

Component(m) == {x \in Modules : Reaches(m, x) /\ Reaches(x, m)}

(***************************************************************************)
(* The cycles reported are exactly the sets of modules that import each    *)
(* other, directly or not (_find_cycles).                                  *)
(***************************************************************************)
CyclesAreComponents ==
    CyclesFound => cycles = {c \in {Component(m) : m \in Modules} : Cardinality(c) > 1}

(***************************************************************************)
(* Tarjan's stack: what is on it was discovered in the order it lies       *)
(* there, `low` never passes a module's own index, and it always names     *)
(* another module of the stack, so that a component popped from it is      *)
(* complete (the low-link argument behind _find_cycles).                   *)
(***************************************************************************)
LowLinks ==
    /\ \A i, j \in 1..Len(stack) : i < j => index[stack[i]] < index[stack[j]]
    /\ \A i \in 1..Len(stack) :
           /\ low[stack[i]] <= index[stack[i]]
           /\ \E j \in 1..i : index[stack[j]] = low[stack[i]]
    /\ \A i \in 1..Len(work) : work[i].node \in ToSet(stack)
=============================================================================
