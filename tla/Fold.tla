-------------------------------- MODULE Fold --------------------------------
(***************************************************************************)
(* state.fold (cdp/state.py) as a function of the patch log.               *)
(*                                                                         *)
(* A patch is a row of claim_patch: its place in the log, its node, the    *)
(* run it is stamped with, its status and generation, the commit whose     *)
(* inventory stamped it (claim_reviewed_at) and the tree its author quoted *)
(* lines from. A complete patch stands for its claims, all of which cite   *)
(* files of its own node, so a patch is also the name of its claims and of *)
(* its questions. Drift says what happened to the cited files of a node    *)
(* between any two commits.                                                *)
(***************************************************************************)
EXTENDS Integers, FiniteSetsExt

CONSTANTS
    Nodes,   \* nodes of the partition, and root
    Drift,   \* [Nodes -> Drifts]
    Answer,  \* the run of the patches `cdp answer` writes
    None     \* no commit

\* Nothing; other lines of the cited files; their names; the cited lines.
Drifts == {"same", "touched", "renamed", "edited"}

ASSUME FoldAssumption == Drift \in [Nodes -> Drifts]

Statuses == {"complete", "invalid", "failed"}

STATUS_RANK == [none |-> 0, failed |-> 2, invalid |-> 3, complete |-> 4]

\* Mutant: the rolled-back runs are dropped only when they failed.
CountedDespite(patches, excluded) ==
    {p \in patches : p.run \notin excluded \/ p.status = "complete"}

\* A patch of an excluded run is dropped before anything else runs.
Counted(patches, excluded) == {p \in patches : p.run \notin excluded}

Complete(patches) == {p \in patches : p.status = "complete"}

Of(patches, n) == {p \in patches : p.node = n}

\* A node's status is the best of its attempts.
NodeStatus(patches, n) ==
    LET statuses == {p.status : p \in Of(patches, n)} IN
    IF statuses = {} THEN "none"
    ELSE CHOOSE s \in statuses :
           \A t \in statuses : STATUS_RANK[t] <= STATUS_RANK[s]

\* best_complete: the complete patch of the highest generation. Two patches
\* of one generation are told apart by their hash, a fixed arbitrary order.
Best(patches, n) ==
    LET attempts == Of(Complete(patches), n) IN
    CHOOSE p \in attempts : \A q \in attempts : q.generation <= p.generation

Live(patches) ==
    {Best(patches, n) : n \in {m \in Nodes : Of(Complete(patches), m) # {}}}

\* verify_patch: the cited lines are found in the tree that is checked out.
\* A fold that was given the renames since commit `from` follows them.
Anchored(p, tree, from) ==
    \/ p.tree = tree
    \/ Drift[p.node] \in {"same", "touched"}
    \/ Drift[p.node] = "renamed" /\ p.tree = from

\* R9: such a fold takes the review of a claim back when its file was edited.
Reviewed(p, from) ==
    from # None => Drift[p.node] \notin {"touched", "edited"}

\* Mutant: questions are superseded with the claims of their generation.
AskedByLive(patches) == {p \in Live(patches) : p.run # Answer}

\* R12: the questions of every complete patch, superseded or not.
Asked(patches) == {p \in Complete(patches) : p.run # Answer}

\* The state artifact: claims[], those of them without a review, and the three
\* sources of unknowns[].
FoldOf(all, excluded, tree, from) ==
    LET patches == Counted(all, excluded)
        claims == {p \in Live(patches) : Anchored(p, tree, from)}
    IN  [claims     |-> claims,
         unreviewed |-> {p \in claims : ~Reviewed(p, from)},
         asked      |-> Asked(patches),
         demoted    |-> {p \in Complete(patches) : ~Anchored(p, tree, from)},
         gaps       |-> {n \in Nodes : NodeStatus(patches, n) \in {"failed", "invalid"}},
         tree       |-> tree]

\* Mutant: the new patch takes the highest generation there is.
NextGenerationRepeated(patches, n) ==
    IF Of(patches, n) = {} THEN 1 ELSE Max({p.generation : p \in Of(patches, n)})

\* Mutant: the first attempt has no generation before it.
NextGenerationFromZero(patches, n) ==
    IF Of(patches, n) = {} THEN 0
    ELSE Max({p.generation : p \in Of(patches, n)}) + 1

\* cli._next_generation: a patch without a generation counts as the first.
NextGeneration(patches, n) ==
    IF Of(patches, n) = {} THEN 1
    ELSE Max({p.generation : p \in Of(patches, n)}) + 1
=============================================================================
