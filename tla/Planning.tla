------------------------------ MODULE Planning ------------------------------
(***************************************************************************)
(* The plan of a scan (cmd_scan): layer the module graph, partition the    *)
(* files into scopes, and schedule the scopes in waves (cdp/schedule.py).  *)
(* The plan is one computation from an inventory to waves; its phases are  *)
(* the calls of cmd_scan and of `partition`, in their order.               *)
(***************************************************************************)
EXTENDS Layering, Partition

CONSTANTS
    Inventories,    \* the [edges, files] a scan may find
    RootModule,     \* owner of the files of no module; no node of the graph
    MaxConcurrent   \* max_concurrent

ASSUME RootIsNoModule == RootModule \notin Modules
ASSUME MaxConcurrentIsPositive == MaxConcurrent \in Nat \ {0}

VARIABLES
    phase,    \* the call under way
    files,    \* inventory["files"]
    level,    \* level_of, from graph["levels"]
    scopes,   \* the scopes so far
    small,    \* small scopes in no bin yet
    bins,     \* the bins of each module
    waves     \* the waves so far: their level and their scopes

packing == <<small, bins>>

vars == <<phase, edges, files, tarjanVars, level, scopes, packing, waves>>

Owners == Modules \union {RootModule}

\* What a scan finds: no module imports itself, and no directory has the name that the
\* code makes up for the files beside the directories.
ASSUME InventoriesAreScans ==
    \A inventory \in Inventories :
        /\ inventory.edges \subseteq Edges
        /\ IsFiniteSet(inventory.files)
        /\ \A f \in inventory.files :
              f.module \in Owners /\ f.dir \in Seq(Nat \ {Loose}) /\ f.loc \in Nat

ASSUME HomesArePaths == Home \in [Owners -> Seq(Nat)]

\* A file belongs to the deepest module above it (_module_for), and no module has the
\* made-up name either.
ASSUME ModulesAreApart ==
    /\ Home \in [Owners -> Seq(Nat \ {Loose})]
    /\ \A inventory \in Inventories : \A f \in inventory.files : \A m \in Owners \ {f.module} :
          IsPrefix(Home[f.module], Home[m]) => ~IsPrefix(Home[m], Home[f.module] \o f.dir)

\* level_of.get(module, 0)
Level(s) == IF s.module \in Modules THEN level[s.module] ELSE 0

Scheduled == UNION {waves[i].scopes : i \in DOMAIN waves}

-----------------------------------------------------------------------------

Init ==
    /\ \E inventory \in Inventories :
          /\ edges = inventory.edges
          /\ files = inventory.files
    /\ LayeringInit
    /\ phase = "layer"
    /\ level = <<>>
    /\ scopes = {}
    /\ small = {}
    /\ bins = [m \in Owners |-> <<>>]
    /\ waves = <<>>

SearchStep ==
    /\ phase = "layer"
    /\ FindCycles
    /\ UNCHANGED <<phase, edges, files, level, scopes, packing, waves>>

Layer ==
    /\ phase = "layer"
    /\ CyclesFound
    /\ level' = LevelOf
    /\ phase' = "cut"
    /\ UNCHANGED <<edges, files, tarjanVars, scopes, packing, waves>>

CutModules ==
    /\ phase = "cut"
    /\ scopes' = UNION {Cut(m, {f \in files : f.module = m}) : m \in Owners}
    /\ phase' = "coalesce"
    /\ UNCHANGED <<edges, files, tarjanVars, level, packing, waves>>

\* One turn of `while changed`: a merge, or the end of the loop.
CoalesceScopes ==
    /\ phase = "coalesce"
    /\ IF Mergeable(scopes) = {}
       THEN /\ phase' = "pack"
            /\ small' = Packable(scopes)
            /\ UNCHANGED scopes
       ELSE /\ \E p \in Deepest(Mergeable(scopes)) : scopes' = MergeInto(scopes, p)
            /\ UNCHANGED <<phase, small>>
    /\ UNCHANGED <<edges, files, tarjanVars, level, bins, waves>>

\* for module in sorted(groups), for scope in small: the largest one left.
PlaceScope ==
    /\ phase = "pack"
    /\ small # {}
    /\ \E s \in small :
          /\ \A t \in small \ {s} :
                \/ s.module < t.module
                \/ s.module = t.module /\ Larger(s, t)
          /\ bins' = [bins EXCEPT ![s.module] = Place(@, s)]
          /\ small' = small \ {s}
    /\ UNCHANGED <<phase, edges, files, tarjanVars, level, scopes, waves>>

\* The bins take the place of what they hold; then assert_partition.
MergeBins ==
    /\ phase = "pack"
    /\ small = {}
    /\ LET filled == UNION {ToSet(bins[m]) : m \in Owners} IN
       scopes' = (scopes \ UNION filled) \union {Packed(bin) : bin \in filled}
    /\ phase' = IF IsPartition(scopes', files) THEN "schedule" ELSE "refused"
    /\ UNCHANGED <<edges, files, tarjanVars, level, packing, waves>>

\* The next chunk of the lowest level with scopes left, in the order of nodes.
EmitWave ==
    /\ phase = "schedule"
    /\ scopes \ Scheduled # {}
    /\ LET left == scopes \ Scheduled
           lowest == Min({Level(s) : s \in left})
           bucket == {s \in left : Level(s) = lowest}
       IN \E chunk \in kSubset(Lesser(MaxConcurrent, Cardinality(bucket)), bucket) :
             /\ \A s \in chunk, t \in bucket \ chunk : ~NodeBefore(t.node, s.node)
             /\ waves' = Append(waves, [level |-> lowest, scopes |-> chunk])
    /\ UNCHANGED <<phase, edges, files, tarjanVars, level, scopes, packing>>

EndSchedule ==
    /\ phase = "schedule"
    /\ scopes \subseteq Scheduled
    /\ phase' = "done"
    /\ UNCHANGED <<edges, files, tarjanVars, level, scopes, packing, waves>>

Next ==
    \/ SearchStep \/ Layer
    \/ CutModules \/ CoalesceScopes \/ PlaceScope \/ MergeBins
    \/ EmitWave \/ EndSchedule

Spec == Init /\ [][Next]_vars /\ WF_vars(Next)

-----------------------------------------------------------------------------

\* prompts/<node>.md of cmd_prompts, and the inbox file that answers it: of two
\* scopes with one node one stays.
Leaf(node) == CHOOSE s \in scopes : s.node = node

(***************************************************************************)
(* Every tracked file is in exactly one scope, after each of the three     *)
(* passes and not only where assert_partition looks, and no scope mixes    *)
(* the files of two modules, that have different levels.                   *)
(***************************************************************************)
EveryFileOnce ==
    phase \in {"coalesce", "pack", "schedule", "done", "refused"} =>
        /\ IsPartition(scopes, files)
        /\ \A s \in scopes : \A f \in s.files : f.module = s.module

(***************************************************************************)
(* A scope exceeds the budgets only if its files lie in one directory, that*)
(* _cut could not split: neither merging nor packing makes one.            *)
(***************************************************************************)
OnlyDirectoriesExceed ==
    phase # "layer" =>
        \A s \in scopes : ~Fits(s.files) => \A f, g \in s.files : f.dir = g.dir

(***************************************************************************)
(* _cut splits only what exceeds a budget, so what it split can never be   *)
(* put together again: _coalesce finds nothing to merge.  The small scopes *)
(* its comment is about are left to _pack_siblings.                        *)
(***************************************************************************)
NothingToCoalesce == phase = "coalesce" => Mergeable(scopes) = {}

(***************************************************************************)
(* First-fit leaves no two bins of a module apart that fit together: "a few*)
(* well-fed leaves rather than many thin ones" (_pack_siblings).           *)
(***************************************************************************)
PackedTight ==
    phase = "done" =>
        \A m \in Owners : \A i, j \in DOMAIN bins[m] : i # j => ~Fits(FilesOf(bins[m][i] \union bins[m][j]))

(***************************************************************************)
(* Each scope is in exactly one wave, a wave holds at most max_concurrent  *)
(* scopes and those of one level only, and a level is over before the next *)
(* one starts (build_schedule).                                            *)
(***************************************************************************)
WavesPartition ==
    /\ phase = "done" => Scheduled = scopes
    /\ \A i \in DOMAIN waves :
          /\ Cardinality(waves[i].scopes) \in 1..MaxConcurrent
          /\ \A s \in waves[i].scopes : Level(s) = waves[i].level
          /\ \A j \in 1..(i - 1) :
                /\ waves[j].scopes \intersect waves[i].scopes = {}
                /\ waves[j].level <= waves[i].level

(***************************************************************************)
(* "What must be understood before what": the scopes of a module that is   *)
(* in no cycle are all in earlier waves than those of its importers        *)
(* (build_schedule over _layer).  It is not so for a module of a cycle: the*)
(* cycle is lifted after the levels of its importers were computed.        *)
(***************************************************************************)
DependenciesFirst ==
    \A i, j \in DOMAIN waves : \A s \in waves[i].scopes, t \in waves[j].scopes :
        /\ <<s.module, t.module>> \in edges
        /\ \A c \in cycles : t.module \notin c
        => j < i

(***************************************************************************)
(* Every scan gets its plan: the search for cycles, with its explicit      *)
(* stack, ends, and the plan is never refused.                             *)
(***************************************************************************)
PlanIsMade == <>(phase = "done")
=============================================================================
