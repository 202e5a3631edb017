----------------------------- MODULE Partition ------------------------------
(***************************************************************************)
(* The budget-driven partition (cdp/partition.py) as operators on a set of *)
(* files: _cut, _coalesce and _pack_siblings, in the order `partition`     *)
(* applies them.                                                           *)
(*                                                                         *)
(* A path is a sequence of numbers, one for each segment below the root;   *)
(* a file is [module, dir, name, loc] with its directory relative to its   *)
(* module.  A scope is [node, module, files, oversized]: its path, and the *)
(* files that its file_count and loc count.  The segments the code makes   *)
(* up start with Loose, that sorts before every directory as "(" does.     *)
(***************************************************************************)
EXTENDS Integers, SequencesExt

CONSTANTS
    MaxFiles,   \* max_files
    MaxLoc,     \* max_loc
    Home        \* the path of each module; <<>> for the root module

ASSUME BudgetsArePositive == MaxFiles \in Nat \ {0} /\ MaxLoc \in Nat \ {0}

Loose == 0

Loc(files) == MapThenSumSet(LAMBDA f : f.loc, files)

Fits(files) == Cardinality(files) <= MaxFiles /\ Loc(files) <= MaxLoc

FilesOf(scopes) == UNION {s.files : s \in scopes}

\* The order of two node strings.
NodeBefore(a, b) ==
    \/ IsStrictPrefix(a, b)
    \/ \E i \in DOMAIN a \intersect DOMAIN b :
           a[i] < b[i] /\ \A j \in 1..(i - 1) : a[j] = b[j]

-----------------------------------------------------------------------------
(* _cut: a directory within the budgets is a scope, any other is split into *)
(* its subdirectories and the files that lie in it.                         *)

Under(files, d) == {f \in files : IsPrefix(d, f.dir)}

Here(files, d) == {f \in files : f.dir = d}

\* Over budget, with a subdirectory to cut at.
Splits(files, d) == ~Fits(Under(files, d)) /\ Under(files, d) # Here(files, d)

\* The directories _cut is called on: every one above them was split.
Reached(files) ==
    {d \in UNION {Prefixes(f.dir) : f \in files} :
        \A above \in Prefixes(d) \ {d} : Splits(files, above)}

\* Whole directories, and the files beside the subdirectories of a split one.
Cut(module, files) ==
    {[node |-> Home[module] \o d, module |-> module, files |-> Under(files, d),
      oversized |-> ~Fits(Under(files, d))] :
         d \in {x \in Reached(files) : ~Splits(files, x)}}
    \union
    {[node |-> Home[module] \o d \o <<Loose>>, module |-> module, files |-> Here(files, d),
      oversized |-> FALSE] :
         d \in {x \in Reached(files) : Splits(files, x) /\ Here(files, x) # {}}}

-----------------------------------------------------------------------------
(* _coalesce: as long as some parent's scopes are two or more, of one       *)
(* module, none oversized, and fit together, they become the parent.  Of    *)
(* the deepest such parents any may be first: they share no scope.          *)

Parents(scopes) == {Front(s.node) : s \in {x \in scopes : x.node # <<>>}}

Group(scopes, parent) == {s \in scopes : IsPrefix(parent, s.node)}

Mergeable(scopes) ==
    {p \in Parents(scopes) :
        LET group == Group(scopes, p) IN
        /\ Cardinality(group) >= 2
        /\ \A s, t \in group : s.module = t.module
        /\ Fits(FilesOf(group))
        /\ \A s \in group : ~s.oversized}

MergeInto(scopes, parent) ==
    LET group == Group(scopes, parent) IN
    (scopes \ group)
      \union {[node |-> parent, module |-> s.module, files |-> FilesOf(group),
               oversized |-> FALSE] : s \in group}

Deepest(parents) == {p \in parents : \A q \in parents : Len(q) <= Len(p)}

-----------------------------------------------------------------------------
(* _pack_siblings: the scopes of a module that fill no more than half of    *)
(* each budget go first-fit, largest first, into bins within the budgets.   *)

Small(scopes) ==
    {s \in scopes : ~s.oversized /\ 2 * Cardinality(s.files) <= MaxFiles /\ 2 * Loc(s.files) <= MaxLoc}

\* The small scopes of the modules that have two or more.
Packable(scopes) ==
    {s \in Small(scopes) : \E t \in Small(scopes) : t # s /\ t.module = s.module}

\* The sort key (-loc, -file_count, node).
Larger(s, t) ==
    \/ Loc(s.files) > Loc(t.files)
    \/ /\ Loc(s.files) = Loc(t.files)
       /\ \/ Cardinality(s.files) > Cardinality(t.files)
          \/ Cardinality(s.files) = Cardinality(t.files) /\ NodeBefore(s.node, t.node)

\* Mutant: only the lines of the bin are counted.
PlaceByLines(bins, scope) ==
    LET slot == SelectInSeq(bins, LAMBDA bin : Loc(FilesOf(bin \union {scope})) <= MaxLoc) IN
    IF slot = 0 THEN Append(bins, {scope})
    ELSE [bins EXCEPT ![slot] = @ \union {scope}]

\* The first bin with room, or a new one.
Place(bins, scope) ==
    LET slot == SelectInSeq(bins, LAMBDA bin : Fits(FilesOf(bin \union {scope}))) IN
    IF slot = 0 THEN Append(bins, {scope})
    ELSE [bins EXCEPT ![slot] = @ \union {scope}]

\* _merge_scopes: the path all members share, the last segment of the first
\* of them, and how many more there are.
MergeScopes(bin) ==
    LET first == CHOOSE s \in bin : \A t \in bin \ {s} : NodeBefore(s.node, t.node) IN
    [node |-> LongestCommonPrefix({s.node : s \in bin})
                \o <<Loose, Last(first.node), Cardinality(bin) - 1>>,
     module |-> first.module, files |-> FilesOf(bin), oversized |-> FALSE]

\* A bin of one is its scope.
Packed(bin) == IF Cardinality(bin) = 1 THEN CHOOSE s \in bin : TRUE ELSE MergeScopes(bin)

\* assert_partition: no file twice, none missing, none invented.
IsPartition(scopes, files) ==
    /\ \A s, t \in scopes : s # t => s.files \intersect t.files = {}
    /\ FilesOf(scopes) = files
=============================================================================
