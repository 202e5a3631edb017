----------------------------- MODULE MCPlanning -----------------------------
EXTENDS Prompting

File(m, d, n, l) == [module |-> m, dir |-> d, name |-> n, loc |-> l]

\* Modules 1, 2, 3 below the root, and 4 nested in module 1.
Homes == 0 :> <<>> @@ 1 :> <<1>> @@ 2 :> <<2>> @@ 3 :> <<3>> @@ 4 :> <<1, 4>>

\* One file for each module and one for none.
OneFileEach == {File(m, <<>>, 1, 2) : m \in Owners}

\* Every graph over the modules.
EveryGraph == [edges : SUBSET Edges, files : {OneFileEach}]

\* What a module may hold: directories two deep, each with a file or not.
Slots == {<<>>, <<1>>, <<1, 1>>, <<1, 2>>, <<2>>, <<2, 1>>}

\* 0 stands for no file; 3 is more than half of the budget.
EveryLayout ==
    {{File(1, d, 1, loc[d]) : d \in {x \in Slots : loc[x] > 0}} : loc \in [Slots -> {0, 1, 3}]}

\* Short files, for the limit on their number.
Crowded ==
    {UNION {{File(1, d, n, 1) : n \in 1..count[d]} : d \in DOMAIN count} :
        count \in [Slots \ {<<1, 2>>} -> {0, 1, 3}]}

\* Six directories that each fill less than half of a scope; the fourth is a module.
Shelves == {{File(1, <<d>>, 1, loc[d]) : d \in DOMAIN loc} : loc \in [(1..7) \ {4} -> {1, 2}]}

\* Beside the layouts: a nested module, the root's files, and an importer.
Beside == {File(4, <<>>, 1, 1), File(0, <<>>, 1, 1), File(0, <<5>>, 1, 5), File(2, <<>>, 1, 3)}

LayoutsWithNeighbours ==
    [edges : {{<<2, 1>>, <<1, 4>>}}, files : {l \union Beside : l \in EveryLayout \union Crowded \union Shelves}]

EveryPlan == EveryGraph \union LayoutsWithNeighbours

\* A file defines one symbol; the one at the root of a module is the one imported.
Symbol(f) == <<f.module>> \o f.dir \o <<f.name>>

\* Beside them module 3 uses a library, and module 4 what nobody defines.
MCImports(f, graph) ==
    {<<m, 1>> : m \in {n \in Modules : <<f.module, n>> \in graph}}
      \union (CASE f.module = 3 -> {<<8, 1>>} [] f.module = 4 -> {<<9, 1>>} [] OTHER -> {})

\* A claim about a symbol, and one about a table.
MCAnswer(s) ==
    {[subject |-> Symbol(CHOOSE f \in s.files : TRUE), kind |-> "invariant", evidence |-> Cardinality(s.files), nodes |-> {}],
     [subject |-> <<7>> \o s.node, kind |-> "data_model", evidence |-> 1, nodes |-> {}]}

MCUnsure(s) == s.module = 2

MCStructure(f) == [types |-> 1, constants |-> f.loc, edges |-> 1]
=============================================================================
