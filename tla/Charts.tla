------------------------------- MODULE Charts --------------------------------
(***************************************************************************)
(* The graphs that the web server draws of a view: symbols, files, the     *)
(* typed nodes of the data flow, and the directories that these roll up    *)
(* into (the graph builders of web/api/app.py, web/api/encoding.py), the   *)
(* page of a node (web/api/nodeid.py) and the flow from sources to sinks   *)
(* (web/api/flow.py).  A node is the sequence of the names of its id.      *)
(***************************************************************************)
EXTENDS Queries

CONSTANTS
    RungCeiling,    \* RUNG_SIZE_CEILING
    MaxDepth,       \* max_depth of real_container_depths
    ChartCeiling    \* GRAPH_SIZE_CEILING

\* BUCKET_OF_TYPE: the types that an id's prefix names.
BucketOf ==
    [type \in {"process:", "entity:", "table:", "route:", "config:", "library:", "migration:", "port:",
               "config-file:", "sql:"} |->
        CASE type = "process:" -> "Processes" [] type = "entity:" -> "Entities" [] type = "table:" -> "Tables"
          [] type = "route:" -> "Routes" [] type = "config:" -> "Config" [] type = "library:" -> "Libraries"
          [] type = "migration:" -> "Migrations" [] type = "port:" -> "Ports"
          [] type = "config-file:" -> "Config Files" [] type = "sql:" -> "SQL Scripts"]

\* The types whose ids are paths.
PathTypes == {"config-file:", "sql:"}

\* Every other id is a module's or a symbol's.
TypeOf(id) == IF id[1] \in DOMAIN BucketOf THEN id[1] ELSE "module:"

IsBare(id) == TypeOf(id) = "module:"

-----------------------------------------------------------------------------
(* The file that a node is drawn under *)

SymbolFile(x, key) == (CHOOSE r \in DefinersOf(x, key) : TRUE).file

\* That of the symbol, or else of the first symbol below the name.
NearestFile(x, name) ==
    LET below == {s \in Symbols(x) : IsStrictPrefix(name, s)} IN
    IF name \in Symbols(x) THEN SymbolFile(x, name)
    ELSE IF below # {} THEN SymbolFile(x, CHOOSE s \in below : TRUE)
    ELSE None

\* The id is cut at its dots: a class and its member are one part.
Dotted(id) == Len(id) - (IF "#" \in Range(id) THEN 2 ELSE 0)

\* What declares a node of another type, if a symbol does.
Owners(v, id) ==
    {s \in Symbols(v.x) :
        IsBare(s) /\ \E e \in v.edges : /\ e.channel \in {"schema_own", "http_in"}
                                        /\ <<e.source, e.target>> \in {<<s, id>>, <<id, s>>}}

OwnerFile(v, id) ==
    LET found == {n \in 1..(Dotted(id) - 1) : NearestFile(v.x, SubSeq(id, 1, n)) # None} IN
    IF TypeOf(id) \in PathTypes THEN Tail(id)
    ELSE IF ~IsBare(id)
    THEN IF Owners(v, id) = {} THEN None ELSE SymbolFile(v.x, CHOOSE s \in Owners(v, id) : TRUE)
    ELSE IF NearestFile(v.x, id) # None THEN NearestFile(v.x, id)
    ELSE IF found # {} THEN NearestFile(v.x, SubSeq(id, 1, Max(found)))
    ELSE None

-----------------------------------------------------------------------------
(* The groups that nodes roll up into *)

\* A group of several directories is one name, as is each of the other groups.
Directory(names) == IF Len(names) = 1 THEN names ELSE <<"/">> \o names

PathGroup(path, depth) ==
    IF Len(path) = 1 THEN RootLabel
    ELSE Directory(SubSeq(path, 1, Min({depth, Len(path) - 1})))

\* The directory of its file; without one the bucket of its type, or itself.
ContainerGroup(id, depth, file) ==
    IF file # None THEN PathGroup(file, depth)
    ELSE IF IsBare(id) THEN id
    ELSE <<BucketOf[TypeOf(id)]>>

\* A group with the name of a bucket has the type of the bucket.
PackageType(group) ==
    IF \E t \in DOMAIN BucketOf : group = <<BucketOf[t]>>
    THEN CHOOSE t \in DOMAIN BucketOf : group = <<BucketOf[t]>>
    ELSE "package"

DepthOf(group) == IF group[1] = "/" THEN Len(group) - 1 ELSE 1

Descends(id, group, file) == ContainerGroup(id, DepthOf(group), file) = group

\* A depth is a rung while the groups above are too big and one of them forks.
Rungs(nodes) ==
    LET files == {[id |-> n.id, path |-> n.file] : n \in {m \in nodes : m.file # None}}
        TooBig(d) == \E f \in files :
            Cardinality({g \in files : PathGroup(g.path, d) = PathGroup(f.path, d)}) > RungCeiling
        Forks(d) == \E f, g \in files : /\ PathGroup(f.path, d) = PathGroup(g.path, d)
                                        /\ PathGroup(f.path, d + 1) # PathGroup(g.path, d + 1)
    IN {d \in 1..MaxDepth : \A e \in 1..(d - 1) : TooBig(e) /\ Forks(e)}

-----------------------------------------------------------------------------
(* A chart: its nodes, with a file, a role and members, and its edges *)

Line(source, target, kind, count) == [source |-> source, target |-> target, kind |-> kind, count |-> count]

Node(id, type, file, role, members) ==
    [id |-> id, type |-> type, file |-> file, role |-> role, members |-> members]

RoleOf(file) == IF file = None THEN None ELSE Role(file)

Chart(nodes, lines) == [nodes |-> nodes, lines |-> lines]

Ids(chart) == {n.id : n \in chart.nodes}

\* The typed graph.  Only a symbol has the role of its file.
DataflowGraph(v) ==
    LET symbols == Symbols(v.x)
        RoleAt(id) == IF id \in symbols THEN RoleOf(SymbolFile(v.x, id)) ELSE None
    IN Chart({Node(id, TypeOf(id), OwnerFile(v, id), RoleAt(id), {id}) :
                 id \in {e.source : e \in v.edges} \union {e.target : e \in v.edges}},
             {Line(e.source, e.target, e.channel, 1) : e \in v.edges})

\* A scope itself and what is below it.
Kept(chart, scope) == {n.id : n \in {m \in chart.nodes : m.id = scope \/ Descends(m.id, scope, m.file)}}

\* The nodes of a scope, the edges that touch them and what is at their far ends; an
\* unknown scope restricts nothing.
RestrictToScope(chart, scope) ==
    LET keep == Kept(chart, scope)
        lines == {l \in chart.lines : l.source \in keep \/ l.target \in keep}
        ends == keep \union {l.source : l \in lines} \union {l.target : l \in lines}
    IN IF keep = {} THEN chart ELSE Chart({n \in chart.nodes : n.id \in ends}, lines)

Scoped(v, scope) == IF scope = None THEN DataflowGraph(v) ELSE RestrictToScope(DataflowGraph(v), scope)

\* Groups of nodes; a group has the role that all its members with a role share.
Packages(nodes, depth) ==
    LET Group(n) == ContainerGroup(n.id, depth, n.file)
        In(g) == {n \in nodes : Group(n) = g}
        Shared(roles) == IF Cardinality(roles) = 1 THEN CHOOSE r \in roles : TRUE ELSE None
    IN {Node(g, PackageType(g), None, Shared({n.role : n \in In(g)} \ {None}), {n.id : n \in In(g)}) :
           g \in {Group(n) : n \in nodes}}

\* The edges between two groups, each with its own kind.
Outer(chart, depth) ==
    LET Of(id) == ContainerGroup(id, depth, (CHOOSE n \in chart.nodes : n.id = id).file) IN
    {k \in {[source |-> Of(l.source), target |-> Of(l.target), line |-> l] : l \in chart.lines} : k.source # k.target}

\* Mutant: edges between two groups count once for each kind and direction.
RollUpOnce(v, depth, scope) ==
    LET base == Scoped(v, scope)
    IN Chart(Packages(base.nodes, depth),
             {Line(o.source, o.target, o.line.kind, 1) : o \in Outer(base, depth)})

\* The groups at a depth, and the edges between any two added up.
RollUp(v, depth, scope) ==
    LET base == Scoped(v, scope)
        outer == Outer(base, depth)
        Alike(o) == {m \in outer : <<m.source, m.target, m.line.kind>> = <<o.source, o.target, o.line.kind>>}
    IN Chart(Packages(base.nodes, depth),
             {Line(o.source, o.target, o.line.kind, Cardinality(Alike(o))) : o \in outer})

Blank == Chart({}, {})

\* Without a scope a chart beyond the ceiling is not drawn.
Typed(v, scope) ==
    LET chart == Scoped(v, scope) IN
    IF scope = None /\ Cardinality(chart.nodes) > ChartCeiling THEN Blank ELSE chart

\* The symbols, of one module or of all, and the edges between two of them.
SymbolChart(v, scope) ==
    LET ids == {k \in Symbols(v.x) : scope = None \/ \E r \in DefinersOf(v.x, k) : r.module = scope} IN
    Chart({Node(id, None, None, None, {id}) : id \in ids},
          {Line(e.source, e.target, e.channel, 1) : e \in {f \in v.edges : {f.source, f.target} \subseteq ids}})

\* A module stands for the scopes that the partition makes of it.
FilesOf(v, scope) == {f \in DOMAIN v.inventory.module : scope = None \/ v.inventory.module[f] = scope}

\* The imports between two files.  The files that one brings in are files of the chart
\* for the imports after it.
FileChart(v, scope) ==
    LET known == Symbols(v.x)
        imports == {l \in {Line(u.file, SymbolFile(v.x, u.fact), "import", 1) : u \in {w \in v.x.uses : w.fact \in known}} :
                       l.source # l.target}
        Add(l, drawn) ==
            IF scope # None /\ {l.source, l.target} \intersect drawn.files = {} THEN drawn
            ELSE [files |-> drawn.files \union {l.source, l.target}, lines |-> drawn.lines \union {l}]
        drawn == FoldSet(Add, [files |-> FilesOf(v, scope), lines |-> {}], imports)
    IN Chart({Node(f, None, None, RoleOf(f), {f}) : f \in drawn.files}, drawn.lines)

-----------------------------------------------------------------------------
(* GET /api/graph *)

DepthAt == [L3 |-> 1, P2 |-> 2, P3 |-> 3]

Levels(v) == {"L0", "L1", "L2"} \union {l \in DOMAIN DepthAt : DepthAt[l] \in Rungs(DataflowGraph(v).nodes)}

\* A node without a role is never hidden.
DropRoles(chart, hidden) ==
    LET nodes == {n \in chart.nodes : n.role \notin hidden}
        ids == {n.id : n \in nodes}
    IN Chart(nodes, {l \in chart.lines : {l.source, l.target} \subseteq ids})

AtLevel(v, level, scope) ==
    CASE level = "L0" -> SymbolChart(v, scope)
      [] level = "L1" -> FileChart(v, scope)
      [] level = "L2" -> Typed(v, scope)
      [] OTHER -> RollUp(v, DepthAt[level], scope)

\* The focus restricts what is left once the roles are hidden.
BuildGraph(v, level, scope, hidden, focus) ==
    LET shown == DropRoles(AtLevel(v, level, scope), hidden) IN
    IF focus = None \/ shown.nodes = {} THEN shown ELSE RestrictToScope(shown, focus)

\* A group counts for the nodes inside it.
Legend(chart) ==
    LET Of(type) == {n \in chart.nodes : n.type = type} IN
    [type \in {n.type : n \in chart.nodes} \ {None} |->
        FoldSet(LAMBDA n, count : count + Cardinality(n.members), 0, Of(type))]

-----------------------------------------------------------------------------
(* GET /api/node *)

\* The namespaces whose ids are ids of the data flow.
FlowNamespaces == DOMAIN BucketOf \ PathTypes

FromDataflowId(v, id) ==
    IF id[1] \in FlowNamespaces THEN id
    ELSE IF id \in Symbols(v.x) THEN <<"sym:">> \o id
    ELSE <<"module:">> \o id

\* Mutant: the namespace is taken off every id.
DataflowIdStripped(nodeId) == Tail(nodeId)

DataflowId(nodeId) == IF nodeId[1] \in FlowNamespaces THEN nodeId ELSE Tail(nodeId)

\* The claims of the scan name no bare route, and no edge has the channel "db".
SubjectClass(v, subject) ==
    IF subject \in Symbols(v.x) THEN <<"sym:">> \o subject
    ELSE IF subject \in v.inventory.modules THEN <<"scope:">> \o subject
    ELSE None

IsSubjectOf(v, subject, nodeId) == subject = DataflowId(nodeId) \/ SubjectClass(v, subject) = nodeId

HasEdges(nodeId) == nodeId[1] \in {"sym:", "module:"} \union FlowNamespaces

\* The scope itself, or that of the file.
ScopeOf(v, nodeId) ==
    LET rest == Tail(nodeId) IN
    CASE nodeId[1] = "scope:" /\ rest \in v.inventory.modules -> rest
      [] nodeId[1] = "file:" /\ rest \in DOMAIN v.inventory.module -> v.inventory.module[rest]
      [] OTHER -> None

\* Without claims, edges or a scope an artifact must name it.  A node of another type
\* is named by edges only.
IsNamed(v, nodeId) ==
    \/ nodeId[1] = "module:" /\ Tail(nodeId) \in v.inventory.modules
    \/ nodeId[1] = "sym:" /\ Tail(nodeId) \in Symbols(v.x)

\* The nodes that raised a question are left out.
NodePage(v, nodeId) ==
    [claims   |-> {c \in v.claims : IsSubjectOf(v, c.subject, nodeId)},
     unknowns |-> {u \in v.unknowns : IsSubjectOf(v, u.subject, nodeId)},
     in       |-> {e \in v.edges : HasEdges(nodeId) /\ e.target = DataflowId(nodeId)},
     out      |-> {e \in v.edges : HasEdges(nodeId) /\ e.source = DataflowId(nodeId)},
     scope    |-> ScopeOf(v, nodeId)]

\* 404 otherwise.
HasPage(v, nodeId) ==
    LET page == NodePage(v, nodeId) IN
    page.claims \union page.in \union page.out # {} \/ page.scope # None \/ IsNamed(v, nodeId)

-----------------------------------------------------------------------------
(* GET /api/confidence *)

\* The confidence that derive.py gives a claim: 1 for low, 2 for medium, 3 for high.
ConfidenceRank(v, c) ==
    CASE c.tag = "route_unresolved" -> 1
      [] \/ c.tag = "process_boundary"
         \/ c.kind = "data_model" /\ c.subject[1] = "entity:"
         \/ c.kind = "dependency" /\ c.subject \notin {d.from \o <<"->">> \o d.to : d \in v.graph.declared} -> 2
      [] OTHER -> 3

\* The node that a subject is drawn at: itself, the class of a member, or its class of ids.
SubjectToGraphId(v, subject, ids) ==
    LET class == SubjectClass(v, subject) IN
    IF subject \in ids THEN subject
    ELSE IF ClassOf(subject) \in ids THEN ClassOf(subject)
    ELSE IF class # None /\ DataflowId(class) \in ids THEN DataflowId(class)
    ELSE None

\* The lowest confidence of the claims about a node or one of its members.
Confidence(v, chart) ==
    LET ids == UNION {{n.id} \union n.members : n \in chart.nodes}
        drawn == {[id |-> SubjectToGraphId(v, c.subject, ids), rank |-> ConfidenceRank(v, c)] : c \in v.claims}
        Ranks(n) == {d.rank : d \in {c \in drawn : c.id \in {n.id} \union n.members}}
    IN [id \in {n.id : n \in {m \in chart.nodes : Ranks(m) # {}}} |->
           Min(UNION {Ranks(n) : n \in {m \in chart.nodes : m.id = id}})]

-----------------------------------------------------------------------------
(* GET /api/flow *)

DefaultKinds == {"http_in", "persist", "http_out", "metric_emit"}
OptionalKinds == {"call", "config_read"}

IsUrl(id) == id[1] = "http:"

IsCode(id) == TypeOf(id) \in {"module:", "sql:", "migration:"}

\* The extractors name code when they say what a file is, imports, serves or stores; no
\* file imports by URL, and a call is never read out of a file.
ASSUME CodeIsNamed ==
    /\ None \notin {"test", "package"} \union DOMAIN BucketOf
    /\ \A c \in DOMAIN Facts : Facts[c] # None =>
          /\ \A id \in Facts[c].uses \union ({Facts[c].primary} \ {None}) : IsCode(id) /\ ~IsUrl(id)
          /\ \A d \in Facts[c].defines : TypeOf(d.fqn) # "route:"
          /\ \A e \in Facts[c].ioEdges :
                /\ e.channel # "call"
                /\ e.channel = "persist" \/ (e.channel = "http_in" /\ TypeOf(e.target) = "route:") =>
                      IsCode(e.source) /\ ~IsUrl(e.source)

\* A directory of several names is told from an id by its first name.
ASSUME SlashIsNoName ==
    \A c \in DOMAIN Facts : Facts[c] # None =>
        \A id \in Facts[c].uses \union ({Facts[c].primary} \ {None})
                    \union UNION {{e.source, e.target} : e \in Facts[c].ioEdges} : id[1] # "/"

\* The edges, as lines of the typed graph, but for those from or to a test.
Untested(base) ==
    LET tests == {n.id : n \in {m \in base.nodes : m.role = "test"}} IN
    {l \in base.lines : l.source \notin tests /\ l.target \notin tests}

\* The modules that an edge to or from a scheduler marks.
Jobs(base) ==
    {id \in {IF IsBare(l.target) THEN l.target ELSE l.source : l \in {k \in Untested(base) : k.kind = "schedule"}} :
        IsBare(id)}

LibrarySink(l) == <<"flow-sink:", l.kind>> \o l.target

\* Mutant: every edge flows from its source.
AsStored(l) == <<l.source, l.target>>

\* Data enters at a route and at a key: such an edge is reversed.
Oriented(l) ==
    IF l.kind \in {"http_in", "config_read"} THEN <<l.target, l.source>>
    ELSE IF IsLibrary(l.target) THEN <<l.source, LibrarySink(l)>>
    ELSE <<l.source, l.target>>

\* The edges that carry data from a source to a sink.
Carries(l, jobs, include) ==
    LET to == TypeOf(l.target) IN
    /\ \/ l.kind \in DefaultKinds \union include
       \/ l.kind = "call" /\ l.source \in jobs
    /\ IsCode(l.source) /\ ~IsUrl(l.source)
    /\ \/ l.kind = "http_in" /\ to = "route:"
       \/ l.kind = "config_read" /\ to = "config:"
       \/ l.kind = "persist" /\ to \in {"table:", "entity:"}
       \/ l.kind = "http_out" /\ IsUrl(l.target)
       \/ l.kind \in {"http_out", "metric_emit"} /\ to = "library:"
       \/ l.kind = "call" /\ IsCode(l.target) /\ ~IsUrl(l.target) /\ l.source # l.target

BuildFlow(base, include) ==
    LET jobs == Jobs(base)
        flows == {[ends |-> Oriented(l), line |-> l] : l \in {k \in Untested(base) : Carries(k, jobs, include)}}
        Alike(f) == {g \in flows : g.ends = f.ends /\ g.line.kind = f.line.kind}
    IN {Line(f.ends[1], f.ends[2], f.line.kind, Cardinality(Alike(f))) : f \in flows}

\* Where the flow draws a node: its type, for code the directory of its file.
FlowGroup(base, id) ==
    LET files == {n.file : n \in {m \in base.nodes : m.id = id}} \ {None} IN
    IF id \in Jobs(base) THEN <<"group:jobs">>
    ELSE IF ~IsCode(id) \/ IsUrl(id) \/ id[1] = "flow-sink:" THEN <<"group:", id[1]>>
    ELSE IF files = {} THEN <<"code:", "(other)">>
    ELSE <<"code:">> \o PathGroup(CHOOSE f \in files : TRUE, 1)
=============================================================================
