------------------------------- MODULE Portal --------------------------------
(***************************************************************************)
(* The web server beside the commands of Atlas: each request reads the     *)
(* view of the latest snapshot and writes nothing (get_graph, get_flow,    *)
(* get_confidence and get_node of web/api/app.py).  The browser shows one  *)
(* page at a time.                                                         *)
(***************************************************************************)
EXTENDS Atlas, Charts

CONSTANTS
    ChartScopes, Focuses,   \* the scopes and the focuses that a browser asks for
    NodeIds                 \* the node ids that it asks for

VARIABLE page       \* what the browser shows, None before a request

portalVars == <<vars, page>>

Show(shown) ==
    /\ page' = shown
    /\ UNCHANGED vars

GetGraph(level, scope, hidden, focus) ==
    \E chart \in {BuildGraph(view, level, scope, hidden, focus)} :
    Show([kind |-> "graph", level |-> level, scope |-> scope, hidden |-> hidden, focus |-> focus,
          chart |-> chart, legend |-> Legend(chart)])

GetConfidence(level, scope) ==
    Show([kind |-> "confidence", level |-> level, scope |-> scope,
          buckets |-> Confidence(view, AtLevel(view, level, scope))])

GetFlow(include) ==
    LET base == DataflowGraph(view)
        lines == BuildFlow(base, include)
    IN Show([kind |-> "flow", include |-> include, lines |-> lines,
             groups |-> [id \in {l.source : l \in lines} \union {l.target : l \in lines} |-> FlowGroup(base, id)]])

GetNode(nodeId) ==
    /\ HasPage(view, nodeId)
    /\ Show([kind |-> "node", nodeId |-> nodeId, shown |-> NodePage(view, nodeId)])

Leave ==
    /\ page # None
    /\ page' = None
    /\ UNCHANGED vars

PortalInit == Init /\ page = None

Get ==
    /\ page = None /\ answer = None /\ view # None
    /\ \/ \E level \in Levels(view), scope \in ChartScopes, hidden \in RoleSets, focus \in Focuses :
             GetGraph(level, scope, hidden, focus)
       \/ \E level \in Levels(view), scope \in ChartScopes : GetConfidence(level, scope)
       \/ \E include \in SUBSET OptionalKinds : GetFlow(include)
       \/ \E nodeId \in NodeIds : GetNode(nodeId)

PortalNext ==
    \/ page = None /\ Next /\ UNCHANGED page
    \/ Get
    \/ Leave

PortalSpec == PortalInit /\ [][PortalNext]_portalVars

-----------------------------------------------------------------------------

\* Whatever is asked for, both ends of every line are drawn, a hidden role is not, and
\* a node of the data flow opens a page that has every line of the chart at the node
\* (_dataflow_graph: "source and target always live in the same namespace").
ChartIsClosed ==
    page # None /\ page.kind = "graph" =>
        LET lines == page.chart.lines
            Opens(id) ==
                LET opened == NodePage(view, FromDataflowId(view, id)) IN
                /\ HasPage(view, FromDataflowId(view, id))
                /\ {<<l.target, l.kind>> : l \in {k \in lines : k.source = id}} \subseteq {<<e.target, e.channel>> : e \in opened.out}
                /\ {<<l.source, l.kind>> : l \in {k \in lines : k.target = id}} \subseteq {<<e.source, e.channel>> : e \in opened.in}
        IN /\ {l.source : l \in lines} \union {l.target : l \in lines} \subseteq Ids(page.chart)
           /\ \A n \in page.chart.nodes : n.role \notin page.hidden
           /\ page.level = "L2" => \A id \in Ids(page.chart) : Opens(id)

\* A chart of groups leaves out no node and no edge of the typed graph: the groups
\* share the nodes out, the lines between groups and the edges inside them add up to
\* the edges, and the legend counts every node.  A deeper rung divides the groups of
\* the rung above (_legend: it "reads the same at both altitudes").
RollupIsFaithful ==
    page # None /\ page.kind = "graph" /\ page.level \in DOMAIN DepthAt
             /\ page.hidden = {} /\ page.focus = None =>
        LET groups == page.chart.nodes
            base == Scoped(view, page.scope)
            inner == {l \in base.lines : \E g \in groups : {l.source, l.target} \subseteq g.members}
            deeper == {l \in Levels(view) \intersect DOMAIN DepthAt : DepthAt[l] = DepthAt[page.level] + 1}
        IN /\ UNION {g.members : g \in groups} = Ids(base)
           /\ \A g, h \in groups : g # h => g.members \intersect h.members = {}
           /\ FoldSet(LAMBDA l, n : n + l.count, 0, page.chart.lines) + Cardinality(inner) = Cardinality(base.lines)
           /\ FoldFunction(+, 0, page.legend) = Cardinality(base.nodes)
           /\ \A d \in deeper : \A g \in RollUp(view, DepthAt[d], page.scope).nodes :
                 \E h \in groups : g.members \subseteq h.members

\* What query paths traces from a route to a table or an entity, the flow shows as a
\* path in the same direction, once calls are included and unless tests are on the path
\* (build_flow: "data enters at the route, so it is reversed here").
FlowHasThePaths ==
    page # None /\ page.kind = "flow" /\ "call" \in page.include =>
        LET flows == {<<l.source, l.target>> : l \in page.lines}
            tests == {n.id : n \in {m \in DataflowGraph(view).nodes : m.role = "test"}}
            Steps(p) == {<<p.hops[i].source, p.hops[i].target>> : i \in DOMAIN p.hops}
        IN \A p \in Paths(view.edges) :
              /\ p.source.channel = "http_in" /\ TypeOf(p.source.target) = "route:"
              /\ Last(p.hops).channel = "persist" /\ TypeOf(p.sink) \in {"table:", "entity:"}
              /\ \A hop \in Range(Front(p.hops)) : hop.channel = "call"
              /\ \A hop \in Steps(p) : Range(hop) \intersect tests = {}
              => {<<p.source.target, p.source.source>>} \union Steps(p) \subseteq flows
=============================================================================
