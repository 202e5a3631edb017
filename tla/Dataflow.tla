------------------------------ MODULE Dataflow -------------------------------
(***************************************************************************)
(* The typed edges between symbols, tables and routes, the paths from what *)
(* triggers a computation to its effects, and the storage that two         *)
(* processes share (cdp/dataflow.py).  The cap of 2000 paths is left out:  *)
(* no instance comes near it.                                              *)
(***************************************************************************)
EXTENDS Resolution

CONSTANT MaxHops        \* --max-hops

ASSUME MaxHopsIsNumber == MaxHops \in Nat

SourceChannels == {"http_in", "schedule", "event_subscribe", "process_boundary"}
SinkChannels == {"persist", "http_out", "ssh_exec", "event_publish", "metric_emit", "schema_own"}
Traversable == {"call", "map", "persist", "read", "http_out", "ssh_exec",
                "event_publish", "metric_emit", "config_read"}

IsLibrary(target) == target[1] = "library:"

Primary(x, file) == IF file \in DOMAIN x.files THEN x.files[file].primary ELSE None

-----------------------------------------------------------------------------

Edge(source, target, channel, row) ==
    [source |-> source, target |-> target, channel |-> channel, module |-> row.module, file |-> row.file]

\* One of the edges that say the same: the first in the order of files.
Deduped(edges) ==
    LET Key(e) == <<e.source, e.target, e.channel>> IN
    {CHOOSE e \in edges : Key(e) = k : k \in {Key(e) : e \in edges}}

\* What an import makes reachable: the file's primary symbol calls what it imports.
CallEdges(x, uses) ==
    LET Calls(u) ==
            /\ u.how \in {"local", "matched"}
            /\ Primary(x, u.use.file) \notin {None, u.use.fact}
            /\ Last(u.use.fact) # Wild
    IN {Edge(Primary(x, u.use.file), u.use.fact, "call", u.use) : u \in {r \in uses : Calls(r)}}

FlowEdges(x, uses) ==
    Deduped({Edge(r.fact.source, r.fact.target, r.fact.channel, r) : r \in x.ioEdges})
        \union Deduped(CallEdges(x, uses))

\* One source for each symbol and channel, with the first of its triggers.
FlowSources(edges) ==
    LET starts == {e \in edges : e.channel \in SourceChannels /\ ~IsLibrary(e.target)} IN
    {CHOOSE e \in starts : <<e.source, e.channel>> = k : k \in {<<e.source, e.channel>> : e \in starts}}

-----------------------------------------------------------------------------

Visited(source, trail) == {source.source} \union {trail[i].target : i \in DOMAIN trail}

\* Mutant: a node is entered once by all walks together, not once by each.
OnwardGlobally(edges, source, trail) ==
    LET node == IF trail = <<>> THEN source.source ELSE Last(trail).target IN
    {e \in edges :
        /\ e.source = node
        /\ e.channel \in Traversable /\ ~IsLibrary(e.target)
        /\ e.target \notin Visited(source, trail)
        /\ \A f \in edges : f.target = e.target => e = CHOOSE g \in edges : g.target = e.target}

\* The edges that a walk from the source may take next.
Onward(edges, source, trail) ==
    LET node == IF trail = <<>> THEN source.source ELSE Last(trail).target IN
    {e \in edges :
        /\ e.source = node
        /\ e.channel \in Traversable /\ ~IsLibrary(e.target)
        /\ e.target \notin Visited(source, trail)}

\* The walks of up to MaxHops edges that visit no node twice.
Walks(edges, source) ==
    LET walk[n \in 0..MaxHops] ==
            IF n = 0 THEN {<<>>}
            ELSE UNION {{Append(t, e) : e \in Onward(edges, source, t)} : t \in walk[n - 1]}
    IN UNION {walk[n] : n \in 1..MaxHops}

\* A walk that ends with an effect is a path; of those to one sink the shortest stays.
PathsFrom(edges, source) ==
    LET found == {t \in Walks(edges, source) : Last(t).channel \in SinkChannels}
        To(sink) == {t \in found : Last(t).target = sink}
    IN {[source |-> source, sink |-> sink,
         hops |-> CHOOSE t \in To(sink) : \A o \in To(sink) : Len(t) <= Len(o)] :
            sink \in {Last(t).target : t \in found}}

Paths(edges) == UNION {PathsFrom(edges, s) : s \in FlowSources(edges)}

-----------------------------------------------------------------------------

\* A module and what it depends on.
Closure(module, deps) ==
    LET modules == {module} \union {d.to : d \in deps}
        reach[n \in 0..Cardinality(deps)] ==
            IF n = 0 THEN {module}
            ELSE reach[n - 1] \union {d.to : d \in {e \in deps : e.from \in reach[n - 1]}}
    IN reach[Cardinality(deps)]

Processes(edges) == {e.module : e \in {f \in edges : f.channel = "process_boundary"}}

IsStorage(e) == e.channel \in {"persist", "read"} /\ e.target[1] \in {"table:", "entity:"}

\* What a process touches: the storage edges of its dependency closure.
Touches(edges, deps, process) ==
    {e.target : e \in {f \in edges : IsStorage(f) /\ f.module \in Closure(process, deps)}}

\* The storage that two processes or more touch.
Boundaries(edges, deps) ==
    LET Sharing(target) == {p \in Processes(edges) : target \in Touches(edges, deps, p)} IN
    {[shared |-> t, processes |-> Sharing(t)] :
        t \in {f.target : f \in {e \in edges : IsStorage(e) /\ Cardinality(Sharing(e.target)) > 1}}}
=============================================================================
