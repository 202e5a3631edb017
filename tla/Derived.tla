------------------------------- MODULE Derived -------------------------------
(***************************************************************************)
(* Patch 0 of the log: the claims that the scan derives from the structure *)
(* (cdp/derive.py) and the questions that it cannot answer                 *)
(* (_structural_unknowns of cdp/cli.py).                                   *)
(***************************************************************************)
EXTENDS Dataflow

\* A claim is about a subject, and cites files.  The tag stands for the id.
Claim(kind, subject, tag, files) == [kind |-> kind, subject |-> subject, tag |-> tag, evidence |-> files]

Edges(x, channel) == {e \in x.ioEdges : e.fact.channel = channel}

RouteClaims(x) ==
    {Claim("entrypoint", r.route, IF r.missing = {} THEN "route" ELSE "route_unresolved", r.evidence) :
        r \in Routes(x)}

\* The entry points that the source declares; a Dockerfile's is a deployable.
EntrypointClaims(x) ==
    {Claim("entrypoint", e.fact.source, e.fact.channel, {e.file}) :
        e \in {f \in Edges(x, "process_boundary") :
                 f.fact.target[1] = "process:" /\ f.fact.source # f.module}
              \union {f \in Edges(x, "schedule") : f.fact.target = <<"scheduler">>}}

DeployableClaims(x) ==
    {Claim("deployable", r.fact.fqn, "deployable", {r.file}) :
        r \in {d \in x.defines : d.fact.kind = "config_key" /\ d.fact.fqn[1] = "process:" /\ d.fact.value # None}}

\* A table has one claim whoever writes it, an entity one for each who does.
DataModelClaims(x) ==
    {Claim("data_model", e.fact.target, "entity", {e.file}) :
        e \in {f \in Edges(x, "persist") : f.fact.target[1] = "table:"}}
    \union {Claim("data_model", e.fact.target, e.fact.source, {e.file}) :
        e \in {f \in Edges(x, "persist") : f.fact.target[1] = "entity:"}}
    \union {Claim("data_model", e.fact.source \o <<"->">> \o e.fact.target, "map", {e.file}) : e \in Edges(x, "map")}

\* One claim for each subject, of the files of all its rows.
Grouped(kind, tag, rows) ==
    {Claim(kind, s, tag, {r.file : r \in {t \in rows : t.subject = s}}) : s \in {r.subject : r \in rows}}

\* The rows of a claim about the target of each edge.
ByTarget(edges) == {[subject |-> e.fact.target, file |-> e.file] : e \in edges}

OwnershipClaims(x) ==
    Grouped("ownership", "schema", ByTarget({e \in Edges(x, "schema_own") : e.fact.target[1] = "table:"}))

SideEffectClaims(x) ==
    UNION {Grouped("side_effect", channel,
                   {[subject |-> Append(e.module, channel), file |-> e.file] : e \in Edges(x, channel)}) :
             channel \in {"ssh_exec", "http_out", "metric_emit", "read"}}

ConfigClaims(x) ==
    Grouped("config", "config",
            ByTarget({e \in Edges(x, "config_read") :
                        e.fact.target[1] = "config:" /\ e.fact.source[1] # "config-file:"}))

DependencyClaims(x) ==
    {Claim("dependency", d.from \o <<"->">> \o d.to, "observed",
           {r.file : r \in {u \in x.uses : u.module = d.from /\ d.to \in OwnersOf(x, u.fact)}}) : d \in Observed(x)}

\* One claim for the processes that share, whatever they share.
BoundaryClaims(edges, deps) ==
    LET rows == Boundaries(edges, deps) IN
    {Claim("side_effect", FlattenSeq(SetToSeq(ps)), "process_boundary",
           {e.file : e \in {f \in edges : f.channel = "process_boundary" /\ f.module \in ps}}) :
        ps \in {b.processes : b \in rows}}

\* derive_claims: of the claims with one id, subject and kind the first stays.
DeriveClaims(x, edges) ==
    LET all == RouteClaims(x) \union EntrypointClaims(x) \union DeployableClaims(x)
                 \union DataModelClaims(x) \union OwnershipClaims(x) \union SideEffectClaims(x)
                 \union ConfigClaims(x) \union DependencyClaims(x) \union BoundaryClaims(edges, Observed(x))
        Key(c) == <<c.kind, c.subject, c.tag>>
    IN {CHOOSE c \in all : Key(c) = k : k \in {Key(c) : c \in all}}

\* A question is about a subject, at a file or at none.
Question(about, subject, file) == [about |-> about, subject |-> subject, file |-> file]

StructuralUnknowns(inventory, x) ==
    (IF inventory.anonymous THEN {Question("name", RootLabel, None)} ELSE {})
    \union {Question("declared", Append(d.module, d.dep), None) : d \in DeclaredAmbiguous(inventory, x)}
    \union {Question("route", r.route, r.file) : r \in {s \in Routes(x) : s.missing # {}}}
=============================================================================
