-------------------------------- MODULE Links --------------------------------
(***************************************************************************)
(* The links between repositories (cdp/link.py): which call of one is      *)
(* answered by which entry of another, the questions about the links that  *)
(* are not certain, the verdicts folded onto them, and what a refresh of   *)
(* some of the repositories makes of an earlier report.                    *)
(* A snapshot is [repo, head, edges]; an edge is [channel, module, node,   *)
(* target, at]; a target is a path, Key(path) the path with its parameters *)
(* blanked.                                                                *)
(***************************************************************************)
EXTENDS Integers, FiniteSets

CONSTANTS
    None,
    Key(_),         \* the path with its parameters replaced by "*"
    Libraries       \* the targets that start with "library:"

\* DIRECTIONS: what answers an outbound edge.
InboundOf == [http_out |-> "http_in", event_publish |-> "event_subscribe", persist |-> "schema_own"]

Outbound == DOMAIN InboundOf

EdgesFor(s, channel) == {e \in s.edges : e.channel = channel /\ e.target \notin Libraries}

OutEdges(s) == UNION {EdgesFor(s, c) : c \in Outbound}

Side(s, e) ==
    [repo |-> s.repo, head |-> s.head, module |-> e.module, node |-> e.node, target |-> e.target, at |-> e.at]

Unjudged == [verdict |-> None, at |-> None, name |-> None]

Link(e, caller, callee) ==
    [protocol |-> e.channel, kind |-> IF caller.target = callee.target THEN "exact" ELSE "heuristic",
     caller |-> caller, callee |-> callee, status |-> None, resolution |-> Unjudged]

Unmatched(protocol, outbound) == [protocol |-> protocol, outbound |-> outbound]

\* The inbound edges of any snapshot that share the key of an outbound edge.
Answering(snapshots, e) ==
    UNION {{Side(t, i) : i \in {f \in EdgesFor(t, InboundOf[e.channel]) : Key(f.target) = Key(e.target)}} :
              t \in snapshots}

ScanLinks(snapshots) ==
    LET calls == UNION {{[edge |-> e, caller |-> Side(s, e)] : e \in OutEdges(s)} : s \in snapshots}
    IN [links     |-> UNION {{Link(c.edge, c.caller, callee) : callee \in Answering(snapshots, c.edge)} : c \in calls},
        unmatched |-> {Unmatched(c.edge.channel, c.caller) : c \in {d \in calls : Answering(snapshots, d.edge) = {}}}]

Touches(link, repos) == {link.caller.repo, link.callee.repo} \intersect repos # {}

\* What query_service shows of one repository.
QueryService(report, service) ==
    [links     |-> {l \in report.links : Touches(l, {service})},
     unmatched |-> {u \in report.unmatched : u.outbound.repo = service}]

-----------------------------------------------------------------------------
(* The questions about heuristic links and their answers *)

LinkId(link) == [protocol |-> link.protocol, caller |-> link.caller, callee |-> link.callee]

\* One task for the links of a protocol whose callers have one target.
BuildTasks(report) ==
    LET unsure == {l \in report.links : l.kind = "heuristic"}
        Of(name) == {LinkId(l) : l \in {m \in unsure : <<m.protocol, m.caller.target>> = name}}
    IN {[name |-> name, candidates |-> Of(name)] : name \in {<<l.protocol, l.caller.target>> : l \in unsure}}

Anchors(task) == UNION {{c.caller.at, c.callee.at} : c \in task.candidates}

Verdicts == {"match", "no_match", "uncertain"}

ASSUME NoneIsNoWord == None \notin Verdicts \union {"live", "decayed"}

Judged(link) == link.resolution # Unjudged

\* Mutant: a resolution may be about any link.
ValidForAny(patch, task) ==
    /\ patch.name = task.name
    /\ patch.resolutions # {}
    /\ \A r \in patch.resolutions : r.verdict \in Verdicts /\ r.at \in Anchors(task)

\* validate_task_patch: about links and citing anchors that the task showed.
ValidPatch(patch, task) ==
    /\ patch.name = task.name
    /\ patch.resolutions # {}
    /\ \A r \in patch.resolutions :
          r.link \in task.candidates /\ r.verdict \in Verdicts /\ r.at \in Anchors(task)

Resolution(patches, link) ==
    LET p == CHOOSE q \in patches : \E r \in q.resolutions : r.link = LinkId(link)
        r == CHOOSE x \in p.resolutions : x.link = LinkId(link)
    IN [verdict |-> r.verdict, at |-> r.at, name |-> p.name]

\* Two valid patches are about different links.  A link that is no longer in the report
\* is passed over.
FoldResolutions(report, patches) ==
    LET About(l) == \E p \in patches : \E r \in p.resolutions : r.link = LinkId(l) IN
    [report EXCEPT !.links = {IF About(l) THEN [l EXCEPT !.resolution = Resolution(patches, l)] ELSE l : l \in @}]

-----------------------------------------------------------------------------
(* refresh_links *)

RefreshedRepos(fresh) == {s.repo : s \in fresh}

\* The edge that an endpoint is anchored to again: of those of its module with its
\* key, one.
StillPresent(fresh, side, channel) ==
    LET found == UNION {{Side(s, e) : e \in {f \in EdgesFor(s, channel) : /\ f.module = side.module
                                                                       /\ Key(f.target) = Key(side.target)}} :
                           s \in {t \in fresh : t.repo = side.repo}}
    IN IF found = {} THEN None ELSE CHOOSE f \in found : TRUE

\* An endpoint in a repository that was not refreshed is not looked at.
Endpoint(fresh, side, channel) ==
    IF side.repo \in RefreshedRepos(fresh) THEN StillPresent(fresh, side, channel) ELSE side

CarryLink(fresh, l) ==
    LET caller == Endpoint(fresh, l.caller, l.protocol)
        callee == Endpoint(fresh, l.callee, InboundOf[l.protocol])
    IN IF ~Touches(l, RefreshedRepos(fresh)) THEN l
       ELSE [l EXCEPT !.caller = IF caller = None THEN @ ELSE caller,
                      !.callee = IF callee = None THEN @ ELSE callee,
                      !.status = IF None \in {caller, callee} THEN "decayed" ELSE "live"]

Elsewhere(report, fresh) == {u \in report.unmatched : u.outbound.repo \notin RefreshedRepos(fresh)}

\* The links of the new snapshots among themselves that have no link of their id.
FreshLinks(report, fresh) ==
    LET known == {LinkId(l) : l \in report.links} IN
    {[l EXCEPT !.status = "live"] : l \in {k \in ScanLinks(fresh).links : LinkId(k) \notin known}}

\* Mutant: the calls of the refreshed repositories that nothing answers are not added.
RefreshLinksOnly(report, fresh) ==
    [links     |-> {CarryLink(fresh, l) : l \in report.links} \union FreshLinks(report, fresh),
     unmatched |-> Elsewhere(report, fresh)]

RefreshLinks(report, fresh) ==
    [links     |-> {CarryLink(fresh, l) : l \in report.links} \union FreshLinks(report, fresh),
     unmatched |-> Elsewhere(report, fresh) \union ScanLinks(fresh).unmatched]
=============================================================================
