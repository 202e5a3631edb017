-------------------------------- MODULE Atlas --------------------------------
(***************************************************************************)
(* The structural side of a state directory.  `cdp scan` computes a view   *)
(* of the commit that is checked out and derives patch 0 from it; `cdp     *)
(* refresh` carries both over to another commit without an agent; `cdp     *)
(* query` answers from the last view (cmd_scan, cmd_refresh and cmd_query  *)
(* of cdp/cli.py).  Each of them holds the lock of the repository from     *)
(* start to end, and is one action.                                        *)
(***************************************************************************)
EXTENDS Queries

CONSTANTS
    Commits, Tree,      \* Tree[c]: the clean working tree of a commit
    Terms, Limits,      \* the terms and the budgets of the questions
    RoleSets,           \* the values of --exclude-role
    Unlimited,          \* a budget to compare with
    MaxScans            \* bound: the scans of a behaviour

ASSUME TreesAreKnown ==
    \A c \in Commits :
        /\ IsFiniteSet(DOMAIN Tree[c]) /\ DOMAIN Tree[c] \subseteq Name
        /\ \A p \in DOMAIN Tree[c] : Tree[c][p] \in DOMAIN Facts \intersect DOMAIN Body

ASSUME LimitsAreNumbers == Limits \subseteq Nat /\ Unlimited \in Nat

VARIABLES
    head,       \* the commit checked out
    scans,      \* how often cdp scan ran
    log,        \* of each snapshot, the claims and questions of its patch 0
    view,       \* the artifacts of the latest snapshot, None before the first scan
    answer      \* what cdp query prints, None while no query runs

vars == <<head, scans, log, view, answer>>

-----------------------------------------------------------------------------

\* What becomes of a citation when its file is edited is in Claims: here it holds
\* while its file is there, under the old name or the new one.
Follow(files, renames) == {IF f \in DOMAIN renames THEN renames[f] ELSE f : f \in files}

\* Mutant: one citation that holds is enough.
HoldsInPart(claim, renames, tree) == Follow(claim.evidence, renames) \intersect Tracked(tree) # {}

Holds(claim, renames, tree) == Follow(claim.evidence, renames) \subseteq Tracked(tree)

Failed(claim, renames, tree) == {f \in claim.evidence : ~(Follow({f}, renames) \subseteq Tracked(tree))}

\* The fold of patch 0, in strict mode: a claim with a citation that fails becomes a
\* question, at that citation.
StateOf(patch, renames, tree) ==
    LET kept == {c \in patch.claims : Holds(c, renames, tree)} IN
    [claims   |-> {[c EXCEPT !.evidence = Follow(@, renames)] : c \in kept},
     unknowns |-> patch.unknowns
                    \union {Question("demoted", c.subject, CHOOSE f \in Failed(c, renames, tree) : TRUE) :
                               c \in patch.claims \ kept}]

ViewOf(commit, inventory, x, state) ==
    [commit |-> commit, inventory |-> inventory, x |-> x,
     graph |-> [observed |-> Observed(x), declared |-> Declared(inventory, x)],
     uses |-> Uses(x), unreferenced |-> Unreferenced(x, Uses(x)),
     edges |-> FlowEdges(x, Uses(x)), boundaries |-> Boundaries(FlowEdges(x, Uses(x)), Observed(x)),
     claims |-> state.claims, unknowns |-> state.unknowns]

Init ==
    /\ head \in Commits
    /\ scans = 0
    /\ log = [c \in {} |-> {}]
    /\ view = None
    /\ answer = None

Checkout(c) ==
    /\ answer = None
    /\ head # c
    /\ head' = c
    /\ UNCHANGED <<scans, log, view, answer>>

NoRenames == [p \in {} |-> p]

Stored(patch) == [c \in DOMAIN log \union {head} |-> IF c = head THEN patch ELSE log[c]]

Scan ==
    LET inventory == Inventory(Tree[head])
        x == RunExtract(Tree[head], inventory)
        patch == [claims   |-> DeriveClaims(x, FlowEdges(x, Uses(x))),
                  unknowns |-> StructuralUnknowns(inventory, x)]
    IN /\ answer = None
       /\ scans < MaxScans
       /\ scans' = scans + 1
       /\ log' = Stored(patch)
       /\ view' = ViewOf(head, inventory, x, StateOf(patch, NoRenames, Tree[head]))
       /\ UNCHANGED <<head, answer>>

\* Without the history between the two commits every file counts as changed.
Changed(old, new, history) ==
    LET diff == Classify(old, new) IN
    IF history THEN Range(diff.renames) \union diff.edited \union diff.added ELSE Tracked(new)

Refresh(history) ==
    /\ answer = None
    /\ view # None /\ view.commit # head
    /\ LET old == Tree[view.commit]
           new == Tree[head]
           renames == IF history THEN Renames(old, new) ELSE NoRenames
           changed == Changed(old, new, history)
           inventory == Inventory(new)
           x == IncrementalExtract(new, inventory, view.x, changed)
           patch == IF head \in DOMAIN log THEN log[head] ELSE log[view.commit]
       IN /\ view' = ViewOf(head, inventory, x, StateOf(patch, renames, new))
          /\ log' = Stored(patch)
    /\ UNCHANGED <<head, scans, answer>>

Ask(kind, term, limit, without) ==
    /\ answer = None
    /\ view # None
    /\ \E told \in {Dispatch(view, kind, term, limit, without)} :
       answer' = [kind |-> kind, term |-> term, limit |-> limit, without |-> without,
                  rows |-> told.rows, spent |-> told.budget.spent, elided |-> told.budget.elided]
    /\ UNCHANGED <<head, scans, log, view>>

Printed ==
    /\ answer # None
    /\ answer' = None
    /\ UNCHANGED <<head, scans, log, view>>

Next ==
    \/ \E c \in Commits : Checkout(c)
    \/ Scan
    \/ \E history \in BOOLEAN : Refresh(history)
    \/ \E kind \in Kinds, term \in Terms, limit \in Limits, without \in RoleSets :
          Ask(kind, term, limit, without)
    \/ Printed

Spec == Init /\ [][Next]_vars

-----------------------------------------------------------------------------

\* The inventory and the state are about the commit, every citation is of a file
\* in its tree, and no allowance is overdrawn.
TypeOK ==
    /\ head \in Commits
    /\ view # None =>
          /\ view.commit \in DOMAIN log
          /\ DOMAIN view.inventory.module = Tracked(Tree[view.commit])
          /\ DOMAIN view.x.files \subseteq Tracked(Tree[view.commit])
          /\ \A c \in view.claims : c.evidence # {} /\ c.evidence \subseteq Tracked(Tree[view.commit])
    /\ answer # None => answer.spent <= answer.limit

Everything == Dispatch(view, answer.kind, answer.term, Unlimited, answer.without)

\* An answer that reports no elided row is the answer of a budget that suffices, and
\* one that reports some has spent its whole allowance on rows of that answer
\* (Budget: "the count of what was dropped is a single honest number").
NothingSilent ==
    answer # None => \A all \in {Everything} : all.budget.elided = 0 =>
        /\ answer.elided = 0 => answer.rows = all.rows
        /\ answer.elided > 0 => answer.spent = answer.limit
        /\ answer.kind # "trace" => answer.rows \subseteq all.rows

\* No list of a search is cut short for another that got two rows more than it,
\* and no row is refused while the allowance lasts (_fair_split_budget).
SearchIsFair ==
    answer # None /\ answer.kind = "search" => \A all \in {Everything} : all.budget.elided = 0 =>
        LET Rows(told, list) == Cardinality({r \in told.rows : r[1] = list})
            lists == {r[1] : r \in all.rows}
        IN /\ answer.spent = Min({answer.limit, Cardinality(all.rows)})
           /\ \A short, other \in lists :
                 Rows(answer, short) < Rows(all, short) => Rows(answer, other) <= Rows(answer, short) + 1

\* The nodes that a walk can leave a source for in n hops, keeping out of one node.
Within(edges, start, avoid, n) ==
    Frontiers({e \in edges : /\ e.channel \in Traversable /\ ~IsLibrary(e.target)
                             /\ e.target \notin {start, avoid}}, start, n)[n].seen

\* query paths has a path from a source to a sink exactly when the effect can be
\* reached within --max-hops, and shows the shortest (_trace visits per path, so that
\* a symbol on two paths is on both).
PathsAreShortest ==
    answer # None /\ answer.kind = "paths" =>
        LET paths == Paths(view.edges)
            Effects == {e \in view.edges : /\ e.channel \in SinkChannels \intersect Traversable
                                           /\ ~IsLibrary(e.target)}
        IN \A s \in FlowSources(view.edges) : \A sink \in {e.target : e \in Effects} \ {s.source} :
              LET Reachable(n) == \E e \in Effects : /\ e.target = sink
                                                     /\ e.source \in Within(view.edges, s.source, sink, n)
                  shown == {p \in paths : p.source = s /\ p.sink = sink}
              IN IF \E n \in 0..(MaxHops - 1) : Reachable(n)
                 THEN /\ Cardinality(shown) = 1
                      /\ \A p \in shown : Len(p.hops) = 1 + Min({n \in 0..(MaxHops - 1) : Reachable(n)})
                 ELSE shown = {}

\* What a refresh is right about.  No file of a module that it does not read again has
\* been reformatted or has changed its module, and a file that a module has lost left
\* it no declared dependency and no note, unless the module is read again.
CarriesOver(old, new, history) ==
    LET reread == {Inventory(new).module[p] : p \in Changed(old, new, history) \intersect Tracked(new)}
        Stays(p) == p \in Tracked(new) /\ Inventory(old).module[p] = Inventory(new).module[p]
        IsAggregated(p) == Facts[old[p]] # None /\ Facts[old[p]].deps \union Facts[old[p]].notes # {}
    IN /\ \A p \in Tracked(old) \intersect Tracked(new) :
             (Stays(p) /\ old[p] = new[p]) \/ Inventory(new).module[p] \in reread
       /\ \A p \in Tracked(old) : IsAggregated(p) => Stays(p) \/ Inventory(old).module[p] \in reread

\* A refresh of a view that had the rows of its own commit leaves the rows, with their
\* lines, that a scan of the new commit extracts, when no module that it carries over
\* had a file reformatted, moved or lost (cdp/refresh.py: incremental_extract).
RefreshIsScan ==
    [][\A history \in BOOLEAN :
          /\ view' # view /\ Refresh(history)
          /\ view.x = RunExtract(Tree[view.commit], view.inventory)
          /\ CarriesOver(Tree[view.commit], Tree[head], history)
          => view'.x = RunExtract(Tree[head], Inventory(Tree[head]))]_vars

\* What incremental_extract says of itself, of every refresh: "Re-deriving the whole
\* module whenever any of its files changed is what makes this byte-identical to a full
\* run_extract".  The code breaks it: a reformat and a deletion change no file.
RefreshIsByteIdentical ==
    [][\A history \in BOOLEAN :
          /\ view' # view /\ Refresh(history)
          /\ view.x = RunExtract(Tree[view.commit], view.inventory)
          => view'.x = RunExtract(Tree[head], Inventory(Tree[head]))]_vars
=============================================================================
