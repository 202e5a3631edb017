------------------------------- MODULE Claims -------------------------------
(***************************************************************************)
(* The way of a claim from the inbox into state.json: gates on what is     *)
(* asked (cdp/gates.py), verification of what is cited (cdp/verify.py),    *)
(* merging (cdp/merge.py), entailment (cdp/entail.py), and the discharge of*)
(* questions.  Fold has the same function over patches whose claims are    *)
(* opaque; here a patch has its claims and questions in their order.       *)
(*                                                                         *)
(* Nodes, ids, kinds and questions are numbers, so that they can be sorted *)
(* by.  The claims of a patch have different ids, so that the keys that    *)
(* claims are sorted by differ.  Of the closed fields side_effect_type is  *)
(* left out: it is treated as channel and visibility.                      *)
(***************************************************************************)
EXTENDS Anchors

CONSTANTS
    Nodes,        \* the scopes of the partition
    Module,       \* [Nodes -> the module in a node's path]
    Mode,         \* of verification
    Scenarios,    \* the [world, tree, inbox, edits] to start from
    NewLines,     \* what a user may insert
    None

ASSUME ClaimsAssumption == Mode \in {"strict", "lenient"} /\ Nodes \subseteq Nat

IsSeq(s) == s \in Seq(ToSet(s))

IsText(lines) == IsSeq(lines) /\ \A line \in ToSet(lines) : IsSeq(line)

\* Claims are told apart by their ids.
ValidClaims(claims) ==
    /\ IsSeq(claims)
    /\ \A c \in ToSet(claims) :
          /\ c.id \in Nat /\ c.kind \in Nat /\ IsSeq(c.evidence)
          /\ \A a \in ToSet(c.evidence) : IsSeq(a.text)
    /\ \A c, d \in ToSet(claims) : c.id = d.id => c = d

\* What the schema lets through.
ValidAnswer(a) == a.node \in Nodes /\ (a.valid => ValidClaims(a.claims) /\ IsSeq(a.unknowns))

ASSUME AnswersAreWellFormed ==
    /\ \A line \in NewLines : IsSeq(line)
    /\ \A s \in Scenarios :
          /\ \A file \in DOMAIN s.tree : IsText(s.tree[file])
          /\ s.tree = [file \in DOMAIN s.tree |-> s.tree[file]]
          /\ \A a \in s.inbox : ValidAnswer(a)

NEEDS_VALUES == {"needs_human", "needs_runtime"}

ENUM_FIELDS == <<"channel", "visibility">>

CONFIDENCE_ORDER == [low |-> 0, medium |-> 1, high |-> 2, contested |-> 3]

VARIABLES
    world,    \* defs: [name -> visibility], edges: set of [source, target, channel],
              \* owners: [subject -> modules], tasks: [node -> task state]
    tree,     \* the checked-out files: [file -> lines]
    edits,    \* bound on the lines that are still inserted
    inserted, \* how many were inserted since Init
    moved,    \* [file -> [line in Init -> where its text is now]]
    inbox,    \* answers not collected yet
    log       \* the patches, in the order they were appended

vars == <<world, tree, edits, inserted, moved, inbox, log>>

F == INSTANCE Fold WITH Drift <- [n \in Nodes |-> "same"], Answer <- None

\* The elements of s that are in T, in their order.
Where(s, T) ==
    LET sofar[i \in 0..Len(s)] ==
            IF i = 0 THEN <<>>
            ELSE IF s[i] \in T THEN Append(sofar[i - 1], s[i]) ELSE sofar[i - 1]
    IN sofar[Len(s)]

-----------------------------------------------------------------------------
\* What extraction knows.

DefFqns == DOMAIN world.defs

EdgeSubjects == {e.source : e \in world.edges} \union {e.target : e \in world.edges}

EdgeKeys == {<<e.source, e.channel>> : e \in world.edges}

SubjectExists(subject) == subject \in DefFqns \union EdgeSubjects \union Nodes

-----------------------------------------------------------------------------
\* The gates a question passes before it is appended.

GateSubjectExists(u) == u.subject = None \/ SubjectExists(u.subject)

GateNegativeEntailment(u) ==
    u.subject # None /\ u.channel # None => <<u.subject, u.channel>> \notin EdgeKeys

GateNeedsValid(u) == u.needs \in NEEDS_VALUES

ProvenanceState(node) ==
    CASE world.tasks[node] = "folded" -> "unknown"
      [] world.tasks[node] = "abandoned" -> "abandoned"
      [] OTHER -> "unexamined"

Passes(u) == GateSubjectExists(u) /\ GateNegativeEntailment(u) /\ GateNeedsValid(u)

\* A row of unknowns[].
Question(u, node, provenance) ==
    [question |-> u.question, subject |-> u.subject, channel |-> u.channel, why |-> u.why,
     needs |-> u.needs, node |-> node, provenance |-> provenance, status |-> "open"]

\* Those that pass all gates, with what the run's row says of their node.
GatePatchUnknowns(unknowns, node) ==
    LET kept == Where(unknowns, {u \in ToSet(unknowns) : Passes(u)})
    IN [i \in DOMAIN kept |-> Question(kept[i], node, ProvenanceState(node))]

-----------------------------------------------------------------------------
\* Verification of one patch against the tree.

Lines(file) == IF file \in DOMAIN tree THEN tree[file] ELSE <<>>

Check(anchor) == VerifyAnchor(Lines(anchor.file), anchor)

Good(c) == Where(c.evidence, {a \in ToSet(c.evidence) : Check(a).ok})

Survives(c) ==
    /\ Good(c) # <<>>
    /\ Mode = "strict" => Len(Good(c)) = Len(c.evidence)

\* The anchors that hold, at the lines where they are.
Moved(anchors) == [i \in DOMAIN anchors |-> [anchors[i] EXCEPT !.line = Check(anchors[i]).line]]

\* A row of claims[], as the merge operator reads it.
Kept(c, node) ==
    [node |-> node, id |-> c.id, subject |-> c.subject, kind |-> c.kind, channel |-> c.channel,
     visibility |-> c.visibility, statement |-> c.statement, evidence |-> Moved(Good(c)),
     confidence |-> c.confidence, author |-> c.author]

Surviving(p) == {c \in ToSet(p.claims) : Survives(c)}

Claimed(p) == LET kept == Where(p.claims, Surviving(p)) IN [i \in DOMAIN kept |-> Kept(kept[i], p.node)]

\* A claim that fails becomes a question without a subject.
Unverified(c, node) ==
    [question |-> <<"Unverified", c.statement>>, subject |-> None, channel |-> None, why |-> "citation",
     needs |-> "needs_human", node |-> node, provenance |-> "none", status |-> "open"]

\* Mutant: a claim without a single good anchor is left out.
DemotedIfCited(p) ==
    LET failed == Where(p.claims, {c \in ToSet(p.claims) \ Surviving(p) : Good(c) # <<>>})
    IN p.unknowns \o [i \in DOMAIN failed |-> Unverified(failed[i], p.node)]

Demoted(p) ==
    LET failed == Where(p.claims, ToSet(p.claims) \ Surviving(p))
    IN p.unknowns \o [i \in DOMAIN failed |-> Unverified(failed[i], p.node)]

-----------------------------------------------------------------------------
\* The merge operator.  Rows are claims with their node.

ClaimBefore(c, d) == c.node < d.node \/ (c.node = d.node /\ c.id < d.id)

\* The row that a stable sort by these keys puts first.
First(rows) ==
    rows[Min({i \in DOMAIN rows : \A j \in DOMAIN rows : ~ClaimBefore(rows[j], rows[i])})]

Signature(c) == <<c.channel, c.visibility>>

DistinctAnchors(rows) == UNION {{<<a.file, a.text>> : a \in ToSet(c.evidence)} : c \in rows}

ClaimModules(rows) == {Module[c.node] : c \in rows}

\* Positions are the rows of one subject and kind by signature.  Two fields of
\* which one is absent cannot be compared.
Comparable(sigs) ==
    \A s, t \in sigs :
        LET differ == {i \in DOMAIN ENUM_FIELDS : s[i] # t[i]} IN
        differ # {} => None \notin {s[Min(differ)], t[Min(differ)]}

\* Ownership, then the number of anchors; several leaders have to be sorted.
Resolve(subject, group) ==
    LET sigs == {Signature(c) : c \in group}
        By(sig) == {c \in group : Signature(c) = sig}
        owning == {s \in sigs : ClaimModules(By(s)) \intersect world.owners[subject] # {}}
        leaders == {s \in sigs : \A t \in sigs :
                       Cardinality(DistinctAnchors(By(t))) <= Cardinality(DistinctAnchors(By(s)))}
    IN CASE Cardinality(owning) = 1 -> [by |-> "ownership", winners |-> owning]
         [] Cardinality(owning) # 1 /\ Cardinality(leaders) = 1 -> [by |-> "evidence", winners |-> leaders]
         [] OTHER -> [by |-> IF Comparable(leaders) THEN "contested" ELSE "raises", winners |-> sigs]

Highest(rows) ==
    CHOOSE level \in {c.confidence : c \in ToSet(rows)} :
        \A c \in ToSet(rows) : CONFIDENCE_ORDER[c.confidence] <= CONFIDENCE_ORDER[level]

\* One claim, with the fields of one row and the evidence and wording of all.
UnionAround(first, rows, confidence) ==
    [id |-> first.id, subject |-> first.subject, kind |-> first.kind, channel |-> first.channel,
     visibility |-> first.visibility, statement |-> first.statement, author |-> first.author,
     confidence |-> confidence, verdict |-> None, evidence |-> DistinctAnchors(ToSet(rows)),
     statements |-> {c.statement : c \in ToSet(rows)}, nodes |-> {c.node : c \in ToSet(rows)}]

\* Mutant: the claims are united in the order they arrived in.
UnionAsArrived(rows, confidence) == UnionAround(rows[1], rows, confidence)

Union(rows, confidence) == UnionAround(First(rows), rows, confidence)

Groups(rows) == {<<c.subject, c.kind>> : c \in ToSet(rows)}

GroupOf(rows, g) == Where(rows, {c \in ToSet(rows) : <<c.subject, c.kind>> = g})

Unanimous(rows, g) == Cardinality({Signature(c) : c \in ToSet(GroupOf(rows, g))}) = 1

ResolvedBy(rows, g) == Resolve(g[1], ToSet(GroupOf(rows, g)))

\* The rows of the positions that won.
Winning(rows, g) ==
    Where(GroupOf(rows, g), {c \in ToSet(rows) : Signature(c) \in ResolvedBy(rows, g).winners})

MergedClaim(rows, g) ==
    LET group == GroupOf(rows, g) winning == Winning(rows, g) IN
    IF Unanimous(rows, g) THEN Union(group, Highest(group))
    ELSE IF ResolvedBy(rows, g).by = "contested" THEN Union(group, "contested")
    ELSE Union(winning, Highest(winning))

\* Every position is recorded, whichever won.
ConflictRecord(rows, g) ==
    [subject |-> g[1], kind |-> g[2], by |-> ResolvedBy(rows, g).by,
     positions |-> {[sig |-> Signature(c), node |-> c.node, statement |-> c.statement] :
                       c \in ToSet(GroupOf(rows, g))}]

\* Mutant: a conflict is on record when nobody won.
OpenConflicts(rows) ==
    {ConflictRecord(rows, g) : g \in {h \in Groups(rows) : ~Unanimous(rows, h) /\ ResolvedBy(rows, h).by = "contested"}}

Conflicts(rows) == {ConflictRecord(rows, g) : g \in {h \in Groups(rows) : ~Unanimous(rows, h)}}

Raises(rows) == \E g \in Groups(rows) : ~Unanimous(rows, g) /\ ResolvedBy(rows, g).by = "raises"

\* An edge states the fact already, or a definition denies it, or neither. What
\* a person says against a definition is contested.
Entail(c) ==
    LET verdict == CASE c.channel # None /\ <<c.subject, c.channel>> \in EdgeKeys -> "entailed"
                     [] /\ c.channel # None => <<c.subject, c.channel>> \notin EdgeKeys
                        /\ c.subject \in DefFqns
                        /\ c.visibility \notin {None, world.defs[c.subject]} -> "contradicted"
                     [] OTHER -> "consistent"
    IN [c EXCEPT !.verdict = verdict,
                 !.confidence = IF verdict = "contradicted" /\ c.author = "human" THEN "contested" ELSE @]

-----------------------------------------------------------------------------
\* The fold.

Completed(patches) == Where(patches, F!Complete(ToSet(patches)))

\* best_complete in the order its nodes come up in the log.
LivePatches(patches) ==
    LET complete == Completed(patches)
        first == {i \in DOMAIN complete : \A j \in 1..(i - 1) : complete[j].node # complete[i].node}
        order == Where([i \in DOMAIN complete |-> i], first)
    IN [k \in DOMAIN order |-> F!Best(ToSet(patches), complete[order[k]].node)]

Rows(patches) ==
    LET live == LivePatches(patches) IN FlattenSeq([k \in DOMAIN live |-> Claimed(live[k])])

\* Of the rows that ask one thing of one node the first one stays.
DedupeUnknowns(unknowns) ==
    {unknowns[i] : i \in {k \in DOMAIN unknowns :
        \A j \in 1..(k - 1) : <<unknowns[j].node, unknowns[j].question>> # <<unknowns[k].node, unknowns[k].question>>}}

Questions(patches) ==
    LET complete == Completed(patches)
    IN DedupeUnknowns(FlattenSeq([k \in DOMAIN complete |-> Demoted(complete[k])]))

Gap(node) ==
    [question |-> <<"Contains", node>>, subject |-> None, channel |-> None, why |-> "status",
     needs |-> "needs_human", node |-> node, provenance |-> "none", status |-> "open"]

\* The claim that answers, of those with its subject and channel the first.
AnswersTo(u, claims) ==
    LET same == {c \in claims : c.subject = u.subject /\ c.channel = u.channel} IN
    {c \in same : \A d \in same : c.kind < d.kind \/ (c.kind = d.kind /\ c.id <= d.id)}

\* Mutant: the ratchet looks at the definitions only.
DischargeByDefs(u, claims) ==
    [u EXCEPT !.status =
        CASE u.subject = None -> "open"
          [] u.subject # None /\ u.subject \notin DefFqns -> "moot"
          [] OTHER -> IF \E c \in AnswersTo(u, claims) : c.verdict # "contradicted" THEN "resolved" ELSE "open"]

Discharge(u, claims) ==
    [u EXCEPT !.status =
        CASE u.subject = None -> "open"
          [] u.subject # None /\ ~SubjectExists(u.subject) -> "moot"
          [] OTHER -> IF \E c \in AnswersTo(u, claims) : c.verdict # "contradicted" THEN "resolved" ELSE "open"]

Gaps(patches) == {Gap(n) : n \in {m \in Nodes : F!NodeStatus(ToSet(patches), m) \notin {"none", "complete"}}}

Merged(rows) == {Entail(MergedClaim(rows, g)) : g \in Groups(rows)}

\* state.json of the rows and the questions.
StateOf(rows, unknowns) ==
    IF Raises(rows) THEN [raises |-> TRUE, claims |-> {}, conflicts |-> {}, unknowns |-> {}]
    ELSE [raises |-> FALSE, claims |-> Merged(rows), conflicts |-> Conflicts(rows),
          unknowns |-> {Discharge(u, Merged(rows)) : u \in unknowns}]

Folded(patches) == StateOf(Rows(patches), Questions(patches) \union Gaps(patches))

-----------------------------------------------------------------------------

Init ==
    /\ \E s \in Scenarios :
          /\ world = s.world
          /\ tree = s.tree
          /\ inbox = s.inbox
          /\ edits = s.edits
    /\ inserted = 0
    /\ moved = [file \in DOMAIN tree |-> [line \in DOMAIN tree[file] |-> line]]
    /\ log = <<>>

\* One answer of cmd_collect: refused by the schema, or gated and appended.
Collect(answer) ==
    /\ answer \in inbox
    /\ inbox' = inbox \ {answer}
    /\ log' = Append(log,
          IF answer.valid
          THEN [node |-> answer.node, run |-> "run", status |-> "complete",
                generation |-> F!NextGeneration(ToSet(log), answer.node),
                claims |-> answer.claims, unknowns |-> GatePatchUnknowns(answer.unknowns, answer.node)]
          ELSE [node |-> answer.node, run |-> "run", status |-> "invalid", generation |-> 1,
                claims |-> <<>>, unknowns |-> <<>>])
    /\ UNCHANGED <<world, tree, edits, inserted, moved>>

\* The user commits an inserted line, and the store is refreshed.
InsertLine(file, n) ==
    /\ edits > 0
    /\ edits' = edits - 1
    /\ \E line \in NewLines : tree' = [tree EXCEPT ![file] = InsertAt(@, n, line)]
    /\ inserted' = inserted + 1
    /\ moved' = [moved EXCEPT ![file] = [line \in DOMAIN @ |-> IF n <= @[line] THEN @[line] + 1 ELSE @[line]]]
    /\ UNCHANGED <<world, inbox, log>>

Next ==
    \/ \E answer \in inbox : Collect(answer)
    \/ \E file \in DOMAIN tree : \E n \in 1..(Len(tree[file]) + 1) : InsertLine(file, n)

Spec == Init /\ [][Next]_vars

-----------------------------------------------------------------------------

Decided(state) == <<state.raises, state.claims, state.conflicts>>

(***************************************************************************)
(* "Merge is order-independent under reordering of the log" (cdp fold      *)
(* --check): claims and conflicts are a function of the set of patches.    *)
(* Nothing that encodes scheduling decides which module is right.          *)
(***************************************************************************)
OrderIndependent ==
    inbox = {} =>
        \A order \in Bijection(DOMAIN log, DOMAIN log) :
            Decided(Folded([i \in DOMAIN log |-> log[order[i]]])) = Decided(Folded(log))

(***************************************************************************)
(* Evidence or drop, and never silence: what the live answer of a node     *)
(* claims is among the statements of a claim, or a position of a conflict, *)
(* or stated as unverified; and a node with no valid answer is a gap.      *)
(***************************************************************************)
NothingVanishes ==
    LET state == Folded(log) IN
    ~state.raises =>
        /\ \A p \in ToSet(LivePatches(log)) : \A c \in ToSet(p.claims) :
              \/ \E m \in state.claims : m.subject = c.subject /\ p.node \in m.nodes /\ c.statement \in m.statements
              \/ \E k \in state.conflicts : \E o \in k.positions :
                    k.subject = c.subject /\ o.node = p.node /\ o.statement = c.statement
              \/ \E u \in state.unknowns : u.node = p.node /\ u.question = <<"Unverified", c.statement>>
        /\ \A p \in ToSet(log) :
              \/ p.node \in {q.node : q \in ToSet(LivePatches(log))}
              \/ Gap(p.node).question \in {u.question : u \in state.unknowns}

(***************************************************************************)
(* The gates at collect and the ratchet at fold read one index: a question *)
(* that was let in is about something, and what resolves it is a judgement,*)
(* never a fact that extraction had already stated.                        *)
(***************************************************************************)
QuestionsAreGenuine ==
    LET state == Folded(log) IN
    \A u \in state.unknowns :
        /\ u.status # "moot"
        /\ u.status = "resolved" /\ u.channel # None =>
              \A c \in AnswersTo(u, state.claims) : c.verdict = "consistent"

(***************************************************************************)
(* A citation that still verifies after a few lines were inserted in its   *)
(* file points where its text has moved to, and never at a copy of it:     *)
(* within the window two copies are refused as ambiguous.                  *)
(***************************************************************************)
CitationsFollow ==
    inserted <= LINE_WINDOW =>
        \A p \in ToSet(log) : \A c \in ToSet(p.claims) : \A a \in ToSet(c.evidence) :
            /\ a.file \in DOMAIN moved /\ a.line \in DOMAIN moved[a.file]
            /\ moved[a.file][a.line] \in FindMatches(Lines(a.file), a.text)
            /\ Check(a).ok
            => Check(a).line = moved[a.file][a.line]
=============================================================================
