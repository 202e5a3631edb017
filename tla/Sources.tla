------------------------------- MODULE Sources -------------------------------
(***************************************************************************)
(* The inventory of a tree of files (cdp/inventory.py) and the facts       *)
(* extracted from it (cdp/extract.py), of every file or of the modules     *)
(* that changed only (cdp/refresh.py).  A tree maps a path to a content; a *)
(* path, a symbol and a module are sequences of names.  What one extractor *)
(* of cdp/lang reads out of one content is a constant.                     *)
(***************************************************************************)
EXTENDS Naturals, FiniteSets, Sequences, SequencesExt

CONSTANTS
    Facts,          \* extract_file of a content; None: empty, binary or too large
    SeenAt(_, _),   \* the lines of a content that a fact is read at
    Body,           \* _normalised_body of a content: neither its spacing nor its blank lines
    Similar(_, _),  \* whether `git diff -M` takes one content for the other
    ManifestNames,  \* MANIFEST_NAMES
    Excludes,       \* DEFAULT_EXCLUDES and those of .cdp.toml
    Role(_),        \* classify_role of a path
    None

Name == Seq(STRING) \ {<<>>}

\* What the extractors read out of a content: lists of names and rows.
ASSUME FactsAreRows ==
    \A c \in DOMAIN Facts : Facts[c] # None =>
        /\ \A field \in {"defines", "uses", "ioEdges", "deps", "notes"} : IsFiniteSet(Facts[c][field])
        /\ \A d \in Facts[c].defines : d.fqn \in Name
        /\ Facts[c].uses \subseteq Name
        /\ \A e \in Facts[c].ioEdges : e.source \in Name /\ e.target \in Name /\ IsFiniteSet(e.refs)
        /\ Facts[c].primary \in Name \union {None}
        /\ Facts[c].loc \in Nat

RootLabel == <<"(root)">>

Tracked(tree) == {p \in DOMAIN tree : Range(p) \intersect Excludes = {}}

Manifests(tree) == {p \in Tracked(tree) : Last(p) \in ManifestNames}

Below(root, path) == Len(root) < Len(path) /\ IsPrefix(root, path)

\* A manifest at the root is the one module's unless there are others below it.
RootIsModule(tree) ==
    Manifests(tree) # {} /\ \A p \in Manifests(tree) : Len(p) = 1

\* The name that the manifest gives, or the anonymous label.
RootName(tree) ==
    LET names == {Facts[tree[p]].name : p \in Manifests(tree)} \ {None} IN
    IF RootIsModule(tree) /\ names # {} THEN <<CHOOSE n \in names : TRUE>> ELSE RootLabel

ModuleRoots(tree) ==
    LET nested == {Front(p) : p \in {m \in Manifests(tree) : Len(m) > 1}} IN
    IF RootIsModule(tree) THEN {}
    ELSE IF nested # {} THEN nested
    ELSE {<<p[1]>> : p \in {f \in Tracked(tree) : Len(f) > 1}}

\* The deepest root above the path.
ModuleFor(path, roots, otherwise) ==
    LET above == {r \in roots : Below(r, path)} IN
    IF above = {} THEN otherwise
    ELSE CHOOSE r \in above : \A s \in above : Len(s) <= Len(r)

Inventory(tree) ==
    LET roots == ModuleRoots(tree)
        owner == [p \in Tracked(tree) |-> ModuleFor(p, roots, RootName(tree))]
    IN [module |-> owner, modules |-> Range(owner),
        anonymous |-> RootIsModule(tree) /\ RootName(tree) = RootLabel]

-----------------------------------------------------------------------------

\* A row stands for those of one fact in one file, and has the lines of their anchors.
Absorb(tree, inventory, paths, field) ==
    UNION {{[fact |-> fact, file |-> p, module |-> inventory.module[p], lines |-> SeenAt(tree[p], fact)] :
              fact \in Facts[tree[p]][field]} : p \in paths}

\* The rows that the given files yield.
ExtractFiles(tree, inventory, paths) ==
    LET parsed == {p \in paths : Facts[tree[p]] # None}
        Rows(field) == Absorb(tree, inventory, parsed, field)
    IN [files    |-> [p \in parsed |-> Facts[tree[p]]],
        defines  |-> Rows("defines"),
        uses     |-> Rows("uses"),
        ioEdges  |-> Rows("ioEdges"),
        declared |-> {[module |-> r.module, dep |-> r.fact] : r \in Rows("deps")},
        notes    |-> {[module |-> r.module, note |-> r.fact] : r \in Rows("notes")}]

RunExtract(tree, inventory) == ExtractFiles(tree, inventory, Tracked(tree))

\* Mutant: the files that changed are read again, not their modules.
IncrementalExtractOfFiles(tree, inventory, prior, changed) ==
    LET fresh == ExtractFiles(tree, inventory, changed \intersect Tracked(tree))
        carried == Tracked(tree) \ changed
        Carried(rows) == {r \in rows : r.file \in carried}
        modules == {inventory.module[p] : p \in changed \intersect Tracked(tree)}
        kept == carried \intersect DOMAIN prior.files
    IN [files    |-> [p \in kept \union DOMAIN fresh.files |->
                        IF p \in kept THEN prior.files[p] ELSE fresh.files[p]],
        defines  |-> Carried(prior.defines) \union fresh.defines,
        uses     |-> Carried(prior.uses) \union fresh.uses,
        ioEdges  |-> Carried(prior.ioEdges) \union fresh.ioEdges,
        declared |-> {d \in prior.declared : d.module \notin modules} \union fresh.declared,
        notes    |-> {n \in prior.notes : n.module \notin modules} \union fresh.notes]

\* Every file of a module with a changed file is read again; the rows of the
\* other modules are carried over from the extraction before.
IncrementalExtract(tree, inventory, prior, changed) ==
    LET modules == {inventory.module[p] : p \in changed \intersect Tracked(tree)}
        stale == {p \in Tracked(tree) : inventory.module[p] \in modules}
        fresh == ExtractFiles(tree, inventory, stale)
        Carried(rows) == {r \in rows : r.file \in Tracked(tree) \ stale}
        kept == (Tracked(tree) \ stale) \intersect DOMAIN prior.files
    IN [files    |-> [p \in kept \union DOMAIN fresh.files |->
                        IF p \in kept THEN prior.files[p] ELSE fresh.files[p]],
        defines  |-> Carried(prior.defines) \union fresh.defines,
        uses     |-> Carried(prior.uses) \union fresh.uses,
        ioEdges  |-> Carried(prior.ioEdges) \union fresh.ioEdges,
        declared |-> {d \in prior.declared : d.module \notin modules} \union fresh.declared,
        notes    |-> {n \in prior.notes : n.module \notin modules} \union fresh.notes]

-----------------------------------------------------------------------------

\* The renames that `git diff -M` reports: a deleted path and an added one of
\* contents alike.
Renames(old, new) ==
    LET gone == DOMAIN old \ DOMAIN new
        come == DOMAIN new \ DOMAIN old
        Twin(p) == {q \in come : Similar(old[p], new[q])}
    IN [p \in {q \in gone : Twin(q) # {}} |-> CHOOSE q \in Twin(p) : TRUE]

\* classify_changes: a change of whitespace or blank lines only is a reformat, not an edit.
Classify(old, new) ==
    LET renames == Renames(old, new)
        same == DOMAIN old \intersect DOMAIN new
    IN [renames |-> renames,
        edited  |-> {p \in same : old[p] # new[p] /\ Body[old[p]] # Body[new[p]]}
                      \union {renames[p] : p \in {q \in DOMAIN renames :
                                Body[old[q]] # Body[new[renames[q]]]}},
        added   |-> DOMAIN new \ (DOMAIN old \union Range(renames)),
        deleted |-> DOMAIN old \ (DOMAIN new \union DOMAIN renames)]
=============================================================================
