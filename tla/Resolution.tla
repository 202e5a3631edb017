----------------------------- MODULE Resolution ------------------------------
(***************************************************************************)
(* The two graphs of a repository's modules, the one its imports show and  *)
(* the one its manifests declare (cdp/graph.py), and the resolution of     *)
(* every reference against the symbols of every module: the cross          *)
(* reference, its transpose and the routes (cdp/resolve.py).               *)
(***************************************************************************)
EXTENDS Sources

CONSTANT ThirdParty     \* THIRD_PARTY_PREFIXES, the first name of a symbol

SymbolKinds == {"class", "interface", "enum", "record", "annotation"}

Wild == "*"

-----------------------------------------------------------------------------

DefinersOf(x, fqn) == {r \in x.defines : r.fact.fqn = fqn}

SymbolOwner(x, fqn) == {r.module : r \in DefinersOf(x, fqn)}

NamespaceOwner(x, name) ==
    {r.module : r \in {d \in x.defines :
        /\ d.fact.kind \in SymbolKinds
        /\ Len(d.fact.fqn) > 1
        /\ Front(d.fact.fqn) = name}}

\* The modules that could satisfy a reference: those of the symbol, else those of
\* its longest prefix that is a namespace or a symbol.
OwnersOf(x, fqn) ==
    LET base == IF Last(fqn) = Wild THEN Front(fqn) ELSE fqn
        Prefix(n) == SubSeq(base, 1, n)
        known == {n \in 1..Len(base) :
                    NamespaceOwner(x, Prefix(n)) \union SymbolOwner(x, Prefix(n)) # {}}
        longest == Prefix(Max(known))
    IN IF SymbolOwner(x, fqn) # {} THEN SymbolOwner(x, fqn)
       ELSE IF known = {} THEN {}
       ELSE IF NamespaceOwner(x, longest) # {} THEN NamespaceOwner(x, longest)
       ELSE SymbolOwner(x, longest)

\* graph["observed"]: an edge for each owner of an import in another module.
Observed(x) ==
    UNION {{[from |-> r.module, to |-> m] : m \in OwnersOf(x, r.fact) \ {r.module}} : r \in x.uses}

\* The modules that a manifest's dependency may name: by path or by basename.
Candidates(inventory, row) ==
    (IF <<row.dep>> \in inventory.modules THEN {<<row.dep>>}
     ELSE {m \in inventory.modules : Last(m) = row.dep}) \ {row.module}

\* graph["declared"]: a basename that two modules share yields no edge.
Declared(inventory, x) ==
    UNION {{[from |-> d.module, to |-> m] : m \in Candidates(inventory, d)} :
              d \in {row \in x.declared : Cardinality(Candidates(inventory, row)) = 1}}

DeclaredAmbiguous(inventory, x) ==
    {d \in x.declared : Cardinality(Candidates(inventory, d)) > 1}

-----------------------------------------------------------------------------

IsThirdParty(fqn) == fqn[1] \in ThirdParty \/ Len(fqn) = 1

\* The definitions that count where a symbol has several: not those of tests.
Production(sites) == {s \in sites : Role(s.file) # "test"}

\* One row of xref["uses"]: how a reference resolves.
Resolve(x, use) ==
    LET sites == DefinersOf(x, use.fact)
        How(modules) == IF modules = {use.module} THEN "local" ELSE "matched"
    IN IF sites # {}
       THEN IF Cardinality(sites) = 1 THEN How({s.module : s \in sites})
            ELSE IF \E s \in sites : s.module = use.module THEN "local"
            ELSE IF Cardinality(Production(sites)) = 1 THEN "matched"
            ELSE "ambiguous"
       ELSE IF OwnersOf(x, use.fact) # {} THEN How(OwnersOf(x, use.fact))
       ELSE IF IsThirdParty(use.fact) THEN "third_party"
       ELSE "unresolved"

\* xref["uses"] and xref["used_by"], its transpose.
Uses(x) == {[use |-> u, how |-> Resolve(x, u)] : u \in x.uses}

UsedBy(uses, fqn) ==
    {u.use : u \in {r \in uses : r.use.fact = fqn /\ r.how \in {"local", "matched", "ambiguous"}}}

Symbols(x) == {r.fact.fqn : r \in x.defines}

-----------------------------------------------------------------------------

\* The values that a constant written `Owner.NAME` may have.
ConstantSites(x, ref) ==
    {r \in x.defines :
        /\ r.fact.kind \in {"constant", "config_key"} /\ r.fact.value # None
        /\ Len(r.fact.fqn) > 1 /\ SubSeq(r.fact.fqn, Len(r.fact.fqn) - 1, Len(r.fact.fqn)) = ref}

Unambiguous(x, ref) == Cardinality({r.fact.value : r \in ConstantSites(x, ref)}) = 1

IsRoute(edge) == edge.fact.channel = "http_in" /\ edge.fact.target[1] = "route:"

\* A route with the constants in it replaced, and those that have no one value.
ResolveRoute(x, edge) ==
    LET known == {ref \in edge.fact.refs : Unambiguous(x, ref)} IN
    [route    |-> edge.fact.target
                    \o SetToSeq({(CHOOSE r \in ConstantSites(x, ref) : TRUE).fact.value : ref \in known}),
     missing  |-> edge.fact.refs \ known,
     handler  |-> edge.fact.source,
     module   |-> edge.module,
     file     |-> edge.file,
     evidence |-> {edge.file} \union {(CHOOSE r \in ConstantSites(x, ref) : TRUE).file : ref \in known}]

Routes(x) == {ResolveRoute(x, e) : e \in {r \in x.ioEdges : IsRoute(r)}}

\* Public types without a reference, but for those a framework calls.
Unreferenced(x, uses) ==
    {fqn \in Symbols(x) :
        /\ \E r \in DefinersOf(x, fqn) : r.fact.kind \in SymbolKinds \ {"annotation"} /\ r.fact.public
        /\ UsedBy(uses, fqn) = {}
        /\ \A r \in DefinersOf(x, fqn) : ~x.files[r.file].managed}
=============================================================================
