------------------------------- MODULE Prompts -------------------------------
(***************************************************************************)
(* What the prompt of a scope tells its agent (cdp/prompts.py) and the     *)
(* tier that its scope gets (cdp/tiering.py).  Symbols and subjects are    *)
(* sequences of names; a claim is [subject, kind, evidence, nodes], with   *)
(* the number of its citations and the scopes that made it.  The text is   *)
(* its sections, measured in rows.                                         *)
(***************************************************************************)
EXTENDS Partition

CONSTANTS
    Structure(_),       \* of a file: its types, constants and channel edges
    Owned, ThirdParty,  \* the first names of the symbols of the repository and of libraries
    MaxInherited,       \* max_inherited, or what a lesson puts in its place
    MaxDigest, MinDigest,   \* the rows of a file in the digest, at most and at the floor
    MaxRows, MinRows,   \* the rows of a list of structure, at most and at the floor
    MaxGaps,            \* the references listed that nothing resolves
    Fixed,              \* the rows of the header and the task, lessons included
    MaxPrompt           \* max_prompt_tokens, in rows

ASSUME FloorsAreBelow ==
    /\ MaxInherited \in Nat /\ MaxPrompt \in Nat
    /\ MaxDigest \in Nat /\ MinDigest \in 1..MaxDigest
    /\ MaxRows \in Nat /\ MinRows \in 1..MaxRows

-----------------------------------------------------------------------------
(* sigma *)

\* The imports of a scope, and their namespaces.
ImportedSymbols(imports) == imports \union {Front(i) : i \in {j \in imports : Len(j) > 1}}

\* About an imported symbol, its owner or its member.
IsSigmaClaim(c, imported) == \E s \in imported : IsPrefix(s, c.subject) \/ IsPrefix(c.subject, s)

Fallback == {"entrypoint", "data_model", "ownership", "deployable"}

\* The second segment of a node is compared with the names of modules.
FromDependency(c, deps) == \E n \in c.nodes : n # <<>> /\ \E d \in deps : Home[d] = <<n[1]>>

Relevant(claims, imported, deps) ==
    {c \in claims : IsSigmaClaim(c, imported) \/ (FromDependency(c, deps) /\ c.kind \in Fallback)}

\* The sort key (-evidence, subject).
TellFirst(c, d) ==
    \/ c.evidence > d.evidence
    \/ c.evidence = d.evidence /\ NodeBefore(c.subject, d.subject)

\* What fits in the budget, the claims with the most evidence first.
Inherit(relevant, budget) ==
    CHOOSE kept \in kSubset(Min({budget, Cardinality(relevant)}), relevant) :
        \A c \in kept, d \in relevant \ kept : ~TellFirst(d, c)

-----------------------------------------------------------------------------
(* the budget of the whole prompt *)

Total(files, field) == MapThenSumSet(LAMBDA f : Structure(f)[field], files)

Halved(n, floor) == IF n \div 2 < floor THEN floor ELSE n \div 2

\* A list that is cut ends in a row that says so.
Listed(n, cap) == IF n > cap THEN cap + 1 ELSE n

\* A list of constants is cut without one.
StructureSection(files, cap) ==
    Listed(Total(files, "types"), cap)
      + Min({Total(files, "constants"), Halved(cap, MinRows)})
      + Listed(Total(files, "edges"), cap)

DigestSection(files, cap) == MapThenSumSet(LAMBDA f : Listed(f.loc, cap), files)

InheritedSection(relevant, budget) == Listed(Cardinality(relevant), budget)

FilesSection(files) == Cardinality(files)

\* Nothing that the repository defines, and no library.
Unresolved(imports) == {i \in imports : i[1] \notin Owned \union ThirdParty}

GapsSection(imports) == Min({Cardinality(Unresolved(imports)), MaxGaps})

Size(files, imports, relevant, levers, digest) ==
    Fixed + FilesSection(files) + StructureSection(files, levers.rows)
      + InheritedSection(relevant, levers.inherited)
      + GapsSection(imports)
      + (IF digest THEN DigestSection(files, levers.digest) ELSE 0)

Widest == [inherited |-> MaxInherited, digest |-> MaxDigest, rows |-> MaxRows]

\* The lever that loses least is drawn first; at every floor nothing changes.
Tighten(levers, digest) ==
    IF levers.inherited > 0 THEN [levers EXCEPT !.inherited = Halved(@, 0)]
    ELSE IF digest /\ levers.digest > MinDigest THEN [levers EXCEPT !.digest = Halved(@, MinDigest)]
    ELSE [levers EXCEPT !.rows = Halved(@, MinRows)]

\* Each turn lowers a lever, so that there are no more turns than this.
MaxTurns == MaxInherited + MaxDigest + MaxRows

BuildPrompt(files, imports, deps, claims, digest) ==
    LET relevant == Relevant(claims, ImportedSymbols(imports), deps)
        turn[n \in 0..MaxTurns] == IF n = 0 THEN Widest ELSE Tighten(turn[n - 1], digest)
        Fitting(levers) == Size(files, imports, relevant, levers, digest) <= MaxPrompt
        last == CHOOSE n \in 0..MaxTurns :
                    /\ Fitting(turn[n]) \/ Tighten(turn[n], digest) = turn[n]
                    /\ \A m \in 0..(n - 1) : ~Fitting(turn[m]) /\ Tighten(turn[m], digest) # turn[m]
        inherited == Inherit(relevant, turn[last].inherited)
    IN [inherited |-> inherited, elided |-> relevant \ inherited, levers |-> turn[last],
        exhausted |-> ~Fitting(turn[last]), unresolved |-> Unresolved(imports) # {}]

-----------------------------------------------------------------------------

\* compute_tier: an agent with tools reads a scope that has an import nothing explains.
ComputeTier(imports) ==
    IF Unresolved(imports) # {} THEN [tier |-> "T3", reason |-> "unresolved_imports"]
    ELSE [tier |-> "T2", reason |-> "none"]

\* apply_leaf_escalation: the reason that came first stays.
Escalate(row) == IF row.tier = "T3" THEN row ELSE [tier |-> "T3", reason |-> "leaf_escalated"]
=============================================================================
