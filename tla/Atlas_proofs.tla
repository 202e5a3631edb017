---------------------------- MODULE Atlas_proofs ----------------------------
(***************************************************************************)
(* Theorems about Atlas and Portal: of the rows that a refresh keeps, of   *)
(* the answers of queries and of the charts, for every commit, content and *)
(* budget.                                                                 *)
(***************************************************************************)
EXTENDS Portal, FiniteSetTheorems, WellFoundedInduction, TLAPS

(***************************************************************************)
(* Numbers and finite sets.                                                *)
(***************************************************************************)

\* What Min of the community modules chooses.
LEMMA LeastNumber ==
  ASSUME NEW T \in SUBSET Nat, T # {}
  PROVE  Min(T) \in T /\ \A y \in T : Min(T) <= y
<1>1. \E x \in T : \A y \in T : ~(<<y, x>> \in OpToRel(<, Nat))
  BY NatLessThanWellFounded, WFMin
<1>2. PICK x \in T : \A y \in T : ~(<<y, x>> \in OpToRel(<, Nat))
  BY <1>1
<1>3. \A y \in T : y < x => <<y, x>> \in OpToRel(<, Nat)
  BY DEF OpToRel
<1>4. \A y \in T : ~(y < x)
  BY <1>2, <1>3
<1>5. \A y \in T : x <= y
  BY <1>4
<1> QED
  BY <1>5 DEF Min

\* Of some subsets of a finite set one is smallest: induction over sets, without an operator.
LEMMA SmallestSet ==
  ASSUME NEW S, IsFiniteSet(S), NEW Bad \in SUBSET SUBSET S, Bad # {}
  PROVE  \E s \in Bad : \A t \in Bad : t \subseteq s => t = s
<1> DEFINE K == {Cardinality(s) : s \in Bad}
<1>1. \A s \in Bad : IsFiniteSet(s) /\ Cardinality(s) \in Nat
  BY FS_Subset, FS_CardinalityType
<1>2. K \in SUBSET Nat /\ K # {}
  BY <1>1
<1>3. Min(K) \in K /\ \A k \in K : Min(K) <= k
  BY <1>2, LeastNumber
<1>4. PICK s \in Bad : Cardinality(s) = Min(K)
  BY <1>3
<1>5. ASSUME NEW t \in Bad, t \subseteq s PROVE t = s
  <2>1. Cardinality(s) <= Cardinality(t) /\ Cardinality(t) <= Cardinality(s)
    BY <1>1, <1>3, <1>4, <1>5, FS_Subset
  <2>2. Cardinality(s) = Cardinality(t)
    BY <2>1, <1>1
  <2> QED
    BY <2>2, <1>1, <1>5, FS_Subset
<1> QED
  BY <1>4, <1>5

\* What some values of a function on a finite set make up is finite.
LEMMA FiniteValues ==
  ASSUME NEW S, IsFiniteSet(S), NEW f, NEW T, \A t \in T : \E x \in S : t = f[x]
  PROVE  IsFiniteSet(T)
<1> DEFINE All == {f[x] : x \in S}
           g == [x \in S |-> f[x]]
<1>1. g \in Surjection(S, All)
  BY DEF Surjection
<1>2. IsFiniteSet(All)
  BY <1>1, FS_Surjection
<1>3. T \in SUBSET All
  OBVIOUS
<1> QED
  BY <1>2, <1>3, FS_Subset

\* And so is what finitely many finite sets make up.
LEMMA FiniteUnion ==
  ASSUME NEW S, IsFiniteSet(S), NEW f, \A x \in S : IsFiniteSet(f[x]),
         NEW T, \A t \in T : \E x \in S : t \in f[x]
  PROVE  IsFiniteSet(T)
<1> DEFINE All == {f[x] : x \in S}
<1>1. IsFiniteSet(All)
  BY FiniteValues
<1>2. IsFiniteSet(UNION All)
  BY <1>1, FS_UNION
<1>3. T \in SUBSET UNION All
  OBVIOUS
<1> QED
  BY <1>2, <1>3, FS_Subset

(***************************************************************************)
(* Extraction: what a refresh reads again and what it carries over.        *)
(***************************************************************************)

\* The modules of the files that changed, and their files.
Reread(new, changed) == {Inventory(new).module[p] : p \in changed \intersect Tracked(new)}

Stale(new, changed) == {p \in Tracked(new) : Inventory(new).module[p] \in Reread(new, changed)}

\* A file that is not read again has the content and the module it had.
LEMMA CarriedAreSame ==
  ASSUME NEW c \in Commits, NEW d \in Commits, NEW history \in BOOLEAN,
         CarriesOver(Tree[c], Tree[d], history),
         NEW p \in Tracked(Tree[d]) \ Stale(Tree[d], Changed(Tree[c], Tree[d], history))
  PROVE  /\ p \in Tracked(Tree[c])
         /\ Tree[c][p] = Tree[d][p]
         /\ Inventory(Tree[c]).module[p] = Inventory(Tree[d]).module[p]
<1> DEFINE old == Tree[c]
           new == Tree[d]
           changed == Changed(old, new, history)
<1>1. p \in Tracked(new) /\ p \notin changed
  BY DEF Stale, Reread
<1>2. history
  BY <1>1 DEF Changed
<1>3. p \notin Range(Classify(old, new).renames) /\ p \notin Classify(old, new).added
  BY <1>1, <1>2 DEF Changed
<1>4. p \in DOMAIN new
  BY <1>1 DEF Tracked
<1>5. p \in DOMAIN old
  BY <1>3, <1>4 DEF Classify
<1>6. p \in Tracked(old)
  BY <1>1, <1>5 DEF Tracked
<1>7. Inventory(new).module[p] \notin Reread(new, changed)
  BY <1>1 DEF Stale
<1>8. old[p] = new[p] /\ Inventory(old).module[p] = Inventory(new).module[p]
  BY <1>1, <1>6, <1>7 DEF CarriesOver, Reread
<1> QED
  BY <1>6, <1>8

\* The rows of one kind.
LEMMA CarriedRows ==
  ASSUME NEW c \in Commits, NEW d \in Commits, NEW history \in BOOLEAN,
         CarriesOver(Tree[c], Tree[d], history), NEW field
  PROVE  LET changed == Changed(Tree[c], Tree[d], history)
             stale == Stale(Tree[d], changed)
             Parsed(tree, paths) == {p \in paths : Facts[tree[p]] # None}
             Rows(tree, paths) == Absorb(tree, Inventory(tree), Parsed(tree, paths), field)
             Full(tree) == Rows(tree, Tracked(tree))
         IN {r \in Full(Tree[c]) : r.file \in Tracked(Tree[d]) \ stale} \union Rows(Tree[d], stale) = Full(Tree[d])
<1> DEFINE old == Tree[c]
           new == Tree[d]
           stale == Stale(new, Changed(old, new, history))
           Parsed(tree, paths) == {p \in paths : Facts[tree[p]] # None}
           Rows(tree, paths) == Absorb(tree, Inventory(tree), Parsed(tree, paths), field)
<1> DEFINE Row(tree, p, fact) == [fact |-> fact, file |-> p, module |-> Inventory(tree).module[p],
                                  lines |-> SeenAt(tree[p], fact)]
<1>1. \A tree, paths, r : r \in Rows(tree, paths) <=>
        \E p \in paths : /\ Facts[tree[p]] # None
                         /\ \E fact \in Facts[tree[p]][field] : r = Row(tree, p, fact)
  BY DEF Absorb
<1>2. stale \subseteq Tracked(new)
  BY DEF Stale
<1>3. ASSUME NEW p \in Tracked(new) \ stale
      PROVE  /\ p \in Tracked(old)
             /\ Facts[old[p]] = Facts[new[p]]
             /\ \A fact : Row(old, p, fact) = Row(new, p, fact)
  BY CarriedAreSame
<1>4. \A tree, p, fact : Row(tree, p, fact).file = p
  OBVIOUS
<1> HIDE DEF old, new, stale, Rows, Row
<1>5. \A r \in Rows(old, Tracked(old)) : r.file \in Tracked(new) \ stale => r \in Rows(new, Tracked(new))
  BY <1>1, <1>3, <1>4
<1>6. \A r \in Rows(new, stale) : r \in Rows(new, Tracked(new))
  BY <1>1, <1>2
<1>7. \A r \in Rows(new, Tracked(new)) :
        r \in Rows(new, stale) \/ (r \in Rows(old, Tracked(old)) /\ r.file \in Tracked(new) \ stale)
  BY <1>1, <1>3, <1>4
<1>8. {r \in Rows(old, Tracked(old)) : r.file \in Tracked(new) \ stale} \union Rows(new, stale) = Rows(new, Tracked(new))
  BY <1>5, <1>6, <1>7
<1> QED
  BY <1>8 DEF old, new, stale, Rows

\* What a module says through one of its files, without a file in the row.
Says(tree, p, field, row) ==
    /\ Facts[tree[p]] # None
    /\ row.fact \in Facts[tree[p]][field]
    /\ row.module = Inventory(tree).module[p]

\* Declared dependencies and notes have no file: a module is read again as a whole.
LEMMA CarriedAggregates ==
  ASSUME NEW c \in Commits, NEW d \in Commits, NEW history \in BOOLEAN,
         CarriesOver(Tree[c], Tree[d], history), NEW field \in {"deps", "notes"}, NEW row
  PROVE  LET changed == Changed(Tree[c], Tree[d], history) IN
         \/ row.module \notin Reread(Tree[d], changed) /\ \E p \in Tracked(Tree[c]) : Says(Tree[c], p, field, row)
         \/ \E p \in Stale(Tree[d], changed) : Says(Tree[d], p, field, row)
         <=> \E p \in Tracked(Tree[d]) : Says(Tree[d], p, field, row)
<1> DEFINE old == Tree[c]
           new == Tree[d]
           changed == Changed(old, new, history)
           stale == Stale(new, changed)
           reread == Reread(new, changed)
<1>1. stale \subseteq Tracked(new) /\ \A p \in Tracked(new) : p \in stale <=> Inventory(new).module[p] \in reread
  BY DEF Stale
<1>2. ASSUME NEW p \in Tracked(new) \ stale
      PROVE  p \in Tracked(old) /\ (Says(old, p, field, row) <=> Says(new, p, field, row))
  BY CarriedAreSame DEF Says
<1>3. ASSUME NEW p \in Tracked(old), Says(old, p, field, row), row.module \notin reread
      PROVE  p \in Tracked(new) \ stale
  <2>1. Facts[old[p]] # None /\ Facts[old[p]].deps \union Facts[old[p]].notes # {}
    BY <1>3 DEF Says
  <2>2. Inventory(old).module[p] \notin reread
    BY <1>3 DEF Says
  <2>3. p \in Tracked(new) /\ Inventory(old).module[p] = Inventory(new).module[p]
    BY <2>1, <2>2 DEF CarriesOver, Reread
  <2> QED
    BY <2>2, <2>3, <1>1
<1>4. ASSUME NEW p \in Tracked(new) \ stale, Says(new, p, field, row) PROVE row.module \notin reread
  BY <1>1, <1>4 DEF Says
<1> HIDE DEF old, new, stale, reread
<1>5. (row.module \notin reread /\ \E p \in Tracked(old) : Says(old, p, field, row)) \/ (\E p \in stale : Says(new, p, field, row))
        <=> \E p \in Tracked(new) : Says(new, p, field, row)
  BY <1>1, <1>2, <1>3, <1>4
<1> QED
  BY <1>5 DEF old, new, stale, reread, changed

\* The rows that some files yield are what their modules say through them.
LEMMA RowsSay ==
  ASSUME NEW tree, NEW paths, NEW field, NEW t
  PROVE  LET rows == Absorb(tree, Inventory(tree), {p \in paths : Facts[tree[p]] # None}, field) IN
         /\ t \in rows => \E p \in paths : Says(tree, p, field, t)
         /\ (\E p \in paths : Says(tree, p, field, t)) => \E r \in rows : r.module = t.module /\ r.fact = t.fact
<1> DEFINE rows == Absorb(tree, Inventory(tree), {p \in paths : Facts[tree[p]] # None}, field)
           Row(p, fact) == [fact |-> fact, file |-> p, module |-> Inventory(tree).module[p], lines |-> SeenAt(tree[p], fact)]
<1>1. \A r : r \in rows <=>
        \E p \in paths : Facts[tree[p]] # None /\ \E fact \in Facts[tree[p]][field] : r = Row(p, fact)
  BY DEF Absorb
<1>2. \A p, fact : Row(p, fact).module = Inventory(tree).module[p] /\ Row(p, fact).fact = fact
  OBVIOUS
<1> HIDE DEF rows, Row
<1>3. t \in rows => \E p \in paths : Says(tree, p, field, t)
  BY <1>1, <1>2 DEF Says
<1>4. ASSUME NEW p \in paths, Says(tree, p, field, t)
      PROVE  \E r \in rows : r.module = t.module /\ r.fact = t.fact
  <2>1. Row(p, t.fact) \in rows
    BY <1>1, <1>4 DEF Says
  <2> QED
    BY <2>1, <1>2, <1>4 DEF Says
<1> QED
  BY <1>3, <1>4 DEF rows

\* So both are those that a scan aggregates.
LEMMA CarriedDeclared ==
  ASSUME NEW c \in Commits, NEW d \in Commits, NEW history \in BOOLEAN,
         CarriesOver(Tree[c], Tree[d], history)
  PROVE  LET changed == Changed(Tree[c], Tree[d], history)
             Of(tree, paths) == ExtractFiles(tree, Inventory(tree), paths)
             was == Of(Tree[c], Tracked(Tree[c]))
             fresh == Of(Tree[d], Stale(Tree[d], changed))
             full == Of(Tree[d], Tracked(Tree[d]))
         IN /\ {r \in was.declared : r.module \notin Reread(Tree[d], changed)} \union fresh.declared = full.declared
            /\ {n \in was.notes : n.module \notin Reread(Tree[d], changed)} \union fresh.notes = full.notes
<1> DEFINE old == Tree[c]
           new == Tree[d]
           changed == Changed(old, new, history)
           stale == Stale(new, changed)
           reread == Reread(new, changed)
           Of(tree, paths) == ExtractFiles(tree, Inventory(tree), paths)
           SaidIn(tree, paths, field, t) == \E p \in paths : Says(tree, p, field, t)
           Dep(m, f) == [module |-> m, dep |-> f]
           Note(m, f) == [module |-> m, note |-> f]
           Said(m, f) == [module |-> m, fact |-> f]
<1>1. ASSUME NEW tree, NEW paths
      PROVE  /\ \A r : r \in Of(tree, paths).declared <=> \E m, f : r = Dep(m, f) /\ SaidIn(tree, paths, "deps", Said(m, f))
             /\ \A r : r \in Of(tree, paths).notes <=> \E m, f : r = Note(m, f) /\ SaidIn(tree, paths, "notes", Said(m, f))
  <2> DEFINE Rows(field) == Absorb(tree, Inventory(tree), {p \in paths : Facts[tree[p]] # None}, field)
  <2>1. /\ Of(tree, paths).declared = {Dep(r.module, r.fact) : r \in Rows("deps")}
        /\ Of(tree, paths).notes = {Note(r.module, r.fact) : r \in Rows("notes")}
    BY DEF ExtractFiles
  <2>2. \A field, m, f : SaidIn(tree, paths, field, Said(m, f)) <=> \E r \in Rows(field) : r.module = m /\ r.fact = f
    <3>1. \A field, r : r \in Rows(field) => SaidIn(tree, paths, field, r)
      BY RowsSay
    <3>2. ASSUME NEW field, NEW t, SaidIn(tree, paths, field, t)
          PROVE  \E r \in Rows(field) : r.module = t.module /\ r.fact = t.fact
      BY <3>2, RowsSay
    <3>3. \A field, t, u : t.module = u.module /\ t.fact = u.fact /\ SaidIn(tree, paths, field, t) => SaidIn(tree, paths, field, u)
      BY DEF Says
    <3>4. \A m, f : Said(m, f).module = m /\ Said(m, f).fact = f
      OBVIOUS
    <3> HIDE DEF Rows, SaidIn, Said
    <3> QED
      BY <3>1, <3>2, <3>3, <3>4
  <2> HIDE DEF Rows, SaidIn, Said, Of
  <2>3. \A r : r \in Of(tree, paths).declared <=> \E m, f : r = Dep(m, f) /\ SaidIn(tree, paths, "deps", Said(m, f))
    BY <2>1, <2>2
  <2>4. \A r : r \in Of(tree, paths).notes <=> \E m, f : r = Note(m, f) /\ SaidIn(tree, paths, "notes", Said(m, f))
    BY <2>1, <2>2
  <2> QED
    BY <2>3, <2>4
<1>2. ASSUME NEW field \in {"deps", "notes"}, NEW m, NEW f
      PROVE  (m \notin reread /\ SaidIn(old, Tracked(old), field, Said(m, f))) \/ SaidIn(new, stale, field, Said(m, f))
               <=> SaidIn(new, Tracked(new), field, Said(m, f))
  <2>1. Said(m, f).module = m
    OBVIOUS
  <2> HIDE DEF Said
  <2> QED
    BY <2>1, CarriedAggregates
<1>3. \A m, f : Dep(m, f).module = m /\ Note(m, f).module = m
  OBVIOUS
<1> HIDE DEF old, new, stale, reread, Of, SaidIn, Dep, Note, Said
<1>4. {r \in Of(old, Tracked(old)).declared : r.module \notin reread} \union Of(new, stale).declared = Of(new, Tracked(new)).declared
  <2>1. \A r : r \in {r_1 \in Of(old, Tracked(old)).declared : r_1.module \notin reread} \union Of(new, stale).declared
               <=> r \in Of(new, Tracked(new)).declared
    BY <1>1, <1>2, <1>3
  <2> QED
    BY <2>1
<1>5. {n \in Of(old, Tracked(old)).notes : n.module \notin reread} \union Of(new, stale).notes = Of(new, Tracked(new)).notes
  <2>1. \A n : n \in {n_1 \in Of(old, Tracked(old)).notes : n_1.module \notin reread} \union Of(new, stale).notes
               <=> n \in Of(new, Tracked(new)).notes
    BY <1>1, <1>2, <1>3
  <2> QED
    BY <2>1
<1> QED
  BY <1>4, <1>5 DEF old, new, stale, reread, Of

\* What each file yields.
LEMMA CarriedFiles ==
  ASSUME NEW c \in Commits, NEW d \in Commits, NEW history \in BOOLEAN,
         CarriesOver(Tree[c], Tree[d], history)
  PROVE  LET stale == Stale(Tree[d], Changed(Tree[c], Tree[d], history))
             Of(tree, paths) == ExtractFiles(tree, Inventory(tree), paths).files
             kept == (Tracked(Tree[d]) \ stale) \intersect DOMAIN Of(Tree[c], Tracked(Tree[c]))
             fresh == Of(Tree[d], stale)
         IN [p \in kept \union DOMAIN fresh |-> IF p \in kept THEN Of(Tree[c], Tracked(Tree[c]))[p] ELSE fresh[p]]
            = Of(Tree[d], Tracked(Tree[d]))
<1> DEFINE old == Tree[c]
           new == Tree[d]
           stale == Stale(new, Changed(old, new, history))
           Of(tree, paths) == ExtractFiles(tree, Inventory(tree), paths).files
           kept == (Tracked(new) \ stale) \intersect DOMAIN Of(old, Tracked(old))
<1>1. \A tree, paths : Of(tree, paths) = [p \in {q \in paths : Facts[tree[q]] # None} |-> Facts[tree[p]]]
  BY DEF ExtractFiles
<1>2. stale \subseteq Tracked(new)
  BY DEF Stale
<1>3. ASSUME NEW p \in Tracked(new) \ stale PROVE p \in Tracked(old) /\ Facts[old[p]] = Facts[new[p]]
  BY CarriedAreSame
<1> HIDE DEF old, new, stale, Of
<1>4. kept = {p \in Tracked(new) \ stale : Facts[new[p]] # None}
  BY <1>1, <1>3
<1>5. kept \union DOMAIN Of(new, stale) = DOMAIN Of(new, Tracked(new))
  BY <1>1, <1>2, <1>4
<1>6. \A p \in kept : Of(old, Tracked(old))[p] = Of(new, Tracked(new))[p]
  BY <1>1, <1>3, <1>4
<1>7. \A p \in DOMAIN Of(new, stale) : Of(new, stale)[p] = Of(new, Tracked(new))[p]
  BY <1>1, <1>2
<1> DEFINE whole == Of(new, Tracked(new))
<1>8. whole = [p \in DOMAIN whole |-> whole[p]]
  BY <1>1
<1> HIDE DEF kept
<1>9. [p \in kept \union DOMAIN Of(new, stale) |-> IF p \in kept THEN Of(old, Tracked(old))[p] ELSE Of(new, stale)[p]]
        = [p \in DOMAIN whole |-> whole[p]]
  BY <1>5, <1>6, <1>7
<1> QED
  BY <1>8, <1>9 DEF old, new, stale, Of, kept

\* incremental_extract is run_extract.
LEMMA RefreshedRows ==
  ASSUME NEW c \in Commits, NEW d \in Commits, NEW history \in BOOLEAN,
         CarriesOver(Tree[c], Tree[d], history)
  PROVE  IncrementalExtract(Tree[d], Inventory(Tree[d]), RunExtract(Tree[c], Inventory(Tree[c])),
                            Changed(Tree[c], Tree[d], history))
         = RunExtract(Tree[d], Inventory(Tree[d]))
<1> DEFINE old == Tree[c]
           new == Tree[d]
           changed == Changed(old, new, history)
           stale == Stale(new, changed)
           x == RunExtract(old, Inventory(old))
           y == RunExtract(new, Inventory(new))
           fresh == ExtractFiles(new, Inventory(new), stale)
           result == IncrementalExtract(new, Inventory(new), x, changed)
           kept == (Tracked(new) \ stale) \intersect DOMAIN x.files
           Carried(rows) == {r \in rows : r.file \in Tracked(new) \ stale}
<1>1. result = [files    |-> [p \in kept \union DOMAIN fresh.files |-> IF p \in kept THEN x.files[p] ELSE fresh.files[p]],
                defines  |-> Carried(x.defines) \union fresh.defines,
                uses     |-> Carried(x.uses) \union fresh.uses,
                ioEdges  |-> Carried(x.ioEdges) \union fresh.ioEdges,
                declared |-> {r \in x.declared : r.module \notin Reread(new, changed)} \union fresh.declared,
                notes    |-> {n \in x.notes : n.module \notin Reread(new, changed)} \union fresh.notes]
  BY DEF IncrementalExtract, Stale, Reread
<1> DEFINE Rows(tree, paths, field) == Absorb(tree, Inventory(tree), {p \in paths : Facts[tree[p]] # None}, field)
<1>2. \A field : Carried(Rows(old, Tracked(old), field)) \union Rows(new, stale, field) = Rows(new, Tracked(new), field)
  BY CarriedRows
<1>3. /\ x.defines = Rows(old, Tracked(old), "defines") /\ fresh.defines = Rows(new, stale, "defines")
      /\ y.defines = Rows(new, Tracked(new), "defines")
  BY DEF RunExtract, ExtractFiles
<1>4. /\ x.uses = Rows(old, Tracked(old), "uses") /\ fresh.uses = Rows(new, stale, "uses")
      /\ y.uses = Rows(new, Tracked(new), "uses")
  BY DEF RunExtract, ExtractFiles
<1>5. /\ x.ioEdges = Rows(old, Tracked(old), "ioEdges") /\ fresh.ioEdges = Rows(new, stale, "ioEdges")
      /\ y.ioEdges = Rows(new, Tracked(new), "ioEdges")
  BY DEF RunExtract, ExtractFiles
<1>6. /\ {r \in x.declared : r.module \notin Reread(new, changed)} \union fresh.declared = y.declared
      /\ {n \in x.notes : n.module \notin Reread(new, changed)} \union fresh.notes = y.notes
  BY CarriedDeclared DEF RunExtract
<1>7. [p \in kept \union DOMAIN fresh.files |-> IF p \in kept THEN x.files[p] ELSE fresh.files[p]] = y.files
  BY CarriedFiles DEF RunExtract
<1>8. y = [files |-> y.files, defines |-> y.defines, uses |-> y.uses, ioEdges |-> y.ioEdges, declared |-> y.declared,
           notes |-> y.notes]
  BY DEF RunExtract, ExtractFiles
<1> HIDE DEF x, y, fresh, result, kept, Carried, Rows
<1>9. /\ Carried(x.defines) \union fresh.defines = y.defines
      /\ Carried(x.uses) \union fresh.uses = y.uses
      /\ Carried(x.ioEdges) \union fresh.ioEdges = y.ioEdges
  BY <1>2, <1>3, <1>4, <1>5
<1>10. result = y
  BY <1>1, <1>6, <1>7, <1>8, <1>9
<1> QED
  BY <1>10 DEF result, x, y

(***************************************************************************)
(* What a view holds.                                                      *)
(***************************************************************************)

Fields == {"defines", "uses", "ioEdges"}

\* The rows of some files of a tree, each with a fact that was read out of its file.
Extracted(x, tree) ==
    /\ DOMAIN x.files \subseteq Tracked(tree)
    /\ \A p \in DOMAIN x.files : \E c \in DOMAIN Facts : x.files[p] = Facts[c] /\ Facts[c] # None
    /\ \A field \in Fields :
          /\ IsFiniteSet(x[field])
          /\ \A r \in x[field] : r.file \in DOMAIN x.files /\ r.fact \in x.files[r.file][field]
    /\ IsFiniteSet(x.declared)

LEMMA TreeIsFinite ==
  ASSUME NEW c \in Commits
  PROVE  IsFiniteSet(Tracked(Tree[c])) /\ Tracked(Tree[c]) \subseteq Name
<1>1. Tracked(Tree[c]) \in SUBSET DOMAIN Tree[c]
  BY DEF Tracked
<1> QED
  BY <1>1, TreesAreKnown, FS_Subset

LEMMA FreshRows ==
  ASSUME NEW c \in Commits, NEW inventory, NEW paths \in SUBSET Tracked(Tree[c])
  PROVE  LET x == ExtractFiles(Tree[c], inventory, paths) IN
         Extracted(x, Tree[c]) /\ DOMAIN x.files \subseteq paths
<1> DEFINE tree == Tree[c]
           x == ExtractFiles(tree, inventory, paths)
           parsed == {p \in paths : Facts[tree[p]] # None}
           Rows(field) == Absorb(tree, inventory, parsed, field)
<1>1. x = [files    |-> [p \in parsed |-> Facts[tree[p]]],
           defines  |-> Rows("defines"),
           uses     |-> Rows("uses"),
           ioEdges  |-> Rows("ioEdges"),
           declared |-> {[module |-> r.module, dep |-> r.fact] : r \in Rows("deps")},
           notes    |-> {[module |-> r.module, note |-> r.fact] : r \in Rows("notes")}]
  BY DEF ExtractFiles
<1>2. \A p \in parsed : tree[p] \in DOMAIN Facts /\ Facts[tree[p]] # None
  BY TreesAreKnown DEF Tracked
<1>3. ASSUME NEW field \in Fields \union {"deps"}
      PROVE  /\ IsFiniteSet(Rows(field))
             /\ \A r \in Rows(field) : r.file \in parsed /\ r.fact \in Facts[tree[r.file]][field]
  <2> DEFINE Of(p) == {[fact |-> fact, file |-> p, module |-> inventory.module[p], lines |-> SeenAt(tree[p], fact)] :
                         fact \in Facts[tree[p]][field]}
             of == [p \in parsed |-> Of(p)]
  <2>1. IsFiniteSet(parsed)
    <3>1. parsed \in SUBSET Tracked(tree)
      OBVIOUS
    <3> QED
      BY <3>1, TreeIsFinite, FS_Subset
  <2>2. ASSUME NEW p \in parsed PROVE IsFiniteSet(Of(p))
    <3> DEFINE row == [fact \in Facts[tree[p]][field] |->
                         [fact |-> fact, file |-> p, module |-> inventory.module[p], lines |-> SeenAt(tree[p], fact)]]
    <3>1. IsFiniteSet(Facts[tree[p]][field])
      BY <1>2, FactsAreRows DEF Fields
    <3>2. \A t \in Of(p) : \E fact \in Facts[tree[p]][field] : t = row[fact]
      OBVIOUS
    <3> HIDE DEF row, Of, parsed
    <3> QED
      BY <3>1, <3>2, FiniteValues
  <2>3. Rows(field) = UNION {Of(p) : p \in parsed}
    BY DEF Absorb
  <2>4. \A p \in parsed : IsFiniteSet(of[p])
    BY <2>2
  <2>5. \A t \in Rows(field) : \E p \in parsed : t \in of[p]
    BY <2>3
  <2>6. IsFiniteSet(Rows(field))
    <3> HIDE DEF Rows, parsed, of
    <3> QED
      BY <2>1, <2>4, <2>5, FiniteUnion
  <2>7. \A r \in Rows(field) : r.file \in parsed /\ r.fact \in Facts[tree[r.file]][field]
    BY DEF Absorb
  <2> QED
    BY <2>6, <2>7
<1>4. IsFiniteSet(x.declared)
  <2> DEFINE dep == [r \in Rows("deps") |-> [module |-> r.module, dep |-> r.fact]]
  <2>1. x.declared = {[module |-> r.module, dep |-> r.fact] : r \in Rows("deps")}
    BY <1>1
  <2>2. IsFiniteSet(Rows("deps"))
    BY <1>3
  <2> HIDE DEF Rows, x
  <2>3. \A t \in x.declared : \E r \in Rows("deps") : t = dep[r]
    BY <2>1
  <2> HIDE DEF dep
  <2> QED
    BY <2>2, <2>3, FiniteValues
<1>5. DOMAIN x.files = parsed /\ \A p \in parsed : x.files[p] = Facts[tree[p]]
  BY <1>1
<1>6. \A field \in Fields : x[field] = Rows(field)
  BY <1>1 DEF Fields
<1>7. parsed \subseteq Tracked(tree)
  OBVIOUS
<1> HIDE DEF x, Rows, parsed
<1>8. \A field \in Fields :
          /\ IsFiniteSet(x[field])
          /\ \A r \in x[field] : r.file \in DOMAIN x.files /\ r.fact \in x.files[r.file][field]
  BY <1>3, <1>5, <1>6
<1>9. Extracted(x, tree)
  BY <1>2, <1>4, <1>5, <1>7, <1>8 DEF Extracted
<1> QED
  BY <1>5, <1>9 DEF x, parsed

LEMMA CarriedAndFresh ==
  ASSUME NEW c \in Commits, NEW d \in Commits, NEW inventory, NEW prior, Extracted(prior, Tree[c]), NEW changed
  PROVE  Extracted(IncrementalExtract(Tree[d], inventory, prior, changed), Tree[d])
<1> DEFINE new == Tree[d]
           modules == {inventory.module[p] : p \in changed \intersect Tracked(new)}
           stale == {p \in Tracked(new) : inventory.module[p] \in modules}
           fresh == ExtractFiles(new, inventory, stale)
           Carried(rows) == {r \in rows : r.file \in Tracked(new) \ stale}
           kept == (Tracked(new) \ stale) \intersect DOMAIN prior.files
           x == IncrementalExtract(new, inventory, prior, changed)
<1>1. x = [files    |-> [p \in kept \union DOMAIN fresh.files |->
                           IF p \in kept THEN prior.files[p] ELSE fresh.files[p]],
           defines  |-> Carried(prior.defines) \union fresh.defines,
           uses     |-> Carried(prior.uses) \union fresh.uses,
           ioEdges  |-> Carried(prior.ioEdges) \union fresh.ioEdges,
           declared |-> {r \in prior.declared : r.module \notin modules} \union fresh.declared,
           notes    |-> {n \in prior.notes : n.module \notin modules} \union fresh.notes]
  BY DEF IncrementalExtract
<1>2. Extracted(fresh, new) /\ DOMAIN fresh.files \subseteq stale
  BY FreshRows
<1>6. stale \subseteq Tracked(new)
  OBVIOUS
<1>7. kept \subseteq Tracked(new) /\ kept \subseteq DOMAIN prior.files
  OBVIOUS
<1>8. \A r \in DOMAIN prior.files : r \in Tracked(new) \ stale => r \in kept
  OBVIOUS
<1> HIDE DEF x, fresh, kept, stale, modules
<1>3. ASSUME NEW field \in Fields PROVE x[field] = Carried(prior[field]) \union fresh[field]
  <2> HIDE DEF Carried
  <2>1. field = "defines" \/ field = "uses" \/ field = "ioEdges"
    BY DEF Fields
  <2> QED
    BY <1>1, <2>1
<1>4. /\ DOMAIN x.files = kept \union DOMAIN fresh.files
      /\ \A p \in kept : x.files[p] = prior.files[p]
      /\ \A p \in DOMAIN fresh.files : x.files[p] = fresh.files[p]
  <2>1. DOMAIN fresh.files \intersect kept = {}
    BY <1>2 DEF kept
  <2>2. x.files = [p \in kept \union DOMAIN fresh.files |-> IF p \in kept THEN prior.files[p] ELSE fresh.files[p]]
    BY <1>1
  <2> QED
    BY <2>1, <2>2
<1>5. x.declared \subseteq prior.declared \union fresh.declared
  <2>1. x.declared = {r \in prior.declared : r.module \notin modules} \union fresh.declared
    BY <1>1
  <2> QED
    BY <2>1
<1>9. DOMAIN x.files \subseteq Tracked(new)
  BY <1>2, <1>4, <1>7 DEF Extracted
<1>10. \A p \in DOMAIN x.files : \E e \in DOMAIN Facts : x.files[p] = Facts[e] /\ Facts[e] # None
  BY <1>2, <1>4, <1>7 DEF Extracted
<1>11. ASSUME NEW field \in Fields
       PROVE  /\ IsFiniteSet(x[field])
              /\ \A r \in x[field] : r.file \in DOMAIN x.files /\ r.fact \in x.files[r.file][field]
  <2>1. IsFiniteSet(prior[field]) /\ IsFiniteSet(fresh[field])
    BY <1>2 DEF Extracted
  <2>2. Carried(prior[field]) \in SUBSET prior[field]
    OBVIOUS
  <2>3. IsFiniteSet(Carried(prior[field]))
    BY <2>1, <2>2, FS_Subset
  <2>4. IsFiniteSet(x[field])
    <3>1. IsFiniteSet(Carried(prior[field]) \union fresh[field])
      BY <2>1, <2>3, FS_Union
    <3> QED
      BY <3>1, <1>3
  <2>5. ASSUME NEW r \in Carried(prior[field])
        PROVE  r.file \in DOMAIN x.files /\ r.fact \in x.files[r.file][field]
    <3>1. r.file \in DOMAIN prior.files /\ r.fact \in prior.files[r.file][field]
      BY DEF Extracted
    <3>2. r.file \in kept
      BY <3>1, <1>8
    <3> QED
      BY <3>1, <3>2, <1>4
  <2>6. ASSUME NEW r \in fresh[field]
        PROVE  r.file \in DOMAIN x.files /\ r.fact \in x.files[r.file][field]
    BY <1>2, <1>4 DEF Extracted
  <2> QED
    BY <1>3, <2>4, <2>5, <2>6
<1>12. IsFiniteSet(x.declared)
  <2>1. IsFiniteSet(prior.declared \union fresh.declared)
    BY <1>2, FS_Union DEF Extracted
  <2>2. x.declared \in SUBSET (prior.declared \union fresh.declared)
    BY <1>5
  <2> QED
    BY <2>1, <2>2, FS_Subset
<1>13. Extracted(x, new)
  BY <1>9, <1>10, <1>11, <1>12 DEF Extracted
<1> QED
  BY <1>13 DEF x

\* The facts of the rows.
LEMMA RowFacts ==
  ASSUME NEW c \in Commits, NEW x, Extracted(x, Tree[c])
  PROVE  /\ IsFiniteSet(x.defines) /\ IsFiniteSet(x.uses) /\ IsFiniteSet(x.ioEdges)
         /\ \A r \in x.defines : r.file \in Tracked(Tree[c]) /\ r.fact.fqn \in Name
         /\ \A r \in x.uses : r.file \in Tracked(Tree[c]) /\ r.fact \in Name
         /\ \A r \in x.ioEdges : /\ r.file \in Tracked(Tree[c])
                                 /\ r.fact.source \in Name /\ r.fact.target \in Name /\ IsFiniteSet(r.fact.refs)
         /\ \A file : Primary(x, file) \in Name \union {None}
<1>1. \A p \in DOMAIN x.files :
         /\ \A d \in x.files[p]["defines"] : d.fqn \in Name
         /\ x.files[p]["uses"] \subseteq Name
         /\ \A e \in x.files[p]["ioEdges"] : e.source \in Name /\ e.target \in Name /\ IsFiniteSet(e.refs)
         /\ x.files[p].primary \in Name \union {None}
  BY FactsAreRows DEF Extracted
<1>2. \A field \in Fields :
          /\ IsFiniteSet(x[field])
          /\ \A r \in x[field] : r.file \in Tracked(Tree[c]) /\ r.file \in DOMAIN x.files /\ r.fact \in x.files[r.file][field]
  BY DEF Extracted
<1>3. \A file : Primary(x, file) \in Name \union {None}
  BY <1>1 DEF Primary
<1>4. "defines" \in Fields /\ "uses" \in Fields /\ "ioEdges" \in Fields
  BY DEF Fields
<1>5. IsFiniteSet(x.defines) /\ \A r \in x.defines : r.file \in Tracked(Tree[c]) /\ r.fact.fqn \in Name
  BY <1>1, <1>2, <1>4
<1>6. IsFiniteSet(x.uses) /\ \A r \in x.uses : r.file \in Tracked(Tree[c]) /\ r.fact \in Name
  BY <1>1, <1>2, <1>4
<1>7. /\ IsFiniteSet(x.ioEdges)
      /\ \A r \in x.ioEdges : /\ r.file \in Tracked(Tree[c])
                              /\ r.fact.source \in Name /\ r.fact.target \in Name /\ IsFiniteSet(r.fact.refs)
  BY <1>1, <1>2, <1>4
<1> QED
  BY <1>3, <1>5, <1>6, <1>7

LEMMA DedupedAre ==
  ASSUME NEW E, IsFiniteSet(E)
  PROVE  /\ Deduped(E) \subseteq E /\ IsFiniteSet(Deduped(E))
         /\ \A e \in E : \E f \in Deduped(E) : <<f.source, f.target, f.channel>> = <<e.source, e.target, e.channel>>
<1> DEFINE Key(e) == <<e.source, e.target, e.channel>>
<1> DEFINE Ks == {Key(e) : e \in E}
<1>1. \A k \in Ks : (CHOOSE f \in E : Key(f) = k) \in E /\ Key(CHOOSE f \in E : Key(f) = k) = k
  OBVIOUS
<1>2. Deduped(E) = {CHOOSE f \in E : Key(f) = k : k \in Ks}
  BY DEF Deduped
<1>3. Deduped(E) \in SUBSET E
  BY <1>1, <1>2
<1>4. ASSUME NEW e \in E PROVE \E f \in Deduped(E) : Key(f) = Key(e)
  <2>1. PICK k \in Ks : k = Key(e)
    OBVIOUS
  <2> HIDE DEF Ks
  <2>2. (CHOOSE f \in E : Key(f) = k) \in Deduped(E)
    BY <1>2
  <2> QED
    BY <1>1, <2>1, <2>2
<1>5. IsFiniteSet(Deduped(E))
  BY <1>3, FS_Subset
<1> QED
  BY <1>3, <1>4, <1>5

\* An edge is a row of the extraction, or a call for an import.
OfRow(x, e) == \E r \in x.ioEdges : e = Edge(r.fact.source, r.fact.target, r.fact.channel, r)

OfImport(x, e) ==
    \E u \in x.uses : /\ Resolve(x, u) \in {"local", "matched"} /\ Primary(x, u.file) \notin {None, u.fact}
                      /\ Last(u.fact) # Wild /\ e = Edge(Primary(x, u.file), u.fact, "call", u)

LEMMA EdgesAre ==
  ASSUME NEW c \in Commits, NEW x, Extracted(x, Tree[c])
  PROVE  /\ IsFiniteSet(Uses(x)) /\ IsFiniteSet(FlowEdges(x, Uses(x)))
         /\ \A e \in FlowEdges(x, Uses(x)) :
               /\ OfRow(x, e) \/ OfImport(x, e)
               /\ e.source \in Name /\ e.target \in Name /\ e.file \in Tracked(Tree[c])
<1> DEFINE A == {Edge(r.fact.source, r.fact.target, r.fact.channel, r) : r \in x.ioEdges}
           B == CallEdges(x, Uses(x))
           a == [r \in x.ioEdges |-> Edge(r.fact.source, r.fact.target, r.fact.channel, r)]
           b == [u \in x.uses |-> Edge(Primary(x, u.file), u.fact, "call", u)]
           w == [u \in x.uses |-> [use |-> u, how |-> Resolve(x, u)]]
<1>1. IsFiniteSet(x.ioEdges) /\ IsFiniteSet(x.uses)
  BY RowFacts
<1>2. \A e \in A : \E r \in x.ioEdges : e = a[r]
  OBVIOUS
<1>3. \A e \in B : OfImport(x, e)
  BY DEF CallEdges, Uses, OfImport
<1>4. \A e \in B : \E u \in x.uses : e = b[u]
  BY <1>3 DEF OfImport
<1>5. \A e \in A : OfRow(x, e)
  BY DEF OfRow
<1>6. \A t \in Uses(x) : \E u \in x.uses : t = w[u]
  BY DEF Uses
<1>7. IsFiniteSet(A)
  <2> HIDE DEF A, a
  <2> QED
    BY <1>1, <1>2, FiniteValues
<1>8. IsFiniteSet(B)
  <2> HIDE DEF B, b
  <2> QED
    BY <1>1, <1>4, FiniteValues
<1>9. IsFiniteSet(Uses(x))
  <2> HIDE DEF w
  <2> QED
    BY <1>1, <1>6, FiniteValues
<1>10. FlowEdges(x, Uses(x)) = Deduped(A) \union Deduped(B)
  BY DEF FlowEdges
<1> HIDE DEF A, B
<1>11. /\ Deduped(A) \subseteq A /\ IsFiniteSet(Deduped(A))
       /\ Deduped(B) \subseteq B /\ IsFiniteSet(Deduped(B))
  BY <1>7, <1>8, DedupedAre
<1>12. IsFiniteSet(FlowEdges(x, Uses(x)))
  BY <1>10, <1>11, FS_Union
<1>13. ASSUME NEW e \in FlowEdges(x, Uses(x)) PROVE OfRow(x, e) \/ OfImport(x, e)
  BY <1>3, <1>5, <1>10, <1>11
<1>14. ASSUME NEW e, OfRow(x, e) PROVE e.source \in Name /\ e.target \in Name /\ e.file \in Tracked(Tree[c])
  BY <1>14, RowFacts DEF OfRow, Edge
<1>15. ASSUME NEW e, OfImport(x, e) PROVE e.source \in Name /\ e.target \in Name /\ e.file \in Tracked(Tree[c])
  BY <1>15, RowFacts DEF OfImport, Edge
<1> QED
  BY <1>9, <1>12, <1>13, <1>14, <1>15

\* The modules that may satisfy a reference are modules of definitions.
LEMMA OwnersAre ==
  ASSUME NEW x, IsFiniteSet(x.defines), NEW fqn
  PROVE  OwnersOf(x, fqn) \subseteq {r.module : r \in x.defines} /\ IsFiniteSet(OwnersOf(x, fqn))
<1> DEFINE M == {r.module : r \in x.defines}
           of == [r \in x.defines |-> r.module]
<1>1. \A n : NamespaceOwner(x, n) \subseteq M /\ SymbolOwner(x, n) \subseteq M
  BY DEF NamespaceOwner, SymbolOwner, DefinersOf
<1>2. OwnersOf(x, fqn) \in SUBSET M
  <2> HIDE DEF M
  <2> QED
    BY <1>1 DEF OwnersOf
<1>3. IsFiniteSet(M)
  <2>1. \A m \in M : \E r \in x.defines : m = of[r]
    OBVIOUS
  <2> HIDE DEF M, of
  <2> QED
    BY <2>1, FiniteValues
<1> QED
  BY <1>2, <1>3, FS_Subset

LEMMA ObservedAre ==
  ASSUME NEW x, IsFiniteSet(x.defines), IsFiniteSet(x.uses)
  PROVE  /\ IsFiniteSet(Observed(x))
         /\ \A d \in Observed(x) : \E r \in x.uses : r.module = d.from /\ d.to \in OwnersOf(x, r.fact)
<1> DEFINE Of(r) == {[from |-> r.module, to |-> m] : m \in OwnersOf(x, r.fact) \ {r.module}}
           of == [r \in x.uses |-> Of(r)]
<1>1. ASSUME NEW r \in x.uses PROVE IsFiniteSet(of[r])
  <2> DEFINE edge == [m \in OwnersOf(x, r.fact) |-> [from |-> r.module, to |-> m]]
  <2>1. \A d \in Of(r) : \E m \in OwnersOf(x, r.fact) : d = edge[m]
    OBVIOUS
  <2>2. IsFiniteSet(OwnersOf(x, r.fact))
    BY OwnersAre
  <2>3. IsFiniteSet(Of(r))
    <3> HIDE DEF Of, edge
    <3> QED
      BY <2>1, <2>2, FiniteValues
  <2> QED
    BY <2>3
<1>2. Observed(x) = UNION {Of(r) : r \in x.uses}
  BY DEF Observed
<1>3. \A d \in Observed(x) : \E r \in x.uses : d \in of[r]
  BY <1>2
<1>4. IsFiniteSet(Observed(x))
  <2> HIDE DEF of
  <2> QED
    BY <1>1, <1>3, FiniteUnion
<1>5. \A d \in Observed(x) : \E r \in x.uses : r.module = d.from /\ d.to \in OwnersOf(x, r.fact)
  BY <1>2
<1> QED
  BY <1>4, <1>5

(***************************************************************************)
(* The claims that are derived.                                            *)
(***************************************************************************)

\* A finite set of claims that all cite something.
Citing(claims) == IsFiniteSet(claims) /\ \A c \in claims : c.evidence # {}

LEMMA CitingUnion ==
  ASSUME NEW C, NEW D, Citing(C), Citing(D)
  PROVE  Citing(C \union D)
  BY FS_Union DEF Citing

\* One claim for each row.
LEMMA CitingRows ==
  ASSUME NEW R, IsFiniteSet(R), NEW f, NEW C, \A c \in C : c.evidence # {} /\ \E r \in R : c = f[r]
  PROVE  Citing(C)
<1>1. \A c \in C : \E r \in R : c = f[r]
  OBVIOUS
<1>2. IsFiniteSet(C)
  BY <1>1, FiniteValues
<1> QED
  BY <1>2 DEF Citing

\* One claim for each subject.
LEMMA CitingGroups ==
  ASSUME NEW R, IsFiniteSet(R), NEW kind, NEW tag
  PROVE  Citing(Grouped(kind, tag, R))
<1> DEFINE Of(s) == Claim(kind, s, tag, {r.file : r \in {t \in R : t.subject = s}})
           of == [r \in R |-> Of(r.subject)]
<1>1. Grouped(kind, tag, R) = {Of(s) : s \in {r.subject : r \in R}}
  BY DEF Grouped
<1>2. \A r \in R : Of(r.subject).evidence # {}
  BY DEF Claim
<1>3. \A r \in R : of[r] = Of(r.subject)
  OBVIOUS
<1>4. \A c \in Grouped(kind, tag, R) : \E r \in R : c = Of(r.subject)
  BY <1>1
<1> HIDE DEF Of, of
<1>5. \A c \in Grouped(kind, tag, R) : c.evidence # {} /\ \E r \in R : c = of[r]
  BY <1>2, <1>3, <1>4
<1> QED
  BY <1>5, CitingRows

\* One claim for the target of each of these edges.
LEMMA CitingTargets ==
  ASSUME NEW E, IsFiniteSet(E), NEW kind, NEW tag
  PROVE  Citing(Grouped(kind, tag, ByTarget(E)))
<1> DEFINE of == [e \in E |-> [subject |-> e.fact.target, file |-> e.file]]
<1>1. \A t \in ByTarget(E) : \E e \in E : t = of[e]
  BY DEF ByTarget
<1> HIDE DEF of
<1>2. IsFiniteSet(ByTarget(E))
  BY <1>1, FiniteValues
<1> QED
  BY <1>2, CitingGroups

LEMMA RoutesAre ==
  ASSUME NEW x, IsFiniteSet(x.ioEdges)
  PROVE  /\ IsFiniteSet(Routes(x))
         /\ \A r \in Routes(x) : \E e \in x.ioEdges : r = ResolveRoute(x, e) /\ e.file \in r.evidence
<1> DEFINE of == [e \in x.ioEdges |-> ResolveRoute(x, e)]
<1>1. \A r \in Routes(x) : \E e \in x.ioEdges : r = of[e]
  BY DEF Routes
<1>2. \A e \in x.ioEdges : of[e] = ResolveRoute(x, e)
  OBVIOUS
<1> HIDE DEF of
<1>3. IsFiniteSet(Routes(x))
  BY <1>1, FiniteValues
<1>4. \A e \in x.ioEdges : e.file \in ResolveRoute(x, e).evidence
  BY DEF ResolveRoute
<1> QED
  BY <1>1, <1>2, <1>3, <1>4

LEMMA EdgesOfChannel ==
  ASSUME NEW x, IsFiniteSet(x.ioEdges), NEW channel, NEW E \in SUBSET Edges(x, channel)
  PROVE  IsFiniteSet(E)
<1>1. E \in SUBSET x.ioEdges
  BY DEF Edges
<1> QED
  BY <1>1, FS_Subset

LEMMA CitingRoutes ==
  ASSUME NEW x, IsFiniteSet(x.ioEdges)
  PROVE  Citing(RouteClaims(x))
<1> DEFINE of == [r \in Routes(x) |-> Claim("entrypoint", r.route, IF r.missing = {} THEN "route" ELSE "route_unresolved", r.evidence)]
<1>1. IsFiniteSet(Routes(x)) /\ \A r \in Routes(x) : r.evidence # {}
  BY RoutesAre
<1>2. \A c \in RouteClaims(x) : c.evidence # {} /\ \E r \in Routes(x) : c = of[r]
  BY <1>1 DEF RouteClaims, Claim
<1> HIDE DEF of
<1> QED
  BY <1>1, <1>2, CitingRows

LEMMA CitingEntrypoints ==
  ASSUME NEW x, IsFiniteSet(x.ioEdges)
  PROVE  Citing(EntrypointClaims(x))
<1> DEFINE of == [e \in x.ioEdges |-> Claim("entrypoint", e.fact.source, e.fact.channel, {e.file})]
<1>1. ASSUME NEW c \in EntrypointClaims(x) PROVE c.evidence # {} /\ \E e \in x.ioEdges : c = of[e]
  <2>1. PICK e \in x.ioEdges : c = Claim("entrypoint", e.fact.source, e.fact.channel, {e.file})
    BY DEF EntrypointClaims, Edges
  <2> QED
    BY <2>1 DEF Claim
<1> HIDE DEF of
<1> QED
  BY <1>1, CitingRows

LEMMA CitingDeployables ==
  ASSUME NEW x, IsFiniteSet(x.defines)
  PROVE  Citing(DeployableClaims(x))
<1> DEFINE of == [r \in x.defines |-> Claim("deployable", r.fact.fqn, "deployable", {r.file})]
<1>1. \A c \in DeployableClaims(x) : c.evidence # {} /\ \E r \in x.defines : c = of[r]
  BY DEF DeployableClaims, Claim
<1> HIDE DEF of
<1> QED
  BY <1>1, CitingRows

LEMMA CitingDataModels ==
  ASSUME NEW x, IsFiniteSet(x.ioEdges)
  PROVE  Citing(DataModelClaims(x))
<1> DEFINE Tables == {Claim("data_model", e.fact.target, "entity", {e.file}) :
                        e \in {f \in Edges(x, "persist") : f.fact.target[1] = "table:"}}
           Entities == {Claim("data_model", e.fact.target, e.fact.source, {e.file}) :
                          e \in {f \in Edges(x, "persist") : f.fact.target[1] = "entity:"}}
           Maps == {Claim("data_model", e.fact.source \o <<"->">> \o e.fact.target, "map", {e.file}) : e \in Edges(x, "map")}
           table == [e \in x.ioEdges |-> Claim("data_model", e.fact.target, "entity", {e.file})]
           entity == [e \in x.ioEdges |-> Claim("data_model", e.fact.target, e.fact.source, {e.file})]
           map == [e \in x.ioEdges |-> Claim("data_model", e.fact.source \o <<"->">> \o e.fact.target, "map", {e.file})]
<1>1. \A c \in Tables : c.evidence # {} /\ \E e \in x.ioEdges : c = table[e]
  BY DEF Claim, Edges
<1>2. ASSUME NEW c \in Entities PROVE c.evidence # {} /\ \E e \in x.ioEdges : c = entity[e]
  <2>1. PICK e \in x.ioEdges : c = Claim("data_model", e.fact.target, e.fact.source, {e.file})
    BY DEF Edges
  <2> QED
    BY <2>1 DEF Claim
<1>3. ASSUME NEW c \in Maps PROVE c.evidence # {} /\ \E e \in x.ioEdges : c = map[e]
  <2>1. PICK e \in x.ioEdges : c = Claim("data_model", e.fact.source \o <<"->">> \o e.fact.target, "map", {e.file})
    BY DEF Edges
  <2> QED
    BY <2>1 DEF Claim
<1>4. DataModelClaims(x) = (Tables \union Entities) \union Maps
  BY DEF DataModelClaims
<1> HIDE DEF Tables, Entities, Maps, table, entity, map
<1>5. Citing(Tables)
  BY <1>1, CitingRows
<1>6. Citing(Entities)
  BY <1>2, CitingRows
<1>7. Citing(Maps)
  BY <1>3, CitingRows
<1>8. Citing(Tables \union Entities)
  BY <1>5, <1>6, CitingUnion
<1> QED
  BY <1>4, <1>7, <1>8, CitingUnion

LEMMA CitingSideEffects ==
  ASSUME NEW x, IsFiniteSet(x.ioEdges)
  PROVE  Citing(SideEffectClaims(x))
<1> DEFINE Channels == {"ssh_exec", "http_out", "metric_emit", "read"}
           Rows(channel) == {[subject |-> Append(e.module, channel), file |-> e.file] : e \in Edges(x, channel)}
           of == [channel \in Channels |-> Grouped("side_effect", channel, Rows(channel))]
<1>1. ASSUME NEW channel \in Channels PROVE Citing(of[channel])
  <2> DEFINE row == [e \in Edges(x, channel) |-> [subject |-> Append(e.module, channel), file |-> e.file]]
  <2>1. \A t \in Rows(channel) : \E e \in Edges(x, channel) : t = row[e]
    OBVIOUS
  <2>2. IsFiniteSet(Edges(x, channel))
    BY EdgesOfChannel
  <2>3. IsFiniteSet(Rows(channel))
    <3> HIDE DEF Rows, row
    <3> QED
      BY <2>1, <2>2, FiniteValues
  <2>4. Citing(Grouped("side_effect", channel, Rows(channel)))
    <3> HIDE DEF Rows
    <3> QED
      BY <2>3, CitingGroups
  <2> QED
    BY <2>4
<1>2. SideEffectClaims(x) = UNION {of[channel] : channel \in Channels}
  BY DEF SideEffectClaims
<1>3. IsFiniteSet(Channels)
  <2>1. IsFiniteSet({"ssh_exec"} \union {"http_out"}) /\ IsFiniteSet({"metric_emit"} \union {"read"})
    BY FS_Singleton, FS_Union, Zenon
  <2>2. Channels = ({"ssh_exec"} \union {"http_out"}) \union ({"metric_emit"} \union {"read"})
    OBVIOUS
  <2>3. IsFiniteSet(({"ssh_exec"} \union {"http_out"}) \union ({"metric_emit"} \union {"read"}))
    BY <2>1, FS_Union, Zenon
  <2> QED
    BY <2>2, <2>3
<1> HIDE DEF Channels, of
<1>4. \A c \in SideEffectClaims(x) : \E channel \in Channels : c \in of[channel]
  BY <1>2
<1>5. \A channel \in Channels : IsFiniteSet(of[channel]) /\ \A c \in of[channel] : c.evidence # {}
  BY <1>1 DEF Citing
<1>6. IsFiniteSet(SideEffectClaims(x))
  BY <1>3, <1>4, <1>5, FiniteUnion
<1> QED
  BY <1>4, <1>5, <1>6 DEF Citing

LEMMA CitingDependencies ==
  ASSUME NEW x, IsFiniteSet(x.defines), IsFiniteSet(x.uses)
  PROVE  Citing(DependencyClaims(x))
<1> DEFINE Of(d) == Claim("dependency", d.from \o <<"->">> \o d.to, "observed",
                          {r.file : r \in {u \in x.uses : u.module = d.from /\ d.to \in OwnersOf(x, u.fact)}})
           of == [d \in Observed(x) |-> Of(d)]
<1>1. IsFiniteSet(Observed(x)) /\ \A d \in Observed(x) : \E r \in x.uses : r.module = d.from /\ d.to \in OwnersOf(x, r.fact)
  BY ObservedAre
<1>2. \A d \in Observed(x) : Of(d).evidence # {}
  BY <1>1 DEF Claim
<1>3. \A c \in DependencyClaims(x) : \E d \in Observed(x) : c = Of(d)
  BY DEF DependencyClaims
<1>4. \A d \in Observed(x) : of[d] = Of(d)
  OBVIOUS
<1> HIDE DEF Of, of
<1>5. \A c \in DependencyClaims(x) : c.evidence # {} /\ \E d \in Observed(x) : c = of[d]
  BY <1>2, <1>3, <1>4
<1> QED
  <2> DEFINE R == Observed(x)
  <2>1. IsFiniteSet(R)
    BY <1>1
  <2>2. \A c \in DependencyClaims(x) : c.evidence # {} /\ \E d \in R : c = of[d]
    BY <1>5
  <2> HIDE DEF R
  <2> QED
    BY <2>1, <2>2, CitingRows

LEMMA CitingBoundaries ==
  ASSUME NEW edges, IsFiniteSet(edges), NEW deps
  PROVE  Citing(BoundaryClaims(edges, deps)) /\ IsFiniteSet(Boundaries(edges, deps))
<1> DEFINE Sharing(target) == {p \in Processes(edges) : target \in Touches(edges, deps, p)}
           row == [e \in edges |-> [shared |-> e.target, processes |-> Sharing(e.target)]]
           rows == Boundaries(edges, deps)
           Of(ps) == Claim("side_effect", FlattenSeq(SetToSeq(ps)), "process_boundary",
                           {e.file : e \in {f \in edges : f.channel = "process_boundary" /\ f.module \in ps}})
           of == [b \in rows |-> Of(b.processes)]
<1>1. \A b \in rows : \E e \in edges : b = [shared |-> e.target, processes |-> Sharing(e.target)] /\ Cardinality(Sharing(e.target)) > 1
  BY DEF Boundaries
<1>2. \A b \in rows : \E e \in edges : b = row[e]
  BY <1>1
<1>3. IsFiniteSet(rows)
  <2> HIDE DEF rows, row
  <2> QED
    BY <1>2, FiniteValues
<1>4. ASSUME NEW b \in rows PROVE Of(b.processes).evidence # {}
  <2>1. PICK t : b.processes = Sharing(t) /\ Cardinality(Sharing(t)) > 1
    BY <1>1
  <2>2. Sharing(t) # {}
    BY <2>1, FS_EmptySet
  <2>3. PICK p \in Processes(edges) : p \in b.processes
    BY <2>1, <2>2
  <2>4. PICK e \in edges : e.channel = "process_boundary" /\ e.module = p
    BY DEF Processes
  <2> QED
    BY <2>3, <2>4 DEF Claim
<1>5. \A c \in BoundaryClaims(edges, deps) : \E b \in rows : c = Of(b.processes)
  BY DEF BoundaryClaims
<1>6. \A b \in rows : of[b] = Of(b.processes)
  OBVIOUS
<1> HIDE DEF Of, of, rows
<1>7. \A c \in BoundaryClaims(edges, deps) : c.evidence # {} /\ \E b \in rows : c = of[b]
  BY <1>4, <1>5, <1>6
<1>8. Citing(BoundaryClaims(edges, deps))
  BY <1>3, <1>7, CitingRows
<1> QED
  BY <1>3, <1>8 DEF rows

LEMMA CitingDerived ==
  ASSUME NEW c \in Commits, NEW x, Extracted(x, Tree[c])
  PROVE  Citing(DeriveClaims(x, FlowEdges(x, Uses(x))))
<1> DEFINE edges == FlowEdges(x, Uses(x))
           A == RouteClaims(x) \union EntrypointClaims(x)
           B == DeployableClaims(x) \union DataModelClaims(x)
           C == OwnershipClaims(x) \union SideEffectClaims(x)
           D == ConfigClaims(x) \union DependencyClaims(x)
           all == (A \union B) \union ((C \union D) \union BoundaryClaims(edges, Observed(x)))
           Key(claim) == <<claim.kind, claim.subject, claim.tag>>
<1>1. IsFiniteSet(x.defines) /\ IsFiniteSet(x.uses) /\ IsFiniteSet(x.ioEdges)
  BY RowFacts
<1>2. IsFiniteSet(edges)
  BY EdgesAre
<1>3. Citing(A)
  BY <1>1, CitingRoutes, CitingEntrypoints, CitingUnion
<1>4. Citing(B)
  BY <1>1, CitingDeployables, CitingDataModels, CitingUnion
<1>5. Citing(OwnershipClaims(x))
  <2> DEFINE E == {e \in Edges(x, "schema_own") : e.fact.target[1] = "table:"}
  <2>1. IsFiniteSet(E)
    BY <1>1, EdgesOfChannel
  <2>2. OwnershipClaims(x) = Grouped("ownership", "schema", ByTarget(E))
    BY DEF OwnershipClaims
  <2> HIDE DEF E
  <2> QED
    BY <2>1, <2>2, CitingTargets
<1>6. Citing(C)
  BY <1>1, <1>5, CitingSideEffects, CitingUnion
<1>7. Citing(ConfigClaims(x))
  <2> DEFINE E == {e \in Edges(x, "config_read") : e.fact.target[1] = "config:" /\ e.fact.source[1] # "config-file:"}
  <2>1. IsFiniteSet(E)
    BY <1>1, EdgesOfChannel
  <2>2. ConfigClaims(x) = Grouped("config", "config", ByTarget(E))
    BY DEF ConfigClaims
  <2> HIDE DEF E
  <2> QED
    BY <2>1, <2>2, CitingTargets
<1>8. Citing(D)
  BY <1>1, <1>7, CitingDependencies, CitingUnion
<1>9. Citing(BoundaryClaims(edges, Observed(x)))
  <2> HIDE DEF edges
  <2> QED
    BY <1>2, CitingBoundaries
<1>10. Citing(all)
  <2> HIDE DEF A, B, C, D, edges
  <2>1. Citing(A \union B)
    BY <1>3, <1>4, CitingUnion
  <2>2. Citing(C \union D)
    BY <1>6, <1>8, CitingUnion
  <2>3. Citing((C \union D) \union BoundaryClaims(edges, Observed(x)))
    BY <1>9, <2>2, CitingUnion
  <2> QED
    BY <2>1, <2>3, CitingUnion
<1> DEFINE Ks == {Key(claim) : claim \in all}
<1>11. DeriveClaims(x, edges) = {CHOOSE claim \in all : Key(claim) = k : k \in Ks}
  <2>1. all = RouteClaims(x) \union EntrypointClaims(x) \union DeployableClaims(x)
                 \union DataModelClaims(x) \union OwnershipClaims(x) \union SideEffectClaims(x)
                 \union ConfigClaims(x) \union DependencyClaims(x) \union BoundaryClaims(edges, Observed(x))
    OBVIOUS
  <2> HIDE DEF edges
  <2> QED
    BY <2>1 DEF DeriveClaims
<1> HIDE DEF all, edges
<1>12. \A k \in Ks : (CHOOSE claim \in all : Key(claim) = k) \in all
  OBVIOUS
<1>13. DeriveClaims(x, edges) \in SUBSET all
  BY <1>11, <1>12
<1>14. Citing(DeriveClaims(x, edges))
  BY <1>10, <1>13, FS_Subset DEF Citing
<1> QED
  BY <1>14 DEF edges

LEMMA UnknownsAreFinite ==
  ASSUME NEW x, IsFiniteSet(x.ioEdges), IsFiniteSet(x.declared), NEW inventory
  PROVE  IsFiniteSet(StructuralUnknowns(inventory, x))
<1> DEFINE A == IF inventory.anonymous THEN {Question("name", RootLabel, None)} ELSE {}
           B == {Question("declared", Append(d.module, d.dep), None) : d \in DeclaredAmbiguous(inventory, x)}
           C == {Question("route", r.route, r.file) : r \in {s \in Routes(x) : s.missing # {}}}
           b == [d \in x.declared |-> Question("declared", Append(d.module, d.dep), None)]
           q == [r \in Routes(x) |-> Question("route", r.route, r.file)]
<1>1. \A t \in B : \E d \in x.declared : t = b[d]
  BY DEF DeclaredAmbiguous
<1>2. \A t \in C : \E r \in Routes(x) : t = q[r]
  OBVIOUS
<1>3. IsFiniteSet(Routes(x))
  BY RoutesAre
<1>4. IsFiniteSet(A)
  BY FS_EmptySet, FS_Singleton
<1>5. StructuralUnknowns(inventory, x) = (A \union B) \union C
  BY DEF StructuralUnknowns
<1> HIDE DEF A, B, C, b, q
<1>6. IsFiniteSet(B)
  BY <1>1, FiniteValues
<1>7. IsFiniteSet(C)
  BY <1>2, <1>3, FiniteValues
<1>8. IsFiniteSet(A \union B)
  BY <1>4, <1>6, FS_Union
<1> QED
  BY <1>5, <1>7, <1>8, FS_Union

\* A claim of the state is one of the patch whose citations all hold.
LEMMA StateIs ==
  ASSUME NEW patch, Citing(patch.claims), IsFiniteSet(patch.unknowns), NEW renames, NEW tree
  PROVE  LET state == StateOf(patch, renames, tree) IN
         /\ IsFiniteSet(state.claims) /\ IsFiniteSet(state.unknowns)
         /\ \A c \in state.claims : c.evidence # {} /\ c.evidence \subseteq Tracked(tree)
<1> DEFINE state == StateOf(patch, renames, tree)
           kept == {c \in patch.claims : Holds(c, renames, tree)}
           moved == [c \in patch.claims |-> [c EXCEPT !.evidence = Follow(@, renames)]]
           Asked(c) == Question("demoted", c.subject, CHOOSE f \in Failed(c, renames, tree) : TRUE)
           asked == [c \in patch.claims |-> Asked(c)]
           Demoted == {Asked(c) : c \in patch.claims \ kept}
<1>1. state.claims = {moved[c] : c \in kept} /\ state.unknowns = patch.unknowns \union Demoted
  BY DEF StateOf
<1>2. \A c \in state.claims : \E d \in patch.claims : c = moved[d]
  BY <1>1
<1>3. \A u \in Demoted : \E c \in patch.claims : u = asked[c]
  OBVIOUS
<1>4. ASSUME NEW c \in state.claims PROVE c.evidence # {} /\ c.evidence \subseteq Tracked(tree)
  <2>1. PICK d \in patch.claims : c = [d EXCEPT !.evidence = Follow(@, renames)] /\ Holds(d, renames, tree)
    BY <1>1
  <2>2. d.evidence # {}
    BY DEF Citing
  <2>3. Follow(d.evidence, renames) # {} /\ Follow(d.evidence, renames) \subseteq Tracked(tree)
    BY <2>1, <2>2 DEF Follow, Holds
  <2> QED
    BY <2>1, <2>3
<1> DEFINE R == patch.claims
           S == state.claims
<1>e. IsFiniteSet(R)
  BY DEF Citing
<1>5. IsFiniteSet(S)
  <2> HIDE DEF R, S, moved
  <2>1. \A c \in S : \E d \in R : c = moved[d]
    BY <1>2 DEF S, R
  <2> HIDE DEF state
  <2> QED
    BY <1>e, <2>1, FiniteValues
<1>6. IsFiniteSet(Demoted)
  <2>1. \A u \in Demoted : \E c \in R : u = asked[c]
    BY <1>3
  <2> HIDE DEF Demoted, asked, R
  <2> QED
    BY <1>e, <2>1, FiniteValues
<1>7. IsFiniteSet(state.unknowns)
  <2> DEFINE U == patch.unknowns
  <2>1. state.unknowns = U \union Demoted /\ IsFiniteSet(U)
    BY <1>1
  <2> HIDE DEF Demoted, state, U
  <2> QED
    BY <1>6, <2>1, FS_Union
<1> QED
  BY <1>4, <1>5, <1>7

(***************************************************************************)
(* What every step keeps: the view is that of a commit with rows of its    *)
(* tree, the answer is that of its question, and the page shows the view.  *)
(***************************************************************************)

\* The artifacts of a commit that is kept.
IsView(v, kept) ==
    /\ v.commit \in Commits \intersect kept
    /\ Extracted(v.x, Tree[v.commit])
    /\ v = ViewOf(v.commit, Inventory(Tree[v.commit]), v.x, [claims |-> v.claims, unknowns |-> v.unknowns])
    /\ IsFiniteSet(v.claims) /\ IsFiniteSet(v.unknowns)
    /\ \A c \in v.claims : c.evidence # {} /\ c.evidence \subseteq Tracked(Tree[v.commit])

IsAnswer(a) ==
    \E kind \in Kinds, term \in Terms, limit \in Limits, without \in RoleSets :
       LET told == Dispatch(view, kind, term, limit, without) IN
       a = [kind |-> kind, term |-> term, limit |-> limit, without |-> without,
            rows |-> told.rows, spent |-> told.budget.spent, elided |-> told.budget.elided]

AtlasInv ==
    /\ head \in Commits
    /\ \A c \in DOMAIN log : Citing(log[c].claims) /\ IsFiniteSet(log[c].unknowns)
    /\ view # None => IsView(view, DOMAIN log)
    /\ answer # None => view # None /\ IsAnswer(answer)

\* The page of one of the requests.
IsGraphPage(shown) ==
    \E level \in Levels(view), scope \in ChartScopes, hidden \in RoleSets, focus \in Focuses :
       LET chart == BuildGraph(view, level, scope, hidden, focus) IN
       shown = [kind |-> "graph", level |-> level, scope |-> scope, hidden |-> hidden, focus |-> focus,
                chart |-> chart, legend |-> Legend(chart)]

IsConfidencePage(shown) ==
    \E level \in Levels(view), scope \in ChartScopes :
       shown = [kind |-> "confidence", level |-> level, scope |-> scope,
                buckets |-> Confidence(view, AtLevel(view, level, scope))]

IsFlowPage(shown) ==
    \E include \in SUBSET OptionalKinds :
       LET base == DataflowGraph(view)
           lines == BuildFlow(base, include)
       IN shown = [kind |-> "flow", include |-> include, lines |-> lines,
                   groups |-> [id \in {l.source : l \in lines} \union {l.target : l \in lines} |->
                                 FlowGroup(base, id)]]

IsNodePage(shown) ==
    \E nodeId \in NodeIds :
       /\ HasPage(view, nodeId)
       /\ shown = [kind |-> "node", nodeId |-> nodeId, shown |-> NodePage(view, nodeId)]

IsPage(shown) == IsGraphPage(shown) \/ IsConfidencePage(shown) \/ IsFlowPage(shown) \/ IsNodePage(shown)

PortalInv == AtlasInv /\ (page # None => view # None /\ IsPage(page))

\* The view of a commit, from the rows of the commit and its patch.
LEMMA ViewIs ==
  ASSUME NEW c \in Commits, NEW x, Extracted(x, Tree[c]), NEW patch, Citing(patch.claims),
         IsFiniteSet(patch.unknowns), NEW renames, NEW kept, c \in kept,
         NEW v, v = ViewOf(c, Inventory(Tree[c]), x, StateOf(patch, renames, Tree[c]))
  PROVE  IsView(v, kept)
<1> DEFINE state == StateOf(patch, renames, Tree[c])
<1>1. /\ IsFiniteSet(state.claims) /\ IsFiniteSet(state.unknowns)
      /\ \A d \in state.claims : d.evidence # {} /\ d.evidence \subseteq Tracked(Tree[c])
  BY StateIs
<1> HIDE DEF state
<1>3. v = ViewOf(c, Inventory(Tree[c]), x, state)
  BY DEF state
<1>4. v.commit = c /\ v.x = x /\ v.claims = state.claims /\ v.unknowns = state.unknowns
  BY <1>3 DEF ViewOf
<1>5. v = ViewOf(c, Inventory(Tree[c]), x, [claims |-> v.claims, unknowns |-> v.unknowns])
  BY <1>3, <1>4 DEF ViewOf
<1> QED
  BY <1>1, <1>4, <1>5 DEF IsView

\* A patch that is stored is well-formed, if those before it are.
LEMMA StoredIs ==
  ASSUME NEW patch, Citing(patch.claims), IsFiniteSet(patch.unknowns), log' = Stored(patch), AtlasInv
  PROVE  /\ head \in DOMAIN log'
         /\ \A c \in DOMAIN log' : Citing(log'[c].claims) /\ IsFiniteSet(log'[c].unknowns)
<1>1. DOMAIN log' = DOMAIN log \union {head} /\ \A c \in DOMAIN log' : log'[c] = IF c = head THEN patch ELSE log[c]
  BY DEF Stored
<1> QED
  BY <1>1 DEF AtlasInv

LEMMA ScanKeeps ==
  ASSUME AtlasInv, Scan
  PROVE  AtlasInv'
<1> DEFINE inventory == Inventory(Tree[head])
           x == RunExtract(Tree[head], inventory)
           claims == DeriveClaims(x, FlowEdges(x, Uses(x)))
           unknowns == StructuralUnknowns(inventory, x)
           patch == [claims |-> claims, unknowns |-> unknowns]
           state == StateOf(patch, NoRenames, Tree[head])
<1>1. answer = None /\ log' = Stored(patch) /\ head' = head /\ answer' = answer
      /\ view' = ViewOf(head, inventory, x, state)
  BY DEF Scan
<1>2. head \in Commits
  BY DEF AtlasInv
<1>3. Extracted(x, Tree[head])
  BY <1>2, FreshRows DEF RunExtract
<1>4. Citing(claims)
  BY <1>2, <1>3, CitingDerived
<1>5. IsFiniteSet(unknowns)
  BY <1>2, <1>3, UnknownsAreFinite, RowFacts DEF Extracted
<1> HIDE DEF x, claims, unknowns
<1>6. patch.claims = claims /\ patch.unknowns = unknowns
  OBVIOUS
<1> HIDE DEF patch
<1>7. head \in DOMAIN log' /\ \A c \in DOMAIN log' : Citing(log'[c].claims) /\ IsFiniteSet(log'[c].unknowns)
  BY <1>1, <1>4, <1>5, <1>6, StoredIs
<1>8. IsView(view', DOMAIN log')
  BY <1>1, <1>2, <1>3, <1>4, <1>5, <1>6, <1>7, ViewIs
<1> QED
  BY <1>1, <1>2, <1>7, <1>8 DEF AtlasInv

LEMMA RefreshKeeps ==
  ASSUME AtlasInv, NEW history \in BOOLEAN, Refresh(history)
  PROVE  AtlasInv'
<1> DEFINE old == Tree[view.commit]
           new == Tree[head]
           renames == IF history THEN Renames(old, new) ELSE NoRenames
           inventory == Inventory(new)
           x == IncrementalExtract(new, inventory, view.x, Changed(old, new, history))
           patch == IF head \in DOMAIN log THEN log[head] ELSE log[view.commit]
           state == StateOf(patch, renames, new)
<1>1. answer = None /\ log' = Stored(patch) /\ head' = head /\ answer' = answer
      /\ view' = ViewOf(head, inventory, x, state)
  BY DEF Refresh
<1>2. head \in Commits /\ view.commit \in Commits \intersect DOMAIN log /\ Extracted(view.x, Tree[view.commit])
  BY DEF AtlasInv, Refresh, IsView
<1>3. Extracted(x, Tree[head])
  BY <1>2, CarriedAndFresh
<1>4. Citing(patch.claims) /\ IsFiniteSet(patch.unknowns)
  BY <1>2 DEF AtlasInv
<1> HIDE DEF x, patch, renames
<1>5. head \in DOMAIN log' /\ \A c \in DOMAIN log' : Citing(log'[c].claims) /\ IsFiniteSet(log'[c].unknowns)
  BY <1>1, <1>4, StoredIs
<1>6. IsView(view', DOMAIN log')
  BY <1>1, <1>2, <1>3, <1>4, <1>5, ViewIs
<1> QED
  BY <1>1, <1>2, <1>5, <1>6 DEF AtlasInv

\* AtlasInv is inductive.
LEMMA AtlasKeeps ==
  ASSUME AtlasInv, [Next]_vars
  PROVE  AtlasInv'
<1>1. ASSUME NEW c \in Commits, Checkout(c) PROVE AtlasInv'
  BY <1>1 DEF AtlasInv, Checkout, IsAnswer
<1>2. ASSUME NEW kind \in Kinds, NEW term \in Terms, NEW limit \in Limits, NEW without \in RoleSets,
             Ask(kind, term, limit, without)
      PROVE  AtlasInv'
  <2>1. IsAnswer(answer)'
    BY <1>2 DEF Ask, IsAnswer
  <2> QED
    BY <1>2, <2>1 DEF AtlasInv, Ask
<1>3. CASE Printed
  BY <1>3 DEF AtlasInv, Printed
<1>4. CASE UNCHANGED vars
  BY <1>4 DEF AtlasInv, IsAnswer, vars
<1> QED
  BY <1>1, <1>2, <1>3, <1>4, ScanKeeps, RefreshKeeps DEF Next

LEMMA PortalKeeps ==
  ASSUME PortalInv, [PortalNext]_portalVars
  PROVE  PortalInv'
<1>1. CASE page = None /\ Next /\ UNCHANGED page
  BY <1>1, AtlasKeeps DEF PortalInv
<1>2. ASSUME UNCHANGED vars PROVE AtlasInv'
  BY <1>2, AtlasKeeps DEF PortalInv
<1>3. CASE Get
  <2>1. UNCHANGED vars
    BY <1>3 DEF Get, GetGraph, GetConfidence, GetFlow, GetNode, Show
  <2>2. view' = view
    BY <2>1 DEF vars
  <2>3. IsPage(page')
    BY <1>3 DEF Get, GetGraph, GetConfidence, GetFlow, GetNode, Show,
                IsPage, IsGraphPage, IsConfidencePage, IsFlowPage, IsNodePage
  <2>4. IsPage(page)'
    BY <2>2, <2>3 DEF IsPage, IsGraphPage, IsConfidencePage, IsFlowPage, IsNodePage
  <2> QED
    BY <1>2, <1>3, <2>1, <2>2, <2>4 DEF Get, PortalInv
<1>4. CASE Leave
  BY <1>2, <1>4 DEF Leave, PortalInv
<1>5. CASE UNCHANGED portalVars
  BY <1>2, <1>5 DEF portalVars, vars, PortalInv, IsPage, IsGraphPage, IsConfidencePage, IsFlowPage, IsNodePage
<1> QED
  BY <1>1, <1>3, <1>4, <1>5 DEF PortalNext

LEMMA PortalStarts ==
  ASSUME PortalInit
  PROVE  PortalInv
  BY DEF PortalInit, Init, PortalInv, AtlasInv

LEMMA PortalHolds == PortalSpec => []PortalInv
<1> QED
  BY PortalStarts, PortalKeeps, PTL DEF PortalSpec

\* The kind of a page says what it holds.
LEMMA GraphPage ==
  ASSUME NEW shown, IsPage(shown), shown.kind = "graph"
  PROVE  IsGraphPage(shown)
<1>1. IsConfidencePage(shown) => shown.kind = "confidence"
  BY DEF IsConfidencePage
<1>2. IsFlowPage(shown) => shown.kind = "flow"
  BY DEF IsFlowPage
<1>3. IsNodePage(shown) => shown.kind = "node"
  BY DEF IsNodePage
<1> QED
  BY <1>1, <1>2, <1>3 DEF IsPage

LEMMA FlowPage ==
  ASSUME NEW shown, IsPage(shown), shown.kind = "flow"
  PROVE  IsFlowPage(shown)
<1>1. IsConfidencePage(shown) => shown.kind = "confidence"
  BY DEF IsConfidencePage
<1>2. IsGraphPage(shown) => shown.kind = "graph"
  BY DEF IsGraphPage
<1>3. IsNodePage(shown) => shown.kind = "node"
  BY DEF IsNodePage
<1> QED
  BY <1>1, <1>2, <1>3 DEF IsPage

\* With the history between two commits or without it, a refresh leaves the rows that
\* a scan of the commit extracts, to the line, when no module that it does not read again
\* had a file reformatted, moved or lost (cdp/refresh.py: incremental_extract).
THEOREM RefreshedIsScanned == PortalSpec => RefreshIsScan
<1> DEFINE Rescans == \A history \in BOOLEAN :
                         /\ view' # view /\ Refresh(history)
                         /\ view.x = RunExtract(Tree[view.commit], view.inventory)
                         /\ CarriesOver(Tree[view.commit], Tree[head], history)
                         => view'.x = RunExtract(Tree[head], Inventory(Tree[head]))
<1>1. ASSUME PortalInv, NEW history \in BOOLEAN, Refresh(history),
             view.x = RunExtract(Tree[view.commit], view.inventory),
             CarriesOver(Tree[view.commit], Tree[head], history)
      PROVE  view'.x = RunExtract(Tree[head], Inventory(Tree[head]))
  <2>1. head \in Commits /\ view.commit \in Commits
    BY <1>1 DEF PortalInv, AtlasInv, Refresh, IsView
  <2>2. view.inventory = Inventory(Tree[view.commit])
    BY <1>1 DEF PortalInv, AtlasInv, Refresh, IsView, ViewOf
  <2>3. view'.x = IncrementalExtract(Tree[head], Inventory(Tree[head]), view.x,
                                     Changed(Tree[view.commit], Tree[head], history))
    BY <1>1 DEF Refresh, ViewOf
  <2> QED
    BY <1>1, <2>1, <2>2, <2>3, RefreshedRows
<1>2. PortalInv => Rescans
  BY <1>1
<1>3. RefreshIsScan <=> [][Rescans]_vars
  BY DEF RefreshIsScan
<1> HIDE DEF Rescans
<1> QED
  BY <1>2, <1>3, PortalHolds, PTL

(***************************************************************************)
(* The charts.                                                             *)
(***************************************************************************)

\* The id of a node of the data flow, as the id of a page and back.
LEMMA PageOfId ==
  ASSUME NEW v, NEW id \in Name
  PROVE  LET nodeId == FromDataflowId(v, id) IN HasEdges(nodeId) /\ DataflowId(nodeId) = id
<1>1. ASSUME NEW namespace
      PROVE  (<<namespace>> \o id)[1] = namespace /\ Tail(<<namespace>> \o id) = id
  <2> DEFINE S == STRING \union {namespace}
  <2>1. id \in Seq(S) /\ namespace \in S
    BY DEF Name
  <2> HIDE DEF S
  <2> QED
    BY <2>1
<1>2. "sym:" \notin FlowNamespaces /\ "module:" \notin FlowNamespaces
  BY DEF FlowNamespaces, BucketOf
<1>3. CASE id[1] \in FlowNamespaces
  BY <1>3 DEF FromDataflowId, HasEdges, DataflowId
<1>4. ASSUME NEW namespace \in {"sym:", "module:"}, FromDataflowId(v, id) = <<namespace>> \o id
      PROVE  HasEdges(FromDataflowId(v, id)) /\ DataflowId(FromDataflowId(v, id)) = id
  <2> DEFINE nodeId == FromDataflowId(v, id)
  <2>1. namespace \notin FlowNamespaces
    <3>1. namespace = "sym:" \/ namespace = "module:"
      BY <1>4
    <3> QED
      BY <1>2, <3>1, Zenon
  <2>2. (<<namespace>> \o id)[1] = namespace /\ Tail(<<namespace>> \o id) = id
    BY <1>1
  <2>3. nodeId[1] = namespace /\ Tail(nodeId) = id
    BY <1>4, <2>2
  <2> HIDE DEF nodeId
  <2>4. HasEdges(nodeId) /\ DataflowId(nodeId) = id
    BY <2>1, <2>3 DEF HasEdges, DataflowId
  <2> QED
    BY <2>4 DEF nodeId
<1>5. CASE id[1] \notin FlowNamespaces
  BY <1>4, <1>5 DEF FromDataflowId
<1> QED
  BY <1>3, <1>5

\* Both ends of every line are nodes of the chart.
Closed(chart) == \A l \in chart.lines : {l.source, l.target} \subseteq Ids(chart)

LEMMA RestrictedIsPart ==
  ASSUME NEW chart, NEW scope
  PROVE  LET part == RestrictToScope(chart, scope) IN
         /\ part.nodes \subseteq chart.nodes /\ part.lines \subseteq chart.lines
         /\ Closed(chart) => Closed(part)
<1> DEFINE keep == Kept(chart, scope)
           lines == {l \in chart.lines : l.source \in keep \/ l.target \in keep}
           ends == keep \union {l.source : l \in lines} \union {l.target : l \in lines}
           nodes == {n \in chart.nodes : n.id \in ends}
           part == RestrictToScope(chart, scope)
<1>1. CASE keep = {}
  BY <1>1 DEF RestrictToScope
<1>2. CASE keep # {}
  <2>1. part.nodes = nodes /\ part.lines = lines
    BY <1>2 DEF RestrictToScope, Chart
  <2>2. ASSUME Closed(chart), NEW l \in lines, NEW id \in {l.source, l.target} PROVE id \in Ids(part)
    <3>1. id \in ends
      OBVIOUS
    <3>2. PICK n \in chart.nodes : n.id = id
      BY <2>2 DEF Closed, Ids
    <3> QED
      BY <2>1, <3>1, <3>2 DEF Ids
  <2> QED
    BY <2>1, <2>2 DEF Closed
<1> QED
  BY <1>1, <1>2

LEMMA DroppedIsPart ==
  ASSUME NEW chart, NEW hidden
  PROVE  LET left == DropRoles(chart, hidden) IN
         /\ left.nodes \subseteq chart.nodes /\ left.lines \subseteq chart.lines
         /\ Closed(left) /\ \A n \in left.nodes : n.role \notin hidden
  BY DEF DropRoles, Chart, Closed, Ids

\* A chart of the typed graph has nodes and lines of the edges.
LEMMA TypedIsPart ==
  ASSUME NEW v, NEW scope
  PROVE  LET chart == Typed(v, scope) IN
         chart.nodes \subseteq DataflowGraph(v).nodes /\ chart.lines \subseteq DataflowGraph(v).lines
<1>1. Scoped(v, scope).nodes \subseteq DataflowGraph(v).nodes /\ Scoped(v, scope).lines \subseteq DataflowGraph(v).lines
  BY RestrictedIsPart DEF Scoped
<1> QED
  BY <1>1 DEF Typed, Blank, Chart

LEMMA DataflowGraphIs ==
  ASSUME NEW v
  PROVE  /\ Ids(DataflowGraph(v)) = {e.source : e \in v.edges} \union {e.target : e \in v.edges}
         /\ DataflowGraph(v).lines = {Line(e.source, e.target, e.channel, 1) : e \in v.edges}
         /\ \A n \in DataflowGraph(v).nodes : n.members = {n.id}
<1> DEFINE ids == {e.source : e \in v.edges} \union {e.target : e \in v.edges}
           RoleAt(id) == IF id \in Symbols(v.x) THEN RoleOf(SymbolFile(v.x, id)) ELSE None
           node == [id \in ids |-> Node(id, TypeOf(id), OwnerFile(v, id), RoleAt(id), {id})]
<1>1. /\ DataflowGraph(v).nodes = {node[id] : id \in ids}
      /\ DataflowGraph(v).lines = {Line(e.source, e.target, e.channel, 1) : e \in v.edges}
  BY DEF DataflowGraph, Chart
<1>2. \A id \in ids : node[id].id = id /\ node[id].members = {id}
  BY DEF Node
<1> HIDE DEF node, ids
<1>3. Ids(DataflowGraph(v)) = ids /\ \A n \in DataflowGraph(v).nodes : n.members = {n.id}
  BY <1>1, <1>2 DEF Ids
<1> QED
  BY <1>1, <1>3 DEF ids

LEMMA ChartIsPart ==
  ASSUME NEW v, NEW level, NEW scope, NEW hidden, NEW focus
  PROVE  LET chart == BuildGraph(v, level, scope, hidden, focus)
             whole == AtLevel(v, level, scope)
         IN /\ chart.nodes \subseteq whole.nodes /\ chart.lines \subseteq whole.lines
            /\ Closed(chart) /\ \A n \in chart.nodes : n.role \notin hidden
<1> DEFINE whole == AtLevel(v, level, scope)
           shown == DropRoles(whole, hidden)
<1>1. /\ shown.nodes \subseteq whole.nodes /\ shown.lines \subseteq whole.lines
      /\ Closed(shown) /\ \A n \in shown.nodes : n.role \notin hidden
  BY DroppedIsPart
<1> HIDE DEF whole
<1>2. LET part == RestrictToScope(shown, focus) IN
      part.nodes \subseteq shown.nodes /\ part.lines \subseteq shown.lines /\ (Closed(shown) => Closed(part))
  BY RestrictedIsPart
<1> HIDE DEF shown
<1>3. BuildGraph(v, level, scope, hidden, focus) \in {shown, RestrictToScope(shown, focus)}
  BY DEF BuildGraph, shown, whole
<1> QED
  BY <1>1, <1>2, <1>3 DEF whole

\* A node of the data flow opens the page that has each line at the node.
LEMMA NodesOpen ==
  ASSUME NEW v, \A e \in v.edges : e.source \in Name /\ e.target \in Name,
         NEW lines, lines \subseteq DataflowGraph(v).lines, NEW id \in Ids(DataflowGraph(v))
  PROVE  LET nodeId == FromDataflowId(v, id)
             opened == NodePage(v, nodeId)
         IN /\ HasPage(v, nodeId)
            /\ {<<l.target, l.kind>> : l \in {k \in lines : k.source = id}} \subseteq {<<e.target, e.channel>> : e \in opened.out}
            /\ {<<l.source, l.kind>> : l \in {k \in lines : k.target = id}} \subseteq {<<e.source, e.channel>> : e \in opened.in}
<1> DEFINE nodeId == FromDataflowId(v, id)
           opened == NodePage(v, nodeId)
<1>1. PICK at \in v.edges : id \in {at.source, at.target}
  BY DataflowGraphIs
<1>2. HasEdges(nodeId) /\ DataflowId(nodeId) = id
  BY <1>1, PageOfId
<1> HIDE DEF nodeId
<1>3. opened.out = {e \in v.edges : e.source = id} /\ opened.in = {e \in v.edges : e.target = id}
  BY <1>2 DEF NodePage
<1>4. HasPage(v, nodeId)
  BY <1>1, <1>3 DEF HasPage
<1> HIDE DEF opened
<1>5. ASSUME NEW l \in lines
      PROVE  \E e \in v.edges : l.source = e.source /\ l.target = e.target /\ l.kind = e.channel
  <2>1. PICK e \in v.edges : l = Line(e.source, e.target, e.channel, 1)
    BY DataflowGraphIs
  <2> QED
    BY <2>1 DEF Line
<1>6. \A l \in lines : l.source = id => <<l.target, l.kind>> \in {<<e.target, e.channel>> : e \in opened.out}
  BY <1>3, <1>5
<1>7. \A l \in lines : l.target = id => <<l.source, l.kind>> \in {<<e.source, e.channel>> : e \in opened.in}
  BY <1>3, <1>5
<1> QED
  BY <1>4, <1>6, <1>7 DEF opened, nodeId

\* The edges of a view and the ends they have.
LEMMA ViewEdges ==
  ASSUME PortalInv, view # None
  PROVE  /\ view.edges = FlowEdges(view.x, Uses(view.x))
         /\ IsFiniteSet(view.edges)
         /\ \A e \in view.edges : e.source \in Name /\ e.target \in Name
<1>1. view.commit \in Commits /\ Extracted(view.x, Tree[view.commit])
  BY DEF PortalInv, AtlasInv, IsView
<1>2. view.edges = FlowEdges(view.x, Uses(view.x))
  BY DEF PortalInv, AtlasInv, IsView, ViewOf
<1> QED
  BY <1>1, <1>2, EdgesAre

\* Whatever a browser asks for, no line of the graph ends outside it, no hidden role is
\* shown, and every node of the data flow opens its own page (api_graph, get_node).
THEOREM ChartsAreClosed == PortalSpec => []ChartIsClosed
<1>1. ASSUME PortalInv PROVE ChartIsClosed
  <2> SUFFICES ASSUME page # None, page.kind = "graph" PROVE ChartIsClosed
    BY DEF ChartIsClosed
  <2>1. PICK level \in Levels(view), scope \in ChartScopes, hidden \in RoleSets, focus \in Focuses :
           LET chart == BuildGraph(view, level, scope, hidden, focus) IN
           page = [kind |-> "graph", level |-> level, scope |-> scope, hidden |-> hidden, focus |-> focus,
                   chart |-> chart, legend |-> Legend(chart)]
    BY <1>1, GraphPage DEF IsGraphPage, PortalInv
  <2> DEFINE chart == BuildGraph(view, level, scope, hidden, focus)
             whole == AtLevel(view, level, scope)
  <2>2. page.chart = chart /\ page.level = level /\ page.hidden = hidden
    BY <2>1
  <2>3. /\ chart.nodes \subseteq whole.nodes /\ chart.lines \subseteq whole.lines
        /\ Closed(chart) /\ \A n \in chart.nodes : n.role \notin hidden
    BY ChartIsPart
  <2> HIDE DEF chart
  <2>4. {l.source : l \in chart.lines} \union {l.target : l \in chart.lines} \subseteq Ids(chart)
    BY <2>3 DEF Closed
  <2>5. ASSUME level = "L2"
        PROVE  chart.lines \subseteq DataflowGraph(view).lines /\ Ids(chart) \subseteq Ids(DataflowGraph(view))
    <3>1. whole = Typed(view, scope)
      BY <2>5 DEF AtLevel
    <3> HIDE DEF whole
    <3>2. chart.nodes \subseteq DataflowGraph(view).nodes /\ chart.lines \subseteq DataflowGraph(view).lines
      BY <2>3, <3>1, TypedIsPart
    <3> QED
      BY <3>2 DEF Ids
  <2> HIDE DEF whole
  <2>6. \A e \in view.edges : e.source \in Name /\ e.target \in Name
    BY <1>1, ViewEdges DEF PortalInv
  <2>7. ASSUME level = "L2", NEW id \in Ids(chart)
        PROVE  LET nodeId == FromDataflowId(view, id)
                   opened == NodePage(view, nodeId)
                   lines == chart.lines
               IN /\ HasPage(view, nodeId)
                  /\ {<<l.target, l.kind>> : l \in {k \in lines : k.source = id}} \subseteq {<<e.target, e.channel>> : e \in opened.out}
                  /\ {<<l.source, l.kind>> : l \in {k \in lines : k.target = id}} \subseteq {<<e.source, e.channel>> : e \in opened.in}
    <3>1. chart.lines \subseteq DataflowGraph(view).lines /\ id \in Ids(DataflowGraph(view))
      BY <2>5, <2>7
    <3> QED
      BY <2>6, <3>1, NodesOpen
  <2> QED
    BY <2>2, <2>3, <2>4, <2>7 DEF ChartIsClosed
<1> QED
  BY <1>1, PortalHolds, PTL

(***************************************************************************)
(* The walks along the edges, and the flow.                                *)
(***************************************************************************)

WalkOf(w, n, edges, source) ==
    IF n = 0 THEN {<<>>} ELSE UNION {{Append(t, e) : e \in Onward(edges, source, t)} : t \in w[n - 1]}

Walking(w, edges, source) == w = [n \in 0..MaxHops |-> WalkOf(w, n, edges, source)]

LEMMA WalkExists ==
  ASSUME NEW edges, NEW source
  PROVE  \E w : Walking(w, edges, source)
<1> DEFINE Good(k, w) == \A n \in 0..k : w[n] = WalkOf(w, n, edges, source)
           Bad == {k \in Nat : ~\E w : Good(k, w)}
<1>0. MaxHops \in Nat
  BY MaxHopsIsNumber
<1>1. Bad = {}
  <2> SUFFICES ASSUME Bad # {} PROVE FALSE
    OBVIOUS
  <2>1. Min(Bad) \in Bad /\ \A j \in Bad : Min(Bad) <= j
    <3>1. Bad \in SUBSET Nat
      OBVIOUS
    <3> HIDE DEF Bad
    <3> QED
      BY <3>1, LeastNumber
  <2>2. PICK k \in Bad : \A j \in Bad : k <= j
    BY <2>1
  <2>3. k \in Nat /\ ~\E w : Good(k, w)
    BY <2>2
  <2>4. CASE k = 0
    <3> DEFINE w == [n \in {0} |-> {<<>>}]
    <3>1. \A n \in 0..0 : w[n] = WalkOf(w, n, edges, source)
      BY DEF WalkOf
    <3>2. Good(0, w)
      BY <3>1
    <3> HIDE DEF w
    <3> QED
      BY <2>3, <2>4, <3>2
  <2>5. CASE k # 0
    <3>1. k - 1 \in Nat /\ k - 1 \notin Bad
      <4> HIDE DEF Bad
      <4> QED
        BY <2>2, <2>3, <2>5
    <3>2. PICK h : Good(k - 1, h)
      BY <3>1
    <3> DEFINE w == [n \in 0..k |-> IF n < k THEN h[n] ELSE WalkOf(h, k, edges, source)]
    <3>3. ASSUME NEW n \in 0..k PROVE w[n] = WalkOf(w, n, edges, source)
      <4>1. CASE n < k
        <5>1. n \in 0..(k - 1) /\ w[n] = h[n] /\ h[n] = WalkOf(h, n, edges, source)
          BY <4>1, <3>1, <3>2
        <5>2. n # 0 => w[n - 1] = h[n - 1]
          BY <4>1, <3>1
        <5> QED
          BY <5>1, <5>2 DEF WalkOf
      <4>2. CASE n = k
        <5>1. w[k] = WalkOf(h, k, edges, source) /\ w[k - 1] = h[k - 1]
          BY <3>1
        <5> HIDE DEF w
        <5> QED
          BY <4>2, <5>1, <2>5 DEF WalkOf
      <4> QED
        BY <4>1, <4>2, <3>1
    <3>4. Good(k, w)
      BY <3>3
    <3> HIDE DEF w
    <3> QED
      BY <2>3, <3>4
  <2> QED
    BY <2>4, <2>5
<1>2. PICK h : Good(MaxHops, h)
  BY <1>0, <1>1
<1> DEFINE w == [n \in 0..MaxHops |-> h[n]]
<1>3. ASSUME NEW n \in 0..MaxHops PROVE w[n] = WalkOf(w, n, edges, source)
  <2>1. w[n] = h[n] /\ h[n] = WalkOf(h, n, edges, source)
    BY <1>2
  <2>2. n # 0 => w[n - 1] = h[n - 1]
    BY <1>0
  <2> QED
    BY <2>1, <2>2 DEF WalkOf
<1>4. w = [n \in 0..MaxHops |-> WalkOf(w, n, edges, source)]
  <2>1. w = [n \in 0..MaxHops |-> w[n]]
    OBVIOUS
  <2> HIDE DEF w
  <2> QED
    BY <2>1, <1>3
<1> QED
  BY <1>4 DEF Walking

LEMMA WalksAreThose ==
  ASSUME NEW edges, NEW source
  PROVE  \E w : Walking(w, edges, source) /\ Walks(edges, source) = UNION {w[n] : n \in 1..MaxHops}
<1> DEFINE w == CHOOSE h : h = [n \in 0..MaxHops |-> WalkOf(h, n, edges, source)]
<1>1. Walks(edges, source) = UNION {w[n] : n \in 1..MaxHops}
  BY DEF Walks, WalkOf
<1>2. \E h : h = [n \in 0..MaxHops |-> WalkOf(h, n, edges, source)]
  <2>1. PICK h : Walking(h, edges, source)
    BY WalkExists
  <2> HIDE DEF w
  <2> QED
    BY <2>1 DEF Walking
<1>3. w = [n \in 0..MaxHops |-> WalkOf(w, n, edges, source)]
  BY <1>2, Zenon
<1> QED
  BY <1>1, <1>3 DEF Walking

\* One edge after the other, from the source, and none to a library.
IsWalk(t, edges, source) ==
    /\ t \in Seq(edges)
    /\ \A i \in DOMAIN t : /\ ~IsLibrary(t[i].target) /\ t[i].channel \in Traversable
                           /\ t[i].source = IF i = 1 THEN source.source ELSE t[i - 1].target

LEMMA WalkGoesOn ==
  ASSUME NEW edges, NEW source, NEW t, IsWalk(t, edges, source), NEW e \in Onward(edges, source, t)
  PROVE  IsWalk(Append(t, e), edges, source) /\ Len(Append(t, e)) = Len(t) + 1
<1> DEFINE u == Append(t, e)
           n == Len(t)
<1>1. /\ e \in edges /\ e.channel \in Traversable /\ ~IsLibrary(e.target)
      /\ e.source = IF t = <<>> THEN source.source ELSE Last(t).target
  BY DEF Onward
<1>2. t \in Seq(edges)
  BY DEF IsWalk
<1>3. n \in Nat /\ DOMAIN t = 1..n /\ u \in Seq(edges) /\ Len(u) = n + 1 /\ DOMAIN u = 1..(n + 1)
      /\ u[n + 1] = e /\ \A i \in 1..n : u[i] = t[i]
  BY <1>1, <1>2
<1>4. e.source = IF n = 0 THEN source.source ELSE t[n].target
  BY <1>1, <1>2, <1>3 DEF Last
<1> HIDE DEF u, n
<1>5. ASSUME NEW i \in 1..(n + 1)
      PROVE  /\ ~IsLibrary(u[i].target) /\ u[i].channel \in Traversable
             /\ u[i].source = IF i = 1 THEN source.source ELSE u[i - 1].target
  <2>1. CASE i = n + 1
    <3>1. i # 1 => i - 1 \in 1..n /\ u[i - 1] = t[n]
      BY <1>3, <2>1
    <3> QED
      BY <1>1, <1>3, <1>4, <2>1, <3>1
  <2>2. CASE i # n + 1
    <3>1. i \in 1..n /\ u[i] = t[i] /\ (i # 1 => i - 1 \in 1..n /\ u[i - 1] = t[i - 1])
      BY <1>3, <2>2
    <3> QED
      BY <3>1, <1>3 DEF IsWalk
  <2> QED
    BY <2>1, <2>2
<1> QED
  BY <1>3, <1>5 DEF IsWalk, u, n

\* The walks of n hops, of finitely many edges.
LEMMA WalksOfLength ==
  ASSUME NEW edges, IsFiniteSet(edges), NEW source, NEW w, Walking(w, edges, source)
  PROVE  \A n \in 0..MaxHops :
            IsFiniteSet(w[n]) /\ \A t \in w[n] : IsWalk(t, edges, source) /\ Len(t) = n
<1> DEFINE Ok(n) == IsFiniteSet(w[n]) /\ \A t \in w[n] : IsWalk(t, edges, source) /\ Len(t) = n
           Bad == {n \in 0..MaxHops : ~Ok(n)}
<1>0. MaxHops \in Nat
  BY MaxHopsIsNumber
<1> SUFFICES ASSUME Bad # {} PROVE FALSE
  OBVIOUS
<1>1. PICK k \in Bad : \A j \in Bad : k <= j
  <2>1. Bad \in SUBSET Nat
    BY <1>0
  <2>2. Min(Bad) \in Bad /\ \A j \in Bad : Min(Bad) <= j
    <3> HIDE DEF Bad
    <3> QED
      BY <2>1, LeastNumber
  <2> QED
    BY <2>2
<1>2. k \in 0..MaxHops /\ ~Ok(k) /\ k \in Nat /\ w[k] = WalkOf(w, k, edges, source)
  BY <1>0, <1>1 DEF Walking
<1>3. CASE k = 0
  <2>1. w[k] = {<<>>}
    BY <1>2, <1>3 DEF WalkOf
  <2>2. IsFiniteSet({<<>>})
    BY FS_Singleton
  <2>3. IsWalk(<<>>, edges, source) /\ Len(<<>>) = 0
    BY DEF IsWalk
  <2> QED
    BY <1>2, <1>3, <2>1, <2>2, <2>3
<1>4. CASE k # 0
  <2>1. k - 1 \in 0..MaxHops /\ k - 1 \notin Bad
    BY <1>0, <1>1, <1>2, <1>4
  <2>2. Ok(k - 1)
    BY <2>1
  <2> DEFINE More(t) == {Append(t, e) : e \in Onward(edges, source, t)}
             more == [t \in w[k - 1] |-> More(t)]
  <2>3. w[k] = UNION {More(t) : t \in w[k - 1]}
    BY <1>2, <1>4 DEF WalkOf
  <2>4. ASSUME NEW t \in w[k - 1] PROVE IsFiniteSet(more[t])
    <3> DEFINE append == [e \in edges |-> Append(t, e)]
    <3>1. \A u \in More(t) : \E e \in edges : u = append[e]
      BY DEF Onward
    <3>2. IsFiniteSet(More(t))
      <4> HIDE DEF More, append
      <4> QED
        BY <3>1, FiniteValues
    <3> QED
      BY <3>2
  <2>5. \A u \in w[k] : \E t \in w[k - 1] : u \in more[t]
    BY <2>3
  <2>6. IsFiniteSet(w[k])
    <3> HIDE DEF more
    <3> QED
      BY <2>2, <2>4, <2>5, FiniteUnion
  <2>7. ASSUME NEW u \in w[k] PROVE IsWalk(u, edges, source) /\ Len(u) = k
    <3>1. PICK t \in w[k - 1] : \E e \in Onward(edges, source, t) : u = Append(t, e)
      BY <2>3
    <3>2. IsWalk(t, edges, source) /\ Len(t) = k - 1
      BY <2>2
    <3> QED
      BY <3>1, <3>2, WalkGoesOn, <1>2
  <2> QED
    BY <1>2, <2>6, <2>7
<1> QED
  BY <1>3, <1>4

LEMMA WalksAre ==
  ASSUME NEW edges, IsFiniteSet(edges), NEW source
  PROVE  /\ IsFiniteSet(Walks(edges, source))
         /\ \A t \in Walks(edges, source) : IsWalk(t, edges, source) /\ Len(t) \in 1..MaxHops
<1>1. PICK w : Walking(w, edges, source) /\ Walks(edges, source) = UNION {w[n] : n \in 1..MaxHops}
  BY WalksAreThose
<1>2. MaxHops \in Nat
  BY MaxHopsIsNumber
<1>3. \A n \in 1..MaxHops : IsFiniteSet(w[n]) /\ \A t \in w[n] : IsWalk(t, edges, source) /\ Len(t) = n
  BY <1>1, <1>2, WalksOfLength
<1>4. IsFiniteSet(1..MaxHops)
  BY <1>2, FS_Interval
<1>5. \A t \in Walks(edges, source) : \E n \in 1..MaxHops : t \in w[n]
  BY <1>1
<1>6. IsFiniteSet(Walks(edges, source))
  <2> DEFINE N == 1..MaxHops
  <2>1. IsFiniteSet(N) /\ (\A n \in N : IsFiniteSet(w[n])) /\ \A t \in Walks(edges, source) : \E n \in N : t \in w[n]
    BY <1>3, <1>4, <1>5
  <2> HIDE DEF N
  <2> QED
    BY <2>1, FiniteUnion
<1> QED
  BY <1>3, <1>5, <1>6

LEMMA SourcesAre ==
  ASSUME NEW edges, IsFiniteSet(edges)
  PROVE  FlowSources(edges) \subseteq edges /\ IsFiniteSet(FlowSources(edges))
<1> DEFINE starts == {e \in edges : e.channel \in SourceChannels /\ ~IsLibrary(e.target)}
           Ks == {<<e.source, e.channel>> : e \in starts}
<1>1. \A k \in Ks : (CHOOSE e \in starts : <<e.source, e.channel>> = k) \in edges
  OBVIOUS
<1>2. FlowSources(edges) = {CHOOSE e \in starts : <<e.source, e.channel>> = k : k \in Ks}
  BY DEF FlowSources
<1>3. FlowSources(edges) \in SUBSET edges
  BY <1>1, <1>2
<1> QED
  BY <1>3, FS_Subset

\* A path is the shortest walk from its source to its sink.
LEMMA PathsFromAre ==
  ASSUME NEW edges, IsFiniteSet(edges), NEW source
  PROVE  /\ IsFiniteSet(PathsFrom(edges, source))
         /\ \A p \in PathsFrom(edges, source) :
               /\ p.source = source /\ p.hops \in Walks(edges, source)
               /\ p.sink = Last(p.hops).target /\ Last(p.hops).channel \in SinkChannels
<1> DEFINE found == {t \in Walks(edges, source) : Last(t).channel \in SinkChannels}
           To(sink) == {t \in found : Last(t).target = sink}
           Sinks == {Last(t).target : t \in found}
           Short(sink) == CHOOSE t \in To(sink) : \A o \in To(sink) : Len(t) <= Len(o)
           Path(sink) == [source |-> source, sink |-> sink, hops |-> Short(sink)]
           path == [t \in found |-> Path(Last(t).target)]
<1>1. PathsFrom(edges, source) = {Path(sink) : sink \in Sinks}
  BY DEF PathsFrom
<1>2. IsFiniteSet(Walks(edges, source)) /\ \A t \in Walks(edges, source) : Len(t) \in Nat
  BY WalksAre
<1>3. IsFiniteSet(found)
  BY <1>2, FS_Subset
<1>4. IsFiniteSet(PathsFrom(edges, source))
  <2>1. \A p \in PathsFrom(edges, source) : \E t \in found : p = path[t]
    <3>1. \A t \in found : path[t] = Path(Last(t).target)
      OBVIOUS
    <3>2. \A sink \in Sinks : \E t \in found : sink = Last(t).target
      OBVIOUS
    <3> HIDE DEF path, found, Path, Sinks
    <3> QED
      BY <1>1, <3>1, <3>2
  <2> HIDE DEF found, path
  <2> QED
    BY <1>3, <2>1, FiniteValues
<1>5. ASSUME NEW sink \in Sinks PROVE Short(sink) \in To(sink)
  <2> DEFINE Lengths == {Len(t) : t \in To(sink)}
  <2>1. Lengths \in SUBSET Nat /\ Lengths # {}
    BY <1>2
  <2>2. Min(Lengths) \in Lengths /\ \A n \in Lengths : Min(Lengths) <= n
    BY <2>1, LeastNumber
  <2>3. PICK t \in To(sink) : Len(t) = Min(Lengths)
    BY <2>2
  <2>4. \A o \in To(sink) : Len(t) <= Len(o)
    BY <2>2, <2>3
  <2> HIDE DEF To
  <2> QED
    BY <2>3, <2>4
<1>6. ASSUME NEW p \in PathsFrom(edges, source)
      PROVE  /\ p.source = source /\ p.hops \in Walks(edges, source)
             /\ p.sink = Last(p.hops).target /\ Last(p.hops).channel \in SinkChannels
  <2>1. PICK sink \in Sinks : p = Path(sink)
    BY <1>1
  <2>2. Short(sink) \in To(sink)
    BY <1>5
  <2> DEFINE short == Short(sink)
  <2>3. p.source = source /\ p.sink = sink /\ p.hops = short /\ short \in To(sink)
    BY <2>1, <2>2
  <2> HIDE DEF short
  <2> QED
    BY <2>3
<1> QED
  BY <1>4, <1>6

LEMMA PathsAre ==
  ASSUME NEW edges, IsFiniteSet(edges)
  PROVE  /\ IsFiniteSet(Paths(edges))
         /\ \A p \in Paths(edges) :
               /\ p.source \in FlowSources(edges) /\ p.source \in edges
               /\ IsWalk(p.hops, edges, p.source) /\ Len(p.hops) \in Nat \ {0}
               /\ p.sink = Last(p.hops).target
<1> DEFINE from == [s \in FlowSources(edges) |-> PathsFrom(edges, s)]
<1>1. IsFiniteSet(FlowSources(edges)) /\ FlowSources(edges) \subseteq edges
  BY SourcesAre
<1>2. \A s \in FlowSources(edges) : IsFiniteSet(from[s])
  BY PathsFromAre
<1>3. \A p \in Paths(edges) : \E s \in FlowSources(edges) : p \in from[s]
  BY DEF Paths
<1>4. IsFiniteSet(Paths(edges))
  <2> HIDE DEF from
  <2> QED
    BY <1>1, <1>2, <1>3, FiniteUnion
<1>5. ASSUME NEW p \in Paths(edges)
      PROVE  /\ p.source \in FlowSources(edges)
             /\ IsWalk(p.hops, edges, p.source) /\ Len(p.hops) \in Nat \ {0}
             /\ p.sink = Last(p.hops).target
  <2>1. PICK s \in FlowSources(edges) : p \in PathsFrom(edges, s)
    BY <1>3
  <2>2. p.source = s /\ p.hops \in Walks(edges, s) /\ p.sink = Last(p.hops).target
    BY <2>1, PathsFromAre
  <2>3. IsWalk(p.hops, edges, s) /\ Len(p.hops) \in 1..MaxHops
    BY <2>2, WalksAre
  <2> QED
    BY <2>2, <2>3, MaxHopsIsNumber
<1> QED
  BY <1>1, <1>4, <1>5

\* The ends of the edges of each kind that a path from a route to a table is made of.
LEMMA CodeEdges ==
  ASSUME NEW c \in Commits, NEW x, Extracted(x, Tree[c]), NEW e, OfRow(x, e) \/ OfImport(x, e)
  PROVE  /\ e.channel = "call" => /\ IsCode(e.source) /\ ~IsUrl(e.source) /\ e.source # e.target
                                  /\ IsCode(e.target) /\ ~IsUrl(e.target)
         /\ e.channel = "persist" => IsCode(e.source) /\ ~IsUrl(e.source)
         /\ e.channel = "http_in" /\ TypeOf(e.target) = "route:" => IsCode(e.source) /\ ~IsUrl(e.source)
<1>1. CASE OfRow(x, e)
  <2>1. PICK r \in x.ioEdges : e = Edge(r.fact.source, r.fact.target, r.fact.channel, r)
    BY <1>1 DEF OfRow
  <2>2. r.file \in DOMAIN x.files /\ r.fact \in x.files[r.file]["ioEdges"]
    BY DEF Extracted, Fields
  <2>3. PICK content \in DOMAIN Facts : x.files[r.file] = Facts[content] /\ Facts[content] # None
    BY <2>2 DEF Extracted
  <2>4. r.fact \in Facts[content].ioEdges
    BY <2>2, <2>3
  <2>5. e.source = r.fact.source /\ e.target = r.fact.target /\ e.channel = r.fact.channel
    BY <2>1 DEF Edge
  <2> QED
    BY <2>3, <2>4, <2>5, CodeIsNamed
<1>2. CASE OfImport(x, e)
  <2>1. PICK u \in x.uses : /\ Primary(x, u.file) \notin {None, u.fact}
                            /\ e = Edge(Primary(x, u.file), u.fact, "call", u)
    BY <1>2 DEF OfImport
  <2>2. u.file \in DOMAIN x.files /\ u.fact \in x.files[u.file]["uses"]
    BY DEF Extracted, Fields
  <2>3. PICK content \in DOMAIN Facts : x.files[u.file] = Facts[content] /\ Facts[content] # None
    BY <2>2 DEF Extracted
  <2>4. u.fact \in Facts[content].uses /\ Primary(x, u.file) = Facts[content].primary
    BY <2>2, <2>3 DEF Primary
  <2>5. e.source = Primary(x, u.file) /\ e.target = u.fact /\ e.channel = "call"
    BY <2>1 DEF Edge
  <2>6. IsCode(e.source) /\ ~IsUrl(e.source) /\ IsCode(e.target) /\ ~IsUrl(e.target)
    BY <2>1, <2>3, <2>4, <2>5, CodeIsNamed
  <2> QED
    BY <2>1, <2>5, <2>6
<1> QED
  BY <1>1, <1>2

\* A route has no role, so that no test is one.
LEMMA RoutesAreNoTests ==
  ASSUME NEW c \in Commits, NEW v, Extracted(v.x, Tree[c]), NEW n \in DataflowGraph(v).nodes, n.role = "test"
  PROVE  TypeOf(n.id) # "route:"
<1> DEFINE RoleAt(id) == IF id \in Symbols(v.x) THEN RoleOf(SymbolFile(v.x, id)) ELSE None
           ids == {e.source : e \in v.edges} \union {e.target : e \in v.edges}
<1>1. PICK id \in ids : n = Node(id, TypeOf(id), OwnerFile(v, id), RoleAt(id), {id})
  BY DEF DataflowGraph, Chart
<1>2. n.id = id /\ n.role = RoleAt(id)
  BY <1>1 DEF Node
<1>3. id \in Symbols(v.x)
  BY <1>2, CodeIsNamed
<1>4. PICK r \in v.x.defines : r.fact.fqn = id
  BY <1>3 DEF Symbols
<1>5. r.file \in DOMAIN v.x.files /\ r.fact \in v.x.files[r.file]["defines"]
  BY DEF Extracted, Fields
<1>6. PICK content \in DOMAIN Facts : v.x.files[r.file] = Facts[content] /\ Facts[content] # None
  BY <1>5 DEF Extracted
<1>7. r.fact \in Facts[content].defines
  BY <1>5, <1>6
<1> QED
  BY <1>2, <1>4, <1>6, <1>7, CodeIsNamed

\* A line that carries data is in the flow, in its direction.
LEMMA CarriedFlows ==
  ASSUME NEW base, NEW include, NEW l \in Untested(base), Carries(l, Jobs(base), include),
         NEW from, NEW to, Oriented(l) = <<from, to>>
  PROVE  <<from, to>> \in {<<f.source, f.target>> : f \in BuildFlow(base, include)}
<1> DEFINE jobs == Jobs(base)
           flows == {[ends |-> Oriented(k), line |-> k] : k \in {m \in Untested(base) : Carries(m, jobs, include)}}
           Alike(f) == {g \in flows : g.ends = f.ends /\ g.line.kind = f.line.kind}
           flow == [ends |-> Oriented(l), line |-> l]
           drawn == Line(flow.ends[1], flow.ends[2], flow.line.kind, Cardinality(Alike(flow)))
<1>1. BuildFlow(base, include) = {Line(f.ends[1], f.ends[2], f.line.kind, Cardinality(Alike(f))) : f \in flows}
  BY DEF BuildFlow
<1>2. flow \in flows
  OBVIOUS
<1>3. drawn \in BuildFlow(base, include)
  <2> HIDE DEF flows, flow, Alike
  <2> QED
    BY <1>1, <1>2
<1>4. drawn.source = from /\ drawn.target = to
  <2>1. flow.ends = <<from, to>>
    OBVIOUS
  <2> HIDE DEF flow, Alike
  <2> QED
    BY <2>1 DEF Line
<1> HIDE DEF drawn
<1> QED
  BY <1>3, <1>4

\* The steps of a path that are calls, or at its end a write, are in the flow.
LEMMA StepsFlow ==
  ASSUME NEW v, NEW e \in v.edges, NEW include, ~IsLibrary(e.target),
         IsCode(e.source), ~IsUrl(e.source),
         \/ /\ e.channel = "call" /\ "call" \in include
            /\ IsCode(e.target) /\ ~IsUrl(e.target) /\ e.source # e.target
         \/ e.channel = "persist" /\ TypeOf(e.target) \in {"table:", "entity:"},
         {e.source, e.target} \intersect {n.id : n \in {m \in DataflowGraph(v).nodes : m.role = "test"}} = {}
  PROVE  <<e.source, e.target>> \in {<<f.source, f.target>> : f \in BuildFlow(DataflowGraph(v), include)}
<1> DEFINE l == Line(e.source, e.target, e.channel, 1)
           base == DataflowGraph(v)
<1>1. l \in base.lines
  BY DataflowGraphIs
<1>2. l.source = e.source /\ l.target = e.target /\ l.kind = e.channel
  BY DEF Line
<1> HIDE DEF l, base
<1>3. l \in Untested(base)
  BY <1>1, <1>2 DEF Untested, base
<1>4. Carries(l, Jobs(base), include)
  BY <1>2 DEF Carries, DefaultKinds
<1>5. Oriented(l) = <<e.source, e.target>>
  BY <1>2 DEF Oriented
<1> QED
  BY <1>3, <1>4, <1>5, CarriedFlows DEF base

LEMMA EntersFlow ==
  ASSUME NEW v, NEW e \in v.edges, NEW include, e.channel = "http_in", TypeOf(e.target) = "route:",
         IsCode(e.source), ~IsUrl(e.source),
         {e.source, e.target} \intersect {n.id : n \in {m \in DataflowGraph(v).nodes : m.role = "test"}} = {}
  PROVE  <<e.target, e.source>> \in {<<f.source, f.target>> : f \in BuildFlow(DataflowGraph(v), include)}
<1> DEFINE l == Line(e.source, e.target, e.channel, 1)
           base == DataflowGraph(v)
<1>1. l \in base.lines
  BY DataflowGraphIs
<1>2. l.source = e.source /\ l.target = e.target /\ l.kind = e.channel
  BY DEF Line
<1> HIDE DEF l, base
<1>3. l \in Untested(base)
  BY <1>1, <1>2 DEF Untested, base
<1>4. Carries(l, Jobs(base), include)
  BY <1>2 DEF Carries, DefaultKinds
<1>5. Oriented(l) = <<e.target, e.source>>
  BY <1>2 DEF Oriented
<1> QED
  BY <1>3, <1>4, <1>5, CarriedFlows DEF base

\* What query paths traces from a route to a table or an entity, the flow shows, from the
\* route to the storage and with the handler after its route (web/api/flow.py: build_flow).
THEOREM FlowShowsThePaths == PortalSpec => []FlowHasThePaths
<1>1. ASSUME PortalInv PROVE FlowHasThePaths
  <2> DEFINE tests == {n.id : n \in {m \in DataflowGraph(view).nodes : m.role = "test"}}
             Steps(p) == {<<p.hops[i].source, p.hops[i].target>> : i \in DOMAIN p.hops}
             flows == {<<l.source, l.target>> : l \in page.lines}
  <2> SUFFICES ASSUME page # None, page.kind = "flow", "call" \in page.include, NEW p \in Paths(view.edges),
                      p.source.channel = "http_in", TypeOf(p.source.target) = "route:",
                      Last(p.hops).channel = "persist", TypeOf(p.sink) \in {"table:", "entity:"},
                      \A hop \in Range(Front(p.hops)) : hop.channel = "call",
                      \A hop \in Steps(p) : Range(hop) \intersect tests = {}
               PROVE  {<<p.source.target, p.source.source>>} \union Steps(p) \subseteq flows
    BY Zenon DEF FlowHasThePaths
  <2>1. PICK include \in SUBSET OptionalKinds :
           page.include = include /\ page.lines = BuildFlow(DataflowGraph(view), include)
    <3>1. IsFlowPage(page)
      BY <1>1, FlowPage DEF PortalInv
    <3> QED
      BY <3>1 DEF IsFlowPage
  <2>2. view # None /\ "call" \in include
    BY <1>1, <2>1 DEF PortalInv
  <2>3. /\ view.commit \in Commits /\ Extracted(view.x, Tree[view.commit])
        /\ view.edges = FlowEdges(view.x, Uses(view.x)) /\ IsFiniteSet(view.edges)
        /\ \A e \in view.edges : OfRow(view.x, e) \/ OfImport(view.x, e)
    BY <1>1, <2>2, ViewEdges, EdgesAre DEF PortalInv, AtlasInv, IsView
  <2>4. /\ p.source \in view.edges /\ IsWalk(p.hops, view.edges, p.source) /\ Len(p.hops) \in Nat \ {0}
        /\ p.sink = Last(p.hops).target
    BY <2>3, PathsAre
  <2> DEFINE t == p.hops
             n == Len(t)
  <2>5. /\ t \in Seq(view.edges) /\ DOMAIN t = 1..n /\ n \in Nat \ {0}
        /\ t[n].channel = "persist" /\ TypeOf(t[n].target) \in {"table:", "entity:"}
    BY <2>4 DEF IsWalk, Last
  <2>6. ASSUME NEW i \in 1..(n - 1) PROVE t[i].channel = "call"
    <3>1. Front(t) \in Seq(view.edges) /\ i \in DOMAIN Front(t) /\ Front(t)[i] = t[i]
      <4>1. Front(t) = [j \in 1..(n - 1) |-> t[j]]
        <5>1. Front(t) = SubSeq(t, 1, n - 1)
          BY DEF Front
        <5> HIDE DEF t, n
        <5> QED
          BY <5>1, <2>5 DEF SubSeq
      <4>2. \A j \in 1..(n - 1) : t[j] \in view.edges
        BY <2>5
      <4>3. n - 1 \in Nat
        BY <2>5
      <4> HIDE DEF t, n
      <4>4. [j \in 1..(n - 1) |-> t[j]] \in Seq(view.edges)
        BY <4>2, <4>3
      <4> QED
        BY <4>1, <4>4
    <3>2. t[i] \in Range(Front(t))
      BY <3>1 DEF Range
    <3> QED
      BY <3>2
  <2>7. ASSUME NEW i \in 1..n PROVE {t[i].source, t[i].target} \intersect tests = {}
    <3>1. <<t[i].source, t[i].target>> \in Steps(p)
      BY <2>5
    <3>2. Range(<<t[i].source, t[i].target>>) = {t[i].source, t[i].target}
      BY DEF Range
    <3> HIDE DEF tests, Steps
    <3> QED
      BY <3>1, <3>2
  <2>8. ASSUME NEW i \in 1..n
        PROVE  <<t[i].source, t[i].target>> \in {<<f.source, f.target>> : f \in BuildFlow(DataflowGraph(view), include)}
    <3> DEFINE e == t[i]
    <3>1. e \in view.edges /\ ~IsLibrary(e.target)
      BY <2>4, <2>5 DEF IsWalk
    <3>2. e.channel = "call" \/ (e.channel = "persist" /\ TypeOf(e.target) \in {"table:", "entity:"})
      <4>1. CASE i = n
        BY <2>5, <4>1
      <4>2. CASE i # n
        BY <2>5, <2>6, <4>2
      <4> QED
        BY <4>1, <4>2
    <3>3. {e.source, e.target} \intersect tests = {}
      BY <2>7
    <3> HIDE DEF e
    <3>4. OfRow(view.x, e) \/ OfImport(view.x, e)
      BY <2>3, <3>1
    <3>5. /\ IsCode(e.source) /\ ~IsUrl(e.source)
          /\ e.channel = "call" => IsCode(e.target) /\ ~IsUrl(e.target) /\ e.source # e.target
      BY <2>3, <3>2, <3>4, CodeEdges
    <3>6. <<e.source, e.target>> \in {<<f.source, f.target>> : f \in BuildFlow(DataflowGraph(view), include)}
      BY <2>2, <3>1, <3>2, <3>3, <3>5, StepsFlow
    <3> QED
      BY <3>6 DEF e
  <2>9. <<p.source.target, p.source.source>> \in {<<f.source, f.target>> : f \in BuildFlow(DataflowGraph(view), include)}
    <3> DEFINE e == p.source
    <3>1. e \in view.edges /\ (OfRow(view.x, e) \/ OfImport(view.x, e))
      BY <2>3, <2>4
    <3>2. e.source \notin tests
      <4>1. t[1].source = e.source /\ 1 \in 1..n
        BY <2>4, <2>5 DEF IsWalk
      <4> QED
        BY <2>7, <4>1
    <3>3. e.target \notin tests
      BY <2>3, RoutesAreNoTests
    <3>4. e.channel = "http_in" /\ TypeOf(e.target) = "route:"
      OBVIOUS
    <3> HIDE DEF e
    <3>5. IsCode(e.source) /\ ~IsUrl(e.source)
      BY <2>3, <3>1, <3>4, CodeEdges
    <3>6. {e.source, e.target} \intersect tests = {}
      BY <3>2, <3>3
    <3>7. <<e.target, e.source>> \in {<<f.source, f.target>> : f \in BuildFlow(DataflowGraph(view), include)}
      BY <3>1, <3>4, <3>5, <3>6, EntersFlow
    <3> QED
      BY <3>7 DEF e
  <2>10. Steps(p) \subseteq flows
    BY <2>1, <2>5, <2>8
  <2> QED
    BY <2>1, <2>9, <2>10
<1> QED
  BY <1>1, PortalHolds, PTL

(***************************************************************************)
(* Answers within an allowance.                                            *)
(***************************************************************************)

\* Rows with the numbers that they are chosen by.
Weighed(rows) == IsFiniteSet(rows) /\ \A r \in rows : r.weight \in Nat

LEMMA HeaviestRow ==
  ASSUME NEW rows, Weighed(rows), rows # {}
  PROVE  \E r \in rows : \A s \in rows : r.weight >= s.weight
<1> DEFINE Good(t) == \E r \in t : \A s \in t : r.weight >= s.weight
           Bad == {t \in SUBSET rows : t # {} /\ ~Good(t)}
<1> SUFFICES ASSUME Bad # {} PROVE FALSE
  OBVIOUS
<1>1. \E t \in Bad : \A s \in Bad : s \subseteq t => s = t
  <2>1. Bad \in SUBSET SUBSET rows /\ IsFiniteSet(rows)
    BY DEF Weighed
  <2> HIDE DEF Bad
  <2> QED
    BY <2>1, SmallestSet
<1>2. PICK t \in Bad : \A s \in Bad : s \subseteq t => s = t
  BY <1>1
<1>3. PICK r \in t : TRUE
  OBVIOUS
<1>4. t \ {r} \notin Bad
  BY <1>2, <1>3
<1>5. CASE t = {r}
  <2>1. r.weight \in Nat
    BY <1>3 DEF Weighed
  <2> QED
    BY <1>5, <2>1
<1>6. CASE t # {r}
  <2>1. PICK s \in t \ {r} : \A u \in t \ {r} : s.weight >= u.weight
    BY <1>3, <1>4, <1>6
  <2>2. \A u \in t : u.weight \in Nat
    BY DEF Weighed
  <2>3. Good(t)
    <3>1. CASE s.weight >= r.weight
      BY <2>1, <3>1
    <3>2. CASE ~(s.weight >= r.weight)
      <4>1. r.weight \in Nat /\ s.weight \in Nat /\ r.weight > s.weight
        BY <1>3, <2>1, <2>2, <3>2
      <4>2. \A u \in t : r.weight >= u.weight
        BY <2>1, <2>2, <4>1
      <4> QED
        BY <1>3, <4>2
    <3> QED
      BY <3>1, <3>2
  <2> QED
    BY <2>3
<1> QED
  BY <1>5, <1>6

\* As many rows as there is room for, and none of the others weighs more.
TopOf(rows, n, top) ==
    /\ top \subseteq rows /\ Cardinality(top) = n
    /\ \A kept \in top, dropped \in rows \ top : kept.weight >= dropped.weight

LEMMA TopExists ==
  ASSUME NEW rows, Weighed(rows), NEW n \in 0..Cardinality(rows)
  PROVE  \E top : TopOf(rows, n, top)
<1> DEFINE Bad == {k \in 0..Cardinality(rows) : ~\E top : TopOf(rows, k, top)}
<1>0. Cardinality(rows) \in Nat /\ IsFiniteSet(rows)
  BY FS_CardinalityType DEF Weighed
<1> SUFFICES ASSUME Bad # {} PROVE FALSE
  OBVIOUS
<1>1. PICK k \in Bad : \A j \in Bad : k <= j
  <2>1. Bad \in SUBSET Nat
    BY <1>0
  <2>2. Min(Bad) \in Bad /\ \A j \in Bad : Min(Bad) <= j
    <3> HIDE DEF Bad
    <3> QED
      BY <2>1, LeastNumber
  <2> QED
    BY <2>2
<1>2. k \in 0..Cardinality(rows) /\ k \in Nat /\ ~\E top : TopOf(rows, k, top)
  BY <1>0, <1>1
<1>3. CASE k = 0
  <2>1. TopOf(rows, 0, {})
    BY FS_EmptySet DEF TopOf
  <2> QED
    BY <1>2, <1>3, <2>1
<1>4. CASE k # 0
  <2>1. k - 1 \in 0..Cardinality(rows) /\ k - 1 \notin Bad
    BY <1>0, <1>1, <1>2, <1>4
  <2>2. PICK top : TopOf(rows, k - 1, top)
    BY <2>1
  <2>3. IsFiniteSet(top) /\ rows \ top # {}
    <3>1. IsFiniteSet(top)
      BY <1>0, <2>2, FS_Subset DEF TopOf
    <3>2. top # rows
      BY <1>0, <1>2, <2>2 DEF TopOf
    <3> QED
      BY <2>2, <3>1, <3>2 DEF TopOf
  <2>4. Weighed(rows \ top)
    BY <1>0, FS_Subset DEF Weighed
  <2>5. PICK r \in rows \ top : \A s \in rows \ top : r.weight >= s.weight
    BY <2>3, <2>4, HeaviestRow
  <2>6. Cardinality(top \union {r}) = k
    <3>1. Cardinality(top) = k - 1 /\ r \notin top
      BY <2>2, <2>5 DEF TopOf
    <3>2. Cardinality(top \union {r}) = Cardinality(top) + 1
      BY <2>3, <3>1, FS_AddElement
    <3> HIDE DEF Bad
    <3> QED
      BY <1>2, <3>1, <3>2
  <2>7. TopOf(rows, k, top \union {r})
    BY <2>2, <2>5, <2>6 DEF TopOf
  <2> QED
    BY <1>2, <2>7
<1> QED
  BY <1>3, <1>4

\* Allowances of which no more is spent than there was; what is dropped is dropped
\* because nothing is left.
Budgets(L) == {b \in [limit : {L}, spent : 0..L, elided : Nat] : b.elided > 0 => b.spent = L}

LEMMA TakeIs ==
  ASSUME NEW L \in Nat, NEW b \in Budgets(L), NEW rows, Weighed(rows)
  PROVE  LET taken == Take(b, rows) IN
         /\ taken.kept \subseteq rows /\ taken.budget \in Budgets(L)
         /\ taken.budget.elided = 0 => b.elided = 0 /\ taken.kept = rows
         /\ b.elided = 0 => /\ taken.budget.spent = b.spent + Cardinality(taken.kept)
                            /\ taken.budget.elided = Cardinality(rows) - Cardinality(taken.kept)
         /\ IsFiniteSet(taken.kept)
<1> DEFINE room == b.limit - b.spent
           n == Cardinality(rows)
           taken == Take(b, rows)
<1>0. IsFiniteSet(rows) /\ n \in Nat
  BY FS_CardinalityType DEF Weighed
<1>1. /\ b = [limit |-> b.limit, spent |-> b.spent, elided |-> b.elided] /\ b.limit = L
      /\ b.spent \in 0..L /\ b.elided \in Nat /\ (b.elided > 0 => b.spent = L)
      /\ room \in Nat
  BY DEF Budgets
<1>2. CASE n <= room
  <2>1. taken.kept = rows /\ taken.budget = [b EXCEPT !.spent = @ + n]
    BY <1>2 DEF Take
  <2>2. taken.budget = [limit |-> L, spent |-> b.spent + n, elided |-> b.elided]
    BY <1>1, <2>1
  <2>3. b.elided > 0 => n = 0
    BY <1>0, <1>1, <1>2
  <2>4. taken.budget \in Budgets(L)
    BY <1>0, <1>1, <1>2, <2>2, <2>3 DEF Budgets
  <2> QED
    BY <1>0, <1>1, <2>1, <2>2, <2>4
<1>3. CASE ~(n <= room)
  <2> DEFINE Fit(s) == \A kept \in s, dropped \in rows \ s : kept.weight >= dropped.weight
             top == CHOOSE s \in kSubset(room, rows) : Fit(s)
  <2>1. \E s \in kSubset(room, rows) : Fit(s)
    <3>1. room \in 0..n
      BY <1>0, <1>1, <1>3
    <3>2. PICK s : TopOf(rows, room, s)
      BY <3>1, TopExists
    <3> QED
      BY <3>2 DEF TopOf, kSubset
  <2>2. top \in kSubset(room, rows)
    BY <2>1
  <2>3. top \subseteq rows /\ Cardinality(top) = room
    BY <2>2 DEF kSubset
  <2>4. taken.kept = top /\ taken.budget = [b EXCEPT !.spent = b.limit, !.elided = @ + n - room]
    BY <1>3 DEF Take
  <2> HIDE DEF top
  <2>5. taken.budget = [limit |-> L, spent |-> L, elided |-> b.elided + n - room]
    BY <1>1, <2>4
  <2>6. b.elided + n - room \in Nat \ {0}
    BY <1>0, <1>1, <1>3
  <2>7. taken.budget \in Budgets(L)
    BY <2>5, <2>6 DEF Budgets
  <2>8. IsFiniteSet(top)
    BY <1>0, <2>3, FS_Subset
  <2>9. taken.budget.elided # 0
    BY <2>5, <2>6
  <2>10. b.elided = 0 => taken.budget.spent = b.spent + room /\ taken.budget.elided = n - room
    BY <1>0, <1>1, <2>5
  <2> QED
    BY <2>3, <2>4, <2>7, <2>8, <2>9, <2>10
<1> QED
  BY <1>2, <1>3

Answers(U, L) == [rows : SUBSET U, budget : Budgets(L)]

\* From one answer to the next: rows are dropped and rows come, all of them unless some
\* are left out.
Fills(a, b, gone, come) ==
    /\ b.rows \subseteq (a.rows \ gone) \union come
    /\ b.budget.elided = 0 => a.budget.elided = 0 /\ b.rows = (a.rows \ gone) \union come

\* The rows of a list.
Listed(list, key, rows) == {<<list, key, r.row>> : r \in rows}

LEMMA ListIs ==
  ASSUME NEW U, NEW L \in Nat, NEW a \in Answers(U, L), NEW list, NEW key, NEW rows, Weighed(rows),
         Listed(list, key, rows) \subseteq U
  PROVE  LET b == List(a, list, key, rows) IN
         b \in Answers(U, L) /\ Fills(a, b, {}, Listed(list, key, rows))
<1> DEFINE taken == Take(a.budget, rows)
           b == List(a, list, key, rows)
<1>1. a.budget \in Budgets(L) /\ a.rows \subseteq U
  BY DEF Answers
<1>2. /\ taken.kept \subseteq rows /\ taken.budget \in Budgets(L)
      /\ taken.budget.elided = 0 => a.budget.elided = 0 /\ taken.kept = rows
  BY <1>1, TakeIs
<1> HIDE DEF taken
<1>3. b = [rows |-> a.rows \union Listed(list, key, taken.kept), budget |-> taken.budget]
  BY DEF List, Listed, taken
<1>4. Listed(list, key, taken.kept) \subseteq Listed(list, key, rows)
  BY <1>2 DEF Listed
<1> HIDE DEF b
<1>5. b \in Answers(U, L)
  BY <1>1, <1>2, <1>3, <1>4 DEF Answers
<1>6. Fills(a, b, {}, Listed(list, key, rows))
  BY <1>2, <1>3, <1>4 DEF Fills
<1> QED
  BY <1>5, <1>6 DEF b

LEMMA FillsOn ==
  ASSUME NEW a, NEW b, NEW c, NEW first, NEW second, Fills(a, b, {}, first), Fills(b, c, {}, second)
  PROVE  Fills(a, c, {}, first \union second)
  BY DEF Fills

LEMMA NewBudgetIs ==
  ASSUME NEW L \in Nat
  PROVE  /\ NewBudget(L) \in Budgets(L)
         /\ \A U : Empty(NewBudget(L)) \in Answers(U, L) /\ Empty(NewBudget(L)).rows = {}
  BY DEF NewBudget, Budgets, Empty, Answers

\* The rows that are keys.
Keyed(list, keys) == {<<list, k, k>> : k \in keys}

LEMMA KeysAre ==
  ASSUME NEW U, NEW L \in Nat, NEW list, NEW keys, IsFiniteSet(keys), Keyed(list, keys) \subseteq U
  PROVE  LET first == Keys(NewBudget(L), list, keys) IN
         /\ first.keys \subseteq keys /\ IsFiniteSet(first.keys)
         /\ first.answer \in Answers(U, L) /\ first.answer.rows = Keyed(list, first.keys)
         /\ first.answer.budget.elided = 0 => first.keys = keys
<1> DEFINE rows == Names(keys)
           taken == Take(NewBudget(L), rows)
           first == Keys(NewBudget(L), list, keys)
           name == [k \in keys |-> Weigh(k, 0)]
<1>1. \A r \in rows : \E k \in keys : r = name[k]
  BY DEF Names
<1>2. \A k \in keys : name[k].row = k /\ name[k].weight = 0 /\ name[k] \in rows
  BY DEF Weigh, Names
<1>3. IsFiniteSet(rows)
  <2> HIDE DEF rows, name
  <2> QED
    BY <1>1, FiniteValues
<1>4. Weighed(rows)
  BY <1>1, <1>2, <1>3 DEF Weighed
<1>5. /\ taken.kept \subseteq rows /\ taken.budget \in Budgets(L) /\ IsFiniteSet(taken.kept)
      /\ taken.budget.elided = 0 => taken.kept = rows
  BY <1>4, NewBudgetIs, TakeIs
<1> HIDE DEF taken, rows, name
<1> DEFINE kept == {k.row : k \in taken.kept}
           row == [k \in taken.kept |-> k.row]
<1>6. first.keys = kept /\ first.answer = [rows |-> Keyed(list, kept), budget |-> taken.budget]
  BY DEF Keys, Keyed, taken, rows
<1>7. kept \subseteq keys
  BY <1>1, <1>2, <1>5
<1>8. IsFiniteSet(kept)
  BY <1>7, FS_Subset
<1>9. taken.budget.elided = 0 => kept = keys
  <2> SUFFICES ASSUME taken.budget.elided = 0, NEW k \in keys PROVE k \in kept
    BY <1>7
  <2>1. name[k] \in taken.kept /\ name[k].row = k
    BY <1>2, <1>5
  <2> QED
    BY <2>1
<1>10. Keyed(list, kept) \subseteq U
  BY <1>7 DEF Keyed
<1> HIDE DEF kept
<1> QED
  BY <1>5, <1>6, <1>7, <1>8, <1>9, <1>10 DEF Answers

(***************************************************************************)
(* Folds over finite sets, the next element chosen by a function.          *)
(***************************************************************************)

FoldOf(g, s, base, pick, step) == IF s = {} THEN base ELSE step[<<pick[s], g[s \ {pick[s]}]>>]

Folding(g, S, base, pick, step) == g = [s \in SUBSET S |-> FoldOf(g, s, base, pick, step)]

Picks(pick, S) == \A s \in SUBSET S : s # {} => pick[s] \in s

LEMMA FoldExists ==
  ASSUME NEW S, IsFiniteSet(S), NEW base, NEW pick, Picks(pick, S), NEW step
  PROVE  \E g : Folding(g, S, base, pick, step)
<1> DEFINE F(g, s) == FoldOf(g, s, base, pick, step)
           Good(k, g) == \A s \in SUBSET S : Cardinality(s) <= k => g[s] = F(g, s)
           Bad == {k \in Nat : ~\E g : Good(k, g)}
<1>0. \A s \in SUBSET S : /\ IsFiniteSet(s) /\ Cardinality(s) \in Nat /\ Cardinality(s) <= Cardinality(S)
                          /\ Cardinality(s) = 0 <=> s = {}
                          /\ s # {} => Cardinality(s \ {pick[s]}) = Cardinality(s) - 1
  <2> SUFFICES ASSUME NEW s \in SUBSET S
               PROVE  /\ IsFiniteSet(s) /\ Cardinality(s) \in Nat /\ Cardinality(s) <= Cardinality(S)
                      /\ Cardinality(s) = 0 <=> s = {}
                      /\ s # {} => Cardinality(s \ {pick[s]}) = Cardinality(s) - 1
    OBVIOUS
  <2>1. IsFiniteSet(s) /\ Cardinality(s) \in Nat /\ Cardinality(s) <= Cardinality(S)
    BY FS_Subset, FS_CardinalityType
  <2>2. Cardinality(s) = 0 <=> s = {}
    BY <2>1, FS_EmptySet
  <2>3. s # {} => Cardinality(s \ {pick[s]}) = Cardinality(s) - 1
    BY <2>1, FS_RemoveElement DEF Picks
  <2> QED
    BY <2>1, <2>2, <2>3
<1>c. ASSUME NEW s \in SUBSET S PROVE Cardinality(s) \in Nat
  BY FS_Subset, FS_CardinalityType
<1>1. Bad = {}
  <2> SUFFICES ASSUME Bad # {} PROVE FALSE
    OBVIOUS
  <2>1. Min(Bad) \in Bad /\ \A j \in Bad : Min(Bad) <= j
    <3>1. Bad \in SUBSET Nat
      OBVIOUS
    <3> HIDE DEF Bad
    <3> QED
      BY <3>1, LeastNumber
  <2>2. PICK k \in Bad : \A j \in Bad : k <= j
    BY <2>1
  <2>3. \E h : \A s \in SUBSET S : Cardinality(s) < k => h[s] = F(h, s)
    <3>1. CASE k = 0
      <4>1. \A s \in SUBSET S : ~(Cardinality(s) < 0)
        BY <1>c
      <4> QED
        BY <3>1, <4>1
    <3>2. CASE k # 0
      <4>0. k \in Nat
        BY <2>2
      <4>1. k - 1 \in Nat /\ k - 1 \notin Bad
        <5> HIDE DEF Bad
        <5> QED
          BY <3>2, <2>2, <4>0
      <4>2. PICK h : Good(k - 1, h)
        BY <4>1
      <4>3. \A s \in SUBSET S : Cardinality(s) < k => Cardinality(s) <= k - 1
        BY <1>c, <4>0
      <4> QED
        BY <4>2, <4>3
    <3> QED
      BY <3>1, <3>2
  <2>4. PICK h : \A s \in SUBSET S : Cardinality(s) < k => h[s] = F(h, s)
    BY <2>3
  <2> DEFINE g == [s \in SUBSET S |-> F(h, s)]
  <2>5. ASSUME NEW s \in SUBSET S, Cardinality(s) <= k PROVE g[s] = F(g, s)
    <3>1. CASE s = {}
      BY <3>1 DEF FoldOf
    <3>2. CASE s # {}
      <4>1. s \ {pick[s]} \in SUBSET S /\ Cardinality(s \ {pick[s]}) < k
        BY <2>2, <2>5, <3>2, <1>0
      <4>2. g[s \ {pick[s]}] = h[s \ {pick[s]}]
        BY <4>1, <2>4
      <4> QED
        BY <4>2 DEF FoldOf
    <3> QED
      BY <3>1, <3>2
  <2>6. Good(k, g)
    BY <2>5
  <2> HIDE DEF g
  <2> QED
    BY <2>2, <2>6
<1>2. Cardinality(S) \in Nat
  BY <1>0
<1>3. PICK h : Good(Cardinality(S), h)
  BY <1>1, <1>2
<1>4. \A s \in SUBSET S : h[s] = F(h, s)
  BY <1>0, <1>3
<1> DEFINE g == [s \in SUBSET S |-> F(h, s)]
<1>5. \A s \in SUBSET S : g[s] = h[s]
  BY <1>4
<1>6. \A s \in SUBSET S : F(h, s) = F(g, s)
  <2> SUFFICES ASSUME NEW s \in SUBSET S PROVE F(h, s) = F(g, s)
    OBVIOUS
  <2>1. s \ {pick[s]} \in SUBSET S
    OBVIOUS
  <2>2. g[s \ {pick[s]}] = h[s \ {pick[s]}]
    BY <2>1, <1>5
  <2> HIDE DEF g
  <2> QED
    BY <2>2 DEF FoldOf
<1>7. g = [s \in SUBSET S |-> F(g, s)]
  BY <1>6
<1> QED
  BY <1>7 DEF Folding

\* A function that is a fold as far as its values stay in B.
Follows(h, S, B, base, pick, step) ==
    /\ h[{}] = base
    /\ \A s \in SUBSET S :
          s # {} /\ h[s \ {pick[s]}] \in B => h[s] = step[<<pick[s], h[s \ {pick[s]}]>>]

\* Whatever follows the fold from the start stays where the steps stay.
LEMMA FoldStays ==
  ASSUME NEW S, IsFiniteSet(S), NEW B, NEW base \in B, NEW pick, Picks(pick, S), NEW step \in [S \X B -> B],
         NEW h, Follows(h, S, B, base, pick, step)
  PROVE  \A s \in SUBSET S : h[s] \in B
<1> DEFINE Bad == {s \in SUBSET S : h[s] \notin B}
<1> SUFFICES ASSUME Bad # {} PROVE FALSE
  OBVIOUS
<1>1. \E s \in Bad : \A t \in Bad : t \subseteq s => t = s
  <2>1. Bad \in SUBSET SUBSET S
    OBVIOUS
  <2> HIDE DEF Bad
  <2> QED
    BY <2>1, SmallestSet
<1>2. PICK s \in Bad : \A t \in Bad : t \subseteq s => t = s
  BY <1>1
<1>3. s # {}
  BY <1>2 DEF Follows
<1>4. pick[s] \in s
  BY <1>2, <1>3 DEF Picks
<1>5. s \ {pick[s]} \in SUBSET S /\ s \ {pick[s]} \notin Bad
  BY <1>2, <1>4
<1>6. h[s] = step[<<pick[s], h[s \ {pick[s]}]>>] /\ h[s \ {pick[s]}] \in B /\ pick[s] \in S
  BY <1>2, <1>3, <1>4, <1>5 DEF Follows
<1>7. <<pick[s], h[s \ {pick[s]}]>> \in S \X B
  BY <1>6
<1>8. h[s] \in B
  BY <1>6, <1>7
<1> QED
  BY <1>2, <1>8

AllOf(f, S) == UNION {f[x] : x \in S}

\* Steps that fill an answer with the lists of each key.
Filling(S, B, step, gone, come) ==
    /\ step \in [S \X B -> B]
    /\ \A x \in S, a \in B : Fills(a, step[<<x, a>>], gone[x], come[x])
    /\ \A x, y \in S : gone[x] \intersect come[y] = {}

LEMMA FoldFills ==
  ASSUME NEW S, IsFiniteSet(S), NEW U, NEW L, NEW base \in Answers(U, L), NEW pick, Picks(pick, S),
         NEW step, NEW gone, NEW come, Filling(S, Answers(U, L), step, gone, come),
         NEW h, Follows(h, S, Answers(U, L), base, pick, step)
  PROVE  /\ h[S] \in Answers(U, L)
         /\ Fills(base, h[S], AllOf(gone, S), AllOf(come, S))
<1> DEFINE Gone(s) == AllOf(gone, s)
           Come(s) == AllOf(come, s)
           Bad == {s \in SUBSET S : ~Fills(base, h[s], Gone(s), Come(s))}
<1>1. \A s \in SUBSET S : h[s] \in Answers(U, L)
  <2> DEFINE B == Answers(U, L)
  <2>1. base \in B /\ step \in [S \X B -> B] /\ Follows(h, S, B, base, pick, step)
    BY DEF Filling
  <2> HIDE DEF B, Bad, Gone, Come
  <2>2. \A s \in SUBSET S : h[s] \in B
    BY <2>1, FoldStays
  <2> QED
    BY <2>2 DEF B
<1>2. Bad = {}
  <2> SUFFICES ASSUME Bad # {} PROVE FALSE
    OBVIOUS
  <2>1. \E s \in Bad : \A t \in Bad : t \subseteq s => t = s
    <3>1. Bad \in SUBSET SUBSET S
      OBVIOUS
    <3> HIDE DEF Bad
    <3> QED
      BY <3>1, SmallestSet
  <2>2. PICK s \in Bad : \A t \in Bad : t \subseteq s => t = s
    BY <2>1
  <2>3. CASE s = {}
    <3>1. Gone({}) = {} /\ Come({}) = {}
      BY DEF AllOf
    <3>2. Fills(base, base, {}, {})
      BY DEF Fills
    <3>3. h[s] = base
      BY <2>3 DEF Follows
    <3>4. Fills(base, h[s], Gone(s), Come(s))
      <4> HIDE DEF Gone, Come
      <4> QED
        BY <2>3, <3>1, <3>2, <3>3
    <3> QED
      BY <2>2, <3>4
  <2>4. CASE s # {}
    <3> DEFINE x == pick[s]
               t == s \ {x}
    <3>1. x \in s /\ x \in S /\ t \in SUBSET S /\ t \notin Bad
      BY <2>2, <2>4 DEF Picks
    <3>2. Fills(base, h[t], Gone(t), Come(t)) /\ h[t] \in Answers(U, L)
      BY <1>1, <3>1
    <3>3. h[s] = step[<<x, h[t]>>]
      BY <2>4, <3>2 DEF Follows
    <3>4. Fills(h[t], h[s], gone[x], come[x])
      BY <3>1, <3>2, <3>3 DEF Filling
    <3>5. Gone(s) = Gone(t) \union gone[x] /\ Come(s) = Come(t) \union come[x]
      BY <3>1 DEF AllOf
    <3>6. Come(t) \intersect gone[x] = {}
      BY <3>1 DEF Filling, AllOf
    <3> HIDE DEF x, t, Gone, Come
    <3>7. Fills(base, h[s], Gone(s), Come(s))
      BY <3>2, <3>4, <3>5, <3>6 DEF Fills
    <3> QED
      BY <2>2, <3>7
  <2> QED
    BY <2>3, <2>4
<1>3. Fills(base, h[S], Gone(S), Come(S))
  BY <1>2
<1> QED
  BY <1>1, <1>3

\* The rows of an answer that leaves out none.
Tells(told, U, L) ==
    /\ told.budget \in Budgets(L) /\ told.rows \subseteq U
    /\ told.budget.elided = 0 => told.rows = U

\* The rows of the keys and of their lists, without those that are dropped.
AllRows(list, keys, come) == Keyed(list, keys) \union AllOf(come, keys)
Told(list, keys, gone, come) == (Keyed(list, keys) \ AllOf(gone, keys)) \union AllOf(come, keys)

LEMMA FoldTells ==
  ASSUME NEW list, NEW keys, NEW S, S \subseteq keys, NEW base, base.rows = Keyed(list, S),
         base.budget.elided = 0 => S = keys,
         NEW gone, \A k \in keys : gone[k] \subseteq {<<list, k, k>>}, NEW come, NEW U, NEW L,
         NEW told \in Answers(U, L), Fills(base, told, AllOf(gone, S), AllOf(come, S))
  PROVE  Tells(told, Told(list, keys, gone, come), L)
<1>1. Told(list, S, gone, come) \subseteq Told(list, keys, gone, come)
  BY DEF Keyed, Told, AllOf
<1>2. told.rows \subseteq Told(list, S, gone, come)
  BY DEF Fills, Told
<1>3. told.budget.elided = 0 => told.rows = Told(list, keys, gone, come)
  BY DEF Fills, Told
<1>4. told.budget \in Budgets(L)
  BY DEF Answers
<1> QED
  BY <1>1, <1>2, <1>3, <1>4 DEF Tells

\* The rows of a view are finitely many, and a row of a list of a query has a weight.
Finite(v) ==
    /\ IsFiniteSet(v.x.defines) /\ IsFiniteSet(v.x.ioEdges) /\ IsFiniteSet(Symbols(v.x))
    /\ IsFiniteSet(v.uses) /\ IsFiniteSet(v.edges) /\ IsFiniteSet(v.claims) /\ IsFiniteSet(v.unknowns)
    /\ \A c \in v.claims : IsFiniteSet(c.evidence)
    /\ IsFiniteSet(DOMAIN v.inventory.module) /\ IsFiniteSet(v.inventory.modules)
    /\ IsFiniteSet(Routes(v.x)) /\ \A r \in Routes(v.x) : IsFiniteSet(r.evidence)

LEMMA FiniteRoutes ==
  ASSUME NEW c \in Commits, NEW x, Extracted(x, Tree[c])
  PROVE  IsFiniteSet(Routes(x)) /\ \A r \in Routes(x) : IsFiniteSet(r.evidence)
<1>1. IsFiniteSet(x.ioEdges) /\ \A e \in x.ioEdges : IsFiniteSet(e.fact.refs)
  BY RowFacts
<1>2. IsFiniteSet(Routes(x)) /\ \A r \in Routes(x) : \E e \in x.ioEdges : r = ResolveRoute(x, e)
  BY <1>1, RoutesAre
<1>3. ASSUME NEW e \in x.ioEdges PROVE IsFiniteSet(ResolveRoute(x, e).evidence)
  <2> DEFINE known == {ref \in e.fact.refs : Unambiguous(x, ref)}
             File(ref) == (CHOOSE r \in ConstantSites(x, ref) : TRUE).file
             Files == {File(ref) : ref \in known}
             file == [ref \in known |-> File(ref)]
  <2>1. IsFiniteSet(known)
    BY <1>1, FS_Subset
  <2>2. \A f \in Files : \E ref \in known : f = file[ref]
    OBVIOUS
  <2>3. ResolveRoute(x, e).evidence = {e.file} \union Files
    BY DEF ResolveRoute
  <2> HIDE DEF known, Files, file
  <2>4. IsFiniteSet(Files)
    BY <2>1, <2>2, FiniteValues
  <2>5. IsFiniteSet({e.file})
    BY FS_Singleton
  <2> QED
    BY <2>3, <2>4, <2>5, FS_Union
<1> QED
  BY <1>2, <1>3

LEMMA ViewIsFinite ==
  ASSUME PortalInv, view # None
  PROVE  Finite(view)
<1>1. /\ view.commit \in Commits /\ Extracted(view.x, Tree[view.commit])
      /\ IsFiniteSet(view.claims) /\ IsFiniteSet(view.unknowns)
      /\ \A c \in view.claims : c.evidence \in SUBSET Tracked(Tree[view.commit])
  BY DEF PortalInv, AtlasInv, IsView
<1>2. view.inventory = Inventory(Tree[view.commit]) /\ view.uses = Uses(view.x)
  BY DEF PortalInv, AtlasInv, IsView, ViewOf
<1>3. IsFiniteSet(Tracked(Tree[view.commit]))
  BY <1>1, TreeIsFinite
<1>4. IsFiniteSet(view.x.defines) /\ IsFiniteSet(view.x.ioEdges)
  BY <1>1, RowFacts
<1>5. IsFiniteSet(view.uses) /\ IsFiniteSet(view.edges)
  BY <1>1, <1>2, EdgesAre, ViewEdges
<1>6. \A c \in view.claims : IsFiniteSet(c.evidence)
  BY <1>1, <1>3, FS_Subset
<1>7. DOMAIN view.inventory.module = Tracked(Tree[view.commit])
  BY <1>2 DEF Inventory
<1>8. IsFiniteSet(view.inventory.modules)
  <2> DEFINE owner == view.inventory.module
  <2>1. view.inventory.modules = Range(owner)
    BY <1>2 DEF Inventory
  <2>2. \A m \in Range(owner) : \E p \in DOMAIN owner : m = owner[p]
    BY DEF Range
  <2> HIDE DEF owner
  <2>3. IsFiniteSet(DOMAIN owner)
    BY <1>3, <1>7 DEF owner
  <2> QED
    BY <2>1, <2>2, <2>3, FiniteValues
<1>9. IsFiniteSet(Symbols(view.x))
  <2> DEFINE fqn == [r \in view.x.defines |-> r.fact.fqn]
  <2>1. \A k \in Symbols(view.x) : \E r \in view.x.defines : k = fqn[r]
    BY DEF Symbols
  <2> HIDE DEF fqn
  <2> QED
    BY <1>4, <2>1, FiniteValues
<1>10. IsFiniteSet(Routes(view.x)) /\ \A r \in Routes(view.x) : IsFiniteSet(r.evidence)
  BY <1>1, FiniteRoutes
<1> QED
  BY <1>1, <1>3, <1>4, <1>5, <1>6, <1>7, <1>8, <1>9, <1>10 DEF Finite

\* The rows of sites, of what is cited and of paths, as lists.
LEMMA SitesAre ==
  ASSUME NEW rows, IsFiniteSet(rows)
  PROVE  Weighed(Sites(rows)) /\ \A list, key : Listed(list, key, Sites(rows)) = {<<list, key, r>> : r \in rows}
<1> DEFINE site == [r \in rows |-> Weigh(r, 1)]
<1>1. \A s \in Sites(rows) : \E r \in rows : s = site[r]
  BY DEF Sites
<1>2. \A r \in rows : site[r].row = r /\ site[r].weight = 1 /\ site[r] \in Sites(rows)
  BY DEF Weigh, Sites
<1> HIDE DEF site
<1>3. IsFiniteSet(Sites(rows))
  BY <1>1, FiniteValues
<1>4. Weighed(Sites(rows))
  BY <1>1, <1>2, <1>3 DEF Weighed
<1>5. ASSUME NEW list, NEW key PROVE Listed(list, key, Sites(rows)) = {<<list, key, r>> : r \in rows}
  BY <1>1, <1>2 DEF Listed
<1> QED
  BY <1>4, <1>5

LEMMA NamesAre ==
  ASSUME NEW rows, IsFiniteSet(rows)
  PROVE  Weighed(Names(rows)) /\ \A list, key : Listed(list, key, Names(rows)) = {<<list, key, r>> : r \in rows}
<1> DEFINE name == [r \in rows |-> Weigh(r, 0)]
<1>1. \A s \in Names(rows) : \E r \in rows : s = name[r]
  BY DEF Names
<1>2. \A r \in rows : name[r].row = r /\ name[r].weight = 0 /\ name[r] \in Names(rows)
  BY DEF Weigh, Names
<1> HIDE DEF name
<1>3. IsFiniteSet(Names(rows))
  BY <1>1, FiniteValues
<1>4. Weighed(Names(rows))
  BY <1>1, <1>2, <1>3 DEF Weighed
<1>5. ASSUME NEW list, NEW key PROVE Listed(list, key, Names(rows)) = {<<list, key, r>> : r \in rows}
  BY <1>1, <1>2 DEF Listed
<1> QED
  BY <1>4, <1>5

LEMMA CitedAre ==
  ASSUME NEW rows, IsFiniteSet(rows), \A r \in rows : IsFiniteSet(r.evidence)
  PROVE  Weighed(Cited(rows)) /\ \A list, key : Listed(list, key, Cited(rows)) = {<<list, key, r>> : r \in rows}
<1> DEFINE cited == [r \in rows |-> Weigh(r, Cardinality(r.evidence))]
<1>1. \A s \in Cited(rows) : \E r \in rows : s = cited[r]
  BY DEF Cited
<1>2. \A r \in rows : cited[r].row = r /\ cited[r].weight \in Nat /\ cited[r] \in Cited(rows)
  BY FS_CardinalityType DEF Weigh, Cited
<1> HIDE DEF cited
<1>3. IsFiniteSet(Cited(rows))
  BY <1>1, FiniteValues
<1>4. Weighed(Cited(rows))
  BY <1>1, <1>2, <1>3 DEF Weighed
<1>5. ASSUME NEW list, NEW key PROVE Listed(list, key, Cited(rows)) = {<<list, key, r>> : r \in rows}
  BY <1>1, <1>2 DEF Listed
<1> QED
  BY <1>4, <1>5

LEMMA HopsAre ==
  ASSUME NEW rows, IsFiniteSet(rows), \A r \in rows : Len(r.hops) \in Nat
  PROVE  Weighed(Hops(rows))
<1> DEFINE hops == [r \in rows |-> Weigh(r, Len(r.hops))]
<1>1. \A s \in Hops(rows) : \E r \in rows : s = hops[r]
  BY DEF Hops
<1>2. \A r \in rows : hops[r].weight \in Nat
  BY DEF Weigh
<1> HIDE DEF hops
<1>3. IsFiniteSet(Hops(rows))
  BY <1>1, FiniteValues
<1> QED
  BY <1>1, <1>2, <1>3 DEF Weighed

\* One list alone.
LEMMA ListTells ==
  ASSUME NEW L \in Nat, NEW list, NEW key, NEW rows, Weighed(rows)
  PROVE  Tells(List(Empty(NewBudget(L)), list, key, rows), Listed(list, key, rows), L)
<1> DEFINE U == Listed(list, key, rows)
           a == Empty(NewBudget(L))
           b == List(a, list, key, rows)
<1>1. a \in Answers(U, L) /\ a.rows = {}
  BY NewBudgetIs
<1> HIDE DEF a
<1>2. b \in Answers(U, L) /\ Fills(a, b, {}, U)
  BY <1>1, ListIs
<1> HIDE DEF b, U
<1>3. Tells(b, U, L)
  BY <1>1, <1>2 DEF Fills, Tells, Answers
<1> QED
  BY <1>3 DEF a, b, U

\* What CHOOSE takes from each part of a set.
PickOf(S) == [s \in SUBSET S |-> CHOOSE y \in s : TRUE]

\* The keys of a query and then the lists of each, in the order that FoldSet chooses: what
\* it chooses exists, and tells all there is unless something is left out.
Asking(list, keys, gone, come, L, lists) ==
    /\ L \in Nat /\ IsFiniteSet(keys)
    /\ Filling(keys, Answers(AllRows(list, keys, come), L), lists, gone, come)
    /\ \A k \in keys : gone[k] \subseteq {<<list, k, k>>}

LEMMA QueryTells ==
  ASSUME NEW L, NEW list, NEW keys, NEW gone, NEW come, NEW lists, Asking(list, keys, gone, come, L, lists)
  PROVE  LET first == Keys(NewBudget(L), list, keys)
             S == first.keys
             B == Answers(AllRows(list, keys, come), L)
         IN /\ S \subseteq keys
            /\ \E g : Folding(g, S, first.answer, PickOf(S), lists) /\ \A s \in SUBSET S : g[s] \in B
            /\ \A h : Follows(h, S, B, first.answer, PickOf(S), lists)
                         => Tells(h[S], Told(list, keys, gone, come), L)
<1> DEFINE first == Keys(NewBudget(L), list, keys)
           S == first.keys
           base == first.answer
           pick == PickOf(S)
           U == AllRows(list, keys, come)
           B == Answers(U, L)
           step == [p \in S \X B |-> lists[p]]
<1>0. /\ L \in Nat /\ IsFiniteSet(keys) /\ lists \in [keys \X B -> B]
      /\ \A x \in keys, a \in B : Fills(a, lists[<<x, a>>], gone[x], come[x])
      /\ \A x, y \in keys : gone[x] \intersect come[y] = {}
      /\ \A k \in keys : gone[k] \subseteq {<<list, k, k>>}
  BY DEF Asking, Filling
<1>1. Keyed(list, keys) \subseteq U
  BY DEF AllRows
<1>2. /\ S \subseteq keys /\ IsFiniteSet(S) /\ base \in B /\ base.rows = Keyed(list, S)
      /\ base.budget.elided = 0 => S = keys
  <2> HIDE DEF U
  <2> QED
    BY <1>0, <1>1, KeysAre
<1>3. Picks(pick, S)
  BY DEF Picks, PickOf
<1> HIDE DEF first, S, base, pick, U
<1>4. Filling(S, B, step, gone, come) /\ \A k \in S, a \in B : step[<<k, a>>] = lists[<<k, a>>]
  <2> HIDE DEF B
  <2>1. \A k \in S, a \in B : <<k, a>> \in keys \X B
    BY <1>2
  <2>2. \A p \in S \X B : lists[p] \in B
    BY <1>0, <1>2
  <2>3. \A k \in S, a \in B : step[<<k, a>>] = lists[<<k, a>>]
    OBVIOUS
  <2>4. step \in [S \X B -> B]
    BY <2>2
  <2> HIDE DEF step
  <2>5. ASSUME NEW k \in S, NEW a \in B PROVE Fills(a, step[<<k, a>>], gone[k], come[k])
    <3>1. k \in keys /\ step[<<k, a>>] = lists[<<k, a>>]
      BY <1>2, <2>3
    <3> QED
      BY <1>0, <3>1
  <2>6. \A x, y \in S : gone[x] \intersect come[y] = {}
    BY <1>0, <1>2
  <2> QED
    BY <2>3, <2>4, <2>5, <2>6 DEF Filling
<1>5. \A s \in SUBSET S : s # {} => pick[s] \in S /\ s \ {pick[s]} \in SUBSET S
  BY <1>3 DEF Picks
<1> HIDE DEF B, step
<1>6. PICK g : Folding(g, S, base, pick, step)
  BY <1>2, <1>3, FoldExists
<1>7. g[{}] = base /\ \A s \in SUBSET S : s # {} => g[s] = step[<<pick[s], g[s \ {pick[s]}]>>]
  BY <1>6 DEF Folding, FoldOf
<1>8. \A s \in SUBSET S : g[s] \in B
  <2>1. Follows(g, S, B, base, pick, step) /\ step \in [S \X B -> B]
    BY <1>4, <1>7 DEF Follows, Filling
  <2> QED
    BY <1>2, <1>3, <2>1, FoldStays
<1>9. ASSUME NEW s \in SUBSET S PROVE FoldOf(g, s, base, pick, step) = FoldOf(g, s, base, pick, lists)
  BY <1>4, <1>5, <1>8 DEF FoldOf
<1>10. Folding(g, S, base, pick, lists)
  BY <1>6, <1>9 DEF Folding
<1>11. ASSUME NEW h, Follows(h, S, B, base, pick, lists) PROVE Tells(h[S], Told(list, keys, gone, come), L)
  <2>1. Follows(h, S, B, base, pick, step)
    <3>1. ASSUME NEW s \in SUBSET S, s # {}, h[s \ {pick[s]}] \in B
          PROVE  h[s] = step[<<pick[s], h[s \ {pick[s]}]>>]
      <4>1. h[s] = lists[<<pick[s], h[s \ {pick[s]}]>>]
        BY <1>11, <3>1 DEF Follows
      <4>2. pick[s] \in S
        BY <1>5, <3>1
      <4> QED
        BY <1>4, <3>1, <4>1, <4>2
    <3> QED
      BY <1>11, <3>1 DEF Follows
  <2> DEFINE told == h[S]
  <2>2. told \in Answers(U, L) /\ Fills(base, told, AllOf(gone, S), AllOf(come, S))
    BY <1>2, <1>3, <1>4, <2>1, FoldFills DEF B
  <2> HIDE DEF told
  <2>3. Tells(told, Told(list, keys, gone, come), L)
    BY <1>0, <1>2, <2>2, FoldTells
  <2> QED
    BY <2>3 DEF told
<1> QED
  BY <1>2, <1>8, <1>10, <1>11 DEF B, S, base, pick, first, U

LEMMA SymbolTells ==
  ASSUME NEW v, Finite(v), NEW term, NEW without
  PROVE  \E U : \A L \in Nat : Tells(QSymbol(v, term, NewBudget(L), without), U, L)
<1> DEFINE Gone(k) == \A r \in DefinersOf(v.x, k) : Excluded(v, without, r.file)
           Used(k) == Sites(UsedBy(v.uses, k))
           About(k) == Cited(ClaimsAbout(v, k))
           Mark(k) == {<<"symbols", k, k>>}
           Lists(k, a) == IF Gone(k) THEN [a EXCEPT !.rows = @ \ Mark(k)]
                          ELSE List(List(a, "used_by", k, Used(k)), "claims", k, About(k))
           keys == FoundSymbols(v, term)
           gone == [k \in keys |-> IF Gone(k) THEN Mark(k) ELSE {}]
           come == [k \in keys |-> IF Gone(k) THEN {}
                                   ELSE Listed("used_by", k, Used(k)) \union Listed("claims", k, About(k))]
           U == AllRows("symbols", keys, come)
<1>1. keys \subseteq Symbols(v.x) /\ IsFiniteSet(keys)
  <2>1. keys \in SUBSET Symbols(v.x)
    BY DEF FoundSymbols
  <2> QED
    BY <2>1, FS_Subset DEF Finite
<1>2. \A k \in keys : Weighed(Used(k)) /\ Weighed(About(k))
  <2> SUFFICES ASSUME NEW k \in keys PROVE Weighed(Used(k)) /\ Weighed(About(k))
    OBVIOUS
  <2>1. IsFiniteSet(UsedBy(v.uses, k))
    <3> DEFINE use == [u \in v.uses |-> u.use]
    <3>1. \A r \in UsedBy(v.uses, k) : \E u \in v.uses : r = use[u]
      BY DEF UsedBy
    <3>2. IsFiniteSet(v.uses)
      BY DEF Finite
    <3> HIDE DEF use
    <3> QED
      BY <3>1, <3>2, FiniteValues
  <2>2. IsFiniteSet(ClaimsAbout(v, k)) /\ \A c \in ClaimsAbout(v, k) : IsFiniteSet(c.evidence)
    <3>1. ClaimsAbout(v, k) \in SUBSET v.claims
      BY DEF ClaimsAbout
    <3> QED
      BY <3>1, FS_Subset DEF Finite
  <2> QED
    BY <2>1, <2>2, SitesAre, CitedAre
<1>3. \A k \in keys : gone[k] \subseteq Mark(k)
  OBVIOUS
<1>4. \A j, k \in keys : gone[j] \intersect come[k] = {}
  BY DEF Listed
<1>5. ASSUME NEW L \in Nat, NEW k \in keys, NEW a \in Answers(U, L)
      PROVE  Lists(k, a) \in Answers(U, L) /\ Fills(a, Lists(k, a), gone[k], come[k])
  <2>1. CASE Gone(k)
    <3> DEFINE mark == Mark(k)
    <3>1. Lists(k, a) = [a EXCEPT !.rows = @ \ mark] /\ gone[k] = mark /\ come[k] = {}
      BY <2>1
    <3>2. [rows |-> a.rows \ mark, budget |-> a.budget] \in Answers(U, L)
      <4> HIDE DEF mark, U
      <4> QED
        BY DEF Answers
    <3>3. [a EXCEPT !.rows = @ \ mark] = [rows |-> a.rows \ mark, budget |-> a.budget]
      <4> HIDE DEF mark, U
      <4> QED
        BY DEF Answers
    <3> DEFINE b == [rows |-> a.rows \ mark, budget |-> a.budget]
    <3>4. Fills(a, b, mark, {})
      <4> HIDE DEF mark
      <4> QED
        BY DEF Fills
    <3> HIDE DEF mark, Lists, U, gone, come
    <3> QED
      BY <3>1, <3>2, <3>3, <3>4
  <2>2. CASE ~Gone(k)
    <3> DEFINE b == List(a, "used_by", k, Used(k))
               c == List(b, "claims", k, About(k))
    <3>1. Lists(k, a) = c /\ gone[k] = {}
          /\ come[k] = Listed("used_by", k, Used(k)) \union Listed("claims", k, About(k))
      BY <2>2
    <3>2. come[k] \subseteq U /\ Weighed(Used(k)) /\ Weighed(About(k))
      BY <1>2 DEF AllRows, AllOf
    <3> HIDE DEF Lists, Used, About, U, gone, come
    <3>3. b \in Answers(U, L) /\ Fills(a, b, {}, Listed("used_by", k, Used(k)))
      BY <3>1, <3>2, ListIs
    <3> HIDE DEF b
    <3>4. c \in Answers(U, L) /\ Fills(b, c, {}, Listed("claims", k, About(k)))
      BY <3>1, <3>2, <3>3, ListIs
    <3> HIDE DEF c
    <3> QED
      BY <3>1, <3>3, <3>4, FillsOn
  <2> QED
    BY <2>1, <2>2
<1>6. ASSUME NEW L \in Nat
      PROVE  Tells(QSymbol(v, term, NewBudget(L), without), Told("symbols", keys, gone, come), L)
  <2> DEFINE first == Keys(NewBudget(L), "symbols", keys)
             S == first.keys
             base == first.answer
             B == Answers(U, L)
             pick == PickOf(S)
             lists == [p \in keys \X B |-> Lists(p[1], p[2])]
             h == CHOOSE g : g = [s \in SUBSET S |-> IF s = {} THEN base
                                                     ELSE LET x == CHOOSE y \in s : TRUE IN Lists(x, g[s \ {x}])]
  <2>1. QSymbol(v, term, NewBudget(L), without) = h[S]
    BY DEF QSymbol, FoldSet, MapThenFoldSet
  <2>2. \A k \in keys, a \in B : Lists(k, a) \in B /\ Fills(a, Lists(k, a), gone[k], come[k])
    BY <1>5
  <2> HIDE DEF Lists, gone, come, keys, B
  <2>3. lists \in [keys \X B -> B] /\ \A k \in keys, a \in B : lists[<<k, a>>] = Lists(k, a)
    BY <2>2
  <2> HIDE DEF lists
  <2>4. Filling(keys, B, lists, gone, come)
    BY <1>4, <2>2, <2>3 DEF Filling
  <2>5. Asking("symbols", keys, gone, come, L, lists)
    BY <1>1, <1>3, <2>4 DEF Asking, B
  <2>6. /\ S \subseteq keys
        /\ \E g : Folding(g, S, base, pick, lists) /\ \A s \in SUBSET S : g[s] \in B
        /\ \A g : Follows(g, S, B, base, pick, lists) => Tells(g[S], Told("symbols", keys, gone, come), L)
    BY <2>5, QueryTells DEF B
  <2> HIDE DEF first
  <2>7. PICK g : Folding(g, S, base, pick, lists) /\ \A s \in SUBSET S : g[s] \in B
    BY <2>6
  <2>8. ASSUME NEW s \in SUBSET S, s # {}
        PROVE  pick[s] \in keys /\ s \ {pick[s]} \in SUBSET S /\ pick[s] = CHOOSE y \in s : TRUE
    <3>1. pick[s] = CHOOSE y \in s : TRUE
      BY <2>8 DEF PickOf
    <3>2. (CHOOSE y \in s : TRUE) \in s
      BY <2>8
    <3> HIDE DEF pick
    <3> QED
      BY <2>6, <2>8, <3>1, <3>2
  <2>9. ASSUME NEW s \in SUBSET S
        PROVE  FoldOf(g, s, base, pick, lists)
                  = IF s = {} THEN base ELSE LET x == CHOOSE y \in s : TRUE IN Lists(x, g[s \ {x}])
    <3> HIDE DEF S, base, pick, h
    <3>1. CASE s = {}
      BY <3>1 DEF FoldOf
    <3>2. CASE s # {}
      <4>1. lists[<<pick[s], g[s \ {pick[s]}]>>] = Lists(pick[s], g[s \ {pick[s]}])
        BY <2>3, <2>7, <2>8, <3>2
      <4> QED
        BY <2>8, <3>2, <4>1 DEF FoldOf
    <3> QED
      BY <3>1, <3>2
  <2>10. g = [s \in SUBSET S |-> IF s = {} THEN base ELSE LET x == CHOOSE y \in s : TRUE IN Lists(x, g[s \ {x}])]
    <3> HIDE DEF S, base, pick, h
    <3> QED
      BY <2>7, <2>9 DEF Folding
  <2>11. \E f : f = [s \in SUBSET S |-> IF s = {} THEN base ELSE LET x == CHOOSE y \in s : TRUE IN Lists(x, f[s \ {x}])]
    <3> HIDE DEF S, base, pick, h
    <3> QED
      BY <2>10
  <2>12. h = [s \in SUBSET S |-> IF s = {} THEN base ELSE LET x == CHOOSE y \in s : TRUE IN Lists(x, h[s \ {x}])]
    <3> HIDE DEF S, base, pick
    <3> QED
      BY <2>11, Zenon
  <2> HIDE DEF h, S, base, pick
  <2>13. Follows(h, S, B, base, pick, lists)
    <3>1. h[{}] = base
      BY <2>12
    <3>2. ASSUME NEW s \in SUBSET S, s # {}, h[s \ {pick[s]}] \in B
          PROVE  h[s] = lists[<<pick[s], h[s \ {pick[s]}]>>]
      <4>1. h[s] = LET x == CHOOSE y \in s : TRUE IN Lists(x, h[s \ {x}])
        BY <2>12, <3>2
      <4>2. h[s] = Lists(pick[s], h[s \ {pick[s]}])
        BY <2>8, <3>2, <4>1
      <4> QED
        BY <2>3, <2>8, <3>2, <4>2
    <3> QED
      BY <3>1, <3>2 DEF Follows
  <2> QED
    BY <2>1, <2>6, <2>13
<1> QED
  BY <1>6

LEMMA FileTells ==
  ASSUME NEW v, Finite(v), NEW term, NEW without
  PROVE  \E U : \A L \in Nat : Tells(QFile(v, term, NewBudget(L), without), U, L)
<1> DEFINE Here(rows, f) == {r \in rows : r.file = f}
           Citers(f) == {c \in v.claims : f \in c.evidence}
           keys == {f \in DOMAIN v.inventory.module : Matches(f, term) /\ Role(f) \notin without}
           Defs(f) == Sites(Here(v.x.defines, f))
           IoEdges(f) == Sites(Here(v.x.ioEdges, f))
           About(f) == Cited(Citers(f))
           Lists(f, a) == List(List(List(a, "defines", f, Defs(f)), "io_edges", f, IoEdges(f)), "claims", f, About(f))
           gone == [f \in keys |-> {}]
           come == [f \in keys |-> Listed("defines", f, Defs(f)) \union Listed("io_edges", f, IoEdges(f)) \union Listed("claims", f, About(f))]
           U == AllRows("files", keys, come)
<1>1. IsFiniteSet(keys)
  <2>1. keys \in SUBSET DOMAIN v.inventory.module
    OBVIOUS
  <2> QED
    BY <2>1, FS_Subset DEF Finite
<1>2. ASSUME NEW f \in keys PROVE Weighed(Defs(f)) /\ Weighed(IoEdges(f)) /\ Weighed(About(f))
  <2>1. IsFiniteSet(Here(v.x.defines, f))
    <3>1. Here(v.x.defines, f) \in SUBSET v.x.defines
      OBVIOUS
    <3> QED
      BY <3>1, FS_Subset DEF Finite
  <2>2. IsFiniteSet(Here(v.x.ioEdges, f))
    <3>1. Here(v.x.ioEdges, f) \in SUBSET v.x.ioEdges
      OBVIOUS
    <3> QED
      BY <3>1, FS_Subset DEF Finite
  <2>3. IsFiniteSet(Citers(f)) /\ \A c \in Citers(f) : IsFiniteSet(c.evidence)
    <3>1. Citers(f) \in SUBSET v.claims
      OBVIOUS
    <3> QED
      BY <3>1, FS_Subset DEF Finite
  <2> QED
    BY <2>1, <2>2, <2>3, SitesAre, CitedAre
<1> HIDE DEF Here, Citers
<1>3. \A k \in keys : gone[k] \subseteq {<<"files", k, k>>}
  OBVIOUS
<1>4. \A j, k \in keys : gone[j] \intersect come[k] = {}
  OBVIOUS
<1>5. ASSUME NEW L \in Nat, NEW f \in keys, NEW a \in Answers(U, L)
      PROVE  Lists(f, a) \in Answers(U, L) /\ Fills(a, Lists(f, a), gone[f], come[f])
  <2> DEFINE b == List(a, "defines", f, Defs(f))
             c == List(b, "io_edges", f, IoEdges(f))
             d == List(c, "claims", f, About(f))
  <2>1. Lists(f, a) = d /\ gone[f] = {} /\ come[f] = Listed("defines", f, Defs(f)) \union Listed("io_edges", f, IoEdges(f)) \union Listed("claims", f, About(f))
    OBVIOUS
  <2>2. come[f] \subseteq U
    BY DEF AllRows, AllOf
  <2>3. Weighed(Defs(f)) /\ Weighed(IoEdges(f)) /\ Weighed(About(f))
    BY <1>2
  <2> HIDE DEF Lists, Defs, IoEdges, About, U, gone, come
  <2>4. b \in Answers(U, L) /\ Fills(a, b, {}, Listed("defines", f, Defs(f)))
    BY <2>1, <2>2, <2>3, ListIs
  <2> HIDE DEF b
  <2>5. c \in Answers(U, L) /\ Fills(b, c, {}, Listed("io_edges", f, IoEdges(f)))
    BY <2>1, <2>2, <2>3, <2>4, ListIs
  <2> HIDE DEF c
  <2>6. d \in Answers(U, L) /\ Fills(c, d, {}, Listed("claims", f, About(f)))
    BY <2>1, <2>2, <2>3, <2>5, ListIs
  <2> HIDE DEF d
  <2>7. Fills(a, c, {}, Listed("defines", f, Defs(f)) \union Listed("io_edges", f, IoEdges(f)))
    BY <2>4, <2>5, FillsOn
  <2> QED
    BY <2>1, <2>6, <2>7, FillsOn
<1>6. ASSUME NEW L \in Nat
      PROVE  Tells(QFile(v, term, NewBudget(L), without), Told("files", keys, gone, come), L)
  <2> DEFINE first == Keys(NewBudget(L), "files", keys)
             S == first.keys
             base == first.answer
             B == Answers(U, L)
             pick == PickOf(S)
             lists == [p \in keys \X B |-> Lists(p[1], p[2])]
             h == CHOOSE g : g = [s \in SUBSET S |-> IF s = {} THEN base
                                                     ELSE LET x == CHOOSE y \in s : TRUE IN Lists(x, g[s \ {x}])]
  <2>1. QFile(v, term, NewBudget(L), without) = h[S]
    BY DEF QFile, Here, Citers, FoldSet, MapThenFoldSet
  <2>2. \A k \in keys, a \in B : Lists(k, a) \in B /\ Fills(a, Lists(k, a), gone[k], come[k])
    BY <1>5
  <2> HIDE DEF Lists, gone, come, keys, B
  <2>3. lists \in [keys \X B -> B] /\ \A k \in keys, a \in B : lists[<<k, a>>] = Lists(k, a)
    BY <2>2
  <2> HIDE DEF lists
  <2>4. Filling(keys, B, lists, gone, come)
    BY <1>4, <2>2, <2>3 DEF Filling
  <2>5. Asking("files", keys, gone, come, L, lists)
    BY <1>1, <1>3, <2>4 DEF Asking, B
  <2>6. /\ S \subseteq keys
        /\ \E g : Folding(g, S, base, pick, lists) /\ \A s \in SUBSET S : g[s] \in B
        /\ \A g : Follows(g, S, B, base, pick, lists) => Tells(g[S], Told("files", keys, gone, come), L)
    BY <2>5, QueryTells DEF B
  <2> HIDE DEF first
  <2>7. PICK g : Folding(g, S, base, pick, lists) /\ \A s \in SUBSET S : g[s] \in B
    BY <2>6
  <2>8. ASSUME NEW s \in SUBSET S, s # {}
        PROVE  pick[s] \in keys /\ s \ {pick[s]} \in SUBSET S /\ pick[s] = CHOOSE y \in s : TRUE
    <3>1. pick[s] = CHOOSE y \in s : TRUE
      BY <2>8 DEF PickOf
    <3>2. (CHOOSE y \in s : TRUE) \in s
      BY <2>8
    <3> HIDE DEF pick
    <3> QED
      BY <2>6, <2>8, <3>1, <3>2
  <2>9. ASSUME NEW s \in SUBSET S
        PROVE  FoldOf(g, s, base, pick, lists)
                  = IF s = {} THEN base ELSE LET x == CHOOSE y \in s : TRUE IN Lists(x, g[s \ {x}])
    <3> HIDE DEF S, base, pick, h
    <3>1. CASE s = {}
      BY <3>1 DEF FoldOf
    <3>2. CASE s # {}
      <4>1. lists[<<pick[s], g[s \ {pick[s]}]>>] = Lists(pick[s], g[s \ {pick[s]}])
        BY <2>3, <2>7, <2>8, <3>2
      <4> QED
        BY <2>8, <3>2, <4>1 DEF FoldOf
    <3> QED
      BY <3>1, <3>2
  <2>10. g = [s \in SUBSET S |-> IF s = {} THEN base ELSE LET x == CHOOSE y \in s : TRUE IN Lists(x, g[s \ {x}])]
    <3> HIDE DEF S, base, pick, h
    <3> QED
      BY <2>7, <2>9 DEF Folding
  <2>11. \E f : f = [s \in SUBSET S |-> IF s = {} THEN base ELSE LET x == CHOOSE y \in s : TRUE IN Lists(x, f[s \ {x}])]
    <3> HIDE DEF S, base, pick, h
    <3> QED
      BY <2>10
  <2>12. h = [s \in SUBSET S |-> IF s = {} THEN base ELSE LET x == CHOOSE y \in s : TRUE IN Lists(x, h[s \ {x}])]
    <3> HIDE DEF S, base, pick
    <3> QED
      BY <2>11, Zenon
  <2> HIDE DEF h, S, base, pick
  <2>13. Follows(h, S, B, base, pick, lists)
    <3>1. h[{}] = base
      BY <2>12
    <3>2. ASSUME NEW s \in SUBSET S, s # {}, h[s \ {pick[s]}] \in B
          PROVE  h[s] = lists[<<pick[s], h[s \ {pick[s]}]>>]
      <4>1. h[s] = LET x == CHOOSE y \in s : TRUE IN Lists(x, h[s \ {x}])
        BY <2>12, <3>2
      <4>2. h[s] = Lists(pick[s], h[s \ {pick[s]}])
        BY <2>8, <3>2, <4>1
      <4> QED
        BY <2>3, <2>8, <3>2, <4>2
    <3> QED
      BY <3>1, <3>2 DEF Follows
  <2> QED
    BY <2>1, <2>6, <2>13
<1> QED
  BY <1>6

LEMMA ModuleTells ==
  ASSUME NEW v, Finite(v), NEW term
  PROVE  \E U : \A L \in Nat : Tells(QModule(v, term, NewBudget(L)), U, L)
<1> DEFINE Citers(m) == {c \in v.claims : m \in ClaimModules(v, c)}
           keys == {m \in v.inventory.modules : Matches(m, term)}
           About(m) == Cited(Citers(m))
           Lists(m, a) == List(a, "claims", m, About(m))
           gone == [m \in keys |-> {}]
           come == [m \in keys |-> Listed("claims", m, About(m))]
           U == AllRows("modules", keys, come)
<1>1. IsFiniteSet(keys)
  <2>1. keys \in SUBSET v.inventory.modules
    OBVIOUS
  <2> QED
    BY <2>1, FS_Subset DEF Finite
<1>2. ASSUME NEW m \in keys PROVE Weighed(About(m))
  <2>1. IsFiniteSet(Citers(m)) /\ \A c \in Citers(m) : IsFiniteSet(c.evidence)
    <3>1. Citers(m) \in SUBSET v.claims
      OBVIOUS
    <3> QED
      BY <3>1, FS_Subset DEF Finite
  <2> QED
    BY <2>1, CitedAre
<1> HIDE DEF Citers
<1>3. \A k \in keys : gone[k] \subseteq {<<"modules", k, k>>}
  OBVIOUS
<1>4. \A j, k \in keys : gone[j] \intersect come[k] = {}
  OBVIOUS
<1>5. ASSUME NEW L \in Nat, NEW m \in keys, NEW a \in Answers(U, L)
      PROVE  Lists(m, a) \in Answers(U, L) /\ Fills(a, Lists(m, a), gone[m], come[m])
  <2> DEFINE b == List(a, "claims", m, About(m))
  <2>1. Lists(m, a) = b /\ gone[m] = {} /\ come[m] = Listed("claims", m, About(m))
    OBVIOUS
  <2>2. come[m] \subseteq U
    BY DEF AllRows, AllOf
  <2>3. Weighed(About(m))
    BY <1>2
  <2> HIDE DEF Lists, About, U, gone, come
  <2>4. b \in Answers(U, L) /\ Fills(a, b, {}, Listed("claims", m, About(m)))
    BY <2>1, <2>2, <2>3, ListIs
  <2> HIDE DEF b
  <2> QED
    BY <2>1, <2>4
<1>6. ASSUME NEW L \in Nat
      PROVE  Tells(QModule(v, term, NewBudget(L)), Told("modules", keys, gone, come), L)
  <2> DEFINE first == Keys(NewBudget(L), "modules", keys)
             S == first.keys
             base == first.answer
             B == Answers(U, L)
             pick == PickOf(S)
             lists == [p \in keys \X B |-> Lists(p[1], p[2])]
             h == CHOOSE g : g = [s \in SUBSET S |-> IF s = {} THEN base
                                                     ELSE LET x == CHOOSE y \in s : TRUE IN Lists(x, g[s \ {x}])]
  <2>1. QModule(v, term, NewBudget(L)) = h[S]
    BY DEF QModule, Citers, FoldSet, MapThenFoldSet
  <2>2. \A k \in keys, a \in B : Lists(k, a) \in B /\ Fills(a, Lists(k, a), gone[k], come[k])
    BY <1>5
  <2> HIDE DEF Lists, gone, come, keys, B
  <2>3. lists \in [keys \X B -> B] /\ \A k \in keys, a \in B : lists[<<k, a>>] = Lists(k, a)
    BY <2>2
  <2> HIDE DEF lists
  <2>4. Filling(keys, B, lists, gone, come)
    BY <1>4, <2>2, <2>3 DEF Filling
  <2>5. Asking("modules", keys, gone, come, L, lists)
    BY <1>1, <1>3, <2>4 DEF Asking, B
  <2>6. /\ S \subseteq keys
        /\ \E g : Folding(g, S, base, pick, lists) /\ \A s \in SUBSET S : g[s] \in B
        /\ \A g : Follows(g, S, B, base, pick, lists) => Tells(g[S], Told("modules", keys, gone, come), L)
    BY <2>5, QueryTells DEF B
  <2> HIDE DEF first
  <2>7. PICK g : Folding(g, S, base, pick, lists) /\ \A s \in SUBSET S : g[s] \in B
    BY <2>6
  <2>8. ASSUME NEW s \in SUBSET S, s # {}
        PROVE  pick[s] \in keys /\ s \ {pick[s]} \in SUBSET S /\ pick[s] = CHOOSE y \in s : TRUE
    <3>1. pick[s] = CHOOSE y \in s : TRUE
      BY <2>8 DEF PickOf
    <3>2. (CHOOSE y \in s : TRUE) \in s
      BY <2>8
    <3> HIDE DEF pick
    <3> QED
      BY <2>6, <2>8, <3>1, <3>2
  <2>9. ASSUME NEW s \in SUBSET S
        PROVE  FoldOf(g, s, base, pick, lists)
                  = IF s = {} THEN base ELSE LET x == CHOOSE y \in s : TRUE IN Lists(x, g[s \ {x}])
    <3> HIDE DEF S, base, pick, h
    <3>1. CASE s = {}
      BY <3>1 DEF FoldOf
    <3>2. CASE s # {}
      <4>1. lists[<<pick[s], g[s \ {pick[s]}]>>] = Lists(pick[s], g[s \ {pick[s]}])
        BY <2>3, <2>7, <2>8, <3>2
      <4> QED
        BY <2>8, <3>2, <4>1 DEF FoldOf
    <3> QED
      BY <3>1, <3>2
  <2>10. g = [s \in SUBSET S |-> IF s = {} THEN base ELSE LET x == CHOOSE y \in s : TRUE IN Lists(x, g[s \ {x}])]
    <3> HIDE DEF S, base, pick, h
    <3> QED
      BY <2>7, <2>9 DEF Folding
  <2>11. \E f : f = [s \in SUBSET S |-> IF s = {} THEN base ELSE LET x == CHOOSE y \in s : TRUE IN Lists(x, f[s \ {x}])]
    <3> HIDE DEF S, base, pick, h
    <3> QED
      BY <2>10
  <2>12. h = [s \in SUBSET S |-> IF s = {} THEN base ELSE LET x == CHOOSE y \in s : TRUE IN Lists(x, h[s \ {x}])]
    <3> HIDE DEF S, base, pick
    <3> QED
      BY <2>11, Zenon
  <2> HIDE DEF h, S, base, pick
  <2>13. Follows(h, S, B, base, pick, lists)
    <3>1. h[{}] = base
      BY <2>12
    <3>2. ASSUME NEW s \in SUBSET S, s # {}, h[s \ {pick[s]}] \in B
          PROVE  h[s] = lists[<<pick[s], h[s \ {pick[s]}]>>]
      <4>1. h[s] = LET x == CHOOSE y \in s : TRUE IN Lists(x, h[s \ {x}])
        BY <2>12, <3>2
      <4>2. h[s] = Lists(pick[s], h[s \ {pick[s]}])
        BY <2>8, <3>2, <4>1
      <4> QED
        BY <2>3, <2>8, <3>2, <4>2
    <3> QED
      BY <3>1, <3>2 DEF Follows
  <2> QED
    BY <2>1, <2>6, <2>13
<1> QED
  BY <1>6

LEMMA TableTells ==
  ASSUME NEW v, Finite(v), NEW term, NEW without
  PROVE  \E U : \A L \in Nat : Tells(QTable(v, term, NewBudget(L), without), U, L)
<1> DEFINE edges == {e \in v.x.ioEdges :
                       /\ e.fact.target[1] = "table:" /\ Matches(e.fact.target, term)
                       /\ ~Excluded(v, without, e.file)}
           On(table, channels) == {e \in edges : e.fact.target = table /\ e.fact.channel \in channels}
           keys == {e.fact.target : e \in edges}
           Owned(table) == Sites(On(table, {"schema_own"}))
           Accessed(table) == Sites(On(table, {"persist", "read"}))
           Lists(table, a) == List(List(a, "migrations", table, Owned(table)), "evidence", table, Accessed(table))
           gone == [table \in keys |-> {}]
           come == [table \in keys |-> Listed("migrations", table, Owned(table)) \union Listed("evidence", table, Accessed(table))]
           U == AllRows("tables", keys, come)
<1>1. IsFiniteSet(keys)
  <2> DEFINE target == [e \in v.x.ioEdges |-> e.fact.target]
  <2>1. \A k \in keys : \E e \in v.x.ioEdges : k = target[e]
    OBVIOUS
  <2> HIDE DEF keys, target
  <2>2. IsFiniteSet(v.x.ioEdges)
    BY DEF Finite
  <2> QED
    BY <2>1, <2>2, FiniteValues
<1>2. ASSUME NEW table \in keys PROVE Weighed(Owned(table)) /\ Weighed(Accessed(table))
  <2>1. IsFiniteSet(On(table, {"schema_own"}))
    <3>1. On(table, {"schema_own"}) \in SUBSET v.x.ioEdges
      OBVIOUS
    <3> QED
      BY <3>1, FS_Subset DEF Finite
  <2>2. IsFiniteSet(On(table, {"persist", "read"}))
    <3>1. On(table, {"persist", "read"}) \in SUBSET v.x.ioEdges
      OBVIOUS
    <3> QED
      BY <3>1, FS_Subset DEF Finite
  <2> QED
    BY <2>1, <2>2, SitesAre
<1> HIDE DEF edges, On
<1>3. \A k \in keys : gone[k] \subseteq {<<"tables", k, k>>}
  OBVIOUS
<1>4. \A j, k \in keys : gone[j] \intersect come[k] = {}
  OBVIOUS
<1>5. ASSUME NEW L \in Nat, NEW table \in keys, NEW a \in Answers(U, L)
      PROVE  Lists(table, a) \in Answers(U, L) /\ Fills(a, Lists(table, a), gone[table], come[table])
  <2> DEFINE b == List(a, "migrations", table, Owned(table))
             c == List(b, "evidence", table, Accessed(table))
  <2>1. Lists(table, a) = c /\ gone[table] = {} /\ come[table] = Listed("migrations", table, Owned(table)) \union Listed("evidence", table, Accessed(table))
    OBVIOUS
  <2>2. come[table] \subseteq U
    BY DEF AllRows, AllOf
  <2>3. Weighed(Owned(table)) /\ Weighed(Accessed(table))
    BY <1>2
  <2> HIDE DEF Lists, Owned, Accessed, U, gone, come
  <2>4. b \in Answers(U, L) /\ Fills(a, b, {}, Listed("migrations", table, Owned(table)))
    BY <2>1, <2>2, <2>3, ListIs
  <2> HIDE DEF b
  <2>5. c \in Answers(U, L) /\ Fills(b, c, {}, Listed("evidence", table, Accessed(table)))
    BY <2>1, <2>2, <2>3, <2>4, ListIs
  <2> HIDE DEF c
  <2> QED
    BY <2>1, <2>4, <2>5, FillsOn
<1>6. ASSUME NEW L \in Nat
      PROVE  Tells(QTable(v, term, NewBudget(L), without), Told("tables", keys, gone, come), L)
  <2> DEFINE first == Keys(NewBudget(L), "tables", keys)
             S == first.keys
             base == first.answer
             B == Answers(U, L)
             pick == PickOf(S)
             lists == [p \in keys \X B |-> Lists(p[1], p[2])]
             h == CHOOSE g : g = [s \in SUBSET S |-> IF s = {} THEN base
                                                     ELSE LET x == CHOOSE y \in s : TRUE IN Lists(x, g[s \ {x}])]
  <2>1. QTable(v, term, NewBudget(L), without) = h[S]
    BY DEF QTable, edges, On, FoldSet, MapThenFoldSet
  <2>2. \A k \in keys, a \in B : Lists(k, a) \in B /\ Fills(a, Lists(k, a), gone[k], come[k])
    BY <1>5
  <2> HIDE DEF Lists, gone, come, keys, B
  <2>3. lists \in [keys \X B -> B] /\ \A k \in keys, a \in B : lists[<<k, a>>] = Lists(k, a)
    BY <2>2
  <2> HIDE DEF lists
  <2>4. Filling(keys, B, lists, gone, come)
    BY <1>4, <2>2, <2>3 DEF Filling
  <2>5. Asking("tables", keys, gone, come, L, lists)
    BY <1>1, <1>3, <2>4 DEF Asking, B
  <2>6. /\ S \subseteq keys
        /\ \E g : Folding(g, S, base, pick, lists) /\ \A s \in SUBSET S : g[s] \in B
        /\ \A g : Follows(g, S, B, base, pick, lists) => Tells(g[S], Told("tables", keys, gone, come), L)
    BY <2>5, QueryTells DEF B
  <2> HIDE DEF first
  <2>7. PICK g : Folding(g, S, base, pick, lists) /\ \A s \in SUBSET S : g[s] \in B
    BY <2>6
  <2>8. ASSUME NEW s \in SUBSET S, s # {}
        PROVE  pick[s] \in keys /\ s \ {pick[s]} \in SUBSET S /\ pick[s] = CHOOSE y \in s : TRUE
    <3>1. pick[s] = CHOOSE y \in s : TRUE
      BY <2>8 DEF PickOf
    <3>2. (CHOOSE y \in s : TRUE) \in s
      BY <2>8
    <3> HIDE DEF pick
    <3> QED
      BY <2>6, <2>8, <3>1, <3>2
  <2>9. ASSUME NEW s \in SUBSET S
        PROVE  FoldOf(g, s, base, pick, lists)
                  = IF s = {} THEN base ELSE LET x == CHOOSE y \in s : TRUE IN Lists(x, g[s \ {x}])
    <3> HIDE DEF S, base, pick, h
    <3>1. CASE s = {}
      BY <3>1 DEF FoldOf
    <3>2. CASE s # {}
      <4>1. lists[<<pick[s], g[s \ {pick[s]}]>>] = Lists(pick[s], g[s \ {pick[s]}])
        BY <2>3, <2>7, <2>8, <3>2
      <4> QED
        BY <2>8, <3>2, <4>1 DEF FoldOf
    <3> QED
      BY <3>1, <3>2
  <2>10. g = [s \in SUBSET S |-> IF s = {} THEN base ELSE LET x == CHOOSE y \in s : TRUE IN Lists(x, g[s \ {x}])]
    <3> HIDE DEF S, base, pick, h
    <3> QED
      BY <2>7, <2>9 DEF Folding
  <2>11. \E f : f = [s \in SUBSET S |-> IF s = {} THEN base ELSE LET x == CHOOSE y \in s : TRUE IN Lists(x, f[s \ {x}])]
    <3> HIDE DEF S, base, pick, h
    <3> QED
      BY <2>10
  <2>12. h = [s \in SUBSET S |-> IF s = {} THEN base ELSE LET x == CHOOSE y \in s : TRUE IN Lists(x, h[s \ {x}])]
    <3> HIDE DEF S, base, pick
    <3> QED
      BY <2>11, Zenon
  <2> HIDE DEF h, S, base, pick
  <2>13. Follows(h, S, B, base, pick, lists)
    <3>1. h[{}] = base
      BY <2>12
    <3>2. ASSUME NEW s \in SUBSET S, s # {}, h[s \ {pick[s]}] \in B
          PROVE  h[s] = lists[<<pick[s], h[s \ {pick[s]}]>>]
      <4>1. h[s] = LET x == CHOOSE y \in s : TRUE IN Lists(x, h[s \ {x}])
        BY <2>12, <3>2
      <4>2. h[s] = Lists(pick[s], h[s \ {pick[s]}])
        BY <2>8, <3>2, <4>1
      <4> QED
        BY <2>3, <2>8, <3>2, <4>2
    <3> QED
      BY <3>1, <3>2 DEF Follows
  <2> QED
    BY <2>1, <2>6, <2>13
<1> QED
  BY <1>6

LEMMA ConfigTells ==
  ASSUME NEW v, Finite(v), NEW term, NEW without
  PROVE  \E U : \A L \in Nat : Tells(QConfig(v, term, NewBudget(L), without), U, L)
<1> DEFINE Wanted(name, r) == name[1] = "config:" /\ Matches(name, term) /\ ~Excluded(v, without, r.file)
           declared == {r \in v.x.defines : r.fact.kind = "config_key" /\ Wanted(r.fact.fqn, r)}
           read == {e \in v.x.ioEdges : /\ e.fact.channel = "config_read" /\ Wanted(e.fact.target, e)
                                        /\ e.fact.source[1] # "config-file:"}
           keys == {r.fact.fqn : r \in declared} \union {e.fact.target : e \in read}
           Declaring(key) == Sites({r \in declared : r.fact.fqn = key})
           Reads(key) == Sites({e \in read : e.fact.target = key})
           Lists(key, a) == List(List(a, "declared", key, Declaring(key)), "read", key, Reads(key))
           gone == [key \in keys |-> {}]
           come == [key \in keys |-> Listed("declared", key, Declaring(key)) \union Listed("read", key, Reads(key))]
           U == AllRows("keys", keys, come)
<1>1. IsFiniteSet(keys)
  <2> DEFINE fqn == [r \in v.x.defines |-> r.fact.fqn]
             target == [e \in v.x.ioEdges |-> e.fact.target]
             names == {r.fact.fqn : r \in declared}
             targets == {e.fact.target : e \in read}
  <2>1. (\A k \in names : \E r \in v.x.defines : k = fqn[r]) /\ \A k \in targets : \E e \in v.x.ioEdges : k = target[e]
    OBVIOUS
  <2>2. keys = names \union targets
    OBVIOUS
  <2> HIDE DEF keys, names, targets, fqn, target
  <2>3. IsFiniteSet(v.x.defines) /\ IsFiniteSet(v.x.ioEdges)
    BY DEF Finite
  <2>4. IsFiniteSet(names) /\ IsFiniteSet(targets)
    BY <2>1, <2>3, FiniteValues
  <2> QED
    BY <2>2, <2>4, FS_Union
<1>2. ASSUME NEW key \in keys PROVE Weighed(Declaring(key)) /\ Weighed(Reads(key))
  <2>1. IsFiniteSet({r \in declared : r.fact.fqn = key})
    <3>1. {r \in declared : r.fact.fqn = key} \in SUBSET v.x.defines
      OBVIOUS
    <3> QED
      BY <3>1, FS_Subset DEF Finite
  <2>2. IsFiniteSet({e \in read : e.fact.target = key})
    <3>1. {e \in read : e.fact.target = key} \in SUBSET v.x.ioEdges
      OBVIOUS
    <3> QED
      BY <3>1, FS_Subset DEF Finite
  <2> QED
    BY <2>1, <2>2, SitesAre
<1> HIDE DEF Wanted, declared, read
<1>3. \A k \in keys : gone[k] \subseteq {<<"keys", k, k>>}
  OBVIOUS
<1>4. \A j, k \in keys : gone[j] \intersect come[k] = {}
  OBVIOUS
<1>5. ASSUME NEW L \in Nat, NEW key \in keys, NEW a \in Answers(U, L)
      PROVE  Lists(key, a) \in Answers(U, L) /\ Fills(a, Lists(key, a), gone[key], come[key])
  <2> DEFINE b == List(a, "declared", key, Declaring(key))
             c == List(b, "read", key, Reads(key))
  <2>1. Lists(key, a) = c /\ gone[key] = {} /\ come[key] = Listed("declared", key, Declaring(key)) \union Listed("read", key, Reads(key))
    OBVIOUS
  <2>2. come[key] \subseteq U
    BY DEF AllRows, AllOf
  <2>3. Weighed(Declaring(key)) /\ Weighed(Reads(key))
    BY <1>2
  <2> HIDE DEF Lists, Declaring, Reads, U, gone, come
  <2>4. b \in Answers(U, L) /\ Fills(a, b, {}, Listed("declared", key, Declaring(key)))
    BY <2>1, <2>2, <2>3, ListIs
  <2> HIDE DEF b
  <2>5. c \in Answers(U, L) /\ Fills(b, c, {}, Listed("read", key, Reads(key)))
    BY <2>1, <2>2, <2>3, <2>4, ListIs
  <2> HIDE DEF c
  <2> QED
    BY <2>1, <2>4, <2>5, FillsOn
<1>6. ASSUME NEW L \in Nat
      PROVE  Tells(QConfig(v, term, NewBudget(L), without), Told("keys", keys, gone, come), L)
  <2> DEFINE first == Keys(NewBudget(L), "keys", keys)
             S == first.keys
             base == first.answer
             B == Answers(U, L)
             pick == PickOf(S)
             lists == [p \in keys \X B |-> Lists(p[1], p[2])]
             h == CHOOSE g : g = [s \in SUBSET S |-> IF s = {} THEN base
                                                     ELSE LET x == CHOOSE y \in s : TRUE IN Lists(x, g[s \ {x}])]
  <2>1. QConfig(v, term, NewBudget(L), without) = h[S]
    BY DEF QConfig, Wanted, declared, read, FoldSet, MapThenFoldSet
  <2>2. \A k \in keys, a \in B : Lists(k, a) \in B /\ Fills(a, Lists(k, a), gone[k], come[k])
    BY <1>5
  <2> HIDE DEF Lists, gone, come, keys, B
  <2>3. lists \in [keys \X B -> B] /\ \A k \in keys, a \in B : lists[<<k, a>>] = Lists(k, a)
    BY <2>2
  <2> HIDE DEF lists
  <2>4. Filling(keys, B, lists, gone, come)
    BY <1>4, <2>2, <2>3 DEF Filling
  <2>5. Asking("keys", keys, gone, come, L, lists)
    BY <1>1, <1>3, <2>4 DEF Asking, B
  <2>6. /\ S \subseteq keys
        /\ \E g : Folding(g, S, base, pick, lists) /\ \A s \in SUBSET S : g[s] \in B
        /\ \A g : Follows(g, S, B, base, pick, lists) => Tells(g[S], Told("keys", keys, gone, come), L)
    BY <2>5, QueryTells DEF B
  <2> HIDE DEF first
  <2>7. PICK g : Folding(g, S, base, pick, lists) /\ \A s \in SUBSET S : g[s] \in B
    BY <2>6
  <2>8. ASSUME NEW s \in SUBSET S, s # {}
        PROVE  pick[s] \in keys /\ s \ {pick[s]} \in SUBSET S /\ pick[s] = CHOOSE y \in s : TRUE
    <3>1. pick[s] = CHOOSE y \in s : TRUE
      BY <2>8 DEF PickOf
    <3>2. (CHOOSE y \in s : TRUE) \in s
      BY <2>8
    <3> HIDE DEF pick
    <3> QED
      BY <2>6, <2>8, <3>1, <3>2
  <2>9. ASSUME NEW s \in SUBSET S
        PROVE  FoldOf(g, s, base, pick, lists)
                  = IF s = {} THEN base ELSE LET x == CHOOSE y \in s : TRUE IN Lists(x, g[s \ {x}])
    <3> HIDE DEF S, base, pick, h
    <3>1. CASE s = {}
      BY <3>1 DEF FoldOf
    <3>2. CASE s # {}
      <4>1. lists[<<pick[s], g[s \ {pick[s]}]>>] = Lists(pick[s], g[s \ {pick[s]}])
        BY <2>3, <2>7, <2>8, <3>2
      <4> QED
        BY <2>8, <3>2, <4>1 DEF FoldOf
    <3> QED
      BY <3>1, <3>2
  <2>10. g = [s \in SUBSET S |-> IF s = {} THEN base ELSE LET x == CHOOSE y \in s : TRUE IN Lists(x, g[s \ {x}])]
    <3> HIDE DEF S, base, pick, h
    <3> QED
      BY <2>7, <2>9 DEF Folding
  <2>11. \E f : f = [s \in SUBSET S |-> IF s = {} THEN base ELSE LET x == CHOOSE y \in s : TRUE IN Lists(x, f[s \ {x}])]
    <3> HIDE DEF S, base, pick, h
    <3> QED
      BY <2>10
  <2>12. h = [s \in SUBSET S |-> IF s = {} THEN base ELSE LET x == CHOOSE y \in s : TRUE IN Lists(x, h[s \ {x}])]
    <3> HIDE DEF S, base, pick
    <3> QED
      BY <2>11, Zenon
  <2> HIDE DEF h, S, base, pick
  <2>13. Follows(h, S, B, base, pick, lists)
    <3>1. h[{}] = base
      BY <2>12
    <3>2. ASSUME NEW s \in SUBSET S, s # {}, h[s \ {pick[s]}] \in B
          PROVE  h[s] = lists[<<pick[s], h[s \ {pick[s]}]>>]
      <4>1. h[s] = LET x == CHOOSE y \in s : TRUE IN Lists(x, h[s \ {x}])
        BY <2>12, <3>2
      <4>2. h[s] = Lists(pick[s], h[s \ {pick[s]}])
        BY <2>8, <3>2, <4>1
      <4> QED
        BY <2>3, <2>8, <3>2, <4>2
    <3> QED
      BY <3>1, <3>2 DEF Follows
  <2> QED
    BY <2>1, <2>6, <2>13
<1> QED
  BY <1>6

LEMMA RoutesTell ==
  ASSUME NEW v, Finite(v), NEW term, NEW without
  PROVE  \E U : \A L \in Nat : Tells(QRoutes(v, term, NewBudget(L), without), U, L)
<1> DEFINE found == {r \in Routes(v.x) : Matches(r.route, term) /\ SomeShown(v, without, r.evidence)}
<1>1. IsFiniteSet(found) /\ \A r \in found : IsFiniteSet(r.evidence)
  <2>1. found \in SUBSET Routes(v.x)
    OBVIOUS
  <2> QED
    BY <2>1, FS_Subset DEF Finite
<1>2. \A L \in Nat : QRoutes(v, term, NewBudget(L), without) = List(Empty(NewBudget(L)), "routes", <<>>, Cited(found))
  BY DEF QRoutes
<1> HIDE DEF found
<1>3. Weighed(Cited(found))
  BY <1>1, CitedAre
<1> QED
  BY <1>2, <1>3, ListTells

LEMMA PathsTell ==
  ASSUME NEW v, Finite(v), NEW term
  PROVE  \E U : \A L \in Nat : Tells(QPaths(v, term, NewBudget(L)), U, L)
<1> DEFINE found == {p \in Paths(v.edges) : Matches(p.source.source \o p.source.target \o p.sink, term)}
<1>1. IsFiniteSet(found) /\ \A p \in found : Len(p.hops) \in Nat
  <2>1. found \in SUBSET Paths(v.edges)
    OBVIOUS
  <2>2. IsFiniteSet(Paths(v.edges)) /\ \A p \in Paths(v.edges) : Len(p.hops) \in Nat
    BY PathsAre DEF Finite
  <2> HIDE DEF found
  <2> QED
    BY <2>1, <2>2, FS_Subset
<1>2. \A L \in Nat : QPaths(v, term, NewBudget(L)) = List(Empty(NewBudget(L)), "paths", <<>>, Hops(found))
  BY DEF QPaths
<1> HIDE DEF found
<1>3. Weighed(Hops(found))
  BY <1>1, HopsAre
<1> QED
  BY <1>2, <1>3, ListTells

LEMMA ClaimsTell ==
  ASSUME NEW v, Finite(v), NEW term, NEW without
  PROVE  \E U : \A L \in Nat : Tells(QClaims(v, term, NewBudget(L), without), U, L)
<1> DEFINE found == {c \in v.claims : Matches(c.subject, term) /\ SomeShown(v, without, c.evidence)}
<1>1. IsFiniteSet(found) /\ \A c \in found : IsFiniteSet(c.evidence)
  <2>1. found \in SUBSET v.claims
    OBVIOUS
  <2> QED
    BY <2>1, FS_Subset DEF Finite
<1>2. \A L \in Nat : QClaims(v, term, NewBudget(L), without) = List(Empty(NewBudget(L)), "claims", <<>>, Cited(found))
  BY DEF QClaims
<1> HIDE DEF found
<1>3. Weighed(Cited(found))
  BY <1>1, CitedAre
<1> QED
  BY <1>2, <1>3, ListTells

LEMMA UnknownsTell ==
  ASSUME NEW v, Finite(v), NEW without
  PROVE  \E U : \A L \in Nat : Tells(QUnknowns(v, NewBudget(L), without), U, L)
<1> DEFINE found == {u \in v.unknowns : ~Excluded(v, without, u.file)}
<1>1. IsFiniteSet(found)
  <2>1. found \in SUBSET v.unknowns
    OBVIOUS
  <2> QED
    BY <2>1, FS_Subset DEF Finite
<1>2. \A L \in Nat : QUnknowns(v, NewBudget(L), without) = List(Empty(NewBudget(L)), "unknowns", <<>>, Sites(found))
  BY DEF QUnknowns
<1> HIDE DEF found
<1>3. Weighed(Sites(found))
  BY <1>1, SitesAre
<1> QED
  BY <1>2, <1>3, ListTells

(***************************************************************************)
(* The walk of a trace.                                                    *)
(***************************************************************************)

\* A sequence of values that each step takes on exists, and stays where the steps stay.
Runs(h, N, B, base, step) == h[0] = base /\ \A n \in 1..N : h[n - 1] \in B => h[n] = step[h[n - 1]]

LEMMA StepsStay ==
  ASSUME NEW N \in Nat, NEW B, NEW base \in B, NEW step \in [B -> B], NEW h, Runs(h, N, B, base, step)
  PROVE  \A n \in 0..N : h[n] \in B
<1> DEFINE Bad == {n \in 0..N : h[n] \notin B}
<1> SUFFICES ASSUME Bad # {} PROVE FALSE
  OBVIOUS
<1>1. Bad \in SUBSET Nat
  OBVIOUS
<1>2. PICK k \in Bad : \A j \in Bad : k <= j
  <2> HIDE DEF Bad
  <2>1. Min(Bad) \in Bad /\ \A j \in Bad : Min(Bad) <= j
    BY <1>1, LeastNumber
  <2> QED
    BY <2>1
<1>3. k \in 1..N /\ h[k] \notin B
  BY <1>2 DEF Runs
<1>4. h[k - 1] \in B
  <2>1. k - 1 \in 0..N /\ ~(k <= k - 1)
    BY <1>3
  <2>2. k - 1 \notin Bad
    <3> HIDE DEF Bad
    <3> QED
      BY <1>2, <2>1
  <2> QED
    BY <2>1, <2>2
<1>5. h[k] = step[h[k - 1]]
  BY <1>3, <1>4 DEF Runs
<1> QED
  BY <1>3, <1>4, <1>5

LEMMA StepsExist ==
  ASSUME NEW N \in Nat, NEW B, NEW base \in B, NEW step \in [B -> B]
  PROVE  \E h : h \in [0..N -> B] /\ Runs(h, N, B, base, step)
<1> DEFINE Going(k, h) == h \in [0..k -> B] /\ h[0] = base /\ \A n \in 1..k : h[n] = step[h[n - 1]]
           Bad == {k \in Nat : ~\E h : Going(k, h)}
<1>1. Bad = {}
  <2> SUFFICES ASSUME Bad # {} PROVE FALSE
    OBVIOUS
  <2>1. Bad \in SUBSET Nat
    OBVIOUS
  <2>2. PICK k \in Bad : \A j \in Bad : k <= j
    <3> HIDE DEF Bad
    <3>1. Min(Bad) \in Bad /\ \A j \in Bad : Min(Bad) <= j
      BY <2>1, LeastNumber
    <3> QED
      BY <3>1
  <2>3. k \in Nat /\ ~\E h : Going(k, h)
    BY <2>2
  <2>4. CASE k = 0
    <3> DEFINE h == [n \in 0..0 |-> base]
    <3>1. Going(0, h)
      OBVIOUS
    <3> HIDE DEF h
    <3> QED
      BY <2>3, <2>4, <3>1
  <2>5. CASE k # 0
    <3>1. k - 1 \in Nat /\ k - 1 \notin Bad
      <4> HIDE DEF Bad
      <4> QED
        BY <2>2, <2>3, <2>5
    <3>2. PICK f : Going(k - 1, f)
      BY <3>1
    <3> DEFINE h == [n \in 0..k |-> IF n < k THEN f[n] ELSE step[f[k - 1]]]
    <3>3. \A n \in 0..(k - 1) : h[n] = f[n] /\ f[n] \in B
      BY <3>1, <3>2
    <3>4. h[k] = step[f[k - 1]] /\ f[k - 1] \in B
      BY <2>3, <3>1, <3>2
    <3>5. h \in [0..k -> B]
      BY <2>3, <3>1, <3>2, <3>3, <3>4
    <3>6. h[0] = base
      BY <2>3, <3>1, <3>2, <3>3
    <3>7. ASSUME NEW n \in 1..k PROVE h[n] = step[h[n - 1]]
      <4> HIDE DEF h
      <4>1. CASE n = k
        BY <2>3, <3>1, <3>3, <3>4, <4>1
      <4>2. CASE n # k
        <5>1. n \in 1..(k - 1) /\ n - 1 \in 0..(k - 1) /\ n \in 0..(k - 1)
          BY <2>3, <3>1, <4>2
        <5> QED
          BY <3>2, <3>3, <5>1
      <4> QED
        BY <4>1, <4>2
    <3> HIDE DEF h
    <3>8. Going(k, h)
      BY <3>5, <3>6, <3>7
    <3> QED
      BY <2>3, <3>8
  <2> QED
    BY <2>4, <2>5
<1>2. PICK h : Going(N, h)
  BY <1>1
<1> QED
  BY <1>2 DEF Runs

\* What a walk has seen is where it started and ends of edges.
LEMMA FrontiersAre ==
  ASSUME NEW edges, IsFiniteSet(edges), NEW start, NEW hops \in Nat
  PROVE  IsFiniteSet(Frontiers(edges, start, hops)[hops].seen)
<1> DEFINE T == {start} \union {e.target : e \in edges}
           B == [seen : SUBSET T, frontier : SUBSET T]
           Next2(before) == {e.target : e \in {f \in edges : f.source \in before.frontier}} \ before.seen
           On(before) == [seen |-> before.seen \union Next2(before), frontier |-> Next2(before)]
           base == [seen |-> {start}, frontier |-> {start}]
           step == [b \in B |-> On(b)]
           w == CHOOSE f : f = [n \in 0..hops |-> IF n = 0 THEN base ELSE On(f[n - 1])]
<1>1. Frontiers(edges, start, hops) = w
  BY DEF Frontiers
<1>2. base \in B /\ \A b \in B : On(b) \in B
  OBVIOUS
<1> HIDE DEF B, On, base
<1>3. step \in [B -> B] /\ \A b \in B : step[b] = On(b)
  BY <1>2
<1> HIDE DEF step
<1>4. PICK h : h \in [0..hops -> B] /\ Runs(h, hops, B, base, step)
  BY <1>2, <1>3, StepsExist
<1>5. h = [n \in 0..hops |-> IF n = 0 THEN base ELSE On(h[n - 1])]
  <2>1. ASSUME NEW n \in 0..hops PROVE h[n] = IF n = 0 THEN base ELSE On(h[n - 1])
    <3>1. CASE n = 0
      BY <1>4, <3>1 DEF Runs
    <3>2. CASE n # 0
      <4>1. n \in 1..hops /\ n - 1 \in 0..hops
        BY <3>2
      <4> QED
        BY <1>3, <1>4, <3>2, <4>1 DEF Runs
    <3> QED
      BY <3>1, <3>2
  <2> QED
    BY <1>4, <2>1
<1>6. \E f : f = [n \in 0..hops |-> IF n = 0 THEN base ELSE On(f[n - 1])]
  <2> HIDE DEF w
  <2> QED
    BY <1>5
<1>7. w = [n \in 0..hops |-> IF n = 0 THEN base ELSE On(w[n - 1])]
  BY <1>6, Zenon
<1> HIDE DEF w
<1>8. Runs(w, hops, B, base, step)
  BY <1>3, <1>7 DEF Runs
<1>9. w[hops] \in B
  BY <1>2, <1>3, <1>8, StepsStay
<1>10. w[hops].seen \in SUBSET T
  BY <1>9 DEF B
<1>11. IsFiniteSet(T)
  <2> DEFINE target == [e \in edges |-> e.target]
             targets == {e.target : e \in edges}
  <2>1. \A t \in targets : \E e \in edges : t = target[e]
    OBVIOUS
  <2> HIDE DEF targets, target
  <2>2. IsFiniteSet(targets)
    BY <2>1, FiniteValues
  <2>3. IsFiniteSet({start})
    BY FS_Singleton
  <2> QED
    BY <2>2, <2>3, FS_Union DEF targets
<1> HIDE DEF T
<1> QED
  BY <1>1, <1>10, <1>11, FS_Subset

LEMMA TraceFilesAre ==
  ASSUME NEW v, Finite(v), NEW entry, NEW hops \in Nat
  PROVE  IsFiniteSet(TraceFiles(v, entry, Walk(v.edges, entry.node, hops).reached))
<1> DEFINE reached == Walk(v.edges, entry.node, hops).reached
           seen == Frontiers(v.edges, entry.node, hops)[hops].seen
           ByEdge == {reached[n].file : n \in DOMAIN reached}
           BySymbol == UNION {{r.file : r \in DefinersOf(v.x, n)} : n \in DOMAIN reached}
           ByUse == {u.file : u \in UsedBy(v.uses, entry.node)}
<1>1. /\ IsFiniteSet(v.edges) /\ IsFiniteSet(v.x.defines) /\ IsFiniteSet(v.uses)
  BY DEF Finite
<1>2. DOMAIN reached = seen \ {entry.node}
  BY DEF Walk
<1>3. IsFiniteSet(seen)
  BY <1>1, FrontiersAre
<1> HIDE DEF reached, seen
<1>4. IsFiniteSet(DOMAIN reached)
  <2>1. DOMAIN reached \in SUBSET seen
    BY <1>2
  <2> QED
    BY <1>3, <2>1, FS_Subset
<1>5. IsFiniteSet(ByEdge)
  <2> DEFINE file == [n \in DOMAIN reached |-> reached[n].file]
  <2>1. \A f \in ByEdge : \E n \in DOMAIN reached : f = file[n]
    OBVIOUS
  <2> HIDE DEF ByEdge, file
  <2> QED
    BY <1>4, <2>1, FiniteValues
<1>6. IsFiniteSet(BySymbol)
  <2> DEFINE file == [r \in v.x.defines |-> r.file]
  <2>1. \A n \in DOMAIN reached : DefinersOf(v.x, n) \subseteq v.x.defines
    BY DEF DefinersOf
  <2>2. \A f \in BySymbol : \E r \in v.x.defines : f = file[r]
    BY <2>1
  <2> HIDE DEF BySymbol, file
  <2> QED
    BY <1>1, <2>2, FiniteValues
<1>7. IsFiniteSet(ByUse)
  <2> DEFINE file == [u \in v.uses |-> u.use.file]
  <2>1. \A f \in ByUse : \E u \in v.uses : f = file[u]
    BY DEF UsedBy
  <2> HIDE DEF ByUse, file
  <2> QED
    BY <1>1, <2>1, FiniteValues
<1>8. TraceFiles(v, entry, reached) = (ByEdge \union BySymbol) \union ByUse
  BY DEF TraceFiles
<1> HIDE DEF ByEdge, BySymbol, ByUse
<1>9. IsFiniteSet(TraceFiles(v, entry, reached))
  BY <1>5, <1>6, <1>7, <1>8, FS_Union
<1> QED
  BY <1>9 DEF reached

LEMMA TraceTells ==
  ASSUME NEW v, Finite(v), NEW term, NEW hops \in Nat, NEW without
  PROVE  \E U : \A L \in Nat : LET told == QTrace(v, term, hops, NewBudget(L), without) IN
                               told.budget \in Budgets(L) /\ (told.budget.elided = 0 => told.rows = U)
<1> DEFINE resolved == ResolveEntry(v, term)
<1>1. CASE resolved = {}
  <2>1. ASSUME NEW L \in Nat
        PROVE  LET told == QTrace(v, term, hops, NewBudget(L), without) IN
               told.budget \in Budgets(L) /\ (told.budget.elided = 0 => told.rows = {})
    <3>1. QTrace(v, term, hops, NewBudget(L), without) = Empty(NewBudget(L))
      BY <1>1 DEF QTrace
    <3> QED
      BY <3>1, NewBudgetIs DEF Empty
  <2> QED
    BY <2>1
<1>2. CASE resolved # {}
  <2> DEFINE found == CHOOSE e \in resolved : TRUE
             entry == Pivot(v, found)
             reached == Walk(v.edges, entry.node, hops).reached
             rest == {f \in TraceFiles(v, entry, reached) \ {entry.file} : ~Excluded(v, without, f)}
             Files(L) == List(Empty(NewBudget(L)), "files", <<>>, Sites(rest))
             About(rows) == {u \in v.unknowns : \/ u.file \in {entry.file} \union {r[3] : r \in rows}
                                                \/ \E n \in DOMAIN reached : Matches(u.subject, Last(n))}
             Told2(L) == List([Files(L) EXCEPT !.rows = @ \union {<<"entry", <<>>, entry.file>>}],
                             "unknowns", <<>>, Sites(About(Files(L).rows)))
             F == Listed("files", <<>>, Sites(rest))
             U == (F \union {<<"entry", <<>>, entry.file>>}) \union Listed("unknowns", <<>>, Sites(About(F)))
  <2>1. ASSUME NEW L \in Nat PROVE QTrace(v, term, hops, NewBudget(L), without) = Told2(L)
    BY <1>2 DEF QTrace
  <2>2. IsFiniteSet(rest)
    <3>1. IsFiniteSet(TraceFiles(v, entry, reached))
      <4> HIDE DEF entry
      <4> QED
        BY TraceFilesAre
    <3>2. rest \in SUBSET TraceFiles(v, entry, reached)
      OBVIOUS
    <3> HIDE DEF rest, reached, entry
    <3> QED
      BY <3>1, <3>2, FS_Subset
  <2>3. ASSUME NEW rows PROVE Weighed(Sites(About(rows)))
    <3>1. About(rows) \in SUBSET v.unknowns
      OBVIOUS
    <3> HIDE DEF About
    <3>2. IsFiniteSet(About(rows))
      BY <3>1, FS_Subset DEF Finite
    <3> QED
      BY <3>2, SitesAre
  <2> HIDE DEF rest, reached, entry, found, About
  <2>4. ASSUME NEW L \in Nat
        PROVE  Told2(L).budget \in Budgets(L) /\ (Told2(L).budget.elided = 0 => Told2(L).rows = U)
    <3> DEFINE files == Files(L)
               mark == {<<"entry", <<>>, entry.file>>}
               a == [rows |-> files.rows \union mark, budget |-> files.budget]
               come == Listed("unknowns", <<>>, Sites(About(files.rows)))
               told == List(a, "unknowns", <<>>, Sites(About(files.rows)))
    <3>1. Tells(files, F, L)
      BY <2>2, SitesAre, ListTells
    <3>2. [files EXCEPT !.rows = @ \union mark] = a
      <4>1. files = [rows |-> files.rows, budget |-> files.budget]
        BY DEF List
      <4> HIDE DEF files, mark
      <4> QED
        BY <4>1
    <3>3. Told2(L) = told
      BY <3>2
    <3>4. Weighed(Sites(About(files.rows)))
      BY <2>3
    <3> HIDE DEF files, F, mark
    <3> DEFINE V == a.rows \union come
    <3>5. a \in Answers(V, L) /\ a.rows = files.rows \union mark /\ a.budget = files.budget
      BY <3>1 DEF Tells, Answers
    <3>6. come \subseteq V
      OBVIOUS
    <3> HIDE DEF a, V
    <3>7. told \in Answers(V, L) /\ Fills(a, told, {}, come)
      BY <3>4, <3>5, <3>6, ListIs
    <3> HIDE DEF told, come
    <3>8. told.budget \in Budgets(L)
      BY <3>7 DEF Answers
    <3>9. ASSUME told.budget.elided = 0 PROVE files.rows = F /\ told.rows = (F \union mark) \union come
      BY <3>1, <3>5, <3>7, <3>9 DEF Tells, Fills
    <3> QED
      BY <3>3, <3>8, <3>9 DEF come, mark
  <2> HIDE DEF Told2, U
  <2> QED
    BY <2>1, <2>4
<1> QED
  BY <1>1, <1>2

(***************************************************************************)
(* The folds of the allowances.                                            *)
(***************************************************************************)

\* What MAX takes from each part of a set of numbers.
MaxOf(S) == [s \in SUBSET S |-> Max(s)]

LEMMA PicksAny ==
  ASSUME NEW S
  PROVE  Picks(PickOf(S), S)
  BY DEF Picks, PickOf

LEMMA MaxIs ==
  ASSUME NEW S, IsFiniteSet(S), S # {}, \A x \in S : x \in Int
  PROVE  Max(S) \in S /\ \A y \in S : Max(S) >= y
<1> DEFINE row == [x \in S |-> x]
           Bad == {s \in SUBSET S : s # {} /\ ~\E x \in s : \A y \in s : x >= y}
<1>1. Bad = {}
  <2> SUFFICES ASSUME Bad # {} PROVE FALSE
    OBVIOUS
  <2>1. Bad \in SUBSET SUBSET S
    OBVIOUS
  <2>2. PICK s \in Bad : \A t \in Bad : t \subseteq s => t = s
    <3> HIDE DEF Bad
    <3>1. \E s \in Bad : \A t \in Bad : t \subseteq s => t = s
      BY <2>1, SmallestSet
    <3> QED
      BY <3>1
  <2>3. PICK z \in s : TRUE
    BY <2>2
  <2>4. s \ {z} \notin Bad /\ s \ {z} \in SUBSET S /\ \A x \in s : x \in Int
    BY <2>2, <2>3
  <2>5. CASE s \ {z} = {}
    <3>1. \A y \in s : z >= y
      BY <2>3, <2>4, <2>5
    <3> QED
      BY <2>2, <2>3, <3>1
  <2>6. CASE s \ {z} # {}
    <3>1. PICK x \in s \ {z} : \A y \in s \ {z} : x >= y
      BY <2>4, <2>6
    <3>2. x \in Int /\ z \in Int /\ x \in s
      BY <2>3, <2>4, <3>1
    <3>3. CASE x >= z
      <4>1. \A y \in s : x >= y
        BY <3>1, <3>3
      <4> QED
        BY <2>2, <3>2, <4>1
    <3>4. CASE ~(x >= z)
      <4>1. ASSUME NEW y \in s PROVE z >= y
        <5>1. y \in Int /\ (y = z \/ x >= y)
          BY <2>4, <3>1
        <5> QED
          BY <3>2, <3>4, <5>1
      <4> QED
        BY <2>2, <2>3, <4>1
    <3> QED
      BY <3>3, <3>4
  <2> QED
    BY <2>5, <2>6
<1>2. \E x \in S : \A y \in S : x >= y
  BY <1>1
<1> QED
  BY <1>2 DEF Max

LEMMA PicksMax ==
  ASSUME NEW S, IsFiniteSet(S), \A x \in S : x \in Int
  PROVE  Picks(MaxOf(S), S)
<1> SUFFICES ASSUME NEW s \in SUBSET S, s # {} PROVE MaxOf(S)[s] \in s
  BY DEF Picks
<1>1. IsFiniteSet(s)
  BY FS_Subset
<1> QED
  BY <1>1, MaxIs DEF MaxOf

\* The sum that FoldFunction takes in any order.
LEMMA SumOfFour ==
  ASSUME NEW a \in [1..4 -> Int]
  PROVE  FoldFunction(+, 0, a) = a[1] + a[2] + a[3] + a[4]
<1> DEFINE D == DOMAIN a
           B == Int
           base == 0
           Op(x, b) == a[x] + b
           pick == PickOf(D)
           step == [p \in D \X B |-> Op(p[1], p[2])]
           h == CHOOSE g : g = [s \in SUBSET D |-> IF s = {} THEN base ELSE LET x == CHOOSE y \in s : TRUE IN Op(x, g[s \ {x}])]
<1>1. FoldFunction(+, 0, a) = h[D]
  BY DEF FoldFunction, FoldFunctionOnSet, MapThenFoldSet
<1>2. IsFiniteSet(D)
  <2>1. D = 1..4 /\ 1 \in Int /\ 4 \in Int
    OBVIOUS
  <2> QED
    BY <2>1, FS_Interval
<1>3. base \in B /\ \A x \in D, b \in B : Op(x, b) \in B
  OBVIOUS
<1> HIDE DEF B, Op
<1>4. step \in [D \X B -> B] /\ \A x \in D, b \in B : step[<<x, b>>] = Op(x, b)
  BY <1>3
<1> HIDE DEF step
<1>5. Picks(pick, D) /\ \A s \in SUBSET D : s # {} => pick[s] \in D /\ s \ {pick[s]} \in SUBSET D /\ pick[s] = CHOOSE y \in s : TRUE
  <2>1. Picks(pick, D)
    BY <1>2, PicksAny DEF pick
  <2>2. \A s \in SUBSET D : s # {} => pick[s] = CHOOSE y \in s : TRUE
    BY DEF pick, PickOf
  <2> QED
    BY <2>1, <2>2 DEF Picks
<1> HIDE DEF pick
<1>6. PICK g : Folding(g, D, base, pick, step)
  BY <1>2, <1>5, FoldExists
<1>7. \A s \in SUBSET D : g[s] \in B
  <2>1. Follows(g, D, B, base, pick, step)
    BY <1>6 DEF Folding, FoldOf, Follows
  <2> QED
    BY <1>2, <1>3, <1>4, <1>5, <2>1, FoldStays
<1>8. ASSUME NEW s \in SUBSET D
     PROVE  FoldOf(g, s, base, pick, step) = IF s = {} THEN base ELSE LET x == CHOOSE y \in s : TRUE IN Op(x, g[s \ {x}])
  <2>1. CASE s = {}
    BY <2>1 DEF FoldOf
  <2>2. CASE s # {}
    <3>1. step[<<pick[s], g[s \ {pick[s]}]>>] = Op(pick[s], g[s \ {pick[s]}])
      BY <1>4, <1>5, <1>7, <2>2
    <3> QED
      BY <1>5, <2>2, <3>1 DEF FoldOf
  <2> QED
    BY <2>1, <2>2
<1>9. \E f : f = [s \in SUBSET D |-> IF s = {} THEN base ELSE LET x == CHOOSE y \in s : TRUE IN Op(x, f[s \ {x}])]
  <2>1. g = [s \in SUBSET D |-> IF s = {} THEN base ELSE LET x == CHOOSE y \in s : TRUE IN Op(x, g[s \ {x}])]
    BY <1>6, <1>8 DEF Folding
  <2> HIDE DEF h
  <2> QED
    BY <2>1
<1>10. h = [s \in SUBSET D |-> IF s = {} THEN base ELSE LET x == CHOOSE y \in s : TRUE IN Op(x, h[s \ {x}])]
  BY <1>9, Zenon
<1> HIDE DEF h
<1>11. Follows(h, D, B, base, pick, step)
  <2>1. h[{}] = base
    BY <1>10
  <2>2. ASSUME NEW s \in SUBSET D, s # {}, h[s \ {pick[s]}] \in B
        PROVE  h[s] = step[<<pick[s], h[s \ {pick[s]}]>>]
    <3>1. h[s] = LET x == CHOOSE y \in s : TRUE IN Op(x, h[s \ {x}])
      BY <1>10, <2>2
    <3>2. h[s] = Op(pick[s], h[s \ {pick[s]}])
      BY <1>5, <2>2, <3>1
    <3> QED
      BY <1>4, <1>5, <2>2, <3>2
  <2> QED
    BY <2>1, <2>2 DEF Follows
<1> DEFINE Part(s, i) == IF i \in s THEN a[i] ELSE 0
           Total(s) == Part(s, 1) + Part(s, 2) + Part(s, 3) + Part(s, 4)
           Bad == {s \in SUBSET D : h[s] # Total(s)}
<1>12. D = 1..4
  OBVIOUS
<1>13. Bad = {}
  <2> SUFFICES ASSUME Bad # {} PROVE FALSE
    OBVIOUS
  <2>1. PICK s \in Bad : \A t \in Bad : t \subseteq s => t = s
    <3>1. Bad \in SUBSET SUBSET D
      OBVIOUS
    <3> HIDE DEF Bad, D
    <3> QED
      BY <1>2, <3>1, SmallestSet
  <2>2. s \in SUBSET D /\ h[s] # Total(s)
    BY <2>1
  <2>3. s # {}
    <3>1. h[{}] = 0
      BY <1>11 DEF Follows
    <3>2. Total({}) = 0
      OBVIOUS
    <3> HIDE DEF Total
    <3> QED
      BY <2>2, <3>1, <3>2
  <2>4. pick[s] \in s /\ s \ {pick[s]} \in SUBSET D /\ s \ {pick[s]} \notin Bad
    BY <1>5, <2>1, <2>2, <2>3 DEF Picks
  <2> DEFINE x == pick[s]
             t == s \ {x}
  <2>5. h[t] = Total(t) /\ Total(t) \in Int
    <3>1. \A i \in 1..4 : Part(t, i) \in Int
      OBVIOUS
    <3> QED
      BY <2>4, <3>1
  <2>6. h[s] = a[x] + Total(t)
    <3> HIDE DEF Total
    <3>1. h[s] = step[<<x, h[t]>>] /\ h[t] \in B
      BY <1>11, <2>2, <2>3, <2>5 DEF Follows, B
    <3>2. x \in D
      BY <2>2, <2>4
    <3> QED
      BY <1>4, <2>5, <3>1, <3>2 DEF Op
  <2>7. Total(s) = a[x] + Total(t)
    <3>1. x \in 1..4 /\ x \in s
      BY <1>12, <2>2, <2>4
    <3>2. \A i \in 1..4 : Part(s, i) = IF i = x THEN a[x] ELSE Part(t, i)
      BY <3>1
    <3>3. \A i \in 1..4 : Part(t, i) \in Int
      OBVIOUS
    <3>4. Part(t, x) = 0 /\ a[x] \in Int
      BY <3>1
    <3> HIDE DEF Part, x, t
    <3> QED
      BY <3>1, <3>2, <3>3, <3>4
  <2> QED
    BY <2>2, <2>6, <2>7
<1>14. h[D] = Total(D)
  BY <1>13
<1>15. Total(1..4) = a[1] + a[2] + a[3] + a[4]
  OBVIOUS
<1> HIDE DEF Total, D
<1> QED
  BY <1>1, <1>12, <1>14, <1>15

LEMMA MinOfThree ==
  ASSUME NEW x \in Int, NEW y \in Int, NEW z \in Int
  PROVE  LET m == Min({x, y, z}) IN m \in Int /\ m <= x /\ m <= y /\ m <= z /\ (m = x \/ m = y \/ m = z)
<1> DEFINE S == {x, y, z}
<1>1. \E m \in S : \A n \in S : m <= n
  OBVIOUS
<1>2. Min(S) \in S /\ \A n \in S : Min(S) <= n
  <2> HIDE DEF S
  <2> QED
    BY <1>1 DEF Min
<1> QED
  BY <1>2

\* A fold from the left is a run of its steps.
IsLeftFold(h, N, D, B, base, step) ==
    /\ D = 1..N /\ base \in B /\ step \in [D \X B -> B]
    /\ Follows(h, D, B, base, MaxOf(D), step)

LEMMA FoldRuns ==
  ASSUME NEW N \in Nat, NEW D, NEW B, NEW base, NEW step, NEW h, IsLeftFold(h, N, D, B, base, step)
  PROVE  /\ h[{}] = base /\ \A s \in SUBSET D : h[s] \in B
         /\ \A k \in 1..N : h[1..k] = step[<<k, h[1..(k - 1)]>>]
<1>0. D = 1..N /\ base \in B /\ step \in [D \X B -> B] /\ Follows(h, D, B, base, MaxOf(D), step)
  BY DEF IsLeftFold
<1>1. IsFiniteSet(D) /\ \A x \in D : x \in Int
  BY <1>0, FS_Interval
<1>2. Picks(MaxOf(D), D)
  BY <1>1, PicksMax
<1>3. \A s \in SUBSET D : h[s] \in B
  BY <1>0, <1>1, <1>2, FoldStays
<1>4. ASSUME NEW k \in 1..N PROVE h[1..k] = step[<<k, h[1..(k - 1)]>>]
  <2> DEFINE s == 1..k
  <2>1. s \in SUBSET D /\ s # {} /\ IsFiniteSet(s) /\ k \in s /\ \A x \in s : x \in Int /\ x <= k
    <3>1. k \in Int /\ 1 \in Int
      OBVIOUS
    <3>2. IsFiniteSet(s)
      BY <3>1, FS_Interval
    <3>3. \A x \in s : x \in Int /\ x <= k /\ x \in 1..N
      OBVIOUS
    <3>4. k \in s
      OBVIOUS
    <3> HIDE DEF s
    <3> QED
      BY <1>0, <3>2, <3>3, <3>4
  <2>2. Max(s) = k
    <3>1. Max(s) \in s /\ \A y \in s : Max(s) >= y
      <4> HIDE DEF s
      <4> QED
        BY <2>1, MaxIs
    <3> QED
      BY <2>1, <3>1
  <2>3. MaxOf(D)[s] = k
    BY <2>1, <2>2 DEF MaxOf
  <2>4. s \ {k} = 1..(k - 1) /\ s \ {k} \in SUBSET D
    BY <2>1
  <2>5. h[s \ {k}] \in B
    BY <1>3, <2>4
  <2> HIDE DEF s
  <2>6. h[s] = step[<<k, h[s \ {k}]>>]
    BY <1>0, <2>1, <2>3, <2>5 DEF Follows
  <2>7. h[s] = step[<<k, h[1..(k - 1)]>>]
    BY <2>4, <2>6
  <2> QED
    BY <2>7 DEF s
<1> QED
  BY <1>0, <1>3, <1>4 DEF Follows

(***************************************************************************)
(* The shares of the lists of a search.                                    *)
(***************************************************************************)

Left(limit, alloc) == limit - FoldFunction(+, 0, alloc)

GrantTo(limit, demands, share, a, i) == [a EXCEPT ![i] = @ + Min({demands[i] - @, share, Left(limit, a)})]

\* One round of grants.
Grants(limit, demands, share, alloc) ==
    LET Grant(a, i) == GrantTo(limit, demands, share, a, i)
    IN FoldLeft(Grant, alloc, [i \in DOMAIN demands |-> i])

SumOf(a) == a[1] + a[2] + a[3] + a[4]

LEMMA GrantIs ==
  ASSUME NEW limit \in Int, NEW demands \in [1..4 -> Int], NEW share \in Int, NEW a \in [1..4 -> Int], NEW i \in 1..4
  PROVE  /\ GrantTo(limit, demands, share, a, i) \in [1..4 -> Int]
         /\ \E g \in Int : /\ g <= demands[i] - a[i] /\ g <= share /\ g <= limit - SumOf(a)
                           /\ g = demands[i] - a[i] \/ g = share \/ g = limit - SumOf(a)
                           /\ GrantTo(limit, demands, share, a, i) = [a EXCEPT ![i] = a[i] + g]
<1> DEFINE g == Min({demands[i] - a[i], share, limit - SumOf(a)})
<1>1. Left(limit, a) = limit - SumOf(a)
  BY SumOfFour DEF Left, SumOf
<1>2. limit - SumOf(a) \in Int /\ demands[i] - a[i] \in Int
  BY DEF SumOf
<1>3. /\ g \in Int /\ g <= demands[i] - a[i] /\ g <= share /\ g <= limit - SumOf(a)
      /\ g = demands[i] - a[i] \/ g = share \/ g = limit - SumOf(a)
  BY <1>2, MinOfThree
<1>4. GrantTo(limit, demands, share, a, i) = [a EXCEPT ![i] = a[i] + g]
  BY <1>1 DEF GrantTo
<1> HIDE DEF g
<1>5. [a EXCEPT ![i] = a[i] + g] \in [1..4 -> Int]
  BY <1>3
<1> QED
  BY <1>3, <1>4, <1>5

\* What the four lists get in a round: each what it lacks, the share or what is left.
LEMMA GrantsAre ==
  ASSUME NEW limit \in Int, NEW demands \in [1..4 -> Int], NEW share \in Int, NEW alloc \in [1..4 -> Int]
  PROVE  LET r == Grants(limit, demands, share, alloc) IN
         /\ r \in [1..4 -> Int]
         /\ \A i \in 1..4 :
               LET g == r[i] - alloc[i]
                   left == limit - SumOf([j \in 1..4 |-> IF j < i THEN r[j] ELSE alloc[j]])
               IN /\ g <= demands[i] - alloc[i] /\ g <= share /\ g <= left
                  /\ g = demands[i] - alloc[i] \/ g = share \/ g = left
<1> DEFINE seq == [i \in DOMAIN demands |-> i]
           D == DOMAIN seq
           B == [1..4 -> Int]
           base == alloc
           Op(x, b) == GrantTo(limit, demands, share, b, seq[x])
           pick == MaxOf(D)
           step == [p \in D \X B |-> Op(p[1], p[2])]
           h == CHOOSE g : g = [s \in SUBSET D |-> IF s = {} THEN base ELSE LET x == Max(s) IN Op(x, g[s \ {x}])]
<1>1. Grants(limit, demands, share, alloc) = h[D]
  BY DEF Grants, FoldLeft, MapThenFoldSet
<1>12. D = 1..4 /\ \A x \in D : x \in Int /\ seq[x] = x
  OBVIOUS
<1>2. IsFiniteSet(D) /\ \A x \in D : x \in Int
  <2> HIDE DEF D
  <2> QED
    <3>1. 1 \in Int /\ 4 \in Int
      OBVIOUS
    <3>2. IsFiniteSet(D)
      BY <1>12, <3>1, FS_Interval
    <3> QED
      BY <1>12, <3>2
<1>3. base \in B /\ \A x \in D, b \in B : Op(x, b) \in B
  <2> HIDE DEF D, seq
  <2> QED
    BY <1>12, GrantIs
<1> HIDE DEF seq
<1> HIDE DEF B, D, Op
<1>4. step \in [D \X B -> B] /\ \A x \in D, b \in B : step[<<x, b>>] = Op(x, b)
  BY <1>3
<1> HIDE DEF step
<1>5. Picks(pick, D) /\ \A s \in SUBSET D : s # {} => pick[s] \in D /\ s \ {pick[s]} \in SUBSET D /\ pick[s] = Max(s)
  <2>1. Picks(pick, D)
    BY <1>2, PicksMax DEF pick
  <2>2. \A s \in SUBSET D : s # {} => pick[s] = Max(s)
    BY DEF pick, MaxOf
  <2> QED
    BY <2>1, <2>2 DEF Picks
<1> HIDE DEF pick
<1>6. PICK w : Folding(w, D, base, pick, step)
  BY <1>2, <1>5, FoldExists
<1>7. \A s \in SUBSET D : w[s] \in B
  <2>1. Follows(w, D, B, base, pick, step)
    BY <1>6 DEF Folding, FoldOf, Follows
  <2> QED
    BY <1>2, <1>3, <1>4, <1>5, <2>1, FoldStays
<1>8. ASSUME NEW s \in SUBSET D
     PROVE  FoldOf(w, s, base, pick, step) = IF s = {} THEN base ELSE LET x == Max(s) IN Op(x, w[s \ {x}])
  <2>1. CASE s = {}
    BY <2>1 DEF FoldOf
  <2>2. CASE s # {}
    <3>1. step[<<pick[s], w[s \ {pick[s]}]>>] = Op(pick[s], w[s \ {pick[s]}])
      BY <1>4, <1>5, <1>7, <2>2
    <3> QED
      BY <1>5, <2>2, <3>1 DEF FoldOf
  <2> QED
    BY <2>1, <2>2
<1>9. \E f : f = [s \in SUBSET D |-> IF s = {} THEN base ELSE LET x == Max(s) IN Op(x, f[s \ {x}])]
  <2>1. w = [s \in SUBSET D |-> IF s = {} THEN base ELSE LET x == Max(s) IN Op(x, w[s \ {x}])]
    BY <1>6, <1>8 DEF Folding
  <2> HIDE DEF h
  <2> QED
    BY <2>1
<1>10. h = [s \in SUBSET D |-> IF s = {} THEN base ELSE LET x == Max(s) IN Op(x, h[s \ {x}])]
  BY <1>9, Zenon
<1> HIDE DEF h
<1>11. Follows(h, D, B, base, pick, step)
  <2>1. h[{}] = base
    BY <1>10
  <2>2. ASSUME NEW s \in SUBSET D, s # {}, h[s \ {pick[s]}] \in B
        PROVE  h[s] = step[<<pick[s], h[s \ {pick[s]}]>>]
    <3>1. h[s] = LET x == Max(s) IN Op(x, h[s \ {x}])
      BY <1>10, <2>2
    <3>2. h[s] = Op(pick[s], h[s \ {pick[s]}])
      BY <1>5, <2>2, <3>1
    <3> QED
      BY <1>4, <1>5, <2>2, <3>2
  <2> QED
    BY <2>1, <2>2 DEF Follows
<1> HIDE DEF base
<1>13. /\ h[{}] = base /\ \A s \in SUBSET D : h[s] \in B
       /\ \A k \in 1..4 : h[1..k] = step[<<k, h[1..(k - 1)]>>]
  <2>1. IsLeftFold(h, 4, D, B, base, step) /\ 4 \in Nat
    BY <1>3, <1>4, <1>11, <1>12 DEF pick, IsLeftFold
  <2>2. PICK N \in Nat : N = 4
    OBVIOUS
  <2>3. IsLeftFold(h, N, D, B, base, step)
    BY <2>1, <2>2
  <2>4. /\ h[{}] = base /\ \A s \in SUBSET D : h[s] \in B
        /\ \A k \in 1..N : h[1..k] = step[<<k, h[1..(k - 1)]>>]
    BY <2>3, FoldRuns
  <2> QED
    BY <2>2, <2>4
<1> DEFINE A(k) == h[1..k]
<1>14. \A k \in 0..4 : A(k) \in B
  BY <1>12, <1>13
<1>15. A(0) = alloc
  <2>1. 1..0 = {}
    OBVIOUS
  <2> QED
    BY <1>13, <2>1 DEF base
<1>16. \A k \in 1..4 : A(k) = GrantTo(limit, demands, share, A(k - 1), k)
  <2> SUFFICES ASSUME NEW k \in 1..4 PROVE A(k) = GrantTo(limit, demands, share, A(k - 1), k)
    OBVIOUS
  <2>1. k - 1 \in 0..4 /\ k \in D
    BY <1>12
  <2>2. A(k - 1) \in B
    BY <1>14, <2>1
  <2>3. A(k) = step[<<k, A(k - 1)>>]
    BY <1>13
  <2> HIDE DEF A
  <2>4. A(k) = Op(k, A(k - 1))
    BY <1>4, <2>1, <2>2, <2>3
  <2> QED
    BY <1>12, <2>1, <2>4 DEF Op
<1> HIDE DEF A
<1>17. ASSUME NEW k \in 1..4
       PROVE  LET b == A(k - 1)
                  g == A(k)[k] - b[k]
              IN /\ g <= demands[k] - b[k] /\ g <= share /\ g <= limit - SumOf(b)
                 /\ g = demands[k] - b[k] \/ g = share \/ g = limit - SumOf(b)
                 /\ \A j \in 1..4 : j # k => A(k)[j] = b[j]
  <2> DEFINE b == A(k - 1)
  <2>1. b \in [1..4 -> Int]
    <3>1. k - 1 \in 0..4
      OBVIOUS
    <3> QED
      BY <1>14, <3>1 DEF B
  <2> HIDE DEF b
  <2>2. PICK g \in Int : /\ g <= demands[k] - b[k] /\ g <= share /\ g <= limit - SumOf(b)
                         /\ g = demands[k] - b[k] \/ g = share \/ g = limit - SumOf(b)
                         /\ A(k) = [b EXCEPT ![k] = b[k] + g]
    <3>1. A(k) = GrantTo(limit, demands, share, b, k)
      BY <1>16 DEF b
    <3>2. PICK g \in Int : /\ g <= demands[k] - b[k] /\ g <= share /\ g <= limit - SumOf(b)
                           /\ g = demands[k] - b[k] \/ g = share \/ g = limit - SumOf(b)
                           /\ GrantTo(limit, demands, share, b, k) = [b EXCEPT ![k] = b[k] + g]
      BY <2>1, GrantIs
    <3> QED
      BY <3>1, <3>2
  <2>3. A(k)[k] - b[k] = g /\ \A j \in 1..4 : j # k => A(k)[j] = b[j]
    BY <2>1, <2>2
  <2> QED
    BY <2>2, <2>3 DEF b
<1> DEFINE r == A(4)
<1>18. r = Grants(limit, demands, share, alloc) /\ r \in [1..4 -> Int]
  BY <1>1, <1>12, <1>14 DEF A, B
<1>19. \A i \in 1..4 : A(i - 1) = [j \in 1..4 |-> IF j < i THEN r[j] ELSE alloc[j]] /\ A(i)[i] = r[i]
  <2>1. \A j \in 1..4 : /\ (j # 1 => A(1)[j] = A(0)[j]) /\ (j # 2 => A(2)[j] = A(1)[j])
                        /\ (j # 3 => A(3)[j] = A(2)[j]) /\ (j # 4 => A(4)[j] = A(3)[j])
    BY <1>17
  <2>2. A(0) \in B /\ A(1) \in B /\ A(2) \in B /\ A(3) \in B
    BY <1>14
  <2>3. A(0) = [j \in 1..4 |-> IF j < 1 THEN r[j] ELSE alloc[j]]
    BY <1>15, <2>2 DEF B
  <2>4. A(1) = [j \in 1..4 |-> IF j < 2 THEN r[j] ELSE alloc[j]]
    BY <1>15, <2>1, <2>2 DEF B
  <2>5. A(2) = [j \in 1..4 |-> IF j < 3 THEN r[j] ELSE alloc[j]]
    BY <1>15, <2>1, <2>2 DEF B
  <2>6. A(3) = [j \in 1..4 |-> IF j < 4 THEN r[j] ELSE alloc[j]]
    BY <1>15, <2>1, <2>2 DEF B
  <2>7. A(1)[1] = r[1] /\ A(2)[2] = r[2] /\ A(3)[3] = r[3]
    BY <2>1
  <2> QED
    BY <2>3, <2>4, <2>5, <2>6, <2>7
<1>20. \A i \in 1..4 : A(i - 1)[i] = alloc[i]
  BY <1>19
<1> HIDE DEF r
<1>21. ASSUME NEW i \in 1..4
       PROVE  LET g == r[i] - alloc[i]
                  left == limit - SumOf([j \in 1..4 |-> IF j < i THEN r[j] ELSE alloc[j]])
              IN /\ g <= demands[i] - alloc[i] /\ g <= share /\ g <= left
                 /\ g = demands[i] - alloc[i] \/ g = share \/ g = left
  BY <1>17, <1>19, <1>20
<1> QED
  BY <1>18, <1>21

Unmet(demands, alloc) == {i \in DOMAIN demands : alloc[i] < demands[i]}

Lacking(demands, alloc, i) == IF alloc[i] < demands[i] THEN 1 ELSE 0

LEMMA UnmetAre ==
  ASSUME NEW demands \in [1..4 -> Int], NEW alloc \in [1..4 -> Int]
  PROVE  Cardinality(Unmet(demands, alloc))
            = Lacking(demands, alloc, 1) + Lacking(demands, alloc, 2) + Lacking(demands, alloc, 3) + Lacking(demands, alloc, 4)
<1> DEFINE U == Unmet(demands, alloc)
           Upto(k) == {i \in 1..k : i \in U}
           T(i) == Lacking(demands, alloc, i)
<1>1. U \subseteq 1..4 /\ \A i \in 1..4 : (i \in U <=> alloc[i] < demands[i])
  BY DEF Unmet
<1> HIDE DEF U
<1>2. ASSUME NEW i \in 1..4 PROVE T(i) = IF i \in U THEN 1 ELSE 0
  BY <1>1 DEF Lacking
<1> HIDE DEF T
<1>3. Upto(0) = {} /\ Upto(4) = U
  <2>1. \A i \in 1..0 : FALSE
    OBVIOUS
  <2>2. Upto(0) = {}
    BY <2>1, Zenon
  <2>3. Upto(4) = U
    BY <1>1, Zenon
  <2> QED
    BY <2>2, <2>3
<1>4. ASSUME NEW k \in 1..4, IsFiniteSet(Upto(k - 1))
      PROVE  IsFiniteSet(Upto(k)) /\ Cardinality(Upto(k)) = Cardinality(Upto(k - 1)) + T(k)
  <2> DEFINE S == Upto(k - 1)
             R == Upto(k)
  <2>1. k \notin S
    OBVIOUS
  <2>2. R = IF k \in U THEN S \union {k} ELSE S
    OBVIOUS
  <2>3. IsFiniteSet(S) /\ Cardinality(S) \in Nat
    BY <1>4, FS_CardinalityType
  <2> HIDE DEF S, R
  <2>4. CASE k \in U
    <3>1. IsFiniteSet(S \union {k}) /\ Cardinality(S \union {k}) = Cardinality(S) + 1
      BY <2>1, <2>3, FS_AddElement
    <3>2. IsFiniteSet(R) /\ Cardinality(R) = Cardinality(S) + T(k)
      BY <1>2, <2>2, <2>4, <3>1
    <3> QED
      BY <3>2 DEF S, R
  <2>5. CASE k \notin U
    <3>1. IsFiniteSet(R) /\ Cardinality(R) = Cardinality(S) + T(k)
      BY <1>2, <2>2, <2>3, <2>5
    <3> QED
      BY <3>1 DEF S, R
  <2> QED
    BY <2>4, <2>5
<1>5. IsFiniteSet(Upto(0)) /\ Cardinality(Upto(0)) = 0
  BY <1>3, FS_EmptySet
<1> HIDE DEF Upto
<1>6. IsFiniteSet(Upto(1)) /\ Cardinality(Upto(1)) = T(1)
  <2>1. 1 \in 1..4 /\ 1 - 1 = 0
    OBVIOUS
  <2> QED
    BY <1>2, <1>4, <1>5, <2>1
<1>7. IsFiniteSet(Upto(2)) /\ Cardinality(Upto(2)) = T(1) + T(2)
  <2>1. 2 \in 1..4 /\ 2 - 1 = 1
    OBVIOUS
  <2> QED
    BY <1>2, <1>4, <1>6, <2>1
<1>8. IsFiniteSet(Upto(3)) /\ Cardinality(Upto(3)) = T(1) + T(2) + T(3)
  <2>1. 3 \in 1..4 /\ 3 - 1 = 2
    OBVIOUS
  <2> QED
    BY <1>2, <1>4, <1>7, <2>1
<1>9. Cardinality(Upto(4)) = T(1) + T(2) + T(3) + T(4)
  <2>1. 4 \in 1..4 /\ 4 - 1 = 3
    OBVIOUS
  <2> QED
    BY <1>2, <1>4, <1>8, <2>1
<1> QED
  BY <1>3, <1>9 DEF U, T

\* A grant of what is lacked, the share or what is left.
Grant3(g, lack, share, rest) ==
    /\ g <= lack /\ g <= share /\ g <= rest
    /\ g = lack \/ g = share \/ g = rest

\* A round: lists that lack n rows, t of which is one if it is any, and what they are granted.
Rounding(n, t, g, share, left) ==
    /\ share \in Nat /\ left \in Nat
    /\ \A i \in 1..4 : n[i] \in Nat /\ t[i] \in {0, 1} /\ (t[i] = 1 <=> n[i] > 0) /\ g[i] \in Int
    /\ Grant3(g[1], n[1], share, left)
    /\ Grant3(g[2], n[2], share, left - g[1])
    /\ Grant3(g[3], n[3], share, left - g[1] - g[2])
    /\ Grant3(g[4], n[4], share, left - g[1] - g[2] - g[3])

\* A round in which the share is a proper one gives each list that lacks rows all of it, or all
\* that it lacks.
LEMMA FullRound ==
  ASSUME NEW n, NEW t, NEW g, NEW share, NEW left, Rounding(n, t, g, share, left),
         share >= 1, share * (t[1] + t[2] + t[3] + t[4]) <= left
  PROVE  /\ \A i \in 1..4 : g[i] = IF n[i] <= share THEN n[i] ELSE share
         /\ g[1] + g[2] + g[3] + g[4] <= left
<1> DEFINE n1 == n[1]
           n2 == n[2]
           n3 == n[3]
           n4 == n[4]
           t1 == t[1]
           t2 == t[2]
           t3 == t[3]
           t4 == t[4]
           g1 == g[1]
           g2 == g[2]
           g3 == g[3]
           g4 == g[4]
<1>1. /\ n1 \in Nat /\ n2 \in Nat /\ n3 \in Nat /\ n4 \in Nat
      /\ t1 \in {0, 1} /\ t2 \in {0, 1} /\ t3 \in {0, 1} /\ t4 \in {0, 1}
      /\ (t1 = 1 <=> n1 > 0) /\ (t2 = 1 <=> n2 > 0) /\ (t3 = 1 <=> n3 > 0) /\ (t4 = 1 <=> n4 > 0)
      /\ g1 \in Int /\ g2 \in Int /\ g3 \in Int /\ g4 \in Int /\ share \in Nat /\ left \in Nat
      /\ Grant3(g1, n1, share, left) /\ Grant3(g2, n2, share, left - g1)
      /\ Grant3(g3, n3, share, left - g1 - g2) /\ Grant3(g4, n4, share, left - g1 - g2 - g3)
  BY DEF Rounding
<1>2. share >= 1 /\ share * (t1 + t2 + t3 + t4) <= left
  OBVIOUS
<1> HIDE DEF n1, n2, n3, n4, t1, t2, t3, t4, g1, g2, g3, g4
<1> DEFINE P(u) == IF u = 1 THEN share ELSE 0
<1>3. share * (t1 + t2 + t3 + t4) = P(t1) + P(t2) + P(t3) + P(t4)
  <2>1. share * 0 = 0 /\ share * 1 = share /\ share * 2 = share + share /\ share * 3 = share + share + share
        /\ share * 4 = share + share + share + share
    BY <1>1
  <2> QED
    BY <1>1, <2>1
<1>4. P(t1) + P(t2) + P(t3) + P(t4) <= left /\ P(t1) \in Nat /\ P(t2) \in Nat /\ P(t3) \in Nat /\ P(t4) \in Nat
  BY <1>1, <1>2, <1>3
<1>5. (n1 > 0 => P(t1) = share) /\ (n2 > 0 => P(t2) = share) /\ (n3 > 0 => P(t3) = share) /\ (n4 > 0 => P(t4) = share)
  BY <1>1
<1> DEFINE p1 == P(t1)
           p2 == P(t2)
           p3 == P(t3)
           p4 == P(t4)
<1>6. p1 + p2 + p3 + p4 <= left /\ p1 \in Nat /\ p2 \in Nat /\ p3 \in Nat /\ p4 \in Nat
      /\ (n1 > 0 => p1 = share) /\ (n2 > 0 => p2 = share) /\ (n3 > 0 => p3 = share) /\ (n4 > 0 => p4 = share)
  BY <1>4, <1>5
<1> HIDE DEF p1, p2, p3, p4, P
<1>7. g1 = (IF n1 <= share THEN n1 ELSE share) /\ g1 <= p1
  BY <1>1, <1>6 DEF Grant3
<1>8. g2 = (IF n2 <= share THEN n2 ELSE share) /\ g2 <= p2
  BY <1>1, <1>6, <1>7 DEF Grant3
<1>9. g3 = (IF n3 <= share THEN n3 ELSE share) /\ g3 <= p3
  BY <1>1, <1>6, <1>7, <1>8 DEF Grant3
<1>10. g4 = (IF n4 <= share THEN n4 ELSE share) /\ g4 <= p4
  BY <1>1, <1>6, <1>7, <1>8, <1>9 DEF Grant3
<1>11. g1 + g2 + g3 + g4 <= left
  BY <1>1, <1>6, <1>7, <1>8, <1>9, <1>10
<1> QED
  BY <1>7, <1>8, <1>9, <1>10, <1>11 DEF n1, n2, n3, n4, t1, t2, t3, t4, g1, g2, g3, g4

\* The last round gives one row each as long as there are rows.
LEMMA LastRound ==
  ASSUME NEW n, NEW t, NEW g, NEW share, NEW left, Rounding(n, t, g, share, left),
         share = 1, left < t[1] + t[2] + t[3] + t[4]
  PROVE  /\ \A i \in 1..4 : g[i] \in {0, 1} /\ g[i] <= n[i]
         /\ g[1] + g[2] + g[3] + g[4] = left
<1> DEFINE n1 == n[1]
           n2 == n[2]
           n3 == n[3]
           n4 == n[4]
           t1 == t[1]
           t2 == t[2]
           t3 == t[3]
           t4 == t[4]
           g1 == g[1]
           g2 == g[2]
           g3 == g[3]
           g4 == g[4]
<1>1. /\ n1 \in Nat /\ n2 \in Nat /\ n3 \in Nat /\ n4 \in Nat
      /\ t1 \in {0, 1} /\ t2 \in {0, 1} /\ t3 \in {0, 1} /\ t4 \in {0, 1}
      /\ (t1 = 1 <=> n1 > 0) /\ (t2 = 1 <=> n2 > 0) /\ (t3 = 1 <=> n3 > 0) /\ (t4 = 1 <=> n4 > 0)
      /\ g1 \in Int /\ g2 \in Int /\ g3 \in Int /\ g4 \in Int /\ share \in Nat /\ left \in Nat
      /\ Grant3(g1, n1, share, left) /\ Grant3(g2, n2, share, left - g1)
      /\ Grant3(g3, n3, share, left - g1 - g2) /\ Grant3(g4, n4, share, left - g1 - g2 - g3)
  BY DEF Rounding
<1>2. share = 1 /\ left < t1 + t2 + t3 + t4
  OBVIOUS
<1> HIDE DEF n1, n2, n3, n4, t1, t2, t3, t4, g1, g2, g3, g4
<1>3. g1 \in {0, 1} /\ g1 <= n1 /\ left - g1 >= 0 /\ (g1 = t1 \/ left - g1 = 0)
  BY <1>1, <1>2 DEF Grant3
<1>4. g2 \in {0, 1} /\ g2 <= n2 /\ left - g1 - g2 >= 0 /\ (g2 = t2 \/ left - g1 - g2 = 0)
  BY <1>1, <1>2, <1>3 DEF Grant3
<1>5. g3 \in {0, 1} /\ g3 <= n3 /\ left - g1 - g2 - g3 >= 0 /\ (g3 = t3 \/ left - g1 - g2 - g3 = 0)
  BY <1>1, <1>2, <1>3, <1>4 DEF Grant3
<1>6. g4 \in {0, 1} /\ g4 <= n4 /\ left - g1 - g2 - g3 - g4 >= 0 /\ (g4 = t4 \/ left - g1 - g2 - g3 - g4 = 0)
  BY <1>1, <1>2, <1>3, <1>4, <1>5 DEF Grant3
<1>7. g1 + g2 + g3 + g4 = left
  BY <1>1, <1>2, <1>3, <1>4, <1>5, <1>6
<1> QED
  BY <1>3, <1>4, <1>5, <1>6, <1>7 DEF n1, n2, n3, n4, t1, t2, t3, t4, g1, g2, g3, g4

\* A round of shares, and the round that follows.
RoundOf(limit, demands, alloc) ==
    Grants(limit, demands, Max({1, Left(limit, alloc) \div Cardinality(Unmet(demands, alloc))}), alloc)

NextShares(limit, demands, alloc) == IF Unmet(demands, alloc) = {} THEN alloc ELSE RoundOf(limit, demands, alloc)

\* The shares are level: the lists that lack rows have the same, or nothing is left and they
\* differ by one at most, and no list has more than that.
Level(limit, demands, a) ==
    /\ a \in [1..4 -> Nat]
    /\ \A i \in 1..4 : a[i] <= demands[i]
    /\ SumOf(a) <= limit
    /\ \E c \in Nat :
          \/ \A i \in 1..4 : a[i] <= c /\ (a[i] < demands[i] => a[i] = c)
          \/ SumOf(a) = limit /\ \A i \in 1..4 : a[i] <= c + 1 /\ (a[i] < demands[i] => a[i] >= c)

LEMMA ShareIs ==
  ASSUME NEW left \in Nat, NEW m \in 1..4
  PROVE  LET share == Max({1, left \div m}) IN
         /\ share \in Nat /\ share >= 1
         /\ share * m <= left \/ (share = 1 /\ left < m)
<1> DEFINE q == left \div m
           share == Max({1, q})
<1>1. q \in Nat /\ q * m <= left /\ (q = 0 => left < m)
  BY Z3
<1> HIDE DEF q
<1>2. share \in {1, q} /\ \A y \in {1, q} : share >= y
  <2>1. IsFiniteSet({1, q})
    <3>1. {1, q} = {1} \union {q}
      OBVIOUS
    <3>2. IsFiniteSet({1}) /\ IsFiniteSet({q})
      BY FS_Singleton
    <3> QED
      BY <3>1, <3>2, FS_Union
  <2> DEFINE S == {1, q}
  <2>2. IsFiniteSet(S) /\ S # {} /\ \A x \in S : x \in Int
    BY <1>1, <2>1
  <2> HIDE DEF S
  <2>3. Max(S) \in S /\ \A y \in S : Max(S) >= y
    BY <2>2, MaxIs
  <2> QED
    BY <2>3 DEF S
<1> HIDE DEF share
<1>3. q = 0 => share = 1
  BY <1>1, <1>2
<1>4. q # 0 => share = q
  BY <1>1, <1>2
<1>5. share \in Nat /\ share >= 1
  BY <1>1, <1>2
<1>6. share * m <= left \/ (share = 1 /\ left < m)
  BY <1>1, <1>3, <1>4
<1> QED
  BY <1>5, <1>6 DEF share, q

LEMMA RoundKeeps ==
  ASSUME NEW limit \in Nat, NEW demands \in [1..4 -> Nat], NEW a, Level(limit, demands, a), Unmet(demands, a) # {}
  PROVE  LET r == RoundOf(limit, demands, a) IN
         /\ Level(limit, demands, r)
         /\ SumOf(r) = limit \/ SumOf(r) >= SumOf(a) + 1
<1> DEFINE left == limit - SumOf(a)
           m == Cardinality(Unmet(demands, a))
           share == Max({1, left \div m})
           r == Grants(limit, demands, share, a)
           n == [i \in 1..4 |-> demands[i] - a[i]]
           t == [i \in 1..4 |-> Lacking(demands, a, i)]
           g == [i \in 1..4 |-> r[i] - a[i]]
<1>1. /\ a \in [1..4 -> Nat] /\ \A i \in 1..4 : a[i] <= demands[i] /\ a[i] \in Nat /\ demands[i] \in Nat
      /\ a \in [1..4 -> Int] /\ demands \in [1..4 -> Int] /\ SumOf(a) \in Nat /\ SumOf(a) <= limit
  BY DEF Level, SumOf
<1>2. RoundOf(limit, demands, a) = r
  <2>1. Left(limit, a) = left
    BY <1>1, SumOfFour DEF Left, SumOf
  <2> QED
    BY <2>1 DEF RoundOf
<1>3. m = t[1] + t[2] + t[3] + t[4] /\ \A i \in 1..4 : t[i] \in {0, 1} /\ (t[i] = 1 <=> n[i] > 0) /\ n[i] \in Nat
  <2>1. m = t[1] + t[2] + t[3] + t[4]
    BY <1>1, UnmetAre
  <2>2. ASSUME NEW i \in 1..4 PROVE t[i] \in {0, 1} /\ (t[i] = 1 <=> n[i] > 0) /\ n[i] \in Nat
    BY <1>1 DEF Lacking
  <2> QED
    BY <2>1, <2>2
<1>4. \E i \in 1..4 : n[i] > 0
  BY <1>1 DEF Unmet
<1>5. m \in 1..4
  <2> HIDE DEF m, t, n
  <2>1. t[1] \in {0, 1} /\ t[2] \in {0, 1} /\ t[3] \in {0, 1} /\ t[4] \in {0, 1}
    BY <1>3
  <2>2. t[1] = 1 \/ t[2] = 1 \/ t[3] = 1 \/ t[4] = 1
    BY <1>3, <1>4
  <2> QED
    BY <1>3, <2>1, <2>2
<1>6. left \in Nat
  BY <1>1
<1> HIDE DEF m, t, left
<1>7. share \in Nat /\ share >= 1 /\ (share * m <= left \/ (share = 1 /\ left < m))
  BY <1>5, <1>6, ShareIs
<1> HIDE DEF share
<1>8. /\ r \in [1..4 -> Int]
      /\ \A i \in 1..4 :
            LET d == r[i] - a[i]
                rest == limit - SumOf([j \in 1..4 |-> IF j < i THEN r[j] ELSE a[j]])
            IN /\ d <= demands[i] - a[i] /\ d <= share /\ d <= rest
               /\ d = demands[i] - a[i] \/ d = share \/ d = rest
  BY <1>1, <1>7, GrantsAre
<1> HIDE DEF r
<1>9. \A i \in 1..4 : /\ g[i] \in Int /\ r[i] = a[i] + g[i] /\ demands[i] = a[i] + n[i]
                      /\ g[i] = r[i] - a[i] /\ n[i] = demands[i] - a[i] /\ r[i] \in Int
  BY <1>1, <1>8
<1> HIDE DEF n, g
<1>10. /\ limit - SumOf([j \in 1..4 |-> IF j < 1 THEN r[j] ELSE a[j]]) = left
       /\ limit - SumOf([j \in 1..4 |-> IF j < 2 THEN r[j] ELSE a[j]]) = left - g[1]
       /\ limit - SumOf([j \in 1..4 |-> IF j < 3 THEN r[j] ELSE a[j]]) = left - g[1] - g[2]
       /\ limit - SumOf([j \in 1..4 |-> IF j < 4 THEN r[j] ELSE a[j]]) = left - g[1] - g[2] - g[3]
       /\ SumOf(r) = SumOf(a) + g[1] + g[2] + g[3] + g[4]
  <2>1. r[1] = a[1] + g[1] /\ r[2] = a[2] + g[2] /\ r[3] = a[3] + g[3] /\ r[4] = a[4] + g[4]
    BY <1>9
  <2>2. /\ a[1] \in Int /\ a[2] \in Int /\ a[3] \in Int /\ a[4] \in Int
        /\ g[1] \in Int /\ g[2] \in Int /\ g[3] \in Int /\ g[4] \in Int
    BY <1>1, <1>9
  <2> QED
    BY <2>1, <2>2 DEF SumOf, left
<1>11. Rounding(n, t, g, share, left)
  <2>1. /\ Grant3(g[1], n[1], share, left)
        /\ Grant3(g[2], n[2], share, left - g[1])
        /\ Grant3(g[3], n[3], share, left - g[1] - g[2])
        /\ Grant3(g[4], n[4], share, left - g[1] - g[2] - g[3])
    BY <1>8, <1>9, <1>10 DEF Grant3
  <2> QED
    BY <1>3, <1>6, <1>7, <1>9, <2>1 DEF Rounding
<1>12. CASE share * m <= left
  <2>1. left > 0
    BY <1>5, <1>6, <1>7, <1>12
  <2>2. /\ \A i \in 1..4 : g[i] = IF n[i] <= share THEN n[i] ELSE share
        /\ g[1] + g[2] + g[3] + g[4] <= left
    <3>1. share >= 1 /\ share * (t[1] + t[2] + t[3] + t[4]) <= left
      BY <1>3, <1>7, <1>12
    <3> QED
      BY <1>11, <3>1, FullRound
  <2>3. ASSUME NEW i \in 1..4
        PROVE  /\ g[i] \in Nat /\ g[i] <= n[i] /\ r[i] \in Nat /\ r[i] <= demands[i]
               /\ g[i] <= share /\ (r[i] < demands[i] => g[i] = share /\ a[i] < demands[i])
    <3> DEFINE gi == g[i]
               ni == n[i]
               ai == a[i]
               ri == r[i]
               di == demands[i]
    <3>1. /\ gi = (IF ni <= share THEN ni ELSE share) /\ ni \in Nat /\ share \in Nat
          /\ ai \in Nat /\ ri = ai + gi /\ di = ai + ni /\ share >= 1
      BY <1>1, <1>3, <1>7, <1>9, <2>2
    <3> HIDE DEF gi, ni, ai, ri, di
    <3>2. /\ gi \in Nat /\ gi <= ni /\ ri \in Nat /\ ri <= di
          /\ gi <= share /\ (ri < di => gi = share /\ ai < di)
      BY <3>1
    <3> QED
      BY <3>2 DEF gi, ni, ai, ri, di
  <2>4. SumOf(r) <= limit
    <3>1. g[1] \in Nat /\ g[2] \in Nat /\ g[3] \in Nat /\ g[4] \in Nat
      BY <2>3
    <3> QED
      BY <1>1, <1>10, <2>2, <3>1 DEF left
  <2>5. PICK c \in Nat : \A i \in 1..4 : a[i] <= c /\ (a[i] < demands[i] => a[i] = c)
    BY <1>1, <2>1 DEF Level, left
  <2>6. ASSUME NEW i \in 1..4 PROVE r[i] <= c + share /\ (r[i] < demands[i] => r[i] = c + share)
    <3> DEFINE gi == g[i]
               ai == a[i]
               ri == r[i]
               di == demands[i]
    <3>1. /\ gi \in Nat /\ ai \in Nat /\ ri = ai + gi /\ gi <= share /\ share \in Nat
          /\ (ri < di => gi = share /\ ai < di) /\ ai <= c /\ (ai < di => ai = c)
      BY <1>1, <1>7, <1>9, <2>3, <2>5
    <3> HIDE DEF gi, ai, ri, di
    <3>2. ri <= c + share /\ (ri < di => ri = c + share)
      BY <3>1
    <3> QED
      BY <3>2 DEF ri, di
  <2>7. SumOf(r) >= SumOf(a) + 1
    <3>1. \A i \in 1..4 : n[i] > 0 => g[i] >= 1
      BY <1>3, <1>7, <2>2
    <3>2. g[1] >= 1 \/ g[2] >= 1 \/ g[3] >= 1 \/ g[4] >= 1
      BY <1>4, <3>1
    <3>3. g[1] \in Nat /\ g[2] \in Nat /\ g[3] \in Nat /\ g[4] \in Nat
      BY <2>3
    <3> QED
      BY <1>1, <1>10, <3>2, <3>3
  <2>8. r \in [1..4 -> Nat] /\ c + share \in Nat
    BY <1>7, <1>8, <2>3
  <2>9. Level(limit, demands, r)
    BY <2>3, <2>4, <2>6, <2>8 DEF Level
  <2> QED
    BY <1>2, <2>7, <2>9
<1>13. CASE share = 1 /\ left < m
  <2>1. /\ \A i \in 1..4 : g[i] \in {0, 1} /\ g[i] <= n[i]
        /\ g[1] + g[2] + g[3] + g[4] = left
    <3>1. left < t[1] + t[2] + t[3] + t[4]
      BY <1>3, <1>13
    <3> QED
      BY <1>11, <1>13, <3>1, LastRound
  <2>2. ASSUME NEW i \in 1..4
        PROVE  r[i] \in Nat /\ r[i] <= demands[i] /\ r[i] <= a[i] + 1 /\ r[i] >= a[i]
    <3> DEFINE gi == g[i]
               ni == n[i]
               ai == a[i]
               ri == r[i]
               di == demands[i]
    <3>1. gi \in {0, 1} /\ gi <= ni /\ ni \in Nat /\ ai \in Nat /\ ri = ai + gi /\ di = ai + ni
      BY <1>1, <1>3, <1>9, <2>1
    <3> HIDE DEF gi, ni, ai, ri, di
    <3>2. ri \in Nat /\ ri <= di /\ ri <= ai + 1 /\ ri >= ai
      BY <3>1
    <3> QED
      BY <3>2 DEF ai, ri, di
  <2>3. SumOf(r) = limit
    <3>1. g[1] \in {0, 1} /\ g[2] \in {0, 1} /\ g[3] \in {0, 1} /\ g[4] \in {0, 1}
      BY <2>1
    <3> QED
      BY <1>1, <1>10, <2>1, <3>1 DEF left
  <2>4. r \in [1..4 -> Nat]
    BY <1>8, <2>2
  <2>5. \E c \in Nat : \A i \in 1..4 : r[i] <= c + 1 /\ (r[i] < demands[i] => r[i] >= c)
    <3>1. PICK c \in Nat : \/ \A i \in 1..4 : a[i] <= c /\ (a[i] < demands[i] => a[i] = c)
                           \/ SumOf(a) = limit /\ \A i \in 1..4 : a[i] <= c + 1 /\ (a[i] < demands[i] => a[i] >= c)
      BY DEF Level
    <3>2. ASSUME NEW i \in 1..4 PROVE r[i] <= c + 1 /\ (r[i] < demands[i] => r[i] >= c)
      <4> DEFINE ai == a[i]
                 ri == r[i]
                 di == demands[i]
      <4>1. CASE \A k \in 1..4 : a[k] <= c /\ (a[k] < demands[k] => a[k] = c)
        <5>1. ai \in Nat /\ ri \in Nat /\ di \in Nat /\ ri <= ai + 1 /\ ri >= ai /\ ai <= c /\ (ai < di => ai = c)
          BY <1>1, <2>2, <4>1
        <5> HIDE DEF ai, ri, di
        <5>2. ri <= c + 1 /\ (ri < di => ri >= c)
          BY <5>1
        <5> QED
          BY <5>2 DEF ri, di
      <4>2. CASE SumOf(a) = limit /\ \A k \in 1..4 : a[k] <= c + 1 /\ (a[k] < demands[k] => a[k] >= c)
        <5>1. left = 0
          BY <1>1, <4>2 DEF left
        <5>2. g[1] \in {0, 1} /\ g[2] \in {0, 1} /\ g[3] \in {0, 1} /\ g[4] \in {0, 1}
          BY <2>1
        <5>3. g[1] = 0 /\ g[2] = 0 /\ g[3] = 0 /\ g[4] = 0
          BY <2>1, <5>1, <5>2
        <5>4. g[i] = 0
          BY <5>3
        <5>5. r[i] = a[i]
          BY <1>1, <1>9, <5>4
        <5> QED
          BY <4>2, <5>5
      <4> QED
        BY <3>1, <4>1, <4>2
    <3> QED
      BY <3>2
  <2>6. Level(limit, demands, r)
    BY <2>2, <2>3, <2>4, <2>5 DEF Level
  <2> QED
    BY <1>2, <2>3, <2>6
<1> QED
  BY <1>7, <1>12, <1>13

\* The shares come from rounds that each keep them level, until the allowance or what the lists
\* lack is used up.
LEMMA SplitIs ==
  ASSUME NEW limit \in Nat, NEW demands \in [1..4 -> Nat]
  PROVE  LET room == FairSplitBudget(limit, demands) IN
         /\ Level(limit, demands, room)
         /\ SumOf(room) = limit \/ \A i \in 1..4 : room[i] = demands[i]
<1> DEFINE seq == [k \in 1..limit |-> k]
           base == [i \in DOMAIN demands |-> 0]
           Next1(b, k) == NextShares(limit, demands, b)
           D == DOMAIN seq
           B == {b \in [1..4 -> Nat] : Level(limit, demands, b)}
           Op(x, b) == Next1(b, seq[x])
           pick == MaxOf(D)
           step == [p \in D \X B |-> Op(p[1], p[2])]
           h == CHOOSE g : g = [s \in SUBSET D |-> IF s = {} THEN base ELSE LET x == Max(s) IN Op(x, g[s \ {x}])]
<1>1. FairSplitBudget(limit, demands) = h[D]
  BY DEF FairSplitBudget, NextShares, RoundOf, Grants, GrantTo, Unmet, Left, FoldLeft, MapThenFoldSet
<1>2. D = 1..limit
  OBVIOUS
<1> HIDE DEF seq
<1>3. IsFiniteSet(D) /\ \A x \in D : x \in Int
  <2> HIDE DEF D
  <2> QED
    <3>1. 1 \in Int /\ limit \in Int
      OBVIOUS
    <3>2. IsFiniteSet(D)
      BY <1>2, <3>1, FS_Interval
    <3> QED
      BY <1>2, <3>2
<1>4. base \in B /\ \A x \in D, b \in B : Op(x, b) \in B
  <2>1. Level(limit, demands, base)
    <3>1. base \in [1..4 -> Nat] /\ SumOf(base) = 0 /\ \A i \in 1..4 : base[i] = 0 /\ base[i] <= demands[i]
      BY DEF SumOf
    <3> HIDE DEF base
    <3>2. 0 \in Nat /\ \A i \in 1..4 : base[i] <= 0 /\ (base[i] < demands[i] => base[i] = 0)
      BY <3>1
    <3> QED
      BY <3>1, <3>2 DEF Level
  <2>2. base \in [1..4 -> Nat]
    OBVIOUS
  <2>3. ASSUME NEW x \in D, NEW b \in B PROVE Op(x, b) \in B
    <3>1. CASE Unmet(demands, b) = {}
      BY <3>1 DEF NextShares
    <3>2. CASE Unmet(demands, b) # {}
      <4>1. Level(limit, demands, RoundOf(limit, demands, b))
        BY <3>2, RoundKeeps
      <4>2. Op(x, b) = RoundOf(limit, demands, b)
        BY <3>2 DEF NextShares
      <4> QED
        BY <4>1, <4>2 DEF Level
    <3> QED
      BY <3>1, <3>2
  <2> QED
    BY <2>1, <2>2, <2>3
<1> HIDE DEF B, D, Op
<1>5. step \in [D \X B -> B] /\ \A x \in D, b \in B : step[<<x, b>>] = Op(x, b)
  BY <1>4
<1> HIDE DEF step
<1>6. Picks(pick, D) /\ \A s \in SUBSET D : s # {} => pick[s] \in D /\ s \ {pick[s]} \in SUBSET D /\ pick[s] = Max(s)
  <2>1. Picks(pick, D)
    BY <1>3, PicksMax DEF pick
  <2>2. \A s \in SUBSET D : s # {} => pick[s] = Max(s)
    BY DEF pick, MaxOf
  <2> QED
    BY <2>1, <2>2 DEF Picks
<1> HIDE DEF pick
<1>7. PICK w : Folding(w, D, base, pick, step)
  BY <1>3, <1>6, FoldExists
<1>8. \A s \in SUBSET D : w[s] \in B
  <2>1. Follows(w, D, B, base, pick, step)
    BY <1>7 DEF Folding, FoldOf, Follows
  <2> QED
    BY <1>3, <1>4, <1>5, <1>6, <2>1, FoldStays
<1>9. ASSUME NEW s \in SUBSET D
     PROVE  FoldOf(w, s, base, pick, step) = IF s = {} THEN base ELSE LET x == Max(s) IN Op(x, w[s \ {x}])
  <2>1. CASE s = {}
    BY <2>1 DEF FoldOf
  <2>2. CASE s # {}
    <3>1. step[<<pick[s], w[s \ {pick[s]}]>>] = Op(pick[s], w[s \ {pick[s]}])
      BY <1>5, <1>6, <1>8, <2>2
    <3> QED
      BY <1>6, <2>2, <3>1 DEF FoldOf
  <2> QED
    BY <2>1, <2>2
<1>10. \E f : f = [s \in SUBSET D |-> IF s = {} THEN base ELSE LET x == Max(s) IN Op(x, f[s \ {x}])]
  <2>1. w = [s \in SUBSET D |-> IF s = {} THEN base ELSE LET x == Max(s) IN Op(x, w[s \ {x}])]
    BY <1>7, <1>9 DEF Folding
  <2> HIDE DEF h
  <2> QED
    BY <2>1
<1>11. h = [s \in SUBSET D |-> IF s = {} THEN base ELSE LET x == Max(s) IN Op(x, h[s \ {x}])]
  BY <1>10, Zenon
<1> HIDE DEF h
<1>12. Follows(h, D, B, base, pick, step)
  <2>1. h[{}] = base
    BY <1>11
  <2>2. ASSUME NEW s \in SUBSET D, s # {}, h[s \ {pick[s]}] \in B
        PROVE  h[s] = step[<<pick[s], h[s \ {pick[s]}]>>]
    <3>1. h[s] = LET x == Max(s) IN Op(x, h[s \ {x}])
      BY <1>11, <2>2
    <3>2. h[s] = Op(pick[s], h[s \ {pick[s]}])
      BY <1>6, <2>2, <3>1
    <3> QED
      BY <1>5, <1>6, <2>2, <3>2
  <2> QED
    BY <2>1, <2>2 DEF Follows
<1> HIDE DEF base
<1>14. IsLeftFold(h, limit, D, B, base, step)
  BY <1>2, <1>4, <1>5, <1>12 DEF pick, IsLeftFold
<1>15. /\ h[{}] = base /\ \A s \in SUBSET D : h[s] \in B
       /\ \A k \in 1..limit : h[1..k] = step[<<k, h[1..(k - 1)]>>]
  BY <1>14, FoldRuns
<1> DEFINE A(k) == h[1..k]
           Short(k) == ~(SumOf(A(k)) = limit \/ Unmet(demands, A(k)) = {} \/ SumOf(A(k)) >= k)
           Bad == {k \in 0..limit : Short(k)}
<1>16. \A k \in 0..limit : A(k) \in B
  BY <1>2, <1>15
<1>17. \A b \in B : SumOf(b) \in Nat
  BY DEF B, SumOf
<1>18. ~Short(0)
  <2>1. SumOf(A(0)) \in Nat
    BY <1>16, <1>17
  <2> QED
    BY <2>1
<1>19. ASSUME NEW k \in 1..limit, ~Short(k - 1) PROVE ~Short(k)
  <2> DEFINE b == A(k - 1)
  <2>1. k - 1 \in 0..limit /\ k \in D
    BY <1>2
  <2>2. b \in B
    BY <1>16, <2>1
  <2>3. A(k) = step[<<k, b>>]
    BY <1>15
  <2> HIDE DEF b
  <2>4. A(k) = NextShares(limit, demands, b)
    BY <1>5, <2>1, <2>2, <2>3 DEF Op
  <2>5. SumOf(b) = limit \/ Unmet(demands, b) = {} \/ SumOf(b) >= k - 1
    BY <1>19 DEF b
  <2> HIDE DEF A
  <2>6. CASE Unmet(demands, b) = {}
    BY <2>4, <2>6 DEF NextShares
  <2>7. CASE Unmet(demands, b) # {}
    <3>1. A(k) = RoundOf(limit, demands, b)
      BY <2>4, <2>7 DEF NextShares
    <3>2. Level(limit, demands, b)
      BY <2>2 DEF B
    <3>3. SumOf(A(k)) = limit \/ SumOf(A(k)) >= SumOf(b) + 1
      BY <2>7, <3>1, <3>2, RoundKeeps
    <3>4. A(k) \in B
      BY <1>16
    <3>5. SumOf(A(k)) \in Nat /\ SumOf(b) \in Nat /\ SumOf(A(k)) <= limit
      BY <1>17, <2>2, <3>4 DEF B, Level
    <3>6. SumOf(A(k)) = limit \/ SumOf(A(k)) >= k
      BY <2>5, <2>7, <3>3, <3>5
    <3> QED
      BY <3>6
  <2> QED
    BY <2>6, <2>7
<1> HIDE DEF A, Short
<1>20. Bad = {}
  <2> SUFFICES ASSUME Bad # {} PROVE FALSE
    OBVIOUS
  <2>1. Bad \in SUBSET Nat
    OBVIOUS
  <2>2. PICK k \in Bad : \A j \in Bad : k <= j
    <3> HIDE DEF Bad
    <3>1. Min(Bad) \in Bad /\ \A j \in Bad : Min(Bad) <= j
      BY <2>1, LeastNumber
    <3> QED
      BY <3>1
  <2>3. k \in 1..limit /\ Short(k)
    BY <1>18, <2>2
  <2>4. ~Short(k - 1)
    <3>1. k - 1 \in 0..limit /\ ~(k <= k - 1)
      BY <2>3
    <3>2. k - 1 \notin Bad
      <4> HIDE DEF Bad
      <4> QED
        BY <2>2, <3>1
    <3> QED
      BY <3>1, <3>2
  <2> QED
    BY <1>19, <2>3, <2>4
<1> DEFINE room == A(limit)
<1>21. room = FairSplitBudget(limit, demands)
  BY <1>1, <1>2 DEF A
<1>22. room \in B /\ (SumOf(room) = limit \/ Unmet(demands, room) = {} \/ SumOf(room) >= limit)
  <2>1. limit \in 0..limit
    OBVIOUS
  <2>2. ~Short(limit)
    BY <1>20, <2>1
  <2> QED
    BY <1>16, <2>1, <2>2 DEF Short
<1> HIDE DEF room
<1>23. Level(limit, demands, room) /\ SumOf(room) <= limit /\ SumOf(room) \in Nat /\ room \in [1..4 -> Nat]
  BY <1>17, <1>22 DEF B, Level
<1>24. Unmet(demands, room) = {} => \A i \in 1..4 : room[i] = demands[i]
  <2> SUFFICES ASSUME Unmet(demands, room) = {}, NEW i \in 1..4 PROVE room[i] = demands[i]
    OBVIOUS
  <2>1. ~(room[i] < demands[i]) /\ room[i] <= demands[i] /\ room[i] \in Nat /\ demands[i] \in Nat
    BY <1>23 DEF Unmet, Level
  <2> QED
    BY <2>1
<1> QED
  BY <1>21, <1>22, <1>23, <1>24

(***************************************************************************)
(* The lists of a search.                                                  *)
(***************************************************************************)

SpentOn(bucket) == FoldLeft(LAMBDA n, b : n + b.budget.spent, 0, bucket)

LEMMA SpentIs ==
  ASSUME NEW bucket, DOMAIN bucket = 1..4, \A i \in 1..4 : bucket[i].budget.spent \in Int
  PROVE  SpentOn(bucket) = bucket[1].budget.spent + bucket[2].budget.spent + bucket[3].budget.spent + bucket[4].budget.spent
<1> DEFINE D == DOMAIN bucket
           B == Int
           base == 0
           Op(x, b) == b + bucket[x].budget.spent
           pick == MaxOf(D)
           step == [p \in D \X B |-> Op(p[1], p[2])]
           h == CHOOSE g : g = [s \in SUBSET D |-> IF s = {} THEN base ELSE LET x == Max(s) IN Op(x, g[s \ {x}])]
<1>1. SpentOn(bucket) = h[D]
  BY DEF SpentOn, FoldLeft, MapThenFoldSet
<1>2. D = 1..4
  OBVIOUS
<1> HIDE DEF D
<1>3. IsFiniteSet(D) /\ \A x \in D : x \in Int
  <2>1. 1 \in Int /\ 4 \in Int
    OBVIOUS
  <2>2. IsFiniteSet(D)
    BY <1>2, <2>1, FS_Interval
  <2> QED
    BY <1>2, <2>2
<1>4. base \in B /\ \A x \in D, b \in B : Op(x, b) \in B
  BY <1>2
<1> HIDE DEF B, D, Op
<1>5. step \in [D \X B -> B] /\ \A x \in D, b \in B : step[<<x, b>>] = Op(x, b)
  BY <1>4
<1> HIDE DEF step
<1>6. Picks(pick, D) /\ \A s \in SUBSET D : s # {} => pick[s] \in D /\ s \ {pick[s]} \in SUBSET D /\ pick[s] = Max(s)
  <2>1. Picks(pick, D)
    BY <1>3, PicksMax DEF pick
  <2>2. \A s \in SUBSET D : s # {} => pick[s] = Max(s)
    BY DEF pick, MaxOf
  <2> QED
    BY <2>1, <2>2 DEF Picks
<1> HIDE DEF pick
<1>7. PICK w : Folding(w, D, base, pick, step)
  BY <1>3, <1>6, FoldExists
<1>8. \A s \in SUBSET D : w[s] \in B
  <2>1. Follows(w, D, B, base, pick, step)
    BY <1>7 DEF Folding, FoldOf, Follows
  <2> QED
    BY <1>3, <1>4, <1>5, <1>6, <2>1, FoldStays
<1>9. ASSUME NEW s \in SUBSET D
     PROVE  FoldOf(w, s, base, pick, step) = IF s = {} THEN base ELSE LET x == Max(s) IN Op(x, w[s \ {x}])
  <2>1. CASE s = {}
    BY <2>1 DEF FoldOf
  <2>2. CASE s # {}
    <3>1. step[<<pick[s], w[s \ {pick[s]}]>>] = Op(pick[s], w[s \ {pick[s]}])
      BY <1>5, <1>6, <1>8, <2>2
    <3> QED
      BY <1>6, <2>2, <3>1 DEF FoldOf
  <2> QED
    BY <2>1, <2>2
<1>10. \E f : f = [s \in SUBSET D |-> IF s = {} THEN base ELSE LET x == Max(s) IN Op(x, f[s \ {x}])]
  <2>1. w = [s \in SUBSET D |-> IF s = {} THEN base ELSE LET x == Max(s) IN Op(x, w[s \ {x}])]
    BY <1>7, <1>9 DEF Folding
  <2> HIDE DEF h
  <2> QED
    BY <2>1
<1>11. h = [s \in SUBSET D |-> IF s = {} THEN base ELSE LET x == Max(s) IN Op(x, h[s \ {x}])]
  BY <1>10, Zenon
<1> HIDE DEF h
<1>12. Follows(h, D, B, base, pick, step)
  <2>1. h[{}] = base
    BY <1>11
  <2>2. ASSUME NEW s \in SUBSET D, s # {}, h[s \ {pick[s]}] \in B
        PROVE  h[s] = step[<<pick[s], h[s \ {pick[s]}]>>]
    <3>1. h[s] = LET x == Max(s) IN Op(x, h[s \ {x}])
      BY <1>11, <2>2
    <3>2. h[s] = Op(pick[s], h[s \ {pick[s]}])
      BY <1>6, <2>2, <3>1
    <3> QED
      BY <1>5, <1>6, <2>2, <3>2
  <2> QED
    BY <2>1, <2>2 DEF Follows
<1>13. /\ h[{}] = 0 /\ \A s \in SUBSET D : h[s] \in Int
       /\ \A k \in 1..4 : h[1..k] = step[<<k, h[1..(k - 1)]>>]
  <2>1. IsLeftFold(h, 4, D, B, base, step) /\ 4 \in Nat
    BY <1>2, <1>4, <1>5, <1>12 DEF pick, IsLeftFold
  <2>2. PICK N \in Nat : N = 4
    OBVIOUS
  <2>3. IsLeftFold(h, N, D, B, base, step)
    BY <2>1, <2>2
  <2>4. /\ h[{}] = base /\ \A s \in SUBSET D : h[s] \in B
        /\ \A k \in 1..N : h[1..k] = step[<<k, h[1..(k - 1)]>>]
    BY <2>3, FoldRuns
  <2> QED
    BY <2>2, <2>4 DEF B
<1>14. ASSUME NEW k \in 1..4
       PROVE  h[1..k] = h[1..(k - 1)] + bucket[k].budget.spent /\ h[1..k] \in Int
  <2>1. k \in D /\ 1..(k - 1) \in SUBSET D /\ 1..k \in SUBSET D
    BY <1>2
  <2>2. h[1..(k - 1)] \in B /\ h[1..k] \in B
    BY <1>13, <2>1 DEF B
  <2>3. h[1..k] = Op(k, h[1..(k - 1)])
    BY <1>5, <1>13, <2>1, <2>2
  <2> QED
    BY <2>2, <2>3 DEF Op, B
<1> DEFINE A(k) == h[1..k]
           val(k) == bucket[k].budget.spent
<1>15. A(0) = 0
  <2>1. 1..0 = {}
    OBVIOUS
  <2> QED
    BY <1>13, <2>1
<1>16. \A k \in 1..4 : A(k) = A(k - 1) + val(k) /\ A(k) \in Int /\ val(k) \in Int
  BY <1>14
<1>17. A(4) = SpentOn(bucket)
  BY <1>1, <1>2
<1> HIDE DEF A, val
<1>18. A(1) = val(1) /\ A(2) = val(1) + val(2) /\ A(3) = val(1) + val(2) + val(3) /\ A(4) = val(1) + val(2) + val(3) + val(4)
  <2>1. A(1) = A(0) + val(1) /\ A(2) = A(1) + val(2) /\ A(3) = A(2) + val(3) /\ A(4) = A(3) + val(4)
    BY <1>16
  <2>2. val(1) \in Int /\ val(2) \in Int /\ val(3) \in Int /\ val(4) \in Int
    BY <1>16
  <2> QED
    BY <1>15, <2>1, <2>2
<1> QED
  BY <1>17, <1>18 DEF val

ElidedOf(bucket) == FoldLeft(LAMBDA n, b : n + b.budget.elided, 0, bucket)

LEMMA ElidedIs ==
  ASSUME NEW bucket, DOMAIN bucket = 1..4, \A i \in 1..4 : bucket[i].budget.elided \in Int
  PROVE  ElidedOf(bucket) = bucket[1].budget.elided + bucket[2].budget.elided + bucket[3].budget.elided + bucket[4].budget.elided
<1> DEFINE D == DOMAIN bucket
           B == Int
           base == 0
           Op(x, b) == b + bucket[x].budget.elided
           pick == MaxOf(D)
           step == [p \in D \X B |-> Op(p[1], p[2])]
           h == CHOOSE g : g = [s \in SUBSET D |-> IF s = {} THEN base ELSE LET x == Max(s) IN Op(x, g[s \ {x}])]
<1>1. ElidedOf(bucket) = h[D]
  BY DEF ElidedOf, FoldLeft, MapThenFoldSet
<1>2. D = 1..4
  OBVIOUS
<1> HIDE DEF D
<1>3. IsFiniteSet(D) /\ \A x \in D : x \in Int
  <2>1. 1 \in Int /\ 4 \in Int
    OBVIOUS
  <2>2. IsFiniteSet(D)
    BY <1>2, <2>1, FS_Interval
  <2> QED
    BY <1>2, <2>2
<1>4. base \in B /\ \A x \in D, b \in B : Op(x, b) \in B
  BY <1>2
<1> HIDE DEF B, D, Op
<1>5. step \in [D \X B -> B] /\ \A x \in D, b \in B : step[<<x, b>>] = Op(x, b)
  BY <1>4
<1> HIDE DEF step
<1>6. Picks(pick, D) /\ \A s \in SUBSET D : s # {} => pick[s] \in D /\ s \ {pick[s]} \in SUBSET D /\ pick[s] = Max(s)
  <2>1. Picks(pick, D)
    BY <1>3, PicksMax DEF pick
  <2>2. \A s \in SUBSET D : s # {} => pick[s] = Max(s)
    BY DEF pick, MaxOf
  <2> QED
    BY <2>1, <2>2 DEF Picks
<1> HIDE DEF pick
<1>7. PICK w : Folding(w, D, base, pick, step)
  BY <1>3, <1>6, FoldExists
<1>8. \A s \in SUBSET D : w[s] \in B
  <2>1. Follows(w, D, B, base, pick, step)
    BY <1>7 DEF Folding, FoldOf, Follows
  <2> QED
    BY <1>3, <1>4, <1>5, <1>6, <2>1, FoldStays
<1>9. ASSUME NEW s \in SUBSET D
     PROVE  FoldOf(w, s, base, pick, step) = IF s = {} THEN base ELSE LET x == Max(s) IN Op(x, w[s \ {x}])
  <2>1. CASE s = {}
    BY <2>1 DEF FoldOf
  <2>2. CASE s # {}
    <3>1. step[<<pick[s], w[s \ {pick[s]}]>>] = Op(pick[s], w[s \ {pick[s]}])
      BY <1>5, <1>6, <1>8, <2>2
    <3> QED
      BY <1>6, <2>2, <3>1 DEF FoldOf
  <2> QED
    BY <2>1, <2>2
<1>10. \E f : f = [s \in SUBSET D |-> IF s = {} THEN base ELSE LET x == Max(s) IN Op(x, f[s \ {x}])]
  <2>1. w = [s \in SUBSET D |-> IF s = {} THEN base ELSE LET x == Max(s) IN Op(x, w[s \ {x}])]
    BY <1>7, <1>9 DEF Folding
  <2> HIDE DEF h
  <2> QED
    BY <2>1
<1>11. h = [s \in SUBSET D |-> IF s = {} THEN base ELSE LET x == Max(s) IN Op(x, h[s \ {x}])]
  BY <1>10, Zenon
<1> HIDE DEF h
<1>12. Follows(h, D, B, base, pick, step)
  <2>1. h[{}] = base
    BY <1>11
  <2>2. ASSUME NEW s \in SUBSET D, s # {}, h[s \ {pick[s]}] \in B
        PROVE  h[s] = step[<<pick[s], h[s \ {pick[s]}]>>]
    <3>1. h[s] = LET x == Max(s) IN Op(x, h[s \ {x}])
      BY <1>11, <2>2
    <3>2. h[s] = Op(pick[s], h[s \ {pick[s]}])
      BY <1>6, <2>2, <3>1
    <3> QED
      BY <1>5, <1>6, <2>2, <3>2
  <2> QED
    BY <2>1, <2>2 DEF Follows
<1>13. /\ h[{}] = 0 /\ \A s \in SUBSET D : h[s] \in Int
       /\ \A k \in 1..4 : h[1..k] = step[<<k, h[1..(k - 1)]>>]
  <2>1. IsLeftFold(h, 4, D, B, base, step) /\ 4 \in Nat
    BY <1>2, <1>4, <1>5, <1>12 DEF pick, IsLeftFold
  <2>2. PICK N \in Nat : N = 4
    OBVIOUS
  <2>3. IsLeftFold(h, N, D, B, base, step)
    BY <2>1, <2>2
  <2>4. /\ h[{}] = base /\ \A s \in SUBSET D : h[s] \in B
        /\ \A k \in 1..N : h[1..k] = step[<<k, h[1..(k - 1)]>>]
    BY <2>3, FoldRuns
  <2> QED
    BY <2>2, <2>4 DEF B
<1>14. ASSUME NEW k \in 1..4
       PROVE  h[1..k] = h[1..(k - 1)] + bucket[k].budget.elided /\ h[1..k] \in Int
  <2>1. k \in D /\ 1..(k - 1) \in SUBSET D /\ 1..k \in SUBSET D
    BY <1>2
  <2>2. h[1..(k - 1)] \in B /\ h[1..k] \in B
    BY <1>13, <2>1 DEF B
  <2>3. h[1..k] = Op(k, h[1..(k - 1)])
    BY <1>5, <1>13, <2>1, <2>2
  <2> QED
    BY <2>2, <2>3 DEF Op, B
<1> DEFINE A(k) == h[1..k]
           val(k) == bucket[k].budget.elided
<1>15. A(0) = 0
  <2>1. 1..0 = {}
    OBVIOUS
  <2> QED
    BY <1>13, <2>1
<1>16. \A k \in 1..4 : A(k) = A(k - 1) + val(k) /\ A(k) \in Int /\ val(k) \in Int
  BY <1>14
<1>17. A(4) = ElidedOf(bucket)
  BY <1>1, <1>2
<1> HIDE DEF A, val
<1>18. A(1) = val(1) /\ A(2) = val(1) + val(2) /\ A(3) = val(1) + val(2) + val(3) /\ A(4) = val(1) + val(2) + val(3) + val(4)
  <2>1. A(1) = A(0) + val(1) /\ A(2) = A(1) + val(2) /\ A(3) = A(2) + val(3) /\ A(4) = A(3) + val(4)
    BY <1>16
  <2>2. val(1) \in Int /\ val(2) \in Int /\ val(3) \in Int /\ val(4) \in Int
    BY <1>16
  <2> QED
    BY <1>15, <2>1, <2>2
<1> QED
  BY <1>17, <1>18 DEF val

\* A row of a search in a list, with the weight of its evidence.
Rowed(weighed, rows) == \E w : weighed = {Weigh(r, w[r]) : r \in rows}

LEMMA AreRowed ==
  ASSUME NEW rows
  PROVE  Rowed(Cited(rows), rows) /\ Rowed(Names(rows), rows) /\ Rowed(Sites(rows), rows)
<1> DEFINE cited == [r \in rows |-> Cardinality(r.evidence)]
           none == [r \in rows |-> 0]
           one == [r \in rows |-> 1]
<1>1. Cited(rows) = {Weigh(r, cited[r]) : r \in rows}
  BY DEF Cited
<1>2. Names(rows) = {Weigh(r, none[r]) : r \in rows}
  BY DEF Names
<1>3. Sites(rows) = {Weigh(r, one[r]) : r \in rows}
  BY DEF Sites
<1> HIDE DEF cited, none, one
<1> QED
  BY <1>1, <1>2, <1>3 DEF Rowed

\* A list that has room for n of its rows shows n of them.
LEMMA ShortList ==
  ASSUME NEW rows, NEW weighed, Weighed(weighed), Rowed(weighed, rows), NEW list, NEW n \in Nat,
         n <= Cardinality(Listed(list, <<>>, weighed))
  PROVE  LET b == List(Empty(NewBudget(n)), list, <<>>, weighed)
             all == Listed(list, <<>>, weighed)
         IN /\ b.rows \subseteq all /\ IsFiniteSet(all) /\ Cardinality(b.rows) = n
            /\ b.budget.spent = n /\ b.budget.elided = Cardinality(all) - n
<1> DEFINE all == Listed(list, <<>>, weighed)
           taken == Take(NewBudget(n), weighed)
           kept == taken.kept
           b == List(Empty(NewBudget(n)), list, <<>>, weighed)
           f == [k \in weighed |-> <<list, <<>>, k.row>>]
<1>1. NewBudget(n) \in Budgets(n) /\ NewBudget(n).spent = 0 /\ NewBudget(n).elided = 0
  BY DEF NewBudget, Budgets
<1>2. /\ kept \subseteq weighed /\ taken.budget \in Budgets(n) /\ IsFiniteSet(kept)
      /\ taken.budget.spent = Cardinality(kept)
      /\ taken.budget.elided = Cardinality(weighed) - Cardinality(kept)
  <2>1. Cardinality(kept) \in Nat => 0 + Cardinality(kept) = Cardinality(kept)
    OBVIOUS
  <2>2. IsFiniteSet(kept) => Cardinality(kept) \in Nat
    BY FS_CardinalityType
  <2> HIDE DEF taken
  <2>3. /\ kept \subseteq weighed /\ taken.budget \in Budgets(n) /\ IsFiniteSet(kept)
        /\ taken.budget.spent = 0 + Cardinality(kept)
        /\ taken.budget.elided = Cardinality(weighed) - Cardinality(kept)
    BY <1>1, TakeIs DEF taken
  <2> QED
    BY <2>1, <2>2, <2>3
<1>3. IsFiniteSet(weighed)
  BY DEF Weighed
<1>4. b.rows = Listed(list, <<>>, kept) /\ b.budget = taken.budget
  BY DEF List, Empty, Listed
<1> HIDE DEF taken, b
<1>5. \A k, l \in weighed : k.row = l.row => k = l
  BY DEF Rowed, Weigh
<1>6. \A s \in SUBSET weighed : Listed(list, <<>>, s) = {f[k] : k \in s}
  BY DEF Listed
<1>7. \A k, l \in weighed : f[k] = f[l] => k = l
  BY <1>5
<1> HIDE DEF f
<1>8. ASSUME NEW s \in SUBSET weighed
      PROVE  IsFiniteSet(Listed(list, <<>>, s)) /\ Cardinality(Listed(list, <<>>, s)) = Cardinality(s)
  <2> DEFINE T == Listed(list, <<>>, s)
             g == [k \in s |-> f[k]]
  <2>1. T = {f[k] : k \in s}
    BY <1>6
  <2> HIDE DEF T
  <2>2. g \in Bijection(s, T)
    BY <1>7, <2>1 DEF Bijection, Injection, Surjection, IsInjective
  <2>3. IsFiniteSet(s)
    BY <1>3, FS_Subset
  <2>4. ExistsBijection(s, T)
    BY <2>2 DEF ExistsBijection
  <2>5. IsFiniteSet(T) /\ Cardinality(T) = Cardinality(s)
    BY <2>3, <2>4, FS_Bijection
  <2> QED
    BY <2>5 DEF T
<1>9. IsFiniteSet(all) /\ Cardinality(all) = Cardinality(weighed)
  BY <1>8
<1>10. Cardinality(b.rows) = Cardinality(kept)
  BY <1>2, <1>4, <1>8
<1>11. b.rows \subseteq all
  BY <1>2, <1>4 DEF Listed
<1>12. Cardinality(kept) = n
  <2>1. Cardinality(kept) \in Nat /\ Cardinality(weighed) \in Nat
    BY <1>2, <1>3, FS_CardinalityType
  <2>2. Cardinality(kept) <= n
    BY <1>2 DEF Budgets
  <2>3. taken.budget.elided > 0 => Cardinality(kept) = n
    BY <1>2 DEF Budgets
  <2> QED
    BY <1>2, <1>9, <2>1, <2>2, <2>3
<1> QED
  BY <1>2, <1>4, <1>9, <1>10, <1>11, <1>12 DEF b

\* What a search can show: four lists of rows, and how many rows each has.
ListNames == <<"claims", "symbols", "unknowns", "files">>

Shelved(S, d) ==
    /\ d \in [1..4 -> Nat]
    /\ \A i \in 1..4 : IsFiniteSet(S[i]) /\ Cardinality(S[i]) = d[i] /\ \A r \in S[i] : r[1] = ListNames[i]

AllShelves(S) == S[1] \union S[2] \union S[3] \union S[4]

\* What it shows of them within an allowance.
Searched(told, L, S, d, room, B) ==
    /\ Level(L, d, room)
    /\ SumOf(room) = L \/ \A i \in 1..4 : room[i] = d[i]
    /\ told.budget = [limit |-> L, spent |-> SumOf(room), elided |-> SumOf(d) - SumOf(room)]
    /\ told.rows = AllShelves(B)
    /\ \A i \in 1..4 : B[i] \subseteq S[i] /\ Cardinality(B[i]) = room[i]

\* The rows that a search finds, with their weights.
Found(v, term, without) ==
    <<Cited({c \in v.claims : Matches(c.subject, term)}), Names({k \in Symbols(v.x) : Matches(k, term)}),
      Sites({u \in v.unknowns : Matches(u.subject, term)}),
      Names({f \in DOMAIN v.inventory.module : Matches(f, term) /\ Role(f) \notin without})>>

ShelvesOf(weighed) == [i \in 1..4 |-> Listed(ListNames[i], <<>>, weighed[i])]

FoundRows(v, term, without) ==
    <<{c \in v.claims : Matches(c.subject, term)}, {k \in Symbols(v.x) : Matches(k, term)},
      {u \in v.unknowns : Matches(u.subject, term)},
      {f \in DOMAIN v.inventory.module : Matches(f, term) /\ Role(f) \notin without}>>

LEMMA FoundAre ==
  ASSUME NEW v, Finite(v), NEW term, NEW without
  PROVE  LET rows == FoundRows(v, term, without)
             weighed == Found(v, term, without)
         IN \A i \in 1..4 : /\ Weighed(weighed[i]) /\ Rowed(weighed[i], rows[i])
                            /\ Cardinality(Listed(ListNames[i], <<>>, weighed[i])) = Cardinality(rows[i])
                            /\ Cardinality(rows[i]) \in Nat /\ IsFiniteSet(Listed(ListNames[i], <<>>, weighed[i]))
<1> DEFINE claims == {c \in v.claims : Matches(c.subject, term)}
           symbols == {k \in Symbols(v.x) : Matches(k, term)}
           unknowns == {u \in v.unknowns : Matches(u.subject, term)}
           files == {f \in DOMAIN v.inventory.module : Matches(f, term) /\ Role(f) \notin without}
           rows == FoundRows(v, term, without)
           weighed == Found(v, term, without)
<1>1. /\ rows[1] = claims /\ rows[2] = symbols /\ rows[3] = unknowns /\ rows[4] = files
      /\ weighed[1] = Cited(claims) /\ weighed[2] = Names(symbols) /\ weighed[3] = Sites(unknowns)
      /\ weighed[4] = Names(files)
  BY DEF FoundRows, Found
<1>2. /\ IsFiniteSet(claims) /\ IsFiniteSet(symbols) /\ IsFiniteSet(unknowns) /\ IsFiniteSet(files)
      /\ \A c \in claims : IsFiniteSet(c.evidence)
  <2>1. claims \in SUBSET v.claims /\ symbols \in SUBSET Symbols(v.x) /\ unknowns \in SUBSET v.unknowns
        /\ files \in SUBSET DOMAIN v.inventory.module
    OBVIOUS
  <2>2. \A c \in claims : IsFiniteSet(c.evidence)
    BY DEF Finite
  <2> HIDE DEF claims, symbols, unknowns, files
  <2>3. IsFiniteSet(claims)
    BY <2>1, FS_Subset DEF Finite
  <2>4. IsFiniteSet(symbols)
    BY <2>1, FS_Subset DEF Finite
  <2>5. IsFiniteSet(unknowns)
    BY <2>1, FS_Subset DEF Finite
  <2>6. IsFiniteSet(files)
    BY <2>1, FS_Subset DEF Finite
  <2> QED
    BY <2>2, <2>3, <2>4, <2>5, <2>6
<1> HIDE DEF claims, symbols, unknowns, files, rows, weighed
<1>3. Weighed(weighed[1]) /\ Weighed(weighed[2]) /\ Weighed(weighed[3]) /\ Weighed(weighed[4])
  BY <1>1, <1>2, CitedAre, NamesAre, SitesAre
<1>4. /\ Rowed(weighed[1], rows[1]) /\ Rowed(weighed[2], rows[2]) /\ Rowed(weighed[3], rows[3])
      /\ Rowed(weighed[4], rows[4])
  BY <1>1, AreRowed
<1>5. ASSUME NEW i \in 1..4
      PROVE  Weighed(weighed[i]) /\ Rowed(weighed[i], rows[i]) /\ IsFiniteSet(rows[i])
  <2>1. i = 1 \/ i = 2 \/ i = 3 \/ i = 4
    OBVIOUS
  <2> QED
    BY <1>1, <1>2, <1>3, <1>4, <2>1
<1>6. ASSUME NEW i \in 1..4
      PROVE  LET all == Listed(ListNames[i], <<>>, weighed[i]) IN
             Cardinality(all) = Cardinality(rows[i]) /\ IsFiniteSet(all) /\ Cardinality(rows[i]) \in Nat
  <2> DEFINE R == rows[i]
             W == weighed[i]
             list == ListNames[i]
             all == Listed(list, <<>>, W)
             g == [r \in R |-> <<list, <<>>, r>>]
  <2>1. Rowed(W, R) /\ IsFiniteSet(R)
    BY <1>5
  <2> HIDE DEF R, W, list
  <2>2. all = {<<list, <<>>, r>> : r \in R}
    <3>1. PICK w : W = {Weigh(r, w[r]) : r \in R}
      BY <2>1 DEF Rowed
    <3>2. \A r \in R : Weigh(r, w[r]).row = r
      BY DEF Weigh
    <3>3. all = {<<list, <<>>, k.row>> : k \in W}
      BY DEF Listed
    <3> HIDE DEF all
    <3> QED
      BY <3>1, <3>2, <3>3
  <2>3. g \in Bijection(R, all)
    BY <2>2 DEF Bijection, Injection, Surjection, IsInjective
  <2>4. ExistsBijection(R, all)
    BY <2>3 DEF ExistsBijection
  <2> HIDE DEF all
  <2>5. IsFiniteSet(all) /\ Cardinality(all) = Cardinality(R) /\ Cardinality(R) \in Nat
    BY <2>1, <2>4, FS_Bijection, FS_CardinalityType
  <2> QED
    BY <2>5 DEF all, R, W, list
<1> QED
  BY <1>5, <1>6 DEF rows, weighed

DemandsOf(rows) == <<Cardinality(rows[1]), Cardinality(rows[2]), Cardinality(rows[3]), Cardinality(rows[4])>>

\* The four lists of a search, of the room each has.
BucketsOf(weighed, room) ==
    <<List(Empty(NewBudget(room[1])), ListNames[1], <<>>, weighed[1]),
      List(Empty(NewBudget(room[2])), ListNames[2], <<>>, weighed[2]),
      List(Empty(NewBudget(room[3])), ListNames[3], <<>>, weighed[3]),
      List(Empty(NewBudget(room[4])), ListNames[4], <<>>, weighed[4])>>

LEMMA SearchIsBuckets ==
  ASSUME NEW v, NEW term, NEW without, NEW L
  PROVE  LET room == FairSplitBudget(L, DemandsOf(FoundRows(v, term, without)))
             bucket == BucketsOf(Found(v, term, without), room)
         IN QSearch(v, term, NewBudget(L), without)
               = [rows   |-> UNION {b.rows : b \in Range(bucket)},
                  budget |-> [NewBudget(L) EXCEPT !.spent = SpentOn(bucket), !.elided = ElidedOf(bucket)]]
  BY ZenonT(40) DEF QSearch, DemandsOf, FoundRows, Found, BucketsOf, ListNames, SpentOn, ElidedOf, NewBudget

LEMMA SearchIs ==
  ASSUME NEW v, Finite(v), NEW term, NEW without
  PROVE  \E S, d : /\ Shelved(S, d)
                   /\ \A L \in Nat : \E room, B :
                         Searched(QSearch(v, term, NewBudget(L), without), L, S, d, room, B)
<1> DEFINE rows == FoundRows(v, term, without)
           weighed == Found(v, term, without)
           d == DemandsOf(rows)
           S == ShelvesOf(weighed)
<1>1. \A i \in 1..4 : /\ Weighed(weighed[i]) /\ Rowed(weighed[i], rows[i])
                      /\ Cardinality(Listed(ListNames[i], <<>>, weighed[i])) = Cardinality(rows[i])
                      /\ Cardinality(rows[i]) \in Nat /\ IsFiniteSet(Listed(ListNames[i], <<>>, weighed[i]))
  BY FoundAre
<1>2. \A L \in Nat :
         LET bucket == BucketsOf(weighed, FairSplitBudget(L, d)) IN
         QSearch(v, term, NewBudget(L), without)
            = [rows   |-> UNION {b.rows : b \in Range(bucket)},
               budget |-> [NewBudget(L) EXCEPT !.spent = SpentOn(bucket), !.elided = ElidedOf(bucket)]]
  BY SearchIsBuckets
<1> HIDE DEF rows, weighed
<1>3. d \in [1..4 -> Nat] /\ \A i \in 1..4 : d[i] = Cardinality(rows[i])
  <2>1. Cardinality(rows[1]) \in Nat /\ Cardinality(rows[2]) \in Nat /\ Cardinality(rows[3]) \in Nat /\ Cardinality(rows[4]) \in Nat
    BY <1>1
  <2> QED
    BY <2>1 DEF DemandsOf
<1>4. \A i \in 1..4 : S[i] = Listed(ListNames[i], <<>>, weighed[i])
  BY DEF ShelvesOf
<1> HIDE DEF d, S
<1>5. Shelved(S, d)
  <2>1. \A i \in 1..4 : \A r \in S[i] : r[1] = ListNames[i]
    BY <1>4 DEF Listed
  <2> QED
    BY <1>1, <1>3, <1>4, <2>1 DEF Shelved
<1>6. ASSUME NEW L \in Nat
      PROVE  \E room, B : Searched(QSearch(v, term, NewBudget(L), without), L, S, d, room, B)
  <2> DEFINE room == FairSplitBudget(L, d)
             bucket == BucketsOf(weighed, room)
             B == [i \in 1..4 |-> bucket[i].rows]
             told == QSearch(v, term, NewBudget(L), without)
  <2>1. Level(L, d, room) /\ (SumOf(room) = L \/ \A i \in 1..4 : room[i] = d[i])
    BY <1>3, SplitIs
  <2>2. told = [rows   |-> UNION {b.rows : b \in Range(bucket)},
                budget |-> [NewBudget(L) EXCEPT !.spent = SpentOn(bucket), !.elided = ElidedOf(bucket)]]
    BY <1>2
  <2> HIDE DEF room, told
  <2>3. room \in [1..4 -> Nat] /\ \A i \in 1..4 : room[i] \in Nat /\ room[i] <= d[i] /\ d[i] \in Nat
    BY <1>3, <2>1 DEF Level
  <2>4. DOMAIN bucket = 1..4 /\ \A i \in 1..4 : bucket[i] = List(Empty(NewBudget(room[i])), ListNames[i], <<>>, weighed[i])
    BY DEF BucketsOf
  <2> HIDE DEF bucket
  <2>5. ASSUME NEW i \in 1..4
        PROVE  /\ bucket[i].rows \subseteq S[i] /\ Cardinality(bucket[i].rows) = room[i]
               /\ bucket[i].budget.spent = room[i] /\ bucket[i].budget.elided = d[i] - room[i]
    <3> DEFINE n == room[i]
               list == ListNames[i]
               W == weighed[i]
               R == rows[i]
    <3>1. /\ Weighed(W) /\ Rowed(W, R) /\ n \in Nat /\ n <= Cardinality(Listed(list, <<>>, W))
          /\ Cardinality(Listed(list, <<>>, W)) = d[i]
      BY <1>1, <1>3, <2>3
    <3> HIDE DEF n, list, W, R
    <3>2. LET b == List(Empty(NewBudget(n)), list, <<>>, W)
              all == Listed(list, <<>>, W)
          IN /\ b.rows \subseteq all /\ IsFiniteSet(all) /\ Cardinality(b.rows) = n
             /\ b.budget.spent = n /\ b.budget.elided = Cardinality(all) - n
      BY <3>1, ShortList
    <3>3. bucket[i] = List(Empty(NewBudget(n)), list, <<>>, W) /\ S[i] = Listed(list, <<>>, W)
      BY <1>4, <2>4 DEF n, list, W
    <3> QED
      BY <3>1, <3>2, <3>3 DEF n
  <2>6. SpentOn(bucket) = SumOf(room)
    <3>1. \A i \in 1..4 : bucket[i].budget.spent \in Int
      BY <2>3, <2>5
    <3>2. SpentOn(bucket) = bucket[1].budget.spent + bucket[2].budget.spent + bucket[3].budget.spent + bucket[4].budget.spent
      BY <2>4, <3>1, SpentIs
    <3> QED
      BY <2>5, <3>2 DEF SumOf
  <2>7. ElidedOf(bucket) = SumOf(d) - SumOf(room)
    <3>1. \A i \in 1..4 : bucket[i].budget.elided \in Int
      BY <2>3, <2>5
    <3>2. ElidedOf(bucket) = bucket[1].budget.elided + bucket[2].budget.elided + bucket[3].budget.elided + bucket[4].budget.elided
      BY <2>4, <3>1, ElidedIs
    <3>3. ElidedOf(bucket) = (d[1] - room[1]) + (d[2] - room[2]) + (d[3] - room[3]) + (d[4] - room[4])
      BY <2>5, <3>2
    <3>4. /\ room[1] \in Nat /\ room[2] \in Nat /\ room[3] \in Nat /\ room[4] \in Nat
          /\ d[1] \in Nat /\ d[2] \in Nat /\ d[3] \in Nat /\ d[4] \in Nat
      BY <2>3
    <3> QED
      BY <3>3, <3>4 DEF SumOf
  <2>8. told.budget = [limit |-> L, spent |-> SumOf(room), elided |-> SumOf(d) - SumOf(room)]
    BY <2>2, <2>6, <2>7 DEF NewBudget
  <2>9. told.rows = AllShelves(B)
    <3>1. Range(bucket) = {bucket[1], bucket[2], bucket[3], bucket[4]}
      BY <2>4 DEF Range
    <3>2. UNION {b.rows : b \in Range(bucket)} = bucket[1].rows \union bucket[2].rows \union bucket[3].rows \union bucket[4].rows
      BY <3>1, Zenon
    <3>3. B[1] = bucket[1].rows /\ B[2] = bucket[2].rows /\ B[3] = bucket[3].rows /\ B[4] = bucket[4].rows
      OBVIOUS
    <3> QED
      BY <2>2, <3>2, <3>3 DEF AllShelves
  <2>10. \A i \in 1..4 : B[i] \subseteq S[i] /\ Cardinality(B[i]) = room[i]
    BY <2>5
  <2> HIDE DEF B
  <2>11. Searched(told, L, S, d, room, B)
    BY <2>1, <2>8, <2>9, <2>10 DEF Searched
  <2> QED
    BY <2>11 DEF told
<1> QED
  BY <1>5, <1>6

\* The rows of a part, and of all of it when the part has as many rows.
Shelves(told, L, S, d, room, B) ==
    /\ told.rows \subseteq AllShelves(S)
    /\ \A i \in 1..4 : /\ room[i] \in Nat /\ d[i] \in Nat /\ room[i] <= d[i]
                       /\ Cardinality({r \in told.rows : r[1] = ListNames[i]}) = room[i]
                       /\ room[i] = d[i] => B[i] = S[i]
    /\ SumOf(room) \in Nat /\ SumOf(d) \in Nat /\ SumOf(room) <= SumOf(d) /\ SumOf(room) <= L
    /\ SumOf(room) = SumOf(d) => \A i \in 1..4 : room[i] = d[i]
    /\ (\A i \in 1..4 : room[i] = d[i]) => told.rows = AllShelves(S)

LEMMA ShelvesAre ==
  ASSUME NEW S, NEW d, Shelved(S, d), NEW told, NEW L \in Nat, NEW room, NEW B, Searched(told, L, S, d, room, B)
  PROVE  Shelves(told, L, S, d, room, B)
<1>1. \A i \in 1..4 : room[i] \in Nat /\ d[i] \in Nat /\ room[i] <= d[i]
  BY DEF Shelved, Searched, Level
<1>2. \A i \in 1..4 : B[i] \subseteq S[i] /\ Cardinality(B[i]) = room[i] /\ \A r \in B[i] : r[1] = ListNames[i]
  BY DEF Shelved, Searched
<1>3. told.rows = AllShelves(B)
  BY DEF Searched
<1>4. ASSUME NEW i \in 1..4 PROVE {r \in told.rows : r[1] = ListNames[i]} = B[i]
  <2>1. \A r \in B[1] : r[1] = "claims"
    BY <1>2 DEF ListNames
  <2>2. \A r \in B[2] : r[1] = "symbols"
    BY <1>2 DEF ListNames
  <2>3. \A r \in B[3] : r[1] = "unknowns"
    BY <1>2 DEF ListNames
  <2>4. \A r \in B[4] : r[1] = "files"
    BY <1>2 DEF ListNames
  <2>5. told.rows = B[1] \union B[2] \union B[3] \union B[4]
    BY <1>3 DEF AllShelves
  <2>6. i = 1 \/ i = 2 \/ i = 3 \/ i = 4
    OBVIOUS
  <2> QED
    BY <2>1, <2>2, <2>3, <2>4, <2>5, <2>6 DEF ListNames
<1>5. ASSUME NEW i \in 1..4, room[i] = d[i] PROVE B[i] = S[i]
  <2>1. IsFiniteSet(S[i]) /\ Cardinality(S[i]) = d[i]
    BY DEF Shelved
  <2> QED
    BY <1>2, <1>5, <2>1, FS_Subset
<1>6. /\ SumOf(room) \in Nat /\ SumOf(d) \in Nat /\ SumOf(room) <= SumOf(d)
      /\ SumOf(room) = SumOf(d) => \A i \in 1..4 : room[i] = d[i]
  <2>1. /\ room[1] \in Nat /\ room[2] \in Nat /\ room[3] \in Nat /\ room[4] \in Nat
        /\ d[1] \in Nat /\ d[2] \in Nat /\ d[3] \in Nat /\ d[4] \in Nat
        /\ room[1] <= d[1] /\ room[2] <= d[2] /\ room[3] <= d[3] /\ room[4] <= d[4]
    BY <1>1
  <2>2. SumOf(room) = SumOf(d) => room[1] = d[1] /\ room[2] = d[2] /\ room[3] = d[3] /\ room[4] = d[4]
    <3> DEFINE a1 == room[1]
               a2 == room[2]
               a3 == room[3]
               a4 == room[4]
               b1 == d[1]
               b2 == d[2]
               b3 == d[3]
               b4 == d[4]
    <3>1. SumOf(room) = a1 + a2 + a3 + a4 /\ SumOf(d) = b1 + b2 + b3 + b4
      BY DEF SumOf
    <3>2. /\ a1 \in Nat /\ a2 \in Nat /\ a3 \in Nat /\ a4 \in Nat /\ b1 \in Nat /\ b2 \in Nat /\ b3 \in Nat /\ b4 \in Nat
          /\ a1 <= b1 /\ a2 <= b2 /\ a3 <= b3 /\ a4 <= b4
      BY <2>1
    <3> HIDE DEF a1, a2, a3, a4, b1, b2, b3, b4
    <3>3. SumOf(room) = SumOf(d) => a1 = b1 /\ a2 = b2 /\ a3 = b3 /\ a4 = b4
      BY <3>1, <3>2
    <3> QED
      BY <3>3 DEF a1, a2, a3, a4, b1, b2, b3, b4
  <2>3. \A i \in 1..4 : i = 1 \/ i = 2 \/ i = 3 \/ i = 4
    OBVIOUS
  <2>4. SumOf(room) = SumOf(d) => \A i \in 1..4 : room[i] = d[i]
    BY <2>2, <2>3
  <2> QED
    BY <2>1, <2>4 DEF SumOf
<1>7. told.rows \subseteq AllShelves(S)
  <2>1. B[1] \subseteq S[1] /\ B[2] \subseteq S[2] /\ B[3] \subseteq S[3] /\ B[4] \subseteq S[4]
    BY <1>2
  <2> QED
    BY <1>3, <2>1 DEF AllShelves
<1>8. (\A i \in 1..4 : room[i] = d[i]) => told.rows = AllShelves(S)
  <2> SUFFICES ASSUME \A i \in 1..4 : room[i] = d[i] PROVE told.rows = AllShelves(S)
    OBVIOUS
  <2>1. B[1] = S[1] /\ B[2] = S[2] /\ B[3] = S[3] /\ B[4] = S[4]
    BY <1>5
  <2> QED
    BY <1>3, <2>1 DEF AllShelves
<1>9. SumOf(room) <= L
  BY DEF Searched, Level
<1> QED
  BY <1>1, <1>2, <1>4, <1>5, <1>6, <1>7, <1>8, <1>9 DEF Shelves

LEMMA SearchTells ==
  ASSUME NEW v, Finite(v), NEW term, NEW without
  PROVE  \E U : \A L \in Nat : Tells(QSearch(v, term, NewBudget(L), without), U, L)
<1>1. PICK S, d : /\ Shelved(S, d)
                  /\ \A L \in Nat : \E room, B :
                        Searched(QSearch(v, term, NewBudget(L), without), L, S, d, room, B)
  BY SearchIs
<1>2. ASSUME NEW L \in Nat PROVE Tells(QSearch(v, term, NewBudget(L), without), AllShelves(S), L)
  <2> DEFINE told == QSearch(v, term, NewBudget(L), without)
  <2>1. PICK room, B : Searched(told, L, S, d, room, B)
    BY <1>1
  <2> HIDE DEF told
  <2>0. Shelves(told, L, S, d, room, B)
    BY <1>1, <2>1, ShelvesAre
  <2>2. /\ told.rows \subseteq AllShelves(S)
        /\ SumOf(room) \in Nat /\ SumOf(d) \in Nat /\ SumOf(room) <= SumOf(d) /\ SumOf(room) <= L
        /\ SumOf(room) = SumOf(d) => \A i \in 1..4 : room[i] = d[i]
        /\ (\A i \in 1..4 : room[i] = d[i]) => told.rows = AllShelves(S)
    BY <2>0 DEF Shelves
  <2>3. /\ told.budget = [limit |-> L, spent |-> SumOf(room), elided |-> SumOf(d) - SumOf(room)]
        /\ SumOf(room) = L \/ \A i \in 1..4 : room[i] = d[i]
    BY <2>1 DEF Searched
  <2>4. (\A i \in 1..4 : room[i] = d[i]) => SumOf(room) = SumOf(d)
    BY DEF SumOf
  <2>5. SumOf(d) - SumOf(room) \in Nat /\ SumOf(room) \in 0..L /\ (SumOf(d) - SumOf(room) > 0 => SumOf(room) = L)
    BY <2>2, <2>3, <2>4
  <2>6. told.budget \in Budgets(L)
    BY <2>3, <2>5 DEF Budgets
  <2>7. told.budget.elided = 0 => told.rows = AllShelves(S)
    BY <2>2, <2>3
  <2>8. Tells(told, AllShelves(S), L)
    BY <2>2, <2>6, <2>7 DEF Tells
  <2> QED
    BY <2>8 DEF told
<1> QED
  BY <1>2

(***************************************************************************)
(* Whatever is asked for.                                                  *)
(***************************************************************************)

\* An answer to a question whose complete rows are U, within an allowance.
Reports(told, kind, U, L) ==
    /\ told.budget \in Budgets(L)
    /\ told.budget.elided = 0 => told.rows = U
    /\ kind # "trace" => told.rows \subseteq U

LEMMA DispatchReports ==
  ASSUME NEW v, Finite(v), NEW kind \in Kinds, NEW term, NEW without
  PROVE  \E U : \A L \in Nat : Reports(Dispatch(v, kind, term, L, without), kind, U, L)
<1> USE DEF Tells, Reports
<1>1. CASE kind = "symbol"
  <2>1. \A L \in Nat : Dispatch(v, kind, term, L, without) = QSymbol(v, term, NewBudget(L), without)
    BY <1>1 DEF Dispatch
  <2>2. PICK U : \A L \in Nat : Tells(QSymbol(v, term, NewBudget(L), without), U, L)
    BY SymbolTells
  <2> QED
    BY <2>1, <2>2
<1>2. CASE kind = "file"
  <2>1. \A L \in Nat : Dispatch(v, kind, term, L, without) = QFile(v, term, NewBudget(L), without)
    BY <1>2 DEF Dispatch
  <2>2. PICK U : \A L \in Nat : Tells(QFile(v, term, NewBudget(L), without), U, L)
    BY FileTells
  <2> QED
    BY <2>1, <2>2
<1>3. CASE kind = "module"
  <2>1. \A L \in Nat : Dispatch(v, kind, term, L, without) = QModule(v, term, NewBudget(L))
    BY <1>3 DEF Dispatch
  <2>2. PICK U : \A L \in Nat : Tells(QModule(v, term, NewBudget(L)), U, L)
    BY ModuleTells
  <2> QED
    BY <2>1, <2>2
<1>4. CASE kind = "routes"
  <2>1. \A L \in Nat : Dispatch(v, kind, term, L, without) = QRoutes(v, term, NewBudget(L), without)
    BY <1>4 DEF Dispatch
  <2>2. PICK U : \A L \in Nat : Tells(QRoutes(v, term, NewBudget(L), without), U, L)
    BY RoutesTell
  <2> QED
    BY <2>1, <2>2
<1>5. CASE kind = "table"
  <2>1. \A L \in Nat : Dispatch(v, kind, term, L, without) = QTable(v, term, NewBudget(L), without)
    BY <1>5 DEF Dispatch
  <2>2. PICK U : \A L \in Nat : Tells(QTable(v, term, NewBudget(L), without), U, L)
    BY TableTells
  <2> QED
    BY <2>1, <2>2
<1>6. CASE kind = "config"
  <2>1. \A L \in Nat : Dispatch(v, kind, term, L, without) = QConfig(v, term, NewBudget(L), without)
    BY <1>6 DEF Dispatch
  <2>2. PICK U : \A L \in Nat : Tells(QConfig(v, term, NewBudget(L), without), U, L)
    BY ConfigTells
  <2> QED
    BY <2>1, <2>2
<1>7. CASE kind = "paths"
  <2>1. \A L \in Nat : Dispatch(v, kind, term, L, without) = QPaths(v, term, NewBudget(L))
    BY <1>7 DEF Dispatch
  <2>2. PICK U : \A L \in Nat : Tells(QPaths(v, term, NewBudget(L)), U, L)
    BY PathsTell
  <2> QED
    BY <2>1, <2>2
<1>8. CASE kind = "search"
  <2>1. \A L \in Nat : Dispatch(v, kind, term, L, without) = QSearch(v, term, NewBudget(L), without)
    BY <1>8 DEF Dispatch
  <2>2. PICK U : \A L \in Nat : Tells(QSearch(v, term, NewBudget(L), without), U, L)
    BY SearchTells
  <2> QED
    BY <2>1, <2>2
<1>9. CASE kind = "claims"
  <2>1. \A L \in Nat : Dispatch(v, kind, term, L, without) = QClaims(v, term, NewBudget(L), without)
    BY <1>9 DEF Dispatch
  <2>2. PICK U : \A L \in Nat : Tells(QClaims(v, term, NewBudget(L), without), U, L)
    BY ClaimsTell
  <2> QED
    BY <2>1, <2>2
<1>10. CASE kind = "unknowns"
  <2>1. \A L \in Nat : Dispatch(v, kind, term, L, without) = QUnknowns(v, NewBudget(L), without)
    BY <1>10 DEF Dispatch
  <2>2. PICK U : \A L \in Nat : Tells(QUnknowns(v, NewBudget(L), without), U, L)
    BY UnknownsTell
  <2> QED
    BY <2>1, <2>2
<1>11. CASE kind = "trace"
  <2>1. \A L \in Nat : Dispatch(v, kind, term, L, without) = QTrace(v, term, TraceHops, NewBudget(L), without)
    BY <1>11 DEF Dispatch
  <2>2. PICK U : \A L \in Nat : LET told == QTrace(v, term, TraceHops, NewBudget(L), without) IN
                                told.budget \in Budgets(L) /\ (told.budget.elided = 0 => told.rows = U)
    BY TraceHopsIsNumber, TraceTells
  <2> QED
    BY <1>11, <2>1, <2>2
<1> QED
  BY <1>1, <1>2, <1>3, <1>4, <1>5, <1>6, <1>7, <1>8, <1>9, <1>10, <1>11 DEF Kinds

\* The answer that is printed, and what a budget that suffices would have told.
LEMMA AnswerReports ==
  ASSUME PortalInv, answer # None
  PROVE  /\ answer.kind \in Kinds /\ answer.limit \in Nat
         /\ \E U : /\ Reports([rows |-> answer.rows, budget |-> [limit |-> answer.limit, spent |-> answer.spent,
                                                                 elided |-> answer.elided]],
                              answer.kind, U, answer.limit)
                   /\ Reports(Everything, answer.kind, U, Unlimited)
<1>1. view # None /\ IsAnswer(answer) /\ Finite(view)
  BY ViewIsFinite DEF PortalInv, AtlasInv
<1>2. PICK kind \in Kinds, term \in Terms, limit \in Limits, without \in RoleSets :
         LET told == Dispatch(view, kind, term, limit, without) IN
         answer = [kind |-> kind, term |-> term, limit |-> limit, without |-> without,
                   rows |-> told.rows, spent |-> told.budget.spent, elided |-> told.budget.elided]
  BY <1>1 DEF IsAnswer
<1>3. limit \in Nat /\ Unlimited \in Nat
  BY LimitsAreNumbers
<1>4. PICK U : \A L \in Nat : Reports(Dispatch(view, kind, term, L, without), kind, U, L)
  BY <1>1, DispatchReports
<1> DEFINE told == Dispatch(view, kind, term, limit, without)
<1>5. Reports(told, kind, U, limit)
  BY <1>3, <1>4
<1>6. Reports(Dispatch(view, kind, term, Unlimited, without), kind, U, Unlimited)
  BY <1>3, <1>4
<1>7. /\ answer.kind = kind /\ answer.term = term /\ answer.limit = limit /\ answer.without = without
      /\ answer.rows = told.rows /\ answer.spent = told.budget.spent /\ answer.elided = told.budget.elided
  BY <1>2
<1> HIDE DEF told
<1>8. Everything = Dispatch(view, kind, term, Unlimited, without)
  BY <1>7 DEF Everything
<1>9. told.budget = [limit |-> limit, spent |-> told.budget.spent, elided |-> told.budget.elided]
  BY <1>5 DEF Reports, Budgets
<1>10. Reports([rows |-> answer.rows, budget |-> [limit |-> answer.limit, spent |-> answer.spent,
                                                  elided |-> answer.elided]],
               answer.kind, U, answer.limit)
  BY <1>5, <1>7, <1>9 DEF Reports
<1> QED
  BY <1>3, <1>6, <1>7, <1>8, <1>10

\* The view and the answer of every state are well-formed: what is shown is of the commit
\* that was scanned or refreshed, and no allowance is overdrawn (cmd_scan, cmd_refresh and
\* cmd_query of cli.py; Budget of query.py).
THEOREM AtlasTypeOK == PortalSpec => []TypeOK
<1>1. ASSUME PortalInv PROVE TypeOK
  <2>1. head \in Commits
    BY <1>1 DEF PortalInv, AtlasInv
  <2>2. ASSUME view # None
        PROVE  /\ view.commit \in DOMAIN log
               /\ DOMAIN view.inventory.module = Tracked(Tree[view.commit])
               /\ DOMAIN view.x.files \subseteq Tracked(Tree[view.commit])
               /\ \A c \in view.claims : c.evidence # {} /\ c.evidence \subseteq Tracked(Tree[view.commit])
    <3>1. IsView(view, DOMAIN log)
      BY <1>1, <2>2 DEF PortalInv, AtlasInv
    <3>2. view.inventory = Inventory(Tree[view.commit])
      BY <3>1 DEF IsView, ViewOf
    <3>3. DOMAIN Inventory(Tree[view.commit]).module = Tracked(Tree[view.commit])
      BY DEF Inventory
    <3> QED
      BY <3>1, <3>2, <3>3 DEF IsView, Extracted
  <2>3. ASSUME answer # None PROVE answer.spent <= answer.limit
    <3>1. PICK U : Reports([rows |-> answer.rows, budget |-> [limit |-> answer.limit, spent |-> answer.spent,
                                                              elided |-> answer.elided]],
                           answer.kind, U, answer.limit)
      BY <1>1, <2>3, AnswerReports
    <3>2. answer.spent \in 0..answer.limit
      BY <3>1 DEF Reports, Budgets
    <3>3. answer.limit \in Nat
      BY <1>1, <2>3, AnswerReports
    <3> QED
      BY <3>2, <3>3
  <2> QED
    BY <2>1, <2>2, <2>3 DEF TypeOK
<1> QED
  BY <1>1, PortalHolds, PTL

\* No query leaves out a row without saying so, whatever it asks for and within whatever
\* allowance, if the larger budget does suffice (Budget of query.py: "a single honest number").
THEOREM NothingIsSilent == PortalSpec => []NothingSilent
<1>1. ASSUME PortalInv PROVE NothingSilent
  <2> SUFFICES ASSUME answer # None, Everything.budget.elided = 0
               PROVE  /\ answer.elided = 0 => answer.rows = Everything.rows
                      /\ answer.elided > 0 => answer.spent = answer.limit
                      /\ answer.kind # "trace" => answer.rows \subseteq Everything.rows
    BY DEF NothingSilent
  <2>1. PICK U : /\ Reports([rows |-> answer.rows, budget |-> [limit |-> answer.limit, spent |-> answer.spent,
                                                               elided |-> answer.elided]],
                            answer.kind, U, answer.limit)
                 /\ Reports(Everything, answer.kind, U, Unlimited)
    BY <1>1, AnswerReports
  <2>2. Everything.rows = U
    BY <2>1 DEF Reports
  <2>3. /\ answer.elided = 0 => answer.rows = U
        /\ answer.elided > 0 => answer.spent = answer.limit
        /\ answer.kind # "trace" => answer.rows \subseteq U
    BY <2>1 DEF Reports, Budgets
  <2> QED
    BY <2>2, <2>3
<1> QED
  BY <1>1, PortalHolds, PTL

LEMMA DisjointSum ==
  ASSUME NEW A, NEW B, IsFiniteSet(A), IsFiniteSet(B), A \intersect B = {}
  PROVE  IsFiniteSet(A \union B) /\ Cardinality(A \union B) = Cardinality(A) + Cardinality(B)
<1>1. Cardinality(A \intersect B) = 0
  BY FS_EmptySet
<1>2. Cardinality(A) \in Nat /\ Cardinality(B) \in Nat
  BY FS_CardinalityType
<1>3. IsFiniteSet(A \union B) /\ Cardinality(A \union B) = Cardinality(A) + Cardinality(B) - Cardinality(A \intersect B)
  BY FS_Union
<1> QED
  BY <1>1, <1>2, <1>3

LEMMA ShelvesCount ==
  ASSUME NEW S, NEW d, Shelved(S, d)
  PROVE  Cardinality(AllShelves(S)) = SumOf(d)
<1> DEFINE a == S[1]
           b == S[2]
           c == S[3]
           e == S[4]
<1>1. /\ \A r \in a : r[1] = "claims"
      /\ \A r \in b : r[1] = "symbols"
      /\ \A r \in c : r[1] = "unknowns"
      /\ \A r \in e : r[1] = "files"
  <2>1. \A i \in 1..4 : \A r \in S[i] : r[1] = ListNames[i]
    BY DEF Shelved
  <2>2. ListNames[1] = "claims" /\ ListNames[2] = "symbols" /\ ListNames[3] = "unknowns" /\ ListNames[4] = "files"
    BY DEF ListNames
  <2> QED
    BY <2>1, <2>2
<1>2. /\ IsFiniteSet(a) /\ IsFiniteSet(b) /\ IsFiniteSet(c) /\ IsFiniteSet(e)
      /\ Cardinality(a) = d[1] /\ Cardinality(b) = d[2] /\ Cardinality(c) = d[3] /\ Cardinality(e) = d[4]
      /\ d[1] \in Nat /\ d[2] \in Nat /\ d[3] \in Nat /\ d[4] \in Nat
  BY DEF Shelved
<1>3. AllShelves(S) = a \union b \union c \union e
  BY DEF AllShelves
<1> HIDE DEF a, b, c, e
<1>4. a \intersect b = {} /\ (a \union b) \intersect c = {} /\ (a \union b \union c) \intersect e = {}
  BY <1>1
<1>6. IsFiniteSet(a \union b) /\ Cardinality(a \union b) = d[1] + d[2]
  BY <1>2, <1>4, DisjointSum
<1>7. IsFiniteSet(a \union b \union c) /\ Cardinality(a \union b \union c) = d[1] + d[2] + d[3]
  <2> DEFINE ab == a \union b
  <2>1. IsFiniteSet(ab) /\ ab \intersect c = {} /\ Cardinality(ab) = d[1] + d[2]
    BY <1>4, <1>6
  <2> HIDE DEF ab
  <2>2. IsFiniteSet(ab \union c) /\ Cardinality(ab \union c) = Cardinality(ab) + Cardinality(c)
    BY <1>2, <2>1, DisjointSum
  <2>3. Cardinality(ab \union c) = d[1] + d[2] + d[3]
    BY <1>2, <2>1, <2>2
  <2> QED
    BY <2>2, <2>3 DEF ab
<1>8. Cardinality(a \union b \union c \union e) = d[1] + d[2] + d[3] + d[4]
  <2> DEFINE abc == a \union b \union c
  <2>1. IsFiniteSet(abc) /\ abc \intersect e = {} /\ Cardinality(abc) = d[1] + d[2] + d[3]
    BY <1>4, <1>7
  <2> HIDE DEF abc
  <2>2. Cardinality(abc \union e) = Cardinality(abc) + Cardinality(e)
    BY <1>2, <2>1, DisjointSum
  <2>3. Cardinality(abc \union e) = d[1] + d[2] + d[3] + d[4]
    BY <1>2, <2>1, <2>2
  <2> QED
    BY <2>3 DEF abc
<1> QED
  BY <1>3, <1>8 DEF SumOf

LEMMA LeastOfTwo ==
  ASSUME NEW x \in Nat, NEW y \in Nat, NEW z, z = x \/ z = y, z <= x, z <= y
  PROVE  z = Min({x, y})
<1> DEFINE T == {x, y}
<1>1. z \in T /\ \A t \in T : z <= t
  OBVIOUS
<1>2. \A m \in T : (\A t \in T : m <= t) => m = z
  BY <1>1
<1> HIDE DEF T
<1> QED
  BY <1>1, <1>2 DEF Min, T

\* However the allowance of a search is shared out, it is spent as far as there are rows, and no
\* list goes short for another that has two rows more (_fair_split_budget of query.py).
THEOREM SearchesAreFair == PortalSpec => []SearchIsFair
<1>1. ASSUME PortalInv PROVE SearchIsFair
  <2> SUFFICES ASSUME answer # None, answer.kind = "search", Everything.budget.elided = 0 PROVE SearchIsFair
    BY DEF SearchIsFair
  <2>1. Finite(view) /\ IsAnswer(answer)
    BY <1>1, ViewIsFinite DEF PortalInv, AtlasInv
  <2>2. PICK term \in Terms, limit \in Limits, without \in RoleSets :
           LET told == Dispatch(view, "search", term, limit, without) IN
           answer = [kind |-> "search", term |-> term, limit |-> limit, without |-> without,
                     rows |-> told.rows, spent |-> told.budget.spent, elided |-> told.budget.elided]
    BY <2>1 DEF IsAnswer
  <2>3. limit \in Nat /\ Unlimited \in Nat
    BY LimitsAreNumbers
  <2>4. \A L : Dispatch(view, "search", term, L, without) = QSearch(view, term, NewBudget(L), without)
    BY DEF Dispatch
  <2> DEFINE told == QSearch(view, term, NewBudget(limit), without)
             all == QSearch(view, term, NewBudget(Unlimited), without)
  <2>5. answer.rows = told.rows /\ answer.spent = told.budget.spent /\ answer.limit = limit
    BY <2>2, <2>4
  <2>6. Everything = all
    <3>1. answer.kind = "search" /\ answer.term = term /\ answer.without = without
      BY <2>2
    <3> QED
      BY <2>4, <3>1 DEF Everything
  <2>7. PICK S, d : /\ Shelved(S, d)
                    /\ \A L \in Nat : \E room, B :
                          Searched(QSearch(view, term, NewBudget(L), without), L, S, d, room, B)
    BY <2>1, SearchIs
  <2>8. PICK room, B : Searched(told, limit, S, d, room, B)
    BY <2>3, <2>7
  <2>9. PICK most, C : Searched(all, Unlimited, S, d, most, C)
    BY <2>3, <2>7
  <2> HIDE DEF told, all
  <2>10. Shelves(told, limit, S, d, room, B) /\ Shelves(all, Unlimited, S, d, most, C)
    BY <2>3, <2>7, <2>8, <2>9, ShelvesAre
  <2>11. \A i \in 1..4 : most[i] = d[i]
    <3>1. all.budget.elided = SumOf(d) - SumOf(most)
      BY <2>9 DEF Searched
    <3>2. SumOf(d) \in Nat /\ SumOf(most) \in Nat /\ (SumOf(most) = SumOf(d) => \A i \in 1..4 : most[i] = d[i])
      BY <2>10 DEF Shelves
    <3> QED
      BY <2>6, <3>1, <3>2
  <2>12. Everything.rows = AllShelves(S)
    BY <2>6, <2>10, <2>11 DEF Shelves
  <2>13. answer.spent = Min({answer.limit, Cardinality(Everything.rows)})
    <3>1. Cardinality(Everything.rows) = SumOf(d)
      BY <2>7, <2>12, ShelvesCount
    <3>2. SumOf(room) \in Nat /\ SumOf(d) \in Nat /\ SumOf(room) <= SumOf(d) /\ SumOf(room) <= limit
      BY <2>10 DEF Shelves
    <3>3. SumOf(room) = limit \/ SumOf(room) = SumOf(d)
      BY <2>8 DEF Searched, SumOf
    <3>4. SumOf(room) = Min({limit, SumOf(d)})
      BY <2>3, <3>2, <3>3, LeastOfTwo
    <3>5. answer.spent = SumOf(room)
      BY <2>5, <2>8 DEF Searched
    <3> QED
      BY <2>5, <3>1, <3>4, <3>5
  <2> DEFINE Rows(what, list) == Cardinality({r \in what.rows : r[1] = list})
             lists == {r[1] : r \in Everything.rows}
  <2>14. \A i \in 1..4 : Rows(answer, ListNames[i]) = room[i] /\ Rows(Everything, ListNames[i]) = d[i]
    <3>1. \A i \in 1..4 : Rows(told, ListNames[i]) = room[i] /\ Rows(all, ListNames[i]) = most[i]
      BY <2>10 DEF Shelves
    <3>2. \A i \in 1..4 : Rows(answer, ListNames[i]) = room[i]
      BY <2>5, <3>1
    <3>3. \A i \in 1..4 : Rows(Everything, ListNames[i]) = most[i]
      BY <2>6, <3>1
    <3> QED
      BY <2>11, <3>2, <3>3
  <2>15. \A list \in lists : \E i \in 1..4 : list = ListNames[i]
    <3>1. \A i \in 1..4 : \A r \in S[i] : r[1] = ListNames[i]
      BY <2>7 DEF Shelved
    <3>2. \A r \in AllShelves(S) : \E i \in 1..4 : r \in S[i]
      BY DEF AllShelves
    <3> QED
      BY <2>12, <3>1, <3>2
  <2> HIDE DEF Rows, lists
  <2>16. ASSUME NEW i \in 1..4, NEW j \in 1..4, room[i] < d[i] PROVE room[j] <= room[i] + 1
    <3>1. room[i] \in Nat /\ room[j] \in Nat
      BY <2>10 DEF Shelves
    <3>2. Level(limit, d, room)
      BY <2>8 DEF Searched
    <3>3. PICK c \in Nat :
             \/ \A k \in 1..4 : room[k] <= c /\ (room[k] < d[k] => room[k] = c)
             \/ \A k \in 1..4 : room[k] <= c + 1 /\ (room[k] < d[k] => room[k] >= c)
      BY <3>2 DEF Level
    <3>4. (room[j] <= c /\ room[i] = c) \/ (room[j] <= c + 1 /\ room[i] >= c)
      BY <2>16, <3>3
    <3> DEFINE x == room[i]
               y == room[j]
    <3>5. x \in Nat /\ y \in Nat /\ ((y <= c /\ x = c) \/ (y <= c + 1 /\ x >= c))
      BY <3>1, <3>4
    <3> HIDE DEF x, y
    <3>6. y <= x + 1
      BY <3>5
    <3> QED
      BY <3>6 DEF x, y
  <2>17. \A short, other \in lists :
            Rows(answer, short) < Rows(Everything, short) => Rows(answer, other) <= Rows(answer, short) + 1
    <3> SUFFICES ASSUME NEW short \in lists, NEW other \in lists, Rows(answer, short) < Rows(Everything, short)
                 PROVE  Rows(answer, other) <= Rows(answer, short) + 1
      OBVIOUS
    <3>1. PICK i \in 1..4 : short = ListNames[i]
      BY <2>15
    <3>2. PICK j \in 1..4 : other = ListNames[j]
      BY <2>15
    <3>3. Rows(answer, short) = room[i] /\ Rows(Everything, short) = d[i] /\ Rows(answer, other) = room[j]
      BY <2>14, <3>1, <3>2
    <3>4. room[i] < d[i]
      BY <3>3
    <3> QED
      BY <2>16, <3>3, <3>4
  <2> QED
    BY <2>13, <2>17 DEF SearchIsFair, Rows, lists
<1> QED
  BY <1>1, PortalHolds, PTL

(***************************************************************************)
(* The shortest paths: the frontier after n hops is what a walk of n edges *)
(* that visits nothing twice ends at, and the search stops at the first    *)
(* frontier with a sink.                                                   *)
(***************************************************************************)

\* The nodes one hop beyond a frontier, and the frontier after that hop.
Beyond(edges, before) == {e.target : e \in {f \in edges : f.source \in before.frontier}} \ before.seen

Further(edges, before) == [seen |-> before.seen \union Beyond(edges, before), frontier |-> Beyond(edges, before)]

OnlyStart(start) == [seen |-> {start}, frontier |-> {start}]

LEMMA FrontiersRun ==
  ASSUME NEW edges, NEW start, NEW hops \in Nat
  PROVE  Frontiers(edges, start, hops) =
            [n \in 0..hops |-> IF n = 0 THEN OnlyStart(start)
                               ELSE Further(edges, Frontiers(edges, start, hops)[n - 1])]
<1> DEFINE T == {start} \union {e.target : e \in edges}
           B == [seen : SUBSET T, frontier : SUBSET T]
           base == OnlyStart(start)
           step == [b \in B |-> Further(edges, b)]
           w == CHOOSE f : f = [n \in 0..hops |-> IF n = 0 THEN base ELSE Further(edges, f[n - 1])]
<1>1. Frontiers(edges, start, hops) = w
  BY DEF Frontiers, Further, Beyond, OnlyStart
<1>2. base \in B /\ \A b \in B : Further(edges, b) \in B
  BY DEF Further, Beyond, OnlyStart
<1> HIDE DEF B, base
<1>3. step \in [B -> B] /\ \A b \in B : step[b] = Further(edges, b)
  BY <1>2
<1> HIDE DEF step
<1>4. PICK h : h \in [0..hops -> B] /\ Runs(h, hops, B, base, step)
  BY <1>2, <1>3, StepsExist
<1>5. h = [n \in 0..hops |-> IF n = 0 THEN base ELSE Further(edges, h[n - 1])]
  <2>1. ASSUME NEW n \in 0..hops PROVE h[n] = IF n = 0 THEN base ELSE Further(edges, h[n - 1])
    <3>1. CASE n = 0
      BY <1>4, <3>1 DEF Runs
    <3>2. CASE n # 0
      <4>1. n \in 1..hops /\ n - 1 \in 0..hops
        BY <3>2
      <4> QED
        BY <1>3, <1>4, <3>2, <4>1 DEF Runs
    <3> QED
      BY <3>1, <3>2
  <2> QED
    BY <1>4, <2>1
<1>6. \E f : f = [n \in 0..hops |-> IF n = 0 THEN base ELSE Further(edges, f[n - 1])]
  <2> HIDE DEF w
  <2> QED
    BY <1>5
<1>7. w = [n \in 0..hops |-> IF n = 0 THEN base ELSE Further(edges, w[n - 1])]
  BY <1>6, Zenon
<1> HIDE DEF w
<1> QED
  BY <1>1, <1>7 DEF base

\* What n hops have seen and reached; how many more may follow makes no difference.
Reach(edges, start, n) == Frontiers(edges, start, n)[n]

LEMMA ReachIs ==
  ASSUME NEW edges, NEW start
  PROVE  /\ Reach(edges, start, 0) = OnlyStart(start)
         /\ \A n \in Nat \ {0} : Reach(edges, start, n) = Further(edges, Reach(edges, start, n - 1))
<1> DEFINE Same(k) == \A n \in Nat : k <= n => Frontiers(edges, start, n)[k] = Reach(edges, start, k)
           Bad == {k \in Nat : ~Same(k)}
<1>1. \A n \in Nat : Frontiers(edges, start, n)[0] = OnlyStart(start)
  <2> SUFFICES ASSUME NEW n \in Nat PROVE Frontiers(edges, start, n)[0] = OnlyStart(start)
    OBVIOUS
  <2> DEFINE w == Frontiers(edges, start, n)
  <2>1. w = [i \in 0..n |-> IF i = 0 THEN OnlyStart(start) ELSE Further(edges, w[i - 1])]
    BY FrontiersRun
  <2> HIDE DEF w
  <2>2. w[0] = OnlyStart(start)
    BY <2>1
  <2> QED
    BY <2>2 DEF w
<1>2. \A n \in Nat : \A k \in 1..n : Frontiers(edges, start, n)[k] = Further(edges, Frontiers(edges, start, n)[k - 1])
  <2> SUFFICES ASSUME NEW n \in Nat, NEW k \in 1..n
               PROVE  Frontiers(edges, start, n)[k] = Further(edges, Frontiers(edges, start, n)[k - 1])
    OBVIOUS
  <2> DEFINE w == Frontiers(edges, start, n)
  <2>1. w = [i \in 0..n |-> IF i = 0 THEN OnlyStart(start) ELSE Further(edges, w[i - 1])]
    BY FrontiersRun
  <2> HIDE DEF w
  <2>2. w[k] = Further(edges, w[k - 1])
    BY <2>1
  <2> QED
    BY <2>2 DEF w
<1>3. Bad = {}
  <2> SUFFICES ASSUME Bad # {} PROVE FALSE
    OBVIOUS
  <2>1. Bad \in SUBSET Nat
    OBVIOUS
  <2>2. PICK k \in Bad : \A j \in Bad : k <= j
    <3> HIDE DEF Bad
    <3>1. Min(Bad) \in Bad /\ \A j \in Bad : Min(Bad) <= j
      BY <2>1, LeastNumber
    <3> QED
      BY <3>1
  <2>3. PICK n \in Nat : k <= n /\ Frontiers(edges, start, n)[k] # Reach(edges, start, k)
    BY <2>2
  <2>4. k \in Nat
    BY <2>2
  <2>5. CASE k = 0
    BY <1>1, <2>3, <2>5 DEF Reach
  <2>6. CASE k # 0
    <3>1. k - 1 \in Nat /\ k - 1 \notin Bad
      <4> HIDE DEF Bad
      <4> QED
        BY <2>2, <2>4, <2>6
    <3>2. Same(k - 1)
      BY <3>1
    <3>3. Frontiers(edges, start, n)[k - 1] = Reach(edges, start, k - 1) /\ Frontiers(edges, start, k)[k - 1] = Reach(edges, start, k - 1)
      BY <2>3, <2>4, <3>1, <3>2
    <3>4. k \in 1..n /\ k \in 1..k
      BY <2>3, <2>4, <2>6
    <3> QED
      BY <1>2, <2>3, <2>4, <3>3, <3>4 DEF Reach
  <2> QED
    BY <2>5, <2>6
<1>4. ASSUME NEW n \in Nat \ {0} PROVE Reach(edges, start, n) = Further(edges, Reach(edges, start, n - 1))
  <2>1. n - 1 \in Nat /\ n - 1 <= n /\ n \in 1..n
    OBVIOUS
  <2>2. Same(n - 1)
    BY <1>3, <2>1
  <2> QED
    BY <1>2, <2>1, <2>2 DEF Reach
<1> QED
  BY <1>1, <1>4 DEF Reach

\* What was seen stays seen, and was reached at some hop, which is no later one.
LEMMA ReachGrows ==
  ASSUME NEW edges, NEW start
  PROVE  \A n \in Nat :
            /\ Reach(edges, start, n).frontier \subseteq Reach(edges, start, n).seen
            /\ Reach(edges, start, n).seen \subseteq Reach(edges, start, n + 1).seen
            /\ Reach(edges, start, n).seen \intersect Reach(edges, start, n + 1).frontier = {}
            /\ \A e \in edges : e.source \in Reach(edges, start, n).seen => e.target \in Reach(edges, start, n + 1).seen
            /\ \A node \in Reach(edges, start, n).seen : node = start \/ \E e \in edges : e.target = node
<1> DEFINE R(n) == Reach(edges, start, n)
           Ok(n) == /\ R(n).frontier \subseteq R(n).seen
                    /\ \A e \in edges : e.source \in R(n).seen => e.target \in R(n + 1).seen
                    /\ \A node \in R(n).seen : node = start \/ \E e \in edges : e.target = node
           Bad == {n \in Nat : ~Ok(n)}
<1>1. R(0).seen = {start} /\ R(0).frontier = {start}
  BY ReachIs DEF OnlyStart
<1>2. \A n \in Nat : /\ R(n + 1).frontier = Beyond(edges, R(n))
                     /\ R(n + 1).seen = R(n).seen \union Beyond(edges, R(n))
  <2> SUFFICES ASSUME NEW n \in Nat
               PROVE  /\ R(n + 1).frontier = Beyond(edges, R(n))
                      /\ R(n + 1).seen = R(n).seen \union Beyond(edges, R(n))
    OBVIOUS
  <2>1. n + 1 \in Nat \ {0} /\ (n + 1) - 1 = n
    OBVIOUS
  <2>2. R(n + 1) = Further(edges, R(n))
    BY <2>1, ReachIs
  <2> HIDE DEF R
  <2> QED
    BY <2>2 DEF Further
<1> HIDE DEF R
<1>3. \A n \in Nat : \A e \in edges : e.source \in R(n).frontier => e.target \in R(n + 1).seen
  BY <1>2 DEF Beyond
<1>4. Bad = {}
  <2> SUFFICES ASSUME Bad # {} PROVE FALSE
    OBVIOUS
  <2>1. Bad \in SUBSET Nat
    OBVIOUS
  <2>2. PICK k \in Bad : \A j \in Bad : k <= j
    <3> HIDE DEF Bad
    <3>1. Min(Bad) \in Bad /\ \A j \in Bad : Min(Bad) <= j
      BY <2>1, LeastNumber
    <3> QED
      BY <3>1
  <2>3. k \in Nat /\ ~Ok(k)
    BY <2>2
  <2>4. CASE k = 0
    BY <1>1, <1>3, <2>3, <2>4
  <2>5. CASE k # 0
    <3>1. k - 1 \in Nat /\ k - 1 \notin Bad /\ (k - 1) + 1 = k
      <4> HIDE DEF Bad
      <4> QED
        BY <2>2, <2>3, <2>5
    <3>2. Ok(k - 1)
      BY <3>1
    <3>3. R(k).frontier = Beyond(edges, R(k - 1)) /\ R(k).seen = R(k - 1).seen \union R(k).frontier
      BY <1>2, <3>1
    <3>4. \A e \in edges : e.source \in R(k).seen => e.target \in R(k + 1).seen
      <4>1. \A e \in edges : e.source \in R(k - 1).seen => e.target \in R(k).seen
        BY <3>1, <3>2
      <4> QED
        BY <1>2, <1>3, <2>3, <3>3, <4>1
    <3>5. \A node \in R(k).seen : node = start \/ \E e \in edges : e.target = node
      BY <3>2, <3>3 DEF Beyond
    <3> QED
      BY <2>3, <3>3, <3>4, <3>5
  <2> QED
    BY <2>4, <2>5
<1>5. \A n \in Nat : Ok(n)
  BY <1>4
<1>6. \A n \in Nat : R(n).seen \subseteq R(n + 1).seen /\ R(n).seen \intersect R(n + 1).frontier = {}
  BY <1>2 DEF Beyond
<1> QED
  BY <1>5, <1>6 DEF R

\* Where a walk has come to.
EndOf(source, t) == IF t = <<>> THEN source.source ELSE Last(t).target

LEMMA EndOfAppend ==
  ASSUME NEW S, NEW t \in Seq(S), NEW e \in S, NEW source
  PROVE  /\ EndOf(source, Append(t, e)) = e.target /\ Last(Append(t, e)) = e
         /\ Visited(source, Append(t, e)) = Visited(source, t) \union {e.target}
<1> DEFINE u == Append(t, e)
           n == Len(t)
<1>1. n \in Nat /\ u # <<>> /\ Len(u) = n + 1 /\ DOMAIN t = 1..n /\ DOMAIN u = 1..(n + 1)
      /\ u[n + 1] = e /\ \A i \in 1..n : u[i] = t[i]
  OBVIOUS
<1>2. Last(u) = e
  BY <1>1 DEF Last
<1>3. 1..(n + 1) = 1..n \union {n + 1}
  BY <1>1
<1> HIDE DEF u, n
<1>4. {u[i].target : i \in DOMAIN u} = {t[i].target : i \in DOMAIN t} \union {e.target}
  BY <1>1, <1>3
<1> QED
  BY <1>1, <1>2, <1>4 DEF EndOf, Visited, u

\* The edges along which a walk may go without coming to the sink or back to its start.
Clear(edges, start, sink) ==
    {e \in edges : /\ e.channel \in Traversable /\ ~IsLibrary(e.target)
                   /\ e.target \notin {start, sink}}

\* A walk that does not come to the sink is seen hop by hop.
LEMMA WalksAreSeen ==
  ASSUME NEW edges, IsFiniteSet(edges), NEW source, NEW w, Walking(w, edges, source), NEW sink
  PROVE  \A n \in 0..MaxHops : \A t \in w[n] :
            sink \notin Visited(source, t) =>
                EndOf(source, t) \in Reach(Clear(edges, source.source, sink), source.source, n).seen
<1> DEFINE F == Clear(edges, source.source, sink)
           seen(n) == Reach(F, source.source, n).seen
           Ok(n) == \A t \in w[n] : sink \notin Visited(source, t) => EndOf(source, t) \in seen(n)
           Bad == {n \in 0..MaxHops : ~Ok(n)}
<1>0. MaxHops \in Nat
  BY MaxHopsIsNumber
<1> SUFFICES ASSUME Bad # {} PROVE FALSE
  OBVIOUS
<1>1. Bad \in SUBSET Nat
  BY <1>0
<1>2. PICK k \in Bad : \A j \in Bad : k <= j
  <2> HIDE DEF Bad
  <2>1. Min(Bad) \in Bad /\ \A j \in Bad : Min(Bad) <= j
    BY <1>1, LeastNumber
  <2> QED
    BY <2>1
<1>3. k \in 0..MaxHops /\ ~Ok(k) /\ k \in Nat /\ w[k] = WalkOf(w, k, edges, source)
  <2>1. k \in 0..MaxHops /\ ~Ok(k)
    BY <1>2
  <2>2. w[k] = WalkOf(w, k, edges, source)
    BY <2>1 DEF Walking
  <2> QED
    BY <1>0, <2>1, <2>2
<1>4. CASE k = 0
  <2>1. w[k] = {<<>>}
    BY <1>3, <1>4 DEF WalkOf
  <2>2. seen(0) = {source.source}
    BY ReachIs DEF OnlyStart
  <2> HIDE DEF seen
  <2> QED
    BY <1>3, <1>4, <2>1, <2>2 DEF EndOf
<1>5. CASE k # 0
  <2>1. k - 1 \in 0..MaxHops /\ k - 1 \notin Bad /\ k - 1 \in Nat /\ (k - 1) + 1 = k
    <3> HIDE DEF Bad
    <3> QED
      BY <1>0, <1>2, <1>3, <1>5
  <2>2. Ok(k - 1)
    BY <2>1
  <2>3. w[k] = UNION {{Append(t, e) : e \in Onward(edges, source, t)} : t \in w[k - 1]}
    BY <1>3, <1>5 DEF WalkOf
  <2>4. \A e \in F : e.source \in seen(k - 1) => e.target \in seen(k)
    BY <2>1, ReachGrows
  <2> SUFFICES ASSUME NEW u \in w[k], sink \notin Visited(source, u) PROVE EndOf(source, u) \in seen(k)
    BY <1>3
  <2>5. PICK t \in w[k - 1] : \E e \in Onward(edges, source, t) : u = Append(t, e)
    BY <2>3
  <2>6. PICK e \in Onward(edges, source, t) : u = Append(t, e)
    BY <2>5
  <2>7. e \in edges /\ t \in Seq(edges)
    BY <2>1, <2>5, <2>6, WalksOfLength DEF Onward, IsWalk
  <2>8. EndOf(source, u) = e.target /\ Visited(source, u) = Visited(source, t) \union {e.target}
    BY <2>6, <2>7, EndOfAppend
  <2>9. e.source = EndOf(source, t) /\ e \in F
    BY <2>6, <2>8 DEF Onward, EndOf, Clear, Visited
  <2>10. EndOf(source, t) \in seen(k - 1)
    BY <2>2, <2>5, <2>8
  <2> HIDE DEF seen, F
  <2> QED
    BY <2>4, <2>8, <2>9, <2>10
<1> QED
  BY <1>4, <1>5

\* To what is reached at a hop leads a walk of as many edges, through what was seen.
LEMMA ReachedByWalk ==
  ASSUME NEW edges, IsFiniteSet(edges), NEW source, NEW w, Walking(w, edges, source), NEW sink
  PROVE  \A n \in 0..MaxHops : \A node \in Reach(Clear(edges, source.source, sink), source.source, n).frontier :
            \E t \in w[n] : /\ EndOf(source, t) = node
                            /\ Visited(source, t) \subseteq Reach(Clear(edges, source.source, sink), source.source, n).seen
<1> DEFINE F == Clear(edges, source.source, sink)
           R(n) == Reach(F, source.source, n)
           Ok(n) == \A node \in R(n).frontier :
                       \E t \in w[n] : EndOf(source, t) = node /\ Visited(source, t) \subseteq R(n).seen
           Bad == {n \in 0..MaxHops : ~Ok(n)}
<1>0. MaxHops \in Nat
  BY MaxHopsIsNumber
<1> SUFFICES ASSUME Bad # {} PROVE FALSE
  OBVIOUS
<1>1. Bad \in SUBSET Nat
  BY <1>0
<1>2. PICK k \in Bad : \A j \in Bad : k <= j
  <2> HIDE DEF Bad
  <2>1. Min(Bad) \in Bad /\ \A j \in Bad : Min(Bad) <= j
    BY <1>1, LeastNumber
  <2> QED
    BY <2>1
<1>3. k \in 0..MaxHops /\ ~Ok(k) /\ k \in Nat /\ w[k] = WalkOf(w, k, edges, source)
  BY <1>0, <1>2 DEF Walking
<1>4. CASE k = 0
  <2>1. w[k] = {<<>>}
    BY <1>3, <1>4 DEF WalkOf
  <2>2. R(0).seen = {source.source} /\ R(0).frontier = {source.source}
    BY ReachIs DEF OnlyStart
  <2>3. EndOf(source, <<>>) = source.source /\ Visited(source, <<>>) = {source.source}
    BY DEF EndOf, Visited
  <2> HIDE DEF R
  <2> QED
    BY <1>3, <1>4, <2>1, <2>2, <2>3
<1>5. CASE k # 0
  <2>1. k - 1 \in 0..MaxHops /\ k - 1 \notin Bad /\ k - 1 \in Nat /\ (k - 1) + 1 = k /\ k \in Nat \ {0}
    <3> HIDE DEF Bad
    <3> QED
      BY <1>0, <1>2, <1>3, <1>5
  <2>2. Ok(k - 1)
    BY <2>1
  <2>3. w[k] = UNION {{Append(t, e) : e \in Onward(edges, source, t)} : t \in w[k - 1]}
    BY <1>3, <1>5 DEF WalkOf
  <2>4. R(k) = Further(F, R(k - 1))
    BY <2>1, ReachIs
  <2> SUFFICES ASSUME NEW node \in R(k).frontier
               PROVE  \E t \in w[k] : EndOf(source, t) = node /\ Visited(source, t) \subseteq R(k).seen
    BY <1>3
  <2> HIDE DEF R
  <2>5. node \in Beyond(F, R(k - 1)) /\ R(k).seen = R(k - 1).seen \union Beyond(F, R(k - 1))
    BY <2>4 DEF Further
  <2>6. PICK e \in F : e.source \in R(k - 1).frontier /\ node = e.target /\ node \notin R(k - 1).seen
    BY <2>5 DEF Beyond
  <2>7. PICK t \in w[k - 1] : EndOf(source, t) = e.source /\ Visited(source, t) \subseteq R(k - 1).seen
    BY <2>2, <2>6
  <2>8. e \in Onward(edges, source, t)
    BY <2>6, <2>7 DEF Onward, EndOf, Clear
  <2>9. Append(t, e) \in w[k]
    BY <2>3, <2>8
  <2>10. e \in edges /\ t \in Seq(edges)
    BY <2>1, <2>8, WalksOfLength DEF Onward, IsWalk
  <2>11. EndOf(source, Append(t, e)) = e.target /\ Visited(source, Append(t, e)) = Visited(source, t) \union {e.target}
    BY <2>10, EndOfAppend
  <2> QED
    BY <2>5, <2>6, <2>7, <2>9, <2>11
<1> QED
  BY <1>4, <1>5

\* An effect that a source may have, once a walk of n edges has come to it.
EffectAt(edges, source, sink, n) ==
    \E e \in edges : /\ e.channel \in SinkChannels \intersect Traversable /\ ~IsLibrary(e.target)
                     /\ e.target = sink
                     /\ e.source \in Reach(Clear(edges, source.source, sink), source.source, n).seen

WalksTo(edges, source, sink) ==
    {t \in Walks(edges, source) : Last(t).channel \in SinkChannels /\ Last(t).target = sink}

ShownFor(edges, source, sink) == {p \in PathsFrom(edges, source) : p.sink = sink}

\* The walks to a sink, and how long they are.
LEMMA WalksToSink ==
  ASSUME NEW edges, IsFiniteSet(edges), NEW source, NEW sink, sink # source.source
  PROVE  /\ \A t \in WalksTo(edges, source, sink) : /\ Len(t) \in 1..MaxHops
                                                    /\ EffectAt(edges, source, sink, Len(t) - 1)
         /\ \A n \in 0..(MaxHops - 1) :
               EffectAt(edges, source, sink, n) /\ (\A m \in 0..(n - 1) : ~EffectAt(edges, source, sink, m)) =>
                   \E t \in WalksTo(edges, source, sink) : Len(t) = n + 1
<1> DEFINE To == WalksTo(edges, source, sink)
           F == Clear(edges, source.source, sink)
           R(n) == Reach(F, source.source, n)
<1>0. MaxHops \in Nat
  BY MaxHopsIsNumber
<1>1. PICK w : Walking(w, edges, source) /\ Walks(edges, source) = UNION {w[n] : n \in 1..MaxHops}
  BY WalksAreThose
<1>2. \A n \in 0..MaxHops : \A t \in w[n] : t \in Seq(edges) /\ Len(t) = n
  BY <1>1, WalksOfLength DEF IsWalk
<1>3. \A n \in 1..MaxHops : w[n] = UNION {{Append(t, e) : e \in Onward(edges, source, t)} : t \in w[n - 1]}
  <2> SUFFICES ASSUME NEW n \in 1..MaxHops
               PROVE  w[n] = UNION {{Append(t, e) : e \in Onward(edges, source, t)} : t \in w[n - 1]}
    OBVIOUS
  <2>1. n \in 0..MaxHops /\ n # 0
    BY <1>0
  <2>2. w[n] = WalkOf(w, n, edges, source)
    BY <1>1, <2>1 DEF Walking
  <2> QED
    BY <2>1, <2>2 DEF WalkOf
<1>4. ASSUME NEW u \in To
      PROVE  Len(u) \in 1..MaxHops /\ EffectAt(edges, source, sink, Len(u) - 1)
  <2>1. PICK n \in 1..MaxHops : u \in w[n]
    BY <1>1 DEF WalksTo
  <2>2. n - 1 \in 0..MaxHops /\ n \in 0..MaxHops /\ Len(u) = n
    BY <1>0, <1>2, <2>1
  <2>3. PICK t \in w[n - 1] : \E e \in Onward(edges, source, t) : u = Append(t, e)
    BY <1>3, <2>1
  <2>4. PICK e \in Onward(edges, source, t) : u = Append(t, e)
    BY <2>3
  <2>5. e \in edges /\ t \in Seq(edges)
    BY <1>2, <2>2, <2>3, <2>4 DEF Onward
  <2>6. Last(u) = e
    BY <2>4, <2>5, EndOfAppend
  <2>7. e.channel \in SinkChannels /\ e.target = sink
    BY <2>6 DEF WalksTo
  <2>8. e.channel \in Traversable /\ ~IsLibrary(e.target) /\ sink \notin Visited(source, t) /\ e.source = EndOf(source, t)
    BY <2>4, <2>7 DEF Onward, EndOf
  <2>9. EndOf(source, t) \in R(n - 1).seen
    BY <1>1, <2>2, <2>3, <2>8, WalksAreSeen
  <2> HIDE DEF To
  <2> QED
    BY <2>2, <2>1, <2>5, <2>7, <2>8, <2>9 DEF EffectAt
<1>5. ASSUME NEW n \in 0..(MaxHops - 1), EffectAt(edges, source, sink, n),
             \A m \in 0..(n - 1) : ~EffectAt(edges, source, sink, m)
      PROVE  \E t \in To : Len(t) = n + 1
  <2>1. PICK e \in edges : /\ e.channel \in SinkChannels \intersect Traversable /\ ~IsLibrary(e.target)
                           /\ e.target = sink /\ e.source \in R(n).seen
    BY <1>5 DEF EffectAt
  <2>2. n \in Nat /\ n \in 0..MaxHops /\ n + 1 \in 1..MaxHops /\ (n + 1) - 1 = n
    BY <1>0
  <2>3. e.source \in R(n).frontier
    <3>1. CASE n = 0
      <4>1. R(0).seen = {source.source} /\ R(0).frontier = {source.source}
        BY ReachIs DEF OnlyStart
      <4> QED
        BY <2>1, <3>1, <4>1
    <3>2. CASE n # 0
      <4>1. n - 1 \in 0..(n - 1) /\ n \in Nat \ {0}
        BY <2>2, <3>2
      <4>2. e.source \notin R(n - 1).seen
        BY <1>5, <2>1, <4>1 DEF EffectAt
      <4>3. R(n) = Further(F, R(n - 1))
        BY <4>1, ReachIs
      <4> HIDE DEF R
      <4> QED
        BY <2>1, <4>2, <4>3 DEF Further
    <3> QED
      BY <3>1, <3>2
  <2>4. PICK t \in w[n] : EndOf(source, t) = e.source /\ Visited(source, t) \subseteq R(n).seen
    BY <1>1, <2>2, <2>3, ReachedByWalk
  <2>5. sink \notin R(n).seen
    <3>1. \A node \in R(n).seen : node = source.source \/ \E f \in F : f.target = node
      BY <2>2, ReachGrows
    <3> QED
      BY <3>1 DEF Clear
  <2>6. e \in Onward(edges, source, t)
    BY <2>1, <2>4, <2>5 DEF Onward, EndOf
  <2>7. Append(t, e) \in w[n + 1]
    <3> DEFINE m == n + 1
    <3>1. m \in 1..MaxHops /\ m - 1 = n
      BY <2>2
    <3>2. w[m] = UNION {{Append(u, f) : f \in Onward(edges, source, u)} : u \in w[m - 1]}
      BY <1>3, <3>1
    <3> HIDE DEF m
    <3>3. Append(t, e) \in w[m]
      BY <2>6, <3>1, <3>2
    <3> QED
      BY <3>3 DEF m
  <2>8. Append(t, e) \in Walks(edges, source) /\ Len(Append(t, e)) = n + 1
    BY <1>0, <1>1, <1>2, <2>2, <2>7
  <2>9. Last(Append(t, e)) = e
    BY <1>2, <2>2, EndOfAppend
  <2> QED
    BY <2>1, <2>8, <2>9 DEF WalksTo
<1> QED
  BY <1>4, <1>5

\* Of the walks to a sink a path is made of the shortest.
LEMMA PathToSink ==
  ASSUME NEW edges, IsFiniteSet(edges), NEW source, NEW sink
  PROVE  /\ WalksTo(edges, source, sink) = {} => ShownFor(edges, source, sink) = {}
         /\ WalksTo(edges, source, sink) # {} =>
               \E t \in WalksTo(edges, source, sink) :
                  /\ \A o \in WalksTo(edges, source, sink) : Len(t) <= Len(o)
                  /\ ShownFor(edges, source, sink) = {[source |-> source, sink |-> sink, hops |-> t]}
<1> DEFINE found == {t \in Walks(edges, source) : Last(t).channel \in SinkChannels}
           At(k) == {t \in found : Last(t).target = k}
           Sinks == {Last(t).target : t \in found}
           Short(k) == CHOOSE t \in At(k) : \A o \in At(k) : Len(t) <= Len(o)
           Path(k) == [source |-> source, sink |-> k, hops |-> Short(k)]
           To == WalksTo(edges, source, sink)
           shown == ShownFor(edges, source, sink)
<1>1. PathsFrom(edges, source) = {Path(k) : k \in Sinks}
  BY DEF PathsFrom
<1>2. At(sink) = To
  BY DEF WalksTo
<1>3. sink \in Sinks <=> To # {}
  BY DEF WalksTo
<1>4. \A t \in To : Len(t) \in Nat
  BY WalksAre
<1>5. ASSUME To # {} PROVE Short(sink) \in To /\ \A o \in To : Len(Short(sink)) <= Len(o)
  <2> DEFINE Lengths == {Len(t) : t \in To}
  <2>1. Lengths \in SUBSET Nat /\ Lengths # {}
    BY <1>4, <1>5
  <2>2. Min(Lengths) \in Lengths /\ \A n \in Lengths : Min(Lengths) <= n
    BY <2>1, LeastNumber
  <2>3. PICK t \in To : Len(t) = Min(Lengths)
    BY <2>2
  <2>4. \A o \in To : Len(t) <= Len(o)
    BY <2>2, <2>3
  <2> HIDE DEF At, To
  <2> QED
    BY <1>2, <2>3, <2>4
<1>6. \A k : Path(k).sink = k
  OBVIOUS
<1>7. shown = IF sink \in Sinks THEN {Path(sink)} ELSE {}
  <2> HIDE DEF Path, Sinks
  <2> QED
    BY <1>1, <1>6 DEF ShownFor
<1> DEFINE short == Short(sink)
<1>8. Path(sink) = [source |-> source, sink |-> sink, hops |-> short]
  OBVIOUS
<1>9. ASSUME To # {} PROVE short \in To /\ \A o \in To : Len(short) <= Len(o)
  BY <1>5, <1>9
<1> HIDE DEF Path, Sinks, To, short, At
<1> QED
  BY <1>3, <1>7, <1>8, <1>9 DEF To

\* Every effect that is within the hops has one path from a source, and that is as short as can be
\* (_trace and _dedupe_paths of cdp/dataflow.py, as query paths shows them).
THEOREM PathsAreTheShortest == PortalSpec => []PathsAreShortest
<1>1. ASSUME PortalInv PROVE PathsAreShortest
  <2> DEFINE Effects == {e \in view.edges : /\ e.channel \in SinkChannels \intersect Traversable
                                            /\ ~IsLibrary(e.target)}
             Reachable(s, sink, n) == \E e \in Effects : e.target = sink /\ e.source \in Within(view.edges, s.source, sink, n)
             Shown(s, sink) == {p \in Paths(view.edges) : p.source = s /\ p.sink = sink}
  <2> SUFFICES ASSUME answer # None, NEW s \in FlowSources(view.edges), NEW sink, sink # s.source
               PROVE  IF \E n \in 0..(MaxHops - 1) : Reachable(s, sink, n)
                      THEN /\ Cardinality(Shown(s, sink)) = 1
                           /\ \A p \in Shown(s, sink) :
                                 Len(p.hops) = 1 + Min({n \in 0..(MaxHops - 1) : Reachable(s, sink, n)})
                      ELSE Shown(s, sink) = {}
    BY DEF PathsAreShortest
  <2> DEFINE N == {n \in 0..(MaxHops - 1) : Reachable(s, sink, n)}
             To == WalksTo(view.edges, s, sink)
             shown == ShownFor(view.edges, s, sink)
  <2>0. MaxHops \in Nat
    BY MaxHopsIsNumber
  <2>1. IsFiniteSet(view.edges)
    BY <1>1, ViewIsFinite DEF PortalInv, AtlasInv, Finite
  <2>2. \A n \in Nat : Reachable(s, sink, n) <=> EffectAt(view.edges, s, sink, n)
    BY DEF Within, EffectAt, Reach, Clear
  <2>3. Shown(s, sink) = shown
    <3>1. \A r \in FlowSources(view.edges) : \A p \in PathsFrom(view.edges, r) : p.source = r
      BY <2>1, PathsFromAre
    <3> QED
      BY <3>1 DEF Paths, ShownFor
  <2> HIDE DEF Reachable, Shown
  <2>4. \A t \in To : Len(t) \in 1..MaxHops /\ EffectAt(view.edges, s, sink, Len(t) - 1)
    BY <2>1, WalksToSink
  <2>5. \A n \in 0..(MaxHops - 1) :
           EffectAt(view.edges, s, sink, n) /\ (\A m \in 0..(n - 1) : ~EffectAt(view.edges, s, sink, m)) =>
               \E t \in To : Len(t) = n + 1
    BY <2>1, WalksToSink
  <2>6. /\ To = {} => shown = {}
        /\ To # {} => \E t \in To : /\ \A o \in To : Len(t) <= Len(o)
                                    /\ shown = {[source |-> s, sink |-> sink, hops |-> t]}
    BY <2>1, PathToSink
  <2>7. \A t \in To : Len(t) - 1 \in N
    BY <2>0, <2>2, <2>4
  <2> HIDE DEF To, shown
  <2>8. CASE N = {}
    <3>1. To = {}
      BY <2>7, <2>8
    <3> QED
      BY <2>3, <2>6, <2>8, <3>1
  <2>9. CASE N # {}
    <3>1. Min(N) \in N /\ \A n \in N : Min(N) <= n
      <4>1. N \in SUBSET Nat
        BY <2>0
      <4> HIDE DEF N
      <4> QED
        BY <2>9, <4>1, LeastNumber
    <3> DEFINE least == Min(N)
    <3>2. least \in 0..(MaxHops - 1) /\ EffectAt(view.edges, s, sink, least)
      BY <2>0, <2>2, <3>1
    <3>3. \A m \in 0..(least - 1) : ~EffectAt(view.edges, s, sink, m)
      <4>1. \A m \in 0..(least - 1) : m \in 0..(MaxHops - 1) /\ m \in Nat /\ ~(least <= m)
        BY <2>0, <3>2
      <4>2. \A m \in 0..(least - 1) : m \notin N
        <5> HIDE DEF N
        <5> QED
          BY <3>1, <4>1
      <4> HIDE DEF least
      <4> QED
        BY <2>2, <4>1, <4>2
    <3> HIDE DEF least
    <3>4. PICK o \in To : Len(o) = least + 1
      BY <2>5, <3>2, <3>3
    <3>5. PICK t \in To : /\ \A u \in To : Len(t) <= Len(u)
                          /\ shown = {[source |-> s, sink |-> sink, hops |-> t]}
      BY <2>6, <3>4
    <3>6. Len(t) = least + 1
      <4>1. Len(t) \in Nat /\ Len(t) - 1 \in N /\ Len(t) <= Len(o)
        BY <2>0, <2>4, <2>7, <3>4, <3>5
      <4>2. least <= Len(t) - 1
        <5> HIDE DEF N
        <5> QED
          BY <3>1, <4>1 DEF least
      <4> QED
        BY <2>0, <3>2, <3>4, <4>1, <4>2
    <3>7. Cardinality(shown) = 1
      BY <3>5, FS_Singleton
    <3>8. \A p \in shown : Len(p.hops) = 1 + Min(N)
      <4>1. \A p \in shown : p.hops = t
        BY <3>5
      <4>2. least \in Nat /\ least = Min(N)
        BY <2>0, <3>2 DEF least
      <4> HIDE DEF N
      <4> QED
        BY <3>6, <4>1, <4>2
    <3>9. \E n \in 0..(MaxHops - 1) : Reachable(s, sink, n)
      BY <2>9
    <3> QED
      BY <2>3, <3>7, <3>8, <3>9
  <2> QED
    BY <2>8, <2>9
<1> QED
  BY <1>1, PortalHolds, PTL

(***************************************************************************)
(* The charts of groups.                                                   *)
(***************************************************************************)

\* A sum of how many there are in each part, one part after the other.
Adds(h, D, pick, part) ==
    /\ h[{}] = 0
    /\ \A s \in SUBSET D :
          s # {} /\ h[s \ {pick[s]}] \in Nat => h[s] = h[s \ {pick[s]}] + Cardinality(part[pick[s]])

InParts(part, D) ==
    /\ \A x \in D : IsFiniteSet(part[x])
    /\ \A x, y \in D : x # y => part[x] \intersect part[y] = {}

LEMMA SumIs ==
  ASSUME NEW D, IsFiniteSet(D), NEW pick, Picks(pick, D), NEW part, InParts(part, D),
         NEW h, Adds(h, D, pick, part)
  PROVE  IsFiniteSet(AllOf(part, D)) /\ h[D] = Cardinality(AllOf(part, D))
<1> DEFINE All(s) == AllOf(part, s)
           Ok(s) == IsFiniteSet(All(s)) /\ h[s] = Cardinality(All(s))
           Bad == {s \in SUBSET D : ~Ok(s)}
<1>1. Bad = {}
  <2> SUFFICES ASSUME Bad # {} PROVE FALSE
    OBVIOUS
  <2>1. PICK s \in Bad : \A t \in Bad : t \subseteq s => t = s
    <3>1. Bad \in SUBSET SUBSET D
      OBVIOUS
    <3> HIDE DEF Bad
    <3> QED
      BY <3>1, SmallestSet
  <2>2. s \in SUBSET D /\ ~Ok(s)
    BY <2>1
  <2>3. s # {}
    <3>1. All({}) = {}
      BY DEF AllOf
    <3>2. IsFiniteSet({}) /\ Cardinality({}) = 0
      BY FS_EmptySet
    <3> HIDE DEF All
    <3> QED
      BY <2>2, <3>1, <3>2 DEF Adds
  <2> DEFINE x == pick[s]
             t == s \ {x}
  <2>4. x \in s /\ x \in D /\ t \in SUBSET D /\ t \notin Bad
    BY <2>1, <2>2, <2>3 DEF Picks
  <2>5. Ok(t)
    BY <2>4
  <2>6. All(s) = All(t) \union part[x] /\ All(t) \intersect part[x] = {} /\ IsFiniteSet(part[x])
    BY <2>4 DEF AllOf, InParts
  <2>7. Cardinality(All(t)) \in Nat /\ h[t] \in Nat
    BY <2>5, FS_CardinalityType
  <2>8. h[s] = h[t] + Cardinality(part[x])
    BY <2>2, <2>3, <2>7 DEF Adds
  <2> HIDE DEF All, x, t
  <2>9. IsFiniteSet(All(s)) /\ Cardinality(All(s)) = Cardinality(All(t)) + Cardinality(part[x])
    BY <2>5, <2>6, DisjointSum
  <2> QED
    BY <2>2, <2>5, <2>8, <2>9
<1> QED
  BY <1>1

\* The counts of lines, where each line counts a part.
LEMMA CountsAdd ==
  ASSUME NEW lines, IsFiniteSet(lines), NEW part, InParts(part, lines),
         \A l \in lines : l.count = Cardinality(part[l])
  PROVE  FoldSet(LAMBDA l, n : n + l.count, 0, lines) = Cardinality(AllOf(part, lines))
<1> DEFINE D == lines
           B == Nat
           base == 0
           Op(x, b) == b + x.count
           pick == PickOf(D)
           step == [p \in D \X B |-> Op(p[1], p[2])]
           h == CHOOSE g : g = [s \in SUBSET D |-> IF s = {} THEN base ELSE LET x == CHOOSE y \in s : TRUE IN Op(x, g[s \ {x}])]
<1>1. FoldSet(LAMBDA l, n : n + l.count, 0, lines) = h[D]
  BY DEF FoldSet, MapThenFoldSet
<1>2. IsFiniteSet(D)
  OBVIOUS
<1>3. base \in B /\ \A x \in D, b \in B : Op(x, b) \in B
  BY FS_CardinalityType DEF InParts
<1> HIDE DEF B, Op
<1>4. step \in [D \X B -> B] /\ \A x \in D, b \in B : step[<<x, b>>] = Op(x, b)
  BY <1>3
<1> HIDE DEF step
<1>5. Picks(pick, D) /\ \A s \in SUBSET D : s # {} => pick[s] \in D /\ s \ {pick[s]} \in SUBSET D /\ pick[s] = CHOOSE y \in s : TRUE
  <2>1. Picks(pick, D)
    BY <1>2, PicksAny DEF pick
  <2>2. \A s \in SUBSET D : s # {} => pick[s] = CHOOSE y \in s : TRUE
    BY DEF pick, PickOf
  <2> QED
    BY <2>1, <2>2 DEF Picks
<1> HIDE DEF pick
<1>6. PICK w : Folding(w, D, base, pick, step)
  BY <1>2, <1>5, FoldExists
<1>7. \A s \in SUBSET D : w[s] \in B
  <2>1. Follows(w, D, B, base, pick, step)
    BY <1>6 DEF Folding, FoldOf, Follows
  <2> QED
    BY <1>2, <1>3, <1>4, <1>5, <2>1, FoldStays
<1>8. ASSUME NEW s \in SUBSET D
     PROVE  FoldOf(w, s, base, pick, step) = IF s = {} THEN base ELSE LET x == CHOOSE y \in s : TRUE IN Op(x, w[s \ {x}])
  <2>1. CASE s = {}
    BY <2>1 DEF FoldOf
  <2>2. CASE s # {}
    <3>1. step[<<pick[s], w[s \ {pick[s]}]>>] = Op(pick[s], w[s \ {pick[s]}])
      BY <1>4, <1>5, <1>7, <2>2
    <3> QED
      BY <1>5, <2>2, <3>1 DEF FoldOf
  <2> QED
    BY <2>1, <2>2
<1>9. \E f : f = [s \in SUBSET D |-> IF s = {} THEN base ELSE LET x == CHOOSE y \in s : TRUE IN Op(x, f[s \ {x}])]
  <2>1. w = [s \in SUBSET D |-> IF s = {} THEN base ELSE LET x == CHOOSE y \in s : TRUE IN Op(x, w[s \ {x}])]
    BY <1>6, <1>8 DEF Folding
  <2> HIDE DEF h
  <2> QED
    BY <2>1
<1>10. h = [s \in SUBSET D |-> IF s = {} THEN base ELSE LET x == CHOOSE y \in s : TRUE IN Op(x, h[s \ {x}])]
  BY <1>9, Zenon
<1> HIDE DEF h
<1>11. Follows(h, D, B, base, pick, step)
  <2>1. h[{}] = base
    BY <1>10
  <2>2. ASSUME NEW s \in SUBSET D, s # {}, h[s \ {pick[s]}] \in B
        PROVE  h[s] = step[<<pick[s], h[s \ {pick[s]}]>>]
    <3>1. h[s] = LET x == CHOOSE y \in s : TRUE IN Op(x, h[s \ {x}])
      BY <1>10, <2>2
    <3>2. h[s] = Op(pick[s], h[s \ {pick[s]}])
      BY <1>5, <2>2, <3>1
    <3> QED
      BY <1>4, <1>5, <2>2, <3>2
  <2> QED
    BY <2>1, <2>2 DEF Follows
<1>12. Adds(h, D, pick, part)
  <2> SUFFICES ASSUME NEW s \in SUBSET D, s # {}, h[s \ {pick[s]}] \in Nat
               PROVE  h[s] = h[s \ {pick[s]}] + Cardinality(part[pick[s]])
    BY <1>11 DEF Adds, Follows
  <2>1. pick[s] \in D /\ h[s] = step[<<pick[s], h[s \ {pick[s]}]>>]
    BY <1>5, <1>11 DEF Follows, B
  <2>2. step[<<pick[s], h[s \ {pick[s]}]>>] = Op(pick[s], h[s \ {pick[s]}])
    BY <1>4, <2>1 DEF B
  <2>3. pick[s].count = Cardinality(part[pick[s]]) /\ Cardinality(part[pick[s]]) \in Nat
    BY <2>1, FS_CardinalityType DEF InParts
  <2> QED
    BY <2>1, <2>2, <2>3 DEF Op
<1>13. InParts(part, D)
  OBVIOUS
<1>14. h[D] = Cardinality(AllOf(part, D))
  <2> HIDE DEF D
  <2> QED
    BY <1>2, <1>5, <1>12, <1>13, SumIs
<1> QED
  BY <1>1, <1>14

\* The members of nodes that share none.
LEMMA MembersAdd ==
  ASSUME NEW nodes, IsFiniteSet(nodes), NEW part, InParts(part, nodes),
         \A n \in nodes : part[n] = n.members
  PROVE  FoldSet(LAMBDA n, count : count + Cardinality(n.members), 0, nodes) = Cardinality(AllOf(part, nodes))
<1> DEFINE D == nodes
           B == Nat
           base == 0
           Op(x, b) == b + Cardinality(x.members)
           pick == PickOf(D)
           step == [p \in D \X B |-> Op(p[1], p[2])]
           h == CHOOSE g : g = [s \in SUBSET D |-> IF s = {} THEN base ELSE LET x == CHOOSE y \in s : TRUE IN Op(x, g[s \ {x}])]
<1>1. FoldSet(LAMBDA n, count : count + Cardinality(n.members), 0, nodes) = h[D]
  BY DEF FoldSet, MapThenFoldSet
<1>2. IsFiniteSet(D)
  OBVIOUS
<1>3. base \in B /\ \A x \in D, b \in B : Op(x, b) \in B
  BY FS_CardinalityType DEF InParts
<1> HIDE DEF B, Op
<1>4. step \in [D \X B -> B] /\ \A x \in D, b \in B : step[<<x, b>>] = Op(x, b)
  BY <1>3
<1> HIDE DEF step
<1>5. Picks(pick, D) /\ \A s \in SUBSET D : s # {} => pick[s] \in D /\ s \ {pick[s]} \in SUBSET D /\ pick[s] = CHOOSE y \in s : TRUE
  <2>1. Picks(pick, D)
    BY <1>2, PicksAny DEF pick
  <2>2. \A s \in SUBSET D : s # {} => pick[s] = CHOOSE y \in s : TRUE
    BY DEF pick, PickOf
  <2> QED
    BY <2>1, <2>2 DEF Picks
<1> HIDE DEF pick
<1>6. PICK w : Folding(w, D, base, pick, step)
  BY <1>2, <1>5, FoldExists
<1>7. \A s \in SUBSET D : w[s] \in B
  <2>1. Follows(w, D, B, base, pick, step)
    BY <1>6 DEF Folding, FoldOf, Follows
  <2> QED
    BY <1>2, <1>3, <1>4, <1>5, <2>1, FoldStays
<1>8. ASSUME NEW s \in SUBSET D
     PROVE  FoldOf(w, s, base, pick, step) = IF s = {} THEN base ELSE LET x == CHOOSE y \in s : TRUE IN Op(x, w[s \ {x}])
  <2>1. CASE s = {}
    BY <2>1 DEF FoldOf
  <2>2. CASE s # {}
    <3>1. step[<<pick[s], w[s \ {pick[s]}]>>] = Op(pick[s], w[s \ {pick[s]}])
      BY <1>4, <1>5, <1>7, <2>2
    <3> QED
      BY <1>5, <2>2, <3>1 DEF FoldOf
  <2> QED
    BY <2>1, <2>2
<1>9. \E f : f = [s \in SUBSET D |-> IF s = {} THEN base ELSE LET x == CHOOSE y \in s : TRUE IN Op(x, f[s \ {x}])]
  <2>1. w = [s \in SUBSET D |-> IF s = {} THEN base ELSE LET x == CHOOSE y \in s : TRUE IN Op(x, w[s \ {x}])]
    BY <1>6, <1>8 DEF Folding
  <2> HIDE DEF h
  <2> QED
    BY <2>1
<1>10. h = [s \in SUBSET D |-> IF s = {} THEN base ELSE LET x == CHOOSE y \in s : TRUE IN Op(x, h[s \ {x}])]
  BY <1>9, Zenon
<1> HIDE DEF h
<1>11. Follows(h, D, B, base, pick, step)
  <2>1. h[{}] = base
    BY <1>10
  <2>2. ASSUME NEW s \in SUBSET D, s # {}, h[s \ {pick[s]}] \in B
        PROVE  h[s] = step[<<pick[s], h[s \ {pick[s]}]>>]
    <3>1. h[s] = LET x == CHOOSE y \in s : TRUE IN Op(x, h[s \ {x}])
      BY <1>10, <2>2
    <3>2. h[s] = Op(pick[s], h[s \ {pick[s]}])
      BY <1>5, <2>2, <3>1
    <3> QED
      BY <1>4, <1>5, <2>2, <3>2
  <2> QED
    BY <2>1, <2>2 DEF Follows
<1>12. Adds(h, D, pick, part)
  <2> SUFFICES ASSUME NEW s \in SUBSET D, s # {}, h[s \ {pick[s]}] \in Nat
               PROVE  h[s] = h[s \ {pick[s]}] + Cardinality(part[pick[s]])
    BY <1>11 DEF Adds, Follows
  <2>1. pick[s] \in D /\ h[s] = step[<<pick[s], h[s \ {pick[s]}]>>]
    BY <1>5, <1>11 DEF Follows, B
  <2>2. step[<<pick[s], h[s \ {pick[s]}]>>] = Op(pick[s], h[s \ {pick[s]}])
    BY <1>4, <2>1 DEF B
  <2>3. Cardinality(pick[s].members) = Cardinality(part[pick[s]]) /\ Cardinality(part[pick[s]]) \in Nat
    BY <2>1, FS_CardinalityType DEF InParts
  <2> QED
    BY <2>1, <2>2, <2>3 DEF Op
<1>13. InParts(part, D)
  OBVIOUS
<1>14. h[D] = Cardinality(AllOf(part, D))
  <2> HIDE DEF D
  <2> QED
    BY <1>2, <1>5, <1>12, <1>13, SumIs
<1> QED
  BY <1>1, <1>14

\* The values of a function that counts parts.
LEMMA ValuesAdd ==
  ASSUME NEW f, IsFiniteSet(DOMAIN f), NEW part, InParts(part, DOMAIN f),
         \A x \in DOMAIN f : f[x] = Cardinality(part[x])
  PROVE  FoldFunction(+, 0, f) = Cardinality(AllOf(part, DOMAIN f))
<1> DEFINE D == DOMAIN f
           B == Nat
           base == 0
           Op(x, b) == f[x] + b
           pick == PickOf(D)
           step == [p \in D \X B |-> Op(p[1], p[2])]
           h == CHOOSE g : g = [s \in SUBSET D |-> IF s = {} THEN base ELSE LET x == CHOOSE y \in s : TRUE IN Op(x, g[s \ {x}])]
<1>1. FoldFunction(+, 0, f) = h[D]
  BY DEF FoldFunction, FoldFunctionOnSet, MapThenFoldSet
<1>2. IsFiniteSet(D)
  OBVIOUS
<1>3. base \in B /\ \A x \in D, b \in B : Op(x, b) \in B
  BY FS_CardinalityType DEF InParts
<1> HIDE DEF B, Op
<1>4. step \in [D \X B -> B] /\ \A x \in D, b \in B : step[<<x, b>>] = Op(x, b)
  BY <1>3
<1> HIDE DEF step
<1>5. Picks(pick, D) /\ \A s \in SUBSET D : s # {} => pick[s] \in D /\ s \ {pick[s]} \in SUBSET D /\ pick[s] = CHOOSE y \in s : TRUE
  <2>1. Picks(pick, D)
    BY <1>2, PicksAny DEF pick
  <2>2. \A s \in SUBSET D : s # {} => pick[s] = CHOOSE y \in s : TRUE
    BY DEF pick, PickOf
  <2> QED
    BY <2>1, <2>2 DEF Picks
<1> HIDE DEF pick
<1>6. PICK w : Folding(w, D, base, pick, step)
  BY <1>2, <1>5, FoldExists
<1>7. \A s \in SUBSET D : w[s] \in B
  <2>1. Follows(w, D, B, base, pick, step)
    BY <1>6 DEF Folding, FoldOf, Follows
  <2> QED
    BY <1>2, <1>3, <1>4, <1>5, <2>1, FoldStays
<1>8. ASSUME NEW s \in SUBSET D
     PROVE  FoldOf(w, s, base, pick, step) = IF s = {} THEN base ELSE LET x == CHOOSE y \in s : TRUE IN Op(x, w[s \ {x}])
  <2>1. CASE s = {}
    BY <2>1 DEF FoldOf
  <2>2. CASE s # {}
    <3>1. step[<<pick[s], w[s \ {pick[s]}]>>] = Op(pick[s], w[s \ {pick[s]}])
      BY <1>4, <1>5, <1>7, <2>2
    <3> QED
      BY <1>5, <2>2, <3>1 DEF FoldOf
  <2> QED
    BY <2>1, <2>2
<1>9. \E e : e = [s \in SUBSET D |-> IF s = {} THEN base ELSE LET x == CHOOSE y \in s : TRUE IN Op(x, e[s \ {x}])]
  <2>1. w = [s \in SUBSET D |-> IF s = {} THEN base ELSE LET x == CHOOSE y \in s : TRUE IN Op(x, w[s \ {x}])]
    BY <1>6, <1>8 DEF Folding
  <2> HIDE DEF h
  <2> QED
    BY <2>1
<1>10. h = [s \in SUBSET D |-> IF s = {} THEN base ELSE LET x == CHOOSE y \in s : TRUE IN Op(x, h[s \ {x}])]
  BY <1>9, Zenon
<1> HIDE DEF h
<1>11. Follows(h, D, B, base, pick, step)
  <2>1. h[{}] = base
    BY <1>10
  <2>2. ASSUME NEW s \in SUBSET D, s # {}, h[s \ {pick[s]}] \in B
        PROVE  h[s] = step[<<pick[s], h[s \ {pick[s]}]>>]
    <3>1. h[s] = LET x == CHOOSE y \in s : TRUE IN Op(x, h[s \ {x}])
      BY <1>10, <2>2
    <3>2. h[s] = Op(pick[s], h[s \ {pick[s]}])
      BY <1>5, <2>2, <3>1
    <3> QED
      BY <1>4, <1>5, <2>2, <3>2
  <2> QED
    BY <2>1, <2>2 DEF Follows
<1>12. Adds(h, D, pick, part)
  <2> SUFFICES ASSUME NEW s \in SUBSET D, s # {}, h[s \ {pick[s]}] \in Nat
               PROVE  h[s] = h[s \ {pick[s]}] + Cardinality(part[pick[s]])
    BY <1>11 DEF Adds, Follows
  <2>1. pick[s] \in D /\ h[s] = step[<<pick[s], h[s \ {pick[s]}]>>]
    BY <1>5, <1>11 DEF Follows, B
  <2>2. step[<<pick[s], h[s \ {pick[s]}]>>] = Op(pick[s], h[s \ {pick[s]}])
    BY <1>4, <2>1 DEF B
  <2>3. f[pick[s]] = Cardinality(part[pick[s]]) /\ Cardinality(part[pick[s]]) \in Nat
    BY <2>1, FS_CardinalityType DEF InParts
  <2> QED
    BY <2>1, <2>2, <2>3 DEF Op
<1>13. InParts(part, D)
  OBVIOUS
<1>14. h[D] = Cardinality(AllOf(part, D))
  <2> HIDE DEF D
  <2> QED
    BY <1>2, <1>5, <1>12, <1>13, SumIs
<1> QED
  BY <1>1, <1>14

(***************************************************************************)
(* The groups of a depth, and of the next.                                 *)
(***************************************************************************)

\* How many names of a path the group keeps.
CutAt(path, depth) == Min({depth, Len(path) - 1})

LEMMA CutIs ==
  ASSUME NEW path \in Seq(STRING), NEW depth \in Nat
  PROVE  LET k == CutAt(path, depth) IN
         k \in Int /\ k <= depth /\ k <= Len(path) - 1 /\ (k = depth \/ k = Len(path) - 1)
<1> DEFINE n == Len(path) - 1
<1>1. depth \in Int /\ n \in Int
  OBVIOUS
<1> HIDE DEF n
<1>2. {depth, n} = {depth, n, n}
  OBVIOUS
<1>3. LET m == Min({depth, n, n}) IN m \in Int /\ m <= depth /\ m <= n /\ (m = depth \/ m = n)
  BY <1>1, MinOfThree
<1> QED
  BY <1>2, <1>3 DEF CutAt, n

\* A file at the root or in one directory has one group at every depth.
LEMMA ShallowStays ==
  ASSUME NEW path \in Seq(STRING), Len(path) <= 2, NEW depth \in Nat \ {0}
  PROVE  PathGroup(path, depth + 1) = PathGroup(path, depth) /\ Len(PathGroup(path, depth)) = 1
<1>1. CASE Len(path) = 1
  BY <1>1 DEF PathGroup, RootLabel
<1>2. CASE Len(path) # 1
  <2>1. CutAt(path, depth) = Len(path) - 1 /\ CutAt(path, depth + 1) = Len(path) - 1
    <3>1. Len(path) \in Nat /\ depth + 1 \in Nat
      OBVIOUS
    <3> QED
      BY <1>2, <3>1, CutIs
  <2> DEFINE names == SubSeq(path, 1, Len(path) - 1)
  <2>2. PathGroup(path, depth + 1) = Directory(names) /\ PathGroup(path, depth) = Directory(names)
    BY <1>2, <2>1 DEF PathGroup, CutAt
  <2>3. CASE Len(path) = 2
    <3>1. Len(names) = 1
      BY <2>3
    <3> QED
      BY <2>2, <3>1 DEF Directory
  <2>4. CASE Len(path) = 0
    <3>1. names \in Seq(STRING) /\ Len(names) = 0
      BY <2>4
    <3>2. Len(<<"/">> \o names) = 1
      BY <3>1
    <3> QED
      BY <2>2, <3>1, <3>2 DEF Directory
  <2>5. Len(path) \in {0, 2}
    <3> DEFINE n == Len(path)
    <3>1. n \in Nat /\ n <= 2 /\ n # 1
      BY <1>2
    <3> HIDE DEF n
    <3>2. n \in {0, 2}
      BY <3>1
    <3> QED
      BY <3>2 DEF n
  <2> QED
    BY <2>3, <2>4, <2>5
<1> QED
  BY <1>1, <1>2

\* A file in two or more directories is in a group of several from the second depth on.
LEMMA DeepGroups ==
  ASSUME NEW path \in Seq(STRING), Len(path) >= 3, NEW depth \in Nat, depth >= 2
  PROVE  LET k == CutAt(path, depth) IN
         /\ k \in 2..(Len(path) - 1)
         /\ PathGroup(path, depth) = <<"/">> \o SubSeq(path, 1, k)
         /\ Len(PathGroup(path, depth)) = k + 1 /\ PathGroup(path, depth)[1] = "/"
         /\ \A i \in 1..k : PathGroup(path, depth)[i + 1] = path[i]
<1> DEFINE k == CutAt(path, depth)
           names == SubSeq(path, 1, k)
<1>0. Len(path) \in Nat
  OBVIOUS
<1>1. k \in 2..(Len(path) - 1)
  <2>1. k \in Int /\ k <= depth /\ k <= Len(path) - 1 /\ (k = depth \/ k = Len(path) - 1)
    BY CutIs
  <2> HIDE DEF k
  <2> QED
    BY <1>0, <2>1
<1>2. PathGroup(path, depth) = Directory(names)
  <2>1. Len(path) # 1
    <3> DEFINE n == Len(path)
    <3>1. n \in Nat /\ n >= 3
      BY <1>0
    <3> HIDE DEF n
    <3>2. n # 1
      BY <3>1
    <3> QED
      BY <3>2 DEF n
  <2> QED
    BY <2>1 DEF PathGroup, CutAt
<1> HIDE DEF k
<1>3. names \in Seq(STRING) /\ Len(names) = k /\ \A i \in 1..k : names[i] = path[i]
  BY <1>1
<1> HIDE DEF names
<1>4. Directory(names) = <<"/">> \o names
  BY <1>1, <1>3 DEF Directory
<1>5. Len(<<"/">> \o names) = k + 1 /\ (<<"/">> \o names)[1] = "/" /\ \A i \in 1..k : (<<"/">> \o names)[i + 1] = names[i]
  BY <1>1, <1>3
<1> QED
  BY <1>1, <1>2, <1>3, <1>4, <1>5 DEF k, names

\* One cut of two paths at a depth is one cut at the depth above.
LEMMA CutsRise ==
  ASSUME NEW n \in Int, n >= 3, NEW m \in Int, m >= 3, NEW depth \in Nat \ {0},
         NEW k \in Int, k <= depth + 1, k <= n - 1, k = depth + 1 \/ k = n - 1,
         k <= m - 1, k = depth + 1 \/ k = m - 1,
         NEW i \in Int, i <= depth, i <= n - 1, i = depth \/ i = n - 1,
         NEW j \in Int, j <= depth, j <= m - 1, j = depth \/ j = m - 1
  PROVE  i = j /\ i \in 1..k
<1>1. CASE k = depth + 1
  BY <1>1
<1>2. CASE k = n - 1 /\ k = m - 1
  BY <1>2
<1> QED
  BY <1>1, <1>2

\* Files in one group at a depth are in one group at the depth above.
LEMMA PathsRise ==
  ASSUME NEW p \in Seq(STRING), NEW q \in Seq(STRING), NEW depth \in Nat \ {0},
         PathGroup(p, depth + 1) = PathGroup(q, depth + 1)
  PROVE  PathGroup(p, depth) = PathGroup(q, depth)
<1>0. Len(p) \in Nat /\ Len(q) \in Nat /\ depth + 1 \in Nat /\ depth + 1 >= 2
  OBVIOUS
<1>1. CASE Len(p) <= 2 /\ Len(q) <= 2
  BY <1>1, ShallowStays
<1>2. CASE Len(p) >= 3 /\ Len(q) <= 2
  <2>1. Len(PathGroup(q, depth + 1)) = 1
    BY <1>2, ShallowStays
  <2> DEFINE k == CutAt(p, depth + 1)
             n == Len(p)
             l == Len(PathGroup(p, depth + 1))
  <2>2. k \in 2..(n - 1) /\ l = k + 1
    BY <1>0, <1>2, DeepGroups
  <2>3. l = 1 /\ n \in Nat
    BY <1>0, <2>1
  <2> HIDE DEF k, n, l
  <2> QED
    BY <2>2, <2>3
<1>3. CASE Len(p) <= 2 /\ Len(q) >= 3
  <2>1. Len(PathGroup(p, depth + 1)) = 1
    BY <1>3, ShallowStays
  <2> DEFINE k == CutAt(q, depth + 1)
             n == Len(q)
             l == Len(PathGroup(q, depth + 1))
  <2>2. k \in 2..(n - 1) /\ l = k + 1
    BY <1>0, <1>3, DeepGroups
  <2>3. l = 1 /\ n \in Nat
    BY <1>0, <2>1
  <2> HIDE DEF k, n, l
  <2> QED
    BY <2>2, <2>3
<1>4. CASE Len(p) >= 3 /\ Len(q) >= 3
  <2> DEFINE k == CutAt(p, depth + 1)
             c == CutAt(q, depth + 1)
             i == CutAt(p, depth)
             j == CutAt(q, depth)
             n == Len(p)
             m == Len(q)
             G == PathGroup(p, depth + 1)
  <2>1. k \in 2..(n - 1) /\ Len(G) = k + 1 /\ \A x \in 1..k : G[x + 1] = p[x]
    BY <1>0, <1>4, DeepGroups
  <2>2. c \in 2..(m - 1) /\ Len(G) = c + 1 /\ \A x \in 1..c : G[x + 1] = q[x]
    <3> DEFINE H == PathGroup(q, depth + 1)
    <3>1. c \in 2..(m - 1) /\ Len(H) = c + 1 /\ \A x \in 1..c : H[x + 1] = q[x]
      BY <1>0, <1>4, DeepGroups
    <3>2. G = H
      OBVIOUS
    <3> HIDE DEF G, H
    <3> QED
      BY <3>1, <3>2
  <2>3. k \in Int /\ k <= depth + 1 /\ k <= n - 1 /\ (k = depth + 1 \/ k = n - 1)
    BY <1>0, CutIs
  <2>4. c \in Int /\ c <= depth + 1 /\ c <= m - 1 /\ (c = depth + 1 \/ c = m - 1)
    BY <1>0, CutIs
  <2>5. i \in Int /\ i <= depth /\ i <= n - 1 /\ (i = depth \/ i = n - 1)
    BY <1>0, CutIs
  <2>6. j \in Int /\ j <= depth /\ j <= m - 1 /\ (j = depth \/ j = m - 1)
    BY <1>0, CutIs
  <2>7. n \in Int /\ m \in Int /\ n >= 3 /\ m >= 3 /\ n # 1 /\ m # 1
    <3>1. n \in Nat /\ m \in Nat /\ n >= 3 /\ m >= 3
      BY <1>0, <1>4
    <3> HIDE DEF n, m
    <3> QED
      BY <3>1
  <2> DEFINE l == Len(G)
  <2>8. PathGroup(p, depth) = Directory(SubSeq(p, 1, i)) /\ PathGroup(q, depth) = Directory(SubSeq(q, 1, j))
    BY <2>7 DEF PathGroup, CutAt
  <2>9. p \in Seq(STRING) /\ q \in Seq(STRING)
    OBVIOUS
  <2>10. l = k + 1 /\ l = c + 1
    BY <2>1, <2>2
  <2> HIDE DEF k, c, i, j, n, m, G, l
  <2>11. c = k
    BY <2>3, <2>4, <2>10
  <2>12. i = j /\ i \in 1..k
    <3>1. k <= m - 1 /\ (k = depth + 1 \/ k = m - 1)
      BY <2>4, <2>11
    <3> QED
      BY <2>3, <2>5, <2>6, <2>7, <3>1, CutsRise
  <2>13. \A x \in 1..i : p[x] = q[x]
    <3>1. 1..i \subseteq 1..k
      BY <2>3, <2>12
    <3> QED
      BY <2>1, <2>2, <2>11, <3>1
  <2>14. SubSeq(p, 1, i) = SubSeq(q, 1, i)
    <3>1. i \in Nat /\ i <= n /\ i <= m
      BY <2>3, <2>5, <2>6, <2>7, <2>12
    <3> QED
      BY <2>9, <2>13, <3>1 DEF n, m
  <2> QED
    BY <2>8, <2>12, <2>14
<1> QED
  BY <1>0, <1>1, <1>2, <1>3, <1>4

\* What every node has that a group is made of: an id, and the path of a file or none.
Placed(n) ==
    /\ n.id \in Name /\ n.id[1] # "/"
    /\ n.file = None \/ n.file \in Seq(STRING)

GroupAt(n, depth) == ContainerGroup(n.id, depth, n.file)

\* A node without a file is in a group that no file in several directories is in.
LEMMA LoneGroups ==
  ASSUME NEW m, Placed(m), m.file # None, NEW n, Placed(n), n.file = None, NEW depth \in Nat \ {0},
         GroupAt(m, depth + 1) = GroupAt(n, depth + 1)
  PROVE  GroupAt(m, depth) = GroupAt(n, depth)
<1>1. m.file \in Seq(STRING)
  BY DEF Placed
<1>2. GroupAt(n, depth + 1) = GroupAt(n, depth)
  BY DEF GroupAt, ContainerGroup
<1>3. \A d : GroupAt(m, d) = PathGroup(m.file, d)
  BY DEF GroupAt, ContainerGroup
<1>4. CASE Len(m.file) <= 2
  BY <1>1, <1>2, <1>3, <1>4, ShallowStays
<1>5. CASE Len(m.file) >= 3
  <2> DEFINE G == GroupAt(n, depth + 1)
  <2>1. G[1] = "/" /\ Len(G) >= 3
    <3>1. depth + 1 \in Nat /\ depth + 1 >= 2
      OBVIOUS
    <3>2. LET k == CutAt(m.file, depth + 1) IN
          k \in 2..(Len(m.file) - 1) /\ Len(PathGroup(m.file, depth + 1)) = k + 1
          /\ PathGroup(m.file, depth + 1)[1] = "/"
      BY <1>1, <1>5, <3>1, DeepGroups
    <3> QED
      BY <1>1, <1>3, <3>2
  <2>2. G = n.id \/ Len(G) = 1
    BY DEF GroupAt, ContainerGroup
  <2>3. G # n.id
    BY <2>1 DEF Placed
  <2> DEFINE l == Len(G)
  <2>4. l = 1 /\ l >= 3
    BY <2>1, <2>2, <2>3
  <2> HIDE DEF G, l
  <2> QED
    BY <2>4
<1>6. Len(m.file) \in Nat
  BY <1>1
<1> QED
  BY <1>4, <1>5, <1>6

LEMMA GroupsRise ==
  ASSUME NEW m, Placed(m), NEW n, Placed(n), NEW depth \in Nat \ {0},
         GroupAt(m, depth + 1) = GroupAt(n, depth + 1)
  PROVE  GroupAt(m, depth) = GroupAt(n, depth)
<1>1. CASE m.file # None /\ n.file # None
  <2>1. m.file \in Seq(STRING) /\ n.file \in Seq(STRING)
    BY <1>1 DEF Placed
  <2>2. \A d : GroupAt(m, d) = PathGroup(m.file, d) /\ GroupAt(n, d) = PathGroup(n.file, d)
    BY <1>1 DEF GroupAt, ContainerGroup
  <2> QED
    BY <2>1, <2>2, PathsRise
<1>2. CASE m.file # None /\ n.file = None
  BY <1>2, LoneGroups
<1>3. CASE m.file = None /\ n.file # None
  BY <1>3, LoneGroups
<1>4. CASE m.file = None /\ n.file = None
  <2>1. \A d, e : GroupAt(m, d) = GroupAt(m, e) /\ GroupAt(n, d) = GroupAt(n, e)
    BY <1>4 DEF GroupAt, ContainerGroup
  <2> QED
    BY <2>1
<1> QED
  BY <1>1, <1>2, <1>3, <1>4


(***************************************************************************)
(* The chart that the groups are made of.                                  *)
(***************************************************************************)

IsBase(chart) ==
    /\ IsFiniteSet(chart.nodes) /\ IsFiniteSet(chart.lines) /\ Closed(chart)
    /\ \A n \in chart.nodes : n.members = {n.id} /\ Placed(n)
    /\ \A m, n \in chart.nodes : m.id = n.id => m = n

\* A file that a node is drawn under is a path.
LEMMA SymbolFilesAre ==
  ASSUME NEW c \in Commits, NEW x, Extracted(x, Tree[c])
  PROVE  /\ \A key \in Symbols(x) : SymbolFile(x, key) \in Seq(STRING)
         /\ \A name : NearestFile(x, name) \in Seq(STRING) \union {None}
<1>1. ASSUME NEW key \in Symbols(x) PROVE SymbolFile(x, key) \in Seq(STRING)
  <2>1. \E r \in x.defines : r.fact.fqn = key
    BY DEF Symbols
  <2>2. \E r \in DefinersOf(x, key) : TRUE
    BY <2>1 DEF DefinersOf
  <2>3. PICK r \in DefinersOf(x, key) : r.file = SymbolFile(x, key)
    BY <2>2 DEF SymbolFile
  <2>4. r.file \in Tracked(Tree[c])
    BY <2>3, RowFacts DEF DefinersOf
  <2> QED
    BY <2>3, <2>4, TreeIsFinite DEF Name
<1>2. ASSUME NEW name PROVE NearestFile(x, name) \in Seq(STRING) \union {None}
  <2> DEFINE below == {s \in Symbols(x) : IsStrictPrefix(name, s)}
             first == CHOOSE s \in below : TRUE
  <2>1. below # {} => first \in Symbols(x)
    BY Zenon
  <2>2. NearestFile(x, name) = IF name \in Symbols(x) THEN SymbolFile(x, name)
                               ELSE IF below # {} THEN SymbolFile(x, first) ELSE None
    BY DEF NearestFile
  <2> HIDE DEF below, first
  <2> QED
    BY <1>1, <2>1, <2>2
<1> QED
  BY <1>1, <1>2

LEMMA OwnerFilesAre ==
  ASSUME NEW c \in Commits, NEW v, Extracted(v.x, Tree[c]), NEW id \in Name
  PROVE  OwnerFile(v, id) \in Seq(STRING) \union {None}
<1> DEFINE found == {n \in 1..(Dotted(id) - 1) : NearestFile(v.x, SubSeq(id, 1, n)) # None}
           owners == Owners(v, id)
           owner == CHOOSE s \in owners : TRUE
           near == NearestFile(v.x, SubSeq(id, 1, Max(found)))
<1>1. Tail(id) \in Seq(STRING)
  BY DEF Name
<1>2. owners # {} => SymbolFile(v.x, owner) \in Seq(STRING)
  <2>1. owners \subseteq Symbols(v.x)
    BY DEF Owners
  <2>2. owners # {} => owner \in owners
    BY Zenon
  <2> HIDE DEF owners, owner
  <2> QED
    BY <2>1, <2>2, SymbolFilesAre
<1>3. near \in Seq(STRING) \union {None} /\ NearestFile(v.x, id) \in Seq(STRING) \union {None}
  BY SymbolFilesAre
<1>4. OwnerFile(v, id) \in {Tail(id), None, near, NearestFile(v.x, id)} \/ (owners # {} /\ OwnerFile(v, id) = SymbolFile(v.x, owner))
  <2>1. OwnerFile(v, id) = IF TypeOf(id) \in PathTypes THEN Tail(id)
                           ELSE IF ~IsBare(id) THEN IF owners = {} THEN None ELSE SymbolFile(v.x, owner)
                           ELSE IF NearestFile(v.x, id) # None THEN NearestFile(v.x, id)
                           ELSE IF found # {} THEN near ELSE None
    BY DEF OwnerFile
  <2> HIDE DEF found, owners, owner, near
  <2> QED
    BY <2>1, Zenon
<1> HIDE DEF found, owners, owner, near
<1> QED
  BY <1>1, <1>2, <1>3, <1>4

\* No end of an edge is mistaken for a directory.
LEMMA NoSlash ==
  ASSUME NEW c \in Commits, NEW x, Extracted(x, Tree[c]), NEW e, OfRow(x, e) \/ OfImport(x, e)
  PROVE  e.source[1] # "/" /\ e.target[1] # "/"
<1>1. CASE OfRow(x, e)
  <2>1. PICK r \in x.ioEdges : e = Edge(r.fact.source, r.fact.target, r.fact.channel, r)
    BY <1>1 DEF OfRow
  <2>2. r.file \in DOMAIN x.files /\ r.fact \in x.files[r.file]["ioEdges"]
    BY DEF Extracted, Fields
  <2>3. PICK content \in DOMAIN Facts : x.files[r.file] = Facts[content] /\ Facts[content] # None
    BY <2>2 DEF Extracted
  <2>4. r.fact \in Facts[content].ioEdges
    BY <2>2, <2>3
  <2>5. e.source = r.fact.source /\ e.target = r.fact.target
    BY <2>1 DEF Edge
  <2>6. {e.source, e.target} \subseteq UNION {{f.source, f.target} : f \in Facts[content].ioEdges}
    BY <2>4, <2>5
  <2> QED
    BY <2>3, <2>6, SlashIsNoName
<1>2. CASE OfImport(x, e)
  <2>1. PICK u \in x.uses : /\ Primary(x, u.file) \notin {None, u.fact}
                            /\ e = Edge(Primary(x, u.file), u.fact, "call", u)
    BY <1>2 DEF OfImport
  <2>2. u.file \in DOMAIN x.files /\ u.fact \in x.files[u.file]["uses"]
    BY DEF Extracted, Fields
  <2>3. PICK content \in DOMAIN Facts : x.files[u.file] = Facts[content] /\ Facts[content] # None
    BY <2>2 DEF Extracted
  <2>4. u.fact \in Facts[content].uses /\ Primary(x, u.file) = Facts[content].primary
    BY <2>2, <2>3 DEF Primary
  <2>5. e.source = Primary(x, u.file) /\ e.target = u.fact
    BY <2>1 DEF Edge
  <2>6. {e.source, e.target} \subseteq Facts[content].uses \union ({Facts[content].primary} \ {None})
    BY <2>1, <2>4, <2>5
  <2> QED
    BY <2>3, <2>6, SlashIsNoName
<1> QED
  BY <1>1, <1>2

LEMMA BaseIs ==
  ASSUME NEW c \in Commits, NEW v, Extracted(v.x, Tree[c]), v.edges = FlowEdges(v.x, Uses(v.x)), NEW scope
  PROVE  IsBase(Scoped(v, scope))
<1> DEFINE sources == {e.source : e \in v.edges}
           targets == {e.target : e \in v.edges}
           ids == sources \union targets
           RoleAt(id) == IF id \in Symbols(v.x) THEN RoleOf(SymbolFile(v.x, id)) ELSE None
           node == [id \in ids |-> Node(id, TypeOf(id), OwnerFile(v, id), RoleAt(id), {id})]
           line == [e \in v.edges |-> Line(e.source, e.target, e.channel, 1)]
           whole == DataflowGraph(v)
<1>1. /\ IsFiniteSet(v.edges)
      /\ \A e \in v.edges : (OfRow(v.x, e) \/ OfImport(v.x, e)) /\ e.source \in Name /\ e.target \in Name
  BY EdgesAre
<1>2. \A id \in ids : id \in Name /\ id[1] # "/"
  <2>1. \A e \in v.edges : e.source[1] # "/" /\ e.target[1] # "/"
    BY <1>1, NoSlash
  <2> QED
    BY <1>1, <2>1
<1>3. whole.nodes = {node[id] : id \in ids} /\ whole.lines = {line[e] : e \in v.edges}
  BY DEF DataflowGraph, Chart
<1>4. IsFiniteSet(ids)
  <2> DEFINE s == [e \in v.edges |-> e.source]
             t == [e \in v.edges |-> e.target]
  <2>1. (\A id \in sources : \E e \in v.edges : id = s[e]) /\ (\A id \in targets : \E e \in v.edges : id = t[e])
    OBVIOUS
  <2> HIDE DEF sources, targets, s, t
  <2>2. IsFiniteSet(sources) /\ IsFiniteSet(targets)
    BY <1>1, <2>1, FiniteValues
  <2> QED
    BY <2>2, FS_Union
<1>5. \A id \in ids : node[id].id = id /\ node[id].members = {id} /\ node[id].file = OwnerFile(v, id)
  BY DEF Node
<1>6. \A e \in v.edges : line[e].source \in ids /\ line[e].target \in ids
  BY DEF Line
<1> HIDE DEF ids, node, line, whole
<1>7. IsFiniteSet(whole.nodes) /\ IsFiniteSet(whole.lines)
  <2>1. (\A n \in whole.nodes : \E id \in ids : n = node[id]) /\ (\A l \in whole.lines : \E e \in v.edges : l = line[e])
    BY <1>3
  <2> QED
    BY <1>1, <1>4, <2>1, FiniteValues
<1>8. \A n \in whole.nodes : n.members = {n.id} /\ Placed(n)
  <2> TAKE n \in whole.nodes
  <2>1. PICK id \in ids : n = node[id]
    BY <1>3
  <2>2. n.id = id /\ n.members = {id} /\ n.file \in Seq(STRING) \union {None} /\ id \in Name /\ id[1] # "/"
    BY <1>2, <1>5, <2>1, OwnerFilesAre
  <2> QED
    BY <2>2 DEF Placed
<1>9. \A m, n \in whole.nodes : m.id = n.id => m = n
  BY <1>3, <1>5
<1>10. Closed(whole)
  BY <1>3, <1>5, <1>6 DEF Closed, Ids
<1>11. ASSUME NEW part, part.nodes \subseteq whole.nodes, part.lines \subseteq whole.lines, Closed(part)
       PROVE  IsBase(part)
  <2>1. IsFiniteSet(part.nodes) /\ IsFiniteSet(part.lines)
    BY <1>7, <1>11, FS_Subset
  <2> QED
    BY <1>8, <1>9, <1>11, <2>1 DEF IsBase
<1>12. CASE scope = None
  <2>1. Scoped(v, scope) = whole
    BY <1>12 DEF Scoped, whole
  <2> QED
    BY <1>10, <1>11, <2>1
<1>13. CASE scope # None
  <2>1. Scoped(v, scope) = RestrictToScope(whole, scope)
    BY <1>13 DEF Scoped, whole
  <2> DEFINE part == RestrictToScope(whole, scope)
  <2>2. part.nodes \subseteq whole.nodes /\ part.lines \subseteq whole.lines /\ Closed(part)
    BY <1>10, RestrictedIsPart
  <2> HIDE DEF part
  <2> QED
    BY <1>11, <2>1, <2>2 DEF part
<1> QED
  BY <1>12, <1>13

(***************************************************************************)
(* The groups of a chart, and the lines between them.                      *)
(***************************************************************************)

\* The types that a group can have.
GroupTypes == {"package"} \union DOMAIN BucketOf

\* What groups of a depth are of the nodes of a chart.
IsGrouping(groups, nodes, depth) ==
    /\ IsFiniteSet(groups)
    /\ \A g \in groups : /\ g.members = {n.id : n \in {m \in nodes : GroupAt(m, depth) = g.id}}
                         /\ g.type \in GroupTypes
                         /\ \E n \in nodes : GroupAt(n, depth) = g.id
    /\ \A n \in nodes : \E g \in groups : g.id = GroupAt(n, depth)
    /\ \A g, h \in groups : g.id = h.id => g = h

LEMMA PackagesAre ==
  ASSUME NEW nodes, IsFiniteSet(nodes), NEW depth
  PROVE  IsGrouping(Packages(nodes, depth), nodes, depth)
<1> DEFINE In(g) == {n \in nodes : GroupAt(n, depth) = g}
           Shared(roles) == IF Cardinality(roles) = 1 THEN CHOOSE r \in roles : TRUE ELSE None
           RoleIn(g) == Shared({n.role : n \in In(g)} \ {None})
           keys == {GroupAt(n, depth) : n \in nodes}
           of == [n \in nodes |-> GroupAt(n, depth)]
           group == [g \in keys |-> Node(g, PackageType(g), None, RoleIn(g), {n.id : n \in In(g)})]
           groups == Packages(nodes, depth)
<1>1. groups = {group[g] : g \in keys}
  BY DEF Packages, GroupAt
<1>2. \A g \in keys : group[g].id = g /\ group[g].type = PackageType(g) /\ group[g].members = {n.id : n \in In(g)}
  BY DEF Node
<1>3. ASSUME NEW g PROVE PackageType(g) \in GroupTypes
  <2> DEFINE named == {t \in DOMAIN BucketOf : g = <<BucketOf[t]>>}
  <2>1. CASE \E t \in DOMAIN BucketOf : g = <<BucketOf[t]>>
    <3>1. (CHOOSE t \in DOMAIN BucketOf : g = <<BucketOf[t]>>) \in DOMAIN BucketOf
      BY <2>1, Zenon
    <3>2. PackageType(g) = CHOOSE t \in DOMAIN BucketOf : g = <<BucketOf[t]>>
      BY <2>1, Zenon DEF PackageType
    <3> QED
      BY <3>1, <3>2, Zenon DEF GroupTypes
  <2>2. CASE ~\E t \in DOMAIN BucketOf : g = <<BucketOf[t]>>
    <3>1. PackageType(g) = "package"
      BY <2>2, Zenon DEF PackageType
    <3> QED
      BY <3>1, Zenon DEF GroupTypes
  <2> QED
    BY <2>1, <2>2
<1>4. IsFiniteSet(keys)
  <2>1. \A g \in keys : \E n \in nodes : g = of[n]
    OBVIOUS
  <2> HIDE DEF keys, of
  <2> QED
    BY <2>1, FiniteValues
<1>5. \A n \in nodes : GroupAt(n, depth) \in keys
  OBVIOUS
<1>6. \A g \in keys : \E n \in nodes : GroupAt(n, depth) = g
  OBVIOUS
<1> HIDE DEF keys, group, groups
<1>7. IsFiniteSet(groups)
  <2>1. \A g \in groups : \E k \in keys : g = group[k]
    BY <1>1
  <2> QED
    BY <1>4, <2>1, FiniteValues
<1>8. \A g \in groups : /\ g.members = {n.id : n \in In(g.id)}
                        /\ g.type \in GroupTypes
                        /\ \E n \in nodes : GroupAt(n, depth) = g.id
  BY <1>1, <1>2, <1>3, <1>6
<1>9. \A n \in nodes : \E g \in groups : g.id = GroupAt(n, depth)
  BY <1>1, <1>2, <1>5
<1>10. \A g, h \in groups : g.id = h.id => g = h
  BY <1>1, <1>2
<1> QED
  BY <1>7, <1>8, <1>9, <1>10 DEF IsGrouping, groups

\* Each node is a member of the one group that it belongs to.
LEMMA MembersShare ==
  ASSUME NEW base, IsBase(base), NEW depth, NEW groups, IsGrouping(groups, base.nodes, depth)
  PROVE  /\ \A g \in groups, n \in base.nodes : n.id \in g.members <=> GroupAt(n, depth) = g.id
         /\ UNION {g.members : g \in groups} = Ids(base)
         /\ \A g, h \in groups : g # h => g.members \intersect h.members = {}
         /\ IsFiniteSet(Ids(base)) /\ Cardinality(Ids(base)) = Cardinality(base.nodes)
<1>1. \A g \in groups, n \in base.nodes : n.id \in g.members <=> GroupAt(n, depth) = g.id
  BY DEF IsBase, IsGrouping
<1>2. \A g \in groups : g.members \subseteq Ids(base)
  BY DEF IsGrouping, Ids
<1>3. \A id \in Ids(base) : \E g \in groups : id \in g.members
  BY <1>1 DEF IsGrouping, Ids
<1>4. ASSUME NEW g \in groups, NEW h \in groups, NEW id \in g.members \intersect h.members
      PROVE  g = h
  <2>1. PICK n \in base.nodes : n.id = id
    BY <1>2, <1>4 DEF Ids
  <2>2. g.id = h.id
    BY <1>1, <1>4, <2>1
  <2> QED
    BY <2>2 DEF IsGrouping
<1>5. IsFiniteSet(Ids(base)) /\ Cardinality(Ids(base)) = Cardinality(base.nodes)
  <2> DEFINE f == [n \in base.nodes |-> n.id]
  <2>1. f \in Bijection(base.nodes, Ids(base))
    <3>1. Ids(base) = {f[n] : n \in base.nodes} /\ DOMAIN f = base.nodes
      BY DEF Ids
    <3>2. \A m, n \in base.nodes : f[m] = f[n] => m = n
      BY DEF IsBase
    <3>3. f \in [base.nodes -> Ids(base)]
      BY DEF Ids
    <3> HIDE DEF f
    <3> QED
      BY <3>1, <3>2, <3>3 DEF Bijection, Injection, Surjection, IsInjective
  <2>2. ExistsBijection(base.nodes, Ids(base))
    BY <2>1 DEF ExistsBijection
  <2>3. IsFiniteSet(base.nodes)
    BY DEF IsBase
  <2> QED
    BY <2>2, <2>3, FS_Bijection
<1> QED
  BY <1>1, <1>2, <1>3, <1>4, <1>5

\* The lines between groups end at groups.
EndsAmong(outer, groups) == \A o \in outer : \E g, h \in groups : g.id = o.source /\ h.id = o.target

\* The edges inside a group.
Inner(base, groups) == {l \in base.lines : \E g \in groups : {l.source, l.target} \subseteq g.members}

\* The edges of a chart whose ends are in two groups are those that the groups keep.
LEMMA OuterIs ==
  ASSUME NEW base, IsBase(base), NEW depth, NEW groups, IsGrouping(groups, base.nodes, depth)
  PROVE  LET outer == Outer(base, depth) IN
         /\ IsFiniteSet(outer) /\ Cardinality(outer) + Cardinality(Inner(base, groups)) = Cardinality(base.lines)
         /\ EndsAmong(outer, groups)
<1> DEFINE outer == Outer(base, depth)
           inner == Inner(base, groups)
           between == base.lines \ inner
           NodeAt(id) == CHOOSE n \in base.nodes : n.id = id
           Of(id) == ContainerGroup(id, depth, NodeAt(id).file)
           row == [l \in base.lines |-> [source |-> Of(l.source), target |-> Of(l.target), line |-> l]]
<1>1. outer = {k \in {row[l] : l \in base.lines} : k.source # k.target}
  BY DEF Outer
<1>2. ASSUME NEW n \in base.nodes PROVE Of(n.id) = GroupAt(n, depth)
  <2>1. \E m \in base.nodes : m.id = n.id
    OBVIOUS
  <2>2. NodeAt(n.id) \in base.nodes /\ NodeAt(n.id).id = n.id
    BY <2>1
  <2>3. NodeAt(n.id) = n
    BY <2>2 DEF IsBase
  <2> QED
    BY <2>3 DEF GroupAt
<1>3. \A l \in base.lines : \E m, n \in base.nodes : m.id = l.source /\ n.id = l.target
  BY DEF IsBase, Closed, Ids
<1>4. \A l \in base.lines : row[l].source = Of(l.source) /\ row[l].target = Of(l.target) /\ row[l].line = l
  OBVIOUS
<1> HIDE DEF row, Of
<1>5. ASSUME NEW l \in base.lines PROVE l \in inner <=> Of(l.source) = Of(l.target)
  <2>1. PICK m \in base.nodes, n \in base.nodes : m.id = l.source /\ n.id = l.target
    BY <1>3
  <2>2. PICK g \in groups : g.id = GroupAt(m, depth)
    BY DEF IsGrouping
  <2>3. \A h \in groups : (l.source \in h.members <=> GroupAt(m, depth) = h.id) /\ (l.target \in h.members <=> GroupAt(n, depth) = h.id)
    BY <2>1, MembersShare
  <2>4. Of(l.source) = GroupAt(m, depth) /\ Of(l.target) = GroupAt(n, depth)
    BY <1>2, <2>1
  <2> QED
    BY <2>2, <2>3, <2>4 DEF Inner
<1>6. outer = {row[l] : l \in between}
  BY <1>1, <1>4, <1>5
<1>7. EndsAmong(outer, groups)
  <2> SUFFICES ASSUME NEW o \in outer PROVE \E g, h \in groups : g.id = o.source /\ h.id = o.target
    BY DEF EndsAmong
  <2>1. PICK l \in base.lines : o = row[l]
    BY <1>1
  <2>2. PICK m \in base.nodes, n \in base.nodes : m.id = l.source /\ n.id = l.target
    BY <1>3
  <2>3. o.source = GroupAt(m, depth) /\ o.target = GroupAt(n, depth)
    BY <1>2, <1>4, <2>1, <2>2
  <2> QED
    BY <2>3 DEF IsGrouping
<1>8. IsFiniteSet(base.lines) /\ inner \in SUBSET base.lines /\ between \in SUBSET base.lines
  BY DEF IsBase, Inner
<1>9. inner \intersect between = {} /\ base.lines = between \union inner
  BY <1>8
<1>10. \A l \in between : row[l].line = l
  BY <1>4
<1> HIDE DEF inner, between, outer
<1>11. IsFiniteSet(inner) /\ IsFiniteSet(between)
  BY <1>8, FS_Subset
<1>12. Cardinality(base.lines) = Cardinality(between) + Cardinality(inner)
  BY <1>9, <1>11, DisjointSum
<1>13. IsFiniteSet(outer) /\ Cardinality(outer) = Cardinality(between)
  <2> DEFINE f == [l \in between |-> row[l]]
  <2>1. f \in Bijection(between, outer)
    <3>1. outer = {f[l] : l \in between}
      BY <1>6
    <3>2. \A l, k \in between : f[l] = f[k] => l = k
      BY <1>10
    <3>3. f \in [between -> outer]
      BY <3>1
    <3> HIDE DEF f
    <3> QED
      BY <3>1, <3>2, <3>3 DEF Bijection, Injection, Surjection, IsInjective
  <2>2. ExistsBijection(between, outer)
    BY <2>1 DEF ExistsBijection
  <2> QED
    BY <1>11, <2>2, FS_Bijection
<1> QED
  BY <1>7, <1>12, <1>13 DEF inner, outer

LEMMA OuterEnds ==
  ASSUME NEW base, IsBase(base), NEW depth
  PROVE  IsFiniteSet(Outer(base, depth)) /\ EndsAmong(Outer(base, depth), Packages(base.nodes, depth))
<1> DEFINE groups == Packages(base.nodes, depth)
<1>1. IsGrouping(groups, base.nodes, depth)
  <2>1. IsFiniteSet(base.nodes)
    BY DEF IsBase
  <2> QED
    BY <2>1, PackagesAre
<1> HIDE DEF groups
<1>2. IsFiniteSet(Outer(base, depth)) /\ EndsAmong(Outer(base, depth), groups)
  BY <1>1, OuterIs
<1> QED
  BY <1>2 DEF groups

\* The lines between groups count the edges that they stand for.
LEMMA LinesCount ==
  ASSUME NEW v, NEW depth, NEW scope, IsBase(Scoped(v, scope))
  PROVE  LET base == Scoped(v, scope)
             rolled == RollUp(v, depth, scope)
         IN /\ Closed(rolled)
            /\ FoldSet(LAMBDA l, n : n + l.count, 0, rolled.lines) = Cardinality(Outer(base, depth))
<1> DEFINE base == Scoped(v, scope)
           rolled == RollUp(v, depth, scope)
           outer == Outer(base, depth)
           lines == rolled.lines
           Alike(o) == {m \in outer : <<m.source, m.target, m.line.kind>> = <<o.source, o.target, o.line.kind>>}
           line == [o \in outer |-> Line(o.source, o.target, o.line.kind, Cardinality(Alike(o)))]
           Counted(l) == {m \in outer : <<m.source, m.target, m.line.kind>> = <<l.source, l.target, l.kind>>}
           part == [l \in lines |-> Counted(l)]
<1>1. rolled.nodes = Packages(base.nodes, depth) /\ lines = {line[o] : o \in outer}
  BY DEF RollUp, Chart
<1>2. \A o \in outer : /\ line[o].source = o.source /\ line[o].target = o.target /\ line[o].kind = o.line.kind
                       /\ line[o].count = Cardinality(Alike(o))
  BY DEF Line
<1>3. \A o \in outer : Counted(line[o]) = Alike(o)
  <2> HIDE DEF line
  <2> QED
    BY <1>2
<1>4. \A o, p \in outer : o \in Alike(p) => line[o] = line[p]
  <2> SUFFICES ASSUME NEW o \in outer, NEW p \in outer, o \in Alike(p) PROVE line[o] = line[p]
    OBVIOUS
  <2>1. o.source = p.source /\ o.target = p.target /\ o.line.kind = p.line.kind
    OBVIOUS
  <2>2. Alike(o) = Alike(p)
    BY <2>1
  <2> HIDE DEF Alike
  <2> QED
    BY <2>1, <2>2
<1> HIDE DEF line
<1>5. \A l \in lines : l.count = Cardinality(part[l])
  <2> TAKE l \in lines
  <2>1. PICK o \in outer : l = line[o]
    BY <1>1
  <2> QED
    BY <1>2, <1>3, <2>1
<1>6. \A l, k \in lines : l # k => part[l] \intersect part[k] = {}
  <2> SUFFICES ASSUME NEW l \in lines, NEW k \in lines, NEW m \in part[l] \intersect part[k] PROVE l = k
    OBVIOUS
  <2>1. PICK o \in outer, p \in outer : l = line[o] /\ k = line[p]
    BY <1>1
  <2>2. m \in Alike(o) /\ m \in Alike(p) /\ m \in outer
    BY <1>3, <2>1
  <2> HIDE DEF Alike
  <2> QED
    BY <1>4, <2>1, <2>2
<1>7. AllOf(part, lines) = outer
  <2>1. \A l \in lines : part[l] \subseteq outer
    OBVIOUS
  <2>2. ASSUME NEW o \in outer PROVE \E l \in lines : o \in part[l]
    <3>1. line[o] \in lines /\ o \in Counted(line[o])
      BY <1>1, <1>2
    <3> QED
      BY <3>1
  <2> HIDE DEF part, outer, lines
  <2> QED
    BY <2>1, <2>2 DEF AllOf
<1>9. IsFiniteSet(outer) /\ \A o \in outer : \E g, h \in rolled.nodes : g.id = o.source /\ h.id = o.target
  <2>1. IsFiniteSet(outer) /\ EndsAmong(outer, Packages(base.nodes, depth))
    BY OuterEnds
  <2> HIDE DEF base, rolled, outer
  <2> QED
    BY <1>1, <2>1 DEF EndsAmong
<1>10. IsFiniteSet(lines)
  <2>1. \A l \in lines : \E o \in outer : l = line[o]
    BY <1>1
  <2> HIDE DEF lines, outer
  <2> QED
    BY <1>9, <2>1, FiniteValues
<1>11. InParts(part, lines)
  <2>1. ASSUME NEW l \in lines PROVE IsFiniteSet(part[l])
    <3>1. part[l] \in SUBSET outer
      OBVIOUS
    <3> HIDE DEF part, outer, lines
    <3> QED
      BY <1>9, <3>1, FS_Subset
  <2> HIDE DEF part, lines
  <2> QED
    BY <1>6, <2>1 DEF InParts
<1>12. Closed(rolled)
  <2> SUFFICES ASSUME NEW l \in lines PROVE {l.source, l.target} \subseteq Ids(rolled)
    BY DEF Closed
  <2>1. PICK o \in outer : l = line[o]
    BY <1>1
  <2> HIDE DEF outer, rolled
  <2> QED
    BY <1>2, <1>9, <2>1 DEF Ids
<1> HIDE DEF part, lines, outer
<1>13. FoldSet(LAMBDA l, n : n + l.count, 0, lines) = Cardinality(outer)
  BY <1>5, <1>7, <1>10, <1>11, CountsAdd
<1> QED
  BY <1>12, <1>13 DEF lines, outer

\* The legend of groups counts each of their members once.
LEMMA LegendCounts ==
  ASSUME NEW chart, IsFiniteSet(chart.nodes), \A g \in chart.nodes : g.type \in GroupTypes /\ IsFiniteSet(g.members),
         \A g, h \in chart.nodes : g # h => g.members \intersect h.members = {}
  PROVE  FoldFunction(+, 0, Legend(chart)) = Cardinality(UNION {g.members : g \in chart.nodes})
<1> DEFINE nodes == chart.nodes
           Of(type) == {n \in nodes : n.type = type}
           types == {n.type : n \in nodes}
           legend == Legend(chart)
           part == [n \in nodes |-> n.members]
           share == [type \in types |-> AllOf(part, Of(type))]
<1>1. None \notin types
  BY CodeIsNamed DEF GroupTypes
<1>2. legend = [type \in types |-> FoldSet(LAMBDA n, count : count + Cardinality(n.members), 0, Of(type))]
  <2>1. types \ {None} = types
    BY <1>1
  <2> QED
    BY <2>1 DEF Legend
<1>3. \A n \in nodes : part[n] = n.members
  OBVIOUS
<1>4. ASSUME NEW S \in SUBSET nodes PROVE IsFiniteSet(S) /\ InParts(part, S)
  <2>1. IsFiniteSet(S)
    BY FS_Subset
  <2>2. \A x \in S : IsFiniteSet(part[x])
    OBVIOUS
  <2>3. \A x, y \in S : x # y => part[x] \intersect part[y] = {}
    OBVIOUS
  <2> QED
    BY <2>1, <2>2, <2>3 DEF InParts
<1>5. IsFiniteSet(types)
  <2> DEFINE of == [n \in nodes |-> n.type]
  <2>1. \A t \in types : \E n \in nodes : t = of[n]
    OBVIOUS
  <2> HIDE DEF of, types
  <2> QED
    BY <2>1, FiniteValues
<1>6. \A type \in types : AllOf(part, Of(type)) = share[type]
  OBVIOUS
<1> HIDE DEF part, share
<1>7. ASSUME NEW type \in types
      PROVE  legend[type] = Cardinality(share[type]) /\ IsFiniteSet(share[type])
  <2> DEFINE S == Of(type)
  <2>1. S \in SUBSET nodes
    OBVIOUS
  <2>2. legend[type] = FoldSet(LAMBDA n, count : count + Cardinality(n.members), 0, S)
    BY <1>2
  <2>3. AllOf(part, S) = share[type]
    BY <1>6
  <2> HIDE DEF S, legend, types, nodes
  <2>4. IsFiniteSet(S) /\ InParts(part, S) /\ \A n \in S : part[n] = n.members
    BY <1>3, <1>4, <2>1
  <2>5. FoldSet(LAMBDA n, count : count + Cardinality(n.members), 0, S) = Cardinality(AllOf(part, S))
    BY <2>4, MembersAdd
  <2>6. IsFiniteSet(AllOf(part, S))
    <3>1. \A t \in {part[n] : n \in S} : \E n \in S : t = part[n]
      OBVIOUS
    <3>2. IsFiniteSet({part[n] : n \in S}) /\ \A t \in {part[n] : n \in S} : IsFiniteSet(t)
      BY <2>4, <3>1, FiniteValues DEF InParts
    <3> QED
      BY <3>2, FS_UNION DEF AllOf
  <2> QED
    BY <2>2, <2>3, <2>5, <2>6
<1>8. ASSUME NEW s \in types, NEW t \in types, s # t PROVE share[s] \intersect share[t] = {}
  <2> SUFFICES ASSUME NEW id \in share[s], id \in share[t] PROVE FALSE
    OBVIOUS
  <2>1. PICK g \in Of(s), h \in Of(t) : id \in part[g] /\ id \in part[h]
    BY <1>6 DEF AllOf
  <2> QED
    BY <1>3, <1>8, <2>1
<1>9. InParts(share, types)
  BY <1>7, <1>8 DEF InParts
<1>10. AllOf(share, types) = UNION {g.members : g \in nodes}
  <2>1. ASSUME NEW id, id \in AllOf(share, types) PROVE id \in UNION {g.members : g \in nodes}
    <3>1. PICK t \in types : id \in AllOf(part, Of(t))
      BY <1>6, <2>1 DEF AllOf
    <3>2. PICK g \in nodes : id \in part[g]
      BY <3>1 DEF AllOf
    <3> QED
      BY <1>3, <3>2
  <2>2. ASSUME NEW g \in nodes, NEW id \in g.members PROVE id \in AllOf(share, types)
    <3> DEFINE t == g.type
    <3>1. t \in types /\ g \in Of(t) /\ id \in part[g]
      BY <1>3, <2>2
    <3> HIDE DEF t, types
    <3>2. id \in AllOf(part, Of(t))
      BY <3>1 DEF AllOf
    <3>3. id \in share[t]
      BY <1>6, <3>1, <3>2
    <3> QED
      BY <3>1, <3>3 DEF AllOf
  <2> QED
    BY <2>1, <2>2
<1>11. DOMAIN legend = types
  BY <1>2
<1> HIDE DEF legend, types
<1>12. FoldFunction(+, 0, legend) = Cardinality(AllOf(share, DOMAIN legend))
  BY <1>5, <1>7, <1>9, <1>11, ValuesAdd
<1> QED
  BY <1>10, <1>11, <1>12 DEF legend

\* With no role hidden a chart that is closed is whole.
LEMMA NoneIsDropped ==
  ASSUME NEW chart, chart = Chart(chart.nodes, chart.lines), Closed(chart)
  PROVE  DropRoles(chart, {}) = chart
<1> DEFINE nodes == {n \in chart.nodes : n.role \notin {}}
           ids == {n.id : n \in nodes}
           lines == {l \in chart.lines : {l.source, l.target} \subseteq ids}
<1>1. nodes = chart.nodes
  OBVIOUS
<1>2. lines = chart.lines
  BY <1>1 DEF Closed, Ids
<1>3. DropRoles(chart, {}) = Chart(nodes, lines)
  BY DEF DropRoles
<1> QED
  BY <1>1, <1>2, <1>3

\* Some group has all the members of another.
IsWithin(g, groups) == \E h \in groups : g.members \subseteq h.members

\* The groups of a rung are within those of the rung above.
LEMMA GroupsDivide ==
  ASSUME NEW base, IsBase(base), NEW depth \in Nat \ {0}, NEW groups, IsGrouping(groups, base.nodes, depth),
         NEW parts, IsGrouping(parts, base.nodes, depth + 1), NEW g \in parts
  PROVE  IsWithin(g, groups)
<1>1. PICK n \in base.nodes : GroupAt(n, depth + 1) = g.id
  BY DEF IsGrouping
<1>2. PICK h \in groups : h.id = GroupAt(n, depth)
  BY DEF IsGrouping
<1>3. ASSUME NEW id \in g.members PROVE id \in h.members
  <2>1. PICK m \in base.nodes : m.id = id /\ GroupAt(m, depth + 1) = g.id
    BY DEF IsGrouping
  <2>2. Placed(m) /\ Placed(n) /\ GroupAt(m, depth + 1) = GroupAt(n, depth + 1)
    BY <1>1, <2>1 DEF IsBase
  <2>3. GroupAt(m, depth) = h.id
    BY <1>2, <2>2, GroupsRise
  <2> QED
    BY <2>1, <2>3 DEF IsGrouping
<1> QED
  BY <1>3 DEF IsWithin

\* At every rung the groups share out the nodes of the chart below, the lines between
\* groups and the edges inside them add up to its edges, the legend counts every node,
\* and a deeper rung divides the groups (web/api/app.py: _roll_up, _legend).
THEOREM RollupsAreFaithful == PortalSpec => []RollupIsFaithful
<1>1. ASSUME PortalInv PROVE RollupIsFaithful
  <2> SUFFICES ASSUME page # None, page.kind = "graph", page.level \in DOMAIN DepthAt, page.hidden = {}, page.focus = None
               PROVE  RollupIsFaithful
    BY DEF RollupIsFaithful
  <2>1. PICK level \in Levels(view), scope \in ChartScopes, hidden \in RoleSets, focus \in Focuses :
           LET chart == BuildGraph(view, level, scope, hidden, focus) IN
           page = [kind |-> "graph", level |-> level, scope |-> scope, hidden |-> hidden, focus |-> focus,
                   chart |-> chart, legend |-> Legend(chart)]
    BY <1>1, GraphPage DEF IsGraphPage, PortalInv
  <2> DEFINE base == Scoped(view, scope)
             depth == DepthAt[level]
             rolled == RollUp(view, depth, scope)
             groups == rolled.nodes
             outer == Outer(base, depth)
             inner == Inner(base, groups)
  <2>2. level \in {"L3", "P2", "P3"} /\ hidden = {} /\ focus = None /\ page.scope = scope /\ page.level = level
    BY <2>1 DEF DepthAt
  <2>3. \A l \in {"L3", "P2", "P3"} : DepthAt[l] \in Nat \ {0}
    BY DEF DepthAt
  <2>4. AtLevel(view, level, scope) = rolled
    BY <2>2 DEF AtLevel
  <2>5. IsBase(base)
    <3>1. view.commit \in Commits /\ Extracted(view.x, Tree[view.commit]) /\ view.edges = FlowEdges(view.x, Uses(view.x))
      BY <1>1, ViewEdges DEF PortalInv, AtlasInv, IsView
    <3> QED
      BY <3>1, BaseIs
  <2>6. \A d : IsGrouping(RollUp(view, d, scope).nodes, base.nodes, d)
    <3> TAKE d
    <3>1. RollUp(view, d, scope).nodes = Packages(base.nodes, d)
      BY DEF RollUp, Chart
    <3>2. IsFiniteSet(base.nodes)
      BY <2>5 DEF IsBase
    <3> QED
      BY <3>1, <3>2, PackagesAre
  <2>7. rolled = Chart(rolled.nodes, rolled.lines)
    BY DEF RollUp, Chart
  <2>8. Closed(rolled) /\ FoldSet(LAMBDA l, n : n + l.count, 0, rolled.lines) = Cardinality(outer)
    BY <2>5, LinesCount
  <2> HIDE DEF rolled
  <2>9. page.chart = rolled /\ page.legend = Legend(rolled)
    <3>1. DropRoles(rolled, {}) = rolled
      BY <2>7, <2>8, NoneIsDropped
    <3>2. BuildGraph(view, level, scope, hidden, focus) = rolled
      BY <2>2, <2>4, <3>1 DEF BuildGraph
    <3> QED
      BY <2>1, <3>2
  <2>10. IsGrouping(groups, base.nodes, depth)
    BY <2>6 DEF rolled
  <2> HIDE DEF groups, base, depth
  <2>11. /\ UNION {g.members : g \in groups} = Ids(base)
         /\ \A g, h \in groups : g # h => g.members \intersect h.members = {}
         /\ IsFiniteSet(Ids(base)) /\ Cardinality(Ids(base)) = Cardinality(base.nodes)
    BY <2>5, <2>10, MembersShare
  <2>12. Cardinality(outer) + Cardinality(inner) = Cardinality(base.lines)
    BY <2>5, <2>10, OuterIs
  <2> HIDE DEF outer, inner
  <2>13. FoldFunction(+, 0, page.legend) = Cardinality(base.nodes)
    <3>1. \A g \in rolled.nodes : g.type \in GroupTypes /\ IsFiniteSet(g.members)
      <4>1. \A g \in groups : g.members \in SUBSET Ids(base)
        BY <2>11
      <4> QED
        BY <2>10, <2>11, <4>1, FS_Subset DEF IsGrouping, groups
    <3>2. IsFiniteSet(rolled.nodes)
      BY <2>10 DEF IsGrouping, groups
    <3>3. FoldFunction(+, 0, Legend(rolled)) = Cardinality(UNION {g.members : g \in rolled.nodes})
      BY <2>11, <3>1, <3>2, LegendCounts DEF groups
    <3> QED
      BY <2>9, <2>11, <3>3 DEF groups
  <2>14. ASSUME NEW d \in Levels(view) \intersect DOMAIN DepthAt, DepthAt[d] = DepthAt[page.level] + 1,
                NEW g \in RollUp(view, DepthAt[d], page.scope).nodes
         PROVE  IsWithin(g, groups)
    <3>1. DepthAt[d] = depth + 1 /\ depth \in Nat \ {0} /\ page.scope = scope
      BY <2>2, <2>3, <2>14 DEF depth
    <3> DEFINE parts == RollUp(view, depth + 1, scope).nodes
    <3>2. IsGrouping(parts, base.nodes, depth + 1) /\ g \in parts
      BY <2>6, <2>14, <3>1
    <3>3. IsBase(base) /\ IsGrouping(groups, base.nodes, depth) /\ depth \in Nat \ {0}
      BY <2>5, <2>10, <3>1
    <3> HIDE DEF parts
    <3> QED
      BY <3>2, <3>3, GroupsDivide
  <2>15. page.chart.nodes = groups /\ page.chart.lines = rolled.lines /\ Scoped(view, page.scope) = base
    BY <2>2, <2>9 DEF groups, base
  <2>16. FoldSet(LAMBDA l, n : n + l.count, 0, page.chart.lines) + Cardinality(inner) = Cardinality(base.lines)
    BY <2>8, <2>12, <2>15
  <2> QED
    BY <2>11, <2>13, <2>14, <2>15, <2>16, ZenonT(60) DEF RollupIsFaithful, inner, Inner, IsWithin
<1> QED
  BY <1>1, PortalHolds, PTL
=============================================================================
