------------------------------- MODULE Queries -------------------------------
(***************************************************************************)
(* The questions that `cdp query` answers from the artifacts of a snapshot *)
(* within one budget of rows (cdp/query.py).  A view holds the artifacts;  *)
(* a row of an answer is <<list, key, what>>; a term matches a name if it  *)
(* is one of its segments.                                                 *)
(***************************************************************************)
EXTENDS Derived

CONSTANT TraceHops      \* --max-hops of query trace

ASSUME TraceHopsIsNumber == TraceHops \in Nat

Matches(name, term) == term \in Range(name)

\* exclude_role: what lies in files of these roles only is not shown.
Excluded(v, without, file) == file \in DOMAIN v.inventory.module /\ Role(file) \in without

SomeShown(v, without, files) == \E f \in files : ~Excluded(v, without, f)

-----------------------------------------------------------------------------
(* Budget.take *)

NewBudget(limit) == [limit |-> limit, spent |-> 0, elided |-> 0]

\* Mutant: rows that come after the allowance is spent are dropped uncounted.
TakeUncounted(b, rows) ==
    LET room == b.limit - b.spent
        fits == Cardinality(rows) <= room
    IN [kept   |-> IF fits THEN rows
                   ELSE CHOOSE s \in kSubset(room, rows) :
                           \A kept \in s, dropped \in rows \ s : kept.weight >= dropped.weight,
        budget |-> IF fits THEN [b EXCEPT !.spent = @ + Cardinality(rows)]
                   ELSE IF room = 0 THEN b
                   ELSE [b EXCEPT !.spent = b.limit, !.elided = @ + Cardinality(rows) - room]]

\* As many rows as the allowance admits; the ones with the least evidence go.
Take(b, rows) ==
    LET room == b.limit - b.spent
        fits == Cardinality(rows) <= room
    IN [kept   |-> IF fits THEN rows
                   ELSE CHOOSE s \in kSubset(room, rows) :
                           \A kept \in s, dropped \in rows \ s : kept.weight >= dropped.weight,
        budget |-> IF fits THEN [b EXCEPT !.spent = @ + Cardinality(rows)]
                   ELSE [b EXCEPT !.spent = b.limit, !.elided = @ + Cardinality(rows) - room]]

Empty(budget) == [rows |-> {}, budget |-> budget]

\* One more list in the answer, taken from what is left of the allowance.
List(answer, list, key, rows) ==
    LET taken == Take(answer.budget, rows) IN
    [rows   |-> answer.rows \union {<<list, key, k.row>> : k \in taken.kept},
     budget |-> taken.budget]

\* The weights of _evidence_count.
Weigh(row, weight) == [row |-> row, weight |-> weight]
Names(rows) == {Weigh(r, 0) : r \in rows}
Sites(rows) == {Weigh(r, 1) : r \in rows}
Cited(rows) == {Weigh(r, Cardinality(r.evidence)) : r \in rows}
Hops(rows) == {Weigh(r, Len(r.hops)) : r \in rows}

\* The keys that fit come first, each with itself as its row.
Keys(budget, list, keys) ==
    LET taken == Take(budget, Names(keys))
        kept == {k.row : k \in taken.kept}
    IN [keys |-> kept, answer |-> [rows |-> {<<list, k, k>> : k \in kept}, budget |-> taken.budget]]

-----------------------------------------------------------------------------

FoundSymbols(v, term) ==
    IF <<term>> \in Symbols(v.x) THEN {<<term>>} ELSE {k \in Symbols(v.x) : Matches(k, term)}

ClaimsAbout(v, symbol) == {c \in v.claims : c.subject = symbol \/ Matches(c.subject, Last(symbol))}

\* A key with definitions in excluded files only is dropped after it was counted.
QSymbol(v, term, budget, without) ==
    LET Gone(key) == \A r \in DefinersOf(v.x, key) : Excluded(v, without, r.file)
        Lists(key, answer) ==
            IF Gone(key) THEN [answer EXCEPT !.rows = @ \ {<<"symbols", key, key>>}]
            ELSE List(List(answer, "used_by", key, Sites(UsedBy(v.uses, key))),
                      "claims", key, Cited(ClaimsAbout(v, key)))
        first == Keys(budget, "symbols", FoundSymbols(v, term))
    IN FoldSet(Lists, first.answer, first.keys)

QFile(v, term, budget, without) ==
    LET files == {f \in DOMAIN v.inventory.module : Matches(f, term) /\ Role(f) \notin without}
        Here(rows, f) == {r \in rows : r.file = f}
        Lists(f, answer) ==
            List(List(List(answer, "defines", f, Sites(Here(v.x.defines, f))),
                      "io_edges", f, Sites(Here(v.x.ioEdges, f))),
                 "claims", f, Cited({c \in v.claims : f \in c.evidence}))
        first == Keys(budget, "files", files)
    IN FoldSet(Lists, first.answer, first.keys)

\* The module of a claim is that of the first file it cites.
ClaimModules(v, c) == {v.inventory.module[f] : f \in c.evidence \intersect DOMAIN v.inventory.module}

QModule(v, term, budget) ==
    LET Lists(m, answer) == List(answer, "claims", m, Cited({c \in v.claims : m \in ClaimModules(v, c)}))
        first == Keys(budget, "modules", {m \in v.inventory.modules : Matches(m, term)})
    IN FoldSet(Lists, first.answer, first.keys)

QRoutes(v, term, budget, without) ==
    List(Empty(budget), "routes", <<>>,
         Cited({r \in Routes(v.x) : Matches(r.route, term) /\ SomeShown(v, without, r.evidence)}))

\* Who owns, writes and reads each table.
QTable(v, term, budget, without) ==
    LET edges == {e \in v.x.ioEdges :
                    /\ e.fact.target[1] = "table:" /\ Matches(e.fact.target, term)
                    /\ ~Excluded(v, without, e.file)}
        On(table, channels) == {e \in edges : e.fact.target = table /\ e.fact.channel \in channels}
        Lists(table, answer) ==
            List(List(answer, "migrations", table, Sites(On(table, {"schema_own"}))),
                 "evidence", table, Sites(On(table, {"persist", "read"})))
        first == Keys(budget, "tables", {e.fact.target : e \in edges})
    IN FoldSet(Lists, first.answer, first.keys)

QConfig(v, term, budget, without) ==
    LET Wanted(name, r) == name[1] = "config:" /\ Matches(name, term) /\ ~Excluded(v, without, r.file)
        declared == {r \in v.x.defines : r.fact.kind = "config_key" /\ Wanted(r.fact.fqn, r)}
        read == {e \in v.x.ioEdges : /\ e.fact.channel = "config_read" /\ Wanted(e.fact.target, e)
                                     /\ e.fact.source[1] # "config-file:"}
        Lists(key, answer) ==
            List(List(answer, "declared", key, Sites({r \in declared : r.fact.fqn = key})),
                 "read", key, Sites({e \in read : e.fact.target = key}))
        first == Keys(budget, "keys", {r.fact.fqn : r \in declared} \union {e.fact.target : e \in read})
    IN FoldSet(Lists, first.answer, first.keys)

QPaths(v, term, budget) ==
    List(Empty(budget), "paths", <<>>,
         Hops({p \in Paths(v.edges) : Matches(p.source.source \o p.source.target \o p.sink, term)}))

QClaims(v, term, budget, without) ==
    List(Empty(budget), "claims", <<>>,
         Cited({c \in v.claims : Matches(c.subject, term) /\ SomeShown(v, without, c.evidence)}))

QUnknowns(v, budget, without) ==
    List(Empty(budget), "unknowns", <<>>, Sites({u \in v.unknowns : ~Excluded(v, without, u.file)}))

-----------------------------------------------------------------------------
(* query search: the allowance is shared out among four lists *)

\* Mutant: one list after the other takes what is left.
FirstComeBudget(limit, demands) ==
    LET Grant(alloc, i) == [alloc EXCEPT ![i] = Min({demands[i], limit - FoldFunction(+, 0, alloc)})]
    IN FoldLeft(Grant, [i \in DOMAIN demands |-> 0], [i \in DOMAIN demands |-> i])

\* Rounds of equal shares; what a list does not need goes to the others.
FairSplitBudget(limit, demands) ==
    LET Left(alloc) == limit - FoldFunction(+, 0, alloc)
        Active(alloc) == {i \in DOMAIN demands : alloc[i] < demands[i]}
        Round(alloc) ==
            LET share == Max({1, Left(alloc) \div Cardinality(Active(alloc))})
                Grant(a, i) == [a EXCEPT ![i] = @ + Min({demands[i] - @, share, Left(a)})]
            IN FoldLeft(Grant, alloc, [i \in DOMAIN demands |-> i])
    IN FoldLeft(LAMBDA alloc, n : IF Active(alloc) = {} THEN alloc ELSE Round(alloc),
                [i \in DOMAIN demands |-> 0], [n \in 1..limit |-> n])

QSearch(v, term, budget, without) ==
    LET claims == {c \in v.claims : Matches(c.subject, term)}
        symbols == {k \in Symbols(v.x) : Matches(k, term)}
        unknowns == {u \in v.unknowns : Matches(u.subject, term)}
        files == {f \in DOMAIN v.inventory.module : Matches(f, term) /\ Role(f) \notin without}
        demands == <<Cardinality(claims), Cardinality(symbols), Cardinality(unknowns), Cardinality(files)>>
        room == FairSplitBudget(budget.limit, demands)
        bucket == <<List(Empty(NewBudget(room[1])), "claims", <<>>, Cited(claims)),
                    List(Empty(NewBudget(room[2])), "symbols", <<>>, Names(symbols)),
                    List(Empty(NewBudget(room[3])), "unknowns", <<>>, Sites(unknowns)),
                    List(Empty(NewBudget(room[4])), "files", <<>>, Names(files))>>
    IN [rows   |-> UNION {b.rows : b \in Range(bucket)},
        budget |-> [budget EXCEPT !.spent = FoldLeft(LAMBDA n, b : n + b.budget.spent, 0, bucket),
                                  !.elided = FoldLeft(LAMBDA n, b : n + b.budget.elided, 0, bucket)]]

-----------------------------------------------------------------------------
(* query trace: what to read to understand an entry point *)

\* A member is named after its class: Class # member.
ClassOf(node) ==
    IF "#" \in Range(node) THEN SubSeq(node, 1, SelectInSeq(node, LAMBDA n : n = "#") - 1) ELSE node

Entry(node, file) == [node |-> node, file |-> file]

\* A route, else the source of a path, else the shortest symbol of the name.
ResolveEntry(v, term) ==
    LET routes == {r \in Routes(v.x) : Matches(r.route, term)}
        sources == {s \in FlowSources(v.edges) : Matches(s.source, term)}
        symbols == FoundSymbols(v, term)
        route == CHOOSE r \in routes : TRUE
        source == CHOOSE s \in sources : TRUE
        key == CHOOSE k \in symbols : \A l \in symbols : Len(k) <= Len(l)
    IN IF routes # {}
       THEN {Entry(IF Primary(v.x, route.file) # None THEN Primary(v.x, route.file) ELSE ClassOf(route.handler),
                   route.file)}
       ELSE IF sources # {} THEN {Entry(source.source, source.file)}
       ELSE IF symbols # {} THEN {Entry(key, (CHOOSE r \in DefinersOf(v.x, key) : TRUE).file)}
       ELSE {}

Leaving(edges, node) == {e \in edges : e.source = node}

\* A node that no edge leaves gives way to its class, or else to the primary
\* symbol of its file.
Pivot(v, entry) ==
    LET Known(node) == node # None /\ Leaving(v.edges, node) # {}
        candidates == <<entry.node, ClassOf(entry.node), Primary(v.x, entry.file)>>
        first == SelectInSeq(candidates, Known)
    IN IF first = 0 THEN entry ELSE [entry EXCEPT !.node = candidates[first]]

\* The frontier after each hop, along edges of every channel.
Frontiers(edges, start, hops) ==
    LET level[n \in 0..hops] ==
            IF n = 0 THEN [seen |-> {start}, frontier |-> {start}]
            ELSE LET before == level[n - 1]
                     next == {e.target : e \in {f \in edges : f.source \in before.frontier}} \ before.seen
                 IN [seen |-> before.seen \union next, frontier |-> next]
    IN level

\* The edge that first reached each node, and whether hops ran out.
Walk(edges, start, hops) ==
    LET level == Frontiers(edges, start, hops)
        First(node) == CHOOSE e \in edges : /\ e.target = node
                                            /\ \E n \in 1..hops : /\ e.source \in level[n - 1].frontier
                                                                  /\ node \in level[n].frontier
    IN [reached   |-> [node \in level[hops].seen \ {start} |-> First(node)],
        exhausted |-> level[hops].frontier # {}]

\* The files of the edges, of the symbols they reach and of those who use the entry.
TraceFiles(v, entry, reached) ==
    {reached[n].file : n \in DOMAIN reached}
        \union (UNION {{r.file : r \in DefinersOf(v.x, n)} : n \in DOMAIN reached})
        \union {u.file : u \in UsedBy(v.uses, entry.node)}

\* The file of the entry point itself is neither budgeted nor excluded.
QTrace(v, term, hops, budget, without) ==
    LET Answer(found) ==
            LET entry == Pivot(v, found)
                reached == Walk(v.edges, entry.node, hops).reached
                rest == {f \in TraceFiles(v, entry, reached) \ {entry.file} : ~Excluded(v, without, f)}
                files == List(Empty(budget), "files", <<>>, Sites(rest))
                shown == {entry.file} \union {r[3] : r \in files.rows}
                about == {u \in v.unknowns : u.file \in shown
                                              \/ \E n \in DOMAIN reached : Matches(u.subject, Last(n))}
            IN List([files EXCEPT !.rows = @ \union {<<"entry", <<>>, entry.file>>}],
                    "unknowns", <<>>, Sites(about))
        resolved == ResolveEntry(v, term)
    IN IF resolved = {} THEN Empty(budget) ELSE Answer(CHOOSE e \in resolved : TRUE)

-----------------------------------------------------------------------------
(* dispatch *)

Kinds == {"symbol", "file", "module", "routes", "table", "config", "paths", "search",
          "claims", "unknowns", "trace"}

\* The queries that must see everything take no allowance and are left out here.
Dispatch(v, kind, term, limit, without) ==
    LET b == NewBudget(limit) IN
    CASE kind = "symbol"   -> QSymbol(v, term, b, without)
      [] kind = "file"     -> QFile(v, term, b, without)
      [] kind = "module"   -> QModule(v, term, b)
      [] kind = "routes"   -> QRoutes(v, term, b, without)
      [] kind = "table"    -> QTable(v, term, b, without)
      [] kind = "config"   -> QConfig(v, term, b, without)
      [] kind = "paths"    -> QPaths(v, term, b)
      [] kind = "search"   -> QSearch(v, term, b, without)
      [] kind = "claims"   -> QClaims(v, term, b, without)
      [] kind = "unknowns" -> QUnknowns(v, b, without)
      [] kind = "trace"    -> QTrace(v, term, TraceHops, b, without)
=============================================================================
