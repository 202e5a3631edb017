------------------------------- MODULE MCAtlas -------------------------------
(***************************************************************************)
(* A repository of three modules and the commits that edits, reformats,    *)
(* renames, deletions and a move out of a module lead to.                  *)
(***************************************************************************)
EXTENDS Portal

Api == <<"web", "Api">>
Dao == <<"core", "Dao">>
Main == <<"job", "Main">>
Users == <<"table:", "users">>
Orders == <<"table:", "orders">>

Defines(fqn, kind, value) == [fqn |-> fqn, kind |-> kind, value |-> value, public |-> TRUE]

IO(source, target, channel) == [source |-> source, target |-> target, channel |-> channel, refs |-> {}]

File(name, defines, uses, ioEdges, deps, primary) ==
    [name |-> name, defines |-> defines, uses |-> uses, ioEdges |-> ioEdges, deps |-> deps,
     notes |-> {}, loc |-> 1, primary |-> primary, managed |-> FALSE]

Manifest(name, deps) == File(name, {}, {}, {}, deps, None)

\* A handler is a member of its class in Java, the file's primary symbol in Go (job).
Settle == Api \o <<"#", "settle">>

ApiEdges == {[IO(Settle, <<"route:", "settle">>, "http_in") EXCEPT !.refs = {<<"Paths", "V1">>}],
             IO(Api, <<"config:", "db">>, "config_read"),
             IO(Api, <<"process:", "api">>, "process_boundary")}

DaoEdges == {IO(Dao, Users, "persist"), IO(Dao, Users, "read"), IO(Dao, Orders, "persist")}

Clazz(fqn) == Defines(fqn, "class", None)

MCFacts ==
    [webpom  |-> Manifest("web", {"core", "lib"}),
     corepom |-> Manifest("core", {}),
     jobpom  |-> Manifest("job", {"core"}),
     api     |-> File(None, {Clazz(Api), Defines(Settle, "method", None)}, {Dao, <<"java", "List">>},
                      ApiEdges, {}, Api),
     api2    |-> File(None, {Clazz(Api), Defines(<<"web", "Dto">>, "record", None)},
                      {Dao, <<"core", "*">>, <<"nowhere", "X">>},
                      ApiEdges \union {IO(Api, Users, "persist"), IO(Api, <<"web", "Dto">>, "map")},
                      {}, Api),
     dao     |-> File(None, {Clazz(Dao), Defines(<<"core", "Paths", "V1">>, "constant", "v1")},
                      {<<"core", "Log">>},
                      DaoEdges, {}, Dao),
     test    |-> File(None, {Clazz(<<"core", "DaoTest">>), Clazz(Dao)}, {Dao}, {}, {}, <<"core", "DaoTest">>),
     main    |-> File(None, {Clazz(Main)}, {Dao, Api},
                      {IO(Main, <<"process:", "job">>, "process_boundary"), IO(Main, <<"route:", "run">>, "http_in"),
                       IO(Main, <<"scheduler">>, "schedule"),
                       IO(Main, <<"host">>, "ssh_exec")}, {}, Main),
     sql     |-> File(None, {}, {}, {IO(<<"migration:", "V1">>, Users, "schema_own"),
                                     IO(<<"config-file:", "app">>, <<"config:", "db">>, "config_read")}, {}, None),
     noted   |-> [File(None, {}, {}, {}, {}, None) EXCEPT !.notes = {"migration_version"}],
     conf    |-> File(None, {Defines(<<"config:", "db">>, "config_key", "h2"),
                             Defines(<<"process:", "image">>, "config_key", "run")}, {}, {}, {}, None),
     blank   |-> None,
     rootpom |-> Manifest(None, {}),
     spaced  |-> File(None, {Clazz(Dao), Defines(<<"core", "Paths", "V1">>, "constant", "v1")},
                      {<<"core", "Log">>},
                      DaoEdges, {}, Dao)]

\* The data access with a blank line above it.
MCBody == [c \in DOMAIN MCFacts |-> IF c = "spaced" THEN "dao" ELSE c]

MCSeenAt(c, fact) == IF c = "spaced" THEN {2} ELSE {1}

MCSimilar(c, d) == MCBody[c] = MCBody[d] \/ {c, d} = {"api", "api2"}

MCRole(path) == IF Last(path) = "DaoTest" THEN "test" ELSE "source"

\* The first commit, and what the others change of it.
First ==
    (<<"web", "pom">> :> "webpom") @@ (<<"web", "Api">> :> "api") @@
    (<<"core", "pom">> :> "corepom") @@ (<<"core", "Dao">> :> "dao") @@
    (<<"core", "test", "DaoTest">> :> "test") @@ (<<"core", "V1.sql">> :> "sql") @@
    (<<"job", "pom">> :> "jobpom") @@ (<<"job", "Main">> :> "main") @@
    (<<"conf", "app">> :> "conf") @@ (<<"conf", "gen", "Stub">> :> "api") @@ (<<"Empty">> :> "blank")

Noted == <<"core", "V2.sql">> :> "noted"

Without(tree, paths) == [p \in DOMAIN tree \ paths |-> tree[p]]

MCTree ==
    [c1 |-> First,
     c2 |-> [First EXCEPT ![<<"web", "Api">>] = "api2"],
     c3 |-> (<<"core", "Store">> :> "spaced") @@ (<<"web", "Rest">> :> "api2") @@ Noted
              @@ Without(First, {<<"core", "Dao">>, <<"web", "Api">>}),
     c4 |-> (<<"pom">> :> "rootpom") @@ Without(First, {p \in DOMAIN First : Last(p) = "pom"}),
     c5 |-> Noted @@ [First EXCEPT ![<<"core", "Dao">>] = "spaced"]]

\* The root, groups of one and of two directories, and a bucket.
MCScopes == {None, <<"core">>, <<"/", "core", "test">>, <<"Tables">>}

MCFocuses == {None, Dao}

MCNodeIds == {<<"scope:", "core">>, <<"file:", "core", "Dao">>, <<"sym:", "core", "DaoTest">>, <<"module:", "core">>,
              <<"sym:", "web", "Dto">>, <<"module:", "web", "Dto">>, <<"table:", "users">>, <<"route:", "gone">>}
=============================================================================
