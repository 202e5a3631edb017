------------------------------ MODULE MCClaims ------------------------------
EXTENDS Claims

\* Subjects beside the nodes; Nothing is defined nowhere.
S == 11
T == 12
U == 13
Nothing == 14

MCModule == <<"m1", "m2", "m2">>

\* Three lines that can be cited, each of them once.
File == <<<<"a", "b">>, <<"c", "d">>, <<"e", "f">>>>

Quote(file, n, lines) == [file |-> file, line |-> n, text |-> lines[n]]

A == Quote("f", 1, File)
B == Quote("f", 2, File)
C == Quote("g", 3, File)
Gone == [file |-> "h", line |-> 1, text |-> <<"a", "b">>]
Missing == [file |-> "f", line |-> 1, text |-> <<"x", "y">>]

Tree == [f |-> File, g |-> File]

Claim(id, subject, channel, visibility, statement, evidence, author) ==
    [id |-> id, subject |-> subject, kind |-> 1, channel |-> channel, visibility |-> visibility,
     statement |-> statement, evidence |-> evidence, confidence |-> IF id = 1 THEN "low" ELSE "high", author |-> author]

Answer(node, valid, claims, unknowns) ==
    [node |-> node, valid |-> valid, claims |-> claims, unknowns |-> unknowns]

World(defs, edges, owners) ==
    [defs |-> defs, edges |-> edges, owners |-> [s \in {S, T, U} |-> owners],
     tasks |-> [n \in Nodes |-> IF n = 1 THEN "folded" ELSE "none"]]

Scenario(w, files, answers, n) == [world |-> w, tree |-> files, inbox |-> answers, edits |-> n]

NoDefs == World(<<>>, {}, {})

\* Three nodes on one subject: who owns it, what each says, how much it cites.
Opinions(channels, evidence) ==
    LET Says(n) == {Answer(n, TRUE, <<Claim(1, S, ch, None, n, ev, "llm")>>, <<>>) : ch \in channels, ev \in evidence}
    IN {{x, y, z} : x \in Says(1), y \in Says(2), z \in Says(3)}

Contention ==
    {Scenario(World(<<>>, {}, owners), Tree, answers, 0) :
        owners \in {{}, {"m1"}, {"m1", "m2"}},
        answers \in Opinions({"http", "kafka"}, {<<A>>, <<A, B>>, <<C>>})}

\* A question to node 1 and a claim of node 2 that may answer it.
Known == World(S :> "public" @@ T :> None, {[source |-> T, target |-> U, channel |-> "http"]}, {})

Asking ==
    {Answer(1, TRUE, <<>>,
            <<[question |-> <<"Asked", 1>>, subject |-> s, channel |-> ch, why |-> "w", needs |-> n]>>) :
        s \in {None, S, T, U, 2, Nothing}, ch \in {None, "http"}, n \in {"needs_human", "more"}}

Answering ==
    {Answer(2, TRUE, <<Claim(1, s, ch, v, 2, <<A>>, author)>>, <<>>) :
        s \in {S, T}, ch \in {None, "http"}, v \in {None, "public", "internal"}, author \in {"llm", "human"}}

Dialogue == {Scenario(Known, Tree, {q, a}, 0) : q \in Asking, a \in Answering}

\* Two generations of one node, with citations that fail, and an invalid answer.
Cited == {<<A>>, <<Gone>>, <<A, Missing>>}

Regenerated ==
    {Scenario(NoDefs, Tree,
              {Answer(1, v, <<Claim(1, S, "http", None, 1, ev1, "llm"), Claim(2, T, "http", None, 2, ev2, "llm")>>, <<>>),
               Answer(1, TRUE, <<Claim(1, S, "kafka", None, 1, ev3, "llm")>>, <<>>),
               Answer(2, w, <<Claim(1, S, "http", None, 3, <<C>>, "llm")>>, <<>>)}, 0) :
        v \in BOOLEAN, w \in BOOLEAN, ev1 \in Cited, ev2 \in Cited, ev3 \in Cited}

\* A file in which lines repeat, and a claim about each line that can be cited.
TextLines == {<<>>, <<"a", "b">>, <<"b">>}

Files == UNION {[1..n -> TextLines] : n \in 3..4}

CitesEachLine(lines) ==
    LET anchors == {BuildAnchor(lines, n) : n \in DOMAIN lines} \ {NoAnchor}
        each == SetToSeq({[file |-> "f", line |-> a.line, text |-> a.text] : a \in anchors})
    IN Answer(1, TRUE, [i \in DOMAIN each |-> Claim(i, S, "http", None, i, <<each[i]>>, "llm")], <<>>)

Shifted == {Scenario(NoDefs, [f |-> lines], {CitesEachLine(lines)}, 2) : lines \in Files}

Everything == Contention \union Dialogue \union Regenerated \union Shifted
=============================================================================
