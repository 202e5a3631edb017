------------------------------ MODULE Prompting ------------------------------
(***************************************************************************)
(* The waves of a plan read one after the other: by `cdp run` (run_wave of *)
(* cdp/supervisor.py), or by hand with `cdp prompts --wave` and `cdp       *)
(* collect`.  The prompt of each scope is built from the claims that are   *)
(* folded by then.  The attempts at a scope are in Supervisor: here it is  *)
(* answered or lost.                                                       *)
(***************************************************************************)
EXTENDS Planning, Prompts

CONSTANTS
    None,
    Imports(_, _),  \* the symbols that a file imports, in a given graph
    Answer(_),      \* the claims that the agent of a scope makes
    Unsure(_),      \* whether it had to read beyond the digest
    MaxLost         \* bound: the scopes that nobody answers

VARIABLES
    way,        \* who reads the waves: "run", "prompts" or "digest"; None before
    wave,       \* the wave to read
    asked,      \* the scopes whose prompt waits for an answer
    told,       \* of each node, its prompt in prompts/
    claims,     \* state["claims"]
    tiers,      \* the report "tiering": of each node its row
    lost

readVars == <<way, wave, asked, told, claims, tiers, lost>>

ImportsOf(s) == UNION {Imports(f, edges) : f \in s.files}

PromptOf(node, known, digest) ==
    LET s == Leaf(node) IN BuildPrompt(s.files, ImportsOf(s), Deps(s.module), known, digest)

Written(nodes, known, digest) ==
    [n \in nodes \union DOMAIN told |-> IF n \in nodes THEN PromptOf(n, known, digest) ELSE told[n]]

Nodes(scopesOf) == {s.node : s \in scopesOf}

\* What the schema demands of the claims of an answer; the nodes come with the fold.
WellFormed(answer) ==
    /\ IsFiniteSet(answer)
    /\ answer \subseteq [subject : Seq(Nat), kind : STRING, evidence : Nat, nodes : {{}}]

\* Those that may be answered: an answer that fails the schema is rejected.
Answerable(asking) == {s \in asking : WellFormed(Answer(s))}

\* The claims of a leaf of the log, folded.
Folded(answered) == claims \union UNION {{[c EXCEPT !.nodes = {s.node}] : c \in Answer(s)} : s \in answered}

Reading(w) == phase = "done" /\ wave \in DOMAIN waves /\ asked = {} /\ way \in {None, w}

\* Mutant: the store is not read again between the waves.
RunWaveStale ==
    /\ Reading("run")
    /\ way' = "run"
    /\ told' = Written(Nodes(waves[wave].scopes), {}, FALSE)
    /\ \E answered \in SUBSET Answerable(waves[wave].scopes) :
          /\ lost' = lost + Cardinality(waves[wave].scopes \ answered)
          /\ lost' <= MaxLost
          /\ claims' = Folded(answered)
    /\ wave' = wave + 1
    /\ UNCHANGED <<asked, tiers>>

\* run_wave: every prompt of a wave is built from the claims before it.
RunWave ==
    /\ Reading("run")
    /\ way' = "run"
    /\ told' = Written(Nodes(waves[wave].scopes), claims, FALSE)
    /\ \E answered \in SUBSET Answerable(waves[wave].scopes) :
          /\ lost' = lost + Cardinality(waves[wave].scopes \ answered)
          /\ lost' <= MaxLost
          /\ claims' = Folded(answered)
    /\ wave' = wave + 1
    /\ UNCHANGED <<asked, tiers>>

\* cmd_prompts: the report has the rows of this command only.
CmdPrompts(digest) ==
    /\ Reading(IF digest THEN "digest" ELSE "prompts")
    /\ way' = IF digest THEN "digest" ELSE "prompts"
    /\ told' = Written(Nodes(waves[wave].scopes), claims, digest)
    /\ tiers' = [n \in Nodes(waves[wave].scopes) |-> ComputeTier(ImportsOf(Leaf(n)))]
    /\ asked' = waves[wave].scopes
    /\ UNCHANGED <<wave, claims, lost>>

\* cmd_collect: what is in the inbox; a scope without an answer is left behind.
CmdCollect ==
    /\ asked # {}
    /\ \E answered \in SUBSET Answerable(asked) :
          /\ lost' = lost + Cardinality(asked \ answered)
          /\ lost' <= MaxLost
          /\ claims' = Folded(answered)
          /\ tiers' = [n \in DOMAIN tiers |->
                         IF \E s \in answered : s.node = n /\ way = "digest" /\ Unsure(s)
                         THEN Escalate(tiers[n]) ELSE tiers[n]]
    /\ asked' = {}
    /\ wave' = wave + 1
    /\ UNCHANGED <<way, told>>

ReadingInit ==
    /\ Init
    /\ way = None /\ wave = 1 /\ asked = {}
    /\ told = <<>> /\ claims = {} /\ tiers = <<>> /\ lost = 0

ReadingNext ==
    \/ Next /\ UNCHANGED readVars
    \/ (RunWave \/ CmdCollect \/ \E digest \in BOOLEAN : CmdPrompts(digest)) /\ UNCHANGED vars

ReadingSpec == ReadingInit /\ [][ReadingNext]_<<vars, readVars>> /\ WF_vars(Next /\ UNCHANGED readVars)

-----------------------------------------------------------------------------

\* What an agent is to know of the modules that its scope imports, it is told: each
\* claim that is ever made about a symbol it imports, or by a leaf of a module of one
\* segment outside the cycles and of a kind that is always passed on, is in its prompt
\* or counted there as elided.  Only claims with no more evidence than those shown are
\* elided, and a prompt over its budget shows none (_inherit, build_prompt: "fires and
\* logs rather than shipping an over-budget prompt silently").
DependenciesAreTold ==
    phase = "done" /\ wave > Len(waves) => \A n \in DOMAIN told :
        LET s == Leaf(n)
            p == told[n]
            Made(c, m) == \E t \in scopes : t.module = m /\ t.node \in c.nodes
            Before(m) == \A k \in cycles : m \notin k
        IN /\ \A m \in Deps(s.module) : Before(m) =>
                 \A c \in claims :
                    /\ Made(c, m)
                    /\ c.subject \in ImportsOf(s) \/ (c.kind \in Fallback /\ Len(Home[m]) = 1)
                    => c \in p.inherited \union p.elided
           /\ \A c \in p.inherited, d \in p.elided : c.evidence >= d.evidence
           /\ p.exhausted => p.inherited = {}

-----------------------------------------------------------------------------
(* The properties of Planning that are about one thing, as one; a plan does *)
(* not change while it is read.                                             *)

\* Every pass of `partition` leaves each file in one scope, and the scopes are neither
\* larger nor smaller than the budgets make them.
PartitionSound == way = None => EveryFileOnce /\ OnlyDirectoriesExceed /\ NothingToCoalesce /\ PackedTight

\* The components that are found are the cycles of the graph, and the waves that are
\* made of the levels cover the scopes in the order of their dependencies.
ScheduleSound == way = None => CyclesAreComponents /\ LowLinks /\ WavesPartition /\ DependenciesFirst
=============================================================================
