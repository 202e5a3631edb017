------------------------------ MODULE RunPlan ------------------------------
(***************************************************************************)
(* cmd_run of cdp/cli.py above the level of Supervisor: which run an       *)
(* invocation works on, what it inherits when the partition has moved      *)
(* since, which waves it dispatches, and the lessons it is pinned to.  The *)
(* dispatch of a scope, with its leases, retries and crashes, is           *)
(* Supervisor; here a wave is a step.                                      *)
(*                                                                         *)
(* The runs and the task rows belong to the store, and the log of patches  *)
(* to a snapshot of it.  A snapshot is the commit, or the commit and the   *)
(* hash of the uncommitted changes; the id of a run is the commit's.       *)
(***************************************************************************)
EXTENDS Lessons

CONSTANTS
    Home,       \* the repository of the store
    Trees,      \* what `cdp scan` may see: [head, snap, waves]
    Budgets     \* bounds: [from (snapshots to start at), scans, runs, leaves, reflections, cuts]

ASSUME HomeAssumption == Home \in Repos /\ Nobody \notin Repos

VARIABLES
    tree,       \* the tree of the latest scan: its manifest and partition
    log,        \* patches: [snap, node, hash, run, status]
    runs,       \* snapshot_run, by run id: [partition, pin]
    tasks,      \* snapshot_task: [run, hash, state]
    inv,        \* the invocation of `cdp run` under the repo lock, or Nobody
    left        \* what remains of the bounds

planVars == <<tree, log, runs, tasks, inv, left>>
vars == <<planVars, lessonVars>>

Scopes(t) == UNION {t.waves[i] : i \in DOMAIN t.waves}
Hashes(t) == {s.hash : s \in Scopes(t)}

(* The base run is <<head, 1>>, and the others <<head, N>> for -rN. *)
RunId(t) == <<t.head, 1>>
NextRunId(base) ==
    <<base[1], CHOOSE n \in 2 .. (Cardinality(DOMAIN runs) + 2) :
                 /\ <<base[1], n>> \notin DOMAIN runs
                 /\ \A m \in 2 .. (n - 1) : <<base[1], m>> \in DOMAIN runs>>

\* Mutant: every row of the old run is taken for done, the abandoned ones too.
TouchedHashes(run) == {r.hash : r \in {t \in tasks : t.run = run}}

FoldedHashes(run) == {r.hash : r \in {t \in tasks : t.run = run /\ t.state = "folded"}}

BeginRun(run, t) ==
    IF run \in DOMAIN runs THEN runs
    ELSE [r \in DOMAIN runs \cup {run} |->
            IF r = run THEN [partition |-> Scopes(t), pin |-> 0] ELSE runs[r]]

CopyFoldedTasks(old, new, hashes) ==
    tasks \cup {[run |-> new, hash |-> h, state |-> "folded"] : h \in hashes \cap FoldedHashes(old)}

(* Which run the invocation works on, and which scopes it need not pay for. *)
Chosen(resume) ==
    LET base == RunId(tree)
    IN  IF base \notin DOMAIN runs \/ ~resume
          THEN [run |-> base, skip |-> {}, from |-> base]
        ELSE IF runs[base].partition = Scopes(tree)
          THEN [run |-> base, skip |-> FoldedHashes(base), from |-> base]
        ELSE [run |-> NextRunId(base), skip |-> FoldedHashes(base) \cap Hashes(tree), from |-> base]

(* --no-lessons, --lessons N, or the latest promoted cut by default. *)
Pins == {0, LatestLessonVersion} \cup DOMAIN cuts

Init ==
    /\ LessonsInit
    /\ tree \in Trees
    /\ log = {} /\ runs = <<>> /\ tasks = {}
    /\ inv = Nobody
    /\ left \in {b \in Budgets : tree.snap \in b.from}

Spend(what) == left[what] > 0 /\ left' = [left EXCEPT ![what] = @ - 1]

Idle == inv = Nobody /\ reflecting[Home] = {} /\ holdout[Home] = 0

Scan(t) ==
    /\ Idle /\ t # tree /\ Spend("scans")
    /\ tree' = t
    /\ UNCHANGED <<log, runs, tasks, inv, lessonVars>>

Start(resume, pin) ==
    /\ Idle /\ Spend("runs")
    /\ LET c == Chosen(resume)
           begun == BeginRun(c.run, tree)
       IN  /\ tasks' = IF c.run = c.from THEN tasks ELSE CopyFoldedTasks(c.from, c.run, c.skip)
           /\ runs' = [begun EXCEPT ![c.run].pin = pin]
           /\ inv' = [run |-> c.run, skip |-> c.skip, waves |-> tree.waves, pin |-> pin,
                      hints |-> LoadLessons(promotions, pin)]
    /\ UNCHANGED <<tree, log, lessonVars>>

SetState(rows, run, hashes, state) ==
    {r \in rows : ~(r.run = run /\ r.hash \in hashes)}
        \cup {[run |-> run, hash |-> h, state |-> state] : h \in hashes}

Patch(scope, status) ==
    [snap |-> tree.snap, node |-> scope.node, hash |-> scope.hash, run |-> inv.run, status |-> status]

(* One wave: what is not skipped is answered or given up, appended, folded
   and marked, and leaves a row for the lessons. *)
Wave ==
    /\ inv # Nobody /\ inv.waves # <<>>
    /\ LET todo == {s \in Head(inv.waves) : s.hash \notin inv.skip}
       IN  \E done \in SUBSET todo : \E outlier \in BOOLEAN :
             /\ log' = log \cup {Patch(s, "complete") : s \in done}
                           \cup {Patch(s, "failed") : s \in todo \ done}
             /\ tasks' = SetState(SetState(tasks, inv.run, {s.hash : s \in done}, "folded"),
                                  inv.run, {s.hash : s \in todo \ done}, "abandoned")
             /\ RecordLeafRuns(Home, inv.run, IF todo = {} THEN {} ELSE {outlier})
    /\ inv' = [inv EXCEPT !.waves = Tail(@)]
    /\ UNCHANGED <<tree, runs, left, promotions, cuts, cutting, reflecting, holdout>>

(* The invocation finishes its run, or dies between two waves. *)
Leave ==
    /\ inv # Nobody
    /\ inv' = Nobody
    /\ UNCHANGED <<tree, log, runs, tasks, left, lessonVars>>

ReflectHere(run) ==
    /\ Idle /\ Spend("reflections")
    /\ Reflect(Home, run)
    /\ UNCHANGED <<tree, log, runs, tasks, inv>>

ReflectElsewhere(repo, run) ==
    /\ Spend("reflections")
    /\ Reflect(repo, run)
    /\ UNCHANGED <<tree, log, runs, tasks, inv>>

Trial(repo, version) ==
    /\ repo = Home => Idle
    /\ BeginHoldout(repo, version)
    /\ UNCHANGED planVars

Elsewhere(repo, run) ==
    /\ Spend("leaves")
    /\ \E outlier \in BOOLEAN : RunElsewhere(repo, run, {outlier})
    /\ UNCHANGED <<tree, log, runs, tasks, inv>>

Cut(c) ==
    \/ Spend("cuts") /\ ReadCutVersion(c) /\ UNCHANGED <<tree, log, runs, tasks, inv>>
    \/ WriteCut(c) /\ UNCHANGED planVars

Next ==
    \/ \E t \in Trees : Scan(t)
    \/ \E resume \in BOOLEAN, pin \in Pins : Start(resume, pin)
    \/ Wave
    \/ Leave
    \/ \E run \in RunNames : ReflectHere(run)
    \/ \E repo \in Repos \ {Home}, run \in RunNames : ReflectElsewhere(repo, run) \/ Elsewhere(repo, run)
    \/ \E repo \in Repos : RecordPromotion(repo) /\ UNCHANGED planVars
    \/ \E repo \in Repos, v \in DOMAIN cuts : Trial(repo, v)
    \/ \E repo \in Repos : EndHoldout(repo) /\ UNCHANGED planVars
    \/ \E v \in DOMAIN cuts : Unpromote(v) /\ UNCHANGED planVars
    \/ \E c \in Cutters : Cut(c)

Spec == Init /\ [][Next]_vars

(***************************************************************************)
(* Properties.                                                             *)
(***************************************************************************)
Answered(hash) == \E p \in log : p.snap = tree.snap /\ p.hash = hash /\ p.status = "complete"

(* A scope that an invocation does not pay for, because this run or the one
   it continues has folded it, is answered in the log that this invocation
   folds: "nothing to redo" (cmd_run, copy_folded_tasks). *)
InheritedIsInLog == inv # Nobody => \A h \in inv.skip : Answered(h)

(* What an invocation has read of its lessons is what the version in its row
   holds, whoever cuts, promotes or takes back in the meantime
   (unpromote_cut: "it can never retroactively alter a run already under
   way"). *)
PinHolds ==
    inv # Nobody =>
        /\ runs[inv.run].pin = inv.pin
        /\ inv.pin # 0 => inv.pin \in DOMAIN cuts /\ inv.hints = LoadLessons(promotions, inv.pin)
=============================================================================
