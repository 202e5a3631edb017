------------------------------ MODULE LinkDesk -------------------------------
(***************************************************************************)
(* The `cdp link` commands over the state directories of several           *)
(* repositories.  The report is one table of the store (link_edge) that    *)
(* each writer replaces as a whole; a command holds the lock of that store *)
(* from its read to its write, but reads the other state directories       *)
(* without theirs, so that a refresh there may be half done.  All commands *)
(* are one action but `link run`, which waits for agents.                  *)
(***************************************************************************)
EXTENDS Links

CONSTANTS
    Repos, Heads,
    Edges,          \* Edges[r][h]: the data flow edges of repository r at head h
    First, After,   \* the head of the first scan, and After[h] that of a later commit or None
    MaxAttempts,    \* --max-attempts
    MaxScans, MaxRefreshes  \* bounds: how often links are scanned and refreshed

ASSUME NoneIsNoRepo == None \notin Repos

VARIABLES
    dirs,       \* of each state directory the head of its last snapshot, and whether that has its artifacts
    report,     \* the table link_edge
    out,        \* tasks.json and the inbox of `link prompts`, None before
    leased,     \* the tasks whose lease in link_task is held; no command reads the rest of a row
    run,        \* the `link run` process, with the report that it read; None
    scans, refreshes,
    read,       \* history: of each repository the snapshot that the report was last computed from
    shown       \* history: the tasks ever shown to an agent

vars == <<dirs, report, out, leased, run, scans, refreshes, read, shown>>

Snapshot(r, h) == [repo |-> r, head |-> h, edges |-> Edges[r][h]]

\* A snapshot without artifacts has no edges, and the path of the directory for a name,
\* which is no repository's.
SnapshotOf(r) ==
    IF dirs[r].ready THEN Snapshot(r, dirs[r].head)
    ELSE [repo |-> None, head |-> "?", edges |-> {}]

\* Mutant: a command does not wait for the lock.
AlwaysFree == TRUE

\* The lock of the store.
Free == run = None

Init ==
    /\ dirs = [r \in Repos |-> [head |-> First, ready |-> TRUE]]
    /\ report = [links |-> {}, unmatched |-> {}]
    /\ out = None
    /\ leased = {}
    /\ run = None
    /\ scans = 0 /\ refreshes = 0
    /\ read = [r \in Repos |-> None]
    /\ shown = {}

\* cdp refresh of a repository: the snapshot first, then its artifacts.
BeginSnapshot(r) ==
    /\ dirs[r].ready /\ After[dirs[r].head] # None
    /\ dirs' = [dirs EXCEPT ![r] = [head |-> After[@.head], ready |-> FALSE]]
    /\ UNCHANGED <<report, out, leased, run, scans, refreshes, read, shown>>

WriteArtifacts(r) ==
    /\ ~dirs[r].ready
    /\ dirs' = [dirs EXCEPT ![r].ready = TRUE]
    /\ UNCHANGED <<report, out, leased, run, scans, refreshes, read, shown>>

\* A scan replaces the report, its verdicts included.
LinkScan(named) ==
    /\ Free /\ scans < MaxScans
    /\ scans' = scans + 1
    /\ report' = ScanLinks({SnapshotOf(r) : r \in named})
    /\ read' = [r \in Repos |-> IF r \in named /\ dirs[r].ready THEN Snapshot(r, dirs[r].head) ELSE None]
    /\ UNCHANGED <<dirs, out, leased, run, refreshes, shown>>

LinkRefresh(named) ==
    /\ Free /\ refreshes < MaxRefreshes
    /\ refreshes' = refreshes + 1
    /\ report' = RefreshLinks(report, {SnapshotOf(r) : r \in named})
    /\ read' = [r \in Repos |-> IF r \in named /\ dirs[r].ready THEN Snapshot(r, dirs[r].head) ELSE read[r]]
    /\ UNCHANGED <<dirs, out, leased, run, scans, shown>>

\* The inbox keeps what is in it.
LinkPrompts ==
    /\ Free
    /\ out' = [tasks |-> BuildTasks(report), inbox |-> IF out = None THEN {} ELSE out.inbox]
    /\ shown' = shown \union BuildTasks(report)
    /\ UNCHANGED <<dirs, report, leased, run, scans, refreshes, read>>

\* What an agent may write: a verdict about a link that was shown in this task or
\* another, citing a callee that was shown.
Patches(name) ==
    LET seen == UNION {t.candidates : t \in shown} IN
    {[name |-> name, resolutions |-> {[link |-> link, verdict |-> "match", at |-> at]}] :
        link \in seen, at \in {c.callee.at : c \in seen}}

\* Each task has one file in the inbox.
DropPatch(patch) ==
    /\ out' = [out EXCEPT !.inbox = {p \in @ : p.name # patch.name} \union {patch}]
    /\ UNCHANGED <<dirs, report, leased, run, scans, refreshes, read, shown>>

\* The patches that are valid for their task of tasks.json.
LinkCollect ==
    /\ Free
    /\ out # None
    /\ report' = FoldResolutions(report, {p \in out.inbox : \E t \in out.tasks : ValidPatch(p, t)})
    /\ UNCHANGED <<dirs, out, leased, run, scans, refreshes, read, shown>>

-----------------------------------------------------------------------------
(* link run *)

StartRun ==
    /\ Free
    /\ run' = [report |-> report, todo |-> BuildTasks(report), task |-> None, attempt |-> 0]
    /\ UNCHANGED <<dirs, report, out, leased, scans, refreshes, read, shown>>

\* A task whose lease is held is another supervisor's.
SkipTask(t) ==
    /\ run.task = None /\ t \in run.todo
    /\ t.name \in leased
    /\ run' = [run EXCEPT !.todo = @ \ {t}]
    /\ UNCHANGED <<dirs, report, out, leased, scans, refreshes, read, shown>>

\* An attempt: the first of a task, or one after a failure.
Dispatch(t) ==
    /\ \/ run.task = None /\ t \in run.todo
       \/ run.task = t
    /\ run.attempt < MaxAttempts
    /\ t.name \notin leased
    /\ leased' = leased \union {t.name}
    /\ run' = [run EXCEPT !.task = t, !.todo = @ \ {t}, !.attempt = @ + 1]
    /\ shown' = shown \union {t}
    /\ UNCHANGED <<dirs, report, out, scans, refreshes, read>>

\* A valid patch is folded into the report that the process holds.
Validated(patch) ==
    /\ ValidPatch(patch, run.task)
    /\ leased' = leased \ {run.task.name}
    /\ run' = [run EXCEPT !.report = FoldResolutions(@, {patch}), !.task = None, !.attempt = 0]
    /\ UNCHANGED <<dirs, report, out, scans, refreshes, read, shown>>

\* No patch, an invalid one, or a runner that failed; the last attempt gives up.
FailedAttempt ==
    /\ leased' = leased \ {run.task.name}
    /\ run' = IF run.attempt = MaxAttempts THEN [run EXCEPT !.task = None, !.attempt = 0] ELSE run
    /\ UNCHANGED <<dirs, report, out, scans, refreshes, read, shown>>

FinishRun ==
    /\ run.task = None /\ run.todo = {}
    /\ report' = run.report
    /\ run' = None
    /\ UNCHANGED <<dirs, out, leased, scans, refreshes, read, shown>>

\* The operating system frees the lock; the lease stays until its time is up.
CrashRun ==
    /\ run' = None
    /\ UNCHANGED <<dirs, report, out, leased, scans, refreshes, read, shown>>

ExpireLease(name) ==
    /\ run # None /\ run.task # None => run.task.name # name
    /\ leased' = leased \ {name}
    /\ UNCHANGED <<dirs, report, out, run, scans, refreshes, read, shown>>

Answered ==
    /\ run.task # None /\ run.task.name \in leased
    /\ \/ \E patch \in Patches(run.task.name) : Validated(patch)
       \/ FailedAttempt

Next ==
    \/ \E r \in Repos : BeginSnapshot(r) \/ WriteArtifacts(r)
    \/ \E named \in SUBSET Repos \ {{}} : LinkScan(named) \/ LinkRefresh(named)
    \/ LinkPrompts
    \/ out # None /\ \E t \in out.tasks : \E patch \in Patches(t.name) : DropPatch(patch)
    \/ LinkCollect
    \/ StartRun
    \/ /\ run # None
       /\ \/ \E t \in run.todo \union ({run.task} \ {None}) : SkipTask(t) \/ Dispatch(t)
          \/ Answered
          \/ FinishRun
          \/ CrashRun
    \/ \E name \in leased : ExpireLease(name)

Spec == Init /\ [][Next]_vars

-----------------------------------------------------------------------------

\* No call is lost without a word: each outbound edge of a snapshot that the report was
\* computed from is shown by link query as the caller of a link or as unmatched, unless two
\* of its module have one key (refresh_links: "rather than silently disappearing").
EveryCallIsAccounted ==
    \A r \in Repos : read[r] # None =>
        \A e \in OutEdges(read[r]) :
            \/ \E l \in QueryService(report, r).links : l.protocol = e.channel /\ l.caller = Side(read[r], e)
            \/ Unmatched(e.channel, Side(read[r], e)) \in QueryService(report, r).unmatched
            \/ \E f \in OutEdges(read[r]) \ {e} :
                  <<f.channel, f.module, Key(f.target)>> = <<e.channel, e.module, Key(e.target)>>

\* Until a refresh moves a link, its verdict is one that a task asked for: the task was
\* shown, with this link among its candidates and with the anchor that the verdict
\* cites (validate_task_patch: "no fabricated citation is trusted").
VerdictsWereShown ==
    \A l \in report.links :
        Judged(l) /\ l.status = None =>
            \E t \in shown : /\ t.name = l.resolution.name
                             /\ LinkId(l) \in t.candidates
                             /\ l.resolution.at \in Anchors(t)

Ends(l) == <<l.protocol, l.caller.repo, l.caller.module, Key(l.caller.target),
             l.callee.repo, l.callee.module, Key(l.callee.target)>>

\* A verdict that was folded stays until links are scanned again, whatever a run does
\* that was under way (cmd_link_run reads the report long before it writes it).
VerdictsStay ==
    [][\A l \in report.links :
          Judged(l) /\ scans' = scans =>
              \E m \in report'.links : Judged(m) /\ Ends(m) = Ends(l)]_vars
=============================================================================
