----------------------------- MODULE Workspace ------------------------------
(***************************************************************************)
(* The store of one repository and the commands that change it: scan,      *)
(* collect, run, answer, fold, refresh, rollback, compact and gc of        *)
(* cdp/cli.py over cdp/store/sqlite_backend.py.                            *)
(*                                                                         *)
(* Every command holds the exclusive repo lock for its whole body, so one  *)
(* command runs at a time. Each of its commits is an action of its own: a  *)
(* command can die between two of them, and the tree it reads is the       *)
(* user's, who may check out another commit while the command runs.        *)
(***************************************************************************)
EXTENDS Fold

CONSTANTS
    Commits,        \* commits of the repository
    Scopes,         \* nodes of the partition
    Root,           \* the node of the derived patch
    Anon,           \* "cdp", the run id of a snapshot without a manifest
    KeepGenerations,\* `compact --keep-generations`
    Compaction,     \* TRUE: `cdp compact` is used
    MaxPatches,     \* bound on the rows of one log
    MaxGeneration,  \* bound on generations
    MaxRollbacks,   \* bound on rollbacks
    MaxCheckouts,   \* bound on checkouts
    MaxCrashes      \* bound on crashes

ASSUME WorkspaceAssumption ==
    /\ Root \in Nodes
    /\ Scopes \subseteq Nodes
    /\ None \notin Commits
    /\ Anon \notin Commits \cup {Answer}
    /\ Answer \notin Commits
    /\ KeepGenerations \in Nat \ {0}
    /\ Compaction \in BOOLEAN
    /\ MaxGeneration \in Nat \ {0}
    /\ {MaxPatches, MaxRollbacks, MaxCheckouts, MaxCrashes} \subseteq Nat

VARIABLES
    head,     \* the commit that is checked out
    snapshots,\* snapshot_meta: the commits that have a snapshot
    latest,   \* the snapshot of the highest touch_seq
    log,      \* claim_patch of each snapshot
    archive,  \* claim_patches_archive
    view,     \* the state artifact of each snapshot
    ledger,   \* the rollback artifact: run ids excluded in each snapshot
    arts,     \* the other artifacts each snapshot has
    manifest, \* manifest.run_id of each snapshot
    runs,     \* snapshot_run: the snapshot the row of a run refers to
    pc,       \* where the running command is; "idle": none runs
    snap,     \* the snapshot the running command has selected
    prior,    \* refresh: the snapshot it started from
    pending,  \* rollback: the runs it is about to exclude
    rollbacks, checkouts, crashes \* how often, for the bounds

rows == <<snapshots, latest>>
store == <<rows, log, archive, view, ledger, arts, manifest, runs>>
command == <<pc, snap, prior, pending>>
counts == <<rollbacks, checkouts, crashes>>
vars == <<head, store, command, counts>>

Runs == Commits \cup {Answer, Anon}

Patches == [seq : 0..MaxPatches, node : Nodes, run : Runs, status : Statuses,
            generation : 1..MaxGeneration, at : Commits, tree : Commits]

States == [claims : SUBSET Patches, unreviewed : SUBSET Patches,
           asked : SUBSET Patches, demoted : SUBSET Patches,
           gaps : SUBSET Nodes, tree : Commits \cup {None}]

\* The state of a snapshot that has no state artifact.
Unfolded == [claims |-> {}, unreviewed |-> {}, asked |-> {}, demoted |-> {},
             gaps |-> {}, tree |-> None]

Steps == {"idle", "collect", "accept", "run", "answer", "fold",
          "gc", "rollback_ledger"}
ScanSteps == {"scan_schedule", "scan_structure", "scan_derive", "scan_fold",
              "scan_manifest"}
RefreshSteps == {"refresh_copy", "refresh_structure", "refresh_fold",
                 "refresh_manifest"}

Init ==
    /\ head \in Commits
    /\ snapshots = {}
    /\ latest = None
    /\ log = [c \in Commits |-> {}]
    /\ archive = {}
    /\ view = [c \in Commits |-> Unfolded]
    /\ ledger = [c \in Commits |-> {}]
    /\ arts = [c \in Commits |-> {}]
    /\ manifest = [c \in Commits |-> Anon]
    /\ runs = [r \in Runs |-> None]
    /\ pc = "idle"
    /\ snap = None
    /\ prior = None
    /\ pending = {}
    /\ rollbacks = 0
    /\ checkouts = 0
    /\ crashes = 0

Idle == pc' = "idle" /\ snap' = None /\ prior' = None /\ pending' = {}

\* What query.Store finds in the latest snapshot.
Readable == latest # None /\ "structure" \in arts[latest]

(***************************************************************************)
(* Steps that commands share.                                              *)
(***************************************************************************)
\* A command that reads the latest snapshot.
Open(step) ==
    /\ pc = "idle"
    /\ Readable
    /\ pc' = step
    /\ snap' = latest
    /\ UNCHANGED <<head, store, prior, pending, counts>>

\* begin_snapshot: select or create the row, and move the pointer to it.
BeginSnapshot(c) ==
    /\ latest' = c
    /\ snapshots' = snapshots \cup {c}
    /\ snap' = c

\* write_artifact.
Put(name) == arts' = [arts EXCEPT ![snap] = @ \cup {name}]

WriteArtifact(step, name, next) ==
    /\ pc = step
    /\ Put(name)
    /\ pc' = next
    /\ UNCHANGED <<head, rows, log, archive, view, ledger, manifest, runs,
                   snap, prior, pending, counts>>

NextSeq(patches) == Max({p.seq : p \in patches} \cup {0}) + 1

\* append_patch: content that is in the log already is not appended again.
Append(n, run, status, generation) ==
    LET patch == [seq |-> NextSeq(log[snap]), node |-> n, run |-> run,
                  status |-> status, generation |-> generation,
                  at |-> snap, tree |-> head]
        known == \E p \in log[snap] :
                    /\ status # "complete"
                    /\ p.node = n /\ p.run = run /\ p.status = status
    IN  /\ patch.seq <= MaxPatches
        /\ log' = IF known THEN log
                  ELSE [log EXCEPT ![snap] = @ \cup {patch}]

AppendComplete(n, run) ==
    LET generation == NextGeneration(log[snap], n) IN
    /\ generation <= MaxGeneration
    /\ Append(n, run, "complete", generation)

\* fold, and write_artifact("state").
WriteState(excluded, from) ==
    view' = [view EXCEPT ![snap] = FoldOf(log[snap], excluded, head, from)]

(***************************************************************************)
(* scan.                                                                   *)
(***************************************************************************)
ScanBegin ==
    /\ pc = "idle"
    /\ NextGeneration(log[head], Root) <= MaxGeneration
    /\ BeginSnapshot(head)
    /\ pc' = "scan_schedule"
    /\ UNCHANGED <<head, log, archive, view, ledger, arts, manifest, runs,
                   prior, pending, counts>>

\* The artifacts up to schedule; the last of the others is xref.
ScanSchedule == WriteArtifact("scan_schedule", "schedule", "scan_structure")
ScanStructure == WriteArtifact("scan_structure", "structure", "scan_derive")

\* write_derived_patch: the derived row, number 0, is replaced.
Derive ==
    LET generation == NextGeneration(log[snap], Root)
        patch == [seq |-> 0, node |-> Root, run |-> snap,
                  status |-> "complete", generation |-> generation,
                  at |-> snap, tree |-> head]
    IN  /\ pc = "scan_derive"
        /\ log' = [log EXCEPT ![snap] = {p \in @ : p.seq # 0} \cup {patch}]
        /\ pc' = "scan_fold"
        /\ UNCHANGED <<head, rows, archive, view, ledger, arts, manifest,
                       runs, snap, prior, pending, counts>>

ScanFold ==
    /\ pc = "scan_fold"
    /\ WriteState(ledger[snap], None)
    /\ pc' = "scan_manifest"
    /\ UNCHANGED <<head, rows, log, archive, ledger, arts, manifest, runs,
                   snap, prior, pending, counts>>

ScanManifest ==
    /\ pc = "scan_manifest"
    /\ Put("manifest")
    /\ manifest' = [manifest EXCEPT ![snap] = snap]
    /\ Idle
    /\ UNCHANGED <<head, rows, log, archive, view, ledger, runs, counts>>

(***************************************************************************)
(* collect, run, answer, fold.                                             *)
(***************************************************************************)
\* A patch names the run whose prompt its author was given.
PromptedRuns == {manifest[c] : c \in snapshots}

CollectBegin == Open("collect")

CollectReject(n, r) ==
    /\ pc = "collect"
    /\ Append(n, r, "invalid", 1)
    /\ UNCHANGED <<head, rows, archive, view, ledger, arts, manifest, runs,
                   command, counts>>

CollectAccept(n, r) ==
    /\ pc \in {"collect", "accept"}
    /\ AppendComplete(n, r)
    /\ pc' = "accept"
    /\ UNCHANGED <<head, rows, archive, view, ledger, arts, manifest, runs,
                   snap, prior, pending, counts>>

\* Mutant: without an accepted patch there is nothing to fold.
CollectEndEarly ==
    /\ pc \in {"collect", "accept"}
    /\ pc' = IF pc = "accept" THEN "fold" ELSE "idle"
    /\ UNCHANGED <<head, store, snap, prior, pending, counts>>

CollectEnd ==
    /\ pc \in {"collect", "accept"}
    /\ pc' = "fold"
    /\ UNCHANGED <<head, store, snap, prior, pending, counts>>

\* begin_run does not touch the row of a run id that is known.
RunBegin ==
    /\ pc = "idle"
    /\ Readable
    /\ "schedule" \in arts[latest]
    /\ runs' = IF runs[manifest[latest]] = None
               THEN [runs EXCEPT ![manifest[latest]] = latest] ELSE runs
    /\ pc' = "run"
    /\ snap' = latest
    /\ UNCHANGED <<head, rows, log, archive, view, ledger, arts, manifest,
                   prior, pending, counts>>

\* What Supervisor's wave leaves in the log for one scope.
RunValidated(n) ==
    /\ pc = "run"
    /\ AppendComplete(n, manifest[snap])
    /\ UNCHANGED <<head, rows, archive, view, ledger, arts, manifest, runs,
                   command, counts>>

RunAbandoned(n) ==
    /\ pc = "run"
    /\ Append(n, manifest[snap], "failed", 1)
    /\ UNCHANGED <<head, rows, archive, view, ledger, arts, manifest, runs,
                   command, counts>>

RunEndWave ==
    /\ pc = "run"
    /\ pc' = "fold"
    /\ UNCHANGED <<head, store, snap, prior, pending, counts>>

AnswerAppend(n) ==
    /\ pc = "answer"
    /\ AppendComplete(n, Answer)
    /\ pc' = "fold"
    /\ UNCHANGED <<head, rows, archive, view, ledger, arts, manifest, runs,
                   snap, prior, pending, counts>>

\* The scope, the anchor or the claim is not valid.
AnswerRefused ==
    /\ pc = "answer"
    /\ Idle
    /\ UNCHANGED <<head, store, counts>>

AnswerBegin == Open("answer")
FoldBegin == Open("fold")

\* Mutant: _fold_and_write forgets the rollback ledger.
FoldAndWriteAll ==
    /\ pc = "fold"
    /\ WriteState({}, None)
    /\ Idle
    /\ UNCHANGED <<head, rows, log, archive, ledger, arts, manifest, runs,
                   counts>>

FoldAndWrite ==
    /\ pc = "fold"
    /\ WriteState(ledger[snap], None)
    /\ Idle
    /\ UNCHANGED <<head, rows, log, archive, ledger, arts, manifest, runs,
                   counts>>

(***************************************************************************)
(* refresh.                                                                *)
(***************************************************************************)
RefreshBegin ==
    /\ pc = "idle"
    /\ Readable
    /\ head # latest
    /\ prior' = latest
    /\ BeginSnapshot(head)
    /\ pc' = "refresh_copy"
    /\ UNCHANGED <<head, log, archive, view, ledger, arts, manifest, runs,
                   pending, counts>>

\* Mutant: the manifest is carried over with the log.
RefreshCopyAll ==
    /\ pc = "refresh_copy"
    /\ log' = IF log[snap] = {} THEN [log EXCEPT ![snap] = log[prior]] ELSE log
    /\ Put("manifest")
    /\ pc' = "refresh_structure"
    /\ UNCHANGED <<head, rows, archive, view, ledger, manifest, runs, snap,
                   prior, pending, counts>>

\* copy_patches_from, when the snapshot has no log of its own.
RefreshCopy ==
    /\ pc = "refresh_copy"
    /\ log' = IF log[snap] = {} THEN [log EXCEPT ![snap] = log[prior]] ELSE log
    /\ pc' = "refresh_structure"
    /\ UNCHANGED <<head, rows, archive, view, ledger, arts, manifest, runs,
                   snap, prior, pending, counts>>

RefreshStructure ==
    WriteArtifact("refresh_structure", "structure", "refresh_fold")

RefreshFold ==
    /\ pc = "refresh_fold"
    /\ WriteState(ledger[snap], prior)
    /\ pc' = "refresh_manifest"
    /\ UNCHANGED <<head, rows, log, archive, ledger, arts, manifest, runs,
                   snap, prior, pending, counts>>

\* The manifest is the old one with a new head: its run_id stays.
RefreshManifest ==
    /\ pc = "refresh_manifest"
    /\ Put("manifest")
    /\ manifest' = [manifest EXCEPT ![snap] = manifest[prior]]
    /\ Idle
    /\ UNCHANGED <<head, rows, log, archive, view, ledger, runs, counts>>

(***************************************************************************)
(* rollback.                                                               *)
(***************************************************************************)
\* --to-run excludes a run of the log; --to-snapshot every run that has a
\* patch after the last one of the run it names.
ToRun(r) == {p.run : p \in {q \in log[latest] : q.run = r}}

ToSnapshot(r) ==
    LET own == {p.seq : p \in {q \in log[latest] : q.run = r}} IN
    IF own = {} THEN {}
    ELSE {p.run : p \in {q \in log[latest] : q.seq > Max(own)}}

RollbackState(excluded) ==
    /\ pc = "idle"
    /\ Readable
    /\ excluded # {}
    /\ rollbacks < MaxRollbacks
    /\ rollbacks' = rollbacks + 1
    /\ view' = [view EXCEPT ![latest] =
                  FoldOf(log[latest], ledger[latest] \cup excluded, head, None)]
    /\ pending' = excluded
    /\ snap' = latest
    /\ pc' = "rollback_ledger"
    /\ UNCHANGED <<head, rows, log, archive, ledger, arts, manifest, runs,
                   prior, checkouts, crashes>>

RollbackLedger ==
    /\ pc = "rollback_ledger"
    /\ ledger' = [ledger EXCEPT ![snap] = @ \cup pending]
    /\ Idle
    /\ UNCHANGED <<head, rows, log, archive, view, arts, manifest, runs,
                   counts>>

(***************************************************************************)
(* compact and gc.                                                         *)
(***************************************************************************)
\* The complete rows of a log that are not derived: its generations.
Generations(c) == {p \in Complete(log[c]) : p.seq # 0}

\* Mutant: the generations are sorted the other way.
Older(c, p) ==
    {q \in Of(Generations(c), p.node) : q.generation < p.generation}

Newer(c, p) ==
    {q \in Of(Generations(c), p.node) : q.generation > p.generation}

Superseded(c) ==
    {p \in Generations(c) : Cardinality(Newer(c, p)) >= KeepGenerations}

GenerationRows == UNION {{<<c, p>> : p \in Generations(c)} : c \in snapshots}

\* --compact-threshold: 30% of the generations in the store are superseded.
WorthCompacting ==
    LET superseded == {row \in GenerationRows : row[2] \in Superseded(row[1])}
    IN  /\ superseded # {}
        /\ 10 * Cardinality(superseded) >= 3 * Cardinality(GenerationRows)

\* Mutant: the archive is rewritten by each compaction.
CompactToOne ==
    /\ pc = "idle"
    /\ Compaction
    /\ WorthCompacting
    /\ archive' = UNION {Superseded(c) : c \in snapshots}
    /\ log' = [c \in Commits |-> log[c] \ Superseded(c)]
    /\ UNCHANGED <<head, rows, view, ledger, arts, manifest, runs, command,
                   counts>>

\* One commit for the whole file: every snapshot's log.
Compact ==
    /\ pc = "idle"
    /\ Compaction
    /\ WorthCompacting
    /\ archive' = archive \cup UNION {Superseded(c) : c \in snapshots}
    /\ log' = [c \in Commits |-> log[c] \ Superseded(c)]
    /\ UNCHANGED <<head, rows, view, ledger, arts, manifest, runs, command,
                   counts>>

\* gc selects the snapshot of HEAD, which moves the pointer to it.
GcBegin ==
    /\ pc = "idle"
    /\ head \in snapshots
    /\ BeginSnapshot(head)
    /\ pc' = "gc"
    /\ UNCHANGED <<head, log, archive, view, ledger, arts, manifest, runs,
                   prior, pending, counts>>

\* anchor_verified_at and claim_reviewed_at of the selected snapshot's claims.
Cited ==
    {view[snap].tree : p \in view[snap].claims}
    \cup {p.at : p \in view[snap].claims \ view[snap].unreviewed}

Dropped == snapshots \ ({snap} \cup Cited)

Referenced(c) == \E r \in Runs : runs[r] = c

\* delete_snapshot: one commit.
GcDrop(c) ==
    /\ pc = "gc"
    /\ c \in Dropped
    /\ ~Referenced(c)
    /\ snapshots' = snapshots \ {c}
    /\ log' = [log EXCEPT ![c] = {}]
    /\ view' = [view EXCEPT ![c] = Unfolded]
    /\ ledger' = [ledger EXCEPT ![c] = {}]
    /\ arts' = [arts EXCEPT ![c] = {}]
    /\ manifest' = [manifest EXCEPT ![c] = Anon]
    /\ UNCHANGED <<head, latest, archive, runs, command, counts>>

\* A run refers to the snapshot: the foreign key refuses, and gc ends there.
GcRefused(c) ==
    /\ pc = "gc"
    /\ c \in Dropped
    /\ Referenced(c)
    /\ Idle
    /\ UNCHANGED <<head, store, counts>>

GcEnd ==
    /\ pc = "gc"
    /\ Dropped = {}
    /\ Idle
    /\ UNCHANGED <<head, store, counts>>

(***************************************************************************)
(* The environment.                                                        *)
(***************************************************************************)
\* The user moves to another commit, whatever command is running.
Checkout(c) ==
    /\ checkouts < MaxCheckouts
    /\ c # head
    /\ head' = c
    /\ checkouts' = checkouts + 1
    /\ UNCHANGED <<store, command, rollbacks, crashes>>

\* The command dies; the connection's open transaction is rolled back.
Crash ==
    /\ pc # "idle"
    /\ crashes < MaxCrashes
    /\ crashes' = crashes + 1
    /\ Idle
    /\ UNCHANGED <<head, store, rollbacks, checkouts>>

Scan ==
    \/ ScanBegin \/ ScanSchedule \/ ScanStructure
    \/ Derive \/ ScanFold \/ ScanManifest

Collect ==
    \/ CollectBegin \/ CollectEnd
    \/ \E n \in Scopes, r \in PromptedRuns :
         CollectReject(n, r) \/ CollectAccept(n, r)

Run ==
    \/ RunBegin \/ RunEndWave
    \/ \E n \in Scopes : RunValidated(n) \/ RunAbandoned(n)

AnswerOne ==
    AnswerBegin \/ AnswerRefused \/ \E n \in Scopes : AnswerAppend(n)

Refresh ==
    \/ RefreshBegin \/ RefreshCopy \/ RefreshStructure \/ RefreshFold
    \/ RefreshManifest

Rollback ==
    \/ \E r \in Runs :
         Readable /\ (RollbackState(ToRun(r)) \/ RollbackState(ToSnapshot(r)))
    \/ RollbackLedger

Gc == GcBegin \/ GcEnd \/ \E c \in Commits : GcDrop(c) \/ GcRefused(c)

Next ==
    \/ Scan \/ Collect \/ Run \/ AnswerOne
    \/ FoldBegin \/ FoldAndWrite
    \/ Refresh \/ Rollback \/ Compact \/ Gc
    \/ \E c \in Commits : Checkout(c)
    \/ Crash

Spec == Init /\ [][Next]_vars

(***************************************************************************)
(* Properties.                                                             *)
(***************************************************************************)
\* The artifacts, rows and pointers of the store, and the running command.
TypeOK ==
    /\ head \in Commits
    /\ snapshots \subseteq Commits
    /\ latest \in Commits \cup {None}
    /\ log \in [Commits -> SUBSET Patches]
    /\ archive \subseteq Patches
    /\ view \in [Commits -> States]
    /\ ledger \in [Commits -> SUBSET Runs]
    /\ arts \in [Commits -> SUBSET {"schedule", "structure", "manifest"}]
    /\ manifest \in [Commits -> Runs]
    /\ runs \in [Runs -> Commits \cup {None}]
    /\ pc \in Steps \cup ScanSteps \cup RefreshSteps
    /\ snap \in Commits \cup {None} /\ prior \in Commits \cup {None}
    /\ pending \subseteq Runs

\* The patches whose claims or questions the state of a snapshot holds.
Shown(c) ==
    view[c].claims \cup view[c].asked \cup view[c].demoted

\* The ledger is honoured: at every moment, also between the commits of a
\* command and after its death, the state artifact of a snapshot holds no
\* claim or question of a run that the snapshot's ledger excludes.
LedgerHonoured ==
    \A c \in snapshots : \A p \in Shown(c) : p.run \notin ledger[c]

\* The live generation of a node never depends on the hash of two patches:
\* no two complete patches of a node share one, whatever was rescanned,
\* compacted, copied or rolled back.
GenerationsUnique ==
    \A c \in snapshots : \A p, q \in Complete(log[c]) :
        p.node = q.node /\ p.generation = q.generation => p = q

\* The manifest marks a snapshot as complete: lock-free readers pick the
\* latest snapshot that has one.
ManifestMarksComplete ==
    \A c \in snapshots : "manifest" \in arts[c] =>
        /\ "structure" \in arts[c]
        /\ view[c].tree # None

\* R5: nothing is deleted, only relocated. A patch once appended is in the
\* log of its snapshot, or in the archive, for as long as the snapshot exists;
\* and the archive only grows.
AppendOnly ==
    [][/\ archive \subseteq archive'
       /\ \A c \in Commits : c \in snapshots \cap snapshots' =>
            \A p \in log[c] : p.seq # 0 => p \in log'[c] \cup archive']_vars

\* Compaction takes the questions of superseded generations out of the log.
NothingCompacted == archive = {}

\* R12: while no run is rolled back and nothing has been compacted, a question that
\* a snapshot's state asks is never dropped from it.
QuestionsStick ==
    [][\A c \in Commits :
          NothingCompacted' /\ c \in snapshots \cap snapshots' =>
          \A p \in view[c].asked :
             \/ p \in view'[c].asked
             \/ p.run \in ledger[c] \cup pending'
             \/ p.seq = 0]_vars

\* `fold --check`: after any sequence of commands that ended, none of them a
\* compaction, and as long as the tree is the one the last of them saw, the
\* state of the current snapshot is the fold of its log and its ledger.
CheckPasses ==
    /\ pc = "idle" /\ crashes = 0 /\ NothingCompacted
    /\ latest # None /\ view[latest].tree = head
    => view[latest] = FoldOf(log[latest], ledger[latest], head, None)

LiveClaims(c) == FoldOf(log[c], ledger[c], head, None).claims

\* Compaction moves no live generation of a snapshot with an empty ledger: what
\* it claims is the same before and after, whatever was rolled back elsewhere.
CompactionKeepsClaims ==
    [][Compact => \A c \in snapshots : ledger[c] = {} => LiveClaims(c)' = LiveClaims(c)]_vars

\* What the comment in sqlite_backend.py says of every snapshot: "the row kept hot
\* here is exactly the row `state.fold` already treats as this node's live generation".
CompactionKeepsLive ==
    [][Compact => \A c \in snapshots : LiveClaims(c)' = LiveClaims(c)]_vars
=============================================================================
