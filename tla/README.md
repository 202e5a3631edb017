# TLA+ models of cdp

`cdp` (code discovery pyramid) turns a repository into a store of *claims*, each anchored on
source lines. Python extracts the structure, a planner cuts the files into scopes, language-model
*leaves* answer one prompt per scope, and a fold over an append-only patch log yields `state.json`,
which queries and a web server show. This directory models those parts, checks them with TLC, and
proves the central invariants with TLAPS.

    tlc -workers 2 -config supervisor.cfg MCSupervisor.tla     # any run of section 3
    tlapm Supervisor_proofs.tla                                # any *_proofs module

`PROJECT.json` lists components, runs, mutants (plausible bugs per property, which TLC must
find), the source lines behind every definition, hazards, the finding and the theorems.

## 1. Inventory of the system

| Component | State it keeps | Operations | Hard behaviour | Correct when | Modelled in |
|---|---|---|---|---|---|
| Supervisor (`supervisor.py`, `runner.py`, `_apply_wave_results`) | `snapshot_task` rows (state, attempts, lease), inbox files, `snapshot_run` | claim, prompt, run, classify, settle, release, retry, abandon; heartbeat thread; `mark_folded`; reclaim | lease expiry against renewal, crashes between commits, late answers, retries | one holder per scope; `folded` only when the claims are in the state; no silent gap; every invocation ends | `Supervisor` |
| Workspace store (`sqlite_backend.py`) and its commands (`cli.py`) | snapshots and the pointer to the latest, patch logs, archive, artifacts, rollback ledger, manifests | scan, collect, run, answer, fold, refresh, rollback, compact, gc | a command is several commits; the user changes the tree meanwhile; rows move between logs, snapshots and archive | the state is the fold of its log; ledger, questions and generations survive; nothing is deleted | `Workspace` |
| Fold (`state.py`) | none: log, ledger, tree to state | select, verify, gaps, questions | supersession, rollback, tied generations | depends on the content of the log, not on the history of commands | `Fold`, `Claims` |
| Claims: merge, anchors, verification, gates, entailment (`merge.py`, `anchor.py`, `verify.py`, `gates.py`, `entail.py`) | none | accept, demote, unite, resolve, discharge | ties, order of arrival, lines that repeat and move | same result for every order; what is dropped is stated; a citation follows its line or fails | `Anchors`, `Claims` |
| Planning (`graph.py`, `partition.py`, `schedule.py`) | none: inventory to waves | layering, cycles, cut, coalesce, pack, waves | budgets, cycles, names of merged scopes | every file in exactly one scope; dependencies first | `Layering`, `Partition`, `Planning` |
| Prompts, tiers (`prompts.py`, `tiering.py`) | prompt files, the report "tiering" | inherit, squeeze, write, escalate | truncation at the budget; claims read before or after a wave | what the dependencies found is told, or counted as elided | `Prompts`, `Prompting` |
| Run planning (`cmd_run`) | run rows, run ids, the pin of the lessons | resume, drift of the partition, waves | a partition that changes between crash and resume | nothing stale is inherited; a run keeps its pin | `RunPlan` |
| Trajectories, lessons (`trajectory.py`, `reflect.py`) | a second database shared by all repositories | record, promote, cut, holdout, unpromote | no lock around it | a cut never changes; a trial is on a repository not learned from | `Lessons` |
| Inventory, extraction, refresh of rows (`inventory.py`, `extract.py`, `refresh.py`) | the extracted rows | attribute, extract, extract again | renames, moved manifests, missing history | a refresh leaves what a scan would, where it reads again what changed | `Sources`, `Atlas` |
| Resolution, data flow, derived claims (`resolve.py`, `dataflow.py`, `derive.py`) | none | resolve uses, trace paths, derive patch 0 | ambiguity, bounds on paths | the paths are the shortest to every effect | `Resolution`, `Dataflow`, `Derived` |
| Query (`query.py`) | none | eleven budgeted kinds | one allowance shared by all lists | an answer that is cut says so | `Queries` |
| Web graphs and pages (`web/api/app.py`, `encoding.py`, `nodeid.py`, `flow.py`) | none | charts by altitude and rung, node pages, flow, confidence | ids followed from one chart to the next | charts are closed; a roll-up adds up; the flow has the paths | `Charts`, `Portal` |
| Cross-repo links (`link.py`, `cmd_link_*`) | link edges, link tasks, tasks and inbox files | scan, prompts, collect, run, refresh | several snapshots; hours between a read and a write | a call is linked or unmatched; a verdict is about what was shown, and is kept | `Links`, `LinkDesk` |
| Repo lock (`lock.py`) | one `flock` per store | shared, exclusive, timeout | the lock file is deleted under a holder | readers see no half command | no; its effect is `RepoLock`, `Free` |
| Web jobs (`web/api/jobs.py`) | a registry in memory | spawn or join | two requests at once; server restart | one job per store | no: single-flight behind one lock |
| Freshness (`freshness.py`) | churn cache | a bucket per claim | shallow clones | follows `git log` | no: only reports show it |
| Language extractors (`lang/*`) | none | parse | | | no: sequential text parsing; what a file yields is the data of `Sources` |
| Docs, export, diff, hooks, doctor, golden | none | views | | | no: read-only over one snapshot |
| Other backends, registry | the same tables | the same protocol | | | no: the sqlite backend is the reference |
| Adapters, MCP server, benchmarks, schema, util | none | wrappers | | | no: a runner is modelled by what it may leave in the inbox |

**How they interact.** Every mutating command holds the exclusive repo lock for its whole body, so
the commands of one store run one at a time and `Workspace` models them so. Inside `cdp run`, the
supervisor, its heartbeat thread, the runner process and the person who answers prompts run
concurrently, and they share the task rows and the inbox: that is `Supervisor`. `RunPlan` is the
same command one level up: its wave is a step, and `Supervisor` is what happens in the step. The
patch log is where `Supervisor` and `Workspace` meet: `AppendComplete`/`AppendFailed` are
`Workspace`'s `RunValidated`/`RunAbandoned`, and `FoldWave`, `WriteState` are its `FoldAndWrite`,
whose value `Fold` computes over opaque patches and `Claims` over claims and questions. `Planning`
makes the waves, `Prompting` reads them. `Atlas` is the same scan and refresh seen from the
extracted rows; `Queries` and `Charts` read its view. Lock-free readers (`query`, web) see the store
between any two commits; what they may rely on is `ManifestMarksComplete`. `LinkDesk` reads the
snapshots of several stores without their locks, so it sees a refresh half done. The lessons of
`Lessons` are the only state that several repositories write.

## 2. Modules

* **`Supervisor`** - one process per element of `Supervisors`. `pc` walks the statements of
  `cmd_run`, `run_wave`, `dispatch_scope`, `_apply_wave_results` and `mark_folded`, one action per
  database commit or file operation. Rows of `snapshot_task` are `stage`, `attempts`, `lease`; the
  inbox holds one of four kinds of answer per scope, or none; `log` and `state` keep a scope's
  status, which is all that these properties tell apart. Time is a countdown per lease, so states
  stay finite. `Crash` drops everything in memory and leaves the tables. `RepoLock` chooses between
  `cdp run` (one process at a time) and bare `run_wave` calls, which only leases separate.
  `Heartbeat` renews without naming an owner, as the UPDATE does.
* **`TaskLifecycle`** - the task state machine that the docstring of `supervisor.py` draws, with the
  redispatch after a crash. `Supervisor` implements it (`LifecycleHolds`), with
  `answered` mapped to the scopes that have a complete patch.
* **`LeaseClaims`** - what a lease is for: an atomic claim. `Supervisor` implements it
  (`ClaimsHold`), with `holder` mapped to the process between `acquire_lease` and `release_lease`.
* **`Fold`** - `state.fold` as a function of log, ledger, tree and refresh. A complete patch stands
  for its claims and its questions; `Drift` says what happened to the files a node cites between two
  commits, which decides whether an anchor is still found.
* **`Workspace`** - the store, and `pc`/`snap`/`prior`/`pending` as the locals of the one running
  command. Each `begin_snapshot`, `write_artifact`, `append_patch`, `delete_snapshot` and so on is
  an action, because each is a commit. `Checkout` is the user, whom no lock stops; `Crash` can come
  between any two commits.
* **`Anchors`** - `anchor.py` as functions on files whose lines are sequences of words: building an
  anchor, finding it again within a window, the limit on matches, spans.
* **`Claims`** - the way of a claim: an inbox collected in any order, gates on what is asked,
  verification of what is cited, selection of generations, merging, entailment, discharge of
  questions; a user inserts lines between collect and fold. `moved` is a history variable: where the
  text of each line of the first tree is now. `First` is the row that `_union`'s stable sort puts in
  front, and `Where` is a list comprehension.
* **`Layering`** - Tarjan's algorithm as `_find_cycles` runs it, with the explicit stack of frames,
  one action per child looked at; `Depth`, `Lifted`, `LevelOf` are the rest of `_layer`.
* **`Partition`** - `_cut`, the merges of `_coalesce`, `_pack_siblings` and `assert_partition` as
  operators on sets of files. `Cut` is the recursion in closed form: a directory is reached when
  every directory above it was split. A path is a sequence of numbers; made-up segments start with
  `Loose` (`(files)`, `(label+n)`).
* **`Planning`** - extends both; the pipeline of `cmd_scan` from an inventory to waves: the search,
  the layering, the cut, one turn of the coalescing loop, one scope put into a bin, the assertion,
  one wave at a time. Where the code iterates over a set or sorts by a key with ties, the choice is
  free.
* **`Prompts`, `Prompting`** - what a prompt inherits, its sections measured in rows, the levers
  that bring it under its budget and their order, the tier of a scope; and the waves of a plan read
  by `cdp run` (`RunWave`) or by hand (`CmdPrompts`, `CmdCollect`).
* **`Lessons`, `RunPlan`** - the shared database, a step per commit or connection; the invocations
  of `cdp run` that choose a run id, inherit and are pinned, composed over it.
* **`Sources`, `Resolution`, `Dataflow`, `Derived`, `Queries`, `Charts`** - the read path, one
  operator per function, each module over the one before: rows of a tree, owners and uses of
  symbols, typed edges and paths, patch 0, budgeted answers, charts and pages.
* **`Atlas`, `Portal`** - the machines over them: checkouts, scans, refreshes and queries; requests
  of a browser.
* **`Links`, `LinkDesk`** - the functions of `link.py`; the `cdp link` commands over state
  directories that are refreshed meanwhile, `link run` step by step with its crash.
* **`MC...`** - instances for TLC: symmetry sets, inventories, trees, answers.
* **`..._proofs`** - section 5.

## 3. Runs

| Run | Question | Properties |
|---|---|---|
| `supervisor` | successive `cdp run --resume`, crash anywhere, late answers | `TypeOK` `FoldedIsInState` `FinishLeavesNoGap` `NoStaleAnswer` `AnswerSurvives` `LifecycleHolds` |
| `supervisor_lease` | two supervisors with nothing but leases between them | `ExclusiveDispatch` `ClaimsHold` |
| `supervisor_live` | does every invocation end, is every scope accounted for | `InvocationEnds` `EveryScopeIsAccountedFor` |
| `workspace` | any sequence of commands over two snapshots, the user moving between them | `TypeOK` `CheckPasses` `QuestionsStick` `GenerationsUnique` `AppendOnly` `CompactionKeepsClaims` |
| `workspace_crash` | the same, dying between two commits | `LedgerHonoured` `ManifestMarksComplete` |
| `planning` | every graph of four modules, every layout of one module's directories, and the reading of the plans | `PartitionSound` `ScheduleSound` `PlanIsMade` `DependenciesAreTold` |
| `claims` | answers in every order, questions and what discharges them, lines that move | `OrderIndependent` `NothingVanishes` `QuestionsAreGenuine` `CitationsFollow` |
| `learning` | resumption over a moved partition; lessons shared by repositories and processes | `InheritedIsInLog` `HoldoutIsUnseen` `PinHolds` |
| `atlas` | scans, refreshes, queries and pages over four commits | `TypeOK` `NothingSilent` `SearchIsFair` `PathsAreShortest` `ChartIsClosed` `RollupIsFaithful` `FlowHasThePaths` `RefreshIsScan` |
| `links` | link commands while the repositories are refreshed | `EveryCallIsAccounted` `VerdictsWereShown` `VerdictsStay` |
| `workspace_compact_live` | compaction after a rollback: violates `CompactionKeepsLive` (section 7) | |
| `atlas_refresh` | a refresh over a commit without a blank line and a migration: violates `RefreshIsByteIdentical` (section 7) | |

`NothingToCoalesce`, a part of `PartitionSound`, is a result about the code worth knowing: `_cut`
splits only what exceeds a budget, and what it split still exceeds it, so `_coalesce` never merges
anything in a plan. The thin leaves that its docstring describes are all left to `_pack_siblings`.

**Bounds, and why they are enough.**

*Supervisor*: two scopes, because a wave must be able to be half done; two attempts, so that there
is a retry and an exhaustion; two processes, since every exclusion is between a pair; leases of two
units with a heartbeat of one, the least at which a lease can be renewed before it lapses, and can
lapse; one crash, which leaves one stale lease, and any number of invocations after it. Answers are
`good` and `hollow`: the other two kinds only choose another retry state.

*Workspace*: two commits (source and target of a refresh), two nodes (the derived one and a scope),
rows up to number 2 of one log, which is one superseded and one live generation, generations to 2,
one rollback, one checkout. Commits are symmetric. In `workspace` no behaviour goes on after both a
rollback and a compaction (`OneOfTheTwo`); a compaction after a rollback, or the reverse, is still
checked as its last step. Logs of three rows with a crash exceed ten
million states; the theorems of section 5 cover every bound. `CheckPasses` is checked with files
that did not change between the commits: a refresh knows renames and edits that later folds do not
(section 7). It and `QuestionsStick` speak of stores in which nothing has been compacted
(`NothingCompacted`), `CompactionKeepsClaims` of snapshots whose ledger is empty: outside of these
the code breaks them (section 7).

*Planning*: four modules are the fewest with a cycle, a module below it, one above it and one beside
it, and with two separate cycles; all 4096 graphs are tried. Six directories two deep give every
shape of `_cut` (split twice, loose files at both depths, a directory alone), with a short or a long
file each, and again with up to three short files for the budget of files; six small directories
fill bins; a nested module, files of no module and an importer lie beside them. The budgets are 4
files and 5 lines, waves hold two. A prompt holds 12 rows, of which 2 are fixed, with 4 inherited
claims, 3 rows of a file and 3 of a list, each halved down to 1, so that every lever is pulled and
some prompts exceed the budget with all of them pulled. One scope is lost; a behaviour keeps to one
way of reading (`run`, `prompts` or `digest`), as mixing them adds only interleavings of the same
steps. No layout has two bins of one module that get one name (section 7).

*Claims*: three nodes on one subject with every pattern of owners, two channels and citations of
different weight, which is every branch of the resolution; 6 collection orders. A question of each
kind of subject meets a claim that may discharge it. Anchors have 2 or 3 words, the window is one
line, spans are two, and at most two lines are inserted into files of up to four lines over an
alphabet in which lines repeat: a match can be unique, ambiguous inside the window, or lost.

*Learning*: two repositories that share a run id, two promotions, two processes that cut, two scopes
in three trees (one commit scanned with two budgets, and its successor). Either three invocations
and two scans without lessons, or two invocations with leaves, reflections and cuts: the two halves
meet only in the pin, and their product exceeds the time a run should take. Dirty trees, on which
`InheritedIsInLog` fails, are left to section 7.

*Atlas*: eleven files in three modules and the root; four commits that differ by an edit, a rename
with a reformat and one with an edit, a file that leaves a note on its module, and manifests moved to
the root, each reachable from each, so that refreshes go forth and back. A content has the lines of
its facts (`SeenAt`), and a reformat moves them. `RefreshIsScan` speaks of the refreshes that
`CarriesOver` admits: an edit beside modules that are carried, renames, reformats and lost notes in
modules that are read again, and refreshes without the history that lose no module; the run
`atlas_refresh` shows that its premise is needed. Three terms, budgets of 1 and 4 rows,
paths of 3 hops, traces of 2, one scan. A rung holds 1 node and a graph 17 at most, so that every
altitude and the overflow occur; 3 depths, 4 scopes, 2 focuses, 2 sets of hidden roles, 8 node ids
of every prefix, some of which nothing answers. An answer is compared with that of a budget of 30
rows (`Unlimited`), more than any list of the instance has.

*Links*: two repositories at two commits each, with 5, 4, 2 and 3 edges: an exact match, one by
parameters, a call that only a later commit answers, a table that changes module, a library; one
scan and one refresh of links, any number of prompts, collects and runs; two attempts.

Deadlock is checked in every run but three, which stop where the program does: a plan that is read,
an inbox that is collected, and the bounds of `learning` when they are used up.

## 4. Fairness

`planning` assumes weak fairness of the planning steps: one thread runs (`PlanIsMade`: every plan
is finished). `supervisor_live` assumes more. `Scheduling`: weak fairness of a process' own steps,
of its heartbeat and of the return of a runner (the code: threads are scheduled, and both runners
have a timeout, `runner.py`), and strong fairness of `Tick`. It is strong because in the model time
can only pass when no holder is overdue, a condition which the supervisor's short steps keep
interrupting; time is not disabled by them in reality. `Operator` is weak fairness of starting `cdp
run` again: `EveryScopeIsAccountedFor` is about an operator who keeps resuming, and crashes are
bounded, as the operator would otherwise never get an invocation to its end. `InvocationEnds` needs
no operator. The other runs state no fairness: users, agents and browsers owe the program nothing.

`Prompt` is an assumption about scheduling too: a holder's heartbeat thread runs when it is due, and
the few statements outside the heartbeat end within the lease. Without it leases exclude nothing
(the code never checks that it still holds a lease before it writes), so `ExclusiveDispatch` and
`ClaimsHold` are stated under it. A *crashed* holder is not prompt and is covered.

## 5. Theorems

All in modules of their own, for every value of the constants that satisfies the named ASSUMEs of
the modules. Most say that a constant is a number or a set of a type. Those that say something of
the inputs: `InventoriesAreScans` (`inventory.py` yields finite sets of files, each with one
directory of the tree and a number of lines), `HomesArePaths` (a module has a path),
`ModulesAreApart` (a file belongs to the deepest module above it, `_module_for`),
`AnswersAreWellFormed` (an answer that passed the schema is a sequence of claims with different ids;
a file is a sequence of lines of words), `TreesAreKnown` (a tree is a finite set of paths with
contents), `FactsAreRows` (an extractor reads finite lists of rows with names out of a content),
`CodeIsNamed` (it names code, never a URL, when it says what a file is, imports, serves or stores),
`SlashIsNoName` (no id begins as the group of a directory does), `NoneIsNoRepo`, `NoneIsNoWord`,
`RootIsNoModule`. TLC evaluates every one on its instance. An invariant of a proof was checked by
TLC on the run's instance first.

Induction is out of the prover's reach, so where a proof needs one it takes the least counterexample
out of a set of numbers (`Earliest`, from the well-foundedness of the natural numbers), with the
statement written out for the operator at hand.

**`Supervisor_proofs`**
* `TypeCorrect`. `TypeOK` is not inductive: actions write at `cursor[p]`, which must be a scope at
  the points that use it (`CursorAtScope`).
* `LeasesExclude` (under `Prompt`). Exclusion alone is not inductive: the rival's `Acquire` is only
  refused if the holder's lease has not lapsed. `HeldInTime` carries that: before the runner the
  lease still exceeds a heartbeat, while it runs the next beat comes before the lease ends, and
  afterwards some is left. `HeldInTime` in turn holds across a heartbeat only because the renewed row
  is the holder's own, which is exclusion: the two are one induction, `LeaseInv`.
* `LeasesImplementClaims` (under `Prompt`): every step maps to a `Claim`, a `GiveUp` or a stutter.
  `HolderIs` turns the CHOOSE of the mapping into a fact about holders.
* `FoldedMeansInState` (under the repo lock). Needs that only one process runs (`OneInvocation`) and
  how far each result row has come at each point of `_apply_wave_results` (`ApplyProgress`): appended
  before the fold, in the view before the write, in the state before `mark_folded`; and that the log
  only grows, so that an old `folded` row stays true of a newer fold.

* `NoSilentGap`, `AnswersAreFresh` (under the repo lock), from one invariant, `AccountInv`: `FoldInv`
  and, for each scope, where its outcome is to be found at each point of the invocation (`DebtOf`).
  What the wave has passed is in `results`; what `_apply_wave_results` has passed is a patch in the
  log; after the fold it is in the view, and after the write in `state.json`. A skipped scope has
  its patch from an earlier invocation, which is `FoldedIsInState`; and nobody else writes
  `state.json` meanwhile, which is `OneInvocation`. An answer is fresh because of the deletion
  between the claim and the prompt, and because no other process claims the scope in between.
* `AnswersSurvive` (under the repo lock), an action property: only `dispatch_scope` deletes an inbox
  file, before it prompts, and a second process that could do so meanwhile is not there.
* `LifecycleIsImplemented` (under the repo lock, with `--resume`): each of the program's steps is a
  step of `TaskLifecycle` or leaves its variables alone. The rows alone do not tell which: `RowInv`
  adds to `FoldInv` what the row of a scope says at each point of the process that drives it
  (`DrivenRow`), what it says of a scope whose result is known (`ReportedRow`), and that while a
  wave is dispatched only the scopes that `--resume` skips are folded (`NothingNewFolded`). Without `--resume` a leaf that is
  folded is dispatched again, which the docstring does not draw.

**`Workspace_proofs`**
* of `Fold`, for every log: `LiveIsComplete` (the live patch of a node exists and is one of its
  complete patches - a CHOOSE over a finite set, hence the bound on generations; well-foundedness of
  the natural numbers gives the maximum), `FoldExcludes` (a state shows no patch of an excluded run,
  and none outside the log), `NextGenerationIsNew`.
* `TypeCorrect`: with `Selected` (a running command has a snapshot) and `RoomForDerived` (the bound
  that `ScanBegin` checked still holds at `Derive`, several commits later).
* `LedgerIsHonoured`: `LedgerInv` adds that at `rollback_ledger` the state already excludes what is
  about to enter the ledger: the state is written *before* the ledger, and this order is what makes
  the invariant survive a crash between them.
* `GenerationsAreUnique`: a new complete patch is later than *every* row of its node, the derived
  row included; subsets (rescan, compaction) and copies (refresh) preserve it.
* `ManifestIsACommitMarker`: the points of scan and refresh between the artifacts and the manifest
  know which artifacts are written.
* `LogIsAppendOnly`: an action property; needs of the invariant only types.
* `QuestionsAreSticky`: as long as nothing has been compacted, a question asked by a state is of a
  complete row in that snapshot's log, and the log of a snapshot only grows (`LogGrows`). A
  compaction archives something and the archive keeps it (`ArchiveGrows`), so that the invariant may
  be given up with the first one.
* `CompactionIsHarmless`: where the ledger is empty, the generation `compact` keeps is the live one;
  elsewhere it may not be, which `workspace_compact_live` shows. That the *best* patch stays the best
  when the rows below it go needs that generations are unique.
* `CheckAlwaysPasses` (under `NoDrift`, and until something is compacted; section 7 has both cases).
  `CheckInv`: the state of a snapshot is the fold of its log and its ledger as of the tree it names,
  unless the one running command has changed the log and not folded yet (`Writing`), or stands
  between the state and the ledger of a rollback, where the state is that of the *coming* ledger.
  A crash at such a point leaves a state that is behind, so the invariant is about stores without
  crashes, as the property is.

**`RunPlan_proofs`**
* `CutsAreImmutable`, an action property, from `LessonInv`: versions are never the mark of a pending
  promotion, so a second cut that stamps what is pending cannot touch a version; that two processes
  may compute the same number is harmless because the insertion of the second is refused.
* `HoldoutSplitIsReal`: `LessonInv` adds that every promotion, recorded or about to be, still has
  the leaf it came from, so that the check by run id never misses a repository; and that a trial
  under way is about a version that learned nothing there, which no later step can change.
* `InvocationKeepsItsPin` (`PinInv`): from the immutability of cuts, across the lessons' steps that
  other processes take at any moment.
* `InheritanceIsSound` (`PaidInv`): where every scan of a commit goes into one snapshot (stated as
  an assumption of the theorem), a folded row has its answer in the log of that snapshot.

**`LinkDesk_proofs`**
* `CallsAreAccounted`, from `AccountsInv`: `DeskInv`, and that the report, and the one that a waiting
  `link run` holds, tell of every outbound call of each snapshot they were computed from. A scan
  tells by the definition of matching; a refresh in three ways (the call is read again, carried at
  its key, or merged with one of its key, the case of section 7); a verdict moves no caller.
* `VerdictsAreGenuine`, `VerdictsAreKept`, from one invariant, `DeskInv`: the table is a sound
  report (links of matching endpoints whose verdicts were shown), every task of `tasks.json` was
  shown, and the report that a waiting `link run` holds is sound and still has every verdict of the
  table. The last part is what makes its late write harmless; it is inductive because every other
  writer of the table needs the lock that the process holds. A refresh moves a link to the endpoint
  with the same key and module (`EndpointsStay`, `CarriedLink`), so a kept verdict stays about the
  same pair.

**`Layering_proofs`** - the search of `_find_cycles`, for every finite graph. `TarjanInv`: types;
the stack is in the order of its indices; the `low` of a node on the stack is the index of a node on
the stack that it reaches (`LowOf`); a frame reaches what lies above it and has the `low` of what was
finished right above (`FrameOf`); what is complete imports nothing but what is complete
(`ClosedOff`). From it: what is
popped at a root is a component, hence `CyclesAreComponents` and `LowLinks`; and with the depths,
`LevelsInv`: a module is above those it imports that are in no cycle.

**`Planning_proofs`** extends it over the pipeline.
* `PlanInvariant`: `PlanInv` is `TarjanInv`, `LevelsInv` once the layers are there, and a part for
  each pass: what is in the bins is a choice of the small scopes of its module, each bin within the
  budgets and no two that would fit into one (`PackingInv`); the scopes of each phase, in closed form
  (`ScopesInv`); the waves so far cover the lowest levels (`WavesInv`).
* `PartitionIsRight`: each file is in one scope after every pass. Two scopes of `Cut` with one file
  are the same one because a file has one directory and one chain of directories above it. The part
  `NothingToCoalesce` is the lemma that a directory which was split exceeds a budget.
* `ScheduleIsRight`: the waves partition the scopes, and the scopes of a dependency are in an earlier
  wave, as a wave has one level and the levels ascend.
* `PromptsTell`: `ReadInv` says of every prompt written that it is what `BuildPrompt` makes of some
  set of claims which lacks only claims of its own wave and of later ones; that is what stays true
  while later waves are folded in. The rest is about one prompt: a claim that the set has is told or
  elided because the levers are turned only while there is one to turn, so they end at a fit or at
  their floors (`TurnsOk`), and what `Inherit` leaves out it counts; a claim the set lacks is of no
  dependency, since a dependency's scopes are in an earlier wave, and their nodes tell which module
  they are of (`Apart`: each extends the path of its module and of no module below it).

**`Claims_proofs`** - of the fold over claims, for every log, world and tree. What an operator on
sequences returns is stated once as a set (`WhereIs`, `FlattenIs`, `LiveIs`, `RowsAre`,
`QuestionsAre`). `ClaimsInv`: every patch of the log is well formed and its questions have passed the
gates (`Genuine`), which no later step can undo as the index of the world stays; a line's text is at
its line or below, by no more than what was inserted (`MovedInv`).
* `FoldIsOrderIndependent`: rows are told apart by node and id (`RowKeys`: one live patch per node,
  different ids within it), so the first row of a group is the same in every order (`SameFirst`), and
  the rest of the merge reads its rows as sets.
* `NothingIsLost`: a claim survives or is demoted; one that survives is a row of a group, which
  becomes one claim with all statements or a conflict with all positions; a demoted one is a question
  of which deduplication keeps one with the same text. A node of which no patch is complete has only
  invalid ones, so its best status is no good one, and it is a gap.
* `QuestionsStayGenuine`: at most one claim answers a question (`OneAnswer`: claims of one subject
  and kind are merged into one), so what resolves it is that claim; "entailed" would need an edge
  that the gate found absent.
* `CitationsAreFollowed`: the text is within the window by `MovedInv`; a copy in the window would
  make two matches, and those are refused.

**`Atlas_proofs`** - of the read path, for every history of scans, checkouts and refreshes, every
content, term and budget. `PortalInv`, which every step keeps: the view is that of a commit, with
rows of its tracked files and claims that cite something, derived and folded as `ViewOf` says; the
answer is what `Dispatch` gives for its question, and the page what the request makes of this view.
The properties are then facts about functions of a view.
* `RefreshedIsScanned`, an action property: each file of the new tree is stale and read again, or it
  has the content and the module that it had (`CarriedAreSame`), so each row has its lines. Declared
  dependencies and notes name no file: a module keeps all of them or is read again as a whole
  (`CarriedAggregates`). Nothing is assumed of the contents; which commits a refresh is right about is
  the premise of the property, `CarriesOver`, and for the others it is false (section 7).
* `AtlasTypeOK`; `NothingIsSilent`: every list takes from one allowance by the rules of `Fills`: what
  it shows is among the rows there are, and rows are elided only when the allowance is spent. A query
  over several terms is a fold over them in the order of a CHOOSE; `FoldFills` carries the rules over
  a fold, whatever the order. Equality of what is shown and what there is then follows by counting.
* `SearchesAreFair`: while rows are dealt out the lists stay level (`NextShares`, `GrantIs`): no list is short
  by more than one row against another that still has some.
* `PathsAreTheShortest`: the frontier after n hops is what walks of n edges that visit nothing twice
  end at (`ReachedByWalk`; a shortest walk visits nothing twice), so the least hop count at which the
  search of `Within` meets an effect is the length of the walk that `Paths` chooses.
* `ChartsAreClosed`: restricting to a scope and hiding roles both drop the lines that lose an end,
  and an id is taken apart into the node page it came from (`PageOfId`).
* `RollupsAreFaithful`: a node is in the group of its container and in no other (`MembersShare`); the
  edges between groups are in bijection with the rows that the lines count (`OuterIs`); the folds of
  the counts and of the legend are sums over disjoint parts (`SumIs`). A deeper rung divides the
  groups because paths with one group at a depth have one at the depth above (`GroupsRise`); here an
  id that looks like a directory would be a counterexample, hence `SlashIsNoName`.
* `FlowShowsThePaths`: the flow carries a step of a path because its ends are code or storage
  (`CodeEdges`), which the rows that the edges are made of say.

**Only model-checked**: the liveness properties (`InvocationEnds`, `EveryScopeIsAccountedFor`,
`PlanIsMade`), as ENABLED and fairness are beyond the prover. Every other property of a passing run
is a theorem's.

## 6. What is left out

* *Supervisor*: the wave number (successive waves are independent but for the claims they inherit,
  which is `Prompting`); parallel dispatch does not exist in the code, `run_wave` is a loop.
* *Workspace*: dirty trees, `gc --pin`, reports, the churn cache, rendered documentation; a derived
  patch that fails its schema ends a scan as a crash would.
* *Partition*: the languages and roles of a scope, and two modules whose directories overlap
  (`_coalesce` would drop one of two scopes with one path, and `assert_partition` refuse the plan).
* *Prompts*: text and templates; `cdp prompts --node`.
* *Claims*: `side_effect_type`, which is treated as channel and visibility; the clustering of
  questions, which only annotates them.
* *Lessons*: what a hint changes in a prompt; the fingerprints of outliers, of which only the
  verdict is kept.
* *Read path*: the parsers (a content yields a record of facts, chosen by the instance), the process
  pool, whose results are sorted before use, the cap of 2000 paths, wording of claims, the queries
  `conflicts`, `stats` and `coverage`, which take no budget; the list `imports`, which is kept as
  `uses` is, and the claims on naming that the notes give; of the web server the search, the
  reports, the event stream, and the endpoints that start commands.
* *Links*: a report is a set, so rows that are equal merge; a row of `link_task` is only whether its
  lease is held, as no command reads the rest; a second concurrent `link run` is kept out by the
  lock, and the race of two leases is that of `Supervisor`.
* Not modelled at all, with the reason in section 1: the repo lock, web jobs, freshness, the
  language extractors, rendering, the other backends, adapters and scripts.

## 7. Findings

Two runs end in a counterexample that is a behaviour of the code; `PROJECT.json` quotes the
sentence each contradicts. `workspace_compact_live`: `compact` picks the generation to keep without
the ledger, and archives the live one when the newest was rolled back. `atlas_refresh`:
a refresh carries over lines and notes that a scan of the commit does not find, below.

The rest was met while modelling; much of it was confirmed by running the code. The models keep
clear of these cases or state their properties around them, as noted with the hazards.

*Runs and store*
* After a crash the next `cdp run --resume` meets the dead process' lease (`supervisor.py:159`),
  drops the scope as another live supervisor's, and reports the run complete, against
  `supervisor.py:207-209`.
* `acquire_lease` looks at the lease and not at the state of the row: outside the repo lock a second
  `run_wave` dispatches a scope that the first has validated and released, although each scope "is
  claimed by exactly one of them" (`supervisor.py:203`).
* The rollback ledger is an artifact of one snapshot; a refresh copies the log and not the ledger
  (`cli.py:1381`), against the docstring of `cmd_rollback` (`cli.py:2546`).
* The renames that a refresh follows are stored nowhere (`cli.py:1379`): the next fold of the same
  commit demotes what the refresh kept, and `fold --check` fails, against `state.py:73`.
* `fold --check` also fails on a log in which a later attempt asks the same question with another
  reason: `_dedupe_unknowns` keeps the first row in the order of the log.
* `compact` takes sticky questions out of the hot log; `gc` stops at the foreign key of a snapshot
  with runs; a death of `refresh` after `begin_snapshot` leaves a latest snapshot without artifacts.
* `refresh` writes no schedule, so that `run`, `prompts` and the web's build status fail after it
  until the next scan.
* A leaf's patch for `root` and the derived patch supersede each other; a failed one takes the
  claims of the other with it. `cdp answer` supersedes the claims of the leaf it answers for.
* `--resume` after a scan of uncommitted changes of the same commit (`cli.py:1598`; a run id is made
  of the commit only) inherits scopes that the log of the new snapshot does not answer, against
  `cli.py:1554`. After a drift it inherits from the manifest's base run only. It is pinned again to
  the latest lessons. `cdp run` recommends `--run-id`, an option that the parser does not have.
* `--lessons N` of a version not cut yet pins an empty set that a later cut changes.
* The churn cache keeps the answers "unknown" of a shallow clone after the history has arrived.
* Whoever follows the message of `lock.py:90` and deletes the lock file under a live holder lets two
  processes hold the lock. A web cache of artifacts is keyed by snapshot (`store_reader.py:31`), but
  a rescan of a commit rewrites them. `jobs.py`: a job is joined by one of another kind, and a new
  job replaces the finished one, whose id is then unknown.

*Planning and prompts*
* `_merge_scopes` (`partition.py:249`) gives two bins of one module the same node (`a/util`+`b/util`
  and `c/util`+`d/util`); `cdp prompts` writes one prompt over the other.
* `_layer` lifts the members of a cycle after it has computed the levels of their importers: with
  `a <-> b`, `b -> c -> d` and `x -> a`, `x` ends a level below `a`. "A module sits one level above
  its deepest dependency" holds for dependencies in no cycle (`DependenciesFirst`).
* `(files)` scopes are never flagged oversized, whatever their size (`partition.py:106`).
  `_pack_siblings` packs across parents, "without moving any file across a parent boundary".
* `_inherit` compares the second segment of a node with names of modules (`prompts.py:237`): claims
  of a nested module (`libs/core`) of the kinds always passed on are neither inherited nor counted
  as elided, and an importer of a module `libs` inherits the claims of `libs/x`.
* Constants are cut at half of the cap without a row that says so (`prompts.py:382`), and gaps at
  30, against "a truncation is stated, never silent". Inherited claims are halved first, even when
  they are not what exceeds the budget. `cdp prompts --wave` rewrites the report "tiering" with only
  its own rows (`cli.py:1029`).

*Claims*
* `merge._resolve` (`merge.py:181`) sorts signatures whose fields may be absent: Python refuses to
  compare None with a string, and the collect and every later fold fail, against `merge.py:29-31`.
* A question without a channel is discharged only by a claim without one.

*Read path*
* A Java handler's `http_in` edge starts at `Class#method`, which no traversable edge leaves: `query
  paths` shows no path and nothing elided, while `query trace` reaches the effect by way of the
  class (`dataflow.py:138`). A route whose handler's class is not the primary symbol of its file is
  traced from the primary. `schema_own` is a sink that no walk takes.
* `incremental_extract` is not "byte-identical to a full `run_extract`" (`refresh.py:145`).
  `classify_changes` drops blank lines and spacing before it compares (`refresh.py:56`): after a
  commit that only moves a blank line, the rows keep the lines they had, and `query` cites them.
  Deleted files do not count as changed (`cli.py:1339`): the notes and declared
  dependencies that they left on a module that is not read again stay. The run `atlas_refresh` shows both. A manifest
  that moves leaves its old module and the dependencies of that. `loc` counts lines that are not
  blank, and is right after a reformat. `CarriesOver`, the premise of `RefreshIsScan`, leaves out
  the reformat, the move and the loss in a module that is carried.
* `hops_exhausted` is set also when the last frontier has no edges left. `query paths` does not say
  that its paths were cut. `query search` sorts by the quality of the match, and the budget drops by
  another rank. The observed graph draws an edge to every owner of a symbol where the cross
  reference resolves to the local one. Two writers of one table share a claim id, and the second
  claim is dropped.
* Charts: sources of `schema_own` are migrations, so no table has an owner, which `container_group`
  promises; a library that a controller imports is owned by the first controller's file;
  `real_container_depths` stops at the first depth that does not fork, so that a repository wholly
  under `src/` has no rung below L3; a clamped group of a deeper rung has an id that descends into
  more than the group; a directory named like a bucket merges with it.

*Links*
* `refresh_links` at the same head moves two calls of one module with one key to the first call
  site, and the second disappears (the last disjunct of `EveryCallIsAccounted`).
* A refreshed call that a repository not refreshed answers is reported unmatched although its link
  is live; a link decayed on one side is "live" again when only the other is refreshed; new links
  between repositories are found by a scan only, which drops the verdicts paid for. `match_kind` is
  not computed again.
* `link scan` of a directory whose refresh is in flight finds a snapshot without artifacts, and
  silently names the repository by its path, without edges.
* A `link run` that dies loses its verdicts, and the next one skips the task whose lease is held.
  `--db` of another store escapes the lock of `cmd_link_run`.

## 8. Plan

What is left, by what it would add:

1. `RepoLock` (`lock.py`): shared and exclusive holders, polling until the deadline, the deletion of
   the lock file, as an implementation of the exclusion that `Supervisor`, `Workspace` and
   `LinkDesk` assume.
2. `Jobs` (`web/api/jobs.py`) with requests that overlap, and the cache of `store_reader.py`.
3. In `Workspace`: `--keep-generations 0`, dirty trees and pins, several runs of
   `patches_up_to_run`, a refresh back and forth between two commits.
4. The file backend against the sqlite backend, as two implementations of one protocol.
