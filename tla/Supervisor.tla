----------------------------- MODULE Supervisor -----------------------------
(***************************************************************************)
(* `cdp run`: the task state machine of cdp/supervisor.py, the leases of   *)
(* cdp/store/sqlite_backend.py and the wave loop of cdp/cli.py cmd_run.    *)
(*                                                                         *)
(* A supervisor process claims the scopes of one wave in partition order,  *)
(* drives each through the retry loop of dispatch_scope, appends the       *)
(* outcomes to the patch log, folds once and marks the scopes it folded.   *)
(* Each database commit, file deletion and file write is an action of its  *)
(* own, so a crash (Crash) and, when the repo lock is bypassed, another    *)
(* supervisor can come between any two of them.                            *)
(*                                                                         *)
(* Times are countdowns: a row's lease holds the time left before          *)
(* lease_until, and beat[p] the time left before the heartbeat thread of p *)
(* wakes up. Tick lets one unit pass.                                      *)
(***************************************************************************)
EXTENDS Integers

CONSTANTS
    Supervisors,      \* processes that run `cdp run` (or call run_wave)
    NumScopes,        \* scopes of the wave, numbered in partition order
    MaxAttempts,      \* supervisor.MAX_ATTEMPTS
    LeaseSeconds,     \* supervisor.LEASE_SECONDS
    HeartbeatSeconds, \* supervisor.HEARTBEAT_SECONDS
    PatchKinds,       \* what an author may leave in the inbox
    RepoLock,         \* TRUE: invocations hold lock.repo_lock (cmd_run does)
    Resume,           \* TRUE: every invocation passes --resume
    Prompt,           \* TRUE: processes are scheduled within their lease
    LateAnswers,      \* TRUE: a person may drop a patch at any time
    MaxCrashes,       \* bound on the number of crashes
    NoOne             \* the holder of a scope nobody holds

ASSUME SupervisorAssumption ==
    /\ NumScopes \in Nat
    /\ MaxAttempts \in Nat \ {0}
    /\ LeaseSeconds \in Nat
    /\ HeartbeatSeconds \in Nat \ {0}
    /\ HeartbeatSeconds <= LeaseSeconds
    /\ PatchKinds \subseteq {"good", "malformed", "fabricated", "hollow"}
    /\ {RepoLock, Resume, Prompt, LateAnswers} \subseteq BOOLEAN
    /\ MaxCrashes \in Nat
    /\ NoOne \notin Supervisors

Scopes == 1..NumScopes

RETRY_STATES == {"expired", "invalid", "anchors_failed", "empty"}
TaskStates == {"pending", "dispatched", "returned", "validated", "folded",
               "abandoned"} \cup RETRY_STATES

\* A lease_until that is NULL or in the past: no reader tells the two apart.
NoLease == -1

VARIABLES
    stage,    \* snapshot_task.state; "absent": the scope has no row
    attempts, \* snapshot_task.attempts
    lease,    \* snapshot_task.lease_until, as time left
    inbox,    \* patches/inbox/<node>.json, "none" when there is no file
    log,      \* the patch log: scope and status of what was appended
    state,    \* state.json: the fold's verdict on each scope
    run,      \* snapshot_run.status, "none" before begin_run
    pc,       \* where each process is; "off": not running
    cursor,   \* the scope (or result row) the process is at
    attempt,  \* the attempt of dispatch_scope
    outcome,  \* dispatch_scope's local `state`
    beat,     \* time left before the heartbeat thread renews the lease
    skip,     \* skip_hashes
    results,  \* the rows run_wave collected; "not_ours": None was returned
    view,     \* the fold computed from load_patches, not yet written
    crashes,  \* crashes so far
    leftover  \* history: scopes whose inbox file predates their last claim

rows == <<stage, attempts, lease>>
tables == <<rows, inbox, log, state, run>>
work == <<attempt, outcome, beat>>
memory == <<skip, results, view>>
locals == <<pc, cursor, work, memory>>
aux == <<crashes, leftover>>
vars == <<tables, locals, aux>>

\* Program points between acquire_lease and release_lease.
BeforeRun == {"unlink", "mark_dispatched"}
AfterRun == {"mark_returned", "classify", "settle", "release"}
Holding == BeforeRun \cup {"running"} \cup AfterRun

Points == {"off", "reclaim", "plan", "pick", "acquire", "abandon", "append",
           "clear", "fold", "write_state", "mark_folded", "finish"}
          \cup Holding

NoResults == [s \in Scopes |-> "none"]
NothingFolded == [s \in Scopes |-> "unexamined"]

Init ==
    /\ stage = [s \in Scopes |-> "absent"]
    /\ attempts = [s \in Scopes |-> 0]
    /\ lease = [s \in Scopes |-> NoLease]
    /\ inbox = [s \in Scopes |-> "none"]
    /\ log = {}
    /\ state = NothingFolded
    /\ run = "none"
    /\ pc = [p \in Supervisors |-> "off"]
    /\ cursor = [p \in Supervisors |-> 1]
    /\ attempt = [p \in Supervisors |-> 1]
    /\ outcome = [p \in Supervisors |-> "pending"]
    /\ beat = [p \in Supervisors |-> 0]
    /\ skip = [p \in Supervisors |-> {}]
    /\ results = [p \in Supervisors |-> NoResults]
    /\ view = [p \in Supervisors |-> NothingFolded]
    /\ crashes = 0
    /\ leftover = {}

GoTo(p, point) == pc' = [pc EXCEPT ![p] = point]

Holds(p, s) == pc[p] \in Holding /\ cursor[p] = s

\* The process ends: its memory, and with it the repo lock, is gone.
Exit(p) ==
    /\ pc' = [pc EXCEPT ![p] = "off"]
    /\ cursor' = [cursor EXCEPT ![p] = 1]
    /\ attempt' = [attempt EXCEPT ![p] = 1]
    /\ outcome' = [outcome EXCEPT ![p] = "pending"]
    /\ beat' = [beat EXCEPT ![p] = 0]
    /\ skip' = [skip EXCEPT ![p] = {}]
    /\ results' = [results EXCEPT ![p] = NoResults]
    /\ view' = [view EXCEPT ![p] = NothingFolded]

\* upsert_task: one commit that sets the state column of the cursor's row.
SetState(p, new) == stage' = [stage EXCEPT ![cursor[p]] = new]

\* Mutant: a lease is treated as free in its last instant (<= for <).
LapsedEarly(s) == lease[s] > 0

Leased(s) == lease[s] >= 0

(***************************************************************************)
(* An invocation: the lock, begin_run, and --resume's plan.                *)
(***************************************************************************)
\* Mutant: `cdp run` without the repo lock.
StartUnlocked(p) ==
    /\ pc[p] = "off"
    /\ run' = IF run = "none" THEN "running" ELSE run
    /\ GoTo(p, IF Resume /\ run # "none" THEN "reclaim" ELSE "pick")
    /\ UNCHANGED <<rows, inbox, log, state, cursor, work, memory, aux>>

Start(p) ==
    /\ pc[p] = "off"
    /\ RepoLock => \A q \in Supervisors : pc[q] = "off"
    /\ run' = IF run = "none" THEN "running" ELSE run
    /\ GoTo(p, IF Resume /\ run # "none" THEN "reclaim" ELSE "pick")
    /\ UNCHANGED <<rows, inbox, log, state, cursor, work, memory, aux>>

Reclaim(p) ==
    /\ pc[p] = "reclaim"
    /\ stage' = [s \in Scopes |->
                   IF stage[s] = "dispatched" /\ ~Leased(s)
                   THEN "expired" ELSE stage[s]]
    /\ GoTo(p, "plan")
    /\ UNCHANGED <<attempts, lease, inbox, log, state, run, cursor, work,
                   memory, aux>>

\* Mutant: --resume forgets to skip the folded scopes.
PlanEverything(p) ==
    /\ pc[p] = "plan"
    /\ GoTo(p, "pick")
    /\ UNCHANGED <<tables, cursor, work, memory, aux>>

Plan(p) ==
    /\ pc[p] = "plan"
    /\ skip' = [skip EXCEPT ![p] = {s \in Scopes : stage[s] = "folded"}]
    /\ GoTo(p, "pick")
    /\ UNCHANGED <<tables, cursor, work, results, view, aux>>

(***************************************************************************)
(* run_wave: the next scope of the wave, or the end of the wave.           *)
(***************************************************************************)
PickScope(p) ==
    /\ pc[p] = "pick"
    /\ cursor[p] \in Scopes \ skip[p]
    /\ attempt' = [attempt EXCEPT ![p] = 1]
    /\ outcome' = [outcome EXCEPT ![p] = "pending"]
    /\ GoTo(p, "acquire")
    /\ UNCHANGED <<tables, cursor, beat, memory, aux>>

SkipScope(p) ==
    /\ pc[p] = "pick"
    /\ cursor[p] \in skip[p]
    /\ cursor' = [cursor EXCEPT ![p] = @ + 1]
    /\ UNCHANGED <<tables, pc, work, memory, aux>>

EndWave(p) ==
    /\ pc[p] = "pick"
    /\ cursor[p] > NumScopes
    /\ cursor' = [cursor EXCEPT ![p] = 1]
    /\ GoTo(p, "append")
    /\ UNCHANGED <<tables, work, memory, aux>>

\* dispatch_scope is done with the cursor's scope.
Report(p, result) ==
    /\ results' = [results EXCEPT ![p][cursor[p]] = result]
    /\ cursor' = [cursor EXCEPT ![p] = @ + 1]
    /\ GoTo(p, "pick")

(***************************************************************************)
(* dispatch_scope: claim, prompt, run, classify, settle, release, retry.   *)
(***************************************************************************)
Acquire(p) ==
    LET s == cursor[p] IN
    /\ pc[p] = "acquire"
    /\ ~Leased(s)
    /\ lease' = [lease EXCEPT ![s] = LeaseSeconds]
    /\ stage' = [stage EXCEPT ![s] = IF @ = "absent" THEN "pending" ELSE @]
    /\ leftover' = IF inbox[s] = "none" THEN leftover ELSE leftover \cup {s}
    /\ GoTo(p, "unlink")
    /\ UNCHANGED <<attempts, inbox, log, state, run, cursor, work, memory,
                   crashes>>

NotOurs(p) ==
    /\ pc[p] = "acquire"
    /\ Leased(cursor[p])
    /\ Report(p, "not_ours")
    /\ UNCHANGED <<tables, work, skip, view, aux>>

\* Mutant: the inbox file of an earlier attempt is not deleted.
KeepAnswer(p) ==
    /\ pc[p] = "unlink"
    /\ GoTo(p, "mark_dispatched")
    /\ UNCHANGED <<tables, cursor, work, memory, aux>>

Unlink(p) ==
    /\ pc[p] = "unlink"
    /\ inbox' = [inbox EXCEPT ![cursor[p]] = "none"]
    /\ leftover' = leftover \ {cursor[p]}
    /\ GoTo(p, "mark_dispatched")
    /\ UNCHANGED <<rows, log, state, run, cursor, work, memory, crashes>>

MarkDispatched(p) ==
    /\ pc[p] = "mark_dispatched"
    /\ SetState(p, "dispatched")
    /\ attempts' = [attempts EXCEPT ![cursor[p]] = attempt[p]]
    /\ beat' = [beat EXCEPT ![p] = HeartbeatSeconds]
    /\ GoTo(p, "running")
    /\ UNCHANGED <<lease, inbox, log, state, run, cursor, attempt, outcome,
                   memory, aux>>

\* Mutant: the heartbeat thread wakes up and renews nothing.
HeartbeatForNothing(p) ==
    /\ pc[p] = "running"
    /\ beat[p] = 0
    /\ beat' = [beat EXCEPT ![p] = HeartbeatSeconds]
    /\ UNCHANGED <<tables, pc, cursor, attempt, outcome, memory, aux>>

\* The lease is renewed for whoever holds it: the UPDATE names no owner.
Heartbeat(p) ==
    /\ pc[p] = "running"
    /\ beat[p] = 0
    /\ lease' = [lease EXCEPT ![cursor[p]] = LeaseSeconds]
    /\ beat' = [beat EXCEPT ![p] = HeartbeatSeconds]
    /\ UNCHANGED <<stage, attempts, inbox, log, state, run, pc, cursor,
                   attempt, outcome, memory, aux>>

RunnerWrites(p) ==
    /\ pc[p] = "running"
    /\ inbox[cursor[p]] = "none"
    /\ \E kind \in PatchKinds : inbox' = [inbox EXCEPT ![cursor[p]] = kind]
    /\ UNCHANGED <<rows, log, state, run, locals, aux>>

RunnerOk(p) ==
    /\ pc[p] = "running"
    /\ beat' = [beat EXCEPT ![p] = 0]
    /\ GoTo(p, "mark_returned")
    /\ UNCHANGED <<tables, cursor, attempt, outcome, memory, aux>>

\* A crash of the runner, a non-zero exit, or its timeout.
RunnerFails(p) ==
    /\ pc[p] = "running"
    /\ beat' = [beat EXCEPT ![p] = 0]
    /\ outcome' = [outcome EXCEPT ![p] = "expired"]
    /\ GoTo(p, "settle")
    /\ UNCHANGED <<tables, cursor, attempt, memory, aux>>

MarkReturned(p) ==
    /\ pc[p] = "mark_returned"
    /\ SetState(p, "returned")
    /\ GoTo(p, "classify")
    /\ UNCHANGED <<attempts, lease, inbox, log, state, run, cursor, work,
                   memory, aux>>

\* _classify_returned: what each kind of inbox file is worth.
Verdict(file) ==
    CASE file = "good" -> "validated"
      [] file = "malformed" -> "invalid"
      [] file = "fabricated" -> "anchors_failed"
      [] OTHER -> "empty"

Classify(p) ==
    /\ pc[p] = "classify"
    /\ outcome' = [outcome EXCEPT ![p] = Verdict(inbox[cursor[p]])]
    /\ GoTo(p, "settle")
    /\ UNCHANGED <<tables, cursor, attempt, beat, memory, aux>>

Settle(p) ==
    /\ pc[p] = "settle"
    /\ SetState(p, outcome[p])
    /\ GoTo(p, "release")
    /\ UNCHANGED <<attempts, lease, inbox, log, state, run, cursor, work,
                   memory, aux>>

Free(p) == lease' = [lease EXCEPT ![cursor[p]] = NoLease]

ReleaseSettled(p) ==
    /\ pc[p] = "release"
    /\ outcome[p] \notin RETRY_STATES
    /\ Free(p)
    /\ Report(p, outcome[p])
    /\ UNCHANGED <<stage, attempts, inbox, log, state, run, work, skip, view,
                   aux>>

\* Mutants: one attempt too many; a retry that does not count.
RetryOnceMore(p) ==
    /\ pc[p] = "release"
    /\ outcome[p] \in RETRY_STATES
    /\ attempt[p] <= MaxAttempts
    /\ Free(p)
    /\ attempt' = [attempt EXCEPT ![p] = @ + 1]
    /\ GoTo(p, "acquire")
    /\ UNCHANGED <<stage, attempts, inbox, log, state, run, cursor, outcome,
                   beat, memory, aux>>

RetryForever(p) ==
    /\ pc[p] = "release"
    /\ outcome[p] \in RETRY_STATES
    /\ attempt[p] < MaxAttempts
    /\ Free(p)
    /\ GoTo(p, "acquire")
    /\ UNCHANGED <<stage, attempts, inbox, log, state, run, cursor, work,
                   memory, aux>>

ReleaseRetry(p) ==
    /\ pc[p] = "release"
    /\ outcome[p] \in RETRY_STATES
    /\ attempt[p] < MaxAttempts
    /\ Free(p)
    /\ attempt' = [attempt EXCEPT ![p] = @ + 1]
    /\ GoTo(p, "acquire")
    /\ UNCHANGED <<stage, attempts, inbox, log, state, run, cursor, outcome,
                   beat, memory, aux>>

ReleaseExhausted(p) ==
    /\ pc[p] = "release"
    /\ outcome[p] \in RETRY_STATES
    /\ attempt[p] >= MaxAttempts
    /\ Free(p)
    /\ GoTo(p, "abandon")
    /\ UNCHANGED <<stage, attempts, inbox, log, state, run, cursor, work,
                   memory, aux>>

\* The lease is already free when the row becomes abandoned.
Abandon(p) ==
    /\ pc[p] = "abandon"
    /\ SetState(p, "abandoned")
    /\ Report(p, "abandoned")
    /\ UNCHANGED <<attempts, lease, inbox, log, state, run, work, skip, view,
                   aux>>

(***************************************************************************)
(* _apply_wave_results: append every outcome, fold once, mark_folded.      *)
(***************************************************************************)
Advance(p) == cursor' = [cursor EXCEPT ![p] = @ + 1]

Patch(s, status) == [scope |-> s, status |-> status]

AppendComplete(p) ==
    /\ pc[p] = "append"
    /\ cursor[p] \in Scopes
    /\ results[p][cursor[p]] = "validated"
    /\ log' = log \cup {Patch(cursor[p], "complete")}
    /\ GoTo(p, "clear")
    /\ UNCHANGED <<rows, inbox, state, run, cursor, work, memory, aux>>

ClearInbox(p) ==
    /\ pc[p] = "clear"
    /\ inbox' = [inbox EXCEPT ![cursor[p]] = "none"]
    /\ leftover' = leftover \ {cursor[p]}
    /\ Advance(p)
    /\ GoTo(p, "append")
    /\ UNCHANGED <<rows, log, state, run, work, memory, crashes>>

\* Mutant: an abandoned scope leaves nothing in the log.
AbandonSilently(p) ==
    /\ pc[p] = "append"
    /\ cursor[p] \in Scopes
    /\ results[p][cursor[p]] = "abandoned"
    /\ Advance(p)
    /\ UNCHANGED <<tables, pc, work, memory, aux>>

AppendFailed(p) ==
    /\ pc[p] = "append"
    /\ cursor[p] \in Scopes
    /\ results[p][cursor[p]] = "abandoned"
    /\ log' = log \cup {Patch(cursor[p], "failed")}
    /\ Advance(p)
    /\ UNCHANGED <<rows, inbox, state, run, pc, work, memory, aux>>

AppendNothing(p) ==
    /\ pc[p] = "append"
    /\ cursor[p] \in Scopes
    /\ results[p][cursor[p]] \notin {"validated", "abandoned"}
    /\ Advance(p)
    /\ UNCHANGED <<tables, pc, work, memory, aux>>

EndAppend(p) ==
    /\ pc[p] = "append"
    /\ cursor[p] > NumScopes
    /\ GoTo(p, "fold")
    /\ UNCHANGED <<tables, cursor, work, memory, aux>>

\* Mutant: the fold counts nothing but success.
CompleteOrNothing(s) ==
    IF Patch(s, "complete") \in log THEN "complete" ELSE "unexamined"

\* state.fold's node_status: the best status of any patch of the scope.
FoldedStatus(s) ==
    IF Patch(s, "complete") \in log THEN "complete"
    ELSE IF Patch(s, "failed") \in log THEN "failed"
    ELSE "unexamined"

FoldWave(p) ==
    /\ pc[p] = "fold"
    /\ view' = [view EXCEPT ![p] = [s \in Scopes |-> FoldedStatus(s)]]
    /\ GoTo(p, "write_state")
    /\ UNCHANGED <<tables, cursor, work, skip, results, aux>>

WriteState(p) ==
    /\ pc[p] = "write_state"
    /\ state' = view[p]
    /\ cursor' = [cursor EXCEPT ![p] = 1]
    /\ GoTo(p, "mark_folded")
    /\ UNCHANGED <<rows, inbox, log, run, work, memory, aux>>

\* Mutant: every dispatched scope of the wave is marked folded.
MarkAllFolded(p) ==
    /\ pc[p] = "mark_folded"
    /\ cursor[p] \in Scopes
    /\ stage' = IF results[p][cursor[p]] \notin {"none", "not_ours"}
                THEN [stage EXCEPT ![cursor[p]] = "folded"] ELSE stage
    /\ Advance(p)
    /\ UNCHANGED <<attempts, lease, inbox, log, state, run, pc, work, memory,
                   aux>>

MarkFolded(p) ==
    /\ pc[p] = "mark_folded"
    /\ cursor[p] \in Scopes
    /\ stage' = IF results[p][cursor[p]] = "validated"
                THEN [stage EXCEPT ![cursor[p]] = "folded"] ELSE stage
    /\ Advance(p)
    /\ UNCHANGED <<attempts, lease, inbox, log, state, run, pc, work, memory,
                   aux>>

EndMark(p) ==
    /\ pc[p] = "mark_folded"
    /\ cursor[p] > NumScopes
    /\ GoTo(p, "finish")
    /\ UNCHANGED <<tables, cursor, work, memory, aux>>

Finish(p) ==
    /\ pc[p] = "finish"
    /\ run' = "complete"
    /\ Exit(p)
    /\ UNCHANGED <<rows, inbox, log, state, aux>>

(***************************************************************************)
(* The environment: death, late answers, time.                             *)
(***************************************************************************)

\* The kernel drops the flock with the process; its lease stays in the row.
Crash(p) ==
    /\ pc[p] # "off"
    /\ crashes < MaxCrashes
    /\ crashes' = crashes + 1
    /\ Exit(p)
    /\ UNCHANGED <<tables, leftover>>

\* A person answers prompts/<node>.md after the runner stopped waiting.
LateAnswer(s) ==
    /\ LateAnswers
    /\ attempts[s] > 0
    /\ inbox[s] = "none"
    /\ \E kind \in PatchKinds : inbox' = [inbox EXCEPT ![s] = kind]
    /\ UNCHANGED <<rows, log, state, run, locals, aux>>

\* With Prompt, a process in a claim is never starved past its lease: its
\* heartbeat thread runs when due, and its own short steps end in time.
InTime(p) ==
    /\ pc[p] \in BeforeRun => lease[cursor[p]] > HeartbeatSeconds
    /\ pc[p] = "running" => beat[p] > 0
    /\ pc[p] \in AfterRun => lease[cursor[p]] > 0

Tick ==
    /\ Prompt => \A p \in Supervisors : InTime(p)
    /\ lease' = [s \in Scopes |-> IF Leased(s) THEN lease[s] - 1 ELSE lease[s]]
    /\ beat' = [p \in Supervisors |->
                  IF pc[p] = "running" /\ beat[p] > 0 THEN beat[p] - 1
                  ELSE beat[p]]
    /\ UNCHANGED <<stage, attempts, inbox, log, state, run, pc, cursor,
                   attempt, outcome, memory, aux>>

RunnerReturns(p) == RunnerOk(p) \/ RunnerFails(p)

\* The supervisor's own steps, apart from the runner and its heartbeat.
Step(p) ==
    \/ Reclaim(p) \/ Plan(p)
    \/ PickScope(p) \/ SkipScope(p) \/ EndWave(p)
    \/ Acquire(p) \/ NotOurs(p) \/ Unlink(p) \/ MarkDispatched(p)
    \/ MarkReturned(p) \/ Classify(p) \/ Settle(p)
    \/ ReleaseSettled(p) \/ ReleaseRetry(p) \/ ReleaseExhausted(p)
    \/ Abandon(p)
    \/ AppendComplete(p) \/ ClearInbox(p) \/ AppendFailed(p)
    \/ AppendNothing(p) \/ EndAppend(p)
    \/ FoldWave(p) \/ WriteState(p) \/ MarkFolded(p) \/ EndMark(p) \/ Finish(p)

Next ==
    \/ \E p \in Supervisors :
         \/ Start(p) \/ Step(p)
         \/ Heartbeat(p) \/ RunnerWrites(p) \/ RunnerReturns(p)
         \/ Crash(p)
    \/ \E s \in Scopes : LateAnswer(s)
    \/ Tick

Spec == Init /\ [][Next]_vars

\* Threads are scheduled, runners time out, and time passes: it cannot stand
\* still because the supervisor is often between two short steps.
Scheduling ==
    /\ \A p \in Supervisors :
         WF_vars(Step(p)) /\ WF_vars(Heartbeat(p)) /\ WF_vars(RunnerReturns(p))
    /\ SF_vars(Tick)

FairSpec == Spec /\ Scheduling

\* An operator who runs `cdp run` again whenever nothing is running.
Operator == WF_vars(\E p \in Supervisors : Start(p))

PersistentSpec == FairSpec /\ Operator

(***************************************************************************)
(* Properties.                                                             *)
(***************************************************************************)

Outcomes == {"pending", "validated"} \cup RETRY_STATES
Results == Outcomes \cup {"abandoned", "none", "not_ours"}
Verdicts == {"unexamined", "failed", "complete"}

\* Every variable stays in its type: the rows of snapshot_task, inbox files, log
\* entries, fold verdicts, and the locals of each `cdp run`.
TypeOK ==
    /\ stage \in [Scopes -> TaskStates \cup {"absent"}]
    /\ attempts \in [Scopes -> 0..MaxAttempts]
    /\ lease \in [Scopes -> NoLease..LeaseSeconds]
    /\ inbox \in [Scopes -> PatchKinds \cup {"none"}]
    /\ log \subseteq [scope : Scopes, status : {"complete", "failed"}]
    /\ state \in [Scopes -> Verdicts]
    /\ run \in {"none", "running", "complete"}
    /\ pc \in [Supervisors -> Points]
    /\ cursor \in [Supervisors -> 1..NumScopes + 1]
    /\ attempt \in [Supervisors -> 1..MaxAttempts]
    /\ outcome \in [Supervisors -> Outcomes]
    /\ beat \in [Supervisors -> 0..HeartbeatSeconds]
    /\ skip \in [Supervisors -> SUBSET Scopes]
    /\ results \in [Supervisors -> [Scopes -> Results]]
    /\ view \in [Supervisors -> [Scopes -> Verdicts]]
    /\ crashes \in 0..MaxCrashes
    /\ leftover \subseteq Scopes

\* acquire_lease's promise: no two live processes are between the claim and
\* the release of the same scope, whatever crashed before and however the
\* expiry of a lease, its renewal and a new claim interleave.
ExclusiveDispatch ==
    \A p, q \in Supervisors, s \in Scopes :
        Holds(p, s) /\ Holds(q, s) => p = q

\* mark_folded's promise: a row says folded only once the scope's complete
\* patch is in the log and state.json, as written, counts it.
FoldedIsInState ==
    \A s \in Scopes :
        stage[s] = "folded" =>
            /\ Patch(s, "complete") \in log
            /\ state[s] = "complete"

\* R6, no silent gap: when an invocation is about to report the run complete,
\* every scope of the wave is examined or stated as failed in state.json,
\* except those it left to the holder of a lease.
FinishLeavesNoGap ==
    \A p \in Supervisors : pc[p] = "finish" =>
        \A s \in Scopes :
            results[p][s] = "not_ours" \/ state[s] # "unexamined"

\* An attempt never classifies a file that was already in the inbox when the
\* attempt claimed its scope: a timed-out answer is not taken for a new one.
NoStaleAnswer ==
    \A p \in Supervisors :
        pc[p] \in {"running", "mark_returned", "classify"} =>
            cursor[p] \notin leftover

\* An answer written while its author's attempt is in flight is still there
\* when _classify_returned reads it: no other invocation clears the file.
AnswerSurvives ==
    [][\A p \in Supervisors :
          pc[p] \in {"running", "mark_returned", "classify"}
          /\ pc'[p] # "off" /\ inbox[cursor[p]] # "none"
          => inbox'[cursor[p]] = inbox[cursor[p]]]_vars

\* The docstring of supervisor.py, as a specification of one scope's row.
Answered == {s \in Scopes : Patch(s, "complete") \in log}
Lifecycle == INSTANCE TaskLifecycle WITH answered <- Answered

\* Under the repo lock with --resume every step of the program is a step of
\* the documented task state machine: folded is final, whatever crashed.
LifecycleHolds == Lifecycle!Spec

\* The lease protocol implements an atomic claim: see LeaseClaims.
Holder == [s \in Scopes |->
             IF \E p \in Supervisors : Holds(p, s)
             THEN CHOOSE p \in Supervisors : Holds(p, s) ELSE NoOne]
Claims == INSTANCE LeaseClaims WITH holder <- Holder
ClaimsHold == Claims!Spec

\* Every invocation ends: no wave, retry loop or lease keeps it forever.
InvocationEnds ==
    \A p \in Supervisors : pc[p] # "off" ~> pc[p] = "off"

\* R6, eventually: while an operator keeps resuming, every scope reaches
\* state.json, examined or stated as failed, whatever crashed on the way.
EveryScopeIsAccountedFor ==
    \A s \in Scopes : <>[](state[s] # "unexamined")
=============================================================================
