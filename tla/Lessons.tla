------------------------------ MODULE Lessons ------------------------------
(***************************************************************************)
(* The trajectory database of cdp/trajectory.py: one SQLite file that      *)
(* every workspace of a user shares, without a lock of its own.  Runs      *)
(* leave rows about their leaves, `cdp reflect` turns the outliers of a    *)
(* run into promotions, `cdp lessons cut` freezes the pending ones under a *)
(* version, `cdp holdout` promotes a version after a trial on a repository *)
(* it did not learn from, and `cdp lessons unpromote` takes that back.     *)
(*                                                                         *)
(* A step is what lies between two commits, or between two connections, of *)
(* one process: every command reads first and writes later.                *)
(***************************************************************************)
EXTENDS Integers, Sequences, FiniteSets, SequencesExt

CONSTANTS
    Repos,      \* the identities of repositories (registry.repo_identity)
    RunNames,   \* run ids; clones at one commit share them
    Hints,      \* well-formed promotions (reflect.validate_promotion)
    Cutters,    \* processes of `cdp lessons cut`
    Nobody      \* no repository, no command under way

VARIABLES
    leafRuns,   \* fact_leaf_run: [run, repo, outlier]
    promotions, \* lesson_promotion, by id: [run, hint, cut, origin]
    cuts,       \* lesson_cut, by version: [promoted, holdout]
    cutting,    \* [Cutters -> the version the process has read, or 0]
    reflecting, \* [Repos -> the promotions accepted and not yet recorded]
    holdout     \* [Repos -> the version under trial, or 0]

lessonVars == <<leafRuns, promotions, cuts, cutting, reflecting, holdout>>

Pending == 0    \* cut_version IS NULL

\* Mutant: load_lessons reads the live corpus along with the cut.
LoadLive(p, version) ==
    {p[i].hint : i \in {j \in DOMAIN p : p[j].cut \in {version, Pending}}}

(* What apply_lessons makes of the rows of one cut. *)
LoadLessons(p, version) ==
    {p[i].hint : i \in {j \in DOMAIN p : p[j].cut = version}}

PendingCount == Cardinality({i \in DOMAIN promotions : promotions[i].cut = Pending})

(* SQL's MAX, with 0 for the NULL of no row. *)
MaxVersion(vs) ==
    LET maxima == {v \in vs : \A w \in vs : w <= v}
    IN  IF maxima = {} THEN 0 ELSE CHOOSE v \in maxima : TRUE

(* 0 stands for None: no cut, or none that is promoted. *)
LatestLessonVersion == MaxVersion({v \in DOMAIN cuts : cuts[v].promoted})

NextCutVersion == MaxVersion(DOMAIN cuts) + 1

\* Mutant: the first row of the join is taken for all of it.
LearnedFromOne(version) ==
    LET repos == {l.repo : l \in {r \in leafRuns : \E i \in DOMAIN promotions :
                    promotions[i].cut = version /\ promotions[i].run = r.run}}
    IN  IF repos = {} THEN {} ELSE {CHOOSE r \in repos : TRUE}

(* Every repository with a leaf of a run that the cut was learned from. *)
LearnedReposForCut(version) ==
    {l.repo : l \in {r \in leafRuns : \E i \in DOMAIN promotions :
        promotions[i].cut = version /\ promotions[i].run = r.run}}

LessonsInit ==
    /\ leafRuns = {}
    /\ promotions = <<>>
    /\ cuts = <<>>
    /\ cutting = [c \in Cutters |-> 0]
    /\ reflecting = [r \in Repos |-> {}]
    /\ holdout = [r \in Repos |-> 0]

RecordLeafRuns(repo, run, outliers) ==
    leafRuns' = leafRuns \cup {[run |-> run, repo |-> repo, outlier |-> o] : o \in outliers}

(* Leaves that contradicted the extraction, or spent much and said nothing,
   whichever repository they come from: the rows are looked up by run id. *)
SelectOutliers(run) == {l \in leafRuns : l.run = run /\ l.outlier}

(* A model is asked about each; a reply that is no promotion of the closed
   vocabulary is discarded. *)
Accepted(rows, reply) ==
    {[run |-> l.run, hint |-> reply[l], origin |-> l.repo] : l \in {r \in rows : reply[r] \in Hints}}

Reflect(repo, run) ==
    /\ reflecting[repo] = {}
    /\ \E reply \in [SelectOutliers(run) -> Hints \cup {Nobody}] :
         reflecting' = [reflecting EXCEPT ![repo] = Accepted(SelectOutliers(run), reply)]
    /\ UNCHANGED <<leafRuns, promotions, cuts, cutting, holdout>>

(* The accepted promotions are recorded one commit at a time. *)
RecordPromotion(repo) ==
    /\ \E a \in reflecting[repo] :
         /\ promotions' = Append(promotions, [run |-> a.run, hint |-> a.hint, cut |-> Pending, origin |-> a.origin])
         /\ reflecting' = [reflecting EXCEPT ![repo] = @ \ {a}]
    /\ UNCHANGED <<leafRuns, cuts, cutting, holdout>>

(* cut_lessons counts and numbers outside the transaction ... *)
ReadCutVersion(c) ==
    /\ cutting[c] = 0
    /\ PendingCount > 0
    /\ cutting' = [cutting EXCEPT ![c] = NextCutVersion]
    /\ UNCHANGED <<leafRuns, promotions, cuts, reflecting, holdout>>

\* Mutant: the row of the version is replaced where it exists.
FreezeOver(version) ==
    /\ promotions' = [i \in DOMAIN promotions |->
                        IF promotions[i].cut = Pending THEN [promotions[i] EXCEPT !.cut = version] ELSE promotions[i]]
    /\ cuts' = [v \in DOMAIN cuts \cup {version} |->
                  IF v = version THEN [promoted |-> FALSE, holdout |-> Nobody] ELSE cuts[v]]

(* ... in which it stamps what is pending by then and inserts the version:
   a second row of one version is refused, and the stamps are rolled back. *)
Freeze(version) ==
    IF version \in DOMAIN cuts THEN UNCHANGED <<promotions, cuts>>
    ELSE /\ promotions' = [i \in DOMAIN promotions |->
                        IF promotions[i].cut = Pending THEN [promotions[i] EXCEPT !.cut = version] ELSE promotions[i]]
         /\ cuts' = [v \in DOMAIN cuts \cup {version} |->
                       IF v = version THEN [promoted |-> FALSE, holdout |-> Nobody] ELSE cuts[v]]

WriteCut(c) ==
    /\ cutting[c] # 0
    /\ Freeze(cutting[c])
    /\ cutting' = [cutting EXCEPT ![c] = 0]
    /\ UNCHANGED <<leafRuns, reflecting, holdout>>

(* The check that the split is real, in one connection ... *)
BeginHoldout(repo, version) ==
    /\ holdout[repo] = 0
    /\ repo \notin LearnedReposForCut(version)
    /\ LoadLessons(promotions, version) # {}
    /\ holdout' = [holdout EXCEPT ![repo] = version]
    /\ UNCHANGED <<leafRuns, promotions, cuts, cutting, reflecting>>

(* ... and the verdict in another: the T3 rate did not grow, or it did. *)
EndHoldout(repo) ==
    /\ holdout[repo] # 0
    /\ \/ cuts' = [cuts EXCEPT ![holdout[repo]] = [promoted |-> TRUE, holdout |-> repo]]
       \/ UNCHANGED cuts
    /\ holdout' = [holdout EXCEPT ![repo] = 0]
    /\ UNCHANGED <<leafRuns, promotions, cutting, reflecting>>

Unpromote(version) ==
    /\ version \in DOMAIN cuts /\ cuts[version].promoted
    /\ cuts' = [cuts EXCEPT ![version] = [promoted |-> FALSE, holdout |-> @.holdout]]
    /\ UNCHANGED <<leafRuns, promotions, cutting, reflecting, holdout>>

(* Another workspace runs the leaves of its own partition. *)
RunElsewhere(repo, run, outliers) ==
    /\ RecordLeafRuns(repo, run, outliers)
    /\ UNCHANGED <<promotions, cuts, cutting, reflecting, holdout>>

(***************************************************************************)
(* Properties.                                                             *)
(***************************************************************************)
(* A version, once it is cut, names the same promotions for ever, whatever
   is promoted, cut or recorded by others: this is what makes a run with
   `--lessons vN` reproducible (trajectory.cut_lessons, load_lessons). *)
CutsNeverChange ==
    [][\A v \in DOMAIN cuts : /\ v \in DOMAIN cuts'
                              /\ LoadLessons(promotions', v) = LoadLessons(promotions, v)]_lessonVars

(* A version that was promoted on a repository learned nothing from a leaf
   of that repository, although the two are related by a run id that
   several repositories may share (cmd_holdout, learned_repos_for_cut). *)
HoldoutIsUnseen ==
    \A v \in DOMAIN cuts : \A i \in DOMAIN promotions :
        promotions[i].cut = v => promotions[i].origin # cuts[v].holdout
=============================================================================
