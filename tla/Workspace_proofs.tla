-------------------------- MODULE Workspace_proofs --------------------------
(***************************************************************************)
(* Theorems about Workspace, for every number of commits, nodes, patches,  *)
(* rollbacks, checkouts and crashes, and for every drift of the files.     *)
(***************************************************************************)
EXTENDS Workspace, FiniteSetTheorems, WellFoundedInduction, TLAPS

(***************************************************************************)
(* The operators of Fold, for every log whose generations are bounded.     *)
(***************************************************************************)

\* A set of natural numbers has a smallest element.
LEMMA NatMin ==
  ASSUME NEW T \in SUBSET Nat, T # {}
  PROVE  \E x \in T : \A y \in T : x <= y
<1>1. \E x \in T : \A y \in T : ~(<<y, x>> \in OpToRel(<, Nat))
  BY NatLessThanWellFounded, WFMin
<1>2. PICK x \in T : \A y \in T : ~(<<y, x>> \in OpToRel(<, Nat))
  BY <1>1
<1>3. \A y \in T : y < x => <<y, x>> \in OpToRel(<, Nat)
  BY DEF OpToRel
<1>4. \A y \in T : ~(y < x)
  BY <1>2, <1>3
<1>5. \A y \in T : x <= y
  BY <1>4
<1>6. QED
  BY <1>5

\* A bounded set of natural numbers has a greatest element.
LEMMA NatMax ==
  ASSUME NEW N \in Nat, NEW S \in SUBSET (0..N), S # {}
  PROVE  \E x \in S : \A y \in S : y <= x
<1> DEFINE T == {N - x : x \in S}
<1>1. T \in SUBSET Nat
  <2>1. \A x \in S : N - x \in Nat
    OBVIOUS
  <2>2. QED
    BY <2>1
<1>2. T # {}
  OBVIOUS
<1> HIDE DEF T
<1>3. PICK t \in T : \A y \in T : t <= y
  BY <1>1, <1>2, NatMin
<1>4. PICK x \in S : t = N - x
  BY DEF T
<1>5. \A y \in S : y <= x
  <2> SUFFICES ASSUME NEW y \in S PROVE y <= x
    OBVIOUS
  <2>1. t <= N - y
    BY <1>3 DEF T
  <2>2. QED
    BY <2>1, <1>4
<1>6. QED
  BY <1>5

\* What Max of the community modules chooses.
LEMMA MaxOf ==
  ASSUME NEW N \in Nat, NEW S \in SUBSET (0..N), S # {}
  PROVE  Max(S) \in S /\ \A y \in S : y <= Max(S)
<1>1. PICK x \in S : \A y \in S : y <= x
  BY NatMax
<1>2. \A y \in S : x >= y
  BY <1>1
<1>3. Max(S) \in S /\ \A y \in S : Max(S) >= y
  BY <1>2 DEF Max
<1>4. QED
  BY <1>3

\* A set of patches of generations up to N.
Bounded(patches, N) == \A p \in patches : p.generation \in 0..N

\* best_complete is an attempt of its node, and none is of a later generation.
LEMMA BestIsLatest ==
  ASSUME NEW N \in Nat, NEW patches, Bounded(patches, N), NEW n,
         Of(Complete(patches), n) # {}
  PROVE  /\ Best(patches, n) \in Of(Complete(patches), n)
         /\ \A q \in Of(Complete(patches), n) :
              q.generation <= Best(patches, n).generation
<1> DEFINE attempts == Of(Complete(patches), n)
           gens == {p.generation : p \in attempts}
<1>1. gens \in SUBSET (0..N) /\ gens # {}
  BY DEF Bounded, Of, Complete
<1>2. PICK g \in gens : \A h \in gens : h <= g
  BY <1>1, NatMax
<1>3. PICK p \in attempts : p.generation = g
  BY <1>2
<1>4. \A q \in attempts : q.generation <= p.generation
  BY <1>2, <1>3
<1>5. QED
  BY <1>4 DEF Best

\* Only a complete patch of the log is live.
LEMMA LiveIsComplete ==
  ASSUME NEW N \in Nat, NEW patches, Bounded(patches, N)
  PROVE  Live(patches) \subseteq Complete(patches)
BY BestIsLatest DEF Live, Of

\* What a state shows was in the log, and its run was not excluded.
LEMMA FoldExcludes ==
  ASSUME NEW N \in Nat, NEW all, Bounded(all, N), NEW excluded, NEW tree,
         NEW from, NEW folded, folded = FoldOf(all, excluded, tree, from),
         NEW p \in folded.claims \cup folded.unreviewed \cup folded.asked
                   \cup folded.demoted
  PROVE  p \in all /\ p.run \notin excluded
<1> DEFINE patches == Counted(all, excluded)
<1>1. Bounded(patches, N)
  BY DEF Bounded, Counted
<1>2. p \in Complete(patches)
  BY <1>1, LiveIsComplete DEF FoldOf, Asked
<1>3. QED
  BY <1>2 DEF Complete, Counted

\* The generation of a new patch is later than any its node has.
LEMMA NextGenerationIsNew ==
  ASSUME NEW N \in Nat, NEW patches, Bounded(patches, N), NEW n
  PROVE  /\ NextGeneration(patches, n) \in Nat \ {0}
         /\ \A p \in Of(patches, n) :
              p.generation < NextGeneration(patches, n)
<1> DEFINE gens == {p.generation : p \in Of(patches, n)}
<1>1. CASE Of(patches, n) = {}
  BY <1>1 DEF NextGeneration
<1>2. CASE Of(patches, n) # {}
  <2>1. gens \in SUBSET (0..N) /\ gens # {}
    BY <1>2 DEF Bounded, Of
  <2>2. Max(gens) \in gens /\ \A g \in gens : g <= Max(gens)
    BY <2>1, MaxOf
  <2>3. Max(gens) \in Nat
    BY <2>1, <2>2
  <2>4. NextGeneration(patches, n) = Max(gens) + 1
    BY <1>2 DEF NextGeneration
  <2>5. \A p \in Of(patches, n) : p.generation \in gens
    OBVIOUS
  <2> HIDE DEF gens
  <2>6. \A g \in gens : g \in Nat
    BY <2>1
  <2>7. QED
    BY <2>2, <2>3, <2>4, <2>5, <2>6
<1>3. QED
  BY <1>1, <1>2

(***************************************************************************)
(* Type correctness.                                                       *)
(***************************************************************************)

\* A running command has selected a snapshot, and a refresh has a prior one.
Selected ==
    /\ pc # "idle" => snap \in Commits
    /\ pc \in RefreshSteps => prior \in Commits

\* A scan that has begun can number its derived patch.
RoomForDerived ==
    pc \in {"scan_schedule", "scan_structure", "scan_derive"} =>
        NextGeneration(log[snap], Root) <= MaxGeneration

\* TypeOK alone is not inductive: commands write at the selected snapshot.
TypeInv == TypeOK /\ Selected /\ RoomForDerived

\* The generations of a well-typed log are bounded.
LEMMA LogBounded ==
  ASSUME NEW patches \in SUBSET Patches
  PROVE  Bounded(patches, MaxGeneration)
BY WorkspaceAssumption DEF WorkspaceAssumption, Bounded, Patches

\* The fold of a well-typed log is a state.
LEMMA FoldIsState ==
  ASSUME NEW all \in SUBSET Patches, NEW excluded,
         NEW tree \in Commits, NEW from
  PROVE  FoldOf(all, excluded, tree, from) \in States
<1> DEFINE patches == Counted(all, excluded)
<1>1. patches \in SUBSET Patches
  BY DEF Counted
<1>2. Live(patches) \subseteq Complete(patches)
  BY <1>1, LogBounded, LiveIsComplete, WorkspaceAssumption
     DEF WorkspaceAssumption
<1>3. QED
  BY <1>1, <1>2 DEF FoldOf, States, Complete, Asked

\* WriteState keeps the type of the states.
LEMMA WriteStateTyped ==
  ASSUME TypeOK, snap \in Commits, NEW excluded, NEW from,
         WriteState(excluded, from)
  PROVE  view' \in [Commits -> States]
<1>1. FoldOf(log[snap], excluded, head, from) \in States
  BY FoldIsState DEF TypeOK
<1>2. QED
  BY <1>1 DEF WriteState, TypeOK

\* The number of an appended row is a natural number.
LEMMA NextSeqTyped ==
  ASSUME NEW patches \in SUBSET Patches
  PROVE  NextSeq(patches) \in Nat \ {0}
<1> DEFINE seqs == {p.seq : p \in patches} \cup {0}
<1>1. seqs \in SUBSET (0..MaxPatches) /\ seqs # {}
  BY WorkspaceAssumption DEF WorkspaceAssumption, Patches
<1>2. MaxPatches \in Nat
  BY WorkspaceAssumption DEF WorkspaceAssumption
<1> HIDE DEF seqs
<1>3. Max(seqs) \in seqs
  BY <1>1, <1>2, MaxOf
<1>4. Max(seqs) \in 0..MaxPatches
  BY <1>1, <1>3
<1>5. NextSeq(patches) = Max(seqs) + 1
  BY DEF NextSeq, seqs
<1>6. QED
  BY <1>2, <1>4, <1>5

\* append_patch adds one patch to the selected log, or nothing.
LEMMA Appended ==
  ASSUME TypeOK, snap \in Commits, NEW n \in Nodes, NEW r \in Runs,
         NEW s \in Statuses, NEW g \in 1..MaxGeneration, Append(n, r, s, g)
  PROVE  \E patch \in Patches :
           /\ patch.node = n /\ patch.status = s /\ patch.generation = g
           /\ \/ log' = log
              \/ log' = [log EXCEPT ![snap] = log[snap] \cup {patch}]
<1> DEFINE patch == [seq |-> NextSeq(log[snap]), node |-> n, run |-> r,
                     status |-> s, generation |-> g, at |-> snap,
                     tree |-> head]
<1>1. NextSeq(log[snap]) \in Nat \ {0}
  BY NextSeqTyped DEF TypeOK
<1>2. NextSeq(log[snap]) <= MaxPatches
  BY DEF Append
<1>3. patch \in Patches
  BY <1>1, <1>2, WorkspaceAssumption
     DEF Patches, TypeOK, WorkspaceAssumption
<1>4. \/ log' = log
      \/ log' = [log EXCEPT ![snap] = log[snap] \cup {patch}]
  BY DEF Append
<1>5. patch.node = n /\ patch.status = s /\ patch.generation = g
  OBVIOUS
<1>6. QED
  BY <1>3, <1>4, <1>5

\* A complete patch is of a later generation than its node has in the log.
LEMMA AppendedComplete ==
  ASSUME TypeOK, snap \in Commits, NEW n \in Nodes, NEW r \in Runs,
         AppendComplete(n, r)
  PROVE  \E patch \in Patches :
           /\ patch.node = n /\ patch.status = "complete"
           /\ \A p \in Of(log[snap], n) : p.generation < patch.generation
           /\ \/ log' = log
              \/ log' = [log EXCEPT ![snap] = log[snap] \cup {patch}]
<1> DEFINE g == NextGeneration(log[snap], n)
<1>1. /\ g \in Nat \ {0}
      /\ \A p \in Of(log[snap], n) : p.generation < g
  BY LogBounded, NextGenerationIsNew, WorkspaceAssumption
     DEF WorkspaceAssumption, TypeOK
<1>2. g <= MaxGeneration /\ Append(n, r, "complete", g)
  BY DEF AppendComplete
<1>3. g \in 1..MaxGeneration
  BY <1>1, <1>2, WorkspaceAssumption DEF WorkspaceAssumption
<1> HIDE DEF g
<1>4. PICK patch \in Patches :
        /\ patch.node = n /\ patch.status = "complete" /\ patch.generation = g
        /\ \/ log' = log
           \/ log' = [log EXCEPT ![snap] = log[snap] \cup {patch}]
  BY <1>2, <1>3, Appended DEF Statuses
<1>5. QED
  BY <1>1, <1>4

\* The derived patch of a scan.
LEMMA Derived ==
  ASSUME TypeInv, Derive
  PROVE  \E patch \in Patches :
           /\ patch.node = Root /\ patch.seq = 0
           /\ \A p \in Of(log[snap], Root) : p.generation < patch.generation
           /\ log' = [log EXCEPT ![snap] =
                        {p \in log[snap] : p.seq # 0} \cup {patch}]
<1> DEFINE g == NextGeneration(log[snap], Root)
           patch == [seq |-> 0, node |-> Root, run |-> snap,
                     status |-> "complete", generation |-> g, at |-> snap,
                     tree |-> head]
<1>1. pc = "scan_derive" /\ snap \in Commits
  BY DEF Derive, TypeInv, Selected
<1>2. /\ g \in Nat \ {0}
      /\ \A p \in Of(log[snap], Root) : p.generation < g
  BY <1>1, LogBounded, NextGenerationIsNew, WorkspaceAssumption
     DEF WorkspaceAssumption, TypeInv, TypeOK
<1>3. g <= MaxGeneration
  BY <1>1 DEF TypeInv, RoomForDerived
<1>4. patch \in Patches
  BY <1>1, <1>2, <1>3, WorkspaceAssumption
     DEF Patches, TypeInv, TypeOK, WorkspaceAssumption, Runs, Statuses
<1>5. log' = [log EXCEPT ![snap] = {p \in log[snap] : p.seq # 0} \cup {patch}]
  BY DEF Derive
<1>6. QED
  BY <1>2, <1>4, <1>5

\* Init gives every variable a value of its type.
LEMMA TypeInit == Init => TypeInv
<1> USE WorkspaceAssumption DEF WorkspaceAssumption
<1>1. Unfolded \in States
  BY DEF Unfolded, States
<1>2. QED
  BY <1>1 DEF Init, TypeInv, TypeOK, Selected, RoomForDerived, Runs, Steps,
     ScanSteps, RefreshSteps

\* No step takes a variable out of its type.
LEMMA TypeStep == TypeInv /\ [Next]_vars => TypeInv'
  <1> SUFFICES ASSUME TypeInv, [Next]_vars PROVE TypeInv'
    OBVIOUS
  <1> USE WorkspaceAssumption DEF WorkspaceAssumption, TypeInv, TypeOK,
     Selected, RoomForDerived, Steps, ScanSteps, RefreshSteps
  <1>1. ASSUME ScanBegin PROVE TypeInv'
    BY <1>1 DEF ScanBegin, BeginSnapshot, rows, command, counts, store
  <1>2. ASSUME ScanSchedule PROVE TypeInv'
    BY <1>2 DEF ScanSchedule, WriteArtifact, Put, rows, command, counts, store
  <1>3. ASSUME ScanStructure PROVE TypeInv'
    BY <1>3 DEF ScanStructure, WriteArtifact, Put, rows, command, counts, store
  <1>4. ASSUME Derive PROVE TypeInv'
    <2>1. PICK patch \in Patches :
            log' = [log EXCEPT ![snap] =
                      {p \in log[snap] : p.seq # 0} \cup {patch}]
      BY <1>4, Derived
    <2>2. log' \in [Commits -> SUBSET Patches]
      BY <1>4, <2>1 DEF Derive
    <2>3. QED
      BY <1>4, <2>2 DEF Derive, rows, command, counts, store
  <1>5. ASSUME ScanFold PROVE TypeInv'
    <2>1. view' \in [Commits -> States]
      BY <1>5, WriteStateTyped DEF ScanFold
    <2>2. QED
      BY <1>5, <2>1 DEF ScanFold, Idle, rows, command, counts, store
  <1>6. ASSUME FoldAndWrite PROVE TypeInv'
    <2>1. view' \in [Commits -> States]
      BY <1>6, WriteStateTyped DEF FoldAndWrite
    <2>2. QED
      BY <1>6, <2>1 DEF FoldAndWrite, Idle, rows, command, counts, store
  <1>7. ASSUME RefreshFold PROVE TypeInv'
    <2>1. view' \in [Commits -> States]
      BY <1>7, WriteStateTyped DEF RefreshFold
    <2>2. QED
      BY <1>7, <2>1 DEF RefreshFold, Idle, rows, command, counts, store
  <1>8. ASSUME ScanManifest PROVE TypeInv'
    BY <1>8 DEF ScanManifest, Put, Idle, Runs, rows, command, counts, store
  <1>9. ASSUME CollectBegin PROVE TypeInv'
    BY <1>9 DEF CollectBegin, Open, Readable, rows, command, counts, store
  <1>10. ASSUME NEW n \in Scopes, NEW r \in PromptedRuns, CollectReject(n, r)
        PROVE  TypeInv'
    <2>1. n \in Nodes /\ r \in Runs /\ 1 \in 1..MaxGeneration
      BY DEF PromptedRuns
    <2>2. PICK patch \in Patches :
            \/ log' = log
            \/ log' = [log EXCEPT ![snap] = log[snap] \cup {patch}]
      BY <1>10, <2>1, Appended DEF CollectReject, Statuses
    <2>3. log' \in [Commits -> SUBSET Patches]
      BY <1>10, <2>2 DEF CollectReject
    <2>4. QED
      BY <1>10, <2>3 DEF CollectReject, rows, command, counts, store
  <1>11. ASSUME NEW n \in Scopes, NEW r \in PromptedRuns, CollectAccept(n, r)
        PROVE  TypeInv'
    <2>1. n \in Nodes /\ r \in Runs /\ 1 \in 1..MaxGeneration
      BY DEF PromptedRuns
    <2>2. PICK patch \in Patches :
            \/ log' = log
            \/ log' = [log EXCEPT ![snap] = log[snap] \cup {patch}]
      BY <1>11, <2>1, AppendedComplete DEF CollectAccept, Statuses
    <2>3. log' \in [Commits -> SUBSET Patches]
      BY <1>11, <2>2 DEF CollectAccept
    <2>4. QED
      BY <1>11, <2>3 DEF CollectAccept, rows, command, counts, store
  <1>12. ASSUME CollectEnd PROVE TypeInv'
    BY <1>12 DEF CollectEnd, rows, command, counts, store
  <1>13. ASSUME RunBegin PROVE TypeInv'
    BY <1>13 DEF RunBegin, Readable, rows, command, counts, store
  <1>14. ASSUME NEW n \in Scopes, RunValidated(n) PROVE TypeInv'
    <2>1. n \in Nodes /\ manifest[snap] \in Runs /\ 1 \in 1..MaxGeneration
      BY <1>14 DEF RunValidated
    <2>2. PICK patch \in Patches :
            \/ log' = log
            \/ log' = [log EXCEPT ![snap] = log[snap] \cup {patch}]
      BY <1>14, <2>1, AppendedComplete DEF RunValidated, Statuses
    <2>3. log' \in [Commits -> SUBSET Patches]
      BY <1>14, <2>2 DEF RunValidated
    <2>4. QED
      BY <1>14, <2>3 DEF RunValidated, rows, command, counts, store
  <1>15. ASSUME NEW n \in Scopes, RunAbandoned(n) PROVE TypeInv'
    <2>1. n \in Nodes /\ manifest[snap] \in Runs /\ 1 \in 1..MaxGeneration
      BY <1>15 DEF RunAbandoned
    <2>2. PICK patch \in Patches :
            \/ log' = log
            \/ log' = [log EXCEPT ![snap] = log[snap] \cup {patch}]
      BY <1>15, <2>1, Appended DEF RunAbandoned, Statuses
    <2>3. log' \in [Commits -> SUBSET Patches]
      BY <1>15, <2>2 DEF RunAbandoned
    <2>4. QED
      BY <1>15, <2>3 DEF RunAbandoned, rows, command, counts, store
  <1>16. ASSUME RunEndWave PROVE TypeInv'
    BY <1>16 DEF RunEndWave, rows, command, counts, store
  <1>17. ASSUME AnswerBegin PROVE TypeInv'
    BY <1>17 DEF AnswerBegin, Open, Readable, rows, command, counts, store
  <1>18. ASSUME AnswerRefused PROVE TypeInv'
    BY <1>18 DEF AnswerRefused, Idle, rows, command, counts, store
  <1>19. ASSUME NEW n \in Scopes, AnswerAppend(n) PROVE TypeInv'
    <2>1. n \in Nodes /\ Answer \in Runs
      BY DEF Runs
    <2>2. PICK patch \in Patches :
            \/ log' = log
            \/ log' = [log EXCEPT ![snap] = log[snap] \cup {patch}]
      BY <1>19, <2>1, AppendedComplete DEF AnswerAppend, Statuses
    <2>3. log' \in [Commits -> SUBSET Patches]
      BY <1>19, <2>2 DEF AnswerAppend
    <2>4. QED
      BY <1>19, <2>3 DEF AnswerAppend, rows, command, counts, store
  <1>20. ASSUME FoldBegin PROVE TypeInv'
    BY <1>20 DEF FoldBegin, Open, Readable, rows, command, counts, store
  <1>21. ASSUME RefreshBegin PROVE TypeInv'
    BY <1>21
       DEF RefreshBegin, Readable, BeginSnapshot, rows, command, counts, store
  <1>22. ASSUME RefreshCopy PROVE TypeInv'
    BY <1>22 DEF RefreshCopy, rows, command, counts, store
  <1>23. ASSUME RefreshStructure PROVE TypeInv'
    BY <1>23
       DEF RefreshStructure, WriteArtifact, Put, rows, command, counts, store
  <1>24. ASSUME RefreshManifest PROVE TypeInv'
    BY <1>24 DEF RefreshManifest, Put, Idle, rows, command, counts, store
  <1>25. ASSUME NEW excluded \in SUBSET Runs, RollbackState(excluded)
        PROVE  TypeInv'
    <2>1. latest \in Commits
      BY <1>25 DEF RollbackState, Readable
    <2>2. FoldOf(log[latest], ledger[latest] \cup excluded, head, None)
            \in States
      BY <2>1, FoldIsState
    <2>3. view' \in [Commits -> States]
      BY <1>25, <2>1, <2>2 DEF RollbackState
    <2>4. QED
      BY <1>25, <2>1, <2>3 DEF RollbackState, rows, command, counts, store
  <1>26. ASSUME RollbackLedger PROVE TypeInv'
    BY <1>26 DEF RollbackLedger, Idle, rows, command, counts, store
  <1>27. ASSUME Compact PROVE TypeInv'
    BY <1>27
       DEF Compact, Superseded, Generations, Complete, rows, command, counts,
           store
  <1>28. ASSUME GcBegin PROVE TypeInv'
    BY <1>28 DEF GcBegin, BeginSnapshot, rows, command, counts, store
  <1>29. ASSUME NEW c \in Commits, GcDrop(c) PROVE TypeInv'
    <2>1. Unfolded \in States
      BY DEF Unfolded, States
    <2>2. QED
      BY <1>29, <2>1 DEF GcDrop, Runs, rows, command, counts, store
  <1>30. ASSUME NEW c \in Commits, GcRefused(c) PROVE TypeInv'
    BY <1>30 DEF GcRefused, Idle, rows, command, counts, store
  <1>31. ASSUME GcEnd PROVE TypeInv'
    BY <1>31 DEF GcEnd, Idle, rows, command, counts, store
  <1>32. ASSUME NEW c \in Commits, Checkout(c) PROVE TypeInv'
    BY <1>32 DEF Checkout, rows, command, counts, store
  <1>33. ASSUME Crash PROVE TypeInv'
    BY <1>33 DEF Crash, Idle, rows, command, counts, store
  <1>34. ASSUME UNCHANGED vars PROVE TypeInv'
    BY <1>34 DEF vars, rows, command, counts, store
  <1>35. ASSUME Readable, NEW r \in Runs
        PROVE  ToRun(r) \in SUBSET Runs /\ ToSnapshot(r) \in SUBSET Runs
    <2>1. log[latest] \in SUBSET Patches
      BY <1>35 DEF Readable
    <2>2. \A p \in log[latest] : p.run \in Runs
      BY <2>1 DEF Patches
    <2>3. ToRun(r) \in SUBSET Runs
      BY <2>2 DEF ToRun
    <2>4. ToSnapshot(r) \subseteq {p.run : p \in log[latest]}
      <3> DEFINE own == {p.seq : p \in {q \in log[latest] : q.run = r}}
                 later == {q \in log[latest] : q.seq > Max(own)}
      <3>1. ToSnapshot(r) = IF own = {} THEN {} ELSE {p.run : p \in later}
        BY DEF ToSnapshot
      <3>2. later \subseteq log[latest]
        OBVIOUS
      <3> HIDE DEF own, later
      <3>3. QED
        BY <3>1, <3>2
    <2>5. QED
      BY <2>2, <2>3, <2>4
  <1>36. QED
    BY <1>1, <1>2, <1>3, <1>4, <1>5, <1>6, <1>7, <1>8, <1>9, <1>10,
       <1>11, <1>12, <1>13, <1>14, <1>15, <1>16, <1>17, <1>18, <1>19, <1>20,
       <1>21, <1>22, <1>23, <1>24, <1>25, <1>26, <1>27, <1>28, <1>29, <1>30,
       <1>31, <1>32, <1>33, <1>34, <1>35
       DEF Next, Scan, Collect, Run, AnswerOne, Refresh, Rollback, Gc

\* Type correctness: the logs, states, ledgers and pointers of the store keep
\* their types through every command, crash and checkout.
THEOREM TypeCorrect == Spec => []TypeOK
<1>1. Init => TypeInv
  BY TypeInit
<1>2. TypeInv /\ [Next]_vars => TypeInv'
  BY TypeStep
<1>3. TypeInv => TypeOK
  BY DEF TypeInv
<1>4. QED
  BY <1>1, <1>2, <1>3, PTL DEF Spec

(***************************************************************************)
(* The ledger is honoured.                                                 *)
(***************************************************************************)

\* A rollback writes the state before the ledger: between the two commits the
\* state already leaves out the runs that the ledger is about to name.
LedgerInv ==
    /\ \A c \in Commits : \A p \in Shown(c) : p.run \notin ledger[c]
    /\ pc = "rollback_ledger" => \A p \in Shown(snap) : p.run \notin pending

\* A step that writes neither states nor ledgers, and begins no rollback.
LEMMA LedgerKept ==
  ASSUME LedgerInv, UNCHANGED <<view, ledger>>,
         pc' # "rollback_ledger" \/ UNCHANGED <<pc, snap, pending>>
  PROVE  LedgerInv'
BY DEF LedgerInv, Shown

\* What a state shows that was folded without some runs.
LEMMA WriteStateExcludes ==
  ASSUME TypeOK, NEW c \in Commits, NEW excluded, NEW from,
         view' = [view EXCEPT ![c] = FoldOf(log[c], excluded, head, from)]
  PROVE  /\ \A d \in Commits \ {c} : Shown(d)' = Shown(d)
         /\ \A p \in Shown(c)' : p.run \notin excluded
<1>1. view'[c] = FoldOf(log[c], excluded, head, from)
  BY DEF TypeOK
<1>2. \A d \in Commits \ {c} : view'[d] = view[d]
  BY DEF TypeOK
<1>3. Bounded(log[c], MaxGeneration) /\ MaxGeneration \in Nat
  BY LogBounded, WorkspaceAssumption DEF TypeOK, WorkspaceAssumption
<1>4. \A p \in Shown(c)' : p.run \notin excluded
  BY <1>1, <1>3, FoldExcludes DEF Shown
<1>5. QED
  BY <1>2, <1>4 DEF Shown

\* No step shows a run that the ledger of the snapshot excludes.
LEMMA LedgerStep == TypeInv /\ LedgerInv /\ [Next]_vars => LedgerInv'
  <1> SUFFICES ASSUME TypeInv, LedgerInv, [Next]_vars PROVE LedgerInv'
    OBVIOUS
  <1> USE DEF TypeInv, Selected
  <1>1. ASSUME ScanBegin PROVE LedgerInv'
    BY <1>1, LedgerKept
       DEF ScanBegin, BeginSnapshot, rows, store, command, counts
  <1>2. ASSUME ScanSchedule PROVE LedgerInv'
    BY <1>2, LedgerKept
       DEF ScanSchedule, WriteArtifact, rows, store, command, counts
  <1>3. ASSUME ScanStructure PROVE LedgerInv'
    BY <1>3, LedgerKept
       DEF ScanStructure, WriteArtifact, rows, store, command, counts
  <1>4. ASSUME Derive PROVE LedgerInv'
    BY <1>4, LedgerKept DEF Derive, rows, store, command, counts
  <1>5. ASSUME ScanFold PROVE LedgerInv'
    <2>1. PICK c \in Commits : c = snap
      BY <1>5 DEF ScanFold
    <2>2. ledger' = ledger /\ pc' # "rollback_ledger"
      BY <1>5 DEF ScanFold, Idle
    <2>3. /\ \A d \in Commits \ {c} : Shown(d)' = Shown(d)
          /\ \A p \in Shown(c)' : p.run \notin ledger[c]
      BY <1>5, <2>1, WriteStateExcludes DEF ScanFold, WriteState
    <2>4. QED
      BY <2>2, <2>3 DEF LedgerInv
  <1>6. ASSUME ScanManifest PROVE LedgerInv'
    BY <1>6, LedgerKept DEF ScanManifest, Idle, rows, store, command, counts
  <1>7. ASSUME CollectBegin PROVE LedgerInv'
    BY <1>7, LedgerKept DEF CollectBegin, Open, rows, store, command, counts
  <1>8. ASSUME NEW n \in Scopes, NEW r \in PromptedRuns, CollectReject(n, r)
        PROVE  LedgerInv'
    BY <1>8, LedgerKept DEF CollectReject, rows, store, command, counts
  <1>9. ASSUME NEW n \in Scopes, NEW r \in PromptedRuns, CollectAccept(n, r)
        PROVE  LedgerInv'
    BY <1>9, LedgerKept DEF CollectAccept, rows, store, command, counts
  <1>10. ASSUME CollectEnd PROVE LedgerInv'
    BY <1>10, LedgerKept DEF CollectEnd, rows, store, command, counts
  <1>11. ASSUME RunBegin PROVE LedgerInv'
    BY <1>11, LedgerKept DEF RunBegin, rows, store, command, counts
  <1>12. ASSUME NEW n \in Scopes, RunValidated(n) PROVE LedgerInv'
    BY <1>12, LedgerKept DEF RunValidated, rows, store, command, counts
  <1>13. ASSUME NEW n \in Scopes, RunAbandoned(n) PROVE LedgerInv'
    BY <1>13, LedgerKept DEF RunAbandoned, rows, store, command, counts
  <1>14. ASSUME RunEndWave PROVE LedgerInv'
    BY <1>14, LedgerKept DEF RunEndWave, rows, store, command, counts
  <1>15. ASSUME AnswerBegin PROVE LedgerInv'
    BY <1>15, LedgerKept DEF AnswerBegin, Open, rows, store, command, counts
  <1>16. ASSUME AnswerRefused PROVE LedgerInv'
    BY <1>16, LedgerKept DEF AnswerRefused, Idle, rows, store, command, counts
  <1>17. ASSUME NEW n \in Scopes, AnswerAppend(n) PROVE LedgerInv'
    BY <1>17, LedgerKept DEF AnswerAppend, rows, store, command, counts
  <1>18. ASSUME FoldBegin PROVE LedgerInv'
    BY <1>18, LedgerKept DEF FoldBegin, Open, rows, store, command, counts
  <1>19. ASSUME FoldAndWrite PROVE LedgerInv'
    <2>1. PICK c \in Commits : c = snap
      BY <1>19 DEF FoldAndWrite
    <2>2. ledger' = ledger /\ pc' # "rollback_ledger"
      BY <1>19 DEF FoldAndWrite, Idle
    <2>3. /\ \A d \in Commits \ {c} : Shown(d)' = Shown(d)
          /\ \A p \in Shown(c)' : p.run \notin ledger[c]
      BY <1>19, <2>1, WriteStateExcludes DEF FoldAndWrite, WriteState
    <2>4. QED
      BY <2>2, <2>3 DEF LedgerInv
  <1>20. ASSUME RefreshBegin PROVE LedgerInv'
    BY <1>20, LedgerKept
       DEF RefreshBegin, BeginSnapshot, rows, store, command, counts
  <1>21. ASSUME RefreshCopy PROVE LedgerInv'
    BY <1>21, LedgerKept DEF RefreshCopy, rows, store, command, counts
  <1>22. ASSUME RefreshStructure PROVE LedgerInv'
    BY <1>22, LedgerKept
       DEF RefreshStructure, WriteArtifact, rows, store, command, counts
  <1>23. ASSUME RefreshFold PROVE LedgerInv'
    <2>1. PICK c \in Commits : c = snap
      BY <1>23 DEF RefreshFold
    <2>2. ledger' = ledger /\ pc' # "rollback_ledger"
      BY <1>23 DEF RefreshFold, Idle
    <2>3. /\ \A d \in Commits \ {c} : Shown(d)' = Shown(d)
          /\ \A p \in Shown(c)' : p.run \notin ledger[c]
      BY <1>23, <2>1, WriteStateExcludes DEF RefreshFold, WriteState
    <2>4. QED
      BY <2>2, <2>3 DEF LedgerInv
  <1>24. ASSUME RefreshManifest PROVE LedgerInv'
    BY <1>24, LedgerKept
       DEF RefreshManifest, Idle, rows, store, command, counts
  <1>25. ASSUME NEW excluded, RollbackState(excluded) PROVE LedgerInv'
    <2>1. PICK c \in Commits : c = latest
      BY <1>25 DEF RollbackState, Readable, TypeOK
    <2>2. /\ \A d \in Commits \ {c} : Shown(d)' = Shown(d)
          /\ \A p \in Shown(c)' : p.run \notin ledger[c] \cup excluded
      BY <1>25, <2>1, WriteStateExcludes DEF RollbackState
    <2>3. snap' = c /\ pending' = excluded /\ ledger' = ledger
      BY <1>25, <2>1 DEF RollbackState
    <2>4. \A d \in Commits : \A p \in Shown(d)' : p.run \notin ledger[d]
      BY <2>2 DEF LedgerInv
    <2>5. \A p \in Shown(snap)' : p.run \notin pending'
      BY <2>2, <2>3
    <2>6. QED
      BY <2>3, <2>4, <2>5 DEF LedgerInv
  <1>26. ASSUME RollbackLedger PROVE LedgerInv'
    <2>1. /\ pc = "rollback_ledger" /\ snap \in Commits /\ view' = view
          /\ pc' = "idle"
          /\ ledger' = [ledger EXCEPT ![snap] = ledger[snap] \cup pending]
      BY <1>26 DEF RollbackLedger, Idle
    <2>2. \A c \in Commits : Shown(c)' = Shown(c)
      BY <2>1 DEF Shown
    <2>3. QED
      BY <2>1, <2>2 DEF LedgerInv, TypeOK
  <1>27. ASSUME Compact PROVE LedgerInv'
    BY <1>27, LedgerKept DEF Compact, rows, store, command, counts
  <1>28. ASSUME GcBegin PROVE LedgerInv'
    BY <1>28, LedgerKept
       DEF GcBegin, BeginSnapshot, rows, store, command, counts
  <1>29. ASSUME NEW c \in Commits, GcDrop(c) PROVE LedgerInv'
    <2>1. /\ pc' = "gc"
          /\ view' = [view EXCEPT ![c] = Unfolded]
          /\ ledger' = [ledger EXCEPT ![c] = {}]
      BY <1>29 DEF GcDrop, command
    <2>2. \A d \in Commits \ {c} : Shown(d)' = Shown(d) /\ ledger'[d] = ledger[d]
      BY <2>1 DEF Shown, TypeOK
    <2>3. Shown(c)' = {}
      BY <2>1 DEF Shown, Unfolded, TypeOK
    <2>4. QED
      BY <2>1, <2>2, <2>3 DEF LedgerInv
  <1>30. ASSUME NEW c \in Commits, GcRefused(c) PROVE LedgerInv'
    BY <1>30, LedgerKept DEF GcRefused, Idle, rows, store, command, counts
  <1>31. ASSUME GcEnd PROVE LedgerInv'
    BY <1>31, LedgerKept DEF GcEnd, Idle, rows, store, command, counts
  <1>32. ASSUME NEW c \in Commits, Checkout(c) PROVE LedgerInv'
    BY <1>32, LedgerKept DEF Checkout, rows, store, command, counts
  <1>33. ASSUME Crash PROVE LedgerInv'
    BY <1>33, LedgerKept DEF Crash, Idle, rows, store, command, counts
  <1>34. ASSUME UNCHANGED vars PROVE LedgerInv'
    BY <1>34, LedgerKept DEF vars, rows, store, command, counts
  <1>35. QED
    BY <1>1, <1>2, <1>3, <1>4, <1>5, <1>6, <1>7, <1>8, <1>9, <1>10,
       <1>11, <1>12, <1>13, <1>14, <1>15, <1>16, <1>17, <1>18, <1>19, <1>20,
       <1>21, <1>22, <1>23, <1>24, <1>25, <1>26, <1>27, <1>28, <1>29, <1>30,
       <1>31, <1>32, <1>33, <1>34
       DEF Next, Scan, Collect, Run, AnswerOne, Refresh, Rollback, Gc

\* The state of a snapshot never shows a claim or a question of a run that the
\* ledger of the snapshot excludes, also between the two commits of a rollback
\* and after a crash there.
THEOREM LedgerIsHonoured == Spec => []LedgerHonoured
<1>1. Init => TypeInv /\ LedgerInv
  BY TypeInit DEF Init, LedgerInv, Shown, Unfolded
<1>2. TypeInv /\ LedgerInv /\ [Next]_vars => (TypeInv /\ LedgerInv)'
  BY TypeStep, LedgerStep
<1>3. TypeInv /\ LedgerInv => LedgerHonoured
  BY DEF TypeInv, TypeOK, LedgerInv, LedgerHonoured
<1>4. QED
  BY <1>1, <1>2, <1>3, PTL DEF Spec

(***************************************************************************)
(* Generations are unique.                                                 *)
(***************************************************************************)

\* No two complete patches of a node share a generation.
Distinct(patches) ==
    \A p, q \in Complete(patches) :
        p.node = q.node /\ p.generation = q.generation => p = q

GenerationInv == \A c \in Commits : Distinct(log[c])

\* A log stays distinct with a later generation of a node, with an attempt
\* that is not complete, and without some of its patches.
LEMMA DistinctLater ==
  ASSUME NEW patches, Distinct(patches), NEW patch, patch.generation \in Nat,
         \A p \in patches : p.generation \in Nat,
         \A p \in Of(patches, patch.node) : p.generation < patch.generation
  PROVE  Distinct(patches \cup {patch})
<1>1. \A p \in patches : p.node = patch.node =>
        p.generation # patch.generation
  BY DEF Of
<1>2. QED
  BY <1>1 DEF Distinct, Complete

LEMMA DistinctIncomplete ==
  ASSUME NEW patches, Distinct(patches), NEW patch, patch.status # "complete"
  PROVE  Distinct(patches \cup {patch})
BY DEF Distinct, Complete

LEMMA DistinctSubset ==
  ASSUME NEW patches, Distinct(patches), NEW kept \in SUBSET patches
  PROVE  Distinct(kept)
BY DEF Distinct, Complete

\* The generations in a well-typed log are natural numbers.
LEMMA GenerationsAreNat ==
  ASSUME NEW patches \in SUBSET Patches
  PROVE  \A p \in patches : p.generation \in Nat
BY WorkspaceAssumption DEF WorkspaceAssumption, Patches

\* No step gives a node two complete patches of one generation.
LEMMA GenerationStep ==
  TypeInv /\ GenerationInv /\ [Next]_vars => GenerationInv'
  <1> SUFFICES ASSUME TypeInv, GenerationInv, [Next]_vars PROVE GenerationInv'
    OBVIOUS
  <1> USE DEF TypeInv, Selected
  <1>1. ASSUME ScanBegin PROVE GenerationInv'
    BY <1>1
       DEF ScanBegin, BeginSnapshot, rows, store, command, counts,
           GenerationInv
  <1>2. ASSUME ScanSchedule PROVE GenerationInv'
    BY <1>2
       DEF ScanSchedule, WriteArtifact, rows, store, command, counts,
           GenerationInv
  <1>3. ASSUME ScanStructure PROVE GenerationInv'
    BY <1>3
       DEF ScanStructure, WriteArtifact, rows, store, command, counts,
           GenerationInv
  <1>4. ASSUME Derive PROVE GenerationInv'
    <2>1. snap \in Commits
      BY <1>4 DEF Derive
    <2> DEFINE kept == {p \in log[snap] : p.seq # 0}
    <2>2. PICK patch \in Patches :
            /\ patch.node = Root
            /\ \A p \in Of(log[snap], Root) : p.generation < patch.generation
            /\ log' = [log EXCEPT ![snap] = kept \cup {patch}]
      BY <1>4, Derived
    <2>3. Distinct(kept)
      BY <2>1, DistinctSubset DEF GenerationInv
    <2>4. \A p \in Of(kept, patch.node) : p.generation < patch.generation
      BY <2>2 DEF Of
    <2>5. kept \in SUBSET Patches
      BY <2>1 DEF TypeOK
    <2>6. Distinct(kept \cup {patch})
      BY <2>3, <2>4, <2>5, DistinctLater, GenerationsAreNat
    <2> HIDE DEF kept
    <2>7. QED
      BY <2>1, <2>2, <2>6 DEF GenerationInv, TypeOK
  <1>5. ASSUME ScanFold PROVE GenerationInv'
    BY <1>5 DEF ScanFold, rows, store, command, counts, GenerationInv
  <1>6. ASSUME ScanManifest PROVE GenerationInv'
    BY <1>6 DEF ScanManifest, Idle, rows, store, command, counts, GenerationInv
  <1>7. ASSUME CollectBegin PROVE GenerationInv'
    BY <1>7 DEF CollectBegin, Open, rows, store, command, counts, GenerationInv
  <1>8. ASSUME NEW n \in Scopes, NEW r \in PromptedRuns, CollectReject(n, r)
        PROVE  GenerationInv'
    <2>1. snap \in Commits /\ n \in Nodes /\ r \in Runs
          /\ 1 \in 1..MaxGeneration
      BY <1>8, WorkspaceAssumption
         DEF CollectReject, WorkspaceAssumption, TypeOK, PromptedRuns, Runs
    <2>2. PICK patch \in Patches :
            /\ patch.status # "complete"
            /\ \/ log' = log
               \/ log' = [log EXCEPT ![snap] = log[snap] \cup {patch}]
      BY <1>8, <2>1, Appended DEF CollectReject, Statuses
    <2>3. Distinct(log[snap] \cup {patch})
      BY <2>1, <2>2, DistinctIncomplete DEF GenerationInv
    <2>4. QED
      BY <2>1, <2>2, <2>3 DEF GenerationInv, TypeOK
  <1>9. ASSUME NEW n \in Scopes, NEW r \in PromptedRuns, CollectAccept(n, r)
        PROVE  GenerationInv'
    <2>1. snap \in Commits /\ n \in Nodes /\ r \in Runs
      BY <1>9, WorkspaceAssumption
         DEF CollectAccept, WorkspaceAssumption, TypeOK, PromptedRuns, Runs
    <2>2. PICK patch \in Patches :
            /\ patch.node = n
            /\ \A p \in Of(log[snap], n) : p.generation < patch.generation
            /\ \/ log' = log
               \/ log' = [log EXCEPT ![snap] = log[snap] \cup {patch}]
      BY <1>9, <2>1, AppendedComplete DEF CollectAccept
    <2>3. Distinct(log[snap] \cup {patch})
      BY <2>1, <2>2, DistinctLater, GenerationsAreNat DEF GenerationInv, TypeOK
    <2>4. QED
      BY <2>1, <2>2, <2>3 DEF GenerationInv, TypeOK
  <1>10. ASSUME CollectEnd PROVE GenerationInv'
    BY <1>10 DEF CollectEnd, rows, store, command, counts, GenerationInv
  <1>11. ASSUME RunBegin PROVE GenerationInv'
    BY <1>11 DEF RunBegin, rows, store, command, counts, GenerationInv
  <1>12. ASSUME NEW n \in Scopes, RunValidated(n) PROVE GenerationInv'
    <2>1. snap \in Commits /\ n \in Nodes /\ manifest[snap] \in Runs
      BY <1>12, WorkspaceAssumption
         DEF RunValidated, WorkspaceAssumption, TypeOK, PromptedRuns, Runs
    <2>2. PICK patch \in Patches :
            /\ patch.node = n
            /\ \A p \in Of(log[snap], n) : p.generation < patch.generation
            /\ \/ log' = log
               \/ log' = [log EXCEPT ![snap] = log[snap] \cup {patch}]
      BY <1>12, <2>1, AppendedComplete DEF RunValidated
    <2>3. Distinct(log[snap] \cup {patch})
      BY <2>1, <2>2, DistinctLater, GenerationsAreNat DEF GenerationInv, TypeOK
    <2>4. QED
      BY <2>1, <2>2, <2>3 DEF GenerationInv, TypeOK
  <1>13. ASSUME NEW n \in Scopes, RunAbandoned(n) PROVE GenerationInv'
    <2>1. snap \in Commits /\ n \in Nodes /\ manifest[snap] \in Runs
          /\ 1 \in 1..MaxGeneration
      BY <1>13, WorkspaceAssumption
         DEF RunAbandoned, WorkspaceAssumption, TypeOK, PromptedRuns, Runs
    <2>2. PICK patch \in Patches :
            /\ patch.status # "complete"
            /\ \/ log' = log
               \/ log' = [log EXCEPT ![snap] = log[snap] \cup {patch}]
      BY <1>13, <2>1, Appended DEF RunAbandoned, Statuses
    <2>3. Distinct(log[snap] \cup {patch})
      BY <2>1, <2>2, DistinctIncomplete DEF GenerationInv
    <2>4. QED
      BY <2>1, <2>2, <2>3 DEF GenerationInv, TypeOK
  <1>14. ASSUME RunEndWave PROVE GenerationInv'
    BY <1>14 DEF RunEndWave, rows, store, command, counts, GenerationInv
  <1>15. ASSUME AnswerBegin PROVE GenerationInv'
    BY <1>15 DEF AnswerBegin, Open, rows, store, command, counts, GenerationInv
  <1>16. ASSUME AnswerRefused PROVE GenerationInv'
    BY <1>16
       DEF AnswerRefused, Idle, rows, store, command, counts, GenerationInv
  <1>17. ASSUME NEW n \in Scopes, AnswerAppend(n) PROVE GenerationInv'
    <2>1. snap \in Commits /\ n \in Nodes /\ Answer \in Runs
      BY <1>17, WorkspaceAssumption
         DEF AnswerAppend, WorkspaceAssumption, TypeOK, PromptedRuns, Runs
    <2>2. PICK patch \in Patches :
            /\ patch.node = n
            /\ \A p \in Of(log[snap], n) : p.generation < patch.generation
            /\ \/ log' = log
               \/ log' = [log EXCEPT ![snap] = log[snap] \cup {patch}]
      BY <1>17, <2>1, AppendedComplete DEF AnswerAppend
    <2>3. Distinct(log[snap] \cup {patch})
      BY <2>1, <2>2, DistinctLater, GenerationsAreNat DEF GenerationInv, TypeOK
    <2>4. QED
      BY <2>1, <2>2, <2>3 DEF GenerationInv, TypeOK
  <1>18. ASSUME FoldBegin PROVE GenerationInv'
    BY <1>18 DEF FoldBegin, Open, rows, store, command, counts, GenerationInv
  <1>19. ASSUME FoldAndWrite PROVE GenerationInv'
    BY <1>19
       DEF FoldAndWrite, Idle, rows, store, command, counts, GenerationInv
  <1>20. ASSUME RefreshBegin PROVE GenerationInv'
    BY <1>20
       DEF RefreshBegin, BeginSnapshot, rows, store, command, counts,
           GenerationInv
  <1>21. ASSUME RefreshCopy PROVE GenerationInv'
    <2>1. snap \in Commits /\ prior \in Commits
      BY <1>21 DEF RefreshCopy, RefreshSteps
    <2>2. log' = log \/ log' = [log EXCEPT ![snap] = log[prior]]
      BY <1>21 DEF RefreshCopy
    <2>3. QED
      BY <2>1, <2>2 DEF GenerationInv, TypeOK
  <1>22. ASSUME RefreshStructure PROVE GenerationInv'
    BY <1>22
       DEF RefreshStructure, WriteArtifact, rows, store, command, counts,
           GenerationInv
  <1>23. ASSUME RefreshFold PROVE GenerationInv'
    BY <1>23 DEF RefreshFold, rows, store, command, counts, GenerationInv
  <1>24. ASSUME RefreshManifest PROVE GenerationInv'
    BY <1>24
       DEF RefreshManifest, Idle, rows, store, command, counts, GenerationInv
  <1>25. ASSUME NEW excluded, RollbackState(excluded) PROVE GenerationInv'
    BY <1>25 DEF RollbackState, rows, store, command, counts, GenerationInv
  <1>26. ASSUME RollbackLedger PROVE GenerationInv'
    BY <1>26
       DEF RollbackLedger, Idle, rows, store, command, counts, GenerationInv
  <1>27. ASSUME Compact PROVE GenerationInv'
    <2>1. \A c \in Commits : log'[c] \in SUBSET log[c]
      BY <1>27 DEF Compact
    <2>2. QED
      BY <2>1, DistinctSubset DEF GenerationInv
  <1>28. ASSUME GcBegin PROVE GenerationInv'
    BY <1>28
       DEF GcBegin, BeginSnapshot, rows, store, command, counts, GenerationInv
  <1>29. ASSUME NEW c \in Commits, GcDrop(c) PROVE GenerationInv'
    <2>1. log' = [log EXCEPT ![c] = {}]
      BY <1>29 DEF GcDrop
    <2>2. Distinct({})
      BY DEF Distinct, Complete
    <2>3. QED
      BY <2>1, <2>2 DEF GenerationInv, TypeOK
  <1>30. ASSUME NEW c \in Commits, GcRefused(c) PROVE GenerationInv'
    BY <1>30 DEF GcRefused, Idle, rows, store, command, counts, GenerationInv
  <1>31. ASSUME GcEnd PROVE GenerationInv'
    BY <1>31 DEF GcEnd, Idle, rows, store, command, counts, GenerationInv
  <1>32. ASSUME NEW c \in Commits, Checkout(c) PROVE GenerationInv'
    BY <1>32 DEF Checkout, rows, store, command, counts, GenerationInv
  <1>33. ASSUME Crash PROVE GenerationInv'
    BY <1>33 DEF Crash, Idle, rows, store, command, counts, GenerationInv
  <1>34. ASSUME UNCHANGED vars PROVE GenerationInv'
    BY <1>34 DEF vars, rows, store, command, counts, GenerationInv
  <1>35. QED
    BY <1>1, <1>2, <1>3, <1>4, <1>5, <1>6, <1>7, <1>8, <1>9, <1>10,
       <1>11, <1>12, <1>13, <1>14, <1>15, <1>16, <1>17, <1>18, <1>19, <1>20,
       <1>21, <1>22, <1>23, <1>24, <1>25, <1>26, <1>27, <1>28, <1>29, <1>30,
       <1>31, <1>32, <1>33, <1>34
       DEF Next, Scan, Collect, Run, AnswerOne, Refresh, Rollback, Gc

\* The live generation of a node is decided by its number alone, whatever was
\* rescanned, compacted, copied to another snapshot or rolled back.
THEOREM GenerationsAreUnique == Spec => []GenerationsUnique
<1>1. Init => TypeInv /\ GenerationInv
  BY TypeInit DEF Init, GenerationInv, Distinct, Complete
<1>2. TypeInv /\ GenerationInv /\ [Next]_vars => (TypeInv /\ GenerationInv)'
  BY TypeStep, GenerationStep
<1>3. TypeInv /\ GenerationInv => GenerationsUnique
  BY DEF TypeInv, TypeOK, GenerationInv, Distinct, GenerationsUnique
<1>4. QED
  BY <1>1, <1>2, <1>3, PTL DEF Spec

(***************************************************************************)
(* The manifest marks complete snapshots.                                  *)
(***************************************************************************)

\* What a snapshot has before its manifest is written.
ManifestInv ==
    /\ \A c \in Commits : "manifest" \in arts[c] =>
         "structure" \in arts[c] /\ view[c].tree # None
    /\ pc \in {"scan_derive", "scan_fold", "scan_manifest", "refresh_fold",
              "refresh_manifest"} => "structure" \in arts[snap]
    /\ pc \in {"scan_manifest", "refresh_manifest"} => view[snap].tree # None

\* A fold writes the tree it was verified against.
LEMMA WriteStateFolds ==
  ASSUME TypeOK, NEW c \in Commits, NEW excluded, NEW from,
         view' = [view EXCEPT ![c] = FoldOf(log[c], excluded, head, from)]
  PROVE  /\ view'[c].tree # None
         /\ \A d \in Commits \ {c} : view'[d] = view[d]
BY WorkspaceAssumption DEF WorkspaceAssumption, TypeOK, FoldOf

\* No step writes a manifest before the artifacts it vouches for.
LEMMA ManifestStep ==
  TypeInv /\ ManifestInv /\ [Next]_vars => ManifestInv'
  <1> SUFFICES ASSUME TypeInv, ManifestInv, [Next]_vars PROVE ManifestInv'
    OBVIOUS
  <1> USE DEF TypeInv, Selected
  <1>1. ASSUME ScanBegin PROVE ManifestInv'
    BY <1>1
       DEF ScanBegin, BeginSnapshot, ManifestInv, TypeOK, Put, rows, store,
           command, counts
  <1>2. ASSUME ScanSchedule PROVE ManifestInv'
    BY <1>2
       DEF ScanSchedule, WriteArtifact, ManifestInv, TypeOK, Put, rows, store,
           command, counts
  <1>3. ASSUME ScanStructure PROVE ManifestInv'
    BY <1>3
       DEF ScanStructure, WriteArtifact, ManifestInv, TypeOK, Put, rows,
           store, command, counts
  <1>4. ASSUME Derive PROVE ManifestInv'
    BY <1>4 DEF Derive, ManifestInv, TypeOK, Put, rows, store, command, counts
  <1>5. ASSUME ScanFold PROVE ManifestInv'
    <2>1. PICK c \in Commits : c = snap
      BY <1>5 DEF ScanFold, RefreshSteps
    <2>2. /\ view'[c].tree # None
          /\ \A d \in Commits \ {c} : view'[d] = view[d]
      BY <1>5, <2>1, WriteStateFolds DEF ScanFold, WriteState
    <2>3. QED
      BY <1>5, <2>1, <2>2 DEF ManifestInv, ScanFold, Idle
  <1>6. ASSUME ScanManifest PROVE ManifestInv'
    BY <1>6
       DEF ScanManifest, Idle, ManifestInv, TypeOK, Put, rows, store, command,
           counts
  <1>7. ASSUME CollectBegin PROVE ManifestInv'
    BY <1>7
       DEF CollectBegin, Open, ManifestInv, TypeOK, Put, rows, store, command,
           counts
  <1>8. ASSUME NEW n \in Scopes, NEW r \in PromptedRuns, CollectReject(n, r)
        PROVE  ManifestInv'
    BY <1>8
       DEF CollectReject, ManifestInv, TypeOK, Put, rows, store, command,
           counts
  <1>9. ASSUME NEW n \in Scopes, NEW r \in PromptedRuns, CollectAccept(n, r)
        PROVE  ManifestInv'
    BY <1>9
       DEF CollectAccept, ManifestInv, TypeOK, Put, rows, store, command,
           counts
  <1>10. ASSUME CollectEnd PROVE ManifestInv'
    BY <1>10
       DEF CollectEnd, ManifestInv, TypeOK, Put, rows, store, command, counts
  <1>11. ASSUME RunBegin PROVE ManifestInv'
    BY <1>11
       DEF RunBegin, ManifestInv, TypeOK, Put, rows, store, command, counts
  <1>12. ASSUME NEW n \in Scopes, RunValidated(n) PROVE ManifestInv'
    BY <1>12
       DEF RunValidated, ManifestInv, TypeOK, Put, rows, store, command, counts
  <1>13. ASSUME NEW n \in Scopes, RunAbandoned(n) PROVE ManifestInv'
    BY <1>13
       DEF RunAbandoned, ManifestInv, TypeOK, Put, rows, store, command, counts
  <1>14. ASSUME RunEndWave PROVE ManifestInv'
    BY <1>14
       DEF RunEndWave, ManifestInv, TypeOK, Put, rows, store, command, counts
  <1>15. ASSUME AnswerBegin PROVE ManifestInv'
    BY <1>15
       DEF AnswerBegin, Open, ManifestInv, TypeOK, Put, rows, store, command,
           counts
  <1>16. ASSUME AnswerRefused PROVE ManifestInv'
    BY <1>16
       DEF AnswerRefused, Idle, ManifestInv, TypeOK, Put, rows, store,
           command, counts
  <1>17. ASSUME NEW n \in Scopes, AnswerAppend(n) PROVE ManifestInv'
    BY <1>17
       DEF AnswerAppend, ManifestInv, TypeOK, Put, rows, store, command, counts
  <1>18. ASSUME FoldBegin PROVE ManifestInv'
    BY <1>18
       DEF FoldBegin, Open, ManifestInv, TypeOK, Put, rows, store, command,
           counts
  <1>19. ASSUME FoldAndWrite PROVE ManifestInv'
    <2>1. PICK c \in Commits : c = snap
      BY <1>19 DEF FoldAndWrite, RefreshSteps
    <2>2. /\ view'[c].tree # None
          /\ \A d \in Commits \ {c} : view'[d] = view[d]
      BY <1>19, <2>1, WriteStateFolds DEF FoldAndWrite, WriteState
    <2>3. QED
      BY <1>19, <2>1, <2>2 DEF ManifestInv, FoldAndWrite, Idle
  <1>20. ASSUME RefreshBegin PROVE ManifestInv'
    BY <1>20
       DEF RefreshBegin, BeginSnapshot, ManifestInv, TypeOK, Put, rows, store,
           command, counts
  <1>21. ASSUME RefreshCopy PROVE ManifestInv'
    BY <1>21
       DEF RefreshCopy, ManifestInv, TypeOK, Put, rows, store, command, counts
  <1>22. ASSUME RefreshStructure PROVE ManifestInv'
    BY <1>22
       DEF RefreshStructure, WriteArtifact, ManifestInv, TypeOK, Put, rows,
           store, command, counts
  <1>23. ASSUME RefreshFold PROVE ManifestInv'
    <2>1. PICK c \in Commits : c = snap
      BY <1>23 DEF RefreshFold, RefreshSteps
    <2>2. /\ view'[c].tree # None
          /\ \A d \in Commits \ {c} : view'[d] = view[d]
      BY <1>23, <2>1, WriteStateFolds DEF RefreshFold, WriteState
    <2>3. QED
      BY <1>23, <2>1, <2>2 DEF ManifestInv, RefreshFold, Idle
  <1>24. ASSUME RefreshManifest PROVE ManifestInv'
    BY <1>24
       DEF RefreshManifest, Idle, ManifestInv, TypeOK, Put, rows, store,
           command, counts
  <1>25. ASSUME NEW excluded, RollbackState(excluded) PROVE ManifestInv'
    <2>1. PICK c \in Commits : c = latest
      BY <1>25 DEF RollbackState, Readable, TypeOK
    <2>2. /\ view'[c].tree # None
          /\ \A d \in Commits \ {c} : view'[d] = view[d]
      BY <1>25, <2>1, WriteStateFolds DEF RollbackState
    <2>3. QED
      BY <1>25, <2>1, <2>2 DEF ManifestInv, RollbackState
  <1>26. ASSUME RollbackLedger PROVE ManifestInv'
    BY <1>26
       DEF RollbackLedger, Idle, ManifestInv, TypeOK, Put, rows, store,
           command, counts
  <1>27. ASSUME Compact PROVE ManifestInv'
    BY <1>27
       DEF Compact, ManifestInv, TypeOK, Put, rows, store, command, counts
  <1>28. ASSUME GcBegin PROVE ManifestInv'
    BY <1>28
       DEF GcBegin, BeginSnapshot, ManifestInv, TypeOK, Put, rows, store,
           command, counts
  <1>29. ASSUME NEW c \in Commits, GcDrop(c) PROVE ManifestInv'
    BY <1>29 DEF GcDrop, ManifestInv, TypeOK, Put, rows, store, command, counts
  <1>30. ASSUME NEW c \in Commits, GcRefused(c) PROVE ManifestInv'
    BY <1>30
       DEF GcRefused, Idle, ManifestInv, TypeOK, Put, rows, store, command,
           counts
  <1>31. ASSUME GcEnd PROVE ManifestInv'
    BY <1>31
       DEF GcEnd, Idle, ManifestInv, TypeOK, Put, rows, store, command, counts
  <1>32. ASSUME NEW c \in Commits, Checkout(c) PROVE ManifestInv'
    BY <1>32
       DEF Checkout, ManifestInv, TypeOK, Put, rows, store, command, counts
  <1>33. ASSUME Crash PROVE ManifestInv'
    BY <1>33
       DEF Crash, Idle, ManifestInv, TypeOK, Put, rows, store, command, counts
  <1>34. ASSUME UNCHANGED vars PROVE ManifestInv'
    BY <1>34 DEF vars, ManifestInv, TypeOK, Put, rows, store, command, counts
  <1>35. QED
    BY <1>1, <1>2, <1>3, <1>4, <1>5, <1>6, <1>7, <1>8, <1>9, <1>10,
       <1>11, <1>12, <1>13, <1>14, <1>15, <1>16, <1>17, <1>18, <1>19, <1>20,
       <1>21, <1>22, <1>23, <1>24, <1>25, <1>26, <1>27, <1>28, <1>29, <1>30,
       <1>31, <1>32, <1>33, <1>34
       DEF Next, Scan, Collect, Run, AnswerOne, Refresh, Rollback, Gc

\* A snapshot that has a manifest has what a lock-free reader of the store
\* loads next, whichever command died over it.
THEOREM ManifestIsACommitMarker == Spec => []ManifestMarksComplete
<1>1. Init => TypeInv /\ ManifestInv
  BY TypeInit DEF Init, ManifestInv
<1>2. TypeInv /\ ManifestInv /\ [Next]_vars => (TypeInv /\ ManifestInv)'
  BY TypeStep, ManifestStep
<1>3. TypeInv /\ ManifestInv => ManifestMarksComplete
  BY DEF TypeInv, TypeOK, ManifestInv, ManifestMarksComplete
<1>4. QED
  BY <1>1, <1>2, <1>3, PTL DEF Spec

(***************************************************************************)
(* The log is append-only.                                                 *)
(***************************************************************************)

\* What a step does to a log: nothing, or it keeps every row that is not
\* derived, in the log or in the archive, unless the snapshot goes.
KeepsRows ==
    /\ archive \subseteq archive'
    /\ \A c \in Commits : c \in snapshots' =>
         \A p \in log[c] : p.seq # 0 => p \in log'[c] \cup archive'

LEMMA RowsStep == TypeInv /\ [Next]_vars => KeepsRows
  <1> SUFFICES ASSUME TypeInv, [Next]_vars PROVE KeepsRows
    OBVIOUS
  <1> USE DEF TypeInv, Selected
  <1>1. ASSUME ScanBegin PROVE KeepsRows
    BY <1>1
       DEF ScanBegin, BeginSnapshot, KeepsRows, TypeOK, rows, store, command,
           counts
  <1>2. ASSUME ScanSchedule PROVE KeepsRows
    BY <1>2
       DEF ScanSchedule, WriteArtifact, KeepsRows, TypeOK, rows, store,
           command, counts
  <1>3. ASSUME ScanStructure PROVE KeepsRows
    BY <1>3
       DEF ScanStructure, WriteArtifact, KeepsRows, TypeOK, rows, store,
           command, counts
  <1>4. ASSUME Derive PROVE KeepsRows
    BY <1>4 DEF Derive, KeepsRows, TypeOK, rows, store, command, counts
  <1>5. ASSUME ScanFold PROVE KeepsRows
    BY <1>5 DEF ScanFold, KeepsRows, TypeOK, rows, store, command, counts
  <1>6. ASSUME ScanManifest PROVE KeepsRows
    BY <1>6
       DEF ScanManifest, Idle, KeepsRows, TypeOK, rows, store, command, counts
  <1>7. ASSUME CollectBegin PROVE KeepsRows
    BY <1>7
       DEF CollectBegin, Open, KeepsRows, TypeOK, rows, store, command, counts
  <1>8. ASSUME NEW n \in Scopes, NEW r \in PromptedRuns, CollectReject(n, r)
        PROVE  KeepsRows
    <2>1. \A c \in Commits : log[c] \subseteq log'[c]
      BY <1>8 DEF CollectReject, AppendComplete, Append, TypeOK
    <2>2. QED
      BY <1>8, <2>1 DEF CollectReject, KeepsRows
  <1>9. ASSUME NEW n \in Scopes, NEW r \in PromptedRuns, CollectAccept(n, r)
        PROVE  KeepsRows
    <2>1. \A c \in Commits : log[c] \subseteq log'[c]
      BY <1>9 DEF CollectAccept, AppendComplete, Append, TypeOK
    <2>2. QED
      BY <1>9, <2>1 DEF CollectAccept, KeepsRows
  <1>10. ASSUME CollectEnd PROVE KeepsRows
    BY <1>10 DEF CollectEnd, KeepsRows, TypeOK, rows, store, command, counts
  <1>11. ASSUME RunBegin PROVE KeepsRows
    BY <1>11 DEF RunBegin, KeepsRows, TypeOK, rows, store, command, counts
  <1>12. ASSUME NEW n \in Scopes, RunValidated(n) PROVE KeepsRows
    <2>1. \A c \in Commits : log[c] \subseteq log'[c]
      BY <1>12 DEF RunValidated, AppendComplete, Append, TypeOK
    <2>2. QED
      BY <1>12, <2>1 DEF RunValidated, KeepsRows
  <1>13. ASSUME NEW n \in Scopes, RunAbandoned(n) PROVE KeepsRows
    <2>1. \A c \in Commits : log[c] \subseteq log'[c]
      BY <1>13 DEF RunAbandoned, AppendComplete, Append, TypeOK
    <2>2. QED
      BY <1>13, <2>1 DEF RunAbandoned, KeepsRows
  <1>14. ASSUME RunEndWave PROVE KeepsRows
    BY <1>14 DEF RunEndWave, KeepsRows, TypeOK, rows, store, command, counts
  <1>15. ASSUME AnswerBegin PROVE KeepsRows
    BY <1>15
       DEF AnswerBegin, Open, KeepsRows, TypeOK, rows, store, command, counts
  <1>16. ASSUME AnswerRefused PROVE KeepsRows
    BY <1>16
       DEF AnswerRefused, Idle, KeepsRows, TypeOK, rows, store, command, counts
  <1>17. ASSUME NEW n \in Scopes, AnswerAppend(n) PROVE KeepsRows
    <2>1. \A c \in Commits : log[c] \subseteq log'[c]
      BY <1>17 DEF AnswerAppend, AppendComplete, Append, TypeOK
    <2>2. QED
      BY <1>17, <2>1 DEF AnswerAppend, KeepsRows
  <1>18. ASSUME FoldBegin PROVE KeepsRows
    BY <1>18
       DEF FoldBegin, Open, KeepsRows, TypeOK, rows, store, command, counts
  <1>19. ASSUME FoldAndWrite PROVE KeepsRows
    BY <1>19
       DEF FoldAndWrite, Idle, KeepsRows, TypeOK, rows, store, command, counts
  <1>20. ASSUME RefreshBegin PROVE KeepsRows
    BY <1>20
       DEF RefreshBegin, BeginSnapshot, KeepsRows, TypeOK, rows, store,
           command, counts
  <1>21. ASSUME RefreshCopy PROVE KeepsRows
    BY <1>21 DEF RefreshCopy, KeepsRows, TypeOK, rows, store, command, counts
  <1>22. ASSUME RefreshStructure PROVE KeepsRows
    BY <1>22
       DEF RefreshStructure, WriteArtifact, KeepsRows, TypeOK, rows, store,
           command, counts
  <1>23. ASSUME RefreshFold PROVE KeepsRows
    BY <1>23 DEF RefreshFold, KeepsRows, TypeOK, rows, store, command, counts
  <1>24. ASSUME RefreshManifest PROVE KeepsRows
    BY <1>24
       DEF RefreshManifest, Idle, KeepsRows, TypeOK, rows, store, command,
           counts
  <1>25. ASSUME NEW excluded, RollbackState(excluded) PROVE KeepsRows
    BY <1>25 DEF RollbackState, KeepsRows, TypeOK, rows, store, command, counts
  <1>26. ASSUME RollbackLedger PROVE KeepsRows
    BY <1>26
       DEF RollbackLedger, Idle, KeepsRows, TypeOK, rows, store, command,
           counts
  <1>27. ASSUME Compact PROVE KeepsRows
    BY <1>27 DEF Compact, KeepsRows, TypeOK, rows, store, command, counts
  <1>28. ASSUME GcBegin PROVE KeepsRows
    BY <1>28
       DEF GcBegin, BeginSnapshot, KeepsRows, TypeOK, rows, store, command,
           counts
  <1>29. ASSUME NEW c \in Commits, GcDrop(c) PROVE KeepsRows
    BY <1>29 DEF GcDrop, KeepsRows, TypeOK, rows, store, command, counts
  <1>30. ASSUME NEW c \in Commits, GcRefused(c) PROVE KeepsRows
    BY <1>30
       DEF GcRefused, Idle, KeepsRows, TypeOK, rows, store, command, counts
  <1>31. ASSUME GcEnd PROVE KeepsRows
    BY <1>31 DEF GcEnd, Idle, KeepsRows, TypeOK, rows, store, command, counts
  <1>32. ASSUME NEW c \in Commits, Checkout(c) PROVE KeepsRows
    BY <1>32 DEF Checkout, KeepsRows, TypeOK, rows, store, command, counts
  <1>33. ASSUME Crash PROVE KeepsRows
    BY <1>33 DEF Crash, Idle, KeepsRows, TypeOK, rows, store, command, counts
  <1>34. ASSUME UNCHANGED vars PROVE KeepsRows
    BY <1>34 DEF vars, KeepsRows, TypeOK, rows, store, command, counts
  <1>35. QED
    BY <1>1, <1>2, <1>3, <1>4, <1>5, <1>6, <1>7, <1>8, <1>9, <1>10,
       <1>11, <1>12, <1>13, <1>14, <1>15, <1>16, <1>17, <1>18, <1>19, <1>20,
       <1>21, <1>22, <1>23, <1>24, <1>25, <1>26, <1>27, <1>28, <1>29, <1>30,
       <1>31, <1>32, <1>33, <1>34
       DEF Next, Scan, Collect, Run, AnswerOne, Refresh, Rollback, Gc

\* R5: a patch that was appended is in the log of its snapshot or in the
\* archive for as long as the snapshot exists.
THEOREM LogIsAppendOnly == Spec => AppendOnly
<1>1. TypeInv /\ [Next]_vars =>
        [/\ archive \subseteq archive'
         /\ \A c \in Commits : c \in snapshots \cap snapshots' =>
              \A p \in log[c] : p.seq # 0 => p \in log'[c] \cup archive']_vars
  BY RowsStep DEF KeepsRows
<1>2. QED
  BY <1>1, TypeInit, TypeStep, PTL DEF Spec, AppendOnly

(***************************************************************************)
(* Questions are sticky.                                                   *)
(***************************************************************************)

\* A question that a state asks and that was not derived is in its log.
QuestionInv ==
    \A c \in Commits : \A p \in view[c].asked :
        p.seq # 0 => p \in Asked(log[c])

\* The questions of a fold, of the log and of the fold of the same log.
LEMMA AskedInLog ==
  ASSUME NEW all, NEW excluded, NEW tree, NEW from
  PROVE  /\ FoldOf(all, excluded, tree, from).asked \subseteq Asked(all)
         /\ \A p \in Asked(all) : p.run \notin excluded =>
              p \in FoldOf(all, excluded, tree, from).asked
BY DEF FoldOf, Asked, Complete, Counted

\* Questions are appended with their patches.
LEMMA AskedGrows ==
  ASSUME NEW fewer, NEW more, \A p \in fewer : p.seq # 0 => p \in more
  PROVE  \A p \in Asked(fewer) : p.seq # 0 => p \in Asked(more)
BY DEF Asked, Complete

\* What a step does to the questions of the states.
Sticks ==
    \A c \in Commits : c \in snapshots' =>
        \A p \in view[c].asked :
            p \in view'[c].asked \/ p.run \in ledger[c] \cup pending' \/ p.seq = 0

\* A compaction archives something, and what is archived stays in the archive.
LEMMA ArchiveGrows ==
  /\ Compact => ~NothingCompacted'
  /\ TypeInv /\ [Next]_vars /\ NothingCompacted' => NothingCompacted
<1>1. ASSUME Compact PROVE archive' # {}
  <2>1. PICK row \in GenerationRows : row[2] \in Superseded(row[1])
    BY <1>1 DEF Compact, WorthCompacting
  <2>2. PICK c \in snapshots : row \in {<<c, p>> : p \in Generations(c)}
    BY <2>1 DEF GenerationRows
  <2>3. row[1] = c
    BY <2>2
  <2>4. row[2] \in Superseded(c)
    BY <2>1, <2>3
  <2> QED
    BY <1>1, <2>4 DEF Compact
<1> QED
  BY <1>1, RowsStep DEF NothingCompacted, KeepsRows

\* Without compaction no row leaves a log, but with its snapshot.
LEMMA LogGrows ==
  ASSUME NothingCompacted', TypeInv, [Next]_vars
  PROVE  \A c \in Commits : view'[c] = Unfolded
           \/ \A p \in log[c] : p.seq # 0 => p \in log'[c]
  <1> DEFINE Grows == \A c \in Commits : view'[c] = Unfolded
                \/ \A p \in log[c] : p.seq # 0 => p \in log'[c]
  <1> SUFFICES Grows
    OBVIOUS
  <1> USE DEF TypeInv, Selected
  <1>1. ASSUME ScanBegin PROVE Grows
    BY <1>1 DEF ScanBegin, BeginSnapshot, TypeOK, rows, store, command, counts
  <1>2. ASSUME ScanSchedule PROVE Grows
    BY <1>2
       DEF ScanSchedule, WriteArtifact, TypeOK, rows, store, command, counts
  <1>3. ASSUME ScanStructure PROVE Grows
    BY <1>3
       DEF ScanStructure, WriteArtifact, TypeOK, rows, store, command, counts
  <1>4. ASSUME Derive PROVE Grows
    BY <1>4 DEF Derive, TypeOK, rows, store, command, counts
  <1>5. ASSUME ScanFold PROVE Grows
    BY <1>5 DEF ScanFold, TypeOK, rows, store, command, counts
  <1>6. ASSUME ScanManifest PROVE Grows
    BY <1>6 DEF ScanManifest, Idle, TypeOK, rows, store, command, counts
  <1>7. ASSUME CollectBegin PROVE Grows
    BY <1>7 DEF CollectBegin, Open, TypeOK, rows, store, command, counts
  <1>8. ASSUME NEW n \in Scopes, NEW r \in PromptedRuns, CollectReject(n, r)
        PROVE  Grows
    <2>1. \A c \in Commits : log[c] \subseteq log'[c]
      BY <1>8 DEF CollectReject, AppendComplete, Append, TypeOK
    <2>2. QED
      BY <2>1
  <1>9. ASSUME NEW n \in Scopes, NEW r \in PromptedRuns, CollectAccept(n, r)
        PROVE  Grows
    <2>1. \A c \in Commits : log[c] \subseteq log'[c]
      BY <1>9 DEF CollectAccept, AppendComplete, Append, TypeOK
    <2>2. QED
      BY <2>1
  <1>10. ASSUME CollectEnd PROVE Grows
    BY <1>10 DEF CollectEnd, TypeOK, rows, store, command, counts
  <1>11. ASSUME RunBegin PROVE Grows
    BY <1>11 DEF RunBegin, TypeOK, rows, store, command, counts
  <1>12. ASSUME NEW n \in Scopes, RunValidated(n) PROVE Grows
    <2>1. \A c \in Commits : log[c] \subseteq log'[c]
      BY <1>12 DEF RunValidated, AppendComplete, Append, TypeOK
    <2>2. QED
      BY <2>1
  <1>13. ASSUME NEW n \in Scopes, RunAbandoned(n) PROVE Grows
    <2>1. \A c \in Commits : log[c] \subseteq log'[c]
      BY <1>13 DEF RunAbandoned, AppendComplete, Append, TypeOK
    <2>2. QED
      BY <2>1
  <1>14. ASSUME RunEndWave PROVE Grows
    BY <1>14 DEF RunEndWave, TypeOK, rows, store, command, counts
  <1>15. ASSUME AnswerBegin PROVE Grows
    BY <1>15 DEF AnswerBegin, Open, TypeOK, rows, store, command, counts
  <1>16. ASSUME AnswerRefused PROVE Grows
    BY <1>16 DEF AnswerRefused, Idle, TypeOK, rows, store, command, counts
  <1>17. ASSUME NEW n \in Scopes, AnswerAppend(n) PROVE Grows
    <2>1. \A c \in Commits : log[c] \subseteq log'[c]
      BY <1>17 DEF AnswerAppend, AppendComplete, Append, TypeOK
    <2>2. QED
      BY <2>1
  <1>18. ASSUME FoldBegin PROVE Grows
    BY <1>18 DEF FoldBegin, Open, TypeOK, rows, store, command, counts
  <1>19. ASSUME FoldAndWrite PROVE Grows
    BY <1>19 DEF FoldAndWrite, Idle, TypeOK, rows, store, command, counts
  <1>20. ASSUME RefreshBegin PROVE Grows
    BY <1>20
       DEF RefreshBegin, BeginSnapshot, TypeOK, rows, store, command, counts
  <1>21. ASSUME RefreshCopy PROVE Grows
    BY <1>21 DEF RefreshCopy, TypeOK, rows, store, command, counts
  <1>22. ASSUME RefreshStructure PROVE Grows
    BY <1>22
       DEF RefreshStructure, WriteArtifact, TypeOK, rows, store, command,
           counts
  <1>23. ASSUME RefreshFold PROVE Grows
    BY <1>23 DEF RefreshFold, TypeOK, rows, store, command, counts
  <1>24. ASSUME RefreshManifest PROVE Grows
    BY <1>24 DEF RefreshManifest, Idle, TypeOK, rows, store, command, counts
  <1>25. ASSUME NEW excluded, RollbackState(excluded) PROVE Grows
    BY <1>25 DEF RollbackState, TypeOK, rows, store, command, counts
  <1>26. ASSUME RollbackLedger PROVE Grows
    BY <1>26 DEF RollbackLedger, Idle, TypeOK, rows, store, command, counts
  <1>27. ASSUME Compact PROVE Grows
    BY <1>27, ArchiveGrows
  <1>28. ASSUME GcBegin PROVE Grows
    BY <1>28 DEF GcBegin, BeginSnapshot, TypeOK, rows, store, command, counts
  <1>29. ASSUME NEW c \in Commits, GcDrop(c) PROVE Grows
    BY <1>29 DEF GcDrop, TypeOK, rows, store, command, counts
  <1>30. ASSUME NEW c \in Commits, GcRefused(c) PROVE Grows
    BY <1>30 DEF GcRefused, Idle, TypeOK, rows, store, command, counts
  <1>31. ASSUME GcEnd PROVE Grows
    BY <1>31 DEF GcEnd, Idle, TypeOK, rows, store, command, counts
  <1>32. ASSUME NEW c \in Commits, Checkout(c) PROVE Grows
    BY <1>32 DEF Checkout, TypeOK, rows, store, command, counts
  <1>33. ASSUME Crash PROVE Grows
    BY <1>33 DEF Crash, Idle, TypeOK, rows, store, command, counts
  <1>34. ASSUME UNCHANGED vars PROVE Grows
    BY <1>34 DEF vars, TypeOK, rows, store, command, counts
  <1>35. QED
    BY <1>1, <1>2, <1>3, <1>4, <1>5, <1>6, <1>7, <1>8, <1>9, <1>10,
       <1>11, <1>12, <1>13, <1>14, <1>15, <1>16, <1>17, <1>18, <1>19, <1>20,
       <1>21, <1>22, <1>23, <1>24, <1>25, <1>26, <1>27, <1>28, <1>29, <1>30,
       <1>31, <1>32, <1>33, <1>34
       DEF Next, Scan, Collect, Run, AnswerOne, Refresh, Rollback, Gc

\* A step that writes no state keeps every question.
LEMMA QuestionsKept ==
  ASSUME TypeOK, QuestionInv, view' = view,
         \A c \in Commits : view'[c] = Unfolded
           \/ \A p \in log[c] : p.seq # 0 => p \in log'[c]
  PROVE  Sticks /\ QuestionInv'
<1>1. \A c \in Commits : \A p \in view[c].asked : p.seq # 0 => p \in Asked(log'[c])
  BY AskedGrows DEF QuestionInv, Unfolded
<1>2. QED
  BY <1>1 DEF QuestionInv, Sticks

\* A step that folds one snapshot drops the questions of excluded runs only.
LEMMA QuestionsFolded ==
  ASSUME TypeOK, QuestionInv, log' = log, NEW c \in Commits, NEW excluded,
         NEW from, excluded \subseteq ledger[c] \cup pending',
         view' = [view EXCEPT ![c] = FoldOf(log[c], excluded, head, from)]
  PROVE  Sticks /\ QuestionInv'
<1>1. view'[c] = FoldOf(log[c], excluded, head, from)
  BY DEF TypeOK
<1>2. \A d \in Commits \ {c} : view'[d] = view[d]
  BY DEF TypeOK
<1>3. \A p \in view'[c].asked : p \in Asked(log[c])
  BY <1>1, AskedInLog
<1>4. \A p \in Asked(log[c]) : p.run \notin excluded => p \in view'[c].asked
  BY <1>1, AskedInLog
<1>5. \A p \in view[c].asked : p.seq # 0 => p \in Asked(log[c])
  BY DEF QuestionInv
<1>6. Sticks
  BY <1>2, <1>4, <1>5 DEF Sticks
<1>7. QuestionInv'
  BY <1>2, <1>3 DEF QuestionInv
<1>8. QED
  BY <1>6, <1>7

LEMMA QuestionStep ==
  ASSUME NothingCompacted'
  PROVE  TypeInv /\ QuestionInv /\ [Next]_vars => Sticks /\ QuestionInv'
  <1> SUFFICES ASSUME TypeInv, QuestionInv, [Next]_vars
               PROVE  Sticks /\ QuestionInv'
    OBVIOUS
  <1> USE DEF TypeInv, Selected
  <1>a. \A c \in Commits : view'[c] = Unfolded
          \/ \A p \in log[c] : p.seq # 0 => p \in log'[c]
    BY LogGrows
  <1>1. ASSUME ScanBegin PROVE Sticks /\ QuestionInv'
    BY <1>1, <1>a, QuestionsKept
       DEF ScanBegin, BeginSnapshot, rows, store, command, counts
  <1>2. ASSUME ScanSchedule PROVE Sticks /\ QuestionInv'
    BY <1>2, <1>a, QuestionsKept
       DEF ScanSchedule, WriteArtifact, rows, store, command, counts
  <1>3. ASSUME ScanStructure PROVE Sticks /\ QuestionInv'
    BY <1>3, <1>a, QuestionsKept
       DEF ScanStructure, WriteArtifact, rows, store, command, counts
  <1>4. ASSUME Derive PROVE Sticks /\ QuestionInv'
    BY <1>4, <1>a, QuestionsKept DEF Derive, rows, store, command, counts
  <1>5. ASSUME ScanFold PROVE Sticks /\ QuestionInv'
    <2>1. PICK c \in Commits : c = snap
      BY <1>5 DEF ScanFold, RefreshSteps
    <2>2. QED
      BY <1>5, <2>1, QuestionsFolded DEF ScanFold, WriteState
  <1>6. ASSUME ScanManifest PROVE Sticks /\ QuestionInv'
    BY <1>6, <1>a, QuestionsKept
       DEF ScanManifest, Idle, rows, store, command, counts
  <1>7. ASSUME CollectBegin PROVE Sticks /\ QuestionInv'
    BY <1>7, <1>a, QuestionsKept
       DEF CollectBegin, Open, rows, store, command, counts
  <1>8. ASSUME NEW n \in Scopes, NEW r \in PromptedRuns, CollectReject(n, r)
        PROVE  Sticks /\ QuestionInv'
    BY <1>8, <1>a, QuestionsKept
       DEF CollectReject, rows, store, command, counts
  <1>9. ASSUME NEW n \in Scopes, NEW r \in PromptedRuns, CollectAccept(n, r)
        PROVE  Sticks /\ QuestionInv'
    BY <1>9, <1>a, QuestionsKept
       DEF CollectAccept, rows, store, command, counts
  <1>10. ASSUME CollectEnd PROVE Sticks /\ QuestionInv'
    BY <1>10, <1>a, QuestionsKept DEF CollectEnd, rows, store, command, counts
  <1>11. ASSUME RunBegin PROVE Sticks /\ QuestionInv'
    BY <1>11, <1>a, QuestionsKept DEF RunBegin, rows, store, command, counts
  <1>12. ASSUME NEW n \in Scopes, RunValidated(n) PROVE Sticks /\ QuestionInv'
    BY <1>12, <1>a, QuestionsKept
       DEF RunValidated, rows, store, command, counts
  <1>13. ASSUME NEW n \in Scopes, RunAbandoned(n) PROVE Sticks /\ QuestionInv'
    BY <1>13, <1>a, QuestionsKept
       DEF RunAbandoned, rows, store, command, counts
  <1>14. ASSUME RunEndWave PROVE Sticks /\ QuestionInv'
    BY <1>14, <1>a, QuestionsKept DEF RunEndWave, rows, store, command, counts
  <1>15. ASSUME AnswerBegin PROVE Sticks /\ QuestionInv'
    BY <1>15, <1>a, QuestionsKept
       DEF AnswerBegin, Open, rows, store, command, counts
  <1>16. ASSUME AnswerRefused PROVE Sticks /\ QuestionInv'
    BY <1>16, <1>a, QuestionsKept
       DEF AnswerRefused, Idle, rows, store, command, counts
  <1>17. ASSUME NEW n \in Scopes, AnswerAppend(n) PROVE Sticks /\ QuestionInv'
    BY <1>17, <1>a, QuestionsKept
       DEF AnswerAppend, rows, store, command, counts
  <1>18. ASSUME FoldBegin PROVE Sticks /\ QuestionInv'
    BY <1>18, <1>a, QuestionsKept
       DEF FoldBegin, Open, rows, store, command, counts
  <1>19. ASSUME FoldAndWrite PROVE Sticks /\ QuestionInv'
    <2>1. PICK c \in Commits : c = snap
      BY <1>19 DEF FoldAndWrite, RefreshSteps
    <2>2. QED
      BY <1>19, <2>1, QuestionsFolded DEF FoldAndWrite, WriteState
  <1>20. ASSUME RefreshBegin PROVE Sticks /\ QuestionInv'
    BY <1>20, <1>a, QuestionsKept
       DEF RefreshBegin, BeginSnapshot, rows, store, command, counts
  <1>21. ASSUME RefreshCopy PROVE Sticks /\ QuestionInv'
    BY <1>21, <1>a, QuestionsKept DEF RefreshCopy, rows, store, command, counts
  <1>22. ASSUME RefreshStructure PROVE Sticks /\ QuestionInv'
    BY <1>22, <1>a, QuestionsKept
       DEF RefreshStructure, WriteArtifact, rows, store, command, counts
  <1>23. ASSUME RefreshFold PROVE Sticks /\ QuestionInv'
    <2>1. PICK c \in Commits : c = snap
      BY <1>23 DEF RefreshFold, RefreshSteps
    <2>2. QED
      BY <1>23, <2>1, QuestionsFolded DEF RefreshFold, WriteState
  <1>24. ASSUME RefreshManifest PROVE Sticks /\ QuestionInv'
    BY <1>24, <1>a, QuestionsKept
       DEF RefreshManifest, Idle, rows, store, command, counts
  <1>25. ASSUME NEW excluded, RollbackState(excluded)
        PROVE  Sticks /\ QuestionInv'
    <2>1. PICK c \in Commits : c = latest
      BY <1>25 DEF RollbackState, Readable, TypeOK
    <2>2. ledger[c] \cup excluded \subseteq ledger[c] \cup pending'
      BY <1>25 DEF RollbackState
    <2>3. view' = [view EXCEPT ![c] =
                     FoldOf(log[c], ledger[c] \cup excluded, head, None)]
      BY <1>25, <2>1 DEF RollbackState
    <2>4. QED
      BY <1>25, <2>2, <2>3, QuestionsFolded DEF RollbackState
  <1>26. ASSUME RollbackLedger PROVE Sticks /\ QuestionInv'
    BY <1>26, <1>a, QuestionsKept
       DEF RollbackLedger, Idle, rows, store, command, counts
  <1>27. ASSUME Compact PROVE Sticks /\ QuestionInv'
    BY <1>27, ArchiveGrows
  <1>28. ASSUME GcBegin PROVE Sticks /\ QuestionInv'
    BY <1>28, <1>a, QuestionsKept
       DEF GcBegin, BeginSnapshot, rows, store, command, counts
  <1>29. ASSUME NEW c \in Commits, GcDrop(c) PROVE Sticks /\ QuestionInv'
    <2>1. /\ view' = [view EXCEPT ![c] = Unfolded]
          /\ snapshots' = snapshots \ {c}
      BY <1>29 DEF GcDrop
    <2>2. \A d \in Commits \ {c} : view'[d] = view[d]
      BY <2>1 DEF TypeOK
    <2>3. \A d \in Commits \ {c} : log'[d] = log[d]
      BY <1>29 DEF GcDrop, TypeOK
    <2>4. view'[c].asked = {}
      BY <2>1 DEF TypeOK, Unfolded
    <2>5. QED
      BY <2>1, <2>2, <2>3, <2>4 DEF Sticks, QuestionInv
  <1>30. ASSUME NEW c \in Commits, GcRefused(c) PROVE Sticks /\ QuestionInv'
    BY <1>30, <1>a, QuestionsKept
       DEF GcRefused, Idle, rows, store, command, counts
  <1>31. ASSUME GcEnd PROVE Sticks /\ QuestionInv'
    BY <1>31, <1>a, QuestionsKept DEF GcEnd, Idle, rows, store, command, counts
  <1>32. ASSUME NEW c \in Commits, Checkout(c) PROVE Sticks /\ QuestionInv'
    BY <1>32, <1>a, QuestionsKept DEF Checkout, rows, store, command, counts
  <1>33. ASSUME Crash PROVE Sticks /\ QuestionInv'
    BY <1>33, <1>a, QuestionsKept DEF Crash, Idle, rows, store, command, counts
  <1>34. ASSUME UNCHANGED vars PROVE Sticks /\ QuestionInv'
    BY <1>34, <1>a, QuestionsKept DEF vars, rows, store, command, counts
  <1>35. QED
    BY <1>1, <1>2, <1>3, <1>4, <1>5, <1>6, <1>7, <1>8, <1>9, <1>10,
       <1>11, <1>12, <1>13, <1>14, <1>15, <1>16, <1>17, <1>18, <1>19, <1>20,
       <1>21, <1>22, <1>23, <1>24, <1>25, <1>26, <1>27, <1>28, <1>29, <1>30,
       <1>31, <1>32, <1>33, <1>34
       DEF Next, Scan, Collect, Run, AnswerOne, Refresh, Rollback, Gc

\* R12: as long as nothing has been compacted, a state drops a question only when
\* its run is rolled back; compaction loses the questions of superseded generations.
THEOREM QuestionsAreSticky == Spec => QuestionsStick
<1> DEFINE Kept == NothingCompacted => QuestionInv
<1>1. Init => TypeInv /\ Kept
  BY TypeInit DEF Init, QuestionInv, Unfolded
<1>2. TypeInv /\ Kept /\ [Next]_vars => (TypeInv /\ Kept)'
  BY TypeStep, QuestionStep, ArchiveGrows
<1>3. TypeInv /\ Kept /\ [Next]_vars =>
        [\A c \in Commits :
           NothingCompacted' /\ c \in snapshots \cap snapshots' =>
             \A p \in view[c].asked :
               \/ p \in view'[c].asked
               \/ p.run \in ledger[c] \cup pending'
               \/ p.seq = 0]_vars
  BY QuestionStep, ArchiveGrows DEF Sticks
<1>4. QED
  BY <1>1, <1>2, <1>3, PTL DEF Spec, QuestionsStick

(***************************************************************************)
(* Compaction keeps what is claimed.                                       *)
(***************************************************************************)

\* The greatest generation of a node stays the greatest without superseded ones.
LEMMA LiveSurvives ==
  ASSUME TypeInv, GenerationInv, NEW c \in Commits
  PROVE  Live(log[c] \ Superseded(c)) = Live(log[c])
<1> DEFINE all == log[c]
           kept == log[c] \ Superseded(c)
<1>1. /\ Bounded(all, MaxGeneration) /\ Bounded(kept, MaxGeneration)
      /\ MaxGeneration \in Nat /\ all \in SUBSET Patches
  BY LogBounded, WorkspaceAssumption DEF TypeInv, TypeOK, WorkspaceAssumption
<1>2. ASSUME NEW n, Of(Complete(all), n) # {}
      PROVE  Of(Complete(kept), n) # {} /\ Best(kept, n) = Best(all, n)
  <2>1. PICK b : b = Best(all, n)
    OBVIOUS
  <2>2. /\ b \in Of(Complete(all), n)
        /\ \A q \in Of(Complete(all), n) : q.generation <= b.generation
    BY <1>1, <1>2, <2>1, BestIsLatest
  <2>3. b \notin Superseded(c)
    <3> SUFFICES ASSUME b \in Superseded(c) PROVE FALSE
      OBVIOUS
    <3>1. Newer(c, b) = {}
      <4> SUFFICES ASSUME NEW q \in Newer(c, b) PROVE FALSE
        OBVIOUS
      <4>1. q \in Of(Complete(all), n) /\ q.generation > b.generation /\ q \in all /\ b \in all
        BY <2>2 DEF Newer, Generations, Of, Complete
      <4>2. q.generation \in Nat /\ b.generation \in Nat
        BY <4>1, <1>1, GenerationsAreNat
      <4> QED
        BY <4>1, <4>2, <2>2
    <3>2. Cardinality(Newer(c, b)) = 0
      BY <3>1, FS_EmptySet
    <3> QED
      BY <3>2, WorkspaceAssumption DEF Superseded, WorkspaceAssumption
  <2>4. b \in Of(Complete(kept), n)
    BY <2>2, <2>3 DEF Of, Complete
  <2>5. PICK d : d = Best(kept, n)
    OBVIOUS
  <2>6. /\ d \in Of(Complete(kept), n)
        /\ \A q \in Of(Complete(kept), n) : q.generation <= d.generation
    BY <1>1, <2>4, <2>5, BestIsLatest
  <2>7. d \in Of(Complete(all), n) /\ d \in all /\ b \in all
    BY <2>2, <2>6 DEF Of, Complete
  <2>8. d.generation = b.generation
    <3>1. d.generation \in Nat /\ b.generation \in Nat
      BY <2>7, <1>1, GenerationsAreNat
    <3> QED
      BY <3>1, <2>2, <2>4, <2>6, <2>7
  <2>9. d = b
    <3>1. Distinct(all) /\ d \in Complete(all) /\ b \in Complete(all) /\ d.node = b.node
      BY <2>2, <2>7 DEF GenerationInv, Of
    <3> QED
      BY <3>1, <2>8 DEF Distinct
  <2> QED
    BY <2>1, <2>4, <2>5, <2>9
<1>3. ASSUME NEW n, Of(Complete(kept), n) # {} PROVE Of(Complete(all), n) # {}
  BY <1>3 DEF Of, Complete
<1> HIDE DEF all, kept
<1>4. Live(kept) = Live(all)
  BY <1>2, <1>3 DEF Live
<1> QED
  BY <1>4 DEF all, kept

\* Compaction moves no live generation of a snapshot with an empty ledger; where a run
\* was rolled back it may (the run workspace_compact_live).
THEOREM CompactionIsHarmless == Spec => CompactionKeepsClaims
<1>1. Init => TypeInv /\ GenerationInv
  BY TypeInit DEF Init, GenerationInv, Distinct, Complete
<1>2. TypeInv /\ GenerationInv /\ [Next]_vars => (TypeInv /\ GenerationInv)'
  BY TypeStep, GenerationStep
<1>3. TypeInv /\ GenerationInv
        => [Compact => \A c \in snapshots :
                         ledger[c] = {} => LiveClaims(c)' = LiveClaims(c)]_vars
  <2> SUFFICES ASSUME TypeInv, GenerationInv, Compact, NEW c \in snapshots, ledger[c] = {}
               PROVE  LiveClaims(c)' = LiveClaims(c)
    OBVIOUS
  <2>1. c \in Commits
    BY DEF TypeInv, TypeOK
  <2>2. log'[c] = log[c] \ Superseded(c) /\ ledger' = ledger /\ head' = head /\ ledger[c] = {}
    BY <2>1 DEF Compact, rows
  <2>3. Live(log[c] \ Superseded(c)) = Live(log[c])
    BY <2>1, LiveSurvives
  <2>4. \A patches : Counted(patches, {}) = patches
    BY DEF Counted
  <2>5. \A patches, tree : FoldOf(patches, {}, tree, None).claims
                             = {p \in Live(patches) : Anchored(p, tree, None)}
    BY <2>4 DEF FoldOf
  <2>6. LiveClaims(c)' = FoldOf(log'[c], ledger'[c], head', None).claims
    BY DEF LiveClaims
  <2> QED
    BY <2>2, <2>3, <2>5, <2>6 DEF LiveClaims
<1>4. QED
  BY <1>1, <1>2, <1>3, PTL DEF Spec, CompactionKeepsClaims

(***************************************************************************)
(* `fold --check` passes.                                                  *)
(***************************************************************************)

\* No cited file is renamed or edited between two commits.
NoDrift == \A n \in Nodes : Drift[n] = "same"

\* The state of a snapshot is the fold of its log as of the tree it names.
UpToDate(c) ==
    view[c].tree = None \/ view[c] = FoldOf(log[c], ledger[c], view[c].tree, None)

\* Where a command has changed the log of its snapshot and has not folded yet.
Writing ==
    {"scan_fold", "collect", "accept", "run", "fold", "refresh_structure", "refresh_fold"}

CheckInv ==
    /\ crashes \in Nat
    /\ crashes = 0 =>
      /\ \A c \in Commits :
            UpToDate(c) \/ (c = snap /\ pc \in Writing \cup {"rollback_ledger"})
      /\ pc = "rollback_ledger" =>
            view[snap] = FoldOf(log[snap], ledger[snap] \cup pending, view[snap].tree, None)

\* Where nothing drifts, a refresh that follows renames folds as `fold` does.
LEMMA FoldSame ==
  ASSUME NoDrift, NEW all \in SUBSET Patches, NEW excluded, NEW tree, NEW from
  PROVE  FoldOf(all, excluded, tree, from) = FoldOf(all, excluded, tree, None)
<1> DEFINE patches == Counted(all, excluded)
<1>1. patches \in SUBSET Patches
  BY DEF Counted
<1>2. Complete(patches) \subseteq Patches /\ Live(patches) \subseteq Patches
  <2>1. Live(patches) \subseteq Complete(patches)
    BY <1>1, LogBounded, LiveIsComplete, WorkspaceAssumption DEF WorkspaceAssumption
  <2> QED
    BY <1>1, <2>1 DEF Complete
<1>3. \A p \in Patches : \A f : Anchored(p, tree, f) /\ Reviewed(p, f)
  <2> SUFFICES ASSUME NEW p \in Patches PROVE Drift[p.node] = "same"
    BY DEF Anchored, Reviewed
  <2> QED
    BY DEF NoDrift, Patches
<1> DEFINE live == Live(patches)
           complete == Complete(patches)
<1>4. \A f : FoldOf(all, excluded, tree, f) =
               [claims |-> live, unreviewed |-> {}, asked |-> Asked(patches), demoted |-> {},
                gaps |-> {n \in Nodes : NodeStatus(patches, n) \in {"failed", "invalid"}},
                tree |-> tree]
  <2> TAKE f
  <2>1. {p \in live : Anchored(p, tree, f)} = live
    BY <1>2, <1>3
  <2>2. {p \in live : ~Reviewed(p, f)} = {}
    BY <1>2, <1>3
  <2>3. {p \in complete : ~Anchored(p, tree, f)} = {}
    BY <1>2, <1>3
  <2> QED
    BY <2>1, <2>2, <2>3 DEF FoldOf
<1> QED
  BY <1>4

\* A step that writes no state, log or ledger, and stays where the log is ahead.
LEMMA CheckKept ==
  ASSUME CheckInv, UNCHANGED <<view, log, ledger, crashes>>,
         pc \in Writing => pc' \in Writing /\ snap' = snap,
         pc' = "rollback_ledger" \/ pc = "rollback_ledger" => UNCHANGED <<pc, snap, pending>>
  PROVE  CheckInv'
<1> SUFFICES ASSUME crashes' = 0, crashes = 0 PROVE CheckInv'
  BY DEF CheckInv
<1>1. \A c \in Commits : UpToDate(c)' = UpToDate(c)
  BY DEF UpToDate
<1>2. ASSUME NEW c \in Commits
      PROVE  UpToDate(c)' \/ (c = snap' /\ pc' \in Writing \cup {"rollback_ledger"})
  BY <1>1 DEF CheckInv
<1>3. pc' = "rollback_ledger" =>
        view'[snap'] = FoldOf(log'[snap'], ledger'[snap'] \cup pending', view'[snap'].tree, None)
  BY DEF CheckInv
<1> QED
  BY <1>2, <1>3 DEF CheckInv

\* A step that changes the log of the selected snapshot, and folds later.
LEMMA CheckWritten ==
  ASSUME CheckInv, UNCHANGED <<view, ledger, snap, crashes>>, pc' \in Writing,
         pc # "rollback_ledger",
         \A c \in Commits : c # snap => log'[c] = log[c]
  PROVE  CheckInv'
<1> SUFFICES ASSUME crashes' = 0, crashes = 0 PROVE CheckInv'
  BY DEF CheckInv
<1>1. \A c \in Commits : c # snap => UpToDate(c)' = UpToDate(c)
  BY DEF UpToDate
<1>2. ASSUME NEW c \in Commits
      PROVE  UpToDate(c)' \/ (c = snap' /\ pc' \in Writing \cup {"rollback_ledger"})
  BY <1>1 DEF CheckInv
<1>3. pc' # "rollback_ledger"
  BY DEF Writing
<1> QED
  BY <1>2, <1>3 DEF CheckInv

\* A fold of the selected snapshot.
LEMMA CheckFolded ==
  ASSUME NoDrift, TypeInv, CheckInv, UNCHANGED <<log, ledger, crashes>>,
         pc # "idle", pc # "rollback_ledger", pc' # "rollback_ledger", NEW from,
         WriteState(ledger[snap], from)
  PROVE  CheckInv'
<1> SUFFICES ASSUME crashes' = 0, crashes = 0 PROVE CheckInv'
  BY DEF CheckInv
<1>1. snap \in Commits /\ log[snap] \in SUBSET Patches
  BY DEF TypeInv, TypeOK, Selected
<1>2. /\ view'[snap] = FoldOf(log[snap], ledger[snap], head, None)
      /\ \A c \in Commits \ {snap} : view'[c] = view[c]
  <2>1. view' = [view EXCEPT ![snap] = FoldOf(log[snap], ledger[snap], head, from)]
    BY DEF WriteState
  <2>2. FoldOf(log[snap], ledger[snap], head, from) = FoldOf(log[snap], ledger[snap], head, None)
    BY <1>1, FoldSame
  <2> QED
    BY <2>1, <2>2, <1>1 DEF TypeInv, TypeOK
<1>3. FoldOf(log[snap], ledger[snap], head, None).tree = head
  BY DEF FoldOf
<1>4. \A c \in Commits \ {snap} : UpToDate(c)' = UpToDate(c)
  BY <1>2 DEF UpToDate
<1>5. \A c \in Commits : UpToDate(c)'
  <2> SUFFICES ASSUME NEW c \in Commits PROVE UpToDate(c)'
    OBVIOUS
  <2>1. CASE c = snap
    BY <2>1, <1>2, <1>3 DEF UpToDate
  <2>2. CASE c # snap
    BY <2>2, <1>4 DEF CheckInv
  <2> QED
    BY <2>1, <2>2
<1> QED
  BY <1>5 DEF CheckInv

\* Every command that ends has folded what it appended.
LEMMA CheckStep ==
  ASSUME NoDrift, NothingCompacted', TypeInv, CheckInv, [Next]_vars
  PROVE  CheckInv'
  <1> USE DEF Writing
  <1>1. ASSUME ScanBegin PROVE CheckInv'
    BY <1>1, CheckKept
       DEF ScanBegin, BeginSnapshot, rows, store, command, counts
  <1>2. ASSUME ScanSchedule PROVE CheckInv'
    BY <1>2, CheckKept
       DEF ScanSchedule, WriteArtifact, rows, store, command, counts
  <1>3. ASSUME ScanStructure PROVE CheckInv'
    BY <1>3, CheckKept
       DEF ScanStructure, WriteArtifact, rows, store, command, counts
  <1>4. ASSUME Derive PROVE CheckInv'
    BY <1>4, CheckWritten
       DEF Derive, Append, AppendComplete, rows, store, command, counts
  <1>5. ASSUME ScanFold PROVE CheckInv'
    BY <1>5, CheckFolded
       DEF ScanFold, Idle, rows, store, command, counts
  <1>6. ASSUME ScanManifest PROVE CheckInv'
    BY <1>6, CheckKept
       DEF ScanManifest, Idle, rows, store, command, counts
  <1>7. ASSUME CollectBegin PROVE CheckInv'
    BY <1>7, CheckKept
       DEF CollectBegin, Open, rows, store, command, counts
  <1>8. ASSUME NEW n \in Scopes, NEW r \in PromptedRuns, CollectReject(n, r) PROVE CheckInv'
    BY <1>8, CheckWritten
       DEF CollectReject, Append, AppendComplete, rows, store, command, counts
  <1>9. ASSUME NEW n \in Scopes, NEW r \in PromptedRuns, CollectAccept(n, r) PROVE CheckInv'
    BY <1>9, CheckWritten
       DEF CollectAccept, Append, AppendComplete, rows, store, command, counts
  <1>10. ASSUME CollectEnd PROVE CheckInv'
    BY <1>10, CheckKept
       DEF CollectEnd, rows, store, command, counts
  <1>11. ASSUME RunBegin PROVE CheckInv'
    BY <1>11, CheckKept
       DEF RunBegin, rows, store, command, counts
  <1>12. ASSUME NEW n \in Scopes, RunValidated(n) PROVE CheckInv'
    BY <1>12, CheckWritten
       DEF RunValidated, Append, AppendComplete, rows, store, command, counts
  <1>13. ASSUME NEW n \in Scopes, RunAbandoned(n) PROVE CheckInv'
    BY <1>13, CheckWritten
       DEF RunAbandoned, Append, AppendComplete, rows, store, command, counts
  <1>14. ASSUME RunEndWave PROVE CheckInv'
    BY <1>14, CheckKept
       DEF RunEndWave, rows, store, command, counts
  <1>15. ASSUME AnswerBegin PROVE CheckInv'
    BY <1>15, CheckKept
       DEF AnswerBegin, Open, rows, store, command, counts
  <1>16. ASSUME AnswerRefused PROVE CheckInv'
    BY <1>16, CheckKept
       DEF AnswerRefused, Idle, rows, store, command, counts
  <1>17. ASSUME NEW n \in Scopes, AnswerAppend(n) PROVE CheckInv'
    BY <1>17, CheckWritten
       DEF AnswerAppend, Append, AppendComplete, rows, store, command, counts
  <1>18. ASSUME FoldBegin PROVE CheckInv'
    BY <1>18, CheckKept
       DEF FoldBegin, Open, rows, store, command, counts
  <1>19. ASSUME FoldAndWrite PROVE CheckInv'
    BY <1>19, CheckFolded
       DEF FoldAndWrite, Idle, rows, store, command, counts
  <1>20. ASSUME RefreshBegin PROVE CheckInv'
    BY <1>20, CheckKept
       DEF RefreshBegin, BeginSnapshot, rows, store, command, counts
  <1>21. ASSUME RefreshCopy PROVE CheckInv'
    BY <1>21, CheckWritten
       DEF RefreshCopy, Append, AppendComplete, rows, store, command, counts
  <1>22. ASSUME RefreshStructure PROVE CheckInv'
    BY <1>22, CheckKept
       DEF RefreshStructure, WriteArtifact, rows, store, command, counts
  <1>23. ASSUME RefreshFold PROVE CheckInv'
    BY <1>23, CheckFolded
       DEF RefreshFold, Idle, rows, store, command, counts
  <1>24. ASSUME RefreshManifest PROVE CheckInv'
    BY <1>24, CheckKept
       DEF RefreshManifest, Idle, rows, store, command, counts
  <1>25. ASSUME NEW excluded, RollbackState(excluded) PROVE CheckInv'
    <2> SUFFICES ASSUME crashes = 0, crashes' = 0 PROVE CheckInv'
      BY <1>25 DEF RollbackState, CheckInv
    <2>1. PICK c \in Commits : c = latest
      BY <1>25 DEF RollbackState, Readable, TypeInv, TypeOK
    <2>2. /\ view' = [view EXCEPT ![c] = FoldOf(log[c], ledger[c] \cup excluded, head, None)]
          /\ pending' = excluded /\ snap' = c /\ pc' = "rollback_ledger" /\ pc = "idle"
          /\ log' = log /\ ledger' = ledger
      BY <1>25, <2>1 DEF RollbackState
    <2>3. view'[c] = FoldOf(log[c], ledger[c] \cup excluded, head, None)
          /\ \A d \in Commits \ {c} : view'[d] = view[d]
      BY <2>2 DEF TypeInv, TypeOK
    <2>4. view'[c].tree = head
      BY <2>3 DEF FoldOf
    <2>5. \A d \in Commits \ {c} : UpToDate(d)'
      BY <2>2, <2>3 DEF CheckInv, UpToDate
    <2>6. \A d \in Commits : UpToDate(d)' \/ (d = snap' /\ pc' \in Writing \cup {"rollback_ledger"})
      BY <2>2, <2>5
    <2>7. view'[snap'] = FoldOf(log'[snap'], ledger'[snap'] \cup pending', view'[snap'].tree, None)
      BY <2>2, <2>3, <2>4
    <2> QED
      BY <2>6, <2>7 DEF CheckInv
  <1>26. ASSUME RollbackLedger PROVE CheckInv'
    <2> SUFFICES ASSUME crashes = 0, crashes' = 0 PROVE CheckInv'
      BY <1>26 DEF RollbackLedger, CheckInv, counts
    <2>1. PICK c \in Commits : c = snap
      BY <1>26 DEF RollbackLedger, TypeInv, Selected
    <2>2. /\ ledger' = [ledger EXCEPT ![c] = ledger[c] \cup pending]
          /\ pc = "rollback_ledger" /\ pc' = "idle" /\ log' = log /\ view' = view
      BY <1>26, <2>1 DEF RollbackLedger, Idle
    <2>3. ledger'[c] = ledger[c] \cup pending /\ \A d \in Commits \ {c} : ledger'[d] = ledger[d]
      BY <2>2 DEF TypeInv, TypeOK
    <2>4. view[c] = FoldOf(log[c], ledger[c] \cup pending, view[c].tree, None)
      BY <2>1, <2>2 DEF CheckInv
    <2>5. \A d \in Commits \ {c} : UpToDate(d)
      BY <2>1 DEF CheckInv
    <2>6. \A d \in Commits : UpToDate(d)'
      <3> SUFFICES ASSUME NEW d \in Commits PROVE UpToDate(d)'
        OBVIOUS
      <3>1. CASE d = c
        BY <3>1, <2>2, <2>3, <2>4 DEF UpToDate
      <3>2. CASE d # c
        BY <3>2, <2>2, <2>3, <2>5 DEF UpToDate
      <3> QED
        BY <3>1, <3>2
    <2> QED
      BY <2>2, <2>6 DEF CheckInv
  <1>27. ASSUME Compact PROVE CheckInv'
    BY <1>27, ArchiveGrows
  <1>28. ASSUME GcBegin PROVE CheckInv'
    BY <1>28, CheckKept
       DEF GcBegin, BeginSnapshot, rows, store, command, counts
  <1>29. ASSUME NEW c \in Commits, GcDrop(c) PROVE CheckInv'
    <2> SUFFICES ASSUME crashes = 0, crashes' = 0 PROVE CheckInv'
      BY <1>29 DEF GcDrop, CheckInv, counts
    <2>1. /\ view' = [view EXCEPT ![c] = Unfolded] /\ log' = [log EXCEPT ![c] = {}]
          /\ ledger' = [ledger EXCEPT ![c] = {}] /\ pc' = "gc" /\ pc = "gc"
      BY <1>29 DEF GcDrop, command
    <2>2. \A d \in Commits \ {c} : view'[d] = view[d] /\ log'[d] = log[d] /\ ledger'[d] = ledger[d]
      BY <2>1 DEF TypeInv, TypeOK
    <2>3. view'[c].tree = None
      BY <2>1 DEF Unfolded, TypeInv, TypeOK
    <2>4. \A d \in Commits : UpToDate(d)'
      <3> SUFFICES ASSUME NEW d \in Commits PROVE UpToDate(d)'
        OBVIOUS
      <3>1. CASE d = c
        BY <3>1, <2>3 DEF UpToDate
      <3>2. CASE d # c
        BY <3>2, <2>1, <2>2 DEF UpToDate, CheckInv
      <3> QED
        BY <3>1, <3>2
    <2> QED
      BY <2>1, <2>4 DEF CheckInv
  <1>30. ASSUME NEW c \in Commits, GcRefused(c) PROVE CheckInv'
    BY <1>30, CheckKept
       DEF GcRefused, Idle, rows, store, command, counts
  <1>31. ASSUME GcEnd PROVE CheckInv'
    BY <1>31, CheckKept
       DEF GcEnd, Idle, rows, store, command, counts
  <1>32. ASSUME NEW c \in Commits, Checkout(c) PROVE CheckInv'
    BY <1>32, CheckKept
       DEF Checkout, rows, store, command, counts
  <1>33. ASSUME Crash PROVE CheckInv'
    BY <1>33 DEF Crash, CheckInv
  <1>34. ASSUME UNCHANGED vars PROVE CheckInv'
    BY <1>34, CheckKept
       DEF vars, rows, store, command, counts
  <1>35. QED
    BY <1>1, <1>2, <1>3, <1>4, <1>5, <1>6, <1>7, <1>8, <1>9, <1>10, <1>11,
       <1>12, <1>13, <1>14, <1>15, <1>16, <1>17, <1>18, <1>19, <1>20, <1>21, <1>22,
       <1>23, <1>24, <1>25, <1>26, <1>27, <1>28, <1>29, <1>30, <1>31, <1>32, <1>33,
       <1>34
       DEF Next, Scan, Collect, Run, AnswerOne, Refresh, Rollback, Gc

\* `fold --check` passes after any sequence of commands that ended, as long as nothing
\* has been compacted and no cited file changes between the commits; where one does, a
\* refresh knows more than a fold of the same log, and a compaction takes questions away.
THEOREM CheckAlwaysPasses ==
  ASSUME NoDrift
  PROVE  Spec => []CheckPasses
<1> DEFINE Folded == NothingCompacted => CheckInv
<1>1. Init => TypeInv /\ Folded
  <2>1. Init => CheckInv
    BY DEF Init, CheckInv, UpToDate, Unfolded
  <2> QED
    BY <2>1, TypeInit
<1>2. TypeInv /\ Folded /\ [Next]_vars => (TypeInv /\ Folded)'
  BY TypeStep, CheckStep, ArchiveGrows
<1>3. TypeInv /\ Folded => CheckPasses
  <2> SUFFICES ASSUME TypeInv, CheckInv, pc = "idle", crashes = 0, latest # None,
                      view[latest].tree = head
               PROVE  view[latest] = FoldOf(log[latest], ledger[latest], head, None)
    BY DEF CheckPasses
  <2>1. latest \in Commits /\ head # None
    BY WorkspaceAssumption DEF TypeInv, TypeOK, WorkspaceAssumption
  <2>2. UpToDate(latest)
    BY <2>1 DEF CheckInv, Writing
  <2> QED
    BY <2>1, <2>2 DEF UpToDate
<1>4. QED
  BY <1>1, <1>2, <1>3, PTL DEF Spec

=============================================================================
