-------------------------- MODULE Supervisor_proofs --------------------------
(***************************************************************************)
(* Theorems about Supervisor, for every number of processes, scopes,       *)
(* attempts and seconds: types, leases, folding, and what an invocation    *)
(* owes for each of its scopes.                                            *)
(***************************************************************************)
EXTENDS Supervisor, TLAPS

(***************************************************************************)
(* Type correctness.                                                       *)
(***************************************************************************)

\* At these points the cursor is at a scope, not past the last one.
AtScope == Holding \cup {"acquire", "abandon", "clear"}

CursorAtScope ==
    \A p \in Supervisors : pc[p] \in AtScope => cursor[p] \in Scopes

\* TypeOK alone is not inductive: a row is written at the cursor.
TypeInv == TypeOK /\ CursorAtScope

\* Init gives every variable a value of its type.
LEMMA TypeInit == Init => TypeInv
  BY SupervisorAssumption DEF SupervisorAssumption, Init, TypeInv, TypeOK,
     CursorAtScope, Scopes, NoLease, NoResults, NothingFolded, Verdicts,
     Results, Outcomes, TaskStates, Points, AtScope, Holding, BeforeRun,
     AfterRun

\* The cursor steps from a scope to the next one, or past the last.
LEMMA NextScope == \A s \in Scopes : s + 1 \in 1..NumScopes + 1
  BY SupervisorAssumption DEF SupervisorAssumption, Scopes

\* No step takes a variable out of its type.
LEMMA TypeStep == TypeInv /\ [Next]_vars => TypeInv'
  <1> SUFFICES ASSUME TypeInv, [Next]_vars PROVE TypeInv'
    OBVIOUS
  <1> USE SupervisorAssumption DEF SupervisorAssumption, TypeInv, TypeOK,
     CursorAtScope
  <1>1. ASSUME NEW p \in Supervisors, Start(p) PROVE TypeInv'
    BY <1>1 DEF Start, GoTo, Points, AtScope, Holding, BeforeRun, AfterRun,
       tables, rows, locals, work, memory, aux
  <1>2. ASSUME NEW p \in Supervisors, Reclaim(p) PROVE TypeInv'
    BY <1>2 DEF Reclaim, GoTo, TaskStates, RETRY_STATES, Points, AtScope,
       Holding, BeforeRun, AfterRun, tables, rows, locals, work, memory, aux
  <1>3. ASSUME NEW p \in Supervisors, Plan(p) PROVE TypeInv'
    BY <1>3 DEF Plan, GoTo, Points, AtScope, Holding, BeforeRun, AfterRun,
       tables, rows, locals, work, memory, aux
  <1>4. ASSUME NEW p \in Supervisors, PickScope(p) PROVE TypeInv'
    BY <1>4 DEF PickScope, GoTo, Outcomes, Points, AtScope, Holding,
       BeforeRun, AfterRun, tables, rows, locals, work, memory, aux
  <1>5. ASSUME NEW p \in Supervisors, SkipScope(p) PROVE TypeInv'
    BY <1>5, NextScope DEF SkipScope, Points, AtScope, Holding, BeforeRun,
       AfterRun, tables, rows, locals, work, memory, aux
  <1>6. ASSUME NEW p \in Supervisors, EndWave(p) PROVE TypeInv'
    BY <1>6 DEF EndWave, GoTo, Points, AtScope, Holding, BeforeRun,
       AfterRun, tables, rows, locals, work, memory, aux
  <1>7. ASSUME NEW p \in Supervisors, Acquire(p) PROVE TypeInv'
    BY <1>7 DEF Acquire, GoTo, TaskStates, NoLease, Points, AtScope,
       Holding, BeforeRun, AfterRun, tables, rows, locals, work, memory, aux
  <1>8. ASSUME NEW p \in Supervisors, NotOurs(p) PROVE TypeInv'
    BY <1>8, NextScope DEF NotOurs, GoTo, Report, Results, Points, AtScope,
       Holding, BeforeRun, AfterRun, tables, rows, locals, work, memory, aux
  <1>9. ASSUME NEW p \in Supervisors, Unlink(p) PROVE TypeInv'
    BY <1>9 DEF Unlink, GoTo, Points, AtScope, Holding, BeforeRun, AfterRun,
       tables, rows, locals, work, memory, aux
  <1>10. ASSUME NEW p \in Supervisors, MarkDispatched(p) PROVE TypeInv'
    BY <1>10 DEF MarkDispatched, GoTo, SetState, TaskStates, Points,
       AtScope, Holding, BeforeRun, AfterRun, tables, rows, locals, work,
       memory, aux
  <1>11. ASSUME NEW p \in Supervisors, MarkReturned(p) PROVE TypeInv'
    BY <1>11 DEF MarkReturned, GoTo, SetState, TaskStates, Points, AtScope,
       Holding, BeforeRun, AfterRun, tables, rows, locals, work, memory, aux
  <1>12. ASSUME NEW p \in Supervisors, Classify(p) PROVE TypeInv'
    BY <1>12 DEF Classify, GoTo, Verdict, Outcomes, RETRY_STATES, Points,
       AtScope, Holding, BeforeRun, AfterRun, tables, rows, locals, work,
       memory, aux
  <1>13. ASSUME NEW p \in Supervisors, Settle(p) PROVE TypeInv'
    BY <1>13 DEF Settle, GoTo, SetState, Outcomes, TaskStates, RETRY_STATES,
       Points, AtScope, Holding, BeforeRun, AfterRun, tables, rows, locals,
       work, memory, aux
  <1>14. ASSUME NEW p \in Supervisors, ReleaseSettled(p) PROVE TypeInv'
    BY <1>14, NextScope DEF ReleaseSettled, GoTo, Report, Free, Results,
       NoLease, Points, AtScope, Holding, BeforeRun, AfterRun, tables, rows,
       locals, work, memory, aux
  <1>15. ASSUME NEW p \in Supervisors, ReleaseRetry(p) PROVE TypeInv'
    BY <1>15 DEF ReleaseRetry, GoTo, Free, NoLease, Points, AtScope,
       Holding, BeforeRun, AfterRun, tables, rows, locals, work, memory, aux
  <1>16. ASSUME NEW p \in Supervisors, ReleaseExhausted(p) PROVE TypeInv'
    BY <1>16 DEF ReleaseExhausted, GoTo, Free, NoLease, Points, AtScope,
       Holding, BeforeRun, AfterRun, tables, rows, locals, work, memory, aux
  <1>17. ASSUME NEW p \in Supervisors, Abandon(p) PROVE TypeInv'
    BY <1>17, NextScope DEF Abandon, GoTo, Report, SetState, Results,
       TaskStates, Points, AtScope, Holding, BeforeRun, AfterRun, tables,
       rows, locals, work, memory, aux
  <1>18. ASSUME NEW p \in Supervisors, AppendComplete(p) PROVE TypeInv'
    BY <1>18 DEF AppendComplete, GoTo, Patch, Points, AtScope, Holding,
       BeforeRun, AfterRun, tables, rows, locals, work, memory, aux
  <1>19. ASSUME NEW p \in Supervisors, ClearInbox(p) PROVE TypeInv'
    BY <1>19, NextScope DEF ClearInbox, GoTo, Advance, Points, AtScope,
       Holding, BeforeRun, AfterRun, tables, rows, locals, work, memory, aux
  <1>20. ASSUME NEW p \in Supervisors, AppendFailed(p) PROVE TypeInv'
    BY <1>20, NextScope DEF AppendFailed, Advance, Patch, Points, AtScope,
       Holding, BeforeRun, AfterRun, tables, rows, locals, work, memory, aux
  <1>21. ASSUME NEW p \in Supervisors, AppendNothing(p) PROVE TypeInv'
    BY <1>21, NextScope DEF AppendNothing, Advance, Points, AtScope,
       Holding, BeforeRun, AfterRun, tables, rows, locals, work, memory, aux
  <1>22. ASSUME NEW p \in Supervisors, EndAppend(p) PROVE TypeInv'
    BY <1>22 DEF EndAppend, GoTo, Points, AtScope, Holding, BeforeRun,
       AfterRun, tables, rows, locals, work, memory, aux
  <1>23. ASSUME NEW p \in Supervisors, FoldWave(p) PROVE TypeInv'
    BY <1>23 DEF FoldWave, GoTo, FoldedStatus, Verdicts, Points, AtScope,
       Holding, BeforeRun, AfterRun, tables, rows, locals, work, memory, aux
  <1>24. ASSUME NEW p \in Supervisors, WriteState(p) PROVE TypeInv'
    BY <1>24 DEF WriteState, GoTo, Points, AtScope, Holding, BeforeRun,
       AfterRun, tables, rows, locals, work, memory, aux
  <1>25. ASSUME NEW p \in Supervisors, MarkFolded(p) PROVE TypeInv'
    BY <1>25, NextScope DEF MarkFolded, Advance, TaskStates, Points,
       AtScope, Holding, BeforeRun, AfterRun, tables, rows, locals, work,
       memory, aux
  <1>26. ASSUME NEW p \in Supervisors, EndMark(p) PROVE TypeInv'
    BY <1>26 DEF EndMark, GoTo, Points, AtScope, Holding, BeforeRun,
       AfterRun, tables, rows, locals, work, memory, aux
  <1>27. ASSUME NEW p \in Supervisors, Finish(p) PROVE TypeInv'
    BY <1>27 DEF Finish, Exit, NoResults, NothingFolded, Results, Verdicts,
       Outcomes, Points, AtScope, Holding, BeforeRun, AfterRun, tables,
       rows, locals, work, memory, aux
  <1>28. ASSUME NEW p \in Supervisors, Heartbeat(p) PROVE TypeInv'
    BY <1>28 DEF Heartbeat, NoLease, Points, AtScope, Holding, BeforeRun,
       AfterRun, tables, rows, locals, work, memory, aux
  <1>29. ASSUME NEW p \in Supervisors, RunnerWrites(p) PROVE TypeInv'
    BY <1>29 DEF RunnerWrites, Points, AtScope, Holding, BeforeRun,
       AfterRun, tables, rows, locals, work, memory, aux
  <1>30. ASSUME NEW p \in Supervisors, RunnerOk(p) PROVE TypeInv'
    BY <1>30 DEF RunnerOk, GoTo, Points, AtScope, Holding, BeforeRun,
       AfterRun, tables, rows, locals, work, memory, aux
  <1>31. ASSUME NEW p \in Supervisors, RunnerFails(p) PROVE TypeInv'
    BY <1>31 DEF RunnerFails, GoTo, Outcomes, RETRY_STATES, Points, AtScope,
       Holding, BeforeRun, AfterRun, tables, rows, locals, work, memory, aux
  <1>32. ASSUME NEW p \in Supervisors, Crash(p) PROVE TypeInv'
    BY <1>32 DEF Crash, Exit, NoResults, NothingFolded, Results, Verdicts,
       Outcomes, Points, AtScope, Holding, BeforeRun, AfterRun, tables,
       rows, locals, work, memory, aux
  <1>33. ASSUME NEW s \in Scopes, LateAnswer(s) PROVE TypeInv'
    BY <1>33 DEF LateAnswer, tables, rows, locals, work, memory, aux
  <1>34. ASSUME Tick PROVE TypeInv'
    BY <1>34 DEF Tick, Leased, NoLease, tables, rows, locals, work, memory,
       aux
  <1>35. ASSUME UNCHANGED vars PROVE TypeInv'
    BY <1>35 DEF vars, tables, rows, locals, work, memory, aux
  <1> QED
    BY <1>1, <1>2, <1>3, <1>4, <1>5, <1>6, <1>7, <1>8, <1>9, <1>10, <1>11,
       <1>12, <1>13, <1>14, <1>15, <1>16, <1>17, <1>18, <1>19, <1>20, <1>21,
       <1>22, <1>23, <1>24, <1>25, <1>26, <1>27, <1>28, <1>29, <1>30, <1>31,
       <1>32, <1>33, <1>34, <1>35 DEF Next, Step, RunnerReturns

\* TypeOK holds of every state `cdp run` can reach.
THEOREM TypeCorrect == Spec => []TypeOK
  <1>1. Spec => []TypeInv
    BY TypeInit, TypeStep, PTL DEF Spec
  <1>2. TypeInv => TypeOK
    BY DEF TypeInv
  <1> QED
    BY <1>1, <1>2, PTL

(***************************************************************************)
(* Leases: with processes scheduled in time, a claim is exclusive.         *)
(***************************************************************************)

\* Why nobody can take a scope from a live holder: until the runner starts
\* the lease outlasts the first heartbeat, while it runs the lease outlasts
\* the next one, and afterwards it has not lapsed.
HeldInTime ==
    \A p \in Supervisors :
        /\ pc[p] \in BeforeRun => lease[cursor[p]] >= HeartbeatSeconds
        /\ pc[p] = "running" => lease[cursor[p]] >= beat[p]
        /\ pc[p] \in AfterRun => lease[cursor[p]] >= 0

\* ExclusiveDispatch is not inductive: a claim looks at the lease only.
LeaseInv == TypeInv /\ HeldInTime /\ ExclusiveDispatch

\* At the start nobody holds anything.
LEMMA LeaseInit == Init => LeaseInv
  BY TypeInit DEF Init, LeaseInv, HeldInTime, ExclusiveDispatch, Holds,
     Holding, BeforeRun, AfterRun

\* A live holder's lease has not lapsed, so ~Leased(s) means nobody holds s.
LEMMA HeldIsLeased ==
    LeaseInv => \A p \in Supervisors, s \in Scopes : Holds(p, s) => Leased(s)
  BY SupervisorAssumption DEF SupervisorAssumption, LeaseInv, HeldInTime,
     TypeInv, TypeOK, Holds, Leased, Holding, BeforeRun, AfterRun

\* No step lets a second process into a held scope, nor a held lease lapse.
LEMMA LeaseStep ==
    ASSUME Prompt, LeaseInv, [Next]_vars PROVE LeaseInv'
  <1> DEFINE Goal == HeldInTime /\ ExclusiveDispatch
  <1>type. TypeInv'
    BY TypeStep DEF LeaseInv
  <1> SUFFICES Goal'
    BY <1>type DEF LeaseInv
  <1> USE SupervisorAssumption DEF SupervisorAssumption, LeaseInv, TypeInv,
     TypeOK, CursorAtScope, HeldInTime, ExclusiveDispatch, Holds, AtScope,
     Holding, BeforeRun, AfterRun
  <1>1. ASSUME NEW p \in Supervisors, Start(p) PROVE Goal'
    BY <1>1 DEF Start, GoTo, tables, rows, locals, work, memory, aux
  <1>2. ASSUME NEW p \in Supervisors, Reclaim(p) PROVE Goal'
    BY <1>2 DEF Reclaim, GoTo, tables, rows, locals, work, memory, aux
  <1>3. ASSUME NEW p \in Supervisors, Plan(p) PROVE Goal'
    BY <1>3 DEF Plan, GoTo, tables, rows, locals, work, memory, aux
  <1>4. ASSUME NEW p \in Supervisors, PickScope(p) PROVE Goal'
    BY <1>4 DEF PickScope, GoTo, tables, rows, locals, work, memory, aux
  <1>5. ASSUME NEW p \in Supervisors, SkipScope(p) PROVE Goal'
    BY <1>5 DEF SkipScope, tables, rows, locals, work, memory, aux
  <1>6. ASSUME NEW p \in Supervisors, EndWave(p) PROVE Goal'
    BY <1>6 DEF EndWave, GoTo, tables, rows, locals, work, memory, aux
  <1>7. ASSUME NEW p \in Supervisors, Acquire(p) PROVE Goal'
    BY <1>7, HeldIsLeased DEF Acquire, GoTo, Leased, tables, rows, locals,
       work, memory, aux
  <1>8. ASSUME NEW p \in Supervisors, NotOurs(p) PROVE Goal'
    BY <1>8 DEF NotOurs, GoTo, Report, tables, rows, locals, work, memory,
       aux
  <1>9. ASSUME NEW p \in Supervisors, Unlink(p) PROVE Goal'
    BY <1>9 DEF Unlink, GoTo, tables, rows, locals, work, memory, aux
  <1>10. ASSUME NEW p \in Supervisors, MarkDispatched(p) PROVE Goal'
    BY <1>10 DEF MarkDispatched, GoTo, SetState, tables, rows, locals, work,
       memory, aux
  <1>11. ASSUME NEW p \in Supervisors, MarkReturned(p) PROVE Goal'
    BY <1>11 DEF MarkReturned, GoTo, SetState, tables, rows, locals, work,
       memory, aux
  <1>12. ASSUME NEW p \in Supervisors, Classify(p) PROVE Goal'
    BY <1>12 DEF Classify, GoTo, Verdict, tables, rows, locals, work,
       memory, aux
  <1>13. ASSUME NEW p \in Supervisors, Settle(p) PROVE Goal'
    BY <1>13 DEF Settle, GoTo, SetState, tables, rows, locals, work, memory,
       aux
  <1>14. ASSUME NEW p \in Supervisors, ReleaseSettled(p) PROVE Goal'
    BY <1>14 DEF ReleaseSettled, GoTo, Report, Free, NoLease, tables, rows,
       locals, work, memory, aux
  <1>15. ASSUME NEW p \in Supervisors, ReleaseRetry(p) PROVE Goal'
    BY <1>15 DEF ReleaseRetry, GoTo, Free, NoLease, tables, rows, locals,
       work, memory, aux
  <1>16. ASSUME NEW p \in Supervisors, ReleaseExhausted(p) PROVE Goal'
    BY <1>16 DEF ReleaseExhausted, GoTo, Free, NoLease, tables, rows,
       locals, work, memory, aux
  <1>17. ASSUME NEW p \in Supervisors, Abandon(p) PROVE Goal'
    BY <1>17 DEF Abandon, GoTo, Report, SetState, tables, rows, locals,
       work, memory, aux
  <1>18. ASSUME NEW p \in Supervisors, AppendComplete(p) PROVE Goal'
    BY <1>18 DEF AppendComplete, GoTo, Patch, tables, rows, locals, work,
       memory, aux
  <1>19. ASSUME NEW p \in Supervisors, ClearInbox(p) PROVE Goal'
    BY <1>19 DEF ClearInbox, GoTo, Advance, tables, rows, locals, work,
       memory, aux
  <1>20. ASSUME NEW p \in Supervisors, AppendFailed(p) PROVE Goal'
    BY <1>20 DEF AppendFailed, Advance, Patch, tables, rows, locals, work,
       memory, aux
  <1>21. ASSUME NEW p \in Supervisors, AppendNothing(p) PROVE Goal'
    BY <1>21 DEF AppendNothing, Advance, tables, rows, locals, work, memory,
       aux
  <1>22. ASSUME NEW p \in Supervisors, EndAppend(p) PROVE Goal'
    BY <1>22 DEF EndAppend, GoTo, tables, rows, locals, work, memory, aux
  <1>23. ASSUME NEW p \in Supervisors, FoldWave(p) PROVE Goal'
    BY <1>23 DEF FoldWave, GoTo, tables, rows, locals, work, memory, aux
  <1>24. ASSUME NEW p \in Supervisors, WriteState(p) PROVE Goal'
    BY <1>24 DEF WriteState, GoTo, tables, rows, locals, work, memory, aux
  <1>25. ASSUME NEW p \in Supervisors, MarkFolded(p) PROVE Goal'
    BY <1>25 DEF MarkFolded, Advance, tables, rows, locals, work, memory,
       aux
  <1>26. ASSUME NEW p \in Supervisors, EndMark(p) PROVE Goal'
    BY <1>26 DEF EndMark, GoTo, tables, rows, locals, work, memory, aux
  <1>27. ASSUME NEW p \in Supervisors, Finish(p) PROVE Goal'
    BY <1>27 DEF Finish, Exit, tables, rows, locals, work, memory, aux
  <1>28. ASSUME NEW p \in Supervisors, Heartbeat(p) PROVE Goal'
    BY <1>28 DEF Heartbeat, tables, rows, locals, work, memory, aux
  <1>29. ASSUME NEW p \in Supervisors, RunnerWrites(p) PROVE Goal'
    BY <1>29 DEF RunnerWrites, tables, rows, locals, work, memory, aux
  <1>30. ASSUME NEW p \in Supervisors, RunnerOk(p) PROVE Goal'
    BY <1>30 DEF RunnerOk, GoTo, tables, rows, locals, work, memory, aux
  <1>31. ASSUME NEW p \in Supervisors, RunnerFails(p) PROVE Goal'
    BY <1>31 DEF RunnerFails, GoTo, tables, rows, locals, work, memory, aux
  <1>32. ASSUME NEW p \in Supervisors, Crash(p) PROVE Goal'
    BY <1>32 DEF Crash, Exit, tables, rows, locals, work, memory, aux
  <1>33. ASSUME NEW s \in Scopes, LateAnswer(s) PROVE Goal'
    BY <1>33 DEF LateAnswer, tables, rows, locals, work, memory, aux
  <1>34. ASSUME Tick PROVE Goal'
    BY <1>34 DEF Tick, Leased, InTime, tables, rows, locals, work, memory,
       aux
  <1>35. ASSUME UNCHANGED vars PROVE Goal'
    BY <1>35 DEF vars, tables, rows, locals, work, memory, aux
  <1> QED
    BY <1>1, <1>2, <1>3, <1>4, <1>5, <1>6, <1>7, <1>8, <1>9, <1>10, <1>11,
       <1>12, <1>13, <1>14, <1>15, <1>16, <1>17, <1>18, <1>19, <1>20, <1>21,
       <1>22, <1>23, <1>24, <1>25, <1>26, <1>27, <1>28, <1>29, <1>30, <1>31,
       <1>32, <1>33, <1>34, <1>35 DEF Next, Step, RunnerReturns

\* Two live processes never dispatch the same scope, for any number of
\* processes, crashes and scopes, if each is scheduled within its lease.
THEOREM LeasesExclude == ASSUME Prompt PROVE Spec => []ExclusiveDispatch
  <1>1. LeaseInv /\ [Next]_vars => LeaseInv'
    BY LeaseStep
  <1>2. Spec => []LeaseInv
    BY <1>1, LeaseInit, PTL DEF Spec
  <1>3. LeaseInv => ExclusiveDispatch
    BY DEF LeaseInv
  <1> QED
    BY <1>2, <1>3, PTL

(***************************************************************************)
(* The leases implement LeaseClaims.                                       *)
(***************************************************************************)

\* What Holder says when at most one process holds each scope.
HolderIsTheHolder ==
    \A s \in Scopes :
        /\ \A p \in Supervisors : Holds(p, s) => Holder[s] = p
        /\ (\A p \in Supervisors : ~Holds(p, s)) => Holder[s] = NoOne

\* Under exclusion Holder names the process that holds the scope.
LEMMA HolderIs == ExclusiveDispatch => HolderIsTheHolder
  BY DEF ExclusiveDispatch, Holder, HolderIsTheHolder

\* The same of the next state.
LEMMA HolderIsNext == LeaseInv' => HolderIsTheHolder'
  BY HolderIs, PTL DEF LeaseInv

\* A step that changes no claim leaves Holder alone.
LEMMA SameHolder ==
    ASSUME LeaseInv, LeaseInv',
           \A p \in Supervisors, s \in Scopes : Holds(p, s)' <=> Holds(p, s)
    PROVE  UNCHANGED Holder
  <1>1. HolderIsTheHolder /\ HolderIsTheHolder'
    BY HolderIs, HolderIsNext DEF LeaseInv
  <1>2. \A s \in Scopes : Holder'[s] = Holder[s]
    BY <1>1 DEF HolderIsTheHolder
  <1> QED
    BY <1>2 DEF Holder

\* A process that holds nothing enters a scope that nobody holds.
LEMMA ClaimStep ==
    ASSUME LeaseInv, LeaseInv', NEW p \in Supervisors, NEW s \in Scopes,
           \A q \in Supervisors : ~Holds(q, s),
           \A t \in Scopes : ~Holds(p, t),
           \A q \in Supervisors, t \in Scopes :
               Holds(q, t)' <=> Holds(q, t) \/ (q = p /\ t = s)
    PROVE  Claims!Claim(p, s)
  <1>1. HolderIsTheHolder /\ HolderIsTheHolder'
    BY HolderIs, HolderIsNext DEF LeaseInv
  <1>2. \A t \in Scopes : Holder'[t] = IF t = s THEN p ELSE Holder[t]
    BY <1>1 DEF HolderIsTheHolder
  <1>3. Holder' = [Holder EXCEPT ![s] = p]
    BY <1>2 DEF Holder
  <1>4. \A t \in Scopes : Holder[t] # p
    BY <1>1, SupervisorAssumption
       DEF HolderIsTheHolder, SupervisorAssumption
  <1> QED
    BY <1>1, <1>3, <1>4 DEF HolderIsTheHolder, Claims!Claim

\* The holder of a scope leaves it.
LEMMA GiveUpStep ==
    ASSUME LeaseInv, LeaseInv', NEW p \in Supervisors, NEW s \in Scopes,
           Holds(p, s),
           \A q \in Supervisors, t \in Scopes :
               Holds(q, t)' <=> Holds(q, t) /\ q # p
    PROVE  Claims!GiveUp(p, s)
  <1>1. HolderIsTheHolder /\ HolderIsTheHolder'
    BY HolderIs, HolderIsNext DEF LeaseInv
  <1>2. \A q \in Supervisors : Holds(q, s) => q = p
    BY DEF LeaseInv, ExclusiveDispatch
  <1>3. \A t \in Scopes : t # s => ~Holds(p, t)
    BY DEF Holds
  <1>4. \A t \in Scopes : Holder'[t] = IF t = s THEN NoOne ELSE Holder[t]
    BY <1>1, <1>2, <1>3 DEF HolderIsTheHolder
  <1>5. Holder' = [Holder EXCEPT ![s] = NoOne]
    BY <1>4 DEF Holder
  <1> QED
    BY <1>1, <1>5 DEF HolderIsTheHolder, Claims!GiveUp

\* Every step is a claim, a giving up, or changes no claim.
LEMMA ClaimsStep ==
    ASSUME Prompt, LeaseInv, [Next]_vars PROVE [Claims!Next]_Holder
  <1> DEFINE Same == \A p \in Supervisors, s \in Scopes :
                         Holds(p, s)' <=> Holds(p, s)
  <1>inv. LeaseInv'
    BY LeaseStep
  <1>same. ASSUME Same PROVE [Claims!Next]_Holder
    BY <1>same, <1>inv, SameHolder
  <1> USE DEF Holds, Holding, BeforeRun, AfterRun
  <1>1. ASSUME NEW p \in Supervisors, Start(p) PROVE Same
    BY <1>1 DEF Start, GoTo, tables, rows, locals, work, memory, aux,
       LeaseInv, TypeInv, TypeOK
  <1>2. ASSUME NEW p \in Supervisors, Reclaim(p) PROVE Same
    BY <1>2 DEF Reclaim, GoTo, tables, rows, locals, work, memory, aux,
       LeaseInv, TypeInv, TypeOK
  <1>3. ASSUME NEW p \in Supervisors, Plan(p) PROVE Same
    BY <1>3 DEF Plan, GoTo, tables, rows, locals, work, memory, aux,
       LeaseInv, TypeInv, TypeOK
  <1>4. ASSUME NEW p \in Supervisors, PickScope(p) PROVE Same
    BY <1>4 DEF PickScope, GoTo, tables, rows, locals, work, memory, aux,
       LeaseInv, TypeInv, TypeOK
  <1>5. ASSUME NEW p \in Supervisors, SkipScope(p) PROVE Same
    BY <1>5 DEF SkipScope, tables, rows, locals, work, memory, aux,
       LeaseInv, TypeInv, TypeOK
  <1>6. ASSUME NEW p \in Supervisors, EndWave(p) PROVE Same
    BY <1>6 DEF EndWave, GoTo, tables, rows, locals, work, memory, aux,
       LeaseInv, TypeInv, TypeOK
  <1>7. ASSUME NEW p \in Supervisors, Acquire(p) PROVE [Claims!Next]_Holder
    <2>1. cursor[p] \in Scopes
      BY <1>7 DEF Acquire, LeaseInv, TypeInv, CursorAtScope, AtScope
    <2>2. \A q \in Supervisors : ~Holds(q, cursor[p])
      BY <1>7, <2>1, HeldIsLeased DEF Acquire
    <2>3. \A t \in Scopes : ~Holds(p, t)
      BY <1>7 DEF Acquire
    <2>4. \A q \in Supervisors, t \in Scopes :
             Holds(q, t)' <=> Holds(q, t) \/ (q = p /\ t = cursor[p])
      BY <1>7 DEF Acquire, GoTo, LeaseInv, TypeInv, TypeOK
    <2> HIDE DEF Holds
    <2>5. Claims!Claim(p, cursor[p])
      BY <1>inv, <2>1, <2>2, <2>3, <2>4, ClaimStep
    <2> QED
      BY <2>1, <2>5 DEF Claims!Next
  <1>8. ASSUME NEW p \in Supervisors, NotOurs(p) PROVE Same
    BY <1>8 DEF NotOurs, GoTo, Report, tables, rows, locals, work, memory,
       aux, LeaseInv, TypeInv, TypeOK
  <1>9. ASSUME NEW p \in Supervisors, Unlink(p) PROVE Same
    BY <1>9 DEF Unlink, GoTo, tables, rows, locals, work, memory, aux,
       LeaseInv, TypeInv, TypeOK
  <1>10. ASSUME NEW p \in Supervisors, MarkDispatched(p) PROVE Same
    BY <1>10 DEF MarkDispatched, GoTo, SetState, tables, rows, locals, work,
       memory, aux, LeaseInv, TypeInv, TypeOK
  <1>11. ASSUME NEW p \in Supervisors, MarkReturned(p) PROVE Same
    BY <1>11 DEF MarkReturned, GoTo, SetState, tables, rows, locals, work,
       memory, aux, LeaseInv, TypeInv, TypeOK
  <1>12. ASSUME NEW p \in Supervisors, Classify(p) PROVE Same
    BY <1>12 DEF Classify, GoTo, Verdict, tables, rows, locals, work,
       memory, aux, LeaseInv, TypeInv, TypeOK
  <1>13. ASSUME NEW p \in Supervisors, Settle(p) PROVE Same
    BY <1>13 DEF Settle, GoTo, SetState, tables, rows, locals, work, memory,
       aux, LeaseInv, TypeInv, TypeOK
  <1>14. ASSUME NEW p \in Supervisors, ReleaseSettled(p)
        PROVE  [Claims!Next]_Holder
    <2>1. cursor[p] \in Scopes /\ Holds(p, cursor[p])
      BY <1>14 DEF ReleaseSettled, LeaseInv, TypeInv, CursorAtScope, AtScope
    <2>2. \A q \in Supervisors, t \in Scopes :
             Holds(q, t)' <=> Holds(q, t) /\ q # p
      BY <1>14 DEF ReleaseSettled, GoTo, Report, Free, LeaseInv, TypeInv, TypeOK
    <2> HIDE DEF Holds
    <2>3. Claims!GiveUp(p, cursor[p])
      BY <1>inv, <2>1, <2>2, GiveUpStep
    <2> QED
      BY <2>1, <2>3 DEF Claims!Next
  <1>15. ASSUME NEW p \in Supervisors, ReleaseRetry(p)
        PROVE  [Claims!Next]_Holder
    <2>1. cursor[p] \in Scopes /\ Holds(p, cursor[p])
      BY <1>15 DEF ReleaseRetry, LeaseInv, TypeInv, CursorAtScope, AtScope
    <2>2. \A q \in Supervisors, t \in Scopes :
             Holds(q, t)' <=> Holds(q, t) /\ q # p
      BY <1>15 DEF ReleaseRetry, GoTo, Free, LeaseInv, TypeInv, TypeOK
    <2> HIDE DEF Holds
    <2>3. Claims!GiveUp(p, cursor[p])
      BY <1>inv, <2>1, <2>2, GiveUpStep
    <2> QED
      BY <2>1, <2>3 DEF Claims!Next
  <1>16. ASSUME NEW p \in Supervisors, ReleaseExhausted(p)
        PROVE  [Claims!Next]_Holder
    <2>1. cursor[p] \in Scopes /\ Holds(p, cursor[p])
      BY <1>16 DEF ReleaseExhausted, LeaseInv, TypeInv, CursorAtScope, AtScope
    <2>2. \A q \in Supervisors, t \in Scopes :
             Holds(q, t)' <=> Holds(q, t) /\ q # p
      BY <1>16 DEF ReleaseExhausted, GoTo, Free, LeaseInv, TypeInv, TypeOK
    <2> HIDE DEF Holds
    <2>3. Claims!GiveUp(p, cursor[p])
      BY <1>inv, <2>1, <2>2, GiveUpStep
    <2> QED
      BY <2>1, <2>3 DEF Claims!Next
  <1>17. ASSUME NEW p \in Supervisors, Abandon(p) PROVE Same
    BY <1>17 DEF Abandon, GoTo, Report, SetState, tables, rows, locals,
       work, memory, aux, LeaseInv, TypeInv, TypeOK
  <1>18. ASSUME NEW p \in Supervisors, AppendComplete(p) PROVE Same
    BY <1>18 DEF AppendComplete, GoTo, Patch, tables, rows, locals, work,
       memory, aux, LeaseInv, TypeInv, TypeOK
  <1>19. ASSUME NEW p \in Supervisors, ClearInbox(p) PROVE Same
    BY <1>19 DEF ClearInbox, GoTo, Advance, tables, rows, locals, work,
       memory, aux, LeaseInv, TypeInv, TypeOK
  <1>20. ASSUME NEW p \in Supervisors, AppendFailed(p) PROVE Same
    BY <1>20 DEF AppendFailed, Advance, Patch, tables, rows, locals, work,
       memory, aux, LeaseInv, TypeInv, TypeOK
  <1>21. ASSUME NEW p \in Supervisors, AppendNothing(p) PROVE Same
    BY <1>21 DEF AppendNothing, Advance, tables, rows, locals, work, memory,
       aux, LeaseInv, TypeInv, TypeOK
  <1>22. ASSUME NEW p \in Supervisors, EndAppend(p) PROVE Same
    BY <1>22 DEF EndAppend, GoTo, tables, rows, locals, work, memory, aux,
       LeaseInv, TypeInv, TypeOK
  <1>23. ASSUME NEW p \in Supervisors, FoldWave(p) PROVE Same
    BY <1>23 DEF FoldWave, GoTo, tables, rows, locals, work, memory, aux,
       LeaseInv, TypeInv, TypeOK
  <1>24. ASSUME NEW p \in Supervisors, WriteState(p) PROVE Same
    BY <1>24 DEF WriteState, GoTo, tables, rows, locals, work, memory, aux,
       LeaseInv, TypeInv, TypeOK
  <1>25. ASSUME NEW p \in Supervisors, MarkFolded(p) PROVE Same
    BY <1>25 DEF MarkFolded, Advance, tables, rows, locals, work, memory,
       aux, LeaseInv, TypeInv, TypeOK
  <1>26. ASSUME NEW p \in Supervisors, EndMark(p) PROVE Same
    BY <1>26 DEF EndMark, GoTo, tables, rows, locals, work, memory, aux,
       LeaseInv, TypeInv, TypeOK
  <1>27. ASSUME NEW p \in Supervisors, Finish(p) PROVE Same
    BY <1>27 DEF Finish, Exit, tables, rows, locals, work, memory, aux,
       LeaseInv, TypeInv, TypeOK
  <1>28. ASSUME NEW p \in Supervisors, Heartbeat(p) PROVE Same
    BY <1>28 DEF Heartbeat, tables, rows, locals, work, memory, aux,
       LeaseInv, TypeInv, TypeOK
  <1>29. ASSUME NEW p \in Supervisors, RunnerWrites(p) PROVE Same
    BY <1>29 DEF RunnerWrites, tables, rows, locals, work, memory, aux,
       LeaseInv, TypeInv, TypeOK
  <1>30. ASSUME NEW p \in Supervisors, RunnerOk(p) PROVE Same
    BY <1>30 DEF RunnerOk, GoTo, tables, rows, locals, work, memory, aux,
       LeaseInv, TypeInv, TypeOK
  <1>31. ASSUME NEW p \in Supervisors, RunnerFails(p) PROVE Same
    BY <1>31 DEF RunnerFails, GoTo, tables, rows, locals, work, memory, aux,
       LeaseInv, TypeInv, TypeOK
  <1>32. ASSUME NEW p \in Supervisors, Crash(p) PROVE [Claims!Next]_Holder
    <2>1. CASE pc[p] \notin Holding
      <3>1. Same
        BY <1>32, <2>1 DEF Crash, Exit, LeaseInv, TypeInv, TypeOK
      <3> QED
        BY <3>1, <1>same
    <2>2. CASE pc[p] \in Holding
      <3>1. cursor[p] \in Scopes /\ Holds(p, cursor[p])
        BY <2>2 DEF LeaseInv, TypeInv, CursorAtScope, AtScope
      <3>2. \A q \in Supervisors, t \in Scopes :
               Holds(q, t)' <=> Holds(q, t) /\ q # p
        BY <1>32 DEF Crash, Exit, LeaseInv, TypeInv, TypeOK
      <3> HIDE DEF Holds
      <3>3. Claims!GiveUp(p, cursor[p])
        BY <1>inv, <3>1, <3>2, GiveUpStep
      <3> QED
        BY <3>1, <3>3 DEF Claims!Next
    <2> QED
      BY <2>1, <2>2
  <1>33. ASSUME NEW s \in Scopes, LateAnswer(s) PROVE Same
    BY <1>33 DEF LateAnswer, tables, rows, locals, work, memory, aux
  <1>34. ASSUME Tick PROVE Same
    BY <1>34 DEF Tick, Leased, tables, rows, locals, work, memory, aux
  <1>35. ASSUME UNCHANGED vars PROVE Same
    BY <1>35 DEF vars, tables, rows, locals, work, memory, aux
  <1> HIDE DEF Same
  <1> QED
    BY <1>same, <1>1, <1>2, <1>3, <1>4, <1>5, <1>6, <1>7, <1>8, <1>9, <1>10,
       <1>11, <1>12, <1>13, <1>14, <1>15, <1>16, <1>17, <1>18, <1>19, <1>20,
       <1>21, <1>22, <1>23, <1>24, <1>25, <1>26, <1>27, <1>28, <1>29, <1>30,
       <1>31, <1>32, <1>33, <1>34, <1>35 DEF Next, Step, RunnerReturns

\* The lease protocol implements LeaseClaims: crashes, expiry, renewal and
\* release together give nothing but atomic claims.
THEOREM LeasesImplementClaims == ASSUME Prompt PROVE Spec => ClaimsHold
  <1>1. Init => Claims!Init
    BY DEF Init, Claims!Init, Holder, Holds, Holding, BeforeRun, AfterRun
  <1>2. LeaseInv /\ [Next]_vars => LeaseInv' /\ [Claims!Next]_Holder
    BY LeaseStep, ClaimsStep
  <1> QED
    BY <1>1, <1>2, LeaseInit, PTL DEF Spec, ClaimsHold, Claims!Spec

(***************************************************************************)
(* Folding: under the repo lock, a folded scope is in state.json.          *)
(***************************************************************************)

\* The repo lock lets one invocation run at a time.
OneInvocation ==
    \A p, q \in Supervisors : pc[p] # "off" /\ pc[q] # "off" => p = q

\* How far _apply_wave_results of p has come: the validated scopes below the
\* cursor are in the log; then all are; then the fold, computed and written,
\* counts every complete patch of the log.
Logged(p, s) == results[p][s] = "validated" => Patch(s, "complete") \in log

ApplyProgressOf(p, s) ==
    /\ pc[p] = "append" => (s < cursor[p] => Logged(p, s))
    /\ pc[p] = "clear" => (s <= cursor[p] => Logged(p, s))
    /\ pc[p] \in {"fold", "write_state", "mark_folded"} => Logged(p, s)
    /\ pc[p] = "write_state" =>
         (Patch(s, "complete") \in log => view[p][s] = "complete")
    /\ pc[p] = "mark_folded" =>
         (Patch(s, "complete") \in log => state[s] = "complete")

ApplyProgress ==
    \A p \in Supervisors, s \in Scopes : ApplyProgressOf(p, s)

\* FoldedIsInState needs both: mark_folded looks at the results in memory,
\* and another invocation could write an older fold over a newer one.
FoldInv == TypeInv /\ OneInvocation /\ ApplyProgress /\ FoldedIsInState

\* At the start nothing is folded.
LEMMA FoldInit == Init => FoldInv
  BY TypeInit DEF Init, FoldInv, OneInvocation, ApplyProgress,
     ApplyProgressOf, FoldedIsInState

\* The scopes are consecutive numbers.
LEMMA ScopeBounds ==
    \A s \in Scopes : s \in Nat /\ 1 <= s /\ s <= NumScopes
  BY SupervisorAssumption DEF SupervisorAssumption, Scopes

\* Moving a cursor on by one adds one scope to those below it.
LEMMA BelowNext ==
    \A s \in Scopes, n \in Nat : s < n + 1 => s < n \/ s = n
  BY ScopeBounds

\* Appending the cursor's outcome keeps the progress, and extends it by one.
LEMMA AppendProgress ==
    ASSUME TypeInv, OneInvocation, ApplyProgress, NEW p \in Supervisors,
           AppendComplete(p) \/ AppendFailed(p)
    PROVE  ApplyProgress'
  <1> USE DEF AppendComplete, AppendFailed, memory, work, tables, rows, aux
  <1>1. cursor[p] \in Nat
    BY SupervisorAssumption DEF SupervisorAssumption, TypeInv, TypeOK
  <1>2. pc[p] = "append" /\ results' = results /\ log \subseteq log'
    OBVIOUS
  <1>3. results[p][cursor[p]] = "validated"
          => Patch(cursor[p], "complete") \in log'
    OBVIOUS
  <1>4. \/ pc'[p] = "clear" /\ cursor'[p] = cursor[p]
        \/ pc'[p] = "append" /\ cursor'[p] = cursor[p] + 1
    BY DEF GoTo, Advance, TypeInv, TypeOK
  <1>5. \A q \in Supervisors \ {p} : pc'[q] = "off"
    BY <1>2 DEF GoTo, OneInvocation, TypeInv, TypeOK
  <1> HIDE DEF AppendComplete, AppendFailed
  <1>6. ASSUME NEW s \in Scopes PROVE ApplyProgressOf(p, s)'
    <2>1. s < cursor[p] => Logged(p, s)
      BY <1>2 DEF ApplyProgress, ApplyProgressOf
    <2>2. s <= cursor[p] => Logged(p, s)'
      BY <2>1, <1>1, <1>2, <1>3, ScopeBounds DEF Logged
    <2> QED
      BY <2>2, <1>1, <1>4, ScopeBounds DEF ApplyProgressOf
  <1> QED
    BY <1>5, <1>6 DEF ApplyProgress, ApplyProgressOf

\* No step marks a scope folded too early, or takes it out of state.json.
LEMMA FoldStep ==
    ASSUME RepoLock, FoldInv, [Next]_vars PROVE FoldInv'
  <1> DEFINE Goal == OneInvocation /\ ApplyProgress /\ FoldedIsInState
  <1>type. TypeInv'
    BY TypeStep DEF FoldInv
  <1> SUFFICES Goal'
    BY <1>type DEF FoldInv
  <1> USE SupervisorAssumption DEF SupervisorAssumption, FoldInv, TypeInv,
     TypeOK, CursorAtScope, OneInvocation, ApplyProgress, FoldedIsInState,
     Logged, AtScope, Holding
  <1>1. ASSUME NEW p \in Supervisors, Start(p) PROVE Goal'
    BY <1>1 DEF Start, GoTo, ApplyProgressOf, tables, rows, locals, work,
       memory, aux
  <1>2. ASSUME NEW p \in Supervisors, Reclaim(p) PROVE Goal'
    BY <1>2 DEF Reclaim, GoTo, Leased, ApplyProgressOf, tables, rows,
       locals, work, memory, aux
  <1>3. ASSUME NEW p \in Supervisors, Plan(p) PROVE Goal'
    BY <1>3 DEF Plan, GoTo, ApplyProgressOf, tables, rows, locals, work,
       memory, aux
  <1>4. ASSUME NEW p \in Supervisors, PickScope(p) PROVE Goal'
    BY <1>4 DEF PickScope, GoTo, ApplyProgressOf, tables, rows, locals,
       work, memory, aux
  <1>5. ASSUME NEW p \in Supervisors, SkipScope(p) PROVE Goal'
    BY <1>5 DEF SkipScope, Scopes, ApplyProgressOf, tables, rows, locals,
       work, memory, aux
  <1>6. ASSUME NEW p \in Supervisors, EndWave(p) PROVE Goal'
    BY <1>6, ScopeBounds DEF EndWave, GoTo, ApplyProgressOf, tables, rows,
       locals, work, memory, aux
  <1>7. ASSUME NEW p \in Supervisors, Acquire(p) PROVE Goal'
    BY <1>7 DEF Acquire, GoTo, ApplyProgressOf, tables, rows, locals, work,
       memory, aux
  <1>8. ASSUME NEW p \in Supervisors, NotOurs(p) PROVE Goal'
    BY <1>8 DEF NotOurs, GoTo, Report, ApplyProgressOf, tables, rows,
       locals, work, memory, aux
  <1>9. ASSUME NEW p \in Supervisors, Unlink(p) PROVE Goal'
    BY <1>9 DEF Unlink, GoTo, ApplyProgressOf, tables, rows, locals, work,
       memory, aux
  <1>10. ASSUME NEW p \in Supervisors, MarkDispatched(p) PROVE Goal'
    BY <1>10 DEF MarkDispatched, GoTo, SetState, ApplyProgressOf, tables,
       rows, locals, work, memory, aux
  <1>11. ASSUME NEW p \in Supervisors, MarkReturned(p) PROVE Goal'
    BY <1>11 DEF MarkReturned, GoTo, SetState, ApplyProgressOf, tables,
       rows, locals, work, memory, aux
  <1>12. ASSUME NEW p \in Supervisors, Classify(p) PROVE Goal'
    BY <1>12 DEF Classify, GoTo, Verdict, ApplyProgressOf, tables, rows,
       locals, work, memory, aux
  <1>13. ASSUME NEW p \in Supervisors, Settle(p) PROVE Goal'
    <2>1. outcome[p] # "folded"
      BY DEF Outcomes, RETRY_STATES
    <2>2. FoldedIsInState'
      BY <1>13, <2>1 DEF Settle, SetState
    <2>3. OneInvocation' /\ ApplyProgress'
      BY <1>13 DEF Settle, GoTo, ApplyProgressOf, tables, rows, locals,
         work, memory, aux
    <2> QED
      BY <2>2, <2>3
  <1>14. ASSUME NEW p \in Supervisors, ReleaseSettled(p) PROVE Goal'
    BY <1>14 DEF ReleaseSettled, GoTo, Report, Free, ApplyProgressOf,
       tables, rows, locals, work, memory, aux
  <1>15. ASSUME NEW p \in Supervisors, ReleaseRetry(p) PROVE Goal'
    BY <1>15 DEF ReleaseRetry, GoTo, Free, ApplyProgressOf, tables, rows,
       locals, work, memory, aux
  <1>16. ASSUME NEW p \in Supervisors, ReleaseExhausted(p) PROVE Goal'
    BY <1>16 DEF ReleaseExhausted, GoTo, Free, ApplyProgressOf, tables,
       rows, locals, work, memory, aux
  <1>17. ASSUME NEW p \in Supervisors, Abandon(p) PROVE Goal'
    BY <1>17 DEF Abandon, GoTo, Report, SetState, ApplyProgressOf, tables,
       rows, locals, work, memory, aux
  <1>18. ASSUME NEW p \in Supervisors, AppendComplete(p) PROVE Goal'
    <2>1. OneInvocation' /\ FoldedIsInState'
      BY <1>18 DEF AppendComplete, GoTo, rows
    <2>2. ApplyProgress'
      BY <1>18, AppendProgress
    <2> QED
      BY <2>1, <2>2
  <1>19. ASSUME NEW p \in Supervisors, ClearInbox(p) PROVE Goal'
    <2>1. OneInvocation' /\ FoldedIsInState'
      BY <1>19 DEF ClearInbox, GoTo, Advance, tables, rows
    <2>2. cursor[p] \in Nat
      BY SupervisorAssumption
    <2>3. \A s \in Scopes : s <= cursor[p] => Logged(p, s)
      BY <1>19, <2>2, ScopeBounds DEF ClearInbox, ApplyProgressOf
    <2>4. ASSUME NEW q \in Supervisors, NEW s \in Scopes
          PROVE  ApplyProgressOf(q, s)'
      <3>1. CASE q = p
        BY <1>19, <3>1, <2>2, <2>3, ScopeBounds DEF ClearInbox, GoTo, Advance,
           ApplyProgressOf, tables, rows, work, memory, aux
      <3>2. CASE q # p
        BY <1>19, <3>2 DEF ClearInbox, GoTo, ApplyProgressOf, tables, rows,
           work, memory, aux
      <3> QED
        BY <3>1, <3>2
    <2> QED
      BY <2>1, <2>4
  <1>20. ASSUME NEW p \in Supervisors, AppendFailed(p) PROVE Goal'
    <2>1. OneInvocation' /\ FoldedIsInState'
      BY <1>20 DEF AppendFailed, Advance, rows
    <2>2. ApplyProgress'
      BY <1>20, AppendProgress
    <2> QED
      BY <2>1, <2>2
  <1>21. ASSUME NEW p \in Supervisors, AppendNothing(p) PROVE Goal'
    <2>1. OneInvocation' /\ FoldedIsInState'
      BY <1>21 DEF AppendNothing, GoTo, Advance, tables, rows
    <2>2. cursor[p] \in Nat
      BY SupervisorAssumption
    <2>3. \A s \in Scopes : s < cursor[p] + 1 => Logged(p, s)
      <3>1. \A s \in Scopes : s < cursor[p] => Logged(p, s)
        BY <1>21 DEF AppendNothing, ApplyProgressOf
      <3>2. Logged(p, cursor[p])
        BY <1>21 DEF AppendNothing
      <3> HIDE DEF Logged, FoldInv, ApplyProgress
      <3> QED
        BY <3>1, <3>2, <2>2, BelowNext
    <2>4. ASSUME NEW q \in Supervisors, NEW s \in Scopes
          PROVE  ApplyProgressOf(q, s)'
      <3>1. CASE q = p
        BY <1>21, <3>1, <2>2, <2>3, ScopeBounds DEF AppendNothing, GoTo, Advance,
           ApplyProgressOf, tables, rows, work, memory, aux
      <3>2. CASE q # p
        BY <1>21, <3>2 DEF AppendNothing, GoTo, ApplyProgressOf, tables, rows,
           work, memory, aux
      <3> QED
        BY <3>1, <3>2
    <2> QED
      BY <2>1, <2>4
  <1>22. ASSUME NEW p \in Supervisors, EndAppend(p) PROVE Goal'
    <2>1. OneInvocation' /\ FoldedIsInState'
      BY <1>22 DEF EndAppend, GoTo, Advance, tables, rows
    <2>2. cursor[p] \in Nat
      BY SupervisorAssumption
    <2>3. \A s \in Scopes : Logged(p, s)
      BY <1>22, <2>2, ScopeBounds DEF EndAppend, ApplyProgressOf
    <2>4. ASSUME NEW q \in Supervisors, NEW s \in Scopes
          PROVE  ApplyProgressOf(q, s)'
      <3>1. CASE q = p
        BY <1>22, <3>1, <2>2, <2>3, ScopeBounds DEF EndAppend, GoTo, Advance,
           ApplyProgressOf, tables, rows, work, memory, aux
      <3>2. CASE q # p
        BY <1>22, <3>2 DEF EndAppend, GoTo, ApplyProgressOf, tables, rows,
           work, memory, aux
      <3> QED
        BY <3>1, <3>2
    <2> QED
      BY <2>1, <2>4
  <1>23. ASSUME NEW p \in Supervisors, FoldWave(p) PROVE Goal'
    BY <1>23 DEF FoldWave, GoTo, FoldedStatus, ApplyProgressOf, tables,
       rows, locals, work, memory, aux
  <1>24. ASSUME NEW p \in Supervisors, WriteState(p) PROVE Goal'
    BY <1>24 DEF WriteState, GoTo, ApplyProgressOf, tables, rows, locals,
       work, memory, aux
  <1>25. ASSUME NEW p \in Supervisors, MarkFolded(p) PROVE Goal'
    BY <1>25 DEF MarkFolded, Advance, ApplyProgressOf, tables, rows, locals,
       work, memory, aux
  <1>26. ASSUME NEW p \in Supervisors, EndMark(p) PROVE Goal'
    BY <1>26 DEF EndMark, GoTo, ApplyProgressOf, tables, rows, locals, work,
       memory, aux
  <1>27. ASSUME NEW p \in Supervisors, Finish(p) PROVE Goal'
    BY <1>27 DEF Finish, Exit, ApplyProgressOf, tables, rows, locals, work,
       memory, aux
  <1>28. ASSUME NEW p \in Supervisors, Heartbeat(p) PROVE Goal'
    BY <1>28 DEF Heartbeat, ApplyProgressOf, tables, rows, locals, work,
       memory, aux
  <1>29. ASSUME NEW p \in Supervisors, RunnerWrites(p) PROVE Goal'
    BY <1>29 DEF RunnerWrites, ApplyProgressOf, tables, rows, locals, work,
       memory, aux
  <1>30. ASSUME NEW p \in Supervisors, RunnerOk(p) PROVE Goal'
    BY <1>30 DEF RunnerOk, GoTo, ApplyProgressOf, tables, rows, locals,
       work, memory, aux
  <1>31. ASSUME NEW p \in Supervisors, RunnerFails(p) PROVE Goal'
    BY <1>31 DEF RunnerFails, GoTo, ApplyProgressOf, tables, rows, locals,
       work, memory, aux
  <1>32. ASSUME NEW p \in Supervisors, Crash(p) PROVE Goal'
    BY <1>32 DEF Crash, Exit, ApplyProgressOf, tables, rows, locals, work,
       memory, aux
  <1>33. ASSUME NEW s \in Scopes, LateAnswer(s) PROVE Goal'
    BY <1>33 DEF LateAnswer, ApplyProgressOf, tables, rows, locals, work,
       memory, aux
  <1>34. ASSUME Tick PROVE Goal'
    BY <1>34 DEF Tick, Leased, ApplyProgressOf, tables, rows, locals, work,
       memory, aux
  <1>35. ASSUME UNCHANGED vars PROVE Goal'
    BY <1>35 DEF vars, ApplyProgressOf, tables, rows, locals, work, memory,
       aux
  <1> QED
    BY <1>1, <1>2, <1>3, <1>4, <1>5, <1>6, <1>7, <1>8, <1>9, <1>10, <1>11,
       <1>12, <1>13, <1>14, <1>15, <1>16, <1>17, <1>18, <1>19, <1>20, <1>21,
       <1>22, <1>23, <1>24, <1>25, <1>26, <1>27, <1>28, <1>29, <1>30, <1>31,
       <1>32, <1>33, <1>34, <1>35 DEF Next, Step, RunnerReturns

\* Under the repo lock a row never says folded before the complete patch is
\* in the log and state.json counts it, whatever crashes in between.
THEOREM FoldedMeansInState ==
    ASSUME RepoLock PROVE Spec => []FoldedIsInState
  <1>1. FoldInv /\ [Next]_vars => FoldInv'
    BY FoldStep
  <1>2. Spec => []FoldInv
    BY <1>1, FoldInit, PTL DEF Spec
  <1>3. FoldInv => FoldedIsInState
    BY DEF FoldInv
  <1> QED
    BY <1>2, <1>3, PTL

-----------------------------------------------------------------------------
(***************************************************************************)
(* Accounting: what an invocation owes for each scope, under the repo lock.*)
(* It classifies no stale answer, loses none in flight, leaves no silent   *)
(* gap, and takes each row through the life cycle that the docstring of    *)
(* cdp/supervisor.py draws.                                                *)
(***************************************************************************)

\* Before the wave the cursor is at the first scope; an attempt that is settled has
\* a verdict; from the prompt to the verdict the inbox file is of this attempt.
AttemptOf(p) ==
    /\ pc[p] \in {"off", "reclaim", "plan"} => cursor[p] = 1
    /\ pc[p] \in {"settle", "release"} => outcome[p] # "pending"
    /\ pc[p] \in {"mark_dispatched", "running", "mark_returned", "classify"} =>
          cursor[p] \notin leftover

\* What run_wave owes for a scope it has passed, and what the log then says of it.
Passed(p, s) == s \in skip[p] \/ results[p][s] \in {"validated", "abandoned", "not_ours"}

Stated(p, s) ==
    \/ results[p][s] = "not_ours"
    \/ Patch(s, "complete") \in log
    \/ Patch(s, "failed") \in log

Dispatching == Holding \cup {"pick", "acquire", "abandon"}

\* The promise moves from the results in memory to the log, to the fold, and to
\* state.json.
DebtOf(p, s) ==
    /\ s \in skip[p] => Patch(s, "complete") \in log
    /\ pc[p] \in Dispatching /\ s < cursor[p] => Passed(p, s)
    /\ pc[p] \in {"append", "clear"} => Passed(p, s)
    /\ pc[p] = "append" /\ s < cursor[p] => Stated(p, s)
    /\ pc[p] = "clear" /\ s <= cursor[p] => Stated(p, s)
    /\ pc[p] \in {"fold", "write_state"} => Stated(p, s)
    /\ pc[p] = "write_state" => results[p][s] = "not_ours" \/ view[p][s] # "unexamined"
    /\ pc[p] \in {"mark_folded", "finish"} => results[p][s] = "not_ours" \/ state[s] # "unexamined"

Debts ==
    /\ \A p \in Supervisors : AttemptOf(p)
    /\ \A p \in Supervisors, s \in Scopes : DebtOf(p, s)

\* Skipped scopes need FoldedIsInState; and that nobody else writes state.json or
\* claims a scope meanwhile needs OneInvocation.
AccountInv == FoldInv /\ Debts

\* At the start nothing is owed.
LEMMA AccountInit == Init => AccountInv
<1> SUFFICES ASSUME Init PROVE AccountInv
  OBVIOUS
<1>1. FoldInv
  BY FoldInit
<1>2. \A s \in Scopes : ~(s < 1)
  BY ScopeBounds
<1>3. Debts
  BY <1>2 DEF Init, Debts, AttemptOf, DebtOf, Dispatching, Holding, BeforeRun, AfterRun
<1> QED
  BY <1>1, <1>3 DEF AccountInv

\* No step forgets a scope or takes an old answer for a new one.
LEMMA AccountStep ==
  ASSUME RepoLock, AccountInv, [Next]_vars PROVE AccountInv'
<1>fold. FoldInv'
  BY FoldStep DEF AccountInv
<1> SUFFICES Debts'
  BY <1>fold DEF AccountInv
<1> USE ScopeBounds DEF AccountInv, FoldInv, OneInvocation, TypeInv, TypeOK,
   CursorAtScope, AtScope, Debts, AttemptOf, DebtOf, Passed, Stated, Dispatching, Holding,
      BeforeRun, AfterRun
<1>n. \A p \in Supervisors : cursor[p] \in Nat
  BY SupervisorAssumption DEF SupervisorAssumption
<1>1. ASSUME NEW p \in Supervisors, Start(p) PROVE Debts'
  BY <1>1, <1>n DEF Start, GoTo, tables, rows, locals, work, memory, aux
<1>2. ASSUME NEW p \in Supervisors, Reclaim(p) PROVE Debts'
  BY <1>2, <1>n DEF Reclaim, GoTo, tables, rows, locals, work, memory, aux
<1>3. ASSUME NEW p \in Supervisors, Plan(p) PROVE Debts'
  BY <1>3, <1>n DEF Plan, GoTo, FoldedIsInState, tables, rows, locals, work, memory, aux
<1>4. ASSUME NEW p \in Supervisors, PickScope(p) PROVE Debts'
  BY <1>4, <1>n DEF PickScope, GoTo, tables, rows, locals, work, memory, aux
<1>5. ASSUME NEW p \in Supervisors, SkipScope(p) PROVE Debts'
  <2>1. \A s \in Scopes : s < cursor[p] + 1 => s < cursor[p] \/ s = cursor[p]
    BY <1>n, BelowNext
  <2>2. ASSUME NEW q \in Supervisors PROVE AttemptOf(q)'
    BY <1>5, <1>n DEF SkipScope, tables, rows, locals, work, memory, aux
  <2>3. ASSUME NEW q \in Supervisors, NEW s \in Scopes PROVE DebtOf(q, s)'
    <3>1. CASE q = p
      BY <1>5, <3>1, <2>1, <1>n DEF SkipScope, tables, rows, locals, work, memory, aux
    <3>2. CASE q # p
      BY <1>5, <3>2, <1>n DEF SkipScope, tables, rows, locals, work, memory, aux
    <3> QED
      BY <3>1, <3>2
  <2> QED
    BY <2>2, <2>3
<1>6. ASSUME NEW p \in Supervisors, EndWave(p) PROVE Debts'
  <2>1. \A s \in Scopes : s < cursor[p]
    BY <1>6, <1>n, SupervisorAssumption DEF EndWave, SupervisorAssumption
  <2>2. ASSUME NEW q \in Supervisors PROVE AttemptOf(q)'
    BY <1>6, <1>n DEF EndWave, GoTo, tables, rows, locals, work, memory, aux
  <2>3. ASSUME NEW q \in Supervisors, NEW s \in Scopes PROVE DebtOf(q, s)'
    <3>1. CASE q = p
      BY <1>6, <3>1, <2>1, <1>n DEF EndWave, GoTo, tables, rows, locals, work, memory, aux
    <3>2. CASE q # p
      BY <1>6, <3>2, <1>n DEF EndWave, GoTo, tables, rows, locals, work, memory, aux
    <3> QED
      BY <3>1, <3>2
  <2> QED
    BY <2>2, <2>3
<1>7. ASSUME NEW p \in Supervisors, Acquire(p) PROVE Debts'
  BY <1>7, <1>n DEF Acquire, GoTo, tables, rows, locals, work, memory, aux
<1>8. ASSUME NEW p \in Supervisors, NotOurs(p) PROVE Debts'
  <2>1. \A s \in Scopes : s < cursor[p] + 1 => s < cursor[p] \/ s = cursor[p]
    BY <1>n, BelowNext
  <2>2. ASSUME NEW q \in Supervisors PROVE AttemptOf(q)'
    BY <1>8, <1>n DEF NotOurs, GoTo, Report, tables, rows, locals, work, memory, aux
  <2>3. ASSUME NEW q \in Supervisors, NEW s \in Scopes PROVE DebtOf(q, s)'
    <3>1. CASE q = p
      BY <1>8, <3>1, <2>1, <1>n DEF NotOurs, GoTo, Report, tables, rows, locals, work, memory, aux
    <3>2. CASE q # p
      BY <1>8, <3>2, <1>n DEF NotOurs, GoTo, Report, tables, rows, locals, work, memory, aux
    <3> QED
      BY <3>1, <3>2
  <2> QED
    BY <2>2, <2>3
<1>9. ASSUME NEW p \in Supervisors, Unlink(p) PROVE Debts'
  BY <1>9, <1>n DEF Unlink, GoTo, tables, rows, locals, work, memory, aux
<1>10. ASSUME NEW p \in Supervisors, MarkDispatched(p) PROVE Debts'
  BY <1>10, <1>n DEF MarkDispatched, GoTo, SetState, tables, rows, locals, work, memory, aux
<1>11. ASSUME NEW p \in Supervisors, MarkReturned(p) PROVE Debts'
  BY <1>11, <1>n DEF MarkReturned, GoTo, SetState, tables, rows, locals, work, memory, aux
<1>12. ASSUME NEW p \in Supervisors, Classify(p) PROVE Debts'
  BY <1>12, <1>n DEF Classify, GoTo, Verdict, tables, rows, locals, work, memory, aux
<1>13. ASSUME NEW p \in Supervisors, Settle(p) PROVE Debts'
  BY <1>13, <1>n DEF Settle, GoTo, SetState, tables, rows, locals, work, memory, aux
<1>14. ASSUME NEW p \in Supervisors, ReleaseSettled(p) PROVE Debts'
  <2>1. \A s \in Scopes : s < cursor[p] + 1 => s < cursor[p] \/ s = cursor[p]
    BY <1>n, BelowNext
  <2>2. outcome[p] = "validated"
    BY <1>14 DEF ReleaseSettled, Outcomes
  <2>3. ASSUME NEW q \in Supervisors PROVE AttemptOf(q)'
    BY <1>14, <1>n DEF ReleaseSettled, GoTo, Report, Free, Outcomes, tables, rows, locals,
       work, memory, aux
  <2>4. ASSUME NEW q \in Supervisors, NEW s \in Scopes PROVE DebtOf(q, s)'
    <3>1. CASE q = p
      BY <1>14, <3>1, <2>1, <2>2, <1>n DEF ReleaseSettled, GoTo, Report, Free, Outcomes,
         tables, rows, locals, work, memory, aux
    <3>2. CASE q # p
      BY <1>14, <3>2, <1>n DEF ReleaseSettled, GoTo, Report, Free, Outcomes, tables, rows,
         locals, work, memory, aux
    <3> QED
      BY <3>1, <3>2
  <2> QED
    BY <2>3, <2>4
<1>15. ASSUME NEW p \in Supervisors, ReleaseRetry(p) PROVE Debts'
  BY <1>15, <1>n DEF ReleaseRetry, GoTo, Free, tables, rows, locals, work, memory, aux
<1>16. ASSUME NEW p \in Supervisors, ReleaseExhausted(p) PROVE Debts'
  BY <1>16, <1>n DEF ReleaseExhausted, GoTo, Free, tables, rows, locals, work, memory, aux
<1>17. ASSUME NEW p \in Supervisors, Abandon(p) PROVE Debts'
  <2>1. \A s \in Scopes : s < cursor[p] + 1 => s < cursor[p] \/ s = cursor[p]
    BY <1>n, BelowNext
  <2>2. ASSUME NEW q \in Supervisors PROVE AttemptOf(q)'
    BY <1>17, <1>n DEF Abandon, GoTo, Report, SetState, tables, rows, locals, work, memory, aux
  <2>3. ASSUME NEW q \in Supervisors, NEW s \in Scopes PROVE DebtOf(q, s)'
    <3>1. CASE q = p
      BY <1>17, <3>1, <2>1, <1>n DEF Abandon, GoTo, Report, SetState, tables, rows, locals,
         work, memory, aux
    <3>2. CASE q # p
      BY <1>17, <3>2, <1>n DEF Abandon, GoTo, Report, SetState, tables, rows, locals, work,
         memory, aux
    <3> QED
      BY <3>1, <3>2
  <2> QED
    BY <2>2, <2>3
<1>18. ASSUME NEW p \in Supervisors, AppendComplete(p) PROVE Debts'
  BY <1>18, <1>n DEF AppendComplete, GoTo, tables, rows, locals, work, memory, aux
<1>19. ASSUME NEW p \in Supervisors, ClearInbox(p) PROVE Debts'
  BY <1>19, <1>n DEF ClearInbox, GoTo, Advance, tables, rows, locals, work, memory, aux
<1>20. ASSUME NEW p \in Supervisors, AppendFailed(p) PROVE Debts'
  BY <1>20, <1>n DEF AppendFailed, Advance, tables, rows, locals, work, memory, aux
<1>21. ASSUME NEW p \in Supervisors, AppendNothing(p) PROVE Debts'
  <2>1. \A s \in Scopes : s < cursor[p] + 1 => s < cursor[p] \/ s = cursor[p]
    BY <1>n, BelowNext
  <2>2. ASSUME NEW q \in Supervisors PROVE AttemptOf(q)'
    BY <1>21, <1>n DEF AppendNothing, Advance, tables, rows, locals, work, memory, aux
  <2>3. ASSUME NEW q \in Supervisors, NEW s \in Scopes PROVE DebtOf(q, s)'
    <3>1. CASE q = p
      BY <1>21, <3>1, <2>1, <1>n DEF AppendNothing, Advance, tables, rows, locals, work, memory, aux
    <3>2. CASE q # p
      BY <1>21, <3>2, <1>n DEF AppendNothing, Advance, tables, rows, locals, work, memory, aux
    <3> QED
      BY <3>1, <3>2
  <2> QED
    BY <2>2, <2>3
<1>22. ASSUME NEW p \in Supervisors, EndAppend(p) PROVE Debts'
  <2>1. \A s \in Scopes : s < cursor[p]
    BY <1>22, <1>n, SupervisorAssumption DEF EndAppend, SupervisorAssumption
  <2>2. ASSUME NEW q \in Supervisors PROVE AttemptOf(q)'
    BY <1>22, <1>n DEF EndAppend, GoTo, tables, rows, locals, work, memory, aux
  <2>3. ASSUME NEW q \in Supervisors, NEW s \in Scopes PROVE DebtOf(q, s)'
    <3>1. CASE q = p
      BY <1>22, <3>1, <2>1, <1>n DEF EndAppend, GoTo, tables, rows, locals, work, memory, aux
    <3>2. CASE q # p
      BY <1>22, <3>2, <1>n DEF EndAppend, GoTo, tables, rows, locals, work, memory, aux
    <3> QED
      BY <3>1, <3>2
  <2> QED
    BY <2>2, <2>3
<1>23. ASSUME NEW p \in Supervisors, FoldWave(p) PROVE Debts'
  BY <1>23, <1>n DEF FoldWave, GoTo, FoldedStatus, tables, rows, locals, work, memory, aux
<1>24. ASSUME NEW p \in Supervisors, WriteState(p) PROVE Debts'
  <2>1. ASSUME NEW q \in Supervisors PROVE AttemptOf(q)'
    BY <1>24, <1>n DEF WriteState, GoTo, tables, rows, locals, work, memory, aux
  <2>2. ASSUME NEW q \in Supervisors, NEW s \in Scopes PROVE DebtOf(q, s)'
    <3>1. CASE q = p
      BY <1>24, <3>1, <1>n DEF WriteState, GoTo, tables, rows, locals, work, memory, aux
    <3>2. CASE q # p
      BY <1>24, <3>2, <1>n DEF WriteState, GoTo, tables, rows, locals, work, memory, aux
    <3> QED
      BY <3>1, <3>2
  <2> QED
    BY <2>1, <2>2
<1>25. ASSUME NEW p \in Supervisors, MarkFolded(p) PROVE Debts'
  BY <1>25, <1>n DEF MarkFolded, Advance, tables, rows, locals, work, memory, aux
<1>26. ASSUME NEW p \in Supervisors, EndMark(p) PROVE Debts'
  BY <1>26, <1>n DEF EndMark, GoTo, tables, rows, locals, work, memory, aux
<1>27. ASSUME NEW p \in Supervisors, Finish(p) PROVE Debts'
  BY <1>27, <1>n DEF Finish, Exit, tables, rows, locals, work, memory, aux
<1>28. ASSUME NEW p \in Supervisors, Heartbeat(p) PROVE Debts'
  BY <1>28, <1>n DEF Heartbeat, tables, rows, locals, work, memory, aux
<1>29. ASSUME NEW p \in Supervisors, RunnerWrites(p) PROVE Debts'
  BY <1>29, <1>n DEF RunnerWrites, tables, rows, locals, work, memory, aux
<1>30. ASSUME NEW p \in Supervisors, RunnerOk(p) PROVE Debts'
  BY <1>30, <1>n DEF RunnerOk, GoTo, tables, rows, locals, work, memory, aux
<1>31. ASSUME NEW p \in Supervisors, RunnerFails(p) PROVE Debts'
  BY <1>31, <1>n DEF RunnerFails, GoTo, tables, rows, locals, work, memory, aux
<1>32. ASSUME NEW p \in Supervisors, Crash(p) PROVE Debts'
  BY <1>32, <1>n DEF Crash, Exit, tables, rows, locals, work, memory, aux
<1>33. ASSUME NEW s \in Scopes, LateAnswer(s) PROVE Debts'
  BY <1>33 DEF LateAnswer, tables, rows, locals, work, memory, aux
<1>34. ASSUME Tick PROVE Debts'
  BY <1>34 DEF Tick, tables, rows, locals, work, memory, aux
<1>35. ASSUME UNCHANGED vars PROVE Debts'
  BY <1>35 DEF vars, tables, rows, locals, work, memory, aux
<1> QED
  BY <1>1, <1>2, <1>3, <1>4, <1>5, <1>6, <1>7, <1>8, <1>9, <1>10, <1>11, <1>12, <1>13, <1>14,
     <1>15, <1>16, <1>17, <1>18, <1>19, <1>20, <1>21, <1>22, <1>23, <1>24, <1>25, <1>26, <1>27,
     <1>28, <1>29, <1>30, <1>31, <1>32, <1>33, <1>34, <1>35 DEF Next, Step, RunnerReturns

\* Under the repo lock an attempt never classifies a file that was in the inbox when it
\* claimed its scope (dispatch_scope deletes the file after the claim).
THEOREM AnswersAreFresh == ASSUME RepoLock PROVE Spec => []NoStaleAnswer
<1>1. AccountInv /\ [Next]_vars => AccountInv'
  BY AccountStep
<1>2. AccountInv => NoStaleAnswer
  BY DEF AccountInv, Debts, AttemptOf, NoStaleAnswer
<1> QED
  BY <1>1, <1>2, AccountInit, PTL DEF Spec

\* R6: under the repo lock an invocation that is about to report its run complete has
\* each scope in state.json, examined or stated as failed, except those that it met
\* leased (run_wave, _apply_wave_results).
THEOREM NoSilentGap == ASSUME RepoLock PROVE Spec => []FinishLeavesNoGap
<1>1. AccountInv /\ [Next]_vars => AccountInv'
  BY AccountStep
<1>2. AccountInv => FinishLeavesNoGap
  BY DEF AccountInv, Debts, DebtOf, FinishLeavesNoGap
<1> QED
  BY <1>1, <1>2, AccountInit, PTL DEF Spec

\* An answer stays in the inbox until the attempt it answers has read it: the one process
\* that runs deletes it before its own attempt or after it.
LEMMA AnswerStep ==
  ASSUME TypeInv, OneInvocation, [Next]_vars, NEW p \in Supervisors,
         pc[p] \in {"running", "mark_returned", "classify"}, pc'[p] # "off",
         inbox[cursor[p]] # "none"
  PROVE  inbox'[cursor[p]] = inbox[cursor[p]]
<1>1. \A q \in Supervisors : q # p => pc[q] = "off"
  BY DEF OneInvocation
<1>2. cursor[p] \in Scopes /\ inbox \in [Scopes -> PatchKinds \cup {"none"}]
  BY DEF TypeInv, TypeOK, CursorAtScope, AtScope, Holding, AfterRun
<1>3. ASSUME NEW q \in Supervisors, Unlink(q) \/ ClearInbox(q) PROVE FALSE
  BY <1>1, <1>3 DEF Unlink, ClearInbox
<1>4. ASSUME NEW q \in Supervisors, RunnerWrites(q) PROVE FALSE
  BY <1>1, <1>4 DEF RunnerWrites
<1>5. ASSUME NEW s \in Scopes, LateAnswer(s) PROVE inbox'[cursor[p]] = inbox[cursor[p]]
  BY <1>2, <1>5 DEF LateAnswer
<1>6. ASSUME inbox' = inbox PROVE inbox'[cursor[p]] = inbox[cursor[p]]
  BY <1>6
<1>7. CASE UNCHANGED vars \/ Tick
  BY <1>6, <1>7 DEF vars, Tick, tables
<1>8. ASSUME NEW q \in Supervisors,
             Start(q) \/ Step(q) \/ Heartbeat(q) \/ RunnerReturns(q) \/ Crash(q)
      PROVE  inbox' = inbox
  BY <1>3, <1>8 DEF Start, Step, Heartbeat, RunnerReturns, RunnerOk, RunnerFails, Crash, Reclaim,
     Plan, PickScope, SkipScope, EndWave, Acquire, NotOurs, MarkDispatched, MarkReturned,
     Classify, Settle, ReleaseSettled, ReleaseRetry, ReleaseExhausted, Abandon, AppendComplete,
     AppendFailed, AppendNothing, EndAppend, FoldWave, WriteState, MarkFolded, EndMark, Finish,
     tables
<1> QED
  BY <1>4, <1>5, <1>6, <1>7, <1>8 DEF Next

\* Under the repo lock an answer that is written while its attempt is in flight is still
\* there when _classify_returned reads it.
THEOREM AnswersSurvive == ASSUME RepoLock PROVE Spec => AnswerSurvives
<1>1. FoldInv /\ [Next]_vars => FoldInv'
  BY FoldStep
<1> DEFINE Kept == \A p \in Supervisors :
              pc[p] \in {"running", "mark_returned", "classify"}
              /\ pc'[p] # "off" /\ inbox[cursor[p]] # "none"
              => inbox'[cursor[p]] = inbox[cursor[p]]
<1>2. FoldInv /\ [Next]_vars => [Kept]_vars
  BY AnswerStep DEF FoldInv
<1> QED
  BY <1>1, <1>2, FoldInit, PTL DEF Spec, AnswerSurvives

(***************************************************************************)
(* The documented life cycle of a row, and the answers in flight.          *)
(***************************************************************************)

\* No row says folded before the wave is over but those that --resume skips; and the first
\* invocation finds no row.
NothingNewFolded(p) ==
    pc[p] \in Dispatching =>
        \A s \in Scopes : stage[s] = "folded" => s \in skip[p]

\* What the row of the scope that p drives says at each point of dispatch_scope.
DrivenRow(p) ==
    /\ pc[p] \in {"acquire", "abandon"} \cup Holding => cursor[p] \notin skip[p]
    /\ pc[p] \in BeforeRun => stage[cursor[p]] # "absent"
    /\ pc[p] \in {"running", "mark_returned"} => stage[cursor[p]] = "dispatched"
    /\ pc[p] = "classify" => stage[cursor[p]] = "returned"
    /\ pc[p] = "settle" =>
          \/ outcome[p] = "expired" /\ stage[cursor[p]] = "dispatched"
          \/ /\ outcome[p] \in {"validated", "invalid", "anchors_failed", "empty"}
             /\ stage[cursor[p]] = "returned"
    /\ pc[p] = "release" => stage[cursor[p]] = outcome[p] /\ outcome[p] # "pending"
    /\ pc[p] = "abandon" => stage[cursor[p]] \in RETRY_STATES

\* A result that is reported stays what the row says until mark_folded comes to it.
ReportedRow(p, s) ==
    results[p][s] = "validated" =>
        /\ pc[p] \notin {"off", "reclaim", "plan"}
        /\ pc[p] \in Dispatching => s < cursor[p]
        /\ \/ pc[p] = "mark_folded" /\ s < cursor[p]
           \/ pc[p] = "finish"
           \/ stage[s] = "validated"

Rows ==
    /\ run = "none" =>
          (\A s \in Scopes : stage[s] = "absent") /\ (\A p \in Supervisors : pc[p] = "off")
    /\ \A p \in Supervisors : NothingNewFolded(p) /\ DrivenRow(p)
    /\ \A p \in Supervisors, s \in Scopes : ReportedRow(p, s)

RowInv == FoldInv /\ Rows

\* At the start there is no row.
LEMMA RowInit == Init => RowInv
<1> SUFFICES ASSUME Init PROVE RowInv
  OBVIOUS
<1>1. FoldInv
  BY FoldInit
<1>2. Rows
  BY DEF Init, Rows, NothingNewFolded, DrivenRow, ReportedRow, Dispatching, Holding, BeforeRun,
     AfterRun, NoResults
<1> QED
  BY <1>1, <1>2 DEF RowInv

\* Under the lock only the process that steps can break its rows.
LEMMA RowsNext ==
  ASSUME NEW p \in Supervisors, run' # "none",
         \A q \in Supervisors : q # p =>
            pc'[q] = "off" /\ \A s \in Scopes : results'[q][s] # "validated",
         NothingNewFolded(p)', DrivenRow(p)', \A s \in Scopes : ReportedRow(p, s)'
  PROVE  Rows'
<1>1. ASSUME NEW q \in Supervisors, q # p
      PROVE  NothingNewFolded(q)' /\ DrivenRow(q)' /\ \A s \in Scopes : ReportedRow(q, s)'
  BY <1>1 DEF NothingNewFolded, DrivenRow, ReportedRow, Dispatching, Holding, BeforeRun, AfterRun
<1> QED
  BY <1>1 DEF Rows

\* No step takes a row away from the process that drives it.
LEMMA RowStep ==
  ASSUME RepoLock, Resume, RowInv, [Next]_vars PROVE RowInv'
<1>fold. FoldInv'
  BY FoldStep DEF RowInv
<1> SUFFICES Rows'
  BY <1>fold DEF RowInv
<1> USE ScopeBounds DEF RowInv, FoldInv, OneInvocation, TypeInv, TypeOK, CursorAtScope, AtScope,
   Rows, NothingNewFolded, DrivenRow, ReportedRow, Dispatching, Holding, BeforeRun, AfterRun
<1>n. \A p \in Supervisors : cursor[p] \in Nat
  BY SupervisorAssumption DEF SupervisorAssumption
<1>1. ASSUME NEW p \in Supervisors, Start(p) PROVE Rows'
  BY <1>1, <1>n DEF Start, GoTo, tables, rows, locals, work, memory, aux
<1>2. ASSUME NEW p \in Supervisors, Reclaim(p) PROVE Rows'
  <2>1. run' # "none" /\ pc[p] # "off"
    BY <1>2 DEF Reclaim, GoTo, Leased, RETRY_STATES, tables, rows, locals, work, memory, aux
  <2>2. ASSUME NEW q \in Supervisors, q # p
        PROVE  pc'[q] = "off" /\ \A s \in Scopes : results'[q][s] # "validated"
    <3>1. pc[q] = "off"
      BY <2>1, <2>2
    <3>2. pc'[q] = pc[q] /\ results'[q] = results[q]
      BY <1>2, <2>2 DEF Reclaim, GoTo, Leased, RETRY_STATES, tables, rows, locals, work, memory, aux
    <3>3. \A s \in Scopes : results[q][s] # "validated"
      BY <3>1
    <3> QED
      BY <3>1, <3>2, <3>3
  <2>3. NothingNewFolded(p)'
    BY <1>2, <1>n DEF Reclaim, GoTo, Leased, RETRY_STATES, tables, rows, locals, work, memory, aux
  <2>4. DrivenRow(p)'
    BY <1>2, <1>n DEF Reclaim, GoTo, Leased, RETRY_STATES, tables, rows, locals, work, memory, aux
  <2>5. ASSUME NEW s \in Scopes PROVE ReportedRow(p, s)'
    BY <1>2, <1>n DEF Reclaim, GoTo, Leased, tables, rows, locals, work, memory, aux
  <2> QED
    BY <2>1, <2>2, <2>3, <2>4, <2>5, RowsNext
<1>3. ASSUME NEW p \in Supervisors, Plan(p) PROVE Rows'
  <2>1. run' # "none" /\ pc[p] # "off"
    BY <1>3 DEF Plan, GoTo, tables, rows, locals, work, memory, aux
  <2>2. ASSUME NEW q \in Supervisors, q # p
        PROVE  pc'[q] = "off" /\ \A s \in Scopes : results'[q][s] # "validated"
    <3>1. pc[q] = "off"
      BY <2>1, <2>2
    <3>2. pc'[q] = pc[q] /\ results'[q] = results[q]
      BY <1>3, <2>2 DEF Plan, GoTo, tables, rows, locals, work, memory, aux
    <3>3. \A s \in Scopes : results[q][s] # "validated"
      BY <3>1
    <3> QED
      BY <3>1, <3>2, <3>3
  <2>3. NothingNewFolded(p)'
    BY <1>3, <1>n DEF Plan, GoTo, tables, rows, locals, work, memory, aux
  <2>4. DrivenRow(p)'
    BY <1>3, <1>n DEF Plan, GoTo, tables, rows, locals, work, memory, aux
  <2>5. ASSUME NEW s \in Scopes PROVE ReportedRow(p, s)'
    <3>1. CASE s = cursor[p]
      BY <1>3, <3>1, <1>n DEF Plan, GoTo, tables, rows, locals, work, memory, aux
    <3>2. CASE s # cursor[p]
      <4>1. stage'[s] = stage[s] /\ results'[p][s] = results[p][s]
        BY <1>3, <3>2 DEF Plan, GoTo, tables, rows, locals, work, memory, aux
      <4>2. ReportedRow(p, s) /\ cursor[p] \in Nat /\ s \in Nat
        BY <1>n
      <4> QED
        BY <1>3, <3>2, <4>1, <4>2 DEF Plan, GoTo, locals, work, memory
    <3> QED
      BY <3>1, <3>2
  <2> QED
    BY <2>1, <2>2, <2>3, <2>4, <2>5, RowsNext
<1>4. ASSUME NEW p \in Supervisors, PickScope(p) PROVE Rows'
  BY <1>4, <1>n DEF PickScope, GoTo, tables, rows, locals, work, memory, aux
<1>5. ASSUME NEW p \in Supervisors, SkipScope(p) PROVE Rows'
  BY <1>5, <1>n DEF SkipScope, tables, rows, locals, work, memory, aux
<1>6. ASSUME NEW p \in Supervisors, EndWave(p) PROVE Rows'
  BY <1>6, <1>n DEF EndWave, GoTo, tables, rows, locals, work, memory, aux
<1>7. ASSUME NEW p \in Supervisors, Acquire(p) PROVE Rows'
  <2>1. run' # "none" /\ pc[p] # "off"
    BY <1>7 DEF Acquire, GoTo, RETRY_STATES, tables, rows, locals, work, memory, aux
  <2>2. ASSUME NEW q \in Supervisors, q # p
        PROVE  pc'[q] = "off" /\ \A s \in Scopes : results'[q][s] # "validated"
    <3>1. pc[q] = "off"
      BY <2>1, <2>2
    <3>2. pc'[q] = pc[q] /\ results'[q] = results[q]
      BY <1>7, <2>2 DEF Acquire, GoTo, RETRY_STATES, tables, rows, locals, work, memory, aux
    <3>3. \A s \in Scopes : results[q][s] # "validated"
      BY <3>1
    <3> QED
      BY <3>1, <3>2, <3>3
  <2>3. NothingNewFolded(p)'
    BY <1>7, <1>n DEF Acquire, GoTo, RETRY_STATES, tables, rows, locals, work, memory, aux
  <2>4. DrivenRow(p)'
    BY <1>7, <1>n DEF Acquire, GoTo, RETRY_STATES, tables, rows, locals, work, memory, aux
  <2>5. ASSUME NEW s \in Scopes PROVE ReportedRow(p, s)'
    <3>1. CASE s = cursor[p]
      BY <1>7, <3>1, <1>n DEF Acquire, GoTo, RETRY_STATES, tables, rows, locals, work, memory, aux
    <3>2. CASE s # cursor[p]
      <4>1. stage'[s] = stage[s] /\ results'[p][s] = results[p][s]
        BY <1>7, <3>2 DEF Acquire, GoTo, RETRY_STATES, tables, rows, locals, work, memory, aux
      <4>2. ReportedRow(p, s) /\ cursor[p] \in Nat /\ s \in Nat
        BY <1>n
      <4> QED
        BY <1>7, <3>2, <4>1, <4>2 DEF Acquire, GoTo, RETRY_STATES, locals, work, memory
    <3> QED
      BY <3>1, <3>2
  <2> QED
    BY <2>1, <2>2, <2>3, <2>4, <2>5, RowsNext
<1>8. ASSUME NEW p \in Supervisors, NotOurs(p) PROVE Rows'
  BY <1>8, <1>n DEF NotOurs, GoTo, Report, tables, rows, locals, work, memory, aux
<1>9. ASSUME NEW p \in Supervisors, Unlink(p) PROVE Rows'
  BY <1>9, <1>n DEF Unlink, GoTo, tables, rows, locals, work, memory, aux
<1>10. ASSUME NEW p \in Supervisors, MarkDispatched(p) PROVE Rows'
  <2>1. run' # "none" /\ pc[p] # "off"
    BY <1>10 DEF MarkDispatched, GoTo, SetState, RETRY_STATES, tables, rows, locals, work,
       memory, aux
  <2>2. ASSUME NEW q \in Supervisors, q # p
        PROVE  pc'[q] = "off" /\ \A s \in Scopes : results'[q][s] # "validated"
    <3>1. pc[q] = "off"
      BY <2>1, <2>2
    <3>2. pc'[q] = pc[q] /\ results'[q] = results[q]
      BY <1>10, <2>2 DEF MarkDispatched, GoTo, SetState, RETRY_STATES, tables, rows, locals,
         work, memory, aux
    <3>3. \A s \in Scopes : results[q][s] # "validated"
      BY <3>1
    <3> QED
      BY <3>1, <3>2, <3>3
  <2>3. NothingNewFolded(p)'
    BY <1>10, <1>n DEF MarkDispatched, GoTo, SetState, RETRY_STATES, tables, rows, locals, work,
       memory, aux
  <2>4. DrivenRow(p)'
    BY <1>10, <1>n DEF MarkDispatched, GoTo, SetState, RETRY_STATES, tables, rows, locals, work,
       memory, aux
  <2>5. ASSUME NEW s \in Scopes PROVE ReportedRow(p, s)'
    <3>1. CASE s = cursor[p]
      BY <1>10, <3>1, <1>n DEF MarkDispatched, GoTo, SetState, RETRY_STATES, tables, rows,
         locals, work, memory, aux
    <3>2. CASE s # cursor[p]
      <4>1. stage'[s] = stage[s] /\ results'[p][s] = results[p][s]
        BY <1>10, <3>2 DEF MarkDispatched, GoTo, SetState, RETRY_STATES, tables, rows, locals,
           work, memory, aux
      <4>2. ReportedRow(p, s) /\ cursor[p] \in Nat /\ s \in Nat
        BY <1>n
      <4> QED
        BY <1>10, <3>2, <4>1, <4>2 DEF MarkDispatched, GoTo, SetState, RETRY_STATES, locals,
           work, memory
    <3> QED
      BY <3>1, <3>2
  <2> QED
    BY <2>1, <2>2, <2>3, <2>4, <2>5, RowsNext
<1>11. ASSUME NEW p \in Supervisors, MarkReturned(p) PROVE Rows'
  <2>1. run' # "none" /\ pc[p] # "off"
    BY <1>11 DEF MarkReturned, GoTo, SetState, tables, rows, locals, work, memory, aux
  <2>2. ASSUME NEW q \in Supervisors, q # p
        PROVE  pc'[q] = "off" /\ \A s \in Scopes : results'[q][s] # "validated"
    <3>1. pc[q] = "off"
      BY <2>1, <2>2
    <3>2. pc'[q] = pc[q] /\ results'[q] = results[q]
      BY <1>11, <2>2 DEF MarkReturned, GoTo, SetState, tables, rows, locals, work, memory, aux
    <3>3. \A s \in Scopes : results[q][s] # "validated"
      BY <3>1
    <3> QED
      BY <3>1, <3>2, <3>3
  <2>3. NothingNewFolded(p)'
    BY <1>11, <1>n DEF MarkReturned, GoTo, SetState, tables, rows, locals, work, memory, aux
  <2>4. DrivenRow(p)'
    BY <1>11, <1>n DEF MarkReturned, GoTo, SetState, tables, rows, locals, work, memory, aux
  <2>5. ASSUME NEW s \in Scopes PROVE ReportedRow(p, s)'
    <3>1. CASE s = cursor[p]
      BY <1>11, <3>1, <1>n DEF MarkReturned, GoTo, SetState, tables, rows, locals, work, memory, aux
    <3>2. CASE s # cursor[p]
      <4>1. stage'[s] = stage[s] /\ results'[p][s] = results[p][s]
        BY <1>11, <3>2 DEF MarkReturned, GoTo, SetState, tables, rows, locals, work, memory, aux
      <4>2. ReportedRow(p, s) /\ cursor[p] \in Nat /\ s \in Nat
        BY <1>n
      <4> QED
        BY <1>11, <3>2, <4>1, <4>2 DEF MarkReturned, GoTo, SetState, locals, work, memory
    <3> QED
      BY <3>1, <3>2
  <2> QED
    BY <2>1, <2>2, <2>3, <2>4, <2>5, RowsNext
<1>12. ASSUME NEW p \in Supervisors, Classify(p) PROVE Rows'
  BY <1>12, <1>n DEF Classify, GoTo, Verdict, tables, rows, locals, work, memory, aux
<1>13. ASSUME NEW p \in Supervisors, Settle(p) PROVE Rows'
  BY <1>13, <1>n DEF Settle, GoTo, SetState, RETRY_STATES, tables, rows, locals, work, memory, aux
<1>14. ASSUME NEW p \in Supervisors, ReleaseSettled(p) PROVE Rows'
  BY <1>14, <1>n DEF ReleaseSettled, GoTo, Report, Free, tables, rows, locals, work, memory, aux
<1>15. ASSUME NEW p \in Supervisors, ReleaseRetry(p) PROVE Rows'
  BY <1>15, <1>n DEF ReleaseRetry, GoTo, Free, RETRY_STATES, tables, rows, locals, work, memory, aux
<1>16. ASSUME NEW p \in Supervisors, ReleaseExhausted(p) PROVE Rows'
  BY <1>16, <1>n DEF ReleaseExhausted, GoTo, Free, tables, rows, locals, work, memory, aux
<1>17. ASSUME NEW p \in Supervisors, Abandon(p) PROVE Rows'
  <2>1. run' # "none" /\ pc[p] # "off"
    BY <1>17 DEF Abandon, GoTo, Report, SetState, RETRY_STATES, tables, rows, locals, work,
       memory, aux
  <2>2. ASSUME NEW q \in Supervisors, q # p
        PROVE  pc'[q] = "off" /\ \A s \in Scopes : results'[q][s] # "validated"
    <3>1. pc[q] = "off"
      BY <2>1, <2>2
    <3>2. pc'[q] = pc[q] /\ results'[q] = results[q]
      BY <1>17, <2>2 DEF Abandon, GoTo, Report, SetState, RETRY_STATES, tables, rows, locals,
         work, memory, aux
    <3>3. \A s \in Scopes : results[q][s] # "validated"
      BY <3>1
    <3> QED
      BY <3>1, <3>2, <3>3
  <2>3. NothingNewFolded(p)'
    BY <1>17, <1>n DEF Abandon, GoTo, Report, SetState, RETRY_STATES, tables, rows, locals, work,
       memory, aux
  <2>4. DrivenRow(p)'
    BY <1>17, <1>n DEF Abandon, GoTo, Report, SetState, RETRY_STATES, tables, rows, locals, work,
       memory, aux
  <2>5. ASSUME NEW s \in Scopes PROVE ReportedRow(p, s)'
    <3>1. CASE s = cursor[p]
      BY <1>17, <3>1, <1>n DEF Abandon, GoTo, Report, SetState, RETRY_STATES, tables, rows,
         locals, work, memory, aux
    <3>2. CASE s # cursor[p]
      <4>1. stage'[s] = stage[s] /\ results'[p][s] = results[p][s]
        BY <1>17, <3>2 DEF Abandon, GoTo, Report, SetState, RETRY_STATES, tables, rows, locals,
           work, memory, aux
      <4>2. ReportedRow(p, s) /\ cursor[p] \in Nat /\ s \in Nat
        BY <1>n
      <4> QED
        BY <1>17, <3>2, <4>1, <4>2 DEF Abandon, GoTo, Report, SetState, RETRY_STATES, locals,
           work, memory
    <3> QED
      BY <3>1, <3>2
  <2> QED
    BY <2>1, <2>2, <2>3, <2>4, <2>5, RowsNext
<1>18. ASSUME NEW p \in Supervisors, AppendComplete(p) PROVE Rows'
  BY <1>18, <1>n DEF AppendComplete, GoTo, tables, rows, locals, work, memory, aux
<1>19. ASSUME NEW p \in Supervisors, ClearInbox(p) PROVE Rows'
  BY <1>19, <1>n DEF ClearInbox, GoTo, Advance, tables, rows, locals, work, memory, aux
<1>20. ASSUME NEW p \in Supervisors, AppendFailed(p) PROVE Rows'
  BY <1>20, <1>n DEF AppendFailed, Advance, tables, rows, locals, work, memory, aux
<1>21. ASSUME NEW p \in Supervisors, AppendNothing(p) PROVE Rows'
  BY <1>21, <1>n DEF AppendNothing, Advance, tables, rows, locals, work, memory, aux
<1>22. ASSUME NEW p \in Supervisors, EndAppend(p) PROVE Rows'
  BY <1>22, <1>n DEF EndAppend, GoTo, tables, rows, locals, work, memory, aux
<1>23. ASSUME NEW p \in Supervisors, FoldWave(p) PROVE Rows'
  BY <1>23, <1>n DEF FoldWave, GoTo, FoldedStatus, tables, rows, locals, work, memory, aux
<1>24. ASSUME NEW p \in Supervisors, WriteState(p) PROVE Rows'
  BY <1>24, <1>n DEF WriteState, GoTo, tables, rows, locals, work, memory, aux
<1>25. ASSUME NEW p \in Supervisors, MarkFolded(p) PROVE Rows'
  <2>1. run' # "none" /\ pc[p] # "off"
    BY <1>25 DEF MarkFolded, Advance, RETRY_STATES, tables, rows, locals, work, memory, aux
  <2>2. ASSUME NEW q \in Supervisors, q # p
        PROVE  pc'[q] = "off" /\ \A s \in Scopes : results'[q][s] # "validated"
    <3>1. pc[q] = "off"
      BY <2>1, <2>2
    <3>2. pc'[q] = pc[q] /\ results'[q] = results[q]
      BY <1>25, <2>2 DEF MarkFolded, Advance, RETRY_STATES, tables, rows, locals, work, memory, aux
    <3>3. \A s \in Scopes : results[q][s] # "validated"
      BY <3>1
    <3> QED
      BY <3>1, <3>2, <3>3
  <2>3. NothingNewFolded(p)'
    BY <1>25, <1>n DEF MarkFolded, Advance, RETRY_STATES, tables, rows, locals, work, memory, aux
  <2>4. DrivenRow(p)'
    BY <1>25, <1>n DEF MarkFolded, Advance, RETRY_STATES, tables, rows, locals, work, memory, aux
  <2>5. ASSUME NEW s \in Scopes PROVE ReportedRow(p, s)'
    <3>1. CASE s = cursor[p]
      BY <1>25, <3>1, <1>n DEF MarkFolded, Advance, RETRY_STATES, tables, rows, locals, work,
         memory, aux
    <3>2. CASE s # cursor[p]
      <4>1. stage'[s] = stage[s] /\ results'[p][s] = results[p][s]
        BY <1>25, <3>2 DEF MarkFolded, Advance, RETRY_STATES, tables, rows, locals, work, memory,
           aux
      <4>2. ReportedRow(p, s) /\ cursor[p] \in Nat /\ s \in Nat
        BY <1>n
      <4> QED
        BY <1>25, <3>2, <4>1, <4>2 DEF MarkFolded, Advance, RETRY_STATES, locals, work, memory
    <3> QED
      BY <3>1, <3>2
  <2> QED
    BY <2>1, <2>2, <2>3, <2>4, <2>5, RowsNext
<1>26. ASSUME NEW p \in Supervisors, EndMark(p) PROVE Rows'
  BY <1>26, <1>n DEF EndMark, GoTo, tables, rows, locals, work, memory, aux
<1>27. ASSUME NEW p \in Supervisors, Finish(p) PROVE Rows'
  BY <1>27, <1>n DEF Finish, Exit, NoResults, tables, rows, locals, work, memory, aux
<1>28. ASSUME NEW p \in Supervisors, Heartbeat(p) PROVE Rows'
  BY <1>28, <1>n DEF Heartbeat, tables, rows, locals, work, memory, aux
<1>29. ASSUME NEW p \in Supervisors, RunnerWrites(p) PROVE Rows'
  BY <1>29, <1>n DEF RunnerWrites, tables, rows, locals, work, memory, aux
<1>30. ASSUME NEW p \in Supervisors, RunnerOk(p) PROVE Rows'
  BY <1>30, <1>n DEF RunnerOk, GoTo, tables, rows, locals, work, memory, aux
<1>31. ASSUME NEW p \in Supervisors, RunnerFails(p) PROVE Rows'
  BY <1>31, <1>n DEF RunnerFails, GoTo, RETRY_STATES, tables, rows, locals, work, memory, aux
<1>32. ASSUME NEW p \in Supervisors, Crash(p) PROVE Rows'
  BY <1>32, <1>n DEF Crash, Exit, NoResults, tables, rows, locals, work, memory, aux
<1>33. ASSUME NEW s \in Scopes, LateAnswer(s) PROVE Rows'
  BY <1>33 DEF LateAnswer, tables, rows, locals, work, memory, aux
<1>34. ASSUME Tick PROVE Rows'
  BY <1>34 DEF Tick, tables, rows, locals, work, memory, aux
<1>35. ASSUME UNCHANGED vars PROVE Rows'
  BY <1>35 DEF vars, tables, rows, locals, work, memory, aux
<1> QED
  BY <1>1, <1>2, <1>3, <1>4, <1>5, <1>6, <1>7, <1>8, <1>9, <1>10, <1>11, <1>12, <1>13, <1>14,
     <1>15, <1>16, <1>17, <1>18, <1>19, <1>20, <1>21, <1>22, <1>23, <1>24, <1>25, <1>26, <1>27,
     <1>28, <1>29, <1>30, <1>31, <1>32, <1>33, <1>34, <1>35 DEF Next, Step, RunnerReturns

(***************************************************************************)
(* Every step of the program is a step of the documented life cycle.       *)
(***************************************************************************)
Unseen == stage' = stage /\ Answered' = Answered

\* A step that touches neither the rows nor the log is not seen.
LEMMA UnseenSteps ==
  ASSUME stage' = stage, log' = log
  PROVE  Unseen
  BY DEF Unseen, Answered, Scopes, Patch

\* The row steps of dispatch_scope, append_patch and mark_folded.
LEMMA LifecycleStep ==
  ASSUME RepoLock, Resume, RowInv, [Next]_vars
  PROVE  [Lifecycle!Next]_<<stage, Answered>>
<1> DEFINE Goal == \/ Lifecycle!Next
                   \/ stage' = stage /\ Answered' = Answered
<1> SUFFICES Goal
  OBVIOUS
<1>u. Unseen => Goal
  BY DEF Unseen
<1>o. ASSUME NEW s \in Scopes, Answered' = Answered,
             \/ Lifecycle!Enqueue(s) \/ Lifecycle!Dispatch(s) \/ Lifecycle!Return(s)
             \/ Lifecycle!Judge(s) \/ Lifecycle!GiveUp(s) \/ Lifecycle!Fold(s)
      PROVE  Goal
  BY <1>o DEF Lifecycle!Next
<1>l. log' = log => Answered' = Answered
  BY DEF Answered, Scopes, Patch
<1>t. stage \in [Scopes -> TaskStates \cup {"absent"}]
  BY DEF RowInv, FoldInv, TypeInv, TypeOK
<1>s. \A p \in Supervisors : pc[p] \in AtScope => cursor[p] \in Scopes
  BY DEF RowInv, FoldInv, TypeInv, CursorAtScope
<1> DEFINE Driven == \A p \in Supervisors : NothingNewFolded(p) /\ DrivenRow(p)
<1>d. Driven /\ \A p \in Supervisors, s \in Scopes : ReportedRow(p, s)
  BY DEF RowInv, Rows
<1> HIDE DEF Goal, Driven
<1>reclaim. ASSUME NEW p \in Supervisors, Reclaim(p) PROVE Goal
  <2> DEFINE late == {s \in Scopes : stage[s] = "dispatched" /\ ~Leased(s)}
  <2>1. Lifecycle!Expire(late)
    BY <1>reclaim DEF Reclaim, Lifecycle!Expire
  <2>2. Answered' = Answered /\ late \in SUBSET Scopes
    BY <1>reclaim, <1>l DEF Reclaim
  <2> HIDE DEF late
  <2> QED
    BY <2>1, <2>2 DEF Goal, Lifecycle!Next
<1>acquire. ASSUME NEW p \in Supervisors, Acquire(p) PROVE Goal
  <2>1. cursor[p] \in Scopes /\ Answered' = Answered
    BY <1>acquire, <1>s, <1>l DEF Acquire, AtScope
  <2>2. CASE stage[cursor[p]] = "absent"
    BY <1>acquire, <2>1, <2>2, <1>o DEF Acquire, Lifecycle!Enqueue, Lifecycle!Become
  <2>3. CASE stage[cursor[p]] # "absent"
    <3>1. stage' = stage
      BY <1>acquire, <2>1, <2>3, <1>t DEF Acquire
    <3> QED
      BY <3>1, <2>1 DEF Goal
  <2> QED
    BY <2>2, <2>3
<1>dispatch. ASSUME NEW p \in Supervisors, MarkDispatched(p) PROVE Goal
  <2>1. cursor[p] \in Scopes /\ Answered' = Answered
    BY <1>dispatch, <1>s, <1>l DEF MarkDispatched, AtScope, Holding, BeforeRun
  <2>2. stage[cursor[p]] \notin {"absent", "folded"}
    BY <1>dispatch, <2>1, <1>d DEF MarkDispatched, Driven, NothingNewFolded, DrivenRow,
       Dispatching, Holding, BeforeRun
  <2> QED
    BY <1>dispatch, <2>1, <2>2, <1>o DEF MarkDispatched, SetState, Lifecycle!Dispatch,
       Lifecycle!Become
<1>return. ASSUME NEW p \in Supervisors, MarkReturned(p) PROVE Goal
  <2>1. cursor[p] \in Scopes /\ Answered' = Answered
    BY <1>return, <1>s, <1>l DEF MarkReturned, AtScope, Holding, AfterRun
  <2>2. stage[cursor[p]] = "dispatched"
    BY <1>return, <1>d DEF MarkReturned, Driven, DrivenRow
  <2> QED
    BY <1>return, <2>1, <2>2, <1>o DEF MarkReturned, SetState, Lifecycle!Return,
       Lifecycle!Become
<1>settle. ASSUME NEW p \in Supervisors, Settle(p) PROVE Goal
  <2>1. cursor[p] \in Scopes /\ Answered' = Answered
    BY <1>settle, <1>s, <1>l DEF Settle, AtScope, Holding, AfterRun
  <2>2. stage' = [stage EXCEPT ![cursor[p]] = outcome[p]]
    BY <1>settle DEF Settle, SetState
  <2>3. CASE outcome[p] = "expired" /\ stage[cursor[p]] = "dispatched"
    <3>1. Lifecycle!Expire({cursor[p]})
      BY <2>1, <2>2, <2>3, <1>t DEF Lifecycle!Expire
    <3>2. {cursor[p]} \in SUBSET Scopes
      BY <2>1
    <3> QED
      BY <3>1, <3>2, <2>1 DEF Goal, Lifecycle!Next
  <2>4. CASE /\ outcome[p] \in {"validated", "invalid", "anchors_failed", "empty"}
             /\ stage[cursor[p]] = "returned"
    BY <2>1, <2>2, <2>4, <1>o DEF Lifecycle!Judge, Lifecycle!Become
  <2> QED
    BY <1>settle, <1>d, <2>3, <2>4 DEF Settle, Driven, DrivenRow
<1>abandon. ASSUME NEW p \in Supervisors, Abandon(p) PROVE Goal
  <2>1. cursor[p] \in Scopes /\ Answered' = Answered
    BY <1>abandon, <1>s, <1>l DEF Abandon, AtScope
  <2>2. stage[cursor[p]] \in RETRY_STATES
    BY <1>abandon, <1>d DEF Abandon, Driven, DrivenRow
  <2> QED
    BY <1>abandon, <2>1, <2>2, <1>o DEF Abandon, SetState, Lifecycle!GiveUp, Lifecycle!Become,
       RETRY_STATES, Lifecycle!RetryStates
<1>answer. ASSUME NEW p \in Supervisors, AppendComplete(p) PROVE Goal
  <2>1. cursor[p] \in Scopes /\ stage[cursor[p]] = "validated"
    BY <1>answer, <1>d DEF AppendComplete, ReportedRow
  <2>2. Answered' = Answered \cup {cursor[p]}
    BY <1>answer, <2>1 DEF AppendComplete, Answered, Patch
  <2> QED
    BY <1>answer, <2>1, <2>2 DEF AppendComplete, rows, Goal, Lifecycle!Next, Lifecycle!Answer
<1>failed. ASSUME NEW p \in Supervisors, AppendFailed(p) PROVE Goal
  <2>1. Answered' = Answered
    BY <1>failed DEF AppendFailed, Answered, Patch
  <2> QED
    BY <1>failed, <2>1 DEF AppendFailed, rows, Goal
<1>fold. ASSUME NEW p \in Supervisors, MarkFolded(p) PROVE Goal
  <2>1. cursor[p] \in Scopes /\ Answered' = Answered
    BY <1>fold, <1>l DEF MarkFolded
  <2>2. CASE results[p][cursor[p]] = "validated"
    <3>1. stage[cursor[p]] = "validated"
      <4>1. ReportedRow(p, cursor[p]) /\ cursor[p] \in Nat
        BY <2>1, <1>d, ScopeBounds
      <4> QED
        BY <1>fold, <2>2, <4>1 DEF MarkFolded, ReportedRow
    <3>2. cursor[p] \in Answered
      <4>1. ApplyProgressOf(p, cursor[p])
        BY <2>1 DEF RowInv, FoldInv, ApplyProgress
      <4> QED
        BY <1>fold, <2>1, <2>2, <4>1 DEF MarkFolded, ApplyProgressOf, Logged, Answered
    <3>3. Lifecycle!Fold(cursor[p])
      BY <1>fold, <2>2, <3>1, <3>2 DEF MarkFolded, Lifecycle!Fold, Lifecycle!Become
    <3> QED
      BY <3>3, <2>1, <1>o
  <2>3. CASE results[p][cursor[p]] # "validated"
    BY <1>fold, <2>1, <2>3 DEF MarkFolded, Goal
  <2> QED
    BY <2>2, <2>3
<1>1. ASSUME NEW p \in Supervisors, Start(p) PROVE Goal
  BY <1>1, <1>u, UnseenSteps DEF Start, tables, rows, aux
<1>2. ASSUME NEW p \in Supervisors, Plan(p) PROVE Goal
  BY <1>2, <1>u, UnseenSteps DEF Plan, tables, rows, aux
<1>3. ASSUME NEW p \in Supervisors, PickScope(p) PROVE Goal
  BY <1>3, <1>u, UnseenSteps DEF PickScope, tables, rows, aux
<1>4. ASSUME NEW p \in Supervisors, SkipScope(p) PROVE Goal
  BY <1>4, <1>u, UnseenSteps DEF SkipScope, tables, rows, aux
<1>5. ASSUME NEW p \in Supervisors, EndWave(p) PROVE Goal
  BY <1>5, <1>u, UnseenSteps DEF EndWave, tables, rows, aux
<1>6. ASSUME NEW p \in Supervisors, NotOurs(p) PROVE Goal
  BY <1>6, <1>u, UnseenSteps DEF NotOurs, tables, rows, aux
<1>7. ASSUME NEW p \in Supervisors, Unlink(p) PROVE Goal
  BY <1>7, <1>u, UnseenSteps DEF Unlink, tables, rows, aux
<1>8. ASSUME NEW p \in Supervisors, Classify(p) PROVE Goal
  BY <1>8, <1>u, UnseenSteps DEF Classify, tables, rows, aux
<1>9. ASSUME NEW p \in Supervisors, ReleaseSettled(p) PROVE Goal
  BY <1>9, <1>u, UnseenSteps DEF ReleaseSettled, tables, rows, aux
<1>10. ASSUME NEW p \in Supervisors, ReleaseRetry(p) PROVE Goal
  BY <1>10, <1>u, UnseenSteps DEF ReleaseRetry, tables, rows, aux
<1>11. ASSUME NEW p \in Supervisors, ReleaseExhausted(p) PROVE Goal
  BY <1>11, <1>u, UnseenSteps DEF ReleaseExhausted, tables, rows, aux
<1>12. ASSUME NEW p \in Supervisors, ClearInbox(p) PROVE Goal
  BY <1>12, <1>u, UnseenSteps DEF ClearInbox, tables, rows, aux
<1>13. ASSUME NEW p \in Supervisors, AppendNothing(p) PROVE Goal
  BY <1>13, <1>u, UnseenSteps DEF AppendNothing, tables, rows, aux
<1>14. ASSUME NEW p \in Supervisors, EndAppend(p) PROVE Goal
  BY <1>14, <1>u, UnseenSteps DEF EndAppend, tables, rows, aux
<1>15. ASSUME NEW p \in Supervisors, FoldWave(p) PROVE Goal
  BY <1>15, <1>u, UnseenSteps DEF FoldWave, tables, rows, aux
<1>16. ASSUME NEW p \in Supervisors, WriteState(p) PROVE Goal
  BY <1>16, <1>u, UnseenSteps DEF WriteState, tables, rows, aux
<1>17. ASSUME NEW p \in Supervisors, EndMark(p) PROVE Goal
  BY <1>17, <1>u, UnseenSteps DEF EndMark, tables, rows, aux
<1>18. ASSUME NEW p \in Supervisors, Finish(p) PROVE Goal
  BY <1>18, <1>u, UnseenSteps DEF Finish, tables, rows, aux
<1>19. ASSUME NEW p \in Supervisors, Heartbeat(p) PROVE Goal
  BY <1>19, <1>u, UnseenSteps DEF Heartbeat, tables, rows, aux
<1>20. ASSUME NEW p \in Supervisors, RunnerWrites(p) PROVE Goal
  BY <1>20, <1>u, UnseenSteps DEF RunnerWrites, tables, rows, aux
<1>21. ASSUME NEW p \in Supervisors, RunnerOk(p) PROVE Goal
  BY <1>21, <1>u, UnseenSteps DEF RunnerOk, tables, rows, aux
<1>22. ASSUME NEW p \in Supervisors, RunnerFails(p) PROVE Goal
  BY <1>22, <1>u, UnseenSteps DEF RunnerFails, tables, rows, aux
<1>23. ASSUME NEW p \in Supervisors, Crash(p) PROVE Goal
  BY <1>23, <1>u, UnseenSteps DEF Crash, tables, rows, aux
<1>24. ASSUME NEW s \in Scopes, LateAnswer(s) PROVE Goal
  BY <1>24, <1>u, UnseenSteps DEF LateAnswer, tables, rows, aux
<1>25. ASSUME Tick PROVE Goal
  BY <1>25, <1>u, UnseenSteps DEF Tick, tables, rows, aux
<1>26. ASSUME UNCHANGED vars PROVE Goal
  BY <1>26, <1>u, UnseenSteps DEF vars, tables, rows, aux
<1> QED
  BY <1>reclaim, <1>acquire, <1>dispatch, <1>return, <1>settle, <1>abandon, <1>answer, <1>failed,
     <1>fold, <1>1, <1>2, <1>3, <1>4, <1>5, <1>6, <1>7, <1>8, <1>9, <1>10, <1>11, <1>12, <1>13,
     <1>14, <1>15, <1>16, <1>17, <1>18, <1>19, <1>20, <1>21, <1>22, <1>23, <1>24, <1>25, <1>26
     DEF Next, Step, RunnerReturns

\* Under the repo lock with --resume every step of `cdp run` is a step of the task state
\* machine the docstring of supervisor.py draws, or leaves the rows alone, whatever
\* crashed, however late an answer came and however often an attempt was retried.
THEOREM LifecycleIsImplemented ==
  ASSUME RepoLock, Resume PROVE Spec => LifecycleHolds
<1>1. Init => Lifecycle!Init
  BY DEF Init, Lifecycle!Init, Answered
<1>2. RowInv /\ [Next]_vars => RowInv'
  BY RowStep
<1>3. RowInv /\ [Next]_vars => [Lifecycle!Next]_<<stage, Answered>>
  BY LifecycleStep
<1> QED
  BY <1>1, <1>2, <1>3, RowInit, PTL DEF Spec, LifecycleHolds, Lifecycle!Spec
=============================================================================
