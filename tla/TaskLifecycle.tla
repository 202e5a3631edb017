--------------------------- MODULE TaskLifecycle ---------------------------
(***************************************************************************)
(* The task state machine the docstring of cdp/supervisor.py draws:        *)
(*                                                                         *)
(*   pending -> dispatched -> returned -> validated -> folded              *)
(*   dispatched -> expired                                                 *)
(*   returned -> invalid | anchors_failed | empty                          *)
(*   expired | invalid | anchors_failed | empty -> dispatched | abandoned  *)
(*                                                                         *)
(* extended by the redispatch of a scope whose supervisor died, or that a  *)
(* later invocation takes up again. A folded scope is never redispatched.  *)
(***************************************************************************)
CONSTANT Scopes

VARIABLES
    stage,    \* what the record of the scope says
    answered  \* the scopes with a complete patch in the log

RetryStates == {"expired", "invalid", "anchors_failed", "empty"}

Init ==
    /\ stage = [s \in Scopes |-> "absent"]
    /\ answered = {}

Become(s, new) == stage' = [stage EXCEPT ![s] = new]

Enqueue(s) == stage[s] = "absent" /\ Become(s, "pending")

Dispatch(s) == stage[s] \notin {"absent", "folded"} /\ Become(s, "dispatched")

Return(s) == stage[s] = "dispatched" /\ Become(s, "returned")

Judge(s) ==
    /\ stage[s] = "returned"
    /\ \E verdict \in {"validated", "invalid", "anchors_failed", "empty"} :
         Become(s, verdict)

\* One runner that failed, or every scope whose supervisor is presumed dead.
Expire(late) ==
    /\ \A s \in late : stage[s] = "dispatched"
    /\ stage' = [s \in Scopes |-> IF s \in late THEN "expired" ELSE stage[s]]

GiveUp(s) == stage[s] \in RetryStates /\ Become(s, "abandoned")

Answer(s) ==
    /\ stage[s] = "validated"
    /\ answered' = answered \cup {s}
    /\ UNCHANGED stage

Fold(s) ==
    /\ stage[s] = "validated"
    /\ s \in answered
    /\ Become(s, "folded")

Next ==
    \/ \E s \in Scopes :
         \/ Answer(s)
         \/ /\ Enqueue(s) \/ Dispatch(s) \/ Return(s) \/ Judge(s)
               \/ GiveUp(s) \/ Fold(s)
            /\ UNCHANGED answered
    \/ \E late \in SUBSET Scopes : Expire(late) /\ UNCHANGED answered

Spec == Init /\ [][Next]_<<stage, answered>>
=============================================================================
