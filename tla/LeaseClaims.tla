---------------------------- MODULE LeaseClaims ----------------------------
(***************************************************************************)
(* What a lease is for, without rows, times or heartbeats: each scope has  *)
(* at most one holder; a scope is claimed only when nobody holds it, by a  *)
(* supervisor that holds nothing else, and only its holder gives it up, by *)
(* releasing it or by dying. No step moves a scope between two holders.    *)
(***************************************************************************)
CONSTANTS Supervisors, Scopes, NoOne

VARIABLE holder

Init == holder = [s \in Scopes |-> NoOne]

Claim(p, s) ==
    /\ holder[s] = NoOne
    /\ \A t \in Scopes : holder[t] # p
    /\ holder' = [holder EXCEPT ![s] = p]

GiveUp(p, s) ==
    /\ holder[s] = p
    /\ holder' = [holder EXCEPT ![s] = NoOne]

Next == \E p \in Supervisors, s \in Scopes : Claim(p, s) \/ GiveUp(p, s)

Spec == Init /\ [][Next]_holder
=============================================================================
