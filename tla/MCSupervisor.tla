---------------------------- MODULE MCSupervisor ----------------------------
(* Instances of Supervisor for TLC. *)
EXTENDS Supervisor, TLC

CONSTANTS p1, p2

Symmetry == Permutations({p1, p2})

Kinds == {"good", "hollow"}
GoodOnly == {"good"}
=============================================================================
