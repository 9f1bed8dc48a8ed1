----------------------------- MODULE MCEventSync -----------------------------
(* EventSync on small instances: one player, two entities, two or three events. *)
EXTENDS EventSync

CONSTANTS e1, e2, c1, o1, o2

Symmetry == Permutations({e1, e2}) \cup Permutations({o1, o2})
=============================================================================
