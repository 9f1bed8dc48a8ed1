----------------------------- MODULE MCHolding -----------------------------
(* Holding on small sets of workers, machines and tasks. *)
EXTENDS Holding, TLC

MCPrice == [wage |-> 1, upkeep |-> 1, running |-> 1, machine |-> 2, repair |-> 1,
            silo |-> 2, resale |-> 2, siloResale |-> 1, unit |-> 5, other |-> 4]
=============================================================================
