------------------------------- MODULE LandSale -------------------------------
(***************************************************************************)
(* What a purchase of land promises (modules/land/service.ts, step 1 to 4, *)
(* and POST /buildings): it takes effect at one moment, on the land that   *)
(* is free at that moment, at its price.  It takes all that is free of the *)
(* selection; less than the selection only if the request allowed a part,  *)
(* and no other sum than the one quoted if the request carried it.         *)
(***************************************************************************)
EXTENDS Integers

CONSTANTS
    Buyers, Nobody, Cells,
    Price,           \* of land: [SUBSET Cells -> Nat]
    StructurePrice,  \* of a building on them: [SUBSET Cells -> Nat]
    Opening,
    Orders           \* [cells, partial, agreed, build], of sets of cells

VARIABLES land, balance

Wild == [owner |-> Nobody, built |-> FALSE]
Mine(p, built) == [owner |-> p, built |-> built]

Init ==
    /\ land = [c \in Cells |-> Wild]
    /\ balance = [p \in Buyers |-> Opening]

Free(o) == {c \in o.cells : land[c] = Wild}

Pay(p, sum) == sum <= balance[p] /\ balance' = [balance EXCEPT ![p] = @ - sum]

Become(p, cells, built) ==
    land' = [c \in Cells |-> IF c \in cells THEN Mine(p, built) ELSE land[c]]

Buy(p, o) ==
    /\ ~o.build
    /\ o.partial \/ Free(o) = o.cells
    /\ o.agreed => Price[Free(o)] = Price[o.cells]
    /\ Pay(p, Price[Free(o)])
    /\ Become(p, Free(o), FALSE)

\* A building also stands on free land of its owner.
Build(p, o) ==
    /\ o.build
    /\ \A c \in o.cells : land[c] \in {Wild, Mine(p, FALSE)}
    /\ Pay(p, Price[Free(o)] + StructurePrice[o.cells])
    /\ Become(p, o.cells, TRUE)

Next == \E p \in Buyers, o \in Orders : Buy(p, o) \/ Build(p, o)

Spec == Init /\ [][Next]_<<land, balance>>
===============================================================================
