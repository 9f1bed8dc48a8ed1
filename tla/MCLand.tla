------------------------------- MODULE MCLand -------------------------------
(* Land on a few cells in two chunks, 1 and 2. *)
EXTENDS Land

CONSTANTS a1, a2, b1, b2, b3

Order(cells, partial, agreed, build) ==
    [cells |-> cells, partial |-> partial, agreed |-> agreed, build |-> build]

\* One cell in each chunk: two buyers who take them in opposite orders, and a building.
TwoCells == {a1, b1}
TwoChunkOf == [c \in TwoCells |-> IF c = b1 THEN 2 ELSE 1]
TwoPrices == [c \in TwoCells |-> 1]
TwoOrders == {Order(<<a1, b1>>, TRUE, TRUE, FALSE), Order(<<b1>>, TRUE, FALSE, FALSE),
              Order(<<a1, b1>>, FALSE, TRUE, FALSE), Order(<<a1, b1>>, FALSE, FALSE, TRUE)}

\* Enough cells for one buyer to build on a1 and b1, owning a1, while the other buys a2 and b2.
MoreCells == {a1, a2, b1, b2, b3}
MoreChunkOf == [c \in MoreCells |-> IF c \in {b1, b2, b3} THEN 2 ELSE 1]
MorePrices == [c \in MoreCells |-> 1]
MoreOrders == {Order(<<a1, b3>>, FALSE, FALSE, FALSE), Order(<<a2, b2>>, FALSE, FALSE, FALSE),
               Order(<<a1, b1>>, FALSE, FALSE, TRUE)}
=============================================================================
