--------------------------- MODULE MCShipmentCost ---------------------------
(* Inputs on both sides of every boundary of the tables of ShipmentCost. *)
EXTENDS ShipmentCost

Around(n) == {n - 1, n, n + 1}
BoundaryDistances ==
  {0, 1} \cup UNION {Around(n) : n \in {50000, 100000, 200000, 300000, 1000000}}
BoundaryWeights == {1, 500} \cup UNION {Around(n) : n \in {1000, 2000, 10000}}
=============================================================================
