------------------------------ MODULE MCBooks ------------------------------
(* Small instance of Books: three order ids, three prices, quantities 1..2.   *)
(* Order ids are only compared for equality, so they are interchangeable.   *)
EXTENDS Books

CONSTANTS o1, o2, o3

MCPrices == 1..3
MCLvIds  == 1..9
Symmetry == Permutations(OrderIds)
=============================================================================
