--------------------------- MODULE MCSalesOrders ---------------------------
(***************************************************************************)
(* SalesOrders on two orders that compete for one product: the second does *)
(* not fit beside the first and a direct sale.                             *)
(***************************************************************************)
EXTENDS SalesOrders, TLC

CONSTANTS o1, o2, p1, p2

MCOrders == {o1, o2}
MCLines == o1 :> (p1 :> 2) @@ o2 :> (p1 :> 1)
MCInitialStock == p1 :> 3

\* Two products: the first order has two lines, and the second takes the last
\* unit of one of them.
MCTwoLines == o1 :> (p1 :> 2 @@ p2 :> 1) @@ o2 :> (p1 :> 0 @@ p2 :> 1)
MCTwoStocks == p1 :> 3 @@ p2 :> 1

MCSaleQuantities == {1}
MCNoSales == {}

RequestSymmetry == Permutations(Requests)
=============================================================================
