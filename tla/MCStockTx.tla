----------------------------- MODULE MCStockTx -----------------------------
(***************************************************************************)
(* Two rows, one of which exists only once it is inserted, and documents   *)
(* that take both in either order, or one twice: enough for transactions   *)
(* to race for the insert, to wait for each other in a circle, and to fail *)
(* half-way.                                                               *)
(***************************************************************************)
EXTENDS StockTx

CONSTANTS k1, k2

Line(kind, k, q) == [kind |-> kind, key |-> k, q |-> q]

MCBatches ==
  { <<Line("receive", k2, 1)>>,
    <<Line("issue", k1, 1), Line("issue", k2, 1)>>,
    <<Line("reserve", k1, 1), Line("reserve", k1, 1)>>,
    <<Line("release", k1, 1)>>,
    <<Line("depart", k1, 1), Line("arrive", k2, 1)>>,
    <<Line("depart", k2, 1), Line("arrive", k1, 1)>> }

MCInitialRow == [quantity |-> 2, reserved |-> 0]
=============================================================================
