----------------------------- MODULE StockRows -----------------------------
(***************************************************************************)
(* The arithmetic of one product_stock row, as packages/database/src/      *)
(* services/stock.ts applies it under the row's lock.  A row that does not *)
(* exist behaves like EmptyRow in every operation: the code reads          *)
(* "stock?.quantity ?? 0", a reservation or an issue of a positive         *)
(* quantity is refused, a release is a no-op and a receipt creates it.     *)
(***************************************************************************)
EXTENDS Integers

Row == [quantity : Nat, reserved : Nat]

EmptyRow == [quantity |-> 0, reserved |-> 0]

AtLeastZero(n) == IF n < 0 THEN 0 ELSE n

AtMostZero(n) == IF n > 0 THEN 0 ELSE n

\* A row in which every reserved unit is in the warehouse.
SoundRow(row) == row \in Row /\ row.reserved <= row.quantity

Smaller(m, n) == IF m < n THEN m ELSE n

\* What is neither sold nor promised to a confirmed order.
Available(row) == row.quantity - row.reserved

\* The sign test of applyStockMovement: outbound and disposal need available
\* stock, the other types only a non-negative result.
CanMove(row, delta) ==
  IF delta < 0 THEN Available(row) + delta >= 0 ELSE row.quantity + delta >= 0

\* The row applyStockMovement saves: an outbound movement also consumes the
\* reserved quantity, whoever reserved it.
Moved(row, delta) ==
  [quantity |-> row.quantity + delta,
   reserved |-> AtLeastZero(row.reserved + AtMostZero(delta))]

\* A mistake the runs must notice: what others reserved can be reserved again.
CanReserveAgain(row, q) == row.quantity >= q

CanReserve(row, q) == Available(row) >= q

Reserved(row, q) == [row EXCEPT !.reserved = @ + q]

Released(row, q) == [row EXCEPT !.reserved = AtLeastZero(@ - q)]

\* The origin of a transfer: the reserved quantity stays behind.
TransferredOut(row, q) == [row EXCEPT !.quantity = @ - q]

TransferredIn(row, q) == [row EXCEPT !.quantity = @ + q]
=============================================================================
