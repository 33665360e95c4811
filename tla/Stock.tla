------------------------------- MODULE Stock -------------------------------
(***************************************************************************)
(* The inventory core: product_stock, product_lots and stock_movements,    *)
(* and the operations of packages/database/src/services/stock.ts on them.  *)
(*                                                                         *)
(* A key is a product (or a product variant) in a warehouse.  Each         *)
(* operation takes the FOR UPDATE lock of the stock row before it reads    *)
(* anything it decides on and commits with its transaction, so one         *)
(* operation is one step; StockTx checks that this is sound when a         *)
(* transaction makes several of them.                                      *)
(***************************************************************************)
EXTENDS StockRows, FiniteSets, Functions

CONSTANTS
  Products,     \* products or product variants
  Warehouses,
  LotNumbers,   \* lot numbers of a product, ordered as naturals
  ExpiryDates,  \* expiry dates, ordered as positive naturals
  Quantities,   \* the quantities requests ask for
  MaxQuantity   \* bound: receipts keep a product's total quantity within it

ASSUME StockAssumption ==
  /\ IsFiniteSet(LotNumbers) /\ LotNumbers \subseteq Nat
  /\ IsFiniteSet(Warehouses)
  /\ ExpiryDates \subseteq Nat \ {0}
  /\ Quantities \subseteq Nat \ {0}
  /\ MaxQuantity \in Nat

VARIABLES
  stock,   \* product_stock, by key
  lots,    \* product_lots, by key and lot number
  ledger   \* by key, the sum of stock_movements.quantity

vars == <<stock, lots, ledger>>

Keys == Products \X Warehouses

\* The expiry of a lot row that was never created.
NoLot == 0

LotRow == [quantity : Nat, expiry : ExpiryDates \cup {NoLot}]

LotExists(k, l) == lots[k][l].expiry # NoLot

TypeOK ==
  /\ stock \in [Keys -> Row]
  /\ lots \in [Keys -> [LotNumbers -> LotRow]]
  /\ ledger \in [Keys -> Int]

Init ==
  /\ stock = [k \in Keys |-> EmptyRow]
  /\ lots = [k \in Keys |-> [l \in LotNumbers |-> [quantity |-> 0, expiry |-> NoLot]]]
  /\ ledger = [k \in Keys |-> 0]

-----------------------------------------------------------------------------
(* First expired, first out.                                               *)

Total(f) == FoldFunction(+, 0, f)

QuantityOf(p) == Total([w \in Warehouses |-> stock[<<p, w>>].quantity])

LotQuantityOf(p, l) == Total([w \in Warehouses |-> lots[<<p, w>>][l].quantity])

LotQuantities(k) == [l \in LotNumbers |-> lots[k][l].quantity]

\* The order of the locked query: expiry date, then lot number.
ExpiresBefore(k, l, m) ==
  \/ lots[k][l].expiry < lots[k][m].expiry
  \/ lots[k][l].expiry = lots[k][m].expiry /\ l < m

\* What the lots before l in that order hold together.
HeldBefore(k, l) ==
  Total([m \in {m \in LotNumbers : ExpiresBefore(k, m, l)} |-> lots[k][m].quantity])

\* A mistake the runs must notice: the lots are taken in any order.
AnyPicks(k, q) ==
  {pick \in [LotNumbers -> 0 .. q] :
     /\ \A l \in LotNumbers : pick[l] <= lots[k][l].quantity
     /\ Total(pick) = Smaller(Total(LotQuantities(k)), q)}

\* What the loop over the ordered lots takes from each of them for a quantity q
\* (one function, written as a set): the lot's quantity, or what of q the lots
\* before it have left over.
FefoPicks(k, q) ==
  {pick \in [LotNumbers -> 0 .. q] :
     \A l \in LotNumbers :
       pick[l] = Smaller(lots[k][l].quantity, AtLeastZero(q - HeldBefore(k, l)))}

TakenFrom(lotRows, pick) ==
  [l \in LotNumbers |-> [lotRows[l] EXCEPT !.quantity = @ - pick[l]]]

-----------------------------------------------------------------------------
(* applyStockMovement: inbound, adjustment and return (receipts), outbound *)
(* and disposal (issues).  It refuses the type transfer.                   *)

\* The bound of the model, not of the code.
Fits(k, q) == QuantityOf(k[1]) + q <= MaxQuantity

MoveRow(k, delta) ==
  /\ CanMove(stock[k], delta)
  /\ stock' = [stock EXCEPT ![k] = Moved(@, delta)]

\* A receipt that names no lot.
Receive(k, q) ==
  /\ Fits(k, q)
  /\ MoveRow(k, q)
  /\ ledger' = [ledger EXCEPT ![k] = @ + q]
  /\ UNCHANGED lots

\* A receipt with a lot number and an expiry date: the lot is created, or it
\* takes the new expiry date.
ReceiveLot(k, l, expiry, q) ==
  /\ Fits(k, q)
  /\ MoveRow(k, q)
  /\ lots' = [lots EXCEPT ![k][l] = [quantity |-> @.quantity + q, expiry |-> expiry]]
  /\ ledger' = [ledger EXCEPT ![k] = @ + q]

\* A receipt into an existing lot, by its id.
ReceiveIntoLot(k, l, q) ==
  /\ Fits(k, q)
  /\ LotExists(k, l)
  /\ MoveRow(k, q)
  /\ lots' = [lots EXCEPT ![k][l].quantity = @ + q]
  /\ ledger' = [ledger EXCEPT ![k] = @ + q]

\* Two mistakes the runs must notice: no movement is recorded for what the lots
\* do not cover, and the lots keep what was taken from them.
IssueUnrecorded(k, q) ==
  /\ MoveRow(k, -q)
  /\ \E pick \in FefoPicks(k, q) :
       /\ lots' = [lots EXCEPT ![k] = TakenFrom(@, pick)]
       /\ ledger' = [ledger EXCEPT ![k] = @ - Total(pick)]

IssueKeepingLots(k, q) ==
  /\ MoveRow(k, -q)
  /\ ledger' = [ledger EXCEPT ![k] = @ - q]
  /\ UNCHANGED lots

\* An issue that names no lot: one movement for each lot it takes from, and
\* one without a lot for what the lots do not cover.
Issue(k, q) ==
  /\ MoveRow(k, -q)
  /\ \E pick \in FefoPicks(k, q), lotted \in 0 .. q :
       /\ lotted = Total(pick)
       /\ lots' = [lots EXCEPT ![k] = TakenFrom(@, pick)]
       /\ ledger' = [ledger EXCEPT ![k] = @ - lotted - (q - lotted)]

\* An issue from a lot, by its id.
IssueLot(k, l, q) ==
  /\ LotExists(k, l)
  /\ lots[k][l].quantity >= q
  /\ MoveRow(k, -q)
  /\ lots' = [lots EXCEPT ![k][l].quantity = @ - q]
  /\ ledger' = [ledger EXCEPT ![k] = @ - q]

-----------------------------------------------------------------------------
(* transferStock                                                           *)

\* A mistake the runs must notice: a lot the destination does not have yet is
\* not created there.
ArrivedKnownLots(destination, origin, pick) ==
  [l \in LotNumbers |->
     IF destination[l].expiry = NoLot THEN destination[l]
     ELSE [destination[l] EXCEPT !.quantity = @ + pick[l]]]

\* A lot keeps its number, and its expiry date where the destination does not
\* have it yet.
ArrivedLots(destination, origin, pick) ==
  [l \in LotNumbers |->
     IF pick[l] = 0 THEN destination[l]
     ELSE [quantity |-> destination[l].quantity + pick[l],
           expiry |-> IF destination[l].expiry = NoLot
                      THEN origin[l].expiry ELSE destination[l].expiry]]

Transfer(p, from, to, q) ==
  LET o == <<p, from>>
      d == <<p, to>>
  IN  /\ from # to
      /\ Available(stock[o]) >= q
      /\ stock' = [stock EXCEPT ![o] = TransferredOut(@, q), ![d] = TransferredIn(@, q)]
      /\ \E pick \in FefoPicks(o, q) :
           lots' = [lots EXCEPT ![o] = TakenFrom(@, pick),
                                ![d] = ArrivedLots(@, lots[o], pick)]
      /\ ledger' = [ledger EXCEPT ![o] = @ - q, ![d] = @ + q]

Reserve(k, q) ==
  /\ CanReserve(stock[k], q)
  /\ stock' = [stock EXCEPT ![k] = Reserved(@, q)]
  /\ UNCHANGED <<lots, ledger>>

Release(k, q) ==
  /\ stock' = [stock EXCEPT ![k] = Released(@, q)]
  /\ UNCHANGED <<lots, ledger>>

Next ==
  \E q \in Quantities :
    \/ \E k \in Keys : Receive(k, q)
    \/ \E k \in Keys, l \in LotNumbers, e \in ExpiryDates : ReceiveLot(k, l, e, q)
    \/ \E k \in Keys, l \in LotNumbers : ReceiveIntoLot(k, l, q)
    \/ \E k \in Keys : Issue(k, q)
    \/ \E k \in Keys, l \in LotNumbers : IssueLot(k, l, q)
    \/ \E p \in Products, from, to \in Warehouses : Transfer(p, from, to, q)
    \/ \E k \in Keys : Reserve(k, q)
    \/ \E k \in Keys : Release(k, q)

Spec == Init /\ [][Next]_vars

-----------------------------------------------------------------------------

\* Stock is never oversold, and every reserved unit is in the warehouse: no
\* sequence of receipts, issues, transfers, reservations and releases leaves a
\* row with reserved_quantity above quantity (or either below zero).
ReservedWithinQuantity ==
  \A k \in Keys : 0 <= stock[k].reserved /\ stock[k].reserved <= stock[k].quantity

\* The movements explain the stock: the quantity of a row is the sum of the
\* movements recorded for its key, those split by lot and both sides of a
\* transfer included.
LedgerMatchesQuantity ==
  \A k \in Keys : ledger[k] = stock[k].quantity

\* Lots never claim more than the row has, whatever mix of operations with a
\* named lot, without a lot and by expiry order was applied to them.
LotsWithinQuantity ==
  \A k \in Keys : Total(LotQuantities(k)) <= stock[k].quantity

\* An issue or a transfer that takes from a lot by expiry order leaves nothing
\* in a lot that expires earlier.
FirstExpiredFirstOut ==
  [][\A k \in Keys :
       (\/ \E q \in Quantities : Issue(k, q)
        \/ \E to \in Warehouses, q \in Quantities : Transfer(k[1], k[2], to, q))
       => \A l, m \in LotNumbers :
            /\ lots'[k][l].quantity < lots[k][l].quantity
            /\ ExpiresBefore(k, m, l)
            => lots'[k][m].quantity = 0]_vars

\* A transfer moves stock and lots and loses none: the product's quantity and
\* the quantity of each of its lots, over all warehouses, are what they were.
TransferConserves ==
  [][\A p \in Products, from, to \in Warehouses, q \in Quantities :
       Transfer(p, from, to, q) =>
         /\ QuantityOf(p)' = QuantityOf(p)
         /\ \A l \in LotNumbers : LotQuantityOf(p, l)' = LotQuantityOf(p, l)]_vars
=============================================================================
