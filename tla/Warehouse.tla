----------------------------- MODULE Warehouse -----------------------------
(***************************************************************************)
(* The product_stock rows of one warehouse, which the documents of several *)
(* components move.  applyStockMovement locks the row it moves to the end  *)
(* of the transaction, so a transaction is one step on the rows; Stock and *)
(* StockTx look inside.                                                    *)
(***************************************************************************)
EXTENDS StockRows, FiniteSets, Functions

CONSTANTS
  Products,
  InitialStock  \* the rows of product_stock at the start

ASSUME WarehouseAssumption ==
  IsFiniteSet(Products) /\ InitialStock \in [Products -> Row]

VARIABLE stock  \* product_stock, by product

StockTypeOK == stock \in [Products -> Row]

Total(f) == FoldFunction(+, 0, f)

StockInit == stock = InitialStock
=============================================================================
