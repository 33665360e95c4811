------------------------------ MODULE Supply ------------------------------
(***************************************************************************)
(* Purchasing and production over one warehouse: receipts bring in the     *)
(* materials that production orders consume, and the API serves requests   *)
(* of both at the same time.                                               *)
(***************************************************************************)
EXTENDS Purchasing, Production

ASSUME SupplyAssumption ==
  ProductionOrders \cap (PurchaseOrders \cup Receipts \cup Bills \cup Advances) = {}

supplyVars == <<purchaseVars, productionVars>>

SupplyTypeOK == StockTypeOK /\ PurchasingTypeOK /\ ProductionTypeOK

SupplyInit == StockInit /\ PurchasingInit /\ ProductionInit

SupplyNext ==
  \/ PurchasingNext /\ UNCHANGED <<work, consumed, made, completions>>
  \/ ProductionNext /\ UNCHANGED <<orderVars, billVars, payable>>

-----------------------------------------------------------------------------

\* Whatever requests overlap, every unit in the warehouse comes from a receipt
\* or a completed production order and every missing one went into one: no
\* failed transaction of purchasing or production leaves a movement behind
\* (receive and complete).
StockExplained ==
  \A p \in Products :
    stock[p].quantity = InitialStock[p].quantity
      + Total([o \in PurchaseOrders |-> arrived[o][p]])
      + Total([w \in ProductionOrders |-> IF Makes[w] = p THEN made[w] ELSE 0])
      - Total([w \in ProductionOrders |-> consumed[w][p]])
=============================================================================
