----------------------------- MODULE Valuation -----------------------------
(***************************************************************************)
(* What stock is worth: the average cost of a product_stock row, which the *)
(* column keeps to the cent, and the inventory account, which the entries  *)
(* of receipts, invoices, credit notes and production orders move.         *)
(*                                                                         *)
(* Receipts bring their cost with them.  Invoices and production orders    *)
(* read the average cost of a row first and lock the row later, when they  *)
(* move it.  The lookup of a product without a variant does not exclude    *)
(* the rows of its variants.  Movements that clients post by hand have no  *)
(* journal entry.  Costs are in cents, quantities in whole units.          *)
(***************************************************************************)
EXTENDS ReadCheckSave, Integers, Functions

CONSTANTS
  Rows,       \* the rows of product_stock: an item in a warehouse
  Bought,     \* the rows that goods receipts add to
  LookedUp,   \* by row, the rows that a lookup of its item can return
  Recipes,    \* production orders: row and quantity they consume, and make
  Transfers,  \* pairs of rows of one item in two warehouses
  Units,      \* the quantities of a line
  Costs,      \* the costs of a unit
  MaxMoves    \* bound on the movements

Recipe == [from : Rows, needs : Nat \ {0}, to : Rows, makes : Nat \ {0}, value : Nat]

ASSUME ValuationAssumption ==
  /\ Rows \subseteq Documents /\ Bought \subseteq Rows
  /\ LookedUp \in [Rows -> SUBSET Rows] /\ \A i \in Rows : i \in LookedUp[i]
  /\ Recipes \subseteq Recipe /\ \A recipe \in Recipes : recipe.from # recipe.to
  /\ Transfers \subseteq {pair \in Rows \X Rows : pair[1] # pair[2]}
  /\ Units \subseteq Nat \ {0} /\ Costs \subseteq Nat
  /\ MaxMoves \in Nat

VARIABLES
  row,        \* product_stock: quantity and average cost
  sold,       \* by row and quantity, the invoices not credited yet
  inventory,  \* the balance of account 1200
  unposted,   \* what stock gained in value without an entry of that amount
  rounding,   \* half cents that rounded averages may have added or lost
  moves

StockedRow == [exists : BOOLEAN, quantity : Nat, cost : Nat]

Missing == [exists |-> FALSE, quantity |-> 0, cost |-> 0]

valuationVars == <<row, sold, inventory, unposted, rounding, moves>>

ValuationTypeOK ==
  /\ row \in [Rows -> StockedRow]
  /\ sold \in [Rows -> [Units -> Nat]]
  /\ inventory \in Int /\ unposted \in Int /\ rounding \in Nat /\ moves \in 0..MaxMoves

ValuationInit ==
  /\ row = [i \in Rows |-> Missing]
  /\ sold = [i \in Rows |-> [n \in Units |-> 0]]
  /\ inventory = 0 /\ unposted = 0 /\ rounding = 0 /\ moves = 0

-----------------------------------------------------------------------------
(* applyStockMovement and transferStock                                    *)

\* total / quantity, to the cent.
Quotient(total, quantity) == (2 * total + quantity) \div (2 * quantity)

Mean(i, n, cost) ==
  IF row[i].quantity = 0 THEN cost
  ELSE Quotient(row[i].quantity * row[i].cost + n * cost, row[i].quantity + n)

\* A mistake the runs must notice: what comes back without a cost counts as
\* free.
AlwaysMean(i, n, cost) == Mean(i, n, cost)

\* An inbound movement without a cost leaves the average as it is.
AverageAfter(i, n, cost) == IF cost > 0 THEN Mean(i, n, cost) ELSE row[i].cost

Raised(i, n, cost) == [exists |-> TRUE, quantity |-> row[i].quantity + n, cost |-> cost]

Lowered(i, n) == [row[i] EXCEPT !.quantity = @ - n]

\* What the n units are worth that entered row i without a cost.
Gift(i, n, cost) == IF cost = 0 THEN n * row[i].cost ELSE 0

\* A mean is off by at most half a cent for each unit.
MeanError(i, n, cost) == IF cost > 0 /\ row[i].quantity > 0 THEN row[i].quantity + n ELSE 0

Move(rows, posted, gained, error) ==
  /\ moves < MaxMoves
  /\ row' = rows
  /\ inventory' = inventory + posted
  /\ unposted' = unposted + gained
  /\ rounding' = rounding + error
  /\ moves' = moves + 1

\* The costs that a lookup of the item of row i can return.
FoundCosts(i) ==
  LET found == {j \in LookedUp[i] : row[j].exists}
  IN  IF found = {} THEN {0} ELSE {row[j].cost : j \in found}

-----------------------------------------------------------------------------
(* Goods receipts, movements by hand and transfers                         *)

Inbound(i, n, cost) == [row EXCEPT ![i] = Raised(i, n, AverageAfter(i, n, cost))]

ReceiveGoods(i, n, cost) ==
  /\ Move(Inbound(i, n, cost), n * cost, Gift(i, n, cost), MeanError(i, n, cost))
  /\ UNCHANGED <<sold, requestVars>>

AddByHand(i, n, cost) ==
  /\ Move(Inbound(i, n, cost), 0, n * cost + Gift(i, n, cost), MeanError(i, n, cost))
  /\ UNCHANGED <<sold, requestVars>>

TakeByHand(i, n) ==
  /\ n <= row[i].quantity
  /\ Move([row EXCEPT ![i] = Lowered(i, n)], 0, -(n * row[i].cost), 0)
  /\ UNCHANGED <<sold, requestVars>>

\* The average of the origin, even if it is zero.
Transfer(i, j, n) ==
  /\ n <= row[i].quantity
  /\ Move([row EXCEPT ![i] = Lowered(i, n), ![j] = Raised(j, n, Mean(j, n, row[i].cost))],
          0, 0, IF row[j].quantity > 0 THEN row[j].quantity + n ELSE 0)
  /\ UNCHANGED <<sold, requestVars>>

-----------------------------------------------------------------------------
(* Invoices and credit notes                                               *)

\* applyOutbound reads the row without a lock.
ReadToSell(r, i, n) ==
  \E cost \in FoundCosts(i) : Take(r, "sell", i, [quantity |-> n, cost |-> cost])

Sell(r, i) ==
  LET n == Copy(r).quantity
      cost == Copy(r).cost
  IN  /\ Doing(r, "sell", i)
      /\ n <= row[i].quantity
      /\ Move([row EXCEPT ![i] = Lowered(i, n)], -(n * cost), n * (cost - row[i].cost), 0)
      /\ sold' = [sold EXCEPT ![i][n] = @ + 1]
      /\ Answer(r)

\* applyReturn adds the units without a cost and reads the average afterwards.
CreditSale(i, n) ==
  /\ sold[i][n] > 0
  /\ \E cost \in FoundCosts(i) :
       Move(Inbound(i, n, 0), n * cost, n * (row[i].cost - cost), 0)
  /\ sold' = [sold EXCEPT ![i][n] = @ - 1]
  /\ UNCHANGED requestVars

-----------------------------------------------------------------------------
(* Production orders                                                       *)

ReadToConsume(r, recipe) ==
  \E cost \in FoundCosts(recipe.from) :
    Take(r, "consume", recipe.from, [recipe |-> recipe, cost |-> cost])

\* The finished product comes in at the cost of its materials and the value
\* added, per unit to the cent.  An entry has no line of zero.
Consume(r) ==
  LET recipe == Copy(r).recipe
      material == recipe.needs * Copy(r).cost
      total == material + recipe.value
      unit == Quotient(total, recipe.makes)
  IN  /\ Doing(r, "consume", recipe.from)
      /\ recipe.needs <= row[recipe.from].quantity
      /\ total > 0 => material > 0
      /\ Move([Inbound(recipe.to, recipe.makes, unit) EXCEPT ![recipe.from] = Lowered(recipe.from, recipe.needs)],
              total - material,
              material - recipe.needs * row[recipe.from].cost + Gift(recipe.to, recipe.makes, unit),
              recipe.makes + MeanError(recipe.to, recipe.makes, unit))
      /\ Answer(r)
      /\ UNCHANGED sold

UsedRecipes == {recipe \in Recipes : {recipe.from, recipe.to} \subseteq inUse}

ValuationNext ==
  \/ \E i \in Used(Rows), n \in Units :
       \/ \E cost \in Costs : AddByHand(i, n, cost) \/ (i \in Bought /\ ReceiveGoods(i, n, cost))
       \/ TakeByHand(i, n) \/ CreditSale(i, n)
       \/ \E j \in Used(Rows) : <<i, j>> \in Transfers /\ Transfer(i, j, n)
  \/ \E r \in Requests :
       \/ /\ \/ \E i \in Used(Rows), n \in Units : ReadToSell(r, i, n)
             \/ \E recipe \in UsedRecipes : ReadToConsume(r, recipe)
          /\ UNCHANGED valuationVars
       \/ \E i \in Used(Rows) : Sell(r, i)
       \/ Consume(r)

-----------------------------------------------------------------------------

\* Stock is worth what the inventory account says, but for the rounding of
\* averages, movements by hand, units that came without a cost, and costs that
\* were read from a row that changed, or from another row: returns, transfers,
\* production and the sequence of receipts and sales add nothing else
\* (applyStockMovement, transferStock, applyOutbound, applyReturn, complete).
InventoryExplained ==
  LET worth == [i \in Rows |-> row[i].quantity * row[i].cost]
      drift == 2 * (FoldFunction(+, 0, worth) - inventory - unposted)
  IN  -rounding <= drift /\ drift <= rounding
=============================================================================
