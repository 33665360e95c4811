---------------------------- MODULE Production ----------------------------
(***************************************************************************)
(* Production orders: planned, started, completed or cancelled.  Completing*)
(* consumes the materials of the bill of materials from product_stock and  *)
(* adds the finished product, in one transaction that reads the order again*)
(* but does not lock it.                                                   *)
(***************************************************************************)
EXTENDS ReadCheckSave, Warehouse

CONSTANTS
  ProductionOrders,
  Makes,        \* the product of each order
  Boms,         \* what each order can consume for one unit, waste included
  Values,       \* the labor cost and overhead each order can have
  AverageCost,  \* the cost of a unit of each product
  Quantities,   \* the quantities clients ask for
  MaxCompletions \* bound on the completions of one order

\* An order without a bill of materials consumes nothing.
NoMaterials == [p \in Products |-> 0]

ASSUME ProductionAssumption ==
  /\ Makes \in [ProductionOrders -> Products]
  /\ Boms \in [ProductionOrders -> SUBSET [Products -> Nat]]
  /\ Values \in [ProductionOrders -> SUBSET Nat]
  /\ AverageCost \in [Products -> Nat]
  /\ MaxCompletions \in Nat
  /\ Quantities \subseteq Nat \ {0}
  /\ ProductionOrders \subseteq Documents

VARIABLES
  work,        \* production_orders
  consumed,    \* by order and product, production_order_lines
  made,        \* by order, what its inbound movements added
  completions  \* by order, the transactions that completed it

productionVars == <<stock, work, consumed, made, completions>>

WorkRow ==
  [status : {"planned", "in_progress", "completed", "cancelled"}, quantity : Nat \ {0},
   bom : [Products -> Nat], value : Nat, deleted : BOOLEAN]

ProductionTypeOK ==
  /\ work \in [ProductionOrders -> WorkRow \cup {Absent}]
  /\ consumed \in [ProductionOrders -> [Products -> Nat]]
  /\ made \in [ProductionOrders -> Nat]
  /\ completions \in [ProductionOrders -> Nat]

ProductionInit ==
  /\ work = [w \in ProductionOrders |-> Absent]
  /\ consumed = [w \in ProductionOrders |-> [p \in Products |-> 0]]
  /\ made = [w \in ProductionOrders |-> 0]
  /\ completions = [w \in ProductionOrders |-> 0]

SaveWork(w, row) ==
  /\ work' = [work EXCEPT ![w] = row]
  /\ UNCHANGED <<stock, consumed, made, completions>>

\* A component is not the finished product (validateLines, BomsService).
Plan(w, q, bom, value) ==
  /\ work[w] = Absent
  /\ bom[Makes[w]] = 0
  /\ SaveWork(w, [status |-> "planned", quantity |-> q, bom |-> bom, value |-> value, deleted |-> FALSE])
  /\ UNCHANGED requestVars

\* findOne does not see deleted orders.
Has(w, statuses) == work[w].status \in statuses /\ ~work[w].deleted

\* It loads the lines of the order too.
ReadWork(r, w, op, statuses) ==
  /\ Has(w, statuses)
  /\ Take(r, op, w, [row |-> work[w], lines |-> consumed[w]])
  /\ UNCHANGED productionVars

ReadToUpdate(r, w) == ReadWork(r, w, "update", {"planned"})
ReadToRemove(r, w) == ReadWork(r, w, "remove", {"planned"})
ReadToStart(r, w) == ReadWork(r, w, "start", {"planned"})

ReadToCancelWork(r, w) == ReadWork(r, w, "cancel work", {"planned", "in_progress"})

\* The second of the two reads of complete, inside its transaction; the first
\* only refuses earlier.
ReadToComplete(r, w) == ReadWork(r, w, "complete", {"in_progress"})

\* save() loads them as well, and makes those that it does not find in the copy
\* belong to no order, which their order_id refuses.
LoadWithLines(r, w, op) ==
  /\ Doing(r, op, w)
  /\ Copy(r).lines = consumed[w]
  /\ Load(r, work[w])
  /\ UNCHANGED productionVars

LoadToUpdate(r, w) == LoadWithLines(r, w, "update")
LoadToStart(r, w) == LoadWithLines(r, w, "start")
LoadToCancelWork(r, w) == LoadWithLines(r, w, "cancel work")

\* The copy of complete has no lines, and its movements hold the stock of the
\* finished product.
LoadToComplete(r, w) ==
  Doing(r, "complete", w) /\ LoadLocked(r, work[w]) /\ UNCHANGED productionVars

Update(r, w, q, value) ==
  /\ Saving(r, "update", w)
  /\ SaveWork(w, Saved(r, work[w], [Copy(r).row EXCEPT !.quantity = q, !.value = value]))
  /\ Answer(r)

\* softDelete writes no other column.
Remove(r, w) ==
  Doing(r, "remove", w) /\ SaveWork(w, [work[w] EXCEPT !.deleted = TRUE]) /\ Answer(r)

Start(r, w) ==
  /\ Saving(r, "start", w)
  /\ SaveWork(w, Saved(r, work[w], [Copy(r).row EXCEPT !.status = "in_progress"]))
  /\ Answer(r)

CancelWork(r, w) ==
  /\ Saving(r, "cancel work", w)
  /\ SaveWork(w, Saved(r, work[w], [Copy(r).row EXCEPT !.status = "cancelled"]))
  /\ Answer(r)

Required(w, copy) == [p \in Products |-> copy.bom[p] * copy.quantity]

\* A mistake the runs must notice: production_order_lines without a unique key.
LinesAreAlwaysNew(w, required) == TRUE

\* production_order_lines is unique by order and product.
LinesAreNew(w, required) ==
  \A p \in Products : required[p] > 0 => consumed[w][p] = 0

MaterialCost(required) == Total([p \in Products |-> AverageCost[p] * required[p]])

\* The entry of a completion has a line for the material cost, and no entry
\* takes a line of zero; nothing is posted for a total of zero.
EntryIsAccepted(copy, required) ==
  MaterialCost(required) = 0 => copy.value = 0

\* A mistake the runs must notice: the finished quantity is read again.
AddedNow(w, copy) == work[w].quantity

Added(w, copy) == copy.quantity

\* The movements are before the save, but their rows of stock stay locked.
Complete(r, w) ==
  LET copy == Copy(r).row
      required == Required(w, copy)
  IN  /\ Saving(r, "complete", w)
      /\ completions[w] < MaxCompletions
      /\ \A p \in Products : required[p] > 0 => CanMove(stock[p], -required[p])
      /\ LinesAreNew(w, required)
      /\ EntryIsAccepted(copy, required)
      /\ stock' = [p \in Products |->
           IF p = Makes[w] THEN Moved(stock[p], Added(w, copy)) ELSE Moved(stock[p], -required[p])]
      /\ consumed' = [consumed EXCEPT ![w] = [p \in Products |-> @[p] + required[p]]]
      /\ made' = [made EXCEPT ![w] = @ + copy.quantity]
      /\ completions' = [completions EXCEPT ![w] = @ + 1]
      /\ work' = [work EXCEPT ![w] = Saved(r, @, [copy EXCEPT !.status = "completed"])]
      /\ Answer(r)

ProductionNext ==
  \E w \in Used(ProductionOrders) :
    \/ \E q \in Quantities, bom \in Boms[w], value \in Values[w] : Plan(w, q, bom, value)
    \/ \E r \in Requests :
         \/ ReadToUpdate(r, w) \/ ReadToRemove(r, w) \/ ReadToStart(r, w)
         \/ ReadToCancelWork(r, w) \/ ReadToComplete(r, w)
         \/ LoadToUpdate(r, w) \/ LoadToStart(r, w) \/ LoadToCancelWork(r, w) \/ LoadToComplete(r, w)
         \/ \E q \in Quantities, value \in Values[w] : Update(r, w, q, value)
         \/ Remove(r, w) \/ Start(r, w) \/ CancelWork(r, w) \/ Complete(r, w)

-----------------------------------------------------------------------------

\* However requests overlap (complete, ProductionOrdersService), finished goods
\* enter stock with exactly the materials of their quantity, and an order that
\* has materials is completed at most once: a second completion fails on its
\* lines.  Any order on which no requests overlapped is completed once if it
\* says so, and not at all otherwise, also when it is cancelled or deleted.
MadeFromMaterials ==
  \A w \in ProductionOrders : work[w] # Absent =>
    /\ \A p \in Products : consumed[w][p] = work[w].bom[p] * made[w]
    /\ work[w].bom # NoMaterials => completions[w] <= 1
    /\ w \notin raced =>
         IF work[w].status = "completed" THEN completions[w] = 1 /\ made[w] = work[w].quantity
         ELSE completions[w] = 0
=============================================================================
