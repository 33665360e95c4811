----------------------------- MODULE OrderBook -----------------------------
(***************************************************************************)
(* Sales orders, the stock they reserve and the invoices issued for them,  *)
(* as a client that waits for each answer sees them: one operation is one  *)
(* step.  SalesOrders is the detailed specification, in which a request    *)
(* first reads the order and saves it later.                               *)
(*                                                                         *)
(* The operations are split into the guard on the order row a request read *)
(* (MayConfirm ...) and the transaction it then runs (ConfirmFrom ...), so *)
(* that SalesOrders can run the transaction on a row read earlier.  Stock  *)
(* is one warehouse; lots and the ledger are in Stock.                     *)
(***************************************************************************)
EXTENDS StockRows, Sequences, FiniteSets

CONSTANTS
  Orders,
  Products,
  Lines,           \* what each order asks for of each product
  InitialStock,    \* what the warehouse holds of each product at the start
  SaleQuantities,  \* the quantities of direct sales and of receipts
  MaxInvoices,     \* bound on the number of invoices
  MaxCredits,      \* bound on the credit notes of one invoice
  MaxReceived      \* bound on what is received of a product

Direct == "direct"  \* the order of an invoice that has none

ASSUME OrderBookAssumption ==
  /\ IsFiniteSet(Orders)
  /\ Lines \in [Orders -> [Products -> Nat]]
  /\ InitialStock \in [Products -> Nat]
  /\ SaleQuantities \subseteq Nat \ {0}
  /\ MaxInvoices \in Nat /\ MaxCredits \in Nat /\ MaxReceived \in Nat
  /\ Direct \notin Orders

VARIABLES
  order,     \* sales_orders, by order: kind and status
  stock,     \* product_stock, by product
  invoices,  \* the issued invoices in the order of their numbers
  received   \* by product, the sum of its receipts

bookVars == <<order, stock, invoices, received>>

Kinds == {"quote", "order"}
Statuses == {"draft", "confirmed", "invoiced", "cancelled"}
OrderRow == [kind : Kinds, status : Statuses]
Absent == [kind |-> "none", status |-> "none"]  \* no such order yet

Invoice == [order : Orders \cup {Direct}, lines : [Products -> Nat], credited : Nat]

BookTypeOK ==
  /\ order \in [Orders -> OrderRow \cup {Absent}]
  /\ stock \in [Products -> Row]
  /\ invoices \in Seq(Invoice)
  /\ received \in [Products -> Nat]

BookInit ==
  /\ order = [o \in Orders |-> Absent]
  /\ stock = [p \in Products |-> [quantity |-> InitialStock[p], reserved |-> 0]]
  /\ invoices = <<>>
  /\ received = [p \in Products |-> 0]

HasInvoice(o) == \E i \in DOMAIN invoices : invoices[i].order = o

Save(o, row) == order' = [order EXCEPT ![o] = row]

-----------------------------------------------------------------------------
(* OrdersService                                                           *)

Create(o, kind) ==
  /\ order[o] = Absent
  /\ Save(o, [kind |-> kind, status |-> "draft"])
  /\ UNCHANGED <<stock, invoices, received>>

MayConfirm(row) == row.status = "draft"

\* A quote is only marked; an order reserves every line or nothing.
ConfirmFrom(o, row) ==
  /\ \/ row.kind = "quote" /\ UNCHANGED stock
     \/ /\ row.kind = "order"
        /\ \A p \in Products : CanReserve(stock[p], Lines[o][p])
        /\ stock' = [p \in Products |-> Reserved(stock[p], Lines[o][p])]
  /\ Save(o, [row EXCEPT !.status = "confirmed"])
  /\ UNCHANGED <<invoices, received>>

\* A mistake the runs must notice: an invoiced order can be cancelled.
MayCancelInvoiced(row) == row.status # "cancelled"

MayCancel(row) == row.status \notin {"invoiced", "cancelled"}

\* A mistake the runs must notice: the reservation survives its order.
CancelKeepingStock(o, row) ==
  /\ Save(o, [row EXCEPT !.status = "cancelled"])
  /\ UNCHANGED <<stock, invoices, received>>

CancelFrom(o, row) ==
  /\ IF row.kind = "order" /\ row.status = "confirmed"
     THEN stock' = [p \in Products |-> Released(stock[p], Lines[o][p])]
     ELSE UNCHANGED stock
  /\ Save(o, [row EXCEPT !.status = "cancelled"])
  /\ UNCHANGED <<invoices, received>>

MayConvert(row) == row.kind = "quote" /\ row.status # "invoiced"

\* The status is kept: a confirmed quote becomes a confirmed order, with
\* nothing reserved for it.
ConvertFrom(o, row) ==
  /\ Save(o, [row EXCEPT !.kind = "order"])
  /\ UNCHANGED <<stock, invoices, received>>

-----------------------------------------------------------------------------
(* InvoicesService                                                         *)

\* A mistake the runs must notice: outside a transaction, the lines before the
\* one that fails stay sold.
SellLinesInStock(lines) ==
  stock' = [p \in Products |->
              IF lines[p] > 0 /\ CanMove(stock[p], -lines[p])
              THEN Moved(stock[p], -lines[p]) ELSE stock[p]]

\* The outbound movements of an invoice: all its lines, or the transaction
\* rolls back.
SellLines(lines) ==
  /\ \A p \in Products : lines[p] > 0 => CanMove(stock[p], -lines[p])
  /\ stock' = [p \in Products |-> Moved(stock[p], -lines[p])]

IssueInvoice(o, lines) ==
  /\ Len(invoices) < MaxInvoices
  /\ invoices' = Append(invoices, [order |-> o, lines |-> lines, credited |-> 0])

\* A mistake the runs must notice: any order with stock to sell is invoiced.
MayInvoiceAgain(o, row) == row.kind = "order" /\ row.status \in {"confirmed", "invoiced"}

MayInvoice(o, row) == row.kind = "order" /\ row.status = "confirmed" /\ ~HasInvoice(o)

InvoiceFrom(o, row) ==
  /\ IssueInvoice(o, Lines[o])
  /\ SellLines(Lines[o])
  /\ Save(o, [row EXCEPT !.status = "invoiced"])
  /\ UNCHANGED received

OnlyLine(p, q) == [x \in Products |-> IF x = p THEN q ELSE 0]

\* An invoice without an order (point of sale).
DirectSale(p, q) ==
  /\ IssueInvoice(Direct, OnlyLine(p, q))
  /\ SellLines(OnlyLine(p, q))
  /\ UNCHANGED <<order, received>>

\* A credit note takes every line of the invoice back into stock; nothing
\* records on the invoice that it was credited.
CreditNote(i) ==
  /\ invoices[i].credited < MaxCredits
  /\ invoices' = [invoices EXCEPT ![i].credited = @ + 1]
  /\ stock' = [p \in Products |-> Moved(stock[p], invoices[i].lines[p])]
  /\ UNCHANGED <<order, received>>

\* Goods arrive: a purchase receipt or an inbound movement.
Receive(p, q) ==
  /\ received[p] + q <= MaxReceived
  /\ stock' = [stock EXCEPT ![p] = Moved(@, q)]
  /\ received' = [received EXCEPT ![p] = @ + q]
  /\ UNCHANGED <<order, invoices>>

\* The operations that are one step in both specifications.
SingleStep ==
  \/ \E o \in Orders, kind \in Kinds : Create(o, kind)
  \/ \E p \in Products, q \in SaleQuantities : DirectSale(p, q)
  \/ \E i \in DOMAIN invoices : CreditNote(i)
  \/ \E p \in Products, q \in SaleQuantities : Receive(p, q)

Confirm(o) == order[o] # Absent /\ MayConfirm(order[o]) /\ ConfirmFrom(o, order[o])
Cancel(o) == order[o] # Absent /\ MayCancel(order[o]) /\ CancelFrom(o, order[o])
Convert(o) == order[o] # Absent /\ MayConvert(order[o]) /\ ConvertFrom(o, order[o])
InvoiceOrder(o) == order[o] # Absent /\ MayInvoice(o, order[o]) /\ InvoiceFrom(o, order[o])

BookNext ==
  \/ SingleStep
  \/ \E o \in Orders : Confirm(o) \/ Cancel(o) \/ Convert(o) \/ InvoiceOrder(o)

BookSpec == BookInit /\ [][BookNext]_bookVars
=============================================================================
