---------------------------- MODULE SalesOrders ----------------------------
(***************************************************************************)
(* Sales orders under concurrent requests.  OrdersService reads the order  *)
(* outside the transaction that changes it, and InvoicesService reads the  *)
(* order and looks for its invoice without a lock, so a request is two     *)
(* steps: it reads the row and decides on it, and later its transaction    *)
(* runs and saves the row it read.  The repository's save() writes back    *)
(* every column that differs from the database, so the columns of a stale  *)
(* row overwrite what was committed in between.                            *)
(*                                                                         *)
(* With one request at a time this implements OrderBook; with more it does *)
(* not, and what still holds is checked here.                              *)
(***************************************************************************)
EXTENDS OrderBook, Functions

CONSTANTS Requests  \* the requests the API serves at the same time

ASSUME SalesOrdersAssumption == IsFiniteSet(Requests)

VARIABLE request    \* by request, what it read and is about to do

vars == <<bookVars, request>>

Operations == {"confirm", "cancel", "convert", "invoice"}
Idle == [op |-> "none"]
Pending == [op : Operations, order : Orders, read : OrderRow]

TypeOK ==
  /\ BookTypeOK
  /\ request \in [Requests -> Pending \cup {Idle}]

Init == BookInit /\ request = [r \in Requests |-> Idle]

\* The request reads the order and passes the checks of the operation.
Read(r, o, op) ==
  /\ request[r] = Idle
  /\ order[o] # Absent
  /\ request' = [request EXCEPT ![r] = [op |-> op, order |-> o, read |-> order[o]]]
  /\ UNCHANGED bookVars

ReadToConfirm(r, o) == Read(r, o, "confirm") /\ MayConfirm(order[o])
ReadToCancel(r, o) == Read(r, o, "cancel") /\ MayCancel(order[o])
ReadToConvert(r, o) == Read(r, o, "convert") /\ MayConvert(order[o])
ReadToInvoice(r, o) == Read(r, o, "invoice") /\ MayInvoice(o, order[o])

Does(r, op) == request[r].op = op

\* A mistake the runs must notice: a request whose answer is lost is served
\* again with what it had read.
AnswerLost(r) == request' \in {request, [request EXCEPT ![r] = Idle]}

Answer(r) == request' = [request EXCEPT ![r] = Idle]

CommitConfirm(r) ==
  Does(r, "confirm") /\ ConfirmFrom(request[r].order, request[r].read) /\ Answer(r)

CommitCancel(r) ==
  Does(r, "cancel") /\ CancelFrom(request[r].order, request[r].read) /\ Answer(r)

CommitConvert(r) ==
  Does(r, "convert") /\ ConvertFrom(request[r].order, request[r].read) /\ Answer(r)

CommitInvoice(r) ==
  Does(r, "invoice") /\ InvoiceFrom(request[r].order, request[r].read) /\ Answer(r)

Commit(r) == CommitConfirm(r) \/ CommitCancel(r) \/ CommitConvert(r) \/ CommitInvoice(r)

\* A mistake the runs must notice: without a transaction the status of an order
\* to invoice is saved before its lines fail.
RollbackKeepingStatus(r) ==
  /\ request[r] # Idle
  /\ Answer(r)
  /\ IF Does(r, "invoice")
     THEN Save(request[r].order, [request[r].read EXCEPT !.status = "invoiced"])
     ELSE UNCHANGED order
  /\ UNCHANGED <<stock, invoices, received>>

\* The transaction rolls back: a line has not enough stock, a statement
\* fails, or the server stops before the commit.
Rollback(r) ==
  /\ request[r] # Idle
  /\ Answer(r)
  /\ UNCHANGED bookVars

Next ==
  \/ SingleStep /\ UNCHANGED request
  \/ \E r \in Requests, o \in Orders :
       ReadToConfirm(r, o) \/ ReadToCancel(r, o) \/ ReadToConvert(r, o) \/ ReadToInvoice(r, o)
  \/ \E r \in Requests : Commit(r) \/ Rollback(r)

Spec == Init /\ [][Next]_vars

-----------------------------------------------------------------------------
(* What holds for any number of concurrent requests.                       *)

Total(f) == FoldFunction(+, 0, f)

Sold(p) == Total([i \in DOMAIN invoices |-> invoices[i].lines[p]])

Returned(p) == Total([i \in DOMAIN invoices |-> invoices[i].credited * invoices[i].lines[p]])

\* Every change of stock belongs to a committed document: what is in the
\* warehouse is what it started with and received, less what the invoices
\* sold, plus what the credit notes took back.  An invoice whose transaction
\* rolls back on one line leaves no trace on the others.
StockExplainedByDocuments ==
  \A p \in Products :
    stock[p].quantity = InitialStock[p] + received[p] + Returned(p) - Sold(p)

\* No interleaving of confirmations, cancellations, invoices, direct sales and
\* credit notes reserves more than the warehouse holds.
ReservedWithinStock ==
  \A p \in Products : 0 <= stock[p].reserved /\ stock[p].reserved <= stock[p].quantity

\* An order shown as invoiced has an invoice: no stale write sets the status
\* without one.
InvoicedHasInvoice ==
  \A o \in Orders : order[o] # Absent /\ order[o].status = "invoiced" => HasInvoice(o)

InvoicesOf(o) == {i \in DOMAIN invoices : invoices[i].order = o}

\* The requests that found no invoice of the order and are about to issue one.
Invoicing(o) == {r \in Requests : Does(r, "invoice") /\ request[r].order = o}

\* Two overlapping requests can both invoice an order, for neither locks it
\* between looking for its invoice and issuing one.  But every invoice costs one
\* of the requests that overlapped the first: stale saves may show the order as
\* confirmed again, and no later request takes it for one to invoice.
InvoicesWithinOverlap ==
  \A o \in Orders :
    Cardinality(InvoicesOf(o)) + Cardinality(Invoicing(o)) <= Cardinality(Requests)

-----------------------------------------------------------------------------
(* What holds when one request is served at a time.                        *)

Outstanding(p) ==
  Total([o \in Orders |->
    IF order[o] = [kind |-> "order", status |-> "confirmed"] THEN Lines[o][p] ELSE 0])

\* No reservation outlives its order: what is reserved of a product is at most
\* what the confirmed orders ask for.
NoPhantomReservation ==
  \A p \in Products : stock[p].reserved <= Outstanding(p)

\* An invoice is final for its order, and so is a cancellation: no operation
\* takes an order out of these states.
ClosedOrdersStayClosed ==
  [][\A o \in Orders :
       order[o] # Absent /\ order[o].status \in {"invoiced", "cancelled"}
         => order'[o].status = order[o].status]_vars

\* The requests of a client that waits for each answer are atomic.
AtomicRequests == BookSpec

-----------------------------------------------------------------------------
(* What the documentation says, and the code does not do.                  *)

\* SPEC, stock reservation: "invoicing consumes" what confirming reserved.  An
\* order whose lines are reserved in full can be invoiced.
ReservedOrdersCanBeInvoiced ==
  \A o \in Orders :
    /\ order[o] # Absent
    /\ MayInvoice(o, order[o])
    /\ \A p \in Products : Outstanding(p) <= stock[p].reserved
    => \A p \in Products : Lines[o][p] > 0 => CanMove(stock[p], -Lines[o][p])
=============================================================================
