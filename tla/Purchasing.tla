---------------------------- MODULE Purchasing ----------------------------
(***************************************************************************)
(* Purchase orders, goods receipts, supplier bills and supplier payments.  *)
(* Every operation reads a document, checks it, and later saves what it    *)
(* made of that copy.                                                      *)
(* One supplier, in the functional currency; lots are in Stock.            *)
(***************************************************************************)
EXTENDS ReadCheckSave, Warehouse

CONSTANTS
  PurchaseOrders,
  Receipts,       \* the goods receipts there can be
  Bills,          \* the supplier bills there can be
  Ordered,        \* what each order asks for of each product
  UnitCost,       \* the cost of a unit, in the smallest unit of money
  Deliveries,     \* the receipts that clients post, by product
  Totals,         \* the totals of bills
  Payments,       \* the amounts of payments
  Advances        \* the supplier payments there can be that name no bill

\* The lines of a receipt that name one product: the largest, and their sum.
DeliveryLine == [largest : Nat, sum : Nat]

ASSUME PurchasingAssumption ==
  /\ Ordered \in [PurchaseOrders -> [Products -> Nat]]
  /\ UnitCost \in [Products -> Nat]
  /\ Deliveries \subseteq [Products -> DeliveryLine]
  /\ \A delivery \in Deliveries, p \in Products :
       delivery[p].largest <= delivery[p].sum
  /\ \A o \in PurchaseOrders : \E p \in Products : Ordered[o][p] > 0
  /\ Totals \subseteq Nat \ {0}
  /\ Payments \subseteq Nat \ {0}
  /\ PurchaseOrders \cup Receipts \cup Bills \cup Advances \subseteq Documents
  /\ PurchaseOrders \cap Bills = {}
  /\ None \notin Receipts

VARIABLES
  order,      \* purchase_orders with their items
  receipt,    \* goods_receipts: the order and what arrived
  bill,       \* supplier_bills
  arrived,    \* by order and product, the sum of its receipts
  settled,    \* by bill, the sum of the payments recorded for it
  advance,    \* by supplier payment that names no bill, its amount once recorded
  issues,     \* by bill, how often it was issued: its numbers and entries
  payable     \* the balance of account 2000, accounts payable

orderVars == <<order, receipt, arrived>>
billVars == <<bill, settled, advance, issues>>
purchaseVars == <<stock, orderVars, billVars, payable>>

OrderRow == [status : {"draft", "approved", "received", "cancelled"}, received : [Products -> Nat]]

ReceiptRow == [order : PurchaseOrders, lines : [Products -> Nat]]

BillRow == [status : {"draft", "issued", "paid", "cancelled"}, receipt : Receipts \cup {None},
            total : Nat, paid : Nat, balance : Nat]

PurchasingTypeOK ==
  /\ order \in [PurchaseOrders -> OrderRow \cup {Absent}]
  /\ receipt \in [Receipts -> ReceiptRow \cup {Absent}]
  /\ bill \in [Bills -> BillRow \cup {Absent}]
  /\ arrived \in [PurchaseOrders -> [Products -> Nat]]
  /\ settled \in [Bills -> Nat]
  /\ advance \in [Advances -> Nat]
  /\ issues \in [Bills -> Nat]
  /\ payable \in Int

PurchasingInit ==
  /\ order = [o \in PurchaseOrders |-> Absent]
  /\ receipt = [g \in Receipts |-> Absent]
  /\ bill = [b \in Bills |-> Absent]
  /\ arrived = [o \in PurchaseOrders |-> [p \in Products |-> 0]]
  /\ settled = [b \in Bills |-> 0]
  /\ advance = [a \in Advances |-> 0]
  /\ issues = [b \in Bills |-> 0]
  /\ payable = 0

SaveOrder(o, row) == order' = [order EXCEPT ![o] = row]

SaveBill(b, row) == bill' = [bill EXCEPT ![b] = row]

Value(lines) == Total([p \in Products |-> UnitCost[p] * lines[p]])

-----------------------------------------------------------------------------
(* PurchaseOrdersService                                                   *)

CreateOrder(o) ==
  /\ order[o] = Absent
  /\ SaveOrder(o, [status |-> "draft", received |-> [p \in Products |-> 0]])
  /\ UNCHANGED <<stock, receipt, arrived, billVars, payable, requestVars>>

ReadToApprove(r, o) == order[o].status = "draft" /\ Take(r, "approve", o, order[o])

ReadToCancelOrder(r, o) ==
  order[o].status \in {"draft", "approved"} /\ Take(r, "cancel order", o, order[o])

ReadToReceive(r, o) == order[o].status = "approved" /\ Take(r, "receive", o, order[o])

LoadOrder(r, o) ==
  \E op \in {"approve", "cancel order"} : Doing(r, op, o) /\ Load(r, order[o])

\* The number of the receipt comes from its series, locked to the end.  The
\* saves of the items and of the order are taken together.
LoadToReceive(r, o) == Doing(r, "receive", o) /\ LoadLocked(r, order[o])

\* The items are rows of their own.
SavedOrder(r, o, copy) ==
  [Saved(r, order[o], copy) EXCEPT
     !.received = Updated(order[o].received, Loaded(r).received, copy.received)]

\* findOne loads the items and save() cascades to them: approving and
\* cancelling write back the received quantities too.
Approve(r, o) ==
  /\ Saving(r, "approve", o)
  /\ SaveOrder(o, SavedOrder(r, o, [Copy(r) EXCEPT !.status = "approved"]))
  /\ Answer(r)
  /\ UNCHANGED <<stock, receipt, arrived, billVars, payable>>

CancelOrder(r, o) ==
  /\ Saving(r, "cancel order", o)
  /\ SaveOrder(o, SavedOrder(r, o, [Copy(r) EXCEPT !.status = "cancelled"]))
  /\ Answer(r)
  /\ UNCHANGED <<stock, receipt, arrived, billVars, payable>>

\* Each line is compared with what remains; the lines that name the same item
\* are not added up.
Fits(o, copy, delivery) ==
  \A p \in Products :
    delivery[p].sum > 0 => delivery[p].largest <= Ordered[o][p] - copy.received[p]

\* A mistake the runs must notice: one item that is complete closes the order.
CountedEarly(r, o, delivery) ==
  LET received == [p \in Products |-> Copy(r).received[p] + delivery[p].sum]
  IN  [Copy(r) EXCEPT !.received = received,
                      !.status = IF \E p \in Products : received[p] >= Ordered[o][p] THEN "received" ELSE @]

\* The items named by the receipt are saved; the order, with all its items,
\* only when everything has been received.
Counted(r, o, delivery) ==
  LET received == [p \in Products |-> Copy(r).received[p] + delivery[p].sum]
  IN  IF \A p \in Products : received[p] >= Ordered[o][p]
      THEN [Copy(r) EXCEPT !.status = "received", !.received = received]
      ELSE [Loaded(r) EXCEPT !.received =
              [p \in Products |-> IF delivery[p].sum > 0 THEN received[p] ELSE @[p]]]

Receive(r, o, g, delivery) ==
  LET lines == [p \in Products |-> delivery[p].sum]
  IN  /\ Saving(r, "receive", o)
      /\ receipt[g] = Absent
      /\ Fits(o, Copy(r), delivery)
      /\ receipt' = [receipt EXCEPT ![g] = [order |-> o, lines |-> lines]]
      /\ SaveOrder(o, SavedOrder(r, o, Counted(r, o, delivery)))
      /\ arrived' = [arrived EXCEPT ![o] = [p \in Products |-> @[p] + lines[p]]]
      /\ stock' = [p \in Products |-> Moved(stock[p], lines[p])]
      /\ payable' = payable + Value(lines)
      /\ Answer(r)
      /\ UNCHANGED billVars

-----------------------------------------------------------------------------
(* SupplierBillsService                                                    *)

NewBill(g, total) ==
  [status |-> "draft", receipt |-> g, total |-> total, paid |-> 0, balance |-> total]

\* A bill without a receipt has nothing to look up.
CreateBill(b, total) ==
  /\ bill[b] = Absent
  /\ SaveBill(b, NewBill(None, total))
  /\ UNCHANGED <<stock, orderVars, settled, advance, issues, payable, requestVars>>

\* Only a draft counts as billed.
Billed(g) == \E b \in Bills : bill[b].status = "draft" /\ bill[b].receipt = g

ReadToBill(r, g) ==
  /\ receipt[g] # Absent
  /\ ~Billed(g)
  /\ Take(r, "bill", g, receipt[g])

BillReceipt(r, g, b, total) ==
  /\ Doing(r, "bill", g)
  /\ bill[b] = Absent
  /\ SaveBill(b, NewBill(g, total))
  /\ Answer(r)
  /\ UNCHANGED <<stock, orderVars, settled, advance, issues, payable>>

ReadToIssue(r, b) == bill[b].status = "draft" /\ Take(r, "issue", b, bill[b])

ReadToCancelBill(r, b) == bill[b].status = "draft" /\ Take(r, "cancel bill", b, bill[b])

\* A mistake the runs must notice: the receipt, which is in the account
\* already, is posted again.
FullAmount(copy) == 0

ReceivedAmount(copy) ==
  IF copy.receipt = None THEN 0 ELSE Value(receipt[copy.receipt].lines)

\* Before their saves, issuing takes a number from the series of bills, and a
\* payment posts its entry: both hold their series to the end.
LoadBill(r, b) ==
  \/ Doing(r, "cancel bill", b) /\ Load(r, bill[b])
  \/ \E op \in {"issue", "pay"} : Doing(r, op, b) /\ LoadLocked(r, bill[b])

\* The entry is the difference from what the receipt posted; none when there
\* is no difference.
Issue(r, b) ==
  /\ Saving(r, "issue", b)
  /\ SaveBill(b, Saved(r, bill[b], [Copy(r) EXCEPT !.status = "issued"]))
  /\ issues' = [issues EXCEPT ![b] = @ + 1]
  /\ payable' = payable + Copy(r).total - ReceivedAmount(Copy(r))
  /\ Answer(r)
  /\ UNCHANGED <<stock, orderVars, settled, advance>>

CancelBill(r, b) ==
  /\ Saving(r, "cancel bill", b)
  /\ SaveBill(b, Saved(r, bill[b], [Copy(r) EXCEPT !.status = "cancelled"]))
  /\ Answer(r)
  /\ UNCHANGED <<stock, orderVars, settled, advance, issues, payable>>

-----------------------------------------------------------------------------
(* SupplierPaymentsService                                                 *)

ReadToPay(r, b) == bill[b].status = "issued" /\ Take(r, "pay", b, bill[b])

\* A mistake the runs must notice: any payment closes the bill.
PaidAtOnce(copy, amount) ==
  [copy EXCEPT !.paid = @ + amount, !.balance = @ - amount, !.status = "paid"]

Paid(copy, amount) ==
  [copy EXCEPT !.paid = @ + amount,
               !.balance = @ - amount,
               !.status = IF copy.balance = amount THEN "paid" ELSE @]

Pay(r, b, amount) ==
  /\ Saving(r, "pay", b)
  /\ amount <= Copy(r).balance
  /\ SaveBill(b, Saved(r, bill[b], Paid(Copy(r), amount)))
  /\ settled' = [settled EXCEPT ![b] = @ + amount]
  /\ payable' = payable - amount
  /\ Answer(r)
  /\ UNCHANGED <<stock, orderVars, advance, issues>>

\* A payment of the supplier that names no bill.
PayOnAccount(a, amount) ==
  /\ advance[a] = 0
  /\ advance' = [advance EXCEPT ![a] = amount]
  /\ payable' = payable - amount
  /\ UNCHANGED <<stock, orderVars, bill, settled, issues, requestVars>>

-----------------------------------------------------------------------------

PurchasingRead(r) ==
  \/ \E o \in Used(PurchaseOrders) : ReadToApprove(r, o) \/ ReadToCancelOrder(r, o) \/ ReadToReceive(r, o)
  \/ \E g \in Used(Receipts) : ReadToBill(r, g)
  \/ \E b \in Used(Bills) : ReadToIssue(r, b) \/ ReadToCancelBill(r, b) \/ ReadToPay(r, b)

PurchasingLoad(r) ==
  \/ \E o \in Used(PurchaseOrders) : LoadOrder(r, o) \/ LoadToReceive(r, o)
  \/ \E b \in Used(Bills) : LoadBill(r, b)

OrderCommit(r) ==
  \E o \in Used(PurchaseOrders) :
    \/ Approve(r, o) \/ CancelOrder(r, o)
    \/ \E g \in Used(Receipts), delivery \in Deliveries : Receive(r, o, g, delivery)

BillCommit(r) ==
  \E b \in Used(Bills) :
    \/ Issue(r, b) \/ CancelBill(r, b)
    \/ \E amount \in Payments : Pay(r, b, amount)
    \/ \E g \in Used(Receipts), total \in Totals : BillReceipt(r, g, b, total)

PurchasingNext ==
  \/ \E o \in Used(PurchaseOrders) : CreateOrder(o)
  \/ \E b \in Used(Bills), total \in Totals : CreateBill(b, total)
  \/ \E a \in Used(Advances), amount \in Payments : PayOnAccount(a, amount)
  \/ \E r \in Requests :
       \/ (PurchasingRead(r) \/ PurchasingLoad(r)) /\ UNCHANGED purchaseVars
       \/ OrderCommit(r)
       \/ BillCommit(r)

-----------------------------------------------------------------------------
(* What holds however requests overlap.                                    *)

\* An order shown as received has been: no lost update, stale approval or
\* stale cancellation makes the recorded quantity exceed the receipts
\* (receive, PurchaseOrdersService), and the order is closed only when every
\* item arrived.
ReceivedIsCovered ==
  \A o \in PurchaseOrders : order[o] # Absent =>
    \A p \in Products :
      /\ order[o].received[p] <= arrived[o][p]
      /\ order[o].status = "received" => Ordered[o][p] <= arrived[o][p]

\* A bill shown as paid was paid: what it claims as paid never exceeds its
\* payments, and a paid bill has payments for its total (record,
\* SupplierPaymentsService).
PaidBillsWerePaid ==
  \A b \in Bills : bill[b] # Absent =>
    /\ bill[b].paid <= settled[b]
    /\ bill[b].paid + bill[b].balance = bill[b].total
    /\ bill[b].status = "paid" => bill[b].total <= settled[b]

-----------------------------------------------------------------------------
(* What holds of the documents on which no requests overlapped.            *)

OrderIsExact(o) ==
  order[o] # Absent =>
    /\ order[o].received = arrived[o]
    /\ order[o].status = "received" <=> \A p \in Products : arrived[o][p] >= Ordered[o][p]

BillIsExact(b) ==
  bill[b] # Absent =>
    /\ bill[b].paid = settled[b]
    /\ bill[b].status \in {"issued", "paid"} => issues[b] = 1
    /\ bill[b].status \in {"draft", "cancelled"} => issues[b] = 0 /\ settled[b] = 0

Open(b) == bill[b].status \in {"issued", "paid"}

\* The documents that make up what is owed: open bills at their balance,
\* receipts at their value until a bill for them is issued, and, against them,
\* the payments that name no bill.
Owed ==
    Total([b \in Bills |-> IF Open(b) THEN bill[b].balance ELSE 0])
  + Total([g \in Receipts |->
      IF receipt[g] # Absent /\ ~\E b \in Bills : Open(b) /\ bill[b].receipt = g
      THEN Value(receipt[g].lines) ELSE 0])
  - Total(advance)

BilledOnce == \A b, c \in Bills :
  Open(b) /\ Open(c) /\ bill[b].receipt = bill[c].receipt /\ bill[b].receipt # None => b = c

\* Orders and bills on which no requests overlapped record exactly what was
\* received and paid, and such a bill is issued once; while all bills are of
\* that kind and no receipt is billed twice, the payables account equals the
\* documents it stands for.  When requests did overlap, a bill is issued again
\* only by one that was under way at the first issue (receive, issue, cancel and
\* record, of the services of orders, bills and payments).
PurchasesExactWithoutRaces ==
  /\ \A o \in PurchaseOrders \ raced : OrderIsExact(o)
  /\ \A b \in Bills : IF b \in raced THEN issues[b] <= Cardinality(Requests) ELSE BillIsExact(b)
  /\ raced \cap Bills = {} /\ BilledOnce => payable = Owed
=============================================================================
