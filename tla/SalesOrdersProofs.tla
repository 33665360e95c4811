------------------------- MODULE SalesOrdersProofs -------------------------
(***************************************************************************)
(* What holds of SalesOrders for any orders, products and stock: what      *)
(* concurrent requests cannot break, and that a single request at a time   *)
(* implements OrderBook, where every operation is atomic.                  *)
(***************************************************************************)
EXTENDS SalesOrders, Sums, SequenceTheorems, TLAPS

SoundStock == stock \in [Products -> Row] /\ \A p \in Products : SoundRow(stock[p])

-----------------------------------------------------------------------------
(* What the operations do to the stock.                                    *)

\* Selling the lines of a document, each within the available stock, keeps
\* every row sound.
LEMMA SellingIsSound ==
  ASSUME SoundStock, NEW lines \in [Products -> Nat], SellLines(lines)
  PROVE  SoundStock'
  <1>1. ASSUME NEW p \in Products
        PROVE  SoundRow(Moved(stock[p], -lines[p]))
    <2>1. lines[p] \in Nat /\ SoundRow(stock[p]) /\ (lines[p] > 0 => CanMove(stock[p], -lines[p]))
      BY DEF SellLines, SoundStock
    <2>2. QED  BY <2>1 DEF SoundRow, Row, Moved, CanMove, Available, AtLeastZero, AtMostZero
  <1>2. stock' = [p \in Products |-> Moved(stock[p], -lines[p])]
    BY DEF SellLines
  <1>3. QED  BY <1>1, <1>2 DEF SoundStock, SoundRow

\* The lines of an order are quantities of products.
LEMMA LinesAreTyped ==
  ASSUME NEW o \in Orders, NEW p \in Products
  PROVE  Lines[o] \in [Products -> Nat] /\ Lines[o][p] \in Nat
  BY OrderBookAssumption

\* A confirmation reserves available stock only, whatever copy of the order
\* it works from.
LEMMA ConfirmIsSound ==
  ASSUME SoundStock, NEW o \in Orders, NEW row, ConfirmFrom(o, row)
  PROVE  SoundStock'
  <1>1. CASE UNCHANGED stock
    BY <1>1 DEF SoundStock
  <1>2. CASE /\ \A p \in Products : CanReserve(stock[p], Lines[o][p])
             /\ stock' = [p \in Products |-> Reserved(stock[p], Lines[o][p])]
    <2>1. ASSUME NEW p \in Products
          PROVE  SoundRow(Reserved(stock[p], Lines[o][p]))
      BY <1>2, LinesAreTyped DEF SoundRow, Row, Reserved, CanReserve, Available, SoundStock
    <2>2. QED  BY <1>2, <2>1 DEF SoundStock, SoundRow
  <1>3. QED  BY <1>1, <1>2 DEF ConfirmFrom

\* A cancellation releases with a floor at zero, whatever copy of the order it
\* works from.
LEMMA CancelIsSound ==
  ASSUME SoundStock, NEW o \in Orders, NEW row, CancelFrom(o, row)
  PROVE  SoundStock'
  <1>1. CASE UNCHANGED stock
    BY <1>1 DEF SoundStock
  <1>2. CASE stock' = [p \in Products |-> Released(stock[p], Lines[o][p])]
    <2>1. ASSUME NEW p \in Products
          PROVE  SoundRow(Released(stock[p], Lines[o][p]))
      BY LinesAreTyped DEF SoundRow, Row, Released, AtLeastZero, SoundStock
    <2>2. QED  BY <1>2, <2>1 DEF SoundStock, SoundRow
  <1>3. QED  BY <1>1, <1>2 DEF CancelFrom

\* A credit note only adds stock, however often its invoice is credited.
LEMMA CreditIsSound ==
  ASSUME SoundStock, invoices \in Seq(Invoice), NEW i \in DOMAIN invoices, CreditNote(i)
  PROVE  SoundStock'
  <1>1. ASSUME NEW p \in Products
        PROVE  SoundRow(Moved(stock[p], invoices[i].lines[p]))
    <2>1. invoices[i] \in Invoice
      OBVIOUS
    <2>2. invoices[i].lines[p] \in Nat
      BY <2>1 DEF Invoice
    <2>3. QED  BY <2>2 DEF SoundRow, Row, Moved, AtLeastZero, AtMostZero, SoundStock
  <1>2. QED  BY <1>1 DEF CreditNote, SoundStock, SoundRow

\* A receipt of goods keeps every row sound.
LEMMA GoodsReceivedAreSound ==
  ASSUME SoundStock, NEW p \in Products, NEW q \in SaleQuantities, Receive(p, q)
  PROVE  SoundStock'
  <1>1. q \in Nat /\ SoundRow(stock[p])
    BY OrderBookAssumption DEF SoundStock
  <1>2. SoundRow(Moved(stock[p], q))
    BY <1>1 DEF SoundRow, Row, Moved, AtLeastZero, AtMostZero
  <1>3. stock' = [stock EXCEPT ![p] = Moved(stock[p], q)]
    BY DEF Receive
  <1>4. QED  BY <1>2, <1>3 DEF SoundStock, SoundRow

-----------------------------------------------------------------------------
(* What the operations do to the orders and the invoices.                  *)

\* Writing back a copy of an order leaves a table of orders.
LEMMA SaveIsTyped ==
  ASSUME BookTypeOK, NEW o \in Orders, NEW row \in OrderRow, Save(o, row)
  PROVE  order' \in [Orders -> OrderRow \cup {Absent}]
  BY DEF BookTypeOK, Save

\* Issuing an invoice extends the list of invoices.
LEMMA IssueIsTyped ==
  ASSUME BookTypeOK, NEW o \in Orders \cup {Direct}, NEW lines \in [Products -> Nat],
         IssueInvoice(o, lines)
  PROVE  invoices' \in Seq(Invoice)
  <1>1. [order |-> o, lines |-> lines, credited |-> 0] \in Invoice
    BY DEF Invoice
  <1>2. QED  BY <1>1 DEF BookTypeOK, IssueInvoice

\* A credited invoice is an invoice.
LEMMA CreditIsTyped ==
  ASSUME NEW invoice \in Invoice
  PROVE  [invoice EXCEPT !.credited = @ + 1] \in Invoice
  BY DEF Invoice

\* A document with a single line is a document.
LEMMA OnlyLineIsTyped ==
  ASSUME NEW p \in Products, NEW q \in SaleQuantities
  PROVE  OnlyLine(p, q) \in [Products -> Nat]
  <1>1. q \in Nat
    BY OrderBookAssumption
  <1>2. QED  BY <1>1 DEF OnlyLine

\* The part of both specifications' invariants that is about the shared state.
BookInv == BookTypeOK /\ SoundStock

\* The book starts without orders or invoices and with sound rows.
LEMMA BookInitInv == BookInit => BookInv
  <1> SUFFICES ASSUME BookInit PROVE BookInv
    OBVIOUS
  <1>1. SoundStock
    <2>1. ASSUME NEW p \in Products
          PROVE  SoundRow([quantity |-> InitialStock[p], reserved |-> 0])
      BY OrderBookAssumption DEF SoundRow, Row
    <2>2. QED  BY <2>1 DEF BookInit, SoundStock, SoundRow
  <1>2. invoices \in Seq(Invoice) /\ received \in [Products -> Nat]
    BY DEF BookInit
  <1>3. order \in [Orders -> OrderRow \cup {Absent}]
    BY DEF BookInit
  <1>4. QED  BY <1>1, <1>2, <1>3 DEF BookInv, BookTypeOK, SoundStock

\* A confirmation from any copy of the order keeps the book's invariant.
LEMMA ConfirmBookInv ==
  ASSUME BookInv, NEW o \in Orders, NEW row \in OrderRow, ConfirmFrom(o, row)
  PROVE  BookInv'
  <1>1. [row EXCEPT !.status = "confirmed"] \in OrderRow
    BY DEF OrderRow, Statuses
  <1>2. order' \in [Orders -> OrderRow \cup {Absent}]
    BY <1>1, SaveIsTyped DEF BookInv, ConfirmFrom
  <1>3. SoundStock'
    BY ConfirmIsSound DEF BookInv
  <1>4. QED  BY <1>2, <1>3 DEF BookInv, BookTypeOK, SoundStock, ConfirmFrom

\* A cancellation from any copy of the order keeps the book's invariant.
LEMMA CancelBookInv ==
  ASSUME BookInv, NEW o \in Orders, NEW row \in OrderRow, CancelFrom(o, row)
  PROVE  BookInv'
  <1>1. [row EXCEPT !.status = "cancelled"] \in OrderRow
    BY DEF OrderRow, Statuses
  <1>2. order' \in [Orders -> OrderRow \cup {Absent}]
    BY <1>1, SaveIsTyped DEF BookInv, CancelFrom
  <1>3. SoundStock'
    BY CancelIsSound DEF BookInv
  <1>4. QED  BY <1>2, <1>3 DEF BookInv, BookTypeOK, SoundStock, CancelFrom

\* A conversion from any copy of the order keeps the book's invariant.
LEMMA ConvertBookInv ==
  ASSUME BookInv, NEW o \in Orders, NEW row \in OrderRow, ConvertFrom(o, row)
  PROVE  BookInv'
  <1>1. [row EXCEPT !.kind = "order"] \in OrderRow
    BY DEF OrderRow, Kinds
  <1>2. order' \in [Orders -> OrderRow \cup {Absent}]
    BY <1>1, SaveIsTyped DEF BookInv, ConvertFrom
  <1>3. QED  BY <1>2 DEF BookInv, BookTypeOK, SoundStock, ConvertFrom

\* An invoice made from any copy of the order keeps the book's invariant.
LEMMA InvoiceBookInv ==
  ASSUME BookInv, NEW o \in Orders, NEW row \in OrderRow, InvoiceFrom(o, row)
  PROVE  BookInv'
  <1>1. [row EXCEPT !.status = "invoiced"] \in OrderRow
    BY DEF OrderRow, Statuses
  <1>2. order' \in [Orders -> OrderRow \cup {Absent}]
    BY <1>1, SaveIsTyped DEF BookInv, InvoiceFrom
  <1>3. Lines[o] \in [Products -> Nat]
    BY OrderBookAssumption
  <1>4. invoices' \in Seq(Invoice)
    BY <1>3, IssueIsTyped DEF BookInv, InvoiceFrom
  <1>5. SoundStock'
    BY <1>3, SellingIsSound DEF BookInv, InvoiceFrom
  <1>6. QED  BY <1>2, <1>4, <1>5 DEF BookInv, BookTypeOK, SoundStock, InvoiceFrom

\* The operations that do not read an order first keep the book's invariant:
\* new orders, direct sales, credit notes and receipts.
LEMMA SingleStepBookInv ==
  ASSUME BookInv, SingleStep
  PROVE  BookInv'
  <1>1. ASSUME NEW o \in Orders, NEW kind \in Kinds, Create(o, kind)
        PROVE  BookInv'
    <2>1. [kind |-> kind, status |-> "draft"] \in OrderRow
      BY DEF OrderRow, Statuses
    <2>2. order' \in [Orders -> OrderRow \cup {Absent}]
      BY <1>1, <2>1, SaveIsTyped DEF BookInv, Create
    <2>3. QED  BY <1>1, <2>2 DEF BookInv, BookTypeOK, SoundStock, Create
  <1>2. ASSUME NEW p \in Products, NEW q \in SaleQuantities, DirectSale(p, q)
        PROVE  BookInv'
    <2>1. OnlyLine(p, q) \in [Products -> Nat]
      BY OnlyLineIsTyped
    <2>2. invoices' \in Seq(Invoice)
      BY <1>2, <2>1, IssueIsTyped DEF BookInv, DirectSale
    <2>3. SoundStock'
      BY <1>2, <2>1, SellingIsSound DEF BookInv, DirectSale
    <2>4. QED  BY <1>2, <2>2, <2>3 DEF BookInv, BookTypeOK, SoundStock, DirectSale
  <1>3. ASSUME NEW i \in DOMAIN invoices, CreditNote(i)
        PROVE  BookInv'
    <2>1. invoices \in Seq(Invoice) /\ invoices[i] \in Invoice
      BY DEF BookInv, BookTypeOK
    <2>2. [invoices[i] EXCEPT !.credited = @ + 1] \in Invoice
      BY <2>1, CreditIsTyped
    <2>3. invoices' \in Seq(Invoice)
      <3>1. invoices' = [invoices EXCEPT ![i] = [invoices[i] EXCEPT !.credited = @ + 1]]
        BY <1>3, <2>1 DEF CreditNote
      <3>2. i \in 1 .. Len(invoices)
        BY <2>1
      <3>3. QED  BY <2>1, <2>2, <3>1, <3>2, ExceptSeq
    <2>4. SoundStock'
      BY <1>3, <2>1, CreditIsSound DEF BookInv
    <2>5. QED  BY <1>3, <2>3, <2>4 DEF BookInv, BookTypeOK, SoundStock, CreditNote
  <1>4. ASSUME NEW p \in Products, NEW q \in SaleQuantities, Receive(p, q)
        PROVE  BookInv'
    <2>1. SoundStock'
      BY <1>4, GoodsReceivedAreSound DEF BookInv
    <2>2. received' \in [Products -> Nat]
      BY <1>4, OrderBookAssumption DEF BookInv, BookTypeOK, Receive
    <2>3. QED  BY <1>4, <2>1, <2>2 DEF BookInv, BookTypeOK, SoundStock, Receive
  <1>5. QED  BY <1>1, <1>2, <1>3, <1>4 DEF SingleStep

-----------------------------------------------------------------------------
(* Which orders have an invoice.                                           *)

\* Issuing an invoice gives one to its order and takes none from the others.
LEMMA IssueHasInvoice ==
  ASSUME BookTypeOK, NEW o, NEW lines, IssueInvoice(o, lines), NEW x
  PROVE  HasInvoice(x)' <=> HasInvoice(x) \/ x = o
  <1> DEFINE new == [order |-> o, lines |-> lines, credited |-> 0]
  <1>1. invoices \in Seq(Invoice) /\ invoices' = Append(invoices, new)
    BY DEF BookTypeOK, IssueInvoice
  <1>2. Len(invoices) \in Nat /\ Len(invoices') = Len(invoices) + 1
    BY <1>1
  <1>3. \A i \in 1 .. Len(invoices) : invoices'[i] = invoices[i]
    BY <1>1
  <1>4. invoices'[Len(invoices) + 1].order = o
    BY <1>1
  <1>5. DOMAIN invoices = 1 .. Len(invoices) /\ DOMAIN invoices' = 1 .. (Len(invoices) + 1)
    BY <1>1, <1>2
  <1>6. HasInvoice(x)' <=> \E i \in 1 .. (Len(invoices) + 1) : invoices'[i].order = x
    BY <1>5 DEF HasInvoice
  <1>7. QED  BY <1>2, <1>3, <1>4, <1>5, <1>6 DEF HasInvoice

\* A credit note keeps every invoice and its order.
LEMMA CreditHasInvoice ==
  ASSUME BookTypeOK, NEW i \in DOMAIN invoices, CreditNote(i), NEW x
  PROVE  HasInvoice(x)' <=> HasInvoice(x)
  <1>1. DOMAIN invoices' = DOMAIN invoices
    BY DEF BookTypeOK, CreditNote
  <1>2. ASSUME NEW j \in DOMAIN invoices
        PROVE  invoices'[j].order = invoices[j].order
    <2>1. invoices \in Seq(Invoice) /\ invoices[j] \in Invoice
      BY DEF BookTypeOK
    <2>2. CASE j = i
      BY <2>1, <2>2 DEF CreditNote, Invoice
    <2>3. CASE j # i
      BY <2>1, <2>3 DEF CreditNote
    <2>4. QED  BY <2>2, <2>3
  <1>3. QED  BY <1>1, <1>2 DEF HasInvoice

\* The single-step operations touch no existing order and invoice none.
LEMMA SingleStepOrders ==
  ASSUME BookInv, SingleStep, NEW o \in Orders
  PROVE  /\ order[o] # Absent => order'[o] = order[o]
         /\ order[o] = Absent => order'[o] = Absent \/ order'[o].status = "draft"
         /\ HasInvoice(o)' <=> HasInvoice(o)
  <1>1. ASSUME NEW x \in Orders, NEW kind \in Kinds, Create(x, kind)
        PROVE  /\ order[o] # Absent => order'[o] = order[o]
               /\ order[o] = Absent => order'[o] = Absent \/ order'[o].status = "draft"
               /\ HasInvoice(o)' <=> HasInvoice(o)
    BY <1>1 DEF Create, Save, BookInv, BookTypeOK, HasInvoice
  <1>2. ASSUME NEW p \in Products, NEW q \in SaleQuantities, DirectSale(p, q)
        PROVE  UNCHANGED order /\ (HasInvoice(o)' <=> HasInvoice(o))
    <2>1. o # Direct
      BY OrderBookAssumption
    <2>2. QED  BY <1>2, <2>1, IssueHasInvoice DEF DirectSale, BookInv
  <1>3. ASSUME NEW i \in DOMAIN invoices, CreditNote(i)
        PROVE  UNCHANGED order /\ (HasInvoice(o)' <=> HasInvoice(o))
    <2>1. UNCHANGED order
      BY <1>3 DEF CreditNote
    <2>2. QED  BY <1>3, <2>1, CreditHasInvoice DEF BookInv
  <1>4. ASSUME NEW p \in Products, NEW q \in SaleQuantities, Receive(p, q)
        PROVE  UNCHANGED order /\ (HasInvoice(o)' <=> HasInvoice(o))
    BY <1>4 DEF Receive, HasInvoice
  <1>5. QED  BY <1>1, <1>2, <1>3, <1>4 DEF SingleStep

-----------------------------------------------------------------------------
(* Any number of concurrent requests.                                      *)

\* A conversion is only decided on for an order that is not invoiced, so the
\* row it saves, however stale, does not claim an invoice.
ConversionsReadOpenOrders ==
  \A r \in Requests :
    request[r] # Idle /\ request[r].op = "convert" => request[r].read.status # "invoiced"

IInv ==
  /\ BookInv
  /\ request \in [Requests -> Pending \cup {Idle}]
  /\ ConversionsReadOpenOrders
  /\ InvoicedHasInvoice

\* No request is under way at the start.
LEMMA InitIInv == Init => IInv
  <1> SUFFICES ASSUME Init PROVE IInv
    OBVIOUS
  <1>1. BookInv
    BY BookInitInv DEF Init
  <1>2. request \in [Requests -> Pending \cup {Idle}] /\ ConversionsReadOpenOrders
    BY DEF Init, ConversionsReadOpenOrders
  <1>3. InvoicedHasInvoice
    BY DEF Init, BookInit, InvoicedHasInvoice
  <1>4. QED  BY <1>1, <1>2, <1>3 DEF IInv

\* What a request that is not idle has read, and which operation it does.
LEMMA PendingRequest ==
  ASSUME IInv, NEW r \in Requests, NEW op \in Operations, Does(r, op)
  PROVE  /\ request[r] \in Pending
         /\ request[r].op = op
         /\ request[r].order \in Orders
         /\ request[r].read \in OrderRow
  <1>1. Idle.op # op
    BY DEF Idle, Operations
  <1>2. request[r] # Idle
    BY <1>1 DEF Does
  <1>3. request[r] \in Pending
    BY <1>2 DEF IInv
  <1>4. QED  BY <1>3 DEF Pending, Does

\* Answering a request leaves the other requests as they are.
LEMMA AnswerKeepsRequests ==
  ASSUME IInv, NEW r \in Requests, Answer(r)
  PROVE  request' \in [Requests -> Pending \cup {Idle}] /\ ConversionsReadOpenOrders'
  <1>1. request' = [request EXCEPT ![r] = Idle]
    BY DEF Answer
  <1>2. request' \in [Requests -> Pending \cup {Idle}]
    BY <1>1 DEF IInv
  <1>3. ASSUME NEW s \in Requests, request'[s] # Idle
        PROVE  request'[s] = request[s]
    BY <1>1, <1>3 DEF IInv
  <1>4. QED  BY <1>2, <1>3 DEF IInv, ConversionsReadOpenOrders

\* Reading an order and deciding on it.
LEMMA ReadIInv ==
  ASSUME IInv, NEW r \in Requests, NEW o \in Orders, NEW op \in Operations,
         Read(r, o, op), op = "convert" => MayConvert(order[o])
  PROVE  IInv'
  <1> DEFINE new == [op |-> op, order |-> o, read |-> order[o]]
  <1>1. order[o] \in OrderRow
    BY DEF Read, IInv, BookInv, BookTypeOK
  <1>2. new \in Pending
    BY <1>1 DEF Pending
  <1>3. request' = [request EXCEPT ![r] = new] /\ UNCHANGED bookVars
    BY DEF Read
  <1>4. request' \in [Requests -> Pending \cup {Idle}]
    BY <1>2, <1>3 DEF IInv
  <1>5. ConversionsReadOpenOrders'
    BY <1>3 DEF IInv, ConversionsReadOpenOrders, MayConvert
  <1>6. BookInv' /\ InvoicedHasInvoice'
    BY <1>3 DEF IInv, BookInv, BookTypeOK, SoundStock, InvoicedHasInvoice, HasInvoice, bookVars
  <1>7. QED  BY <1>4, <1>5, <1>6 DEF IInv

\* Saving a row that does not claim an invoice.
LEMMA SaveKeepsInvoiced ==
  ASSUME IInv, NEW o \in Orders, NEW row, row.status # "invoiced",
         Save(o, row), UNCHANGED invoices
  PROVE  InvoicedHasInvoice'
  <1>1. ASSUME NEW x \in Orders
        PROVE  order'[x] = row \/ order'[x] = order[x]
    BY DEF Save, IInv, BookInv, BookTypeOK
  <1>2. QED  BY <1>1 DEF IInv, InvoicedHasInvoice, HasInvoice

\* Every transaction of a request, working from the copy the request read,
\* keeps the invariant.
LEMMA CommitIInv ==
  ASSUME IInv, NEW r \in Requests, Commit(r)
  PROVE  IInv'
  <1> DEFINE o == request[r].order
             row == request[r].read
  <1>1. CASE CommitConfirm(r)
    <2>1. o \in Orders /\ row \in OrderRow
      BY <1>1, PendingRequest DEF CommitConfirm, Operations
    <2>2. ConfirmFrom(o, row) /\ Answer(r)
      BY <1>1 DEF CommitConfirm
    <2>3. BookInv'
      BY <2>1, <2>2, ConfirmBookInv DEF IInv
    <2>4. [row EXCEPT !.status = "confirmed"].status # "invoiced"
      BY <2>1 DEF OrderRow
    <2>5. InvoicedHasInvoice'
      BY <2>1, <2>2, <2>4, SaveKeepsInvoiced DEF ConfirmFrom
    <2>6. QED  BY <2>2, <2>3, <2>5, AnswerKeepsRequests DEF IInv
  <1>2. CASE CommitCancel(r)
    <2>1. o \in Orders /\ row \in OrderRow
      BY <1>2, PendingRequest DEF CommitCancel, Operations
    <2>2. CancelFrom(o, row) /\ Answer(r)
      BY <1>2 DEF CommitCancel
    <2>3. BookInv'
      BY <2>1, <2>2, CancelBookInv DEF IInv
    <2>4. [row EXCEPT !.status = "cancelled"].status # "invoiced"
      BY <2>1 DEF OrderRow
    <2>5. InvoicedHasInvoice'
      BY <2>1, <2>2, <2>4, SaveKeepsInvoiced DEF CancelFrom
    <2>6. QED  BY <2>2, <2>3, <2>5, AnswerKeepsRequests DEF IInv
  <1>3. CASE CommitConvert(r)
    <2>1. o \in Orders /\ row \in OrderRow
      BY <1>3, PendingRequest DEF CommitConvert, Operations
    <2>2. ConvertFrom(o, row) /\ Answer(r)
      BY <1>3 DEF CommitConvert
    <2>3. BookInv'
      BY <2>1, <2>2, ConvertBookInv DEF IInv
    <2>4. row.status # "invoiced"
      <3>1. request[r] \in Pending /\ request[r].op = "convert"
        BY <1>3, PendingRequest DEF CommitConvert, Operations
      <3>2. request[r] # Idle
        BY <3>1 DEF Idle
      <3>3. QED  BY <3>1, <3>2 DEF IInv, ConversionsReadOpenOrders
    <2>5. [row EXCEPT !.kind = "order"].status # "invoiced"
      BY <2>1, <2>4 DEF OrderRow
    <2>6. InvoicedHasInvoice'
      BY <2>1, <2>2, <2>5, SaveKeepsInvoiced DEF ConvertFrom
    <2>7. QED  BY <2>2, <2>3, <2>6, AnswerKeepsRequests DEF IInv
  <1>4. CASE CommitInvoice(r)
    <2>1. o \in Orders /\ row \in OrderRow
      BY <1>4, PendingRequest DEF CommitInvoice, Operations
    <2>2. InvoiceFrom(o, row) /\ Answer(r)
      BY <1>4 DEF CommitInvoice
    <2>3. BookInv'
      BY <2>1, <2>2, InvoiceBookInv DEF IInv
    <2>4. InvoicedHasInvoice'
      <3>1. ASSUME NEW x \in Orders
            PROVE  HasInvoice(x)' <=> HasInvoice(x) \/ x = o
        BY <2>2, IssueHasInvoice DEF InvoiceFrom, IInv, BookInv
      <3>2. ASSUME NEW x \in Orders, x # o
            PROVE  order'[x] = order[x]
        BY <2>1, <2>2, <3>2 DEF InvoiceFrom, Save, IInv, BookInv, BookTypeOK
      <3>3. QED  BY <3>1, <3>2 DEF InvoicedHasInvoice, IInv
    <2>5. QED  BY <2>2, <2>3, <2>4, AnswerKeepsRequests DEF IInv
  <1>5. QED  BY <1>1, <1>2, <1>3, <1>4 DEF Commit

\* Every step keeps the invariant.
LEMMA NextIInv == IInv /\ [Next]_vars => IInv'
  <1> SUFFICES ASSUME IInv, [Next]_vars PROVE IInv'
    OBVIOUS
  <1>1. CASE SingleStep /\ UNCHANGED request
    <2>1. BookInv'
      BY <1>1, SingleStepBookInv DEF IInv
    <2>2. ASSUME NEW o \in Orders, order'[o] # Absent, order'[o].status = "invoiced"
          PROVE  HasInvoice(o)'
      BY <1>1, <2>2, SingleStepOrders DEF IInv, InvoicedHasInvoice
    <2>3. QED  BY <1>1, <2>1, <2>2 DEF IInv, ConversionsReadOpenOrders, InvoicedHasInvoice
  <1>2. ASSUME NEW r \in Requests, NEW o \in Orders,
               \/ ReadToConfirm(r, o) \/ ReadToCancel(r, o)
               \/ ReadToConvert(r, o) \/ ReadToInvoice(r, o)
        PROVE  IInv'
    BY <1>2, ReadIInv
       DEF ReadToConfirm, ReadToCancel, ReadToConvert, ReadToInvoice, Operations
  <1>3. ASSUME NEW r \in Requests, Commit(r)
        PROVE  IInv'
    BY <1>3, CommitIInv
  <1>4. ASSUME NEW r \in Requests, Rollback(r)
        PROVE  IInv'
    <2>1. Answer(r) /\ UNCHANGED bookVars
      BY <1>4 DEF Rollback
    <2>2. BookInv' /\ InvoicedHasInvoice'
      BY <2>1 DEF IInv, BookInv, BookTypeOK, SoundStock, InvoicedHasInvoice, HasInvoice, bookVars
    <2>3. QED  BY <2>1, <2>2, AnswerKeepsRequests DEF IInv
  <1>5. CASE UNCHANGED vars
    BY <1>5 DEF IInv, BookInv, BookTypeOK, SoundStock, InvoicedHasInvoice, HasInvoice,
                ConversionsReadOpenOrders, bookVars, vars
  <1>6. QED  BY <1>1, <1>2, <1>3, <1>4, <1>5 DEF Next

\* The invariant holds in every state.
LEMMA SpecIInv == Spec => []IInv
  BY InitIInv, NextIInv, PTL DEF Spec

\* The state keeps its types, however many requests run.
THEOREM SalesTypeOK == Spec => []TypeOK
  <1>1. IInv => TypeOK
    BY DEF IInv, BookInv, TypeOK
  <1>2. QED  BY <1>1, SpecIInv, PTL

\* Confirmations, cancellations, invoices, direct sales and credit notes, in
\* any interleaving of any number of requests, never reserve more than the
\* warehouse holds.
THEOREM StockNeverOverReserved == Spec => []ReservedWithinStock
  <1>1. IInv => ReservedWithinStock
    BY DEF IInv, BookInv, SoundStock, SoundRow, Row, ReservedWithinStock
  <1>2. QED  BY <1>1, SpecIInv, PTL

\* No interleaving leaves an order marked invoiced that has no invoice, stale
\* rows written back included.
THEOREM InvoicedOrdersHaveInvoices == Spec => []InvoicedHasInvoice
  <1>1. IInv => InvoicedHasInvoice
    BY DEF IInv
  <1>2. QED  BY <1>1, SpecIInv, PTL

-----------------------------------------------------------------------------
(* Invoices of an order, and the requests about to issue one.              *)

\* The sets that are counted are finite.
LEMMA OverlapIsFinite ==
  ASSUME IInv, NEW o \in Orders
  PROVE  /\ IsFiniteSet(InvoicesOf(o)) /\ Cardinality(InvoicesOf(o)) \in Nat
         /\ IsFiniteSet(Invoicing(o)) /\ Cardinality(Invoicing(o)) \in Nat
         /\ IsFiniteSet(Requests) /\ Cardinality(Requests) \in Nat
         /\ Cardinality(Invoicing(o)) <= Cardinality(Requests)
  <1>1. IsFiniteSet(Requests) /\ Cardinality(Requests) \in Nat
    BY SalesOrdersAssumption, FS_CardinalityType
  <1>2. Invoicing(o) \subseteq Requests
    BY DEF Invoicing
  <1>3. IsFiniteSet(Invoicing(o)) /\ Cardinality(Invoicing(o)) <= Cardinality(Requests)
    BY <1>1, <1>2, FS_Subset
  <1>4. Cardinality(Invoicing(o)) \in Nat
    BY <1>3, FS_CardinalityType
  <1>5. Len(invoices) \in Nat /\ DOMAIN invoices = 1 .. Len(invoices)
    BY DEF IInv, BookInv, BookTypeOK
  <1>6. IsFiniteSet(1 .. Len(invoices))
    BY <1>5, FS_Interval
  <1>7. InvoicesOf(o) \subseteq 1 .. Len(invoices)
    BY <1>5 DEF InvoicesOf
  <1>8. IsFiniteSet(InvoicesOf(o))
    BY <1>6, <1>7, FS_Subset
  <1>9. Cardinality(InvoicesOf(o)) \in Nat
    BY <1>8, FS_CardinalityType
  <1>10. QED  BY <1>1, <1>3, <1>4, <1>8, <1>9

\* A step that adds no invoice of an order and no request about to issue one
\* keeps the bound.
LEMMA NothingAdded ==
  ASSUME IInv, NEW o \in Orders,
         Cardinality(InvoicesOf(o)) + Cardinality(Invoicing(o)) <= Cardinality(Requests),
         InvoicesOf(o)' = InvoicesOf(o), Invoicing(o)' \subseteq Invoicing(o)
  PROVE  Cardinality(InvoicesOf(o)') + Cardinality(Invoicing(o)') <= Cardinality(Requests)
  <1>1. /\ Cardinality(InvoicesOf(o)) \in Nat /\ Cardinality(Requests) \in Nat
        /\ IsFiniteSet(Invoicing(o)) /\ Cardinality(Invoicing(o)) \in Nat
    BY OverlapIsFinite
  <1>2. /\ IsFiniteSet(Invoicing(o)')
        /\ Cardinality(Invoicing(o)') <= Cardinality(Invoicing(o))
    BY <1>1, FS_Subset
  <1>3. Cardinality(Invoicing(o)') \in Nat
    BY <1>2, FS_CardinalityType
  <1>4. QED  BY <1>1, <1>2, <1>3

\* What the request of another operation does not take part in.
LEMMA InvoicingAnswered ==
  ASSUME IInv, NEW r \in Requests, Answer(r), NEW o \in Orders
  PROVE  /\ Invoicing(o)' \subseteq Invoicing(o)
         /\ r \notin Invoicing(o)'
         /\ Invoicing(o) \ {r} \subseteq Invoicing(o)'
  <1>1. DOMAIN request = Requests
    BY DEF IInv
  <1>2. request'[r] = Idle /\ \A x \in Requests \ {r} : request'[x] = request[x]
    BY <1>1 DEF Answer
  <1>3. QED  BY <1>2 DEF Invoicing, Does, Idle

\* Reading an order adds a request to the order only to invoice it, and then
\* the order has no invoice yet.
LEMMA ReadKeepsOverlap ==
  ASSUME IInv, InvoicesWithinOverlap, NEW r \in Requests, NEW x \in Orders,
         ReadToConfirm(r, x) \/ ReadToCancel(r, x) \/ ReadToConvert(r, x) \/ ReadToInvoice(r, x)
  PROVE  InvoicesWithinOverlap'
  <1> DEFINE op == request'[r].op
  <1>1. DOMAIN request = Requests
    BY DEF IInv
  <1>2. /\ invoices' = invoices /\ request[r] = Idle
        /\ request'[r].order = x
        /\ \A s \in Requests \ {r} : request'[s] = request[s]
        /\ op = "invoice" => ~HasInvoice(x)
    BY <1>1 DEF ReadToConfirm, ReadToCancel, ReadToConvert, ReadToInvoice, Read, bookVars, MayInvoice
  <1> SUFFICES ASSUME NEW o \in Orders
               PROVE  Cardinality(InvoicesOf(o)') + Cardinality(Invoicing(o)')
                        <= Cardinality(Requests)
    BY DEF InvoicesWithinOverlap
  <1>3. InvoicesOf(o)' = InvoicesOf(o)
    BY <1>2 DEF InvoicesOf
  <1>4. CASE o = x /\ op = "invoice"
    <2>1. InvoicesOf(o) = {}
      BY <1>2, <1>4 DEF InvoicesOf, HasInvoice
    <2>2. Cardinality(InvoicesOf(o)') = 0
      BY <1>3, <2>1, FS_EmptySet
    <2>3. IsFiniteSet(Requests) /\ Cardinality(Requests) \in Nat
      BY OverlapIsFinite
    <2>4. Invoicing(o)' \subseteq Requests
      BY DEF Invoicing
    <2>5. IsFiniteSet(Invoicing(o)') /\ Cardinality(Invoicing(o)') <= Cardinality(Requests)
      BY <2>3, <2>4, FS_Subset
    <2>6. Cardinality(Invoicing(o)') \in Nat
      BY <2>5, FS_CardinalityType
    <2>7. QED  BY <2>2, <2>3, <2>5, <2>6
  <1>5. CASE ~(o = x /\ op = "invoice")
    <2>1. Invoicing(o)' \subseteq Invoicing(o)
      BY <1>2, <1>5 DEF Invoicing, Does
    <2>2. QED  BY <1>3, <2>1, NothingAdded DEF InvoicesWithinOverlap
  <1>6. QED  BY <1>4, <1>5

\* An invoice of an order takes the place of the request that issued it.
LEMMA InvoiceKeepsOverlap ==
  ASSUME IInv, InvoicesWithinOverlap, NEW r \in Requests, CommitInvoice(r)
  PROVE  InvoicesWithinOverlap'
  <1> DEFINE x == request[r].order
             new == [order |-> x, lines |-> Lines[x], credited |-> 0]
             last == Len(invoices) + 1
  <1>1. invoices \in Seq(Invoice) /\ invoices' = Append(invoices, new) /\ Answer(r)
    BY DEF CommitInvoice, InvoiceFrom, IssueInvoice, IInv, BookInv, BookTypeOK
  <1>2. /\ DOMAIN invoices = 1 .. Len(invoices) /\ DOMAIN invoices' = 1 .. last
        /\ Len(invoices) \in Nat /\ invoices'[last].order = x
        /\ \A i \in DOMAIN invoices : invoices'[i] = invoices[i]
    BY <1>1
  <1> HIDE DEF new
  <1> SUFFICES ASSUME NEW o \in Orders
               PROVE  Cardinality(InvoicesOf(o)') + Cardinality(Invoicing(o)')
                        <= Cardinality(Requests)
    BY DEF InvoicesWithinOverlap
  <1>3. CASE o # x
    <2>1. InvoicesOf(o)' = InvoicesOf(o)
      BY <1>2, <1>3 DEF InvoicesOf
    <2>2. Invoicing(o)' \subseteq Invoicing(o)
      BY <1>1, InvoicingAnswered
    <2>3. QED  BY <2>1, <2>2, NothingAdded DEF InvoicesWithinOverlap
  <1>4. CASE o = x
    <2>1. InvoicesOf(o)' = InvoicesOf(o) \cup {last} /\ last \notin InvoicesOf(o)
      BY <1>2, <1>4 DEF InvoicesOf
    <2>2. r \in Invoicing(o)
      BY <1>4 DEF Invoicing, CommitInvoice
    <2>3. Invoicing(o)' = Invoicing(o) \ {r}
      BY <1>1, InvoicingAnswered
    <2>4. /\ IsFiniteSet(InvoicesOf(o)) /\ Cardinality(InvoicesOf(o)) \in Nat
          /\ IsFiniteSet(Invoicing(o)) /\ Cardinality(Invoicing(o)) \in Nat
          /\ Cardinality(Requests) \in Nat
      BY OverlapIsFinite
    <2>5. Cardinality(InvoicesOf(o)') = Cardinality(InvoicesOf(o)) + 1
      BY <2>1, <2>4, FS_AddElement
    <2>6. Cardinality(Invoicing(o)') = Cardinality(Invoicing(o)) - 1
      BY <2>2, <2>3, <2>4, FS_RemoveElement
    <2>7. Cardinality(InvoicesOf(o)) + Cardinality(Invoicing(o)) <= Cardinality(Requests)
      BY DEF InvoicesWithinOverlap
    <2>8. QED  BY <2>4, <2>5, <2>6, <2>7
  <1>5. QED  BY <1>3, <1>4

\* The steps of no request issue nothing for an order.
LEMMA SingleStepKeepsOverlap ==
  ASSUME IInv, InvoicesWithinOverlap, SingleStep, UNCHANGED request
  PROVE  InvoicesWithinOverlap'
  <1>1. ASSUME NEW o \in Orders
        PROVE  InvoicesOf(o)' = InvoicesOf(o)
    <2>1. ASSUME NEW p \in Products, NEW q \in SaleQuantities, DirectSale(p, q)
          PROVE  InvoicesOf(o)' = InvoicesOf(o)
      <3> DEFINE last == Len(invoices) + 1
                 new == [order |-> Direct, lines |-> OnlyLine(p, q), credited |-> 0]
      <3>1. invoices \in Seq(Invoice) /\ invoices' = Append(invoices, new)
        BY <2>1 DEF DirectSale, IssueInvoice, IInv, BookInv, BookTypeOK
      <3>2. /\ DOMAIN invoices = 1 .. Len(invoices) /\ DOMAIN invoices' = 1 .. last
            /\ Len(invoices) \in Nat /\ invoices'[last].order = Direct
            /\ \A i \in DOMAIN invoices : invoices'[i] = invoices[i]
        BY <3>1
      <3>3. o # Direct
        BY OrderBookAssumption
      <3>4. QED  BY <3>2, <3>3 DEF InvoicesOf
    <2>2. ASSUME NEW i \in DOMAIN invoices, CreditNote(i)
          PROVE  InvoicesOf(o)' = InvoicesOf(o)
      <3>1. DOMAIN invoices' = DOMAIN invoices
        BY <2>2 DEF CreditNote, IInv, BookInv, BookTypeOK
      <3>2. ASSUME NEW j \in DOMAIN invoices
            PROVE  invoices'[j].order = invoices[j].order
        <4>1. invoices[j] \in Invoice
          BY DEF IInv, BookInv, BookTypeOK
        <4>2. QED  BY <2>2, <4>1 DEF CreditNote, Invoice, IInv, BookInv, BookTypeOK
      <3>3. QED  BY <3>1, <3>2 DEF InvoicesOf
    <2>3. CASE UNCHANGED invoices
      BY <2>3 DEF InvoicesOf
    <2>4. QED  BY <2>1, <2>2, <2>3 DEF SingleStep, Create, Receive
  <1>2. ASSUME NEW o \in Orders
        PROVE  Invoicing(o)' \subseteq Invoicing(o)
    BY DEF Invoicing, Does
  <1>3. QED  BY <1>1, <1>2, NothingAdded DEF InvoicesWithinOverlap

\* An order never has more invoices than requests overlapped to issue them,
\* whatever stale rows are saved meanwhile.
THEOREM InvoicesStayWithinOverlap == Spec => []InvoicesWithinOverlap
  <1>1. Init => InvoicesWithinOverlap
    <2> SUFFICES ASSUME Init, NEW o \in Orders
                 PROVE  Cardinality(InvoicesOf(o)) + Cardinality(Invoicing(o))
                          <= Cardinality(Requests)
      BY DEF InvoicesWithinOverlap
    <2>1. InvoicesOf(o) = {} /\ Invoicing(o) = {}
      BY DEF Init, BookInit, InvoicesOf, Invoicing, Does, Idle
    <2>2. Cardinality(Requests) \in Nat
      BY SalesOrdersAssumption, FS_CardinalityType
    <2>3. QED  BY <2>1, <2>2, FS_EmptySet
  <1>2. IInv /\ InvoicesWithinOverlap /\ [Next]_vars => InvoicesWithinOverlap'
    <2> SUFFICES ASSUME IInv, InvoicesWithinOverlap, [Next]_vars
                 PROVE  InvoicesWithinOverlap'
      OBVIOUS
    <2>1. CASE SingleStep /\ UNCHANGED request
      BY <2>1, SingleStepKeepsOverlap
    <2>2. ASSUME NEW r \in Requests, NEW o \in Orders,
                 ReadToConfirm(r, o) \/ ReadToCancel(r, o) \/ ReadToConvert(r, o)
                   \/ ReadToInvoice(r, o)
          PROVE  InvoicesWithinOverlap'
      BY <2>2, ReadKeepsOverlap
    <2>3. ASSUME NEW r \in Requests, CommitInvoice(r)
          PROVE  InvoicesWithinOverlap'
      BY <2>3, InvoiceKeepsOverlap
    <2>4. ASSUME NEW r \in Requests,
                 CommitConfirm(r) \/ CommitCancel(r) \/ CommitConvert(r) \/ Rollback(r)
          PROVE  InvoicesWithinOverlap'
      <3>1. invoices' = invoices /\ Answer(r)
        BY <2>4 DEF CommitConfirm, ConfirmFrom, CommitCancel, CancelFrom, CommitConvert,
                    ConvertFrom, Rollback, bookVars
      <3>2. ASSUME NEW o \in Orders
            PROVE  InvoicesOf(o)' = InvoicesOf(o) /\ Invoicing(o)' \subseteq Invoicing(o)
        BY <3>1, InvoicingAnswered DEF InvoicesOf
      <3>3. QED  BY <3>2, NothingAdded DEF InvoicesWithinOverlap
    <2>5. CASE UNCHANGED vars
      BY <2>5 DEF InvoicesWithinOverlap, InvoicesOf, Invoicing, Does, vars, bookVars
    <2>6. QED  BY <2>1, <2>2, <2>3, <2>4, <2>5 DEF Next, Commit
  <1>3. QED  BY <1>1, <1>2, SpecIInv, PTL DEF Spec

-----------------------------------------------------------------------------
(* The documents and the stock.                                            *)

SoldLines(p) == [i \in DOMAIN invoices |-> invoices[i].lines[p]]
ReturnedLines(p) == [i \in DOMAIN invoices |-> invoices[i].credited * invoices[i].lines[p]]

\* The totals of the model are sums over the domains of their functions.
LEMMA TotalIsSum ==
  ASSUME NEW f
  PROVE  Total(f) = SumOn(f, DOMAIN f)
  BY SumOfFunction DEF Total

\* What the invoices sold and took back of a product, as sums over them.
LEMMA DocumentsAreTyped ==
  ASSUME BookTypeOK, NEW p \in Products
  PROVE  /\ IsFiniteSet(DOMAIN invoices)
         /\ \A i \in DOMAIN invoices :
              /\ invoices[i] \in Invoice
              /\ SoldLines(p)[i] \in Nat
              /\ ReturnedLines(p)[i] \in Nat
         /\ Sold(p) = SumOn(SoldLines(p), DOMAIN invoices) /\ Sold(p) \in Nat
         /\ Returned(p) = SumOn(ReturnedLines(p), DOMAIN invoices) /\ Returned(p) \in Nat
  <1>1. invoices \in Seq(Invoice) /\ DOMAIN invoices = 1 .. Len(invoices) /\ Len(invoices) \in Nat
    BY DEF BookTypeOK
  <1>2. IsFiniteSet(DOMAIN invoices)
    BY <1>1, FS_Interval
  <1>3. ASSUME NEW i \in DOMAIN invoices
        PROVE  invoices[i] \in Invoice /\ SoldLines(p)[i] \in Nat /\ ReturnedLines(p)[i] \in Nat
    <2>1. invoices[i] \in Invoice
      BY <1>1
    <2>2. invoices[i].lines[p] \in Nat /\ invoices[i].credited \in Nat
      BY <2>1 DEF Invoice
    <2>3. \A m, n \in Nat : m * n \in Nat
      OBVIOUS
    <2>4. QED  BY <2>1, <2>2, <2>3 DEF SoldLines, ReturnedLines
  <1>4. Sold(p) = SumOn(SoldLines(p), DOMAIN invoices)
    BY TotalIsSum DEF Sold, SoldLines
  <1>5. Returned(p) = SumOn(ReturnedLines(p), DOMAIN invoices)
    BY TotalIsSum DEF Returned, ReturnedLines
  <1>6. Sold(p) \in Nat /\ Returned(p) \in Nat
    BY <1>2, <1>3, <1>4, <1>5, SumNat
  <1>7. QED  BY <1>2, <1>3, <1>4, <1>5, <1>6

\* A new invoice sells its lines and has nothing taken back.
LEMMA IssueSells ==
  ASSUME BookTypeOK, NEW o \in Orders \cup {Direct}, NEW lines \in [Products -> Nat],
         IssueInvoice(o, lines), NEW p \in Products
  PROVE  Sold(p)' = Sold(p) + lines[p] /\ Returned(p)' = Returned(p)
  <1> DEFINE n == Len(invoices) + 1
             new == [order |-> o, lines |-> lines, credited |-> 0]
             D == DOMAIN invoices
  <1>1. invoices \in Seq(Invoice) /\ new \in Invoice /\ invoices' = Append(invoices, new)
    BY DEF BookTypeOK, IssueInvoice, Invoice
  <1>2. /\ n \notin D
        /\ DOMAIN invoices' = D \cup {n}
        /\ invoices'[n] = new
        /\ \A i \in D : invoices'[i] = invoices[i]
    BY <1>1
  <1>3. new.lines = lines /\ new.credited = 0 /\ lines[p] \in Int /\ 0 * lines[p] = 0
    OBVIOUS
  <1> HIDE DEF new, n, D
  <1>4. /\ SoldLines(p)'[n] = lines[p]
        /\ \A i \in D : SoldLines(p)'[i] = SoldLines(p)[i]
    BY <1>2, <1>3 DEF SoldLines, D
  <1>5. /\ ReturnedLines(p)'[n] = 0
        /\ \A i \in D : ReturnedLines(p)'[i] = ReturnedLines(p)[i]
    BY <1>2, <1>3 DEF ReturnedLines, D
  <1>6. IsFiniteSet(D) /\ \A i \in D : SoldLines(p)[i] \in Int /\ ReturnedLines(p)[i] \in Int
    BY DocumentsAreTyped DEF D
  <1>7. SumOn(SoldLines(p)', D \cup {n}) = lines[p] + SumOn(SoldLines(p), D)
    <2>1. SumOn(SoldLines(p)', D \cup {n}) = SoldLines(p)'[n] + SumOn(SoldLines(p)', D)
      BY <1>2, <1>3, <1>4, <1>6, SumAdd
    <2>2. SumOn(SoldLines(p)', D) = SumOn(SoldLines(p), D)
      BY <1>4, <1>6, SumAgree
    <2>3. QED  BY <1>4, <2>1, <2>2
  <1>8. SumOn(ReturnedLines(p)', D \cup {n}) = 0 + SumOn(ReturnedLines(p), D)
    <2>1. SumOn(ReturnedLines(p)', D \cup {n}) = ReturnedLines(p)'[n] + SumOn(ReturnedLines(p)', D)
      BY <1>2, <1>5, <1>6, SumAdd
    <2>2. SumOn(ReturnedLines(p)', D) = SumOn(ReturnedLines(p), D)
      BY <1>5, <1>6, SumAgree
    <2>3. QED  BY <1>5, <2>1, <2>2
  <1>9. /\ Sold(p)' = SumOn(SoldLines(p)', DOMAIN invoices')
        /\ Returned(p)' = SumOn(ReturnedLines(p)', DOMAIN invoices')
    BY TotalIsSum DEF Sold, SoldLines, Returned, ReturnedLines
  <1>10. /\ Sold(p) = SumOn(SoldLines(p), D) /\ Sold(p) \in Nat
         /\ Returned(p) = SumOn(ReturnedLines(p), D) /\ Returned(p) \in Nat
    BY DocumentsAreTyped DEF D
  <1>11. QED  BY <1>2, <1>3, <1>7, <1>8, <1>9, <1>10

\* A credit note takes the lines of its invoice back once more.
LEMMA CreditReturns ==
  ASSUME BookTypeOK, NEW k \in DOMAIN invoices, CreditNote(k), NEW p \in Products
  PROVE  Sold(p)' = Sold(p) /\ Returned(p)' = Returned(p) + invoices[k].lines[p]
  <1> DEFINE D == DOMAIN invoices
             credited == [invoices[k] EXCEPT !.credited = invoices[k].credited + 1]
  <1>1. invoices[k] \in Invoice /\ invoices[k].lines[p] \in Nat /\ invoices[k].credited \in Nat
    BY DocumentsAreTyped DEF Invoice
  <1>2. invoices' = [invoices EXCEPT ![k] = credited] /\ invoices \in Seq(Invoice)
    BY DEF CreditNote, BookTypeOK
  <1>3. /\ DOMAIN invoices' = D
        /\ invoices'[k] = credited
        /\ \A i \in D \ {k} : invoices'[i] = invoices[i]
    BY <1>2
  <1>4. credited.lines = invoices[k].lines /\ credited.credited = invoices[k].credited + 1
    BY <1>1 DEF Invoice
  <1> HIDE DEF credited
  <1>5. \A i \in D : SoldLines(p)'[i] = SoldLines(p)[i]
    BY <1>3, <1>4 DEF SoldLines
  <1>6. \A i \in D \ {k} : ReturnedLines(p)'[i] = ReturnedLines(p)[i]
    BY <1>3 DEF ReturnedLines
  <1>7. ReturnedLines(p)'[k] = ReturnedLines(p)[k] + invoices[k].lines[p]
    <2>1. ReturnedLines(p)'[k] = (invoices[k].credited + 1) * invoices[k].lines[p]
      BY <1>3, <1>4 DEF ReturnedLines
    <2>2. ReturnedLines(p)[k] = invoices[k].credited * invoices[k].lines[p]
      BY DEF ReturnedLines
    <2>3. \A m, n \in Nat : (m + 1) * n = m * n + n
      OBVIOUS
    <2>4. QED  BY <1>1, <2>1, <2>2, <2>3
  <1>8. /\ IsFiniteSet(D)
        /\ \A i \in D : SoldLines(p)[i] \in Int /\ ReturnedLines(p)[i] \in Int
    BY DocumentsAreTyped
  <1>9. /\ Sold(p)' = SumOn(SoldLines(p)', DOMAIN invoices')
        /\ Returned(p)' = SumOn(ReturnedLines(p)', DOMAIN invoices')
    BY TotalIsSum DEF Sold, SoldLines, Returned, ReturnedLines
  <1>10. /\ Sold(p) = SumOn(SoldLines(p), D) /\ Sold(p) \in Nat
         /\ Returned(p) = SumOn(ReturnedLines(p), D) /\ Returned(p) \in Nat
    BY DocumentsAreTyped
  <1> HIDE DEF D
  <1>11. SumOn(SoldLines(p)', D) = SumOn(SoldLines(p), D)
    BY <1>5, <1>8, SumAgree
  <1>12. SumOn(ReturnedLines(p)', D)
           = SumOn(ReturnedLines(p), D) - ReturnedLines(p)[k] + ReturnedLines(p)'[k]
    <2>1. k \in D
      BY DEF D
    <2>2. ReturnedLines(p)[k] \in Int /\ ReturnedLines(p)'[k] \in Int
      BY <1>1, <1>7, <1>8, <2>1
    <2>3. QED  BY <1>6, <1>8, <2>1, <2>2, SumChange
  <1>13. ReturnedLines(p)[k] \in Int
    BY <1>8 DEF D
  <1>14. QED  BY <1>1, <1>3, <1>7, <1>9, <1>10, <1>11, <1>12, <1>13

\* An invoice takes from each row what it sells.
LEMMA InvoicesExplainStock ==
  ASSUME BookInv, StockExplainedByDocuments,
         NEW o \in Orders \cup {Direct}, NEW lines \in [Products -> Nat],
         IssueInvoice(o, lines), SellLines(lines), UNCHANGED received
  PROVE  StockExplainedByDocuments'
  <1>1. ASSUME NEW p \in Products
        PROVE  (stock[p].quantity = InitialStock[p] + received[p] + Returned(p) - Sold(p))'
    <2>1. stock'[p].quantity = stock[p].quantity - lines[p]
      BY DEF SellLines, Moved, BookInv, SoundStock, Row
    <2>2. stock[p].quantity = InitialStock[p] + received[p] + Returned(p) - Sold(p)
      BY DEF StockExplainedByDocuments
    <2>3. InitialStock[p] \in Int /\ received[p] \in Int /\ lines[p] \in Int
          /\ Returned(p) \in Int /\ Sold(p) \in Int
      BY DocumentsAreTyped, OrderBookAssumption DEF BookInv, BookTypeOK
    <2>4. Sold(p)' = Sold(p) + lines[p] /\ Returned(p)' = Returned(p)
      BY IssueSells DEF BookInv
    <2>5. InitialStock' = InitialStock /\ received'[p] = received[p]
      OBVIOUS
    <2>6. QED  BY <2>1, <2>2, <2>3, <2>4, <2>5
  <1>2. QED  BY <1>1 DEF StockExplainedByDocuments

\* A credit note gives back to each row what its invoice sold.
LEMMA CreditsExplainStock ==
  ASSUME BookInv, StockExplainedByDocuments, NEW i \in DOMAIN invoices, CreditNote(i)
  PROVE  StockExplainedByDocuments'
  <1>1. ASSUME NEW p \in Products
        PROVE  (stock[p].quantity = InitialStock[p] + received[p] + Returned(p) - Sold(p))'
    <2>1. stock'[p].quantity = stock[p].quantity + invoices[i].lines[p]
      BY DEF CreditNote, Moved, BookInv, SoundStock, Row
    <2>2. stock[p].quantity = InitialStock[p] + received[p] + Returned(p) - Sold(p)
      BY DEF StockExplainedByDocuments
    <2>3. InitialStock[p] \in Int /\ received[p] \in Int /\ Returned(p) \in Int /\ Sold(p) \in Int
      BY DocumentsAreTyped, OrderBookAssumption DEF BookInv, BookTypeOK
    <2>4. invoices[i].lines[p] \in Int
      BY DocumentsAreTyped DEF BookInv, Invoice
    <2>5. Sold(p)' = Sold(p) /\ Returned(p)' = Returned(p) + invoices[i].lines[p]
      BY CreditReturns DEF BookInv
    <2>6. received'[p] = received[p]
      BY DEF CreditNote
    <2>7. QED  BY <2>1, <2>2, <2>3, <2>4, <2>5, <2>6
  <1>2. QED  BY <1>1 DEF StockExplainedByDocuments

\* A step that issues no invoice and no credit note keeps what they explain.
LEMMA OthersExplainStock ==
  ASSUME StockExplainedByDocuments, UNCHANGED <<invoices, received>>,
         \A p \in Products : stock'[p].quantity = stock[p].quantity
  PROVE  StockExplainedByDocuments'
  <1>1. ASSUME NEW p \in Products
        PROVE  Sold(p)' = Sold(p) /\ Returned(p)' = Returned(p)
    <2>1. SoldLines(p)' = SoldLines(p) /\ ReturnedLines(p)' = ReturnedLines(p)
      BY DEF SoldLines, ReturnedLines
    <2>2. /\ Sold(p) = Total(SoldLines(p)) /\ Sold(p)' = Total(SoldLines(p)')
          /\ Returned(p) = Total(ReturnedLines(p)) /\ Returned(p)' = Total(ReturnedLines(p)')
      BY DEF Sold, SoldLines, Returned, ReturnedLines
    <2>3. QED  BY <2>1, <2>2
  <1>2. QED  BY <1>1 DEF StockExplainedByDocuments

\* A receipt adds what it records.
LEMMA ReceiptsExplainStock ==
  ASSUME BookInv, StockExplainedByDocuments, NEW x \in Products, NEW q \in SaleQuantities, Receive(x, q)
  PROVE  StockExplainedByDocuments'
  <1>1. ASSUME NEW p \in Products
        PROVE  (stock[p].quantity = InitialStock[p] + received[p] + Returned(p) - Sold(p))'
    <2>1. Sold(p)' = Sold(p) /\ Returned(p)' = Returned(p)
      <3>1. SoldLines(p)' = SoldLines(p) /\ ReturnedLines(p)' = ReturnedLines(p)
        BY DEF SoldLines, ReturnedLines, Receive
      <3>2. /\ Sold(p) = Total(SoldLines(p)) /\ Sold(p)' = Total(SoldLines(p)')
            /\ Returned(p) = Total(ReturnedLines(p)) /\ Returned(p)' = Total(ReturnedLines(p)')
        BY DEF Sold, SoldLines, Returned, ReturnedLines
      <3>3. QED  BY <3>1, <3>2
    <2>2. stock[p].quantity = InitialStock[p] + received[p] + Returned(p) - Sold(p)
      BY DEF StockExplainedByDocuments
    <2>3. InitialStock[p] \in Int /\ received[p] \in Int /\ Returned(p) \in Int /\ Sold(p) \in Int
          /\ q \in Int
      BY DocumentsAreTyped, OrderBookAssumption DEF BookInv, BookTypeOK
    <2>4. CASE p = x
      <3>1. stock'[p].quantity = stock[p].quantity + q /\ received'[p] = received[p] + q
        BY <2>4 DEF Receive, Moved, BookInv, BookTypeOK, Row
      <3>2. QED  BY <2>1, <2>2, <2>3, <3>1
    <2>5. CASE p # x
      <3>1. stock'[p].quantity = stock[p].quantity /\ received'[p] = received[p]
        BY <2>5 DEF Receive, BookInv, BookTypeOK
      <3>2. QED  BY <2>1, <2>2, <3>1
    <2>6. QED  BY <2>4, <2>5
  <1>2. QED  BY <1>1 DEF StockExplainedByDocuments

\* However requests interleave and whichever of them roll back, the quantity of
\* every product is what the warehouse started with and received, less what the
\* invoices sold, plus what the credit notes took back (create of
\* InvoicesService, applyStockMovement): nothing else moves stock, and no
\* document moves it in part or twice.
THEOREM StockFollowsDocuments == Spec => []StockExplainedByDocuments
  <1>1. Init => StockExplainedByDocuments
    <2> SUFFICES ASSUME Init, NEW p \in Products
                 PROVE  stock[p].quantity = InitialStock[p] + received[p] + Returned(p) - Sold(p)
      BY DEF StockExplainedByDocuments
    <2>1. /\ stock[p].quantity = InitialStock[p] /\ received[p] = 0 /\ DOMAIN invoices = {}
          /\ InitialStock[p] \in Int
      BY OrderBookAssumption DEF Init, BookInit
    <2>2. Sold(p) = SumOn(SoldLines(p), {}) /\ Returned(p) = SumOn(ReturnedLines(p), {})
      BY <2>1, TotalIsSum DEF Sold, SoldLines, Returned, ReturnedLines
    <2>3. Sold(p) = 0 /\ Returned(p) = 0
      BY <2>2, SumEmpty
    <2>4. QED  BY <2>1, <2>3
  <1>2. IInv /\ StockExplainedByDocuments /\ [Next]_vars => StockExplainedByDocuments'
    <2> SUFFICES ASSUME IInv, StockExplainedByDocuments, [Next]_vars
                 PROVE  StockExplainedByDocuments'
      OBVIOUS
    <2>0. BookInv
      BY DEF IInv
    <2>1. ASSUME UNCHANGED <<stock, invoices, received>>
          PROVE  StockExplainedByDocuments'
      BY <2>1, OthersExplainStock
    <2>2. CASE SingleStep
      <3>1. ASSUME NEW o \in Orders, NEW kind \in Kinds, Create(o, kind)
            PROVE  StockExplainedByDocuments'
        BY <2>1, <3>1 DEF Create
      <3>2. ASSUME NEW p \in Products, NEW q \in SaleQuantities, DirectSale(p, q)
            PROVE  StockExplainedByDocuments'
        BY <2>0, <3>2, OnlyLineIsTyped, InvoicesExplainStock DEF DirectSale
      <3>3. ASSUME NEW i \in DOMAIN invoices, CreditNote(i)
            PROVE  StockExplainedByDocuments'
        BY <2>0, <3>3, CreditsExplainStock
      <3>4. ASSUME NEW p \in Products, NEW q \in SaleQuantities, Receive(p, q)
            PROVE  StockExplainedByDocuments'
        BY <2>0, <3>4, ReceiptsExplainStock
      <3>5. QED  BY <2>2, <3>1, <3>2, <3>3, <3>4 DEF SingleStep
    <2>3. ASSUME NEW r \in Requests, NEW o \in Orders,
                 \/ ReadToConfirm(r, o) \/ ReadToCancel(r, o)
                 \/ ReadToConvert(r, o) \/ ReadToInvoice(r, o)
          PROVE  StockExplainedByDocuments'
      BY <2>1, <2>3 DEF ReadToConfirm, ReadToCancel, ReadToConvert, ReadToInvoice, Read, bookVars
    <2>4. ASSUME NEW r \in Requests, CommitConfirm(r) \/ CommitCancel(r) \/ CommitConvert(r)
          PROVE  StockExplainedByDocuments'
      <3>1. UNCHANGED <<invoices, received>>
        BY <2>4 DEF CommitConfirm, ConfirmFrom, CommitCancel, CancelFrom, CommitConvert, ConvertFrom
      <3>2. ASSUME NEW p \in Products
            PROVE  stock'[p].quantity = stock[p].quantity
        BY <2>0, <2>4 DEF CommitConfirm, ConfirmFrom, CommitCancel, CancelFrom, CommitConvert,
                          ConvertFrom, Reserved, Released, BookInv, BookTypeOK, Row
      <3>3. QED  BY <3>1, <3>2, OthersExplainStock
    <2>5. ASSUME NEW r \in Requests, CommitInvoice(r)
          PROVE  StockExplainedByDocuments'
      <3>1. request[r].order \in Orders /\ Lines[request[r].order] \in [Products -> Nat]
        BY <2>5, PendingRequest, OrderBookAssumption DEF CommitInvoice, Operations
      <3>2. QED  BY <2>0, <2>5, <3>1, InvoicesExplainStock DEF CommitInvoice, InvoiceFrom
    <2>6. ASSUME NEW r \in Requests, Rollback(r)
          PROVE  StockExplainedByDocuments'
      BY <2>1, <2>6 DEF Rollback, bookVars
    <2>7. CASE UNCHANGED vars
      BY <2>1, <2>7 DEF vars, bookVars
    <2>8. QED  BY <2>2, <2>3, <2>4, <2>5, <2>6, <2>7 DEF Next, Commit
  <1>3. QED  BY <1>1, <1>2, SpecIInv, PTL DEF Spec

-----------------------------------------------------------------------------
(* A client that waits for each answer: with at most one request at a time *)
(* SalesOrders implements OrderBook, in which an operation is one step,    *)
(* and no order is invoiced twice or reopened.                             *)

OneRequest == \A r, s \in Requests : r = s

\* What the checks of the operation a request does have found.
Allowed(op, o) ==
  /\ op = "confirm" => MayConfirm(order[o])
  /\ op = "cancel" => MayCancel(order[o])
  /\ op = "convert" => MayConvert(order[o])
  /\ op = "invoice" => MayInvoice(o, order[o])

\* The row a request read is still the row of the order, and still passes.
FreshReads ==
  \A r \in Requests :
    request[r] # Idle =>
      /\ request[r].read = order[request[r].order]
      /\ Allowed(request[r].op, request[r].order)

FreshInv == IInv /\ FreshReads

-----------------------------------------------------------------------------

\* After the only request is answered there is no copy that could be stale.
LEMMA AnswerKeepsFresh ==
  ASSUME IInv, OneRequest, NEW r \in Requests, Answer(r)
  PROVE  FreshReads'
  <1>1. \A s \in Requests : request'[s] = Idle
    BY DEF Answer, IInv, OneRequest
  <1>2. QED  BY <1>1 DEF FreshReads

\* The only request under way holds the row as it is.
LEMMA ReadIsFresh ==
  ASSUME IInv, OneRequest, NEW r \in Requests, NEW o \in Orders, NEW op \in Operations,
         Read(r, o, op), Allowed(op, o)
  PROVE  FreshReads'
  <1> DEFINE new == [op |-> op, order |-> o, read |-> order[o]]
  <1>1. \A s \in Requests : request'[s] = new
    BY DEF Read, IInv, OneRequest
  <1>2. UNCHANGED <<order, invoices>>
    BY DEF Read, bookVars
  <1>3. Allowed(op, o)'
    BY <1>2 DEF Allowed, MayConfirm, MayCancel, MayConvert, MayInvoice, HasInvoice
  <1>4. QED  BY <1>1, <1>2, <1>3 DEF FreshReads

\* The single-step operations leave what a request decided on as it is: they
\* create orders, and invoice none.
LEMMA SingleStepKeepsFresh ==
  ASSUME FreshInv, SingleStep, UNCHANGED request
  PROVE  FreshReads'
  <1>1. ASSUME NEW r \in Requests, request[r] # Idle
        PROVE  /\ request[r].read = order'[request[r].order]
               /\ Allowed(request[r].op, request[r].order)'
    <2> DEFINE o == request[r].order
    <2>1. request[r] \in Pending
      BY <1>1 DEF FreshInv, IInv
    <2>2. o \in Orders /\ request[r].read \in OrderRow
      BY <2>1 DEF Pending
    <2>3. request[r].read = order[o] /\ Allowed(request[r].op, o)
      BY <1>1 DEF FreshInv, FreshReads
    <2>4. order[o] # Absent
      BY <2>2, <2>3 DEF OrderRow, Absent, Kinds
    <2>5. order'[o] = order[o] /\ (HasInvoice(o)' <=> HasInvoice(o))
      BY <2>2, <2>4, SingleStepOrders DEF FreshInv, IInv
    <2>6. Allowed(request[r].op, o)'
      BY <2>3, <2>5 DEF Allowed, MayConfirm, MayCancel, MayConvert, MayInvoice
    <2>7. QED  BY <2>3, <2>5, <2>6
  <1>2. QED  BY <1>1 DEF FreshReads

\* No request is under way at the start, so no copy is stale.
LEMMA FreshInit == Init => FreshInv
  BY InitIInv DEF FreshInv, FreshReads, Init

\* With one request at a time, nothing changes an order between the read of a
\* request and its transaction.
LEMMA FreshNext ==
  ASSUME OneRequest, FreshInv, [Next]_vars
  PROVE  FreshInv'
  <1>1. IInv /\ IInv'
    BY NextIInv DEF FreshInv
  <1>2. CASE SingleStep /\ UNCHANGED request
    BY <1>1, <1>2, SingleStepKeepsFresh DEF FreshInv
  <1>3. ASSUME NEW r \in Requests, NEW o \in Orders,
               \/ ReadToConfirm(r, o) \/ ReadToCancel(r, o)
               \/ ReadToConvert(r, o) \/ ReadToInvoice(r, o)
        PROVE  FreshInv'
    BY <1>1, <1>3, ReadIsFresh
       DEF ReadToConfirm, ReadToCancel, ReadToConvert, ReadToInvoice,
           Operations, Allowed, FreshInv
  <1>4. ASSUME NEW r \in Requests, Commit(r) \/ Rollback(r)
        PROVE  FreshInv'
    <2>1. Answer(r)
      BY <1>4 DEF Commit, CommitConfirm, CommitCancel, CommitConvert, CommitInvoice, Rollback
    <2>2. QED  BY <1>1, <2>1, AnswerKeepsFresh DEF FreshInv
  <1>5. CASE UNCHANGED vars
    BY <1>1, <1>5 DEF FreshInv, FreshReads, Allowed, MayConfirm, MayCancel, MayConvert,
                      MayInvoice, HasInvoice, vars, bookVars
  <1>6. QED  BY <1>2, <1>3, <1>4, <1>5 DEF Next

-----------------------------------------------------------------------------

\* A commit of the only request is the operation on the order's own row.
LEMMA CommitIsOperation ==
  ASSUME FreshInv, NEW r \in Requests, Commit(r)
  PROVE  \E o \in Orders : Confirm(o) \/ Cancel(o) \/ Convert(o) \/ InvoiceOrder(o)
  <1> DEFINE o == request[r].order
  <1>1. PICK op \in Operations : Does(r, op)
    BY DEF Commit, CommitConfirm, CommitCancel, CommitConvert, CommitInvoice, Operations
  <1>2. o \in Orders /\ request[r].read \in OrderRow /\ request[r] \in Pending
    BY <1>1, PendingRequest DEF FreshInv
  <1>3. request[r] # Idle
    <2>1. Idle.op \notin Operations
      BY DEF Idle, Operations
    <2>2. QED  BY <1>1, <2>1 DEF Does
  <1>4. request[r].read = order[o] /\ Allowed(request[r].op, o)
    BY <1>3 DEF FreshInv, FreshReads
  <1>5. order[o] # Absent
    BY <1>2, <1>4 DEF OrderRow, Absent, Kinds
  <1>6. Confirm(o) \/ Cancel(o) \/ Convert(o) \/ InvoiceOrder(o)
    BY <1>4, <1>5 DEF Commit, CommitConfirm, CommitCancel, CommitConvert, CommitInvoice, Does,
                      Allowed, Confirm, Cancel, Convert, InvoiceOrder
  <1>7. QED  BY <1>2, <1>6

\* A step of one request at a time is a step of the atomic book, or a step
\* that the book does not see.
LEMMA StepRefines ==
  ASSUME FreshInv, [Next]_vars
  PROVE  [BookNext]_bookVars
  <1>1. CASE SingleStep
    BY <1>1 DEF BookNext
  <1>2. ASSUME NEW r \in Requests, NEW o \in Orders,
               \/ ReadToConfirm(r, o) \/ ReadToCancel(r, o)
               \/ ReadToConvert(r, o) \/ ReadToInvoice(r, o)
        PROVE  UNCHANGED bookVars
    BY <1>2 DEF ReadToConfirm, ReadToCancel, ReadToConvert, ReadToInvoice, Read
  <1>3. ASSUME NEW r \in Requests, Commit(r)
        PROVE  BookNext
    BY <1>3, CommitIsOperation DEF BookNext
  <1>4. ASSUME NEW r \in Requests, Rollback(r)
        PROVE  UNCHANGED bookVars
    BY <1>4 DEF Rollback
  <1>5. CASE UNCHANGED vars
    BY <1>5 DEF vars
  <1>6. QED  BY <1>1, <1>2, <1>3, <1>4, <1>5 DEF Next

\* With one request at a time, reading an order in one step and changing it in
\* a later one is the same as doing both at once: the requests of OrdersService
\* and InvoicesService are atomic, and those that roll back change nothing.
THEOREM OneRequestIsAtomic ==
  ASSUME OneRequest
  PROVE  Spec => AtomicRequests
  <1>1. Init => FreshInv /\ BookInit
    BY FreshInit DEF Init
  <1>2. FreshInv /\ [Next]_vars => FreshInv'
    BY FreshNext
  <1>3. FreshInv /\ [Next]_vars => [BookNext]_bookVars
    BY StepRefines
  <1>4. QED  BY <1>1, <1>2, <1>3, PTL DEF Spec, AtomicRequests, BookSpec

\* An order is never reopened: neither a cancellation nor an invoice is undone
\* by a later operation.
THEOREM ClosedOrdersAreFinal ==
  ASSUME OneRequest
  PROVE  Spec => ClosedOrdersStayClosed
  <1> DEFINE Closed == \A o \in Orders :
               order[o] # Absent /\ order[o].status \in {"invoiced", "cancelled"}
                 => order'[o].status = order[o].status
  <1>1. Init => FreshInv
    BY FreshInit
  <1>2. FreshInv /\ [Next]_vars => FreshInv'
    BY FreshNext
  <1>3. FreshInv /\ [Next]_vars => [Closed]_vars
    <2> SUFFICES ASSUME FreshInv, [Next]_vars
                 PROVE  Closed
      OBVIOUS
    <2>1. CASE UNCHANGED bookVars
      BY <2>1 DEF bookVars
    <2>2. CASE SingleStep
      BY <2>2, SingleStepOrders DEF FreshInv, IInv
    <2>3. ASSUME NEW x \in Orders, Confirm(x) \/ Cancel(x) \/ Convert(x) \/ InvoiceOrder(x)
          PROVE  Closed
      <3>1. ASSUME NEW o \in Orders, o # x
            PROVE  order'[o] = order[o]
        BY <2>3, <3>1 DEF Confirm, ConfirmFrom, Cancel, CancelFrom, Convert, ConvertFrom,
                          InvoiceOrder, InvoiceFrom, Save, FreshInv, IInv, BookInv, BookTypeOK
      <3>2. order[x] \in OrderRow
        BY <2>3 DEF Confirm, Cancel, Convert, InvoiceOrder, FreshInv, IInv, BookInv, BookTypeOK
      <3>3. order[x].status \in {"invoiced", "cancelled"} => order'[x].status = order[x].status
        <4>1. CASE Convert(x)
          BY <3>2, <4>1 DEF Convert, ConvertFrom, Save, OrderRow, FreshInv, IInv, BookInv, BookTypeOK
        <4>2. CASE Confirm(x) \/ Cancel(x) \/ InvoiceOrder(x)
          BY <4>2 DEF Confirm, MayConfirm, Cancel, MayCancel, InvoiceOrder, MayInvoice
        <4>3. QED  BY <2>3, <4>1, <4>2
      <3>4. QED  BY <3>1, <3>3
    <2>4. QED  BY <2>1, <2>2, <2>3, StepRefines DEF BookNext
  <1>4. QED  BY <1>1, <1>2, <1>3, PTL DEF Spec, ClosedOrdersStayClosed

-----------------------------------------------------------------------------
(* What is reserved, with one request at a time.                           *)

\* What an order has a claim on.
Claims(p) == [o \in Orders |->
  IF order[o] = [kind |-> "order", status |-> "confirmed"] THEN Lines[o][p] ELSE 0]

\* What the confirmed orders ask for is a sum over all orders.
LEMMA OutstandingIsSum ==
  ASSUME NEW p \in Products
  PROVE  /\ IsFiniteSet(Orders)
         /\ \A o \in Orders : Claims(p)[o] \in Nat
         /\ Outstanding(p) = SumOn(Claims(p), Orders)
         /\ Outstanding(p) \in Nat
         /\ \A o \in Orders : Claims(p)[o] <= Outstanding(p)
  <1>1. IsFiniteSet(Orders)
    BY OrderBookAssumption
  <1>2. \A o \in Orders : Claims(p)[o] \in Nat
    BY LinesAreTyped DEF Claims
  <1>3. Outstanding(p) = SumOn(Claims(p), DOMAIN Claims(p)) /\ DOMAIN Claims(p) = Orders
    BY TotalIsSum DEF Outstanding, Claims
  <1>4. QED  BY <1>1, <1>2, <1>3, SumNat

\* When one order changes, what is asked for changes by its claim.
LEMMA OutstandingChanges ==
  ASSUME NEW p \in Products, NEW o \in Orders, \A x \in Orders \ {o} : order'[x] = order[x]
  PROVE  /\ Claims(p)'[o] \in Nat /\ Claims(p)[o] \in Nat
         /\ Outstanding(p)' = Outstanding(p) - Claims(p)[o] + Claims(p)'[o]
  <1>1. \A x \in Orders \ {o} : Claims(p)'[x] = Claims(p)[x]
    BY DEF Claims
  <1>2. Claims(p)'[o] \in Nat
    BY LinesAreTyped DEF Claims
  <1>3. Outstanding(p)' = SumOn(Claims(p)', DOMAIN Claims(p)') /\ DOMAIN Claims(p)' = Orders
    BY TotalIsSum DEF Outstanding, Claims
  <1>4. SumOn(Claims(p)', Orders) = SumOn(Claims(p), Orders) - Claims(p)[o] + Claims(p)'[o]
    <2>1. IsFiniteSet(Orders) /\ (\A x \in Orders : Claims(p)[x] \in Int) /\ Claims(p)'[o] \in Int
      BY <1>2, OutstandingIsSum
    <2>2. QED  BY <1>1, <2>1, SumChange
  <1>5. QED  BY <1>2, <1>3, <1>4, OutstandingIsSum

\* A step that leaves the orders alone leaves what they ask for.
LEMMA OutstandingStays ==
  ASSUME NEW p \in Products, UNCHANGED order
  PROVE  Outstanding(p)' = Outstanding(p)
  <1>1. Claims(p)' = Claims(p)
    BY DEF Claims
  <1>2. Outstanding(p) = Total(Claims(p)) /\ Outstanding(p)' = Total(Claims(p)')
    BY DEF Outstanding, Claims
  <1>3. QED  BY <1>1, <1>2

\* A step that changes one order, and reserves no more than the order claims
\* from then on beyond what it claimed before, leaves no phantom.
LEMMA OneOrderKeepsNoPhantom ==
  ASSUME BookInv, BookInv', NoPhantomReservation, NEW o \in Orders,
         \A x \in Orders \ {o} : order'[x] = order[x],
         \A p \in Products :
           \/ stock'[p].reserved - stock[p].reserved <= Claims(p)'[o] - Claims(p)[o]
           \/ stock'[p].reserved = 0
  PROVE  NoPhantomReservation'
  <1>1. ASSUME NEW p \in Products
        PROVE  (stock[p].reserved <= Outstanding(p))'
    <2>0. stock'[p].reserved \in Nat
      BY DEF BookInv, BookTypeOK, Row
    <2>1. stock[p].reserved \in Nat /\ stock[p].reserved <= Outstanding(p)
      BY DEF BookInv, BookTypeOK, Row, NoPhantomReservation
    <2>2. /\ Claims(p)'[o] \in Nat /\ Claims(p)[o] \in Nat
          /\ Outstanding(p)' = Outstanding(p) - Claims(p)[o] + Claims(p)'[o]
      BY OutstandingChanges
    <2>3. Outstanding(p) \in Nat /\ Claims(p)[o] <= Outstanding(p)
      BY OutstandingIsSum
    <2>4. QED  BY <2>0, <2>1, <2>2, <2>3
  <1>2. QED  BY <1>1 DEF NoPhantomReservation

\* A step that changes no order and reserves nothing leaves no phantom.
LEMMA NoOrderKeepsNoPhantom ==
  ASSUME BookInv, BookInv', NoPhantomReservation, UNCHANGED order,
         \A p \in Products : stock'[p].reserved <= stock[p].reserved
  PROVE  NoPhantomReservation'
  <1>1. ASSUME NEW p \in Products
        PROVE  (stock[p].reserved <= Outstanding(p))'
    <2>1. stock[p].reserved \in Nat /\ stock'[p].reserved \in Nat /\ Outstanding(p) \in Nat
      BY OutstandingIsSum DEF BookInv, BookTypeOK, Row
    <2>2. stock[p].reserved <= Outstanding(p) /\ Outstanding(p)' = Outstanding(p)
      BY OutstandingStays DEF NoPhantomReservation
    <2>3. QED  BY <2>1, <2>2
  <1>2. QED  BY <1>1 DEF NoPhantomReservation

\* The operations that do not read an order first reserve nothing.
LEMMA SingleStepKeepsNoPhantom ==
  ASSUME BookInv, BookInv', NoPhantomReservation, SingleStep
  PROVE  NoPhantomReservation'
  <1>1. ASSUME NEW o \in Orders, NEW kind \in Kinds, Create(o, kind)
        PROVE  NoPhantomReservation'
    <2>1. \A x \in Orders \ {o} : order'[x] = order[x]
      BY <1>1 DEF Create, Save, BookInv, BookTypeOK
    <2>2. order'[o].status = "draft" /\ order[o] = Absent
      BY <1>1 DEF Create, Save, BookInv, BookTypeOK
    <2>3. ASSUME NEW p \in Products
          PROVE  stock'[p].reserved - stock[p].reserved <= Claims(p)'[o] - Claims(p)[o]
      <3>1. Claims(p)'[o] = 0 /\ Claims(p)[o] = 0
        BY <2>2 DEF Claims, Absent
      <3>2. stock'[p].reserved = stock[p].reserved /\ stock[p].reserved \in Nat
        BY <1>1 DEF Create, BookInv, BookTypeOK, Row
      <3>3. QED  BY <3>1, <3>2
    <2>4. QED  BY <2>1, <2>3, OneOrderKeepsNoPhantom
  <1>2. ASSUME NEW p \in Products, NEW q \in SaleQuantities, DirectSale(p, q)
        PROVE  NoPhantomReservation'
    <2>1. ASSUME NEW x \in Products
          PROVE  stock'[x].reserved <= stock[x].reserved
      <3>1. OnlyLine(p, q)[x] \in Nat /\ stock[x].reserved \in Nat
        BY OnlyLineIsTyped DEF BookInv, BookTypeOK, Row
      <3>2. stock'[x].reserved = AtLeastZero(stock[x].reserved + AtMostZero(-OnlyLine(p, q)[x]))
        BY <1>2 DEF DirectSale, SellLines, Moved
      <3>3. QED  BY <3>1, <3>2 DEF AtLeastZero, AtMostZero
    <2>2. QED  BY <1>2, <2>1, NoOrderKeepsNoPhantom DEF DirectSale
  <1>3. ASSUME NEW i \in DOMAIN invoices, CreditNote(i)
        PROVE  NoPhantomReservation'
    <2>1. ASSUME NEW x \in Products
          PROVE  stock'[x].reserved <= stock[x].reserved
      <3>1. invoices[i].lines[x] \in Nat /\ stock[x].reserved \in Nat
        BY DocumentsAreTyped DEF BookInv, BookTypeOK, Row, Invoice
      <3>2. stock'[x].reserved = AtLeastZero(stock[x].reserved + AtMostZero(invoices[i].lines[x]))
        BY <1>3 DEF CreditNote, Moved
      <3>3. QED  BY <3>1, <3>2 DEF AtLeastZero, AtMostZero
    <2>2. QED  BY <1>3, <2>1, NoOrderKeepsNoPhantom DEF CreditNote
  <1>4. ASSUME NEW p \in Products, NEW q \in SaleQuantities, Receive(p, q)
        PROVE  NoPhantomReservation'
    <2>1. ASSUME NEW x \in Products
          PROVE  stock'[x].reserved <= stock[x].reserved
      <3>1. q \in Nat /\ stock[x].reserved \in Nat
        BY OrderBookAssumption DEF BookInv, BookTypeOK, Row
      <3>2. stock'[x].reserved \in {stock[x].reserved, AtLeastZero(stock[x].reserved + AtMostZero(q))}
        BY <1>4 DEF Receive, Moved, BookInv, BookTypeOK
      <3>3. QED  BY <3>1, <3>2 DEF AtLeastZero, AtMostZero
    <2>2. QED  BY <1>4, <2>1, NoOrderKeepsNoPhantom DEF Receive
  <1>5. QED  BY <1>1, <1>2, <1>3, <1>4 DEF SingleStep

\* An operation on the order's own row reserves what the order claims from then
\* on, and gives back what it claimed before, as far as it was still reserved.
LEMMA OperationKeepsNoPhantom ==
  ASSUME BookInv, BookInv', NoPhantomReservation, NEW o \in Orders,
         Confirm(o) \/ Cancel(o) \/ Convert(o) \/ InvoiceOrder(o)
  PROVE  NoPhantomReservation'
  <1>1. order[o] \in OrderRow
    BY DEF Confirm, Cancel, Convert, InvoiceOrder, BookInv, BookTypeOK
  <1>2. \A x \in Orders \ {o} : order'[x] = order[x]
    BY DEF Confirm, ConfirmFrom, Cancel, CancelFrom, Convert, ConvertFrom, InvoiceOrder,
           InvoiceFrom, Save, BookInv, BookTypeOK
  <1>3. order[o] = [kind |-> order[o].kind, status |-> order[o].status]
    BY <1>1 DEF OrderRow
  <1>4. ASSUME NEW p \in Products
        PROVE  \/ stock'[p].reserved - stock[p].reserved <= Claims(p)'[o] - Claims(p)[o]
               \/ stock'[p].reserved = 0
    <2>1. /\ Lines[o][p] \in Nat /\ stock[p].reserved \in Nat
          /\ Claims(p)[o] \in Nat /\ Claims(p)'[o] \in Nat
      BY <1>2, LinesAreTyped, OutstandingChanges DEF BookInv, BookTypeOK, Row
    <2>2. Claims(p)[o] = IF order[o].kind = "order" /\ order[o].status = "confirmed"
                         THEN Lines[o][p] ELSE 0
      BY <1>3 DEF Claims
    <2>3. CASE Confirm(o)
      <3>1. order'[o] = [kind |-> order[o].kind, status |-> "confirmed"]
        BY <1>1, <2>3 DEF Confirm, ConfirmFrom, Save, OrderRow, BookInv, BookTypeOK
      <3>2. Claims(p)[o] = 0
        BY <2>2, <2>3 DEF Confirm, MayConfirm
      <3>3. CASE order[o].kind = "quote"
        <4>1. stock'[p].reserved = stock[p].reserved
          BY <2>3, <3>3 DEF Confirm, ConfirmFrom
        <4>2. QED  BY <2>1, <3>2, <4>1
      <3>4. CASE order[o].kind = "order"
        <4>1. stock'[p].reserved = stock[p].reserved + Lines[o][p]
          BY <2>1, <2>3, <3>4 DEF Confirm, ConfirmFrom, Reserved, BookInv, BookTypeOK, Row
        <4>2. Claims(p)'[o] = Lines[o][p]
          BY <3>1, <3>4 DEF Claims
        <4>3. QED  BY <2>1, <3>2, <4>1, <4>2
      <3>5. QED  BY <1>1, <3>3, <3>4 DEF OrderRow, Kinds
    <2>4. CASE Cancel(o)
      <3>1. CASE order[o].kind = "order" /\ order[o].status = "confirmed"
        <4>1. stock'[p].reserved = AtLeastZero(stock[p].reserved - Lines[o][p])
          BY <2>4, <3>1 DEF Cancel, CancelFrom, Released, BookInv, BookTypeOK, Row
        <4>2. QED  BY <2>1, <2>2, <3>1, <4>1 DEF AtLeastZero
      <3>2. CASE ~(order[o].kind = "order" /\ order[o].status = "confirmed")
        <4>1. stock'[p].reserved = stock[p].reserved
          BY <2>4, <3>2 DEF Cancel, CancelFrom
        <4>2. QED  BY <2>1, <2>2, <3>2, <4>1
      <3>3. QED  BY <3>1, <3>2
    <2>5. CASE Convert(o)
      <3>1. stock'[p].reserved = stock[p].reserved /\ order[o].kind = "quote"
        BY <2>5 DEF Convert, ConvertFrom, MayConvert
      <3>2. Claims(p)[o] = 0
        BY <2>2, <3>1
      <3>3. QED  BY <2>1, <3>1, <3>2
    <2>6. CASE InvoiceOrder(o)
      <3>1. stock'[p].reserved = AtLeastZero(stock[p].reserved + AtMostZero(-Lines[o][p]))
        BY <2>6 DEF InvoiceOrder, InvoiceFrom, SellLines, Moved
      <3>2. Claims(p)[o] = Lines[o][p]
        BY <2>2, <2>6 DEF InvoiceOrder, MayInvoice
      <3>3. QED  BY <2>1, <3>1, <3>2 DEF AtLeastZero, AtMostZero
    <2>7. QED  BY <2>3, <2>4, <2>5, <2>6
  <1>5. QED  BY <1>2, <1>4, OneOrderKeepsNoPhantom

\* With one request at a time no reservation outlives its order, for any orders
\* and products (confirm and cancel of OrdersService, create of
\* InvoicesService): what is reserved of a product is at most what the
\* confirmed orders ask for.
THEOREM NoReservationOutlivesItsOrder ==
  ASSUME OneRequest
  PROVE  Spec => []NoPhantomReservation
  <1>1. Init => FreshInv /\ NoPhantomReservation
    <2> SUFFICES ASSUME Init, NEW p \in Products
                 PROVE  stock[p].reserved <= Outstanding(p)
      BY FreshInit DEF NoPhantomReservation
    <2>1. stock[p].reserved = 0
      BY DEF Init, BookInit
    <2>2. QED  BY <2>1, OutstandingIsSum
  <1>2. FreshInv /\ [Next]_vars => FreshInv'
    BY FreshNext
  <1>3. FreshInv /\ NoPhantomReservation /\ [Next]_vars => NoPhantomReservation'
    <2> SUFFICES ASSUME FreshInv, NoPhantomReservation, [Next]_vars
                 PROVE  NoPhantomReservation'
      OBVIOUS
    <2>1. BookInv /\ BookInv'
      BY <1>2 DEF FreshInv, IInv
    <2>2. CASE UNCHANGED bookVars
      BY <2>1, <2>2, NoOrderKeepsNoPhantom DEF bookVars, BookInv, BookTypeOK, Row
    <2>3. CASE SingleStep
      BY <2>1, <2>3, SingleStepKeepsNoPhantom
    <2>4. ASSUME NEW o \in Orders, Confirm(o) \/ Cancel(o) \/ Convert(o) \/ InvoiceOrder(o)
          PROVE  NoPhantomReservation'
      BY <2>1, <2>4, OperationKeepsNoPhantom
    <2>5. QED  BY <2>2, <2>3, <2>4, StepRefines DEF BookNext
  <1>4. QED  BY <1>1, <1>2, <1>3, PTL DEF Spec
=============================================================================
