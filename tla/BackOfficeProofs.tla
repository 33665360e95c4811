-------------------------- MODULE BackOfficeProofs --------------------------
(***************************************************************************)
(* What holds of BackOffice for any documents, products and requests.  The *)
(* components share the requests, so the invariant of each one has three   *)
(* parts: the rows, the copies of them that requests hold, and what is     *)
(* exact of the documents on which no requests overlapped.  A step of one  *)
(* component leaves the requests on the documents of the others alone.     *)
(* What relates sums over documents to stock and to the accounts follows   *)
(* at the end, each from an invariant of its own.                          *)
(***************************************************************************)
EXTENDS BackOffice, FiniteSetTheorems, Sums, TLAPS

-----------------------------------------------------------------------------
(* Requests                                                                *)

\* A request is a record of what it does, to which document, with what copy and
\* what its save found; what consumes stock for production holds a row of it.
RequestInv ==
  /\ request = [r \in Requests |->
       [op |-> request[r].op, doc |-> request[r].doc, copy |-> request[r].copy,
        loaded |-> request[r].loaded]]
  /\ \A r \in Requests : request[r].op = "consume" => request[r].doc \in Rows

\* A step that serves the documents of D: it touches no request, or one
\* request reads, reads again, loads to save, or commits, one of them.
Serves(D) ==
  \/ UNCHANGED requestVars
  \/ \E r \in Requests, d \in D : \E op, copy :
       (op = "consume" => d \in Rows) /\ Take(r, op, d, copy)
  \/ \E r \in Requests : \E op, copy :
       request[r].doc \in D /\ op # "consume" /\ Reread(r, op, copy)
  \/ \E r \in Requests : \E found : request[r].doc \in D /\ Load(r, found)
  \/ \E r \in Requests : request[r].doc \in D /\ Answer(r)
  \/ \E r \in Requests : Rollback(r)

\* What such a step leaves alone: requests on other documents stay as they are
\* or end, and no other document is raced.
QuietOutside(D) ==
  /\ \A r \in Requests :
       \/ request'[r] = request[r]
       \/ request'[r].doc \in D \cup {NoDocument}
  /\ raced \subseteq raced' /\ raced' \subseteq raced \cup D

\* After a request has read its document again, it holds that copy of it.
LEMMA AfterReread ==
  ASSUME RequestInv, NEW r \in Requests, NEW op, NEW copy, Reread(r, op, copy)
  PROVE  request' = [s \in Requests |->
           IF s = r THEN [op |-> op, doc |-> request[r].doc, copy |-> copy, loaded |-> Loaded(r)]
           ELSE request[s]]
  <1> DEFINE new == [op |-> op, doc |-> request[r].doc, copy |-> copy, loaded |-> Loaded(r)]
  <1>1. request[r] = [op |-> request[r].op, doc |-> request[r].doc, copy |-> request[r].copy,
                      loaded |-> request[r].loaded]
    BY DEF RequestInv
  <1>2. [request[r] EXCEPT !.op = op, !.copy = copy] = new
    <2> DEFINE mid == [request[r] EXCEPT !.op = op]
    <2>1. [request[r] EXCEPT !.op = op, !.copy = copy] = [mid EXCEPT !.copy = copy]
      OBVIOUS
    <2>2. mid = [op |-> op, doc |-> request[r].doc, copy |-> request[r].copy,
                 loaded |-> request[r].loaded]
      BY <1>1
    <2> HIDE DEF mid
    <2>3. [mid EXCEPT !.copy = copy] = new
      BY <2>2 DEF Loaded
    <2>4. QED  BY <2>1, <2>3
  <1>3. request' = [request EXCEPT ![r] = [request[r] EXCEPT !.op = op, !.copy = copy]]
    BY DEF Reread
  <1>4. request' = [request EXCEPT ![r] = new]
    BY <1>2, <1>3
  <1>5. QED  BY <1>4 DEF RequestInv

\* After the first statement of its save, a request also holds what that found.
LEMMA AfterLoad ==
  ASSUME RequestInv, NEW r \in Requests, NEW found, Load(r, found)
  PROVE  /\ request' = [s \in Requests |->
              IF s = r THEN [op |-> request[r].op, doc |-> request[r].doc, copy |-> Copy(r),
                             loaded |-> found]
              ELSE request[s]]
         /\ raced' = raced
  <1> DEFINE new == [op |-> request[r].op, doc |-> request[r].doc, copy |-> Copy(r), loaded |-> found]
  <1>1. request[r] = [op |-> request[r].op, doc |-> request[r].doc, copy |-> request[r].copy,
                      loaded |-> request[r].loaded]
    BY DEF RequestInv
  <1>2. [request[r] EXCEPT !.loaded = found] = new
    BY <1>1 DEF Copy
  <1>3. request' = [request EXCEPT ![r] = [request[r] EXCEPT !.loaded = found]] /\ raced' = raced
    BY DEF Load
  <1>4. request' = [request EXCEPT ![r] = new]
    BY <1>2, <1>3
  <1>5. QED  BY <1>3, <1>4 DEF RequestInv

\* Every step keeps the shape of requests and is quiet outside the documents
\* that it serves.
LEMMA ServesIsQuiet ==
  ASSUME RequestInv, NEW D, Serves(D)
  PROVE  RequestInv' /\ QuietOutside(D)
  <1>1. CASE UNCHANGED requestVars
    BY <1>1 DEF RequestInv, QuietOutside, requestVars
  <1>2. ASSUME NEW r \in Requests, NEW d \in D, NEW op, NEW copy,
               op = "consume" => d \in Rows, Take(r, op, d, copy)
        PROVE  RequestInv' /\ QuietOutside(D)
    <2>1. request' = [s \in Requests |->
            IF s = r THEN [op |-> op, doc |-> d, copy |-> copy, loaded |-> NotLoaded]
            ELSE request[s]]
      BY <1>2 DEF Take, RequestInv
    <2>2. raced' = raced
      BY <1>2 DEF Take
    <2>3. QED  BY <1>2, <2>1, <2>2 DEF RequestInv, QuietOutside
  <1>3. ASSUME NEW r \in Requests, NEW op, NEW copy,
               request[r].doc \in D, op # "consume", Reread(r, op, copy)
        PROVE  RequestInv' /\ QuietOutside(D)
    <2>1. request' = [s \in Requests |->
            IF s = r THEN [op |-> op, doc |-> request[r].doc, copy |-> copy, loaded |-> Loaded(r)]
            ELSE request[s]]
      BY <1>3, AfterReread
    <2>2. raced' = raced
      BY <1>3 DEF Reread
    <2>3. QED  BY <1>3, <2>1, <2>2 DEF RequestInv, QuietOutside
  <1>4. ASSUME NEW r \in Requests, request' = [request EXCEPT ![r] = Idle]
        PROVE  /\ RequestInv'
               /\ \A s \in Requests : request'[s] = request[s] \/ request'[s].doc = NoDocument
    <2>1. request' = [s \in Requests |-> IF s = r THEN Idle ELSE request[s]]
      BY <1>4 DEF RequestInv
    <2>2. QED  BY <2>1 DEF RequestInv, Idle
  <1>5. ASSUME NEW r \in Requests, request[r].doc \in D, Answer(r)
        PROVE  RequestInv' /\ QuietOutside(D)
    BY <1>4, <1>5 DEF Answer, QuietOutside
  <1>6. ASSUME NEW r \in Requests, Rollback(r)
        PROVE  RequestInv' /\ QuietOutside(D)
    BY <1>4, <1>6 DEF Rollback, QuietOutside
  <1>7. ASSUME NEW r \in Requests, NEW found, request[r].doc \in D, Load(r, found)
        PROVE  RequestInv' /\ QuietOutside(D)
    <2>1. /\ request' = [s \in Requests |->
               IF s = r THEN [op |-> request[r].op, doc |-> request[r].doc, copy |-> Copy(r),
                              loaded |-> found]
               ELSE request[s]]
          /\ raced' = raced
      BY <1>7, AfterLoad
    <2>2. QED  BY <1>7, <2>1 DEF RequestInv, QuietOutside
  <1>8. QED  BY <1>1, <1>2, <1>3, <1>5, <1>6, <1>7 DEF Serves

\* An idle request holds no document.
LEMMA IdleRequest == Idle.op = "none" /\ Idle.doc = NoDocument
  BY DEF Idle

\* After a request has read a document, it holds that copy and the others hold
\* what they held.
LEMMA AfterTake ==
  ASSUME RequestInv, NEW r \in Requests, NEW d, NEW op, NEW copy, Take(r, op, d, copy)
  PROVE  /\ request'[r] = [op |-> op, doc |-> d, copy |-> copy, loaded |-> NotLoaded]
         /\ \A s \in Requests \ {r} : request'[s] = request[s]
         /\ raced' = raced
  BY DEF Take, RequestInv

\* After a commit the request is idle, and on a document that is not raced
\* there was no other.
LEMMA AfterAnswer ==
  ASSUME RequestInv, NEW r \in Requests, Answer(r)
  PROVE  /\ request'[r] = Idle
         /\ \A s \in Requests \ {r} : request'[s] = request[s]
         /\ raced \subseteq raced'
         /\ raced' \subseteq raced \cup {request[r].doc}
         /\ request[r].doc \notin raced' =>
              \A s \in Requests \ {r} : request[s].doc # request[r].doc
  BY DEF Answer, RequestInv, Overlapped

\* Nothing else changes then.
LEMMA LoadKeeps ==
  ASSUME RequestInv, NEW r \in Requests, NEW found, Load(r, found)
  PROVE  /\ request'[r].op = request[r].op /\ request'[r].doc = request[r].doc
         /\ Copy(r)' = Copy(r) /\ Loaded(r)' = found
         /\ \A s \in Requests \ {r} : request'[s] = request[s]
         /\ raced' = raced
  <1>1. /\ request'[r] = [op |-> request[r].op, doc |-> request[r].doc, copy |-> Copy(r), loaded |-> found]
        /\ \A s \in Requests \ {r} : request'[s] = request[s]
        /\ raced' = raced
    BY AfterLoad
  <1>2. QED  BY <1>1 DEF Copy, Loaded

\* Who reads a document for another purpose leaves the requests with the given
\* operations alone.
LEMMA TakeElsewhere ==
  ASSUME RequestInv, NEW r \in Requests, NEW d, NEW op, NEW copy, Take(r, op, d, copy),
         NEW ops, op \notin ops
  PROVE  /\ raced \subseteq raced'
         /\ \A s \in Requests : request'[s].op \in ops => request'[s] = request[s]
  <1>1. /\ request'[r] = [op |-> op, doc |-> d, copy |-> copy, loaded |-> NotLoaded]
        /\ \A s \in Requests \ {r} : request'[s] = request[s]
        /\ raced' = raced
    BY AfterTake
  <1>2. request'[r].op = op
    BY <1>1
  <1>3. QED  BY <1>1, <1>2

\* So does who commits.
LEMMA AnswerElsewhere ==
  ASSUME RequestInv, NEW r \in Requests, Answer(r), NEW ops, "none" \notin ops
  PROVE  /\ raced \subseteq raced'
         /\ \A s \in Requests : request'[s].op \in ops => request'[s] = request[s]
  BY AfterAnswer, IdleRequest

\* So does who loads a document to save it.
LEMMA LoadElsewhere ==
  ASSUME RequestInv, NEW r \in Requests, NEW found, Load(r, found), NEW ops, request[r].op \notin ops
  PROVE  /\ raced \subseteq raced'
         /\ \A s \in Requests : request'[s].op \in ops => request'[s] = request[s]
  BY LoadKeeps

\* A save that finds the row it had read makes the copy of it.
LEMMA SavedWhole ==
  ASSUME NEW found, NEW copy, DOMAIN copy = DOMAIN found, copy = [c \in DOMAIN found |-> copy[c]]
  PROVE  Updated(found, found, copy) = copy
  BY DEF Updated

-----------------------------------------------------------------------------
(* Which documents each component serves.                                  *)

PurchasingIds == PurchaseOrders \cup Receipts \cup Bills

\* Purchasing serves orders, receipts and bills.
LEMMA PurchasingServes == PurchasingNext => Serves(PurchasingIds)
  <1>1. ASSUME NEW r \in Requests, PurchasingRead(r)
        PROVE  Serves(PurchasingIds)
    BY <1>1 DEF PurchasingRead, ReadToApprove, ReadToCancelOrder, ReadToReceive, ReadToBill,
                ReadToIssue, ReadToCancelBill, ReadToPay, Used, PurchasingIds, Serves
  <1>2. ASSUME NEW r \in Requests, OrderCommit(r) \/ BillCommit(r)
        PROVE  Serves(PurchasingIds)
    <2>1. Answer(r) /\ request[r].doc \in PurchasingIds
      BY <1>2 DEF OrderCommit, BillCommit, Approve, CancelOrder, Receive, Issue, CancelBill, Pay,
                  BillReceipt, Saving, Doing, Used, PurchasingIds
    <2>2. QED  BY <2>1 DEF Serves
  <1>5. ASSUME NEW r \in Requests, PurchasingLoad(r)
        PROVE  Serves(PurchasingIds)
    BY <1>5 DEF PurchasingLoad, LoadOrder, LoadToReceive, LoadBill, LoadLocked, Doing, Used,
                PurchasingIds, Serves
  <1>3. CASE \/ \E o \in Used(PurchaseOrders) : CreateOrder(o)
             \/ \E b \in Used(Bills), total \in Totals : CreateBill(b, total)
             \/ \E a \in Used(Advances), amount \in Payments : PayOnAccount(a, amount)
    BY <1>3 DEF CreateOrder, CreateBill, PayOnAccount, Serves
  <1>4. QED  BY <1>1, <1>2, <1>3, <1>5 DEF PurchasingNext

\* Production serves production orders.
LEMMA ProductionServes == ProductionNext => Serves(ProductionOrders)
  <1>1. ASSUME NEW r \in Requests, NEW w \in Used(ProductionOrders),
               \/ ReadToUpdate(r, w) \/ ReadToRemove(r, w) \/ ReadToStart(r, w)
               \/ ReadToCancelWork(r, w) \/ ReadToComplete(r, w)
        PROVE  Serves(ProductionOrders)
    BY <1>1 DEF ReadToUpdate, ReadToRemove, ReadToStart, ReadToCancelWork, ReadToComplete,
                ReadWork, Used, Serves
  <1>2. ASSUME NEW r \in Requests, NEW w \in Used(ProductionOrders),
               \/ \E q \in Quantities, value \in Values[w] : Update(r, w, q, value)
               \/ Remove(r, w) \/ Start(r, w) \/ CancelWork(r, w) \/ Complete(r, w)
        PROVE  Serves(ProductionOrders)
    <2>1. Answer(r) /\ request[r].doc \in ProductionOrders
      BY <1>2 DEF Update, Remove, Start, CancelWork, Complete, Saving, Doing, Used
    <2>2. QED  BY <2>1 DEF Serves
  <1>3. ASSUME NEW w \in Used(ProductionOrders), NEW q \in Quantities, NEW bom \in Boms[w],
               NEW value \in Values[w], Plan(w, q, bom, value)
        PROVE  Serves(ProductionOrders)
    BY <1>3 DEF Plan, Serves
  <1>4. ASSUME NEW r \in Requests, NEW w \in Used(ProductionOrders),
               \/ LoadToUpdate(r, w) \/ LoadToStart(r, w) \/ LoadToCancelWork(r, w)
               \/ LoadToComplete(r, w)
        PROVE  Serves(ProductionOrders)
    BY <1>4 DEF LoadToUpdate, LoadToStart, LoadToCancelWork, LoadWithLines, LoadToComplete,
                LoadLocked, Doing, Used, Serves
  <1>5. QED  BY <1>1, <1>2, <1>3, <1>4 DEF ProductionNext

\* Human resources serve payrolls, the months they are for, leaves and days.
LEMMA HumanResourcesServes == HumanResourcesNext => Serves(HumanResourcesIds)
  <1>1. ASSUME NEW r \in Requests, HumanResourcesRead(r)
        PROVE  Serves(HumanResourcesIds)
    BY <1>1 DEF HumanResourcesRead, ReadToGenerate, ReadToPost, ReadToCancelPayroll, ReadLeave,
                LeaveOperations, ReadToClockIn, ReadToClockOut, ReadToRecord, ReadToAmend,
                ReadToRemoveDay, Used, HumanResourcesIds, Serves
  <1>2. ASSUME NEW r \in Requests, PayrollCommit(r) \/ LeaveCommit(r) \/ DayCommit(r)
        PROVE  Serves(HumanResourcesIds)
    <2>1. Answer(r) /\ request[r].doc \in HumanResourcesIds
      <3>1. CASE PayrollCommit(r)
        BY <3>1 DEF PayrollCommit, Generate, Post, CancelPayroll, Saving, Doing, Used,
                    HumanResourcesIds
      <3>2. CASE LeaveCommit(r)
        BY <3>2 DEF LeaveCommit, EditLeave, ApproveLeave, RejectLeave, RemoveLeave, Saving,
                    Doing, Used,
                    HumanResourcesIds
      <3>3. CASE DayCommit(r)
        BY <3>3 DEF DayCommit, ClockInFirst, ClockIn, ClockOut, RecordDay, AmendDay, RemoveDay,
                    Saving, Doing, Used, HumanResourcesIds
      <3>4. QED  BY <1>2, <3>1, <3>2, <3>3
    <2>2. QED  BY <2>1 DEF Serves
  <1>3. ASSUME NEW l \in Used(Leaves), NEW dates \in LeaveDates, CreateLeave(l, dates)
        PROVE  Serves(HumanResourcesIds)
    BY <1>3 DEF CreateLeave, Serves
  <1>4. ASSUME NEW r \in Requests, HumanResourcesLoad(r)
        PROVE  Serves(HumanResourcesIds)
    BY <1>4 DEF HumanResourcesLoad, LoadToPost, LoadToCancelPayroll, LoadLeave, LoadDay, LoadLocked,
                Doing, Used, HumanResourcesIds, Serves
  <1>5. QED  BY <1>1, <1>2, <1>3, <1>4 DEF HumanResourcesNext

\* Sales serve leads and opportunities; winning one reads it again.
LEMMA CrmServes == CrmNext => Serves(CrmIds)
  <1>1. ASSUME NEW r \in Requests, CrmRead(r)
        PROVE  Serves(CrmIds)
    <2>1. ASSUME NEW l \in Used(Leads), ReadToEditLead(r, l) \/ ReadToRemoveLead(r, l) \/ ReadToConvert(r, l)
          PROVE  Serves(CrmIds)
      BY <2>1 DEF ReadToEditLead, ReadToRemoveLead, ReadToConvert, ReadLead, Used, CrmIds, Serves
    <2>2. ASSUME NEW o \in Used(Opportunities),
                 ReadToEdit(r, o) \/ ReadToWin(r, o) \/ ReadToLose(r, o) \/ ReadToRemoveOpportunity(r, o)
          PROVE  Serves(CrmIds)
      BY <2>2 DEF ReadToEdit, ReadToWin, ReadToLose, ReadToRemoveOpportunity, ReadOpportunity,
                  Used, CrmIds, Serves
    <2>3. ASSUME NEW o \in Used(Opportunities), ReadToWinAgain(r, o)
          PROVE  Serves(CrmIds)
      <3>1. request[r].doc \in CrmIds /\ \E copy : Reread(r, "win", copy)
        BY <2>3 DEF ReadToWinAgain, Doing, Used, CrmIds
      <3>2. QED  BY <3>1 DEF Serves
    <2>4. QED  BY <1>1, <2>1, <2>2, <2>3 DEF CrmRead
  <1>2. ASSUME NEW r \in Requests, LeadCommit(r) \/ OpportunityCommit(r)
        PROVE  Serves(CrmIds)
    <2>1. Answer(r) /\ request[r].doc \in CrmIds
      BY <1>2 DEF LeadCommit, EditLead, RemoveLead, Convert, OpportunityCommit, Edit, Win, Lose,
                  RemoveOpportunity, Saving, Doing, Used, CrmIds
    <2>2. QED  BY <2>1 DEF Serves
  <1>3. CASE \/ \E l \in Used(Leads), status \in {"open", "disqualified", "converted"} :
                  CreateLead(l, status)
             \/ \E o \in Used(Opportunities), stage \in Stages, l \in Leads \cup {None},
                   customer \in {None, Chosen} : CreateOpportunity(o, stage, l, customer)
    BY <1>3 DEF CreateLead, CreateOpportunity, Serves
  <1>4. ASSUME NEW r \in Requests, CrmLoad(r)
        PROVE  Serves(CrmIds)
    BY <1>4 DEF CrmLoad, LoadLead, LoadOpportunity, Doing, Used, CrmIds, Serves
  <1>5. QED  BY <1>1, <1>2, <1>3, <1>4 DEF CrmNext

\* What moves stock of a value serves its rows.
LEMMA ValuationServes == RequestInv /\ ValuationNext => Serves(Rows)
  <1> SUFFICES ASSUME RequestInv, ValuationNext PROVE Serves(Rows)
    OBVIOUS
  <1>1. ASSUME NEW r \in Requests, NEW i \in Used(Rows), NEW n \in Units, ReadToSell(r, i, n)
        PROVE  Serves(Rows)
    BY <1>1 DEF ReadToSell, Used, Serves
  <1>2. ASSUME NEW r \in Requests, NEW recipe \in UsedRecipes, ReadToConsume(r, recipe)
        PROVE  Serves(Rows)
    <2>1. recipe.from \in Rows
      BY ValuationAssumption DEF UsedRecipes, Recipe
    <2>2. QED  BY <1>2, <2>1 DEF ReadToConsume, Serves
  <1>3. ASSUME NEW r \in Requests, (\E i \in Used(Rows) : Sell(r, i)) \/ Consume(r)
        PROVE  Serves(Rows)
    <2>1. Answer(r) /\ request[r].doc \in Rows
      BY <1>3 DEF Sell, Consume, Doing, Used, RequestInv
    <2>2. QED  BY <2>1 DEF Serves
  <1>4. ASSUME NEW i \in Used(Rows), NEW n \in Units,
               \/ \E cost \in Costs : AddByHand(i, n, cost) \/ (i \in Bought /\ ReceiveGoods(i, n, cost))
               \/ TakeByHand(i, n) \/ CreditSale(i, n)
               \/ \E j \in Used(Rows) : <<i, j>> \in Transfers /\ Transfer(i, j, n)
        PROVE  Serves(Rows)
    BY <1>4 DEF AddByHand, ReceiveGoods, TakeByHand, CreditSale, Transfer, Serves
  <1>5. QED  BY <1>1, <1>2, <1>3, <1>4 DEF ValuationNext

-----------------------------------------------------------------------------
(* Purchase orders                                                         *)

OrderOperations == {"approve", "cancel order", "receive"}

HoldsOrder(r, o) == request[r].doc = o /\ request[r].op \in OrderOperations

\* The copy of an order that a request holds is an order that was not closed,
\* shows no more than has arrived, and is the order itself, like what its save
\* found, if no requests on it overlapped.
OrderCopy(r, o) ==
  /\ order[o] # Absent
  /\ Copy(r) \in OrderRow
  /\ Copy(r).status \in {"draft", "approved"}
  /\ Loaded(r) \in OrderRow \cup {NotLoaded}
  /\ \A p \in Products : Copy(r).received[p] <= arrived[o][p]
  /\ o \notin raced => Copy(r) = order[o] /\ Loaded(r) \in {NotLoaded, order[o]}

OrderInv ==
  /\ order \in [PurchaseOrders -> OrderRow \cup {Absent}]
  /\ arrived \in [PurchaseOrders -> [Products -> Nat]]
  /\ ReceivedIsCovered
  /\ \A o \in PurchaseOrders : order[o] = Absent => \A p \in Products : arrived[o][p] = 0
  /\ \A r \in Requests, o \in PurchaseOrders : HoldsOrder(r, o) => OrderCopy(r, o)
  /\ \A o \in PurchaseOrders \ raced : OrderIsExact(o)

\* No row of an order is the absent one.
LEMMA OrderRowIsPresent == ASSUME NEW x \in OrderRow PROVE x # Absent
  BY DEF OrderRow, Absent

\* A step that leaves orders and the requests on them alone keeps the invariant.
LEMMA OrdersUntouched ==
  ASSUME OrderInv, UNCHANGED <<order, arrived>>, raced \subseteq raced',
         \A r \in Requests, o \in PurchaseOrders : HoldsOrder(r, o)' => request'[r] = request[r]
  PROVE  OrderInv'
  <1>1. \A r \in Requests, o \in PurchaseOrders : HoldsOrder(r, o)' => OrderCopy(r, o)'
    BY DEF OrderInv, HoldsOrder, OrderCopy, Copy, Loaded
  <1>2. QED  BY <1>1 DEF OrderInv, ReceivedIsCovered, OrderIsExact

\* A request that reads an order that is not closed holds that order.
LEMMA OrderRead ==
  ASSUME RequestInv, OrderInv, UNCHANGED <<order, arrived>>,
         NEW r \in Requests, NEW o \in PurchaseOrders, NEW op \in OrderOperations,
         order[o].status \in {"draft", "approved"}, Take(r, op, o, order[o])
  PROVE  OrderInv'
  <1>1. /\ request'[r] = [op |-> op, doc |-> o, copy |-> order[o], loaded |-> NotLoaded]
        /\ \A s \in Requests \ {r} : request'[s] = request[s]
        /\ raced' = raced
    BY AfterTake
  <1>2. order[o] # Absent /\ order[o] \in OrderRow
    BY DEF OrderInv, Absent
  <1>3. OrderCopy(r, o)' /\ \A x \in PurchaseOrders : HoldsOrder(r, x)' => x = o
    BY <1>1, <1>2 DEF OrderCopy, HoldsOrder, Copy, Loaded, OrderInv, ReceivedIsCovered
  <1>4. ASSUME NEW s \in Requests, NEW x \in PurchaseOrders, HoldsOrder(s, x)'
        PROVE  OrderCopy(s, x)'
    BY <1>1, <1>3, <1>4 DEF OrderInv, OrderCopy, HoldsOrder, Copy, Loaded
  <1>5. QED  BY <1>1, <1>4 DEF OrderInv, ReceivedIsCovered, OrderIsExact

\* The first statement of a save finds the order.
LEMMA OrderLoaded ==
  ASSUME RequestInv, OrderInv, UNCHANGED <<order, arrived>>,
         NEW r \in Requests, NEW o \in PurchaseOrders, HoldsOrder(r, o), Load(r, order[o])
  PROVE  OrderInv'
  <1>1. /\ request'[r].op = request[r].op /\ request'[r].doc = request[r].doc
        /\ Copy(r)' = Copy(r) /\ Loaded(r)' = order[o]
        /\ \A s \in Requests \ {r} : request'[s] = request[s]
        /\ raced' = raced
    BY LoadKeeps
  <1>2. OrderCopy(r, o) /\ order[o] \in OrderRow
    BY DEF OrderInv, OrderCopy
  <1>3. OrderCopy(r, o)' /\ \A x \in PurchaseOrders : HoldsOrder(r, x)' => x = o
    BY <1>1, <1>2 DEF OrderCopy, HoldsOrder
  <1>4. ASSUME NEW s \in Requests, NEW x \in PurchaseOrders, HoldsOrder(s, x)'
        PROVE  OrderCopy(s, x)'
    BY <1>1, <1>3, <1>4 DEF OrderInv, OrderCopy, HoldsOrder, Copy, Loaded
  <1>5. QED  BY <1>1, <1>4 DEF OrderInv, ReceivedIsCovered, OrderIsExact

\* Each column of a saved order is that of the row or of the copy, the quantity
\* received of each item included.
LEMMA OrderColumns ==
  ASSUME NEW r \in Requests, NEW o \in PurchaseOrders, order[o] \in OrderRow,
         Loaded(r) \in OrderRow, NEW copy \in OrderRow
  PROVE  LET saved == SavedOrder(r, o, copy)
         IN  /\ saved \in OrderRow
             /\ saved.status = IF copy.status = Loaded(r).status THEN order[o].status ELSE copy.status
             /\ \A p \in Products : saved.received[p] =
                  IF copy.received[p] = Loaded(r).received[p] THEN order[o].received[p] ELSE copy.received[p]
             /\ Loaded(r) = order[o] => saved = copy
  <1> DEFINE found == Loaded(r)
             old == order[o]
             items == Updated(old.received, found.received, copy.received)
             columns == Updated(old, found, copy)
             status == IF copy.status = found.status THEN old.status ELSE copy.status
             new == [status |-> status, received |-> items]
  <1>1. /\ DOMAIN old = {"status", "received"} /\ DOMAIN old.received = Products
        /\ old.received \in [Products -> Nat] /\ copy.received \in [Products -> Nat]
        /\ old.status \in {"draft", "approved", "received", "cancelled"}
        /\ copy.status \in {"draft", "approved", "received", "cancelled"}
    BY DEF OrderRow
  <1>2. items = [p \in Products |->
          IF copy.received[p] = found.received[p] THEN old.received[p] ELSE copy.received[p]]
    BY <1>1 DEF Updated
  <1>3. items \in [Products -> Nat]
    BY <1>1, <1>2
  <1>4. columns = [c \in {"status", "received"} |->
          IF copy[c] = found[c] THEN old[c] ELSE copy[c]]
    BY <1>1 DEF Updated
  <1>5. columns.status = status /\ DOMAIN columns = {"status", "received"}
    BY <1>4
  <1> HIDE DEF items, columns, status
  <1>6. [columns EXCEPT !.received = items] = new
    BY <1>4, <1>5
  <1>7. SavedOrder(r, o, copy) = new
    BY <1>6 DEF SavedOrder, Saved, columns, items
  <1>8. new \in OrderRow
    BY <1>1, <1>3 DEF OrderRow, status
  <1>9. ASSUME found = old
        PROVE  new = copy
    <2>1. items = copy.received
      BY <1>1, <1>2, <1>9
    <2>2. status = copy.status
      BY <1>9 DEF status
    <2>3. QED  BY <2>1, <2>2 DEF OrderRow
  <1>10. QED  BY <1>2, <1>7, <1>8, <1>9 DEF status

\* A transaction that saves a row which shows no more than has arrived, and
\* just that if no requests overlapped, keeps the invariant.
LEMMA OrderSaved ==
  ASSUME RequestInv, OrderInv,
         NEW r \in Requests, NEW o \in PurchaseOrders, HoldsOrder(r, o), Answer(r),
         NEW saved \in OrderRow, order' = [order EXCEPT ![o] = saved],
         arrived' \in [PurchaseOrders -> [Products -> Nat]],
         \A x \in PurchaseOrders \ {o} : arrived'[x] = arrived[x],
         \A p \in Products :
           /\ arrived[o][p] <= arrived'[o][p]
           /\ saved.received[p] <= arrived'[o][p]
           /\ saved.status = "received" => Ordered[o][p] <= arrived'[o][p],
         o \notin raced' =>
           /\ saved.received = arrived'[o]
           /\ saved.status = "received" <=> \A p \in Products : arrived'[o][p] >= Ordered[o][p]
  PROVE  OrderInv'
  <1>1. /\ request'[r] = Idle
        /\ \A s \in Requests \ {r} : request'[s] = request[s]
        /\ raced \subseteq raced'
        /\ o \notin raced' => \A s \in Requests \ {r} : request[s].doc # o
    BY AfterAnswer DEF HoldsOrder
  <1>2. /\ order' \in [PurchaseOrders -> OrderRow \cup {Absent}]
        /\ order'[o] = saved
        /\ \A x \in PurchaseOrders \ {o} : order'[x] = order[x]
    BY DEF OrderInv
  <1>3. saved # Absent
    BY OrderRowIsPresent
  <1>4. ASSUME NEW s \in Requests, NEW x \in PurchaseOrders, HoldsOrder(s, x)'
        PROVE  OrderCopy(s, x)'
    <2>1. s # r
      BY <1>1, <1>4, IdleRequest DEF HoldsOrder, OrderOperations
    <2>2. HoldsOrder(s, x) /\ OrderCopy(s, x) /\ request'[s] = request[s]
      BY <1>1, <1>4, <2>1 DEF HoldsOrder, OrderInv
    <2>3. CASE x # o
      BY <1>1, <1>2, <2>2, <2>3 DEF OrderCopy, Copy, Loaded
    <2>4. CASE x = o
      <3>1. x \in raced'
        BY <1>1, <2>1, <2>2, <2>4 DEF HoldsOrder
      <3>2. \A p \in Products : Copy(s).received[p] <= arrived'[o][p]
        <4>1. ASSUME NEW p \in Products
              PROVE  Copy(s).received[p] <= arrived'[o][p]
          <5>1. Copy(s).received[p] \in Nat /\ arrived[o][p] \in Nat /\ arrived'[o][p] \in Nat
            <6>1. Copy(s) \in OrderRow /\ arrived \in [PurchaseOrders -> [Products -> Nat]]
              BY <2>2 DEF OrderCopy, OrderInv
            <6>2. QED  BY <6>1 DEF OrderRow
          <5>2. Copy(s).received[p] <= arrived[o][p] /\ arrived[o][p] <= arrived'[o][p]
            BY <2>2, <2>4 DEF OrderCopy
          <5>3. QED  BY <5>1, <5>2
        <4>2. QED  BY <4>1
      <3>3. QED  BY <1>2, <1>3, <2>2, <2>4, <3>1, <3>2 DEF OrderCopy, Copy, Loaded
    <2>5. QED  BY <2>3, <2>4
  <1>5. ReceivedIsCovered'
    BY <1>2 DEF OrderInv, ReceivedIsCovered
  <1>6. \A x \in PurchaseOrders : order'[x] = Absent => \A p \in Products : arrived'[x][p] = 0
    BY <1>2, <1>3 DEF OrderInv
  <1>7. \A x \in PurchaseOrders \ raced' : OrderIsExact(x)'
    BY <1>1, <1>2 DEF OrderInv, OrderIsExact
  <1>8. QED  BY <1>2, <1>4, <1>5, <1>6, <1>7 DEF OrderInv

\* A new order shows nothing as received, and nothing has arrived for it.
LEMMA OrderCreated ==
  ASSUME OrderInv, NEW o \in PurchaseOrders, CreateOrder(o)
  PROVE  OrderInv'
  <1> DEFINE nothing == [p \in Products |-> 0]
             new == [status |-> "draft", received |-> nothing]
  <1>1. /\ order' = [order EXCEPT ![o] = new]
        /\ UNCHANGED <<arrived, request, raced>>
        /\ order[o] = Absent
    BY DEF CreateOrder, SaveOrder, requestVars
  <1>2. new \in OrderRow /\ new # Absent
    BY OrderRowIsPresent DEF OrderRow
  <1>3. /\ order' \in [PurchaseOrders -> OrderRow \cup {Absent}]
        /\ order'[o] = new
        /\ \A x \in PurchaseOrders \ {o} : order'[x] = order[x]
    BY <1>1, <1>2 DEF OrderInv
  <1>4. arrived[o] = nothing
    BY <1>1 DEF OrderInv
  <1>5. OrderIsExact(o)'
    <2>1. PICK p \in Products : Ordered[o][p] > 0
      BY PurchasingAssumption
    <2>2. ~ \A q \in Products : arrived'[o][q] >= Ordered[o][q]
      <3>1. Ordered[o][p] \in Nat /\ arrived'[o][p] = 0
        BY <1>1, <1>4, PurchasingAssumption
      <3>2. QED  BY <2>1, <3>1
    <2>3. QED  BY <1>1, <1>3, <1>4, <2>2 DEF OrderIsExact
  <1>6. ReceivedIsCovered'
    BY <1>1, <1>3, <1>4 DEF OrderInv, ReceivedIsCovered
  <1>7. \A r \in Requests, x \in PurchaseOrders : HoldsOrder(r, x)' => OrderCopy(r, x)'
    BY <1>1, <1>3 DEF OrderInv, HoldsOrder, OrderCopy, Copy, Loaded
  <1>8. \A x \in PurchaseOrders \ raced' : OrderIsExact(x)'
    BY <1>1, <1>3, <1>5 DEF OrderInv, OrderIsExact
  <1>9. QED  BY <1>1, <1>2, <1>3, <1>6, <1>7, <1>8 DEF OrderInv

\* Approving and cancelling write back what the copy shows as received.
LEMMA OrderReviewed ==
  ASSUME RequestInv, OrderInv, NEW r \in Requests, NEW o \in PurchaseOrders,
         Approve(r, o) \/ CancelOrder(r, o)
  PROVE  OrderInv'
  <1>1. PICK status \in {"approved", "cancelled"} :
          /\ HoldsOrder(r, o) /\ Answer(r) /\ UNCHANGED arrived /\ Loaded(r) # NotLoaded
          /\ order' = [order EXCEPT ![o] = SavedOrder(r, o, [Copy(r) EXCEPT !.status = status])]
    BY DEF Approve, CancelOrder, SaveOrder, Saving, Doing, HoldsOrder, OrderOperations
  <1> DEFINE copy == [Copy(r) EXCEPT !.status = status]
             saved == SavedOrder(r, o, copy)
  <1>2. OrderCopy(r, o) /\ order[o] \in OrderRow /\ Loaded(r) \in OrderRow
    BY <1>1 DEF OrderInv, OrderCopy
  <1>3. copy \in OrderRow /\ copy.received = Copy(r).received /\ copy.status = status
    BY <1>2 DEF OrderCopy, OrderRow
  <1> HIDE DEF copy
  <1>4. /\ saved \in OrderRow /\ saved.status \in {order[o].status, status}
        /\ \A p \in Products : saved.received[p] \in {order[o].received[p], Copy(r).received[p]}
        /\ Loaded(r) = order[o] => saved = copy
    BY <1>2, <1>3, OrderColumns
  <1>5. order' = [order EXCEPT ![o] = saved] /\ arrived' = arrived
    BY <1>1 DEF copy
  <1> HIDE DEF saved
  <1>6. arrived \in [PurchaseOrders -> [Products -> Nat]]
    BY DEF OrderInv
  <1>7. \A p \in Products : /\ saved.received[p] <= arrived[o][p] /\ arrived[o][p] <= arrived[o][p]
                            /\ saved.status = "received" => Ordered[o][p] <= arrived[o][p]
    BY <1>2, <1>4, <1>6 DEF OrderCopy, OrderInv, ReceivedIsCovered
  <1>8. ASSUME o \notin raced'
        PROVE  /\ saved.received = arrived'[o]
               /\ saved.status = "received" <=> \A p \in Products : arrived'[o][p] >= Ordered[o][p]
    <2>1. o \notin raced
      BY <1>1, <1>8, AfterAnswer
    <2>2. saved = copy /\ copy.received = arrived[o]
      BY <1>1, <1>2, <1>3, <1>4, <2>1 DEF OrderCopy, OrderInv, OrderIsExact
    <2>3. ~ \A p \in Products : arrived[o][p] >= Ordered[o][p]
      BY <1>2, <2>1 DEF OrderCopy, OrderInv, OrderIsExact
    <2>4. QED  BY <1>3, <1>5, <2>2, <2>3
  <1>9. QED  BY <1>1, <1>4, <1>5, <1>6, <1>7, <1>8, OrderSaved

\* A receipt adds to the order as it is, or closes it when the copy and what
\* arrives make it complete.
LEMMA OrderReceived ==
  ASSUME RequestInv, OrderInv, NEW r \in Requests, NEW o \in PurchaseOrders,
         NEW g \in Receipts, NEW delivery \in Deliveries, Receive(r, o, g, delivery)
  PROVE  OrderInv'
  <1> DEFINE lines == [p \in Products |-> delivery[p].sum]
             total == [p \in Products |-> Copy(r).received[p] + delivery[p].sum]
             full == [Copy(r) EXCEPT !.status = "received", !.received = total]
             some == [p \in Products |->
                        IF delivery[p].sum > 0 THEN total[p] ELSE Loaded(r).received[p]]
             part == [Loaded(r) EXCEPT !.received = some]
             copy == Counted(r, o, delivery)
             saved == SavedOrder(r, o, copy)
             Whole == \A p \in Products : total[p] >= Ordered[o][p]
  <1>1. /\ HoldsOrder(r, o) /\ Answer(r) /\ Loaded(r) # NotLoaded
        /\ order' = [order EXCEPT ![o] = saved]
        /\ arrived' = [arrived EXCEPT ![o] = [p \in Products |-> arrived[o][p] + lines[p]]]
    BY DEF Receive, SaveOrder, Saving, Doing, HoldsOrder, OrderOperations
  <1>2. /\ OrderCopy(r, o) /\ order[o] \in OrderRow /\ Loaded(r) \in OrderRow
        /\ arrived \in [PurchaseOrders -> [Products -> Nat]]
    BY <1>1 DEF OrderInv, OrderCopy
  <1>3. \A p \in Products : delivery[p].sum \in Nat /\ Ordered[o][p] \in Nat
    BY PurchasingAssumption DEF DeliveryLine
  <1>4. Copy(r).received \in [Products -> Nat] /\ Loaded(r).received \in [Products -> Nat]
    BY <1>2 DEF OrderCopy, OrderRow
  <1>5. total \in [Products -> Nat] /\ some \in [Products -> Nat]
    BY <1>3, <1>4
  <1>6. copy = IF Whole THEN full ELSE part
    BY DEF Counted
  <1>7. full \in OrderRow /\ full.received = total /\ full.status = "received"
    BY <1>2, <1>5 DEF OrderCopy, OrderRow
  <1>8. part \in OrderRow /\ part.received = some /\ part.status = Loaded(r).status
    BY <1>2, <1>5 DEF OrderRow
  <1> HIDE DEF full, part, copy
  <1>9. copy \in OrderRow
    BY <1>6, <1>7, <1>8
  <1>10. /\ saved \in OrderRow
         /\ saved.status = IF copy.status = Loaded(r).status THEN order[o].status ELSE copy.status
         /\ \A p \in Products : saved.received[p] =
              IF copy.received[p] = Loaded(r).received[p] THEN order[o].received[p] ELSE copy.received[p]
         /\ Loaded(r) = order[o] => saved = copy
    BY <1>2, <1>9, OrderColumns
  <1> HIDE DEF saved
  <1>11. /\ arrived' \in [PurchaseOrders -> [Products -> Nat]]
         /\ \A x \in PurchaseOrders \ {o} : arrived'[x] = arrived[x]
         /\ arrived'[o] = [p \in Products |-> arrived[o][p] + delivery[p].sum]
    BY <1>1, <1>2, <1>3
  <1>12. ASSUME NEW p \in Products
         PROVE  /\ Copy(r).received[p] \in Nat /\ order[o].received[p] \in Nat
                /\ arrived[o][p] \in Nat /\ delivery[p].sum \in Nat /\ Ordered[o][p] \in Nat
                /\ Copy(r).received[p] <= arrived[o][p]
                /\ order[o].received[p] <= arrived[o][p]
                /\ order[o].status = "received" => Ordered[o][p] <= arrived[o][p]
    <2>1. order[o].received \in [Products -> Nat]
      BY <1>2 DEF OrderRow
    <2>2. QED  BY <1>2, <1>3, <1>4, <2>1 DEF OrderCopy, OrderInv, ReceivedIsCovered
  <1>13. ASSUME NEW p \in Products
         PROVE  /\ arrived[o][p] <= arrived'[o][p]
                /\ saved.received[p] <= arrived'[o][p]
                /\ saved.status = "received" => Ordered[o][p] <= arrived'[o][p]
    <2>1. arrived'[o][p] = arrived[o][p] + delivery[p].sum /\ total[p] = Copy(r).received[p] + delivery[p].sum
      BY <1>11
    <2>2. saved.received[p] \in {order[o].received[p], total[p]}
      BY <1>6, <1>7, <1>8, <1>10
    <2>3. saved.status = "received" => order[o].status = "received" \/ Ordered[o][p] <= total[p]
      BY <1>3, <1>5, <1>6, <1>7, <1>8, <1>10
    <2>4. QED  BY <1>12, <2>1, <2>2, <2>3
  <1>14. ASSUME o \notin raced'
         PROVE  /\ saved.received = arrived'[o]
                /\ saved.status = "received" <=> \A p \in Products : arrived'[o][p] >= Ordered[o][p]
    <2>1. o \notin raced
      BY <1>1, <1>14, AfterAnswer
    <2>2. /\ Copy(r) = order[o] /\ Loaded(r) = order[o] /\ order[o].received = arrived[o]
          /\ order[o].status # "received"
      BY <1>1, <1>2, <2>1 DEF OrderCopy, OrderInv, OrderIsExact
    <2>3. total = arrived'[o]
      BY <1>11, <2>2
    <2>4. some = total
      BY <1>3, <1>4, <2>2
    <2>5. QED  BY <1>6, <1>7, <1>8, <1>10, <2>2, <2>3, <2>4
  <1>15. QED  BY <1>1, <1>10, <1>11, <1>13, <1>14, OrderSaved

\* Every step of purchasing keeps the invariant of orders: bills do not touch
\* them.
LEMMA PurchasingKeepsOrders ==
  ASSUME RequestInv, OrderInv, PurchasingNext
  PROVE  OrderInv'
  <1>1. ASSUME NEW r \in Requests, NEW o \in Used(PurchaseOrders),
               ReadToApprove(r, o) \/ ReadToCancelOrder(r, o) \/ ReadToReceive(r, o),
               UNCHANGED purchaseVars
        PROVE  OrderInv'
    BY <1>1, OrderRead DEF ReadToApprove, ReadToCancelOrder, ReadToReceive, Used, OrderOperations,
                           purchaseVars, orderVars
  <1>2. ASSUME NEW r \in Requests, NEW d, NEW op, NEW copy, Take(r, op, d, copy),
               op \notin OrderOperations, UNCHANGED <<order, arrived>>
        PROVE  OrderInv'
    <2>1. \A s \in Requests, x \in PurchaseOrders : HoldsOrder(s, x)' => request'[s] = request[s]
      <3>1. /\ request'[r] = [op |-> op, doc |-> d, copy |-> copy, loaded |-> NotLoaded]
            /\ \A s \in Requests \ {r} : request'[s] = request[s]
        BY <1>2, AfterTake
      <3>2. request'[r].op = op
        BY <3>1
      <3>3. QED  BY <1>2, <3>1, <3>2 DEF HoldsOrder
    <2>2. raced' = raced
      BY <1>2 DEF Take
    <2>3. QED  BY <1>2, <2>1, <2>2, OrdersUntouched
  <1>3. ASSUME NEW r \in Requests, BillCommit(r)
        PROVE  OrderInv'
    <2>1. Answer(r) /\ UNCHANGED <<order, arrived>>
      BY <1>3 DEF BillCommit, Issue, CancelBill, Pay, BillReceipt, orderVars
    <2>2. \A s \in Requests, x \in PurchaseOrders : HoldsOrder(s, x)' => request'[s] = request[s]
      BY <2>1, AfterAnswer, IdleRequest DEF HoldsOrder, OrderOperations
    <2>3. raced \subseteq raced'
      BY <2>1, AfterAnswer
    <2>4. QED  BY <2>1, <2>2, <2>3, OrdersUntouched
  <1>4. ASSUME NEW r \in Requests, OrderCommit(r)
        PROVE  OrderInv'
    BY <1>4, OrderReviewed, OrderReceived DEF OrderCommit, Used
  <1>5. ASSUME NEW o \in Used(PurchaseOrders), CreateOrder(o)
        PROVE  OrderInv'
    BY <1>5, OrderCreated DEF Used
  <1>6. CASE UNCHANGED <<order, arrived, request, raced>>
    BY <1>6, OrdersUntouched
  <1>7. ASSUME NEW r \in Requests, PurchasingRead(r), UNCHANGED purchaseVars
        PROVE  OrderInv'
    BY <1>1, <1>2, <1>7 DEF PurchasingRead, ReadToBill, ReadToIssue, ReadToCancelBill, ReadToPay,
                            OrderOperations, purchaseVars, orderVars
  <1>8. ASSUME NEW r \in Requests, PurchasingLoad(r), UNCHANGED purchaseVars
        PROVE  OrderInv'
    <2>1. UNCHANGED <<order, arrived>>
      BY <1>8 DEF purchaseVars, orderVars
    <2>2. ASSUME NEW o \in Used(PurchaseOrders), LoadOrder(r, o) \/ LoadToReceive(r, o)
          PROVE  OrderInv'
      <3>1. o \in PurchaseOrders /\ HoldsOrder(r, o) /\ Load(r, order[o])
        BY <2>2 DEF LoadOrder, LoadToReceive, LoadLocked, Doing, HoldsOrder, OrderOperations, Used
      <3>2. QED  BY <2>1, <3>1, OrderLoaded
    <2>3. ASSUME NEW b \in Used(Bills), LoadBill(r, b)
          PROVE  OrderInv'
      <3>1. Load(r, bill[b]) /\ request[r].op \notin OrderOperations
        BY <2>3 DEF LoadBill, LoadLocked, Doing, OrderOperations
      <3>2. \A q \in Requests, x \in PurchaseOrders : HoldsOrder(q, x)' => request'[q] = request[q]
        BY <3>1, LoadKeeps DEF HoldsOrder
      <3>3. raced' = raced
        BY <3>1, LoadKeeps
      <3>4. QED  BY <2>1, <3>2, <3>3, OrdersUntouched
    <2>4. QED  BY <1>8, <2>2, <2>3 DEF PurchasingLoad
  <1>9. QED  BY <1>3, <1>4, <1>5, <1>6, <1>7, <1>8
             DEF PurchasingNext, CreateBill, PayOnAccount, orderVars, requestVars

-----------------------------------------------------------------------------
(* Supplier bills                                                          *)

BillOperations == {"issue", "cancel bill", "pay"}

HoldsBill(r, b) == request[r].doc = b /\ request[r].op \in BillOperations

\* A row of the bill, as it is or once was: its total, of which one part is
\* shown as paid and the rest as the balance.
AddsUp(x, b) == x \in BillRow /\ x.total = bill[b].total /\ x.paid + x.balance = x.total

\* The copy of a bill that a request holds passed the check of its operation,
\* claims no more than was paid, and is the bill itself, like what its save
\* found, if no requests on it overlapped.
BillCopy(r, b) ==
  /\ bill[b] # Absent
  /\ AddsUp(Copy(r), b)
  /\ Loaded(r) # NotLoaded => AddsUp(Loaded(r), b)
  /\ Copy(r).status = IF request[r].op = "pay" THEN "issued" ELSE "draft"
  /\ Copy(r).paid <= settled[b]
  /\ b \notin raced => Copy(r) = bill[b] /\ Loaded(r) \in {NotLoaded, bill[b]}

BillInv ==
  /\ bill \in [Bills -> BillRow \cup {Absent}]
  /\ settled \in [Bills -> Nat] /\ issues \in [Bills -> Nat]
  /\ PaidBillsWerePaid
  /\ \A b \in Bills : bill[b] = Absent => settled[b] = 0 /\ issues[b] = 0
  /\ \A r \in Requests, b \in Bills : HoldsBill(r, b) => BillCopy(r, b)
  /\ \A b \in Bills \ raced : BillIsExact(b)

\* No row of a bill is the absent one.
LEMMA BillRowIsPresent == ASSUME NEW x \in BillRow PROVE x # Absent
  BY DEF BillRow, Absent

\* A step that leaves bills and the requests on them alone keeps the invariant.
LEMMA BillsUntouched ==
  ASSUME BillInv, UNCHANGED <<bill, settled, issues>>, raced \subseteq raced',
         \A r \in Requests, b \in Bills : HoldsBill(r, b)' => request'[r] = request[r]
  PROVE  BillInv'
  <1>1. \A r \in Requests, b \in Bills : HoldsBill(r, b)' => BillCopy(r, b)'
    BY DEF BillInv, HoldsBill, BillCopy, AddsUp, Copy, Loaded
  <1>2. QED  BY <1>1 DEF BillInv, PaidBillsWerePaid, BillIsExact

\* A request that reads a bill and passes its check holds that bill.
LEMMA BillRead ==
  ASSUME RequestInv, BillInv, UNCHANGED <<bill, settled, issues>>,
         NEW r \in Requests, NEW b \in Bills, NEW op \in BillOperations,
         bill[b].status = IF op = "pay" THEN "issued" ELSE "draft", Take(r, op, b, bill[b])
  PROVE  BillInv'
  <1>1. /\ request'[r] = [op |-> op, doc |-> b, copy |-> bill[b], loaded |-> NotLoaded]
        /\ \A s \in Requests \ {r} : request'[s] = request[s]
        /\ raced' = raced
    BY AfterTake
  <1>2. bill[b] # Absent /\ bill[b] \in BillRow
    BY DEF BillInv, Absent
  <1>3. BillCopy(r, b)' /\ \A x \in Bills : HoldsBill(r, x)' => x = b
    BY <1>1, <1>2 DEF BillCopy, AddsUp, HoldsBill, Copy, Loaded, BillInv, PaidBillsWerePaid
  <1>4. ASSUME NEW s \in Requests, NEW x \in Bills, HoldsBill(s, x)'
        PROVE  BillCopy(s, x)'
    BY <1>1, <1>3, <1>4 DEF BillInv, BillCopy, AddsUp, HoldsBill, Copy, Loaded
  <1>5. QED  BY <1>1, <1>4 DEF BillInv, PaidBillsWerePaid, BillIsExact

\* The first statement of a save finds the bill.
LEMMA BillLoaded ==
  ASSUME RequestInv, BillInv, UNCHANGED <<bill, settled, issues>>,
         NEW r \in Requests, NEW b \in Bills, HoldsBill(r, b), Load(r, bill[b])
  PROVE  BillInv'
  <1>1. /\ request'[r].op = request[r].op /\ request'[r].doc = request[r].doc
        /\ Copy(r)' = Copy(r) /\ Loaded(r)' = bill[b]
        /\ \A s \in Requests \ {r} : request'[s] = request[s]
        /\ raced' = raced
    BY LoadKeeps
  <1>2. BillCopy(r, b) /\ AddsUp(bill[b], b)
    BY DEF BillInv, BillCopy, AddsUp, PaidBillsWerePaid
  <1>3. BillCopy(r, b)' /\ \A x \in Bills : HoldsBill(r, x)' => x = b
    BY <1>1, <1>2 DEF BillCopy, AddsUp, HoldsBill
  <1>4. ASSUME NEW s \in Requests, NEW x \in Bills, HoldsBill(s, x)'
        PROVE  BillCopy(s, x)'
    BY <1>1, <1>3, <1>4 DEF BillInv, BillCopy, AddsUp, HoldsBill, Copy, Loaded
  <1>5. QED  BY <1>1, <1>4 DEF BillInv, PaidBillsWerePaid, BillIsExact

\* Each column of a saved bill is that of the row or of the copy; what it shows
\* as paid and its balance are of the same one, for the total never changes.
LEMMA BillColumns ==
  ASSUME NEW r \in Requests, NEW b \in Bills, AddsUp(bill[b], b), AddsUp(Loaded(r), b),
         NEW copy, AddsUp(copy, b)
  PROVE  LET saved == Saved(r, bill[b], copy)
         IN  /\ saved \in BillRow
             /\ saved.total = bill[b].total
             /\ saved.paid + saved.balance = saved.total
             /\ saved.paid \in {bill[b].paid, copy.paid}
             /\ saved.status = IF copy.status = Loaded(r).status THEN bill[b].status ELSE copy.status
             /\ Loaded(r) = bill[b] => saved = copy
  <1> DEFINE found == Loaded(r)
             old == bill[b]
             saved == Saved(r, old, copy)
             Columns == {"status", "receipt", "total", "paid", "balance"}
  <1>1. /\ DOMAIN old = Columns
        /\ old \in BillRow /\ found \in BillRow /\ copy \in BillRow
        /\ copy = [c \in Columns |-> copy[c]]
    BY DEF AddsUp, BillRow
  <1>2. saved = [c \in Columns |-> IF copy[c] = found[c] THEN old[c] ELSE copy[c]]
    BY <1>1 DEF Saved, Updated
  <1>3. /\ saved.status = IF copy.status = found.status THEN old.status ELSE copy.status
        /\ saved.receipt = IF copy.receipt = found.receipt THEN old.receipt ELSE copy.receipt
        /\ saved.total = IF copy.total = found.total THEN old.total ELSE copy.total
        /\ saved.paid = IF copy.paid = found.paid THEN old.paid ELSE copy.paid
        /\ saved.balance = IF copy.balance = found.balance THEN old.balance ELSE copy.balance
    BY <1>2
  <1>4. saved = [status |-> saved.status, receipt |-> saved.receipt, total |-> saved.total,
                 paid |-> saved.paid, balance |-> saved.balance]
    BY <1>2
  <1>5. found = old => saved = copy
    BY <1>1, <1>2
  <1> HIDE DEF saved
  <1>6. saved \in BillRow
    BY <1>1, <1>3, <1>4 DEF BillRow
  <1>7. /\ old.total = copy.total /\ found.total = copy.total
        /\ old.paid + old.balance = old.total
        /\ found.paid + found.balance = found.total
        /\ copy.paid + copy.balance = copy.total
        /\ old.paid \in Nat /\ found.paid \in Nat /\ copy.paid \in Nat
        /\ old.balance \in Nat /\ found.balance \in Nat /\ copy.balance \in Nat
    BY <1>1 DEF AddsUp, BillRow
  <1>8. saved.total = old.total /\ saved.paid + saved.balance = saved.total
    BY <1>3, <1>7
  <1>9. saved.paid \in {old.paid, copy.paid}
    BY <1>3
  <1>10. QED  BY <1>3, <1>5, <1>6, <1>8, <1>9 DEF saved

\* A transaction that saves a row which claims no more than was paid, and is
\* exact if no requests overlapped, keeps the invariant.
LEMMA BillSaved ==
  ASSUME RequestInv, BillInv,
         NEW r \in Requests, NEW b \in Bills, HoldsBill(r, b), Answer(r),
         NEW saved \in BillRow, bill' = [bill EXCEPT ![b] = saved],
         NEW sum \in Nat, settled' = [settled EXCEPT ![b] = sum], settled[b] <= sum,
         NEW times \in Nat, issues' = [issues EXCEPT ![b] = times],
         saved.paid <= sum, saved.total = bill[b].total,
         saved.paid + saved.balance = saved.total,
         saved.status = "paid" => saved.total <= sum,
         b \notin raced' =>
           /\ saved.paid = sum
           /\ saved.status \in {"issued", "paid"} => times = 1
           /\ saved.status \in {"draft", "cancelled"} => times = 0 /\ sum = 0
  PROVE  BillInv'
  <1>1. /\ request'[r] = Idle
        /\ \A s \in Requests \ {r} : request'[s] = request[s]
        /\ raced \subseteq raced'
        /\ b \notin raced' => \A s \in Requests \ {r} : request[s].doc # b
    BY AfterAnswer DEF HoldsBill
  <1>2. /\ bill' \in [Bills -> BillRow \cup {Absent}]
        /\ settled' \in [Bills -> Nat] /\ issues' \in [Bills -> Nat]
        /\ bill'[b] = saved /\ settled'[b] = sum /\ issues'[b] = times
        /\ \A x \in Bills \ {b} :
             bill'[x] = bill[x] /\ settled'[x] = settled[x] /\ issues'[x] = issues[x]
    BY DEF BillInv
  <1>3. saved # Absent
    BY BillRowIsPresent
  <1>4. ASSUME NEW s \in Requests, NEW x \in Bills, HoldsBill(s, x)'
        PROVE  BillCopy(s, x)'
    <2>1. s # r
      BY <1>1, <1>4, IdleRequest DEF HoldsBill, BillOperations
    <2>2. HoldsBill(s, x) /\ BillCopy(s, x) /\ request'[s] = request[s]
      BY <1>1, <1>4, <2>1 DEF HoldsBill, BillInv
    <2>3. CASE x # b
      BY <1>1, <1>2, <2>2, <2>3 DEF BillCopy, AddsUp, Copy, Loaded
    <2>4. CASE x = b
      <3>1. x \in raced'
        BY <1>1, <2>1, <2>2, <2>4 DEF HoldsBill
      <3>2. Copy(s).paid <= settled'[b]
        <4>1. Copy(s).paid \in Nat /\ settled[b] \in Nat /\ Copy(s).paid <= settled[b]
          BY <2>2, <2>4 DEF BillCopy, AddsUp, BillRow, BillInv
        <4>2. QED  BY <1>2, <4>1
      <3>3. QED  BY <1>2, <1>3, <2>2, <2>4, <3>1, <3>2 DEF BillCopy, AddsUp, Copy, Loaded
    <2>5. QED  BY <2>3, <2>4
  <1>5. PaidBillsWerePaid'
    BY <1>2 DEF BillInv, PaidBillsWerePaid
  <1>6. \A x \in Bills : bill'[x] = Absent => settled'[x] = 0 /\ issues'[x] = 0
    BY <1>2, <1>3 DEF BillInv
  <1>7. \A x \in Bills \ raced' : BillIsExact(x)'
    BY <1>1, <1>2 DEF BillInv, BillIsExact
  <1>8. QED  BY <1>2, <1>4, <1>5, <1>6, <1>7 DEF BillInv

\* A new bill claims nothing as paid, and nothing has been paid for it.
LEMMA BillCreated ==
  ASSUME BillInv, NEW b \in Bills, bill[b] = Absent,
         NEW g \in Receipts \cup {None}, NEW total \in Totals, SaveBill(b, NewBill(g, total)),
         UNCHANGED <<settled, issues>>, raced \subseteq raced',
         \A r \in Requests, x \in Bills : HoldsBill(r, x)' => request'[r] = request[r]
  PROVE  BillInv'
  <1> DEFINE new == NewBill(g, total)
  <1>1. new \in BillRow /\ new # Absent
    BY PurchasingAssumption, BillRowIsPresent DEF NewBill, BillRow
  <1>2. new.paid = 0 /\ new.balance = new.total /\ new.total \in Nat /\ new.status = "draft"
    BY PurchasingAssumption DEF NewBill
  <1> HIDE DEF new
  <1>3. bill' = [bill EXCEPT ![b] = new]
    BY DEF SaveBill, new
  <1>4. /\ bill' \in [Bills -> BillRow \cup {Absent}]
        /\ bill'[b] = new
        /\ \A x \in Bills \ {b} : bill'[x] = bill[x]
    BY <1>1, <1>3 DEF BillInv
  <1>5. settled[b] = 0 /\ issues[b] = 0
    BY DEF BillInv
  <1>6. \A r \in Requests, x \in Bills : HoldsBill(r, x)' => BillCopy(r, x)'
    BY <1>4 DEF BillInv, HoldsBill, BillCopy, AddsUp, Copy, Loaded
  <1>7. PaidBillsWerePaid'
    BY <1>2, <1>4, <1>5 DEF BillInv, PaidBillsWerePaid
  <1>8. \A x \in Bills \ raced' : BillIsExact(x)'
    BY <1>2, <1>4, <1>5 DEF BillInv, BillIsExact
  <1>9. QED  BY <1>1, <1>4, <1>6, <1>7, <1>8 DEF BillInv

\* Issuing and cancelling start from a draft.
LEMMA BillReviewed ==
  ASSUME RequestInv, BillInv, NEW r \in Requests, NEW b \in Bills,
         Issue(r, b) \/ CancelBill(r, b)
  PROVE  BillInv'
  <1>1. PICK status \in {"issued", "cancelled"} :
          /\ HoldsBill(r, b) /\ request[r].op # "pay" /\ Answer(r) /\ Loaded(r) # NotLoaded
          /\ bill' = [bill EXCEPT ![b] = Saved(r, bill[b], [Copy(r) EXCEPT !.status = status])]
          /\ UNCHANGED settled
          /\ issues' = IF status = "issued" THEN [issues EXCEPT ![b] = issues[b] + 1] ELSE issues
    BY DEF Issue, CancelBill, SaveBill, Saving, Doing, HoldsBill, BillOperations
  <1> DEFINE copy == [Copy(r) EXCEPT !.status = status]
             saved == Saved(r, bill[b], copy)
             times == IF status = "issued" THEN issues[b] + 1 ELSE issues[b]
  <1>2. /\ BillCopy(r, b) /\ AddsUp(bill[b], b) /\ AddsUp(Loaded(r), b)
        /\ bill[b].paid <= settled[b] /\ (bill[b].status = "paid" => bill[b].total <= settled[b])
    BY <1>1 DEF BillInv, BillCopy, AddsUp, PaidBillsWerePaid
  <1>3. /\ AddsUp(copy, b) /\ copy.paid = Copy(r).paid /\ copy.status = status
    BY <1>2 DEF BillCopy, AddsUp, BillRow
  <1> HIDE DEF copy
  <1>4. /\ saved \in BillRow /\ saved.total = bill[b].total
        /\ saved.paid + saved.balance = saved.total
        /\ saved.paid \in {bill[b].paid, copy.paid}
        /\ saved.status \in {bill[b].status, copy.status}
        /\ Loaded(r) = bill[b] => saved = copy
    BY <1>2, <1>3, BillColumns
  <1>5. bill' = [bill EXCEPT ![b] = saved]
    BY <1>1 DEF copy
  <1> HIDE DEF saved
  <1>6. b \notin raced' => b \notin raced
    BY <1>1, AfterAnswer
  <1>7. b \notin raced => saved = copy /\ Copy(r).paid = settled[b] /\ issues[b] = 0 /\ settled[b] = 0
    BY <1>1, <1>2, <1>4 DEF BillCopy, BillInv, BillIsExact
  <1>8. settled[b] \in Nat /\ times \in Nat /\ settled[b] <= settled[b]
    BY DEF BillInv
  <1>9. settled' = [settled EXCEPT ![b] = settled[b]] /\ issues' = [issues EXCEPT ![b] = times]
    BY <1>1 DEF BillInv
  <1>10. saved.paid <= settled[b] /\ (saved.status = "paid" => saved.total <= settled[b])
    BY <1>2, <1>3, <1>4 DEF BillCopy
  <1>11. b \notin raced' =>
           /\ saved.paid = settled[b]
           /\ saved.status \in {"issued", "paid"} => times = 1
           /\ saved.status \in {"draft", "cancelled"} => times = 0 /\ settled[b] = 0
    BY <1>3, <1>6, <1>7
  <1> HIDE DEF times
  <1>12. QED  BY <1>1, <1>4, <1>5, <1>8, <1>9, <1>10, <1>11, BillSaved

\* What a payment makes of its copy.
LEMMA PaidColumns ==
  ASSUME NEW x \in BillRow, x.status = "issued", NEW amount \in Nat, amount <= x.balance
  PROVE  /\ Paid(x, amount) \in BillRow
         /\ Paid(x, amount).paid = x.paid + amount
         /\ Paid(x, amount).balance = x.balance - amount
         /\ Paid(x, amount).total = x.total
         /\ Paid(x, amount).status = IF x.balance = amount THEN "paid" ELSE x.status
  <1> DEFINE copy == Paid(x, amount)
  <1>1. x.paid + amount \in Nat /\ x.balance - amount \in Nat
    BY DEF BillRow
  <1>2. (IF x.balance = amount THEN "paid" ELSE x.status) \in {"draft", "issued", "paid", "cancelled"}
    OBVIOUS
  <1>3. copy = [x EXCEPT !.paid = x.paid + amount, !.balance = x.balance - amount,
                         !.status = IF x.balance = amount THEN "paid" ELSE x.status]
    BY DEF Paid
  <1> HIDE DEF copy
  <1>4. /\ copy \in BillRow
        /\ copy.paid = x.paid + amount /\ copy.balance = x.balance - amount /\ copy.total = x.total
        /\ copy.status = IF x.balance = amount THEN "paid" ELSE x.status
    BY <1>1, <1>2, <1>3 DEF BillRow
  <1>5. QED  BY <1>4 DEF copy

\* A payment adds to what was settled at least what it adds to the claim, and
\* only the amount that is left makes the bill paid.
LEMMA BillPaid ==
  ASSUME RequestInv, BillInv, NEW r \in Requests, NEW b \in Bills, NEW amount \in Payments,
         Pay(r, b, amount)
  PROVE  BillInv'
  <1> DEFINE copy == Paid(Copy(r), amount)
             saved == Saved(r, bill[b], copy)
             sum == settled[b] + amount
  <1>1. /\ HoldsBill(r, b) /\ request[r].op = "pay" /\ Answer(r) /\ Loaded(r) # NotLoaded
        /\ amount <= Copy(r).balance
        /\ bill' = [bill EXCEPT ![b] = saved]
        /\ settled' = [settled EXCEPT ![b] = sum]
        /\ UNCHANGED issues
    BY DEF Pay, SaveBill, Saving, Doing, HoldsBill, BillOperations
  <1>2. /\ BillCopy(r, b) /\ Copy(r) \in BillRow /\ AddsUp(bill[b], b) /\ AddsUp(Loaded(r), b)
        /\ bill[b].paid <= settled[b] /\ (bill[b].status = "paid" => bill[b].total <= settled[b])
    BY <1>1 DEF BillInv, BillCopy, AddsUp, PaidBillsWerePaid
  <1>3. /\ amount \in Nat /\ settled[b] \in Nat /\ issues[b] \in Nat
        /\ Copy(r).paid \in Nat /\ Copy(r).balance \in Nat /\ Copy(r).total \in Nat
        /\ bill[b].paid \in Nat /\ bill[b].total \in Nat /\ Copy(r).total = bill[b].total
        /\ Copy(r).paid <= settled[b] /\ Copy(r).paid + Copy(r).balance = Copy(r).total
        /\ Copy(r).status = "issued"
    BY <1>1, <1>2, PurchasingAssumption DEF BillInv, BillCopy, AddsUp, BillRow
  <1>4. /\ copy \in BillRow
        /\ copy.paid = Copy(r).paid + amount /\ copy.balance = Copy(r).balance - amount
        /\ copy.total = Copy(r).total
        /\ copy.status = IF Copy(r).balance = amount THEN "paid" ELSE Copy(r).status
    BY <1>1, <1>2, <1>3, PaidColumns
  <1> HIDE DEF copy
  <1>5. AddsUp(copy, b)
    BY <1>3, <1>4 DEF AddsUp
  <1>6. /\ saved \in BillRow /\ saved.total = bill[b].total
        /\ saved.paid + saved.balance = saved.total
        /\ saved.paid \in {bill[b].paid, copy.paid}
        /\ saved.status \in {bill[b].status, copy.status}
        /\ Loaded(r) = bill[b] => saved = copy
    BY <1>2, <1>5, BillColumns
  <1> HIDE DEF saved
  <1>7. b \notin raced' => b \notin raced
    BY <1>1, AfterAnswer
  <1>8. b \notin raced => saved = copy /\ Copy(r).paid = settled[b] /\ issues[b] = 1
    BY <1>1, <1>2, <1>3, <1>6 DEF BillCopy, BillInv, BillIsExact
  <1>9. issues' = [issues EXCEPT ![b] = issues[b]]
    BY <1>1 DEF BillInv
  <1>10. sum \in Nat /\ settled[b] <= sum /\ saved.paid <= sum
    BY <1>2, <1>3, <1>4, <1>6
  <1>11. saved.status = "paid" => saved.total <= sum
    BY <1>2, <1>3, <1>4, <1>6
  <1>12. b \notin raced' =>
           /\ saved.paid = sum
           /\ saved.status \in {"issued", "paid"} => issues[b] = 1
           /\ saved.status \in {"draft", "cancelled"} => issues[b] = 0 /\ sum = 0
    BY <1>3, <1>4, <1>7, <1>8
  <1> HIDE DEF sum
  <1>13. QED  BY <1>1, <1>3, <1>6, <1>9, <1>10, <1>11, <1>12, BillSaved

\* Every step of purchasing keeps the invariant of bills: orders do not touch
\* them.
LEMMA PurchasingKeepsBills ==
  ASSUME RequestInv, BillInv, PurchasingNext
  PROVE  BillInv'
  <1>1. ASSUME NEW r \in Requests, NEW b \in Used(Bills),
               ReadToIssue(r, b) \/ ReadToCancelBill(r, b) \/ ReadToPay(r, b),
               UNCHANGED purchaseVars
        PROVE  BillInv'
    BY <1>1, BillRead DEF ReadToIssue, ReadToCancelBill, ReadToPay, Used, BillOperations,
                          purchaseVars, billVars
  <1>2. ASSUME NEW r \in Requests, NEW d, NEW op, NEW copy, Take(r, op, d, copy),
               op \notin BillOperations, UNCHANGED <<bill, settled, issues>>
        PROVE  BillInv'
    <2>1. \A s \in Requests, x \in Bills : HoldsBill(s, x)' => request'[s] = request[s]
      <3>1. /\ request'[r] = [op |-> op, doc |-> d, copy |-> copy, loaded |-> NotLoaded]
            /\ \A s \in Requests \ {r} : request'[s] = request[s]
        BY <1>2, AfterTake
      <3>2. request'[r].op = op
        BY <3>1
      <3>3. QED  BY <1>2, <3>1, <3>2 DEF HoldsBill
    <2>2. raced' = raced
      BY <1>2 DEF Take
    <2>3. QED  BY <1>2, <2>1, <2>2, BillsUntouched
  <1>3. ASSUME NEW r \in Requests, Answer(r)
        PROVE  /\ \A s \in Requests, x \in Bills : HoldsBill(s, x)' => request'[s] = request[s]
               /\ raced \subseteq raced'
    BY <1>3, AfterAnswer, IdleRequest DEF HoldsBill, BillOperations
  <1>4. ASSUME NEW r \in Requests, OrderCommit(r)
        PROVE  BillInv'
    <2>1. Answer(r) /\ UNCHANGED <<bill, settled, issues>>
      BY <1>4 DEF OrderCommit, Approve, CancelOrder, Receive, billVars
    <2>2. QED  BY <1>3, <2>1, BillsUntouched
  <1>5. ASSUME NEW r \in Requests, NEW g \in Used(Receipts), NEW b \in Used(Bills),
               NEW total \in Totals, BillReceipt(r, g, b, total)
        PROVE  BillInv'
    BY <1>3, <1>5, BillCreated DEF BillReceipt, Used
  <1>6. ASSUME NEW r \in Requests, BillCommit(r)
        PROVE  BillInv'
    BY <1>5, <1>6, BillReviewed, BillPaid DEF BillCommit, Used
  <1>7. ASSUME NEW b \in Used(Bills), NEW total \in Totals, CreateBill(b, total)
        PROVE  BillInv'
    <2>1. UNCHANGED <<request, raced, settled, issues>>
      BY <1>7 DEF CreateBill, requestVars
    <2>2. QED  BY <1>7, <2>1, BillCreated DEF CreateBill, Used, HoldsBill
  <1>8. CASE UNCHANGED <<bill, settled, issues, request, raced>>
    BY <1>8, BillsUntouched
  <1>9. ASSUME NEW r \in Requests, PurchasingRead(r), UNCHANGED purchaseVars
        PROVE  BillInv'
    BY <1>1, <1>2, <1>9 DEF PurchasingRead, ReadToBill, ReadToApprove, ReadToCancelOrder,
                            ReadToReceive, BillOperations, purchaseVars, billVars
  <1>10. ASSUME NEW r \in Requests, PurchasingLoad(r), UNCHANGED purchaseVars
         PROVE  BillInv'
    <2>1. UNCHANGED <<bill, settled, issues>>
      BY <1>10 DEF purchaseVars, billVars
    <2>2. ASSUME NEW b \in Used(Bills), LoadBill(r, b)
          PROVE  BillInv'
      <3>1. b \in Bills /\ HoldsBill(r, b) /\ Load(r, bill[b])
        BY <2>2 DEF LoadBill, LoadLocked, Doing, HoldsBill, BillOperations, Used
      <3>2. QED  BY <2>1, <3>1, BillLoaded
    <2>3. ASSUME NEW o \in Used(PurchaseOrders), LoadOrder(r, o) \/ LoadToReceive(r, o)
          PROVE  BillInv'
      <3>1. Load(r, order[o]) /\ request[r].op \notin BillOperations
        BY <2>3 DEF LoadOrder, LoadToReceive, LoadLocked, Doing, BillOperations
      <3>2. \A q \in Requests, x \in Bills : HoldsBill(q, x)' => request'[q] = request[q]
        BY <3>1, LoadKeeps DEF HoldsBill
      <3>3. raced' = raced
        BY <3>1, LoadKeeps
      <3>4. QED  BY <2>1, <3>2, <3>3, BillsUntouched
    <2>4. QED  BY <1>10, <2>2, <2>3 DEF PurchasingLoad
  <1>11. QED  BY <1>4, <1>6, <1>7, <1>8, <1>9, <1>10
              DEF PurchasingNext, CreateOrder, PayOnAccount, billVars, requestVars

\* A transaction on a bill works from a copy of the bill that is not closed.
LEMMA BillsStayClosed ==
  ASSUME RequestInv, BillInv, PurchasingNext
  PROVE  \A b \in Bills \ raced' : PaidOrCancelled(b) => bill'[b] = bill[b]
  <1>1. ASSUME NEW r \in Requests, NEW x \in Bills, HoldsBill(r, x), Answer(r),
               \A b \in Bills \ {x} : bill'[b] = bill[b]
        PROVE  \A b \in Bills \ raced' : PaidOrCancelled(b) => bill'[b] = bill[b]
    <2>1. x \notin raced' => x \notin raced
      BY <1>1, AfterAnswer
    <2>2. x \notin raced => bill[x].status \in {"draft", "issued"}
      BY <1>1 DEF BillInv, BillCopy
    <2>3. QED  BY <1>1, <2>1, <2>2 DEF PaidOrCancelled
  <1>2. ASSUME NEW x \in Bills, bill[x] = Absent, \A b \in Bills \ {x} : bill'[b] = bill[b]
        PROVE  \A b \in Bills \ raced' : PaidOrCancelled(b) => bill'[b] = bill[b]
    BY <1>2 DEF PaidOrCancelled, Absent
  <1>3. ASSUME NEW r \in Requests, NEW b \in Used(Bills),
               Issue(r, b) \/ CancelBill(r, b) \/ \E amount \in Payments : Pay(r, b, amount)
        PROVE  \A x \in Bills \ raced' : PaidOrCancelled(x) => bill'[x] = bill[x]
    <2>1. HoldsBill(r, b) /\ Answer(r) /\ \A x \in Bills \ {b} : bill'[x] = bill[x]
      BY <1>3 DEF Issue, CancelBill, Pay, Saving, Doing, SaveBill, HoldsBill, BillOperations, Used, BillInv
    <2>2. QED  BY <1>1, <2>1 DEF Used
  <1>4. ASSUME NEW b \in Used(Bills),
               \/ \E total \in Totals : CreateBill(b, total)
               \/ \E r \in Requests, g \in Used(Receipts), total \in Totals : BillReceipt(r, g, b, total)
        PROVE  \A x \in Bills \ raced' : PaidOrCancelled(x) => bill'[x] = bill[x]
    BY <1>2, <1>4 DEF CreateBill, BillReceipt, SaveBill, Used, BillInv
  <1>5. CASE UNCHANGED bill
    BY <1>5
  <1>6. ASSUME NEW r \in Requests, OrderCommit(r)
        PROVE  UNCHANGED bill
    BY <1>6 DEF OrderCommit, Approve, CancelOrder, Receive, billVars
  <1>7. ASSUME NEW r \in Requests, BillCommit(r)
        PROVE  \A x \in Bills \ raced' : PaidOrCancelled(x) => bill'[x] = bill[x]
    BY <1>3, <1>4, <1>7 DEF BillCommit
  <1>8. QED  BY <1>4, <1>5, <1>6, <1>7
             DEF PurchasingNext, CreateOrder, PayOnAccount, purchaseVars, billVars

-----------------------------------------------------------------------------
(* Bills are not issued more often than requests overlapped.               *)

Issuing(b) == {r \in Requests : request[r].doc = b /\ request[r].op = "issue"}

\* A draft was not issued, and no bill becomes one again, whatever its save had
\* found; each other issue is of a request that was under way at the first one.
IssueInv ==
  \A b \in Bills : bill[b] # Absent =>
    /\ bill[b].status = "draft" => issues[b] = 0
    /\ bill[b].status # "draft" => issues[b] + Cardinality(Issuing(b)) <= Cardinality(Requests)
    /\ bill[b].status = "draft" =>
         \A r \in Requests : HoldsBill(r, b) /\ Loaded(r) # NotLoaded => Loaded(r).status = "draft"

\* The requests that issue a bill are finitely many.
LEMMA IssuingIsFinite ==
  ASSUME NEW b
  PROVE  /\ Cardinality(Requests) \in Nat
         /\ IsFiniteSet(Issuing(b)) /\ Cardinality(Issuing(b)) \in Nat
         /\ Cardinality(Issuing(b)) <= Cardinality(Requests)
  <1>1. IsFiniteSet(Requests) /\ Issuing(b) \subseteq Requests
    BY DocumentsAssumption DEF Issuing
  <1>2. QED  BY <1>1, FS_Subset, FS_CardinalityType

\* Fewer requests that issue a bill leave room for as many issues.
LEMMA FewerIssuing ==
  ASSUME BillInv, IssueInv, NEW b \in Bills, bill[b] # Absent, bill[b].status # "draft",
         Issuing(b)' \subseteq Issuing(b)
  PROVE  issues[b] + Cardinality(Issuing(b)') <= Cardinality(Requests)
  <1>1. /\ IsFiniteSet(Issuing(b)) /\ Cardinality(Issuing(b)) \in Nat
        /\ Cardinality(Requests) \in Nat /\ issues[b] \in Nat
    BY IssuingIsFinite DEF BillInv
  <1>2. Cardinality(Issuing(b)') <= Cardinality(Issuing(b)) /\ Cardinality(Issuing(b)') \in Nat
    BY <1>1, FS_Subset, FS_CardinalityType
  <1>3. issues[b] + Cardinality(Issuing(b)) <= Cardinality(Requests)
    BY DEF IssueInv
  <1>4. QED  BY <1>1, <1>2, <1>3

\* A step that leaves the bills, and the requests on them that go on, alone
\* keeps the invariant.
LEMMA IssuesUntouched ==
  ASSUME BillInv, IssueInv, UNCHANGED <<bill, issues>>,
         \A r \in Requests, b \in Bills : HoldsBill(r, b)' => request'[r] = request[r]
  PROVE  IssueInv'
  <1>1. \A b \in Bills : Issuing(b)' \subseteq Issuing(b)
    BY DEF Issuing, HoldsBill, BillOperations
  <1>2. ASSUME NEW b \in Bills, bill[b] # Absent, bill[b].status = "draft",
               NEW r \in Requests, HoldsBill(r, b)', Loaded(r)' # NotLoaded
        PROVE  Loaded(r)'.status = "draft"
    <2>1. HoldsBill(r, b) /\ Loaded(r)' = Loaded(r)
      BY <1>2 DEF HoldsBill, Loaded
    <2>2. QED  BY <1>2, <2>1 DEF IssueInv
  <1>3. ASSUME NEW b \in Bills, bill[b] # Absent, bill[b].status # "draft"
        PROVE  issues[b] + Cardinality(Issuing(b)') <= Cardinality(Requests)
    BY <1>1, <1>3, FewerIssuing
  <1>4. QED  BY <1>2, <1>3 DEF IssueInv

\* A request that reads a bill to issue it finds a draft.
LEMMA IssueRead ==
  ASSUME RequestInv, BillInv, IssueInv, UNCHANGED <<bill, issues>>,
         NEW r \in Requests, NEW d, NEW op, NEW copy, Take(r, op, d, copy),
         op = "issue" => bill[d].status = "draft"
  PROVE  IssueInv'
  <1>1. /\ request'[r] = [op |-> op, doc |-> d, copy |-> copy, loaded |-> NotLoaded]
        /\ \A s \in Requests \ {r} : request'[s] = request[s]
    BY AfterTake
  <1>2. request'[r].op = op /\ request'[r].doc = d /\ Loaded(r)' = NotLoaded
    BY <1>1 DEF Loaded
  <1>3. ASSUME NEW b \in Bills, bill[b] # Absent, bill[b].status = "draft",
               NEW s \in Requests, HoldsBill(s, b)', Loaded(s)' # NotLoaded
        PROVE  Loaded(s)'.status = "draft"
    <2>1. HoldsBill(s, b) /\ Loaded(s)' = Loaded(s)
      BY <1>1, <1>2, <1>3 DEF HoldsBill, Loaded
    <2>2. QED  BY <1>3, <2>1 DEF IssueInv
  <1>4. ASSUME NEW b \in Bills, bill[b] # Absent, bill[b].status # "draft"
        PROVE  issues[b] + Cardinality(Issuing(b)') <= Cardinality(Requests)
    <2>1. Issuing(b)' \subseteq Issuing(b)
      BY <1>1, <1>2, <1>4 DEF Issuing
    <2>2. QED  BY <1>4, <2>1, FewerIssuing
  <1>5. QED  BY <1>3, <1>4 DEF IssueInv

\* So does the first statement of its save, if the bill is still one.
LEMMA IssueLoaded ==
  ASSUME RequestInv, BillInv, IssueInv, UNCHANGED <<bill, issues>>,
         NEW r \in Requests, NEW found, Load(r, found),
         \A b \in Bills : HoldsBill(r, b) => found = bill[b]
  PROVE  IssueInv'
  <1>1. /\ request'[r].op = request[r].op /\ request'[r].doc = request[r].doc
        /\ Loaded(r)' = found
        /\ \A s \in Requests \ {r} : request'[s] = request[s]
    BY LoadKeeps
  <1>2. \A b \in Bills : Issuing(b)' \subseteq Issuing(b)
    BY <1>1 DEF Issuing
  <1>3. ASSUME NEW b \in Bills, bill[b] # Absent, bill[b].status = "draft",
               NEW s \in Requests, HoldsBill(s, b)', Loaded(s)' # NotLoaded
        PROVE  Loaded(s)'.status = "draft"
    <2>1. CASE s = r
      BY <1>1, <1>3, <2>1 DEF HoldsBill
    <2>2. CASE s # r
      <3>1. HoldsBill(s, b) /\ Loaded(s)' = Loaded(s)
        BY <1>1, <1>3, <2>2 DEF HoldsBill, Loaded
      <3>2. QED  BY <1>3, <3>1 DEF IssueInv
    <2>3. QED  BY <2>1, <2>2
  <1>4. ASSUME NEW b \in Bills, bill[b] # Absent, bill[b].status # "draft"
        PROVE  issues[b] + Cardinality(Issuing(b)') <= Cardinality(Requests)
    BY <1>2, <1>4, FewerIssuing
  <1>5. QED  BY <1>3, <1>4 DEF IssueInv

\* A new bill is a draft, on which there are no requests.
LEMMA IssueCreated ==
  ASSUME RequestInv, BillInv, IssueInv, NEW b \in Bills, bill[b] = Absent,
         NEW g, NEW total, SaveBill(b, NewBill(g, total)), UNCHANGED issues,
         \A r \in Requests, x \in Bills : HoldsBill(r, x)' => request'[r] = request[r]
  PROVE  IssueInv'
  <1>1. /\ bill'[b].status = "draft" /\ issues[b] = 0
        /\ \A x \in Bills \ {b} : bill'[x] = bill[x]
    BY DEF SaveBill, NewBill, BillInv
  <1>2. \A r \in Requests : ~HoldsBill(r, b)'
    BY DEF HoldsBill, BillInv, BillCopy
  <1>3. \A x \in Bills : Issuing(x)' \subseteq Issuing(x)
    BY DEF Issuing, HoldsBill, BillOperations
  <1>4. ASSUME NEW x \in Bills \ {b}, bill[x] # Absent, bill[x].status # "draft"
        PROVE  issues[x] + Cardinality(Issuing(x)') <= Cardinality(Requests)
    BY <1>3, <1>4, FewerIssuing
  <1>5. ASSUME NEW x \in Bills \ {b}, bill[x] # Absent, bill[x].status = "draft",
               NEW s \in Requests, HoldsBill(s, x)', Loaded(s)' # NotLoaded
        PROVE  Loaded(s)'.status = "draft"
    <2>1. HoldsBill(s, x) /\ Loaded(s)' = Loaded(s)
      BY <1>5 DEF HoldsBill, Loaded
    <2>2. QED  BY <1>5, <2>1 DEF IssueInv
  <1>6. QED  BY <1>1, <1>2, <1>4, <1>5 DEF IssueInv

\* No save makes a bill a draft; one that issues it ends a request that was
\* about to.
LEMMA IssueSaved ==
  ASSUME RequestInv, BillInv, IssueInv, NEW r \in Requests, NEW b \in Bills, HoldsBill(r, b),
         Answer(r), Loaded(r) # NotLoaded,
         NEW copy, AddsUp(copy, b), copy.status # "draft",
         bill' = [bill EXCEPT ![b] = Saved(r, bill[b], copy)],
         issues' = [issues EXCEPT ![b] = issues[b] + IF request[r].op = "issue" THEN 1 ELSE 0]
  PROVE  IssueInv'
  <1> DEFINE more == IF request[r].op = "issue" THEN 1 ELSE 0
             saved == Saved(r, bill[b], copy)
  <1>1. /\ request'[r].op = "none"
        /\ \A s \in Requests \ {r} : request'[s] = request[s]
    BY AfterAnswer, IdleRequest
  <1>2. BillCopy(r, b) /\ AddsUp(bill[b], b) /\ AddsUp(Loaded(r), b) /\ bill[b] # Absent
    BY DEF BillInv, BillCopy, AddsUp, PaidBillsWerePaid
  <1>3. /\ saved \in BillRow
        /\ saved.status = IF copy.status = Loaded(r).status THEN bill[b].status ELSE copy.status
    BY <1>2, BillColumns
  <1>4. saved.status # "draft"
    BY <1>2, <1>3 DEF IssueInv
  <1>5. /\ bill'[b] = saved /\ issues[b] \in Nat /\ issues'[b] = issues[b] + more
        /\ \A x \in Bills \ {b} : bill'[x] = bill[x] /\ issues'[x] = issues[x]
    BY DEF BillInv
  <1> HIDE DEF saved
  <1>6. \A x \in Bills : Issuing(x)' \subseteq Issuing(x)
    BY <1>1 DEF Issuing
  <1>7. issues'[b] + Cardinality(Issuing(b)') <= Cardinality(Requests)
    <2>1. /\ IsFiniteSet(Issuing(b)) /\ Cardinality(Issuing(b)) \in Nat /\ Cardinality(Requests) \in Nat
          /\ Cardinality(Issuing(b)) <= Cardinality(Requests)
      BY IssuingIsFinite
    <2>2. Cardinality(Issuing(b)') + more <= Cardinality(Issuing(b)) /\ Cardinality(Issuing(b)') \in Nat
      <3>1. Cardinality(Issuing(b)') <= Cardinality(Issuing(b)) /\ Cardinality(Issuing(b)') \in Nat
        BY <1>6, <2>1, FS_Subset, FS_CardinalityType
      <3>2. CASE request[r].op = "issue"
        <4>1. r \in Issuing(b) /\ Issuing(b)' \subseteq Issuing(b) \ {r}
          BY <1>1, <3>2 DEF Issuing, HoldsBill
        <4>2. IsFiniteSet(Issuing(b) \ {r}) /\ Cardinality(Issuing(b) \ {r}) = Cardinality(Issuing(b)) - 1
          BY <2>1, <4>1, FS_RemoveElement
        <4>3. Cardinality(Issuing(b)') <= Cardinality(Issuing(b) \ {r})
          BY <4>1, <4>2, FS_Subset
        <4>4. QED  BY <2>1, <3>1, <3>2, <4>2, <4>3
      <3>3. CASE request[r].op # "issue"
        BY <2>1, <3>1, <3>3
      <3>4. QED  BY <3>2, <3>3
    <2>3. issues[b] + Cardinality(Issuing(b)) <= Cardinality(Requests)
      <3>1. CASE bill[b].status = "draft"
        BY <1>2, <1>5, <2>1, <3>1 DEF IssueInv
      <3>2. CASE bill[b].status # "draft"
        BY <1>2, <3>2 DEF IssueInv
      <3>3. QED  BY <3>1, <3>2
    <2>4. more \in {0, 1}
      OBVIOUS
    <2>5. QED  BY <1>5, <2>1, <2>2, <2>3, <2>4
  <1>8. ASSUME NEW x \in Bills \ {b}, bill[x] # Absent, bill[x].status # "draft"
        PROVE  issues[x] + Cardinality(Issuing(x)') <= Cardinality(Requests)
    BY <1>6, <1>8, FewerIssuing
  <1>9. ASSUME NEW x \in Bills \ {b}, bill[x] # Absent, bill[x].status = "draft",
               NEW s \in Requests, HoldsBill(s, x)', Loaded(s)' # NotLoaded
        PROVE  Loaded(s)'.status = "draft"
    <2>1. s # r
      BY <1>1, <1>9 DEF HoldsBill, BillOperations
    <2>2. HoldsBill(s, x) /\ Loaded(s)' = Loaded(s)
      BY <1>1, <1>9, <2>1 DEF HoldsBill, Loaded
    <2>3. QED  BY <1>9, <2>2 DEF IssueInv
  <1>10. QED  BY <1>4, <1>5, <1>7, <1>8, <1>9 DEF IssueInv

\* Every step of purchasing keeps it.
LEMMA PurchasingKeepsIssues ==
  ASSUME RequestInv, BillInv, IssueInv, PurchasingNext
  PROVE  IssueInv'
  <1>1. ASSUME NEW r \in Requests, Answer(r)
        PROVE  \A s \in Requests, x \in Bills : HoldsBill(s, x)' => request'[s] = request[s]
    BY <1>1, AfterAnswer, IdleRequest DEF HoldsBill, BillOperations
  <1>2. ASSUME NEW r \in Requests, PurchasingRead(r), UNCHANGED purchaseVars
        PROVE  IssueInv'
    <2>1. UNCHANGED <<bill, issues>>
      BY <1>2 DEF purchaseVars, billVars
    <2>2. ASSUME NEW o \in Used(PurchaseOrders),
                 ReadToApprove(r, o) \/ ReadToCancelOrder(r, o) \/ ReadToReceive(r, o)
          PROVE  IssueInv'
      <3>1. \E op \in {"approve", "cancel order", "receive"} : Take(r, op, o, order[o])
        BY <2>2 DEF ReadToApprove, ReadToCancelOrder, ReadToReceive
      <3>2. QED  BY <2>1, <3>1, IssueRead
    <2>3. ASSUME NEW g \in Used(Receipts), ReadToBill(r, g)
          PROVE  IssueInv'
      <3>1. Take(r, "bill", g, receipt[g])
        BY <2>3 DEF ReadToBill
      <3>2. QED  BY <2>1, <3>1, IssueRead
    <2>4. ASSUME NEW b \in Used(Bills), ReadToIssue(r, b)
          PROVE  IssueInv'
      <3>1. Take(r, "issue", b, bill[b]) /\ bill[b].status = "draft"
        BY <2>4 DEF ReadToIssue
      <3>2. QED  BY <2>1, <3>1, IssueRead
    <2>5. ASSUME NEW b \in Used(Bills), ReadToCancelBill(r, b) \/ ReadToPay(r, b)
          PROVE  IssueInv'
      <3>1. \E op \in {"cancel bill", "pay"} : Take(r, op, b, bill[b])
        BY <2>5 DEF ReadToCancelBill, ReadToPay
      <3>2. QED  BY <2>1, <3>1, IssueRead
    <2>6. QED  BY <1>2, <2>2, <2>3, <2>4, <2>5 DEF PurchasingRead
  <1>3. ASSUME NEW r \in Requests, PurchasingLoad(r), UNCHANGED purchaseVars
        PROVE  IssueInv'
    <2>1. PICK found : Load(r, found) /\ \A b \in Bills : HoldsBill(r, b) => found = bill[b]
      BY <1>3 DEF PurchasingLoad, LoadOrder, LoadToReceive, LoadBill, LoadLocked, Doing,
                  HoldsBill, BillOperations
    <2>2. QED  BY <1>3, <2>1, IssueLoaded DEF purchaseVars, billVars
  <1>4. ASSUME NEW r \in Requests, OrderCommit(r)
        PROVE  IssueInv'
    <2>1. Answer(r) /\ UNCHANGED <<bill, issues>>
      BY <1>4 DEF OrderCommit, Approve, CancelOrder, Receive, billVars
    <2>2. QED  BY <1>1, <2>1, IssuesUntouched
  <1>5. ASSUME NEW r \in Requests, NEW b \in Bills, Issue(r, b) \/ CancelBill(r, b)
        PROVE  IssueInv'
    <2>1. PICK status \in {"issued", "cancelled"} :
            /\ HoldsBill(r, b) /\ Answer(r) /\ Loaded(r) # NotLoaded
            /\ bill' = [bill EXCEPT ![b] = Saved(r, bill[b], [Copy(r) EXCEPT !.status = status])]
            /\ issues' = [issues EXCEPT ![b] = issues[b] + IF request[r].op = "issue" THEN 1 ELSE 0]
      <3>1. CASE Issue(r, b)
        BY <3>1 DEF Issue, SaveBill, Saving, Doing, HoldsBill, BillOperations
      <3>2. CASE CancelBill(r, b)
        <4>1. issues' = issues /\ request[r].op = "cancel bill"
          BY <3>2 DEF CancelBill, Saving, Doing
        <4>2. issues' = [issues EXCEPT ![b] = issues[b] + 0]
          <5>1. issues \in [Bills -> Nat]
            BY DEF BillInv
          <5>2. issues[b] \in Nat
            BY <5>1
          <5>3. issues[b] + 0 = issues[b]
            BY <5>2
          <5>4. issues = [issues EXCEPT ![b] = issues[b]]
            BY <5>1
          <5>5. QED  BY <4>1, <5>3, <5>4
        <4>3. QED  BY <3>2, <4>1, <4>2 DEF CancelBill, SaveBill, Saving, Doing, HoldsBill, BillOperations
      <3>3. QED  BY <1>5, <3>1, <3>2
    <2> DEFINE copy == [Copy(r) EXCEPT !.status = status]
    <2>2. AddsUp(copy, b) /\ copy.status # "draft"
      BY <2>1 DEF BillInv, BillCopy, AddsUp, BillRow
    <2>3. bill' = [bill EXCEPT ![b] = Saved(r, bill[b], copy)]
      BY <2>1
    <2> HIDE DEF copy
    <2>4. QED  BY <2>1, <2>2, <2>3, IssueSaved
  <1>6. ASSUME NEW r \in Requests, NEW b \in Bills, NEW amount \in Payments, Pay(r, b, amount)
        PROVE  IssueInv'
    <2> DEFINE copy == Paid(Copy(r), amount)
    <2>1. /\ HoldsBill(r, b) /\ request[r].op = "pay" /\ Answer(r) /\ Loaded(r) # NotLoaded
          /\ amount <= Copy(r).balance /\ UNCHANGED issues
          /\ bill' = [bill EXCEPT ![b] = Saved(r, bill[b], copy)]
      BY <1>6 DEF Pay, SaveBill, Saving, Doing, HoldsBill, BillOperations
    <2>2. /\ AddsUp(Copy(r), b) /\ Copy(r) \in BillRow /\ Copy(r).status = "issued" /\ amount \in Nat
      BY <2>1, PurchasingAssumption DEF BillInv, BillCopy, AddsUp
    <2>3. /\ copy \in BillRow /\ copy.total = Copy(r).total
          /\ copy.paid = Copy(r).paid + amount /\ copy.balance = Copy(r).balance - amount
          /\ copy.status = IF Copy(r).balance = amount THEN "paid" ELSE Copy(r).status
      BY <2>1, <2>2, PaidColumns
    <2> HIDE DEF copy
    <2>4. Copy(r).paid \in Nat /\ Copy(r).balance \in Nat /\ Copy(r).total \in Nat
      BY <2>2 DEF BillRow
    <2>5. AddsUp(copy, b) /\ copy.status # "draft"
      BY <2>2, <2>3, <2>4 DEF AddsUp
    <2>6. issues' = [issues EXCEPT ![b] = issues[b] + IF request[r].op = "issue" THEN 1 ELSE 0]
      <3>1. issues' = [issues EXCEPT ![b] = issues[b] + 0]
        BY <2>1 DEF BillInv
      <3>2. QED  BY <2>1, <3>1
    <2>7. QED  BY <2>1, <2>5, <2>6, IssueSaved
  <1>7. ASSUME NEW r \in Requests, NEW g \in Used(Receipts), NEW b \in Bills, NEW total \in Totals,
               BillReceipt(r, g, b, total)
        PROVE  IssueInv'
    BY <1>1, <1>7, IssueCreated DEF BillReceipt
  <1>8. ASSUME NEW b \in Bills, NEW total \in Totals, CreateBill(b, total)
        PROVE  IssueInv'
    <2>1. UNCHANGED <<request, issues>>
      BY <1>8 DEF CreateBill, requestVars
    <2>2. QED  BY <1>8, <2>1, IssueCreated DEF CreateBill, HoldsBill
  <1>9. CASE UNCHANGED <<bill, issues, request>>
    BY <1>9, IssuesUntouched
  <1>10. ASSUME NEW r \in Requests, BillCommit(r)
         PROVE  IssueInv'
    BY <1>5, <1>6, <1>7, <1>10 DEF BillCommit, Used
  <1>11. QED  BY <1>2, <1>3, <1>4, <1>8, <1>9, <1>10
              DEF PurchasingNext, CreateOrder, PayOnAccount, billVars, requestVars, Used

-----------------------------------------------------------------------------
(* Production orders                                                       *)

WorkOperations == {"update", "remove", "start", "cancel work", "complete"}

HoldsWork(r, w) == request[r].doc = w /\ request[r].op \in WorkOperations

\* A row of the order, as it is or once was, with the materials that it has.
RowOf(x, w) == x \in WorkRow /\ x.bom = work[w].bom

\* The copy of a production order that a request holds is of an order that was
\* not finished, and is the order itself, like what its save found, if no
\* requests on it overlapped.
WorkCopy(r, w) ==
  /\ work[w] # Absent
  /\ RowOf(Copy(r).row, w)
  /\ Loaded(r) # NotLoaded => RowOf(Loaded(r), w)
  /\ Copy(r).row.status \in {"planned", "in_progress"}
  /\ w \notin raced => Copy(r).row = work[w] /\ Loaded(r) \in {NotLoaded, work[w]}

WorkInv ==
  /\ ProductionTypeOK
  /\ MadeFromMaterials
  /\ \A w \in ProductionOrders :
       /\ work[w] = Absent => \A p \in Products : consumed[w][p] = 0
       /\ work[w] = Absent => completions[w] = 0
       /\ made[w] = 0 <=> completions[w] = 0
  /\ \A r \in Requests, w \in ProductionOrders : HoldsWork(r, w) => WorkCopy(r, w)

\* No row of a production order is the absent one.
LEMMA WorkRowIsPresent == ASSUME NEW x \in WorkRow PROVE x # Absent
  BY DEF WorkRow, Absent

\* An order that has materials and has consumed nothing was never completed.
LEMMA NothingConsumed ==
  ASSUME WorkInv, NEW w \in ProductionOrders, work[w] # Absent, work[w].bom # NoMaterials,
         \A p \in Products : work[w].bom[p] > 0 => consumed[w][p] = 0
  PROVE  made[w] = 0 /\ completions[w] = 0
  <1>1. work[w] \in WorkRow /\ made[w] \in Nat
    BY DEF WorkInv, ProductionTypeOK
  <1>2. work[w].bom \in [Products -> Nat]
    BY <1>1 DEF WorkRow
  <1>3. PICK p \in Products : work[w].bom[p] > 0
    BY <1>2 DEF NoMaterials
  <1>4. work[w].bom[p] * made[w] = 0
    BY <1>3 DEF WorkInv, MadeFromMaterials
  <1>5. made[w] = 0
    BY <1>1, <1>2, <1>3, <1>4
  <1>6. QED  BY <1>5 DEF WorkInv

\* A step that leaves production and the requests on it alone keeps the
\* invariant.
LEMMA WorkUntouched ==
  ASSUME WorkInv, UNCHANGED <<work, consumed, made, completions>>, raced \subseteq raced',
         \A r \in Requests, w \in ProductionOrders : HoldsWork(r, w)' => request'[r] = request[r]
  PROVE  WorkInv'
  <1>1. \A r \in Requests, w \in ProductionOrders : HoldsWork(r, w)' => WorkCopy(r, w)'
    BY DEF WorkInv, HoldsWork, WorkCopy, RowOf, Copy, Loaded
  <1>2. MadeFromMaterials'
    BY DEF WorkInv, MadeFromMaterials
  <1>3. QED  BY <1>1, <1>2 DEF WorkInv, ProductionTypeOK

\* A request that reads an order that is not finished holds that order.
LEMMA WorkRead ==
  ASSUME RequestInv, WorkInv, NEW r \in Requests, NEW w \in ProductionOrders,
         NEW op \in WorkOperations, NEW statuses \in SUBSET {"planned", "in_progress"},
         ReadWork(r, w, op, statuses)
  PROVE  WorkInv'
  <1> DEFINE copy == [row |-> work[w], lines |-> consumed[w]]
  <1>1. /\ request'[r] = [op |-> op, doc |-> w, copy |-> copy, loaded |-> NotLoaded]
        /\ \A s \in Requests \ {r} : request'[s] = request[s]
        /\ raced' = raced
        /\ UNCHANGED <<work, consumed, made, completions>>
    BY AfterTake DEF ReadWork, productionVars
  <1>2. work[w] # Absent /\ work[w] \in WorkRow /\ work[w].status \in {"planned", "in_progress"}
    <2>1. work[w].status \in {"planned", "in_progress"}
      BY DEF ReadWork, Has
    <2>2. work[w] \in WorkRow \cup {Absent}
      BY DEF WorkInv, ProductionTypeOK
    <2>3. QED  BY <2>1, <2>2 DEF Absent
  <1>3. WorkCopy(r, w)' /\ \A x \in ProductionOrders : HoldsWork(r, x)' => x = w
    <2>1. Copy(r)' = copy /\ copy.row = work[w] /\ Loaded(r)' = NotLoaded
      BY <1>1 DEF Copy, Loaded
    <2> HIDE DEF copy
    <2>2. QED  BY <1>1, <1>2, <2>1 DEF WorkCopy, RowOf, HoldsWork
  <1>4. ASSUME NEW s \in Requests, NEW x \in ProductionOrders, HoldsWork(s, x)'
        PROVE  WorkCopy(s, x)'
    BY <1>1, <1>3, <1>4 DEF WorkInv, WorkCopy, RowOf, HoldsWork, Copy, Loaded
  <1>5. MadeFromMaterials'
    BY <1>1 DEF WorkInv, MadeFromMaterials
  <1>6. QED  BY <1>1, <1>4, <1>5 DEF WorkInv, ProductionTypeOK

\* The first statement of a save finds the order.
LEMMA WorkLoaded ==
  ASSUME RequestInv, WorkInv, UNCHANGED <<work, consumed, made, completions>>,
         NEW r \in Requests, NEW w \in ProductionOrders, HoldsWork(r, w), Load(r, work[w])
  PROVE  WorkInv'
  <1>1. /\ request'[r].op = request[r].op /\ request'[r].doc = request[r].doc
        /\ Copy(r)' = Copy(r) /\ Loaded(r)' = work[w]
        /\ \A s \in Requests \ {r} : request'[s] = request[s]
        /\ raced' = raced
    BY LoadKeeps
  <1>2. WorkCopy(r, w) /\ RowOf(work[w], w)
    BY DEF WorkInv, WorkCopy, RowOf, ProductionTypeOK
  <1>3. WorkCopy(r, w)' /\ \A x \in ProductionOrders : HoldsWork(r, x)' => x = w
    BY <1>1, <1>2 DEF WorkCopy, RowOf, HoldsWork
  <1>4. ASSUME NEW s \in Requests, NEW x \in ProductionOrders, HoldsWork(s, x)'
        PROVE  WorkCopy(s, x)'
    BY <1>1, <1>3, <1>4 DEF WorkInv, WorkCopy, RowOf, HoldsWork, Copy, Loaded
  <1>5. MadeFromMaterials'
    BY <1>1 DEF WorkInv, MadeFromMaterials
  <1>6. QED  BY <1>1, <1>4, <1>5 DEF WorkInv, ProductionTypeOK

\* A saved order has the materials of the order, and is the copy if the save
\* found the row that it then updates.
LEMMA WorkColumns ==
  ASSUME NEW r \in Requests, NEW w \in ProductionOrders,
         RowOf(work[w], w), RowOf(Loaded(r), w), NEW copy, RowOf(copy, w)
  PROVE  /\ RowOf(Saved(r, work[w], copy), w)
         /\ Loaded(r) = work[w] => Saved(r, work[w], copy) = copy
  <1> DEFINE found == Loaded(r)
             old == work[w]
             saved == Saved(r, old, copy)
             Columns == {"status", "quantity", "bom", "value", "deleted"}
  <1>1. /\ DOMAIN old = Columns
        /\ old \in WorkRow /\ found \in WorkRow /\ copy \in WorkRow
        /\ copy = [c \in Columns |-> copy[c]]
        /\ copy.bom = old.bom
    BY DEF RowOf, WorkRow
  <1>2. saved = [c \in Columns |-> IF copy[c] = found[c] THEN old[c] ELSE copy[c]]
    BY <1>1 DEF Saved, Updated
  <1>3. /\ saved.status = IF copy.status = found.status THEN old.status ELSE copy.status
        /\ saved.quantity = IF copy.quantity = found.quantity THEN old.quantity ELSE copy.quantity
        /\ saved.bom = IF copy.bom = found.bom THEN old.bom ELSE copy.bom
        /\ saved.value = IF copy.value = found.value THEN old.value ELSE copy.value
        /\ saved.deleted = IF copy.deleted = found.deleted THEN old.deleted ELSE copy.deleted
    BY <1>2
  <1>4. saved = [status |-> saved.status, quantity |-> saved.quantity, bom |-> saved.bom,
                 value |-> saved.value, deleted |-> saved.deleted]
    BY <1>2
  <1>5. found = old => saved = copy
    BY <1>1, <1>2
  <1> HIDE DEF saved
  <1>6. saved \in WorkRow /\ saved.bom = old.bom
    BY <1>1, <1>3, <1>4 DEF WorkRow
  <1>7. QED  BY <1>5, <1>6 DEF RowOf, saved

\* The copies of the other requests stay copies of an order with the same
\* materials when one of them saves it.
LEMMA OtherWorkCopies ==
  ASSUME RequestInv, WorkInv,
         NEW r \in Requests, NEW w \in ProductionOrders, HoldsWork(r, w), Answer(r),
         NEW saved \in WorkRow, work' = [work EXCEPT ![w] = saved], saved.bom = work[w].bom
  PROVE  /\ \A s \in Requests, x \in ProductionOrders : HoldsWork(s, x)' => WorkCopy(s, x)'
         /\ raced \subseteq raced'
         /\ work' \in [ProductionOrders -> WorkRow \cup {Absent}]
         /\ work'[w] = saved /\ saved # Absent
         /\ \A x \in ProductionOrders \ {w} : work'[x] = work[x]
  <1>1. /\ request'[r] = Idle
        /\ \A s \in Requests \ {r} : request'[s] = request[s]
        /\ raced \subseteq raced'
        /\ w \notin raced' => \A s \in Requests \ {r} : request[s].doc # w
    BY AfterAnswer DEF HoldsWork
  <1>2. /\ work' \in [ProductionOrders -> WorkRow \cup {Absent}]
        /\ work'[w] = saved /\ saved # Absent
        /\ \A x \in ProductionOrders \ {w} : work'[x] = work[x]
    BY WorkRowIsPresent DEF WorkInv, ProductionTypeOK
  <1>3. ASSUME NEW s \in Requests, NEW x \in ProductionOrders, HoldsWork(s, x)'
        PROVE  WorkCopy(s, x)'
    <2>1. s # r
      BY <1>1, <1>3, IdleRequest DEF HoldsWork, WorkOperations
    <2>2. HoldsWork(s, x) /\ WorkCopy(s, x) /\ request'[s] = request[s]
      BY <1>1, <1>3, <2>1 DEF HoldsWork, WorkInv
    <2>3. CASE x # w
      BY <1>1, <1>2, <2>2, <2>3 DEF WorkCopy, RowOf, Copy, Loaded
    <2>4. CASE x = w
      <3>1. x \in raced'
        BY <1>1, <2>1, <2>2, <2>4 DEF HoldsWork
      <3>2. QED  BY <1>2, <2>2, <2>4, <3>1 DEF WorkCopy, RowOf, Copy, Loaded
    <2>5. QED  BY <2>3, <2>4
  <1>4. QED  BY <1>1, <1>2, <1>3

\* A transaction that does not complete its order leaves what it consumed and
\* made alone.
LEMMA WorkSaved ==
  ASSUME RequestInv, WorkInv, UNCHANGED <<consumed, made, completions>>,
         NEW r \in Requests, NEW w \in ProductionOrders, HoldsWork(r, w), Answer(r),
         NEW saved \in WorkRow, work' = [work EXCEPT ![w] = saved], saved.bom = work[w].bom,
         w \notin raced => saved.status # "completed"
  PROVE  WorkInv'
  <1>1. WorkCopy(r, w) /\ work[w] # Absent
    BY DEF WorkInv, WorkCopy
  <1>2. /\ \A s \in Requests, x \in ProductionOrders : HoldsWork(s, x)' => WorkCopy(s, x)'
        /\ raced \subseteq raced'
        /\ work' \in [ProductionOrders -> WorkRow \cup {Absent}]
        /\ work'[w] = saved /\ saved # Absent
        /\ \A x \in ProductionOrders \ {w} : work'[x] = work[x]
    BY OtherWorkCopies
  <1>3. w \notin raced' => saved.status # "completed" /\ completions[w] = 0
    BY <1>1, <1>2 DEF WorkInv, WorkCopy, MadeFromMaterials
  <1>4. MadeFromMaterials'
    BY <1>1, <1>2, <1>3 DEF WorkInv, MadeFromMaterials
  <1>5. QED  BY <1>2, <1>4 DEF WorkInv, ProductionTypeOK

\* So does a save of a copy with the materials of the order.
LEMMA WorkEdited ==
  ASSUME RequestInv, WorkInv, UNCHANGED <<consumed, made, completions>>,
         NEW r \in Requests, NEW w \in ProductionOrders, HoldsWork(r, w), Answer(r),
         Loaded(r) # NotLoaded,
         NEW copy, RowOf(copy, w), copy.status # "completed",
         work' = [work EXCEPT ![w] = Saved(r, work[w], copy)]
  PROVE  WorkInv'
  <1> DEFINE saved == Saved(r, work[w], copy)
  <1>1. WorkCopy(r, w) /\ RowOf(work[w], w) /\ RowOf(Loaded(r), w)
    BY DEF WorkInv, WorkCopy, RowOf, ProductionTypeOK
  <1>2. RowOf(saved, w) /\ (Loaded(r) = work[w] => saved = copy)
    BY <1>1, WorkColumns
  <1> HIDE DEF saved
  <1>3. saved \in WorkRow /\ saved.bom = work[w].bom
    BY <1>2 DEF RowOf
  <1>4. w \notin raced => saved.status # "completed"
    BY <1>1, <1>2 DEF WorkCopy
  <1>5. work' = [work EXCEPT ![w] = saved]
    BY DEF saved
  <1>6. QED  BY <1>3, <1>4, <1>5, WorkSaved

\* A new order has consumed and made nothing.
LEMMA WorkPlanned ==
  ASSUME WorkInv, NEW w \in ProductionOrders, NEW q \in Quantities, NEW bom \in Boms[w],
         NEW value \in Values[w], Plan(w, q, bom, value)
  PROVE  WorkInv'
  <1> DEFINE new == [status |-> "planned", quantity |-> q, bom |-> bom, value |-> value, deleted |-> FALSE]
  <1>1. new \in WorkRow /\ new # Absent
    BY ProductionAssumption, WorkRowIsPresent DEF WorkRow
  <1>2. /\ work[w] = Absent /\ work' = [work EXCEPT ![w] = new]
        /\ UNCHANGED <<consumed, made, completions, request, raced>>
    BY DEF Plan, SaveWork, requestVars
  <1>3. new.status = "planned" /\ new.bom = bom /\ bom \in [Products -> Nat]
    BY ProductionAssumption
  <1> HIDE DEF new
  <1>4. /\ work' \in [ProductionOrders -> WorkRow \cup {Absent}]
        /\ work'[w] = new
        /\ \A x \in ProductionOrders \ {w} : work'[x] = work[x]
    BY <1>1, <1>2 DEF WorkInv, ProductionTypeOK
  <1>5. completions[w] = 0 /\ made[w] = 0 /\ \A p \in Products : consumed[w][p] = bom[p] * made[w]
    BY <1>2, <1>3 DEF WorkInv
  <1>6. \A r \in Requests, x \in ProductionOrders : HoldsWork(r, x)' => WorkCopy(r, x)'
    BY <1>2, <1>4 DEF WorkInv, HoldsWork, WorkCopy, RowOf, Copy, Loaded
  <1>7. MadeFromMaterials'
    BY <1>2, <1>3, <1>4, <1>5 DEF WorkInv, MadeFromMaterials
  <1>8. QED  BY <1>1, <1>2, <1>4, <1>6, <1>7 DEF WorkInv, ProductionTypeOK

\* A completion consumes the materials of what it makes, and finds no lines of
\* an earlier one of an order that has materials.
LEMMA WorkCompleted ==
  ASSUME RequestInv, WorkInv, NEW r \in Requests, NEW w \in ProductionOrders, Complete(r, w)
  PROVE  WorkInv'
  <1> DEFINE bom == work[w].bom
             q == Copy(r).row.quantity
             copy == [Copy(r).row EXCEPT !.status = "completed"]
             saved == Saved(r, work[w], copy)
             required == Required(w, Copy(r).row)
  <1>1. /\ HoldsWork(r, w) /\ Answer(r) /\ Loaded(r) # NotLoaded
        /\ LinesAreNew(w, required)
        /\ consumed' = [consumed EXCEPT ![w] = [p \in Products |-> consumed[w][p] + required[p]]]
        /\ made' = [made EXCEPT ![w] = made[w] + q]
        /\ completions' = [completions EXCEPT ![w] = completions[w] + 1]
        /\ work' = [work EXCEPT ![w] = saved]
    BY DEF Complete, Saving, Doing, HoldsWork, WorkOperations
  <1>2. WorkCopy(r, w) /\ RowOf(work[w], w) /\ RowOf(Loaded(r), w)
    BY <1>1 DEF WorkInv, WorkCopy, RowOf, ProductionTypeOK
  <1>3. /\ RowOf(copy, w) /\ copy.status = "completed" /\ copy.quantity = q
         /\ q \in Nat \ {0} /\ bom \in [Products -> Nat] /\ Copy(r).row.bom = bom
    BY <1>2 DEF WorkCopy, RowOf, WorkRow
  <1> HIDE DEF copy
  <1>4. /\ saved \in WorkRow /\ saved.bom = bom
        /\ Loaded(r) = work[w] => saved = copy
        /\ q \in Nat \ {0} /\ bom \in [Products -> Nat] /\ Copy(r).row.bom = bom
    BY <1>2, <1>3, WorkColumns DEF RowOf
  <1>5. required = [p \in Products |-> bom[p] * q]
    BY <1>4 DEF Required
  <1> HIDE DEF saved, required, q
  <1>6. /\ \A s \in Requests, x \in ProductionOrders : HoldsWork(s, x)' => WorkCopy(s, x)'
        /\ raced \subseteq raced'
        /\ work' \in [ProductionOrders -> WorkRow \cup {Absent}]
        /\ work'[w] = saved /\ saved # Absent
        /\ \A x \in ProductionOrders \ {w} : work'[x] = work[x]
    BY <1>1, <1>4, OtherWorkCopies
  <1>7. /\ made[w] \in Nat /\ completions[w] \in Nat /\ consumed[w] \in [Products -> Nat]
        /\ \A p \in Products : consumed[w][p] = bom[p] * made[w]
    BY <1>2 DEF WorkInv, ProductionTypeOK, WorkCopy, MadeFromMaterials
  <1>8. ASSUME NEW p \in Products
        PROVE  /\ required[p] \in Nat
               /\ consumed[w][p] + required[p] = bom[p] * (made[w] + q)
    <2>1. bom[p] \in Nat /\ q \in Nat /\ made[w] \in Nat
      BY <1>4, <1>7
    <2>2. bom[p] * q \in Nat /\ bom[p] * made[w] + bom[p] * q = bom[p] * (made[w] + q)
      BY <2>1
    <2>3. QED  BY <1>5, <1>7, <2>2
  <1>9. /\ made' \in [ProductionOrders -> Nat] /\ made'[w] = made[w] + q
        /\ completions' \in [ProductionOrders -> Nat] /\ completions'[w] = completions[w] + 1
        /\ consumed' \in [ProductionOrders -> [Products -> Nat]]
        /\ \A p \in Products : consumed'[w][p] = bom[p] * made'[w]
        /\ \A x \in ProductionOrders \ {w} :
             made'[x] = made[x] /\ completions'[x] = completions[x] /\ consumed'[x] = consumed[x]
    <2>1. [p \in Products |-> consumed[w][p] + required[p]] \in [Products -> Nat]
      BY <1>7, <1>8
    <2>2. QED  BY <1>1, <1>4, <1>7, <1>8, <2>1 DEF WorkInv, ProductionTypeOK
  <1>10. bom # NoMaterials => completions[w] = 0
    <2>1. ASSUME NEW p \in Products, bom[p] > 0
          PROVE  consumed[w][p] = 0
      <3>1. bom[p] \in Nat /\ q \in Nat /\ q > 0
        BY <1>4
      <3>2. bom[p] * q > 0
        BY <2>1, <3>1
      <3>3. QED  BY <1>1, <1>5, <3>2 DEF LinesAreNew
    <2>2. QED  BY <1>2, <2>1, NothingConsumed DEF WorkCopy
  <1>11. w \notin raced' =>
           /\ completions[w] = 0 /\ made[w] = 0
           /\ saved.status = "completed" /\ saved.quantity = q
    BY <1>1, <1>2, <1>4, <1>6, <1>3 DEF WorkInv, WorkCopy, MadeFromMaterials
  <1>12. made'[w] # 0 /\ completions'[w] # 0
    BY <1>4, <1>7, <1>9
  <1>13. MadeFromMaterials'
    <2>1. ASSUME NEW x \in ProductionOrders \ {w}, work'[x] # Absent
          PROVE  /\ \A p \in Products : consumed'[x][p] = work'[x].bom[p] * made'[x]
                 /\ work'[x].bom # NoMaterials => completions'[x] <= 1
                 /\ x \notin raced' =>
                      IF work'[x].status = "completed"
                      THEN completions'[x] = 1 /\ made'[x] = work'[x].quantity
                      ELSE completions'[x] = 0
      BY <1>6, <1>9, <2>1 DEF WorkInv, MadeFromMaterials
    <2>2. /\ \A p \in Products : consumed'[w][p] = work'[w].bom[p] * made'[w]
          /\ work'[w].bom # NoMaterials => completions'[w] <= 1
          /\ w \notin raced' =>
               IF work'[w].status = "completed"
               THEN completions'[w] = 1 /\ made'[w] = work'[w].quantity
               ELSE completions'[w] = 0
      BY <1>4, <1>6, <1>9, <1>10, <1>11
    <2>3. QED  BY <2>1, <2>2 DEF MadeFromMaterials
  <1>14. \A x \in ProductionOrders :
           /\ work'[x] = Absent => \A p \in Products : consumed'[x][p] = 0
           /\ work'[x] = Absent => completions'[x] = 0
           /\ made'[x] = 0 <=> completions'[x] = 0
    BY <1>6, <1>9, <1>12 DEF WorkInv
  <1>15. QED  BY <1>6, <1>9, <1>13, <1>14 DEF WorkInv, ProductionTypeOK

\* Every step of production keeps the invariant, and a finished order on which
\* no requests overlapped is not changed.
LEMMA ProductionKeepsWork ==
  ASSUME RequestInv, WorkInv, ProductionNext
  PROVE  /\ WorkInv'
         /\ \A w \in ProductionOrders \ raced' : Finished(w) => work'[w] = work[w]
  <1> DEFINE Kept == \A w \in ProductionOrders \ raced' : Finished(w) => work'[w] = work[w]
  <1>1. ASSUME NEW r \in Requests, NEW w \in ProductionOrders, HoldsWork(r, w), Answer(r),
               NEW saved, work' = [work EXCEPT ![w] = saved]
        PROVE  Kept
    <2>1. w \notin raced' => w \notin raced
      BY <1>1, AfterAnswer
    <2>2. w \notin raced => work[w].status \in {"planned", "in_progress"}
      BY <1>1 DEF WorkInv, WorkCopy
    <2>3. \A x \in ProductionOrders \ {w} : work'[x] = work[x]
      BY <1>1 DEF WorkInv, ProductionTypeOK
    <2>4. QED  BY <2>1, <2>2, <2>3 DEF Finished
  <1>2. ASSUME NEW r \in Requests, NEW w \in Used(ProductionOrders),
               \/ ReadToUpdate(r, w) \/ ReadToRemove(r, w) \/ ReadToStart(r, w)
               \/ ReadToCancelWork(r, w) \/ ReadToComplete(r, w)
        PROVE  WorkInv' /\ Kept
    <2>1. w \in ProductionOrders
      BY DEF Used
    <2>2. PICK op \in WorkOperations, statuses \in SUBSET {"planned", "in_progress"} :
            ReadWork(r, w, op, statuses)
      BY <1>2 DEF ReadToUpdate, ReadToRemove, ReadToStart, ReadToCancelWork, ReadToComplete,
                  WorkOperations
    <2>3. UNCHANGED work
      BY <2>2 DEF ReadWork, productionVars
    <2>4. QED  BY <2>1, <2>2, <2>3, WorkRead
  <1>3. ASSUME NEW r \in Requests, NEW w \in Used(ProductionOrders), NEW q \in Quantities,
               NEW value \in Values[w], Update(r, w, q, value)
        PROVE  WorkInv' /\ Kept
    <2> DEFINE copy == [Copy(r).row EXCEPT !.quantity = q, !.value = value]
    <2>1. /\ w \in ProductionOrders /\ HoldsWork(r, w) /\ Answer(r) /\ Loaded(r) # NotLoaded
          /\ work' = [work EXCEPT ![w] = Saved(r, work[w], copy)]
          /\ UNCHANGED <<consumed, made, completions>>
      BY <1>3 DEF Used, Update, Saving, Doing, SaveWork, HoldsWork, WorkOperations
    <2>2. WorkCopy(r, w)
      BY <2>1 DEF WorkInv
    <2>3. q \in Nat \ {0} /\ value \in Nat
      BY <2>1, ProductionAssumption
    <2>4. RowOf(copy, w) /\ copy.status # "completed"
      BY <2>2, <2>3 DEF WorkCopy, RowOf, WorkRow
    <2> HIDE DEF copy
    <2>5. QED  BY <1>1, <2>1, <2>4, WorkEdited
  <1>4. ASSUME NEW r \in Requests, NEW w \in Used(ProductionOrders), Start(r, w) \/ CancelWork(r, w)
        PROVE  WorkInv' /\ Kept
    <2>1. PICK status \in {"in_progress", "cancelled"} :
            /\ w \in ProductionOrders /\ HoldsWork(r, w) /\ Answer(r) /\ Loaded(r) # NotLoaded
            /\ work' = [work EXCEPT ![w] = Saved(r, work[w], [Copy(r).row EXCEPT !.status = status])]
            /\ UNCHANGED <<consumed, made, completions>>
      BY <1>4 DEF Used, Start, CancelWork, Saving, Doing, SaveWork, HoldsWork, WorkOperations
    <2> DEFINE copy == [Copy(r).row EXCEPT !.status = status]
    <2>2. WorkCopy(r, w)
      BY <2>1 DEF WorkInv
    <2>3. RowOf(copy, w) /\ copy.status # "completed"
      BY <2>2 DEF WorkCopy, RowOf, WorkRow
    <2>4. work' = [work EXCEPT ![w] = Saved(r, work[w], copy)]
      BY <2>1
    <2> HIDE DEF copy
    <2>5. QED  BY <1>1, <2>1, <2>3, <2>4, WorkEdited
  <1>5. ASSUME NEW r \in Requests, NEW w \in Used(ProductionOrders), Remove(r, w)
        PROVE  WorkInv' /\ Kept
    <2> DEFINE saved == [work[w] EXCEPT !.deleted = TRUE]
    <2>1. /\ w \in ProductionOrders /\ HoldsWork(r, w) /\ Answer(r)
          /\ work' = [work EXCEPT ![w] = saved]
          /\ UNCHANGED <<consumed, made, completions>>
      BY <1>5 DEF Used, Remove, Doing, SaveWork, HoldsWork, WorkOperations
    <2>2. work[w] \in WorkRow /\ (w \notin raced => work[w].status # "completed")
      BY <2>1 DEF WorkInv, WorkCopy, ProductionTypeOK
    <2>3. /\ saved \in WorkRow /\ saved.bom = work[w].bom
          /\ w \notin raced => saved.status # "completed"
      BY <2>2 DEF WorkRow
    <2> HIDE DEF saved
    <2>4. QED  BY <1>1, <2>1, <2>3, WorkSaved
  <1>6. ASSUME NEW r \in Requests, NEW w \in Used(ProductionOrders), Complete(r, w)
        PROVE  WorkInv' /\ Kept
    <2>1. /\ w \in ProductionOrders /\ HoldsWork(r, w) /\ Answer(r)
          /\ work' = [work EXCEPT ![w] = Saved(r, work[w], [Copy(r).row EXCEPT !.status = "completed"])]
      BY <1>6 DEF Used, Complete, Saving, Doing, HoldsWork, WorkOperations
    <2>2. QED  BY <1>1, <1>6, <2>1, WorkCompleted
  <1>7. ASSUME NEW w \in Used(ProductionOrders), NEW q \in Quantities, NEW bom \in Boms[w],
               NEW value \in Values[w], Plan(w, q, bom, value)
        PROVE  WorkInv' /\ Kept
    <2>1. w \in ProductionOrders
      BY DEF Used
    <2>2. Kept
      <3>1. work[w] = Absent /\ \A x \in ProductionOrders \ {w} : work'[x] = work[x]
        BY <1>7 DEF Plan, SaveWork, WorkInv, ProductionTypeOK
      <3>2. QED  BY <3>1 DEF Finished, Absent
    <2>3. QED  BY <1>7, <2>1, <2>2, WorkPlanned
  <1>8. ASSUME NEW r \in Requests, NEW w \in Used(ProductionOrders),
               \/ LoadToUpdate(r, w) \/ LoadToStart(r, w) \/ LoadToCancelWork(r, w)
               \/ LoadToComplete(r, w)
        PROVE  WorkInv' /\ Kept
    <2>1. /\ w \in ProductionOrders /\ HoldsWork(r, w) /\ Load(r, work[w])
          /\ UNCHANGED <<work, consumed, made, completions>>
      BY <1>8 DEF Used, LoadToUpdate, LoadToStart, LoadToCancelWork, LoadWithLines, LoadToComplete,
                  LoadLocked, Doing, HoldsWork, WorkOperations, productionVars
    <2>2. QED  BY <2>1, WorkLoaded
  <1>9. QED  BY <1>2, <1>3, <1>4, <1>5, <1>6, <1>7, <1>8 DEF ProductionNext

-----------------------------------------------------------------------------
(* Payrolls                                                                *)

PayrollOperations == {"post", "cancel payroll"}

HoldsPayroll(r, p) == request[r].doc = p /\ request[r].op \in PayrollOperations

\* A row of the payroll, as it is or once was, for the same month.
SalariesRow(x, p) == x \in PayrollRow /\ x.period = payroll[p].period

\* The copy of a payroll that a request holds is a draft of the payroll's month,
\* and is the payroll itself, like what its save found, if no requests
\* overlapped.  No payroll is a draft again after its save found another status.
PayrollCopy(r, p) ==
  /\ payroll[p] # Absent
  /\ SalariesRow(Copy(r), p) /\ Copy(r).status = "draft"
  /\ Loaded(r) # NotLoaded =>
       SalariesRow(Loaded(r), p) /\ (Loaded(r).status # "draft" => payroll[p].status # "draft")
  /\ p \notin raced => Copy(r) = payroll[p] /\ Loaded(r) \in {NotLoaded, payroll[p]}

Generating(r, period) == request[r].doc = period /\ request[r].op = "generate"

EntryNamed(p) ==
  payroll[p] # Absent =>
    payroll[p].entry = IF payroll[p].status = "posted" THEN entries[p] ELSE 0

PostedOnce(p) ==
  payroll[p] # Absent => entries[p] = IF payroll[p].status = "posted" THEN 1 ELSE 0

PayrollInv ==
  /\ payroll \in [Payrolls -> PayrollRow \cup {Absent}]
  /\ entries \in [Payrolls -> Nat]
  /\ \A p \in Payrolls : payroll[p] = Absent => entries[p] = 0
  /\ \A r \in Requests, p \in Payrolls : HoldsPayroll(r, p) => PayrollCopy(r, p)
  /\ \A p \in Payrolls \ raced : PostedOnce(p) /\ EntryNamed(p)
  /\ \A period \in Periods \ raced :
       /\ \A p, q \in PayrollsOf(period) : p = q
       /\ \A r \in Requests : Generating(r, period) => PayrollsOf(period) = {}

\* No row of a payroll is the absent one.
LEMMA PayrollRowIsPresent == ASSUME NEW x \in PayrollRow PROVE x # Absent
  BY DEF PayrollRow, Absent

\* A step that leaves payrolls and the requests on them alone keeps the
\* invariant.
LEMMA PayrollsUntouched ==
  ASSUME PayrollInv, UNCHANGED <<payroll, entries>>, raced \subseteq raced',
         \A r \in Requests, p \in Payrolls : HoldsPayroll(r, p)' => request'[r] = request[r],
         \A r \in Requests, period \in Periods : Generating(r, period)' => request'[r] = request[r]
  PROVE  PayrollInv'
  <1>1. \A r \in Requests, p \in Payrolls : HoldsPayroll(r, p)' => PayrollCopy(r, p)'
    BY DEF PayrollInv, HoldsPayroll, PayrollCopy, SalariesRow, Copy, Loaded
  <1>2. \A period \in Periods : PayrollsOf(period)' = PayrollsOf(period)
    BY DEF PayrollsOf
  <1>3. \A r \in Requests, period \in Periods : Generating(r, period)' => Generating(r, period)
    BY DEF Generating
  <1>4. QED  BY <1>1, <1>2, <1>3 DEF PayrollInv, EntryNamed, PostedOnce

\* A request that reads a draft holds that draft.
LEMMA PayrollRead ==
  ASSUME RequestInv, PayrollInv, UNCHANGED <<payroll, entries>>,
         NEW r \in Requests, NEW p \in Payrolls, NEW op \in PayrollOperations,
         payroll[p].status = "draft", Take(r, op, p, payroll[p])
  PROVE  PayrollInv'
  <1>1. /\ request'[r] = [op |-> op, doc |-> p, copy |-> payroll[p], loaded |-> NotLoaded]
        /\ \A s \in Requests \ {r} : request'[s] = request[s]
        /\ raced' = raced
    BY AfterTake
  <1>2. payroll[p] # Absent /\ payroll[p] \in PayrollRow
    BY DEF PayrollInv, Absent
  <1>3. PayrollCopy(r, p)' /\ \A x \in Payrolls : HoldsPayroll(r, x)' => x = p
    BY <1>1, <1>2 DEF PayrollCopy, SalariesRow, HoldsPayroll, Copy, Loaded, PayrollInv
  <1>4. ASSUME NEW s \in Requests, NEW x \in Payrolls, HoldsPayroll(s, x)'
        PROVE  PayrollCopy(s, x)'
    BY <1>1, <1>3, <1>4 DEF PayrollInv, PayrollCopy, SalariesRow, HoldsPayroll, Copy, Loaded
  <1>5. ASSUME NEW s \in Requests, NEW period \in Periods, Generating(s, period)'
        PROVE  Generating(s, period)
    <2>1. request'[r].op = op
      BY <1>1
    <2>2. s # r
      BY <1>5, <2>1 DEF Generating, PayrollOperations
    <2>3. QED  BY <1>1, <1>5, <2>2 DEF Generating
  <1>6. \A period \in Periods : PayrollsOf(period)' = PayrollsOf(period)
    BY DEF PayrollsOf
  <1>7. QED  BY <1>1, <1>4, <1>5, <1>6 DEF PayrollInv, EntryNamed, PostedOnce

\* The first statement of a save finds the payroll.
LEMMA PayrollLoaded ==
  ASSUME RequestInv, PayrollInv, UNCHANGED <<payroll, entries>>,
         NEW r \in Requests, NEW p \in Payrolls, HoldsPayroll(r, p), Load(r, payroll[p])
  PROVE  PayrollInv'
  <1>1. /\ request'[r].op = request[r].op /\ request'[r].doc = request[r].doc
        /\ Copy(r)' = Copy(r) /\ Loaded(r)' = payroll[p]
        /\ \A s \in Requests \ {r} : request'[s] = request[s]
        /\ raced' = raced
    BY LoadKeeps
  <1>2. PayrollCopy(r, p) /\ SalariesRow(payroll[p], p)
    BY DEF PayrollInv, PayrollCopy, SalariesRow
  <1>3. PayrollCopy(r, p)' /\ \A x \in Payrolls : HoldsPayroll(r, x)' => x = p
    BY <1>1, <1>2 DEF PayrollCopy, SalariesRow, HoldsPayroll
  <1>4. ASSUME NEW s \in Requests, NEW x \in Payrolls, HoldsPayroll(s, x)'
        PROVE  PayrollCopy(s, x)'
    BY <1>1, <1>3, <1>4 DEF PayrollInv, PayrollCopy, SalariesRow, HoldsPayroll, Copy, Loaded
  <1>5. \A s \in Requests, period \in Periods : Generating(s, period)' => Generating(s, period)
    BY <1>1 DEF Generating
  <1>6. \A period \in Periods : PayrollsOf(period)' = PayrollsOf(period)
    BY DEF PayrollsOf
  <1>7. QED  BY <1>1, <1>4, <1>5, <1>6 DEF PayrollInv, EntryNamed, PostedOnce

\* A saved payroll is of the same month; each other column is that of the row or
\* of the copy.
LEMMA PayrollColumns ==
  ASSUME NEW r \in Requests, NEW p \in Payrolls,
         SalariesRow(payroll[p], p), SalariesRow(Loaded(r), p), NEW copy, SalariesRow(copy, p)
  PROVE  LET saved == Saved(r, payroll[p], copy)
         IN  /\ SalariesRow(saved, p)
             /\ saved.status = IF copy.status = Loaded(r).status THEN payroll[p].status ELSE copy.status
             /\ Loaded(r) = payroll[p] => saved = copy
  <1> DEFINE found == Loaded(r)
             old == payroll[p]
             saved == Saved(r, old, copy)
             Columns == {"status", "period", "net", "entry"}
  <1>1. /\ DOMAIN old = Columns
        /\ old \in PayrollRow /\ found \in PayrollRow /\ copy \in PayrollRow
        /\ copy = [c \in Columns |-> copy[c]]
        /\ copy.period = old.period
    BY DEF SalariesRow, PayrollRow
  <1>2. saved = [c \in Columns |-> IF copy[c] = found[c] THEN old[c] ELSE copy[c]]
    BY <1>1 DEF Saved, Updated
  <1>3. /\ saved.status = IF copy.status = found.status THEN old.status ELSE copy.status
        /\ saved.period = IF copy.period = found.period THEN old.period ELSE copy.period
        /\ saved.net = IF copy.net = found.net THEN old.net ELSE copy.net
        /\ saved.entry = IF copy.entry = found.entry THEN old.entry ELSE copy.entry
    BY <1>2
  <1>4. saved = [status |-> saved.status, period |-> saved.period, net |-> saved.net,
                 entry |-> saved.entry]
    BY <1>2
  <1>5. found = old => saved = copy
    BY <1>1, <1>2
  <1> HIDE DEF saved
  <1>6. saved \in PayrollRow /\ saved.period = old.period
    BY <1>1, <1>3, <1>4 DEF PayrollRow
  <1>7. QED  BY <1>3, <1>5, <1>6 DEF SalariesRow, saved

\* A request that finds no payroll of a month may generate one.
LEMMA PeriodRead ==
  ASSUME RequestInv, PayrollInv, UNCHANGED <<payroll, entries>>,
         NEW r \in Requests, NEW period \in Periods, ReadToGenerate(r, period)
  PROVE  PayrollInv'
  <1>1. /\ request'[r] = [op |-> "generate", doc |-> period, copy |-> Absent, loaded |-> NotLoaded]
        /\ \A s \in Requests \ {r} : request'[s] = request[s]
        /\ raced' = raced
        /\ PayrollsOf(period) = {}
    BY AfterTake DEF ReadToGenerate, HasPayroll, PayrollsOf
  <1>2. request'[r].op = "generate" /\ request'[r].doc = period
    BY <1>1
  <1>3. ASSUME NEW s \in Requests, NEW x \in Payrolls, HoldsPayroll(s, x)'
        PROVE  PayrollCopy(s, x)'
    <2>1. s # r
      BY <1>2, <1>3 DEF HoldsPayroll, PayrollOperations
    <2>2. QED  BY <1>1, <1>3, <2>1 DEF PayrollInv, PayrollCopy, SalariesRow, HoldsPayroll, Copy, Loaded
  <1>4. \A x \in Periods : PayrollsOf(x)' = PayrollsOf(x)
    BY DEF PayrollsOf
  <1>5. ASSUME NEW s \in Requests, NEW x \in Periods \ raced', Generating(s, x)'
        PROVE  PayrollsOf(x) = {}
    BY <1>1, <1>2, <1>5 DEF PayrollInv, Generating
  <1>6. QED  BY <1>1, <1>3, <1>4, <1>5 DEF PayrollInv, EntryNamed, PostedOnce

\* Generating a payroll gives its month the only one, unless another request
\* for that month was under way.
LEMMA PayrollGenerated ==
  ASSUME RequestInv, PayrollInv, NEW r \in Requests, NEW p \in Payrolls, NEW period \in Periods,
         NEW net \in Nets, Generate(r, period, p, net)
  PROVE  PayrollInv'
  <1> DEFINE new == [status |-> "draft", period |-> period, net |-> net, entry |-> 0]
  <1>1. /\ Generating(r, period) /\ Answer(r) /\ payroll[p] = Absent
        /\ payroll' = [payroll EXCEPT ![p] = new]
        /\ UNCHANGED entries
    BY DEF Generate, Doing, SavePayroll, Generating
  <1>2. /\ request'[r] = Idle
        /\ \A s \in Requests \ {r} : request'[s] = request[s]
        /\ raced \subseteq raced'
        /\ period \notin raced' => \A s \in Requests \ {r} : request[s].doc # period
    BY <1>1, AfterAnswer DEF Generating
  <1>3. new \in PayrollRow /\ new # Absent
    BY PayrollRowIsPresent DEF PayrollRow
  <1>4. new.status = "draft" /\ new.entry = 0 /\ new.period = period
    OBVIOUS
  <1> HIDE DEF new
  <1>5. /\ payroll' \in [Payrolls -> PayrollRow \cup {Absent}]
        /\ payroll'[p] = new
        /\ \A x \in Payrolls \ {p} : payroll'[x] = payroll[x]
    BY <1>1, <1>3 DEF PayrollInv
  <1>6. ASSUME NEW s \in Requests, NEW x \in Payrolls, HoldsPayroll(s, x)'
        PROVE  PayrollCopy(s, x)'
    <2>1. s # r
      BY <1>2, <1>6, IdleRequest DEF HoldsPayroll, PayrollOperations
    <2>2. HoldsPayroll(s, x) /\ PayrollCopy(s, x) /\ request'[s] = request[s]
      BY <1>2, <1>6, <2>1 DEF HoldsPayroll, PayrollInv
    <2>3. x # p
      BY <1>1, <2>2 DEF PayrollCopy
    <2>4. QED  BY <1>2, <1>5, <2>2, <2>3 DEF PayrollCopy, SalariesRow, Copy, Loaded
  <1>7. \A x \in Periods \ {period} : PayrollsOf(x)' = PayrollsOf(x)
    BY <1>1, <1>4, <1>5 DEF PayrollsOf
  <1>8. PayrollsOf(period)' = PayrollsOf(period) \cup {p}
    BY <1>1, <1>3, <1>4, <1>5 DEF PayrollsOf
  <1>9. ASSUME NEW s \in Requests, NEW x \in Periods, Generating(s, x)'
        PROVE  s # r /\ Generating(s, x)
    <2>1. s # r
      BY <1>2, <1>9, IdleRequest DEF Generating
    <2>2. QED  BY <1>2, <1>9, <2>1 DEF Generating
  <1>10. period \notin raced' =>
           /\ PayrollsOf(period) = {}
           /\ \A s \in Requests : ~Generating(s, period)'
    BY <1>1, <1>2, <1>9 DEF PayrollInv, Generating
  <1>11. ASSUME NEW x \in Periods \ raced'
         PROVE  /\ \A a, b \in PayrollsOf(x)' : a = b
                /\ \A s \in Requests : Generating(s, x)' => PayrollsOf(x)' = {}
    BY <1>2, <1>7, <1>8, <1>9, <1>10 DEF PayrollInv
  <1>12. \A x \in Payrolls : payroll'[x] = Absent => entries'[x] = 0
    BY <1>1, <1>3, <1>4, <1>5 DEF PayrollInv
  <1>13. \A x \in Payrolls \ raced' : PostedOnce(x)' /\ EntryNamed(x)'
    BY <1>1, <1>2, <1>4, <1>5 DEF PayrollInv, PostedOnce, EntryNamed
  <1>14. QED  BY <1>1, <1>5, <1>6, <1>11, <1>12, <1>13 DEF PayrollInv

\* Posting and cancelling save a row that is not a draft: that of the draft that
\* was read, with the entry that this transaction posted, if it did, when no
\* requests overlapped.
LEMMA PayrollRowSaved ==
  ASSUME RequestInv, PayrollInv, NEW r \in Requests, NEW p \in Payrolls,
         Post(r, p) \/ CancelPayroll(r, p)
  PROVE  /\ HoldsPayroll(r, p) /\ Answer(r) /\ PayrollCopy(r, p)
         /\ entries' = [entries EXCEPT ![p] = entries[p] + IF request[r].op = "post" THEN 1 ELSE 0]
         /\ \E saved :
              /\ SalariesRow(saved, p) /\ saved.status # "draft"
              /\ payroll' = [payroll EXCEPT ![p] = saved]
              /\ p \notin raced =>
                   IF request[r].op = "post"
                   THEN saved.status = "posted" /\ saved.entry = entries[p] + 1
                   ELSE saved.status = "cancelled" /\ saved.entry = 0
  <1> DEFINE posting == request[r].op = "post"
             copy == IF posting
                     THEN [Copy(r) EXCEPT !.status = "posted", !.entry = entries[p] + 1]
                     ELSE [Copy(r) EXCEPT !.status = "cancelled"]
             saved == Saved(r, payroll[p], copy)
  <1>1. /\ HoldsPayroll(r, p) /\ Answer(r) /\ Loaded(r) # NotLoaded
        /\ entries' = [entries EXCEPT ![p] = entries[p] + IF posting THEN 1 ELSE 0]
        /\ payroll' = [payroll EXCEPT ![p] = saved]
    <2>1. entries = [entries EXCEPT ![p] = entries[p] + 0] /\ entries \in [Payrolls -> Nat]
      BY DEF PayrollInv
    <2>2. CASE Post(r, p)
      <3>1. posting /\ entries'[p] = entries[p] + 1
        BY <2>1, <2>2 DEF Post, Saving, Doing
      <3>2. QED  BY <2>2, <3>1 DEF Post, SavePayroll, Saving, Doing, HoldsPayroll, PayrollOperations
    <2>3. CASE CancelPayroll(r, p)
      <3>1. ~posting
        BY <2>3 DEF CancelPayroll, Saving, Doing
      <3>2. QED  BY <2>1, <2>3, <3>1 DEF CancelPayroll, SavePayroll, Saving, Doing, HoldsPayroll,
                                        PayrollOperations
    <2>4. QED  BY <2>2, <2>3
  <1>2. /\ PayrollCopy(r, p) /\ entries[p] \in Nat
        /\ SalariesRow(payroll[p], p) /\ SalariesRow(Loaded(r), p)
    BY <1>1 DEF PayrollInv, PayrollCopy, SalariesRow
  <1>3. /\ SalariesRow(copy, p) /\ copy.status = IF posting THEN "posted" ELSE "cancelled"
        /\ copy.entry = IF posting THEN entries[p] + 1 ELSE Copy(r).entry
    <2>1. /\ Copy(r) \in PayrollRow /\ Copy(r).period = payroll[p].period /\ entries[p] + 1 \in Nat
      BY <1>2 DEF PayrollCopy, SalariesRow
    <2>2. CASE posting
      <3>1. copy = [Copy(r) EXCEPT !.status = "posted", !.entry = entries[p] + 1]
        BY <2>2
      <3> HIDE DEF copy
      <3>2. QED  BY <2>1, <2>2, <3>1 DEF PayrollRow, SalariesRow
    <2>3. CASE ~posting
      <3>1. copy = [Copy(r) EXCEPT !.status = "cancelled"]
        BY <2>3
      <3> HIDE DEF copy
      <3>2. QED  BY <2>1, <2>3, <3>1 DEF PayrollRow, SalariesRow
    <2>4. QED  BY <2>2, <2>3
  <1> HIDE DEF copy
  <1>4. /\ SalariesRow(saved, p)
        /\ saved.status = IF copy.status = Loaded(r).status THEN payroll[p].status ELSE copy.status
        /\ Loaded(r) = payroll[p] => saved = copy
    BY <1>2, <1>3, PayrollColumns
  <1> HIDE DEF saved
  <1>5. saved.status # "draft"
    BY <1>1, <1>2, <1>3, <1>4 DEF PayrollCopy
  <1>6. p \notin raced =>
          IF posting THEN saved.status = "posted" /\ saved.entry = entries[p] + 1
          ELSE saved.status = "cancelled" /\ saved.entry = 0
    BY <1>1, <1>2, <1>3, <1>4 DEF PayrollCopy, PayrollInv, EntryNamed
  <1>7. QED  BY <1>1, <1>2, <1>4, <1>5, <1>6

\* What they save keeps the invariant.
LEMMA PayrollSaved ==
  ASSUME RequestInv, PayrollInv, NEW r \in Requests, NEW p \in Payrolls,
         Post(r, p) \/ CancelPayroll(r, p)
  PROVE  PayrollInv'
  <1> DEFINE posting == request[r].op = "post"
             more == IF posting THEN 1 ELSE 0
  <1>1. /\ HoldsPayroll(r, p) /\ Answer(r) /\ PayrollCopy(r, p)
        /\ entries' = [entries EXCEPT ![p] = entries[p] + more]
    BY PayrollRowSaved
  <1>2. PICK saved :
          /\ SalariesRow(saved, p) /\ saved.status # "draft"
          /\ payroll' = [payroll EXCEPT ![p] = saved]
          /\ p \notin raced =>
               IF posting THEN saved.status = "posted" /\ saved.entry = entries[p] + 1
               ELSE saved.status = "cancelled" /\ saved.entry = 0
    BY PayrollRowSaved
  <1>3. entries[p] \in Nat /\ more \in {0, 1} /\ saved \in PayrollRow
    BY <1>2 DEF PayrollInv, SalariesRow
  <1>4. /\ request'[r] = Idle
        /\ \A s \in Requests \ {r} : request'[s] = request[s]
        /\ raced \subseteq raced'
        /\ p \notin raced' => \A s \in Requests \ {r} : request[s].doc # p
    BY <1>1, AfterAnswer DEF HoldsPayroll
  <1>5. /\ payroll' \in [Payrolls -> PayrollRow \cup {Absent}]
        /\ payroll'[p] = saved /\ saved # Absent
        /\ \A x \in Payrolls \ {p} : payroll'[x] = payroll[x]
        /\ entries' \in [Payrolls -> Nat] /\ entries'[p] = entries[p] + more
        /\ \A x \in Payrolls \ {p} : entries'[x] = entries[x]
    BY <1>1, <1>2, <1>3, PayrollRowIsPresent DEF PayrollInv
  <1>6. ASSUME NEW s \in Requests, NEW x \in Payrolls, HoldsPayroll(s, x)'
        PROVE  PayrollCopy(s, x)'
    <2>1. s # r
      BY <1>4, <1>6, IdleRequest DEF HoldsPayroll, PayrollOperations
    <2>2. HoldsPayroll(s, x) /\ PayrollCopy(s, x) /\ request'[s] = request[s]
      BY <1>4, <1>6, <2>1 DEF HoldsPayroll, PayrollInv
    <2>3. CASE x # p
      BY <1>4, <1>5, <2>2, <2>3 DEF PayrollCopy, SalariesRow, Copy, Loaded
    <2>4. CASE x = p
      <3>1. x \in raced'
        BY <1>4, <2>1, <2>2, <2>4 DEF HoldsPayroll
      <3>2. saved.period = payroll[p].period
        BY <1>2 DEF SalariesRow
      <3>3. QED  BY <1>2, <1>4, <1>5, <2>2, <2>4, <3>1, <3>2 DEF PayrollCopy, SalariesRow, Copy, Loaded
    <2>5. QED  BY <2>3, <2>4
  <1>7. \A x \in Periods : PayrollsOf(x)' = PayrollsOf(x)
    BY <1>1, <1>2, <1>5 DEF PayrollsOf, PayrollCopy, SalariesRow
  <1>8. ASSUME NEW s \in Requests, NEW x \in Periods, Generating(s, x)'
        PROVE  Generating(s, x)
    <2>1. s # r
      BY <1>4, <1>8, IdleRequest DEF Generating
    <2>2. QED  BY <1>4, <1>8, <2>1 DEF Generating
  <1>9. p \notin raced' => entries[p] = 0 /\ p \notin raced
    BY <1>1, <1>4 DEF PayrollCopy, PayrollInv, PostedOnce
  <1>10. \A x \in Payrolls \ raced' : PostedOnce(x)' /\ EntryNamed(x)'
    <2>1. p \notin raced' => PostedOnce(p)' /\ EntryNamed(p)'
      BY <1>2, <1>5, <1>9 DEF PostedOnce, EntryNamed
    <2>2. QED  BY <1>4, <1>5, <2>1 DEF PayrollInv, PostedOnce, EntryNamed
  <1>11. \A x \in Payrolls : payroll'[x] = Absent => entries'[x] = 0
    BY <1>5 DEF PayrollInv
  <1>12. QED  BY <1>4, <1>5, <1>6, <1>7, <1>8, <1>10, <1>11 DEF PayrollInv

-----------------------------------------------------------------------------
(* Leaves                                                                  *)

HoldsLeave(r, l) == request[r].doc = l /\ request[r].op \in LeaveOperations

\* The copy of a leave that a request holds was not answered, and is the leave
\* itself, like what its save found, if no requests on it overlapped.
LeaveCopy(r, l) ==
  /\ leave[l] # Absent
  /\ Copy(r) \in LeaveRow
  /\ Loaded(r) \in LeaveRow \cup {NotLoaded}
  /\ Copy(r).status = "pending"
  /\ l \notin raced => Copy(r) = leave[l] /\ Loaded(r) \in {NotLoaded, leave[l]}

LeaveInv ==
  /\ leave \in [Leaves -> LeaveRow \cup {Absent}]
  /\ approved \in [Leaves -> SUBSET LeaveDates]
  /\ \A l \in Leaves \ raced : leave[l].status = "approved" => leave[l].dates \in approved[l]
  /\ \A r \in Requests, l \in Leaves : HoldsLeave(r, l) => LeaveCopy(r, l)

\* No row of a leave is the absent one.
LEMMA LeaveRowIsPresent == ASSUME NEW x \in LeaveRow PROVE x # Absent
  BY DEF LeaveRow, Absent

\* A step that leaves them and the requests on them alone keeps the invariant.
LEMMA LeavesUntouched ==
  ASSUME LeaveInv, UNCHANGED <<leave, approved>>, raced \subseteq raced',
         \A r \in Requests, l \in Leaves : HoldsLeave(r, l)' => request'[r] = request[r]
  PROVE  LeaveInv'
  <1>1. \A r \in Requests, l \in Leaves : HoldsLeave(r, l)' => LeaveCopy(r, l)'
    BY DEF LeaveInv, HoldsLeave, LeaveCopy, Copy, Loaded
  <1>2. QED  BY <1>1 DEF LeaveInv

\* A request that reads a pending leave holds it.
LEMMA LeaveRead ==
  ASSUME RequestInv, LeaveInv, UNCHANGED <<leave, approved>>,
         NEW r \in Requests, NEW l \in Leaves, NEW op \in LeaveOperations, ReadLeave(r, l, op)
  PROVE  LeaveInv'
  <1>1. /\ request'[r] = [op |-> op, doc |-> l, copy |-> leave[l], loaded |-> NotLoaded]
        /\ \A s \in Requests \ {r} : request'[s] = request[s]
        /\ raced' = raced
    BY AfterTake DEF ReadLeave
  <1>2. leave[l] # Absent /\ leave[l] \in LeaveRow /\ leave[l].status = "pending"
    <2>1. leave[l].status = "pending" /\ leave[l] \in LeaveRow \cup {Absent}
      BY DEF ReadLeave, LeaveInv
    <2>2. QED  BY <2>1 DEF Absent
  <1>3. LeaveCopy(r, l)' /\ \A x \in Leaves : HoldsLeave(r, x)' => x = l
    BY <1>1, <1>2 DEF LeaveCopy, HoldsLeave, Copy, Loaded
  <1>4. ASSUME NEW s \in Requests, NEW x \in Leaves, HoldsLeave(s, x)'
        PROVE  LeaveCopy(s, x)'
    BY <1>1, <1>3, <1>4 DEF LeaveInv, LeaveCopy, HoldsLeave, Copy, Loaded
  <1>5. QED  BY <1>1, <1>4 DEF LeaveInv

\* The first statement of a save finds the leave.
LEMMA LeaveLoaded ==
  ASSUME RequestInv, LeaveInv, UNCHANGED <<leave, approved>>,
         NEW r \in Requests, NEW l \in Leaves, HoldsLeave(r, l), Load(r, leave[l])
  PROVE  LeaveInv'
  <1>1. /\ request'[r].op = request[r].op /\ request'[r].doc = request[r].doc
        /\ Copy(r)' = Copy(r) /\ Loaded(r)' = leave[l]
        /\ \A s \in Requests \ {r} : request'[s] = request[s]
        /\ raced' = raced
    BY LoadKeeps
  <1>2. LeaveCopy(r, l) /\ leave[l] \in LeaveRow
    BY DEF LeaveInv, LeaveCopy
  <1>3. LeaveCopy(r, l)' /\ \A x \in Leaves : HoldsLeave(r, x)' => x = l
    BY <1>1, <1>2 DEF LeaveCopy, HoldsLeave
  <1>4. ASSUME NEW s \in Requests, NEW x \in Leaves, HoldsLeave(s, x)'
        PROVE  LeaveCopy(s, x)'
    BY <1>1, <1>3, <1>4 DEF LeaveInv, LeaveCopy, HoldsLeave, Copy, Loaded
  <1>5. QED  BY <1>1, <1>4 DEF LeaveInv

\* Each column of a saved leave is that of the row or of the copy.
LEMMA LeaveColumns ==
  ASSUME NEW r \in Requests, NEW l \in Leaves,
         leave[l] \in LeaveRow, Loaded(r) \in LeaveRow, NEW copy \in LeaveRow
  PROVE  /\ Saved(r, leave[l], copy) \in LeaveRow
         /\ Loaded(r) = leave[l] => Saved(r, leave[l], copy) = copy
  <1> DEFINE found == Loaded(r)
             old == leave[l]
             saved == Saved(r, old, copy)
             Columns == {"status", "dates", "deleted"}
  <1>1. DOMAIN old = Columns /\ copy = [c \in Columns |-> copy[c]]
    BY DEF LeaveRow
  <1>2. saved = [c \in Columns |-> IF copy[c] = found[c] THEN old[c] ELSE copy[c]]
    BY <1>1 DEF Saved, Updated
  <1>3. /\ saved.status = IF copy.status = found.status THEN old.status ELSE copy.status
        /\ saved.dates = IF copy.dates = found.dates THEN old.dates ELSE copy.dates
        /\ saved.deleted = IF copy.deleted = found.deleted THEN old.deleted ELSE copy.deleted
        /\ saved = [status |-> saved.status, dates |-> saved.dates, deleted |-> saved.deleted]
    BY <1>2
  <1>4. found = old => saved = copy
    BY <1>1, <1>2
  <1> HIDE DEF saved
  <1>5. saved \in LeaveRow
    BY <1>3 DEF LeaveRow
  <1>6. QED  BY <1>4, <1>5 DEF saved

\* A transaction that saves a row, with dates that its approval read if no
\* requests overlapped, keeps the invariant.
LEMMA LeaveSaved ==
  ASSUME RequestInv, LeaveInv,
         NEW r \in Requests, NEW l \in Leaves, HoldsLeave(r, l), Answer(r),
         NEW saved \in LeaveRow, leave' = [leave EXCEPT ![l] = saved],
         NEW dates \in SUBSET LeaveDates, approved' = [approved EXCEPT ![l] = dates],
         l \notin raced => (saved.status = "approved" => saved.dates \in dates)
  PROVE  /\ LeaveInv'
         /\ \A x \in Leaves \ raced' : ClosedLeave(x) => leave'[x] = leave[x]
  <1>1. /\ request'[r] = Idle
        /\ \A s \in Requests \ {r} : request'[s] = request[s]
        /\ raced \subseteq raced'
        /\ l \notin raced' => \A s \in Requests \ {r} : request[s].doc # l
    BY AfterAnswer DEF HoldsLeave
  <1>2. /\ leave' \in [Leaves -> LeaveRow \cup {Absent}]
        /\ approved' \in [Leaves -> SUBSET LeaveDates]
        /\ leave'[l] = saved /\ saved # Absent /\ approved'[l] = dates
        /\ \A x \in Leaves \ {l} : leave'[x] = leave[x] /\ approved'[x] = approved[x]
    BY LeaveRowIsPresent DEF LeaveInv
  <1>3. ASSUME NEW s \in Requests, NEW x \in Leaves, HoldsLeave(s, x)'
        PROVE  LeaveCopy(s, x)'
    <2>1. s # r
      BY <1>1, <1>3, IdleRequest DEF HoldsLeave, LeaveOperations
    <2>2. HoldsLeave(s, x) /\ LeaveCopy(s, x) /\ request'[s] = request[s]
      BY <1>1, <1>3, <2>1 DEF HoldsLeave, LeaveInv
    <2>3. x = l => x \in raced'
      BY <1>1, <2>1, <2>2 DEF HoldsLeave
    <2>4. QED  BY <1>1, <1>2, <2>2, <2>3 DEF LeaveCopy, Copy, Loaded
  <1>4. \A x \in Leaves \ raced' : leave'[x].status = "approved" => leave'[x].dates \in approved'[x]
    BY <1>1, <1>2 DEF LeaveInv
  <1>5. l \notin raced' => leave[l].status = "pending"
    BY <1>1 DEF LeaveInv, LeaveCopy
  <1>6. QED  BY <1>2, <1>3, <1>4, <1>5 DEF LeaveInv, ClosedLeave

\* So does one that saves what it made of its copy.
LEMMA LeaveEdited ==
  ASSUME RequestInv, LeaveInv,
         NEW r \in Requests, NEW l \in Leaves, HoldsLeave(r, l), Answer(r), Loaded(r) # NotLoaded,
         NEW copy \in LeaveRow, leave' = [leave EXCEPT ![l] = Saved(r, leave[l], copy)],
         NEW dates \in SUBSET LeaveDates, approved' = [approved EXCEPT ![l] = dates],
         copy.status = "approved" => copy.dates \in dates
  PROVE  /\ LeaveInv'
         /\ \A x \in Leaves \ raced' : ClosedLeave(x) => leave'[x] = leave[x]
  <1> DEFINE saved == Saved(r, leave[l], copy)
  <1>1. LeaveCopy(r, l) /\ leave[l] \in LeaveRow /\ Loaded(r) \in LeaveRow
    BY DEF LeaveInv, LeaveCopy
  <1>2. saved \in LeaveRow /\ (Loaded(r) = leave[l] => saved = copy)
    BY <1>1, LeaveColumns
  <1> HIDE DEF saved
  <1>3. l \notin raced => (saved.status = "approved" => saved.dates \in dates)
    BY <1>1, <1>2 DEF LeaveCopy
  <1>4. leave' = [leave EXCEPT ![l] = saved]
    BY DEF saved
  <1>5. QED  BY <1>2, <1>3, <1>4, LeaveSaved

\* Every operation on a leave saves what it made of what it read.
LEMMA LeaveCommitted ==
  ASSUME RequestInv, LeaveInv, NEW r \in Requests, LeaveCommit(r)
  PROVE  /\ LeaveInv'
         /\ \A x \in Leaves \ raced' : ClosedLeave(x) => leave'[x] = leave[x]
  <1>1. PICK l \in Leaves :
          \/ \E dates \in LeaveDates : EditLeave(r, l, dates)
          \/ ApproveLeave(r, l) \/ RejectLeave(r, l) \/ RemoveLeave(r, l)
    BY DEF LeaveCommit, Used
  <1>2. HoldsLeave(r, l) /\ Answer(r)
    BY <1>1 DEF EditLeave, ApproveLeave, RejectLeave, RemoveLeave, Saving, Doing, HoldsLeave,
                LeaveOperations
  <1>3. LeaveCopy(r, l) /\ leave[l] \in LeaveRow /\ Copy(r) \in LeaveRow /\ Copy(r).status = "pending"
    BY <1>2 DEF LeaveInv, LeaveCopy
  <1>4. approved = [approved EXCEPT ![l] = approved[l]] /\ approved[l] \in SUBSET LeaveDates
    BY DEF LeaveInv
  <1>5. ASSUME NEW dates \in LeaveDates, EditLeave(r, l, dates)
        PROVE  /\ LeaveInv'
               /\ \A x \in Leaves \ raced' : ClosedLeave(x) => leave'[x] = leave[x]
    <2> DEFINE copy == [Copy(r) EXCEPT !.dates = dates]
    <2>1. copy \in LeaveRow /\ copy.status = "pending"
      BY <1>3 DEF LeaveRow
    <2>2. leave' = [leave EXCEPT ![l] = Saved(r, leave[l], copy)] /\ approved' = approved /\ Loaded(r) # NotLoaded
      BY <1>5 DEF EditLeave, SaveLeave, Saving
    <2> HIDE DEF copy
    <2>3. QED  BY <1>2, <1>4, <2>1, <2>2, LeaveEdited
  <1>6. CASE ApproveLeave(r, l)
    <2> DEFINE copy == [Copy(r) EXCEPT !.status = "approved"]
    <2> DEFINE read == {Copy(r).dates}
    <2>1. copy \in LeaveRow /\ read \in SUBSET LeaveDates /\ copy.dates \in read
      BY <1>3 DEF LeaveRow
    <2>2. /\ leave' = [leave EXCEPT ![l] = Saved(r, leave[l], copy)]
          /\ approved' = [approved EXCEPT ![l] = read] /\ Loaded(r) # NotLoaded
      BY <1>6 DEF ApproveLeave, SaveLeave, Saving
    <2> HIDE DEF copy, read
    <2>3. QED  BY <1>2, <2>1, <2>2, LeaveEdited
  <1>7. CASE RejectLeave(r, l)
    <2> DEFINE copy == [Copy(r) EXCEPT !.status = "rejected"]
    <2>1. copy \in LeaveRow /\ copy.status = "rejected"
      BY <1>3 DEF LeaveRow
    <2>2. leave' = [leave EXCEPT ![l] = Saved(r, leave[l], copy)] /\ approved' = approved /\ Loaded(r) # NotLoaded
      BY <1>7 DEF RejectLeave, SaveLeave, Saving
    <2> HIDE DEF copy
    <2>3. QED  BY <1>2, <1>4, <2>1, <2>2, LeaveEdited
  <1>8. CASE RemoveLeave(r, l)
    <2> DEFINE saved == [leave[l] EXCEPT !.deleted = TRUE]
    <2>1. saved \in LeaveRow /\ saved.status = leave[l].status /\ saved.dates = leave[l].dates
      BY <1>3 DEF LeaveRow
    <2>2. leave' = [leave EXCEPT ![l] = saved] /\ approved' = approved
      BY <1>8 DEF RemoveLeave, SaveLeave
    <2> HIDE DEF saved
    <2>3. l \notin raced => (saved.status = "approved" => saved.dates \in approved[l])
      BY <2>1 DEF LeaveInv
    <2>4. QED  BY <1>2, <1>4, <2>1, <2>2, <2>3, LeaveSaved
  <1>9. QED  BY <1>1, <1>5, <1>6, <1>7, <1>8

-----------------------------------------------------------------------------
(* Attendance                                                              *)

DayOperations == {"clock in", "clock out", "record", "amend", "remove day"}

HoldsDay(r, d) == request[r].doc = d /\ request[r].op \in DayOperations

\* The minutes of a day are those between its two times.
WholeDay(x) == x.minutes > 0 => x.in # NoTime /\ x.out = x.in + x.minutes

SavesDay == {"clock in", "clock out", "amend"}

\* Who saves a day that was found holds the day itself, like what the save
\* found, if no requests on it overlapped; who clocks in found no time in.
DayCopy(r, d) ==
  /\ request[r].op \in SavesDay /\ Copy(r) # Absent =>
       /\ attendance[d] # Absent
       /\ Copy(r) \in DayRow
       /\ Loaded(r) \in DayRow \cup {NotLoaded}
       /\ request[r].op = "clock in" => Copy(r).in = NoTime
       /\ d \notin raced => Copy(r) = attendance[d] /\ Loaded(r) \in {NotLoaded, attendance[d]}
  /\ Loaded(r) # NotLoaded => Copy(r) # Absent
  /\ request[r].op = "remove day" => attendance[d] # Absent

DayInv ==
  /\ attendance \in [WorkDays -> DayRow \cup {Absent}]
  /\ \A d \in WorkDays \ raced : attendance[d] # Absent => WholeDay(attendance[d])
  /\ \A r \in Requests, d \in WorkDays : HoldsDay(r, d) => DayCopy(r, d)

\* No row of a day is the absent one.
LEMMA DayRowIsPresent == ASSUME NEW x \in DayRow PROVE x # Absent
  BY DEF DayRow, Absent

\* The minutes that are computed are those between the two times.
LEMMA DayIsWhole ==
  ASSUME NEW in \in Times \cup {NoTime}, NEW out \in Times \cup {NoTime}
  PROVE  Day(in, out) \in DayRow /\ WholeDay(Day(in, out))
  <1>1. in \in Nat /\ out \in Nat /\ NoTime = 0
    BY HumanResourcesAssumption DEF NoTime
  <1>2. Minutes(in, out) \in Nat
        /\ (Minutes(in, out) > 0 => in # NoTime /\ out = in + Minutes(in, out))
    BY <1>1 DEF Minutes
  <1>3. QED  BY <1>1, <1>2 DEF Day, DayRow, WholeDay

\* A copy stays one while its request and its day are left alone.
LEMMA DayCopyStays ==
  ASSUME NEW s \in Requests, NEW x \in WorkDays, DayCopy(s, x), request'[s] = request[s],
         attendance'[x] = attendance[x], x \notin raced' => x \notin raced
  PROVE  DayCopy(s, x)'
  <1>1. Copy(s)' = Copy(s) /\ Loaded(s)' = Loaded(s)
    BY DEF Copy, Loaded
  <1>2. SavesDay' = SavesDay /\ NotLoaded' = NotLoaded
    BY DEF SavesDay, NotLoaded
  <1>3. QED  BY <1>1, <1>2 DEF DayCopy

\* A step that leaves attendance and the requests on it alone keeps the
\* invariant.
LEMMA DaysUntouched ==
  ASSUME DayInv, UNCHANGED attendance, raced \subseteq raced',
         \A r \in Requests, d \in WorkDays : HoldsDay(r, d)' => request'[r] = request[r]
  PROVE  DayInv'
  <1>1. \A r \in Requests, d \in WorkDays : HoldsDay(r, d)' => DayCopy(r, d)'
    <2> SUFFICES ASSUME NEW r \in Requests, NEW d \in WorkDays, HoldsDay(r, d)'
                 PROVE  DayCopy(r, d)'
      OBVIOUS
    <2>1. HoldsDay(r, d) /\ request'[r] = request[r]
      BY DEF HoldsDay
    <2>2. DayCopy(r, d)
      BY <2>1 DEF DayInv
    <2>3. QED  BY <2>1, <2>2, DayCopyStays
  <1>2. QED  BY <1>1 DEF DayInv

\* A request that reads a day holds what it found.
LEMMA DayRead ==
  ASSUME RequestInv, DayInv, UNCHANGED attendance, NEW r \in Requests, NEW d \in WorkDays,
         \/ ReadToClockIn(r, d) \/ ReadToClockOut(r, d)
         \/ ReadToRecord(r, d) \/ ReadToAmend(r, d) \/ ReadToRemoveDay(r, d)
  PROVE  DayInv'
  <1>1. PICK op \in DayOperations : \E copy :
          /\ Take(r, op, d, copy)
          /\ op \in SavesDay => copy = Found(d)
          /\ op = "clock in" /\ copy # Absent => copy.in = NoTime
          /\ op = "remove day" => Found(d) # Absent
    BY DEF ReadToClockIn, ReadToClockOut, ReadToRecord, ReadToAmend, ReadToRemoveDay, DayOperations,
           SavesDay
  <1>2. PICK copy :
          /\ Take(r, op, d, copy)
          /\ op \in SavesDay => copy = Found(d)
          /\ op = "clock in" /\ copy # Absent => copy.in = NoTime
          /\ op = "remove day" => Found(d) # Absent
    BY <1>1
  <1>3. /\ request'[r] = [op |-> op, doc |-> d, copy |-> copy, loaded |-> NotLoaded]
        /\ \A s \in Requests \ {r} : request'[s] = request[s]
        /\ raced' = raced
    <2>1. Take(r, op, d, copy)
      BY <1>2
    <2>2. QED  BY <2>1, AfterTake
  <1>4. Found(d) # Absent => Found(d) = attendance[d] /\ attendance[d] \in DayRow
    BY DEF Found, DayInv
  <1>5. /\ request'[r].op = op /\ request'[r].doc = d /\ request'[r].copy = copy
        /\ request'[r].loaded = NotLoaded
    BY <1>3
  <1>6. DayCopy(r, d)' /\ \A x \in WorkDays : HoldsDay(r, x)' => x = d
    BY <1>2, <1>4, <1>5 DEF DayCopy, HoldsDay, Copy, Loaded
  <1>7. ASSUME NEW s \in Requests, NEW x \in WorkDays, HoldsDay(s, x)'
        PROVE  DayCopy(s, x)'
    <2>1. CASE s = r
      BY <1>6, <1>7, <2>1
    <2>2. CASE s # r
      <3>1. request'[s] = request[s] /\ HoldsDay(s, x)
        BY <1>3, <1>7, <2>2 DEF HoldsDay
      <3>2. QED  BY <1>3, <3>1, DayCopyStays DEF DayInv
    <2>3. QED  BY <2>1, <2>2
  <1>8. QED  BY <1>3, <1>7 DEF DayInv

\* The first statement of a save finds the day.
LEMMA DayLoaded ==
  ASSUME RequestInv, DayInv, UNCHANGED attendance, NEW r \in Requests, NEW d \in WorkDays,
         LoadDay(r, d)
  PROVE  DayInv'
  <1>1. /\ HoldsDay(r, d) /\ request[r].op \in SavesDay
        /\ Copy(r) # Absent /\ Load(r, attendance[d])
    BY DEF LoadDay, Doing, HoldsDay, DayOperations, SavesDay
  <1>2. /\ request'[r].op = request[r].op /\ request'[r].doc = request[r].doc
        /\ Copy(r)' = Copy(r) /\ Loaded(r)' = attendance[d]
        /\ \A s \in Requests \ {r} : request'[s] = request[s]
        /\ raced' = raced
    BY <1>1, LoadKeeps
  <1>3. DayCopy(r, d) /\ attendance[d] \in DayRow
    BY <1>1 DEF DayInv, DayCopy
  <1>4. DayCopy(r, d)' /\ \A x \in WorkDays : HoldsDay(r, x)' => x = d
    BY <1>1, <1>2, <1>3 DEF DayCopy, HoldsDay
  <1>5. ASSUME NEW s \in Requests, NEW x \in WorkDays, HoldsDay(s, x)'
        PROVE  DayCopy(s, x)'
    <2>1. CASE s = r
      BY <1>4, <1>5, <2>1
    <2>2. CASE s # r
      <3>1. request'[s] = request[s] /\ HoldsDay(s, x)
        BY <1>2, <1>5, <2>2 DEF HoldsDay
      <3>2. QED  BY <1>2, <3>1, DayCopyStays DEF DayInv
    <2>3. QED  BY <2>1, <2>2
  <1>6. QED  BY <1>2, <1>5 DEF DayInv

\* Each column of a saved day is that of the row or of the copy.
LEMMA DayColumns ==
  ASSUME NEW r \in Requests, NEW d \in WorkDays,
         attendance[d] \in DayRow, Loaded(r) \in DayRow, NEW copy \in DayRow
  PROVE  /\ Saved(r, attendance[d], copy) \in DayRow
         /\ Loaded(r) = attendance[d] => Saved(r, attendance[d], copy) = copy
  <1> DEFINE found == Loaded(r)
             old == attendance[d]
             saved == Saved(r, old, copy)
             Columns == {"in", "out", "minutes", "deleted"}
  <1>1. DOMAIN old = Columns /\ copy = [c \in Columns |-> copy[c]]
    BY DEF DayRow
  <1>2. saved = [c \in Columns |-> IF copy[c] = found[c] THEN old[c] ELSE copy[c]]
    BY <1>1 DEF Saved, Updated
  <1>3. /\ saved.in = IF copy.in = found.in THEN old.in ELSE copy.in
        /\ saved.out = IF copy.out = found.out THEN old.out ELSE copy.out
        /\ saved.minutes = IF copy.minutes = found.minutes THEN old.minutes ELSE copy.minutes
        /\ saved.deleted = IF copy.deleted = found.deleted THEN old.deleted ELSE copy.deleted
        /\ saved = [in |-> saved.in, out |-> saved.out, minutes |-> saved.minutes,
                    deleted |-> saved.deleted]
    BY <1>2
  <1>4. found = old => saved = copy
    BY <1>1, <1>2
  <1> HIDE DEF saved
  <1>5. saved \in DayRow
    BY <1>3 DEF DayRow
  <1>6. QED  BY <1>4, <1>5 DEF saved

\* Every operation on a day saves a row, and the times of one request with their
\* minutes if no requests on it overlapped.
LEMMA DayCommitted ==
  ASSUME RequestInv, DayInv, NEW r \in Requests, DayCommit(r)
  PROVE  DayInv'
  <1>1. PICK d \in WorkDays :
          \/ \E at \in Times : ClockInFirst(r, d, at) \/ ClockIn(r, d, at) \/ ClockOut(r, d, at)
          \/ \E in, out \in Times \cup {NoTime} : RecordDay(r, d, in, out) \/ AmendDay(r, d, in, out)
          \/ RemoveDay(r, d)
    BY DEF DayCommit, Used
  <1>2. HoldsDay(r, d) /\ DayCopy(r, d) /\ Answer(r)
    <2>1. HoldsDay(r, d) /\ Answer(r)
      BY <1>1 DEF ClockInFirst, ClockIn, ClockOut, RecordDay, AmendDay, RemoveDay, Saving, Doing,
                  HoldsDay, DayOperations
    <2>2. QED  BY <2>1 DEF DayInv
  <1> DEFINE Good == \E saved \in DayRow :
               /\ d \notin raced => WholeDay(saved)
               /\ attendance' = [attendance EXCEPT ![d] = saved]
  <1>3. Good
    <2>1. ASSUME NEW in \in Times \cup {NoTime}, NEW out \in Times \cup {NoTime},
                 attendance' = [attendance EXCEPT ![d] = Day(in, out)]
          PROVE  Good
      BY <2>1, DayIsWhole
    <2>2. ASSUME NEW copy \in DayRow, d \notin raced => WholeDay(copy),
                 request[r].op \in SavesDay, Loaded(r) # NotLoaded,
                 attendance' = [attendance EXCEPT ![d] = Saved(r, attendance[d], copy)]
          PROVE  Good
      <3> DEFINE saved == Saved(r, attendance[d], copy)
      <3>1. /\ attendance[d] \in DayRow /\ Loaded(r) \in DayRow
            /\ d \notin raced => Loaded(r) = attendance[d]
        BY <1>2, <2>2 DEF DayCopy, DayInv
      <3>2. saved \in DayRow /\ (Loaded(r) = attendance[d] => saved = copy)
        BY <3>1, DayColumns
      <3>3. attendance' = [attendance EXCEPT ![d] = saved]
        BY <2>2
      <3> HIDE DEF saved
      <3>4. QED  BY <2>2, <3>1, <3>2, <3>3
    <2>3. ASSUME NEW at \in Times, ClockInFirst(r, d, at)
          PROVE  Good
      BY <2>1, <2>3 DEF ClockInFirst, SaveDay
    <2>4. ASSUME NEW at \in Times, ClockIn(r, d, at)
          PROVE  Good
      <3> DEFINE copy == [Copy(r) EXCEPT !.in = at]
      <3>1. request[r].op = "clock in" /\ Loaded(r) # NotLoaded
        BY <2>4 DEF ClockIn, Saving, Doing
      <3>2. /\ Copy(r) \in DayRow /\ Copy(r).in = NoTime
            /\ d \notin raced => WholeDay(Copy(r))
        BY <1>2, <3>1 DEF DayCopy, DayInv, SavesDay
      <3>3. copy \in DayRow /\ copy.minutes = Copy(r).minutes /\ Copy(r).minutes \in Nat
        BY <3>2 DEF DayRow
      <3>4. attendance' = [attendance EXCEPT ![d] = Saved(r, attendance[d], copy)]
        BY <2>4 DEF ClockIn, SaveDay
      <3> HIDE DEF copy
      <3>5. d \notin raced => WholeDay(copy)
        BY <3>2, <3>3 DEF WholeDay
      <3>6. QED  BY <2>2, <3>1, <3>3, <3>4, <3>5 DEF SavesDay
    <2>5. ASSUME NEW at \in Times, ClockOut(r, d, at)
          PROVE  Good
      <3>1. request[r].op = "clock out" /\ Loaded(r) # NotLoaded
        BY <2>5 DEF ClockOut, Saving, Doing
      <3>2. Copy(r).in \in Times \cup {NoTime}
        BY <1>2, <3>1 DEF DayCopy, DayRow, SavesDay
      <3>3. Day(Copy(r).in, at) \in DayRow /\ WholeDay(Day(Copy(r).in, at))
        BY <3>2, DayIsWhole
      <3>4. QED  BY <2>2, <2>5, <3>1, <3>3 DEF ClockOut, SaveDay, SavesDay
    <2>6. ASSUME NEW in \in Times \cup {NoTime}, NEW out \in Times \cup {NoTime},
                 RecordDay(r, d, in, out)
          PROVE  Good
      BY <2>1, <2>6 DEF RecordDay, SaveDay
    <2>7. ASSUME NEW in \in Times \cup {NoTime}, NEW out \in Times \cup {NoTime},
                 AmendDay(r, d, in, out)
          PROVE  Good
      <3>1. Day(in, out) \in DayRow /\ WholeDay(Day(in, out))
        BY DayIsWhole
      <3>2. QED  BY <2>2, <2>7, <3>1 DEF AmendDay, SaveDay, Saving, Doing, SavesDay
    <2>8. CASE RemoveDay(r, d)
      <3> DEFINE saved == [attendance[d] EXCEPT !.deleted = TRUE]
      <3>1. attendance[d] \in DayRow /\ (d \notin raced => WholeDay(attendance[d]))
        BY <1>2, <2>8 DEF DayCopy, DayInv, RemoveDay, Doing
      <3>2. /\ saved \in DayRow /\ saved.minutes = attendance[d].minutes
            /\ saved.in = attendance[d].in /\ saved.out = attendance[d].out
        BY <3>1 DEF DayRow
      <3>3. attendance' = [attendance EXCEPT ![d] = saved]
        BY <2>8 DEF RemoveDay, SaveDay
      <3> HIDE DEF saved
      <3>4. QED  BY <3>1, <3>2, <3>3 DEF WholeDay
    <2>9. QED  BY <1>1, <2>3, <2>4, <2>5, <2>6, <2>7, <2>8
  <1>4. PICK saved \in DayRow :
          /\ d \notin raced => WholeDay(saved)
          /\ attendance' = [attendance EXCEPT ![d] = saved]
    BY <1>3
  <1>5. /\ attendance' \in [WorkDays -> DayRow \cup {Absent}]
        /\ attendance'[d] = saved /\ saved # Absent
        /\ \A x \in WorkDays \ {d} : attendance'[x] = attendance[x]
    BY <1>4, DayRowIsPresent DEF DayInv
  <1>6. /\ request'[r] = Idle /\ \A s \in Requests \ {r} : request'[s] = request[s]
        /\ raced \subseteq raced'
        /\ d \notin raced' => \A s \in Requests \ {r} : request[s].doc # d
    BY <1>2, AfterAnswer DEF HoldsDay
  <1>7. ASSUME NEW s \in Requests, NEW x \in WorkDays, HoldsDay(s, x)'
        PROVE  DayCopy(s, x)'
    <2>1. s # r
      BY <1>6, <1>7, IdleRequest DEF HoldsDay, DayOperations
    <2>2. HoldsDay(s, x) /\ DayCopy(s, x) /\ request'[s] = request[s]
      BY <1>6, <1>7, <2>1 DEF HoldsDay, DayInv
    <2>3. x = d => x \in raced'
      BY <1>6, <2>1, <2>2 DEF HoldsDay
    <2>4. QED  BY <1>5, <1>6, <2>2, <2>3 DEF DayCopy, Copy, Loaded
  <1>8. \A x \in WorkDays \ raced' : attendance'[x] # Absent => WholeDay(attendance'[x])
    BY <1>4, <1>5, <1>6 DEF DayInv
  <1>9. QED  BY <1>5, <1>7, <1>8 DEF DayInv

-----------------------------------------------------------------------------
(* Every step of human resources keeps the three.                          *)

\* What each load of human resources is.
LEMMA HumanResourcesLoads ==
  ASSUME NEW r \in Requests, HumanResourcesLoad(r)
  PROVE  \/ \E p \in Payrolls : HoldsPayroll(r, p) /\ Load(r, payroll[p])
         \/ \E l \in Leaves : HoldsLeave(r, l) /\ Load(r, leave[l])
         \/ \E d \in WorkDays : HoldsDay(r, d) /\ LoadDay(r, d) /\ Load(r, attendance[d])
  BY DEF HumanResourcesLoad, LoadToPost, LoadToCancelPayroll, LoadLocked, LoadLeave, LoadDay, Doing,
         HoldsPayroll, PayrollOperations, HoldsLeave, LeaveOperations, HoldsDay, DayOperations, Used

\* A step of human resources on leaves or attendance leaves payrolls alone.
LEMMA HumanResourcesKeepPayrolls ==
  ASSUME RequestInv, PayrollInv, HumanResourcesNext
  PROVE  /\ PayrollInv'
         /\ \A p \in Payrolls \ raced' : ClosedPayroll(p) => payroll'[p] = payroll[p]
  <1> DEFINE Goal == /\ PayrollInv'
                     /\ \A p \in Payrolls \ raced' : ClosedPayroll(p) => payroll'[p] = payroll[p]
             ops == PayrollOperations \cup {"generate"}
  <1>1. ASSUME UNCHANGED <<payroll, entries>>, raced \subseteq raced',
               \A s \in Requests : request'[s].op \in ops => request'[s] = request[s]
        PROVE  Goal
    <2>1. /\ \A s \in Requests, p \in Payrolls : HoldsPayroll(s, p)' => request'[s] = request[s]
          /\ \A s \in Requests, x \in Periods : Generating(s, x)' => request'[s] = request[s]
      BY <1>1 DEF HoldsPayroll, Generating
    <2>2. QED  BY <1>1, <2>1, PayrollsUntouched
  <1>2. ASSUME NEW r \in Requests, NEW d, NEW op, NEW copy, Take(r, op, d, copy),
               op \notin ops, UNCHANGED <<payroll, entries>>
        PROVE  Goal
    BY <1>1, <1>2, TakeElsewhere
  <1>3. ASSUME NEW r \in Requests, LeaveCommit(r) \/ DayCommit(r)
        PROVE  Goal
    <2>1. Answer(r) /\ UNCHANGED <<payroll, entries>>
      BY <1>3 DEF LeaveCommit, EditLeave, ApproveLeave, RejectLeave, RemoveLeave, SaveLeave,
                  DayCommit, ClockInFirst, ClockIn, ClockOut, RecordDay, AmendDay, RemoveDay, SaveDay
    <2>2. "none" \notin ops
      BY DEF PayrollOperations
    <2>3. QED  BY <1>1, <2>1, <2>2, AnswerElsewhere
  <1>4. ASSUME NEW l \in Used(Leaves), NEW dates \in LeaveDates, CreateLeave(l, dates)
        PROVE  Goal
    BY <1>1, <1>4 DEF CreateLeave, SaveLeave, requestVars
  <1>5. ASSUME NEW r \in Requests, HumanResourcesRead(r), UNCHANGED hrVars
        PROVE  Goal
    <2>1. UNCHANGED <<payroll, entries>>
      BY <1>5 DEF hrVars
    <2>2. ASSUME NEW period \in Used(Periods), ReadToGenerate(r, period)
          PROVE  Goal
      BY <2>1, <2>2, PeriodRead DEF Used
    <2>3. ASSUME NEW p \in Used(Payrolls), ReadToPost(r, p) \/ ReadToCancelPayroll(r, p)
          PROVE  Goal
      BY <2>1, <2>3, PayrollRead DEF Used, ReadToPost, ReadToCancelPayroll, PayrollOperations
    <2>4. ASSUME NEW l \in Used(Leaves), NEW op \in LeaveOperations, ReadLeave(r, l, op)
          PROVE  Goal
      <3>1. Take(r, op, l, leave[l]) /\ op \notin ops
        BY <2>4 DEF ReadLeave, LeaveOperations, PayrollOperations
      <3>2. QED  BY <1>2, <2>1, <3>1
    <2>5. ASSUME NEW d \in Used(WorkDays),
                 \/ ReadToClockIn(r, d) \/ ReadToClockOut(r, d)
                 \/ ReadToRecord(r, d) \/ ReadToAmend(r, d) \/ ReadToRemoveDay(r, d)
          PROVE  Goal
      <3>1. PICK op \in {"clock in", "clock out", "record", "amend", "remove day"} :
              \E copy : Take(r, op, d, copy)
        BY <2>5 DEF ReadToClockIn, ReadToClockOut, ReadToRecord, ReadToAmend, ReadToRemoveDay
      <3>2. op \notin ops
        BY DEF PayrollOperations
      <3>3. QED  BY <1>2, <2>1, <3>1, <3>2
    <2>6. QED  BY <1>5, <2>2, <2>3, <2>4, <2>5 DEF HumanResourcesRead
  <1>6. ASSUME NEW r \in Requests, NEW p \in Used(Payrolls),
               \/ \E period \in Used(Periods), net \in Nets : Generate(r, period, p, net)
               \/ Post(r, p) \/ CancelPayroll(r, p)
        PROVE  Goal
    <2>1. PayrollInv'
      BY <1>6, PayrollGenerated, PayrollSaved DEF Used
    <2>2. p \notin raced' => ~ClosedPayroll(p)
      <3>1. CASE payroll[p] = Absent
        BY <3>1 DEF ClosedPayroll, Absent
      <3>2. CASE Post(r, p) \/ CancelPayroll(r, p)
        <4>1. HoldsPayroll(r, p) /\ Answer(r)
          BY <3>2 DEF Post, CancelPayroll, Saving, Doing, HoldsPayroll, PayrollOperations
        <4>2. PayrollCopy(r, p) /\ raced \subseteq raced'
          BY <1>6, <4>1, AfterAnswer DEF PayrollInv, Used
        <4>3. QED  BY <4>2 DEF PayrollCopy, ClosedPayroll
      <3>3. QED  BY <1>6, <3>1, <3>2 DEF Generate
    <2>3. \A x \in Payrolls \ {p} : payroll'[x] = payroll[x]
      BY <1>6 DEF Generate, Post, CancelPayroll, SavePayroll, PayrollInv
    <2>4. QED  BY <2>1, <2>2, <2>3
  <1>7. ASSUME NEW r \in Requests, HumanResourcesLoad(r), UNCHANGED hrVars
        PROVE  Goal
    <2>1. UNCHANGED <<payroll, entries>>
      BY <1>7 DEF hrVars
    <2>2. CASE \E p \in Payrolls : HoldsPayroll(r, p) /\ Load(r, payroll[p])
      BY <2>1, <2>2, PayrollLoaded
    <2>3. CASE request[r].op \notin ops /\ \E found : Load(r, found)
      BY <1>1, <2>1, <2>3, LoadElsewhere
    <2>4. QED  BY <1>7, <2>2, <2>3, HumanResourcesLoads
               DEF HoldsLeave, LeaveOperations, HoldsDay, DayOperations, PayrollOperations
  <1>8. QED  BY <1>3, <1>4, <1>5, <1>6, <1>7 DEF HumanResourcesNext, PayrollCommit

\* A new leave is pending, and no request holds it.
LEMMA LeaveCreated ==
  ASSUME LeaveInv, NEW l \in Leaves, NEW dates \in LeaveDates, CreateLeave(l, dates)
  PROVE  /\ LeaveInv'
         /\ \A x \in Leaves \ raced' : ClosedLeave(x) => leave'[x] = leave[x]
  <1> DEFINE new == [status |-> "pending", dates |-> dates, deleted |-> FALSE]
  <1>1. /\ leave[l] = Absent /\ leave' = [leave EXCEPT ![l] = new]
        /\ UNCHANGED <<approved, request, raced>>
    BY DEF CreateLeave, SaveLeave, requestVars
  <1>2. new \in LeaveRow /\ new # Absent /\ new.status = "pending"
    BY LeaveRowIsPresent DEF LeaveRow
  <1> HIDE DEF new
  <1>3. /\ leave' \in [Leaves -> LeaveRow \cup {Absent}]
        /\ leave'[l] = new
        /\ \A x \in Leaves \ {l} : leave'[x] = leave[x]
    BY <1>1, <1>2 DEF LeaveInv
  <1>4. ASSUME NEW s \in Requests, NEW x \in Leaves, HoldsLeave(s, x)'
        PROVE  LeaveCopy(s, x)'
    <2>1. LeaveCopy(s, x) /\ request'[s] = request[s]
      BY <1>1, <1>4 DEF LeaveInv, HoldsLeave
    <2>2. x # l
      BY <1>1, <2>1 DEF LeaveCopy
    <2>3. QED  BY <1>1, <1>3, <2>1, <2>2 DEF LeaveCopy, Copy, Loaded
  <1>5. \A x \in Leaves \ raced' : leave'[x].status = "approved" => leave'[x].dates \in approved'[x]
    BY <1>1, <1>2, <1>3 DEF LeaveInv
  <1>6. ~ClosedLeave(l)
    BY <1>1 DEF ClosedLeave, Absent
  <1>7. QED  BY <1>1, <1>3, <1>4, <1>5, <1>6 DEF LeaveInv

\* A step of human resources on payrolls or attendance leaves leaves alone.
LEMMA HumanResourcesKeepLeaves ==
  ASSUME RequestInv, LeaveInv, HumanResourcesNext
  PROVE  /\ LeaveInv'
         /\ \A l \in Leaves \ raced' : ClosedLeave(l) => leave'[l] = leave[l]
  <1> DEFINE Goal == /\ LeaveInv'
                     /\ \A l \in Leaves \ raced' : ClosedLeave(l) => leave'[l] = leave[l]
  <1>1. ASSUME UNCHANGED <<leave, approved>>, raced \subseteq raced',
               \A s \in Requests : request'[s].op \in LeaveOperations => request'[s] = request[s]
        PROVE  Goal
    <2>1. \A s \in Requests, l \in Leaves : HoldsLeave(s, l)' => request'[s] = request[s]
      BY <1>1 DEF HoldsLeave
    <2>2. QED  BY <1>1, <2>1, LeavesUntouched
  <1>2. ASSUME NEW r \in Requests, NEW d, NEW op, NEW copy, Take(r, op, d, copy),
               op \notin LeaveOperations, UNCHANGED <<leave, approved>>
        PROVE  Goal
    BY <1>1, <1>2, TakeElsewhere
  <1>3. ASSUME NEW r \in Requests, PayrollCommit(r) \/ DayCommit(r)
        PROVE  Goal
    <2>1. Answer(r) /\ UNCHANGED <<leave, approved>>
      BY <1>3 DEF PayrollCommit, Generate, Post, CancelPayroll, SavePayroll,
                  DayCommit, ClockInFirst, ClockIn, ClockOut, RecordDay, AmendDay, RemoveDay, SaveDay
    <2>2. "none" \notin LeaveOperations
      BY DEF LeaveOperations
    <2>3. QED  BY <1>1, <2>1, <2>2, AnswerElsewhere
  <1>4. ASSUME NEW l \in Used(Leaves), NEW dates \in LeaveDates, CreateLeave(l, dates)
        PROVE  Goal
    BY <1>4, LeaveCreated DEF Used
  <1>5. ASSUME NEW r \in Requests, HumanResourcesRead(r), UNCHANGED hrVars
        PROVE  Goal
    <2>1. UNCHANGED <<leave, approved>>
      BY <1>5 DEF hrVars
    <2>2. ASSUME NEW l \in Used(Leaves), NEW op \in LeaveOperations, ReadLeave(r, l, op)
          PROVE  Goal
      BY <2>1, <2>2, LeaveRead DEF Used
    <2>3. ASSUME \/ \E period \in Used(Periods) : ReadToGenerate(r, period)
                 \/ \E p \in Used(Payrolls) : ReadToPost(r, p) \/ ReadToCancelPayroll(r, p)
          PROVE  Goal
      <3>1. PICK op \in {"generate", "post", "cancel payroll"} : \E d, copy : Take(r, op, d, copy)
        BY <2>3 DEF ReadToGenerate, ReadToPost, ReadToCancelPayroll
      <3>2. op \notin LeaveOperations
        BY DEF LeaveOperations
      <3>3. QED  BY <1>2, <2>1, <3>1, <3>2
    <2>4. ASSUME NEW d \in Used(WorkDays),
                 \/ ReadToClockIn(r, d) \/ ReadToClockOut(r, d)
                 \/ ReadToRecord(r, d) \/ ReadToAmend(r, d) \/ ReadToRemoveDay(r, d)
          PROVE  Goal
      <3>1. PICK op \in {"clock in", "clock out", "record", "amend", "remove day"} :
              \E copy : Take(r, op, d, copy)
        BY <2>4 DEF ReadToClockIn, ReadToClockOut, ReadToRecord, ReadToAmend, ReadToRemoveDay
      <3>2. op \notin LeaveOperations
        BY DEF LeaveOperations
      <3>3. QED  BY <1>2, <2>1, <3>1, <3>2
    <2>5. QED  BY <1>5, <2>2, <2>3, <2>4 DEF HumanResourcesRead
  <1>6. ASSUME NEW r \in Requests, LeaveCommit(r)
        PROVE  Goal
    BY <1>6, LeaveCommitted
  <1>7. ASSUME NEW r \in Requests, HumanResourcesLoad(r), UNCHANGED hrVars
        PROVE  Goal
    <2>1. UNCHANGED <<leave, approved>>
      BY <1>7 DEF hrVars
    <2>2. CASE \E l \in Leaves : HoldsLeave(r, l) /\ Load(r, leave[l])
      BY <2>1, <2>2, LeaveLoaded
    <2>3. CASE request[r].op \notin LeaveOperations /\ \E found : Load(r, found)
      BY <1>1, <2>1, <2>3, LoadElsewhere
    <2>4. QED  BY <1>7, <2>2, <2>3, HumanResourcesLoads
               DEF HoldsPayroll, PayrollOperations, HoldsDay, DayOperations, LeaveOperations
  <1>8. QED  BY <1>3, <1>4, <1>5, <1>6, <1>7 DEF HumanResourcesNext

\* A step of human resources on payrolls or leaves leaves attendance alone.
LEMMA HumanResourcesKeepDays ==
  ASSUME RequestInv, DayInv, HumanResourcesNext
  PROVE  DayInv'
  <1>1. ASSUME UNCHANGED attendance, raced \subseteq raced',
               \A s \in Requests : request'[s].op \in DayOperations => request'[s] = request[s]
        PROVE  DayInv'
    <2>1. \A s \in Requests, d \in WorkDays : HoldsDay(s, d)' => request'[s] = request[s]
      BY <1>1 DEF HoldsDay
    <2>2. QED  BY <1>1, <2>1, DaysUntouched
  <1>2. ASSUME NEW r \in Requests, NEW d, NEW op, NEW copy, Take(r, op, d, copy),
               op \notin DayOperations, UNCHANGED attendance
        PROVE  DayInv'
    BY <1>1, <1>2, TakeElsewhere
  <1>3. ASSUME NEW r \in Requests, PayrollCommit(r) \/ LeaveCommit(r)
        PROVE  DayInv'
    <2>1. Answer(r) /\ UNCHANGED attendance
      BY <1>3 DEF PayrollCommit, Generate, Post, CancelPayroll, SavePayroll,
                  LeaveCommit, EditLeave, ApproveLeave, RejectLeave, RemoveLeave, SaveLeave
    <2>2. "none" \notin DayOperations
      BY DEF DayOperations
    <2>3. QED  BY <1>1, <2>1, <2>2, AnswerElsewhere
  <1>4. ASSUME NEW l \in Used(Leaves), NEW dates \in LeaveDates, CreateLeave(l, dates)
        PROVE  DayInv'
    BY <1>1, <1>4 DEF CreateLeave, SaveLeave, requestVars
  <1>5. ASSUME NEW r \in Requests, HumanResourcesRead(r), UNCHANGED hrVars
        PROVE  DayInv'
    <2>1. UNCHANGED attendance
      BY <1>5 DEF hrVars
    <2>2. ASSUME \/ \E period \in Used(Periods) : ReadToGenerate(r, period)
                 \/ \E p \in Used(Payrolls) : ReadToPost(r, p) \/ ReadToCancelPayroll(r, p)
          PROVE  DayInv'
      <3>1. PICK op \in {"generate", "post", "cancel payroll"} : \E d, copy : Take(r, op, d, copy)
        BY <2>2 DEF ReadToGenerate, ReadToPost, ReadToCancelPayroll
      <3>2. op \notin DayOperations
        BY DEF DayOperations
      <3>3. QED  BY <1>2, <2>1, <3>1, <3>2
    <2>3. ASSUME NEW l \in Used(Leaves), NEW op \in LeaveOperations, ReadLeave(r, l, op)
          PROVE  DayInv'
      <3>1. Take(r, op, l, leave[l]) /\ op \notin DayOperations
        BY <2>3 DEF ReadLeave, LeaveOperations, DayOperations
      <3>2. QED  BY <1>2, <2>1, <3>1
    <2>4. ASSUME NEW d \in Used(WorkDays),
                 \/ ReadToClockIn(r, d) \/ ReadToClockOut(r, d)
                 \/ ReadToRecord(r, d) \/ ReadToAmend(r, d) \/ ReadToRemoveDay(r, d)
          PROVE  DayInv'
      BY <2>1, <2>4, DayRead DEF Used
    <2>5. QED  BY <1>5, <2>2, <2>3, <2>4 DEF HumanResourcesRead
  <1>6. ASSUME NEW r \in Requests, DayCommit(r)
        PROVE  DayInv'
    BY <1>6, DayCommitted
  <1>7. ASSUME NEW r \in Requests, HumanResourcesLoad(r), UNCHANGED hrVars
        PROVE  DayInv'
    <2>1. UNCHANGED attendance
      BY <1>7 DEF hrVars
    <2>2. CASE \E d \in WorkDays : LoadDay(r, d)
      BY <2>1, <2>2, DayLoaded
    <2>3. CASE request[r].op \notin DayOperations /\ \E found : Load(r, found)
      BY <1>1, <2>1, <2>3, LoadElsewhere
    <2>4. QED  BY <1>7, <2>2, <2>3, HumanResourcesLoads
               DEF HoldsPayroll, PayrollOperations, HoldsLeave, LeaveOperations, DayOperations
  <1>8. QED  BY <1>3, <1>4, <1>5, <1>6, <1>7 DEF HumanResourcesNext

-----------------------------------------------------------------------------
(* Payrolls and entries are no more than the requests that overlapped.     *)

Posting(p) == {r \in Requests : request[r].doc = p /\ request[r].op = "post"}
Generators(period) == {r \in Requests : Generating(r, period)}

\* A draft has no entries; each other entry, and each other payroll of a month,
\* is of a request that was under way at the first one.
OverlapInv ==
  /\ \A p \in Payrolls : payroll[p] # Absent =>
       IF payroll[p].status = "draft" THEN entries[p] = 0
       ELSE entries[p] + Cardinality(Posting(p)) <= Cardinality(Requests)
  /\ \A period \in Periods :
       \/ PayrollsOf(period) = {}
       \/ Cardinality(PayrollsOf(period)) + Cardinality(Generators(period)) <= Cardinality(Requests)

\* Requests that post or generate are finitely many, and so are payrolls.
LEMMA OverlapIsFinite ==
  ASSUME NEW p, NEW period
  PROVE  /\ IsFiniteSet(Requests) /\ Cardinality(Requests) \in Nat
         /\ IsFiniteSet(Posting(p)) /\ Cardinality(Posting(p)) \in Nat
         /\ Cardinality(Posting(p)) <= Cardinality(Requests)
         /\ IsFiniteSet(Generators(period)) /\ Cardinality(Generators(period)) \in Nat
         /\ Cardinality(Generators(period)) <= Cardinality(Requests)
         /\ IsFiniteSet(PayrollsOf(period)) /\ Cardinality(PayrollsOf(period)) \in Nat
  <1>1. IsFiniteSet(Requests) /\ IsFiniteSet(Documents)
    BY DocumentsAssumption
  <1>2. Posting(p) \subseteq Requests /\ Generators(period) \subseteq Requests
    BY DEF Posting, Generators
  <1>3. PayrollsOf(period) \subseteq Documents
    BY HumanResourcesAssumption DEF PayrollsOf
  <1>4. QED  BY <1>1, <1>2, <1>3, FS_Subset, FS_CardinalityType

\* A step that changes no payroll and brings no such request keeps the
\* invariant.
LEMMA OverlapUntouched ==
  ASSUME PayrollInv, OverlapInv, UNCHANGED <<payroll, entries>>,
         \A p \in Payrolls : payroll[p].status # "draft" => Posting(p)' \subseteq Posting(p),
         \A period \in Periods : PayrollsOf(period) # {} => Generators(period)' \subseteq Generators(period)
  PROVE  OverlapInv'
  <1>1. \A period \in Periods : PayrollsOf(period)' = PayrollsOf(period)
    BY DEF PayrollsOf
  <1>2. ASSUME NEW p \in Payrolls, payroll[p].status # "draft", payroll[p] # Absent
        PROVE  entries[p] + Cardinality(Posting(p)') <= Cardinality(Requests)
    <2>1. IsFiniteSet(Posting(p)) /\ Cardinality(Posting(p)) \in Nat /\ Cardinality(Requests) \in Nat
      BY OverlapIsFinite
    <2>2. Cardinality(Posting(p)') <= Cardinality(Posting(p)) /\ Cardinality(Posting(p)') \in Nat
      BY <1>2, <2>1, FS_Subset, FS_CardinalityType
    <2>3. entries[p] \in Nat /\ entries[p] + Cardinality(Posting(p)) <= Cardinality(Requests)
      BY <1>2 DEF OverlapInv, PayrollInv
    <2>4. QED  BY <2>1, <2>2, <2>3
  <1>3. ASSUME NEW period \in Periods, PayrollsOf(period) # {}
        PROVE  Cardinality(PayrollsOf(period)) + Cardinality(Generators(period)') <= Cardinality(Requests)
    <2>1. /\ IsFiniteSet(Generators(period)) /\ Cardinality(Generators(period)) \in Nat
          /\ Cardinality(Requests) \in Nat /\ Cardinality(PayrollsOf(period)) \in Nat
      BY OverlapIsFinite
    <2>2. Cardinality(Generators(period)') <= Cardinality(Generators(period)) /\ Cardinality(Generators(period)') \in Nat
      BY <1>3, <2>1, FS_Subset, FS_CardinalityType
    <2>3. Cardinality(PayrollsOf(period)) + Cardinality(Generators(period)) <= Cardinality(Requests)
      BY <1>3 DEF OverlapInv
    <2>4. QED  BY <2>1, <2>2, <2>3
  <1>4. QED  BY <1>1, <1>2, <1>3 DEF OverlapInv

\* A posting leaves draft, and ends its request; a cancellation leaves draft.
LEMMA OverlapPosted ==
  ASSUME RequestInv, PayrollInv, OverlapInv, NEW r \in Requests, NEW p \in Payrolls,
         Post(r, p) \/ CancelPayroll(r, p)
  PROVE  OverlapInv'
  <1> DEFINE more == IF request[r].op = "post" THEN 1 ELSE 0
  <1>1. /\ HoldsPayroll(r, p) /\ Answer(r) /\ PayrollCopy(r, p)
        /\ entries' = [entries EXCEPT ![p] = entries[p] + more]
    BY PayrollRowSaved
  <1>2. PICK saved :
          /\ SalariesRow(saved, p) /\ saved.status # "draft"
          /\ payroll' = [payroll EXCEPT ![p] = saved]
    BY PayrollRowSaved
  <1>3. /\ request'[r].op = "none"
        /\ \A s \in Requests \ {r} : request'[s] = request[s]
    BY <1>1, AfterAnswer, IdleRequest
  <1>4. /\ saved # Absent /\ payroll'[p] = saved /\ payroll[p] # Absent
        /\ saved.period = payroll[p].period
        /\ entries[p] \in Nat /\ entries'[p] = entries[p] + more
        /\ \A x \in Payrolls \ {p} : payroll'[x] = payroll[x] /\ entries'[x] = entries[x]
    BY <1>1, <1>2, PayrollRowIsPresent DEF PayrollInv, PayrollCopy, SalariesRow
  <1>5. \A period \in Periods : PayrollsOf(period)' = PayrollsOf(period)
    BY <1>4 DEF PayrollsOf
  <1>6. \A x \in Payrolls : Posting(x)' \subseteq Posting(x)
    BY <1>3 DEF Posting
  <1>7. \A period \in Periods : Generators(period)' \subseteq Generators(period)
    BY <1>3 DEF Generators, Generating
  <1>8. Cardinality(Posting(p)') + more <= Cardinality(Posting(p)) /\ Cardinality(Posting(p)') \in Nat
    <2>1. IsFiniteSet(Posting(p)) /\ IsFiniteSet(Posting(p)') /\ Cardinality(Posting(p)) \in Nat
      BY <1>6, OverlapIsFinite, FS_Subset
    <2>2. Cardinality(Posting(p)') <= Cardinality(Posting(p)) /\ Cardinality(Posting(p)') \in Nat
      BY <1>6, <2>1, FS_Subset, FS_CardinalityType
    <2>3. CASE request[r].op = "post"
      <3>1. r \in Posting(p) /\ Posting(p)' \subseteq Posting(p) \ {r}
        BY <1>1, <1>3, <2>3 DEF Posting, HoldsPayroll
      <3>2. IsFiniteSet(Posting(p) \ {r}) /\ Cardinality(Posting(p) \ {r}) = Cardinality(Posting(p)) - 1
        BY <2>1, <3>1, FS_RemoveElement
      <3>3. Cardinality(Posting(p)') <= Cardinality(Posting(p) \ {r})
        BY <3>1, <3>2, FS_Subset
      <3>4. QED  BY <2>1, <2>2, <2>3, <3>2, <3>3
    <2>4. CASE request[r].op # "post"
      BY <2>1, <2>2, <2>4
    <2>5. QED  BY <2>3, <2>4
  <1>9. entries'[p] + Cardinality(Posting(p)') <= Cardinality(Requests)
    <2>1. Cardinality(Posting(p)) \in Nat /\ Cardinality(Requests) \in Nat /\ more \in {0, 1}
          /\ Cardinality(Posting(p)) <= Cardinality(Requests)
      BY OverlapIsFinite
    <2>2. entries[p] + Cardinality(Posting(p)) <= Cardinality(Requests)
      <3>1. CASE payroll[p].status = "draft"
        BY <1>4, <2>1, <3>1 DEF OverlapInv
      <3>2. CASE payroll[p].status # "draft"
        BY <1>4, <3>2 DEF OverlapInv
      <3>3. QED  BY <3>1, <3>2
    <2>3. QED  BY <1>4, <1>8, <2>1, <2>2
  <1>10. ASSUME NEW x \in Payrolls \ {p}, payroll[x] # Absent, payroll[x].status # "draft"
         PROVE  entries[x] + Cardinality(Posting(x)') <= Cardinality(Requests)
    <2>1. IsFiniteSet(Posting(x)) /\ Cardinality(Posting(x)) \in Nat /\ Cardinality(Requests) \in Nat
      BY OverlapIsFinite
    <2>2. Cardinality(Posting(x)') <= Cardinality(Posting(x)) /\ Cardinality(Posting(x)') \in Nat
      BY <1>6, <2>1, FS_Subset, FS_CardinalityType
    <2>3. entries[x] \in Nat /\ entries[x] + Cardinality(Posting(x)) <= Cardinality(Requests)
      BY <1>10 DEF OverlapInv, PayrollInv
    <2>4. QED  BY <2>1, <2>2, <2>3
  <1>11. ASSUME NEW period \in Periods, PayrollsOf(period) # {}
         PROVE  Cardinality(PayrollsOf(period)) + Cardinality(Generators(period)') <= Cardinality(Requests)
    <2>1. /\ IsFiniteSet(Generators(period)) /\ Cardinality(Generators(period)) \in Nat
          /\ Cardinality(Requests) \in Nat /\ Cardinality(PayrollsOf(period)) \in Nat
      BY OverlapIsFinite
    <2>2. Cardinality(Generators(period)') <= Cardinality(Generators(period)) /\ Cardinality(Generators(period)') \in Nat
      BY <1>7, <2>1, FS_Subset, FS_CardinalityType
    <2>3. Cardinality(PayrollsOf(period)) + Cardinality(Generators(period)) <= Cardinality(Requests)
      BY <1>11 DEF OverlapInv
    <2>4. QED  BY <2>1, <2>2, <2>3
  <1>12. \A x \in Payrolls : payroll'[x] # Absent =>
           IF payroll'[x].status = "draft" THEN entries'[x] = 0
           ELSE entries'[x] + Cardinality(Posting(x)') <= Cardinality(Requests)
    <2>1. \A x \in Payrolls \ {p} : payroll'[x] # Absent /\ payroll'[x].status = "draft" => entries'[x] = 0
      BY <1>4 DEF OverlapInv
    <2>2. payroll'[p].status # "draft"
      BY <1>2, <1>4
    <2>3. QED  BY <1>4, <1>9, <1>10, <2>1, <2>2
  <1>13. QED  BY <1>5, <1>11, <1>12 DEF OverlapInv

\* A generation ends its request.
LEMMA OverlapGenerated ==
  ASSUME RequestInv, PayrollInv, OverlapInv, NEW r \in Requests, NEW p \in Payrolls,
         NEW period \in Periods, NEW net \in Nets, Generate(r, period, p, net)
  PROVE  OverlapInv'
  <1> DEFINE new == [status |-> "draft", period |-> period, net |-> net, entry |-> 0]
  <1>1. /\ Generating(r, period) /\ Answer(r) /\ payroll[p] = Absent
        /\ payroll' = [payroll EXCEPT ![p] = new]
        /\ UNCHANGED entries
    BY DEF Generate, Doing, SavePayroll, Generating
  <1>2. /\ request'[r].op = "none"
        /\ \A s \in Requests \ {r} : request'[s] = request[s]
    BY <1>1, AfterAnswer, IdleRequest
  <1>3. new # Absent /\ new.status = "draft" /\ new.period = period
    BY DEF Absent
  <1> HIDE DEF new
  <1>4. /\ payroll'[p] = new /\ entries[p] = 0
        /\ \A x \in Payrolls \ {p} : payroll'[x] = payroll[x]
    BY <1>1 DEF PayrollInv
  <1>5. \A x \in Periods \ {period} : PayrollsOf(x)' = PayrollsOf(x)
    BY <1>1, <1>3, <1>4 DEF PayrollsOf
  <1>6. PayrollsOf(period)' = PayrollsOf(period) \cup {p} /\ p \notin PayrollsOf(period)
    BY <1>1, <1>3, <1>4 DEF PayrollsOf
  <1>7. \A x \in Payrolls : Posting(x)' \subseteq Posting(x)
    BY <1>2 DEF Posting
  <1>8. \A x \in Periods : Generators(x)' \subseteq Generators(x)
    BY <1>2 DEF Generators, Generating
  <1>9. Cardinality(PayrollsOf(period)') + Cardinality(Generators(period)') <= Cardinality(Requests)
    <2>1. /\ IsFiniteSet(Generators(period)) /\ Cardinality(Generators(period)) \in Nat
          /\ IsFiniteSet(PayrollsOf(period)) /\ Cardinality(PayrollsOf(period)) \in Nat
          /\ Cardinality(Requests) \in Nat /\ Cardinality(Generators(period)) <= Cardinality(Requests)
      BY OverlapIsFinite
    <2>2. r \in Generators(period) /\ Generators(period)' \subseteq Generators(period) \ {r}
      BY <1>1, <1>2 DEF Generators, Generating
    <2>3. /\ IsFiniteSet(Generators(period) \ {r})
          /\ Cardinality(Generators(period) \ {r}) = Cardinality(Generators(period)) - 1
      BY <2>1, <2>2, FS_RemoveElement
    <2>4. Cardinality(Generators(period)') <= Cardinality(Generators(period)) - 1
          /\ Cardinality(Generators(period)') \in Nat
      BY <2>2, <2>3, FS_Subset, FS_CardinalityType
    <2>5. Cardinality(PayrollsOf(period)') = Cardinality(PayrollsOf(period)) + 1
      BY <1>6, <2>1, FS_AddElement
    <2>6. CASE PayrollsOf(period) = {}
      <3>1. Cardinality(PayrollsOf(period)) = 0
        BY <2>6, FS_EmptySet
      <3>2. QED  BY <2>1, <2>4, <2>5, <3>1
    <2>7. CASE PayrollsOf(period) # {}
      <3>1. Cardinality(PayrollsOf(period)) + Cardinality(Generators(period)) <= Cardinality(Requests)
        BY <2>7 DEF OverlapInv
      <3>2. QED  BY <2>1, <2>4, <2>5, <3>1
    <2>8. QED  BY <2>6, <2>7
  <1>10. ASSUME NEW x \in Payrolls \ {p}, payroll[x] # Absent, payroll[x].status # "draft"
         PROVE  entries[x] + Cardinality(Posting(x)') <= Cardinality(Requests)
    <2>1. IsFiniteSet(Posting(x)) /\ Cardinality(Posting(x)) \in Nat /\ Cardinality(Requests) \in Nat
      BY OverlapIsFinite
    <2>2. Cardinality(Posting(x)') <= Cardinality(Posting(x)) /\ Cardinality(Posting(x)') \in Nat
      BY <1>7, <2>1, FS_Subset, FS_CardinalityType
    <2>3. entries[x] \in Nat /\ entries[x] + Cardinality(Posting(x)) <= Cardinality(Requests)
      BY <1>10 DEF OverlapInv, PayrollInv
    <2>4. QED  BY <2>1, <2>2, <2>3
  <1>11. ASSUME NEW x \in Periods \ {period}, PayrollsOf(x) # {}
         PROVE  Cardinality(PayrollsOf(x)) + Cardinality(Generators(x)') <= Cardinality(Requests)
    <2>1. /\ IsFiniteSet(Generators(x)) /\ Cardinality(Generators(x)) \in Nat
          /\ Cardinality(Requests) \in Nat /\ Cardinality(PayrollsOf(x)) \in Nat
      BY OverlapIsFinite
    <2>2. Cardinality(Generators(x)') <= Cardinality(Generators(x)) /\ Cardinality(Generators(x)') \in Nat
      BY <1>8, <2>1, FS_Subset, FS_CardinalityType
    <2>3. Cardinality(PayrollsOf(x)) + Cardinality(Generators(x)) <= Cardinality(Requests)
      BY <1>11 DEF OverlapInv
    <2>4. QED  BY <2>1, <2>2, <2>3
  <1>12. \A x \in Payrolls : payroll'[x] # Absent =>
           IF payroll'[x].status = "draft" THEN entries'[x] = 0
           ELSE entries'[x] + Cardinality(Posting(x)') <= Cardinality(Requests)
    <2>1. \A x \in Payrolls \ {p} : payroll'[x] # Absent /\ payroll'[x].status = "draft" => entries[x] = 0
      BY <1>4 DEF OverlapInv
    <2>2. payroll'[p].status = "draft"
      BY <1>3, <1>4
    <2>3. QED  BY <1>1, <1>4, <1>10, <2>1, <2>2
  <1>13. QED  BY <1>5, <1>9, <1>11, <1>12 DEF OverlapInv

\* Every step of human resources keeps it.
LEMMA HumanResourcesKeepOverlap ==
  ASSUME RequestInv, PayrollInv, OverlapInv, HumanResourcesNext
  PROVE  OverlapInv'
  <1> DEFINE ops == {"post", "generate"}
  <1>1. ASSUME UNCHANGED <<payroll, entries>>,
               \A s \in Requests : request'[s].op \in ops => request'[s] = request[s]
        PROVE  OverlapInv'
    <2>1. \A p \in Payrolls : Posting(p)' \subseteq Posting(p)
      BY <1>1 DEF Posting
    <2>2. \A period \in Periods : Generators(period)' \subseteq Generators(period)
      BY <1>1 DEF Generators, Generating
    <2>3. QED  BY <1>1, <2>1, <2>2, OverlapUntouched
  <1>2. ASSUME NEW r \in Requests, NEW d, NEW op, NEW copy, Take(r, op, d, copy),
               UNCHANGED <<payroll, entries>>,
               op = "post" => payroll[d].status = "draft",
               op = "generate" => PayrollsOf(d) = {}
        PROVE  OverlapInv'
    <2>1. /\ request'[r] = [op |-> op, doc |-> d, copy |-> copy, loaded |-> NotLoaded]
          /\ \A s \in Requests \ {r} : request'[s] = request[s]
      BY <1>2, AfterTake
    <2>2. request'[r].op = op /\ request'[r].doc = d
      BY <2>1
    <2>3. \A p \in Payrolls : payroll[p].status # "draft" => Posting(p)' \subseteq Posting(p)
      BY <1>2, <2>1, <2>2 DEF Posting
    <2>4. \A period \in Periods : PayrollsOf(period) # {} => Generators(period)' \subseteq Generators(period)
      BY <1>2, <2>1, <2>2 DEF Generators, Generating
    <2>5. QED  BY <1>2, <2>3, <2>4, OverlapUntouched
  <1>3. ASSUME NEW r \in Requests, LeaveCommit(r) \/ DayCommit(r)
        PROVE  OverlapInv'
    <2>1. Answer(r) /\ UNCHANGED <<payroll, entries>>
      BY <1>3 DEF LeaveCommit, EditLeave, ApproveLeave, RejectLeave, RemoveLeave, SaveLeave,
                  DayCommit, ClockInFirst, ClockIn, ClockOut, RecordDay, AmendDay, RemoveDay, SaveDay
    <2>2. QED  BY <1>1, <2>1, AnswerElsewhere
  <1>4. ASSUME NEW l \in Used(Leaves), NEW dates \in LeaveDates, CreateLeave(l, dates)
        PROVE  OverlapInv'
    BY <1>1, <1>4 DEF CreateLeave, SaveLeave, requestVars
  <1>5. ASSUME NEW r \in Requests, HumanResourcesRead(r), UNCHANGED hrVars
        PROVE  OverlapInv'
    <2>1. UNCHANGED <<payroll, entries>>
      BY <1>5 DEF hrVars
    <2>2. ASSUME NEW period \in Used(Periods), ReadToGenerate(r, period)
          PROVE  OverlapInv'
      <3>1. Take(r, "generate", period, Absent) /\ PayrollsOf(period) = {}
        BY <2>2 DEF ReadToGenerate, HasPayroll, PayrollsOf
      <3>2. QED  BY <1>2, <2>1, <3>1
    <2>3. ASSUME NEW p \in Used(Payrolls), ReadToPost(r, p) \/ ReadToCancelPayroll(r, p)
          PROVE  OverlapInv'
      <3>1. \E op \in {"post", "cancel payroll"} :
              Take(r, op, p, payroll[p]) /\ payroll[p].status = "draft"
        BY <2>3 DEF ReadToPost, ReadToCancelPayroll
      <3>2. QED  BY <1>2, <2>1, <3>1
    <2>4. ASSUME NEW l \in Used(Leaves), NEW op \in LeaveOperations, ReadLeave(r, l, op)
          PROVE  OverlapInv'
      <3>1. Take(r, op, l, leave[l]) /\ op \notin {"post", "generate"}
        BY <2>4 DEF ReadLeave, LeaveOperations
      <3>2. QED  BY <1>2, <2>1, <3>1
    <2>5. ASSUME NEW d \in Used(WorkDays),
                 \/ ReadToClockIn(r, d) \/ ReadToClockOut(r, d)
                 \/ ReadToRecord(r, d) \/ ReadToAmend(r, d) \/ ReadToRemoveDay(r, d)
          PROVE  OverlapInv'
      <3>1. \E op \in {"clock in", "clock out", "record", "amend", "remove day"} :
              \E copy : Take(r, op, d, copy)
        BY <2>5 DEF ReadToClockIn, ReadToClockOut, ReadToRecord, ReadToAmend, ReadToRemoveDay
      <3>2. QED  BY <1>2, <2>1, <3>1
    <2>6. QED  BY <1>5, <2>2, <2>3, <2>4, <2>5 DEF HumanResourcesRead
  <1>6. ASSUME NEW r \in Requests, HumanResourcesLoad(r), UNCHANGED hrVars
        PROVE  OverlapInv'
    <2>1. UNCHANGED <<payroll, entries>> /\ \E found : Load(r, found)
      BY <1>6, HumanResourcesLoads DEF hrVars
    <2>2. /\ request'[r].op = request[r].op /\ request'[r].doc = request[r].doc
          /\ \A s \in Requests \ {r} : request'[s] = request[s]
      BY <2>1, LoadKeeps
    <2>3. \A p \in Payrolls : Posting(p)' \subseteq Posting(p)
      BY <2>2 DEF Posting
    <2>4. \A period \in Periods : Generators(period)' \subseteq Generators(period)
      BY <2>2 DEF Generators, Generating
    <2>5. QED  BY <2>1, <2>3, <2>4, OverlapUntouched
  <1>7. ASSUME NEW r \in Requests, PayrollCommit(r)
        PROVE  OverlapInv'
    BY <1>7, OverlapPosted, OverlapGenerated DEF PayrollCommit, Used
  <1>8. QED  BY <1>3, <1>4, <1>5, <1>6, <1>7 DEF HumanResourcesNext

-----------------------------------------------------------------------------
(* Leads                                                                   *)

LeadOperations == {"edit lead", "remove lead", "convert"}

HoldsLead(r, l) == request[r].doc = l /\ request[r].op \in LeadOperations

\* A request on a lead holds rows of it, which is not converted if no requests
\* on it overlapped.
LeadCopy(r, l) ==
  /\ lead[l] # Absent
  /\ Copy(r) \in LeadRow
  /\ Loaded(r) \in LeadRow \cup {NotLoaded}
  /\ l \notin raced => lead[l].status # "converted"

LeadInv ==
  /\ lead \in [Leads -> LeadRow \cup {Absent}]
  /\ \A r \in Requests, l \in Leads : HoldsLead(r, l) => LeadCopy(r, l)

\* No row of a lead is the absent one.
LEMMA LeadRowIsPresent == ASSUME NEW x \in LeadRow PROVE x # Absent
  BY DEF LeadRow, Absent

\* A step that leaves leads and the requests on them alone keeps the invariant.
LEMMA LeadsUntouched ==
  ASSUME LeadInv, UNCHANGED lead, raced \subseteq raced',
         \A r \in Requests, l \in Leads : HoldsLead(r, l)' => request'[r] = request[r]
  PROVE  LeadInv'
  <1>1. \A r \in Requests, l \in Leads : HoldsLead(r, l)' => LeadCopy(r, l)'
    BY DEF LeadInv, HoldsLead, LeadCopy, Copy, Loaded
  <1>2. QED  BY <1>1 DEF LeadInv

\* A request that reads a lead which was not converted holds it.
LEMMA LeadRead ==
  ASSUME RequestInv, LeadInv, UNCHANGED lead, NEW r \in Requests, NEW l \in Leads,
         NEW op \in LeadOperations, lead[l].status \in {"open", "disqualified"},
         Take(r, op, l, lead[l])
  PROVE  LeadInv'
  <1>1. /\ request'[r] = [op |-> op, doc |-> l, copy |-> lead[l], loaded |-> NotLoaded]
        /\ \A s \in Requests \ {r} : request'[s] = request[s]
        /\ raced' = raced
    BY AfterTake
  <1>2. lead[l] # Absent /\ lead[l] \in LeadRow
    BY DEF LeadInv, Absent
  <1>3. LeadCopy(r, l)' /\ \A x \in Leads : HoldsLead(r, x)' => x = l
    BY <1>1, <1>2 DEF LeadCopy, HoldsLead, Copy, Loaded
  <1>4. ASSUME NEW s \in Requests, NEW x \in Leads, HoldsLead(s, x)'
        PROVE  LeadCopy(s, x)'
    BY <1>1, <1>3, <1>4 DEF LeadInv, LeadCopy, HoldsLead, Copy, Loaded
  <1>5. QED  BY <1>4 DEF LeadInv

\* The first statement of a save finds the lead.
LEMMA LeadLoaded ==
  ASSUME RequestInv, LeadInv, UNCHANGED lead, NEW r \in Requests, NEW l \in Leads,
         HoldsLead(r, l), Load(r, lead[l])
  PROVE  LeadInv'
  <1>1. /\ request'[r].op = request[r].op /\ request'[r].doc = request[r].doc
        /\ Copy(r)' = Copy(r) /\ Loaded(r)' = lead[l]
        /\ \A s \in Requests \ {r} : request'[s] = request[s]
        /\ raced' = raced
    BY LoadKeeps
  <1>2. LeadCopy(r, l) /\ lead[l] \in LeadRow
    BY DEF LeadInv, LeadCopy
  <1>3. LeadCopy(r, l)' /\ \A x \in Leads : HoldsLead(r, x)' => x = l
    BY <1>1, <1>2 DEF LeadCopy, HoldsLead
  <1>4. ASSUME NEW s \in Requests, NEW x \in Leads, HoldsLead(s, x)'
        PROVE  LeadCopy(s, x)'
    BY <1>1, <1>3, <1>4 DEF LeadInv, LeadCopy, HoldsLead, Copy, Loaded
  <1>5. QED  BY <1>1, <1>4 DEF LeadInv

\* Each column of a saved lead is that of the row or of the copy.
LEMMA LeadColumns ==
  ASSUME NEW r \in Requests, NEW l \in Leads, lead[l] \in LeadRow, NEW copy \in LeadRow
  PROVE  Saved(r, lead[l], copy) \in LeadRow
  <1> DEFINE found == Loaded(r)
             old == lead[l]
             saved == Saved(r, old, copy)
             Columns == {"status", "customer", "deleted"}
  <1>1. DOMAIN old = Columns /\ copy = [c \in Columns |-> copy[c]]
    BY DEF LeadRow
  <1>2. saved = [c \in Columns |-> IF copy[c] = found[c] THEN old[c] ELSE copy[c]]
    BY <1>1 DEF Saved, Updated
  <1>3. /\ saved.status \in {old.status, copy.status}
        /\ saved.customer \in {old.customer, copy.customer}
        /\ saved.deleted \in {old.deleted, copy.deleted}
        /\ saved = [status |-> saved.status, customer |-> saved.customer, deleted |-> saved.deleted]
    BY <1>2
  <1> HIDE DEF saved
  <1>4. saved \in LeadRow
    BY <1>3 DEF LeadRow
  <1>5. QED  BY <1>4 DEF saved

\* A transaction that saves a lead keeps the invariant.
LEMMA LeadSaved ==
  ASSUME RequestInv, LeadInv, NEW r \in Requests, NEW l \in Leads, HoldsLead(r, l), Answer(r),
         NEW saved \in LeadRow, lead' = [lead EXCEPT ![l] = saved]
  PROVE  /\ LeadInv'
         /\ \A x \in Leads \ raced' : lead[x].status = "converted" => lead'[x] = lead[x]
  <1>1. /\ request'[r] = Idle
        /\ \A s \in Requests \ {r} : request'[s] = request[s]
        /\ raced \subseteq raced'
        /\ l \notin raced' => \A s \in Requests \ {r} : request[s].doc # l
    BY AfterAnswer DEF HoldsLead
  <1>2. /\ lead' \in [Leads -> LeadRow \cup {Absent}]
        /\ lead'[l] = saved /\ saved # Absent
        /\ \A x \in Leads \ {l} : lead'[x] = lead[x]
    BY LeadRowIsPresent DEF LeadInv
  <1>3. ASSUME NEW s \in Requests, NEW x \in Leads, HoldsLead(s, x)'
        PROVE  LeadCopy(s, x)'
    <2>1. s # r
      BY <1>1, <1>3, IdleRequest DEF HoldsLead, LeadOperations
    <2>2. HoldsLead(s, x) /\ LeadCopy(s, x) /\ request'[s] = request[s]
      BY <1>1, <1>3, <2>1 DEF HoldsLead, LeadInv
    <2>3. x = l => x \in raced'
      BY <1>1, <2>1, <2>2 DEF HoldsLead
    <2>4. QED  BY <1>1, <1>2, <2>2, <2>3 DEF LeadCopy, Copy, Loaded
  <1>4. l \notin raced' => lead[l].status # "converted"
    BY <1>1 DEF LeadInv, LeadCopy
  <1>5. QED  BY <1>2, <1>3, <1>4 DEF LeadInv

\* A step on opportunities leaves leads alone.
LEMMA CrmKeepsLeads ==
  ASSUME RequestInv, LeadInv, CrmNext
  PROVE  /\ LeadInv'
         /\ \A l \in Leads \ raced' : lead[l].status = "converted" => lead'[l] = lead[l]
  <1> DEFINE Goal ==
        /\ LeadInv'
        /\ \A l \in Leads \ raced' : lead[l].status = "converted" => lead'[l] = lead[l]
  <1>1. ASSUME UNCHANGED lead, raced \subseteq raced',
               \A s \in Requests : request'[s].op \in LeadOperations => request'[s] = request[s]
        PROVE  Goal
    <2>1. \A s \in Requests, l \in Leads : HoldsLead(s, l)' => request'[s] = request[s]
      BY <1>1 DEF HoldsLead
    <2>2. QED  BY <1>1, <2>1, LeadsUntouched
  <1>2. ASSUME NEW l \in Used(Leads), NEW status \in {"open", "disqualified", "converted"},
               CreateLead(l, status)
        PROVE  Goal
    <2> DEFINE new == [status |-> status, customer |-> None, deleted |-> FALSE]
    <2>1. lead[l] = Absent /\ lead' = [lead EXCEPT ![l] = new] /\ UNCHANGED <<request, raced>>
      BY <1>2 DEF CreateLead, SaveLead, requestVars
    <2>2. new \in LeadRow
      BY DEF LeadRow
    <2> HIDE DEF new
    <2>3. /\ lead' \in [Leads -> LeadRow \cup {Absent}]
          /\ \A x \in Leads \ {l} : lead'[x] = lead[x]
      BY <2>1, <2>2 DEF LeadInv
    <2>4. ASSUME NEW s \in Requests, NEW x \in Leads, HoldsLead(s, x)'
          PROVE  LeadCopy(s, x)'
      <3>1. LeadCopy(s, x) /\ request'[s] = request[s]
        BY <2>1, <2>4 DEF LeadInv, HoldsLead
      <3>2. x # l
        BY <2>1, <3>1 DEF LeadCopy
      <3>3. QED  BY <2>1, <2>3, <3>1, <3>2 DEF LeadCopy, Copy, Loaded
    <2>5. lead[l].status # "converted"
      BY <2>1 DEF Absent
    <2>6. QED  BY <2>3, <2>4, <2>5 DEF LeadInv
  <1>3. ASSUME NEW r \in Requests, CrmRead(r), UNCHANGED lead
        PROVE  Goal
    <2>1. ASSUME NEW l \in Used(Leads),
                 ReadToEditLead(r, l) \/ ReadToRemoveLead(r, l) \/ ReadToConvert(r, l)
          PROVE  Goal
      BY <1>3, <2>1, LeadRead
         DEF Used, ReadToEditLead, ReadToRemoveLead, ReadToConvert, ReadLead, LeadOperations
    <2>2. ASSUME NEW o \in Used(Opportunities),
                 \/ ReadToEdit(r, o) \/ ReadToWin(r, o)
                 \/ ReadToLose(r, o) \/ ReadToRemoveOpportunity(r, o)
          PROVE  Goal
      <3>1. PICK op \in {"edit", "check win", "lose", "remove"} : Take(r, op, o, opportunity[o])
        BY <2>2 DEF ReadToEdit, ReadToWin, ReadToLose, ReadToRemoveOpportunity, ReadOpportunity
      <3>2. op \notin LeadOperations
        BY DEF LeadOperations
      <3>3. QED  BY <1>1, <1>3, <3>1, <3>2, TakeElsewhere
    <2>3. ASSUME NEW o \in Used(Opportunities), ReadToWinAgain(r, o)
          PROVE  Goal
      <3>1. PICK copy : Reread(r, "win", copy)
        BY <2>3 DEF ReadToWinAgain
      <3>2. request' = [s \in Requests |->
              IF s = r THEN [op |-> "win", doc |-> request[r].doc, copy |-> copy, loaded |-> Loaded(r)]
              ELSE request[s]]
        BY <3>1, AfterReread
      <3>3. request'[r].op = "win" /\ raced' = raced
        BY <3>1, <3>2 DEF Reread
      <3>4. \A s \in Requests : request'[s].op \in LeadOperations => request'[s] = request[s]
        BY <3>2, <3>3 DEF LeadOperations
      <3>5. QED  BY <1>1, <1>3, <3>3, <3>4
    <2>4. QED  BY <1>3, <2>1, <2>2, <2>3 DEF CrmRead
  <1>4. ASSUME NEW r \in Requests, NEW l \in Used(Leads),
               \/ \E status \in {"open", "disqualified", "converted"} : EditLead(r, l, status)
               \/ RemoveLead(r, l)
               \/ \E code \in Codes : Convert(r, l, code)
        PROVE  Goal
    <2>1. HoldsLead(r, l) /\ Answer(r) /\ l \in Leads
      BY <1>4 DEF EditLead, RemoveLead, Convert, Saving, Doing, HoldsLead, LeadOperations, Used
    <2>2. Copy(r) \in LeadRow /\ lead[l] \in LeadRow
      BY <2>1 DEF LeadInv, LeadCopy
    <2>3. PICK saved : saved \in LeadRow /\ lead' = [lead EXCEPT ![l] = saved]
      <3>1. ASSUME NEW status \in {"open", "disqualified", "converted"}
            PROVE  Saved(r, lead[l], [Copy(r) EXCEPT !.status = status]) \in LeadRow
        <4>1. [Copy(r) EXCEPT !.status = status] \in LeadRow
          BY <2>2 DEF LeadRow
        <4>2. QED  BY <2>1, <2>2, <4>1, LeadColumns
      <3>2. ASSUME NEW code \in Codes
            PROVE  Saved(r, lead[l], [Copy(r) EXCEPT !.status = "converted", !.customer = code])
                     \in LeadRow
        <4>1. [Copy(r) EXCEPT !.status = "converted", !.customer = code] \in LeadRow
          BY <2>2 DEF LeadRow
        <4>2. QED  BY <2>1, <2>2, <4>1, LeadColumns
      <3>3. [lead[l] EXCEPT !.deleted = TRUE] \in LeadRow
        BY <2>2 DEF LeadRow
      <3>4. QED  BY <1>4, <3>1, <3>2, <3>3 DEF EditLead, RemoveLead, Convert, SaveLead
    <2>4. QED  BY <2>1, <2>3, LeadSaved
  <1>5. ASSUME NEW r \in Requests, OpportunityCommit(r)
        PROVE  Goal
    <2>1. Answer(r) /\ UNCHANGED lead
      BY <1>5 DEF OpportunityCommit, Edit, Win, SaveWon, Lose, RemoveOpportunity, SaveOpportunity
    <2>2. "none" \notin LeadOperations
      BY DEF LeadOperations
    <2>3. QED  BY <1>1, <2>1, <2>2, AnswerElsewhere
  <1>6. CASE UNCHANGED <<lead, request, raced>>
    BY <1>1, <1>6
  <1>7. ASSUME NEW r \in Requests, CrmLoad(r), UNCHANGED lead
        PROVE  Goal
    <2>1. ASSUME NEW l \in Used(Leads), LoadLead(r, l)
          PROVE  Goal
      <3>1. HoldsLead(r, l) /\ Load(r, lead[l]) /\ l \in Leads
        BY <2>1 DEF LoadLead, Doing, HoldsLead, LeadOperations, Used
      <3>2. QED  BY <1>7, <3>1, LeadLoaded
    <2>2. ASSUME NEW o \in Used(Opportunities), LoadOpportunity(r, o)
          PROVE  Goal
      <3>1. Load(r, opportunity[o]) /\ request[r].op \notin LeadOperations
        BY <2>2 DEF LoadOpportunity, Doing, LeadOperations
      <3>2. QED  BY <1>1, <1>7, <3>1, LoadElsewhere
    <2>3. QED  BY <1>7, <2>1, <2>2 DEF CrmLoad
  <1>8. QED  BY <1>2, <1>3, <1>4, <1>5, <1>6, <1>7
             DEF CrmNext, LeadCommit, CreateOpportunity, SaveOpportunity, crmVars, requestVars

-----------------------------------------------------------------------------
(* Opportunities                                                           *)

OpportunityOperations == {"edit", "check win", "win", "lose", "remove"}

HoldsOpportunity(r, o) == request[r].doc = o /\ request[r].op \in OpportunityOperations

\* An opportunity that a request holds is open if no requests on it overlapped,
\* except that a lost one can be removed.
OpportunityCopy(r, o) ==
  /\ opportunity[o] # NoOpportunity
  /\ Loaded(r) \in OpportunityRow \cup {NotLoaded}
  /\ request[r].op \in {"edit", "lose"} => Copy(r) \in OpportunityRow
  /\ request[r].op = "win" => Copy(r).row \in OpportunityRow /\ Copy(r).lead \in Leads \cup {None}
  /\ o \notin raced =>
       opportunity[o].stage \in IF request[r].op = "remove" THEN {"open", "lost"} ELSE {"open"}

OpportunityInv ==
  /\ opportunity \in [Opportunities -> OpportunityRow \cup {NoOpportunity}]
  /\ \A r \in Requests, o \in Opportunities : HoldsOpportunity(r, o) => OpportunityCopy(r, o)

ClosedOpportunityKept ==
  \A o \in Opportunities \ raced' :
    /\ Won(o) => opportunity'[o] = opportunity[o]
    /\ Lost(o) => opportunity'[o] \in {opportunity[o], [opportunity[o] EXCEPT !.deleted = TRUE]}

\* No row of an opportunity is the absent one.
LEMMA OpportunityRowIsPresent == ASSUME NEW x \in OpportunityRow PROVE x # NoOpportunity
  BY DEF OpportunityRow, NoOpportunity

\* A step that leaves them and the requests on them alone keeps the invariant.
LEMMA OpportunitiesUntouched ==
  ASSUME OpportunityInv, UNCHANGED opportunity, raced \subseteq raced',
         \A r \in Requests, o \in Opportunities : HoldsOpportunity(r, o)' => request'[r] = request[r]
  PROVE  OpportunityInv' /\ ClosedOpportunityKept
  <1>1. \A r \in Requests, o \in Opportunities : HoldsOpportunity(r, o)' => OpportunityCopy(r, o)'
    BY DEF OpportunityInv, HoldsOpportunity, OpportunityCopy, Copy, Loaded
  <1>2. QED  BY <1>1 DEF OpportunityInv, ClosedOpportunityKept

\* A request that reads an opportunity and passes its check holds it.
LEMMA OpportunityRead ==
  ASSUME RequestInv, OpportunityInv, UNCHANGED opportunity,
         NEW r \in Requests, NEW o \in Opportunities, NEW op \in OpportunityOperations \ {"win"},
         opportunity[o].stage \in (IF op = "remove" THEN {"open", "lost"} ELSE {"open"}),
         Take(r, op, o, opportunity[o])
  PROVE  OpportunityInv' /\ ClosedOpportunityKept
  <1>1. /\ request'[r] = [op |-> op, doc |-> o, copy |-> opportunity[o], loaded |-> NotLoaded]
        /\ \A s \in Requests \ {r} : request'[s] = request[s]
        /\ raced' = raced
    BY AfterTake
  <1>2. opportunity[o] # NoOpportunity /\ opportunity[o] \in OpportunityRow
    BY DEF OpportunityInv, NoOpportunity
  <1>3. OpportunityCopy(r, o)' /\ \A x \in Opportunities : HoldsOpportunity(r, x)' => x = o
    <2>1. request'[r].op = op /\ request'[r].doc = o /\ request'[r].copy = opportunity[o]
         /\ request'[r].loaded = NotLoaded
      BY <1>1
    <2>2. op # "win"
      OBVIOUS
    <2>3. OpportunityCopy(r, o)'
      BY <1>1, <1>2, <2>1, <2>2 DEF OpportunityCopy, Copy, Loaded
    <2>4. QED  BY <2>1, <2>3 DEF HoldsOpportunity
  <1>4. ASSUME NEW s \in Requests, NEW x \in Opportunities, HoldsOpportunity(s, x)'
        PROVE  OpportunityCopy(s, x)'
    BY <1>1, <1>3, <1>4 DEF OpportunityInv, OpportunityCopy, HoldsOpportunity, Copy, Loaded
  <1>5. QED  BY <1>4 DEF OpportunityInv, ClosedOpportunityKept

\* The transaction that wins an opportunity reads it again.
LEMMA OpportunityReread ==
  ASSUME RequestInv, OpportunityInv, UNCHANGED opportunity,
         NEW r \in Requests, NEW o \in Opportunities, ReadToWinAgain(r, o)
  PROVE  OpportunityInv' /\ ClosedOpportunityKept
  <1> DEFINE named == IF Names(opportunity[o].lead) THEN opportunity[o].lead ELSE None
             copy == [row |-> opportunity[o], lead |-> named]
  <1>1. HoldsOpportunity(r, o) /\ request[r].op = "check win" /\ Reread(r, "win", copy)
    BY DEF ReadToWinAgain, Doing, HoldsOpportunity, OpportunityOperations
  <1>2. /\ OpportunityCopy(r, o) /\ opportunity[o] \in OpportunityRow
    BY <1>1 DEF OpportunityInv, OpportunityCopy
  <1>3. named \in Leads \cup {None}
    BY <1>2 DEF OpportunityRow
  <1> HIDE DEF named
  <1>4. copy.row \in OpportunityRow /\ copy.lead \in Leads \cup {None}
    BY <1>2, <1>3
  <1> HIDE DEF copy
  <1>5. request' = [s \in Requests |->
          IF s = r THEN [op |-> "win", doc |-> request[r].doc, copy |-> copy, loaded |-> Loaded(r)]
          ELSE request[s]]
    <2>1. Reread(r, "win", copy)
      BY <1>1
    <2>2. QED  BY <2>1, AfterReread
  <1>6. /\ request'[r] = [op |-> "win", doc |-> o, copy |-> copy, loaded |-> Loaded(r)]
        /\ \A s \in Requests \ {r} : request'[s] = request[s]
        /\ raced' = raced
    BY <1>1, <1>5 DEF Reread, HoldsOpportunity
  <1>7. OpportunityCopy(r, o)' /\ \A x \in Opportunities : HoldsOpportunity(r, x)' => x = o
    <2>1. request'[r].op = "win" /\ request'[r].doc = o /\ request'[r].copy = copy
          /\ request'[r].loaded = Loaded(r)
      BY <1>6
    <2>2. opportunity' = opportunity /\ (o \notin raced => opportunity[o].stage = "open")
      BY <1>1, <1>2 DEF OpportunityCopy
    <2>3. OpportunityCopy(r, o)'
      BY <1>2, <1>4, <1>6, <2>1, <2>2 DEF OpportunityCopy, Copy, Loaded
    <2>4. QED  BY <2>1, <2>3 DEF HoldsOpportunity
  <1>8. ASSUME NEW s \in Requests, NEW x \in Opportunities, HoldsOpportunity(s, x)'
        PROVE  OpportunityCopy(s, x)'
    BY <1>6, <1>7, <1>8 DEF OpportunityInv, OpportunityCopy, HoldsOpportunity, Copy, Loaded
  <1>9. QED  BY <1>8 DEF OpportunityInv, ClosedOpportunityKept

\* The first statement of a save finds the opportunity.
LEMMA OpportunityLoaded ==
  ASSUME RequestInv, OpportunityInv, UNCHANGED opportunity,
         NEW r \in Requests, NEW o \in Opportunities,
         HoldsOpportunity(r, o), Load(r, opportunity[o])
  PROVE  OpportunityInv' /\ ClosedOpportunityKept
  <1>1. /\ request'[r].op = request[r].op /\ request'[r].doc = request[r].doc
        /\ Copy(r)' = Copy(r) /\ Loaded(r)' = opportunity[o]
        /\ \A s \in Requests \ {r} : request'[s] = request[s]
        /\ raced' = raced
    BY LoadKeeps
  <1>2. OpportunityCopy(r, o) /\ opportunity[o] \in OpportunityRow
    BY DEF OpportunityInv, OpportunityCopy
  <1>3. OpportunityCopy(r, o)' /\ \A x \in Opportunities : HoldsOpportunity(r, x)' => x = o
    BY <1>1, <1>2 DEF OpportunityCopy, HoldsOpportunity
  <1>4. ASSUME NEW s \in Requests, NEW x \in Opportunities, HoldsOpportunity(s, x)'
        PROVE  OpportunityCopy(s, x)'
    BY <1>1, <1>3, <1>4 DEF OpportunityInv, OpportunityCopy, HoldsOpportunity, Copy, Loaded
  <1>5. QED  BY <1>4 DEF OpportunityInv, ClosedOpportunityKept

\* Each column of a saved opportunity is that of the row or of the copy.
LEMMA OpportunityColumns ==
  ASSUME NEW r \in Requests, NEW o \in Opportunities,
         opportunity[o] \in OpportunityRow, NEW copy \in OpportunityRow
  PROVE  Saved(r, opportunity[o], copy) \in OpportunityRow
  <1> DEFINE found == Loaded(r)
             old == opportunity[o]
             saved == Saved(r, old, copy)
             Columns == {"stage", "lead", "customer", "deleted"}
  <1>1. DOMAIN old = Columns /\ copy = [c \in Columns |-> copy[c]]
    BY DEF OpportunityRow
  <1>2. saved = [c \in Columns |-> IF copy[c] = found[c] THEN old[c] ELSE copy[c]]
    BY <1>1 DEF Saved, Updated
  <1>3. /\ saved.stage \in {old.stage, copy.stage}
        /\ saved.lead \in {old.lead, copy.lead}
        /\ saved.customer \in {old.customer, copy.customer}
        /\ saved.deleted \in {old.deleted, copy.deleted}
        /\ saved = [stage |-> saved.stage, lead |-> saved.lead, customer |-> saved.customer,
                    deleted |-> saved.deleted]
    BY <1>2
  <1> HIDE DEF saved
  <1>4. saved \in OpportunityRow
    BY <1>3 DEF OpportunityRow
  <1>5. QED  BY <1>4 DEF saved

\* A transaction that saves an opportunity, just deleted if the operation is to
\* remove it, keeps the invariant.
LEMMA OpportunitySaved ==
  ASSUME RequestInv, OpportunityInv, NEW r \in Requests, NEW o \in Opportunities,
         HoldsOpportunity(r, o), Answer(r),
         NEW saved \in OpportunityRow, opportunity' = [opportunity EXCEPT ![o] = saved],
         request[r].op = "remove" => saved = [opportunity[o] EXCEPT !.deleted = TRUE]
  PROVE  OpportunityInv' /\ ClosedOpportunityKept
  <1>1. /\ request'[r] = Idle
        /\ \A s \in Requests \ {r} : request'[s] = request[s]
        /\ raced \subseteq raced'
        /\ o \notin raced' => \A s \in Requests \ {r} : request[s].doc # o
    BY AfterAnswer DEF HoldsOpportunity
  <1>2. /\ opportunity' \in [Opportunities -> OpportunityRow \cup {NoOpportunity}]
        /\ opportunity'[o] = saved /\ saved # NoOpportunity
        /\ \A x \in Opportunities \ {o} : opportunity'[x] = opportunity[x]
    BY OpportunityRowIsPresent DEF OpportunityInv
  <1>3. ASSUME NEW s \in Requests, NEW x \in Opportunities, HoldsOpportunity(s, x)'
        PROVE  OpportunityCopy(s, x)'
    <2>1. s # r
      BY <1>1, <1>3, IdleRequest DEF HoldsOpportunity, OpportunityOperations
    <2>2. HoldsOpportunity(s, x) /\ OpportunityCopy(s, x) /\ request'[s] = request[s]
      BY <1>1, <1>3, <2>1 DEF HoldsOpportunity, OpportunityInv
    <2>3. x = o => x \in raced'
      BY <1>1, <2>1, <2>2 DEF HoldsOpportunity
    <2>4. QED  BY <1>1, <1>2, <2>2, <2>3 DEF OpportunityCopy, Copy, Loaded
  <1>4. o \notin raced' => ~Won(o) /\ (Lost(o) => request[r].op = "remove")
    BY <1>1 DEF OpportunityInv, OpportunityCopy, Won, Lost
  <1>5. ClosedOpportunityKept
    BY <1>2, <1>4 DEF ClosedOpportunityKept
  <1>6. QED  BY <1>2, <1>3, <1>5 DEF OpportunityInv

\* Every operation on an opportunity saves a row of the right shape.
LEMMA OpportunityCommitted ==
  ASSUME RequestInv, OpportunityInv, NEW r \in Requests, OpportunityCommit(r)
  PROVE  OpportunityInv' /\ ClosedOpportunityKept
  <1>1. PICK o \in Opportunities :
          \/ \E stage \in Stages, l \in Leads \cup {None}, customer \in {None, Chosen} :
               Edit(r, o, stage, l, customer)
          \/ Win(r, o) \/ Lose(r, o) \/ RemoveOpportunity(r, o)
    BY DEF OpportunityCommit, Used
  <1>2. HoldsOpportunity(r, o) /\ Answer(r)
    BY <1>1 DEF Edit, Win, Lose, RemoveOpportunity, Saving, Doing, HoldsOpportunity, OpportunityOperations
  <1>3. OpportunityCopy(r, o) /\ opportunity[o] \in OpportunityRow
    BY <1>2 DEF OpportunityInv, OpportunityCopy
  <1>4. ASSUME NEW stage \in Stages, NEW l \in Leads \cup {None}, NEW customer \in {None, Chosen},
               Edit(r, o, stage, l, customer)
        PROVE  OpportunityInv' /\ ClosedOpportunityKept
    <2> DEFINE named == IF Copy(r).lead = None THEN l ELSE Copy(r).lead
               buyer == IF Copy(r).customer = None THEN customer ELSE Copy(r).customer
               copy == [Copy(r) EXCEPT !.stage = stage, !.lead = named, !.customer = buyer]
    <2>1. request[r].op = "edit" /\ Copy(r) \in OpportunityRow
      BY <1>3, <1>4 DEF OpportunityCopy, Edit, Saving, Doing
    <2>2. named \in Leads \cup {None} /\ buyer \in Codes \cup {None, Chosen}
      BY <2>1 DEF OpportunityRow
    <2>3. opportunity' = [opportunity EXCEPT ![o] = Saved(r, opportunity[o], copy)]
      BY <1>4 DEF Edit, SaveOpportunity
    <2> HIDE DEF named, buyer
    <2>4. copy \in OpportunityRow
      BY <2>1, <2>2 DEF OpportunityRow, Stages
    <2> HIDE DEF copy
    <2>5. Saved(r, opportunity[o], copy) \in OpportunityRow
      BY <1>3, <2>4, OpportunityColumns
    <2>6. QED  BY <1>2, <2>1, <2>3, <2>5, OpportunitySaved
  <1>5. CASE Win(r, o)
    <2>1. /\ request[r].op = "win" /\ Copy(r).row \in OpportunityRow
          /\ Copy(r).lead \in Leads \cup {None}
      BY <1>3, <1>5 DEF OpportunityCopy, Win, Saving, Doing
    <2>2. ASSUME NEW customer \in Codes \cup {None, Chosen}
          PROVE  [Copy(r).row EXCEPT !.stage = "won", !.customer = customer] \in OpportunityRow
      BY <2>1 DEF OpportunityRow
    <2>3. Copy(r).row.customer \in Codes \cup {None, Chosen}
      BY <2>1 DEF OpportunityRow
    <2>4. NeedsCustomer(r) => CodeOf[Copy(r).lead] \in Codes
      BY <2>1, CrmAssumption DEF NeedsCustomer
    <2>5. \E customer \in Codes \cup {None, Chosen} : SaveWon(r, o, customer)
      BY <1>5, <2>3, <2>4 DEF Win
    <2>6. PICK copy \in OpportunityRow :
            opportunity' = [opportunity EXCEPT ![o] = Saved(r, opportunity[o], copy)]
      BY <2>2, <2>5 DEF SaveWon, SaveOpportunity
    <2>7. Saved(r, opportunity[o], copy) \in OpportunityRow
      BY <1>3, <2>6, OpportunityColumns
    <2>8. QED  BY <1>2, <2>1, <2>6, <2>7, OpportunitySaved
  <1>6. CASE Lose(r, o)
    <2> DEFINE copy == [Copy(r) EXCEPT !.stage = "lost"]
    <2>1. request[r].op = "lose" /\ Copy(r) \in OpportunityRow
      BY <1>3, <1>6 DEF OpportunityCopy, Lose, Saving, Doing
    <2>2. /\ copy \in OpportunityRow
          /\ opportunity' = [opportunity EXCEPT ![o] = Saved(r, opportunity[o], copy)]
      BY <1>6, <2>1 DEF Lose, SaveOpportunity, OpportunityRow
    <2> HIDE DEF copy
    <2>3. Saved(r, opportunity[o], copy) \in OpportunityRow
      BY <1>3, <2>2, OpportunityColumns
    <2>4. QED  BY <1>2, <2>1, <2>2, <2>3, OpportunitySaved
  <1>7. CASE RemoveOpportunity(r, o)
    <2> DEFINE saved == [opportunity[o] EXCEPT !.deleted = TRUE]
    <2>1. saved \in OpportunityRow /\ opportunity' = [opportunity EXCEPT ![o] = saved]
      BY <1>3, <1>7 DEF RemoveOpportunity, SaveOpportunity, OpportunityRow
    <2>2. saved = [opportunity[o] EXCEPT !.deleted = TRUE]
      OBVIOUS
    <2> HIDE DEF saved
    <2>3. QED  BY <1>2, <2>1, <2>2, OpportunitySaved
  <1>8. QED  BY <1>1, <1>4, <1>5, <1>6, <1>7

\* A step on leads leaves opportunities alone.
LEMMA CrmKeepsOpportunities ==
  ASSUME RequestInv, OpportunityInv, CrmNext
  PROVE  OpportunityInv' /\ ClosedOpportunityKept
  <1> DEFINE Goal == OpportunityInv' /\ ClosedOpportunityKept
  <1>1. ASSUME UNCHANGED opportunity, raced \subseteq raced',
               \A s \in Requests :
                 request'[s].op \in OpportunityOperations => request'[s] = request[s]
        PROVE  Goal
    <2>1. \A s \in Requests, o \in Opportunities : HoldsOpportunity(s, o)' => request'[s] = request[s]
      BY <1>1 DEF HoldsOpportunity
    <2>2. QED  BY <1>1, <2>1, OpportunitiesUntouched
  <1>2. ASSUME NEW o \in Used(Opportunities), NEW stage \in Stages, NEW l \in Leads \cup {None},
               NEW customer \in {None, Chosen}, CreateOpportunity(o, stage, l, customer)
        PROVE  Goal
    <2> DEFINE new == [stage |-> stage, lead |-> l, customer |-> customer, deleted |-> FALSE]
    <2>1. /\ opportunity[o] = NoOpportunity /\ opportunity' = [opportunity EXCEPT ![o] = new]
          /\ UNCHANGED <<request, raced>>
      BY <1>2 DEF CreateOpportunity, SaveOpportunity, requestVars
    <2>2. new \in OpportunityRow
      BY DEF OpportunityRow, Stages
    <2> HIDE DEF new
    <2>3. /\ opportunity' \in [Opportunities -> OpportunityRow \cup {NoOpportunity}]
          /\ \A x \in Opportunities \ {o} : opportunity'[x] = opportunity[x]
      BY <2>1, <2>2 DEF OpportunityInv
    <2>4. ASSUME NEW s \in Requests, NEW x \in Opportunities, HoldsOpportunity(s, x)'
          PROVE  OpportunityCopy(s, x)'
      <3>1. OpportunityCopy(s, x) /\ request'[s] = request[s]
        BY <2>1, <2>4 DEF OpportunityInv, HoldsOpportunity
      <3>2. x # o
        BY <2>1, <3>1 DEF OpportunityCopy
      <3>3. QED  BY <2>1, <2>3, <3>1, <3>2 DEF OpportunityCopy, Copy, Loaded
    <2>5. ~Won(o) /\ ~Lost(o)
      BY <2>1 DEF Won, Lost, NoOpportunity
    <2>6. QED  BY <2>3, <2>4, <2>5 DEF OpportunityInv, ClosedOpportunityKept
  <1>3. ASSUME NEW r \in Requests, CrmRead(r), UNCHANGED opportunity
        PROVE  Goal
    <2>1. ASSUME NEW l \in Used(Leads),
                 ReadToEditLead(r, l) \/ ReadToRemoveLead(r, l) \/ ReadToConvert(r, l)
          PROVE  Goal
      <3>1. PICK op \in {"edit lead", "remove lead", "convert"} : Take(r, op, l, lead[l])
        BY <2>1 DEF ReadToEditLead, ReadToRemoveLead, ReadToConvert, ReadLead
      <3>2. op \notin OpportunityOperations
        BY DEF OpportunityOperations
      <3>3. QED  BY <1>1, <1>3, <3>1, <3>2, TakeElsewhere
    <2>2. ASSUME NEW o \in Used(Opportunities),
                 \/ ReadToEdit(r, o) \/ ReadToWin(r, o)
                 \/ ReadToLose(r, o) \/ ReadToRemoveOpportunity(r, o)
          PROVE  Goal
      <3>1. PICK op \in OpportunityOperations \ {"win"} :
              /\ opportunity[o].stage \in IF op = "remove" THEN {"open", "lost"} ELSE {"open"}
              /\ Take(r, op, o, opportunity[o])
        BY <2>2 DEF ReadToEdit, ReadToWin, ReadToLose, ReadToRemoveOpportunity, ReadOpportunity,
                    OpportunityOperations
      <3>2. o \in Opportunities
        BY DEF Used
      <3>3. QED  BY <1>3, <3>1, <3>2, OpportunityRead
    <2>3. ASSUME NEW o \in Used(Opportunities), ReadToWinAgain(r, o)
          PROVE  Goal
      BY <1>3, <2>3, OpportunityReread DEF Used
    <2>4. QED  BY <1>3, <2>1, <2>2, <2>3 DEF CrmRead
  <1>4. ASSUME NEW r \in Requests, LeadCommit(r)
        PROVE  Goal
    <2>1. Answer(r) /\ UNCHANGED opportunity
      BY <1>4 DEF LeadCommit, EditLead, RemoveLead, Convert, SaveLead
    <2>2. "none" \notin OpportunityOperations
      BY DEF OpportunityOperations
    <2>3. QED  BY <1>1, <2>1, <2>2, AnswerElsewhere
  <1>5. ASSUME NEW r \in Requests, OpportunityCommit(r)
        PROVE  Goal
    BY <1>5, OpportunityCommitted
  <1>6. CASE UNCHANGED <<opportunity, request, raced>>
    BY <1>1, <1>6
  <1>7. ASSUME NEW r \in Requests, CrmLoad(r), UNCHANGED opportunity
        PROVE  Goal
    <2>1. ASSUME NEW l \in Used(Leads), LoadLead(r, l)
          PROVE  Goal
      <3>1. Load(r, lead[l]) /\ request[r].op \notin OpportunityOperations
        BY <2>1 DEF LoadLead, Doing, OpportunityOperations
      <3>2. QED  BY <1>1, <1>7, <3>1, LoadElsewhere
    <2>2. ASSUME NEW o \in Used(Opportunities), LoadOpportunity(r, o)
          PROVE  Goal
      <3>1. HoldsOpportunity(r, o) /\ Load(r, opportunity[o]) /\ o \in Opportunities
        BY <2>2 DEF LoadOpportunity, Doing, HoldsOpportunity, OpportunityOperations, Used
      <3>2. QED  BY <1>7, <3>1, OpportunityLoaded
    <2>3. QED  BY <1>7, <2>1, <2>2 DEF CrmLoad
  <1>8. QED  BY <1>2, <1>3, <1>4, <1>5, <1>6, <1>7
             DEF CrmNext, CreateLead, SaveLead, crmVars, requestVars

-----------------------------------------------------------------------------
(* The whole: a step of one component leaves the others alone.             *)

IInv ==
  /\ RequestInv
  /\ OrderInv /\ BillInv /\ IssueInv
  /\ WorkInv
  /\ PayrollInv /\ OverlapInv /\ LeaveInv /\ DayInv
  /\ LeadInv /\ OpportunityInv

\* What a step may not change.
BillsKept == \A b \in Bills \ raced' : PaidOrCancelled(b) => bill'[b] = bill[b]
WorkKept == \A w \in ProductionOrders \ raced' : Finished(w) => work'[w] = work[w]
PayrollsKept == \A p \in Payrolls \ raced' : ClosedPayroll(p) => payroll'[p] = payroll[p]
LeavesKept == \A l \in Leaves \ raced' : ClosedLeave(l) => leave'[l] = leave[l]
LeadsKept == \A l \in Leads \ raced' : lead[l].status = "converted" => lead'[l] = lead[l]

PurchasingSafe == OrderInv /\ BillInv /\ IssueInv
HumanResourcesSafe == PayrollInv /\ OverlapInv /\ LeaveInv /\ DayInv
CrmSafe == LeadInv /\ OpportunityInv
HumanResourcesKept == PayrollsKept /\ LeavesKept
CrmKept == LeadsKept /\ ClosedOpportunityKept

\* A request on a document that is not served either stays as it is or ends.
LEMMA QuietRequest ==
  ASSUME NEW D, QuietOutside(D), NEW S \in SUBSET Documents, S \cap D = {},
         NEW r \in Requests, NEW d \in S, request'[r].doc = d
  PROVE  request'[r] = request[r]
  BY DocumentsAssumption DEF QuietOutside

\* A step outside purchasing keeps its invariant and the closed bills.
LEMMA PurchasingUndisturbed ==
  ASSUME PurchasingSafe, NEW D, QuietOutside(D), PurchasingIds \cap D = {},
         UNCHANGED <<orderVars, billVars>>
  PROVE  PurchasingSafe' /\ BillsKept
  <1>1. PurchaseOrders \in SUBSET Documents /\ Bills \in SUBSET Documents
        /\ PurchaseOrders \cap D = {} /\ Bills \cap D = {}
    BY PurchasingAssumption DEF PurchasingIds
  <1>2. \A r \in Requests, o \in PurchaseOrders : HoldsOrder(r, o)' => request'[r] = request[r]
    BY <1>1, QuietRequest DEF HoldsOrder
  <1>3. \A r \in Requests, b \in Bills : HoldsBill(r, b)' => request'[r] = request[r]
    BY <1>1, QuietRequest DEF HoldsBill
  <1>4. raced \subseteq raced' /\ UNCHANGED <<order, arrived, bill, settled, issues>>
    BY DEF QuietOutside, orderVars, billVars
  <1>5. QED  BY <1>2, <1>3, <1>4, OrdersUntouched, BillsUntouched, IssuesUntouched
             DEF PurchasingSafe, BillsKept

\* A step outside production keeps its invariant and the finished orders.
LEMMA ProductionUndisturbed ==
  ASSUME WorkInv, NEW D, QuietOutside(D), ProductionOrders \cap D = {},
         UNCHANGED <<work, consumed, made, completions>>
  PROVE  WorkInv' /\ WorkKept
  <1>1. \A r \in Requests, w \in ProductionOrders : HoldsWork(r, w)' => request'[r] = request[r]
    BY QuietRequest, ProductionAssumption DEF HoldsWork
  <1>2. raced \subseteq raced'
    BY DEF QuietOutside
  <1>3. QED  BY <1>1, <1>2, WorkUntouched DEF WorkKept

\* A step outside human resources keeps their invariant, the closed payrolls and
\* the answered leaves.
LEMMA HumanResourcesUndisturbed ==
  ASSUME HumanResourcesSafe, NEW D, QuietOutside(D), HumanResourcesIds \cap D = {}, UNCHANGED hrVars
  PROVE  HumanResourcesSafe' /\ HumanResourcesKept
  <1>1. /\ Payrolls \in SUBSET Documents /\ Periods \in SUBSET Documents
        /\ Leaves \in SUBSET Documents /\ WorkDays \in SUBSET Documents
        /\ Payrolls \cap D = {} /\ Periods \cap D = {} /\ Leaves \cap D = {} /\ WorkDays \cap D = {}
    BY HumanResourcesAssumption DEF HumanResourcesIds
  <1>2. \A r \in Requests, p \in Payrolls : HoldsPayroll(r, p)' => request'[r] = request[r]
    BY <1>1, QuietRequest DEF HoldsPayroll
  <1>3. \A r \in Requests, period \in Periods : Generating(r, period)' => request'[r] = request[r]
    BY <1>1, QuietRequest DEF Generating
  <1>4. \A r \in Requests, l \in Leaves : HoldsLeave(r, l)' => request'[r] = request[r]
    BY <1>1, QuietRequest DEF HoldsLeave
  <1>5. \A r \in Requests, d \in WorkDays : HoldsDay(r, d)' => request'[r] = request[r]
    BY <1>1, QuietRequest DEF HoldsDay
  <1>6. raced \subseteq raced' /\ UNCHANGED <<payroll, entries, leave, approved, attendance>>
    BY DEF QuietOutside, hrVars
  <1>7. PayrollInv' /\ LeaveInv' /\ DayInv'
    BY <1>2, <1>3, <1>4, <1>5, <1>6, PayrollsUntouched, LeavesUntouched, DaysUntouched
       DEF HumanResourcesSafe
  <1>8. OverlapInv'
    <2>1. \A p \in Payrolls : Posting(p)' \subseteq Posting(p)
      <3>1. \A r \in Requests, p \in Payrolls : request'[r].doc = p => request'[r] = request[r]
        BY <1>1, QuietRequest
      <3>2. QED  BY <3>1 DEF Posting
    <2>2. \A period \in Periods : Generators(period)' \subseteq Generators(period)
      BY <1>3 DEF Generators, Generating
    <2>3. QED  BY <1>6, <2>1, <2>2, OverlapUntouched DEF HumanResourcesSafe
  <1>9. QED  BY <1>6, <1>7, <1>8 DEF HumanResourcesSafe, HumanResourcesKept, PayrollsKept, LeavesKept

\* A step outside sales keeps their invariant, the converted leads and the
\* closed opportunities.
LEMMA CrmUndisturbed ==
  ASSUME CrmSafe, NEW D, QuietOutside(D), CrmIds \cap D = {}, UNCHANGED crmVars
  PROVE  CrmSafe' /\ CrmKept
  <1>1. /\ Leads \in SUBSET Documents /\ Opportunities \in SUBSET Documents
        /\ Leads \cap D = {} /\ Opportunities \cap D = {}
    BY CrmAssumption DEF CrmIds
  <1>2. \A r \in Requests, l \in Leads : HoldsLead(r, l)' => request'[r] = request[r]
    BY <1>1, QuietRequest DEF HoldsLead
  <1>3. \A r \in Requests, o \in Opportunities : HoldsOpportunity(r, o)' => request'[r] = request[r]
    BY <1>1, QuietRequest DEF HoldsOpportunity
  <1>4. raced \subseteq raced' /\ UNCHANGED <<lead, opportunity>>
    BY DEF QuietOutside, crmVars
  <1>5. QED  BY <1>2, <1>3, <1>4, LeadsUntouched, OpportunitiesUntouched
             DEF CrmSafe, CrmKept, LeadsKept

AllKept == BillsKept /\ WorkKept /\ HumanResourcesKept /\ CrmKept

\* Every step keeps the invariant and what was decided.
LEMMA NextIInv ==
  ASSUME IInv, Next
  PROVE  IInv' /\ AllKept
  <1>1. RequestInv /\ PurchasingSafe /\ WorkInv /\ HumanResourcesSafe /\ CrmSafe
    BY DEF IInv, PurchasingSafe, HumanResourcesSafe, CrmSafe
  <1>2. /\ PurchasingIds \cap ProductionOrders = {}
        /\ PurchasingIds \cap (HumanResourcesIds \cup CrmIds \cup Rows) = {}
        /\ ProductionOrders \cap (HumanResourcesIds \cup CrmIds \cup Rows) = {}
        /\ HumanResourcesIds \cap (CrmIds \cup Rows) = {}
        /\ CrmIds \cap Rows = {}
    BY BackOfficeAssumption, SupplyAssumption DEF SupplyIds, PurchasingIds
  <1>3. CASE /\ PurchasingNext /\ UNCHANGED <<work, consumed, made, completions>>
             /\ UNCHANGED <<hrVars, crmVars>>
    <2>1. RequestInv' /\ QuietOutside(PurchasingIds)
      BY <1>1, <1>3, PurchasingServes, ServesIsQuiet
    <2>2. PurchasingSafe' /\ BillsKept
      BY <1>1, <1>3, PurchasingKeepsOrders, PurchasingKeepsBills, PurchasingKeepsIssues, BillsStayClosed
         DEF PurchasingSafe, BillsKept
    <2>3. WorkInv' /\ WorkKept
      BY <1>1, <1>2, <1>3, <2>1, ProductionUndisturbed
    <2>4. HumanResourcesSafe' /\ HumanResourcesKept /\ CrmSafe' /\ CrmKept
      BY <1>1, <1>2, <1>3, <2>1, HumanResourcesUndisturbed, CrmUndisturbed
    <2>5. QED  BY <2>1, <2>2, <2>3, <2>4 DEF IInv, PurchasingSafe, HumanResourcesSafe, CrmSafe, AllKept
  <1>4. CASE ProductionNext /\ UNCHANGED <<orderVars, billVars>> /\ UNCHANGED <<hrVars, crmVars>>
    <2>1. RequestInv' /\ QuietOutside(ProductionOrders)
      BY <1>1, <1>4, ProductionServes, ServesIsQuiet
    <2>2. PurchasingSafe' /\ BillsKept
      BY <1>1, <1>2, <1>4, <2>1, PurchasingUndisturbed
    <2>3. WorkInv' /\ WorkKept
      BY <1>1, <1>4, ProductionKeepsWork DEF WorkKept
    <2>4. HumanResourcesSafe' /\ HumanResourcesKept /\ CrmSafe' /\ CrmKept
      BY <1>1, <1>2, <1>4, <2>1, HumanResourcesUndisturbed, CrmUndisturbed
    <2>5. QED  BY <2>1, <2>2, <2>3, <2>4 DEF IInv, PurchasingSafe, HumanResourcesSafe, CrmSafe, AllKept
  <1>5. CASE HumanResourcesNext /\ UNCHANGED <<supplyVars, crmVars>>
    <2>1. RequestInv' /\ QuietOutside(HumanResourcesIds)
      BY <1>1, <1>5, HumanResourcesServes, ServesIsQuiet
    <2>2. UNCHANGED <<orderVars, billVars>> /\ UNCHANGED <<work, consumed, made, completions>>
      BY <1>5 DEF supplyVars, purchaseVars, productionVars
    <2>3. PurchasingSafe' /\ BillsKept /\ WorkInv' /\ WorkKept
      BY <1>1, <1>2, <2>1, <2>2, PurchasingUndisturbed, ProductionUndisturbed
    <2>4. HumanResourcesSafe' /\ HumanResourcesKept
      BY <1>1, <1>5, HumanResourcesKeepPayrolls, HumanResourcesKeepLeaves, HumanResourcesKeepDays,
         HumanResourcesKeepOverlap DEF HumanResourcesSafe, HumanResourcesKept, PayrollsKept, LeavesKept
    <2>5. CrmSafe' /\ CrmKept
      BY <1>1, <1>2, <1>5, <2>1, CrmUndisturbed
    <2>6. QED  BY <2>1, <2>3, <2>4, <2>5 DEF IInv, PurchasingSafe, HumanResourcesSafe, CrmSafe, AllKept
  <1>6. CASE CrmNext /\ UNCHANGED <<supplyVars, hrVars>>
    <2>1. RequestInv' /\ QuietOutside(CrmIds)
      BY <1>1, <1>6, CrmServes, ServesIsQuiet
    <2>2. UNCHANGED <<orderVars, billVars>> /\ UNCHANGED <<work, consumed, made, completions>>
      BY <1>6 DEF supplyVars, purchaseVars, productionVars
    <2>3. PurchasingSafe' /\ BillsKept /\ WorkInv' /\ WorkKept
      BY <1>1, <1>2, <2>1, <2>2, PurchasingUndisturbed, ProductionUndisturbed
    <2>4. HumanResourcesSafe' /\ HumanResourcesKept
      BY <1>1, <1>2, <1>6, <2>1, HumanResourcesUndisturbed
    <2>5. CrmSafe' /\ CrmKept
      BY <1>1, <1>6, CrmKeepsLeads, CrmKeepsOpportunities DEF CrmSafe, CrmKept, LeadsKept
    <2>6. QED  BY <2>1, <2>3, <2>4, <2>5 DEF IInv, PurchasingSafe, HumanResourcesSafe, CrmSafe, AllKept
  <1>7. ASSUME NEW D \in {Rows, {}}, Serves(D), UNCHANGED <<supplyVars, hrVars, crmVars>>
        PROVE  IInv' /\ AllKept
    <2>1. RequestInv' /\ QuietOutside(D)
      BY <1>1, <1>7, ServesIsQuiet
    <2>2. UNCHANGED <<orderVars, billVars>> /\ UNCHANGED <<work, consumed, made, completions>>
      BY <1>7 DEF supplyVars, purchaseVars, productionVars
    <2>3. /\ PurchasingIds \cap D = {} /\ ProductionOrders \cap D = {}
          /\ HumanResourcesIds \cap D = {} /\ CrmIds \cap D = {}
      BY <1>2
    <2>4. PurchasingSafe' /\ BillsKept /\ WorkInv' /\ WorkKept
      BY <1>1, <2>1, <2>2, <2>3, PurchasingUndisturbed, ProductionUndisturbed
    <2>5. HumanResourcesSafe' /\ HumanResourcesKept /\ CrmSafe' /\ CrmKept
      BY <1>1, <1>7, <2>1, <2>3, HumanResourcesUndisturbed, CrmUndisturbed
    <2>6. QED  BY <2>1, <2>4, <2>5 DEF IInv, PurchasingSafe, HumanResourcesSafe, CrmSafe, AllKept
  <1>8. CASE ValuationNext /\ UNCHANGED <<supplyVars, hrVars, crmVars>>
    BY <1>1, <1>7, <1>8, ValuationServes
  <1>9. CASE /\ \E r \in Requests : Rollback(r)
             /\ UNCHANGED <<supplyVars, hrVars, crmVars, valuationVars>>
    BY <1>7, <1>9 DEF Serves
  <1>10. QED  BY <1>3, <1>4, <1>5, <1>6, <1>8, <1>9 DEF Next, SupplyNext

\* There are no documents at the start, and no request is under way.
LEMMA InitIInv == Init => IInv
  <1> SUFFICES ASSUME Init PROVE IInv
    OBVIOUS
  <1>1. /\ request = [r \in Requests |-> Idle] /\ raced = {}
        /\ \A r \in Requests : request[r].op = "none"
    BY IdleRequest DEF Init, RequestInit
  <1>2. RequestInv
    BY <1>1 DEF RequestInv, Idle
  <1>3. OrderInv /\ BillInv
    BY <1>1 DEF Init, SupplyInit, PurchasingInit, OrderInv, ReceivedIsCovered, HoldsOrder,
                OrderOperations, OrderIsExact, BillInv, PaidBillsWerePaid, HoldsBill,
                BillOperations, BillIsExact
  <1>10. IssueInv
    BY DEF Init, SupplyInit, PurchasingInit, IssueInv
  <1>4. WorkInv
    BY <1>1 DEF Init, SupplyInit, ProductionInit, WorkInv, ProductionTypeOK, MadeFromMaterials,
                HoldsWork, WorkOperations
  <1>5. PayrollInv
    BY <1>1 DEF Init, HumanResourcesInit, PayrollInv, EntryNamed, PostedOnce, HoldsPayroll,
                PayrollOperations, Generating, PayrollsOf
  <1>6. LeaveInv /\ DayInv
    BY <1>1 DEF Init, HumanResourcesInit, LeaveInv, HoldsLeave, LeaveOperations, Absent, DayInv,
                HoldsDay, DayOperations
  <1>7. LeadInv /\ OpportunityInv
    BY <1>1 DEF Init, CrmInit, LeadInv, HoldsLead, LeadOperations, OpportunityInv,
                HoldsOpportunity, OpportunityOperations
  <1>8. OverlapInv
    <2>1. \A x \in Payrolls : payroll[x] = Absent
      BY DEF Init, HumanResourcesInit
    <2>2. \A period \in Periods : PayrollsOf(period) = {}
      BY <2>1 DEF PayrollsOf
    <2>3. QED  BY <2>1, <2>2 DEF OverlapInv
  <1>9. QED  BY <1>2, <1>3, <1>4, <1>5, <1>6, <1>7, <1>8, <1>10 DEF IInv

\* A step that changes nothing keeps both.
LEMMA StutterIInv ==
  ASSUME IInv, UNCHANGED vars
  PROVE  IInv' /\ AllKept
  <1>1. Serves({}) /\ UNCHANGED <<supplyVars, hrVars, crmVars>>
    BY DEF vars, Serves, requestVars
  <1>2. RequestInv' /\ QuietOutside({})
    BY <1>1, ServesIsQuiet DEF IInv
  <1>3. UNCHANGED <<orderVars, billVars>> /\ UNCHANGED <<work, consumed, made, completions>>
    BY <1>1 DEF supplyVars, purchaseVars, productionVars
  <1>4. PurchasingSafe' /\ BillsKept /\ WorkInv' /\ WorkKept
    BY <1>2, <1>3, PurchasingUndisturbed, ProductionUndisturbed DEF IInv, PurchasingSafe
  <1>5. HumanResourcesSafe' /\ HumanResourcesKept /\ CrmSafe' /\ CrmKept
    BY <1>1, <1>2, HumanResourcesUndisturbed, CrmUndisturbed DEF IInv, HumanResourcesSafe, CrmSafe
  <1>6. QED  BY <1>2, <1>4, <1>5 DEF IInv, PurchasingSafe, HumanResourcesSafe, CrmSafe, AllKept

\* The invariant holds in every state.
LEMMA SpecIInv == Spec => []IInv
  <1>1. IInv /\ [Next]_vars => IInv'
    BY NextIInv, StutterIInv
  <1>2. QED  BY <1>1, InitIInv, PTL DEF Spec

-----------------------------------------------------------------------------
(* What follows from it                                                    *)

\* For any orders, deliveries and interleaving of requests: an order never
\* shows more as received than its receipts brought, and is closed only when
\* every item arrived (receive, PurchaseOrdersService).
THEOREM OrdersAreCovered == Spec => []ReceivedIsCovered
  <1>1. IInv => ReceivedIsCovered
    BY DEF IInv, OrderInv
  <1>2. QED  BY <1>1, SpecIInv, PTL

\* However payments of a bill overlap, it never claims more as paid than was
\* recorded for it, and is paid only when payments cover its total (record,
\* SupplierPaymentsService).
THEOREM PaidBillsAreCovered == Spec => []PaidBillsWerePaid
  <1>1. IInv => PaidBillsWerePaid
    BY DEF IInv, BillInv
  <1>2. QED  BY <1>1, SpecIInv, PTL

\* Orders and bills on which no requests overlapped record exactly what was
\* received and paid, and such a bill was issued once if it is open and never
\* otherwise: the parts of PurchasesExactWithoutRaces that are about one
\* document.
THEOREM OrdersAndBillsAreExact ==
  Spec => []((\A o \in PurchaseOrders \ raced : OrderIsExact(o)) /\ (\A b \in Bills \ raced : BillIsExact(b)))
  <1>1. IInv => (\A o \in PurchaseOrders \ raced : OrderIsExact(o)) /\ (\A b \in Bills \ raced : BillIsExact(b))
    BY DEF IInv, OrderInv, BillInv
  <1>2. QED  BY <1>1, SpecIInv, PTL

\* However requests overlap (complete, ProductionOrdersService), finished goods
\* enter stock with exactly the materials of their quantity, and an order with
\* materials is completed at most once.  An order on which no requests
\* overlapped was completed exactly once if it says so and never otherwise.
THEOREM GoodsAreMadeOnce == Spec => []MadeFromMaterials
  <1>1. IInv => MadeFromMaterials
    BY DEF IInv, WorkInv
  <1>2. QED  BY <1>1, SpecIInv, PTL

\* When no requests on it overlapped, a posted payroll names its entry, an
\* approved leave has the dates that its approval read, and the minutes of a
\* day are those between its two times (post, approve and clock).
THEOREM RowsStayWhole == Spec => []RowsAreWhole
  <1>1. IInv => RowsAreWhole
    BY DEF IInv, PayrollInv, EntryNamed, LeaveInv, DayInv, WholeDay, RowsAreWhole
  <1>2. QED  BY <1>1, SpecIInv, PTL

\* When no requests for a month or its payroll overlapped, the month has one
\* payroll at most, and its salaries are in the journal once if it was posted
\* and not at all otherwise; when they did, there are no more payrolls, and no
\* more entries of a payroll, than requests that the API serves at the same
\* time (generate, post and cancel, PayrollsService).
THEOREM SalariesArePostedOnce == Spec => []SalariesExpensedOnce
  <1>1. IInv => SalariesExpensedOnce
    <2> SUFFICES ASSUME IInv PROVE SalariesExpensedOnce
      OBVIOUS
    <2>1. ASSUME NEW period \in Periods \ raced
          PROVE  Cardinality(PayrollsOf(period)) <= 1
      <3>1. CASE PayrollsOf(period) = {}
        BY <3>1, FS_EmptySet
      <3>2. CASE PayrollsOf(period) # {}
        <4>1. PICK p \in PayrollsOf(period) : TRUE
          BY <3>2
        <4>2. \A q \in PayrollsOf(period) : q = p
          BY <2>1, <4>1 DEF IInv, PayrollInv
        <4>3. PayrollsOf(period) = {p}
          BY <4>1, <4>2
        <4>4. QED  BY <4>3, FS_Singleton
      <3>3. QED  BY <3>1, <3>2
    <2>2. \A period \in Periods : \A p \in PayrollsOf(period) \ raced :
            entries[p] = IF payroll[p].status = "posted" THEN 1 ELSE 0
      BY DEF IInv, PayrollInv, PostedOnce, PayrollsOf
    <2>3. ASSUME NEW period \in Periods
          PROVE  Cardinality(PayrollsOf(period)) <= Cardinality(Requests)
      <3>1. /\ Cardinality(PayrollsOf(period)) \in Nat
            /\ Cardinality(Generators(period)) \in Nat /\ Cardinality(Requests) \in Nat
        BY OverlapIsFinite
      <3>2. CASE PayrollsOf(period) = {}
        BY <3>1, <3>2, FS_EmptySet
      <3>3. CASE PayrollsOf(period) # {}
        BY <3>1, <3>3 DEF IInv, OverlapInv
      <3>4. QED  BY <3>2, <3>3
    <2>4. ASSUME NEW period \in Periods, NEW p \in PayrollsOf(period)
          PROVE  entries[p] <= Cardinality(Requests)
      <3>1. p \in Payrolls /\ payroll[p] # Absent /\ entries[p] \in Nat
        BY DEF PayrollsOf, IInv, PayrollInv
      <3>2. Cardinality(Posting(p)) \in Nat /\ Cardinality(Requests) \in Nat
        BY OverlapIsFinite
      <3>3. QED  BY <3>1, <3>2 DEF IInv, OverlapInv
    <2>5. QED  BY <2>1, <2>2, <2>3, <2>4 DEF SalariesExpensedOnce
  <1>2. QED  BY <1>1, SpecIInv, PTL

\* What was decided stays decided, for any number of documents and requests:
\* while no requests on it overlapped, a paid or cancelled bill, a finished
\* production order, a posted or cancelled payroll, an answered leave, a
\* converted lead and a won opportunity never change again, and a lost one can
\* only be deleted.
THEOREM DecisionsAreFinal == Spec => ClosedStaysClosed
  <1>1. IInv /\ [Next]_vars =>
          [/\ \A b \in Bills \ raced' : PaidOrCancelled(b) => bill'[b] = bill[b]
           /\ \A w \in ProductionOrders \ raced' : Finished(w) => work'[w] = work[w]
           /\ \A p \in Payrolls \ raced' : ClosedPayroll(p) => payroll'[p] = payroll[p]
           /\ \A l \in Leaves \ raced' : ClosedLeave(l) => leave'[l] = leave[l]
           /\ \A l \in Leads \ raced' : lead[l].status = "converted" => lead'[l] = lead[l]
           /\ \A o \in Opportunities \ raced' :
                /\ Won(o) => opportunity'[o] = opportunity[o]
                /\ Lost(o) => opportunity'[o] \in {opportunity[o], [opportunity[o] EXCEPT !.deleted = TRUE]}
          ]_vars
    BY NextIInv DEF AllKept, BillsKept, WorkKept, HumanResourcesKept, PayrollsKept, LeavesKept,
                    CrmKept, LeadsKept, ClosedOpportunityKept
  <1>2. QED  BY <1>1, SpecIInv, PTL DEF Spec, ClosedStaysClosed

-----------------------------------------------------------------------------
(* Totals                                                                  *)


\* The totals of the model are sums over the domains of their functions.
LEMMA TotalIsSum ==
  ASSUME NEW f
  PROVE  Total(f) = SumOn(f, DOMAIN f)
  BY SumOfFunction DEF Total

\* The documents of every kind are finite in number.
LEMMA DocumentsAreFinite ==
  /\ IsFiniteSet(Products)
  /\ IsFiniteSet(PurchaseOrders) /\ IsFiniteSet(Receipts) /\ IsFiniteSet(Bills)
  /\ IsFiniteSet(Advances) /\ IsFiniteSet(ProductionOrders) /\ IsFiniteSet(Rows)
  <1>1. /\ PurchaseOrders \subseteq Documents /\ Receipts \subseteq Documents
        /\ Bills \subseteq Documents /\ Advances \subseteq Documents
        /\ ProductionOrders \subseteq Documents /\ Rows \subseteq Documents
    BY PurchasingAssumption, ProductionAssumption, ValuationAssumption
  <1>2. QED  BY <1>1, DocumentsAssumption, WarehouseAssumption, FS_Subset

-----------------------------------------------------------------------------
(* Stock comes from documents                                              *)

ArrivedOf(p) == [o \in PurchaseOrders |-> arrived[o][p]]
MadeOf(p) == [w \in ProductionOrders |-> IF Makes[w] = p THEN made[w] ELSE 0]
ConsumedOf(p) == [w \in ProductionOrders |-> consumed[w][p]]

\* StockExplained, with the sums as the lemmas have them; a product is not its
\* own material.
StockInv ==
  /\ StockTypeOK
  /\ \A w \in ProductionOrders : work[w] # Absent => work[w].bom[Makes[w]] = 0
  /\ \A p \in Products :
       stock[p].quantity = InitialStock[p].quantity + SumOn(ArrivedOf(p), PurchaseOrders)
         + SumOn(MadeOf(p), ProductionOrders) - SumOn(ConsumedOf(p), ProductionOrders)

\* The sums the invariant speaks of are those of the property.
LEMMA StockInvMeans == StockInv => StockExplained
  <1>1. ASSUME NEW p \in Products
        PROVE  /\ Total(ArrivedOf(p)) = SumOn(ArrivedOf(p), PurchaseOrders)
               /\ Total(MadeOf(p)) = SumOn(MadeOf(p), ProductionOrders)
               /\ Total(ConsumedOf(p)) = SumOn(ConsumedOf(p), ProductionOrders)
    <2>1. /\ DOMAIN ArrivedOf(p) = PurchaseOrders /\ DOMAIN MadeOf(p) = ProductionOrders
          /\ DOMAIN ConsumedOf(p) = ProductionOrders
      BY DEF ArrivedOf, MadeOf, ConsumedOf
    <2>2. QED  BY <2>1, TotalIsSum, Zenon
  <1>2. StockInv => \A p \in Products :
          stock[p].quantity = InitialStock[p].quantity + Total(ArrivedOf(p)) + Total(MadeOf(p)) - Total(ConsumedOf(p))
    BY <1>1 DEF StockInv
  <1>3. QED  BY <1>2, Zenon DEF StockExplained, ArrivedOf, MadeOf, ConsumedOf

\* The sums are naturals.
LEMMA StockSumsTyped ==
  ASSUME IInv, NEW p \in Products
  PROVE  /\ \A o \in PurchaseOrders : ArrivedOf(p)[o] \in Int
         /\ \A w \in ProductionOrders : MadeOf(p)[w] \in Int /\ ConsumedOf(p)[w] \in Int
         /\ SumOn(ArrivedOf(p), PurchaseOrders) \in Int
         /\ SumOn(MadeOf(p), ProductionOrders) \in Int
         /\ SumOn(ConsumedOf(p), ProductionOrders) \in Int
  <1>1. /\ arrived \in [PurchaseOrders -> [Products -> Nat]]
        /\ consumed \in [ProductionOrders -> [Products -> Nat]]
        /\ made \in [ProductionOrders -> Nat]
    BY DEF IInv, OrderInv, WorkInv, ProductionTypeOK
  <1>2. \A o \in PurchaseOrders : ArrivedOf(p)[o] \in Int
    BY <1>1 DEF ArrivedOf
  <1>3. \A w \in ProductionOrders : ConsumedOf(p)[w] \in Int
    BY <1>1 DEF ConsumedOf
  <1>4. \A w \in ProductionOrders : MadeOf(p)[w] \in Int
    BY <1>1 DEF MadeOf
  <1>5. QED  BY <1>2, <1>3, <1>4, DocumentsAreFinite, SumInt

\* A receipt adds what it brings to its order and to stock.
LEMMA ReceivedStock ==
  ASSUME IInv, IInv', StockInv, NEW r \in Requests, NEW o \in PurchaseOrders,
         NEW g \in Receipts, NEW delivery \in Deliveries, Receive(r, o, g, delivery),
         UNCHANGED <<work, consumed, made>>
  PROVE  StockInv'
  <1> DEFINE lines == [p \in Products |-> delivery[p].sum]
  <1>1. /\ stock' = [p \in Products |-> Moved(stock[p], lines[p])]
        /\ arrived' = [arrived EXCEPT ![o] = [p \in Products |-> arrived[o][p] + lines[p]]]
    BY DEF Receive
  <1>2. /\ \A p \in Products : lines[p] \in Nat /\ stock[p] \in Row
        /\ arrived \in [PurchaseOrders -> [Products -> Nat]]
    BY PurchasingAssumption DEF DeliveryLine, StockInv, StockTypeOK, IInv, OrderInv
  <1> HIDE DEF lines
  <1>3. ASSUME NEW p \in Products
        PROVE  /\ stock'[p] \in Row
               /\ stock'[p].quantity = stock[p].quantity + lines[p]
    BY <1>1, <1>2 DEF Row, Moved, AtLeastZero, AtMostZero
  <1>4. ASSUME NEW p \in Products
        PROVE  stock'[p].quantity = InitialStock[p].quantity + SumOn(ArrivedOf(p)', PurchaseOrders)
                 + SumOn(MadeOf(p)', ProductionOrders) - SumOn(ConsumedOf(p)', ProductionOrders)
    <2>1. /\ ArrivedOf(p)'[o] = ArrivedOf(p)[o] + lines[p]
          /\ \A x \in PurchaseOrders \ {o} : ArrivedOf(p)'[x] = ArrivedOf(p)[x]
      BY <1>1, <1>2 DEF ArrivedOf
    <2>2. MadeOf(p)' = MadeOf(p) /\ ConsumedOf(p)' = ConsumedOf(p)
      BY DEF MadeOf, ConsumedOf
    <2>3. /\ \A x \in PurchaseOrders : ArrivedOf(p)[x] \in Int
          /\ SumOn(ArrivedOf(p), PurchaseOrders) \in Int
          /\ SumOn(MadeOf(p), ProductionOrders) \in Int
          /\ SumOn(ConsumedOf(p), ProductionOrders) \in Int
      BY StockSumsTyped
    <2>4. ArrivedOf(p)'[o] \in Int /\ ArrivedOf(p)[o] \in Int
      BY <1>2, <2>1, <2>3
    <2>5. SumOn(ArrivedOf(p)', PurchaseOrders)
            = SumOn(ArrivedOf(p), PurchaseOrders) - ArrivedOf(p)[o] + ArrivedOf(p)'[o]
      BY <2>1, <2>3, <2>4, DocumentsAreFinite, SumChange
    <2>6. InitialStock[p].quantity \in Int /\ lines[p] \in Int
      BY <1>2, WarehouseAssumption DEF Row
    <2>7. stock[p].quantity = InitialStock[p].quantity + SumOn(ArrivedOf(p), PurchaseOrders)
            + SumOn(MadeOf(p), ProductionOrders) - SumOn(ConsumedOf(p), ProductionOrders)
      BY DEF StockInv
    <2>8. SumOn(MadeOf(p)', ProductionOrders) = SumOn(MadeOf(p), ProductionOrders)
          /\ SumOn(ConsumedOf(p)', ProductionOrders) = SumOn(ConsumedOf(p), ProductionOrders)
      BY <2>2
    <2>9. QED  BY <1>3, <2>1, <2>3, <2>4, <2>5, <2>6, <2>7, <2>8
  <1>5. StockTypeOK'
    BY <1>1, <1>3 DEF StockTypeOK
  <1>6. QED  BY <1>4, <1>5 DEF StockInv

\* A completion takes its materials from stock and adds what it made.
LEMMA CompletedStock ==
  ASSUME IInv, IInv', StockInv, NEW r \in Requests, NEW w \in ProductionOrders, Complete(r, w),
         UNCHANGED arrived
  PROVE  StockInv'
  <1> DEFINE copy == Copy(r).row
             required == Required(w, copy)
             q == copy.quantity
  <1>1. /\ work[w] # Absent /\ RowOf(copy, w)
        /\ RowOf(work[w], w) /\ RowOf(Loaded(r), w)
    <2>1. HoldsWork(r, w) /\ Loaded(r) # NotLoaded
      BY DEF HoldsWork, WorkOperations, Complete, Saving, Doing
    <2>2. WorkCopy(r, w) /\ work[w] \in WorkRow \cup {Absent}
      BY <2>1 DEF IInv, WorkInv, ProductionTypeOK
    <2>3. QED  BY <2>1, <2>2 DEF WorkCopy, RowOf
  <1>2. /\ stock' = [p \in Products |->
             IF p = Makes[w] THEN Moved(stock[p], q) ELSE Moved(stock[p], -required[p])]
        /\ consumed' = [consumed EXCEPT ![w] = [p \in Products |-> consumed[w][p] + required[p]]]
        /\ made' = [made EXCEPT ![w] = made[w] + q]
        /\ \A p \in Products : required[p] > 0 => CanMove(stock[p], -required[p])
    BY DEF Complete, Added
  <1>3. q \in Nat /\ \A p \in Products : required[p] \in Nat /\ required[p] = copy.bom[p] * q
    <2>1. copy.quantity \in Nat /\ copy.bom \in [Products -> Nat]
      BY <1>1 DEF RowOf, WorkRow
    <2>2. \A p \in Products : required[p] = copy.bom[p] * q
      BY DEF Required
    <2>3. QED  BY <2>1, <2>2
  <1>4. /\ \A p \in Products : stock[p] \in Row
        /\ consumed \in [ProductionOrders -> [Products -> Nat]]
        /\ made \in [ProductionOrders -> Nat]
    BY DEF StockInv, StockTypeOK, IInv, WorkInv, ProductionTypeOK
  <1>5. required[Makes[w]] = 0
    <2>1. work[w].bom[Makes[w]] = 0 /\ Makes[w] \in Products
      BY <1>1, ProductionAssumption DEF StockInv
    <2>2. required[Makes[w]] = 0 * q
      BY <1>1, <1>3, <2>1 DEF RowOf
    <2>3. QED  BY <1>3, <2>2
  <1> HIDE DEF required, q
  <1>6. ASSUME NEW p \in Products
        PROVE  /\ stock'[p] \in Row
               /\ stock'[p].quantity = stock[p].quantity
                    + (IF Makes[w] = p THEN q ELSE 0) - required[p]
    <2>1. CASE p = Makes[w]
      BY <1>2, <1>3, <1>4, <1>5, <2>1 DEF Row, Moved, AtLeastZero, AtMostZero
    <2>2. CASE p # Makes[w]
      <3>1. stock'[p] = Moved(stock[p], -required[p])
        BY <1>2, <2>2
      <3>2. required[p] > 0 => stock[p].quantity - stock[p].reserved - required[p] >= 0
        BY <1>2, <1>3, <1>4 DEF CanMove, Available, Row
      <3>3. QED  BY <1>3, <1>4, <2>2, <3>1, <3>2 DEF Row, Moved, AtLeastZero, AtMostZero
    <2>3. QED  BY <2>1, <2>2
  <1>7. ASSUME NEW p \in Products
        PROVE  stock'[p].quantity = InitialStock[p].quantity + SumOn(ArrivedOf(p)', PurchaseOrders)
                 + SumOn(MadeOf(p)', ProductionOrders) - SumOn(ConsumedOf(p)', ProductionOrders)
    <2> DEFINE gain == IF Makes[w] = p THEN q ELSE 0
    <2>1. /\ MadeOf(p)'[w] = MadeOf(p)[w] + gain
          /\ \A x \in ProductionOrders \ {w} : MadeOf(p)'[x] = MadeOf(p)[x]
      BY <1>2, <1>3, <1>4 DEF MadeOf
    <2>2. /\ ConsumedOf(p)'[w] = ConsumedOf(p)[w] + required[p]
          /\ \A x \in ProductionOrders \ {w} : ConsumedOf(p)'[x] = ConsumedOf(p)[x]
      BY <1>2, <1>4 DEF ConsumedOf
    <2>3. ArrivedOf(p)' = ArrivedOf(p)
      BY DEF ArrivedOf
    <2>4. gain \in Int /\ required[p] \in Int
      BY <1>3
    <2>5. stock'[p].quantity = stock[p].quantity + gain - required[p]
      BY <1>6
    <2> HIDE DEF gain
    <2>6. /\ \A x \in ProductionOrders : MadeOf(p)[x] \in Int /\ ConsumedOf(p)[x] \in Int
          /\ SumOn(ArrivedOf(p), PurchaseOrders) \in Int
          /\ SumOn(MadeOf(p), ProductionOrders) \in Int
          /\ SumOn(ConsumedOf(p), ProductionOrders) \in Int
      BY StockSumsTyped
    <2>7. /\ MadeOf(p)[w] \in Int /\ MadeOf(p)'[w] \in Int
          /\ ConsumedOf(p)[w] \in Int /\ ConsumedOf(p)'[w] \in Int
      BY <2>1, <2>2, <2>4, <2>6
    <2>8. SumOn(MadeOf(p)', ProductionOrders)
            = SumOn(MadeOf(p), ProductionOrders) - MadeOf(p)[w] + MadeOf(p)'[w]
      BY <2>1, <2>6, <2>7, DocumentsAreFinite, SumChange
    <2>9. SumOn(ConsumedOf(p)', ProductionOrders)
            = SumOn(ConsumedOf(p), ProductionOrders) - ConsumedOf(p)[w] + ConsumedOf(p)'[w]
      BY <2>2, <2>6, <2>7, DocumentsAreFinite, SumChange
    <2>10. InitialStock[p].quantity \in Int
      BY WarehouseAssumption DEF Row
    <2>11. stock[p].quantity = InitialStock[p].quantity + SumOn(ArrivedOf(p), PurchaseOrders)
             + SumOn(MadeOf(p), ProductionOrders) - SumOn(ConsumedOf(p), ProductionOrders)
      BY DEF StockInv
    <2>12. SumOn(ArrivedOf(p)', PurchaseOrders) = SumOn(ArrivedOf(p), PurchaseOrders)
      BY <2>3
    <2>13. /\ SumOn(MadeOf(p)', ProductionOrders) = SumOn(MadeOf(p), ProductionOrders) + gain
           /\ SumOn(ConsumedOf(p)', ProductionOrders)
                = SumOn(ConsumedOf(p), ProductionOrders) + required[p]
      BY <2>1, <2>2, <2>4, <2>6, <2>7, <2>8, <2>9
    <2>14. QED  BY <2>4, <2>5, <2>6, <2>10, <2>11, <2>12, <2>13
  <1>8. StockTypeOK'
    BY <1>2, <1>6 DEF StockTypeOK
  <1>9. \A x \in ProductionOrders : work'[x] # Absent => work'[x].bom[Makes[x]] = 0
    <2> DEFINE done == [copy EXCEPT !.status = "completed"]
    <2>1. work' = [work EXCEPT ![w] = Saved(r, work[w], done)]
      BY DEF Complete
    <2>2. RowOf(done, w)
      BY <1>1 DEF RowOf, WorkRow
    <2> HIDE DEF done
    <2>3. RowOf(Saved(r, work[w], done), w)
      BY <1>1, <2>2, WorkColumns
    <2>4. work \in [ProductionOrders -> WorkRow \cup {Absent}]
      BY DEF IInv, WorkInv, ProductionTypeOK
    <2>5. QED  BY <1>1, <2>1, <2>3, <2>4 DEF StockInv, RowOf
  <1>10. QED  BY <1>7, <1>8, <1>9 DEF StockInv

\* A step that leaves stock and its documents alone, and the materials of
\* production orders, keeps the invariant.
LEMMA StockUntouched ==
  ASSUME StockInv, UNCHANGED <<stock, arrived, consumed, made>>,
         \A w \in ProductionOrders : work'[w] # Absent => work'[w].bom[Makes[w]] = 0
  PROVE  StockInv'
  <1>1. \A p \in Products :
          ArrivedOf(p)' = ArrivedOf(p) /\ MadeOf(p)' = MadeOf(p) /\ ConsumedOf(p)' = ConsumedOf(p)
    BY DEF ArrivedOf, MadeOf, ConsumedOf
  <1>2. StockTypeOK'
    BY DEF StockInv, StockTypeOK
  <1>3. \A p \in Products :
          stock'[p].quantity = InitialStock[p].quantity + SumOn(ArrivedOf(p)', PurchaseOrders)
            + SumOn(MadeOf(p)', ProductionOrders) - SumOn(ConsumedOf(p)', ProductionOrders)
    <2>1. TAKE p \in Products
    <2>2. stock[p].quantity = InitialStock[p].quantity + SumOn(ArrivedOf(p), PurchaseOrders)
            + SumOn(MadeOf(p), ProductionOrders) - SumOn(ConsumedOf(p), ProductionOrders)
      BY DEF StockInv
    <2>3. stock' = stock
      OBVIOUS
    <2>4. QED  BY <1>1, <2>2, <2>3
  <1>4. QED  BY <1>2, <1>3 DEF StockInv

\* No step loses or invents stock.
LEMMA NextStockInv == IInv /\ IInv' /\ StockInv /\ [Next]_vars => StockInv'
  <1> SUFFICES ASSUME IInv, IInv', StockInv, [Next]_vars PROVE StockInv'
    OBVIOUS
  <1> DEFINE BomsKept == \A w \in ProductionOrders : work'[w] # Absent => work'[w].bom[Makes[w]] = 0
  <1>0. ASSUME UNCHANGED <<stock, work, arrived, consumed, made>>
        PROVE  StockInv'
    BY <1>0, StockUntouched DEF StockInv
  <1>1. ASSUME PurchasingNext, UNCHANGED <<work, consumed, made, completions>>
        PROVE  StockInv'
    <2>1. ASSUME NEW r \in Requests, NEW o \in PurchaseOrders,
                 NEW g \in Receipts, NEW delivery \in Deliveries, Receive(r, o, g, delivery)
          PROVE  StockInv'
      BY <1>1, <2>1, ReceivedStock
    <2>2. CASE UNCHANGED <<stock, arrived>>
      BY <1>0, <1>1, <2>2
    <2>3. \/ UNCHANGED <<stock, arrived>>
          \/ \E r \in Requests, o \in PurchaseOrders, g \in Receipts, delivery \in Deliveries :
               Receive(r, o, g, delivery)
      <3>1. ASSUME NEW r \in Requests, OrderCommit(r)
            PROVE  \/ UNCHANGED <<stock, arrived>>
                   \/ \E o \in PurchaseOrders, g \in Receipts, delivery \in Deliveries :
                        Receive(r, o, g, delivery)
        BY <3>1 DEF OrderCommit, Approve, CancelOrder, Used
      <3>2. ASSUME NEW r \in Requests, BillCommit(r)
            PROVE  UNCHANGED <<stock, arrived>>
        BY <3>2 DEF BillCommit, Issue, CancelBill, Pay, BillReceipt, orderVars
      <3>3. QED
        BY <1>1, <3>1, <3>2
        DEF PurchasingNext, CreateOrder, CreateBill, PayOnAccount, purchaseVars, orderVars
    <2>4. QED  BY <2>1, <2>2, <2>3
  <1>2. ASSUME ProductionNext, UNCHANGED <<orderVars, billVars, payable>>
        PROVE  StockInv'
    <2>1. PICK w \in ProductionOrders :
            \/ \E q \in Quantities, bom \in Boms[w], value \in Values[w] : Plan(w, q, bom, value)
            \/ \E r \in Requests :
                 \/ ReadToUpdate(r, w) \/ ReadToRemove(r, w) \/ ReadToStart(r, w)
                 \/ ReadToCancelWork(r, w) \/ ReadToComplete(r, w)
                 \/ LoadToUpdate(r, w) \/ LoadToStart(r, w)
                 \/ LoadToCancelWork(r, w) \/ LoadToComplete(r, w)
                 \/ \E q \in Quantities, value \in Values[w] : Update(r, w, q, value)
                 \/ Remove(r, w) \/ Start(r, w) \/ CancelWork(r, w) \/ Complete(r, w)
      BY <1>2 DEF ProductionNext, Used
    <2>2. work \in [ProductionOrders -> WorkRow \cup {Absent}] /\ UNCHANGED arrived
      BY <1>2 DEF IInv, WorkInv, ProductionTypeOK, orderVars
    <2>3. ASSUME NEW saved, SaveWork(w, saved), saved.bom[Makes[w]] = 0
          PROVE  StockInv'
      <3>1. UNCHANGED <<stock, consumed, made>> /\ work' = [work EXCEPT ![w] = saved]
        BY <2>3 DEF SaveWork
      <3>2. BomsKept
        BY <2>2, <2>3, <3>1 DEF StockInv
      <3>3. QED  BY <2>2, <3>1, <3>2, StockUntouched
    <2>4. ASSUME NEW r \in Requests, HoldsWork(r, w), Loaded(r) # NotLoaded,
                 NEW copy, RowOf(copy, w), SaveWork(w, Saved(r, work[w], copy))
          PROVE  StockInv'
      <3>1. work[w] # Absent /\ RowOf(work[w], w) /\ RowOf(Loaded(r), w)
        BY <2>2, <2>4 DEF IInv, WorkInv, WorkCopy, RowOf
      <3>2. RowOf(Saved(r, work[w], copy), w)
        BY <2>4, <3>1, WorkColumns
      <3>3. Saved(r, work[w], copy).bom[Makes[w]] = 0
        BY <3>1, <3>2 DEF RowOf, StockInv
      <3>4. QED  BY <2>3, <2>4, <3>3
    <2>5. ASSUME NEW q \in Quantities, NEW bom \in Boms[w], NEW value \in Values[w], Plan(w, q, bom, value)
          PROVE  StockInv'
      <3> DEFINE saved == [status |-> "planned", quantity |-> q, bom |-> bom, value |-> value, deleted |-> FALSE]
      <3>1. SaveWork(w, saved) /\ saved.bom[Makes[w]] = 0
        BY <2>5 DEF Plan
      <3> HIDE DEF saved
      <3>2. QED  BY <2>3, <3>1
    <2>6. ASSUME NEW r \in Requests, NEW q \in Quantities, NEW value \in Values[w], Update(r, w, q, value)
          PROVE  StockInv'
      <3> DEFINE copy == [Copy(r).row EXCEPT !.quantity = q, !.value = value]
      <3>1. SaveWork(w, Saved(r, work[w], copy)) /\ HoldsWork(r, w) /\ Loaded(r) # NotLoaded
        BY <2>6 DEF Update, Saving, Doing, HoldsWork, WorkOperations
      <3>2. RowOf(Copy(r).row, w) /\ q \in Nat \ {0} /\ value \in Nat
        BY <3>1, ProductionAssumption DEF IInv, WorkInv, WorkCopy
      <3>3. RowOf(copy, w)
        BY <3>2 DEF RowOf, WorkRow
      <3> HIDE DEF copy
      <3>4. QED  BY <2>4, <3>1, <3>3
    <2>7. ASSUME NEW r \in Requests, Remove(r, w)
          PROVE  StockInv'
      <3> DEFINE saved == [work[w] EXCEPT !.deleted = TRUE]
      <3>1. SaveWork(w, saved) /\ HoldsWork(r, w)
        BY <2>7 DEF Remove, Doing, HoldsWork, WorkOperations
      <3>2. work[w] \in WorkRow /\ work[w] # Absent
        BY <2>2, <3>1 DEF IInv, WorkInv, WorkCopy
      <3>3. saved.bom[Makes[w]] = 0
        BY <3>2 DEF WorkRow, StockInv
      <3> HIDE DEF saved
      <3>4. QED  BY <2>3, <3>1, <3>3
    <2>8. ASSUME NEW r \in Requests, Start(r, w) \/ CancelWork(r, w)
          PROVE  StockInv'
      <3>1. PICK status \in {"in_progress", "cancelled"} :
              SaveWork(w, Saved(r, work[w], [Copy(r).row EXCEPT !.status = status]))
        BY <2>8 DEF Start, CancelWork
      <3>2. HoldsWork(r, w) /\ Loaded(r) # NotLoaded
        BY <2>8 DEF Start, CancelWork, Saving, Doing, HoldsWork, WorkOperations
      <3> DEFINE copy == [Copy(r).row EXCEPT !.status = status]
      <3>3. RowOf(Copy(r).row, w)
        BY <3>2 DEF IInv, WorkInv, WorkCopy
      <3>4. RowOf(copy, w)
        BY <3>3 DEF RowOf, WorkRow
      <3>5. SaveWork(w, Saved(r, work[w], copy))
        BY <3>1
      <3> HIDE DEF copy
      <3>6. QED  BY <2>4, <3>2, <3>4, <3>5
    <2>9. ASSUME NEW r \in Requests,
                 \/ ReadToUpdate(r, w) \/ ReadToRemove(r, w) \/ ReadToStart(r, w)
                 \/ ReadToCancelWork(r, w) \/ ReadToComplete(r, w)
                 \/ LoadToUpdate(r, w) \/ LoadToStart(r, w)
                 \/ LoadToCancelWork(r, w) \/ LoadToComplete(r, w)
          PROVE  StockInv'
      <3>1. UNCHANGED productionVars
        BY <2>9 DEF ReadToUpdate, ReadToRemove, ReadToStart, ReadToCancelWork, ReadToComplete, ReadWork,
                   LoadToUpdate, LoadToStart, LoadToCancelWork, LoadWithLines, LoadToComplete
      <3>2. QED  BY <1>0, <2>2, <3>1 DEF productionVars
    <2>10. ASSUME NEW r \in Requests, Complete(r, w)
           PROVE  StockInv'
      BY <2>2, <2>10, CompletedStock
    <2>11. QED  BY <2>1, <2>5, <2>6, <2>7, <2>8, <2>9, <2>10
  <1>3. CASE UNCHANGED supplyVars
    BY <1>0, <1>3 DEF supplyVars, purchaseVars, productionVars, orderVars
  <1>4. QED
    BY <1>1, <1>2, <1>3 DEF Next, SupplyNext, vars

\* Whatever requests of purchasing and production overlap, stock is what there
\* was, and what receipts brought and production made, less what it consumed.
THEOREM StockComesFromDocuments == Spec => []StockExplained
  <1>1. Init => StockInv
    <2> SUFFICES ASSUME Init PROVE StockInv
      OBVIOUS
    <2>1. stock = InitialStock /\ StockTypeOK /\ \A w \in ProductionOrders : work[w] = Absent
      BY WarehouseAssumption DEF Init, SupplyInit, StockInit, StockTypeOK, ProductionInit
    <2>2. ASSUME NEW p \in Products
          PROVE  stock[p].quantity = InitialStock[p].quantity + SumOn(ArrivedOf(p), PurchaseOrders)
                   + SumOn(MadeOf(p), ProductionOrders) - SumOn(ConsumedOf(p), ProductionOrders)
      <3>1. /\ \A o \in PurchaseOrders : ArrivedOf(p)[o] = 0
            /\ \A w \in ProductionOrders : MadeOf(p)[w] = 0 /\ ConsumedOf(p)[w] = 0
        BY DEF Init, SupplyInit, PurchasingInit, ProductionInit, ArrivedOf, MadeOf, ConsumedOf
      <3>2. /\ SumOn(ArrivedOf(p), PurchaseOrders) = 0
            /\ SumOn(MadeOf(p), ProductionOrders) = 0
            /\ SumOn(ConsumedOf(p), ProductionOrders) = 0
        BY <3>1, DocumentsAreFinite, SumZero
      <3>3. InitialStock[p].quantity \in Int
        BY WarehouseAssumption DEF Row
      <3>4. QED  BY <2>1, <3>2, <3>3
    <2>3. QED  BY <2>1, <2>2 DEF StockInv
  <1>2. Spec => []StockInv
    <2>1. IInv /\ IInv' /\ StockInv /\ [Next]_vars => StockInv'
      BY NextStockInv
    <2>2. QED  BY <1>1, <2>1, SpecIInv, PTL DEF Spec
  <1>3. QED  BY <1>2, StockInvMeans, PTL

-----------------------------------------------------------------------------
(* The payables account                                                    *)

BalanceOf == [b \in Bills |-> IF Open(b) THEN bill[b].balance ELSE 0]

UnbilledOf ==
  [g \in Receipts |->
     IF receipt[g] # Absent /\ ~\E b \in Bills : Open(b) /\ bill[b].receipt = g
     THEN Value(receipt[g].lines) ELSE 0]

Debt == SumOn(BalanceOf, Bills) + SumOn(UnbilledOf, Receipts) - SumOn(advance, Advances)

NoBillRaced == raced \cap Bills = {}

\* While no requests on a bill overlapped, every bill names a receipt that there
\* is, as does every request about to make one; and while no receipt is billed
\* twice, the account is what the documents add up to.
DebtInv ==
  /\ receipt \in [Receipts -> ReceiptRow \cup {Absent}]
  /\ advance \in [Advances -> Nat]
  /\ \A r \in Requests, g \in Receipts : Doing(r, "bill", g) => receipt[g] # Absent
  /\ NoBillRaced =>
       \A b \in Bills : bill[b] # Absent /\ bill[b].receipt # None => receipt[bill[b].receipt] # Absent
  /\ NoBillRaced /\ BilledOnce => payable = Debt

\* What the lines of a receipt are worth.
LEMMA ValueTyped ==
  ASSUME NEW lines \in [Products -> Nat]
  PROVE  Value(lines) \in Int
  <1> DEFINE worth == [p \in Products |-> UnitCost[p] * lines[p]]
  <1>1. \A p \in Products : worth[p] \in Int
    BY PurchasingAssumption
  <1>2. DOMAIN worth = Products /\ Value(lines) = Total(worth)
    BY DEF Value
  <1> HIDE DEF worth
  <1>3. Value(lines) = SumOn(worth, Products)
    BY <1>2, TotalIsSum
  <1>4. QED  BY <1>1, <1>3, DocumentsAreFinite, SumInt

\* A receipt that there is has lines.
LEMMA ReceiptTyped ==
  ASSUME DebtInv, NEW g \in Receipts, receipt[g] # Absent
  PROVE  receipt[g].lines \in [Products -> Nat] /\ Value(receipt[g].lines) \in Int
  <1>1. receipt[g] \in ReceiptRow
    BY DEF DebtInv
  <1>2. receipt[g].lines \in [Products -> Nat]
    BY <1>1 DEF ReceiptRow
  <1>3. QED  BY <1>2, ValueTyped

\* The sums are integers.
LEMMA DebtTyped ==
  ASSUME IInv, DebtInv
  PROVE  /\ \A b \in Bills : BalanceOf[b] \in Int
         /\ \A g \in Receipts : UnbilledOf[g] \in Int
         /\ \A a \in Advances : advance[a] \in Int
         /\ SumOn(BalanceOf, Bills) \in Int /\ SumOn(UnbilledOf, Receipts) \in Int
         /\ SumOn(advance, Advances) \in Int
  <1>1. ASSUME NEW b \in Bills PROVE BalanceOf[b] \in Int
    <2>1. CASE Open(b)
      <3>1. bill[b] \in BillRow
        BY <2>1 DEF IInv, BillInv, Open, Absent
      <3>2. QED  BY <3>1 DEF BalanceOf, BillRow
    <2>2. QED  BY <2>1 DEF BalanceOf
  <1>2. ASSUME NEW g \in Receipts PROVE UnbilledOf[g] \in Int
    BY ReceiptTyped DEF UnbilledOf
  <1>3. \A a \in Advances : advance[a] \in Int
    BY DEF DebtInv
  <1>4. QED  BY <1>1, <1>2, <1>3, DocumentsAreFinite, SumInt

\* The account, in the words of the property.
LEMMA OwedIsDebt ==
  ASSUME DebtInv
  PROVE  Owed = Debt
  <1>1. Total(BalanceOf) = SumOn(BalanceOf, Bills)
    <2>1. DOMAIN BalanceOf = Bills
      BY DEF BalanceOf
    <2>2. QED  BY <2>1, TotalIsSum, Zenon
  <1>2. Total(UnbilledOf) = SumOn(UnbilledOf, Receipts)
    <2>1. DOMAIN UnbilledOf = Receipts
      BY DEF UnbilledOf
    <2>2. QED  BY <2>1, TotalIsSum, Zenon
  <1>3. Total(advance) = SumOn(advance, Advances)
    <2>1. DOMAIN advance = Advances
      BY DEF DebtInv
    <2>2. QED  BY <2>1, TotalIsSum, Zenon
  <1>4. Owed = Total(BalanceOf) + Total(UnbilledOf) - Total(advance)
    BY Zenon DEF Owed, BalanceOf, UnbilledOf
  <1>5. QED  BY <1>1, <1>2, <1>3, <1>4, Zenon DEF Debt

\* A step that leaves receipts, bills and the account alone keeps the invariant.
LEMMA DebtUntouched ==
  ASSUME DebtInv, UNCHANGED <<receipt, bill, advance, payable>>, raced \subseteq raced',
         \A r \in Requests, g \in Receipts : Doing(r, "bill", g)' => receipt[g] # Absent
  PROVE  DebtInv'
  <1>1. BalanceOf' = BalanceOf /\ UnbilledOf' = UnbilledOf /\ (BilledOnce' => BilledOnce)
    BY DEF BalanceOf, UnbilledOf, Open, BilledOnce
  <1>2. Debt' = Debt
    BY <1>1 DEF Debt
  <1>3. NoBillRaced' => NoBillRaced
    BY DEF NoBillRaced
  <1>4. QED  BY <1>1, <1>2, <1>3 DEF DebtInv

\* A step that saves a bill, and opens or closes none: what it takes from the
\* balance of an open bill it takes from the account.
LEMMA BillKeptOpen ==
  ASSUME IInv, IInv', DebtInv, NEW b \in Bills, NEW saved, bill' = [bill EXCEPT ![b] = saved],
         UNCHANGED <<receipt, advance>>, raced \subseteq raced',
         \A r \in Requests, g \in Receipts : Doing(r, "bill", g)' => receipt[g] # Absent,
         NEW amount \in Int, payable \in Int => payable' = payable - amount,
         NoBillRaced' =>
           /\ saved.receipt # None => receipt[saved.receipt] # Absent
           /\ saved.status \in {"issued", "paid"} <=> Open(b)
           /\ Open(b) => saved.receipt = bill[b].receipt /\ saved.balance = bill[b].balance - amount
           /\ ~Open(b) => amount = 0
  PROVE  DebtInv'
  <1> USE DEF DebtInv
  <1>1. bill \in [Bills -> BillRow \cup {Absent}] /\ bill'[b] = saved
        /\ \A c \in Bills \ {b} : bill'[c] = bill[c]
    BY DEF IInv, BillInv
  <1>2. NoBillRaced' => NoBillRaced
    BY DEF NoBillRaced
  <1>3. SUFFICES ASSUME NoBillRaced'
                 PROVE  /\ \A c \in Bills : bill'[c] # Absent /\ bill'[c].receipt # None
                                              => receipt[bill'[c].receipt] # Absent
                        /\ BilledOnce' => payable' = Debt'
    OBVIOUS
  <1>4. \A c \in Bills : bill'[c] # Absent /\ bill'[c].receipt # None => receipt[bill'[c].receipt] # Absent
    BY <1>1, <1>2, <1>3
  <1>5. \A c \in Bills : (Open(c)' <=> Open(c)) /\ (Open(c) => bill'[c].receipt = bill[c].receipt)
    BY <1>1, <1>3 DEF Open
  <1>6. UnbilledOf' = UnbilledOf
    BY <1>5 DEF UnbilledOf
  <1>7. BilledOnce' => BilledOnce
    BY <1>5 DEF BilledOnce
  <1>8. BalanceOf'[b] = BalanceOf[b] - amount /\ \A c \in Bills \ {b} : BalanceOf'[c] = BalanceOf[c]
    <2>1. CASE Open(b)
      BY <1>1, <1>3, <1>5, <2>1 DEF BalanceOf
    <2>2. CASE ~Open(b)
      <3>1. amount = 0 /\ ~Open(b)'
        BY <1>3, <1>5, <2>2
      <3>2. BalanceOf[b] = 0 /\ BalanceOf'[b] = 0
        BY <2>2, <3>1 DEF BalanceOf
      <3>3. \A c \in Bills \ {b} : BalanceOf'[c] = BalanceOf[c]
        BY <1>1, <1>5 DEF BalanceOf
      <3>4. QED  BY <3>1, <3>2, <3>3
    <2>3. QED  BY <2>1, <2>2
  <1>9. /\ \A c \in Bills : BalanceOf[c] \in Int
        /\ SumOn(BalanceOf, Bills) \in Int /\ SumOn(UnbilledOf, Receipts) \in Int
        /\ SumOn(advance, Advances) \in Int
    BY DebtTyped
  <1>10. SumOn(BalanceOf', Bills) = SumOn(BalanceOf, Bills) - BalanceOf[b] + BalanceOf'[b]
    <2>1. BalanceOf'[b] \in Int
      BY <1>8, <1>9
    <2>2. QED  BY <1>8, <1>9, <2>1, DocumentsAreFinite, SumChange
  <1>11. SumOn(BalanceOf', Bills) = SumOn(BalanceOf, Bills) - amount
    <2>1. BalanceOf[b] \in Int
      BY <1>9
    <2>2. QED  BY <1>8, <1>9, <1>10, <2>1
  <1>12. Debt' = Debt - amount
    <2>1. SumOn(UnbilledOf', Receipts) = SumOn(UnbilledOf, Receipts)
          /\ SumOn(advance', Advances) = SumOn(advance, Advances)
      BY <1>6
    <2>2. QED  BY <1>9, <1>11, <2>1 DEF Debt
  <1>13. BilledOnce' => payable' = Debt'
    BY <1>2, <1>3, <1>7, <1>9, <1>12 DEF Debt
  <1>14. QED  BY <1>4, <1>13

\* Requests that are about to bill a receipt keep it while another request
\* answers.
LEMMA BillersKept ==
  ASSUME IInv, DebtInv, NEW r \in Requests, Answer(r)
  PROVE  \A s \in Requests, g \in Receipts : Doing(s, "bill", g)' => receipt[g] # Absent
  <1>1. \A s \in Requests \ {r} : request'[s] = request[s]
    BY AfterAnswer DEF IInv
  <1>2. request'[r].op = "none"
    BY AfterAnswer, IdleRequest DEF IInv
  <1>3. QED  BY <1>1, <1>2 DEF Doing, DebtInv

\* A request that had its bill to itself saves what it made of its copy.
LEMMA BillSavedWhole ==
  ASSUME IInv, NEW r \in Requests, NEW b \in Bills \ raced, HoldsBill(r, b), Loaded(r) # NotLoaded,
         NEW copy, AddsUp(copy, b)
  PROVE  Saved(r, bill[b], copy) = copy
  <1>1. Loaded(r) = bill[b] /\ AddsUp(Loaded(r), b)
    BY DEF IInv, BillInv, BillCopy
  <1>2. AddsUp(bill[b], b)
    BY <1>1
  <1>3. QED  BY <1>1, <1>2, BillColumns

\* A bill that is issued takes the place of its receipt in what is owed.
LEMMA IssuedDebt ==
  ASSUME IInv, IInv', DebtInv, NEW r \in Requests, NEW b \in Bills, Issue(r, b)
  PROVE  DebtInv'
  <1> DEFINE saved == [Copy(r) EXCEPT !.status = "issued"]
             g == Copy(r).receipt
             total == Copy(r).total
             known == ReceivedAmount(Copy(r))
  <1>1. /\ HoldsBill(r, b) /\ request[r].op = "issue" /\ Answer(r)
        /\ bill' = [bill EXCEPT ![b] = Saved(r, bill[b], saved)] /\ Loaded(r) # NotLoaded
        /\ payable' = payable + total - known
        /\ UNCHANGED <<receipt, advance>>
    BY DEF Issue, Saving, Doing, HoldsBill, BillOperations, SaveBill, orderVars
  <1>2. BillCopy(r, b) /\ Copy(r) \in BillRow /\ Copy(r).status = "draft"
    BY <1>1 DEF IInv, BillInv, BillCopy, AddsUp
  <1>3. /\ g \in Receipts \cup {None} /\ total \in Nat
        /\ saved.status = "issued" /\ saved.receipt = g /\ saved.balance = Copy(r).balance
    BY <1>2 DEF BillRow
  <1>4. raced \subseteq raced' /\ (b \notin raced' => b \notin raced)
    BY <1>1, AfterAnswer DEF IInv
  <1>5. \A s \in Requests, x \in Receipts : Doing(s, "bill", x)' => receipt'[x] # Absent
    BY <1>1, BillersKept
  <1>6. SUFFICES ASSUME NoBillRaced'
                 PROVE  /\ \A c \in Bills : bill'[c] # Absent /\ bill'[c].receipt # None
                                              => receipt'[bill'[c].receipt] # Absent
                        /\ BilledOnce' => payable' = Debt'
    BY <1>1, <1>5 DEF DebtInv
  <1>7. NoBillRaced /\ b \notin raced
    BY <1>4, <1>6 DEF NoBillRaced
  <1>8. Copy(r) = bill[b] /\ bill[b] # Absent /\ Copy(r).balance = total /\ ~Open(b)
    <2>1. Copy(r) = bill[b] /\ bill[b] # Absent
      BY <1>2, <1>7 DEF BillCopy
    <2>2. Copy(r).paid = 0
      BY <1>2, <1>7, <2>1 DEF IInv, BillInv, BillIsExact
    <2>3. Copy(r).balance \in Nat /\ Copy(r).paid + Copy(r).balance = total
      BY <1>2 DEF BillCopy, AddsUp, BillRow
    <2>4. QED  BY <1>2, <1>3, <2>1, <2>2, <2>3 DEF Open
  <1>9. /\ bill'[b] = saved /\ \A c \in Bills \ {b} : bill'[c] = bill[c]
    <2>1. AddsUp(saved, b)
      BY <1>2 DEF BillCopy, AddsUp, BillRow
    <2>2. Saved(r, bill[b], saved) = saved
      BY <1>1, <1>7, <2>1, BillSavedWhole
    <2>3. QED  BY <1>1, <2>2 DEF IInv, BillInv
  <1> HIDE DEF saved
  <1>10. \A c \in Bills : bill'[c] # Absent /\ bill'[c].receipt # None => receipt'[bill'[c].receipt] # Absent
    BY <1>1, <1>3, <1>7, <1>8, <1>9 DEF DebtInv
  <1>11. ASSUME BilledOnce' PROVE payable' = Debt'
    <2>1. Open(b)' /\ \A c \in Bills \ {b} : (Open(c)' <=> Open(c))
      BY <1>3, <1>9 DEF Open
    <2>2. BilledOnce
      BY <1>8, <1>9, <1>11, <2>1 DEF BilledOnce
    <2>3. payable = Debt
      BY <1>7, <2>2 DEF DebtInv
    <2>4. /\ \A c \in Bills : BalanceOf[c] \in Int
          /\ \A x \in Receipts : UnbilledOf[x] \in Int
          /\ SumOn(BalanceOf, Bills) \in Int /\ SumOn(UnbilledOf, Receipts) \in Int
          /\ SumOn(advance, Advances) \in Int
      BY DebtTyped
    <2>5. BalanceOf[b] = 0 /\ BalanceOf'[b] = total
      BY <1>3, <1>8, <1>9, <2>1 DEF BalanceOf
    <2>6. \A c \in Bills \ {b} : BalanceOf'[c] = BalanceOf[c]
      BY <1>9, <2>1 DEF BalanceOf
    <2>7. SumOn(BalanceOf', Bills) = SumOn(BalanceOf, Bills) + total
      <3>1. SumOn(BalanceOf', Bills) = SumOn(BalanceOf, Bills) - BalanceOf[b] + BalanceOf'[b]
        BY <1>3, <2>4, <2>5, <2>6, DocumentsAreFinite, SumChange
      <3>2. QED  BY <1>3, <2>4, <2>5, <3>1
    <2>8. known \in Int /\ SumOn(UnbilledOf', Receipts) = SumOn(UnbilledOf, Receipts) - known
      <3>1. CASE g = None
        <4>1. known = 0
          BY <3>1 DEF ReceivedAmount
        <4>2. UnbilledOf' = UnbilledOf
          <5>1. bill'[b].receipt \notin Receipts
            BY <1>3, <1>9, <3>1, PurchasingAssumption
          <5>2. \A x \in Receipts :
                  (\E c \in Bills : Open(c)' /\ bill'[c].receipt = x)
                    <=> (\E c \in Bills : Open(c) /\ bill[c].receipt = x)
            BY <1>8, <1>9, <2>1, <5>1
          <5>3. QED  BY <1>1, <5>2 DEF UnbilledOf
        <4> HIDE DEF known
        <4>3. QED  BY <2>4, <4>1, <4>2
      <3>2. CASE g # None
        <4>1. g \in Receipts /\ receipt[g] # Absent
          BY <1>3, <1>7, <1>8, <3>2 DEF DebtInv
        <4>2. known = Value(receipt[g].lines) /\ known \in Int
          BY <3>2, <4>1, ReceiptTyped DEF ReceivedAmount
        <4>3. ~\E c \in Bills : Open(c) /\ bill[c].receipt = g
          BY <1>3, <1>8, <1>9, <1>11, <2>1, <3>2 DEF BilledOnce
        <4>4. UnbilledOf[g] = known
          BY <4>1, <4>2, <4>3 DEF UnbilledOf
        <4>5. UnbilledOf'[g] = 0
          BY <1>3, <1>9, <2>1, <4>1 DEF UnbilledOf
        <4>6. \A x \in Receipts \ {g} : UnbilledOf'[x] = UnbilledOf[x]
          <5>1. \A x \in Receipts \ {g} :
                  (\E c \in Bills : Open(c)' /\ bill'[c].receipt = x)
                    <=> (\E c \in Bills : Open(c) /\ bill[c].receipt = x)
            BY <1>3, <1>8, <1>9, <2>1
          <5>2. QED  BY <1>1, <5>1 DEF UnbilledOf
        <4> HIDE DEF known, g
        <4>7. SumOn(UnbilledOf', Receipts) = SumOn(UnbilledOf, Receipts) - UnbilledOf[g] + UnbilledOf'[g]
          BY <2>4, <4>1, <4>5, <4>6, DocumentsAreFinite, SumChange
        <4>8. QED  BY <2>4, <4>2, <4>4, <4>5, <4>7
      <3>3. QED  BY <3>1, <3>2
    <2> HIDE DEF known, total
    <2>9. SumOn(advance', Advances) = SumOn(advance, Advances)
      BY <1>1
    <2>10. total \in Int /\ payable' = payable + total - known
      BY <1>1, <1>3
    <2>11. QED  BY <2>3, <2>4, <2>7, <2>8, <2>9, <2>10 DEF Debt
  <1>12. QED  BY <1>10, <1>11

\* A receipt is owed at what it is worth: no bill names it yet.
LEMMA ReceivedDebt ==
  ASSUME IInv, IInv', DebtInv, NEW r \in Requests, NEW o \in PurchaseOrders,
         NEW g \in Receipts, NEW delivery \in Deliveries, Receive(r, o, g, delivery)
  PROVE  DebtInv'
  <1> DEFINE lines == [p \in Products |-> delivery[p].sum]
             new == [order |-> o, lines |-> lines]
             worth == Value(lines)
  <1>1. /\ Answer(r) /\ receipt[g] = Absent
        /\ receipt' = [receipt EXCEPT ![g] = new]
        /\ payable' = payable + worth
        /\ UNCHANGED <<bill, advance>>
    BY DEF Receive, billVars
  <1>2. lines \in [Products -> Nat]
    BY PurchasingAssumption DEF DeliveryLine
  <1>3. new \in ReceiptRow /\ new # Absent /\ new.lines = lines
    BY <1>2 DEF ReceiptRow, Absent
  <1>4. worth \in Int
    BY <1>2, ValueTyped
  <1> HIDE DEF new, worth
  <1>5. /\ receipt' \in [Receipts -> ReceiptRow \cup {Absent}] /\ receipt'[g] = new
        /\ \A x \in Receipts \ {g} : receipt'[x] = receipt[x]
    BY <1>1, <1>3 DEF DebtInv
  <1>6. raced \subseteq raced'
    BY <1>1, AfterAnswer DEF IInv
  <1>7. \A s \in Requests, x \in Receipts : Doing(s, "bill", x)' => receipt'[x] # Absent
    BY <1>1, <1>3, <1>5, BillersKept
  <1>8. SUFFICES ASSUME NoBillRaced'
                 PROVE  /\ \A c \in Bills : bill'[c] # Absent /\ bill'[c].receipt # None
                                              => receipt'[bill'[c].receipt] # Absent
                        /\ BilledOnce' => payable' = Debt'
    BY <1>1, <1>5, <1>7 DEF DebtInv
  <1>9. \A c \in Bills : bill[c] # Absent /\ bill[c].receipt # None
                           => receipt[bill[c].receipt] # Absent /\ bill[c].receipt \in Receipts
    <2>1. NoBillRaced
      BY <1>6, <1>8 DEF NoBillRaced
    <2>2. \A c \in Bills : bill[c] # Absent => bill[c].receipt \in Receipts \cup {None}
      BY DEF IInv, BillInv, BillRow
    <2>3. QED  BY <2>1, <2>2 DEF DebtInv
  <1>10. \A c \in Bills : bill'[c] # Absent /\ bill'[c].receipt # None => receipt'[bill'[c].receipt] # Absent
    BY <1>1, <1>3, <1>5, <1>9
  <1>11. ASSUME BilledOnce' PROVE payable' = Debt'
    <2>1. payable = Debt
      BY <1>1, <1>6, <1>8, <1>11 DEF NoBillRaced, BilledOnce, Open, DebtInv
    <2>2. /\ \A x \in Receipts : UnbilledOf[x] \in Int
          /\ SumOn(BalanceOf, Bills) \in Int /\ SumOn(UnbilledOf, Receipts) \in Int
          /\ SumOn(advance, Advances) \in Int
      BY DebtTyped
    <2>3. BalanceOf' = BalanceOf
      BY <1>1 DEF BalanceOf, Open
    <2>4. \A x \in Receipts : (\E c \in Bills : Open(c)' /\ bill'[c].receipt = x)
                                 <=> (\E c \in Bills : Open(c) /\ bill[c].receipt = x)
      BY <1>1 DEF Open
    <2>5. UnbilledOf[g] = 0
      BY <1>1 DEF UnbilledOf
    <2>6. UnbilledOf'[g] = worth
      <3>1. ~\E c \in Bills : Open(c) /\ bill[c].receipt = g
        BY <1>1, <1>9, PurchasingAssumption DEF Open, Absent
      <3>2. UnbilledOf'[g] = Value(receipt'[g].lines)
        BY <1>3, <1>5, <2>4, <3>1 DEF UnbilledOf
      <3>3. QED  BY <1>3, <1>5, <3>2 DEF worth
    <2>7. \A x \in Receipts \ {g} : UnbilledOf'[x] = UnbilledOf[x]
      BY <1>5, <2>4 DEF UnbilledOf
    <2>8. SumOn(UnbilledOf', Receipts) = SumOn(UnbilledOf, Receipts) - UnbilledOf[g] + UnbilledOf'[g]
      BY <1>4, <2>2, <2>6, <2>7, DocumentsAreFinite, SumChange
    <2>9. SumOn(UnbilledOf', Receipts) = SumOn(UnbilledOf, Receipts) + worth
      BY <1>4, <2>2, <2>5, <2>6, <2>8
    <2>10. SumOn(BalanceOf', Bills) = SumOn(BalanceOf, Bills)
           /\ SumOn(advance', Advances) = SumOn(advance, Advances)
      BY <1>1, <2>3
    <2>11. QED  BY <1>1, <1>4, <2>1, <2>2, <2>9, <2>10 DEF Debt
  <1>12. QED  BY <1>10, <1>11

\* A payment that names no bill is set against what is owed.
LEMMA AdvancedDebt ==
  ASSUME IInv, IInv', DebtInv, NEW a \in Advances, NEW amount \in Payments, PayOnAccount(a, amount)
  PROVE  DebtInv'
  <1>1. /\ advance[a] = 0 /\ advance' = [advance EXCEPT ![a] = amount]
        /\ payable' = payable - amount /\ amount \in Nat
        /\ UNCHANGED <<receipt, bill, request, raced>>
    BY PurchasingAssumption DEF PayOnAccount, orderVars, requestVars
  <1>2. /\ advance' \in [Advances -> Nat] /\ advance'[a] = amount
        /\ \A x \in Advances \ {a} : advance'[x] = advance[x]
    BY <1>1 DEF DebtInv
  <1>3. BalanceOf' = BalanceOf /\ UnbilledOf' = UnbilledOf /\ (BilledOnce' <=> BilledOnce)
    BY <1>1 DEF BalanceOf, UnbilledOf, Open, BilledOnce
  <1>4. /\ \A x \in Advances : advance[x] \in Int
        /\ SumOn(BalanceOf, Bills) \in Int /\ SumOn(UnbilledOf, Receipts) \in Int
        /\ SumOn(advance, Advances) \in Int
    BY DebtTyped
  <1>5. SumOn(advance', Advances) = SumOn(advance, Advances) - advance[a] + advance'[a]
    <2>1. advance'[a] \in Int /\ \A x \in Advances \ {a} : advance'[x] = advance[x]
      BY <1>1, <1>2
    <2>2. /\ IsFiniteSet(Advances) /\ a \in Advances /\ \A x \in Advances : advance[x] \in Int
      BY <1>4, DocumentsAreFinite
    <2>3. QED  BY <2>1, <2>2, SumChange
  <1>6. SumOn(advance', Advances) = SumOn(advance, Advances) + amount
    BY <1>1, <1>2, <1>4, <1>5
  <1>7. Debt' = Debt - amount
    <2>1. SumOn(BalanceOf', Bills) = SumOn(BalanceOf, Bills)
          /\ SumOn(UnbilledOf', Receipts) = SumOn(UnbilledOf, Receipts)
      BY <1>3
    <2>2. QED  BY <1>1, <1>4, <1>6, <2>1 DEF Debt
  <1>8. NoBillRaced' /\ BilledOnce' => payable' = Debt'
    BY <1>1, <1>3, <1>7 DEF DebtInv, NoBillRaced
  <1>9. \A r \in Requests, g \in Receipts : Doing(r, "bill", g)' => receipt'[g] # Absent
    BY <1>1 DEF DebtInv, Doing
  <1>10. NoBillRaced' =>
           \A b \in Bills : bill'[b] # Absent /\ bill'[b].receipt # None => receipt'[bill'[b].receipt] # Absent
    BY <1>1 DEF DebtInv, NoBillRaced
  <1>11. receipt' \in [Receipts -> ReceiptRow \cup {Absent}]
    BY <1>1 DEF DebtInv
  <1>12. QED  BY <1>2, <1>8, <1>9, <1>10, <1>11 DEF DebtInv

\* A new bill is a draft: it owes nothing yet.
LEMMA CreatedDebt ==
  ASSUME IInv, IInv', DebtInv, NEW b \in Bills, bill[b] = Absent,
         NEW g \in Receipts \cup {None}, g # None => receipt[g] # Absent,
         NEW total \in Totals, SaveBill(b, NewBill(g, total)),
         UNCHANGED <<receipt, advance, payable>>, raced \subseteq raced',
         \A r \in Requests, x \in Receipts : Doing(r, "bill", x)' => receipt[x] # Absent
  PROVE  DebtInv'
  <1> DEFINE saved == NewBill(g, total)
  <1>1. bill' = [bill EXCEPT ![b] = saved]
    BY DEF SaveBill
  <1>2. saved.receipt = g /\ saved.status = "draft" /\ ~Open(b)
    BY DEF NewBill, Open, Absent
  <1> DEFINE amount == 0
  <1>3. amount \in Int /\ (payable \in Int => payable' = payable - amount)
    OBVIOUS
  <1>4. NoBillRaced' =>
          /\ saved.receipt # None => receipt[saved.receipt] # Absent
          /\ saved.status \in {"issued", "paid"} <=> Open(b)
          /\ Open(b) => saved.receipt = bill[b].receipt /\ saved.balance = bill[b].balance - amount
          /\ ~Open(b) => amount = 0
    BY <1>2
  <1> HIDE DEF saved, amount
  <1>5. QED  BY <1>1, <1>3, <1>4, BillKeptOpen

\* Cancelling a draft and paying an open bill save the bill that they read, if
\* no requests on it overlapped.
LEMMA ReviewedDebt ==
  ASSUME IInv, IInv', DebtInv, NEW r \in Requests, NEW b \in Bills,
         CancelBill(r, b) \/ \E amount \in Payments : Pay(r, b, amount)
  PROVE  DebtInv'
  <1>1. ASSUME HoldsBill(r, b), Answer(r), UNCHANGED <<receipt, advance>>,
               Loaded(r) # NotLoaded, NEW saved, bill' = [bill EXCEPT ![b] = Saved(r, bill[b], saved)],
               AddsUp(saved, b), saved.receipt = Copy(r).receipt,
               NEW amount \in Int, payable \in Int => payable' = payable - amount,
               saved.status \in {"issued", "paid"} <=> Copy(r).status = "issued",
               Copy(r).status = "issued" => saved.balance = Copy(r).balance - amount,
               Copy(r).status # "issued" => amount = 0
        PROVE  DebtInv'
    <2>1. BillCopy(r, b) /\ Copy(r).status \in {"issued", "draft"}
      BY <1>1 DEF IInv, BillInv, BillCopy
    <2>2. raced \subseteq raced' /\ (b \notin raced' => b \notin raced)
      BY <1>1, AfterAnswer DEF IInv
    <2>3. \A s \in Requests, x \in Receipts : Doing(s, "bill", x)' => receipt[x] # Absent
      BY <1>1, BillersKept
    <2>4. NoBillRaced' => NoBillRaced /\ Copy(r) = bill[b] /\ bill[b] # Absent /\ b \notin raced
      BY <2>1, <2>2 DEF NoBillRaced, BillCopy
    <2> DEFINE new == Saved(r, bill[b], saved)
    <2>7. NoBillRaced' => new = saved
      BY <1>1, <2>4, BillSavedWhole
    <2>8. bill' = [bill EXCEPT ![b] = new]
      BY <1>1
    <2> HIDE DEF new
    <2>5. NoBillRaced' =>
            /\ new.receipt # None => receipt[new.receipt] # Absent
            /\ new.status \in {"issued", "paid"} <=> Open(b)
            /\ Open(b) => new.receipt = bill[b].receipt /\ new.balance = bill[b].balance - amount
            /\ ~Open(b) => amount = 0
      BY <1>1, <2>1, <2>4, <2>7 DEF Open, DebtInv
    <2>6. QED  BY <1>1, <2>2, <2>3, <2>5, <2>8, BillKeptOpen
  <1>2. HoldsBill(r, b) => AddsUp(Copy(r), b) /\ Copy(r) \in BillRow
    BY DEF IInv, BillInv, BillCopy, AddsUp
  <1>3. CASE CancelBill(r, b)
    <2> DEFINE saved == [Copy(r) EXCEPT !.status = "cancelled"]
               amount == 0
    <2>1. /\ HoldsBill(r, b) /\ Answer(r) /\ UNCHANGED <<receipt, advance>>
          /\ bill' = [bill EXCEPT ![b] = Saved(r, bill[b], saved)]
          /\ Loaded(r) # NotLoaded /\ request[r].op = "cancel bill"
          /\ amount \in Int /\ (payable \in Int => payable' = payable - amount)
      <3>1. /\ HoldsBill(r, b) /\ Answer(r) /\ UNCHANGED <<receipt, advance, payable>>
            /\ bill' = [bill EXCEPT ![b] = Saved(r, bill[b], saved)]
          /\ Loaded(r) # NotLoaded /\ request[r].op = "cancel bill"
        BY <1>3 DEF CancelBill, SaveBill, Saving, Doing, HoldsBill, BillOperations, orderVars
      <3>2. amount \in Int /\ (payable \in Int => payable = payable - amount)
        OBVIOUS
      <3> HIDE DEF saved, amount
      <3>3. QED  BY <3>1, <3>2
    <2>2. Copy(r).status = "draft"
      BY <2>1 DEF IInv, BillInv, BillCopy
    <2>3. saved.receipt = Copy(r).receipt /\ saved.status = "cancelled" /\ AddsUp(saved, b)
      BY <1>2, <2>1 DEF AddsUp, BillRow
    <2>4. Copy(r).status # "issued" => amount = 0
      OBVIOUS
    <2> HIDE DEF saved, amount
    <2>5. QED  BY <1>1, <2>1, <2>2, <2>3, <2>4
  <1>4. ASSUME NEW amount \in Payments, Pay(r, b, amount)
        PROVE  DebtInv'
    <2> DEFINE saved == Paid(Copy(r), amount)
    <2>1. /\ HoldsBill(r, b) /\ Answer(r) /\ UNCHANGED <<receipt, advance>>
          /\ bill' = [bill EXCEPT ![b] = Saved(r, bill[b], saved)]
          /\ Loaded(r) # NotLoaded /\ request[r].op = "pay"
          /\ amount \in Int /\ (payable \in Int => payable' = payable - amount)
      BY <1>4, PurchasingAssumption DEF Pay, SaveBill, Saving, Doing, HoldsBill, BillOperations, orderVars
    <2>2. Copy(r).status = "issued"
      BY <2>1 DEF IInv, BillInv, BillCopy
    <2>3. /\ saved.receipt = Copy(r).receipt /\ saved.balance = Copy(r).balance - amount
          /\ saved.status \in {"issued", "paid"}
      BY <1>2, <2>1, <2>2 DEF BillRow, Paid
    <2>4. AddsUp(saved, b)
      <3>1. amount \in Nat /\ amount <= Copy(r).balance
        BY <1>4, PurchasingAssumption DEF Pay
      <3>2. /\ saved \in BillRow /\ saved.paid = Copy(r).paid + amount
            /\ saved.balance = Copy(r).balance - amount /\ saved.total = Copy(r).total
        BY <1>2, <2>1, <2>2, <3>1, PaidColumns
      <3> HIDE DEF saved
      <3>3. Copy(r).paid \in Nat /\ Copy(r).balance \in Nat /\ Copy(r).total \in Nat
        BY <1>2, <2>1 DEF BillRow
      <3>4. QED  BY <1>2, <2>1, <3>1, <3>2, <3>3 DEF AddsUp
    <2> HIDE DEF saved
    <2>5. QED  BY <1>1, <2>1, <2>2, <2>3, <2>4
  <1>5. QED  BY <1>3, <1>4

\* Every step of purchasing keeps the invariant.
LEMMA PurchasingKeepsDebt ==
  ASSUME IInv, IInv', DebtInv, PurchasingNext
  PROVE  DebtInv'
  <1>1. ASSUME NEW r \in Requests, Answer(r), UNCHANGED <<receipt, bill, advance, payable>>
        PROVE  DebtInv'
    <2>1. raced \subseteq raced'
      BY <1>1, AfterAnswer DEF IInv
    <2>2. QED  BY <1>1, <2>1, BillersKept, DebtUntouched
  <1>2. ASSUME NEW r \in Requests, NEW op, NEW d, NEW copy, Take(r, op, d, copy),
               op = "bill" /\ d \in Receipts => receipt[d] # Absent,
               UNCHANGED <<receipt, bill, advance, payable>>
        PROVE  DebtInv'
    <2>1. /\ request'[r] = [op |-> op, doc |-> d, copy |-> copy, loaded |-> NotLoaded]
          /\ \A s \in Requests \ {r} : request'[s] = request[s]
          /\ raced' = raced
      BY <1>2, AfterTake DEF IInv
    <2>2. \A s \in Requests, g \in Receipts : Doing(s, "bill", g)' => receipt[g] # Absent
      BY <1>2, <2>1 DEF Doing, DebtInv
    <2>3. QED  BY <1>2, <2>1, <2>2, DebtUntouched
  <1>3. ASSUME NEW r \in Requests, PurchasingRead(r), UNCHANGED purchaseVars
        PROVE  DebtInv'
    <2>1. ASSUME NEW op, NEW d, NEW copy, Take(r, op, d, copy), op # "bill"
          PROVE  DebtInv'
      BY <1>2, <1>3, <2>1 DEF purchaseVars, orderVars, billVars
    <2>2. ASSUME NEW o \in Used(PurchaseOrders),
                 ReadToApprove(r, o) \/ ReadToCancelOrder(r, o) \/ ReadToReceive(r, o)
          PROVE  DebtInv'
      <3>1. PICK op \in {"approve", "cancel order", "receive"} : Take(r, op, o, order[o])
        BY <2>2 DEF ReadToApprove, ReadToCancelOrder, ReadToReceive
      <3>2. QED  BY <2>1, <3>1
    <2>3. ASSUME NEW b \in Used(Bills), ReadToIssue(r, b) \/ ReadToCancelBill(r, b) \/ ReadToPay(r, b)
          PROVE  DebtInv'
      <3>1. PICK op \in {"issue", "cancel bill", "pay"} : Take(r, op, b, bill[b])
        BY <2>3 DEF ReadToIssue, ReadToCancelBill, ReadToPay
      <3>2. QED  BY <2>1, <3>1
    <2>4. ASSUME NEW g \in Used(Receipts), ReadToBill(r, g)
          PROVE  DebtInv'
      BY <1>2, <1>3, <2>4 DEF ReadToBill, purchaseVars, orderVars, billVars
    <2>5. QED  BY <1>3, <2>2, <2>3, <2>4 DEF PurchasingRead
  <1>4. ASSUME NEW r \in Requests, OrderCommit(r)
        PROVE  DebtInv'
    <2>1. PICK o \in PurchaseOrders :
            \/ Approve(r, o) \/ CancelOrder(r, o)
            \/ \E g \in Receipts, delivery \in Deliveries : Receive(r, o, g, delivery)
      BY <1>4 DEF OrderCommit, Used
    <2>2. CASE Approve(r, o) \/ CancelOrder(r, o)
      <3>1. Answer(r) /\ UNCHANGED <<receipt, bill, advance, payable>>
        BY <2>2 DEF Approve, CancelOrder, billVars
      <3>2. QED  BY <1>1, <3>1
    <2>3. QED  BY <2>1, <2>2, ReceivedDebt
  <1>5. ASSUME NEW r \in Requests, NEW b \in Bills, NEW g \in Receipts, NEW total \in Totals,
               BillReceipt(r, g, b, total)
        PROVE  DebtInv'
    <2>1. /\ bill[b] = Absent /\ SaveBill(b, NewBill(g, total)) /\ Answer(r)
          /\ UNCHANGED <<receipt, advance, payable>> /\ receipt[g] # Absent
      BY <1>5 DEF BillReceipt, orderVars, DebtInv
    <2>2. raced \subseteq raced'
      BY <2>1, AfterAnswer DEF IInv
    <2>3. \A s \in Requests, x \in Receipts : Doing(s, "bill", x)' => receipt[x] # Absent
      BY <2>1, BillersKept
    <2>4. QED  BY <2>1, <2>2, <2>3, CreatedDebt
  <1>6. ASSUME NEW r \in Requests, BillCommit(r)
        PROVE  DebtInv'
    BY <1>5, <1>6, IssuedDebt, ReviewedDebt DEF BillCommit, Used
  <1>7. ASSUME NEW b \in Bills, NEW total \in Totals, CreateBill(b, total)
        PROVE  DebtInv'
    <2>1. /\ bill[b] = Absent /\ SaveBill(b, NewBill(None, total))
          /\ UNCHANGED <<receipt, advance, payable, request, raced>>
      BY <1>7 DEF CreateBill, orderVars, requestVars
    <2>2. \A s \in Requests, x \in Receipts : Doing(s, "bill", x)' => receipt[x] # Absent
      BY <2>1 DEF Doing, DebtInv
    <2>3. QED  BY <2>1, <2>2, CreatedDebt
  <1>8. ASSUME NEW o \in PurchaseOrders, CreateOrder(o)
        PROVE  DebtInv'
    <2>1. UNCHANGED <<receipt, bill, advance, payable, request, raced>>
      BY <1>8 DEF CreateOrder, billVars, requestVars
    <2>2. \A s \in Requests, x \in Receipts : Doing(s, "bill", x)' => receipt[x] # Absent
      BY <2>1 DEF Doing, DebtInv
    <2>3. QED  BY <2>1, <2>2, DebtUntouched
  <1>9. ASSUME NEW r \in Requests, PurchasingLoad(r), UNCHANGED purchaseVars
        PROVE  DebtInv'
    <2>1. UNCHANGED <<receipt, bill, advance, payable>> /\ \E found : Load(r, found)
      BY <1>9 DEF PurchasingLoad, LoadOrder, LoadToReceive, LoadBill, LoadLocked, purchaseVars,
                  orderVars, billVars
    <2>2. /\ request'[r].op = request[r].op /\ request'[r].doc = request[r].doc
          /\ \A s \in Requests \ {r} : request'[s] = request[s]
          /\ raced' = raced
      BY <2>1, LoadKeeps DEF IInv
    <2>3. \A s \in Requests, x \in Receipts : Doing(s, "bill", x)' => receipt[x] # Absent
      BY <2>2 DEF Doing, DebtInv
    <2>4. QED  BY <2>1, <2>2, <2>3, DebtUntouched
  <1>10. QED  BY <1>3, <1>4, <1>6, <1>7, <1>8, <1>9, AdvancedDebt DEF PurchasingNext, Used

\* Steps of the other components leave receipts and bills alone.
LEMMA DebtUndisturbed ==
  ASSUME IInv, DebtInv, NEW D, QuietOutside(D), PurchasingIds \cap D = {},
         UNCHANGED <<orderVars, billVars, payable>>
  PROVE  DebtInv'
  <1>1. \A r \in Requests, g \in Receipts : Doing(r, "bill", g)' => receipt[g] # Absent
    <2>1. Receipts \in SUBSET Documents /\ Receipts \cap D = {}
      BY PurchasingAssumption DEF PurchasingIds
    <2>2. \A r \in Requests, g \in Receipts : request'[r].doc = g => request'[r] = request[r]
      BY <2>1, QuietRequest
    <2>3. QED  BY <2>2 DEF Doing, DebtInv
  <1>2. raced \subseteq raced' /\ UNCHANGED <<receipt, bill, advance, payable>>
    BY DEF QuietOutside, orderVars, billVars
  <1>3. QED  BY <1>1, <1>2, DebtUntouched

\* No step of any component breaks it.
LEMMA NextDebtInv == IInv /\ IInv' /\ DebtInv /\ [Next]_vars => DebtInv'
  <1> SUFFICES ASSUME IInv, IInv', DebtInv, [Next]_vars PROVE DebtInv'
    OBVIOUS
  <1>1. /\ PurchasingIds \cap ProductionOrders = {}
        /\ PurchasingIds \cap (HumanResourcesIds \cup CrmIds \cup Rows) = {}
    BY BackOfficeAssumption, SupplyAssumption DEF SupplyIds, PurchasingIds
  <1>2. ASSUME NEW D, Serves(D), PurchasingIds \cap D = {}, UNCHANGED <<orderVars, billVars, payable>>
        PROVE  DebtInv'
    BY <1>2, ServesIsQuiet, DebtUndisturbed DEF IInv
  <1>3. UNCHANGED supplyVars => UNCHANGED <<orderVars, billVars, payable>>
    BY DEF supplyVars, purchaseVars
  <1>4. CASE PurchasingNext
    BY <1>4, PurchasingKeepsDebt
  <1>5. CASE ProductionNext /\ UNCHANGED <<orderVars, billVars, payable>>
    BY <1>1, <1>2, <1>5, ProductionServes
  <1>6. CASE HumanResourcesNext /\ UNCHANGED supplyVars
    <2>1. Serves(HumanResourcesIds) /\ PurchasingIds \cap HumanResourcesIds = {}
      BY <1>1, <1>6, HumanResourcesServes
    <2>2. QED  BY <1>2, <1>3, <1>6, <2>1
  <1>7. CASE CrmNext /\ UNCHANGED supplyVars
    <2>1. Serves(CrmIds) /\ PurchasingIds \cap CrmIds = {}
      BY <1>1, <1>7, CrmServes
    <2>2. QED  BY <1>2, <1>3, <1>7, <2>1
  <1>8. CASE ValuationNext /\ UNCHANGED supplyVars
    <2>1. Serves(Rows) /\ PurchasingIds \cap Rows = {}
      BY <1>1, <1>8, ValuationServes DEF IInv
    <2>2. QED  BY <1>2, <1>3, <1>8, <2>1
  <1>9. CASE (UNCHANGED requestVars \/ \E r \in Requests : Rollback(r)) /\ UNCHANGED supplyVars
    <2>1. Serves({})
      BY <1>9 DEF Serves
    <2>2. QED  BY <1>2, <1>3, <1>9, <2>1
  <1>10. QED
    BY <1>4, <1>5, <1>6, <1>7, <1>8, <1>9 DEF Next, SupplyNext, vars

\* Orders and bills on which no requests overlapped record exactly what was
\* received and paid, such a bill is issued once, and, while all are of that kind
\* and no receipt is billed twice, the payables account is what the documents add
\* up to; no other bill is issued more often than requests are served at the same
\* time, for any documents, lines and amounts (receive, issue and record).
THEOREM PurchasesAreExact == Spec => []PurchasesExactWithoutRaces
  <1>1. Init => DebtInv
    <2> SUFFICES ASSUME Init PROVE DebtInv
      OBVIOUS
    <2>1. /\ receipt = [g \in Receipts |-> Absent] /\ bill = [b \in Bills |-> Absent]
          /\ advance = [a \in Advances |-> 0] /\ payable = 0
          /\ \A r \in Requests : request[r] = Idle
      BY DEF Init, SupplyInit, PurchasingInit, RequestInit
    <2>2. /\ \A b \in Bills : BalanceOf[b] = 0
          /\ \A g \in Receipts : UnbilledOf[g] = 0
          /\ \A a \in Advances : advance[a] = 0
      BY <2>1 DEF BalanceOf, UnbilledOf, Open, Absent
    <2>3. SumOn(BalanceOf, Bills) = 0 /\ SumOn(UnbilledOf, Receipts) = 0 /\ SumOn(advance, Advances) = 0
      BY <2>2, DocumentsAreFinite, SumZero
    <2>4. payable = Debt
      BY <2>1, <2>3 DEF Debt
    <2>5. QED  BY <2>1, <2>4, IdleRequest DEF DebtInv, Doing
  <1>2. Spec => []DebtInv
    BY <1>1, NextDebtInv, SpecIInv, PTL DEF Spec
  <1>3. ASSUME IInv
        PROVE  \A b \in Bills : issues[b] <= Cardinality(Requests)
    <2>1. ASSUME NEW b \in Bills
          PROVE  issues[b] <= Cardinality(Requests)
      <3>1. Cardinality(Issuing(b)) \in Nat /\ Cardinality(Requests) \in Nat /\ issues[b] \in Nat
        BY <1>3, IssuingIsFinite DEF IInv, BillInv
      <3>2. CASE issues[b] = 0
        BY <3>1, <3>2
      <3>3. CASE issues[b] # 0
        <4>1. bill[b] # Absent /\ bill[b].status # "draft"
          BY <1>3, <3>3 DEF IInv, BillInv, IssueInv
        <4>2. QED  BY <1>3, <3>1, <4>1 DEF IInv, IssueInv
      <3>4. QED  BY <3>2, <3>3
    <2>2. QED  BY <2>1
  <1>5. IInv /\ DebtInv => PurchasesExactWithoutRaces
    BY <1>3, OwedIsDebt DEF IInv, OrderInv, BillInv, DebtInv, NoBillRaced, PurchasesExactWithoutRaces
  <1>6. QED  BY <1>2, <1>5, SpecIInv, PTL

-----------------------------------------------------------------------------
(* What stock is worth                                                     *)

Worth == [i \in Rows |-> row[i].quantity * row[i].cost]

\* What stock is worth beyond what the account and the movements without an
\* entry explain.
Drift == SumOn(Worth, Rows) - inventory - unposted

\* Requests that are about to move a row hold costs; the account explains what
\* the rows are worth, but for the rounding.
WorthInv ==
  /\ row \in [Rows -> StockedRow]
  /\ inventory \in Int /\ unposted \in Int /\ rounding \in Nat
  /\ \A r \in Requests, i \in Rows : Doing(r, "sell", i) =>
       Copy(r).quantity \in Nat /\ Copy(r).cost \in Nat
  /\ \A r \in Requests, i \in Rows : Doing(r, "consume", i) =>
       Copy(r).recipe \in Recipes /\ Copy(r).cost \in Nat
  /\ -rounding <= 2 * Drift /\ 2 * Drift <= rounding

\* The worth of a row is an integer, and so is that of all.
LEMMA WorthTyped ==
  ASSUME WorthInv
  PROVE  /\ \A i \in Rows : Worth[i] \in Int
         /\ SumOn(Worth, Rows) \in Int
         /\ \A i \in Rows : row[i].quantity \in Nat /\ row[i].cost \in Nat
  <1>1. \A i \in Rows : row[i].quantity \in Nat /\ row[i].cost \in Nat
    BY DEF WorthInv, StockedRow
  <1>2. \A i \in Rows : Worth[i] \in Int
    BY <1>1 DEF Worth
  <1>3. QED  BY <1>1, <1>2, DocumentsAreFinite, SumInt

\* What InventoryExplained says.
LEMMA WorthInvMeans == WorthInv => InventoryExplained
  <1> SUFFICES ASSUME WorthInv PROVE InventoryExplained
    OBVIOUS
  <1>1. FoldFunction(+, 0, Worth) = SumOn(Worth, Rows)
    <2>1. DOMAIN Worth = Rows
      BY DEF Worth
    <2>2. QED  BY <2>1, SumOfFunction, Zenon
  <1>2. /\ -rounding <= 2 * (FoldFunction(+, 0, Worth) - inventory - unposted)
        /\ 2 * (FoldFunction(+, 0, Worth) - inventory - unposted) <= rounding
    BY <1>1, Zenon DEF WorthInv, Drift
  <1>3. QED  BY <1>2, Zenon DEF InventoryExplained, Worth

\* A quotient to the cent is off by half a cent at most, for each unit.
LEMMA QuotientIsClose ==
  ASSUME NEW total \in Nat, NEW quantity \in Nat \ {0}
  PROVE  /\ Quotient(total, quantity) \in Nat
         /\ -quantity <= 2 * (quantity * Quotient(total, quantity) - total)
         /\ 2 * (quantity * Quotient(total, quantity) - total) <= quantity
  <1> DEFINE n == 2 * total + quantity
             d == 2 * quantity
             q == Quotient(total, quantity)
  <1>1. n \in Nat /\ d \in Nat /\ d > 0
    OBVIOUS
  <1>2. q = n \div d
    BY DEF Quotient
  <1> HIDE DEF n, d, q
  <1>3. q \in Nat /\ d * q <= n /\ n < d * q + d
    BY <1>1, <1>2
  <1>4. quantity * q \in Int /\ d * q = 2 * (quantity * q)
    BY <1>3 DEF d
  <1>5. 2 * (quantity * q) <= 2 * total + quantity /\ 2 * total + quantity < 2 * (quantity * q) + 2 * quantity
    BY <1>3, <1>4 DEF n, d
  <1> DEFINE product == quantity * q
  <1>6. product \in Int /\ 2 * product <= 2 * total + quantity /\ 2 * total + quantity < 2 * product + 2 * quantity
    BY <1>4, <1>5
  <1> HIDE DEF product
  <1>7. -quantity <= 2 * (product - total) /\ 2 * (product - total) <= quantity
    BY <1>6
  <1>8. QED  BY <1>3, <1>7 DEF product, q

\* A mean is worth what it averages, but for the rounding.
LEMMA MeanIsClose ==
  ASSUME NEW i \in Rows, row[i].quantity \in Nat, row[i].cost \in Nat,
         NEW n \in Nat \ {0}, NEW cost \in Nat
  PROVE  LET gained == (row[i].quantity + n) * Mean(i, n, cost) - row[i].quantity * row[i].cost - n * cost
             error == IF row[i].quantity > 0 THEN row[i].quantity + n ELSE 0
         IN  Mean(i, n, cost) \in Nat /\ gained \in Int /\ -error <= 2 * gained /\ 2 * gained <= error
  <1> DEFINE had == row[i].quantity
             was == row[i].cost
             mean == Mean(i, n, cost)
  <1>1. CASE had = 0
    <2>1. mean = cost
      BY <1>1 DEF Mean
    <2>2. (had + n) * mean - had * was - n * cost = 0
      <3>1. had + n = n /\ had * was = 0
        BY <1>1
      <3> HIDE DEF had, mean
      <3>2. (had + n) * mean = n * cost /\ n * cost \in Int
        BY <2>1, <3>1
      <3>3. QED  BY <3>1, <3>2
    <2>3. QED  BY <1>1, <2>1, <2>2
  <1>2. CASE had > 0
    <2> DEFINE total == had * was + n * cost
               quantity == had + n
               gained == quantity * mean - had * was - n * cost
    <2>1. total \in Nat /\ quantity \in Nat \ {0} /\ had * was \in Int /\ n * cost \in Int
      BY <1>2
    <2>2. mean = Quotient(total, quantity)
      BY <1>2 DEF Mean
    <2> HIDE DEF total, quantity, mean
    <2>3. /\ mean \in Nat /\ -quantity <= 2 * (quantity * mean - total)
          /\ 2 * (quantity * mean - total) <= quantity
      BY <2>1, <2>2, QuotientIsClose
    <2>4. quantity * mean \in Int
      BY <2>1, <2>3
    <2>5. gained = quantity * mean - total /\ gained \in Int
      <3> DEFINE product == quantity * mean
      <3>1. product \in Int
        BY <2>4
      <3> HIDE DEF product
      <3>2. product - had * was - n * cost = product - total /\ product - had * was - n * cost \in Int
        BY <2>1, <3>1 DEF total
      <3>3. QED  BY <3>2 DEF product
    <2> HIDE DEF gained
    <2>6. -quantity <= 2 * gained /\ 2 * gained <= quantity /\ gained \in Int /\ mean \in Nat
      BY <2>3, <2>5
    <2>7. QED  BY <1>2, <2>6 DEF gained, quantity, mean
  <1>3. QED  BY <1>1, <1>2

\* So is what an inbound movement makes of a row, with what came without a cost.
LEMMA InboundIsClose ==
  ASSUME NEW i \in Rows, row[i].quantity \in Nat, row[i].cost \in Nat,
         NEW n \in Nat \ {0}, NEW cost \in Nat
  PROVE  LET new == Raised(i, n, AverageAfter(i, n, cost))
             gained == new.quantity * new.cost - row[i].quantity * row[i].cost
                         - n * cost - Gift(i, n, cost)
         IN  /\ new \in StockedRow /\ gained \in Int
             /\ Gift(i, n, cost) \in Int /\ MeanError(i, n, cost) \in Nat
             /\ -MeanError(i, n, cost) <= 2 * gained /\ 2 * gained <= MeanError(i, n, cost)
  <1> DEFINE had == row[i].quantity
             was == row[i].cost
             after == AverageAfter(i, n, cost)
             new == Raised(i, n, after)
             error == MeanError(i, n, cost)
             gift == Gift(i, n, cost)
             gained == (had + n) * after - had * was - n * cost - gift
  <1>1. CASE cost = 0
    <2>1. after = was /\ gift = n * was /\ error = 0 /\ n * cost = 0
      BY <1>1 DEF AverageAfter, Gift, MeanError
    <2>2. (had + n) * was = had * was + n * was /\ had * was \in Int /\ n * was \in Int
      OBVIOUS
    <2>3. gained = 0
      BY <2>1, <2>2
    <2>4. after \in Nat /\ gift \in Int
      BY <2>1, <2>2
    <2> HIDE DEF gained, gift, error, after
    <2>5. new \in StockedRow /\ new.quantity = had + n /\ new.cost = after
      BY <2>4 DEF Raised, StockedRow
    <2> HIDE DEF new
    <2>6. gained = new.quantity * new.cost - had * was - n * cost - gift
      BY <2>5 DEF gained
    <2>7. /\ new \in StockedRow /\ gained \in Int /\ gift \in Int /\ error \in Nat
          /\ -error <= 2 * gained /\ 2 * gained <= error
      BY <2>1, <2>3, <2>4, <2>5
    <2>8. QED  BY <2>6, <2>7 DEF new, gift, error, after
  <1>2. CASE cost > 0
    <2>1. after = Mean(i, n, cost) /\ gift = 0 /\ error = IF had > 0 THEN had + n ELSE 0
      BY <1>2 DEF AverageAfter, Gift, MeanError
    <2> DEFINE net == (had + n) * Mean(i, n, cost) - had * was - n * cost
    <2>2. Mean(i, n, cost) \in Nat /\ net \in Int /\ -error <= 2 * net /\ 2 * net <= error
      BY <2>1, MeanIsClose
    <2>3. gained = net
      <3> DEFINE product == (had + n) * Mean(i, n, cost)
      <3>1. product \in Int /\ had * was \in Int /\ n * cost \in Int
        BY <2>2
      <3> HIDE DEF product
      <3>2. product - had * was - n * cost - 0 = product - had * was - n * cost
        BY <3>1
      <3>3. QED  BY <2>1, <3>2 DEF product
    <2>4. error \in Nat
      BY <2>1
    <2> HIDE DEF gained, net, gift, error, after
    <2>5. new \in StockedRow /\ new.quantity = had + n /\ new.cost = after
      BY <2>1, <2>2 DEF Raised, StockedRow
    <2> HIDE DEF new
    <2>6. gained = new.quantity * new.cost - had * was - n * cost - gift
      BY <2>5 DEF gained
    <2>7. /\ new \in StockedRow /\ gained \in Int /\ gift \in Int /\ error \in Nat
          /\ -error <= 2 * gained /\ 2 * gained <= error
      BY <2>1, <2>2, <2>3, <2>4, <2>5
    <2>8. QED  BY <2>6, <2>7 DEF new, gift, error, after
  <1>3. QED  BY <1>1, <1>2

\* What a change of one row adds to what stock is worth.
LEMMA OneRowChanged ==
  ASSUME WorthInv, NEW i \in Rows, NEW new \in StockedRow, row' = [row EXCEPT ![i] = new]
  PROVE  /\ row' \in [Rows -> StockedRow] /\ new.quantity * new.cost \in Int
         /\ SumOn(Worth', Rows) = SumOn(Worth, Rows) - Worth[i] + new.quantity * new.cost
  <1>1. /\ row' \in [Rows -> StockedRow] /\ row'[i] = new
        /\ \A j \in Rows \ {i} : row'[j] = row[j]
    BY DEF WorthInv
  <1>2. new.quantity \in Nat /\ new.cost \in Nat
    BY DEF StockedRow
  <1>3. Worth'[i] = new.quantity * new.cost /\ Worth'[i] \in Int
    BY <1>1, <1>2 DEF Worth
  <1>4. \A j \in Rows \ {i} : Worth'[j] = Worth[j]
    BY <1>1 DEF Worth
  <1>5. SumOn(Worth', Rows) = SumOn(Worth, Rows) - Worth[i] + Worth'[i]
    BY <1>3, <1>4, WorthTyped, DocumentsAreFinite, SumChange
  <1>6. QED  BY <1>1, <1>3, <1>5

\* And a change of two.
LEMMA TwoRowsChanged ==
  ASSUME WorthInv, row' \in [Rows -> StockedRow], NEW i \in Rows, NEW j \in Rows, i # j,
         \A k \in Rows \ {i, j} : row'[k] = row[k]
  PROVE  /\ row'[i].quantity * row'[i].cost \in Int /\ row'[j].quantity * row'[j].cost \in Int
         /\ SumOn(Worth', Rows) = SumOn(Worth, Rows) - Worth[i] + row'[i].quantity * row'[i].cost
                                    - Worth[j] + row'[j].quantity * row'[j].cost
  <1> DEFINE new == row'[i]
             other == row'[j]
  <1> DEFINE half == [Worth EXCEPT ![i] = new.quantity * new.cost]
  <1>2. new.quantity \in Nat /\ new.cost \in Nat /\ other.quantity \in Nat /\ other.cost \in Nat
    BY DEF StockedRow
  <1>3. /\ Worth'[i] = new.quantity * new.cost /\ Worth'[i] \in Int
        /\ Worth'[j] = other.quantity * other.cost /\ Worth'[j] \in Int
    BY <1>2 DEF Worth
  <1>4. \A k \in Rows \ {i, j} : Worth'[k] = Worth[k]
    BY DEF Worth
  <1>5. half[i] = Worth'[i] /\ half[j] = Worth[j] /\ \A k \in Rows \ {i} : half[k] = Worth[k]
    BY <1>3 DEF Worth
  <1> HIDE DEF half
  <1>6. /\ \A k \in Rows : Worth[k] \in Int /\ half[k] \in Int
        /\ \A k \in Rows \ {j} : Worth'[k] = half[k]
    BY <1>3, <1>4, <1>5, WorthTyped
  <1>7. SumOn(half, Rows) = SumOn(Worth, Rows) - Worth[i] + half[i]
    BY <1>5, <1>6, DocumentsAreFinite, SumChange
  <1>8. SumOn(Worth', Rows) = SumOn(half, Rows) - half[j] + Worth'[j]
    BY <1>3, <1>6, DocumentsAreFinite, SumChange
  <1>9. SumOn(Worth, Rows) \in Int /\ Worth[i] \in Int /\ Worth[j] \in Int
    BY WorthTyped
  <1> DEFINE a == Worth'[i]
             b == Worth'[j]
  <1>10. a \in Int /\ b \in Int /\ half[i] = a /\ half[j] = Worth[j]
    BY <1>3, <1>5
  <1> HIDE DEF a, b
  <1>11. SumOn(Worth', Rows) = SumOn(Worth, Rows) - Worth[i] + a - Worth[j] + b
    BY <1>7, <1>8, <1>9, <1>10 DEF b
  <1>12. QED  BY <1>3, <1>11 DEF a, b

\* A movement whose worth its entry and what it gained explain, but for its
\* error, keeps the invariant.
LEMMA WorthMoved ==
  ASSUME WorthInv, row' \in [Rows -> StockedRow],
         NEW worth \in Int, SumOn(Worth', Rows) = SumOn(Worth, Rows) + worth,
         NEW posted \in Int, NEW gained \in Int, NEW error \in Nat,
         inventory' = inventory + posted, unposted' = unposted + gained, rounding' = rounding + error,
         -error <= 2 * (worth - posted - gained), 2 * (worth - posted - gained) <= error,
         \A r \in Requests, i \in Rows : Doing(r, "sell", i)' =>
           Copy(r)'.quantity \in Nat /\ Copy(r)'.cost \in Nat,
         \A r \in Requests, i \in Rows : Doing(r, "consume", i)' =>
           Copy(r)'.recipe \in Recipes /\ Copy(r)'.cost \in Nat
  PROVE  WorthInv'
  <1>1. SumOn(Worth, Rows) \in Int /\ inventory \in Int /\ unposted \in Int /\ rounding \in Nat
    BY WorthTyped DEF WorthInv
  <1>2. Drift \in Int /\ -rounding <= 2 * Drift /\ 2 * Drift <= rounding
    BY <1>1 DEF WorthInv, Drift
  <1>3. Drift' = Drift + (worth - posted - gained)
    BY <1>1 DEF Drift
  <1>4. /\ inventory' \in Int /\ unposted' \in Int /\ rounding' \in Nat
    BY <1>1
  <1>5. -rounding' <= 2 * Drift' /\ 2 * Drift' <= rounding'
    BY <1>1, <1>2, <1>3
  <1>6. QED  BY <1>4, <1>5 DEF WorthInv

\* What requests hold stays when one of them answers.
LEMMA CostsKept ==
  ASSUME RequestInv, WorthInv, UNCHANGED requestVars \/ \E r \in Requests : Answer(r)
  PROVE  /\ \A r \in Requests, i \in Rows : Doing(r, "sell", i)' =>
              Copy(r)'.quantity \in Nat /\ Copy(r)'.cost \in Nat
         /\ \A r \in Requests, i \in Rows : Doing(r, "consume", i)' =>
              Copy(r)'.recipe \in Recipes /\ Copy(r)'.cost \in Nat
  <1>1. CASE UNCHANGED requestVars
    BY <1>1 DEF requestVars, Doing, Copy, WorthInv
  <1>2. ASSUME NEW r \in Requests, Answer(r)
        PROVE  /\ \A s \in Requests, i \in Rows : Doing(s, "sell", i)' =>
                    Copy(s)'.quantity \in Nat /\ Copy(s)'.cost \in Nat
               /\ \A s \in Requests, i \in Rows : Doing(s, "consume", i)' =>
                    Copy(s)'.recipe \in Recipes /\ Copy(s)'.cost \in Nat
    BY <1>2, AfterAnswer, IdleRequest DEF Doing, Copy, WorthInv
  <1>3. QED  BY <1>1, <1>2

\* What leaves a row takes its average with it.
LEMMA LoweredIsExact ==
  ASSUME WorthInv, NEW i \in Rows, NEW n \in Nat, n <= row[i].quantity
  PROVE  /\ Lowered(i, n) \in StockedRow /\ n * row[i].cost \in Int
         /\ Lowered(i, n).quantity * Lowered(i, n).cost = Worth[i] - n * row[i].cost
  <1> DEFINE new == Lowered(i, n)
             q == row[i].quantity
             c == row[i].cost
  <1>1. row[i] \in StockedRow /\ q \in Nat /\ c \in Nat /\ Worth[i] = q * c
    BY DEF WorthInv, StockedRow, Worth
  <1>2. new = [row[i] EXCEPT !.quantity = q - n] /\ q - n \in Nat
    BY <1>1 DEF Lowered
  <1>3. new \in StockedRow /\ new.quantity = q - n /\ new.cost = c
    BY <1>1, <1>2 DEF StockedRow
  <1> HIDE DEF new, q, c
  <1>4. (q - n) * c = q * c - n * c /\ n * c \in Int
    BY <1>1, <1>2
  <1>5. QED  BY <1>1, <1>3, <1>4 DEF new, c

\* The parts of a movement.
LEMMA MoveParts ==
  ASSUME NEW rows, NEW posted, NEW gained, NEW error, Move(rows, posted, gained, error)
  PROVE  /\ row' = rows /\ inventory' = inventory + posted
         /\ unposted' = unposted + gained /\ rounding' = rounding + error
  BY DEF Move

\* An inbound movement adds what it posts and gains.
LEMMA InboundWorth ==
  ASSUME RequestInv, WorthInv, NEW i \in Rows, NEW n \in Nat \ {0}, NEW cost \in Nat,
         NEW posted \in Int, NEW gained \in Int,
         Move(Inbound(i, n, cost), posted, gained, MeanError(i, n, cost)),
         posted + gained = n * cost + Gift(i, n, cost), UNCHANGED requestVars
  PROVE  WorthInv'
  <1> DEFINE new == Raised(i, n, AverageAfter(i, n, cost))
             was == row[i].quantity * row[i].cost
             net == new.quantity * new.cost - was - n * cost - Gift(i, n, cost)
             error == MeanError(i, n, cost)
             worth == new.quantity * new.cost - was
             gift == Gift(i, n, cost)
  <1>1. row[i].quantity \in Nat /\ row[i].cost \in Nat
    BY WorthTyped
  <1>2. /\ new \in StockedRow /\ net \in Int /\ gift \in Int /\ error \in Nat
        /\ -error <= 2 * net /\ 2 * net <= error
    BY <1>1, InboundIsClose
  <1>3. /\ row' = [row EXCEPT ![i] = new] /\ inventory' = inventory + posted
        /\ unposted' = unposted + gained /\ rounding' = rounding + error
    BY DEF Move, Inbound
  <1> HIDE DEF new
  <1>4. /\ row' \in [Rows -> StockedRow] /\ new.quantity * new.cost \in Int
        /\ SumOn(Worth', Rows) = SumOn(Worth, Rows) - Worth[i] + new.quantity * new.cost
    BY <1>2, <1>3, OneRowChanged
  <1>5. Worth[i] = was /\ was \in Int /\ SumOn(Worth, Rows) \in Int
    BY <1>1, WorthTyped DEF Worth
  <1> HIDE DEF error, gift, was
  <1>6. worth \in Int /\ SumOn(Worth', Rows) = SumOn(Worth, Rows) + worth
    BY <1>4, <1>5
  <1>7. worth - posted - gained = net
    <2> DEFINE value == new.quantity * new.cost
               price == n * cost
    <2>1. value \in Int /\ price \in Int /\ posted + gained = price + gift
      BY <1>4 DEF gift
    <2> HIDE DEF value, price
    <2>2. value - was - posted - gained = value - was - price - gift
      BY <1>2, <1>5, <2>1
    <2>3. QED  BY <2>2 DEF value, price, gift
  <1> HIDE DEF net, worth
  <1>8. -error <= 2 * (worth - posted - gained) /\ 2 * (worth - posted - gained) <= error
    BY <1>2, <1>7
  <1>9. /\ \A r \in Requests, j \in Rows : Doing(r, "sell", j)' =>
             Copy(r)'.quantity \in Nat /\ Copy(r)'.cost \in Nat
        /\ \A r \in Requests, j \in Rows : Doing(r, "consume", j)' =>
             Copy(r)'.recipe \in Recipes /\ Copy(r)'.cost \in Nat
    BY CostsKept
  <1>10. QED  BY <1>2, <1>3, <1>4, <1>6, <1>8, <1>9, WorthMoved

\* Movements by hand are not posted, receipts are, and a return is posted at the
\* cost it finds.
LEMMA AddedWorth ==
  ASSUME RequestInv, WorthInv, NEW i \in Rows, NEW n \in Units,
         \/ \E cost \in Costs : AddByHand(i, n, cost) \/ ReceiveGoods(i, n, cost)
         \/ CreditSale(i, n)
  PROVE  WorthInv'
  <1>1. n \in Nat \ {0} /\ Costs \subseteq Nat
    BY ValuationAssumption
  <1>2. row[i].quantity \in Nat /\ row[i].cost \in Nat
    BY WorthTyped
  <1>3. ASSUME NEW cost \in Costs
        PROVE  n * cost \in Int /\ Gift(i, n, cost) \in Int
    BY <1>1, <1>2 DEF Gift
  <1>4. ASSUME NEW cost \in Costs, ReceiveGoods(i, n, cost)
        PROVE  WorthInv'
    <2>1. /\ Move(Inbound(i, n, cost), n * cost, Gift(i, n, cost), MeanError(i, n, cost))
          /\ UNCHANGED requestVars /\ cost \in Nat
      BY <1>1, <1>4 DEF ReceiveGoods
    <2>2. n * cost \in Int /\ Gift(i, n, cost) \in Int
      BY <1>3
    <2>3. QED  BY <1>1, <2>1, <2>2, InboundWorth
  <1>5. ASSUME NEW cost \in Costs, AddByHand(i, n, cost)
        PROVE  WorthInv'
    <2> DEFINE gained == n * cost + Gift(i, n, cost)
    <2>1. /\ Move(Inbound(i, n, cost), 0, gained, MeanError(i, n, cost))
          /\ UNCHANGED requestVars /\ cost \in Nat
      BY <1>1, <1>5 DEF AddByHand
    <2>2. gained \in Int /\ 0 \in Int /\ 0 + gained = n * cost + Gift(i, n, cost)
      BY <1>3
    <2> HIDE DEF gained
    <2>3. QED  BY <1>1, <2>1, <2>2, InboundWorth
  <1>6. CASE CreditSale(i, n)
    <2>1. PICK cost \in FoundCosts(i) :
            Move(Inbound(i, n, 0), n * cost, n * (row[i].cost - cost), 0)
      BY <1>6 DEF CreditSale
    <2>2. cost \in Nat
      BY WorthTyped, ValuationAssumption DEF FoundCosts
    <2> DEFINE posted == n * cost
               gained == n * (row[i].cost - cost)
    <2>3. /\ posted \in Int /\ gained \in Int
          /\ posted + gained = n * row[i].cost /\ n * row[i].cost \in Int
      BY <1>1, <1>2, <2>2
    <2>4. n * 0 + Gift(i, n, 0) = n * row[i].cost /\ MeanError(i, n, 0) = 0
      BY <1>1, <2>3 DEF Gift, MeanError
    <2>5. Move(Inbound(i, n, 0), posted, gained, MeanError(i, n, 0)) /\ UNCHANGED requestVars
      BY <1>6, <2>1, <2>4 DEF CreditSale
    <2> HIDE DEF posted, gained
    <2>6. posted + gained = n * 0 + Gift(i, n, 0)
      BY <2>3, <2>4
    <2>7. QED  BY <1>1, <2>3, <2>5, <2>6, InboundWorth
  <1>7. QED  BY <1>4, <1>5, <1>6

\* A movement that lowers one row.
LEMMA LoweredWorth ==
  ASSUME RequestInv, WorthInv, NEW i \in Rows, NEW n \in Nat, n <= row[i].quantity,
         NEW posted \in Int, NEW gained \in Int,
         Move([row EXCEPT ![i] = Lowered(i, n)], posted, gained, 0),
         posted + gained = -(n * row[i].cost),
         UNCHANGED requestVars \/ \E r \in Requests : Answer(r)
  PROVE  WorthInv'
  <1> DEFINE new == Lowered(i, n)
             worth == -(n * row[i].cost)
  <1>1. /\ new \in StockedRow /\ worth \in Int
        /\ new.quantity * new.cost = Worth[i] - n * row[i].cost
    BY LoweredIsExact
  <1>2. /\ row' = [row EXCEPT ![i] = new] /\ inventory' = inventory + posted
        /\ unposted' = unposted + gained /\ rounding' = rounding + 0
    BY DEF Move
  <1> HIDE DEF new
  <1>3. /\ row' \in [Rows -> StockedRow]
        /\ SumOn(Worth', Rows) = SumOn(Worth, Rows) - Worth[i] + new.quantity * new.cost
    BY <1>1, <1>2, OneRowChanged
  <1>4. SumOn(Worth, Rows) \in Int /\ Worth[i] \in Int
    BY WorthTyped
  <1>5. SumOn(Worth', Rows) = SumOn(Worth, Rows) + worth
    <2> DEFINE out == n * row[i].cost
    <2>1. out \in Int /\ new.quantity * new.cost = Worth[i] - out
      BY <1>1, LoweredIsExact
    <2> HIDE DEF out
    <2>2. SumOn(Worth', Rows) = SumOn(Worth, Rows) + (-out)
      BY <1>3, <1>4, <2>1
    <2>3. QED  BY <2>2 DEF out
  <1>6. worth - posted - gained = 0
    BY <1>1
  <1> HIDE DEF worth
  <1> DEFINE error == 0
  <1>7. error \in Nat /\ -error <= 2 * (worth - posted - gained) /\ 2 * (worth - posted - gained) <= error
    BY <1>6
  <1>8. rounding' = rounding + error
    BY <1>2
  <1>9. /\ \A r \in Requests, j \in Rows : Doing(r, "sell", j)' =>
             Copy(r)'.quantity \in Nat /\ Copy(r)'.cost \in Nat
        /\ \A r \in Requests, j \in Rows : Doing(r, "consume", j)' =>
             Copy(r)'.recipe \in Recipes /\ Copy(r)'.cost \in Nat
    BY CostsKept
  <1> HIDE DEF error
  <1>10. QED  BY <1>1, <1>2, <1>3, <1>5, <1>7, <1>8, <1>9, WorthMoved

\* Sales are posted at the cost that their request read, and movements by hand
\* not at all.
LEMMA TakenWorth ==
  ASSUME RequestInv, WorthInv, NEW i \in Rows,
         \/ \E n \in Units : TakeByHand(i, n)
         \/ \E r \in Requests : Sell(r, i)
  PROVE  WorthInv'
  <1>1. ASSUME NEW n \in Units, TakeByHand(i, n)
        PROVE  WorthInv'
    <2> DEFINE gained == -(n * row[i].cost)
    <2>1. n \in Nat /\ n <= row[i].quantity /\ UNCHANGED requestVars
          /\ Move([row EXCEPT ![i] = Lowered(i, n)], 0, gained, 0)
      BY <1>1, ValuationAssumption DEF TakeByHand
    <2>2. gained \in Int /\ 0 \in Int /\ 0 + gained = -(n * row[i].cost)
      BY <2>1, LoweredIsExact
    <2> HIDE DEF gained
    <2>3. QED  BY <2>1, <2>2, LoweredWorth
  <1>2. ASSUME NEW r \in Requests, Sell(r, i)
        PROVE  WorthInv'
    <2> DEFINE n == Copy(r).quantity
               cost == Copy(r).cost
               posted == -(n * cost)
               gained == n * (cost - row[i].cost)
    <2>1. /\ Doing(r, "sell", i) /\ n <= row[i].quantity /\ Answer(r)
          /\ Move([row EXCEPT ![i] = Lowered(i, n)], posted, gained, 0)
      BY <1>2 DEF Sell
    <2>2. n \in Nat /\ cost \in Nat /\ row[i].cost \in Nat
      BY <2>1, WorthTyped DEF WorthInv
    <2> HIDE DEF n, cost
    <2>3. posted \in Int /\ gained \in Int /\ posted + gained = -(n * row[i].cost)
      BY <2>2
    <2> HIDE DEF posted, gained
    <2>4. QED  BY <2>1, <2>2, <2>3, LoweredWorth
  <1>3. QED  BY <1>1, <1>2

\* What is transferred arrives at the average of its origin.
LEMMA TransferredWorth ==
  ASSUME RequestInv, WorthInv, NEW i \in Rows, NEW j \in Rows, i # j, NEW n \in Units, Transfer(i, j, n)
  PROVE  WorthInv'
  <1> DEFINE cost == row[i].cost
             new == Lowered(i, n)
             mean == Mean(j, n, cost)
             other == Raised(j, n, mean)
             was == row[j].quantity * row[j].cost
             net == (row[j].quantity + n) * mean - was - n * cost
             error == IF row[j].quantity > 0 THEN row[j].quantity + n ELSE 0
             out == n * cost
             in == other.quantity * other.cost
             worth == in - was - out
  <1>1. /\ n \in Nat \ {0} /\ n <= row[i].quantity /\ UNCHANGED requestVars
        /\ row' = [row EXCEPT ![i] = new, ![j] = other]
        /\ inventory' = inventory + 0 /\ unposted' = unposted + 0 /\ rounding' = rounding + error
    BY ValuationAssumption DEF Transfer, Move
  <1>2. row[j].quantity \in Nat /\ row[j].cost \in Nat /\ cost \in Nat
    BY WorthTyped
  <1>3. /\ new \in StockedRow /\ out \in Int
        /\ new.quantity * new.cost = Worth[i] - out
    BY <1>1, LoweredIsExact
  <1>4. mean \in Nat /\ net \in Int /\ -error <= 2 * net /\ 2 * net <= error
    BY <1>1, <1>2, MeanIsClose
  <1>5. error \in Nat
    BY <1>1, <1>2
  <1>6. other \in StockedRow /\ other.quantity = row[j].quantity + n /\ other.cost = mean
    BY <1>1, <1>2, <1>4 DEF Raised, StockedRow
  <1>7. net = in - was - out
    BY <1>6
  <1>8. Worth[j] = was /\ was \in Int /\ SumOn(Worth, Rows) \in Int /\ Worth[i] \in Int
    BY <1>2, WorthTyped DEF Worth
  <1> HIDE DEF new, other, mean, error, net, was, out
  <1>9. /\ row' \in [Rows -> StockedRow] /\ in \in Int
        /\ SumOn(Worth', Rows) = SumOn(Worth, Rows) - Worth[i] + new.quantity * new.cost - Worth[j] + in
    <2>1. /\ row' \in [Rows -> StockedRow] /\ row'[i] = new /\ row'[j] = other
          /\ \A k \in Rows \ {i, j} : row'[k] = row[k]
      BY <1>1, <1>3, <1>6 DEF WorthInv
    <2>2. QED  BY <2>1, TwoRowsChanged
  <1> HIDE DEF in
  <1>10. worth \in Int /\ SumOn(Worth', Rows) = SumOn(Worth, Rows) + worth
    BY <1>3, <1>8, <1>9
  <1> DEFINE none == 0
  <1>11. worth - none - none = net /\ none \in Int
    BY <1>7, <1>10
  <1>12. inventory' = inventory + none /\ unposted' = unposted + none
    BY <1>1
  <1> HIDE DEF worth, none
  <1>13. -error <= 2 * (worth - none - none) /\ 2 * (worth - none - none) <= error
    BY <1>4, <1>11
  <1>14. /\ \A r \in Requests, k \in Rows : Doing(r, "sell", k)' =>
              Copy(r)'.quantity \in Nat /\ Copy(r)'.cost \in Nat
         /\ \A r \in Requests, k \in Rows : Doing(r, "consume", k)' =>
              Copy(r)'.recipe \in Recipes /\ Copy(r)'.cost \in Nat
    BY <1>1, CostsKept
  <1>15. QED  BY <1>1, <1>5, <1>9, <1>10, <1>11, <1>12, <1>13, <1>14, WorthMoved

\* What a production order makes comes in at the cost of its materials, as its
\* request read it, and the value added.
LEMMA ConsumedWorth ==
  ASSUME RequestInv, WorthInv, NEW r \in Requests, Consume(r)
  PROVE  WorthInv'
  <1> DEFINE recipe == Copy(r).recipe
             from == recipe.from
             to == recipe.to
             needs == recipe.needs
             makes == recipe.makes
             material == needs * Copy(r).cost
             total == material + recipe.value
             unit == Quotient(total, makes)
             new == Raised(to, makes, AverageAfter(to, makes, unit))
             lower == Lowered(from, needs)
             gift == Gift(to, makes, unit)
             close == MeanError(to, makes, unit)
             was == row[to].quantity * row[to].cost
             in == new.quantity * new.cost
             out == needs * row[from].cost
             output == makes * unit
             net == in - was - output - gift
             worth == in - was - out
             posted == total - material
             gained == material - out + gift
             error == makes + close
  <1>1. /\ Doing(r, "consume", from) /\ Answer(r) /\ needs <= row[from].quantity
        /\ row' = [Inbound(to, makes, unit) EXCEPT ![from] = lower]
        /\ inventory' = inventory + posted /\ unposted' = unposted + gained
        /\ rounding' = rounding + error
    BY DEF Consume, Move
  <1>2. recipe \in Recipes /\ Copy(r).cost \in Nat
    <2>1. from \in Rows
      BY <1>1 DEF Doing, RequestInv
    <2>2. QED  BY <1>1, <2>1 DEF WorthInv
  <1>3. /\ from \in Rows /\ to \in Rows /\ from # to
        /\ needs \in Nat /\ makes \in Nat \ {0} /\ recipe.value \in Nat
    BY <1>2, ValuationAssumption DEF Recipe
  <1>4. row[to].quantity \in Nat /\ row[to].cost \in Nat /\ row[from].cost \in Nat
    BY <1>3, WorthTyped
  <1> HIDE DEF recipe
  <1>5. material \in Nat /\ total \in Nat
    BY <1>2, <1>3
  <1> HIDE DEF from, to, needs, makes, material, total
  <1>6. /\ unit \in Nat /\ -makes <= 2 * (output - total) /\ 2 * (output - total) <= makes
    BY <1>3, <1>5, QuotientIsClose
  <1> HIDE DEF unit
  <1>7. /\ new \in StockedRow /\ net \in Int /\ gift \in Int /\ close \in Nat
        /\ -close <= 2 * net /\ 2 * net <= close
    BY <1>3, <1>4, <1>6, InboundIsClose
  <1>8. /\ lower \in StockedRow /\ out \in Int
        /\ lower.quantity * lower.cost = Worth[from] - out
    BY <1>1, <1>3, LoweredIsExact
  <1>9. row' = [row EXCEPT ![to] = new, ![from] = lower]
    BY <1>1 DEF Inbound
  <1>10. Worth[to] = was /\ was \in Int /\ SumOn(Worth, Rows) \in Int /\ Worth[from] \in Int
    BY <1>3, <1>4, WorthTyped DEF Worth
  <1>11. output \in Int
    BY <1>3, <1>6
  <1> HIDE DEF new, lower, gift, close, was, out, output
  <1>12. /\ row' \in [Rows -> StockedRow] /\ in \in Int
         /\ SumOn(Worth', Rows) = SumOn(Worth, Rows) - Worth[to] + in
                                    - Worth[from] + lower.quantity * lower.cost
    <2>1. /\ row' \in [Rows -> StockedRow] /\ row'[to] = new /\ row'[from] = lower
          /\ \A k \in Rows \ {to, from} : row'[k] = row[k]
      BY <1>3, <1>7, <1>8, <1>9 DEF WorthInv
    <2>2. QED  BY <1>3, <2>1, TwoRowsChanged
  <1> HIDE DEF in
  <1>13. worth \in Int /\ SumOn(Worth', Rows) = SumOn(Worth, Rows) + worth
    BY <1>8, <1>10, <1>12
  <1>14. posted \in Int /\ gained \in Int /\ error \in Nat
    BY <1>3, <1>5, <1>7, <1>8
  <1>15. worth - posted - gained = net + (output - total)
    BY <1>5, <1>7, <1>8, <1>10, <1>11, <1>12
  <1>16. -error <= 2 * (net + (output - total)) /\ 2 * (net + (output - total)) <= error
    <2> HIDE DEF net
    <2>1. QED  BY <1>3, <1>5, <1>6, <1>7, <1>11
  <1> HIDE DEF worth, posted, gained, error, net
  <1>17. -error <= 2 * (worth - posted - gained) /\ 2 * (worth - posted - gained) <= error
    BY <1>15, <1>16
  <1>18. /\ \A s \in Requests, k \in Rows : Doing(s, "sell", k)' =>
              Copy(s)'.quantity \in Nat /\ Copy(s)'.cost \in Nat
         /\ \A s \in Requests, k \in Rows : Doing(s, "consume", k)' =>
              Copy(s)'.recipe \in Recipes /\ Copy(s)'.cost \in Nat
    BY <1>1, CostsKept
  <1>19. QED  BY <1>1, <1>12, <1>13, <1>14, <1>17, <1>18, WorthMoved

\* A step that leaves the rows and the account alone, and the requests on rows.
LEMMA WorthUntouched ==
  ASSUME WorthInv, UNCHANGED valuationVars,
         \A r \in Requests, i \in Rows : Doing(r, "sell", i)' =>
           Copy(r)'.quantity \in Nat /\ Copy(r)'.cost \in Nat,
         \A r \in Requests, i \in Rows : Doing(r, "consume", i)' =>
           Copy(r)'.recipe \in Recipes /\ Copy(r)'.cost \in Nat
  PROVE  WorthInv'
  <1>1. Worth' = Worth
    BY DEF valuationVars, Worth
  <1>2. Drift' = Drift
    BY <1>1 DEF valuationVars, Drift
  <1>3. QED  BY <1>2 DEF valuationVars, WorthInv

\* Every step of ValuationNext keeps the invariant.
LEMMA ValuationKeepsWorth ==
  ASSUME RequestInv, WorthInv, ValuationNext
  PROVE  WorthInv'
  <1>1. \A i \in Rows : \A cost \in FoundCosts(i) : cost \in Nat
    BY WorthTyped, ValuationAssumption DEF FoundCosts
  <1>2. ASSUME NEW r \in Requests, NEW i \in Rows, NEW op \in {"sell", "consume"}, NEW copy,
               Take(r, op, i, copy), UNCHANGED valuationVars, copy.cost \in Nat,
               op = "sell" => copy.quantity \in Nat, op = "consume" => copy.recipe \in Recipes
        PROVE  WorthInv'
    <2>1. /\ request'[r] = [op |-> op, doc |-> i, copy |-> copy, loaded |-> NotLoaded]
          /\ \A s \in Requests \ {r} : request'[s] = request[s]
      BY <1>2, AfterTake
    <2>2. /\ \A s \in Requests, k \in Rows : Doing(s, "sell", k)' =>
               Copy(s)'.quantity \in Nat /\ Copy(s)'.cost \in Nat
          /\ \A s \in Requests, k \in Rows : Doing(s, "consume", k)' =>
               Copy(s)'.recipe \in Recipes /\ Copy(s)'.cost \in Nat
      BY <1>2, <2>1 DEF Doing, Copy, WorthInv
    <2>3. QED  BY <1>2, <2>2, WorthUntouched
  <1>3. ASSUME NEW r \in Requests, NEW i \in Rows, NEW n \in Units, ReadToSell(r, i, n),
               UNCHANGED valuationVars
        PROVE  WorthInv'
    <2>1. PICK cost \in FoundCosts(i) : Take(r, "sell", i, [quantity |-> n, cost |-> cost])
      BY <1>3 DEF ReadToSell
    <2>2. cost \in Nat /\ n \in Nat
      BY <1>1, ValuationAssumption
    <2> DEFINE copy == [quantity |-> n, cost |-> cost]
    <2>3. copy.cost \in Nat /\ copy.quantity \in Nat /\ Take(r, "sell", i, copy)
      BY <2>1, <2>2
    <2> HIDE DEF copy
    <2>4. QED  BY <1>2, <1>3, <2>3
  <1>4. ASSUME NEW r \in Requests, NEW recipe \in Recipes, ReadToConsume(r, recipe),
               UNCHANGED valuationVars
        PROVE  WorthInv'
    <2>1. recipe.from \in Rows
      BY ValuationAssumption DEF Recipe
    <2>2. PICK cost \in FoundCosts(recipe.from) :
            Take(r, "consume", recipe.from, [recipe |-> recipe, cost |-> cost])
      BY <1>4 DEF ReadToConsume
    <2>3. cost \in Nat
      BY <1>1, <2>1
    <2> DEFINE copy == [recipe |-> recipe, cost |-> cost]
    <2>4. copy.cost \in Nat /\ copy.recipe \in Recipes /\ Take(r, "consume", recipe.from, copy)
      BY <2>2, <2>3
    <2> HIDE DEF copy
    <2>5. QED  BY <1>2, <1>4, <2>1, <2>4
  <1>5. ASSUME NEW i \in Rows, NEW j \in Rows, NEW n \in Units, <<i, j>> \in Transfers, Transfer(i, j, n)
        PROVE  WorthInv'
    <2>1. i # j
      BY <1>5, ValuationAssumption
    <2>2. QED  BY <1>5, <2>1, TransferredWorth
  <1>6. UsedRecipes \subseteq Recipes /\ Used(Rows) \subseteq Rows
    BY DEF UsedRecipes, Used
  <1>7. QED  BY <1>3, <1>4, <1>5, <1>6, AddedWorth, TakenWorth, ConsumedWorth DEF ValuationNext

\* Steps of the other components leave the rows and the requests on them alone.
LEMMA WorthUndisturbed ==
  ASSUME WorthInv, NEW D, QuietOutside(D), Rows \cap D = {}, UNCHANGED valuationVars
  PROVE  WorthInv'
  <1>1. Rows \in SUBSET Documents
    BY ValuationAssumption
  <1>2. \A r \in Requests, i \in Rows : request'[r].doc = i => request'[r] = request[r]
    BY <1>1, QuietRequest
  <1>3. /\ \A r \in Requests, i \in Rows : Doing(r, "sell", i)' =>
             Copy(r)'.quantity \in Nat /\ Copy(r)'.cost \in Nat
        /\ \A r \in Requests, i \in Rows : Doing(r, "consume", i)' =>
             Copy(r)'.recipe \in Recipes /\ Copy(r)'.cost \in Nat
    BY <1>2 DEF Doing, Copy, WorthInv
  <1>4. QED  BY <1>3, WorthUntouched

\* No step of any component breaks it.
LEMMA NextWorthInv == IInv /\ WorthInv /\ [Next]_vars => WorthInv'
  <1> SUFFICES ASSUME IInv, WorthInv, [Next]_vars PROVE WorthInv'
    OBVIOUS
  <1>1. /\ Rows \cap PurchasingIds = {} /\ Rows \cap ProductionOrders = {}
        /\ Rows \cap HumanResourcesIds = {} /\ Rows \cap CrmIds = {} /\ Rows \cap {} = {}
    BY BackOfficeAssumption DEF SupplyIds, PurchasingIds
  <1>2. ASSUME NEW D, Serves(D), Rows \cap D = {}, UNCHANGED valuationVars
        PROVE  WorthInv'
    BY <1>2, ServesIsQuiet, WorthUndisturbed DEF IInv
  <1>3. CASE ValuationNext
    BY <1>3, ValuationKeepsWorth DEF IInv
  <1>4. CASE SupplyNext /\ UNCHANGED valuationVars
    BY <1>1, <1>2, <1>4, PurchasingServes, ProductionServes DEF SupplyNext
  <1>5. CASE HumanResourcesNext /\ UNCHANGED valuationVars
    BY <1>1, <1>2, <1>5, HumanResourcesServes
  <1>6. CASE CrmNext /\ UNCHANGED valuationVars
    BY <1>1, <1>2, <1>6, CrmServes
  <1>7. CASE (UNCHANGED requestVars \/ \E r \in Requests : Rollback(r)) /\ UNCHANGED valuationVars
    <2>1. Serves({})
      BY <1>7 DEF Serves
    <2>2. QED  BY <1>1, <1>2, <1>7, <2>1
  <1>8. QED  BY <1>3, <1>4, <1>5, <1>6, <1>7 DEF Next, vars

\* Whatever receipts, sales, returns, transfers, completions and movements by
\* hand follow or overlap, stock is worth what the inventory account says, but
\* for what the movements without an entry and stale costs gained, and half a
\* cent for each unit that entered an average (applyStockMovement,
\* transferStock, applyOutbound, applyReturn and complete).
THEOREM StockIsWorthItsAccount == Spec => []InventoryExplained
  <1>1. Init => WorthInv
    <2> SUFFICES ASSUME Init PROVE WorthInv
      OBVIOUS
    <2>1. /\ row = [i \in Rows |-> Missing] /\ inventory = 0 /\ unposted = 0 /\ rounding = 0
          /\ \A r \in Requests : request[r] = Idle
      BY DEF Init, ValuationInit, RequestInit
    <2>2. row \in [Rows -> StockedRow] /\ \A i \in Rows : Worth[i] = 0
      BY <2>1 DEF Missing, StockedRow, Worth
    <2>3. SumOn(Worth, Rows) = 0
      BY <2>2, DocumentsAreFinite, SumZero
    <2>4. Drift = 0
      BY <2>1, <2>3 DEF Drift
    <2>5. QED  BY <2>1, <2>2, <2>4, IdleRequest DEF WorthInv, Doing
  <1>2. Spec => []WorthInv
    BY <1>1, NextWorthInv, SpecIInv, PTL DEF Spec
  <1>3. QED  BY <1>2, WorthInvMeans, PTL
=============================================================================
