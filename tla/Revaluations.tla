---------------------------- MODULE Revaluations ----------------------------
(***************************************************************************)
(* Foreign-currency invoices and supplier bills of one currency: what they *)
(* put in their account, receivable or payable, in the functional currency *)
(* when they are issued and paid, and the entries that revalue them at a   *)
(* later rate.                                                             *)
(*                                                                         *)
(* A revaluation is one transaction that walks through the open invoices   *)
(* and then the bills.  It reads without locks until its first posting,    *)
(* which locks the journal's series to the end, as every posting does.     *)
(* A payment of an invoice holds its row, and is a single step.  Nobody    *)
(* locks a bill: issuing and paying one save a copy read before.           *)
(* Amounts are in the smallest unit of money, rates in halves: every       *)
(* conversion is rounded, half upwards.                                    *)
(***************************************************************************)
EXTENDS Integers, Sequences, Functions

CONSTANTS
  ForeignInvoices,
  Bills,
  Total,        \* the total of each document
  Rates,        \* the rates of exchange there can be, in halves
  PaidAmounts,  \* the payments clients make
  Requests,     \* requests served at the same time
  MaxEntries    \* bound: none of them starts while there are so many entries

Documents == ForeignInvoices \cup Bills

None == 0  \* no rate, no document

ASSUME RevaluationsAssumption ==
  /\ ForeignInvoices \cap Bills = {}
  /\ Total \in [Documents -> Nat \ {0}]
  /\ Rates \subseteq Nat \ {None}
  /\ PaidAmounts \subseteq Nat \ {0}
  /\ MaxEntries \in Nat

VARIABLES
  book,     \* invoices and supplier_bills: balance and booked rate
  account,  \* by document, what all entries about it add up to in its account
  entries,  \* the entries with reference type fx_revaluation
  run,      \* by request, how far its revaluation or reversal is
  saving,   \* by request, how far it is with the bill it issues or pays
  raced,    \* documents that two requests revalued, or issued and paid, at the same time
  valued    \* by document, the rate of its last revaluation, until a payment

bookVars == <<book, account, entries, run, saving, raced, valued>>

\* rate = None until the document is issued, and balance = 0.
Book == [rate : Rates \cup {None}, balance : Nat, payments : Nat]

\* reversals: how many entries reverse this one; its status is posted if none.
Entry == [doc : Documents, amount : Int, reversals : Nat]

NoRow == [doc |-> None, balance |-> 0]

NoRun == [phase |-> "idle", holdsSeries |-> FALSE, read |-> {}]

NoSaving == [phase |-> "idle", doc |-> None]

RevaluationsInit ==
  /\ book = [d \in Documents |-> [rate |-> None, balance |-> 0, payments |-> 0]]
  /\ account = [d \in Documents |-> 0]
  /\ entries = <<>>
  /\ run = [r \in Requests |-> NoRun]
  /\ saving = [r \in Requests |-> NoSaving]
  /\ raced = {}
  /\ valued = [d \in Documents |-> None]

\* round2(amount * rate)
Converted(amount, rate) == (amount * rate + 1) \div 2

Posted(d) == {n \in DOMAIN entries : entries[n].doc = d /\ entries[n].reversals = 0}

\* What entries add up to.
Sum(ns) == FoldFunctionOnSet(+, 0, [n \in DOMAIN entries |-> entries[n].amount], ns)

In(r, phase) == run[r].phase = phase

Holds(r, phase) == saving[r].phase = phase

IsFree(r) == In(r, "idle") /\ Holds(r, "idle")

\* Only a revaluation holds the series over several steps.
SeriesIsFree == \A r \in Requests : ~run[r].holdsSeries

-----------------------------------------------------------------------------
(* InvoicesService                                                         *)

Issue(d, rate) ==
  /\ book[d].rate = None
  /\ SeriesIsFree
  /\ book' = [book EXCEPT ![d] = [rate |-> rate, balance |-> Total[d], payments |-> 0]]
  /\ account' = [account EXCEPT ![d] = Converted(Total[d], rate)]
  /\ UNCHANGED <<entries, run, saving, raced, valued>>

\* Whatever the rate of the day, the payment settles at the booked rate; the
\* difference is a gain or a loss.
Pay(d, amount) ==
  /\ amount <= book[d].balance
  /\ SeriesIsFree
  /\ book' = [book EXCEPT ![d].balance = @ - amount, ![d].payments = @ + 1]
  /\ account' = [account EXCEPT ![d] = @ - Converted(amount, book[d].rate)]
  /\ valued' = [valued EXCEPT ![d] = None]
  /\ UNCHANGED <<entries, run, saving, raced>>

-----------------------------------------------------------------------------
(* SupplierBillsService.issue and SupplierPaymentsService.record           *)

SetSaving(r, state) ==
  saving' = [saving EXCEPT ![r] = state] /\ UNCHANGED <<book, account, entries, run, raced, valued>>

\* The end of a request that held a copy of bill d.
Saved(r, d) ==
  /\ saving' = [saving EXCEPT ![r] = NoSaving]
  /\ raced' = raced \cup {e \in {d} : \E other \in Requests \ {r} : saving[other].doc = e}
  /\ UNCHANGED <<entries, run>>

ReadToIssueBill(r, d) ==
  /\ IsFree(r)
  /\ book[d].rate = None
  /\ SetSaving(r, [phase |-> "issue", doc |-> d])

\* The number comes from the series of the bills, which is held to the end.
\* Then save looks which columns of the row differ from the copy.
LoadToIssueBill(r, rate) ==
  /\ Holds(r, "issue")
  /\ \A other \in Requests : ~Holds(other, "issuing")
  /\ SetSaving(r, [phase |-> "issuing", doc |-> saving[r].doc, rate |-> rate,
                   loaded |-> book[saving[r].doc]])

\* The UPDATE of these columns, and the posting.
IssueBill(r) ==
  LET d == saving[r].doc
      loaded == saving[r].loaded
      rate == saving[r].rate
  IN  /\ Holds(r, "issuing")
      /\ SeriesIsFree
      /\ book' = [book EXCEPT ![d] =
           [rate |-> IF loaded.rate = rate THEN @.rate ELSE rate,
            balance |-> IF loaded.balance = Total[d] THEN @.balance ELSE Total[d],
            payments |-> @.payments]]
      /\ account' = [account EXCEPT ![d] = @ + Converted(Total[d], rate)]
      /\ valued' = [valued EXCEPT ![d] = None]
      /\ Saved(r, d)

ReadToPayBill(r, d, amount) ==
  /\ IsFree(r)
  /\ book[d].rate # None
  /\ amount <= book[d].balance
  /\ SetSaving(r, [phase |-> "pay", doc |-> d, amount |-> amount, copy |-> book[d]])

\* The posting comes before the save and holds the series: no other bill is
\* saved from then on, and the row becomes the copy.
PayBill(r) ==
  LET d == saving[r].doc
      copy == saving[r].copy
      amount == saving[r].amount
  IN  /\ Holds(r, "pay")
      /\ SeriesIsFree
      /\ book' = [book EXCEPT ![d] =
           [rate |-> copy.rate, balance |-> copy.balance - amount, payments |-> @.payments + 1]]
      /\ account' = [account EXCEPT ![d] = @ - Converted(amount, copy.rate)]
      /\ valued' = [valued EXCEPT ![d] = None]
      /\ Saved(r, d)

-----------------------------------------------------------------------------
(* RevaluationsService                                                     *)

SetRun(r, state) ==
  run' = [run EXCEPT ![r] = state] /\ UNCHANGED <<book, account, entries, saving, raced, valued>>

Start(r, rate) ==
  /\ IsFree(r)
  /\ Len(entries) < MaxEntries
  /\ SetRun(r, [phase |-> "list", rate |-> rate, kind |-> ForeignInvoices, doc |-> NoRow,
                todo |-> {}, read |-> {}, holdsSeries |-> FALSE, reversed |-> {}, posted |-> <<>>])

\* find reads the balances of all documents of a kind.
List(r) ==
  LET listed == {[doc |-> d, balance |-> book[d].balance] : d \in {d \in run[r].kind : book[d].rate # None}}
  IN  /\ In(r, "list")
      /\ SetRun(r, [run[r] EXCEPT !.phase = "next", !.todo = listed, !.read = @ \cup listed])

Booked(row) == Converted(row.balance, book[row.doc].rate)

Target(r, row) == Converted(row.balance, run[r].rate)

Done(r, row) == [run[r] EXCEPT !.phase = "next", !.todo = @ \ {row}, !.doc = NoRow]

\* priorAdjustment: the document has its value already, or goes on.
Consider(r) ==
  /\ In(r, "next")
  /\ \E row \in run[r].todo :
       SetRun(r, IF Booked(row) + Sum(Posted(row.doc)) = Target(r, row) THEN Done(r, row)
                 ELSE [run[r] EXCEPT !.phase = "prior", !.doc = row])

\* reversePrior reads the posted entries again.
ReadPrior(r) ==
  /\ In(r, "prior")
  /\ SetRun(r, [run[r] EXCEPT !.phase = "post", !.reversed = @ \cup Posted(run[r].doc.doc)])

\* A mistake the runs must notice: the difference from what was posted before,
\* which is reversed all the same.
Difference(r, row) == Target(r, row) - Booked(row) - Sum(Posted(row.doc))

Adjustment(r, row) == Target(r, row) - Booked(row)

\* The reversals and the new entry; their numbers come from the series.
PostAdjustment(r) ==
  LET row == run[r].doc
      adjustment == Adjustment(r, row)
      reverses == \E n \in run[r].reversed : entries[n].doc = row.doc
  IN  /\ In(r, "post")
      /\ reverses \/ adjustment # 0 => SeriesIsFree \/ run[r].holdsSeries
      /\ SetRun(r, [Done(r, row) EXCEPT
           !.holdsSeries = @ \/ reverses \/ adjustment # 0,
           !.posted = IF adjustment = 0 THEN @
                      ELSE Append(@, [doc |-> row.doc, amount |-> adjustment, reversals |-> 0])])

NextKind(r) ==
  /\ In(r, "next") /\ run[r].todo = {} /\ run[r].kind = ForeignInvoices
  /\ SetRun(r, [run[r] EXCEPT !.phase = "list", !.kind = Bills])

\* The documents that a request has read and not yet answered for.
Reading(r) == {row.doc : row \in run[r].read}

Raced(r) == raced \cup (Reading(r) \cap UNION {Reading(other) : other \in Requests \ {r}})

\* A mistake the runs must notice: the entries reversed keep their status.
StillPosted(ns) == entries

Marked(ns) ==
  [n \in DOMAIN entries |-> IF n \in ns THEN [entries[n] EXCEPT !.reversals = @ + 1] ELSE entries[n]]

\* What the entries of request r about document d change in its account.
Change(r, d) ==
  LET new(n) == run[r].posted[n]
      added == {n \in DOMAIN run[r].posted : new(n).doc = d}
  IN  FoldFunctionOnSet(+, 0, [n \in DOMAIN run[r].posted |-> new(n).amount], added)
        - Sum({n \in run[r].reversed : entries[n].doc = d})

CommitRun(r) ==
  /\ In(r, "next") /\ run[r].todo = {} /\ run[r].kind = Bills
  /\ entries' = Marked(run[r].reversed) \o run[r].posted
  /\ account' = [d \in Documents |-> account[d] + Change(r, d)]
  /\ valued' = [d \in Documents |->
       IF [doc |-> d, balance |-> book[d].balance] \in run[r].read THEN run[r].rate
       ELSE IF d \in Reading(r) THEN None ELSE valued[d]]
  /\ raced' = Raced(r)
  /\ run' = [run EXCEPT ![r] = NoRun]
  /\ UNCHANGED <<book, saving>>

-----------------------------------------------------------------------------
(* JournalEntriesService.reverse, of one of these entries                  *)

ReadToReverse(r, n) ==
  /\ IsFree(r)
  /\ entries[n].reversals = 0
  /\ SetRun(r, [phase |-> "reverse", entry |-> n, holdsSeries |-> FALSE,
                read |-> {[doc |-> entries[n].doc, balance |-> 0]}])

ReverseEntry(r) ==
  LET n == run[r].entry
      d == entries[n].doc
  IN  /\ In(r, "reverse")
      /\ SeriesIsFree
      /\ entries' = Marked({n})
      /\ account' = [account EXCEPT ![d] = @ - entries[n].amount]
      /\ valued' = [valued EXCEPT ![d] = None]
      /\ raced' = Raced(r)
      /\ run' = [run EXCEPT ![r] = NoRun]
      /\ UNCHANGED <<book, saving>>

\* The period is closed, there is no rate, a statement fails, or the server
\* stops: the transaction rolls back.
Rollback(r) ==
  \/ ~In(r, "idle") /\ SetRun(r, NoRun)
  \/ ~Holds(r, "idle") /\ SetSaving(r, NoSaving)

RevaluationsNext ==
  \/ \E d \in ForeignInvoices :
       \/ \E rate \in Rates : Issue(d, rate)
       \/ \E amount \in PaidAmounts : Pay(d, amount)
  \/ \E r \in Requests :
       \/ \E d \in Bills :
            \/ ReadToIssueBill(r, d)
            \/ \E amount \in PaidAmounts : ReadToPayBill(r, d, amount)
       \/ \E rate \in Rates : LoadToIssueBill(r, rate)
       \/ IssueBill(r) \/ PayBill(r)
       \/ \E rate \in Rates : Start(r, rate)
       \/ \E n \in DOMAIN entries : ReadToReverse(r, n)
       \/ List(r) \/ Consider(r) \/ ReadPrior(r) \/ PostAdjustment(r) \/ NextKind(r) \/ CommitRun(r)
       \/ ReverseEntry(r) \/ Rollback(r)

RevaluationsSpec == RevaluationsInit /\ [][RevaluationsNext]_bookVars

-----------------------------------------------------------------------------

\* Payments are rounded one by one: each can leave a unit in the account.
Near(d, amount) ==
  LET error == account[d] - amount
  IN  -book[d].payments <= error /\ error <= book[d].payments

\* The account of a document is its balance at the booked rate and at most one
\* adjustment, whatever revaluations, manual reversals and payments overlap or
\* fail, unless two revaluations or reversals overlapped on it, or two requests
\* that issue or pay it, if it is a bill (run and reversePrior,
\* RevaluationsService; recordPayment, InvoicesService; issue and record of
\* SupplierBillsService and SupplierPaymentsService, which do not lock the bill).
AccountExplained ==
  \A d \in Documents \ raced : book[d].rate # None =>
    \E ns \in SUBSET Posted(d) :
      /\ ns = Posted(d) /\ \A m, n \in ns : m = n
      /\ Near(d, Converted(book[d].balance, book[d].rate) + Sum(ns))

\* After a revaluation, and until the next payment or manual reversal, a
\* document stands in its account at the rate of the revaluation, however often
\* it was revalued or paid before and although the balance was read before the
\* series was locked (run, RevaluationsService); again unless requests overlapped
\* on the document as above.
RevaluedToRate ==
  \A d \in Documents \ raced : valued[d] # None =>
    Near(d, Converted(book[d].balance, valued[d]))

\* Revaluations can be repeated: "idempotent re-runs, automatic reversal of prior
\* revaluations" (docs/SPEC.md:263), so a document has one adjustment in force.
OneAdjustment == \A d \in Documents : \A m, n \in Posted(d) : m = n

\* "settlement realizes the FX gain and the next revaluation clears the
\* receivable" (fx-revaluation.e2e-spec.ts): a document that is paid, revalued
\* and was never raced has nothing left in its account.
PaidIsCleared ==
  \A d \in Documents \ raced :
    book[d].payments > 0 /\ book[d].balance = 0 /\ valued[d] # None => account[d] = 0
=============================================================================
