------------------------------ MODULE Journal ------------------------------
(***************************************************************************)
(* The general ledger: accounting periods, the number series of journal    *)
(* entries, postings and reversals.                                        *)
(*                                                                         *)
(* Invoices, payments, receipts, bills, payrolls and production post their *)
(* entries with postJournalEntry inside their own transaction; manual      *)
(* entries and reversals do nothing else.  A request below is any of them, *)
(* from the period it resolves to the commit.  The period is read without  *)
(* a lock, and inserted if it is the month's first entry; the series row   *)
(* is locked to the end of the transaction.                                *)
(*                                                                         *)
(* The lines of an entry are checked before anything is read or written,   *)
(* so an entry that does not balance never becomes a request here.         *)
(***************************************************************************)
EXTENDS Integers, Sequences

CONSTANTS
  Months,     \* the periods entry dates fall in
  Workers,    \* the requests served at the same time
  MaxEntries  \* bound: no request starts while there are so many entries

ASSUME JournalAssumption == MaxEntries \in Nat

VARIABLES
  period,   \* accounting_periods: by month, its committed status
  entries,  \* journal_entries, in the order of their commits
  series,   \* document_series.next_number of the journal
  worker    \* by worker, the request it serves and how far it is

vars == <<period, entries, series, worker>>

\* reverses is the number of the entry this one reverses, 0 for none.
Entry == [number : Nat \ {0}, month : Months, reverses : Nat, reversedBy : Nat]

Idle == [phase |-> "idle"]
Closing == [phase : {"close"}, month : Months]
Posting == [phase : {"period", "insert", "number", "save"}, month : Months,
            reverses : Nat, inserted : BOOLEAN, number : Nat]

\* Every table keeps its shape, and a request is a posting, a closing or nothing
\* (accounting.ts, periods.service.ts).
TypeOK ==
  /\ period \in [Months -> {"none", "open", "closed"}]
  /\ entries \in Seq(Entry)
  /\ series \in Nat \ {0}
  /\ worker \in [Workers -> Posting \cup Closing \cup {Idle}]

Init ==
  /\ period = [m \in Months |-> "none"]
  /\ entries = <<>>
  /\ series = 1
  /\ worker = [w \in Workers |-> Idle]

SetWorker(w, state) == worker' = [worker EXCEPT ![w] = state]

In(w, phase) == worker[w].phase = phase

tables == <<period, entries, series>>

-----------------------------------------------------------------------------
(* postJournalEntry within a document's transaction.                       *)

Begin(w, m, n) ==
  /\ worker[w] = Idle
  /\ Len(entries) < MaxEntries
  /\ SetWorker(w, [phase |-> "period", month |-> m, reverses |-> n,
                   inserted |-> FALSE, number |-> 0])
  /\ UNCHANGED tables

\* A document or a manual entry.
Post(w, m) == Begin(w, m, 0)

\* reverse: the entry is read and its status checked before the transaction;
\* the reversal is dated today.
ReadToReverse(w, n, m) == entries[n].reversedBy = 0 /\ Begin(w, m, n)

\* A mistake the runs must notice: the status of the period is not looked at.
FindAnyPeriod(w) ==
  /\ In(w, "period")
  /\ SetWorker(w, [worker[w] EXCEPT
       !.phase = IF period[worker[w].month] = "none" THEN "insert" ELSE "number"])
  /\ UNCHANGED tables

\* resolvePeriod, a plain select of what others have committed: the entry goes
\* on, or the period is to be inserted.
FindPeriod(w) ==
  /\ In(w, "period")
  /\ \/ period[worker[w].month] = "open" /\ SetWorker(w, [worker[w] EXCEPT !.phase = "number"])
     \/ period[worker[w].month] = "none" /\ SetWorker(w, [worker[w] EXCEPT !.phase = "insert"])
  /\ UNCHANGED tables

\* The transaction is rolled back and the request refused.
Rollback(w) == SetWorker(w, Idle) /\ UNCHANGED tables

\* JournalEntryPeriodClosedError.
Refuse(w) == In(w, "period") /\ period[worker[w].month] = "closed" /\ Rollback(w)

\* The uncommitted insert of another transaction, for which this one waits.
InsertedElsewhere(w) ==
  \E v \in Workers \ {w} : /\ In(v, "number") \/ In(v, "save")
                           /\ worker[v].inserted /\ worker[v].month = worker[w].month

InsertPeriod(w) ==
  /\ In(w, "insert")
  /\ period[worker[w].month] = "none" /\ ~InsertedElsewhere(w)
  /\ SetWorker(w, [worker[w] EXCEPT !.phase = "number", !.inserted = TRUE])
  /\ UNCHANGED tables

\* A mistake the runs must notice: the insert is tried again, not the select.
RetryInsert(w) ==
  In(w, "insert") /\ period[worker[w].month] # "none" /\ UNCHANGED vars

\* The unique index on the month refuses the second insert.
RefuseDuplicate(w) ==
  In(w, "insert") /\ period[worker[w].month] # "none" /\ Rollback(w)

\* A mistake the runs must notice: the series is read without a lock.
ReadSeries(w) ==
  /\ In(w, "number")
  /\ SetWorker(w, [worker[w] EXCEPT !.phase = "save", !.number = series])
  /\ UNCHANGED tables

\* nextDocumentNumber: the row stays locked until the transaction ends.
LockSeries(w) ==
  /\ In(w, "number")
  /\ \A v \in Workers : ~In(v, "save")
  /\ SetWorker(w, [worker[w] EXCEPT !.phase = "save", !.number = series])
  /\ UNCHANGED tables

NewEntry(w) ==
  [number |-> worker[w].number, month |-> worker[w].month,
   reverses |-> worker[w].reverses, reversedBy |-> 0]

\* A mistake the runs must notice: the entry reversed is left as it was.
LeftPosted(w) == entries

\* reverse: the reversed entry gets its mark in the transaction of the reversal,
\* over the mark it may have got since it was read.
Marked(w) ==
  [n \in DOMAIN entries |->
    IF n = worker[w].reverses THEN [entries[n] EXCEPT !.reversedBy = worker[w].number]
    ELSE entries[n]]

Commit(w) ==
  /\ In(w, "save")
  /\ entries' = Append(Marked(w), NewEntry(w))
  /\ series' = worker[w].number + 1
  /\ period' = [period EXCEPT ![worker[w].month] = IF worker[w].inserted THEN "open" ELSE @]
  /\ SetWorker(w, Idle)

\* An account that does not exist, a later step of the document, or a crash.
Fail(w) == worker[w] # Idle /\ Rollback(w)

-----------------------------------------------------------------------------
(* Closing a period: a read and a save, with no transaction around them.   *)

ReadToClose(w, m) ==
  /\ worker[w] = Idle /\ period[m] = "open"
  /\ SetWorker(w, [phase |-> "close", month |-> m])
  /\ UNCHANGED tables

Close(w) ==
  /\ In(w, "close")
  /\ period' = [period EXCEPT ![worker[w].month] = "closed"]
  /\ SetWorker(w, Idle)
  /\ UNCHANGED <<entries, series>>

-----------------------------------------------------------------------------

Next ==
  \E w \in Workers :
    \/ \E m \in Months : Post(w, m)
    \/ \E m \in Months, n \in DOMAIN entries : ReadToReverse(w, n, m)
    \/ FindPeriod(w)
    \/ Refuse(w)
    \/ InsertPeriod(w)
    \/ RefuseDuplicate(w)
    \/ LockSeries(w)
    \/ Commit(w)
    \/ Fail(w)
    \/ \E m \in Months : ReadToClose(w, m)
    \/ Close(w)

Spec == Init /\ [][Next]_vars

\* A request runs to its end; PostgreSQL wakes those that wait for a row or for
\* an insert in turn.
Fairness ==
  \A w \in Workers :
    /\ WF_vars(FindPeriod(w) \/ Refuse(w) \/ Commit(w) \/ Close(w))
    /\ SF_vars(InsertPeriod(w) \/ RefuseDuplicate(w))
    /\ SF_vars(LockSeries(w))

FairSpec == Spec /\ Fairness

-----------------------------------------------------------------------------
(* Properties.                                                             *)

\* Whatever overlaps or fails, the entries are numbered 1, 2, 3 ... in the order
\* of their commits: a number is neither used twice nor lost
\* (nextDocumentNumber, document-numbering.ts).
NumbersAreGapless ==
  /\ \A n \in DOMAIN entries : entries[n].number = n
  /\ series = Len(entries) + 1

\* An entry that has a reversal is marked reversed, by the latest one; and its
\* mark names an entry that reverses it (reverse, journal-entries.service.ts).
ReversalsMatch ==
  \A n, r \in DOMAIN entries :
    /\ entries[n].reverses = r => entries[r].reversedBy >= n
    /\ entries[n].reversedBy = r => entries[r].reverses = n

\* The postings of a month that found its period open, or made it.
Admitted(m) ==
  {w \in Workers : worker[w].phase \in {"insert", "number", "save"} /\ worker[w].month = m}

EntriesOf(m) == {n \in DOMAIN entries : entries[n].month = m}

\* A closed period stays closed and gains only the entries whose postings had
\* already read it as open: no other posting joins them (resolvePeriod,
\* accounting.ts).
ClosedMonthsDrain ==
  [][\A m \in Months : period[m] = "closed" =>
       /\ period'[m] = "closed"
       /\ Admitted(m)' \subseteq Admitted(m)
       /\ EntriesOf(m)' # EntriesOf(m) => Admitted(m)' # Admitted(m)]_vars

\* Every request is answered: the waits for a period being inserted and for the
\* series end (resolvePeriod, nextDocumentNumber).
RequestsEnd == \A w \in Workers : (worker[w] # Idle) ~> (worker[w] = Idle)
=============================================================================
