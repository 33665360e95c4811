------------------------------ MODULE StockTx ------------------------------
(***************************************************************************)
(* The transactions that make several stock operations, statement by       *)
(* statement, as concurrent requests interleave them on PostgreSQL.        *)
(*                                                                         *)
(* Each operation of services/stock.ts selects its row FOR UPDATE, decides *)
(* on what it read, and saves.  A row lock is held to the end of the       *)
(* transaction, and a row that does not exist is not locked: two           *)
(* transactions may both read nothing and insert it, and the unique index  *)
(* of product_stock lets one of them pass.  Transactions lock rows in the  *)
(* order of their document's lines, so they can wait for each other in a   *)
(* circle, and PostgreSQL then aborts one.                                 *)
(*                                                                         *)
(* The locks of document series, which make some of these transactions     *)
(* wait for each other earlier, are left out: every interleaving they      *)
(* allow is one of those here.                                             *)
(***************************************************************************)
EXTENDS StockBatches, Functions, Relation

CONSTANTS
  Transactions,  \* the database connections requests run on
  InitialRow,    \* the rows of the Known keys at the start
  MaxQuantity    \* bound: no receipt starts while the rows hold this much

ASSUME StockTxAssumption ==
  /\ InitialRow \in Row
  /\ MaxQuantity \in Nat

VARIABLES
  stock,     \* the committed rows; EmptyRow where there is none
  existing,  \* the keys that have a committed row
  tx         \* by connection, its open transaction

vars == <<stock, existing, tx>>

\* The entity a select that finds no row stands for.
NoRows == [k \in Keys |-> EmptyRow]

NoTx == [step |-> "idle", batch |-> <<>>, done |-> 0, rows |-> NoRows,
         locks |-> {}, inserted |-> {}]

\* rows holds the transaction's own version of the rows it owns: those it
\* locked and those it inserted.
Tx == [step : {"idle", "select", "save"}, batch : Batches \cup {<<>>}, done : Nat,
       rows : [Keys -> Row], locks : SUBSET Keys, inserted : SUBSET Keys]

TypeOK ==
  /\ stock \in [Keys -> Row]
  /\ existing \in SUBSET Keys
  /\ tx \in [Transactions -> Tx]

Init ==
  /\ stock = [k \in Keys |-> IF k \in Known THEN InitialRow ELSE EmptyRow]
  /\ existing = Known
  /\ tx = [t \in Transactions |-> NoTx]

Owned(t) == tx[t].locks \cup tx[t].inserted

Finished(t) == tx[t].done = Len(tx[t].batch)

\* The operation under way; not asked of a finished transaction.
Op(t) == tx[t].batch[tx[t].done + 1]

-----------------------------------------------------------------------------
(* A request runs its document's operations in one transaction.            *)

\* The bound of the model, not of the code.
Fits(batch) ==
  (\E n \in 1 .. Len(batch) : batch[n].kind = "receive")
    => FoldFunction(+, 0, [k \in Keys |-> stock[k].quantity]) < MaxQuantity

Begin(t, batch) ==
  /\ tx[t].step = "idle"
  /\ Fits(batch)
  /\ tx' = [tx EXCEPT ![t] = [NoTx EXCEPT !.step = "select", !.batch = batch]]
  /\ UNCHANGED <<stock, existing>>

Selects(t) == tx[t].step = "select" /\ ~Finished(t)

\* SELECT ... FOR UPDATE: a row of another transaction's insert is not seen; a
\* locked one is waited for, and read as its holder left it.
SelectForUpdate(t) ==
  /\ Selects(t)
  /\ LET k == Op(t).key
     IN  \/ /\ k \in Owned(t) \/ k \notin existing
            /\ tx' = [tx EXCEPT ![t].step = "save"]
         \/ /\ k \in existing \ Owned(t)
            /\ \A u \in Transactions : k \notin tx[u].locks
            /\ tx' = [tx EXCEPT ![t].step = "save", ![t].rows[k] = stock[k],
                                ![t].locks = @ \cup {k}]
  /\ UNCHANGED <<stock, existing>>

Decides(t) == tx[t].step = "save" /\ Allowed(Op(t), tx[t].rows[Op(t).key])

Saved(t) ==
  [tx[t] EXCEPT !.step = "select", !.done = @ + 1,
                !.rows[Op(t).key] = Effect(Op(t), @)]

\* The update of a row that was found; a release that finds none does nothing.
Save(t) ==
  /\ Decides(t)
  /\ Op(t).key \in Owned(t) \/ Op(t).kind = "release"
  /\ tx' = [tx EXCEPT ![t] = Saved(t)]
  /\ UNCHANGED <<stock, existing>>

Inserts(t) ==
  Decides(t) /\ Op(t).key \notin Owned(t) /\ Op(t).kind \in {"receive", "arrive"}

\* A mistake the runs must notice: no unique index on product_stock.
InsertDuplicate(t) ==
  /\ Inserts(t)
  /\ tx' = [tx EXCEPT ![t] = [Saved(t) EXCEPT !.inserted = @ \cup {Op(t).key}]]
  /\ UNCHANGED <<stock, existing>>

\* The insert of a row that was not found waits for another transaction that
\* inserted the same key, and passes unless it, or another, committed.
Insert(t) ==
  /\ Inserts(t)
  /\ \A u \in Transactions : Op(t).key \notin tx[u].inserted
  /\ Op(t).key \notin existing
  /\ tx' = [tx EXCEPT ![t] = [Saved(t) EXCEPT !.inserted = @ \cup {Op(t).key}]]
  /\ UNCHANGED <<stock, existing>>

Commit(t) ==
  /\ tx[t].step = "select"
  /\ Finished(t)
  /\ stock' = [k \in Keys |-> IF k \in Owned(t) THEN tx[t].rows[k] ELSE stock[k]]
  /\ existing' = existing \cup tx[t].inserted
  /\ tx' = [tx EXCEPT ![t] = NoTx]

-----------------------------------------------------------------------------
(* A transaction that fails.                                               *)

\* A mistake the runs must notice: the error is answered, and the transaction
\* stays open on its connection.
RollbackLeftOpen(t) ==
  /\ tx' = [tx EXCEPT ![t].step = "idle"]
  /\ UNCHANGED <<stock, existing>>

Rollback(t) ==
  /\ tx' = [tx EXCEPT ![t] = NoTx]
  /\ UNCHANGED <<stock, existing>>

\* InsufficientStockError.
Refuse(t) == tx[t].step = "save" /\ ~Decides(t) /\ Rollback(t)

\* The unique index refuses the insert of a row that was committed after the
\* select did not find it.
RefuseDuplicate(t) == Inserts(t) /\ Op(t).key \in existing /\ Rollback(t)

\* t waits for a lock or for an insert of u.
WaitsFor(t, u) ==
  \/ /\ Selects(t)
     /\ Op(t).key \in existing \ Owned(t)
     /\ Op(t).key \in tx[u].locks
  \/ Inserts(t) /\ Op(t).key \in tx[u].inserted

\* PostgreSQL aborts one transaction of a circle.
AbortDeadlock(t) ==
  /\ LET waits == [p \in Transactions \X Transactions |-> WaitsFor(p[1], p[2])]
     IN  TransitiveClosure(waits, Transactions)[<<t, t>>]
  /\ Rollback(t)

\* The API process or its connection is lost; a later error of the document,
\* such as a closed accounting period, ends the transaction in the same way.
Fail(t) == tx[t].step # "idle" /\ Rollback(t)

Runs(t) ==
  \/ SelectForUpdate(t) \/ Save(t) \/ Insert(t) \/ Commit(t)
  \/ Refuse(t) \/ RefuseDuplicate(t) \/ AbortDeadlock(t)

Next ==
  \E t \in Transactions :
    \/ \E batch \in Batches : Begin(t, batch)
    \/ Runs(t)
    \/ Fail(t)

Spec == Init /\ [][Next]_vars

\* A handler runs to the end of its transaction, a waiting lock is granted in
\* its turn, and the deadlock detector aborts a circle; requests need not come,
\* and failures need not happen.
FairSpec ==
  /\ Spec
  /\ \A t \in Transactions :
       /\ WF_vars(Save(t) \/ Commit(t) \/ Refuse(t) \/ RefuseDuplicate(t) \/ AbortDeadlock(t))
       /\ SF_vars(SelectForUpdate(t))
       /\ SF_vars(Insert(t))

-----------------------------------------------------------------------------

Atomic == INSTANCE AtomicBatches WITH rows <- stock

\* Transactions are atomic and serial on the stock: whatever overlaps, however
\* their row locks and inserts interleave, and wherever one fails, the committed
\* rows only change as if each document's operations had all happened at once,
\* each allowed on the rows the ones before it left.
BatchesAreAtomic == Atomic!Spec

\* What a transaction decided on stays true until it ends: while it holds a row
\* it locked or inserted, nobody else changes what is committed of that row, a
\* transaction that inserts the row it did not find included.
HeldRowsStay ==
  [][\A t \in Transactions, k \in Keys :
       k \in Owned(t) /\ k \in Owned(t)' => stock'[k] = stock[k]]_vars

\* Every transaction ends: it commits, or it rolls back; no request waits for
\* ever for the row locks or the insert of others.
TransactionsEnd ==
  \A t \in Transactions : tx[t].step # "idle" ~> tx[t].step = "idle"
=============================================================================
