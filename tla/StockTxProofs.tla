--------------------------- MODULE StockTxProofs ---------------------------
(***************************************************************************)
(* StockTx for any number of transactions, rows and lists of operations:   *)
(* a row that is locked, or inserted and not yet committed, has one owner, *)
(* and its committed version waits for that owner.  So an open transaction *)
(* has made its operations on rows that only it can change, and its commit *)
(* is one step of AtomicBatches.                                           *)
(***************************************************************************)
EXTENDS StockTx, SequenceTheorems, Sums, TLAPS

-----------------------------------------------------------------------------
(* The inductive invariant.  A lock is on a committed row and an insert is *)
(* of a key without one, so the two kinds of ownership exclude each other. *)

OwnsCommittedOrNew ==
  \A t \in Transactions :
    tx[t].locks \subseteq existing /\ tx[t].inserted \cap existing = {}

OneOwner ==
  \A t, u \in Transactions :
    t # u => /\ tx[t].locks \cap tx[u].locks = {}
             /\ tx[t].inserted \cap tx[u].inserted = {}

\* A statement is under way only while the list has an operation left.
StepsAreReal ==
  \A t \in Transactions :
    /\ tx[t].done <= Len(tx[t].batch)
    /\ tx[t].step = "save" => tx[t].done < Len(tx[t].batch)

IInv == TypeOK /\ OwnsCommittedOrNew /\ OneOwner /\ StepsAreReal

\* An empty transaction is a transaction, and it owns nothing.
LEMMA NoTxIsTyped ==
  /\ NoTx \in Tx
  /\ NoTx.locks = {} /\ NoTx.inserted = {} /\ NoTx.done = 0
  /\ NoTx.step = "idle" /\ Len(NoTx.batch) = 0 /\ NoTx.batch = <<>>
  BY EmptySeq DEF NoTx, Tx, NoRows, EmptyRow, Row

\* What the code saves after it let an operation pass is a row: no quantity and
\* no reservation falls below zero.
LEMMA EffectIsTyped ==
  ASSUME NEW op \in Operation, NEW row \in Row, Allowed(op, row)
  PROVE  Effect(op, row) \in Row
  <1>1. op.q \in Nat /\ op.kind \in Kinds /\ row.quantity \in Nat /\ row.reserved \in Nat
    BY DEF Operation, Row
  <1>2. CASE op.kind = "receive"
    BY <1>1, <1>2 DEF Effect, Row, Moved, AtLeastZero, AtMostZero
  <1>3. CASE op.kind = "issue"
    <2>1. row.quantity - op.q \in Nat
      BY <1>1, <1>3 DEF Allowed, CanMove, Available, Operation
    <2>2. QED
      BY <1>1, <1>3, <2>1 DEF Effect, Row, Moved, AtLeastZero, AtMostZero
  <1>4. CASE op.kind = "reserve"
    BY <1>1, <1>4 DEF Effect, Row, Reserved
  <1>5. CASE op.kind = "release"
    BY <1>1, <1>5 DEF Effect, Row, Released, AtLeastZero
  <1>6. CASE op.kind = "depart"
    BY <1>1, <1>6 DEF Allowed, Available, Effect, Row, TransferredOut
  <1>7. CASE op.kind = "arrive"
    BY <1>1, <1>7 DEF Effect, Row, TransferredIn
  <1>8. QED  BY <1>1, <1>2, <1>3, <1>4, <1>5, <1>6, <1>7 DEF Kinds

\* The operation under way is one of the list's.
LEMMA OpIsTyped ==
  ASSUME IInv, NEW t \in Transactions, tx[t].done < Len(tx[t].batch)
  PROVE  Op(t) \in Operation /\ Op(t).key \in Keys
  <1>1. tx[t] \in Tx
    BY DEF IInv, TypeOK
  <1>2. tx[t].batch \in Seq(Operation)
    BY <1>1, BatchesAssumption, EmptySeq DEF Tx
  <1>3. tx[t].done + 1 \in 1 .. Len(tx[t].batch)
    BY <1>1, <1>2, LenProperties DEF Tx
  <1>4. Op(t) \in Operation
    BY <1>2, <1>3, ElementOfSeq DEF Op
  <1>5. QED  BY <1>4 DEF Operation

-----------------------------------------------------------------------------
(* Every action keeps the invariant.                                       *)

\* A step that only changes one transaction, to one that owns what nobody else
\* does, keeps the invariant.
LEMMA OneTxStep ==
  ASSUME IInv, NEW t \in Transactions, NEW r \in Tx,
         tx' = [tx EXCEPT ![t] = r], UNCHANGED <<stock, existing>>,
         r.locks \subseteq existing, r.inserted \cap existing = {},
         \A u \in Transactions \ {t} : /\ r.locks \cap tx[u].locks = {}
                                       /\ r.inserted \cap tx[u].inserted = {},
         r.done <= Len(r.batch),
         r.step = "save" => r.done < Len(r.batch)
  PROVE  IInv'
  <1>1. tx' \in [Transactions -> Tx]
    BY DEF IInv, TypeOK
  <1>2. TypeOK'
    BY <1>1 DEF IInv, TypeOK
  <1>3. tx'[t] = r /\ \A u \in Transactions \ {t} : tx'[u] = tx[u]
    BY DEF IInv, TypeOK
  <1>4. OwnsCommittedOrNew'
    BY <1>3 DEF IInv, OwnsCommittedOrNew
  <1>5. OneOwner'
    <2> SUFFICES ASSUME NEW a \in Transactions, NEW b \in Transactions, a # b
                 PROVE  /\ tx'[a].locks \cap tx'[b].locks = {}
                        /\ tx'[a].inserted \cap tx'[b].inserted = {}
      BY DEF OneOwner
    <2>1. CASE a = t
      BY <1>3, <2>1
    <2>2. CASE b = t
      BY <1>3, <2>2
    <2>3. CASE a # t /\ b # t
      BY <1>3, <2>3 DEF IInv, OneOwner
    <2>4. QED  BY <2>1, <2>2, <2>3
  <1>6. StepsAreReal'
    BY <1>3 DEF IInv, StepsAreReal
  <1>7. QED  BY <1>2, <1>4, <1>5, <1>6 DEF IInv

\* Ending a transaction without its changes keeps the invariant.
LEMMA RollbackStep ==
  ASSUME IInv, NEW t \in Transactions, Rollback(t)
  PROVE  IInv'
  <1>1. tx' = [tx EXCEPT ![t] = NoTx] /\ UNCHANGED <<stock, existing>>
    BY DEF Rollback
  <1>2. /\ NoTx.locks \subseteq existing /\ NoTx.inserted \cap existing = {}
        /\ NoTx.done <= Len(NoTx.batch) /\ NoTx.step # "save"
        /\ \A u \in Transactions \ {t} : /\ NoTx.locks \cap tx[u].locks = {}
                                         /\ NoTx.inserted \cap tx[u].inserted = {}
    BY NoTxIsTyped
  <1>3. QED  BY <1>1, <1>2, NoTxIsTyped, OneTxStep

\* What Save leaves of a transaction is a transaction, one operation further.
LEMMA SavedIsTyped ==
  ASSUME IInv, NEW t \in Transactions, Decides(t)
  PROVE  /\ Saved(t) \in Tx
         /\ Saved(t).locks = tx[t].locks /\ Saved(t).inserted = tx[t].inserted
         /\ Saved(t).batch = tx[t].batch /\ Saved(t).done = tx[t].done + 1
         /\ Saved(t).step = "select"
         /\ tx[t].done + 1 <= Len(tx[t].batch)
         /\ Op(t).key \in Keys
  <1>1. tx[t] \in Tx /\ tx[t].done < Len(tx[t].batch)
    BY DEF Decides, IInv, TypeOK, StepsAreReal
  <1>2. Op(t) \in Operation /\ Op(t).key \in Keys
    BY <1>1, OpIsTyped
  <1>3. tx[t].rows \in [Keys -> Row] /\ tx[t].rows[Op(t).key] \in Row
    BY <1>1, <1>2 DEF Tx
  <1>4. Effect(Op(t), tx[t].rows[Op(t).key]) \in Row
    BY <1>2, <1>3, EffectIsTyped DEF Decides
  <1>5. [tx[t].rows EXCEPT ![Op(t).key] = Effect(Op(t), @)] \in [Keys -> Row]
    BY <1>3, <1>4
  <1>6. tx[t].done + 1 \in Nat
    BY <1>1 DEF Tx
  <1>7. /\ Saved(t).rows = [tx[t].rows EXCEPT ![Op(t).key] = Effect(Op(t), @)]
        /\ Saved(t).locks = tx[t].locks /\ Saved(t).inserted = tx[t].inserted
        /\ Saved(t).batch = tx[t].batch /\ Saved(t).done = tx[t].done + 1
        /\ Saved(t).step = "select"
    BY <1>1 DEF Saved, Tx
  <1>8. Saved(t) \in Tx
    BY <1>1, <1>5, <1>6 DEF Saved, Tx
  <1>9. tx[t].batch \in Seq(Operation)
    BY <1>1, BatchesAssumption, EmptySeq DEF Tx
  <1>10. tx[t].done + 1 <= Len(tx[t].batch)
    BY <1>1, <1>9, LenProperties DEF Tx
  <1>11. QED  BY <1>2, <1>7, <1>8, <1>10

\* The initial state has no open transaction.
LEMMA InitIInv == Init => IInv
  <1> SUFFICES ASSUME Init PROVE IInv
    OBVIOUS
  <1>1. stock \in [Keys -> Row]
    BY StockTxAssumption DEF Init, EmptyRow, Row
  <1>2. TypeOK
    BY <1>1, NoTxIsTyped, BatchesAssumption DEF Init, TypeOK
  <1>3. \A t \in Transactions : tx[t] = NoTx
    BY DEF Init
  <1>4. OwnsCommittedOrNew /\ OneOwner /\ StepsAreReal
    BY <1>3, NoTxIsTyped DEF OwnsCommittedOrNew, OneOwner, StepsAreReal
  <1>5. QED  BY <1>2, <1>4 DEF IInv

\* A request opens its transaction.
LEMMA BeginStep ==
  ASSUME IInv, NEW t \in Transactions, NEW batch \in Batches, Begin(t, batch)
  PROVE  IInv'
  <1> DEFINE r == [NoTx EXCEPT !.step = "select", !.batch = batch]
  <1>1. /\ r \in Tx /\ r.locks = {} /\ r.inserted = {} /\ r.step = "select"
        /\ r.done = 0 /\ r.batch = batch
    BY NoTxIsTyped DEF NoTx, Tx
  <1>2. batch \in Seq(Operation)
    BY BatchesAssumption
  <1>3. r.done <= Len(r.batch)
    BY <1>1, <1>2, LenProperties
  <1>4. tx' = [tx EXCEPT ![t] = r] /\ UNCHANGED <<stock, existing>>
    BY DEF Begin
  <1> HIDE DEF r
  <1>5. QED  BY <1>1, <1>3, <1>4, OneTxStep

\* A row is locked by one transaction only, and only when it is committed.
LEMMA SelectStep ==
  ASSUME IInv, NEW t \in Transactions, SelectForUpdate(t)
  PROVE  IInv'
  <1> DEFINE k == Op(t).key
             found == [tx[t] EXCEPT !.step = "save", !.rows[k] = stock[k],
                                    !.locks = @ \cup {k}]
             kept == [tx[t] EXCEPT !.step = "save"]
  <1>1. /\ tx[t] \in Tx /\ tx[t].step = "select"
        /\ tx[t].done <= Len(tx[t].batch) /\ tx[t].done # Len(tx[t].batch)
    BY DEF SelectForUpdate, Selects, Finished, IInv, TypeOK, StepsAreReal
  <1>2. tx[t].batch \in Seq(Operation) /\ tx[t].done \in Nat
    BY <1>1, BatchesAssumption, EmptySeq DEF Tx
  <1>3. tx[t].done < Len(tx[t].batch)
    BY <1>1, <1>2, LenProperties
  <1>4. k \in Keys /\ stock[k] \in Row
    BY <1>3, OpIsTyped DEF IInv, TypeOK
  <1>5. /\ \A u \in Transactions \ {t} : /\ tx[t].locks \cap tx[u].locks = {}
                                         /\ tx[t].inserted \cap tx[u].inserted = {}
        /\ tx[t].locks \subseteq existing /\ tx[t].inserted \cap existing = {}
    BY DEF IInv, OneOwner, OwnsCommittedOrNew
  <1>6. CASE tx' = [tx EXCEPT ![t].step = "save"]
    <2>1. /\ kept \in Tx /\ kept.locks = tx[t].locks /\ kept.inserted = tx[t].inserted
          /\ kept.batch = tx[t].batch /\ kept.done = tx[t].done
      BY <1>1 DEF Tx
    <2>2. tx' = [tx EXCEPT ![t] = kept] /\ UNCHANGED <<stock, existing>>
      BY <1>6 DEF SelectForUpdate
    <2> HIDE DEF kept
    <2>3. /\ kept.locks \subseteq existing /\ kept.inserted \cap existing = {}
          /\ \A u \in Transactions \ {t} : /\ kept.locks \cap tx[u].locks = {}
                                           /\ kept.inserted \cap tx[u].inserted = {}
      BY <1>5, <2>1
    <2>4. kept.done <= Len(kept.batch) /\ kept.done < Len(kept.batch)
      BY <1>1, <1>3, <2>1
    <2>5. QED  BY <2>1, <2>2, <2>3, <2>4, OneTxStep
  <1>7. CASE /\ k \in existing
             /\ \A u \in Transactions : k \notin tx[u].locks
             /\ tx' = [tx EXCEPT ![t].step = "save", ![t].rows[k] = stock[k],
                                 ![t].locks = @ \cup {k}]
    <2> HIDE DEF k
    <2>1. [tx[t].rows EXCEPT ![k] = stock[k]] \in [Keys -> Row]
      BY <1>1, <1>4 DEF Tx
    <2>2. /\ found \in Tx /\ found.locks = tx[t].locks \cup {k}
          /\ found.inserted = tx[t].inserted
          /\ found.batch = tx[t].batch /\ found.done = tx[t].done
      BY <1>1, <1>4, <2>1 DEF Tx
    <2>3. tx' = [tx EXCEPT ![t] = found]
      BY <1>1, <1>7 DEF IInv, TypeOK, Tx
    <2>4. UNCHANGED <<stock, existing>>
      BY DEF SelectForUpdate
    <2> HIDE DEF found
    <2>5. found.locks \subseteq existing /\ found.inserted \cap existing = {}
      BY <1>5, <1>7, <2>2
    <2>6. \A u \in Transactions \ {t} : /\ found.locks \cap tx[u].locks = {}
                                        /\ found.inserted \cap tx[u].inserted = {}
      BY <1>5, <1>7, <2>2
    <2>7. QED  BY <1>1, <1>3, <2>2, <2>3, <2>4, <2>5, <2>6, OneTxStep
  <1>8. QED  BY <1>6, <1>7 DEF SelectForUpdate

\* Saving changes the transaction's own version of a row.
LEMMA SaveStep ==
  ASSUME IInv, NEW t \in Transactions, Save(t)
  PROVE  IInv'
  <1>1. Decides(t) /\ tx' = [tx EXCEPT ![t] = Saved(t)] /\ UNCHANGED <<stock, existing>>
    BY DEF Save
  <1>2. /\ \A u \in Transactions \ {t} : /\ tx[t].locks \cap tx[u].locks = {}
                                         /\ tx[t].inserted \cap tx[u].inserted = {}
        /\ tx[t].locks \subseteq existing /\ tx[t].inserted \cap existing = {}
    BY DEF IInv, OneOwner, OwnsCommittedOrNew
  <1>3. /\ Saved(t) \in Tx /\ Saved(t).step = "select"
        /\ Saved(t).done <= Len(Saved(t).batch)
    BY <1>1, SavedIsTyped
  <1>4. /\ Saved(t).locks \subseteq existing /\ Saved(t).inserted \cap existing = {}
        /\ \A u \in Transactions \ {t} : /\ Saved(t).locks \cap tx[u].locks = {}
                                         /\ Saved(t).inserted \cap tx[u].inserted = {}
    BY <1>1, <1>2, SavedIsTyped
  <1>5. QED  BY <1>1, <1>3, <1>4, OneTxStep

\* A key without a committed row is inserted by one transaction only.
LEMMA InsertStep ==
  ASSUME IInv, NEW t \in Transactions, Insert(t)
  PROVE  IInv'
  <1> DEFINE k == Op(t).key
             r == [Saved(t) EXCEPT !.inserted = @ \cup {k}]
  <1>1. /\ Decides(t) /\ tx' = [tx EXCEPT ![t] = r] /\ UNCHANGED <<stock, existing>>
        /\ k \notin existing /\ \A u \in Transactions : k \notin tx[u].inserted
    BY DEF Insert, Inserts
  <1>2. Saved(t) \in Tx /\ k \in Keys
    BY <1>1, SavedIsTyped
  <1>3. /\ r \in Tx /\ r.locks = tx[t].locks /\ r.inserted = tx[t].inserted \cup {k}
        /\ r.batch = tx[t].batch /\ r.done = tx[t].done + 1 /\ r.step = "select"
        /\ tx[t].done + 1 <= Len(tx[t].batch)
    BY <1>1, <1>2, SavedIsTyped DEF Tx
  <1> HIDE DEF k, r
  <1>4. /\ \A u \in Transactions \ {t} : /\ tx[t].locks \cap tx[u].locks = {}
                                         /\ tx[t].inserted \cap tx[u].inserted = {}
        /\ tx[t].locks \subseteq existing /\ tx[t].inserted \cap existing = {}
    BY DEF IInv, OneOwner, OwnsCommittedOrNew
  <1>5. r.locks \subseteq existing /\ r.inserted \cap existing = {}
    BY <1>1, <1>3, <1>4
  <1>6. \A u \in Transactions \ {t} : /\ r.locks \cap tx[u].locks = {}
                                      /\ r.inserted \cap tx[u].inserted = {}
    BY <1>1, <1>3, <1>4
  <1>7. r.done <= Len(r.batch)
    BY <1>3
  <1>8. QED  BY <1>1, <1>3, <1>5, <1>6, <1>7, OneTxStep

\* A commit publishes the rows of one owner, and takes the keys it inserted
\* from nobody.
LEMMA CommitStep ==
  ASSUME IInv, NEW t \in Transactions, Commit(t)
  PROVE  IInv'
  <1>1. /\ stock' = [k \in Keys |-> IF k \in Owned(t) THEN tx[t].rows[k] ELSE stock[k]]
        /\ existing' = existing \cup tx[t].inserted
        /\ tx' = [tx EXCEPT ![t] = NoTx]
    BY DEF Commit
  <1>2. tx[t].rows \in [Keys -> Row] /\ tx[t].inserted \subseteq Keys
    BY DEF IInv, TypeOK, Tx
  <1>3. TypeOK'
    BY <1>1, <1>2, NoTxIsTyped DEF IInv, TypeOK
  <1>4. tx'[t] = NoTx /\ \A u \in Transactions \ {t} : tx'[u] = tx[u]
    BY <1>1 DEF IInv, TypeOK
  <1>5. OwnsCommittedOrNew'
    <2> SUFFICES ASSUME NEW u \in Transactions
                 PROVE  tx'[u].locks \subseteq existing' /\ tx'[u].inserted \cap existing' = {}
      BY DEF OwnsCommittedOrNew
    <2>1. CASE u = t
      BY <1>4, <2>1, NoTxIsTyped
    <2>2. CASE u # t
      BY <1>1, <1>4, <2>2 DEF IInv, OwnsCommittedOrNew, OneOwner
    <2>3. QED  BY <2>1, <2>2
  <1>6. OneOwner'
    <2> SUFFICES ASSUME NEW a \in Transactions, NEW b \in Transactions, a # b
                 PROVE  /\ tx'[a].locks \cap tx'[b].locks = {}
                        /\ tx'[a].inserted \cap tx'[b].inserted = {}
      BY DEF OneOwner
    <2>1. CASE a = t \/ b = t
      BY <1>4, <2>1, NoTxIsTyped
    <2>2. CASE a # t /\ b # t
      BY <1>4, <2>2 DEF IInv, OneOwner
    <2>3. QED  BY <2>1, <2>2
  <1>7. StepsAreReal'
    <2> SUFFICES ASSUME NEW u \in Transactions
                 PROVE  /\ tx'[u].done <= Len(tx'[u].batch)
                        /\ tx'[u].step = "save" => tx'[u].done < Len(tx'[u].batch)
      BY DEF StepsAreReal
    <2>1. CASE u = t
      BY <1>4, <2>1, NoTxIsTyped
    <2>2. CASE u # t
      BY <1>4, <2>2 DEF IInv, StepsAreReal
    <2>3. QED  BY <2>1, <2>2
  <1>8. QED  BY <1>3, <1>5, <1>6, <1>7 DEF IInv

\* Every step keeps the invariant: those that roll back all by RollbackStep.
LEMMA NextIInv == IInv /\ [Next]_vars => IInv'
  <1> SUFFICES ASSUME IInv, [Next]_vars PROVE IInv'
    OBVIOUS
  <1>1. CASE UNCHANGED vars
    BY <1>1 DEF vars, IInv, TypeOK, OwnsCommittedOrNew, OneOwner, StepsAreReal
  <1>2. ASSUME NEW t \in Transactions, NEW batch \in Batches, Begin(t, batch)
        PROVE  IInv'
    BY <1>2, BeginStep
  <1>3. ASSUME NEW t \in Transactions, Runs(t)
        PROVE  IInv'
    <2>1. CASE Refuse(t) \/ RefuseDuplicate(t) \/ AbortDeadlock(t)
      <3>1. Rollback(t)
        BY <2>1 DEF Refuse, RefuseDuplicate, AbortDeadlock
      <3>2. QED  BY <3>1, RollbackStep
    <2>2. QED
      BY <1>3, <2>1, SelectStep, SaveStep, InsertStep, CommitStep DEF Runs
  <1>4. ASSUME NEW t \in Transactions, Fail(t)
        PROVE  IInv'
    BY <1>4, RollbackStep DEF Fail
  <1>5. QED  BY <1>1, <1>2, <1>3, <1>4 DEF Next

\* The invariant holds in every state.
LEMMA SpecIInv == Spec => []IInv
  BY InitIInv, NextIInv, PTL DEF Spec

-----------------------------------------------------------------------------

\* No interleaving of transactions makes a quantity or a reservation negative,
\* in a committed row or in the version a transaction is about to commit.
THEOREM StockTxTypeOK == Spec => []TypeOK
  <1>1. IInv => TypeOK
    BY DEF IInv
  <1>2. QED  BY <1>1, SpecIInv, PTL

\* A step that leaves a transaction its row leaves the committed row alone: only
\* a commit changes rows, and it changes those of its own transaction, which no
\* other owns.
LEMMA StepKeepsHeldRows ==
  ASSUME IInv, Next, NEW t \in Transactions, NEW k \in Keys,
         k \in Owned(t), k \in Owned(t)'
  PROVE  stock'[k] = stock[k]
  <1>1. CASE UNCHANGED stock
    BY <1>1
  <1>2. ASSUME NEW u \in Transactions, Commit(u)
        PROVE  stock'[k] = stock[k]
    <2>1. /\ stock' = [j \in Keys |-> IF j \in Owned(u) THEN tx[u].rows[j] ELSE stock[j]]
          /\ tx' = [tx EXCEPT ![u] = NoTx]
      BY <1>2 DEF Commit
    <2>2. CASE u = t
      <3>1. tx'[t] = NoTx
        BY <2>1, <2>2 DEF IInv, TypeOK
      <3>2. QED  BY <3>1, NoTxIsTyped DEF Owned
    <2>3. CASE u # t
      <3>1. k \notin Owned(u)
        BY <2>3 DEF Owned, IInv, OneOwner, OwnsCommittedOrNew
      <3>2. QED  BY <2>1, <3>1
    <2>4. QED  BY <2>2, <2>3
  <1>3. QED
    BY <1>1, <1>2 DEF Next, Begin, Runs, SelectForUpdate, Save, Insert, Refuse,
      RefuseDuplicate, AbortDeadlock, Fail, Rollback

\* What a transaction read under its lock, or found missing and inserted, nobody
\* else changes until it ends, whatever the number of transactions and however
\* their selects, inserts, commits and failures interleave.
THEOREM HeldRowsAreCurrent == Spec => HeldRowsStay
  <1> DEFINE Stays == \A t \in Transactions, k \in Keys :
                        k \in Owned(t) /\ k \in Owned(t)' => stock'[k] = stock[k]
  <1>1. IInv /\ [Next]_vars => [Stays]_vars
    BY StepKeepsHeldRows
  <1>2. QED  BY <1>1, SpecIInv, PTL DEF Spec, HeldRowsStay

-----------------------------------------------------------------------------
(* What a list of operations does, unrolled one operation at a time.       *)

\* The rows after each of the first m operations of a list.
IsRun(run, batch, rows, m) ==
  run = [n \in 0 .. m |->
           IF n = 0 THEN rows
           ELSE [run[n - 1] EXCEPT ![batch[n].key] = Effect(batch[n], @)]]

\* A run of m operations, extended by one.
LEMMA RunExtends ==
  ASSUME NEW batch, NEW rows, NEW m \in Nat, NEW run, IsRun(run, batch, rows, m)
  PROVE  \E longer : IsRun(longer, batch, rows, m + 1)
<1> DEFINE OneStep(n, before) == [before EXCEPT ![batch[n].key] = Effect(batch[n], @)]
           longer == [n \in 0 .. m + 1 |-> IF n = m + 1 THEN OneStep(n, run[m]) ELSE run[n]]
<1>1. run = [n \in 0 .. m |-> IF n = 0 THEN rows ELSE OneStep(n, run[n - 1])]
  BY DEF IsRun
<1> HIDE DEF OneStep
<1>2. \A n \in 0 .. m : run[n] = IF n = 0 THEN rows ELSE OneStep(n, run[n - 1])
  BY <1>1
<1>3. ASSUME NEW n \in 0 .. m + 1
      PROVE  longer[n] = IF n = 0 THEN rows ELSE OneStep(n, longer[n - 1])
  <2>1. CASE n = m + 1
    BY <2>1
  <2>2. CASE n # m + 1
    <3>1. n \in 0 .. m /\ longer[n] = run[n]
      BY <2>2
    <3>2. n # 0 => n - 1 \in 0 .. m + 1 /\ n - 1 # m + 1 /\ longer[n - 1] = run[n - 1]
      BY <3>1
    <3> HIDE DEF longer
    <3> QED BY <1>2, <3>1, <3>2
  <2> QED BY <2>1, <2>2
<1>4. longer = [n \in 0 .. m + 1 |-> IF n = 0 THEN rows ELSE OneStep(n, longer[n - 1])]
  <2>1. longer = [n \in 0 .. m + 1 |-> longer[n]]
    OBVIOUS
  <2> HIDE DEF longer
  <2> QED BY <1>3, <2>1
<1>5. IsRun(longer, batch, rows, m + 1)
  BY <1>4 DEF IsRun, OneStep
<1> QED BY <1>5

\* There is a run of any length: else there were a least length without one.
LEMMA RunExists ==
  ASSUME NEW batch, NEW rows, NEW m \in Nat
  PROVE  \E run : IsRun(run, batch, rows, m)
<1> DEFINE Without == {n \in Nat : ~ \E run : IsRun(run, batch, rows, n)}
<1> SUFFICES ASSUME Without # {} PROVE FALSE
  OBVIOUS
<1>1. PICK n \in Without : \A k \in Without : n <= k
  <2>1. Without \in SUBSET Nat /\ Without # {}
    OBVIOUS
  <2> HIDE DEF Without
  <2> QED BY <2>1, LeastNumber
<1>2. CASE n = 0
  <2>1. IsRun([k \in 0 .. 0 |-> rows], batch, rows, 0)
    BY DEF IsRun
  <2> QED BY <1>2, <2>1
<1>3. CASE n # 0
  <2>1. n - 1 \in Nat /\ ~(n <= n - 1) /\ (n - 1) + 1 = n
    BY <1>3
  <2>2. PICK run : IsRun(run, batch, rows, n - 1)
    BY <1>1, <2>1
  <2> QED BY <2>1, <2>2, RunExtends
<1> QED BY <1>2, <1>3

\* The rows that one operation leaves.
OneMore(op, before) == [before EXCEPT ![op.key] = Effect(op, @)]

\* What After means, step by step.
LEMMA AfterStep ==
  ASSUME NEW batch \in Seq(Operation), NEW rows
  PROVE  /\ After(batch, rows)[0] = rows
         /\ \A n \in 1 .. Len(batch) :
              After(batch, rows)[n] =
                OneMore(batch[n], After(batch, rows)[n - 1])
<1> DEFINE after == After(batch, rows)
<1>1. Len(batch) \in Nat
  OBVIOUS
<1>2. \E run : IsRun(run, batch, rows, Len(batch))
  BY <1>1, RunExists
<1>3. IsRun(after, batch, rows, Len(batch))
  BY <1>2 DEF IsRun, After
<1> HIDE DEF after
<1>4. after[0] = rows
  BY <1>1, <1>3 DEF IsRun
<1>5. ASSUME NEW n \in 1 .. Len(batch)
      PROVE  after[n] = OneMore(batch[n], after[n - 1])
  <2>1. n \in 0 .. Len(batch) /\ n # 0
    BY <1>1
  <2> QED BY <1>3, <2>1 DEF IsRun, OneMore
<1> QED BY <1>4, <1>5 DEF after

-----------------------------------------------------------------------------
(* A transaction replays its list: on whatever rows agree with the         *)
(* committed ones where it owns them, the operations it has done, one      *)
(* after the other, are all allowed and leave its own version of the rows  *)
(* it owns, and nothing else changed.  That the other rows may be any is   *)
(* what lets others commit theirs in between.                              *)

Replays(batch, done, owned, own, committed) ==
  \A from \in [Keys -> Row] :
    (\A k \in owned : from[k] = committed[k]) =>
      /\ After(batch, from)[done] = [k \in Keys |-> IF k \in owned THEN own[k] ELSE from[k]]
      /\ \A n \in 1 .. done : Allowed(batch[n], After(batch, from)[n - 1][batch[n].key])

\* No operation leaves any rows as they are.
LEMMA ReplaysNothing ==
  ASSUME NEW batch \in Seq(Operation), NEW own, NEW committed
  PROVE  Replays(batch, 0, {}, own, committed)
<1> SUFFICES ASSUME NEW from \in [Keys -> Row]
             PROVE  /\ After(batch, from)[0] = [k \in Keys |-> from[k]]
                    /\ \A n \in 1 .. 0 : Allowed(batch[n], After(batch, from)[n - 1][batch[n].key])
  BY DEF Replays
<1>1. After(batch, from)[0] = from
  BY AfterStep
<1>2. from = [k \in Keys |-> from[k]]
  OBVIOUS
<1> QED BY <1>1, <1>2

\* A row that was just read is the committed one, which nothing has changed yet.
LEMMA ReplaysWithRowRead ==
  ASSUME NEW batch, NEW done, NEW owned, NEW own \in [Keys -> Row], NEW committed,
         Replays(batch, done, owned, own, committed),
         NEW k \in Keys, k \notin owned
  PROVE  Replays(batch, done, owned \cup {k}, [own EXCEPT ![k] = committed[k]], committed)
<1> DEFINE read == [own EXCEPT ![k] = committed[k]]
<1>1. read[k] = committed[k] /\ \A j \in Keys \ {k} : read[j] = own[j]
  OBVIOUS
<1> HIDE DEF read
<1> SUFFICES ASSUME NEW from \in [Keys -> Row],
                    \A j \in owned \cup {k} : from[j] = committed[j]
             PROVE  /\ After(batch, from)[done] =
                         [j \in Keys |-> IF j \in owned \cup {k} THEN read[j] ELSE from[j]]
                    /\ \A n \in 1 .. done : Allowed(batch[n], After(batch, from)[n - 1][batch[n].key])
  BY DEF Replays, read
<1>2. \A j \in owned : from[j] = committed[j]
  OBVIOUS
<1>3. /\ After(batch, from)[done] = [j \in Keys |-> IF j \in owned THEN own[j] ELSE from[j]]
      /\ \A n \in 1 .. done : Allowed(batch[n], After(batch, from)[n - 1][batch[n].key])
  BY <1>2 DEF Replays
<1>4. \A j \in Keys : (IF j \in owned THEN own[j] ELSE from[j])
                        = (IF j \in owned \cup {k} THEN read[j] ELSE from[j])
  BY <1>1
<1>5. [j \in Keys |-> IF j \in owned THEN own[j] ELSE from[j]]
        = [j \in Keys |-> IF j \in owned \cup {k} THEN read[j] ELSE from[j]]
  BY <1>4
<1> QED BY <1>3, <1>5

\* The next operation, allowed on the transaction's own version of its row.
LEMMA ReplaysOneMore ==
  ASSUME NEW batch \in Seq(Operation), NEW done \in Nat, done < Len(batch),
         NEW owned, NEW own \in [Keys -> Row], NEW committed,
         Replays(batch, done, owned, own, committed),
         batch[done + 1].key \in owned, batch[done + 1].key \in Keys,
         Allowed(batch[done + 1], own[batch[done + 1].key])
  PROVE  Replays(batch, done + 1, owned,
                 [own EXCEPT ![batch[done + 1].key] = Effect(batch[done + 1], @)], committed)
<1> DEFINE op == batch[done + 1]
           k == op.key
           saved == [own EXCEPT ![k] = Effect(op, @)]
<1>1. saved[k] = Effect(op, own[k]) /\ \A j \in Keys \ {k} : saved[j] = own[j]
  OBVIOUS
<1>2. k \in owned /\ k \in Keys /\ Allowed(op, own[k])
  OBVIOUS
<1>3. done + 1 \in 1 .. Len(batch) /\ (done + 1) - 1 = done
  BY LenProperties
<1> SUFFICES ASSUME NEW from \in [Keys -> Row],
                    \A j \in owned : from[j] = committed[j]
             PROVE  /\ After(batch, from)[done + 1] =
                         [j \in Keys |-> IF j \in owned THEN saved[j] ELSE from[j]]
                    /\ \A n \in 1 .. done + 1 : Allowed(batch[n], After(batch, from)[n - 1][batch[n].key])
  BY DEF Replays
<1> DEFINE before == [j \in Keys |-> IF j \in owned THEN own[j] ELSE from[j]]
<1>4. /\ After(batch, from)[done] = before
      /\ \A n \in 1 .. done : Allowed(batch[n], After(batch, from)[n - 1][batch[n].key])
  BY DEF Replays
<1>5. After(batch, from)[done + 1] = [before EXCEPT ![k] = Effect(op, @)]
  <2> DEFINE m == done + 1
  <2>1. \A n \in 1 .. Len(batch) :
          After(batch, from)[n] =
            OneMore(batch[n], After(batch, from)[n - 1])
    BY AfterStep
  <2>2. m \in 1 .. Len(batch) /\ m - 1 = done /\ batch[m] = op
    BY <1>3
  <2> HIDE DEF m, op, before
  <2>3. After(batch, from)[m] = OneMore(op, before)
    BY <1>4, <2>1, <2>2
  <2> QED BY <2>3 DEF m, OneMore, k
<1>6. before[k] = own[k]
  BY <1>2
<1> HIDE DEF op, k, saved
<1>7. [before EXCEPT ![k] = Effect(op, @)] =
        [j \in Keys |-> IF j \in owned THEN saved[j] ELSE from[j]]
  <2>1. [before EXCEPT ![k] = Effect(op, @)] =
          [j \in Keys |-> IF j = k THEN Effect(op, before[k]) ELSE before[j]]
    BY <1>2
  <2>2. ASSUME NEW j \in Keys
        PROVE  (IF j = k THEN Effect(op, before[k]) ELSE before[j])
                 = (IF j \in owned THEN saved[j] ELSE from[j])
    BY <1>1, <1>2, <1>6
  <2> HIDE DEF before
  <2> QED BY <2>1, <2>2
<1>8. ASSUME NEW n \in 1 .. done + 1
      PROVE  Allowed(batch[n], After(batch, from)[n - 1][batch[n].key])
  <2>1. CASE n = done + 1
    <3>1. After(batch, from)[n - 1][k] = own[k] /\ batch[n] = op /\ batch[n].key = k
      BY <1>3, <1>4, <1>6, <2>1 DEF op, k
    <3> QED BY <1>2, <3>1
  <2>2. CASE n # done + 1
    <3>1. n \in 1 .. done
      BY <2>2
    <3> QED BY <1>4, <3>1
  <2> QED BY <2>1, <2>2
<1> QED BY <1>5, <1>7, <1>8

\* What others commit elsewhere makes no difference.
LEMMA ReplaysWhateverElse ==
  ASSUME NEW batch, NEW done, NEW owned, NEW own, NEW committed, NEW later,
         Replays(batch, done, owned, own, committed),
         \A k \in owned : later[k] = committed[k]
  PROVE  Replays(batch, done, owned, own, later)
BY DEF Replays

\* A row that was not found is inserted as the empty row and the operation's effect.
LEMMA ReplaysInserted ==
  ASSUME NEW batch \in Seq(Operation), NEW done \in Nat, done < Len(batch),
         NEW owned, NEW own \in [Keys -> Row], NEW committed,
         Replays(batch, done, owned, own, committed),
         batch[done + 1].key \notin owned, batch[done + 1].key \in Keys,
         own[batch[done + 1].key] = committed[batch[done + 1].key],
         Allowed(batch[done + 1], own[batch[done + 1].key])
  PROVE  Replays(batch, done + 1, owned \cup {batch[done + 1].key},
                 [own EXCEPT ![batch[done + 1].key] = Effect(batch[done + 1], @)], committed)
<1> DEFINE k == batch[done + 1].key
<1>1. Replays(batch, done, owned \cup {k}, [own EXCEPT ![k] = committed[k]], committed)
  BY ReplaysWithRowRead
<1>2. [own EXCEPT ![k] = committed[k]] = own
  OBVIOUS
<1>3. Replays(batch, done, owned \cup {k}, own, committed) /\ k \in owned \cup {k}
  BY <1>1, <1>2
<1> QED BY <1>3, ReplaysOneMore

-----------------------------------------------------------------------------
(* Its part of the invariant.  A row that no one inserted and committed is *)
(* empty, in the table and in a transaction that does not own it; so an    *)
(* insert starts from what the select stands for.                          *)

KnownRowsExist == Known \subseteq existing

MissingRowsAreEmpty == \A k \in Keys \ existing : stock[k] = EmptyRow

UnownedRowsAreEmpty ==
  \A t \in Transactions : \A k \in Keys \ Owned(t) : tx[t].rows[k] = EmptyRow

\* A select finds the rows that were there from the start.
KnownRowsAreFound ==
  \A t \in Transactions :
    tx[t].step = "save" /\ Op(t).key \in Known => Op(t).key \in Owned(t)

ListsAreReal ==
  \A t \in Transactions : tx[t].step # "idle" => tx[t].batch \in Batches

TransactionsReplay ==
  \A t \in Transactions :
    Replays(tx[t].batch, tx[t].done, Owned(t), tx[t].rows, stock)

ReplayInv ==
  /\ KnownRowsExist /\ MissingRowsAreEmpty /\ UnownedRowsAreEmpty
  /\ KnownRowsAreFound /\ ListsAreReal /\ TransactionsReplay

\* What ReplayInv says of one transaction.
RealTx(r) ==
  /\ \A k \in Keys \ (r.locks \cup r.inserted) : r.rows[k] = EmptyRow
  /\ r.step = "save" /\ r.batch[r.done + 1].key \in Known
       => r.batch[r.done + 1].key \in r.locks \cup r.inserted
  /\ r.step # "idle" => r.batch \in Batches

\* It is enough to look at one transaction at a time.
LEMMA ReplayInvByTx ==
  ReplayInv <=> /\ KnownRowsExist /\ MissingRowsAreEmpty
                /\ \A t \in Transactions :
                     /\ RealTx(tx[t])
                     /\ Replays(tx[t].batch, tx[t].done, tx[t].locks \cup tx[t].inserted,
                                tx[t].rows, stock)
BY DEF ReplayInv, UnownedRowsAreEmpty, KnownRowsAreFound, ListsAreReal, TransactionsReplay,
  RealTx, Owned, Op

\* A transaction that is not open replays nothing.
LEMMA NoTxReplays ==
  ASSUME NEW committed
  PROVE  RealTx(NoTx) /\ Replays(NoTx.batch, NoTx.done, NoTx.locks \cup NoTx.inserted, NoTx.rows, committed)
<1>1. RealTx(NoTx)
  BY NoTxIsTyped DEF RealTx, NoTx, NoRows
<1>2. <<>> \in Seq(Operation)
  BY EmptySeq
<1>3. Replays(<<>>, 0, {}, NoTx.rows, committed)
  BY <1>2, ReplaysNothing
<1>4. NoTx.locks \cup NoTx.inserted = {}
  BY NoTxIsTyped
<1> QED BY <1>1, <1>3, <1>4, NoTxIsTyped

\* A step that changes one transaction, into one that replays its list.
LEMMA OneTxReplays ==
  ASSUME IInv, ReplayInv, NEW t \in Transactions, NEW r \in Tx,
         tx' = [tx EXCEPT ![t] = r], UNCHANGED <<stock, existing>>,
         RealTx(r), Replays(r.batch, r.done, r.locks \cup r.inserted, r.rows, stock)
  PROVE  ReplayInv'
<1>1. tx'[t] = r /\ \A u \in Transactions \ {t} : tx'[u] = tx[u]
  BY DEF IInv, TypeOK
<1>2. KnownRowsExist' /\ MissingRowsAreEmpty'
  BY DEF ReplayInv, KnownRowsExist, MissingRowsAreEmpty
<1>3. ASSUME NEW u \in Transactions
      PROVE  /\ RealTx(tx'[u])
             /\ Replays(tx'[u].batch, tx'[u].done, tx'[u].locks \cup tx'[u].inserted,
                        tx'[u].rows, stock')
  <2>1. CASE u = t
    BY <1>1, <2>1
  <2>2. CASE u # t
    BY <1>1, <2>2, ReplayInvByTx
  <2> QED BY <2>1, <2>2
<1>4. UnownedRowsAreEmpty' /\ KnownRowsAreFound' /\ ListsAreReal' /\ TransactionsReplay'
  BY <1>3 DEF UnownedRowsAreEmpty, KnownRowsAreFound, ListsAreReal, TransactionsReplay,
    RealTx, Owned, Op
<1> QED BY <1>2, <1>4 DEF ReplayInv

\* After a rollback there is nothing to replay.
LEMMA RollbackReplays ==
  ASSUME IInv, ReplayInv, NEW t \in Transactions, Rollback(t)
  PROVE  ReplayInv'
<1>1. tx' = [tx EXCEPT ![t] = NoTx] /\ UNCHANGED <<stock, existing>>
  BY DEF Rollback
<1> QED BY <1>1, NoTxIsTyped, NoTxReplays, OneTxReplays

\* At first no transaction has anything to replay.
LEMMA InitReplays == Init => ReplayInv
<1> SUFFICES ASSUME Init PROVE ReplayInv
  OBVIOUS
<1>1. KnownRowsExist /\ MissingRowsAreEmpty
  BY DEF Init, KnownRowsExist, MissingRowsAreEmpty
<1>2. \A t \in Transactions : tx[t] = NoTx
  BY DEF Init
<1> QED BY <1>1, <1>2, NoTxReplays, ReplayInvByTx

\* What IInv and ReplayInv say of a transaction with an operation under way.
LEMMA OperationUnderWay ==
  ASSUME IInv, ReplayInv, NEW t \in Transactions, tx[t].step # "idle", ~Finished(t)
  PROVE  /\ tx[t] \in Tx /\ tx[t].batch \in Batches /\ tx[t].batch \in Seq(Operation)
         /\ tx[t].done \in Nat /\ tx[t].done < Len(tx[t].batch)
         /\ Op(t) = tx[t].batch[tx[t].done + 1]
         /\ Op(t) \in Operation /\ Op(t).key \in Keys
         /\ Op(t).kind = "release" => Op(t).key \in Known
         /\ RealTx(tx[t])
         /\ Replays(tx[t].batch, tx[t].done, tx[t].locks \cup tx[t].inserted, tx[t].rows, stock)
<1>1. tx[t] \in Tx /\ tx[t].done <= Len(tx[t].batch) /\ tx[t].done # Len(tx[t].batch)
  BY DEF IInv, TypeOK, StepsAreReal, Finished
<1>2. tx[t].batch \in Batches
  BY DEF ReplayInv, ListsAreReal
<1>3. tx[t].batch \in Seq(Operation) /\ tx[t].done \in Nat
  BY <1>1, <1>2, BatchesAssumption DEF Tx
<1>4. tx[t].done < Len(tx[t].batch)
  BY <1>1, <1>3, LenProperties
<1>5. tx[t].done + 1 \in 1 .. Len(tx[t].batch)
  BY <1>3, <1>4, LenProperties
<1>6. Op(t).kind = "release" => Op(t).key \in Known
  BY <1>2, <1>5, BatchesAssumption DEF Op
<1>7. Op(t) \in Operation /\ Op(t).key \in Keys
  BY <1>4, OpIsTyped
<1> QED BY <1>1, <1>2, <1>3, <1>4, <1>6, <1>7, ReplayInvByTx DEF Op

\* A transaction that begins has nothing to replay.
LEMMA BeginReplays ==
  ASSUME IInv, ReplayInv, NEW t \in Transactions, NEW batch \in Batches, Begin(t, batch)
  PROVE  ReplayInv'
<1> DEFINE r == [NoTx EXCEPT !.step = "select", !.batch = batch]
<1>1. /\ r \in Tx /\ r.locks = {} /\ r.inserted = {} /\ r.step = "select"
      /\ r.done = 0 /\ r.batch = batch /\ r.rows = NoRows
  BY NoTxIsTyped DEF NoTx, Tx
<1>2. tx' = [tx EXCEPT ![t] = r] /\ UNCHANGED <<stock, existing>>
  BY DEF Begin
<1> HIDE DEF r
<1>3. RealTx(r)
  BY <1>1 DEF RealTx, NoRows
<1>4. batch \in Seq(Operation) /\ r.locks \cup r.inserted = {}
  BY <1>1, BatchesAssumption
<1>5. Replays(r.batch, r.done, r.locks \cup r.inserted, r.rows, stock)
  BY <1>1, <1>4, ReplaysNothing
<1> QED BY <1>1, <1>2, <1>3, <1>5, OneTxReplays

\* A select takes the committed row, or finds none, which the first rows never are.
LEMMA SelectReplays ==
  ASSUME IInv, ReplayInv, NEW t \in Transactions, SelectForUpdate(t)
  PROVE  ReplayInv'
<1> DEFINE k == Op(t).key
           owned == tx[t].locks \cup tx[t].inserted
<1>1. tx[t].step = "select" /\ ~Finished(t) /\ UNCHANGED <<stock, existing>>
  BY DEF SelectForUpdate, Selects
<1>2. /\ tx[t] \in Tx /\ tx[t].batch \in Batches
      /\ k = tx[t].batch[tx[t].done + 1].key /\ k \in Keys /\ RealTx(tx[t])
      /\ Replays(tx[t].batch, tx[t].done, owned, tx[t].rows, stock)
  BY <1>1, OperationUnderWay
<1>3. CASE /\ k \in owned \/ k \notin existing
           /\ tx' = [tx EXCEPT ![t].step = "save"]
  <2> DEFINE r == [tx[t] EXCEPT !.step = "save"]
  <2>1. /\ r \in Tx /\ r.locks = tx[t].locks /\ r.inserted = tx[t].inserted /\ r.step = "save"
        /\ r.batch = tx[t].batch /\ r.done = tx[t].done /\ r.rows = tx[t].rows
    BY <1>2 DEF Tx
  <2>2. tx' = [tx EXCEPT ![t] = r]
    BY <1>3
  <2>3. k \in Known => k \in owned
    BY <1>3 DEF ReplayInv, KnownRowsExist
  <2> HIDE DEF r
  <2>4. RealTx(r)
    BY <1>2, <2>1, <2>3 DEF RealTx
  <2>5. Replays(r.batch, r.done, r.locks \cup r.inserted, r.rows, stock)
    BY <1>2, <2>1
  <2> QED BY <1>1, <2>1, <2>2, <2>4, <2>5, OneTxReplays
<1>4. CASE /\ k \in existing \ owned
           /\ tx' = [tx EXCEPT ![t].step = "save", ![t].rows[k] = stock[k],
                               ![t].locks = @ \cup {k}]
  <2> HIDE DEF k
  <2> DEFINE r == [tx[t] EXCEPT !.step = "save", !.rows[k] = stock[k], !.locks = @ \cup {k}]
  <2>1. tx[t].rows \in [Keys -> Row] /\ stock[k] \in Row
    BY <1>2 DEF IInv, TypeOK, Tx
  <2>2. [tx[t].rows EXCEPT ![k] = stock[k]] \in [Keys -> Row]
    BY <1>2, <2>1
  <2>3. /\ r \in Tx /\ r.locks = tx[t].locks \cup {k} /\ r.inserted = tx[t].inserted
        /\ r.batch = tx[t].batch /\ r.done = tx[t].done /\ r.step = "save"
        /\ r.rows = [tx[t].rows EXCEPT ![k] = stock[k]]
    BY <1>2, <2>2 DEF Tx
  <2>4. tx' = [tx EXCEPT ![t] = r]
    BY <1>2, <1>4 DEF IInv, TypeOK, Tx
  <2> HIDE DEF r
  <2>5. r.locks \cup r.inserted = owned \cup {k}
    BY <2>3
  <2>6. \A j \in Keys \ (owned \cup {k}) : r.rows[j] = EmptyRow
    BY <1>2, <2>1, <2>3 DEF RealTx
  <2>7. RealTx(r)
    BY <1>2, <2>3, <2>5, <2>6 DEF RealTx
  <2>8. Replays(r.batch, r.done, owned \cup {k}, r.rows, stock)
    <3>1. k \notin owned
      BY <1>4
    <3> HIDE DEF owned
    <3>2. Replays(tx[t].batch, tx[t].done, owned \cup {k},
                  [tx[t].rows EXCEPT ![k] = stock[k]], stock)
      BY <1>2, <2>1, <3>1, ReplaysWithRowRead
    <3> QED BY <2>3, <3>2
  <2> QED BY <1>1, <2>3, <2>4, <2>5, <2>7, <2>8, OneTxReplays
<1> QED BY <1>3, <1>4 DEF SelectForUpdate, Owned

\* A save adds an operation to the list and its outcome to the rows.
LEMMA SaveReplays ==
  ASSUME IInv, ReplayInv, NEW t \in Transactions, Save(t)
  PROVE  ReplayInv'
<1> DEFINE k == Op(t).key
           owned == tx[t].locks \cup tx[t].inserted
           r == Saved(t)
<1>1. /\ Decides(t) /\ tx[t].step = "save" /\ (k \in owned \/ Op(t).kind = "release")
      /\ tx' = [tx EXCEPT ![t] = r] /\ UNCHANGED <<stock, existing>>
      /\ Allowed(Op(t), tx[t].rows[k])
  BY DEF Save, Decides, Owned
<1>2. ~Finished(t)
  BY <1>1 DEF IInv, StepsAreReal, Finished, TypeOK, Tx
<1>3. /\ tx[t] \in Tx /\ tx[t].batch \in Batches /\ tx[t].batch \in Seq(Operation)
      /\ tx[t].done \in Nat /\ tx[t].done < Len(tx[t].batch)
      /\ Op(t) = tx[t].batch[tx[t].done + 1] /\ k \in Keys /\ RealTx(tx[t])
      /\ Op(t).kind = "release" => k \in Known
      /\ Replays(tx[t].batch, tx[t].done, owned, tx[t].rows, stock)
  BY <1>1, <1>2, OperationUnderWay
<1>4. k \in owned
  BY <1>1, <1>3 DEF RealTx
<1>5. /\ r \in Tx /\ r.locks = tx[t].locks /\ r.inserted = tx[t].inserted
      /\ r.batch = tx[t].batch /\ r.done = tx[t].done + 1 /\ r.step = "select"
  BY <1>1, SavedIsTyped
<1>6. tx[t].rows \in [Keys -> Row] /\ r.rows = [tx[t].rows EXCEPT ![k] = Effect(Op(t), @)]
  BY <1>3 DEF Saved, Tx
<1> HIDE DEF r
<1>7. \A j \in Keys \ owned : r.rows[j] = EmptyRow
  BY <1>3, <1>4, <1>6 DEF RealTx
<1>8. RealTx(r)
  BY <1>3, <1>5, <1>7 DEF RealTx
<1>9. Replays(r.batch, r.done, r.locks \cup r.inserted, r.rows, stock)
  <2> HIDE DEF owned
  <2> DEFINE next == tx[t].batch[tx[t].done + 1]
  <2>1. /\ next.key \in owned /\ next.key \in Keys /\ next = Op(t) /\ next.key = k
        /\ Allowed(next, tx[t].rows[next.key])
    BY <1>1, <1>3, <1>4
  <2>2. Replays(tx[t].batch, tx[t].done + 1, owned,
                [tx[t].rows EXCEPT ![next.key] = Effect(next, @)], stock)
    BY <1>3, <1>6, <2>1, ReplaysOneMore
  <2>3. r.rows = [tx[t].rows EXCEPT ![next.key] = Effect(next, @)]
    BY <1>6, <2>1
  <2> HIDE DEF next
  <2> QED BY <1>5, <2>2, <2>3 DEF owned
<1> QED BY <1>1, <1>5, <1>8, <1>9, OneTxReplays

\* A row that is inserted was missing, so it was empty for every reading.
LEMMA InsertReplays ==
  ASSUME IInv, ReplayInv, NEW t \in Transactions, Insert(t)
  PROVE  ReplayInv'
<1> DEFINE k == Op(t).key
           owned == tx[t].locks \cup tx[t].inserted
           r == [Saved(t) EXCEPT !.inserted = @ \cup {k}]
<1>1. /\ Decides(t) /\ tx[t].step = "save" /\ k \notin owned /\ k \notin existing
      /\ tx' = [tx EXCEPT ![t] = r] /\ UNCHANGED <<stock, existing>>
      /\ Allowed(Op(t), tx[t].rows[k])
  BY DEF Insert, Inserts, Decides, Owned
<1>2. ~Finished(t)
  BY <1>1 DEF IInv, StepsAreReal, Finished, TypeOK, Tx
<1>3. /\ tx[t] \in Tx /\ tx[t].batch \in Batches /\ tx[t].batch \in Seq(Operation)
      /\ tx[t].done \in Nat /\ tx[t].done < Len(tx[t].batch)
      /\ Op(t) = tx[t].batch[tx[t].done + 1] /\ k \in Keys /\ RealTx(tx[t])
      /\ Replays(tx[t].batch, tx[t].done, owned, tx[t].rows, stock)
  BY <1>1, <1>2, OperationUnderWay
<1>4. Saved(t) \in Tx
  BY <1>1, SavedIsTyped
<1>5. /\ r \in Tx /\ r.locks = tx[t].locks /\ r.inserted = tx[t].inserted \cup {k}
      /\ r.batch = tx[t].batch /\ r.done = tx[t].done + 1 /\ r.step = "select"
      /\ r.rows = Saved(t).rows
  BY <1>1, <1>3, <1>4, SavedIsTyped DEF Tx
<1>6. tx[t].rows \in [Keys -> Row] /\ r.rows = [tx[t].rows EXCEPT ![k] = Effect(Op(t), @)]
  BY <1>3, <1>5 DEF Saved, Tx
<1> HIDE DEF r
<1>7. r.locks \cup r.inserted = owned \cup {k}
  BY <1>5
<1>8. \A j \in Keys \ (owned \cup {k}) : r.rows[j] = EmptyRow
  BY <1>3, <1>6 DEF RealTx
<1>9. RealTx(r)
  BY <1>3, <1>5, <1>7, <1>8 DEF RealTx
<1>10. tx[t].rows[k] = EmptyRow /\ stock[k] = EmptyRow
  BY <1>1, <1>3 DEF RealTx, ReplayInv, MissingRowsAreEmpty
<1>11. Replays(r.batch, r.done, owned \cup {k}, r.rows, stock)
  <2> HIDE DEF owned
  <2> DEFINE next == tx[t].batch[tx[t].done + 1]
  <2>1. /\ next.key \notin owned /\ next.key \in Keys /\ next = Op(t) /\ next.key = k
        /\ Allowed(next, tx[t].rows[next.key])
        /\ tx[t].rows[next.key] = stock[next.key]
    BY <1>1, <1>3, <1>10
  <2>2. Replays(tx[t].batch, tx[t].done + 1, owned \cup {next.key},
                [tx[t].rows EXCEPT ![next.key] = Effect(next, @)], stock)
    BY <1>3, <1>6, <2>1, ReplaysInserted
  <2>3. r.rows = [tx[t].rows EXCEPT ![next.key] = Effect(next, @)]
    BY <1>6, <2>1
  <2> HIDE DEF next
  <2> QED BY <1>5, <2>1, <2>2, <2>3
<1> QED BY <1>1, <1>5, <1>7, <1>9, <1>11, OneTxReplays

\* A commit changes no row that another transaction owns.
LEMMA CommitReplays ==
  ASSUME IInv, ReplayInv, NEW t \in Transactions, Commit(t)
  PROVE  ReplayInv'
<1>1. /\ stock' = [k \in Keys |-> IF k \in Owned(t) THEN tx[t].rows[k] ELSE stock[k]]
      /\ existing' = existing \cup tx[t].inserted
      /\ tx' = [tx EXCEPT ![t] = NoTx]
  BY DEF Commit
<1>2. tx'[t] = NoTx /\ \A u \in Transactions \ {t} : tx'[u] = tx[u]
  BY <1>1 DEF IInv, TypeOK
<1>3. KnownRowsExist'
  BY <1>1 DEF ReplayInv, KnownRowsExist
<1>4. MissingRowsAreEmpty'
  BY <1>1 DEF IInv, OwnsCommittedOrNew, ReplayInv, MissingRowsAreEmpty, Owned
<1>5. ASSUME NEW u \in Transactions
      PROVE  /\ RealTx(tx'[u])
             /\ Replays(tx'[u].batch, tx'[u].done, tx'[u].locks \cup tx'[u].inserted,
                        tx'[u].rows, stock')
  <2>1. CASE u = t
    BY <1>2, <2>1, NoTxReplays
  <2>2. CASE u # t
    <3>1. tx[u].locks \subseteq Keys /\ tx[u].inserted \subseteq Keys
      BY DEF IInv, TypeOK, Tx
    <3>2. \A k \in tx[u].locks \cup tx[u].inserted : k \notin Owned(t)
      BY <2>2 DEF Owned, IInv, OneOwner, OwnsCommittedOrNew
    <3>3. \A k \in tx[u].locks \cup tx[u].inserted : stock'[k] = stock[k]
      BY <1>1, <3>1, <3>2
    <3>4. /\ RealTx(tx[u])
          /\ Replays(tx[u].batch, tx[u].done, tx[u].locks \cup tx[u].inserted, tx[u].rows, stock)
      BY ReplayInvByTx
    <3>5. Replays(tx[u].batch, tx[u].done, tx[u].locks \cup tx[u].inserted, tx[u].rows, stock')
      BY <3>3, <3>4, ReplaysWhateverElse
    <3> QED BY <1>2, <2>2, <3>4, <3>5
  <2> QED BY <2>1, <2>2
<1>6. UnownedRowsAreEmpty' /\ KnownRowsAreFound' /\ ListsAreReal' /\ TransactionsReplay'
  BY <1>5 DEF UnownedRowsAreEmpty, KnownRowsAreFound, ListsAreReal, TransactionsReplay,
    RealTx, Owned, Op
<1> QED BY <1>3, <1>4, <1>6 DEF ReplayInv

\* Every step keeps the lists of all transactions replayable.
LEMMA NextReplays == IInv /\ ReplayInv /\ [Next]_vars => ReplayInv'
<1> SUFFICES ASSUME IInv, ReplayInv, [Next]_vars PROVE ReplayInv'
  OBVIOUS
<1>1. CASE UNCHANGED vars
  BY <1>1 DEF vars, ReplayInv, KnownRowsExist, MissingRowsAreEmpty, UnownedRowsAreEmpty,
    KnownRowsAreFound, ListsAreReal, TransactionsReplay, Owned, Op
<1>2. ASSUME NEW t \in Transactions, NEW batch \in Batches, Begin(t, batch)
      PROVE  ReplayInv'
  BY <1>2, BeginReplays
<1>3. ASSUME NEW t \in Transactions, Runs(t)
      PROVE  ReplayInv'
  <2>1. CASE Refuse(t) \/ RefuseDuplicate(t) \/ AbortDeadlock(t)
    <3>1. Rollback(t)
      BY <2>1 DEF Refuse, RefuseDuplicate, AbortDeadlock
    <3> QED BY <3>1, RollbackReplays
  <2> QED BY <1>3, <2>1, SelectReplays, SaveReplays, InsertReplays, CommitReplays DEF Runs
<1>4. ASSUME NEW t \in Transactions, Fail(t)
      PROVE  ReplayInv'
  BY <1>4, RollbackReplays DEF Fail
<1> QED BY <1>1, <1>2, <1>3, <1>4 DEF Next

\* So every open transaction can always be replayed.
LEMMA SpecReplays == Spec => []ReplayInv
BY InitReplays, NextReplays, SpecIInv, PTL DEF Spec

-----------------------------------------------------------------------------
(* The refinement, step by step.                                           *)

\* The two modules mean the same by an operation and its effect.
LEMMA SameOperations ==
  ASSUME NEW batch, NEW from
  PROVE  /\ Atomic!After(batch, from) = After(batch, from)
         /\ \A op, row : Atomic!Allowed(op, row) <=> Allowed(op, row)
<1>1. \A op, row : Atomic!Allowed(op, row) <=> Allowed(op, row)
  BY DEF Atomic!Allowed, Allowed, Atomic!CanMove, CanMove, Atomic!CanReserve, CanReserve,
    Atomic!Available, Available
<1>2. \A op, row : Atomic!Effect(op, row) = Effect(op, row)
  BY DEF Atomic!Effect, Effect, Atomic!Moved, Moved, Atomic!Reserved, Reserved,
    Atomic!Released, Released, Atomic!TransferredOut, TransferredOut,
    Atomic!TransferredIn, TransferredIn, Atomic!AtLeastZero, AtLeastZero,
    Atomic!AtMostZero, AtMostZero
<1>3. Atomic!After(batch, from) = After(batch, from)
  BY <1>2 DEF Atomic!After, After
<1> QED BY <1>1, <1>3

\* A commit is the whole list at once, on the committed rows of that moment.
LEMMA CommitIsRun ==
  ASSUME IInv, ReplayInv, NEW t \in Transactions, Commit(t)
  PROVE  Atomic!Next
<1> DEFINE batch == tx[t].batch
           after == After(batch, stock)
<1>1. /\ tx[t].step = "select" /\ tx[t].done = Len(batch)
      /\ stock' = [k \in Keys |-> IF k \in Owned(t) THEN tx[t].rows[k] ELSE stock[k]]
  BY DEF Commit, Finished
<1>2. batch \in Batches
  BY <1>1 DEF ReplayInv, ListsAreReal
<1>3. Replays(batch, tx[t].done, Owned(t), tx[t].rows, stock)
  BY DEF ReplayInv, TransactionsReplay
<1>4. stock \in [Keys -> Row]
  BY DEF IInv, TypeOK
<1> HIDE DEF batch
<1>5. /\ after[tx[t].done] = [k \in Keys |-> IF k \in Owned(t) THEN tx[t].rows[k] ELSE stock[k]]
      /\ \A n \in 1 .. tx[t].done : Allowed(batch[n], after[n - 1][batch[n].key])
  BY <1>3, <1>4 DEF Replays
<1>6. /\ stock' = after[Len(batch)]
      /\ \A n \in 1 .. Len(batch) : Allowed(batch[n], after[n - 1][batch[n].key])
  BY <1>1, <1>5
<1>7. Atomic!Run(batch)
  BY <1>6, SameOperations DEF Atomic!Run
<1> QED BY <1>2, <1>7 DEF Atomic!Next

\* Whatever the number of transactions, rows and lists, and however the selects,
\* saves, inserts, commits and failures interleave, each step changes the
\* committed rows as one document's whole list of operations would, each allowed
\* on the rows that the one before it left, or not at all.
THEOREM TransactionsAreAtomic == Spec => BatchesAreAtomic
<1>1. Init => Atomic!Init
  <2> SUFFICES ASSUME Init PROVE Atomic!Init
    OBVIOUS
  <2>1. stock \in [Keys -> Row]
    BY InitIInv DEF IInv, TypeOK
  <2>2. \A k \in Keys \ Known : stock[k] = EmptyRow
    BY DEF Init
  <2> QED BY <2>1, <2>2 DEF Atomic!Init, Atomic!Row, Row, Atomic!EmptyRow, EmptyRow
<1>2. IInv /\ ReplayInv /\ [Next]_vars => [Atomic!Next]_stock
  <2> SUFFICES ASSUME IInv, ReplayInv, [Next]_vars PROVE Atomic!Next \/ stock' = stock
    OBVIOUS
  <2>1. CASE UNCHANGED vars
    BY <2>1 DEF vars
  <2>2. ASSUME NEW t \in Transactions, Commit(t) PROVE Atomic!Next
    BY <2>2, CommitIsRun
  <2> QED
    BY <2>1, <2>2 DEF Next, Begin, Runs, SelectForUpdate, Save, Insert, Refuse,
      RefuseDuplicate, AbortDeadlock, Fail, Rollback
<1> QED BY <1>1, <1>2, SpecIInv, SpecReplays, PTL DEF Spec, BatchesAreAtomic, Atomic!Spec
=============================================================================
