---------------------------- MODULE StockBatches ----------------------------
(***************************************************************************)
(* What one transaction does to product_stock, as data: the list of stock  *)
(* operations a document makes, one after the other.  An invoice issues    *)
(* each of its lines, a confirmation reserves them, a cancellation         *)
(* releases them, and a transfer takes from one row and adds to another.   *)
(***************************************************************************)
EXTENDS StockRows, Sequences

CONSTANTS
  Keys,     \* a product in a warehouse
  Batches,  \* the lists of operations the documents make
  Known     \* the keys whose row exists at the start

Kinds == {"receive", "issue", "reserve", "release", "depart", "arrive"}

Operation == [kind : Kinds, key : Keys, q : Nat \ {0}]

\* A release undoes a reservation, and a reservation needs the row: no code
\* deletes rows of product_stock, so a release finds the row it names.
ASSUME BatchesAssumption ==
  /\ Known \subseteq Keys
  /\ Batches \subseteq Seq(Operation) \ {<<>>}
  /\ \A batch \in Batches : \A n \in 1 .. Len(batch) :
       batch[n].kind = "release" => batch[n].key \in Known

\* Whether the code lets the operation pass on the row it reads.
Allowed(op, row) ==
  CASE op.kind = "receive" -> CanMove(row, op.q)
    [] op.kind = "issue"   -> CanMove(row, -op.q)
    [] op.kind = "reserve" -> CanReserve(row, op.q)
    [] op.kind = "depart"  -> Available(row) >= op.q
    [] OTHER               -> TRUE

\* The row the code saves.
Effect(op, row) ==
  CASE op.kind = "receive" -> Moved(row, op.q)
    [] op.kind = "issue"   -> Moved(row, -op.q)
    [] op.kind = "reserve" -> Reserved(row, op.q)
    [] op.kind = "release" -> Released(row, op.q)
    [] op.kind = "depart"  -> TransferredOut(row, op.q)
    [] OTHER               -> TransferredIn(row, op.q)

\* The rows after the first n operations of a batch.
After(batch, rows) ==
  LET after[n \in 0 .. Len(batch)] ==
        IF n = 0 THEN rows
        ELSE [after[n - 1] EXCEPT ![batch[n].key] = Effect(batch[n], @)]
  IN  after
=============================================================================
