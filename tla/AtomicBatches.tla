--------------------------- MODULE AtomicBatches ---------------------------
(***************************************************************************)
(* What a document's transaction promises about product_stock: its whole   *)
(* list of operations happens at once, each allowed on the row the ones    *)
(* before it leave, or nothing happens at all.                             *)
(***************************************************************************)
EXTENDS StockBatches

VARIABLE rows

Init ==
  /\ rows \in [Keys -> Row]
  /\ \A k \in Keys \ Known : rows[k] = EmptyRow

Run(batch) ==
  LET after == After(batch, rows)
  IN  /\ \A n \in 1 .. Len(batch) : Allowed(batch[n], after[n - 1][batch[n].key])
      /\ rows' = after[Len(batch)]

Next == \E batch \in Batches : Run(batch)

Spec == Init /\ [][Next]_rows
=============================================================================
