SPECIFICATION FairSpec
CONSTANTS
  k1 = k1
  k2 = k2
  Keys = {k1, k2}
  Known = {k1}
  Batches <- MCBatches
  InitialRow <- MCInitialRow
  Transactions = {t1, t2}
  MaxQuantity = 3
PROPERTIES
  BatchesAreAtomic
  TransactionsEnd
