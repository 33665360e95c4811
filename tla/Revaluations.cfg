SPECIFICATION RevaluationsSpec
CONSTANTS
  inv = inv
  bill = bill
  ForeignInvoices = {inv}
  Bills = {bill}
  Total <- MCTotal
  Rates = {2, 3}
  PaidAmounts = {1, 2}
  Requests = {r1, r2}
  MaxEntries = 2
SYMMETRY Symmetry
CONSTRAINT BillIsNotRaced
INVARIANTS
  AccountExplained
  RevaluedToRate
CHECK_DEADLOCK FALSE
