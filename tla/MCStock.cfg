SPECIFICATION Spec
CONSTANTS
  Products = {p1}
  Warehouses = {w1, w2}
  LotNumbers <- MCLotNumbers
  ExpiryDates <- MCExpiryDates
  Quantities <- MCQuantities
  MaxQuantity = 4
INVARIANTS
  ReservedWithinQuantity
  LedgerMatchesQuantity
  LotsWithinQuantity
PROPERTIES
  FirstExpiredFirstOut
  TransferConserves
