SPECIFICATION Spec
CONSTANTS
  o1 = o1
  o2 = o2
  p1 = p1
  p2 = p2
  Orders <- MCOrders
  Products = {p1}
  Lines <- MCLines
  InitialStock <- MCInitialStock
  SaleQuantities <- MCSaleQuantities
  MaxInvoices = 3
  MaxCredits = 1
  MaxReceived = 1
  Requests = {r1, r2}
SYMMETRY RequestSymmetry
INVARIANTS
  StockExplainedByDocuments
  InvoicedHasInvoice
  InvoicesWithinOverlap
CHECK_DEADLOCK FALSE
