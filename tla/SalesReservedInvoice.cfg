SPECIFICATION Spec
CONSTANTS
  o1 = o1
  o2 = o2
  p1 = p1
  p2 = p2
  Orders <- MCOrders
  Products = {p1}
  Lines <- MCLines
  InitialStock <- MCInitialStock
  SaleQuantities <- MCNoSales
  MaxInvoices = 2
  MaxCredits = 0
  MaxReceived = 0
  Requests = {r1}
INVARIANTS
  ReservedOrdersCanBeInvoiced
CHECK_DEADLOCK FALSE
