SPECIFICATION Spec
CONSTANTS
  i1 = i1
  k1 = k1
  Invoices = {i1}
  InvoiceTotals <- MCTotals
  Keys = {k1}
  ClientRequests <- MCKeyedRequests
  Sessions = {}
  Workers = {w1}
INVARIANTS
  OnePaymentPerKey
