SPECIFICATION FairSpec
CONSTANTS
  i1 = i1
  k1 = k1
  Invoices = {i1}
  InvoiceTotals <- MCTotals
  Keys = {k1}
  ClientRequests <- MCRequests
  Sessions = {s1, s2}
  Workers = {w1, w2}
INVARIANTS
  NeverOverpaid
  PaidIsTheSumOfPayments
  OnePaymentPerSession
  SavedResponsesAreTrue
  AcceptedIsRecorded
PROPERTIES
  CapturesAreRecorded
