SPECIFICATION Spec
CONSTANTS
  po = po
  pm = pm
  g1 = g1
  g2 = g2
  b1 = b1
  adv = adv
  w = w
  bare = bare
  steel = steel
  wheel = wheel
  Documents <- MCDocuments
  NoDocument = NoDocument
  Products = {steel, wheel}
  PurchaseOrders = {po, pm}
  Receipts = {g1, g2}
  Bills = {b1}
  Ordered <- MCOrdered
  UnitCost <- MCUnitCost
  Deliveries <- MCDeliveries
  Totals = {2}
  Payments = {1, 2}
  Advances = {adv}
  InitialStock <- MCInitialStock
  ProductionOrders = {w, bare}
  Makes <- MCMakes
  Boms <- MCBoms
  AverageCost <- MCAverageCost
  Values <- MCValues
  Quantities = {1, 2}
  MaxCompletions = 2
  pay1 = pay1
  pay2 = pay2
  june = june
  lv = lv
  day = day
  ld = ld
  opp = opp
  fromNumber = fromNumber
  ownCode = ownCode
  Payrolls = {pay1, pay2}
  Periods = {june}
  Nets = {0, 1}
  Leaves = {lv}
  LeaveDates = {easter, august}
  WorkDays = {day}
  Times = {1, 2}
  Leads = {ld}
  Opportunities = {opp}
  Codes = {fromNumber, ownCode}
  CodeOf <- MCCodeOf
  part = part
  far = far
  good = good
  variant = variant
  Rows <- MCRows
  Bought = {part}
  LookedUp <- MCLookedUp
  Recipes <- MCRecipes
  Transfers <- MCTransfers
  Units = {1}
  Costs = {0, 1, 4}
  MaxMoves = 4
  Together <- MCTogether
  Requests = {r1, r2}
SYMMETRY Symmetry
INVARIANTS
  ReceivedIsCovered
  PaidBillsWerePaid
  PurchasesExactWithoutRaces
  MadeFromMaterials
  StockExplained
  RowsAreWhole
  SalariesExpensedOnce
  InventoryExplained
PROPERTY ClosedStaysClosed
CHECK_DEADLOCK FALSE
