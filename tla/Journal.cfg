SPECIFICATION FairSpec
CONSTANTS
  Months = {jan, feb}
  Workers = {w1, w2}
  MaxEntries = 3
INVARIANTS
  NumbersAreGapless
  ReversalsMatch
PROPERTIES
  ClosedMonthsDrain
  RequestsEnd
CHECK_DEADLOCK FALSE
