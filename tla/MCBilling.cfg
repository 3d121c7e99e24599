SPECIFICATION BillingSpec
CONSTANTS
  None = None
  Starts <- MCStarts
  Intervals = {1, 2}
  MaxCount = 5
  ClosingDays = {5, 30}
  DueDays = {10, 31}
  FirstDay <- WinterStart
  LastDay <- WinterEnd
  MaxPurchases = 2
  MaxInstallments = 14
INVARIANT NoMonthSkipped
INVARIANT InOnePeriod
INVARIANT ParcelsSpread
INVARIANT ClosedBillsDoNotGrow
PROPERTY StatusOnlyAges
CHECK_DEADLOCK FALSE
