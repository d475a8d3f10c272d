SPECIFICATION Spec
CONSTANTS
  FX = FX
  JP = JP
  Instrument = {FX}
  Leverage <- MCLeverage
  InitialBalance = 24
  Requests <- RestingRequests
  FillQuantities = {1, 2}
  FillPrices = {12, 24}
  MarketPrices = {12}
  CashAmounts = {12}
  MaxOrders = 3
  MaxBalance = 36
  MaxOrderQuantity = 2
  MaxOpenOrders = 2
  MaxOpenPositions = 2
  MaxLoss = {}
INVARIANTS
  TypeOK
  EventsTellStatus
  OpenOrdersWithinLimit
  LocksMatchLiveLimits
  MarginConserved
PROPERTIES
  FinishedOrdersAreInert
  ImplementsMarginLedger
