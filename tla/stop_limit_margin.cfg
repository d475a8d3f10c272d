SPECIFICATION Spec
CONSTANTS
  FX = FX
  JP = JP
  Instrument = {FX}
  Leverage <- MCLeverage
  InitialBalance = 24
  Requests <- StopRequests
  FillQuantities = {1}
  FillPrices = {24}
  MarketPrices = {6, 12, 24}
  CashAmounts = {}
  MaxOrders = 1
  MaxBalance = 0
  MaxOrderQuantity = 1
  MaxOpenOrders = 3
  MaxOpenPositions = 1
  MaxLoss = {}
INVARIANTS
  TriggeredStopLimitsHoldMargin
