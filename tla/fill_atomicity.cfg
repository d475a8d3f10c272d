SPECIFICATION Spec
CONSTANTS
  FX = FX
  JP = JP
  Instrument = {FX}
  Leverage <- MCLeverage
  InitialBalance = 6
  Requests <- RestingRequests
  FillQuantities = {1, 2}
  FillPrices = {12, 24}
  MarketPrices = {12}
  CashAmounts = {12}
  MaxOrders = 2
  MaxBalance = 36
  MaxOrderQuantity = 2
  MaxOpenOrders = 2
  MaxOpenPositions = 2
  MaxLoss = {}
PROPERTIES
  FillsAreAllOrNothing
