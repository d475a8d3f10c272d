SPECIFICATION Spec
CONSTANTS
  FX = FX
  JP = JP
  Instrument = {FX, JP}
  Leverage <- MCLeverage
  InitialBalance = 28800
  Requests <- NettingRequests
  FillQuantities = {1, 2}
  FillPrices = {7200, 14400}
  MarketPrices = {}
  CashAmounts = {}
  MaxOrders = 3
  MaxBalance = 0
  MaxOrderQuantity = 2
  MaxOpenOrders = 3
  MaxOpenPositions = 2
  MaxLoss = {7200}
INVARIANTS
  PositionsNetTrades
  BalanceReconciles
  LossMatchesTrades
  FilledLimitsAreTraded
  TradesFitOrders
PROPERTIES
  EquityUnmovedByTrade
