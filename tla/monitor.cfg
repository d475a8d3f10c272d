SPECIFICATION FairMonitorSpec
CONSTANTS
  FX = FX
  JP = JP
  Instrument = {FX, JP}
  Leverage <- MCLeverage
  InitialBalance = 24
  Requests <- MonitorRequests
  FillQuantities = {1}
  FillPrices = {24}
  MarketPrices = {24, 36}
  CashAmounts = {}
  MaxOrders = 5
  MaxBalance = 0
  MaxOrderQuantity = 1
  MaxOpenOrders = 1
  MaxOpenPositions = 3
  MaxLoss = {}
  MarginCallRatio = 100
  StopOutRatio = 50
INVARIANTS
  MonitorTypeOK
  MarginCallsAreNotRepeated
  ShortStopOutPricesAreRight
PROPERTIES
  HandledStopOutCoversPositions
  MonitorImplementsService
  LiquidationEnds
