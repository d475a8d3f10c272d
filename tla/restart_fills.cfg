SPECIFICATION CommandSpec
CONSTANTS
  FX = FX
  Instrument = {FX}
  Leverage <- MCLeverage
  InitialBalance = 24
  Requests = {}
  FillQuantities = {}
  FillPrices = {}
  MarketPrices = {}
  CashAmounts = {12}
  MaxOrders = 2
  MaxBalance = 24
  MaxOrderQuantity = 2
  MaxOpenOrders = 2
  MaxOpenPositions = 2
  MaxLoss = {}
  AccountRow <- MCAccountRow
  PositionRows <- MCPositionRows
  SubmitLines <- MCSubmitLines
  TypedQuantities = {1, 2}
  TypedPrices = {12, 24}
  MaxTrades = 2
  MaxLossSeen = 24
INVARIANTS
  RecordedFillsFit
