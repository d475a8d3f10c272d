SPECIFICATION CompositeSpec
CONSTANTS
  FX = FX
  JP = JP
  Instrument = {FX}
  Leverage <- MCLeverage
  InitialBalance = 15
  Requests <- CompositeRequests
  FillQuantities = {2, 3}
  FillPrices = {6}
  MarketPrices = {}
  CashAmounts = {}
  MaxOrders = 3
  MaxBalance = 0
  MaxOrderQuantity = 3
  MaxOpenOrders = 2
  MaxOpenPositions = 2
  MaxLoss = {}
  SecondaryRequests <- CompositeSecondaries
  MaxIfds = 1
  MaxOcos = 1
INVARIANTS
  CompositeTypeOK
  OneSecondaryPerIfd
  CompletedOcoIsSettled
PROPERTIES
  ImplementsService
