--------------------------- MODULE MCOrderService ---------------------------
(***************************************************************************)
(* Instances of the order service for TLC.  The leverage is 2 and prices   *)
(* are even, so margins are exact; the prices of the netting instance are  *)
(* multiples of 7200, so every average price within its bounds is exact.   *)
(***************************************************************************)
EXTENDS OrderServiceProperties

CONSTANTS FX, JP

Request(instrument, side, type, quantity, tif) ==
  [instrument |-> instrument, side |-> side, type |-> type,
   quantity |-> quantity, tif |-> tif]

Market == [kind |-> "Market"]
Limit(price) == [kind |-> "Limit", price |-> price]
Stop(trigger) == [kind |-> "Stop", trigger |-> trigger]
StopLimit(trigger, limit) ==
  [kind |-> "StopLimit", trigger |-> trigger, limit |-> limit]
Trailing(trail) == [kind |-> "TrailingStop", trail |-> trail]

MCLeverage == [i \in Instrument |-> 2]

\* Resting orders of every life: limits that lock 12 and 18, which only a deposit
\* makes room for side by side, an IOC limit that locks 6, a FOK, a market order.
RestingRequests ==
  {Request(FX, "Buy", Limit(12), 2, "GTC"),
   Request(FX, "Sell", Limit(36), 1, "GTC"),
   Request(FX, "Buy", Limit(12), 1, "IOC"),
   Request(FX, "Buy", Limit(12), 1, "FOK"),
   Request(FX, "Buy", Market, 1, "GTC")}

\* Market and limit orders on both sides, whose fills open, add to, reduce,
\* close and reverse positions.
NettingRequests ==
  {Request(FX, "Buy", Limit(7200), 2, "GTC"),
   Request(FX, "Sell", Market, 2, "GTC"),
   Request(JP, "Sell", Market, 1, "GTC")}

\* Stops of every kind on both sides.
StopRequests ==
  {Request(FX, "Sell", Stop(12), 1, "GTC"),
   Request(FX, "Buy", Stop(24), 1, "IOC"),
   Request(FX, "Sell", Trailing(12), 1, "GTC"),
   Request(FX, "Buy", Trailing(12), 1, "GTC"),
   Request(FX, "Buy", StopLimit(24, 24), 1, "GTC")}
=============================================================================
