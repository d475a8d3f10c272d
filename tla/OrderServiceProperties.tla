----------------------- MODULE OrderServiceProperties -----------------------
(***************************************************************************)
(* What the order service promises: about each order, about the margin     *)
(* behind the orders, and about the books the fills leave.                 *)
(***************************************************************************)
EXTENDS OrderService

\* Every variable has its type; locks are only held for stored orders, and the
\* order store and the event record cover the same orders.
TypeOK ==
  /\ store \in Seq(Order)
  /\ account \in Account
  /\ DOMAIN positions \subseteq Instrument
  /\ positions \in [DOMAIN positions -> Position]
  /\ DOMAIN marginLocks \subseteq OrderId
  /\ marginLocks \in [DOMAIN marginLocks -> Int]
  /\ cumulativeLoss \in Int
  /\ trades \in Seq(Trade)
  /\ lastEvent \in Seq(OrderEvent)
  /\ Len(lastEvent) = Len(store)
  /\ netCash \in Int

-----------------------------------------------------------------------------
(* Orders.                                                                 *)

\* What a subscriber that heard event last takes the order's status to be.
StatusTold(event) ==
  CASE event \in {"None", "TrailingStopUpdated"} -> "PendingTrigger"
    [] event \in {"Accepted", "StopTriggered"} -> "Accepted"
    [] event \in {"Cancelled", "IocResidualCancelled"} -> "Cancelled"
    [] event = "FokRejected" -> "Rejected"
    [] event \in {"PartiallyFilled", "Filled"} -> event

\* The last event published about an order tells its status, whichever
\* handlers moved it, so a subscriber never sees an order in a state it is not
\* in.  (event_bus.publish in submit_order, cancel_order, fill_order,
\* apply_ioc_policy and on_price_update.)
EventsTellStatus ==
  \A id \in OrderId : store[id].status = StatusTold(lastEvent[id])

\* Once an order is filled, cancelled or rejected no call changes its status,
\* publishes an event about it, locks margin for it or records a trade of it.
FinishedOrdersAreInert ==
  [][\A id \in OrderId :
       IsTerminal(store[id].status) =>
         /\ store'[id].status = store[id].status
         /\ lastEvent'[id] = lastEvent[id]
         /\ id \notin DOMAIN marginLocks'
         /\ trades' # trades => trades'[Len(trades')].order # id]_vars

\* No sequence of calls gets an account more open orders than its limit, the
\* triggering of stops included.
OpenOrdersWithinLimit == Cardinality(OpenOrders) <= MaxOpenOrders

-----------------------------------------------------------------------------
(* Margin.                                                                 *)

IsLiveLimit(order) ==
  order.type.kind = "Limit" /\ order.status \in {"Accepted", "PartiallyFilled"}

\* Margin is locked for exactly the limit orders that can still be filled, each
\* with the whole margin it was submitted with: none is forgotten by a cancel,
\* a fill or an IOC residual, and none is released while its order rests.
LocksMatchLiveLimits ==
  /\ \A id \in OrderId : id \in DOMAIN marginLocks <=> IsLiveLimit(store[id])
  /\ \A id \in DOMAIN marginLocks : marginLocks[id] = MarginOf(store[id])

LockOf(id) == IF id \in DOMAIN marginLocks THEN marginLocks[id] ELSE 0

\* The account's locked margin is the sum of the locks of the orders: the
\* counter and the map, updated in different places, never drift apart, so
\* unlock_margin never refuses.
MarginConserved ==
  account.locked = SumUpTo([id \in OrderId |-> LockOf(id)], Len(store))

-----------------------------------------------------------------------------
(* The books.  They agree until the loss limit is hit, for past it fills   *)
(* are settled and not recorded.                                           *)

SumOverTrades(Value(_)) == SumUpTo([n \in DOMAIN trades |-> Value(trades[n])], Len(trades))

Signed(side, qty) == IF side = "Buy" THEN qty ELSE -qty

NetTraded(instrument) ==
  LET Value(trade) == IF trade.instrument = instrument
                      THEN Signed(trade.side, trade.quantity) ELSE 0
  IN  SumOverTrades(Value)

TradedOf(id) ==
  LET Value(trade) == IF trade.order = id THEN trade.quantity ELSE 0
  IN  SumOverTrades(Value)

RealizedInTrades == LET Value(trade) == trade.pnl IN SumOverTrades(Value)

LostInTrades ==
  LET Value(trade) == IF trade.pnl < 0 THEN trade.pnl ELSE 0 IN SumOverTrades(Value)

\* Netting keeps the trade history's books: an instrument has a position
\* exactly when its trades do not cancel out, on their side and of their size.
PositionsNetTrades ==
  ~LossLimitHit(cumulativeLoss) =>
    \A i \in Instrument :
      IF i \in DOMAIN positions
      THEN /\ positions[i].quantity > 0
           /\ NetTraded(i) = Signed(positions[i].side, positions[i].quantity)
      ELSE NetTraded(i) = 0

\* The balance is what was paid in and what the recorded trades realized.
BalanceReconciles ==
  ~LossLimitHit(cumulativeLoss) =>
    account.balance = InitialBalance + netCash + RealizedInTrades

\* The running loss the limit is checked against is the one restore_from_db
\* recomputes from the trade history after a restart.
LossMatchesTrades ==
  ~LossLimitHit(cumulativeLoss) => cumulativeLoss = LostInTrades

\* The quantity a limit order says was filled is the quantity traded for it.
FilledLimitsAreTraded ==
  ~LossLimitHit(cumulativeLoss) =>
    \A id \in OrderId :
      store[id].type.kind = "Limit" /\ store[id].status \in {"PartiallyFilled", "Filled"} =>
        TradedOf(id) = store[id].filled

\* No order is traded beyond its quantity, whatever fills were refused or
\* abandoned before: what is traded was entered in the order, and what is
\* entered, a refused fill's quantity included, fits.  (apply_fill)
TradesFitOrders ==
  \A id \in OrderId :
    TradedOf(id) <= store[id].filled /\ store[id].filled <= store[id].quantity

\* A trade at the market price makes nobody richer: valued at the trade's own
\* price, balance and position together are worth the same after the fill as
\* before, whether it opens, adds to, reduces, closes or reverses the position.
EquityUnmovedByTrade ==
  [][trades' # trades =>
       LET trade == trades'[Len(trades')]
           Value(book) == IF trade.instrument \in DOMAIN book
                          THEN LET pos == book[trade.instrument]
                               IN  Gain(pos, pos.quantity, trade.price)
                          ELSE 0
       IN  account'.balance + Value(positions') = account.balance + Value(positions)]_vars

\* The service implements the margin ledger: funds free in the ledger are what
\* the service checks locks and withdrawals against, though it keeps a balance
\* and a counter where the ledger adds up cash, trades and holds.
Ledger ==
  INSTANCE MarginLedger WITH
    Opening <- InitialBalance, Orders <- MaxOrders,
    cash <- netCash, realized <- RealizedInTrades, holds <- marginLocks

ImplementsMarginLedger == Ledger!LedgerSpec

-----------------------------------------------------------------------------
(* Stops.                                                                  *)

\* The best price of a waiting trailing stop only moves its way: down for a
\* buy, up for a sell, and once set it stays set.  This is what the code does
\* and system-flow.md:164 says; the comment of the method (order.rs:291-292)
\* has the sides the other way round.  (update_trailing_best)
TrailingBestRatchets ==
  [][\A id \in OrderId : \A best \in store[id].best :
       \E after \in store'[id].best :
         IF store[id].side = "Buy" THEN after <= best ELSE after >= best]_vars

\* A price update leaves no stop of the instrument waiting that the price has
\* reached, and lets none go that it has not.
PriceReaches(order, price) ==
  LET Past(level) == IF order.side = "Buy" THEN price >= level ELSE level >= price
      away == IF order.side = "Buy" THEN order.type.trail ELSE -order.type.trail
  IN  IF order.type.kind = "TrailingStop"
      THEN \E best \in order.best : Past(best + away)
      ELSE Past(order.type.trigger)

StopsGoWhenReached ==
  [][\A i \in Instrument, price \in MarketPrices :
       OnPriceUpdate(i, price) =>
         \A id \in PendingTriggerOrdersFor(i) :
           store'[id].status =
             IF PriceReaches(store'[id], price) THEN "Accepted" ELSE "PendingTrigger"]_vars
-----------------------------------------------------------------------------
(* Said of the service, and not so: each is checked to find the            *)
(* counterexample.                                                         *)

\* docs/DESIGN.md:232 has margin, positions and events change in one
\* transaction: a fill that is entered in the order and published is also
\* settled and recorded.
FillsAreAllOrNothing ==
  [][\A id \in OrderId :
       /\ store'[id].filled # store[id].filled
       /\ lastEvent'[id] \in {"PartiallyFilled", "Filled"}
       => trades' # trades]_vars

\* order.rs:53 and implemented-features.md:25 have a stop-limit order placed as
\* a limit order once it triggers, and limit orders rest with margin locked.
TriggeredStopLimitsHoldMargin ==
  \A id \in OrderId :
    store[id].type.kind = "StopLimit" /\ store[id].status \in {"Accepted", "PartiallyFilled"} =>
      id \in DOMAIN marginLocks
=============================================================================
