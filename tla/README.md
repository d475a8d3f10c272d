# Verification of aegis-oms

TLA+ models of the order management system in `src/`, the TLC runs that check
them and the theorems TLAPS proves about them. Paths of code are relative to
the crate's source directory, paths of documents to the repository root.

## 1. The system

aegis-oms takes orders for one trading account, locks margin for them, enters
the fills that a matching engine reports, nets the fills into positions, and
watches stops and margin. There is no thread, timer or queue of its own: every
change is a call into `OrderService` from a client (the REPL, a future web API),
from the market feed or from the matching engine, and the service sits behind
one mutex (`service/shared.rs`). What is concurrent is the order of those calls.
With `--db` the same service runs over PostgreSQL: orders and trades are written
to tables, and the next start reads them back.

| Component | State | Operations | What makes it correct |
|---|---|---|---|
| Order (`domain/order.rs`) | status, filled quantity, best price of a trailing stop | `transition_to`, `apply_fill`, `check_trigger`, `update_trailing_best` | finished orders are inert; stops go exactly when reached; the best price ratchets |
| Account (`domain/account.rs`) | balance, locked margin | `lock_margin`, `unlock_margin`, `apply_realized_pnl`, `deposit`, `withdraw` | what is locked is not promised twice, not withdrawn, not forgotten |
| Positions (`domain/position.rs`, `update_position_with_pnl`) | at most one netted position per instrument | `add`, `reduce`, reversal, `update_unrealized_pnl` | positions, balance and realized profit agree with the trades |
| Risk checks (`service/risk_check.rs`) | limits | `validate_order`, `validate_margin` | limits hold over sequences of calls, not only at one |
| Order service (`service/order_service.rs`) | order store, account, positions, lock per order, running loss, trade history | `submit_order`, `cancel_order`, `fill_order`, cash, marks, `restore_from_db` | all of the above together; events tell the truth |
| Composite orders (`service/composite_order_service.rs`) | IFD and OCO registries | `register_*`, `on_price_update`, `on_order_filled` | the other leg of a completed OCO is closed; one secondary per IFD |
| Margin monitor (`service/margin_monitor.rs`) | last margin level | `check`, `force_liquidate` | a stop-out closes positions; no margin call repeated |
| Risk engine (`domain/risk_engine.rs`) | none | `calculate`, `calculate_stop_out_prices` | the price computed is the price at which stop-out happens |
| Repositories (`infra/*`, `sql/`) | in-memory maps; PostgreSQL rows and a cache | `save`, `get_mut`, `load_all_orders`, `load_account`, `load_positions` | what is answered for is on record and read back; restoring rewrites no column of them but `updated_at` |
| Event buses (`infra/event_bus.rs`, `infra/async_event_bus.rs`) | handlers; a broadcast channel | `publish` | - |
| Command line, start-up, configuration (`cli/`, `main.rs`, `config.rs`) | none | reading a line, calling the service, printing; `create_pg_service` | an answer is true for good |

How they meet: `submit_order` asks the risk checks, locks margin in the account,
saves to the order store and publishes; `fill_order` goes through the order, the
event bus, the margin check, the lock, the position, the account, the loss limit
and the trade store, in that order, and can stop with an error after any of
them; `on_price_update` reaches into the service's orders by `get_order_mut`;
the monitor reads positions and account and submits orders. `restore_from_db`
loads the account, saves every order it reads back into the store, adds up the
losses of the trades and takes over the positions it is given.

What is hard here is therefore not parallelism but partial failure (a call that
returns an error half-way), state kept twice (the locked margin as a counter and
as a map; the loss as a counter and in the history), the order of effects in a
call, checks made at one time and used at another, long sequences of legal
calls, and what a restart makes of rows that only some of the calls write. `PROJECT.json` lists each hazard at its line.

## 2. The modules

| Module | Stands for |
|---|---|
| `Orders` | one order: statuses, moves, fills, triggers, trailing best price |
| `Accounts` | the account's methods, and the margin calculation |
| `Positions` | a position, and how a fill is netted into the positions |
| `RiskChecks` | the limits and the checks against them |
| `Maps`, `Sums` | hash map insertion and removal; sums of a function on 1..n |
| `OrderService` | the state machine: the service with in-memory stores, and the price feed of the composite service |
| `OrderServiceProperties` | type invariant, safety and action properties, the refinement mapping |
| `MarginLedger` | abstract: what an account owes its owner, in terms of cash, profit and held funds |
| `CompositeOrders`, `CompositeProperties` | IFD and OCO orders, composed with `OrderService` |
| `RiskEngine` | margin levels and stop-out prices, as operators |
| `MarginMonitor`, `MonitorProperties` | the margin monitor, composed with `OrderService` and `RiskEngine` |
| `OrderRows` | an order as a row: the columns, the table's constraints, the upsert, reading back |
| `Persistence` | the service over the PostgreSQL repositories, and a restart |
| `CommandLine`, `CommandLineProperties` | the lines typed over that service, their answers, the end of the process and the next start |
| `MCOrderService`, `MCCompositeOrders`, `MCMarginMonitor`, `MCCommandLine` | the instances for TLC |
| `OrderServiceProofs`, `SumsProofs`, `MarginProofs`, `StatusProofs`, `BooksProofs`, `CompositeProofs`, `MonitorProofs`, `PersistenceProofs` | the theorems |

The pure operators of `Orders`, `Accounts`, `Positions` and `RiskChecks` have the
names of the Rust methods, take the value a method is called on and return the
value it leaves. `Can...` is the check a method makes first. `OrderService` has
one variable per field of the struct (`store`, `account`, `positions`,
`marginLocks`, `cumulativeLoss`, `trades`), and two more: `lastEvent`, the last
event published about each order, and `netCash`, a history variable (deposits
less withdrawals) the code does not have.

Each action is a whole call with one outcome. `submit_order` is `SubmitFok`,
`SubmitLimit`, `SubmitMarket`, `SubmitStop` and `SubmitIoc`, by order type and
time in force. `fill_order` is `RefuseFill` (`apply_fill` fails), `AbandonFill`
(a later check fails, when the order has taken the fill) and `SettleFill` (the
fill reaches the position, with the trade recorded or the loss limit hit).
`CancelOrder`, `Deposit`, `Withdraw`, `UpdatePositionsPnl` and `OnPriceUpdate`
are the calls of those names.

`CompositeOrders` and `MarginMonitor` extend `OrderService` with the variables of
their own structs; a call of the service by anyone else is `ServiceCall` or
`MonitoredCall`. Two of their methods make several calls of the service under
one lock: `on_order_filled` submits and then cancels, `force_liquidate` submits
for one position after another. Each of these calls is a step, and while the
method lasts `followUp` or `toClose` holds everyone else back. So every step is
one step of the service or none, and `ImplementsService` and
`MonitorImplementsService` can say that composite orders and monitor are clients
of it like any other.

- `on_order_filled(id)` starts with `HandleIfdIdle`, `HandleIfd` (the secondary
  order is submitted), `HandleIfdRefused` or `HandleIfdRejected` (it is refused,
  or rejected as FOK: the call ends with the error) and goes on with
  `HandleOcoIdle` or `HandleOco`. It may be called any number of times for any
  order a fill was announced of, at any time after. `notices` (those orders),
  `answered` (those it was called for) and `secondaries` are history variables.
- `check` is `CheckNormal`, `CheckMarginCall` or `CheckStopOut`, with any map of
  known prices; a check that only returns the status changes nothing.
  `ForceLiquidate` and `LiquidationRefused` go through the positions in any
  order, as iteration over a hash map does. `calls` and `liquidation` are
  history variables.

`Persistence` extends `OrderService` with the tables. `store` is now the cache of
`PgOrderRepository`, `orderRows` and `tradeRows` are the tables, `ids` maps an
order of the session to its row (its ULID), and `strayMargin` adds up the locks
of orders whose insert failed. A call of the service is the service's own action
with what it does to the tables beside it:

- `SubmitSaved` inserts the row. `SubmitUnsaved` is `save` failing, for whatever
  reason, when `submit_order` has locked the margin already.
- `FillSaved` inserts a trade, `FillUnsaved` is a fill that is settled and not
  recorded (the loss limit, a constraint, the connection), `FillFails` one that
  ends earlier. No fill, cancel or trigger writes the orders table: `get_mut`
  hands out the cached order.
- `Restart` is the end of the process, by a command or a crash, and the next
  start. It may come between any two calls. Within a call it needs no steps of
  its own: a call writes at most one row, and what a crash before or after that
  row leaves is what a crash before or after the call leaves. Restoring may break
  off with an error, of which `main` warns before it goes on: `RestoreFromDb` has
  the account read or not, any part of the orders read (the query has no order),
  and the losses and positions only if everything was; not even then the
  positions, if their query fails, which `create_pg_service` takes for an empty
  table (`main.rs:83-88`). The account's row and the positions table are
  constants, for no code writes them. `trades` stays as the
  history of the session: `PgTradeRepository` keeps nothing in memory and its
  `all` is empty.

`CommandLine` has one action per command and answer: `HandleSubmit` or
`HandleSubmitFails`, `HandleFill` or `HandleFillFails`, `HandleCancel`,
`HandleCash`. `RequestsOf` reads a line as `handle_submit` does: an unknown side
is refused, and every type that is not a market order is a limit order. `told`
is a history variable: the answers that an order was created or filled.

### Abstractions

- A call that returns an error and changes nothing is no step: orders refused by
  the risk checks, unknown ids and instruments, illegal cancels, withdrawals
  that exceed what is available.
- Order ids are indices of `store`: ULIDs are fresh. Timestamps, names, reasons
  and the texts of errors are left out, but for the column `updated_at` of the
  orders table, of which the model keeps what wrote it: the submission or a
  restart. (The upsert sets it, and a trigger sets it again.)
- A `Decimal` is an integer and division is integer division. In the instances
  every division is exact: the leverage is 2 and prices are even; in `netting`
  prices are multiples of 7200. The theorems hold for integer division whatever
  it rounds away; `EquityMovesByLessThanRounding` says how much that is.
- `Quotient` divides by negative numbers too, for a position may be held in a
  negative quantity once a fill of one was typed.
- An optional value is the empty set or a singleton. A trade that realizes
  nothing has `pnl` 0 instead of `None`: every reader of the field adds it up.
- `lastEvent` keeps the last event of an order, for a subscriber that wants to
  know the order's status keeps that. The quantities and prices in events are
  left out.
- Fill quantities and prices are positive, leverage is positive, and the
  multiplication in `required_margin` does not overflow. Typed quantities and
  prices may be any integers in `CommandLine`; its instance has positive ones.
- A stop-out price is a fraction; it is compared and put into the equation
  without dividing.
- `unlock_margin`'s failure is modelled wherever the code meets it
  (`ReleaseFails`), though `MarginIsConserved` shows it never happens.

## 3. The runs

| Run | Question | Instance |
|---|---|---|
| `resting` | Do orders, events and margin stay in step while orders compete for funds? | 1 instrument, 3 orders of 5 kinds (limits that lock 12 and 18, which only a deposit makes room for together, an IOC limit that locks 6, a FOK, a market order), 2 may be open, fills of 1 or 2 units at two prices, deposits and withdrawals of 12 with the balance up to 36 |
| `netting` | Do positions, balance and loss agree with the trades? | 2 instruments, 3 orders of 3 kinds on both sides of 1 or 2 units, fills of 1 or 2 units at two prices, loss limit 7200 |
| `stops` | Do stops go exactly when reached? | 1 instrument, 3 stops of 5 kinds (stop and trailing stop on both sides, stop-limit), feed of three prices |
| `composite` | Do IFD and OCO orders do what they promise, through the service alone? | 1 instrument, 3 orders of 3 kinds (limits of 3 and 2 units, which cannot all be afforded; a FOK, rejected as a secondary), fills of 2 or 3 units, so that the larger limit is filled in part or whole, 1 IFD, with one of two kinds of secondary, and 1 OCO among them, no more than 2 orders open |
| `monitor` | Are alerts and liquidations made once and completely? | 2 instruments, a long and a short side, up to 5 orders, one of them open at a time, and so positions of up to 2 units where an order may have 1, beside one of 1 unit; the price of the fills and a higher one, each known or not |
| `sessions` | What survives failed writes, crashes and restarts? | 1 instrument, 3 lines (a limit order by an unknown word, a market order to sell, an order of no side), up to 2 orders and 2 trades on record, fills of 1 or 2 units at two prices, deposits and withdrawals of 12 with the balance up to 24, a running loss of up to 24, a short position in the positions table, any number of restarts |
| `oco_follow_up` | Is the other leg of an OCO always cancelled? | as `composite` |
| `liquidation` | Can closing orders be filled? | as `monitor` |
| `stop_out_price` | Are stop-out prices right? | as `monitor` |
| `fill_atomicity` | Is a fill all or nothing? | funds for half of a market order |
| `stop_limit_margin` | Is margin locked for a triggered stop-limit? | as `stops`, one order |
| `restart_fills` | Do the fills on record fit their orders? | as `sessions` |

Why the bounds are enough for these questions. Two limit orders of different
margin and a third order are what it takes for one order's release to be taken
for another's, for a lock to be counted twice and for the open-order limit to be
met from below by a submission after a cancel or a fill. An order of two units
has every fill history: one fill, two fills, a partial fill and a cancel, an
over-fill. Three orders of up to two units, on both sides, let a position be
opened, added to, reduced, closed and reversed, and reopened at another price.
Three prices give a trailing stop a path down and up again, and reach each
trigger exactly and past it; the price feed runs in `resting`, `stops` and
`monitor`. One IFD and one OCO over three orders can share orders in every way:
primary and leg, secondary and leg, both legs one order, all different. The larger of
them is filled whole or in part, and not in two parts: the follow-up of a leg filled in
part settles the OCO order, an IFD fires on a whole fill only, and the theorems
about both cover every quantity. Two
prices and the average price of positions that have none take an account to every
margin level and back. Five orders leave two for a liquidation of positions of
two units and one: it is refused for the position of two units, before or after
the other has its closing order, and for any position while an order is open; the
next check takes it up. So a stop-out is refused with all its positions left, is
refused half-way, and is handled with a closing order for each of two. Two
orders on record are what it takes for an order to get another's row: one
restart that reads the second row only, and the session's first order is the
table's second. A position on record is what it takes for a restart to take over
positions or lose them. Two trades are an order filled in two parts, or filled up before
a restart and again after it. The sessions have no loss limit, as the program
has none with `--db`: `create_pg_service` takes the default limits, whatever the
configuration says. `MaxTrades` and `MaxLossSeen` bound the trades and the loss,
`MaxOrders`, `MaxBalance`, `MaxIfds` and `MaxOcos` the rest of what grows; the
code has no such limits. Deadlock is checked in all runs: some call is always
possible, for updates of the valuation are, and so is the next start of the
process.

What `resting` checks:

- `TypeOK` - the type invariant; locks only for stored orders.
- `EventsTellStatus` - the last event about each order tells its status.
- `OpenOrdersWithinLimit` - over every sequence of calls.
- `LocksMatchLiveLimits` - margin is locked for exactly the limit orders that
  can still be filled, each with its whole margin.
- `MarginConserved` - the counter is the sum of the map.
- `FinishedOrdersAreInert` - a late fill or cancel changes no status, publishes
  nothing, locks nothing and trades nothing.
- `ImplementsMarginLedger` - the service implements `MarginLedger` under the
  mapping cash = `netCash`, realized = profit and loss in the trades, holds =
  `marginLocks`: it never locks or pays out more than is free.

What `netting` checks: `PositionsNetTrades`, `BalanceReconciles`,
`LossMatchesTrades` (the running loss is the one `restore_from_db` would
recompute), `FilledLimitsAreTraded`, `TradesFitOrders` (no order is traded
beyond its quantity, though refused fills are counted and abandoned ones
entered), and the action property `EquityUnmovedByTrade` (a trade at the market
price changes nobody's equity, whichever branch of the netting it takes). The
first four hold until the loss limit is hit, and `TradesFitOrders` beyond it:
past the limit `fill_order` settles fills and returns before recording the
trade. In this run a fill can also be abandoned for lack of margin.

What `stops` checks: `StopsGoWhenReached`, `TrailingBestRatchets`, and
`EventsTellStatus` again, for the events of triggers and trailing prices.

What `composite` checks: `CompositeTypeOK`, `OneSecondaryPerIfd` (however often
fills are followed up), `CompletedOcoIsSettled` (whichever leg fills first and
whatever a client cancels meanwhile, the other leg is closed; that both legs are filled before either
is followed up is not excluded, in the code neither), and the refinement
`ImplementsService`.

What `monitor` checks: `MonitorTypeOK`; `HandledStopOutCoversPositions` (a
stop-out is recorded only when every position has its closing order);
`MarginCallsAreNotRepeated` (margin calls only: the stop-out alert is repeated by
every check that tries a refused liquidation again); `ShortStopOutPricesAreRight` (for every map of known
prices); `LiquidationEnds` (a liquidation that was begun ends, in closing orders
for all positions or a refusal); and the refinement `MonitorImplementsService`, of
a service that is also asked for closing orders.

What `sessions` checks, over any sequence of lines, failed writes and restarts:

- `SessionTypeOK` - with it, that every order in the cache has a row of its own.
- `ToldOrdersSurvive`, `ToldFillsSurvive` - an answered order is on record as it
  was typed and can be read back; an answered fill has a record of its own.
- `CacheMatchesRows` - an order of the session has the terms of the row its id
  stands for, whichever rows the restart read.
- `RestoredInFull` - after a restart that met no error, every order that can be
  read is there.
- `RecordsArePermanent` - restoring saves every order it has read, which rewrites
  the time of the last update in its row at every start, and changes nothing else.
- `MarginAccounted` - the locked margin is the sum of the map of locks, those of
  orders whose insert failed included. (The locks themselves do not survive: an
  order that rests over a restart has none after it, and its funds are free.)
- `LossNotForgotten` - a restart that met no error forgives no loss on record. (One
  that breaks off starts from no loss.)

Six runs show where the code departs from what the repository says of it:

- `fill_atomicity` - `docs/DESIGN.md:232` has margin lock, position update and
  event publication happen in one transaction. A market order that fails its
  margin check has by then been marked filled and announced.
- `stop_limit_margin` - `order.rs:54` has a triggered stop-limit placed as a
  limit order. It moves to Accepted with no margin locked, and is exempt from
  the check market orders meet when they fill.
- `oco_follow_up` - `composite_order.rs:17` has the other leg of an OCO cancelled
  when one is filled. The error of a refused IFD secondary keeps `on_order_filled`
  from its OCO half.
- `liquidation` - `margin_monitor.rs:115` has closing orders filled after they are
  submitted. They are IOC orders, which `submit_order` cancels at once, so a
  stop-out closes nothing; and the level is recorded, so it is not tried again.
- `stop_out_price` - `risk_engine.rs:39` has a position stop out at its stop-out
  price. The price of a long position has the wrong sign.
- `restart_fills` - `docs/implemented-features.md:22` has a fill beyond the
  remaining quantity refused. Fills are entered in the cached order only, so an
  order filled before a restart is open after it and can be filled again; the
  trades on record then exceed it.

In one place a comment is wrong and the code, which the property follows, is not:
`order.rs:292` has the best price of a trailing stop follow the market up for a
buy and down for a sell. `update_trailing_best` takes the lower price for a buy
and the higher for a sell (lines 301-302), as `docs/system-flow.md:164` has it, and
as a stop that trails the market must. `TrailingBestRatchets` states this, and
the comment's claim is among the findings.

### Fairness

The only fairness is weak fairness of `Liquidate`, in `FairMonitorSpec`, for
`LiquidationEnds`. `force_liquidate` is a loop within one call, which the mutex
lets nobody interrupt, and its steps are the ones of that loop: it goes on until
it is through, because the thread that runs it does. What the property says is
that the loop gets through from every state in which a liquidation can begin,
whatever the risk checks refuse on the way.

Otherwise none is assumed and no liveness is claimed. The program does nothing
unless it is called: no order is entitled to a fill, no price to an update, no
fill to a follow-up (outside the tests nothing calls `on_order_filled` or
`check`), no row to a restart.

## 4. The proofs

| Theorem | Says | Rests on |
|---|---|---|
| **The service** | | |
| `TypeCorrect` (`OrderServiceProofs`) | `Spec => []TypeOK` | one lemma per kind of step; `TypeOK` is inductive |
| `LocksExact` (`OrderServiceProofs`) | `Spec => []LocksMatchLiveLimits` | the property with `TypeOK` is inductive |
| `MarginIsConserved` (`MarginProofs`) | `Spec => []MarginConserved` | `MarginInv` |
| `EventsTellTheStatus` (`StatusProofs`) | `Spec => []EventsTellStatus` | `MarginInv`, `StepSavesOrMoves` |
| `FinishedOrdersStay` (`StatusProofs`) | `Spec => FinishedOrdersAreInert` | the same, and `LocksExact` |
| `OpenOrdersStayWithinLimit` (`StatusProofs`) | `Spec => []OpenOrdersWithinLimit` | `MarginInv`, `StepSavesOrMoves` |
| `TrailingStopsRatchet` (`StatusProofs`) | `Spec => TrailingBestRatchets` | `TypeOK` |
| `StopsGoExactlyWhenReached` (`StatusProofs`) | `Spec => StopsGoWhenReached` | `PendingAreStops` |
| `PositionsAreTheNetOfTrades`, `BalanceIsReconciled`, `LossIsInTheTrades`, `LimitFillsAreTraded`, `TradesFitTheirOrders` (`BooksProofs`) | `Spec => []PositionsNetTrades`, `BalanceReconciles`, `LossMatchesTrades`, `FilledLimitsAreTraded`, `TradesFitOrders` | `BooksInv` |
| `EquityMovesByLessThanRounding` (`BooksProofs`) | a trade moves equity by less than a unit of price per unit then held | `BooksInv`, `FillMovesNoValue` |
| `EquityIsUnmovedByEvenTrades` (`BooksProofs`) | `Spec /\ AveragesEven => EquityUnmovedByTrade` | the same |
| `StepsAreLedgerSteps` (`BooksProofs`) | below the loss limit every step is a step of `MarginLedger` or none | `LedgerInv` |
| `ServiceImplementsLedger` (`BooksProofs`) | `MaxLoss = {} => (Spec => ImplementsMarginLedger)` | `LedgerInv` |
| **Its clients** | | |
| `CompositeTypeCorrect` (`CompositeProofs`) | `CompositeSpec => []CompositeTypeOK` | `CompositeInv` |
| `CompositeIsService` (`CompositeProofs`) | `CompositeSpec => Spec` | `CompositeInv`, `StepIsServiceStep` |
| `CompositeMarginIsConserved`, `CompositeBooksAgree` (`CompositeProofs`) | margin and books are in order with composite orders | `CompositeIsService` and the theorems of the service |
| `OneSecondaryEach` (`CompositeProofs`) | `CompositeSpec => []OneSecondaryPerIfd` | `CompositeInv` |
| `CompletedOcosAreSettled` (`CompositeProofs`) | `CompositeSpec => []CompletedOcoIsSettled` | `OcoInv` |
| `MonitorTypeCorrect`, `OneMarginCallUntilNormal` (`MonitorProofs`) | `MonitorSpec => []MonitorTypeOK`, `[]MarginCallsAreNotRepeated` | `MonitorInv` |
| `StopOutsAreHandledWhole` (`MonitorProofs`) | `MonitorSpec => HandledStopOutCoversPositions` | `MonitorInv` |
| `MonitorIsAClient` (`MonitorProofs`) | `MonitorSpec => MonitorImplementsService` | `MonitorInv` |
| `MonitoredAccountIsInOrder` (`MonitorProofs`) | margin, locks, events, limit and books are in order with the monitor | `BooksProofs` for the requests it adds |
| `ShortStopOutPricesAreExact` (`MonitorProofs`) | `MonitorSpec => []ShortStopOutPricesAreRight` | `TypeOK`, `ShortPriceSolves` |
| **The sessions** | | |
| `RecordsStay`, `ToldOrdersStand`, `ToldFillsStand` (`PersistenceProofs`) | `CommandSpec => RecordsArePermanent`, `[]ToldOrdersSurvive`, `[]ToldFillsSurvive` | `SessionInv` |
| `SessionsTypeCorrect`, `CacheStandsForRows`, `NoLossIsForgotten`, `RestoresEveryRow` (`PersistenceProofs`) | `CommandSpec => []SessionTypeOK`, `[]CacheMatchesRows`, `[]LossNotForgotten`, `[]RestoredInFull` | `CacheInv` |
| `MarginIsAccounted` (`PersistenceProofs`) | `NothingLockedOnRecord => (CommandSpec => []MarginAccounted)` | `AccountInv` |

All are proved for every value of the constants that `LimitsAssumption`,
`ServiceAssumption`, `CompositeAssumption`, `RatiosAssumption`,
`PersistenceAssumption` and `CommandAssumption` allow: positive leverages, natural
limits and liquidation ratios, an initial balance that is not negative, secondary
orders of IFDs that are among the requests and, in the service and its clients,
positive fill quantities and prices. Instruments, requests, prices and the number
of orders are arbitrary. What is typed in a
session may be any integers, as in the code. Three theorems have a hypothesis
besides, for the reasons given below: `EquityIsUnmovedByEvenTrades`,
`ServiceImplementsLedger` and `MarginIsAccounted`.

`LocksExact`. The steps reduce to three facts: saving an order leaves the other
locks alone (`SaveKeepsLocks`), replacing an order by one of the same type and
size does too as long as its lock goes exactly when it stops being a live limit
(`ReplaceKeepsLocks`), and an order that takes a fill was accepted before
(`ApplyFillEffect`). A price update needs that only stops are triggered, for a
limit order that left `PendingTrigger` would be live with no lock. `TypeOK` is
needed because the property says nothing of locks of orders that do not exist,
and the next order submitted could otherwise find one.

`MarginIsConserved`. `MarginConserved` is not inductive: were a lock larger than
the sum, `unlock_margin` would refuse after the map entry is gone, and the two
would part. `MarginInv` adds that every lock is positive, which `lock_margin`
ensures; then no lock exceeds the sum (`SumBounds`) and `ReleaseFails` is
impossible. `SumsProofs` has what it takes about sums - one more value, one
changed value, no negative values - proved from the well-foundedness of the
naturals, without induction over an operator. What it takes about locks
(`HeldBounds`, `HeldExtends`, `HeldReleases`, `HeldStays`) is about the map of
locks alone, and serves the sessions as well.

Events, finished orders and the open-order limit share one fact,
`StepSavesOrMoves`: a step either saves one new order below the limit and tells
of it (`Saves`), or it only moves orders (`Moves`), where every order that
changes its status was open before and is told of, and only an open order is
traded. That is where the cases are, one lemma per call. It needs `MarginInv`: a
cancel whose release of margin failed would return before it publishes, and leave
a cancelled order that everybody takes to be live. From there each theorem looks
at two cases only. `FinishedOrdersStay` takes from `LocksMatchLiveLimits` that a
finished order holds no margin; `OpenOrdersStayWithinLimit` takes from the
library that one more element makes a finite set larger by one at most.

The stops. That a stop goes exactly when it is reached is about steps, and holds
of each call but for one thing: an order that waits for a trigger must be a stop,
or a price would pass it by. Every waiting order is (`PendingAreStops`), because
nothing ever goes back to waiting. A best price moves in `OnPriceUpdate` only,
and only for the better.

The books. `BooksInv` strengthens the five properties together. `TradesFitOrders`
and `FilledLimitsAreTraded` are not inductive: that an order says it is filled is
compared with what was traded of it, while `apply_fill` counts fills it goes on to
refuse. What is inductive is that every order is sound - never filled beyond its
quantity, and filled whole when its status says so - and that nothing was traded
of orders still to come (`TradesFit`), and that limit orders which rest untouched
are traded to the unit too (`LimitsAreTraded`). The steps are of two sorts
(`StepQuietOrSettles`): quiet ones, which touch neither trades nor positions and
move the balance with the cash, and settled fills. For those, one more trade adds
one term to each sum (`TradeAdds`), and `FillNets` says what every branch of
`update_position_with_pnl` - opening, adding, reducing, closing, reversing - comes
to: the signed quantity held changes by the signed quantity filled. The loss only
grows (`LossNeverShrinks`), so what is claimed below the limit was so before.

Equity. `FillMovesNoValue` has the same five branches in money: what a fill
realizes and what the position gains in value cancel out, but for the remainder
of the division that makes the average price. In the model's integers the
remainder is what is left of a price unit per unit held, and in the code's
decimals it is at the 28th digit. So `EquityUnmovedByTrade` holds exactly where
the averages come out even (`AveragesEven`), as in the run's instance, and
`EquityMovesByLessThanRounding` bounds the rest.

The ledger. `LedgerInv` is `BooksInv` with `LocksMatchLiveLimits` and that no more
orders are stored than the ledger has. What the ledger calls free - cash and
profit less the holds - is the available balance (`FreeIsAvailable`), by
`BalanceReconciles` and `MarginConserved`; so whatever the service checks is what
the ledger asks, and each call is a hold, a release, cash moving, or profit, with
the release of a filled order in the same step. Once a loss limit is hit this ends:
`fill_order` then settles a fill, moves the balance and records no trade, and the
history the ledger reads is short of it. That is why the refinement as a whole is
proved for services without a loss limit, and step by step below it for all; the
run checks it without one.

Composite orders and monitor are clients. A step of the composite service is a
step of the order service if the secondary order it submits is a request, and
the leg it cancels an order, of the service. Both are facts about the registries,
so the proof carries `CompositeTypeOK` along (`CompositeInv`, with `TypeOK`):
indices point at registrations, and what is registered stays well typed while
the store grows (`RegistryKept`, from `OrdersStay`). The theorems about the order
service then hold with composite orders. The monitor submits orders that are no
client's request, so it implements a service with more requests; `MonitorProofs`
takes `BooksProofs` as an instance for those, and the lemmas called `Same...` say
that the operators of one are those of the other. `MonitoredAccountIsInOrder` is
what comes of it.

`OneSecondaryEach` carries one condition per registration (`StepSecondaries`),
which the step that submits the secondary order changes for one registration and
every other step leaves: a secondary that was saved is rejected in that very call
or never. `CompletedOcosAreSettled` needs that finished orders stay finished, and
`EventsTellStatus`: a leg that refuses its cancel is finished, for no saved order
is still new. The legs may be one order.

`MonitorInv` relates the calls to the level recorded (`CallsCounted`: at most one,
and none while the last level is normal), and knows of a liquidation under
way that what is not waiting to be closed has its closing order already
(`DoneAreCovered`); the property itself looks at the last step of it only.

`ShortStopOutPricesAreExact` is algebra: with the sums over the other positions
as two integers, both sides of the equation at the computed fraction are the same
polynomial in them (`ShortPriceSolves`). It is proved for all accounts, positions
and prices that are well typed. For a long position it is false, as the run
`stop_out_price` shows.

The sessions. That a table only grows is plain for every step but a restart,
which writes back what it has read. There it comes down to `OrderOf` and `RowOf`:
an order that was read from a row gives a row that agrees with it in the columns
the upsert takes, so that only the time of the update is new (`UpsertOfRead`). The
row of an order that was answered for is then what it was when it was saved, but
for that time, which reading back does not look at (`TouchedReadsSame`), and reading back what `RowOf` wrote gives the
terms that were asked for, of every order the table accepts. `SessionInv` carries
the tables' types along, because a restart and a fill index them. Nothing about
the service is needed, so nothing the service gets wrong can lose an answered
order or fill.

`CacheInv` adds that an order of the session has the terms of its row and that no
two orders share one. It needs types weaker than the service's (`SessionTypes`:
positions may be held in negative quantities), for fills that are typed need not
be positive. Cancels and fills have one common shape, `ChangesOrder`: one order
changes, and its terms do not. `RestoredInFull` comes from counting: the restored
orders have different rows, and there are as many of them as rows that can be
read, so they have them all (`InOrderOnto`). For `NoLossIsForgotten` the sums over
losses of the service and of the table are compared (`LossAdds`).

`AccountInv` adds `MarginAccounted`. A restart takes over the locked margin of the
account's row and no locks, so the hypothesis `NothingLockedOnRecord` is what makes
it true: the only row there is comes from `sql/002_seed_data.sql`, which locks
nothing, and no code writes it. With any other row it would be false at the first
start.

Checked by TLC only, of the properties of passing runs: `LiquidationEnds`, for
liveness under fairness is out of the prover's reach. The six properties that
violation runs refute are not so, and there is nothing to prove of them.
`EquityUnmovedByTrade` and `ImplementsMarginLedger` are checked as they stand and
proved under the conditions above.

## 5. The plan

1. What the theorems about the service say of the composite service and the
   monitor beyond the books: stops, finished orders, events.
2. The hazards that no property covers: how far positions can exceed the limit that
   is checked when an order is submitted, and how many orders a restart can open.
3. The abstract account under a loss limit: a ledger that has losses which are
   settled and not recorded.

## 6. Not modelled

- Of the repositories: `AccountRepository::save`, `load_order` and
  `load_pending_trigger_orders`, which nothing calls; the migrations, whose
  directory also holds scripts meant to be run by hand (`000_drop_all.sql`, two
  with the version 002); how the driver types columns. The connection is
  external: a write fails or it does not.
- Of the command line: listings, the prices of `margin`, the reading of numbers
  and ids, messages, the configuration file. They change nothing.
- The asynchronous event bus, which nothing publishes to, and the list of
  handlers of the other one; the alert senders, which only write.
- Fills of zero or negative quantities, which the command line lets through: the
  actions are written for any integer and the instance has none. The theorems
  about sessions cover them; those about the service and its clients assume
  positive ones.
- `Decimal` arithmetic at its 28th digit.
