---------------------------- MODULE OrderService ----------------------------
(***************************************************************************)
(* The order service of src/src/service/order_service.rs over in-memory    *)
(* repositories: orders are submitted, cancelled and filled, margin is     *)
(* locked and released, positions are netted, profit and loss is realized. *)
(* The service sits behind one mutex (src/src/service/shared.rs), so each  *)
(* call is one action; the calls of different clients interleave.  A call  *)
(* that returns an error and changes nothing is no step.                   *)
(*                                                                         *)
(* An order's id is its index in store: ids are ULIDs, fresh and in the    *)
(* order of creation.                                                      *)
(***************************************************************************)
EXTENDS RiskChecks, Positions, Sums, Sequences, FiniteSets

CONSTANTS
  Leverage,        \* the leverage of each instrument
  InitialBalance,  \* the balance the account is opened with
  Requests,        \* the orders clients may submit
  FillQuantities,  \* the quantities and prices
  FillPrices,      \*   of the fills the market reports
  MarketPrices,    \* the prices of the market feed
  CashAmounts,     \* the amounts of deposits and withdrawals
  MaxOrders,       \* bound: orders ever submitted
  MaxBalance       \* bound: the balance a deposit may reach

ASSUME ServiceAssumption ==
  /\ Leverage \in [Instrument -> Nat \ {0}]
  /\ InitialBalance \in Nat
  /\ Requests \subseteq OrderRequest
  /\ FillQuantities \subseteq Nat \ {0}
  /\ FillPrices \subseteq Nat \ {0}
  /\ MarketPrices \subseteq Nat \ {0}
  /\ CashAmounts \subseteq Nat \ {0}
  /\ MaxOrders \in Nat
  /\ MaxBalance \in Nat

VARIABLES
  store,           \* the orders, in the order of their ids
  account,         \* the trading account
  positions,       \* instrument -> netted position
  marginLocks,     \* order id -> margin locked for it
  cumulativeLoss,  \* the sum of the realized losses, at most 0
  trades,          \* the trade history, oldest first
  lastEvent,       \* the last event published about each order, or "None"
  netCash          \* history: deposits less withdrawals

vars == <<store, account, positions, marginLocks, cumulativeLoss, trades,
          lastEvent, netCash>>

OrderId == DOMAIN store

OrderEvent ==
  {"None", "Accepted", "PartiallyFilled", "Filled", "Cancelled", "FokRejected",
   "IocResidualCancelled", "StopTriggered", "TrailingStopUpdated"}

Trade ==
  [order : Nat, instrument : Instrument, side : Side, quantity : Int,
   price : Int, pnl : Int]

Init ==
  /\ store = <<>>
  /\ account = [balance |-> InitialBalance, locked |-> 0]
  /\ positions = <<>>
  /\ marginLocks = <<>>
  /\ cumulativeLoss = 0
  /\ trades = <<>>
  /\ lastEvent = <<>>
  /\ netCash = 0

-----------------------------------------------------------------------------
(* Submitting an order.                                                    *)

OpenOrders == {id \in OrderId : IsOpen(store[id].status)}

NextId == Len(store) + 1

WithinLimits(req) ==
  ValidateOrder(req.type, req.quantity, Cardinality(OpenOrders),
                Cardinality(DOMAIN positions))

Admits(req) == Len(store) < MaxOrders /\ WithinLimits(req)

\* Only a limit order knows its price when it is submitted.
MarginOf(order) ==
  RequiredMargin(order.type.price, order.quantity, Leverage[order.instrument])

CanReserve(req) ==
  /\ ValidateMargin(AvailableBalance(account), req.type.price, req.quantity,
                    Leverage[req.instrument])
  /\ CanLock(account, MarginOf(req))

Save(order, event) ==
  /\ store' = Append(store, order)
  /\ lastEvent' = Append(lastEvent, event)

SubmitFok(req) ==
  /\ req.tif = "FOK"
  /\ Admits(req)
  /\ Save(MoveTo(NewOrder(req), "Rejected"), "FokRejected")
  /\ UNCHANGED <<account, positions, marginLocks, cumulativeLoss, trades, netCash>>

\* Mutant: the order is not saved once its margin is locked.
SubmitLimitUnsaved(req) ==
  /\ req.type.kind = "Limit" /\ req.tif = "GTC"
  /\ Admits(req)
  /\ CanReserve(req)
  /\ account' = LockMargin(account, MarginOf(req))
  /\ marginLocks' = Insert(marginLocks, NextId, MarginOf(req))
  /\ UNCHANGED <<store, positions, cumulativeLoss, trades, lastEvent, netCash>>

SubmitLimit(req) ==
  /\ req.type.kind = "Limit" /\ req.tif = "GTC"
  /\ Admits(req)
  /\ CanReserve(req)
  /\ Save(MoveTo(NewOrder(req), "Accepted"), "Accepted")
  /\ account' = LockMargin(account, MarginOf(req))
  /\ marginLocks' = Insert(marginLocks, NextId, MarginOf(req))
  /\ UNCHANGED <<positions, cumulativeLoss, trades, netCash>>

SubmitMarket(req) ==
  /\ req.type.kind = "Market" /\ req.tif = "GTC"
  /\ Admits(req)
  /\ Save(MoveTo(NewOrder(req), "Accepted"), "Accepted")
  /\ UNCHANGED <<account, positions, marginLocks, cumulativeLoss, trades, netCash>>

\* No event is published for a stop; IOC does not apply while it waits.
SubmitStop(req) ==
  /\ IsStopType(req.type) /\ req.tif \in {"GTC", "IOC"}
  /\ Admits(req)
  /\ Save(MoveTo(NewOrder(req), "PendingTrigger"), "None")
  /\ UNCHANGED <<account, positions, marginLocks, cumulativeLoss, trades, netCash>>

\* apply_ioc_policy: nothing is filled yet, so the whole order is residual.
CancelResidual(order) == MoveTo(order, "Cancelled")

\* Mutant: the residual of an IOC order is cancelled without a word.
SubmitIocSilently(req) ==
  /\ ~IsStopType(req.type) /\ req.tif = "IOC"
  /\ Admits(req)
  /\ Save(CancelResidual(MoveTo(NewOrder(req), "Accepted")), "Accepted")
  /\ req.type.kind = "Limit" => CanReserve(req)
  /\ UNCHANGED <<account, positions, marginLocks, cumulativeLoss, trades, netCash>>

\* An accepted IOC order is cancelled in the same call, for no fill can come
\* in between; the margin of a limit order is locked and released again.
SubmitIoc(req) ==
  /\ ~IsStopType(req.type) /\ req.tif = "IOC"
  /\ Admits(req)
  /\ Save(CancelResidual(MoveTo(NewOrder(req), "Accepted")), "IocResidualCancelled")
  /\ IF req.type.kind = "Limit"
     THEN /\ CanReserve(req)
          /\ account' = UnlockMargin(LockMargin(account, MarginOf(req)), MarginOf(req))
     ELSE account' = account
  /\ UNCHANGED <<positions, marginLocks, cumulativeLoss, trades, netCash>>

-----------------------------------------------------------------------------
(* Cancelling, and giving margin back.                                     *)

\* The entry is removed from the map before the account is asked to unlock.
ReleaseFails(id) == id \in DOMAIN marginLocks /\ ~CanUnlock(account, marginLocks[id])

Released(id) ==
  IF id \in DOMAIN marginLocks THEN UnlockMargin(account, marginLocks[id]) ELSE account

\* Mutant: the lock's map entry goes, the account keeps the margin locked.
CancelOrderLeaks(id) ==
  /\ CanMove(store[id].status, "Cancelled")
  /\ store' = [store EXCEPT ![id] = MoveTo(@, "Cancelled")]
  /\ marginLocks' = Remove(marginLocks, id)
  /\ lastEvent' = [lastEvent EXCEPT ![id] = "Cancelled"]
  /\ UNCHANGED <<account, positions, cumulativeLoss, trades, netCash>>

CancelOrder(id) ==
  /\ CanMove(store[id].status, "Cancelled")
  /\ store' = [store EXCEPT ![id] = MoveTo(@, "Cancelled")]
  /\ marginLocks' = Remove(marginLocks, id)
  /\ account' = Released(id)
  /\ lastEvent' = IF ReleaseFails(id) THEN lastEvent
                  ELSE [lastEvent EXCEPT ![id] = "Cancelled"]
  /\ UNCHANGED <<positions, cumulativeLoss, trades, netCash>>

-----------------------------------------------------------------------------
(* Fills reported by the matching engine.                                  *)

\* Mutant: the margin of limit orders is checked again when they fill.
IsAnyOrder(order) == order.type.kind \in {"Market", "Limit", "Stop", "TrailingStop"}

\* Stop-limit orders are not among them.
IsMarketOrder(order) == order.type.kind \in {"Market", "Stop", "TrailingStop"}

\* Market orders meet the margin check only here.
MarginRefused(order, qty, price) ==
  /\ IsMarketOrder(order)
  /\ ~ValidateMargin(AvailableBalance(account), price, qty, Leverage[order.instrument])

\* Mutant: the first fill releases the margin, however small it is.
FillsSome(id, qty) == TakesFill(store[id], qty)

FillsUp(id, qty) == FillStatus(store[id], qty) = "Filled"

EnterFill(id, qty) ==
  /\ TakesFill(store[id], qty)
  /\ store' = [store EXCEPT ![id] = ApplyFill(@, qty)]
  /\ lastEvent' = [lastEvent EXCEPT ![id] = FillStatus(store[id], qty)]

\* apply_fill returns an error, and may have counted the quantity all the same.
RefuseFill(id, qty) ==
  /\ ~TakesFill(store[id], qty)
  /\ store' = [store EXCEPT ![id] = ApplyFill(@, qty)]
  /\ UNCHANGED <<account, positions, marginLocks, cumulativeLoss, trades,
                 lastEvent, netCash>>

\* The order has taken the fill and the event is out when a later check fails:
\* the call returns an error, and nothing is undone.
AbandonFill(id, qty, price) ==
  /\ EnterFill(id, qty)
  /\ MarginRefused(store[id], qty, price) \/ (FillsUp(id, qty) /\ ReleaseFails(id))
  /\ marginLocks' = IF MarginRefused(store[id], qty, price) THEN marginLocks
                    ELSE Remove(marginLocks, id)
  /\ UNCHANGED <<account, positions, cumulativeLoss, trades, netCash>>

\* Mutant: profits make good for earlier losses.
NetLossAfter(pnl) == cumulativeLoss + pnl

LossAfter(pnl) == IF pnl < 0 THEN cumulativeLoss + pnl ELSE cumulativeLoss

\* A fill that reaches the position.  Past the loss limit the call returns an
\* error and the trade is not recorded; everything else has been done by then.
SettleFill(id, qty, price) ==
  LET order == store[id]
      pnl   == RealizedPnl(positions, order.instrument, order.side, qty, price)
      trade == [order |-> id, instrument |-> order.instrument, side |-> order.side,
                quantity |-> qty, price |-> price, pnl |-> pnl]
  IN  /\ EnterFill(id, qty)
      /\ ~MarginRefused(order, qty, price)
      /\ FillsUp(id, qty) => ~ReleaseFails(id)
      /\ marginLocks' = IF FillsUp(id, qty) THEN Remove(marginLocks, id) ELSE marginLocks
      /\ account' = ApplyRealizedPnl(IF FillsUp(id, qty) THEN Released(id) ELSE account, pnl)
      /\ positions' = NetFill(positions, order.instrument, order.side, qty, price)
      /\ cumulativeLoss' = LossAfter(pnl)
      /\ trades' = IF LossLimitHit(cumulativeLoss') THEN trades ELSE Append(trades, trade)
      /\ UNCHANGED netCash

-----------------------------------------------------------------------------
(* Cash, and the market feed.                                              *)

Deposit(amount) ==
  /\ account.balance + amount <= MaxBalance
  /\ account' = DepositTo(account, amount)
  /\ netCash' = netCash + amount
  /\ UNCHANGED <<store, positions, marginLocks, cumulativeLoss, trades, lastEvent>>

Withdraw(amount) ==
  /\ CanWithdraw(account, amount)
  /\ account' = WithdrawFrom(account, amount)
  /\ netCash' = netCash - amount
  /\ UNCHANGED <<store, positions, marginLocks, cumulativeLoss, trades, lastEvent>>

\* Positions whose instrument has a mark price are valued at it.
UpdatePositionsPnl(marks) ==
  /\ positions' = [i \in DOMAIN positions |->
                     IF i \in DOMAIN marks THEN UpdateUnrealized(positions[i], marks[i])
                     ELSE positions[i]]
  /\ UNCHANGED <<store, account, marginLocks, cumulativeLoss, trades, lastEvent, netCash>>

PendingTriggerOrdersFor(instrument) ==
  {id \in OrderId : store[id].status = "PendingTrigger" /\ store[id].instrument = instrument}

AfterPrice(order, price) == CheckTrigger(UpdateTrailingBest(order, price), price)

\* Mutant: a trailing stop's new best price is announced before the trigger.
TrailingEventFirst(id, price) ==
  CASE store[id].type.kind = "TrailingStop" -> "TrailingStopUpdated"
    [] AfterPrice(store[id], price).status = "Accepted" -> "StopTriggered"
    [] OTHER -> lastEvent[id]

PriceEvent(id, price) ==
  CASE AfterPrice(store[id], price).status = "Accepted" -> "StopTriggered"
    [] store[id].type.kind = "TrailingStop"
         /\ AfterPrice(store[id], price).status = "PendingTrigger" -> "TrailingStopUpdated"
    [] OTHER -> lastEvent[id]

\* on_price_update of the composite order service: every waiting stop of the
\* instrument first follows the price and is then checked against it.
OnPriceUpdate(instrument, price) ==
  LET pending == PendingTriggerOrdersFor(instrument)
  IN  /\ store' = [id \in OrderId |->
                     IF id \in pending THEN AfterPrice(store[id], price) ELSE store[id]]
      /\ lastEvent' = [id \in OrderId |->
                         IF id \in pending THEN PriceEvent(id, price) ELSE lastEvent[id]]
      /\ UNCHANGED <<account, positions, marginLocks, cumulativeLoss, trades, netCash>>

-----------------------------------------------------------------------------

Submit ==
  \E req \in Requests :
    \/ SubmitFok(req)
    \/ SubmitLimit(req)
    \/ SubmitMarket(req)
    \/ SubmitStop(req)
    \/ SubmitIoc(req)

Fill ==
  \E id \in OrderId, qty \in FillQuantities :
    \/ RefuseFill(id, qty)
    \/ \E price \in FillPrices : AbandonFill(id, qty, price) \/ SettleFill(id, qty, price)

Cancel == \E id \in OrderId : CancelOrder(id)

MoveCash == \E amount \in CashAmounts : Deposit(amount) \/ Withdraw(amount)

Feed ==
  \/ \E known \in SUBSET Instrument : \E marks \in [known -> MarketPrices] :
       UpdatePositionsPnl(marks)
  \/ \E instrument \in Instrument, price \in MarketPrices : OnPriceUpdate(instrument, price)

Next == Submit \/ Fill \/ Cancel \/ MoveCash \/ Feed

Spec == Init /\ [][Next]_vars
=============================================================================
