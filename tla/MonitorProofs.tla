---------------------------- MODULE MonitorProofs ----------------------------
(***************************************************************************)
(* Proofs about the margin monitor, for every value of its constants.      *)
(***************************************************************************)
EXTENDS MonitorProperties, StatusProofs

-----------------------------------------------------------------------------
(* The service as the monitor's orders use it.  It accepts closing orders  *)
(* besides the requests of its clients; its operations are no others, as   *)
(* their definitions say once they are expanded.  Books is the same        *)
(* service with what was proved of it.                                     *)

Books == INSTANCE BooksProofs WITH Requests <- Requests \cup ClosingRequests

LEMMA SameCardinality ==
  \A S : Service!Cardinality(S) = Cardinality(S) /\ Books!Cardinality(S) = Cardinality(S)
BY DEF Cardinality, Service!Cardinality, Books!Cardinality

LEMMA SameSubmissions ==
  ASSUME NEW req
  PROVE  /\ Service!SubmitFok(req) <=> SubmitFok(req)
         /\ Books!SubmitFok(req) <=> SubmitFok(req)
         /\ Service!SubmitLimit(req) <=> SubmitLimit(req)
         /\ Books!SubmitLimit(req) <=> SubmitLimit(req)
         /\ Service!SubmitMarket(req) <=> SubmitMarket(req)
         /\ Books!SubmitMarket(req) <=> SubmitMarket(req)
         /\ Service!SubmitStop(req) <=> SubmitStop(req)
         /\ Books!SubmitStop(req) <=> SubmitStop(req)
         /\ Service!SubmitIoc(req) <=> SubmitIoc(req)
         /\ Books!SubmitIoc(req) <=> SubmitIoc(req)
BY SameCardinality
DEF SubmitFok, Service!SubmitFok, Books!SubmitFok, SubmitLimit, Service!SubmitLimit,
    Books!SubmitLimit, SubmitMarket, Service!SubmitMarket, Books!SubmitMarket,
    SubmitStop, Service!SubmitStop, Books!SubmitStop, SubmitIoc, Service!SubmitIoc,
    Books!SubmitIoc, Admits, Service!Admits, Books!Admits, WithinLimits,
    Service!WithinLimits, Books!WithinLimits, OpenOrders, Service!OpenOrders,
    Books!OpenOrders, OrderId, Service!OrderId, Books!OrderId, NextId, Service!NextId,
    Books!NextId, Save, Service!Save, Books!Save, CancelResidual,
    Service!CancelResidual, Books!CancelResidual, CanReserve, Service!CanReserve,
    Books!CanReserve, MarginOf, Service!MarginOf, Books!MarginOf, PositivePrices,
    Service!PositivePrices, Books!PositivePrices, ValidateOrder, Service!ValidateOrder,
    Books!ValidateOrder, ValidateMargin, Service!ValidateMargin, Books!ValidateMargin,
    IsOpen, Service!IsOpen, Books!IsOpen, CanMove, Service!CanMove, Books!CanMove,
    MoveTo, Service!MoveTo, Books!MoveTo, NewOrder, Service!NewOrder, Books!NewOrder,
    IsStopType, Service!IsStopType, Books!IsStopType, AvailableBalance,
    Service!AvailableBalance, Books!AvailableBalance, CanLock, Service!CanLock,
    Books!CanLock, LockMargin, Service!LockMargin, Books!LockMargin, CanUnlock,
    Service!CanUnlock, Books!CanUnlock, UnlockMargin, Service!UnlockMargin,
    Books!UnlockMargin, RequiredMargin, Service!RequiredMargin, Books!RequiredMargin,
    Insert, Service!Insert, Books!Insert

LEMMA SameCancels ==
  ASSUME NEW id
  PROVE  /\ Service!CancelOrder(id) <=> CancelOrder(id)
         /\ Books!CancelOrder(id) <=> CancelOrder(id)
BY DEF CancelOrder, Service!CancelOrder, Books!CancelOrder, CanMove, Service!CanMove,
    Books!CanMove, MoveTo, Service!MoveTo, Books!MoveTo, Remove, Service!Remove,
    Books!Remove, Restrict, Service!Restrict, Books!Restrict, Released,
    Service!Released, Books!Released, ReleaseFails, Service!ReleaseFails,
    Books!ReleaseFails, CanUnlock, Service!CanUnlock, Books!CanUnlock, UnlockMargin,
    Service!UnlockMargin, Books!UnlockMargin

LEMMA SameFills ==
  ASSUME NEW id, NEW qty, NEW price
  PROVE  /\ Service!RefuseFill(id, qty) <=> RefuseFill(id, qty)
         /\ Books!RefuseFill(id, qty) <=> RefuseFill(id, qty)
         /\ Service!AbandonFill(id, qty, price) <=> AbandonFill(id, qty, price)
         /\ Books!AbandonFill(id, qty, price) <=> AbandonFill(id, qty, price)
         /\ Service!SettleFill(id, qty, price) <=> SettleFill(id, qty, price)
         /\ Books!SettleFill(id, qty, price) <=> SettleFill(id, qty, price)
BY DEF RefuseFill, Service!RefuseFill, Books!RefuseFill, AbandonFill, Service!AbandonFill,
    Books!AbandonFill, SettleFill, Service!SettleFill, Books!SettleFill, EnterFill,
    Service!EnterFill, Books!EnterFill, TakesFill, Service!TakesFill, Books!TakesFill,
    OverFills, Service!OverFills, Books!OverFills, FillStatus, Service!FillStatus,
    Books!FillStatus, ApplyFill, Service!ApplyFill, Books!ApplyFill, CanMove,
    Service!CanMove, Books!CanMove, MoveTo, Service!MoveTo, Books!MoveTo,
    MarginRefused, Service!MarginRefused, Books!MarginRefused, IsMarketOrder,
    Service!IsMarketOrder, Books!IsMarketOrder, ValidateMargin, Service!ValidateMargin,
    Books!ValidateMargin, AvailableBalance, Service!AvailableBalance,
    Books!AvailableBalance, RequiredMargin, Service!RequiredMargin,
    Books!RequiredMargin, FillsUp, Service!FillsUp, Books!FillsUp, ReleaseFails,
    Service!ReleaseFails, Books!ReleaseFails, Released, Service!Released,
    Books!Released, CanUnlock, Service!CanUnlock, Books!CanUnlock, UnlockMargin,
    Service!UnlockMargin, Books!UnlockMargin, Remove, Service!Remove, Books!Remove,
    Restrict, Service!Restrict, Books!Restrict, RealizedPnl, Service!RealizedPnl,
    Books!RealizedPnl, NetFill, Service!NetFill, Books!NetFill, Gain, Service!Gain,
    Books!Gain, CloseQuantity, Service!CloseQuantity, Books!CloseQuantity, Add,
    Service!Add, Books!Add, Quotient, Service!Quotient, Books!Quotient, Reduce,
    Service!Reduce, Books!Reduce, NewPosition,
    Service!NewPosition, Books!NewPosition, Insert, Service!Insert, Books!Insert,
    ApplyRealizedPnl, Service!ApplyRealizedPnl, Books!ApplyRealizedPnl, LossAfter,
    Service!LossAfter, Books!LossAfter, LossLimitHit, Service!LossLimitHit,
    Books!LossLimitHit

LEMMA SameCash ==
  ASSUME NEW amount
  PROVE  /\ Service!Deposit(amount) <=> Deposit(amount)
         /\ Books!Deposit(amount) <=> Deposit(amount)
         /\ Service!Withdraw(amount) <=> Withdraw(amount)
         /\ Books!Withdraw(amount) <=> Withdraw(amount)
BY DEF Deposit, Service!Deposit, Books!Deposit, Withdraw, Service!Withdraw,
    Books!Withdraw, DepositTo, Service!DepositTo, Books!DepositTo, CanWithdraw,
    Service!CanWithdraw, Books!CanWithdraw, WithdrawFrom, Service!WithdrawFrom,
    Books!WithdrawFrom, AvailableBalance, Service!AvailableBalance,
    Books!AvailableBalance

LEMMA SameFeed ==
  /\ \A marks : Service!UpdatePositionsPnl(marks) <=> UpdatePositionsPnl(marks)
  /\ \A marks : Books!UpdatePositionsPnl(marks) <=> UpdatePositionsPnl(marks)
  /\ \A i, price : Service!OnPriceUpdate(i, price) <=> OnPriceUpdate(i, price)
  /\ \A i, price : Books!OnPriceUpdate(i, price) <=> OnPriceUpdate(i, price)
BY DEF UpdatePositionsPnl, Service!UpdatePositionsPnl, Books!UpdatePositionsPnl,
    OnPriceUpdate, Service!OnPriceUpdate, Books!OnPriceUpdate, UpdateUnrealized,
    Service!UpdateUnrealized, Books!UpdateUnrealized, Gain, Service!Gain, Books!Gain,
    PendingTriggerOrdersFor, Service!PendingTriggerOrdersFor,
    Books!PendingTriggerOrdersFor, OrderId, Service!OrderId, Books!OrderId, AfterPrice,
    Service!AfterPrice, Books!AfterPrice, PriceEvent, Service!PriceEvent,
    Books!PriceEvent, UpdateTrailingBest, Service!UpdateTrailingBest,
    Books!UpdateTrailingBest, CheckTrigger, Service!CheckTrigger, Books!CheckTrigger,
    Triggers, Service!Triggers, Books!Triggers, TriggerLevel, Service!TriggerLevel,
    Books!TriggerLevel, BestPrice, Service!BestPrice, Books!BestPrice, Reaches,
    Service!Reaches, Books!Reaches, IsStopType, Service!IsStopType, Books!IsStopType,
    CanMove, Service!CanMove, Books!CanMove, MoveTo, Service!MoveTo, Books!MoveTo, Min,
    Service!Min, Books!Min, Max, Service!Max, Books!Max

\* The variables have the same types there.
LEMMA SameTypes == Books!TypeOK <=> TypeOK
BY DEF TypeOK, Books!TypeOK, Order, Books!Order, OrderType, Books!OrderType, OrderStatus,
    Books!OrderStatus, TimeInForce, Books!TimeInForce, Side, Books!Side, Option,
    Books!Option, Account, Books!Account, Position, Books!Position, Trade, Books!Trade,
    OrderEvent, Books!OrderEvent, OrderId, Books!OrderId

\* The instance meets the assumptions of the service.
LEMMA InstanceAssumptions ==
  Books!ServiceAssumption /\ Books!LimitsAssumption
<1>1. ClosingRequests \subseteq OrderRequest
  BY LimitsAssumption DEF ClosingRequests, OrderRequest, OrderType, TimeInForce, Side
<1>2. Books!OrderRequest = OrderRequest
  BY DEF OrderRequest, Books!OrderRequest, OrderType, Books!OrderType, Side, Books!Side,
         TimeInForce, Books!TimeInForce
<1>3. \A S : Books!Option(S) = Option(S)
  BY DEF Option, Books!Option
<1>4. Requests \cup ClosingRequests \subseteq Books!OrderRequest
  BY <1>1, <1>2, ServiceAssumption
<1> QED
  BY <1>3, <1>4, ServiceAssumption, LimitsAssumption
  DEF Books!ServiceAssumption, Books!LimitsAssumption

-----------------------------------------------------------------------------
(* Each step of the monitor is a call of that service, or none.            *)

\* A closing order that is accepted is one of the closing requests: the
\* position it closes is not larger than an order may be.
LEMMA AcceptedIsClosing ==
  ASSUME TypeOK, NEW i \in DOMAIN positions, Admits(ClosingOrder(i))
  PROVE  ClosingOrder(i) \in ClosingRequests
<1>1. i \in Instrument /\ positions[i] \in Position
  BY DEF TypeOK
<1>2. /\ positions[i].quantity \in Nat
      /\ positions[i].quantity > 0 /\ positions[i].quantity <= MaxOrderQuantity
  BY <1>1 DEF Position, Admits, WithinLimits, ValidateOrder, ClosingOrder
<1>3. positions[i].quantity \in 1..MaxOrderQuantity
  BY <1>2, LimitsAssumption
<1> QED BY <1>1, <1>3 DEF ClosingOrder, ClosingRequests, Side

\* The steps of the monitor, each with its inputs.
LEMMA MonitorCases ==
  ASSUME [MonitorNext]_<<vars, monitorVars>>
  PROVE  \/ MonitoredCall
         \/ UNCHANGED vars /\ UNCHANGED monitorVars
         \/ \E marks : CheckNormal(marks) \/ CheckMarginCall(marks) \/ CheckStopOut(marks)
         \/ \E i \in Instrument : ForceLiquidate(i) \/ LiquidationRefused(i)
BY DEF MonitorNext, Check, Liquidate

LEMMA StepIsCall ==
  ASSUME TypeOK, toClose \subseteq DOMAIN positions, [MonitorNext]_<<vars, monitorVars>>
  PROVE  [Service!Next]_(Service!vars) /\ [Books!Next]_(Books!vars)
<1>1. UNCHANGED vars => UNCHANGED Service!vars /\ UNCHANGED Books!vars
  BY DEF vars, Service!vars, Books!vars
<1>2. ASSUME Next PROVE Service!Next /\ Books!Next
  BY <1>2, SameSubmissions, SameCancels, SameFills, SameCash, SameFeed
  DEF Next, Submit, Fill, Cancel, MoveCash, Feed,
      Service!Next, Service!Submit, Service!Fill, Service!Cancel, Service!MoveCash,
      Service!Feed, Service!OrderId, OrderId,
      Books!Next, Books!Submit, Books!Fill, Books!Cancel, Books!MoveCash, Books!Feed,
      Books!OrderId
<1>3. ASSUME NEW i \in Instrument, ForceLiquidate(i) PROVE Service!Next /\ Books!Next
  <2>1. ClosingOrder(i) \in ClosingRequests /\ SubmitIoc(ClosingOrder(i))
    BY <1>3, AcceptedIsClosing DEF ForceLiquidate, SubmitIoc
  <2>2. Service!SubmitIoc(ClosingOrder(i)) /\ Books!SubmitIoc(ClosingOrder(i))
    BY <2>1, SameSubmissions
  <2> QED BY <2>1, <2>2 DEF Service!Next, Service!Submit, Books!Next, Books!Submit
<1>4. CASE MonitoredCall
  BY <1>2, <1>4 DEF MonitoredCall
<1>5. CASE UNCHANGED vars
  BY <1>1, <1>5
<1>6. CASE \E marks : CheckNormal(marks) \/ CheckMarginCall(marks) \/ CheckStopOut(marks)
  BY <1>1, <1>6 DEF CheckNormal, CheckMarginCall, CheckStopOut
<1>7. CASE \E i \in Instrument : ForceLiquidate(i) \/ LiquidationRefused(i)
  BY <1>1, <1>3, <1>7 DEF LiquidationRefused
<1> QED BY <1>4, <1>5, <1>6, <1>7, MonitorCases

-----------------------------------------------------------------------------
(* What the monitor keeps.  Its inductive invariant adds to the types that *)
(* there has been no margin call when the last level is normal, and that   *)
(* while a liquidation lasts, each position it is done with has its order. *)

\* The order closes the position.
Closes(id, i) ==
  /\ store[id].instrument = i
  /\ store[id].side # positions[i].side
  /\ store[id].quantity = positions[i].quantity

CallsCounted == calls \in {0, 1} /\ (lastLevel = "Normal" => calls = 0)

DoneAreCovered ==
  toClose # {} => \A i \in DOMAIN positions \ toClose : \E id \in liquidation : Closes(id, i)

MonitorInv == TypeOK /\ MonitorTypeOK /\ CallsCounted /\ DoneAreCovered

\* A call of the service keeps the orders, and so does one for the monitor.
LEMMA MonitorKeepsTypes ==
  ASSUME TypeOK, toClose \subseteq DOMAIN positions, [MonitorNext]_<<vars, monitorVars>>
  PROVE  TypeOK' /\ OrderId \subseteq OrderId'
<1>1. [Books!Next]_(Books!vars)
  BY StepIsCall
<1>2. Books!TypeOK /\ Books!OrderId = OrderId
  BY SameTypes DEF Books!OrderId, OrderId
<1>3. Books!TypeOK'
  BY <1>1, <1>2, Books!StepType, InstanceAssumptions
<1>4. TypeOK'
  BY <1>3
  DEF TypeOK, Books!TypeOK, Order, Books!Order, OrderType, Books!OrderType, OrderStatus,
      Books!OrderStatus, TimeInForce, Books!TimeInForce, Side, Books!Side, Option,
      Books!Option, Account, Books!Account, Position, Books!Position, Trade, Books!Trade,
      OrderEvent, Books!OrderEvent, OrderId, Books!OrderId
<1>5. ASSUME NEW id \in OrderId PROVE id \in OrderId'
  <2>1. id \in Books!OrderId'
    BY <1>1, <1>2, Books!StatusStays, InstanceAssumptions
  <2> QED BY <2>1 DEF OrderId, Books!OrderId
<1> QED BY <1>4, <1>5

\* A move leaves what was ordered as it is.
LEMMA MoveKeepsTerms ==
  ASSUME NEW order \in Order, NEW status \in OrderStatus
  PROVE  /\ MoveTo(order, status) \in Order
         /\ MoveTo(order, status).instrument = order.instrument
         /\ MoveTo(order, status).side = order.side
         /\ MoveTo(order, status).quantity = order.quantity
<1>1. MoveTo(order, status) \in {order, [order EXCEPT !.status = status]}
  BY DEF MoveTo
<1> QED BY <1>1, MoveToType DEF Order

\* Submitting a closing order stores one, and moves no position.
LEMMA ClosingIsStored ==
  ASSUME TypeOK, NEW i \in DOMAIN positions, ForceLiquidate(i)
  PROVE  /\ positions' = positions
         /\ \A id \in OrderId : store'[id] = store[id]
         /\ \E id \in OrderId' : /\ liquidation' = liquidation \cup {id}
                                /\ Closes(id, i)'
<1> DEFINE order == CancelResidual(MoveTo(NewOrder(ClosingOrder(i)), "Accepted"))
<1>1. i \in Instrument /\ positions[i] \in Position
  BY DEF TypeOK
<1>2. ClosingOrder(i) \in OrderRequest
  BY <1>1 DEF ClosingOrder, OrderRequest, OrderType, TimeInForce, Side, Position
<1>3. /\ order \in Order /\ order.instrument = i /\ order.side # positions[i].side
      /\ order.quantity = positions[i].quantity
  <2>1. /\ ClosingOrder(i).instrument = i /\ ClosingOrder(i).side # positions[i].side
        /\ ClosingOrder(i).quantity = positions[i].quantity
    BY <1>1 DEF ClosingOrder, Position
  <2>2. PICK new \in Order :
          /\ new = NewOrder(ClosingOrder(i)) /\ new.instrument = i
          /\ new.side # positions[i].side /\ new.quantity = positions[i].quantity
    BY <1>2, <2>1, NewOrderType DEF NewOrder
  <2>3. PICK accepted \in Order :
          /\ accepted = MoveTo(new, "Accepted") /\ accepted.instrument = i
          /\ accepted.side # positions[i].side /\ accepted.quantity = positions[i].quantity
    BY <2>2, MoveKeepsTerms DEF OrderStatus
  <2>4. order = MoveTo(accepted, "Cancelled")
    BY <2>2, <2>3 DEF CancelResidual
  <2> QED BY <2>3, <2>4, MoveKeepsTerms DEF OrderStatus
<1>4. Save(order, "IocResidualCancelled") /\ positions' = positions
  BY DEF ForceLiquidate, SubmitIoc
<1> HIDE DEF order
<1>5. PICK next : next = NextId
  OBVIOUS
<1>6. /\ OrderId' = OrderId \cup {next} /\ store'[next] = order
      /\ \A id \in OrderId : store'[id] = store[id]
  BY <1>3, <1>4, <1>5, SaveType DEF OrderEvent
<1>7. liquidation' = liquidation \cup {next}
  BY <1>5 DEF ForceLiquidate
<1> QED BY <1>3, <1>4, <1>6, <1>7 DEF Closes

LEMMA StepMonitor == MonitorInv /\ [MonitorNext]_<<vars, monitorVars>> => MonitorInv'
<1> SUFFICES ASSUME MonitorInv, [MonitorNext]_<<vars, monitorVars>> PROVE MonitorInv'
  OBVIOUS
<1>1. TypeOK /\ TypeOK' /\ OrderId \subseteq OrderId'
  BY MonitorKeepsTypes DEF MonitorInv, MonitorTypeOK
<1> DEFINE Goal == MonitorTypeOK' /\ CallsCounted' /\ DoneAreCovered'
<1>2. ASSUME MonitoredCall \/ (UNCHANGED vars /\ UNCHANGED monitorVars)
      PROVE  Goal
  <2>1. UNCHANGED monitorVars /\ (toClose = {} \/ UNCHANGED vars)
    BY <1>2 DEF MonitoredCall
  <2>2. toClose # {} => UNCHANGED <<positions, store>>
    BY <2>1 DEF vars
  <2> QED
    BY <1>1, <2>1, <2>2
    DEF MonitorInv, MonitorTypeOK, CallsCounted, DoneAreCovered, Closes, monitorVars
<1>3. ASSUME NEW marks, CheckNormal(marks) \/ CheckMarginCall(marks) PROVE Goal
  <2>1. /\ toClose = {} /\ toClose' = {} /\ liquidation' = liquidation
        /\ lastLevel' \in MarginLevel /\ calls' \in {0, 1}
        /\ lastLevel' = "Normal" => calls' = 0
    BY <1>3
    DEF CheckNormal, CheckMarginCall, MarginLevel, MonitorInv, CallsCounted
  <2> QED
    BY <1>1, <2>1 DEF MonitorInv, MonitorTypeOK, CallsCounted, DoneAreCovered
<1>4. ASSUME NEW marks, CheckStopOut(marks) PROVE Goal
  <2>1. positions' = positions
    BY <1>4 DEF CheckStopOut, vars
  <2> QED
    BY <1>1, <1>4, <2>1
    DEF CheckStopOut, MonitorInv, MonitorTypeOK, CallsCounted, DoneAreCovered
<1>5. ASSUME NEW i \in Instrument, ForceLiquidate(i) PROVE Goal
  <2>1. i \in toClose /\ i \in DOMAIN positions
    BY <1>5 DEF ForceLiquidate, MonitorInv, MonitorTypeOK
  <2>2. PICK id \in OrderId' :
          /\ positions' = positions /\ \A k \in OrderId : store'[k] = store[k]
          /\ liquidation' = liquidation \cup {id} /\ Closes(id, i)'
    BY <1>1, <1>5, <2>1, ClosingIsStored
  <2>3. \A k \in liquidation : \A j : Closes(k, j) => Closes(k, j)'
    BY <2>2 DEF MonitorInv, MonitorTypeOK, Closes
  <2>4. DoneAreCovered'
    <3>1. ASSUME NEW j \in DOMAIN positions' \ toClose'
          PROVE  \E k \in liquidation' : Closes(k, j)'
      <4>1. j = i \/ j \in DOMAIN positions \ toClose
        BY <1>5, <2>2, <3>1 DEF ForceLiquidate
      <4>2. CASE j \in DOMAIN positions \ toClose
        BY <2>1, <2>2, <2>3, <4>2 DEF MonitorInv, DoneAreCovered
      <4> QED BY <2>2, <4>1, <4>2
    <3> QED BY <3>1 DEF DoneAreCovered
  <2>5. MonitorTypeOK' /\ CallsCounted'
    BY <1>1, <1>5, <2>1, <2>2
    DEF ForceLiquidate, MonitorInv, MonitorTypeOK, CallsCounted, MarginLevel
  <2> QED BY <2>4, <2>5
<1>6. ASSUME NEW i \in Instrument, LiquidationRefused(i) PROVE Goal
  BY <1>1, <1>6
  DEF LiquidationRefused, MonitorInv, MonitorTypeOK, CallsCounted, DoneAreCovered
<1>7. Goal
  BY <1>2, <1>3, <1>4, <1>5, <1>6, MonitorCases
<1> QED BY <1>1, <1>7 DEF MonitorInv

LEMMA InitMonitor == MonitorInit => MonitorInv
BY InitType
DEF MonitorInit, MonitorInv, MonitorTypeOK, CallsCounted, DoneAreCovered, MarginLevel

LEMMA MonitorAlways == MonitorSpec => []MonitorInv
<1> QED BY InitMonitor, StepMonitor, PTL DEF MonitorSpec

\* Each of the monitor's variables keeps its type; what a liquidation has still
\* to close is a position all the while.
THEOREM MonitorTypeCorrect == MonitorSpec => []MonitorTypeOK
<1>1. MonitorInv => MonitorTypeOK
  BY DEF MonitorInv
<1> QED BY <1>1, MonitorAlways, PTL

\* However the level moves between checks, through stop-outs handled and refused,
\* the owner gets at most one margin call until it is normal again.
THEOREM OneMarginCallUntilNormal == MonitorSpec => []MarginCallsAreNotRepeated
<1>1. MonitorInv => MarginCallsAreNotRepeated
  BY DEF MonitorInv, CallsCounted, MarginCallsAreNotRepeated
<1> QED BY <1>1, MonitorAlways, PTL

\* A stop-out counts as handled only when an order of the whole size and the
\* opposite side was submitted for every position, one refused order on the
\* way or a check in between notwithstanding.
THEOREM StopOutsAreHandledWhole == MonitorSpec => HandledStopOutCoversPositions
<1> DEFINE Handled ==
      lastLevel' = "StopOut" /\ lastLevel # "StopOut" =>
        \A i \in DOMAIN positions : \E id \in liquidation' :
          /\ store'[id].instrument = i
          /\ store'[id].side # positions[i].side
          /\ store'[id].quantity = positions[i].quantity
<1>1. MonitorInv /\ [MonitorNext]_<<vars, monitorVars>> => [Handled]_<<vars, monitorVars>>
  <2> SUFFICES ASSUME MonitorInv, [MonitorNext]_<<vars, monitorVars>>,
                      lastLevel' = "StopOut", lastLevel # "StopOut",
                      NEW i \in DOMAIN positions
               PROVE  \E id \in liquidation' : /\ store'[id].instrument = i
                                               /\ store'[id].side # positions[i].side
                                               /\ store'[id].quantity = positions[i].quantity
    OBVIOUS
  <2>1. PICK j \in Instrument : ForceLiquidate(j)
    BY MonitorCases
    DEF MonitoredCall, monitorVars, CheckNormal, CheckMarginCall, CheckStopOut,
        LiquidationRefused
  <2>2. j \in DOMAIN positions /\ toClose # {} /\ toClose \subseteq {j}
    BY <2>1 DEF ForceLiquidate, MonitorInv, MonitorTypeOK
  <2>3. PICK id \in OrderId' :
          /\ positions' = positions /\ \A k \in OrderId : store'[k] = store[k]
          /\ liquidation' = liquidation \cup {id} /\ Closes(id, j)'
    BY <2>1, <2>2, ClosingIsStored DEF MonitorInv
  <2>4. CASE i = j
    BY <2>3, <2>4 DEF Closes
  <2>5. CASE i # j
    <3>1. PICK k \in liquidation : Closes(k, i)
      BY <2>2, <2>5 DEF MonitorInv, DoneAreCovered
    <3>2. store'[k] = store[k]
      BY <2>3 DEF MonitorInv, MonitorTypeOK
    <3> QED BY <2>3, <3>1, <3>2 DEF Closes
  <2> QED BY <2>4, <2>5
<1>2. HandledStopOutCoversPositions <=> [][Handled]_<<vars, monitorVars>>
  BY DEF HandledStopOutCoversPositions
<1> HIDE DEF Handled
<1> QED BY <1>1, <1>2, MonitorAlways, PTL DEF MonitorSpec

-----------------------------------------------------------------------------
(* The account under the monitor.                                          *)

\* To the order service the monitor is one more client: whatever it submits in a
\* liquidation is a call the service answers, and it changes nothing otherwise.
THEOREM MonitorIsAClient == MonitorSpec => MonitorImplementsService
<1>1. MonitorInit => Service!Init
  BY DEF MonitorInit, Init, Service!Init
<1>2. MonitorInv /\ [MonitorNext]_<<vars, monitorVars>> => [Service!Next]_(Service!vars)
  BY StepIsCall DEF MonitorInv, MonitorTypeOK
<1> QED
  BY <1>1, <1>2, MonitorAlways, PTL DEF MonitorSpec, MonitorImplementsService, Service!Spec

\* What the properties of the books say there they say here.
LEMMA SameSums ==
  /\ Books!RealizedInTrades = RealizedInTrades
  /\ \A i : Books!NetTraded(i) = NetTraded(i)
  /\ \A id : Books!TradedOf(id) = TradedOf(id)
BY DEF RealizedInTrades, Books!RealizedInTrades, NetTraded, Books!NetTraded, TradedOf,
    Books!TradedOf, SumOverTrades, Books!SumOverTrades, SumUpTo, Books!SumUpTo, Signed,
    Books!Signed

LEMMA SameBooks ==
  /\ Books!MarginConserved => MarginConserved
  /\ Books!LocksMatchLiveLimits => LocksMatchLiveLimits
  /\ Books!EventsTellStatus => EventsTellStatus
  /\ Books!OpenOrdersWithinLimit => OpenOrdersWithinLimit
  /\ Books!PositionsNetTrades => PositionsNetTrades
  /\ Books!BalanceReconciles => BalanceReconciles
  /\ Books!TradesFitOrders => TradesFitOrders
BY SameSums, SameCardinality
DEF MarginConserved, Books!MarginConserved, LockOf, Books!LockOf, SumUpTo,
    Books!SumUpTo, LocksMatchLiveLimits, Books!LocksMatchLiveLimits, IsLiveLimit,
    Books!IsLiveLimit, MarginOf, Books!MarginOf, RequiredMargin, Books!RequiredMargin,
    EventsTellStatus, Books!EventsTellStatus, StatusTold, Books!StatusTold,
    OpenOrdersWithinLimit, Books!OpenOrdersWithinLimit, OpenOrders, Books!OpenOrders,
    IsOpen, Books!IsOpen, OrderId, Books!OrderId, PositionsNetTrades,
    Books!PositionsNetTrades, BalanceReconciles, Books!BalanceReconciles,
    TradesFitOrders, Books!TradesFitOrders, LossLimitHit, Books!LossLimitHit, Signed,
    Books!Signed

\* The monitor's closing orders leave the account in order, however often a
\* liquidation ends half-way: the margin locked is that of the open limit orders,
\* there are no more open orders than allowed, each order's last event tells its
\* status, and positions and balance agree with the trade history.
THEOREM MonitoredAccountIsInOrder ==
  MonitorSpec =>
    [](/\ MarginConserved /\ LocksMatchLiveLimits
       /\ EventsTellStatus /\ OpenOrdersWithinLimit
       /\ PositionsNetTrades /\ BalanceReconciles /\ TradesFitOrders)
<1>1. MonitorInit => Books!Init
  BY DEF MonitorInit, Init, Books!Init
<1>2. MonitorInv /\ [MonitorNext]_<<vars, monitorVars>> => [Books!Next]_(Books!vars)
  BY StepIsCall DEF MonitorInv, MonitorTypeOK
<1>3. MonitorSpec => Books!Spec
  BY <1>1, <1>2, MonitorAlways, PTL DEF MonitorSpec, Books!Spec
<1>4. /\ Books!Spec => []Books!MarginConserved
      /\ Books!Spec => []Books!LocksMatchLiveLimits
      /\ Books!Spec => []Books!EventsTellStatus
      /\ Books!Spec => []Books!OpenOrdersWithinLimit
  BY InstanceAssumptions, Books!MarginIsConserved, Books!LocksExact,
     Books!EventsTellTheStatus, Books!OpenOrdersStayWithinLimit
<1>5. /\ Books!Spec => []Books!PositionsNetTrades
      /\ Books!Spec => []Books!BalanceReconciles
      /\ Books!Spec => []Books!TradesFitOrders
  BY InstanceAssumptions, Books!PositionsAreTheNetOfTrades, Books!BalanceIsReconciled,
     Books!TradesFitTheirOrders
<1> QED BY <1>3, <1>4, <1>5, SameBooks, PTL

-----------------------------------------------------------------------------
(* Stop-out prices.  The sums over the positions are integers, for there   *)
(* are finitely many positions and each has an integer to add; the rest is *)
(* the equation the price solves.                                          *)

\* A fill opens at most one position, and nothing else opens any.
LEMMA StepPositions ==
  [Next]_vars => \E i : DOMAIN positions' \subseteq DOMAIN positions \cup {i}
<1> SUFFICES ASSUME [Next]_vars
             PROVE  \E i : DOMAIN positions' \subseteq DOMAIN positions \cup {i}
  OBVIOUS
<1>1. ASSUME DOMAIN positions' = DOMAIN positions
      PROVE  \E i : DOMAIN positions' \subseteq DOMAIN positions \cup {i}
  BY <1>1
<1>2. ASSUME NEW id \in OrderId, NEW qty \in FillQuantities, NEW price \in FillPrices,
             SettleFill(id, qty, price)
      PROVE  \E i : DOMAIN positions' \subseteq DOMAIN positions \cup {i}
  <2>1. DOMAIN positions' \subseteq DOMAIN positions \cup {store[id].instrument}
    BY <1>2 DEF SettleFill, NetFill, Insert, Remove, Restrict
  <2> QED BY <2>1
<1>3. ASSUME NEW marks, UpdatePositionsPnl(marks) PROVE DOMAIN positions' = DOMAIN positions
  BY <1>3 DEF UpdatePositionsPnl
<1>4. CASE UNCHANGED vars
  BY <1>1, <1>4 DEF vars
<1>5. CASE Next
  BY <1>1, <1>2, <1>3, <1>5, NextCases
  DEF SubmitFok, SubmitLimit, SubmitMarket, SubmitStop, SubmitIoc, CancelOrder, RefuseFill,
      AbandonFill, Deposit, Withdraw, OnPriceUpdate
<1> QED BY <1>4, <1>5

LEMMA PositionsAreFinite == MonitorSpec => []IsFiniteSet(DOMAIN positions)
<1>1. MonitorInit => IsFiniteSet(DOMAIN positions)
  <2>1. MonitorInit => DOMAIN positions = {}
    BY DEF MonitorInit, Init
  <2> QED BY <2>1, FS_EmptySet
<1>2. IsFiniteSet(DOMAIN positions) /\ [MonitorNext]_<<vars, monitorVars>>
        => IsFiniteSet(DOMAIN positions)'
  <2> SUFFICES ASSUME IsFiniteSet(DOMAIN positions), [MonitorNext]_<<vars, monitorVars>>
               PROVE  IsFiniteSet(DOMAIN positions')
    OBVIOUS
  <2>1. \E i : DOMAIN positions' \subseteq DOMAIN positions \cup {i}
    BY StepPositions, MonitorCases
    DEF MonitoredCall, CheckNormal, CheckMarginCall, CheckStopOut, ForceLiquidate, SubmitIoc,
        LiquidationRefused, vars
  <2> QED BY <2>1, FS_AddElement, FS_Subset
<1> QED BY <1>1, <1>2, PTL DEF MonitorSpec

LEMMA MarksAreInts ==
  ASSUME NEW marks \in KnownMarks, NEW i \in DOMAIN marks
  PROVE  marks[i] \in Int
<1>1. PICK maps \in {[known -> MarketPrices] : known \in SUBSET Instrument} : marks \in maps
  BY DEF KnownMarks
<1>2. PICK known \in SUBSET Instrument : marks \in [known -> MarketPrices]
  BY <1>1
<1>3. MarketPrices \subseteq Int
  BY ServiceAssumption
<1> QED BY <1>2, <1>3

LEMMA UnrealizedIsInt ==
  ASSUME TypeOK, NEW held \in SUBSET DOMAIN positions, IsFiniteSet(held),
         NEW marks \in KnownMarks
  PROVE  Unrealized(positions, held, marks) \in Int
<1> DEFINE Value(i) == UnrealizedOf(positions[i], i, marks)
           v        == [i \in held |-> Value(i)]
           Takes(f) == f = [s \in SUBSET held |->
                              IF s = {} THEN 0
                              ELSE Value(CHOOSE x \in s : TRUE)
                                     + f[s \ {CHOOSE x \in s : TRUE}]]
           sums     == CHOOSE f : Takes(f)
<1>1. v \in [held -> Int]
  <2>1. ASSUME NEW i \in held PROVE Value(i) \in Int
    <3>1. positions[i] \in Position
      BY DEF TypeOK
    <3>2. i \in DOMAIN marks => marks[i] \in Int
      BY MarksAreInts
    <3>3. positions[i].quantity \in Int /\ positions[i].unrealized \in Int
      BY <3>1 DEF Position
    <3> QED BY <3>1, <3>2, <3>3, GainType DEF UnrealizedOf
  <2> QED BY <2>1
<1>2. Unrealized(positions, held, marks) = sums[held]
  BY DEF Unrealized, MapThenSumSet, MapThenFoldSet
<1>3. \A f : Takes(f) <=> SumsOver(f, v, held)
  <2>1. ASSUME NEW f, NEW s \in SUBSET held
        PROVE  SumWith(f, v, s) =
                 IF s = {} THEN 0 ELSE Value(CHOOSE x \in s : TRUE)
                                         + f[s \ {CHOOSE x \in s : TRUE}]
    BY DEF SumWith, SomeOf
  <2> HIDE DEF Value, v
  <2> QED BY <2>1 DEF SumsOver
<1> HIDE DEF Value, v, Takes
<1>4. SumsOver(sums, v, held)
  BY <1>1, <1>3, SetSumsExist
<1> QED BY <1>1, <1>2, <1>4, SetSumsAreInts

LEMMA UsedMarginIsInt ==
  ASSUME TypeOK, NEW held \in SUBSET DOMAIN positions, IsFiniteSet(held),
         NEW marks \in KnownMarks
  PROVE  UsedMargin(positions, held, marks, Leverage) \in Int
<1> DEFINE Value(i) == (PriceOf(positions[i], i, marks) * positions[i].quantity)
                          \div Leverage[i]
           v        == [i \in held |-> Value(i)]
           Takes(f) == f = [s \in SUBSET held |->
                              IF s = {} THEN 0
                              ELSE Value(CHOOSE x \in s : TRUE)
                                     + f[s \ {CHOOSE x \in s : TRUE}]]
           sums     == CHOOSE f : Takes(f)
<1>1. v \in [held -> Int]
  <2>1. ASSUME NEW i \in held PROVE Value(i) \in Int
    <3>1. positions[i] \in Position /\ Leverage[i] \in Nat \ {0}
      BY ServiceAssumption DEF TypeOK
    <3>2. i \in DOMAIN marks => marks[i] \in Int
      BY MarksAreInts
    <3>3. positions[i].quantity \in Int /\ positions[i].avgPrice \in Int
      BY <3>1 DEF Position
    <3>4. PICK price \in Int : price = PriceOf(positions[i], i, marks)
      BY <3>2, <3>3 DEF PriceOf
    <3>5. PICK total \in Int : total = price * positions[i].quantity
      BY <3>3
    <3> QED BY <3>1, <3>4, <3>5
  <2> QED BY <2>1
<1>2. UsedMargin(positions, held, marks, Leverage) = sums[held]
  BY DEF UsedMargin, MapThenSumSet, MapThenFoldSet
<1>3. \A f : Takes(f) <=> SumsOver(f, v, held)
  <2>1. ASSUME NEW f, NEW s \in SUBSET held
        PROVE  SumWith(f, v, s) =
                 IF s = {} THEN 0 ELSE Value(CHOOSE x \in s : TRUE)
                                         + f[s \ {CHOOSE x \in s : TRUE}]
    BY DEF SumWith, SomeOf
  <2> HIDE DEF Value, v
  <2> QED BY <2>1 DEF SumsOver
<1> HIDE DEF Value, v, Takes
<1>4. SumsOver(sums, v, held)
  BY <1>1, <1>3, SetSumsExist
<1> QED BY <1>1, <1>2, <1>4, SetSumsAreInts

\* The price of a short position solves the equation: both sides are the same
\* polynomial in the figures.
LEMMA ShortPriceSolves ==
  ASSUME NEW equity \in Int, NEW margin \in Int, NEW average \in Int, NEW quantity \in Int,
         NEW lev \in Int, NEW ratio \in Int, NEW num \in Int, NEW den \in Int,
         num = (100 * (equity + average * quantity) - ratio * margin) * lev,
         den = (100 * lev + ratio) * quantity
  PROVE  100 * lev * (den * equity + quantity * (-(num - average * den)))
           = ratio * (den * lev * margin + num * quantity)
OBVIOUS

\* The stop-out price reported for a short position is the price at which it
\* stops out, whatever else is held, whatever was realized before, and whichever
\* prices are known; the price is the fraction, before it is written as a Decimal.
THEOREM ShortStopOutPricesAreExact == MonitorSpec => []ShortStopOutPricesAreRight
<1>1. TypeOK /\ IsFiniteSet(DOMAIN positions) => ShortStopOutPricesAreRight
  <2> SUFFICES ASSUME TypeOK, IsFiniteSet(DOMAIN positions), NEW marks \in KnownMarks,
                      NEW i \in DOMAIN PricesFor(marks), positions[i].side = "Sell"
               PROVE  StopsOutAt(i, PricesFor(marks)[i], marks)
    BY DEF ShortStopOutPricesAreRight
  <2> DEFINE others == DOMAIN positions \ {i}
             equity == account.balance + Unrealized(positions, others, marks)
             margin == UsedMargin(positions, others, marks, Leverage)
             price  == StopPrice(positions[i], equity, margin, Leverage[i])
  <2>1. i \in DOMAIN positions /\ PricesFor(marks)[i] = price
    BY DEF PricesFor, StopOutPrices
  <2>2. equity \in Int /\ margin \in Int
    <3>1. others \in SUBSET DOMAIN positions /\ IsFiniteSet(others)
      BY FS_Subset
    <3>2. account.balance \in Int
      BY DEF TypeOK, Account
    <3> QED BY <3>1, <3>2, UnrealizedIsInt, UsedMarginIsInt
  <2>3. /\ positions[i].avgPrice \in Int /\ positions[i].quantity \in Int
        /\ Leverage[i] \in Int /\ StopOutRatio \in Int
    <3>1. positions[i] \in Position /\ Leverage[i] \in Nat \ {0}
      BY <2>1, ServiceAssumption DEF TypeOK
    <3> QED BY <3>1, RatiosAssumption DEF Position
  <2> DEFINE average  == positions[i].avgPrice
             quantity == positions[i].quantity
             lev      == Leverage[i]
  <2>4. /\ price.num = (100 * (equity + average * quantity) - StopOutRatio * margin) * lev
        /\ price.den = (100 * lev + StopOutRatio) * quantity
    BY DEF StopPrice
  <2>5. StopsOutAt(i, price, marks)
          <=> 100 * lev * (price.den * equity
                             + quantity * (-(price.num - average * price.den)))
                = StopOutRatio * (price.den * lev * margin + price.num * quantity)
    BY DEF StopsOutAt
  <2> HIDE DEF equity, margin, average, quantity, lev, price
  <2>6. price.num \in Int /\ price.den \in Int
    BY <2>2, <2>3, <2>4 DEF average, quantity, lev
  <2> QED BY <2>1, <2>2, <2>3, <2>4, <2>5, <2>6, ShortPriceSolves DEF average, quantity, lev
<1>2. MonitorInv => TypeOK
  BY DEF MonitorInv
<1> QED BY <1>1, <1>2, MonitorAlways, PositionsAreFinite, PTL
=============================================================================
