------------------------- MODULE OrderServiceProofs -------------------------
(***************************************************************************)
(* Proofs about the order service, for every value of its constants.       *)
(***************************************************************************)
EXTENDS OrderServiceProperties, SequenceTheorems, TLAPS

-----------------------------------------------------------------------------
(* The operators of the service return values of their types.              *)

\* A move leaves an order.
LEMMA MoveToType ==
  ASSUME NEW order \in Order, NEW status \in OrderStatus
  PROVE  MoveTo(order, status) \in Order
BY DEF MoveTo, Order

\* So does a fill, taken or not.
LEMMA ApplyFillType ==
  ASSUME NEW order \in Order, NEW qty \in Int
  PROVE  ApplyFill(order, qty) \in Order
<1> DEFINE counted == [order EXCEPT !.filled = @ + qty]
<1>1. counted \in Order
  BY DEF Order
<1>2. FillStatus(order, qty) \in OrderStatus
  BY DEF FillStatus, OrderStatus
<1>3. MoveTo(counted, FillStatus(order, qty)) \in Order
  BY <1>1, <1>2, MoveToType
<1> QED BY <1>3 DEF ApplyFill

\* A request makes an order in status New.
LEMMA NewOrderType ==
  ASSUME NEW req \in OrderRequest
  PROVE  /\ NewOrder(req) \in Order
         /\ NewOrder(req).status = "New"
         /\ NewOrder(req).type = req.type
BY DEF NewOrder, OrderRequest, Order, OrderStatus, Option

\* The prices an order has seen, the last included, have a least and a greatest.
LEMMA SeenPrices ==
  ASSUME NEW order \in Order, NEW price \in Int
  PROVE  LET seen == order.best \cup {price}
         IN  /\ Min(seen) \in Int /\ \A x \in seen : Min(seen) <= x
             /\ Max(seen) \in Int /\ \A x \in seen : Max(seen) >= x
<1> DEFINE seen == order.best \cup {price}
<1>1. order.best \in SUBSET Int /\ \A x, y \in order.best : x = y
  BY DEF Order, Option
<1>2. PICK b \in Int : seen = {b, price}
  <2>1. CASE order.best = {}
    BY <2>1
  <2>2. CASE order.best # {}
    BY <1>1, <2>2
  <2> QED BY <2>1, <2>2
<1> HIDE DEF seen
<1>3. \E x \in seen : \A y \in seen : x <= y
  BY <1>2
<1>4. \E x \in seen : \A y \in seen : x >= y
  BY <1>2
<1>5. Min(seen) \in seen /\ \A x \in seen : Min(seen) <= x
  BY <1>3 DEF Min
<1>6. Max(seen) \in seen /\ \A x \in seen : Max(seen) >= x
  BY <1>4 DEF Max
<1> QED BY <1>2, <1>5, <1>6 DEF seen

\* Following a price changes nothing of an order but the best price it has seen.
LEMMA UpdateTrailingBestType ==
  ASSUME NEW order \in Order, NEW price \in Int
  PROVE  /\ UpdateTrailingBest(order, price) \in Order
         /\ UpdateTrailingBest(order, price).type = order.type
         /\ UpdateTrailingBest(order, price).status = order.status
         /\ UpdateTrailingBest(order, price).quantity = order.quantity
         /\ UpdateTrailingBest(order, price).instrument = order.instrument
<1> DEFINE seen == order.best \cup {price}
<1>2. Min(seen) \in Int /\ Max(seen) \in Int
  BY SeenPrices
<1> DEFINE to == {IF order.side = "Buy" THEN Min(seen) ELSE Max(seen)}
<1>3. to \in Option(Int)
  BY <1>2 DEF Option
<1>4. UpdateTrailingBest(order, price) \in {order, [order EXCEPT !.best = to]}
  BY DEF UpdateTrailingBest
<1> HIDE DEF to
<1> QED BY <1>3, <1>4 DEF Order

\* A price moves a waiting stop to Accepted, or leaves its status alone.
LEMMA AfterPriceType ==
  ASSUME NEW order \in Order, NEW price \in Int, order.status = "PendingTrigger"
  PROVE  /\ AfterPrice(order, price) \in Order
         /\ AfterPrice(order, price).type = order.type
         /\ AfterPrice(order, price).quantity = order.quantity
         /\ AfterPrice(order, price).instrument = order.instrument
         /\ AfterPrice(order, price).status \in {"PendingTrigger", "Accepted"}
<1> DEFINE followed == UpdateTrailingBest(order, price)
<1>1. /\ followed \in Order
      /\ followed.type = order.type
      /\ followed.quantity = order.quantity
      /\ followed.instrument = order.instrument
      /\ followed.status = "PendingTrigger"
  BY UpdateTrailingBestType
<1>2. AfterPrice(order, price) = CheckTrigger(followed, price)
  BY DEF AfterPrice
<1> HIDE DEF followed
<1>3. AfterPrice(order, price) \in {followed, [followed EXCEPT !.status = "Accepted"]}
  BY <1>2 DEF CheckTrigger, MoveTo
<1> QED BY <1>1, <1>3 DEF Order, OrderStatus

\* Margins are integers.
LEMMA RequiredMarginType ==
  ASSUME NEW price \in Int, NEW qty \in Int, NEW leverage \in Nat \ {0}
  PROVE  RequiredMargin(price, qty, leverage) \in Int
BY DEF RequiredMargin

LEMMA MarginOfType ==
  ASSUME NEW order \in Order, order.type.kind = "Limit"
  PROVE  MarginOf(order) \in Int
<1>1. order.type.price \in Int
  BY DEF Order, OrderType
<1>2. order.quantity \in Int /\ Leverage[order.instrument] \in Nat \ {0}
  BY ServiceAssumption DEF Order
<1> QED BY <1>1, <1>2, RequiredMarginType DEF MarginOf

\* The margin of a request is that of the order made from it.
LEMMA MarginOfRequest ==
  ASSUME NEW req \in OrderRequest
  PROVE  MarginOf(req) = MarginOf(NewOrder(req))
BY DEF MarginOf, NewOrder

LEMMA MarginOfRequestType ==
  ASSUME NEW req \in OrderRequest, req.type.kind = "Limit"
  PROVE  MarginOf(req) \in Int
BY NewOrderType, MarginOfRequest, MarginOfType

\* The account's methods return accounts.
LEMMA AccountMethodsType ==
  ASSUME NEW acct \in Account, NEW amount \in Int
  PROVE  /\ LockMargin(acct, amount) \in Account
         /\ UnlockMargin(acct, amount) \in Account
         /\ ApplyRealizedPnl(acct, amount) \in Account
         /\ DepositTo(acct, amount) \in Account
         /\ WithdrawFrom(acct, amount) \in Account
BY DEF Account, LockMargin, UnlockMargin, ApplyRealizedPnl, DepositTo, WithdrawFrom

\* Adding to and reducing a position leave a position, and gains are integers.
LEMMA GainType ==
  ASSUME NEW pos \in Position, NEW qty \in Int, NEW price \in Int
  PROVE  Gain(pos, qty, price) \in Int
BY DEF Gain, Position

LEMMA QuotientType ==
  ASSUME NEW a \in Int, NEW b \in Int, b # 0
  PROVE  Quotient(a, b) \in Int
<1>1. CASE b > 0
  BY <1>1 DEF Quotient
<1>2. CASE ~(b > 0)
  <2> DEFINE c == -a
             d == -b
  <2>1. c \in Int /\ d \in Nat \ {0}
    BY <1>2
  <2>2. Quotient(a, b) = c \div d
    BY <1>2 DEF Quotient
  <2> HIDE DEF c, d
  <2>3. c \div d \in Int
    BY <2>1
  <2> QED BY <2>2, <2>3
<1> QED BY <1>1, <1>2

LEMMA AddType ==
  ASSUME NEW pos \in Position, NEW qty \in Nat \ {0}, NEW price \in Int
  PROVE  Add(pos, qty, price) \in Position
<1> DEFINE total == pos.quantity + qty
           cost  == pos.avgPrice * pos.quantity + price * qty
<1>1. total \in Nat \ {0} /\ cost \in Int /\ pos.avgPrice \in Int
  BY DEF Position
<1> DEFINE average == IF total = 0 THEN pos.avgPrice ELSE Quotient(cost, total)
<1>2. average \in Int
  <2> HIDE DEF total, cost
  <2> QED BY <1>1, QuotientType
<1>3. Add(pos, qty, price) = [pos EXCEPT !.quantity = total, !.avgPrice = average]
  BY DEF Add
<1> HIDE DEF total, average
<1> QED BY <1>1, <1>2, <1>3 DEF Position

LEMMA ReduceType ==
  ASSUME NEW pos \in Position, NEW qty \in Nat
  PROVE  Reduce(pos, qty) \in Position /\ CloseQuantity(pos, qty) \in Nat
<1> DEFINE rest    == pos.quantity - CloseQuantity(pos, qty)
           average == IF rest = 0 THEN 0 ELSE pos.avgPrice
<1>1. CloseQuantity(pos, qty) \in Nat /\ rest \in Nat
  BY DEF CloseQuantity, Position
<1>2. average \in Int
  BY DEF Position
<1>3. Reduce(pos, qty) = [pos EXCEPT !.quantity = rest, !.avgPrice = average]
  BY DEF Reduce
<1> HIDE DEF rest, average
<1> QED BY <1>1, <1>2, <1>3 DEF Position

\* A fill netted into positions leaves positions, and realizes an integer.
LEMMA NetFillType ==
  ASSUME NEW book, DOMAIN book \subseteq Instrument, book \in [DOMAIN book -> Position],
         NEW i \in Instrument, NEW side \in Side,
         NEW qty \in Nat \ {0}, NEW price \in Int
  PROVE  /\ DOMAIN NetFill(book, i, side, qty, price) \subseteq Instrument
         /\ NetFill(book, i, side, qty, price)
              \in [DOMAIN NetFill(book, i, side, qty, price) -> Position]
         /\ RealizedPnl(book, i, side, qty, price) \in Int
<1>1. CASE i \notin DOMAIN book
  <2>1. NewPosition(side, qty, price) \in Position
    BY DEF NewPosition, Position, Side
  <2>2. NetFill(book, i, side, qty, price) = Insert(book, i, NewPosition(side, qty, price))
    BY <1>1 DEF NetFill
  <2> QED BY <1>1, <2>1, <2>2 DEF RealizedPnl, Insert
<1>2. CASE i \in DOMAIN book
  <2> DEFINE pos  == book[i]
             rest == Reduce(pos, qty)
  <2>1. pos \in Position
    BY <1>2
  <2>2. rest \in Position /\ CloseQuantity(pos, qty) \in Nat /\ Add(pos, qty, price) \in Position
    BY <2>1, ReduceType, AddType
  <2>3. RealizedPnl(book, i, side, qty, price) \in Int
    BY <2>1, <2>2, GainType DEF RealizedPnl
  <2>4. ASSUME NEW new \in Position
        PROVE  [book EXCEPT ![i] = new] \in [DOMAIN book -> Position]
    OBVIOUS
  <2>5. Remove(book, i) \in [DOMAIN book \ {i} -> Position]
    BY DEF Remove, Restrict
  <2>6. ASSUME qty > pos.quantity
        PROVE  NewPosition(side, qty - pos.quantity, price) \in Position
    BY <2>1, <2>6 DEF NewPosition, Position, Side
  <2>7. \/ NetFill(book, i, side, qty, price) = Remove(book, i)
        \/ \E new \in Position : NetFill(book, i, side, qty, price) = [book EXCEPT ![i] = new]
    <3> HIDE DEF pos, rest
    <3>1. NetFill(book, i, side, qty, price) =
            IF pos.side = side THEN [book EXCEPT ![i] = Add(pos, qty, price)]
            ELSE IF rest.quantity # 0 THEN [book EXCEPT ![i] = rest]
            ELSE IF qty > pos.quantity
                 THEN [book EXCEPT ![i] = NewPosition(side, qty - pos.quantity, price)]
            ELSE Remove(book, i)
      BY <1>2 DEF NetFill, pos, rest
    <3> QED BY <3>1, <2>2, <2>6
  <2> QED BY <2>3, <2>4, <2>5, <2>7
<1> QED BY <1>1, <1>2

-----------------------------------------------------------------------------
(* Type correctness, one lemma for each kind of step.                      *)

\* Saving a new order extends the store and the event record together.
LEMMA SaveType ==
  ASSUME TypeOK, NEW order \in Order, NEW event \in OrderEvent, Save(order, event)
  PROVE  /\ store' \in Seq(Order)
         /\ lastEvent' \in Seq(OrderEvent)
         /\ Len(lastEvent') = Len(store')
         /\ Len(store') = Len(store) + 1
         /\ OrderId' = OrderId \cup {NextId}
         /\ NextId \in Nat /\ NextId \notin OrderId
         /\ \A id \in OrderId : store'[id] = store[id]
         /\ store'[NextId] = order
BY DEF TypeOK, Save, OrderId, NextId

\* Replacing one order and the event about it keeps both records in step.
LEMMA ReplaceType ==
  ASSUME TypeOK, NEW id \in OrderId, NEW order \in Order, NEW event \in OrderEvent
  PROVE  /\ [store EXCEPT ![id] = order] \in Seq(Order)
         /\ [lastEvent EXCEPT ![id] = event] \in Seq(OrderEvent)
         /\ Len([store EXCEPT ![id] = order]) = Len(store)
         /\ Len([lastEvent EXCEPT ![id] = event]) = Len(lastEvent)
         /\ DOMAIN [store EXCEPT ![id] = order] = OrderId
<1>1. /\ store \in Seq(Order) /\ lastEvent \in Seq(OrderEvent)
      /\ Len(lastEvent) = Len(store) /\ id \in 1..Len(store)
  BY DEF TypeOK, OrderId
<1>2. /\ [store EXCEPT ![id] = order] \in Seq(Order)
      /\ Len([store EXCEPT ![id] = order]) = Len(store)
  BY <1>1, ExceptSeq
<1>3. /\ [lastEvent EXCEPT ![id] = event] \in Seq(OrderEvent)
      /\ Len([lastEvent EXCEPT ![id] = event]) = Len(lastEvent)
  BY <1>1, ExceptSeq
<1> QED BY <1>2, <1>3 DEF OrderId

\* Removing a lock, and giving its margin back, keeps the types of both.
LEMMA ReleaseType ==
  ASSUME TypeOK, NEW id \in OrderId
  PROVE  /\ Released(id) \in Account
         /\ DOMAIN Remove(marginLocks, id) = DOMAIN marginLocks \ {id}
         /\ Remove(marginLocks, id) \in [DOMAIN marginLocks \ {id} -> Int]
         /\ \A k \in DOMAIN marginLocks \ {id} : Remove(marginLocks, id)[k] = marginLocks[k]
BY AccountMethodsType DEF TypeOK, Released, Remove, Restrict

LEMMA SubmitType ==
  ASSUME TypeOK, NEW req \in Requests,
         SubmitFok(req) \/ SubmitLimit(req) \/ SubmitMarket(req) \/ SubmitStop(req)
           \/ SubmitIoc(req)
  PROVE  TypeOK'
<1>1. /\ req \in OrderRequest
      /\ NewOrder(req) \in Order
      /\ \A s \in OrderStatus : MoveTo(NewOrder(req), s) \in Order
      /\ MoveTo(MoveTo(NewOrder(req), "Accepted"), "Cancelled") \in Order
  BY ServiceAssumption, NewOrderType, MoveToType DEF OrderStatus
<1>2. PICK order \in Order, event \in OrderEvent : Save(order, event)
  <2>1. {"Rejected", "Accepted", "PendingTrigger"} \subseteq OrderStatus
    BY DEF OrderStatus
  <2>2. {"FokRejected", "Accepted", "None", "IocResidualCancelled"} \subseteq OrderEvent
    BY DEF OrderEvent
  <2> QED
    BY <1>1, <2>1, <2>2
    DEF SubmitFok, SubmitLimit, SubmitMarket, SubmitStop, SubmitIoc, CancelResidual
<1>3. account' \in Account
  <2>1. CASE SubmitLimit(req) \/ SubmitIoc(req)
    BY <1>1, <2>1, MarginOfRequestType, AccountMethodsType DEF TypeOK, SubmitLimit, SubmitIoc
  <2>2. CASE SubmitFok(req) \/ SubmitMarket(req) \/ SubmitStop(req)
    BY <2>2 DEF TypeOK, SubmitFok, SubmitMarket, SubmitStop
  <2> QED BY <2>1, <2>2
<1>4. DOMAIN marginLocks' \subseteq OrderId' /\ marginLocks' \in [DOMAIN marginLocks' -> Int]
  <2>1. OrderId' = OrderId \cup {NextId}
    BY <1>2, SaveType
  <2>2. CASE SubmitLimit(req)
    BY <1>1, <2>1, <2>2, MarginOfRequestType DEF TypeOK, SubmitLimit, Insert
  <2>3. CASE SubmitFok(req) \/ SubmitMarket(req) \/ SubmitStop(req) \/ SubmitIoc(req)
    BY <2>1, <2>3 DEF TypeOK, SubmitFok, SubmitMarket, SubmitStop, SubmitIoc
  <2> QED BY <2>2, <2>3
<1>5. UNCHANGED <<positions, cumulativeLoss, trades, netCash>>
  BY DEF SubmitFok, SubmitLimit, SubmitMarket, SubmitStop, SubmitIoc
<1> QED BY <1>2, <1>3, <1>4, <1>5, SaveType DEF TypeOK

LEMMA CancelType ==
  ASSUME TypeOK, NEW id \in OrderId, CancelOrder(id)
  PROVE  TypeOK'
<1>1. store[id] \in Order /\ MoveTo(store[id], "Cancelled") \in Order
  BY MoveToType DEF TypeOK, OrderId, OrderStatus
<1>2. /\ store' \in Seq(Order)
      /\ lastEvent' \in Seq(OrderEvent)
      /\ Len(lastEvent') = Len(store') /\ OrderId' = OrderId
  BY <1>1, ReplaceType DEF CancelOrder, TypeOK, OrderId, OrderEvent
<1>3. account' \in Account
  BY ReleaseType DEF CancelOrder
<1>4. DOMAIN marginLocks' \subseteq OrderId' /\ marginLocks' \in [DOMAIN marginLocks' -> Int]
  BY <1>2, ReleaseType DEF CancelOrder, TypeOK
<1> QED BY <1>2, <1>3, <1>4 DEF CancelOrder, TypeOK

LEMMA EnterFillType ==
  ASSUME TypeOK, NEW id \in OrderId, NEW qty \in FillQuantities,
         RefuseFill(id, qty) \/ EnterFill(id, qty)
  PROVE  /\ store' \in Seq(Order)
         /\ lastEvent' \in Seq(OrderEvent)
         /\ Len(lastEvent') = Len(store') /\ OrderId' = OrderId
<1>1. store[id] \in Order /\ ApplyFill(store[id], qty) \in Order
  BY ServiceAssumption, ApplyFillType DEF TypeOK, OrderId
<1>2. FillStatus(store[id], qty) \in OrderEvent
  BY DEF FillStatus, OrderEvent
<1> DEFINE filled == [store EXCEPT ![id] = ApplyFill(store[id], qty)]
<1>3. /\ filled \in Seq(Order)
      /\ Len(filled) = Len(store) /\ DOMAIN filled = OrderId
      /\ [lastEvent EXCEPT ![id] = FillStatus(store[id], qty)] \in Seq(OrderEvent)
      /\ Len([lastEvent EXCEPT ![id] = FillStatus(store[id], qty)]) = Len(lastEvent)
  BY <1>1, <1>2, ReplaceType
<1>4. /\ store' = filled
      /\ \/ lastEvent' = lastEvent
         \/ lastEvent' = [lastEvent EXCEPT ![id] = FillStatus(store[id], qty)]
  BY DEF RefuseFill, EnterFill
<1> HIDE DEF filled
<1> QED BY <1>3, <1>4 DEF TypeOK, OrderId

LEMMA AbandonFillType ==
  ASSUME TypeOK, NEW id \in OrderId, NEW qty \in FillQuantities, NEW price \in FillPrices,
         AbandonFill(id, qty, price)
  PROVE  TypeOK'
<1>1. /\ store' \in Seq(Order)
      /\ lastEvent' \in Seq(OrderEvent)
      /\ Len(lastEvent') = Len(store') /\ OrderId' = OrderId
  BY EnterFillType DEF AbandonFill
<1>2. DOMAIN marginLocks' \subseteq OrderId' /\ marginLocks' \in [DOMAIN marginLocks' -> Int]
  BY <1>1, ReleaseType DEF AbandonFill, TypeOK
<1> QED BY <1>1, <1>2 DEF AbandonFill, TypeOK

LEMMA SettleFillType ==
  ASSUME TypeOK, NEW id \in OrderId, NEW qty \in FillQuantities, NEW price \in FillPrices,
         SettleFill(id, qty, price)
  PROVE  TypeOK'
<1> DEFINE order == store[id]
           pnl   == RealizedPnl(positions, order.instrument, order.side, qty, price)
           trade == [order |-> id, instrument |-> order.instrument, side |-> order.side,
                     quantity |-> qty, price |-> price, pnl |-> pnl]
<1>1. /\ store' \in Seq(Order)
      /\ lastEvent' \in Seq(OrderEvent)
      /\ Len(lastEvent') = Len(store') /\ OrderId' = OrderId
  BY EnterFillType DEF SettleFill
<1>2. /\ id \in Nat /\ order.instrument \in Instrument /\ order.side \in Side
      /\ qty \in Nat \ {0} /\ price \in Int
  <2>1. order \in Order /\ id \in Nat
    BY DEF TypeOK, OrderId
  <2> QED BY <2>1, ServiceAssumption DEF Order
<1>3. /\ DOMAIN positions' \subseteq Instrument
      /\ positions' \in [DOMAIN positions' -> Position]
      /\ pnl \in Int
  BY <1>2, NetFillType DEF SettleFill, TypeOK
<1>4. account' \in Account
  <2> DEFINE freed == IF FillsUp(id, qty) THEN Released(id) ELSE account
  <2>1. freed \in Account
    BY ReleaseType DEF TypeOK
  <2>2. account' = ApplyRealizedPnl(freed, pnl)
    BY DEF SettleFill
  <2> HIDE DEF freed, pnl
  <2> QED BY <1>3, <2>1, <2>2, AccountMethodsType
<1>5. DOMAIN marginLocks' \subseteq OrderId' /\ marginLocks' \in [DOMAIN marginLocks' -> Int]
  BY <1>1, ReleaseType DEF SettleFill, TypeOK
<1>6. cumulativeLoss' \in Int
  BY <1>3 DEF SettleFill, LossAfter, TypeOK
<1>7. trades' \in Seq(Trade)
  <2>1. trade \in Trade
    BY <1>2, <1>3 DEF Trade
  <2>2. trades' \in {trades, Append(trades, trade)}
    BY DEF SettleFill
  <2>3. ASSUME NEW last \in Trade PROVE Append(trades, last) \in Seq(Trade)
    BY DEF TypeOK
  <2>4. Append(trades, trade) \in Seq(Trade)
    BY <2>1, <2>3
  <2> QED BY <2>2, <2>4 DEF TypeOK
<1>8. netCash' = netCash
  BY DEF SettleFill
<1> QED BY <1>1, <1>3, <1>4, <1>5, <1>6, <1>7, <1>8 DEF TypeOK

LEMMA CashType ==
  ASSUME TypeOK, NEW amount \in CashAmounts, Deposit(amount) \/ Withdraw(amount)
  PROVE  TypeOK'
<1>1. amount \in Int
  BY ServiceAssumption
<1>2. account' \in Account /\ netCash' \in Int
  <2>1. account' \in {DepositTo(account, amount), WithdrawFrom(account, amount)}
    BY DEF Deposit, Withdraw
  <2>2. netCash' \in {netCash + amount, netCash - amount}
    BY DEF Deposit, Withdraw
  <2>3. netCash' \in Int
    BY <1>1, <2>2 DEF TypeOK
  <2>4. account \in Account
    BY DEF TypeOK
  <2>5. DepositTo(account, amount) \in Account /\ WithdrawFrom(account, amount) \in Account
    BY <1>1, <2>4, AccountMethodsType
  <2> QED BY <2>1, <2>3, <2>5
<1> QED BY <1>2 DEF Deposit, Withdraw, TypeOK, OrderId

LEMMA UpdatePositionsPnlType ==
  ASSUME TypeOK, NEW known \in SUBSET Instrument, NEW marks \in [known -> MarketPrices],
         UpdatePositionsPnl(marks)
  PROVE  TypeOK'
<1>1. ASSUME NEW i \in DOMAIN positions
      PROVE  positions'[i] \in Position
  <2>1. positions[i] \in Position
    BY DEF TypeOK
  <2>2. ASSUME i \in DOMAIN marks
        PROVE  UpdateUnrealized(positions[i], marks[i]) \in Position
    <3>1. marks[i] \in Int /\ positions[i].quantity \in Int
      <4>1. marks[i] \in MarketPrices
        BY <2>2
      <4>2. MarketPrices \subseteq Int
        BY ServiceAssumption
      <4>3. positions[i].quantity \in Int
        BY <2>1 DEF Position
      <4> QED BY <4>1, <4>2, <4>3
    <3>2. Gain(positions[i], positions[i].quantity, marks[i]) \in Int
      BY <2>1, <3>1, GainType
    <3> QED BY <2>1, <3>2 DEF UpdateUnrealized, Position
  <2> QED BY <2>1, <2>2 DEF UpdatePositionsPnl
<1>2. DOMAIN positions' = DOMAIN positions /\ positions' \in [DOMAIN positions -> Position]
  BY <1>1 DEF UpdatePositionsPnl
<1> QED BY <1>2 DEF UpdatePositionsPnl, TypeOK, OrderId

\* A price update replaces orders and events one by one.
LEMMA OnPriceUpdateType ==
  ASSUME TypeOK, NEW i \in Instrument, NEW price \in MarketPrices, OnPriceUpdate(i, price)
  PROVE  TypeOK'
<1>1. price \in Int /\ OrderId = 1..Len(store) /\ Len(store) \in Nat
  BY ServiceAssumption DEF TypeOK, OrderId
<1>2. ASSUME NEW id \in OrderId
      PROVE  store'[id] \in Order /\ lastEvent'[id] \in OrderEvent
  <2>1. store[id] \in Order /\ lastEvent[id] \in OrderEvent
    BY DEF TypeOK, OrderId
  <2>2. CASE id \in PendingTriggerOrdersFor(i)
    <3>1. AfterPrice(store[id], price) \in Order
      BY <1>1, <2>1, <2>2, AfterPriceType DEF PendingTriggerOrdersFor
    <3>2. PriceEvent(id, price) \in OrderEvent
      BY <2>1 DEF PriceEvent, OrderEvent
    <3> QED BY <2>2, <3>1, <3>2 DEF OnPriceUpdate
  <2>3. CASE id \notin PendingTriggerOrdersFor(i)
    BY <2>1, <2>3 DEF OnPriceUpdate
  <2> QED BY <2>2, <2>3
<1>3. DOMAIN store' = OrderId /\ DOMAIN lastEvent' = OrderId
  BY DEF OnPriceUpdate
<1>4. store' \in [1..Len(store) -> Order] /\ lastEvent' \in [1..Len(store) -> OrderEvent]
  BY <1>1, <1>2, <1>3 DEF OnPriceUpdate
<1>5. /\ store' \in Seq(Order) /\ lastEvent' \in Seq(OrderEvent)
      /\ Len(store') = Len(store) /\ Len(lastEvent') = Len(store)
  BY <1>1, <1>4, SeqDef
<1> QED BY <1>3, <1>5 DEF OnPriceUpdate, TypeOK, OrderId

\* The steps of the service, each with its inputs.
LEMMA NextCases ==
  ASSUME Next
  PROVE  \/ \E req \in Requests :
              SubmitFok(req) \/ SubmitLimit(req) \/ SubmitMarket(req) \/ SubmitStop(req)
                \/ SubmitIoc(req)
         \/ \E id \in OrderId : CancelOrder(id)
         \/ \E id \in OrderId, qty \in FillQuantities : RefuseFill(id, qty)
         \/ \E id \in OrderId, qty \in FillQuantities, price \in FillPrices :
              AbandonFill(id, qty, price)
         \/ \E id \in OrderId, qty \in FillQuantities, price \in FillPrices :
              SettleFill(id, qty, price)
         \/ \E amount \in CashAmounts : Deposit(amount) \/ Withdraw(amount)
         \/ \E known \in SUBSET Instrument : \E marks \in [known -> MarketPrices] :
              UpdatePositionsPnl(marks)
         \/ \E i \in Instrument, price \in MarketPrices : OnPriceUpdate(i, price)
BY Zenon DEF Next, Submit, Fill, Cancel, MoveCash, Feed

LEMMA InitType == Init => TypeOK
<1> SUFFICES ASSUME Init PROVE TypeOK
  OBVIOUS
<1>1. /\ <<>> \in Seq(Order) /\ <<>> \in Seq(Trade) /\ <<>> \in Seq(OrderEvent)
      /\ Len(<<>>) = 0
  BY EmptySeq
<1>2. account \in Account
  BY ServiceAssumption DEF Init, Account
<1>3. DOMAIN positions = {} /\ DOMAIN marginLocks = {}
  BY DEF Init
<1>4. positions \in [DOMAIN positions -> Position] /\ marginLocks \in [DOMAIN marginLocks -> Int]
  BY <1>3 DEF Init
<1> QED BY <1>1, <1>2, <1>3, <1>4 DEF Init, TypeOK

LEMMA StepType == TypeOK /\ [Next]_vars => TypeOK'
<1> SUFFICES ASSUME TypeOK, [Next]_vars PROVE TypeOK'
  OBVIOUS
<1>1. ASSUME NEW req \in Requests,
             SubmitFok(req) \/ SubmitLimit(req) \/ SubmitMarket(req) \/ SubmitStop(req)
               \/ SubmitIoc(req)
      PROVE  TypeOK'
  BY <1>1, SubmitType
<1>2. ASSUME NEW id \in OrderId, CancelOrder(id) PROVE TypeOK'
  BY <1>2, CancelType
<1>3. ASSUME NEW id \in OrderId, NEW qty \in FillQuantities, RefuseFill(id, qty)
      PROVE  TypeOK'
  BY <1>3, EnterFillType DEF RefuseFill, TypeOK
<1>4. ASSUME NEW id \in OrderId, NEW qty \in FillQuantities, NEW price \in FillPrices,
             AbandonFill(id, qty, price)
      PROVE  TypeOK'
  BY <1>4, AbandonFillType
<1>5. ASSUME NEW id \in OrderId, NEW qty \in FillQuantities, NEW price \in FillPrices,
             SettleFill(id, qty, price)
      PROVE  TypeOK'
  BY <1>5, SettleFillType
<1>6. ASSUME NEW amount \in CashAmounts, Deposit(amount) \/ Withdraw(amount) PROVE TypeOK'
  BY <1>6, CashType
<1>7. ASSUME NEW known \in SUBSET Instrument, NEW marks \in [known -> MarketPrices],
             UpdatePositionsPnl(marks)
      PROVE  TypeOK'
  BY <1>7, UpdatePositionsPnlType
<1>8. ASSUME NEW i \in Instrument, NEW price \in MarketPrices, OnPriceUpdate(i, price)
      PROVE  TypeOK'
  BY <1>8, OnPriceUpdateType
<1>9. CASE UNCHANGED vars
  BY <1>9 DEF vars, TypeOK, OrderId
<1>10. CASE Next
  BY <1>1, <1>2, <1>3, <1>4, <1>5, <1>6, <1>7, <1>8, <1>10, NextCases
<1> QED BY <1>9, <1>10

\* Every variable keeps its type, whatever the calls and their order.
THEOREM TypeCorrect == Spec => []TypeOK
<1> QED BY InitType, StepType, PTL DEF Spec

-----------------------------------------------------------------------------
(* Margin is locked for the limit orders that can still be filled.  The    *)
(* inductive invariant is the property and type correctness: the property  *)
(* alone says nothing of orders that are not in the store.                 *)

\* A legal move changes an order's status and nothing else.
LEMMA MoveToEffect ==
  ASSUME NEW order \in Order, NEW status \in OrderStatus, CanMove(order.status, status)
  PROVE  /\ MoveTo(order, status).status = status
         /\ MoveTo(order, status).type = order.type
         /\ MoveTo(order, status).quantity = order.quantity
         /\ MoveTo(order, status).instrument = order.instrument
BY DEF MoveTo, Order

\* A fill changes an order's status only if it is taken, and only accepted and
\* partially filled orders take fills.
LEMMA ApplyFillEffect ==
  ASSUME NEW order \in Order, NEW qty \in Int
  PROVE  /\ ApplyFill(order, qty).type = order.type
         /\ ApplyFill(order, qty).quantity = order.quantity
         /\ ApplyFill(order, qty).instrument = order.instrument
         /\ TakesFill(order, qty) =>
              /\ order.status \in {"Accepted", "PartiallyFilled"}
              /\ ApplyFill(order, qty).status = FillStatus(order, qty)
         /\ ~TakesFill(order, qty) => ApplyFill(order, qty).status = order.status
<1> DEFINE counted == [order EXCEPT !.filled = @ + qty]
<1>1. /\ counted.type = order.type /\ counted.quantity = order.quantity
      /\ counted.instrument = order.instrument /\ counted.status = order.status
      /\ counted \in Order
  BY DEF Order
<1>2. FillStatus(order, qty) \in {"Filled", "PartiallyFilled"}
  BY DEF FillStatus
<1>3. ApplyFill(order, qty) =
        IF OverFills(order, qty) THEN order ELSE MoveTo(counted, FillStatus(order, qty))
  BY DEF ApplyFill
<1> HIDE DEF counted
<1>4. CASE OverFills(order, qty)
  BY <1>3, <1>4 DEF TakesFill
<1>5. CASE ~OverFills(order, qty) /\ CanMove(order.status, FillStatus(order, qty))
  <2>1. order.status \in {"Accepted", "PartiallyFilled"}
    BY <1>2, <1>5 DEF CanMove
  <2>2. FillStatus(order, qty) \in OrderStatus
    BY <1>2 DEF OrderStatus
  <2> DEFINE to == FillStatus(order, qty)
  <2>3. to \in OrderStatus /\ CanMove(counted.status, to) /\ counted \in Order
    BY <1>1, <1>5, <2>2
  <2> HIDE DEF to
  <2>4. /\ MoveTo(counted, to).status = to
        /\ MoveTo(counted, to).type = counted.type
        /\ MoveTo(counted, to).quantity = counted.quantity
        /\ MoveTo(counted, to).instrument = counted.instrument
    BY <2>3, MoveToEffect
  <2>5. ApplyFill(order, qty) = MoveTo(counted, to)
    BY <1>3, <1>5 DEF to
  <2>6. TakesFill(order, qty)
    BY <1>5 DEF TakesFill
  <2> QED BY <1>1, <2>1, <2>4, <2>5, <2>6 DEF to
<1>6. CASE ~OverFills(order, qty) /\ ~CanMove(order.status, FillStatus(order, qty))
  BY <1>1, <1>3, <1>6 DEF MoveTo, TakesFill
<1> QED BY <1>4, <1>5, <1>6

\* Saving an order that holds no margin, or the lock it is saved with.
LEMMA SaveKeepsLocks ==
  ASSUME TypeOK, LocksMatchLiveLimits,
         NEW order \in Order, NEW event \in OrderEvent, Save(order, event),
         \/ marginLocks' = marginLocks /\ ~IsLiveLimit(order)
         \/ marginLocks' = Insert(marginLocks, NextId, MarginOf(order)) /\ IsLiveLimit(order)
  PROVE  LocksMatchLiveLimits'
<1>1. /\ OrderId' = OrderId \cup {NextId} /\ NextId \notin OrderId
      /\ \A id \in OrderId : store'[id] = store[id]
      /\ store'[NextId] = order
  BY SaveType
<1>2. DOMAIN marginLocks \subseteq OrderId
  BY DEF TypeOK
<1>3. CASE marginLocks' = marginLocks /\ ~IsLiveLimit(order)
  BY <1>1, <1>2, <1>3 DEF LocksMatchLiveLimits, MarginOf, IsLiveLimit
<1>4. CASE /\ marginLocks' = Insert(marginLocks, NextId, MarginOf(order))
           /\ IsLiveLimit(order)
  <2>1. /\ DOMAIN marginLocks' = DOMAIN marginLocks \cup {NextId}
        /\ marginLocks'[NextId] = MarginOf(order)
        /\ \A id \in DOMAIN marginLocks : marginLocks'[id] = marginLocks[id]
    BY <1>1, <1>2, <1>4 DEF Insert
  <2> QED BY <1>1, <1>2, <1>4, <2>1 DEF LocksMatchLiveLimits, MarginOf, IsLiveLimit
<1> QED BY <1>3, <1>4

\* Replacing an order by one of the same type and size, with its lock kept as
\* long as it can be filled.
LEMMA ReplaceKeepsLocks ==
  ASSUME TypeOK, LocksMatchLiveLimits, NEW id \in OrderId, NEW order \in Order,
         store' = [store EXCEPT ![id] = order],
         order.type = store[id].type, order.quantity = store[id].quantity,
         order.instrument = store[id].instrument,
         \/ marginLocks' = marginLocks /\ (IsLiveLimit(order) <=> IsLiveLimit(store[id]))
         \/ marginLocks' = Remove(marginLocks, id) /\ ~IsLiveLimit(order)
  PROVE  LocksMatchLiveLimits'
<1>1. /\ OrderId' = OrderId /\ store'[id] = order
      /\ \A k \in OrderId \ {id} : store'[k] = store[k]
  BY DEF OrderId
<1>2. \A k \in OrderId : MarginOf(store[k])' = MarginOf(store[k])
  BY <1>1 DEF MarginOf
<1>3. DOMAIN marginLocks \subseteq OrderId
  BY DEF TypeOK
<1>4. CASE marginLocks' = marginLocks /\ (IsLiveLimit(order) <=> IsLiveLimit(store[id]))
  BY <1>1, <1>2, <1>3, <1>4 DEF LocksMatchLiveLimits, IsLiveLimit
<1>5. CASE marginLocks' = Remove(marginLocks, id) /\ ~IsLiveLimit(order)
  <2>1. /\ DOMAIN marginLocks' = DOMAIN marginLocks \ {id}
        /\ \A k \in DOMAIN marginLocks \ {id} : marginLocks'[k] = marginLocks[k]
    BY <1>5 DEF Remove, Restrict
  <2> QED BY <1>1, <1>2, <1>3, <1>5, <2>1 DEF LocksMatchLiveLimits, IsLiveLimit
<1> QED BY <1>4, <1>5

LEMMA InitLocks == Init => LocksMatchLiveLimits
<1> SUFFICES ASSUME Init PROVE LocksMatchLiveLimits
  OBVIOUS
<1>1. OrderId = {} /\ DOMAIN marginLocks = {}
  BY EmptySeq DEF Init, OrderId
<1> QED BY <1>1 DEF LocksMatchLiveLimits

LEMMA SubmitLocks ==
  ASSUME TypeOK, LocksMatchLiveLimits, NEW req \in Requests,
         SubmitFok(req) \/ SubmitLimit(req) \/ SubmitMarket(req) \/ SubmitStop(req)
           \/ SubmitIoc(req)
  PROVE  LocksMatchLiveLimits'
<1> DEFINE new      == NewOrder(req)
           accepted == MoveTo(new, "Accepted")
<1>1. /\ req \in OrderRequest /\ new \in Order
      /\ new.status = "New" /\ new.type = req.type
  BY ServiceAssumption, NewOrderType
<1>2. \A s \in {"Rejected", "Accepted", "PendingTrigger"} :
        /\ MoveTo(new, s) \in Order /\ MoveTo(new, s).status = s
        /\ MoveTo(new, s).type = req.type
        /\ MoveTo(new, s).quantity = new.quantity
        /\ MoveTo(new, s).instrument = new.instrument
  <2> SUFFICES ASSUME NEW s \in {"Rejected", "Accepted", "PendingTrigger"}
               PROVE  /\ MoveTo(new, s) \in Order /\ MoveTo(new, s).status = s
                      /\ MoveTo(new, s).type = req.type
                      /\ MoveTo(new, s).quantity = new.quantity
                      /\ MoveTo(new, s).instrument = new.instrument
    OBVIOUS
  <2>1. s \in OrderStatus /\ CanMove(new.status, s)
    BY <1>1 DEF OrderStatus, CanMove
  <2> HIDE DEF new
  <2> QED BY <1>1, <2>1, MoveToType, MoveToEffect
<1> HIDE DEF new
<1>3. CASE SubmitFok(req)
  <2>1. Save(MoveTo(new, "Rejected"), "FokRejected") /\ marginLocks' = marginLocks
    BY <1>3 DEF SubmitFok, new
  <2>2. ~IsLiveLimit(MoveTo(new, "Rejected"))
    BY <1>2 DEF IsLiveLimit
  <2> QED BY <1>2, <2>1, <2>2, SaveKeepsLocks DEF OrderEvent
<1>4. CASE SubmitLimit(req)
  <2>1. /\ Save(accepted, "Accepted")
        /\ marginLocks' = Insert(marginLocks, NextId, MarginOf(req))
        /\ req.type.kind = "Limit"
    BY <1>4 DEF SubmitLimit, new
  <2>2. IsLiveLimit(accepted)
    BY <1>2, <2>1 DEF IsLiveLimit
  <2>3. MarginOf(req) = MarginOf(accepted)
    <3>1. MarginOf(req) = MarginOf(new)
      BY <1>1, MarginOfRequest DEF new
    <3> QED BY <1>1, <1>2, <3>1 DEF MarginOf
  <2> QED BY <1>2, <2>1, <2>2, <2>3, SaveKeepsLocks DEF OrderEvent
<1>5. CASE SubmitMarket(req)
  <2>1. /\ Save(accepted, "Accepted") /\ marginLocks' = marginLocks
        /\ req.type.kind = "Market"
    BY <1>5 DEF SubmitMarket, new
  <2>2. ~IsLiveLimit(accepted)
    BY <1>2, <2>1 DEF IsLiveLimit
  <2> QED BY <1>2, <2>1, <2>2, SaveKeepsLocks DEF OrderEvent
<1>6. CASE SubmitStop(req)
  <2>1. Save(MoveTo(new, "PendingTrigger"), "None") /\ marginLocks' = marginLocks
    BY <1>6 DEF SubmitStop, new
  <2>2. ~IsLiveLimit(MoveTo(new, "PendingTrigger"))
    BY <1>2 DEF IsLiveLimit
  <2> QED BY <1>2, <2>1, <2>2, SaveKeepsLocks DEF OrderEvent
<1>7. CASE SubmitIoc(req)
  <2>1. /\ Save(MoveTo(accepted, "Cancelled"), "IocResidualCancelled")
        /\ marginLocks' = marginLocks
    BY <1>7 DEF SubmitIoc, CancelResidual, new
  <2>2. accepted \in Order /\ accepted.status = "Accepted"
    BY <1>2
  <2> HIDE DEF accepted
  <2>3. "Cancelled" \in OrderStatus /\ CanMove(accepted.status, "Cancelled")
    BY <2>2 DEF OrderStatus, CanMove
  <2>4. /\ MoveTo(accepted, "Cancelled") \in Order
        /\ MoveTo(accepted, "Cancelled").status = "Cancelled"
    BY <2>2, <2>3, MoveToType, MoveToEffect
  <2>5. ~IsLiveLimit(MoveTo(accepted, "Cancelled"))
    BY <2>4 DEF IsLiveLimit
  <2> QED BY <2>1, <2>4, <2>5, SaveKeepsLocks DEF OrderEvent
<1> QED BY <1>3, <1>4, <1>5, <1>6, <1>7

LEMMA CancelLocks ==
  ASSUME TypeOK, LocksMatchLiveLimits, NEW id \in OrderId, CancelOrder(id)
  PROVE  LocksMatchLiveLimits'
<1> DEFINE cancelled == MoveTo(store[id], "Cancelled")
<1>1. store[id] \in Order
  BY DEF TypeOK, OrderId
<1>2. "Cancelled" \in OrderStatus /\ CanMove(store[id].status, "Cancelled")
  BY DEF OrderStatus, CancelOrder
<1>3. /\ cancelled \in Order /\ cancelled.status = "Cancelled"
      /\ cancelled.type = store[id].type /\ cancelled.quantity = store[id].quantity
      /\ cancelled.instrument = store[id].instrument
  BY <1>1, <1>2, MoveToType, MoveToEffect
<1>4. /\ store' = [store EXCEPT ![id] = cancelled]
      /\ marginLocks' = Remove(marginLocks, id)
  BY DEF CancelOrder
<1> HIDE DEF cancelled
<1>5. ~IsLiveLimit(cancelled)
  BY <1>3 DEF IsLiveLimit
<1> QED BY <1>3, <1>4, <1>5, ReplaceKeepsLocks

\* Fills that are taken: the lock goes with the fill that fills the order up.
LEMMA EnterFillLocks ==
  ASSUME TypeOK, LocksMatchLiveLimits, NEW id \in OrderId, NEW qty \in FillQuantities,
         EnterFill(id, qty),
         \/ marginLocks' = marginLocks /\ (FillsUp(id, qty) => ~IsLiveLimit(store[id]))
         \/ marginLocks' = Remove(marginLocks, id) /\ FillsUp(id, qty)
  PROVE  LocksMatchLiveLimits'
<1> DEFINE filled == ApplyFill(store[id], qty)
<1>1. store[id] \in Order /\ qty \in Int
  BY ServiceAssumption DEF TypeOK, OrderId
<1>2. TakesFill(store[id], qty) /\ store' = [store EXCEPT ![id] = filled]
  BY DEF EnterFill
<1>3. /\ filled \in Order /\ filled.status = FillStatus(store[id], qty)
      /\ filled.type = store[id].type /\ filled.quantity = store[id].quantity
      /\ filled.instrument = store[id].instrument
      /\ store[id].status \in {"Accepted", "PartiallyFilled"}
  BY <1>1, <1>2, ApplyFillType, ApplyFillEffect
<1>4. FillStatus(store[id], qty) \in {"Filled", "PartiallyFilled"}
  BY DEF FillStatus
<1> HIDE DEF filled
<1>5. CASE FillsUp(id, qty)
  <2>1. ~IsLiveLimit(filled)
    BY <1>3, <1>5 DEF IsLiveLimit, FillsUp
  <2> QED BY <1>2, <1>3, <1>5, <2>1, ReplaceKeepsLocks
<1>6. CASE ~FillsUp(id, qty)
  <2>1. IsLiveLimit(filled) <=> IsLiveLimit(store[id])
    BY <1>3, <1>4, <1>6 DEF IsLiveLimit, FillsUp
  <2> QED BY <1>2, <1>3, <1>6, <2>1, ReplaceKeepsLocks
<1> QED BY <1>5, <1>6

LEMMA FillLocks ==
  ASSUME TypeOK, LocksMatchLiveLimits, NEW id \in OrderId, NEW qty \in FillQuantities,
         NEW price \in FillPrices,
         AbandonFill(id, qty, price) \/ SettleFill(id, qty, price)
  PROVE  LocksMatchLiveLimits'
<1>1. EnterFill(id, qty)
  BY DEF AbandonFill, SettleFill
<1>2. CASE marginLocks' = Remove(marginLocks, id) /\ FillsUp(id, qty)
  BY <1>1, <1>2, EnterFillLocks
<1>3. CASE ~(marginLocks' = Remove(marginLocks, id) /\ FillsUp(id, qty))
  <2>1. marginLocks' = marginLocks
    BY <1>3 DEF AbandonFill, SettleFill
  <2>2. FillsUp(id, qty) => ~IsLiveLimit(store[id])
    BY <1>3 DEF AbandonFill, SettleFill, MarginRefused, IsMarketOrder, IsLiveLimit
  <2> QED BY <1>1, <2>1, <2>2, EnterFillLocks
<1> QED BY <1>2, <1>3

LEMMA RefuseFillLocks ==
  ASSUME TypeOK, LocksMatchLiveLimits, NEW id \in OrderId, NEW qty \in FillQuantities,
         RefuseFill(id, qty)
  PROVE  LocksMatchLiveLimits'
<1> DEFINE kept == ApplyFill(store[id], qty)
<1>1. store[id] \in Order /\ qty \in Int
  BY ServiceAssumption DEF TypeOK, OrderId
<1>2. /\ ~TakesFill(store[id], qty)
      /\ store' = [store EXCEPT ![id] = kept] /\ marginLocks' = marginLocks
  BY DEF RefuseFill
<1>3. /\ kept \in Order /\ kept.status = store[id].status
      /\ kept.type = store[id].type /\ kept.quantity = store[id].quantity
      /\ kept.instrument = store[id].instrument
  BY <1>1, <1>2, ApplyFillType, ApplyFillEffect
<1> HIDE DEF kept
<1>4. IsLiveLimit(kept) <=> IsLiveLimit(store[id])
  BY <1>3 DEF IsLiveLimit
<1> QED BY <1>2, <1>3, <1>4, ReplaceKeepsLocks

\* A price update accepts stops only, and stops hold no margin.
LEMMA OnPriceUpdateLocks ==
  ASSUME TypeOK, LocksMatchLiveLimits, NEW i \in Instrument, NEW price \in MarketPrices,
         OnPriceUpdate(i, price)
  PROVE  LocksMatchLiveLimits'
<1>1. OrderId' = OrderId /\ marginLocks' = marginLocks /\ DOMAIN marginLocks \subseteq OrderId
  BY DEF OnPriceUpdate, OrderId, TypeOK
<1>2. ASSUME NEW id \in OrderId
      PROVE  /\ IsLiveLimit(store'[id]) <=> IsLiveLimit(store[id])
             /\ store'[id].type = store[id].type
             /\ store'[id].quantity = store[id].quantity
             /\ store'[id].instrument = store[id].instrument
  <2>1. store[id] \in Order /\ price \in Int
    BY ServiceAssumption DEF TypeOK, OrderId
  <2>2. CASE id \in PendingTriggerOrdersFor(i)
    <3> DEFINE after == AfterPrice(store[id], price)
    <3>1. store[id].status = "PendingTrigger" /\ store'[id] = after
      BY <2>2 DEF OnPriceUpdate, PendingTriggerOrdersFor
    <3>2. /\ after.type = store[id].type /\ after.quantity = store[id].quantity
          /\ after.instrument = store[id].instrument
      BY <2>1, <3>1, AfterPriceType
    <3>3. after.status = "Accepted" => IsStopType(store[id].type)
      <4> DEFINE followed == UpdateTrailingBest(store[id], price)
      <4>1. followed.type = store[id].type /\ followed.status = "PendingTrigger"
        BY <2>1, <3>1, UpdateTrailingBestType
      <4>2. after = CheckTrigger(followed, price)
        BY DEF AfterPrice
      <4> HIDE DEF followed, after
      <4> QED BY <4>1, <4>2 DEF CheckTrigger, Triggers
    <3>4. after.status \in {"PendingTrigger", "Accepted"}
      BY <2>1, <3>1, AfterPriceType
    <3> HIDE DEF after
    <3>5. ~IsLiveLimit(after) /\ ~IsLiveLimit(store[id])
      BY <3>1, <3>2, <3>3, <3>4 DEF IsLiveLimit, IsStopType
    <3> QED BY <3>1, <3>2, <3>5
  <2>3. CASE id \notin PendingTriggerOrdersFor(i)
    BY <2>3 DEF OnPriceUpdate
  <2> QED BY <2>2, <2>3
<1>3. \A id \in OrderId : MarginOf(store[id])' = MarginOf(store[id])
  BY <1>2 DEF MarginOf
<1>4. \A id \in OrderId : IsLiveLimit(store'[id]) <=> IsLiveLimit(store[id])
  BY <1>2
<1> QED BY <1>1, <1>3, <1>4 DEF LocksMatchLiveLimits, IsLiveLimit

LEMMA StepLocks ==
  TypeOK /\ LocksMatchLiveLimits /\ [Next]_vars => LocksMatchLiveLimits'
<1> SUFFICES ASSUME TypeOK, LocksMatchLiveLimits, [Next]_vars
             PROVE  LocksMatchLiveLimits'
  OBVIOUS
<1>1. ASSUME NEW req \in Requests,
             SubmitFok(req) \/ SubmitLimit(req) \/ SubmitMarket(req) \/ SubmitStop(req)
               \/ SubmitIoc(req)
      PROVE  LocksMatchLiveLimits'
  BY <1>1, SubmitLocks
<1>2. ASSUME NEW id \in OrderId, CancelOrder(id) PROVE LocksMatchLiveLimits'
  BY <1>2, CancelLocks
<1>3. ASSUME NEW id \in OrderId, NEW qty \in FillQuantities, RefuseFill(id, qty)
      PROVE  LocksMatchLiveLimits'
  BY <1>3, RefuseFillLocks
<1>4. ASSUME NEW id \in OrderId, NEW qty \in FillQuantities, NEW price \in FillPrices,
             AbandonFill(id, qty, price)
      PROVE  LocksMatchLiveLimits'
  BY <1>4, FillLocks
<1>5. ASSUME NEW id \in OrderId, NEW qty \in FillQuantities, NEW price \in FillPrices,
             SettleFill(id, qty, price)
      PROVE  LocksMatchLiveLimits'
  BY <1>5, FillLocks
<1>6. ASSUME NEW amount \in CashAmounts, Deposit(amount) \/ Withdraw(amount)
      PROVE  LocksMatchLiveLimits'
  <2>1. store' = store /\ marginLocks' = marginLocks
    BY <1>6 DEF Deposit, Withdraw
  <2> QED BY <2>1 DEF LocksMatchLiveLimits, OrderId, MarginOf
<1>7. ASSUME NEW known \in SUBSET Instrument, NEW marks \in [known -> MarketPrices],
             UpdatePositionsPnl(marks)
      PROVE  LocksMatchLiveLimits'
  <2>1. store' = store /\ marginLocks' = marginLocks
    BY <1>7 DEF UpdatePositionsPnl
  <2> QED BY <2>1 DEF LocksMatchLiveLimits, OrderId, MarginOf
<1>8. ASSUME NEW i \in Instrument, NEW price \in MarketPrices, OnPriceUpdate(i, price)
      PROVE  LocksMatchLiveLimits'
  BY <1>8, OnPriceUpdateLocks
<1>9. CASE UNCHANGED vars
  BY <1>9 DEF vars, LocksMatchLiveLimits, OrderId, MarginOf
<1>10. CASE Next
  BY <1>1, <1>2, <1>3, <1>4, <1>5, <1>6, <1>7, <1>8, <1>10, NextCases
<1> QED BY <1>9, <1>10

\* Margin is locked for exactly the limit orders that can still be filled, for
\* any instruments, orders, prices and limits, and any interleaving of calls.
THEOREM LocksExact == Spec => []LocksMatchLiveLimits
<1>1. Init => TypeOK /\ LocksMatchLiveLimits
  BY InitType, InitLocks
<1>2. TypeOK /\ LocksMatchLiveLimits /\ [Next]_vars => (TypeOK /\ LocksMatchLiveLimits)'
  BY StepType, StepLocks
<1> QED BY <1>1, <1>2, PTL DEF Spec
=============================================================================
