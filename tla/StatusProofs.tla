---------------------------- MODULE StatusProofs ----------------------------
(***************************************************************************)
(* What becomes of an order's status, for every value of the service's     *)
(* constants: subscribers are told, finished orders stay finished, and no  *)
(* more orders are open than the limit.  Every step either saves one new   *)
(* order or moves orders that are there; the three theorems follow from    *)
(* what is common to all the moves.                                        *)
(***************************************************************************)
EXTENDS MarginProofs, FiniteSetTheorems

\* A step that saves one order, and tells of it.
Saves ==
  \E order \in Order, event \in OrderEvent :
    /\ Save(order, event)
    /\ order.status = StatusTold(event)
    /\ Cardinality(OpenOrders) < MaxOpenOrders
    /\ trades' = trades

Kept(id) == store'[id].status = store[id].status /\ lastEvent'[id] = lastEvent[id]

Told(id) ==
  IsOpen(store[id].status) /\ store'[id].status = StatusTold(lastEvent'[id])

\* A step that moves orders: one that moves was open, and its move is told; a
\* trade is made of an open order.
Moves ==
  /\ OrderId' = OrderId
  /\ \A id \in OrderId : Kept(id) \/ Told(id)
  /\ \/ trades' = trades
     \/ \E id \in OrderId, trade \in Trade :
          /\ IsOpen(store[id].status) /\ trade.order = id
          /\ trades' = Append(trades, trade)

-----------------------------------------------------------------------------
(* Every step is one or the other.                                         *)

LEMMA SubmitSaves ==
  ASSUME MarginInv, NEW req \in Requests,
         SubmitFok(req) \/ SubmitLimit(req) \/ SubmitMarket(req) \/ SubmitStop(req)
           \/ SubmitIoc(req)
  PROVE  Saves
<1> DEFINE new      == NewOrder(req)
           accepted == MoveTo(new, "Accepted")
<1>1. new \in Order /\ new.status = "New"
  BY ServiceAssumption, NewOrderType
<1>2. ASSUME NEW s \in {"Rejected", "Accepted", "PendingTrigger"}
      PROVE  MoveTo(new, s) \in Order /\ MoveTo(new, s).status = s
  <2>1. s \in OrderStatus /\ CanMove(new.status, s)
    BY <1>1 DEF OrderStatus, CanMove
  <2> HIDE DEF new
  <2> QED BY <1>1, <2>1, MoveToType, MoveToEffect
<1>3. MoveTo(accepted, "Cancelled") \in Order /\ MoveTo(accepted, "Cancelled").status = "Cancelled"
  <2>1. accepted \in Order /\ accepted.status = "Accepted"
    BY <1>2
  <2> HIDE DEF accepted
  <2>2. "Cancelled" \in OrderStatus /\ CanMove(accepted.status, "Cancelled")
    BY <2>1 DEF OrderStatus, CanMove
  <2> QED BY <2>1, <2>2, MoveToType, MoveToEffect
<1>4. Cardinality(OpenOrders) < MaxOpenOrders /\ trades' = trades
  BY DEF SubmitFok, SubmitLimit, SubmitMarket, SubmitStop, SubmitIoc, Admits, WithinLimits,
         ValidateOrder
<1>5. \/ Save(MoveTo(new, "Rejected"), "FokRejected")
      \/ Save(accepted, "Accepted")
      \/ Save(MoveTo(new, "PendingTrigger"), "None")
      \/ Save(MoveTo(accepted, "Cancelled"), "IocResidualCancelled")
  BY DEF SubmitFok, SubmitLimit, SubmitMarket, SubmitStop, SubmitIoc, CancelResidual
<1>6. /\ StatusTold("FokRejected") = "Rejected"
      /\ StatusTold("Accepted") = "Accepted"
      /\ StatusTold("None") = "PendingTrigger"
      /\ StatusTold("IocResidualCancelled") = "Cancelled"
  BY DEF StatusTold
<1>7. {"FokRejected", "Accepted", "None", "IocResidualCancelled"} \subseteq OrderEvent
  BY DEF OrderEvent
<1> HIDE DEF new
<1> QED BY <1>2, <1>3, <1>4, <1>5, <1>6, <1>7 DEF Saves

\* One order is replaced, and told of or left in its status.
LEMMA ReplaceMoves ==
  ASSUME TypeOK, NEW id \in OrderId, NEW order \in Order,
         store' = [store EXCEPT ![id] = order],
         \/ order.status = store[id].status /\ lastEvent' = lastEvent
         \/ /\ IsOpen(store[id].status)
            /\ \E event \in OrderEvent :
                 /\ lastEvent' = [lastEvent EXCEPT ![id] = event]
                 /\ order.status = StatusTold(event)
  PROVE  OrderId' = OrderId /\ \A k \in OrderId : Kept(k) \/ Told(k)
<1>1. /\ OrderId' = OrderId /\ store'[id] = order
      /\ \A k \in OrderId \ {id} : store'[k] = store[k]
  BY DEF OrderId
<1>2. DOMAIN lastEvent = OrderId
  BY DEF TypeOK, OrderId
<1>3. CASE order.status = store[id].status /\ lastEvent' = lastEvent
  BY <1>1, <1>3 DEF Kept
<1>4. CASE /\ IsOpen(store[id].status)
           /\ \E event \in OrderEvent :
                /\ lastEvent' = [lastEvent EXCEPT ![id] = event]
                /\ order.status = StatusTold(event)
  <2>1. PICK event \in OrderEvent :
          /\ lastEvent' = [lastEvent EXCEPT ![id] = event]
          /\ order.status = StatusTold(event)
    BY <1>4
  <2>2. lastEvent'[id] = event /\ \A k \in OrderId \ {id} : lastEvent'[k] = lastEvent[k]
    BY <1>2, <2>1
  <2> QED BY <1>1, <1>4, <2>1, <2>2 DEF Kept, Told
<1> QED BY <1>1, <1>3, <1>4

\* The release of a cancelled order's margin never fails, so its end is told.
LEMMA CancelMoves ==
  ASSUME MarginInv, NEW id \in OrderId, CancelOrder(id)
  PROVE  Moves
<1> DEFINE cancelled == MoveTo(store[id], "Cancelled")
<1>1. TypeOK /\ store[id] \in Order
  BY DEF MarginInv, TypeOK, OrderId
<1>2. "Cancelled" \in OrderStatus /\ CanMove(store[id].status, "Cancelled")
  BY DEF OrderStatus, CancelOrder
<1>3. cancelled \in Order /\ cancelled.status = "Cancelled"
  BY <1>1, <1>2, MoveToType, MoveToEffect
<1>4. ~ReleaseFails(id)
  BY LocksBounded DEF ReleaseFails
<1>5. /\ store' = [store EXCEPT ![id] = cancelled]
      /\ lastEvent' = [lastEvent EXCEPT ![id] = "Cancelled"]
      /\ trades' = trades
  BY <1>4 DEF CancelOrder
<1>6. IsOpen(store[id].status)
  BY <1>2 DEF CanMove, IsOpen
<1>7. "Cancelled" \in OrderEvent /\ StatusTold("Cancelled") = "Cancelled"
  BY DEF OrderEvent, StatusTold
<1> HIDE DEF cancelled
<1> QED BY <1>1, <1>3, <1>5, <1>6, <1>7, ReplaceMoves DEF Moves

LEMMA RefuseFillMoves ==
  ASSUME TypeOK, NEW id \in OrderId, NEW qty \in FillQuantities, RefuseFill(id, qty)
  PROVE  Moves
<1> DEFINE kept == ApplyFill(store[id], qty)
<1>1. store[id] \in Order /\ qty \in Int
  BY ServiceAssumption DEF TypeOK, OrderId
<1>2. /\ ~TakesFill(store[id], qty) /\ store' = [store EXCEPT ![id] = kept]
      /\ lastEvent' = lastEvent /\ trades' = trades
  BY DEF RefuseFill
<1>3. kept \in Order /\ kept.status = store[id].status
  BY <1>1, <1>2, ApplyFillType, ApplyFillEffect
<1> HIDE DEF kept
<1> QED BY <1>2, <1>3, ReplaceMoves DEF Moves

LEMMA FillMoves ==
  ASSUME TypeOK, NEW id \in OrderId, NEW qty \in FillQuantities, NEW price \in FillPrices,
         AbandonFill(id, qty, price) \/ SettleFill(id, qty, price)
  PROVE  Moves
<1> DEFINE filled == ApplyFill(store[id], qty)
           event  == FillStatus(store[id], qty)
<1>1. /\ store[id] \in Order /\ qty \in Nat \ {0} /\ price \in Int
      /\ id \in Nat /\ store[id].instrument \in Instrument /\ store[id].side \in Side
  <2>1. store[id] \in Order /\ id \in Nat
    BY DEF TypeOK, OrderId
  <2>2. store[id].instrument \in Instrument /\ store[id].side \in Side
    BY <2>1 DEF Order
  <2> QED BY <2>1, <2>2, ServiceAssumption
<1>2. /\ TakesFill(store[id], qty) /\ store' = [store EXCEPT ![id] = filled]
      /\ lastEvent' = [lastEvent EXCEPT ![id] = event]
  BY DEF AbandonFill, SettleFill, EnterFill
<1>3. /\ filled \in Order /\ filled.status = event
      /\ store[id].status \in {"Accepted", "PartiallyFilled"}
  BY <1>1, <1>2, ApplyFillType, ApplyFillEffect
<1>4. event \in OrderEvent /\ StatusTold(event) = event
  BY DEF FillStatus, OrderEvent, StatusTold
<1>5. IsOpen(store[id].status)
  BY <1>3 DEF IsOpen
<1>6. OrderId' = OrderId /\ \A k \in OrderId : Kept(k) \/ Told(k)
  <2> HIDE DEF filled, event
  <2> QED BY <1>2, <1>3, <1>4, <1>5, ReplaceMoves
<1>7. \/ trades' = trades
      \/ \E trade \in Trade : trade.order = id /\ trades' = Append(trades, trade)
  <2>1. CASE AbandonFill(id, qty, price)
    BY <2>1 DEF AbandonFill
  <2>2. CASE SettleFill(id, qty, price)
    <3> DEFINE pnl   == RealizedPnl(positions, store[id].instrument, store[id].side, qty, price)
               trade == [order |-> id, instrument |-> store[id].instrument,
                         side |-> store[id].side, quantity |-> qty, price |-> price,
                         pnl |-> pnl]
    <3>1. pnl \in Int
      BY <1>1, NetFillType DEF TypeOK
    <3>2. trades' = trades \/ trades' = Append(trades, trade)
      BY <2>2 DEF SettleFill
    <3> HIDE DEF pnl
    <3>3. trade \in Trade /\ trade.order = id
      BY <1>1, <3>1 DEF Trade
    <3> QED BY <3>2, <3>3
  <2> QED BY <2>1, <2>2
<1> QED BY <1>5, <1>6, <1>7 DEF Moves

LEMMA OnPriceUpdateMoves ==
  ASSUME TypeOK, NEW i \in Instrument, NEW price \in MarketPrices, OnPriceUpdate(i, price)
  PROVE  Moves
<1>1. OrderId' = OrderId /\ trades' = trades
  BY DEF OnPriceUpdate, OrderId
<1>2. ASSUME NEW id \in OrderId PROVE Kept(id) \/ Told(id)
  <2>1. CASE id \notin PendingTriggerOrdersFor(i)
    BY <2>1 DEF OnPriceUpdate, Kept
  <2>2. CASE id \in PendingTriggerOrdersFor(i)
    <3> DEFINE after == AfterPrice(store[id], price)
    <3>1. store[id] \in Order /\ price \in Int /\ store[id].status = "PendingTrigger"
      BY <2>2, ServiceAssumption DEF TypeOK, OrderId, PendingTriggerOrdersFor
    <3>2. after.status \in {"PendingTrigger", "Accepted"}
      BY <3>1, AfterPriceType
    <3>3. store'[id] = after /\ lastEvent'[id] = PriceEvent(id, price)
      BY <2>2 DEF OnPriceUpdate
    <3>4. CASE after.status = "Accepted"
      <4>1. PriceEvent(id, price) = "StopTriggered"
        BY <3>4 DEF PriceEvent
      <4> HIDE DEF after
      <4> QED BY <3>1, <3>3, <3>4, <4>1 DEF Told, IsOpen, StatusTold
    <3>5. CASE after.status = "PendingTrigger"
      <4>1. PriceEvent(id, price) \in {"TrailingStopUpdated", lastEvent[id]}
        BY <3>5 DEF PriceEvent
      <4> HIDE DEF after
      <4>2. CASE PriceEvent(id, price) = "TrailingStopUpdated"
        BY <3>1, <3>3, <3>5, <4>2 DEF Told, IsOpen, StatusTold
      <4>3. CASE PriceEvent(id, price) = lastEvent[id]
        BY <3>1, <3>3, <3>5, <4>3 DEF Kept
      <4> QED BY <4>1, <4>2, <4>3
    <3> QED BY <3>2, <3>4, <3>5
  <2> QED BY <2>1, <2>2
<1> QED BY <1>1, <1>2 DEF Moves

LEMMA StepSavesOrMoves == MarginInv /\ [Next]_vars => Saves \/ Moves
<1> SUFFICES ASSUME MarginInv, [Next]_vars PROVE Saves \/ Moves
  OBVIOUS
<1>t. TypeOK
  BY DEF MarginInv
<1>1. ASSUME store' = store, lastEvent' = lastEvent, trades' = trades PROVE Moves
  BY <1>1 DEF Moves, Kept, OrderId
<1>2. ASSUME NEW amount \in CashAmounts, Deposit(amount) \/ Withdraw(amount) PROVE Moves
  BY <1>1, <1>2 DEF Deposit, Withdraw
<1>3. ASSUME NEW known \in SUBSET Instrument, NEW marks \in [known -> MarketPrices],
             UpdatePositionsPnl(marks)
      PROVE  Moves
  BY <1>1, <1>3 DEF UpdatePositionsPnl
<1>4. CASE UNCHANGED vars
  BY <1>1, <1>4 DEF vars
<1>5. CASE Next
  BY <1>t, <1>2, <1>3, <1>5, NextCases, SubmitSaves, CancelMoves, RefuseFillMoves, FillMoves,
     OnPriceUpdateMoves
<1> QED BY <1>4, <1>5

-----------------------------------------------------------------------------
(* The theorems.                                                           *)

\* EventsTellStatus with MarginInv is inductive.
LEMMA StepEvents == MarginInv /\ EventsTellStatus /\ [Next]_vars => EventsTellStatus'
<1> SUFFICES ASSUME MarginInv, EventsTellStatus, [Next]_vars PROVE EventsTellStatus'
  OBVIOUS
<1>1. CASE Saves
  <2>1. TypeOK /\ DOMAIN lastEvent = OrderId
    BY DEF MarginInv, TypeOK, OrderId
  <2>2. PICK order \in Order, event \in OrderEvent :
          Save(order, event) /\ order.status = StatusTold(event)
    BY <1>1 DEF Saves
  <2>3. /\ OrderId' = OrderId \cup {NextId} /\ store'[NextId] = order
        /\ \A id \in OrderId : store'[id] = store[id]
    BY <2>1, <2>2, SaveType
  <2>4. lastEvent'[NextId] = event /\ \A id \in OrderId : lastEvent'[id] = lastEvent[id]
    BY <2>1, <2>2 DEF Save, TypeOK, OrderId, NextId
  <2> QED BY <2>2, <2>3, <2>4 DEF EventsTellStatus
<1>2. CASE Moves
  BY <1>2 DEF Moves, Kept, Told, EventsTellStatus
<1> QED BY <1>1, <1>2, StepSavesOrMoves

\* The last event about an order tells the status it is in, after any calls: no
\* subscriber takes an order to be live that is not, or the other way round.
THEOREM EventsTellTheStatus == Spec => []EventsTellStatus
<1>1. Init => MarginInv /\ EventsTellStatus
  <2>1. Init => EventsTellStatus
    BY EmptySeq DEF Init, EventsTellStatus, OrderId
  <2> QED BY <2>1, InitMargin
<1>2. MarginInv /\ EventsTellStatus /\ [Next]_vars => (MarginInv /\ EventsTellStatus)'
  BY StepMargin, StepEvents
<1> QED BY <1>1, <1>2, PTL DEF Spec

\* A step leaves a finished order finished, untold, untraded, and with no margin.
LEMMA StepFinished ==
  ASSUME MarginInv, LocksMatchLiveLimits', [Next]_vars, NEW id \in OrderId,
         IsTerminal(store[id].status)
  PROVE  /\ store'[id].status = store[id].status
         /\ lastEvent'[id] = lastEvent[id]
         /\ id \notin DOMAIN marginLocks'
         /\ trades' # trades => trades'[Len(trades')].order # id
<1>t. TypeOK /\ TypeOK'
  BY StepType DEF MarginInv
<1>o. ~IsOpen(store[id].status)
  BY DEF IsTerminal, IsOpen
<1>1. CASE Saves
  <2>1. PICK order \in Order, event \in OrderEvent : Save(order, event)
    BY <1>1 DEF Saves
  <2>2. OrderId' = OrderId \cup {NextId} /\ store'[id] = store[id]
    BY <1>t, <2>1, SaveType
  <2>3. lastEvent'[id] = lastEvent[id]
    BY <1>t, <2>1 DEF Save, TypeOK, OrderId
  <2>4. id \in OrderId' /\ ~IsLiveLimit(store'[id])
    BY <2>2 DEF IsLiveLimit, IsTerminal
  <2>5. id \notin DOMAIN marginLocks'
    BY <2>4 DEF LocksMatchLiveLimits
  <2> QED BY <1>1, <2>2, <2>3, <2>5 DEF Saves
<1>2. CASE Moves
  <2>1. Kept(id) /\ id \in OrderId'
    BY <1>o, <1>2 DEF Moves, Told
  <2>2. ~IsLiveLimit(store'[id])
    BY <2>1 DEF Kept, IsLiveLimit, IsTerminal
  <2>3. id \notin DOMAIN marginLocks'
    BY <2>1, <2>2 DEF LocksMatchLiveLimits
  <2>4. ASSUME trades' # trades PROVE trades'[Len(trades')].order # id
    <3>1. PICK other \in OrderId, trade \in Trade :
            /\ IsOpen(store[other].status) /\ trade.order = other
            /\ trades' = Append(trades, trade)
      BY <1>2, <2>4 DEF Moves
    <3>2. trades'[Len(trades')] = trade
      BY <1>t, <3>1 DEF TypeOK
    <3> QED BY <1>o, <3>1, <3>2
  <2> QED BY <2>1, <2>3, <2>4 DEF Kept
<1> QED BY <1>1, <1>2, StepSavesOrMoves

\* Whatever calls come late, an order that is filled, cancelled or rejected
\* keeps its status, is not published again, is not traded, and locks nothing.
THEOREM FinishedOrdersStay == Spec => FinishedOrdersAreInert
<1> DEFINE Inv  == MarginInv /\ LocksMatchLiveLimits
           Inert == \A id \in OrderId :
                      IsTerminal(store[id].status) =>
                        /\ store'[id].status = store[id].status
                        /\ lastEvent'[id] = lastEvent[id]
                        /\ id \notin DOMAIN marginLocks'
                        /\ trades' # trades => trades'[Len(trades')].order # id
<1>1. Init => Inv
  BY InitMargin, InitLocks
<1>2. Inv /\ [Next]_vars => Inv'
  BY StepMargin, StepLocks DEF MarginInv
<1>3. Inv /\ Inv' /\ [Next]_vars => [Inert]_vars
  BY StepFinished
<1>4. FinishedOrdersAreInert <=> [][Inert]_vars
  BY DEF FinishedOrdersAreInert
<1> HIDE DEF Inv, Inert
<1> QED BY <1>1, <1>2, <1>3, <1>4, PTL DEF Spec

\* The open orders are finitely many.
LEMMA OpenOrdersFinite ==
  ASSUME TypeOK
  PROVE  IsFiniteSet(OpenOrders) /\ Cardinality(OpenOrders) \in Nat
<1>1. Len(store) \in Nat /\ OrderId = 1..Len(store)
  BY DEF TypeOK, OrderId
<1>2. IsFiniteSet(1..Len(store))
  BY <1>1, FS_Interval
<1>3. OpenOrders \in SUBSET (1..Len(store))
  BY <1>1 DEF OpenOrders
<1> QED BY <1>2, <1>3, FS_Subset, FS_CardinalityType

\* One element more makes a set larger by one at most.
LEMMA SubsetWithOneMore ==
  ASSUME NEW S, IsFiniteSet(S), NEW x, NEW T \in SUBSET (S \cup {x})
  PROVE  Cardinality(T) \in Nat /\ Cardinality(T) <= Cardinality(S) + 1
<1> DEFINE U == S \cup {x}
<1>1. Cardinality(S) \in Nat
  BY FS_CardinalityType
<1>2. IsFiniteSet(U) /\ Cardinality(U) = IF x \in S THEN Cardinality(S) ELSE Cardinality(S) + 1
  BY FS_AddElement
<1>3. T \in SUBSET U
  OBVIOUS
<1> HIDE DEF U
<1>4. IsFiniteSet(T) /\ Cardinality(T) <= Cardinality(U)
  BY <1>2, <1>3, FS_Subset
<1>5. Cardinality(T) \in Nat
  BY <1>4, FS_CardinalityType
<1> QED BY <1>1, <1>2, <1>4, <1>5

\* A submission adds one order to the open ones, below the limit; no other step
\* opens any.
LEMMA StepOpenOrders ==
  MarginInv /\ OpenOrdersWithinLimit /\ [Next]_vars => OpenOrdersWithinLimit'
<1> SUFFICES ASSUME MarginInv, OpenOrdersWithinLimit, [Next]_vars
             PROVE  OpenOrdersWithinLimit'
  OBVIOUS
<1>t. TypeOK /\ TypeOK'
  BY StepType DEF MarginInv
<1>f. IsFiniteSet(OpenOrders) /\ Cardinality(OpenOrders) \in Nat /\ MaxOpenOrders \in Nat
  BY <1>t, OpenOrdersFinite, LimitsAssumption
<1>1. CASE Saves
  <2>1. PICK order \in Order, event \in OrderEvent :
          Save(order, event) /\ Cardinality(OpenOrders) < MaxOpenOrders
    BY <1>1 DEF Saves
  <2>2. OrderId' = OrderId \cup {NextId} /\ \A id \in OrderId : store'[id] = store[id]
    BY <1>t, <2>1, SaveType
  <2>3. OpenOrders' \in SUBSET (OpenOrders \cup {NextId})
    BY <2>2 DEF OpenOrders
  <2>4. /\ Cardinality(OpenOrders') \in Nat
        /\ Cardinality(OpenOrders') <= Cardinality(OpenOrders) + 1
    BY <1>f, <2>3, SubsetWithOneMore
  <2> QED BY <1>f, <2>1, <2>4 DEF OpenOrdersWithinLimit
<1>2. CASE Moves
  <2>1. OpenOrders' \in SUBSET OpenOrders
    BY <1>2 DEF Moves, Kept, Told, OpenOrders
  <2>2. Cardinality(OpenOrders') <= Cardinality(OpenOrders) /\ Cardinality(OpenOrders') \in Nat
    BY <1>f, <2>1, FS_Subset, FS_CardinalityType
  <2> QED BY <1>f, <2>2 DEF OpenOrdersWithinLimit
<1> QED BY <1>1, <1>2, StepSavesOrMoves

\* No account gets more open orders than the limit, however submissions, fills,
\* cancels and triggers follow each other.
THEOREM OpenOrdersStayWithinLimit == Spec => []OpenOrdersWithinLimit
<1>1. Init => MarginInv /\ OpenOrdersWithinLimit
  <2> SUFFICES ASSUME Init PROVE OpenOrdersWithinLimit
    BY InitMargin
  <2>1. OpenOrders = {}
    BY EmptySeq DEF Init, OpenOrders, OrderId
  <2> QED BY <2>1, FS_EmptySet, LimitsAssumption DEF OpenOrdersWithinLimit
<1>2. MarginInv /\ OpenOrdersWithinLimit /\ [Next]_vars => (MarginInv /\ OpenOrdersWithinLimit)'
  BY StepMargin, StepOpenOrders
<1> QED BY <1>1, <1>2, PTL DEF Spec

-----------------------------------------------------------------------------
(* Stops under the market feed.                                            *)

\* What a price does to a waiting order: its best price moves its way, and it
\* goes exactly if it is a stop and the price has reached its level.
LEMMA AfterPriceEffect ==
  ASSUME NEW order \in Order, NEW price \in Int, order.status = "PendingTrigger"
  PROVE  LET after == AfterPrice(order, price)
         IN  /\ after.side = order.side
             /\ \A best \in order.best : \E followed \in after.best :
                  IF order.side = "Buy" THEN followed <= best ELSE followed >= best
             /\ IsStopType(order.type) =>
                  after.status = IF PriceReaches(after, price) THEN "Accepted"
                                 ELSE "PendingTrigger"
<1> DEFINE after    == AfterPrice(order, price)
           followed == UpdateTrailingBest(order, price)
           seen     == order.best \cup {price}
           best     == IF order.side = "Buy" THEN Min(seen) ELSE Max(seen)
<1>1. /\ followed \in Order /\ followed.type = order.type
      /\ followed.status = "PendingTrigger"
  BY UpdateTrailingBestType
<1>2. after = IF Triggers(followed, price) THEN [followed EXCEPT !.status = "Accepted"]
              ELSE followed
  BY <1>1 DEF AfterPrice, CheckTrigger, MoveTo, CanMove
<1>3. /\ best \in Int
      /\ \A old \in order.best : IF order.side = "Buy" THEN best <= old ELSE best >= old
  BY SeenPrices
<1>4. followed = IF order.type.kind = "TrailingStop" THEN [order EXCEPT !.best = {best}]
                 ELSE order
  BY DEF UpdateTrailingBest
<1>5. order.side \in {"Buy", "Sell"} /\ order.best \subseteq Int
  BY DEF Order, Side, Option
<1> HIDE DEF best, seen
<1>6. /\ followed.side = order.side
      /\ followed.best = IF order.type.kind = "TrailingStop" THEN {best} ELSE order.best
  BY <1>4 DEF Order
<1> HIDE DEF followed, after
<1>7. after.side = order.side /\ after.best = followed.best /\ after.type = order.type
  BY <1>1, <1>2, <1>6 DEF Order
<1>8. ASSUME NEW old \in order.best
      PROVE  \E new \in after.best : IF order.side = "Buy" THEN new <= old ELSE new >= old
  BY <1>3, <1>5, <1>6, <1>7
<1>9. ASSUME IsStopType(order.type)
      PROVE  after.status = IF PriceReaches(after, price) THEN "Accepted" ELSE "PendingTrigger"
  <2>1. Triggers(followed, price) <=> PriceReaches(after, price)
    <3>1. CASE order.type.kind = "TrailingStop"
      <4>1. followed.best = {best} /\ after.best = {best} /\ Min({best}) = best
        BY <1>3, <1>6, <1>7, <3>1 DEF Min
      <4>2. order.type.trail \in Int
        BY <3>1 DEF Order, OrderType
      <4>3. TriggerLevel(followed, price) =
              IF order.side = "Buy" THEN best + order.type.trail ELSE best - order.type.trail
        BY <1>1, <1>5, <1>6, <3>1, <4>1 DEF TriggerLevel, BestPrice
      <4>4. Triggers(followed, price) <=>
              IF order.side = "Buy" THEN price >= best + order.type.trail
              ELSE price <= best - order.type.trail
        BY <1>1, <1>5, <1>6, <1>9, <4>3 DEF Triggers, Reaches
      <4>5. PriceReaches(after, price) <=>
              IF order.side = "Buy" THEN price >= best + order.type.trail
              ELSE best + (-order.type.trail) >= price
        BY <1>5, <1>7, <3>1, <4>1 DEF PriceReaches
      <4> QED BY <1>3, <4>2, <4>4, <4>5
    <3>2. CASE order.type.kind \in {"Stop", "StopLimit"}
      <4>1. order.type.trigger \in Int
        BY <3>2 DEF Order, OrderType
      <4>2. TriggerLevel(followed, price) = order.type.trigger
        BY <1>1, <3>2 DEF TriggerLevel
      <4>3. Triggers(followed, price) <=>
              IF order.side = "Buy" THEN price >= order.type.trigger
              ELSE price <= order.type.trigger
        BY <1>1, <1>6, <1>9, <4>2 DEF Triggers, Reaches
      <4>4. PriceReaches(after, price) <=>
              IF order.side = "Buy" THEN price >= order.type.trigger
              ELSE order.type.trigger >= price
        BY <1>7, <3>2 DEF PriceReaches
      <4> QED BY <4>1, <4>3, <4>4
    <3> QED BY <1>9, <3>1, <3>2 DEF IsStopType
  <2>2. after.status = IF Triggers(followed, price) THEN "Accepted" ELSE "PendingTrigger"
    BY <1>1, <1>2 DEF Order
  <2> QED BY <2>1, <2>2
<1> QED BY <1>7, <1>8, <1>9 DEF after

\* No step changes an order that is there but by cancelling it, by entering a
\* fill, or by a price if it waits; and only stops are made to wait.
Cancels(id) == store'[id] = MoveTo(store[id], "Cancelled")

Fills(id) == \E qty \in FillQuantities : store'[id] = ApplyFill(store[id], qty)

Follows(id) ==
  /\ store[id].status = "PendingTrigger"
  /\ \E price \in MarketPrices : store'[id] = AfterPrice(store[id], price)

LEMMA StepOrders ==
  ASSUME TypeOK, [Next]_vars
  PROVE  \/ /\ OrderId' = OrderId
            /\ \A id \in OrderId :
                 store'[id] = store[id] \/ Cancels(id) \/ Fills(id) \/ Follows(id)
         \/ \E order \in Order, event \in OrderEvent :
              /\ Save(order, event)
              /\ order.status = "PendingTrigger" => IsStopType(order.type)
<1> DEFINE Changes == /\ OrderId' = OrderId
                      /\ \A id \in OrderId :
                           store'[id] = store[id] \/ Cancels(id) \/ Fills(id) \/ Follows(id)
           Adds    == \E order \in Order, event \in OrderEvent :
                        /\ Save(order, event)
                        /\ order.status = "PendingTrigger" => IsStopType(order.type)
<1> SUFFICES Changes \/ Adds
  OBVIOUS
<1>1. ASSUME NEW req \in Requests,
             SubmitFok(req) \/ SubmitLimit(req) \/ SubmitMarket(req) \/ SubmitStop(req)
               \/ SubmitIoc(req)
      PROVE  Adds
  <2> DEFINE new      == NewOrder(req)
             accepted == MoveTo(new, "Accepted")
  <2>1. /\ new \in Order /\ new.status = "New" /\ new.type = req.type
        /\ {"Rejected", "Accepted", "PendingTrigger", "Cancelled"} \subseteq OrderStatus
        /\ {"FokRejected", "Accepted", "None", "IocResidualCancelled"} \subseteq OrderEvent
    BY ServiceAssumption, NewOrderType DEF OrderStatus, OrderEvent
  <2>2. \/ Save(MoveTo(new, "Rejected"), "FokRejected")
        \/ Save(accepted, "Accepted")
        \/ Save(MoveTo(new, "PendingTrigger"), "None") /\ IsStopType(req.type)
        \/ Save(MoveTo(accepted, "Cancelled"), "IocResidualCancelled")
    BY <1>1 DEF SubmitFok, SubmitLimit, SubmitMarket, SubmitStop, SubmitIoc, CancelResidual
  <2> HIDE DEF new
  <2>3. ASSUME NEW s \in {"Rejected", "Accepted", "PendingTrigger"}
        PROVE  MoveTo(new, s) \in Order /\ MoveTo(new, s).status = s /\ MoveTo(new, s).type = req.type
    <3>1. s \in OrderStatus /\ CanMove(new.status, s)
      BY <2>1 DEF CanMove
    <3> QED BY <2>1, <3>1, MoveToType, MoveToEffect
  <2>4. MoveTo(accepted, "Cancelled") \in Order /\ MoveTo(accepted, "Cancelled").status = "Cancelled"
    <3>1. accepted \in Order /\ accepted.status = "Accepted"
      BY <2>3
    <3> HIDE DEF accepted
    <3>2. CanMove(accepted.status, "Cancelled")
      BY <3>1 DEF CanMove
    <3> QED BY <2>1, <3>1, <3>2, MoveToType, MoveToEffect
  <2> QED BY <2>1, <2>2, <2>3, <2>4
<1>2. ASSUME NEW id \in OrderId, NEW order, store' = [store EXCEPT ![id] = order],
             order = MoveTo(store[id], "Cancelled")
               \/ \E qty \in FillQuantities : order = ApplyFill(store[id], qty)
      PROVE  Changes
  BY <1>2 DEF OrderId, Cancels, Fills
<1>3. ASSUME NEW id \in OrderId, CancelOrder(id) PROVE Changes
  BY <1>2, <1>3 DEF CancelOrder
<1>4. ASSUME NEW id \in OrderId, NEW qty \in FillQuantities,
             RefuseFill(id, qty) \/ EnterFill(id, qty)
      PROVE  Changes
  BY <1>2, <1>4 DEF RefuseFill, EnterFill
<1>5. ASSUME NEW i \in Instrument, NEW price \in MarketPrices, OnPriceUpdate(i, price)
      PROVE  Changes
  BY <1>5 DEF OnPriceUpdate, PendingTriggerOrdersFor, Follows, OrderId
<1>6. ASSUME store' = store PROVE Changes
  BY <1>6 DEF OrderId
<1>7. ASSUME NEW amount \in CashAmounts, Deposit(amount) \/ Withdraw(amount) PROVE Changes
  BY <1>6, <1>7 DEF Deposit, Withdraw
<1>8. ASSUME NEW known \in SUBSET Instrument, NEW marks \in [known -> MarketPrices],
             UpdatePositionsPnl(marks)
      PROVE  Changes
  BY <1>6, <1>8 DEF UpdatePositionsPnl
<1>9. CASE UNCHANGED vars
  BY <1>6, <1>9 DEF vars
<1>10. ASSUME NEW id \in OrderId, NEW qty \in FillQuantities, NEW price \in FillPrices,
              AbandonFill(id, qty, price) \/ SettleFill(id, qty, price)
       PROVE  Changes
  BY <1>4, <1>10 DEF AbandonFill, SettleFill
<1>11. CASE Next
  <2> HIDE DEF Changes, Adds
  <2> QED BY <1>1, <1>3, <1>4, <1>5, <1>7, <1>8, <1>10, <1>11, NextCases
<1> QED BY <1>9, <1>11

\* Only stops wait for a trigger.
PendingAreStops ==
  \A id \in OrderId : store[id].status = "PendingTrigger" => IsStopType(store[id].type)

\* An order that waits after a change waited before, as the stop it is.
LEMMA ChangedOrder ==
  ASSUME TypeOK, NEW id \in OrderId,
         store'[id] = store[id] \/ Cancels(id) \/ Fills(id) \/ Follows(id)
  PROVE  /\ store'[id].type = store[id].type
         /\ store'[id].status = "PendingTrigger" => store[id].status = "PendingTrigger"
         /\ \A best \in store[id].best : \E after \in store'[id].best :
              IF store[id].side = "Buy" THEN after <= best ELSE after >= best
<1>1. store[id] \in Order
  BY DEF TypeOK, OrderId
<1>2. \A best \in store[id].best : best \in Int
  BY <1>1 DEF Order, Option
<1>3. CASE store'[id] = store[id]
  BY <1>2, <1>3
<1>4. CASE Cancels(id)
  BY <1>1, <1>2, <1>4 DEF Cancels, MoveTo, Order
<1>5. ASSUME NEW qty \in FillQuantities, store'[id] = ApplyFill(store[id], qty)
      PROVE  /\ store'[id].type = store[id].type /\ store'[id].best = store[id].best
             /\ store'[id].status = "PendingTrigger" => store[id].status = "PendingTrigger"
  <2> DEFINE order   == store[id]
             counted == [order EXCEPT !.filled = @ + qty]
             to      == FillStatus(order, qty)
  <2>1. qty \in Int
    BY ServiceAssumption
  <2>2. counted \in Order /\ counted.type = order.type /\ counted.best = order.best
    BY <1>1, <2>1 DEF Order
  <2>3. ApplyFill(order, qty) \in {order, counted, [counted EXCEPT !.status = to]}
    BY DEF ApplyFill, MoveTo
  <2>4. to # "PendingTrigger" /\ counted.status = order.status
    BY <1>1 DEF FillStatus, Order
  <2> HIDE DEF order, counted, to
  <2>5. ApplyFill(order, qty).type = order.type /\ ApplyFill(order, qty).best = order.best
    BY <1>1, <2>2, <2>3 DEF Order
  <2>6. ApplyFill(order, qty).status \in {order.status, to}
    BY <1>1, <2>2, <2>3, <2>4 DEF Order
  <2> QED BY <1>5, <2>4, <2>5, <2>6 DEF order
<1>6. ASSUME NEW price \in MarketPrices, store[id].status = "PendingTrigger",
             store'[id] = AfterPrice(store[id], price)
      PROVE  /\ store'[id].type = store[id].type
             /\ \A best \in store[id].best : \E after \in store'[id].best :
                  IF store[id].side = "Buy" THEN after <= best ELSE after >= best
  <2>1. price \in Int
    BY ServiceAssumption
  <2> QED BY <1>1, <1>6, <2>1, AfterPriceType, AfterPriceEffect
<1>7. CASE Fills(id)
  BY <1>2, <1>5, <1>7 DEF Fills
<1>8. CASE Follows(id)
  BY <1>6, <1>8 DEF Follows
<1> QED BY <1>3, <1>4, <1>7, <1>8

\* A step keeps finished orders in their status and rejects none that is stored.
LEMMA StatusStays ==
  ASSUME TypeOK, [Next]_vars, NEW id \in OrderId
  PROVE  /\ id \in OrderId'
         /\ IsTerminal(store[id].status) => store'[id].status = store[id].status
         /\ store'[id].status = "Rejected" <=> store[id].status = "Rejected"
<1>1. store[id] \in Order /\ FillQuantities \subseteq Int /\ MarketPrices \subseteq Int
  BY ServiceAssumption DEF TypeOK, OrderId
<1>2. ASSUME store'[id] = store[id]
      PROVE  /\ IsTerminal(store[id].status) => store'[id].status = store[id].status
             /\ store'[id].status = "Rejected" <=> store[id].status = "Rejected"
  BY <1>2
<1>3. ASSUME Cancels(id)
      PROVE  /\ IsTerminal(store[id].status) => store'[id].status = store[id].status
             /\ store'[id].status = "Rejected" <=> store[id].status = "Rejected"
  <2> DEFINE order == store[id]
  <2>1. order \in Order /\ store'[id] = MoveTo(order, "Cancelled")
    BY <1>1, <1>3 DEF Cancels
  <2> HIDE DEF order
  <2>2. CASE CanMove(order.status, "Cancelled")
    <3>1. MoveTo(order, "Cancelled").status = "Cancelled"
      BY <2>1, <2>2, MoveToEffect DEF OrderStatus
    <3> QED BY <2>1, <2>2, <3>1 DEF CanMove, IsTerminal, order
  <2>3. CASE ~CanMove(order.status, "Cancelled")
    <3>1. MoveTo(order, "Cancelled") = order
      BY <2>3 DEF MoveTo
    <3> QED BY <2>1, <3>1 DEF order
  <2> QED BY <2>2, <2>3
<1>4. ASSUME Fills(id)
      PROVE  /\ IsTerminal(store[id].status) => store'[id].status = store[id].status
             /\ store'[id].status = "Rejected" <=> store[id].status = "Rejected"
  <2>1. PICK qty \in FillQuantities : store'[id] = ApplyFill(store[id], qty)
    BY <1>4 DEF Fills
  <2>2. FillStatus(store[id], qty) # "Rejected"
    BY DEF FillStatus
  <2> QED BY <1>1, <2>1, <2>2, ApplyFillEffect DEF IsTerminal
<1>5. ASSUME Follows(id)
      PROVE  /\ ~IsTerminal(store[id].status)
             /\ store'[id].status # "Rejected" /\ store[id].status # "Rejected"
  <2>1. PICK price \in MarketPrices : store'[id] = AfterPrice(store[id], price)
    BY <1>5 DEF Follows
  <2> QED BY <1>1, <1>5, <2>1, AfterPriceType DEF Follows, IsTerminal
<1>6. /\ id \in OrderId'
      /\ store'[id] = store[id] \/ Cancels(id) \/ Fills(id) \/ Follows(id)
  BY StepOrders, SaveType
<1> QED BY <1>2, <1>3, <1>4, <1>5, <1>6

\* The best price of a trailing stop only moves its way: the distance kept
\* grows with the market and never shrinks, and a price once seen is not lost.
THEOREM TrailingStopsRatchet == Spec => TrailingBestRatchets
<1> DEFINE Ratchet == \A id \in OrderId : \A best \in store[id].best :
                        \E after \in store'[id].best :
                          IF store[id].side = "Buy" THEN after <= best ELSE after >= best
<1>1. TypeOK /\ [Next]_vars => [Ratchet]_vars
  <2> SUFFICES ASSUME TypeOK, [Next]_vars PROVE Ratchet
    OBVIOUS
  <2>1. CASE /\ OrderId' = OrderId
             /\ \A id \in OrderId :
                  store'[id] = store[id] \/ Cancels(id) \/ Fills(id) \/ Follows(id)
    BY <2>1, ChangedOrder
  <2>2. CASE \E order \in Order, event \in OrderEvent : Save(order, event)
    <3>1. \A id \in OrderId : store'[id] = store[id] /\ store[id] \in Order
      BY <2>2, SaveType DEF TypeOK, OrderId
    <3> QED BY <3>1, ChangedOrder
  <2> QED BY <2>1, <2>2, StepOrders
<1>2. TrailingBestRatchets <=> [][Ratchet]_vars
  BY DEF TrailingBestRatchets
<1> HIDE DEF Ratchet
<1> QED BY <1>1, <1>2, TypeCorrect, PTL DEF Spec

LEMMA StepPending ==
  TypeOK /\ PendingAreStops /\ [Next]_vars => PendingAreStops'
<1> SUFFICES ASSUME TypeOK, PendingAreStops, [Next]_vars PROVE PendingAreStops'
  OBVIOUS
<1>1. CASE /\ OrderId' = OrderId
           /\ \A id \in OrderId :
                store'[id] = store[id] \/ Cancels(id) \/ Fills(id) \/ Follows(id)
  BY <1>1, ChangedOrder DEF PendingAreStops
<1>2. ASSUME NEW order \in Order, NEW event \in OrderEvent, Save(order, event),
             order.status = "PendingTrigger" => IsStopType(order.type)
      PROVE  PendingAreStops'
  <2>1. PICK next : /\ OrderId' = OrderId \cup {next} /\ store'[next] = order
                    /\ \A id \in OrderId : store'[id] = store[id]
    BY <1>2, SaveType
  <2> QED BY <1>2, <2>1 DEF PendingAreStops
<1> QED BY <1>1, <1>2, StepOrders

\* A price lets go exactly the stops of its instrument that it has reached: none
\* is left waiting behind the market and none goes early.
THEOREM StopsGoExactlyWhenReached == Spec => StopsGoWhenReached
<1> DEFINE Inv == TypeOK /\ PendingAreStops
           Go  == \A i \in Instrument, price \in MarketPrices :
                    OnPriceUpdate(i, price) =>
                      \A id \in PendingTriggerOrdersFor(i) :
                        store'[id].status =
                          IF PriceReaches(store'[id], price) THEN "Accepted"
                          ELSE "PendingTrigger"
<1>1. Init => Inv
  BY InitType, EmptySeq DEF Init, PendingAreStops, OrderId
<1>2. Inv /\ [Next]_vars => Inv'
  BY StepType, StepPending
<1>3. Inv => [Go]_vars
  <2> SUFFICES ASSUME Inv, NEW i \in Instrument, NEW price \in MarketPrices,
                      OnPriceUpdate(i, price), NEW id \in PendingTriggerOrdersFor(i)
               PROVE  store'[id].status =
                        IF PriceReaches(store'[id], price) THEN "Accepted"
                        ELSE "PendingTrigger"
    OBVIOUS
  <2>1. /\ id \in OrderId /\ store[id] \in Order /\ price \in Int
        /\ store[id].status = "PendingTrigger" /\ IsStopType(store[id].type)
    BY ServiceAssumption DEF PendingTriggerOrdersFor, PendingAreStops, TypeOK, OrderId
  <2>2. store'[id] = AfterPrice(store[id], price)
    BY <2>1 DEF OnPriceUpdate
  <2> QED BY <2>1, <2>2, AfterPriceEffect
<1>4. StopsGoWhenReached <=> [][Go]_vars
  BY DEF StopsGoWhenReached
<1> HIDE DEF Inv, Go
<1> QED BY <1>1, <1>2, <1>3, <1>4, PTL DEF Spec
=============================================================================
