---------------------------- MODULE BooksProofs -----------------------------
(***************************************************************************)
(* The books: what the trade history adds up to is what the orders, the    *)
(* positions, the balance and the running loss say, and the service        *)
(* implements the margin ledger.  For every value of the constants.        *)
(***************************************************************************)
EXTENDS StatusProofs

-----------------------------------------------------------------------------
(* What one more trade adds to each sum over the trade history.            *)

\* A function of the trades, and the same function of one trade more.
LEMMA SumGrows ==
  ASSUME TypeOK, NEW trade \in Trade, trades' = Append(trades, trade),
         NEW f \in [DOMAIN trades -> Int], NEW g \in [DOMAIN trades' -> Int],
         \A n \in DOMAIN trades : g[n] = f[n]
  PROVE  /\ SumUpTo(f, Len(trades)) \in Int
         /\ SumUpTo(g, Len(trades')) = SumUpTo(f, Len(trades)) + g[Len(trades')]
<1> DEFINE n == Len(trades)
<1>1. /\ n \in Nat /\ DOMAIN trades = 1..n
      /\ Len(trades') = n + 1 /\ DOMAIN trades' = 1..n + 1
  BY DEF TypeOK
<1>2. f \in [1..n -> Int] /\ g \in [1..n + 1 -> Int] /\ \A k \in 1..n : g[k] = f[k]
  BY <1>1
<1> HIDE DEF n
<1>3. SumUpTo(g, n + 1) = SumUpTo(f, n) + g[n + 1]
  BY <1>1, <1>2, SumExtends
<1>4. SumUpTo(f, n) \in Int
  BY <1>1, <1>2, SumIsInt
<1> QED BY <1>1, <1>3, <1>4 DEF n

LEMMA TradeFields ==
  ASSUME TypeOK, NEW trade \in Trade, trades' = Append(trades, trade)
  PROVE  /\ \A n \in DOMAIN trades : trades[n] \in Trade /\ trades'[n] = trades[n]
         /\ \A n \in DOMAIN trades' : trades'[n] \in Trade
         /\ DOMAIN trades \subseteq DOMAIN trades'
         /\ Len(trades') \in DOMAIN trades' /\ trades'[Len(trades')] = trade
<1>1. /\ trades \in Seq(Trade) /\ trades' \in Seq(Trade)
      /\ Len(trades) \in Nat /\ Len(trades') = Len(trades) + 1
  BY DEF TypeOK
<1> QED BY <1>1

\* The quantity traded of an order, the net quantity traded of an instrument,
\* what the trades realized and what they lost.
LEMMA TradeAdds ==
  ASSUME TypeOK, NEW trade \in Trade, trades' = Append(trades, trade)
  PROVE  /\ \A id \in Nat :
              /\ TradedOf(id) \in Int
              /\ TradedOf(id)' = TradedOf(id) + IF trade.order = id THEN trade.quantity ELSE 0
         /\ \A i \in Instrument :
              /\ NetTraded(i) \in Int
              /\ NetTraded(i)' = NetTraded(i) + IF trade.instrument = i
                                                THEN Signed(trade.side, trade.quantity) ELSE 0
         /\ RealizedInTrades \in Int
         /\ RealizedInTrades' = RealizedInTrades + trade.pnl
         /\ LostInTrades \in Int
         /\ LostInTrades' = LostInTrades + IF trade.pnl < 0 THEN trade.pnl ELSE 0
<1>1. ASSUME NEW id \in Nat
      PROVE  /\ TradedOf(id) \in Int
             /\ TradedOf(id)' = TradedOf(id) + IF trade.order = id THEN trade.quantity ELSE 0
  <2> DEFINE f == [n \in DOMAIN trades |-> IF trades[n].order = id THEN trades[n].quantity ELSE 0]
             g == [n \in DOMAIN trades' |-> IF trades'[n].order = id THEN trades'[n].quantity ELSE 0]
  <2>1. f \in [DOMAIN trades -> Int] /\ g \in [DOMAIN trades' -> Int]
    BY TradeFields DEF Trade
  <2>2. /\ \A n \in DOMAIN trades : g[n] = f[n]
        /\ g[Len(trades')] = IF trade.order = id THEN trade.quantity ELSE 0
    BY TradeFields
  <2>3. TradedOf(id) = SumUpTo(f, Len(trades)) /\ TradedOf(id)' = SumUpTo(g, Len(trades'))
    BY DEF TradedOf, SumOverTrades
  <2> HIDE DEF f, g
  <2> QED BY <2>1, <2>2, <2>3, SumGrows
<1>2. ASSUME NEW i \in Instrument
      PROVE  /\ NetTraded(i) \in Int
             /\ NetTraded(i)' = NetTraded(i) + IF trade.instrument = i
                                               THEN Signed(trade.side, trade.quantity) ELSE 0
  <2> DEFINE f == [n \in DOMAIN trades |->
                     IF trades[n].instrument = i
                     THEN Signed(trades[n].side, trades[n].quantity) ELSE 0]
             g == [n \in DOMAIN trades' |->
                     IF trades'[n].instrument = i
                     THEN Signed(trades'[n].side, trades'[n].quantity) ELSE 0]
  <2>0. \A old \in Trade : Signed(old.side, old.quantity) \in Int
    BY DEF Trade, Signed
  <2>1. f \in [DOMAIN trades -> Int] /\ g \in [DOMAIN trades' -> Int]
    BY <2>0, TradeFields
  <2>2. /\ \A n \in DOMAIN trades : g[n] = f[n]
        /\ g[Len(trades')] = IF trade.instrument = i
                             THEN Signed(trade.side, trade.quantity) ELSE 0
    BY TradeFields
  <2>3. NetTraded(i) = SumUpTo(f, Len(trades)) /\ NetTraded(i)' = SumUpTo(g, Len(trades'))
    BY DEF NetTraded, SumOverTrades
  <2> HIDE DEF f, g
  <2> QED BY <2>1, <2>2, <2>3, SumGrows
<1>3. RealizedInTrades \in Int /\ RealizedInTrades' = RealizedInTrades + trade.pnl
  <2> DEFINE f == [n \in DOMAIN trades |-> trades[n].pnl]
             g == [n \in DOMAIN trades' |-> trades'[n].pnl]
  <2>1. f \in [DOMAIN trades -> Int] /\ g \in [DOMAIN trades' -> Int]
    BY TradeFields DEF Trade
  <2>2. (\A n \in DOMAIN trades : g[n] = f[n]) /\ g[Len(trades')] = trade.pnl
    BY TradeFields
  <2>3. RealizedInTrades = SumUpTo(f, Len(trades)) /\ RealizedInTrades' = SumUpTo(g, Len(trades'))
    BY DEF RealizedInTrades, SumOverTrades
  <2> HIDE DEF f, g
  <2> QED BY <2>1, <2>2, <2>3, SumGrows
<1>4. /\ LostInTrades \in Int
      /\ LostInTrades' = LostInTrades + IF trade.pnl < 0 THEN trade.pnl ELSE 0
  <2> DEFINE f == [n \in DOMAIN trades |-> IF trades[n].pnl < 0 THEN trades[n].pnl ELSE 0]
             g == [n \in DOMAIN trades' |-> IF trades'[n].pnl < 0 THEN trades'[n].pnl ELSE 0]
  <2>1. f \in [DOMAIN trades -> Int] /\ g \in [DOMAIN trades' -> Int]
    BY TradeFields DEF Trade
  <2>2. /\ \A n \in DOMAIN trades : g[n] = f[n]
        /\ g[Len(trades')] = IF trade.pnl < 0 THEN trade.pnl ELSE 0
    BY TradeFields
  <2>3. LostInTrades = SumUpTo(f, Len(trades)) /\ LostInTrades' = SumUpTo(g, Len(trades'))
    BY DEF LostInTrades, SumOverTrades
  <2> HIDE DEF f, g
  <2> QED BY <2>1, <2>2, <2>3, SumGrows
<1> QED BY <1>1, <1>2, <1>3, <1>4

\* Without trades all sums are 0.
LEMMA NoTradesAddUp ==
  ASSUME trades = <<>>
  PROVE  /\ \A id \in Nat : TradedOf(id) = 0
         /\ \A i \in Instrument : NetTraded(i) = 0
         /\ RealizedInTrades = 0 /\ LostInTrades = 0
<1>1. Len(trades) = 0 /\ DOMAIN trades = 1..0 /\ \A n \in 1..0 : FALSE
  BY EmptySeq
<1>2. ASSUME NEW f, f = [n \in DOMAIN trades |-> f[n]]
      PROVE  SumUpTo(f, Len(trades)) = 0
  <2>1. f \in [1..0 -> Int]
    BY <1>1, <1>2
  <2> QED BY <1>1, <2>1, SumOfNone
<1>3. ASSUME NEW id \in Nat PROVE TradedOf(id) = 0
  <2> DEFINE f == [n \in DOMAIN trades |-> IF trades[n].order = id THEN trades[n].quantity ELSE 0]
  <2>1. f = [n \in DOMAIN trades |-> f[n]] /\ TradedOf(id) = SumUpTo(f, Len(trades))
    BY DEF TradedOf, SumOverTrades
  <2> HIDE DEF f
  <2> QED BY <1>2, <2>1
<1>4. ASSUME NEW i \in Instrument PROVE NetTraded(i) = 0
  <2> DEFINE f == [n \in DOMAIN trades |->
                     IF trades[n].instrument = i
                     THEN Signed(trades[n].side, trades[n].quantity) ELSE 0]
  <2>1. f = [n \in DOMAIN trades |-> f[n]] /\ NetTraded(i) = SumUpTo(f, Len(trades))
    BY DEF NetTraded, SumOverTrades
  <2> HIDE DEF f
  <2> QED BY <1>2, <2>1
<1>5. RealizedInTrades = 0
  <2> DEFINE f == [n \in DOMAIN trades |-> trades[n].pnl]
  <2>1. f = [n \in DOMAIN trades |-> f[n]] /\ RealizedInTrades = SumUpTo(f, Len(trades))
    BY DEF RealizedInTrades, SumOverTrades
  <2> HIDE DEF f
  <2> QED BY <1>2, <2>1
<1>6. LostInTrades = 0
  <2> DEFINE f == [n \in DOMAIN trades |-> IF trades[n].pnl < 0 THEN trades[n].pnl ELSE 0]
  <2>1. f = [n \in DOMAIN trades |-> f[n]] /\ LostInTrades = SumUpTo(f, Len(trades))
    BY DEF LostInTrades, SumOverTrades
  <2> HIDE DEF f
  <2> QED BY <1>2, <2>1
<1> QED BY <1>3, <1>4, <1>5, <1>6

-----------------------------------------------------------------------------
(* What the calls do to one order, and to one position.                    *)

\* Nothing filled is negative or more than was ordered, and a filled order is
\* filled whole.
Sound(order) ==
  /\ 0 <= order.filled /\ order.filled <= order.quantity
  /\ order.status = "Filled" => order.filled = order.quantity

\* A fill is counted or not; an order that could take fills counts only those
\* it takes.
LEMMA FillCounts ==
  ASSUME NEW order \in Order, NEW qty \in Nat \ {0}, Sound(order)
  PROVE  /\ Sound(ApplyFill(order, qty))
         /\ ApplyFill(order, qty).filled >= order.filled
         /\ TakesFill(order, qty) => ApplyFill(order, qty).filled = order.filled + qty
         /\ ~TakesFill(order, qty) /\ order.status \in {"Accepted", "PartiallyFilled", "Filled"}
              => ApplyFill(order, qty) = order
<1> DEFINE counted == [order EXCEPT !.filled = @ + qty]
           to      == FillStatus(order, qty)
<1>1. order.filled \in Int /\ order.quantity \in Int
  BY DEF Order
<1>2. /\ counted.filled = order.filled + qty /\ counted.quantity = order.quantity
      /\ counted.status = order.status /\ counted \in Order
  BY <1>1 DEF Order
<1>3. /\ to \in {"Filled", "PartiallyFilled"}
      /\ to = "Filled" <=> order.filled + qty = order.quantity
  BY DEF FillStatus
<1>4. ApplyFill(order, qty) = IF OverFills(order, qty) THEN order ELSE MoveTo(counted, to)
  BY DEF ApplyFill
<1>5. TakesFill(order, qty) <=> ~OverFills(order, qty) /\ CanMove(order.status, to)
  BY DEF TakesFill
<1>6. OverFills(order, qty) <=> order.filled + qty > order.quantity
  BY DEF OverFills
<1> HIDE DEF counted, to
<1>7. CASE OverFills(order, qty)
  BY <1>1, <1>4, <1>5, <1>7
<1>8. CASE ~OverFills(order, qty) /\ CanMove(order.status, to)
  <2>1. ApplyFill(order, qty) = [counted EXCEPT !.status = to]
    BY <1>2, <1>4, <1>8 DEF MoveTo
  <2>2. /\ ApplyFill(order, qty).filled = order.filled + qty
        /\ ApplyFill(order, qty).quantity = order.quantity
        /\ ApplyFill(order, qty).status = to
    BY <1>2, <2>1 DEF Order
  <2> QED BY <1>1, <1>3, <1>5, <1>6, <1>8, <2>2 DEF Sound
<1>9. CASE ~OverFills(order, qty) /\ ~CanMove(order.status, to)
  <2>1. ApplyFill(order, qty) = counted
    BY <1>2, <1>4, <1>9 DEF MoveTo
  <2>2. order.status \notin {"Accepted", "PartiallyFilled"}
    BY <1>3, <1>9 DEF CanMove
  <2>3. order.status # "Filled"
    BY <1>1, <1>6, <1>9 DEF Sound
  <2> QED BY <1>1, <1>2, <1>5, <1>6, <1>9, <2>1, <2>2, <2>3 DEF Sound
<1> QED BY <1>7, <1>8, <1>9

\* A move or a price leaves what was filled alone.
LEMMA MovesFillNothing ==
  ASSUME NEW order \in Order
  PROVE  /\ \A status \in OrderStatus : MoveTo(order, status).filled = order.filled
         /\ \A price \in Int : AfterPrice(order, price).filled = order.filled
         /\ \A price \in Int :
              AfterPrice(order, price).status = order.status
                \/ (AfterPrice(order, price).status = "Accepted" /\ IsStopType(order.type))
<1>1. \A status \in OrderStatus : MoveTo(order, status).filled = order.filled
  BY DEF MoveTo, Order
<1>2. ASSUME NEW price \in Int
      PROVE  /\ AfterPrice(order, price).filled = order.filled
             /\ \/ AfterPrice(order, price).status = order.status
                \/ AfterPrice(order, price).status = "Accepted" /\ IsStopType(order.type)
  <2> DEFINE followed == UpdateTrailingBest(order, price)
  <2>1. /\ followed \in Order /\ followed.type = order.type
        /\ followed.status = order.status
    BY UpdateTrailingBestType
  <2>2. followed.filled = order.filled
    BY DEF UpdateTrailingBest, Order
  <2>3. AfterPrice(order, price) = CheckTrigger(followed, price)
    BY DEF AfterPrice
  <2> HIDE DEF followed
  <2>4. \/ AfterPrice(order, price) = followed
        \/ /\ AfterPrice(order, price) = [followed EXCEPT !.status = "Accepted"]
           /\ IsStopType(followed.type)
    BY <2>3 DEF CheckTrigger, MoveTo, Triggers
  <2> QED BY <2>1, <2>2, <2>4 DEF Order
<1> QED BY <1>1, <1>2

\* What a book of positions holds of an instrument, short positions negative.
NetHeld(book, i) ==
  IF i \in DOMAIN book THEN Signed(book[i].side, book[i].quantity) ELSE 0

\* A fill changes what is held of its instrument by what is filled, whichever
\* way it is netted, and nothing else.
LEMMA FillNets ==
  ASSUME NEW book, DOMAIN book \subseteq Instrument, book \in [DOMAIN book -> Position],
         NEW i \in Instrument, NEW side \in Side,
         NEW qty \in Nat \ {0}, NEW price \in Int,
         \A j \in DOMAIN book : book[j].quantity > 0
  PROVE  LET after == NetFill(book, i, side, qty, price)
         IN  /\ NetHeld(after, i) = NetHeld(book, i) + Signed(side, qty)
             /\ \A j \in Instrument \ {i} : NetHeld(after, j) = NetHeld(book, j)
             /\ \A j \in DOMAIN after : after[j].quantity > 0
<1> DEFINE after == NetFill(book, i, side, qty, price)
           Nets  == /\ NetHeld(after, i) = NetHeld(book, i) + Signed(side, qty)
                    /\ \A j \in Instrument \ {i} : NetHeld(after, j) = NetHeld(book, j)
                    /\ \A j \in DOMAIN after : after[j].quantity > 0
<1> SUFFICES Nets
  OBVIOUS
<1>1. CASE i \notin DOMAIN book
  <2>1. after = Insert(book, i, NewPosition(side, qty, price))
    BY <1>1 DEF NetFill
  <2> HIDE DEF after
  <2>2. /\ DOMAIN after = DOMAIN book \cup {i}
        /\ after[i] = NewPosition(side, qty, price)
        /\ \A j \in DOMAIN book : after[j] = book[j]
    BY <1>1, <2>1 DEF Insert
  <2>3. after[i].side = side /\ after[i].quantity = qty
    BY <2>2 DEF NewPosition
  <2>4. Signed(side, qty) \in Int
    BY DEF Signed
  <2> QED BY <1>1, <2>2, <2>3, <2>4 DEF NetHeld
<1>2. CASE i \in DOMAIN book
  <2> DEFINE pos  == book[i]
             rest == Reduce(pos, qty)
  <2>1. /\ pos \in Position /\ pos.quantity \in Nat \ {0} /\ pos.side \in {"Buy", "Sell"}
        /\ side \in {"Buy", "Sell"}
    BY <1>2 DEF Position, Side
  <2>2. /\ Add(pos, qty, price).side = pos.side
        /\ Add(pos, qty, price).quantity = pos.quantity + qty
    BY <2>1 DEF Add, Position
  <2>3. /\ rest.side = pos.side
        /\ rest.quantity = IF qty < pos.quantity THEN pos.quantity - qty ELSE 0
    BY <2>1 DEF Reduce, CloseQuantity, Position
  <2> HIDE DEF pos, rest
  <2>4. after = IF pos.side = side THEN [book EXCEPT ![i] = Add(pos, qty, price)]
                ELSE IF rest.quantity # 0 THEN [book EXCEPT ![i] = rest]
                ELSE IF qty > pos.quantity
                     THEN [book EXCEPT ![i] = NewPosition(side, qty - pos.quantity, price)]
                ELSE Remove(book, i)
    BY <1>2 DEF NetFill, pos, rest
  <2>5. /\ NewPosition(side, qty - pos.quantity, price).side = side
        /\ NewPosition(side, qty - pos.quantity, price).quantity = qty - pos.quantity
    BY DEF NewPosition
  <2>6. NetHeld(book, i) = Signed(pos.side, pos.quantity)
    BY <1>2 DEF NetHeld, pos
  <2> HIDE DEF after
  <2>7. ASSUME NEW new, after = [book EXCEPT ![i] = new], new.quantity > 0,
               Signed(new.side, new.quantity) = NetHeld(book, i) + Signed(side, qty)
        PROVE  Nets
    BY <1>2, <2>7 DEF NetHeld
  <2> HIDE DEF Nets
  <2>8. CASE pos.side = side
    <3>1. Signed(pos.side, pos.quantity + qty) = Signed(pos.side, pos.quantity) + Signed(side, qty)
      BY <2>1, <2>8 DEF Signed
    <3> DEFINE new == Add(pos, qty, price)
    <3>2. after = [book EXCEPT ![i] = new]
      BY <2>4, <2>8
    <3>3. new.quantity > 0 /\ Signed(new.side, new.quantity) = NetHeld(book, i) + Signed(side, qty)
      BY <2>1, <2>2, <2>6, <3>1
    <3> HIDE DEF new
    <3> QED BY <2>7, <3>2, <3>3
  <2>9. CASE pos.side # side /\ qty < pos.quantity
    <3>1. Signed(pos.side, pos.quantity - qty) = Signed(pos.side, pos.quantity) + Signed(side, qty)
      BY <2>1, <2>9 DEF Signed
    <3> QED BY <2>1, <2>3, <2>4, <2>6, <2>7, <2>9, <3>1
  <2>10. CASE pos.side # side /\ qty > pos.quantity
    <3>1. Signed(side, qty - pos.quantity) = Signed(pos.side, pos.quantity) + Signed(side, qty)
      BY <2>1, <2>10 DEF Signed
    <3> DEFINE new == NewPosition(side, qty - pos.quantity, price)
    <3>2. after = [book EXCEPT ![i] = new]
      BY <2>1, <2>3, <2>4, <2>10
    <3>3. new.quantity > 0 /\ Signed(new.side, new.quantity) = NetHeld(book, i) + Signed(side, qty)
      BY <2>1, <2>5, <2>6, <2>10, <3>1
    <3> HIDE DEF new
    <3> QED BY <2>7, <3>2, <3>3
  <2>11. CASE pos.side # side /\ qty = pos.quantity
    <3>1. after = Remove(book, i)
      BY <2>1, <2>3, <2>4, <2>11
    <3>2. /\ DOMAIN after = DOMAIN book \ {i}
          /\ \A j \in DOMAIN book \ {i} : after[j] = book[j]
      BY <3>1 DEF Remove, Restrict
    <3>3. Signed(pos.side, pos.quantity) + Signed(side, qty) = 0
      BY <2>1, <2>11 DEF Signed
    <3> QED BY <2>6, <3>2, <3>3 DEF NetHeld, Nets
  <2> QED BY <2>1, <2>8, <2>9, <2>10, <2>11
<1> QED BY <1>1, <1>2

-----------------------------------------------------------------------------
(* The inductive invariant.                                                *)

\* Every order is sound and traded no more than it says is filled; nothing is
\* traded of orders that are still to come.
TradesFit ==
  /\ \A id \in OrderId : Sound(store[id]) /\ TradedOf(id) <= store[id].filled
  /\ \A id \in Nat \ OrderId : TradedOf(id) = 0

\* FilledLimitsAreTraded, of limit orders that rest untouched too.
LimitsAreTraded ==
  ~LossLimitHit(cumulativeLoss) =>
    \A id \in OrderId :
      /\ store[id].type.kind = "Limit"
      /\ store[id].status \in {"Accepted", "PartiallyFilled", "Filled"}
      => TradedOf(id) = store[id].filled

BooksInv ==
  /\ MarginInv
  /\ TradesFit
  /\ LimitsAreTraded
  /\ PositionsNetTrades
  /\ BalanceReconciles
  /\ LossMatchesTrades
\* What an order is not filled or traded by leaves of it.
Untouched(id) ==
  /\ store'[id].type = store[id].type
  /\ store'[id].filled = store[id].filled
  /\ store'[id].quantity = store[id].quantity
  /\ \/ store'[id].status \in {store[id].status, "Cancelled"}
     \/ store'[id].status = "Accepted" /\ store[id].type.kind # "Limit"

\* A new order is for something, and nothing of it is filled.
Adds ==
  \E order \in Order, event \in OrderEvent :
    /\ Save(order, event)
    /\ order.filled = 0 /\ order.quantity > 0
    /\ order.status # "Filled"

Leaves == OrderId' = OrderId /\ \A id \in OrderId : Untouched(id)

\* A fill is counted and no more: by an order that refuses it, or by one of
\* those that are checked for margin.
Counts ==
  \E id \in OrderId, qty \in FillQuantities :
    /\ store' = [store EXCEPT ![id] = ApplyFill(store[id], qty)]
    /\ store[id].type.kind = "Limit" => ~TakesFill(store[id], qty)

\* A step that is none of the books' business: no trade, no loss, no profit,
\* and the same positions.
Quiet ==
  /\ trades' = trades /\ cumulativeLoss' = cumulativeLoss
  /\ account'.balance - netCash' = account.balance - netCash
  /\ DOMAIN positions' = DOMAIN positions
  /\ \A i \in DOMAIN positions :
       /\ positions'[i].side = positions[i].side
       /\ positions'[i].quantity = positions[i].quantity

LEMMA SubmitAdds ==
  ASSUME TypeOK, NEW req \in Requests,
         SubmitFok(req) \/ SubmitLimit(req) \/ SubmitMarket(req) \/ SubmitStop(req)
           \/ SubmitIoc(req)
  PROVE  Adds
<1> DEFINE new      == NewOrder(req)
           accepted == MoveTo(new, "Accepted")
<1>1. /\ new \in Order /\ new.status = "New"
      /\ new.filled = 0 /\ new.quantity = req.quantity
  BY ServiceAssumption, NewOrderType DEF NewOrder
<1>2. req.quantity > 0
  BY DEF SubmitFok, SubmitLimit, SubmitMarket, SubmitStop, SubmitIoc, Admits, WithinLimits,
         ValidateOrder
<1>3. \/ Save(MoveTo(new, "Rejected"), "FokRejected")
      \/ Save(accepted, "Accepted")
      \/ Save(MoveTo(new, "PendingTrigger"), "None")
      \/ Save(MoveTo(accepted, "Cancelled"), "IocResidualCancelled")
  BY DEF SubmitFok, SubmitLimit, SubmitMarket, SubmitStop, SubmitIoc, CancelResidual
<1> HIDE DEF new
<1>4. ASSUME NEW s \in {"Rejected", "Accepted", "PendingTrigger"}
      PROVE  /\ MoveTo(new, s) \in Order /\ MoveTo(new, s).status = s
             /\ MoveTo(new, s).filled = 0 /\ MoveTo(new, s).quantity > 0
  <2>1. s \in OrderStatus /\ CanMove(new.status, s)
    BY <1>1 DEF OrderStatus, CanMove
  <2> QED BY <1>1, <1>2, <2>1, MoveToType, MoveToEffect, MovesFillNothing
<1>5. /\ MoveTo(accepted, "Cancelled") \in Order
      /\ MoveTo(accepted, "Cancelled").status = "Cancelled"
      /\ MoveTo(accepted, "Cancelled").filled = 0 /\ MoveTo(accepted, "Cancelled").quantity > 0
  <2>1. /\ accepted \in Order /\ accepted.status = "Accepted"
        /\ accepted.filled = 0 /\ accepted.quantity > 0
    BY <1>4
  <2> HIDE DEF accepted
  <2>2. "Cancelled" \in OrderStatus /\ CanMove(accepted.status, "Cancelled")
    BY <2>1 DEF OrderStatus, CanMove
  <2> QED BY <2>1, <2>2, MoveToType, MoveToEffect, MovesFillNothing
<1>6. {"FokRejected", "Accepted", "None", "IocResidualCancelled"} \subseteq OrderEvent
  BY DEF OrderEvent
<1> QED BY <1>3, <1>4, <1>5, <1>6 DEF Adds

LEMMA SubmitQuiet ==
  ASSUME TypeOK, NEW req \in Requests,
         SubmitFok(req) \/ SubmitLimit(req) \/ SubmitMarket(req) \/ SubmitStop(req)
           \/ SubmitIoc(req)
  PROVE  Quiet
<1>1. UNCHANGED <<positions, cumulativeLoss, trades, netCash>>
  BY DEF SubmitFok, SubmitLimit, SubmitMarket, SubmitStop, SubmitIoc
<1>2. ASSUME NEW acct \in Account, NEW margin \in Int
      PROVE  /\ LockMargin(acct, margin).balance = acct.balance
             /\ UnlockMargin(acct, margin).balance = acct.balance
  BY DEF LockMargin, UnlockMargin, Account
<1>3. req.type.kind = "Limit" => MarginOf(req) \in Int
  BY ServiceAssumption, MarginOfRequestType
<1>4. account'.balance = account.balance
  <2>1. account \in Account
    BY DEF TypeOK
  <2>2. CASE SubmitLimit(req) \/ (SubmitIoc(req) /\ req.type.kind = "Limit")
    <3> DEFINE margin == MarginOf(req)
    <3>1. margin \in Int
      BY <1>3, <2>2 DEF SubmitLimit
    <3>2. account' \in {LockMargin(account, margin),
                        UnlockMargin(LockMargin(account, margin), margin)}
      BY <2>2 DEF SubmitLimit, SubmitIoc
    <3>3. LockMargin(account, margin) \in Account
      BY <2>1, <3>1, AccountMethodsType
    <3> HIDE DEF margin
    <3> QED BY <1>2, <2>1, <3>1, <3>2, <3>3
  <2>3. CASE ~(SubmitLimit(req) \/ (SubmitIoc(req) /\ req.type.kind = "Limit"))
    BY <2>3 DEF SubmitFok, SubmitMarket, SubmitStop, SubmitIoc
  <2> QED BY <2>2, <2>3
<1> QED BY <1>1, <1>4 DEF Quiet

LEMMA CancelLeaves ==
  ASSUME TypeOK, NEW id \in OrderId, CancelOrder(id)
  PROVE  Leaves /\ Quiet
<1> DEFINE cancelled == MoveTo(store[id], "Cancelled")
<1>1. store[id] \in Order /\ account \in Account
  BY DEF TypeOK, OrderId
<1>2. "Cancelled" \in OrderStatus /\ CanMove(store[id].status, "Cancelled")
  BY DEF OrderStatus, CancelOrder
<1>3. /\ cancelled.status = "Cancelled" /\ cancelled.type = store[id].type
      /\ cancelled.quantity = store[id].quantity /\ cancelled.filled = store[id].filled
  BY <1>1, <1>2, MoveToEffect, MovesFillNothing
<1>4. store' = [store EXCEPT ![id] = cancelled]
  BY DEF CancelOrder
<1> HIDE DEF cancelled
<1>5. Leaves
  BY <1>3, <1>4 DEF Leaves, Untouched, OrderId
<1>6. account'.balance = account.balance
  BY <1>1 DEF CancelOrder, Released, UnlockMargin, Account
<1> QED BY <1>5, <1>6 DEF Quiet, CancelOrder

\* No lock is refused its release, so only orders that are checked for margin
\* are abandoned once their fill is counted.
LEMMA AbandonCounts ==
  ASSUME MarginInv, NEW id \in OrderId, NEW qty \in FillQuantities, NEW price \in FillPrices,
         AbandonFill(id, qty, price)
  PROVE  Counts /\ Quiet
<1>1. ~ReleaseFails(id)
  BY LocksBounded DEF ReleaseFails
<1>2. Quiet
  BY DEF Quiet, AbandonFill
<1>3. store[id].type.kind = "Limit" => ~TakesFill(store[id], qty)
  BY <1>1 DEF AbandonFill, MarginRefused, IsMarketOrder
<1>4. store' = [store EXCEPT ![id] = ApplyFill(store[id], qty)]
  BY DEF AbandonFill, EnterFill
<1> QED BY <1>2, <1>3, <1>4 DEF Counts

LEMMA FeedLeaves ==
  ASSUME TypeOK,
         \/ \E known \in SUBSET Instrument : \E marks \in [known -> MarketPrices] :
              UpdatePositionsPnl(marks)
         \/ \E i \in Instrument, price \in MarketPrices : OnPriceUpdate(i, price)
  PROVE  Leaves /\ Quiet
<1>1. ASSUME NEW known \in SUBSET Instrument, NEW marks \in [known -> MarketPrices],
             UpdatePositionsPnl(marks)
      PROVE  Leaves /\ Quiet
  <2>1. ASSUME NEW i \in DOMAIN positions
        PROVE  /\ positions'[i].side = positions[i].side
               /\ positions'[i].quantity = positions[i].quantity
    <3>1. positions[i] \in Position
      BY DEF TypeOK
    <3>2. positions'[i] \in {UpdateUnrealized(positions[i], marks[i]), positions[i]}
      BY <1>1 DEF UpdatePositionsPnl
    <3> QED BY <3>1, <3>2 DEF UpdateUnrealized, Position
  <2> QED BY <1>1, <2>1 DEF UpdatePositionsPnl, Leaves, Untouched, Quiet, OrderId
<1>2. ASSUME NEW i \in Instrument, NEW price \in MarketPrices, OnPriceUpdate(i, price)
      PROVE  Leaves /\ Quiet
  <2>1. ASSUME NEW id \in OrderId PROVE Untouched(id)
    <3>1. store[id] \in Order /\ price \in Int
      BY ServiceAssumption DEF TypeOK, OrderId
    <3>2. CASE id \notin PendingTriggerOrdersFor(i)
      BY <1>2, <3>2 DEF OnPriceUpdate, Untouched
    <3>3. CASE id \in PendingTriggerOrdersFor(i)
      <4> DEFINE after == AfterPrice(store[id], price)
      <4>1. store[id].status = "PendingTrigger" /\ store'[id] = after
        BY <1>2, <3>3 DEF OnPriceUpdate, PendingTriggerOrdersFor
      <4>2. after.type = store[id].type /\ after.quantity = store[id].quantity
        BY <3>1, <4>1, AfterPriceType
      <4>3. /\ after.filled = store[id].filled
            /\ \/ after.status = store[id].status
               \/ after.status = "Accepted" /\ IsStopType(store[id].type)
        BY <3>1, MovesFillNothing
      <4> HIDE DEF after
      <4> QED BY <4>1, <4>2, <4>3 DEF Untouched, IsStopType
    <3> QED BY <3>2, <3>3
  <2> QED BY <1>2, <2>1 DEF OnPriceUpdate, Leaves, Quiet, OrderId
<1> QED BY <1>1, <1>2

\* Every step that does not settle a fill is quiet, and adds an order, leaves
\* the orders or counts a fill.
LEMMA StepQuietOrSettles ==
  ASSUME MarginInv, [Next]_vars
  PROVE  \/ Quiet /\ (Leaves \/ Counts \/ Adds)
         \/ \E id \in OrderId, qty \in FillQuantities, price \in FillPrices :
              SettleFill(id, qty, price)
<1>t. TypeOK
  BY DEF MarginInv
<1>1. ASSUME NEW amount \in CashAmounts, Deposit(amount) \/ Withdraw(amount)
      PROVE  Leaves /\ Quiet
  <2>1. amount \in Int /\ account \in Account /\ account.balance \in Int /\ netCash \in Int
    BY <1>t, ServiceAssumption DEF TypeOK, Account
  <2>2. account'.balance - netCash' = account.balance - netCash
    <3>1. \/ account'.balance = account.balance + amount /\ netCash' = netCash + amount
          \/ account'.balance = account.balance - amount /\ netCash' = netCash - amount
      BY <1>1, <2>1 DEF Deposit, Withdraw, DepositTo, WithdrawFrom, Account
    <3> QED BY <2>1, <3>1
  <2>3. Leaves
    BY <1>1 DEF Deposit, Withdraw, Leaves, Untouched, OrderId
  <2> QED BY <1>1, <2>2, <2>3 DEF Deposit, Withdraw, Quiet
<1>2. CASE UNCHANGED vars
  BY <1>2 DEF vars, Quiet, Leaves, Untouched, OrderId
<1>3. ASSUME NEW req \in Requests,
             SubmitFok(req) \/ SubmitLimit(req) \/ SubmitMarket(req) \/ SubmitStop(req)
               \/ SubmitIoc(req)
      PROVE  Adds /\ Quiet
  BY <1>t, <1>3, SubmitAdds, SubmitQuiet
<1>4. ASSUME NEW id \in OrderId, CancelOrder(id) PROVE Leaves /\ Quiet
  BY <1>t, <1>4, CancelLeaves
<1>5. ASSUME NEW id \in OrderId, NEW qty \in FillQuantities,
             \/ RefuseFill(id, qty)
             \/ \E price \in FillPrices : AbandonFill(id, qty, price)
      PROVE  Counts /\ Quiet
  <2>1. CASE RefuseFill(id, qty)
    BY <2>1 DEF Counts, Quiet, RefuseFill
  <2>2. CASE \E price \in FillPrices : AbandonFill(id, qty, price)
    BY <2>2, AbandonCounts
  <2> QED BY <1>5, <2>1, <2>2
<1>6. CASE Next
  BY <1>t, <1>1, <1>3, <1>4, <1>5, <1>6, FeedLeaves, NextCases
<1> QED BY <1>2, <1>6

-----------------------------------------------------------------------------
(* Steps that are none of the books' business.                             *)

LEMMA SumsAreInts ==
  ASSUME TypeOK
  PROVE  (\A id \in Nat : TradedOf(id) \in Int) /\ RealizedInTrades \in Int
<1>1. Len(trades) \in Nat /\ DOMAIN trades = 1..Len(trades)
  BY DEF TypeOK
<1>2. \A n \in DOMAIN trades : trades[n] \in Trade
  BY DEF TypeOK
<1>3. ASSUME NEW id \in Nat PROVE TradedOf(id) \in Int
  <2> DEFINE f == [n \in DOMAIN trades |-> IF trades[n].order = id THEN trades[n].quantity ELSE 0]
  <2>1. f \in [1..Len(trades) -> Int]
    BY <1>1, <1>2 DEF Trade
  <2>2. TradedOf(id) = SumUpTo(f, Len(trades))
    BY DEF TradedOf, SumOverTrades
  <2> HIDE DEF f
  <2> QED BY <1>1, <2>1, <2>2, SumIsInt
<1>4. RealizedInTrades \in Int
  <2> DEFINE f == [n \in DOMAIN trades |-> trades[n].pnl]
  <2>1. f \in [1..Len(trades) -> Int]
    BY <1>1, <1>2 DEF Trade
  <2>2. RealizedInTrades = SumUpTo(f, Len(trades))
    BY DEF RealizedInTrades, SumOverTrades
  <2> HIDE DEF f
  <2> QED BY <1>1, <2>1, <2>2, SumIsInt
<1> QED BY <1>3, <1>4

LEMMA SameTrades ==
  ASSUME trades' = trades
  PROVE  /\ \A id \in Nat : TradedOf(id)' = TradedOf(id)
         /\ \A i \in Instrument : NetTraded(i)' = NetTraded(i)
         /\ RealizedInTrades' = RealizedInTrades
         /\ LostInTrades' = LostInTrades
BY DEF TradedOf, NetTraded, RealizedInTrades, LostInTrades, SumOverTrades

\* Positions and balance keep agreeing with the trades.
LEMMA QuietKeepsSums ==
  ASSUME BooksInv, TypeOK', Quiet
  PROVE  PositionsNetTrades' /\ BalanceReconciles' /\ LossMatchesTrades'
<1>t. TypeOK
  BY DEF BooksInv, MarginInv
<1>1. cumulativeLoss' = cumulativeLoss /\ trades' = trades
  BY DEF Quiet
<1>2. LossLimitHit(cumulativeLoss') <=> LossLimitHit(cumulativeLoss)
  BY <1>1
<1>3. PositionsNetTrades'
  <2> SUFFICES ASSUME ~LossLimitHit(cumulativeLoss'), NEW i \in Instrument
               PROVE  IF i \in DOMAIN positions'
                      THEN /\ positions'[i].quantity > 0
                           /\ NetTraded(i)' = Signed(positions'[i].side, positions'[i].quantity)
                      ELSE NetTraded(i)' = 0
    BY DEF PositionsNetTrades
  <2>1. IF i \in DOMAIN positions
        THEN /\ positions[i].quantity > 0
             /\ NetTraded(i) = Signed(positions[i].side, positions[i].quantity)
        ELSE NetTraded(i) = 0
    BY <1>2 DEF BooksInv, PositionsNetTrades
  <2>2. NetTraded(i)' = NetTraded(i)
    BY <1>1, SameTrades
  <2> QED BY <2>1, <2>2 DEF Quiet
<1>4. BalanceReconciles'
  <2> SUFFICES ASSUME ~LossLimitHit(cumulativeLoss')
               PROVE  account'.balance = InitialBalance + netCash' + RealizedInTrades'
    BY DEF BalanceReconciles
  <2>1. account.balance = InitialBalance + netCash + RealizedInTrades
    BY <1>2 DEF BooksInv, BalanceReconciles
  <2>2. RealizedInTrades' = RealizedInTrades /\ RealizedInTrades \in Int
    BY <1>t, <1>1, SameTrades, SumsAreInts
  <2>3. /\ account.balance \in Int /\ account'.balance \in Int
        /\ netCash \in Int /\ netCash' \in Int /\ InitialBalance \in Int
    BY <1>t, ServiceAssumption DEF TypeOK, Account
  <2>4. account'.balance - netCash' = account.balance - netCash
    BY DEF Quiet
  <2> QED BY <2>1, <2>2, <2>3, <2>4
<1>5. LossMatchesTrades'
  BY <1>1, <1>2, SameTrades DEF BooksInv, LossMatchesTrades
<1> QED BY <1>3, <1>4, <1>5

\* What is traded keeps fitting the orders that are left alone.
LEMMA UntouchedFits ==
  ASSUME BooksInv, NEW id \in OrderId, Untouched(id), trades' = trades,
         cumulativeLoss' = cumulativeLoss
  PROVE  /\ Sound(store'[id]) /\ TradedOf(id)' <= store'[id].filled
         /\ /\ ~LossLimitHit(cumulativeLoss')
            /\ store'[id].type.kind = "Limit"
            /\ store'[id].status \in {"Accepted", "PartiallyFilled", "Filled"}
            => TradedOf(id)' = store'[id].filled
<1>1. id \in Nat
  BY DEF BooksInv, MarginInv, TypeOK, OrderId
<1>2. TradedOf(id)' = TradedOf(id)
  BY <1>1, SameTrades
<1>3. Sound(store[id]) /\ TradedOf(id) <= store[id].filled
  BY DEF BooksInv, TradesFit
<1>4. Sound(store'[id])
  BY <1>3 DEF Untouched, Sound
<1> QED BY <1>2, <1>3, <1>4 DEF BooksInv, LimitsAreTraded, Untouched

LEMMA LeavesFits ==
  ASSUME BooksInv, Quiet, Leaves
  PROVE  TradesFit' /\ LimitsAreTraded'
<1>1. trades' = trades /\ cumulativeLoss' = cumulativeLoss
  BY DEF Quiet
<1>2. OrderId' = OrderId /\ \A id \in OrderId : Untouched(id)
  BY DEF Leaves
<1>3. TradesFit'
  BY <1>1, <1>2, UntouchedFits, SameTrades DEF TradesFit, BooksInv
<1>4. LimitsAreTraded'
  BY <1>1, <1>2, UntouchedFits DEF LimitsAreTraded
<1> QED BY <1>3, <1>4

\* Nothing is traded yet of an order that is added.
LEMMA AddsFits ==
  ASSUME BooksInv, Quiet, Adds
  PROVE  TradesFit' /\ LimitsAreTraded'
<1>t. TypeOK
  BY DEF BooksInv, MarginInv
<1>1. trades' = trades /\ cumulativeLoss' = cumulativeLoss
  BY DEF Quiet
<1>2. PICK order \in Order, event \in OrderEvent :
        Save(order, event) /\ order.filled = 0 /\ order.quantity > 0 /\ order.status # "Filled"
  BY DEF Adds
<1>3. PICK next \in Nat \ OrderId :
        /\ OrderId' = OrderId \cup {next}
        /\ store'[next] = order
        /\ \A id \in OrderId : store'[id] = store[id]
  BY <1>t, <1>2, SaveType
<1>4. TradedOf(next)' = 0
  BY <1>1, <1>3, SameTrades DEF BooksInv, TradesFit
<1>5. order.quantity \in Int
  BY DEF Order
<1>6. Sound(order)
  BY <1>2, <1>5 DEF Sound
<1>7. \A id \in OrderId : Untouched(id)
  BY <1>3 DEF Untouched
<1>8. TradesFit'
  <2>1. ASSUME NEW id \in OrderId'
        PROVE  Sound(store'[id]) /\ TradedOf(id)' <= store'[id].filled
    <3>1. CASE id = next
      BY <1>2, <1>3, <1>4, <1>6, <3>1
    <3>2. CASE id \in OrderId
      BY <1>1, <1>7, <3>2, UntouchedFits
    <3> QED BY <1>3, <3>1, <3>2
  <2>2. ASSUME NEW id \in Nat \ OrderId' PROVE TradedOf(id)' = 0
    BY <1>1, <1>3, SameTrades DEF BooksInv, TradesFit
  <2> QED BY <2>1, <2>2 DEF TradesFit
<1>9. LimitsAreTraded'
  <2>1. ASSUME NEW id \in OrderId', ~LossLimitHit(cumulativeLoss'),
               store'[id].type.kind = "Limit",
               store'[id].status \in {"Accepted", "PartiallyFilled", "Filled"}
        PROVE  TradedOf(id)' = store'[id].filled
    <3>1. CASE id = next
      BY <1>2, <1>3, <1>4, <3>1
    <3>2. CASE id \in OrderId
      BY <1>1, <1>7, <2>1, <3>2, UntouchedFits
    <3> QED BY <1>3, <3>1, <3>2
  <2> QED BY <2>1 DEF LimitsAreTraded
<1> QED BY <1>8, <1>9

\* A fill that is counted and no more is either not counted at all, or counted
\* of an order that no longer, or not yet, rests; or it is no limit order.
LEMMA CountsFits ==
  ASSUME BooksInv, Quiet, Counts
  PROVE  TradesFit' /\ LimitsAreTraded'
<1>t. TypeOK
  BY DEF BooksInv, MarginInv
<1>1. trades' = trades /\ cumulativeLoss' = cumulativeLoss
  BY DEF Quiet
<1>2. PICK id \in OrderId, qty \in FillQuantities :
        /\ store' = [store EXCEPT ![id] = ApplyFill(store[id], qty)]
        /\ store[id].type.kind = "Limit" => ~TakesFill(store[id], qty)
  BY DEF Counts
<1> DEFINE order == store[id]
           after == ApplyFill(order, qty)
<1>3. order \in Order /\ qty \in Nat \ {0} /\ id \in Nat
  BY <1>t, ServiceAssumption DEF TypeOK, OrderId
<1>4. /\ OrderId' = OrderId /\ store'[id] = after
      /\ \A k \in OrderId \ {id} : store'[k] = store[k]
  BY <1>2 DEF OrderId
<1>5. Sound(order) /\ TradedOf(id) <= order.filled
  BY DEF BooksInv, TradesFit
<1>6. /\ Sound(after) /\ after.filled >= order.filled
      /\ ~TakesFill(order, qty) /\ order.status \in {"Accepted", "PartiallyFilled", "Filled"}
           => after = order
  BY <1>3, <1>5, FillCounts
<1>7. order.filled \in Int /\ after.filled \in Int
  <2>1. \A any \in Order : any.filled \in Int
    BY DEF Order
  <2>2. after \in Order
    BY <1>3, ApplyFillType
  <2> QED BY <1>3, <2>1, <2>2
<1>8. TradedOf(id)' = TradedOf(id) /\ TradedOf(id) \in Int
  BY <1>t, <1>1, <1>3, SameTrades, SumsAreInts
<1>9. TradedOf(id)' <= after.filled
  <2> HIDE DEF order, after
  <2> QED BY <1>5, <1>6, <1>7, <1>8
<1>10. \A k \in OrderId \ {id} : Untouched(k)
  BY <1>4 DEF Untouched
<1>11. TradesFit'
  <2>1. ASSUME NEW k \in OrderId
        PROVE  Sound(store'[k]) /\ TradedOf(k)' <= store'[k].filled
    <3>1. CASE k = id
      BY <1>4, <1>6, <1>9, <3>1
    <3>2. CASE k # id
      BY <1>1, <1>10, <3>2, UntouchedFits
    <3> QED BY <3>1, <3>2
  <2>2. ASSUME NEW k \in Nat \ OrderId PROVE TradedOf(k)' = 0
    BY <1>1, SameTrades DEF BooksInv, TradesFit
  <2> QED BY <1>4, <2>1, <2>2 DEF TradesFit
<1>12. LimitsAreTraded'
  <2>1. ASSUME NEW k \in OrderId, ~LossLimitHit(cumulativeLoss'),
               store'[k].type.kind = "Limit",
               store'[k].status \in {"Accepted", "PartiallyFilled", "Filled"}
        PROVE  TradedOf(k)' = store'[k].filled
    <3>1. CASE k = id
      <4>1. after.type = order.type
        BY <1>3, ApplyFillEffect
      <4>2. ~TakesFill(order, qty)
        BY <1>2, <1>4, <2>1, <3>1, <4>1
      <4>3. after.status = order.status
        BY <1>3, <4>2, ApplyFillEffect
      <4>4. after = order
        BY <1>4, <1>6, <2>1, <3>1, <4>2, <4>3
      <4>5. Untouched(id)
        BY <1>4, <4>4 DEF Untouched
      <4> QED BY <1>1, <2>1, <3>1, <4>5, UntouchedFits
    <3>2. CASE k # id
      BY <1>1, <1>10, <2>1, <3>2, UntouchedFits
    <3> QED BY <3>1, <3>2
  <2> QED BY <1>4, <2>1 DEF LimitsAreTraded
<1> QED BY <1>11, <1>12

-----------------------------------------------------------------------------
(* Fills that are settled.                                                 *)

\* What a settled fill does: it is entered, it is recorded unless the loss
\* limit is hit with it, and the balance takes what it realized.
LEMMA SettleEffect ==
  ASSUME TypeOK, NEW id \in OrderId, NEW qty \in FillQuantities, NEW price \in FillPrices,
         SettleFill(id, qty, price)
  PROVE  \E trade \in Trade :
           /\ trade.order = id /\ trade.quantity = qty /\ trade.price = price
           /\ trade.instrument = store[id].instrument /\ trade.side = store[id].side
           /\ trade.pnl = RealizedPnl(positions, trade.instrument, trade.side, qty, price)
           /\ store[id] \in Order /\ id \in Nat /\ qty \in Nat \ {0} /\ price \in Int
           /\ TakesFill(store[id], qty)
           /\ store' = [store EXCEPT ![id] = ApplyFill(store[id], qty)]
           /\ positions' = NetFill(positions, trade.instrument, trade.side, qty, price)
           /\ trades' = IF LossLimitHit(cumulativeLoss') THEN trades ELSE Append(trades, trade)
           /\ cumulativeLoss' = cumulativeLoss + IF trade.pnl < 0 THEN trade.pnl ELSE 0
           /\ account'.balance = account.balance + trade.pnl
           /\ netCash' = netCash
<1> DEFINE order == store[id]
           pnl   == RealizedPnl(positions, order.instrument, order.side, qty, price)
           trade == [order |-> id, instrument |-> order.instrument, side |-> order.side,
                     quantity |-> qty, price |-> price, pnl |-> pnl]
           freed == IF FillsUp(id, qty) THEN Released(id) ELSE account
<1>1. order \in Order /\ qty \in Nat \ {0} /\ price \in Int /\ id \in Nat
  BY ServiceAssumption DEF TypeOK, OrderId
<1>2. order.instrument \in Instrument /\ order.side \in Side
  BY <1>1 DEF Order
<1>3. pnl \in Int
  BY <1>1, <1>2, NetFillType DEF TypeOK
<1>4. trade \in Trade
  <2> HIDE DEF pnl, order
  <2> QED BY <1>1, <1>2, <1>3 DEF Trade
<1>5. /\ TakesFill(order, qty)
      /\ store' = [store EXCEPT ![id] = ApplyFill(store[id], qty)]
      /\ positions' = NetFill(positions, order.instrument, order.side, qty, price)
      /\ trades' = IF LossLimitHit(cumulativeLoss') THEN trades ELSE Append(trades, trade)
      /\ cumulativeLoss' = LossAfter(pnl)
      /\ account' = ApplyRealizedPnl(freed, pnl)
      /\ netCash' = netCash
  BY DEF SettleFill, EnterFill
<1>6. freed \in Account /\ freed.balance = account.balance
  <2>1. account \in Account
    BY DEF TypeOK
  <2>2. Released(id) \in Account
    BY ReleaseType
  <2>3. Released(id).balance = account.balance
    BY <2>1 DEF Released, UnlockMargin, Account
  <2> QED BY <2>1, <2>2, <2>3
<1>7. account'.balance = account.balance + pnl
  <2> HIDE DEF freed, pnl
  <2> QED BY <1>5, <1>6 DEF ApplyRealizedPnl, Account
<1>8. cumulativeLoss' = cumulativeLoss + IF pnl < 0 THEN pnl ELSE 0
  <2>1. cumulativeLoss \in Int
    BY DEF TypeOK
  <2> HIDE DEF pnl
  <2> QED BY <1>3, <1>5, <2>1 DEF LossAfter
<1>9. /\ trade.order = id /\ trade.quantity = qty /\ trade.price = price /\ trade.pnl = pnl
      /\ trade.instrument = order.instrument /\ trade.side = order.side
  OBVIOUS
<1> HIDE DEF trade
<1> QED BY <1>1, <1>4, <1>5, <1>7, <1>8, <1>9

\* The running loss only grows: below the limit after a step, it was below the
\* limit before.
LEMMA LossNeverShrinks ==
  ASSUME TypeOK, TypeOK', cumulativeLoss' <= cumulativeLoss, ~LossLimitHit(cumulativeLoss')
  PROVE  ~LossLimitHit(cumulativeLoss)
<1>1. MaxLoss \subseteq Nat
  BY LimitsAssumption DEF Option
<1>2. cumulativeLoss \in Int /\ cumulativeLoss' \in Int
  BY DEF TypeOK
<1> QED BY <1>1, <1>2 DEF LossLimitHit

LEMMA SettleFits ==
  ASSUME BooksInv, TypeOK', NEW id \in OrderId, NEW qty \in FillQuantities,
         NEW price \in FillPrices, SettleFill(id, qty, price)
  PROVE  TradesFit' /\ LimitsAreTraded'
<1>t. TypeOK
  BY DEF BooksInv, MarginInv
<1>1. PICK trade \in Trade :
           /\ trade.order = id /\ trade.quantity = qty
           /\ store[id] \in Order /\ id \in Nat /\ qty \in Nat \ {0}
           /\ TakesFill(store[id], qty)
           /\ store' = [store EXCEPT ![id] = ApplyFill(store[id], qty)]
           /\ trades' = IF LossLimitHit(cumulativeLoss') THEN trades ELSE Append(trades, trade)
           /\ cumulativeLoss' = cumulativeLoss + IF trade.pnl < 0 THEN trade.pnl ELSE 0
  BY <1>t, SettleEffect
<1> DEFINE order == store[id]
           after == ApplyFill(order, qty)
<1>2. /\ OrderId' = OrderId /\ store'[id] = after
      /\ \A k \in OrderId \ {id} : store'[k] = store[k]
  BY <1>1 DEF OrderId
<1>3. Sound(order) /\ TradedOf(id) <= order.filled
  BY DEF BooksInv, TradesFit
<1>4. Sound(after) /\ after.filled = order.filled + qty /\ after.type = order.type
  BY <1>1, <1>3, FillCounts, ApplyFillEffect
<1>5. order.filled \in Int /\ TradedOf(id) \in Int /\ \A k \in OrderId : k \in Nat
  <2>1. order.filled \in Int
    BY <1>1 DEF Order
  <2>2. TradedOf(id) \in Int
    BY <1>1, <1>t, SumsAreInts
  <2>3. \A k \in OrderId : k \in Nat
    <3>1. Len(store) \in Nat
      BY <1>t DEF TypeOK
    <3> QED BY <3>1 DEF OrderId
  <2> QED BY <2>1, <2>2, <2>3
<1>6. /\ \A k \in Nat \ {id} : TradedOf(k)' = TradedOf(k)
      /\ TradedOf(id)' = TradedOf(id) + IF LossLimitHit(cumulativeLoss') THEN 0 ELSE qty
  <2>1. CASE LossLimitHit(cumulativeLoss')
    <3>1. trades' = trades
      BY <1>1, <2>1
    <3> QED BY <1>1, <1>5, <2>1, <3>1, SameTrades
  <2>2. CASE ~LossLimitHit(cumulativeLoss')
    <3>1. trades' = Append(trades, trade)
      BY <1>1, <2>2
    <3>2. \A k \in Nat :
            /\ TradedOf(k) \in Int
            /\ TradedOf(k)' = TradedOf(k) + IF trade.order = k THEN trade.quantity ELSE 0
      BY <1>t, <3>1, TradeAdds
    <3> QED BY <1>1, <2>2, <3>2
  <2> QED BY <2>1, <2>2
<1>7. TradesFit'
  <2>1. TradedOf(id)' <= after.filled
    <3> HIDE DEF order, after
    <3> QED BY <1>1, <1>3, <1>4, <1>5, <1>6
  <2>2. ASSUME NEW k \in OrderId
        PROVE  Sound(store'[k]) /\ TradedOf(k)' <= store'[k].filled
    <3>1. CASE k = id
      BY <1>2, <1>4, <2>1, <3>1
    <3>2. CASE k # id
      BY <1>2, <1>5, <1>6, <3>2 DEF BooksInv, TradesFit
    <3> QED BY <3>1, <3>2
  <2>3. ASSUME NEW k \in Nat \ OrderId PROVE TradedOf(k)' = 0
    BY <1>6 DEF BooksInv, TradesFit
  <2> QED BY <1>2, <2>2, <2>3 DEF TradesFit
<1>8. LimitsAreTraded'
  <2>1. ASSUME NEW k \in OrderId, ~LossLimitHit(cumulativeLoss'),
               store'[k].type.kind = "Limit",
               store'[k].status \in {"Accepted", "PartiallyFilled", "Filled"}
        PROVE  TradedOf(k)' = store'[k].filled
    <3>0. ~LossLimitHit(cumulativeLoss)
      <4>1. cumulativeLoss \in Int /\ trade.pnl \in Int
        BY <1>t DEF TypeOK, Trade
      <4>2. cumulativeLoss' <= cumulativeLoss
        BY <1>1, <4>1
      <4> QED BY <1>t, <2>1, <4>2, LossNeverShrinks
    <3>1. CASE k = id
      <4>1. order.status \in {"Accepted", "PartiallyFilled"}
        BY <1>1, ApplyFillEffect
      <4>2. order.type.kind = "Limit"
        BY <1>2, <1>4, <2>1, <3>1
      <4>3. TradedOf(id) = order.filled
        BY <3>0, <4>1, <4>2 DEF BooksInv, LimitsAreTraded
      <4> HIDE DEF order, after
      <4> QED BY <1>2, <1>4, <1>6, <2>1, <3>1, <4>3
    <3>2. CASE k # id
      BY <1>2, <1>5, <1>6, <2>1, <3>0, <3>2 DEF BooksInv, LimitsAreTraded
    <3> QED BY <3>1, <3>2
  <2> QED BY <1>2, <2>1 DEF LimitsAreTraded
<1> QED BY <1>7, <1>8

LEMMA SettleKeepsSums ==
  ASSUME BooksInv, TypeOK', NEW id \in OrderId, NEW qty \in FillQuantities,
         NEW price \in FillPrices, SettleFill(id, qty, price),
         ~LossLimitHit(cumulativeLoss')
  PROVE  PositionsNetTrades' /\ BalanceReconciles' /\ LossMatchesTrades'
<1>t. TypeOK
  BY DEF BooksInv, MarginInv
<1>1. PICK trade \in Trade :
           /\ trade.quantity = qty /\ qty \in Nat \ {0} /\ price \in Int
           /\ positions' = NetFill(positions, trade.instrument, trade.side, qty, price)
           /\ trades' = Append(trades, trade)
           /\ cumulativeLoss' = cumulativeLoss + IF trade.pnl < 0 THEN trade.pnl ELSE 0
           /\ account'.balance = account.balance + trade.pnl
           /\ netCash' = netCash
  BY <1>t, SettleEffect
<1>2. /\ trade.pnl \in Int /\ cumulativeLoss \in Int /\ account.balance \in Int
      /\ netCash \in Int /\ InitialBalance \in Int
      /\ trade.instrument \in Instrument /\ trade.side \in Side
  BY <1>t, ServiceAssumption DEF TypeOK, Trade, Account
<1>3. ~LossLimitHit(cumulativeLoss)
  <2>1. cumulativeLoss' <= cumulativeLoss
    BY <1>1, <1>2
  <2> QED BY <1>t, <2>1, LossNeverShrinks
<1>4. /\ \A i \in Instrument :
           /\ NetTraded(i) \in Int
           /\ NetTraded(i)' = NetTraded(i) + IF trade.instrument = i
                                             THEN Signed(trade.side, trade.quantity) ELSE 0
      /\ RealizedInTrades \in Int
      /\ RealizedInTrades' = RealizedInTrades + trade.pnl
      /\ LostInTrades \in Int
      /\ LostInTrades' = LostInTrades + IF trade.pnl < 0 THEN trade.pnl ELSE 0
  BY <1>t, <1>1, TradeAdds
<1>5. BalanceReconciles'
  <2>1. account.balance = InitialBalance + netCash + RealizedInTrades
    BY <1>3 DEF BooksInv, BalanceReconciles
  <2>2. account'.balance = InitialBalance + netCash' + RealizedInTrades'
    BY <1>1, <1>2, <1>4, <2>1
  <2> QED BY <2>2 DEF BalanceReconciles
<1>6. LossMatchesTrades'
  <2>1. cumulativeLoss = LostInTrades
    BY <1>3 DEF BooksInv, LossMatchesTrades
  <2>2. cumulativeLoss' = LostInTrades'
    BY <1>1, <1>4, <2>1
  <2> QED BY <2>2 DEF LossMatchesTrades
<1>7. PositionsNetTrades'
  <2> DEFINE book == positions
             i    == trade.instrument
             side == trade.side
             after == NetFill(book, i, side, qty, price)
  <2>1. /\ \A j \in DOMAIN positions : positions[j].quantity > 0
        /\ \A j \in Instrument : NetTraded(j) = NetHeld(positions, j)
    <3>1. ASSUME NEW j \in Instrument
          PROVE  IF j \in DOMAIN positions
                 THEN /\ positions[j].quantity > 0
                      /\ NetTraded(j) = Signed(positions[j].side, positions[j].quantity)
                 ELSE NetTraded(j) = 0
      BY <1>3 DEF BooksInv, PositionsNetTrades
    <3>2. DOMAIN positions \subseteq Instrument
      BY <1>t DEF TypeOK
    <3> QED BY <3>1, <3>2 DEF NetHeld
  <2>2. DOMAIN book \subseteq Instrument /\ book \in [DOMAIN book -> Position]
    BY <1>t DEF TypeOK
  <2>3. /\ NetHeld(after, i) = NetHeld(book, i) + Signed(side, qty)
        /\ \A j \in Instrument \ {i} : NetHeld(after, j) = NetHeld(book, j)
        /\ \A j \in DOMAIN after : after[j].quantity > 0
    BY <1>1, <1>2, <2>1, <2>2, FillNets
  <2>4. ASSUME NEW j \in Instrument PROVE NetTraded(j)' = NetHeld(after, j)
    <3>1. NetTraded(j)' = NetTraded(j) + IF i = j THEN Signed(side, qty) ELSE 0
      BY <1>1, <1>4
    <3>2. NetTraded(j) = NetHeld(book, j) /\ NetTraded(j) \in Int
      BY <1>4, <2>1
    <3> HIDE DEF after, i, side, book
    <3> QED BY <2>3, <3>1, <3>2
  <2>5. positions' = after
    BY <1>1
  <2> HIDE DEF after
  <2> QED BY <2>3, <2>4, <2>5 DEF PositionsNetTrades, NetHeld
<1> QED BY <1>5, <1>6, <1>7

-----------------------------------------------------------------------------
(* The theorems.                                                           *)

LEMMA InitBooks == Init => BooksInv
<1> SUFFICES ASSUME Init PROVE BooksInv
  OBVIOUS
<1>1. /\ \A id \in Nat : TradedOf(id) = 0
      /\ \A i \in Instrument : NetTraded(i) = 0
      /\ RealizedInTrades = 0 /\ LostInTrades = 0
  BY NoTradesAddUp DEF Init
<1>2. OrderId = {} /\ DOMAIN positions = {}
  BY EmptySeq DEF Init, OrderId
<1>3. /\ account.balance = InitialBalance /\ netCash = 0 /\ cumulativeLoss = 0
      /\ InitialBalance \in Nat
  BY ServiceAssumption DEF Init
<1>4. TradesFit /\ LimitsAreTraded
  BY <1>1, <1>2 DEF TradesFit, LimitsAreTraded
<1>5. PositionsNetTrades
  BY <1>1, <1>2 DEF PositionsNetTrades
<1>6. BalanceReconciles /\ LossMatchesTrades
  BY <1>1, <1>3 DEF BalanceReconciles, LossMatchesTrades
<1> QED BY <1>4, <1>5, <1>6, InitMargin DEF BooksInv

LEMMA StepBooks == BooksInv /\ [Next]_vars => BooksInv'
<1> SUFFICES ASSUME BooksInv, [Next]_vars PROVE BooksInv'
  OBVIOUS
<1>1. MarginInv /\ MarginInv' /\ TypeOK'
  BY StepMargin DEF BooksInv, MarginInv
<1>2. CASE Quiet /\ (Leaves \/ Counts \/ Adds)
  BY <1>1, <1>2, QuietKeepsSums, LeavesFits, CountsFits, AddsFits DEF BooksInv
<1>3. ASSUME NEW id \in OrderId, NEW qty \in FillQuantities, NEW price \in FillPrices,
             SettleFill(id, qty, price)
      PROVE  BooksInv'
  <2>1. TradesFit' /\ LimitsAreTraded'
    BY <1>1, <1>3, SettleFits
  <2>2. PositionsNetTrades' /\ BalanceReconciles' /\ LossMatchesTrades'
    <3>1. CASE ~LossLimitHit(cumulativeLoss')
      BY <1>1, <1>3, <3>1, SettleKeepsSums
    <3>2. CASE LossLimitHit(cumulativeLoss')
      BY <3>2 DEF PositionsNetTrades, BalanceReconciles, LossMatchesTrades
    <3> QED BY <3>1, <3>2
  <2> QED BY <1>1, <2>1, <2>2 DEF BooksInv
<1> QED BY <1>1, <1>2, <1>3, StepQuietOrSettles

LEMMA BooksAlways == Spec => []BooksInv
<1> QED BY InitBooks, StepBooks, PTL DEF Spec

\* Until the loss limit is hit an instrument has a position exactly when its
\* trades do not cancel out, on their side and of their size, whatever opening,
\* adding, reducing and reversing fills came in whatever order.
THEOREM PositionsAreTheNetOfTrades == Spec => []PositionsNetTrades
<1>1. BooksInv => PositionsNetTrades
  BY DEF BooksInv
<1> QED BY <1>1, BooksAlways, PTL

\* Until the loss limit is hit the balance is what was paid in and what the
\* recorded trades realized: no fill is settled twice or without its trade.
THEOREM BalanceIsReconciled == Spec => []BalanceReconciles
<1>1. BooksInv => BalanceReconciles
  BY DEF BooksInv
<1> QED BY <1>1, BooksAlways, PTL

\* The running loss is the one a restart recomputes from the trades.
THEOREM LossIsInTheTrades == Spec => []LossMatchesTrades
<1>1. BooksInv => LossMatchesTrades
  BY DEF BooksInv
<1> QED BY <1>1, BooksAlways, PTL

\* What a limit order says was filled was traded, though apply_fill counts the
\* quantity of fills it goes on to refuse.
THEOREM LimitFillsAreTraded == Spec => []FilledLimitsAreTraded
<1>1. BooksInv => FilledLimitsAreTraded
  BY DEF BooksInv, LimitsAreTraded, FilledLimitsAreTraded
<1> QED BY <1>1, BooksAlways, PTL

\* No order is traded beyond its quantity, whatever fills were refused or
\* abandoned before, and past the loss limit too.
THEOREM TradesFitTheirOrders == Spec => []TradesFitOrders
<1>1. BooksInv => TradesFitOrders
  BY DEF BooksInv, TradesFit, Sound, TradesFitOrders
<1> QED BY <1>1, BooksAlways, PTL

-----------------------------------------------------------------------------
(* Equity.                                                                 *)

\* What the position in an instrument is worth at a price.
ValueAt(book, i, price) ==
  IF i \in DOMAIN book THEN Gain(book[i], book[i].quantity, price) ELSE 0

\* What a fill costs the average price of a position it adds to when the
\* division leaves a remainder; any other fill leaves the average alone.
Remainder(book, i, side, qty, price) ==
  IF i \in DOMAIN book /\ book[i].side = side
  THEN LET cost == book[i].avgPrice * book[i].quantity + price * qty
       IN  cost - Add(book[i], qty, price).avgPrice * (book[i].quantity + qty)
  ELSE 0

\* A whole quotient falls short by less than the divisor.
LEMMA QuotientFallsShort ==
  ASSUME NEW a \in Int, NEW b \in Nat \ {0}
  PROVE  Quotient(a, b) \in Int /\ a - Quotient(a, b) * b \in 0..b - 1
<1>1. a \div b \in Int /\ a % b \in 0..b - 1 /\ a = b * (a \div b) + (a % b)
  OBVIOUS
<1>2. Quotient(a, b) = a \div b
  BY DEF Quotient
<1> DEFINE q == a \div b
           r == a % b
<1>3. q \in Int /\ r \in 0..b - 1 /\ a = b * q + r
  BY <1>1
<1> HIDE DEF q, r
<1>4. b * q = q * b
  BY <1>3
<1>5. a - q * b = r
  BY <1>3, <1>4
<1> QED BY <1>2, <1>3, <1>5 DEF q

LEMMA SignedZero ==
  ASSUME NEW side
  PROVE  Signed(side, 0) = 0
<1>1. \A n \in Int : n + Signed(side, 0) = n
  BY DEF Signed
<1>2. Signed(side, 0) \in Int
  BY DEF Signed
<1> QED BY <1>1, <1>2

\* What a fill realizes and what its position gains in value cancel out but for
\* the remainder, whether it opens, adds, reduces, closes or reverses; and the
\* remainder is less than one unit of price for each unit then held.
LEMMA FillMovesNoValue ==
  ASSUME NEW book, DOMAIN book \subseteq Instrument, book \in [DOMAIN book -> Position],
         NEW i \in Instrument, NEW side \in Side,
         NEW qty \in Nat \ {0}, NEW price \in Int,
         \A j \in DOMAIN book : book[j].quantity > 0
  PROVE  LET after == NetFill(book, i, side, qty, price)
             rest  == Remainder(book, i, side, qty, price)
         IN  /\ ValueAt(book, i, price) \in Int /\ ValueAt(after, i, price) \in Int
             /\ rest \in Int
             /\ RealizedPnl(book, i, side, qty, price) + ValueAt(after, i, price)
                  = ValueAt(book, i, price) + Signed(side, rest)
             /\ rest # 0 => i \in DOMAIN after /\ rest \in 0..after[i].quantity - 1
<1> DEFINE after == NetFill(book, i, side, qty, price)
           rest  == Remainder(book, i, side, qty, price)
           pnl   == RealizedPnl(book, i, side, qty, price)
           Moves0 ==
             /\ ValueAt(book, i, price) \in Int /\ ValueAt(after, i, price) \in Int
             /\ rest \in Int
             /\ pnl + ValueAt(after, i, price) = ValueAt(book, i, price) + Signed(side, rest)
             /\ rest # 0 => i \in DOMAIN after /\ rest \in 0..after[i].quantity - 1
<1> SUFFICES Moves0
  OBVIOUS
<1>0. Signed(side, 0) = 0
  BY SignedZero
<1>1. CASE i \notin DOMAIN book
  <2>1. after = Insert(book, i, NewPosition(side, qty, price))
    BY <1>1 DEF NetFill
  <2>2. pnl = 0 /\ rest = 0 /\ ValueAt(book, i, price) = 0
    BY <1>1 DEF RealizedPnl, Remainder, ValueAt
  <2> HIDE DEF after, rest, pnl
  <2>3. i \in DOMAIN after /\ after[i] = NewPosition(side, qty, price)
    BY <2>1 DEF Insert
  <2>4. ValueAt(after, i, price) = 0
    BY <2>3 DEF ValueAt, Gain, NewPosition
  <2> QED BY <1>0, <2>2, <2>4
<1>2. CASE i \in DOMAIN book
  <2> DEFINE pos  == book[i]
             a    == pos.avgPrice
             n    == pos.quantity
             left == Reduce(pos, qty)
             more == Add(pos, qty, price)
  <2>1. /\ pos \in Position /\ n \in Nat \ {0} /\ a \in Int
        /\ pos.side \in {"Buy", "Sell"} /\ side \in {"Buy", "Sell"}
    BY <1>2 DEF Position, Side
  <2>2. ValueAt(book, i, price) = IF pos.side = "Buy" THEN (price - a) * n ELSE (a - price) * n
    BY <1>2 DEF ValueAt, Gain
  <2>3. after = IF pos.side = side THEN [book EXCEPT ![i] = more]
                ELSE IF left.quantity # 0 THEN [book EXCEPT ![i] = left]
                ELSE IF qty > n
                     THEN [book EXCEPT ![i] = NewPosition(side, qty - n, price)]
                ELSE Remove(book, i)
    BY <1>2 DEF NetFill
  <2>4. pnl = IF pos.side = side THEN 0 ELSE Gain(pos, CloseQuantity(pos, qty), price)
    BY <1>2 DEF RealizedPnl
  <2>5. rest = IF pos.side = side
               THEN (a * n + price * qty) - more.avgPrice * (n + qty) ELSE 0
    BY <1>2 DEF Remainder
  <2>6. /\ more.side = pos.side /\ more.quantity = n + qty
        /\ more.avgPrice = Quotient(a * n + price * qty, n + qty)
    BY <2>1 DEF Add, Position
  <2>7. /\ left.side = pos.side
        /\ left.quantity = IF qty < n THEN n - qty ELSE 0
        /\ qty < n => left.avgPrice = a
    BY <2>1 DEF Reduce, CloseQuantity, Position
  <2>8. Gain(pos, CloseQuantity(pos, qty), price)
          = IF pos.side = "Buy" THEN (price - a) * (IF qty < n THEN qty ELSE n)
            ELSE (a - price) * (IF qty < n THEN qty ELSE n)
    BY DEF Gain, CloseQuantity
  <2> HIDE DEF after, rest, pnl, left, more
  <2>9. ASSUME NEW new, after = [book EXCEPT ![i] = new]
        PROVE  /\ i \in DOMAIN after /\ after[i] = new
               /\ ValueAt(after, i, price) = Gain(new, new.quantity, price)
    BY <1>2, <2>9 DEF ValueAt
  <2>10. CASE pos.side = side
    <3>1. /\ i \in DOMAIN after /\ after[i] = more
          /\ ValueAt(after, i, price) = Gain(more, more.quantity, price)
      BY <2>3, <2>9, <2>10
    <3> DEFINE cost == a * n + price * qty
               all  == n + qty
               avg  == Quotient(cost, all)
    <3>2. cost \in Int /\ all \in Nat \ {0}
      <4> HIDE DEF pos, n, a
      <4> QED BY <2>1
    <3>3. /\ more.side = side /\ more.quantity = all /\ more.avgPrice = avg
          /\ rest = cost - avg * all /\ pnl = 0
      BY <2>4, <2>5, <2>6, <2>10
    <3>4. avg \in Int /\ cost - avg * all \in 0..all - 1
      <4> HIDE DEF cost, all
      <4> QED BY <3>2, QuotientFallsShort
    <3> HIDE DEF avg
    <3>5. ValueAt(after, i, price)
            = IF side = "Buy" THEN (price - avg) * all ELSE (avg - price) * all
      BY <3>1, <3>3 DEF Gain
    <3>6. Signed(side, rest) = IF side = "Buy" THEN rest ELSE -rest
      BY DEF Signed
    <3> HIDE DEF pos, n, a
    <3>7. /\ (price - avg) * all = (price - a) * n + (cost - avg * all)
          /\ (avg - price) * all = (a - price) * n - (cost - avg * all)
      BY <2>1, <3>2, <3>4
    <3>8. /\ (price - a) * n \in Int /\ (a - price) * n \in Int
          /\ (price - avg) * all \in Int /\ (avg - price) * all \in Int
      BY <2>1, <3>2, <3>4
    <3> HIDE DEF cost, all
    <3>9. pnl + ValueAt(after, i, price) = ValueAt(book, i, price) + Signed(side, rest)
      BY <2>1, <2>2, <2>10, <3>2, <3>3, <3>4, <3>5, <3>6, <3>7, <3>8
    <3> QED BY <2>2, <3>1, <3>3, <3>4, <3>5, <3>8, <3>9
  <2>11. CASE pos.side # side /\ qty < n
    <3>1. ValueAt(after, i, price) = Gain(left, left.quantity, price)
      <4>1. left.quantity # 0
        <5> HIDE DEF pos, n, a
        <5> QED BY <2>1, <2>7, <2>11
      <4>2. after = [book EXCEPT ![i] = left]
        BY <2>3, <2>11, <4>1
      <4> QED BY <2>9, <4>2
    <3>2. ValueAt(after, i, price)
            = IF pos.side = "Buy" THEN (price - a) * (n - qty) ELSE (a - price) * (n - qty)
      BY <2>7, <2>11, <3>1 DEF Gain
    <3>3. rest = 0 /\ pnl = IF pos.side = "Buy" THEN (price - a) * qty ELSE (a - price) * qty
      BY <2>4, <2>5, <2>8, <2>11
    <3> HIDE DEF pos, n, a
    <3>4. /\ (price - a) * qty + (price - a) * (n - qty) = (price - a) * n
          /\ (a - price) * qty + (a - price) * (n - qty) = (a - price) * n
      BY <2>1
    <3>5. /\ (price - a) * n \in Int /\ (a - price) * n \in Int
          /\ (price - a) * (n - qty) \in Int /\ (a - price) * (n - qty) \in Int
      BY <2>1
    <3> QED BY <1>0, <2>1, <2>2, <3>2, <3>3, <3>4, <3>5
  <2>12. CASE pos.side # side /\ ~(qty < n)
    <3>1. rest = 0 /\ pnl = ValueAt(book, i, price)
      BY <2>2, <2>4, <2>5, <2>8, <2>12
    <3>2. ValueAt(after, i, price) = 0
      <4>1. CASE qty > n
        <5>1. ValueAt(after, i, price)
                = Gain(NewPosition(side, qty - n, price), qty - n, price)
          <6>1. after = [book EXCEPT ![i] = NewPosition(side, qty - n, price)]
            BY <2>3, <2>7, <2>12, <4>1
          <6>2. NewPosition(side, qty - n, price).quantity = qty - n
            BY DEF NewPosition
          <6> QED BY <2>9, <6>1, <6>2
        <5> QED BY <2>1, <4>1, <5>1 DEF Gain, NewPosition
      <4>2. CASE ~(qty > n)
        <5>1. after = Remove(book, i)
          BY <2>3, <2>7, <2>12, <4>2
        <5>2. i \notin DOMAIN after
          BY <5>1 DEF Remove, Restrict
        <5> QED BY <5>2 DEF ValueAt
      <4> QED BY <4>1, <4>2
    <3>3. ValueAt(book, i, price) \in Int
      <4> HIDE DEF pos, n, a
      <4> QED BY <2>1, <2>2
    <3> QED BY <1>0, <3>1, <3>2, <3>3
  <2> QED BY <2>10, <2>11, <2>12
<1> QED BY <1>1, <1>2

\* The average price of a position that a trade adds to always comes out even.
AveragesEven ==
  [][trades' # trades =>
       LET trade == trades'[Len(trades')]
       IN  Remainder(positions, trade.instrument, trade.side, trade.quantity, trade.price) = 0]_vars

\* What a trade changes in balance and position together, valued at its price.
Drift ==
  LET trade == trades'[Len(trades')]
  IN  account'.balance + ValueAt(positions', trade.instrument, trade.price)
        - (account.balance + ValueAt(positions, trade.instrument, trade.price))

\* A trade moves the owner's equity by less than one unit of price for each
\* unit held after it, and not at all unless it leaves a position behind.
EquityMovesByRounding ==
  [][trades' # trades =>
       LET trade == trades'[Len(trades')]
           held  == IF trade.instrument \in DOMAIN positions'
                    THEN positions'[trade.instrument].quantity ELSE 1
       IN  -held < Drift /\ Drift < held]_vars

\* The drift of a trade is the remainder, on its side.
LEMMA TradeDrift ==
  ASSUME BooksInv, [Next]_vars, trades' # trades
  PROVE  LET trade == trades'[Len(trades')]
             rest  == Remainder(positions, trade.instrument, trade.side,
                                trade.quantity, trade.price)
         IN  /\ ~LossLimitHit(cumulativeLoss')
             /\ rest \in Int /\ Drift = Signed(trade.side, rest)
             /\ account.balance \in Int /\ account'.balance \in Int
             /\ ValueAt(positions, trade.instrument, trade.price) \in Int
             /\ ValueAt(positions', trade.instrument, trade.price) \in Int
             /\ rest # 0 => /\ trade.instrument \in DOMAIN positions'
                            /\ rest \in 0..positions'[trade.instrument].quantity - 1
<1> DEFINE trade == trades'[Len(trades')]
           rest  == Remainder(positions, trade.instrument, trade.side,
                              trade.quantity, trade.price)
<1>t. TypeOK /\ TypeOK'
  BY StepMargin DEF BooksInv, MarginInv
<1>1. PICK id \in OrderId, qty \in FillQuantities, price \in FillPrices :
             SettleFill(id, qty, price)
  BY StepQuietOrSettles DEF BooksInv, Quiet
<1>2. PICK new \in Trade :
           /\ new.quantity = qty /\ qty \in Nat \ {0} /\ price \in Int
           /\ new.price = price
           /\ new.pnl = RealizedPnl(positions, new.instrument, new.side, qty, price)
           /\ positions' = NetFill(positions, new.instrument, new.side, qty, price)
           /\ trades' = IF LossLimitHit(cumulativeLoss') THEN trades ELSE Append(trades, new)
           /\ cumulativeLoss' = cumulativeLoss + IF new.pnl < 0 THEN new.pnl ELSE 0
           /\ account'.balance = account.balance + new.pnl
  BY <1>1, <1>t, SettleEffect
<1>3. ~LossLimitHit(cumulativeLoss') /\ trades' = Append(trades, new)
  BY <1>2
<1>4. trade = new
  BY <1>3, <1>t, TradeFields
<1>5. /\ new.pnl \in Int /\ cumulativeLoss \in Int /\ account.balance \in Int
      /\ account'.balance \in Int /\ new.instrument \in Instrument /\ new.side \in Side
  BY <1>t DEF TypeOK, Trade, Account
<1>6. ~LossLimitHit(cumulativeLoss)
  <2>1. cumulativeLoss' <= cumulativeLoss
    BY <1>2, <1>5
  <2> QED BY <1>3, <1>t, <2>1, LossNeverShrinks
<1>7. /\ DOMAIN positions \subseteq Instrument
      /\ positions \in [DOMAIN positions -> Position]
      /\ \A j \in DOMAIN positions : positions[j].quantity > 0
  BY <1>6, <1>t DEF BooksInv, PositionsNetTrades, TypeOK
<1> DEFINE before == ValueAt(positions, new.instrument, price)
           after  == ValueAt(positions', new.instrument, price)
           left   == Remainder(positions, new.instrument, new.side, qty, price)
<1>8. /\ before \in Int /\ after \in Int /\ left \in Int
      /\ new.pnl + after = before + Signed(new.side, left)
      /\ left # 0 => /\ new.instrument \in DOMAIN positions'
                     /\ left \in 0..positions'[new.instrument].quantity - 1
  <2> DEFINE book  == NetFill(positions, new.instrument, new.side, qty, price)
             worth == ValueAt(book, new.instrument, price)
             pnl   == RealizedPnl(positions, new.instrument, new.side, qty, price)
  <2>0. qty \in Nat \ {0} /\ price \in Int /\ new.instrument \in Instrument /\ new.side \in Side
    BY <1>2, <1>5
  <2>1. /\ before \in Int /\ worth \in Int /\ left \in Int
        /\ pnl + worth = before + Signed(new.side, left)
        /\ left # 0 => new.instrument \in DOMAIN book /\ left \in 0..book[new.instrument].quantity - 1
    BY ONLY <1>7, <2>0, FillMovesNoValue
  <2>2. positions' = book /\ new.pnl = pnl
    BY <1>2
  <2>3. after = worth
    BY <2>2
  <2> HIDE DEF before, left, book, worth, pnl, after
  <2> QED BY <2>1, <2>2, <2>3
<1>9. rest = left /\ Drift = account'.balance + after - (account.balance + before)
  BY <1>2, <1>4 DEF Drift
<1> HIDE DEF before, after, left, rest
<1>10. Drift = Signed(new.side, left)
  <2> DEFINE signed == Signed(new.side, left)
             was    == account.balance
  <2>1. signed \in Int
    BY <1>8 DEF Signed
  <2>2. was \in Int /\ account'.balance = was + new.pnl
    BY <1>2, <1>5
  <2>3. new.pnl \in Int /\ before \in Int /\ after \in Int /\ new.pnl + after = before + signed
    BY <1>5, <1>8
  <2>4. Drift = was + new.pnl + after - (was + before)
    BY <1>9, <2>2
  <2> HIDE DEF signed, was
  <2>5. Drift = signed
    BY <2>1, <2>2, <2>3, <2>4
  <2> QED BY <2>5 DEF signed
<1> QED BY <1>2, <1>3, <1>4, <1>5, <1>8, <1>9, <1>10 DEF before, after, left, rest

\* Whatever branch of the netting a trade takes, it makes nobody richer or
\* poorer by more than the rounding of the average price.
THEOREM EquityMovesByLessThanRounding == Spec => EquityMovesByRounding
<1>1. BooksInv /\ [Next]_vars
      => [trades' # trades =>
            LET trade == trades'[Len(trades')]
                held  == IF trade.instrument \in DOMAIN positions'
                         THEN positions'[trade.instrument].quantity ELSE 1
            IN  -held < Drift /\ Drift < held]_vars
  <2> SUFFICES ASSUME BooksInv, [Next]_vars, trades' # trades
               PROVE  LET trade == trades'[Len(trades')]
                          held  == IF trade.instrument \in DOMAIN positions'
                                   THEN positions'[trade.instrument].quantity ELSE 1
                      IN  -held < Drift /\ Drift < held
    OBVIOUS
  <2> DEFINE trade == trades'[Len(trades')]
             i     == trade.instrument
             rest  == Remainder(positions, i, trade.side, trade.quantity, trade.price)
             held  == IF i \in DOMAIN positions' THEN positions'[i].quantity ELSE 1
  <2>1. /\ rest \in Int /\ Drift = Signed(trade.side, rest)
        /\ rest # 0 => i \in DOMAIN positions' /\ rest \in 0..positions'[i].quantity - 1
    BY TradeDrift
  <2>2. held \in Int /\ held > 0
    <3>1. BooksInv' /\ TypeOK'
      BY StepBooks DEF BooksInv, MarginInv
    <3>2. ~LossLimitHit(cumulativeLoss')
      BY TradeDrift
    <3>3. ASSUME i \in DOMAIN positions'
          PROVE  positions'[i].quantity \in Int /\ positions'[i].quantity > 0
      BY <3>1, <3>2, <3>3 DEF BooksInv, PositionsNetTrades, TypeOK, Position
    <3> QED BY <3>3
  <2>3. Drift = rest \/ Drift = -rest
    BY <2>1 DEF Signed
  <2>4. rest # 0 => rest \in 0..held - 1
    BY <2>1
  <2> HIDE DEF rest, held
  <2>5. -held < Drift /\ Drift < held
    BY <2>1, <2>2, <2>3, <2>4
  <2> QED BY <2>5 DEF held
<1> QED BY <1>1, BooksAlways, PTL DEF Spec, EquityMovesByRounding

\* As long as average prices come out even, a trade at the market price makes
\* nobody richer, whether it opens, adds to, reduces, closes or reverses.
THEOREM EquityIsUnmovedByEvenTrades == Spec /\ AveragesEven => EquityUnmovedByTrade
<1>1. BooksInv /\ [Next]_vars
      /\ [trades' # trades =>
            LET trade == trades'[Len(trades')]
            IN  Remainder(positions, trade.instrument, trade.side,
                          trade.quantity, trade.price) = 0]_vars
      => [trades' # trades =>
            LET trade == trades'[Len(trades')]
                Value(book) == IF trade.instrument \in DOMAIN book
                               THEN LET pos == book[trade.instrument]
                                    IN  Gain(pos, pos.quantity, trade.price)
                               ELSE 0
            IN  account'.balance + Value(positions') = account.balance + Value(positions)]_vars
  <2> SUFFICES ASSUME BooksInv, [Next]_vars, trades' # trades,
                      Remainder(positions, trades'[Len(trades')].instrument,
                                trades'[Len(trades')].side, trades'[Len(trades')].quantity,
                                trades'[Len(trades')].price) = 0
               PROVE  LET trade == trades'[Len(trades')]
                      IN  account'.balance + ValueAt(positions', trade.instrument, trade.price)
                            = account.balance + ValueAt(positions, trade.instrument, trade.price)
    BY DEF ValueAt, vars
  <2> DEFINE trade  == trades'[Len(trades')]
             before == ValueAt(positions, trade.instrument, trade.price)
             after  == ValueAt(positions', trade.instrument, trade.price)
  <2>1. /\ Drift = Signed(trade.side, 0)
        /\ account.balance \in Int /\ account'.balance \in Int
        /\ before \in Int /\ after \in Int
    BY TradeDrift
  <2>2. Signed(trade.side, 0) = 0
    BY SignedZero
  <2>3. Drift = account'.balance + after - (account.balance + before)
    BY DEF Drift
  <2> HIDE DEF before, after
  <2>4. account'.balance + after = account.balance + before
    BY <2>1, <2>2, <2>3
  <2> QED BY <2>4 DEF before, after
<1> QED BY <1>1, BooksAlways, PTL DEF Spec, AveragesEven, EquityUnmovedByTrade

-----------------------------------------------------------------------------
(* The margin ledger.                                                      *)

\* What relates the service to the ledger: the books while they agree, the
\* locks of live orders, and no more orders than the ledger has holds for.
LedgerInv ==
  /\ BooksInv
  /\ LocksMatchLiveLimits
  /\ Len(store) <= MaxOrders

\* Funds free in the ledger are the available balance of the account.
LEMMA FreeIsAvailable ==
  ASSUME LedgerInv, ~LossLimitHit(cumulativeLoss)
  PROVE  Ledger!Free = AvailableBalance(account)
<1> DEFINE Lock(id) == IF id \in DOMAIN marginLocks THEN marginLocks[id] ELSE 0
           holds == [id \in 1..MaxOrders |-> Lock(id)]
<1>1. MarginInv /\ TypeOK /\ MaxOrders \in Nat
  BY ServiceAssumption DEF LedgerInv, BooksInv, MarginInv
<1>2. Ledger!Held = SumUpTo(holds, MaxOrders)
  BY DEF Ledger!Held, Ledger!SumUpTo, SumUpTo
<1>3. /\ Len(store) \in Nat /\ OrderId = 1..Len(store) /\ Locks \in [1..Len(store) -> Int]
      /\ DOMAIN marginLocks \subseteq 1..Len(store)
  BY <1>1, LocksBounded DEF TypeOK
<1>4. \A id \in DOMAIN marginLocks : marginLocks[id] \in Int
  BY <1>1 DEF TypeOK
<1>5. Len(store) <= MaxOrders
  BY DEF LedgerInv
<1>6. holds \in [1..MaxOrders -> Int]
  BY <1>4
<1>7. \A id \in 1..MaxOrders : holds[id] = IF id <= Len(store) THEN Locks[id] ELSE 0
  BY <1>3, <1>5 DEF Locks, LockOf
<1>8. account.locked = SumUpTo(Locks, Len(store))
  BY <1>1 DEF MarginInv, MarginConserved, Locks
<1>9. Ledger!Held = account.locked
  <2> DEFINE f == Locks
             n == Len(store)
  <2>1. n \in Nat /\ n <= MaxOrders /\ f \in [1..n -> Int]
    BY <1>3, <1>5
  <2>2. \A id \in 1..MaxOrders : holds[id] = IF id <= n THEN f[id] ELSE 0
    BY <1>7
  <2>3. Ledger!Held = SumUpTo(holds, MaxOrders) /\ account.locked = SumUpTo(f, n)
    BY <1>2, <1>8
  <2> HIDE DEF holds, f, n
  <2> QED BY <1>1, <1>6, <2>1, <2>2, <2>3, SumIgnoresZeros
<1>10. account.balance = InitialBalance + netCash + RealizedInTrades
  BY DEF LedgerInv, BooksInv, BalanceReconciles
<1>11. Ledger!Free = InitialBalance + netCash + RealizedInTrades - Ledger!Held
  BY DEF Ledger!Free
<1>12. AvailableBalance(account) = account.balance - account.locked
  BY DEF AvailableBalance
<1>13. /\ account.balance \in Int /\ account.locked \in Int
       /\ InitialBalance \in Int /\ netCash \in Int /\ RealizedInTrades \in Int
  BY <1>1, ServiceAssumption, SumsAreInts DEF TypeOK, Account
<1> HIDE DEF Lock, holds
<1> QED BY <1>9, <1>10, <1>11, <1>12, <1>13

\* A step that holds nothing, gives nothing back and moves no cash realizes
\* profit or loss, or is no step of the ledger.
LEMMA LedgerStays ==
  ASSUME netCash' = netCash, marginLocks' = marginLocks
  PROVE  [Ledger!LedgerNext]_(Ledger!ledgerVars)
<1>1. CASE RealizedInTrades' = RealizedInTrades
  BY <1>1 DEF Ledger!ledgerVars
<1>2. CASE RealizedInTrades' # RealizedInTrades
  <2>1. Ledger!Realize
    BY <1>2 DEF Ledger!Realize
  <2> QED BY <2>1 DEF Ledger!LedgerNext
<1> QED BY <1>1, <1>2

\* A lock that is given back is a hold that is given back, if there is one.
LEMMA LedgerReleases ==
  ASSUME TypeOK, NEW id \in OrderId, Len(store) <= MaxOrders,
         netCash' = netCash, marginLocks' = Remove(marginLocks, id)
  PROVE  [Ledger!LedgerNext]_(Ledger!ledgerVars)
<1>1. CASE id \in DOMAIN marginLocks
  <2>1. id \in 1..MaxOrders
    BY ServiceAssumption DEF TypeOK, OrderId
  <2>2. Ledger!Release(id)
    BY <1>1 DEF Ledger!Release, Ledger!Remove, Ledger!Restrict, Remove, Restrict
  <2> QED BY <2>1, <2>2 DEF Ledger!LedgerNext
<1>2. CASE id \notin DOMAIN marginLocks
  <2>1. marginLocks = [k \in DOMAIN marginLocks |-> marginLocks[k]]
    BY DEF TypeOK
  <2>2. DOMAIN marginLocks \ {id} = DOMAIN marginLocks
    BY <1>2
  <2>3. marginLocks' = marginLocks
    BY <2>1, <2>2 DEF Remove, Restrict
  <2> QED BY <2>3, LedgerStays
<1> QED BY <1>1, <1>2

\* The margin of a limit order that is accepted is held from free funds.
LEMMA LedgerHolds ==
  ASSUME LedgerInv, ~LossLimitHit(cumulativeLoss), NEW req \in Requests, SubmitLimit(req)
  PROVE  Ledger!LedgerNext
<1> DEFINE margin == MarginOf(req)
<1>1. TypeOK /\ MaxOrders \in Nat
  BY ServiceAssumption DEF LedgerInv, BooksInv, MarginInv
<1>2. /\ margin > 0 /\ margin <= AvailableBalance(account)
      /\ marginLocks' = Insert(marginLocks, NextId, margin)
      /\ Len(store) < MaxOrders
      /\ trades' = trades /\ netCash' = netCash
  BY DEF SubmitLimit, CanReserve, CanLock, Admits
<1>3. PICK next : next = NextId
  OBVIOUS
<1>4. next \in 1..MaxOrders /\ next \notin DOMAIN marginLocks
  BY <1>1, <1>2, <1>3 DEF TypeOK, OrderId, NextId
<1> HIDE DEF margin
<1>5. /\ DOMAIN marginLocks' = DOMAIN marginLocks \cup {next}
      /\ marginLocks'[next] = margin
      /\ \A id \in DOMAIN marginLocks : marginLocks'[id] = marginLocks[id]
  BY <1>2, <1>3, <1>4 DEF Insert
<1>6. Ledger!Restrict(marginLocks', DOMAIN marginLocks) = marginLocks
  <2>1. marginLocks = [id \in DOMAIN marginLocks |-> marginLocks[id]]
    BY <1>1 DEF TypeOK
  <2> QED BY <1>5, <2>1 DEF Ledger!Restrict
<1>7. Ledger!Free = AvailableBalance(account)
  BY FreeIsAvailable
<1>8. RealizedInTrades' = RealizedInTrades
  BY <1>2, SameTrades
<1>9. Ledger!Hold(next)
  BY <1>2, <1>4, <1>5, <1>6, <1>7, <1>8 DEF Ledger!Hold
<1> QED BY <1>4, <1>9 DEF Ledger!LedgerNext

\* Below the loss limit every step of the service is a step of the ledger.
LEMMA StepLedger ==
  ASSUME LedgerInv, ~LossLimitHit(cumulativeLoss), [Next]_vars
  PROVE  [Ledger!LedgerNext]_(Ledger!ledgerVars)
<1>t. MarginInv /\ TypeOK
  BY DEF LedgerInv, BooksInv, MarginInv
<1>1. ASSUME NEW req \in Requests,
             SubmitFok(req) \/ SubmitLimit(req) \/ SubmitMarket(req) \/ SubmitStop(req)
               \/ SubmitIoc(req)
      PROVE  [Ledger!LedgerNext]_(Ledger!ledgerVars)
  <2>1. CASE SubmitLimit(req)
    BY <2>1, LedgerHolds
  <2>2. CASE ~SubmitLimit(req)
    BY <1>1, <2>2, LedgerStays DEF SubmitFok, SubmitMarket, SubmitStop, SubmitIoc
  <2> QED BY <2>1, <2>2
<1>2. ASSUME NEW id \in OrderId, CancelOrder(id)
      PROVE  [Ledger!LedgerNext]_(Ledger!ledgerVars)
  BY <1>t, <1>2, LedgerReleases DEF CancelOrder, LedgerInv
<1>3. ASSUME NEW id \in OrderId, NEW qty \in FillQuantities,
             \/ RefuseFill(id, qty)
             \/ \E price \in FillPrices : AbandonFill(id, qty, price)
      PROVE  [Ledger!LedgerNext]_(Ledger!ledgerVars)
  <2>1. ~ReleaseFails(id)
    BY <1>t, LocksBounded DEF ReleaseFails
  <2> QED BY <1>3, <2>1, LedgerStays DEF RefuseFill, AbandonFill
<1>4. ASSUME NEW id \in OrderId, NEW qty \in FillQuantities, NEW price \in FillPrices,
             SettleFill(id, qty, price)
      PROVE  [Ledger!LedgerNext]_(Ledger!ledgerVars)
  <2>1. /\ netCash' = netCash
        /\ marginLocks' = IF FillsUp(id, qty) THEN Remove(marginLocks, id) ELSE marginLocks
    BY <1>4 DEF SettleFill
  <2> QED BY <1>t, <2>1, LedgerReleases, LedgerStays DEF LedgerInv
<1>5. ASSUME NEW amount \in CashAmounts, Deposit(amount) \/ Withdraw(amount)
      PROVE  Ledger!LedgerNext
  <2>1. /\ amount \in Nat \ {0} /\ netCash \in Int
        /\ marginLocks' = marginLocks /\ RealizedInTrades' = RealizedInTrades
    BY <1>t, <1>5, ServiceAssumption, SameTrades DEF TypeOK, Deposit, Withdraw
  <2>2. CASE Deposit(amount)
    <3>1. netCash' > netCash
      BY <2>1, <2>2 DEF Deposit
    <3>2. Ledger!PayIn
      BY <2>1, <3>1 DEF Ledger!PayIn
    <3> QED BY <3>2 DEF Ledger!LedgerNext
  <2>3. CASE Withdraw(amount)
    <3>1. /\ netCash' < netCash /\ netCash - netCash' = amount
          /\ amount <= AvailableBalance(account)
      BY <2>1, <2>3 DEF Withdraw, CanWithdraw
    <3>2. Ledger!Free = AvailableBalance(account)
      BY FreeIsAvailable
    <3>3. Ledger!PayOut
      BY <2>1, <3>1, <3>2 DEF Ledger!PayOut
    <3> QED BY <3>3 DEF Ledger!LedgerNext
  <2> QED BY <1>5, <2>2, <2>3
<1>6. ASSUME NEW known \in SUBSET Instrument, NEW marks \in [known -> MarketPrices],
             UpdatePositionsPnl(marks)
      PROVE  [Ledger!LedgerNext]_(Ledger!ledgerVars)
  BY <1>6, LedgerStays DEF UpdatePositionsPnl
<1>7. ASSUME NEW i \in Instrument, NEW price \in MarketPrices, OnPriceUpdate(i, price)
      PROVE  [Ledger!LedgerNext]_(Ledger!ledgerVars)
  BY <1>7, LedgerStays DEF OnPriceUpdate
<1>8. CASE UNCHANGED vars
  BY <1>8, LedgerStays DEF vars
<1>9. CASE Next
  BY <1>1, <1>2, <1>3, <1>4, <1>5, <1>6, <1>7, <1>9, NextCases
<1> QED BY <1>8, <1>9

\* Submissions stop at the bound on orders.
LEMMA StepLedgerInv == LedgerInv /\ [Next]_vars => LedgerInv'
<1> SUFFICES ASSUME LedgerInv, [Next]_vars PROVE LedgerInv'
  OBVIOUS
<1>1. TypeOK /\ TypeOK' /\ MarginInv /\ MaxOrders \in Nat
  BY StepType, ServiceAssumption DEF LedgerInv, BooksInv, MarginInv
<1>2. ASSUME Adds PROVE Len(store') <= MaxOrders
  <2>1. Len(store') = Len(store) + 1 /\ Len(store) \in Nat
    BY <1>1, <1>2, SaveType DEF Adds, TypeOK
  <2>2. store' # store
    BY <2>1
  <2>3. Next
    BY <2>2 DEF vars
  <2>4. (\E req \in Requests : Admits(req)) \/ DOMAIN store' = DOMAIN store
    BY <2>3, NextCases
       DEF SubmitFok, SubmitLimit, SubmitMarket, SubmitStop, SubmitIoc, CancelOrder,
           RefuseFill, AbandonFill, SettleFill, EnterFill, Deposit, Withdraw,
           UpdatePositionsPnl, OnPriceUpdate, OrderId
  <2>5. DOMAIN store' = DOMAIN store => Len(store') = Len(store)
    BY <1>1, LenProperties DEF TypeOK
  <2> QED BY <1>1, <2>1, <2>4, <2>5 DEF Admits
<1>3. ASSUME OrderId' = OrderId PROVE Len(store') <= MaxOrders
  <2>1. Len(store') = Len(store)
    BY <1>1, <1>3, LenProperties DEF OrderId, TypeOK
  <2> QED BY <2>1 DEF LedgerInv
<1>4. Len(store') <= MaxOrders
  <2>1. CASE \E id \in OrderId, qty \in FillQuantities, price \in FillPrices :
               SettleFill(id, qty, price)
    <3>1. OrderId' = OrderId
      BY <2>1 DEF SettleFill, EnterFill, OrderId
    <3> QED BY <1>3, <3>1
  <2>2. CASE Leaves \/ Counts
    <3>1. OrderId' = OrderId
      BY <2>2 DEF Leaves, Counts, OrderId
    <3> QED BY <1>3, <3>1
  <2> QED BY <1>1, <1>2, <2>1, <2>2, StepQuietOrSettles
<1> QED BY <1>1, <1>4, StepBooks, StepLocks DEF LedgerInv

LEMMA InitLedgerInv == Init => LedgerInv
<1> SUFFICES ASSUME Init PROVE LedgerInv
  OBVIOUS
<1>1. Len(store) = 0 /\ MaxOrders \in Nat
  BY EmptySeq, ServiceAssumption DEF Init
<1> QED BY <1>1, InitBooks, InitLocks DEF LedgerInv

\* As long as the loss limit has not been hit, every call moves cash, holds and
\* realized profit as the margin ledger allows: only free funds are held or
\* withdrawn, and a hold is given back whole or not at all.
THEOREM StepsAreLedgerSteps ==
  Spec => [][~LossLimitHit(cumulativeLoss) => [Ledger!LedgerNext]_(Ledger!ledgerVars)]_vars
<1> DEFINE LedgerStep ==
             ~LossLimitHit(cumulativeLoss) => [Ledger!LedgerNext]_(Ledger!ledgerVars)
<1>1. LedgerInv /\ [Next]_vars => [LedgerStep]_vars
  BY StepLedger
<1> HIDE DEF LedgerStep
<1>2. Spec => [][LedgerStep]_vars
  BY <1>1, InitLedgerInv, StepLedgerInv, PTL DEF Spec
<1> QED BY <1>2 DEF LedgerStep

\* An account without a loss limit implements the margin ledger: its balance,
\* its locked counter and its map of locks, updated in different places, are
\* one ledger of cash, profit and holds.
THEOREM ServiceImplementsLedger == MaxLoss = {} => (Spec => ImplementsMarginLedger)
<1> SUFFICES ASSUME MaxLoss = {} PROVE Spec => ImplementsMarginLedger
  OBVIOUS
<1>1. Init => Ledger!LedgerInit
  <2>1. Init => RealizedInTrades = 0
    BY NoTradesAddUp DEF Init
  <2> QED BY <2>1 DEF Init, Ledger!LedgerInit
<1>2. LedgerInv /\ [Next]_vars => [Ledger!LedgerNext]_(Ledger!ledgerVars)
  BY StepLedger DEF LossLimitHit
<1> QED BY <1>1, <1>2, InitLedgerInv, StepLedgerInv, PTL
        DEF Spec, ImplementsMarginLedger, Ledger!LedgerSpec
=============================================================================
