-------------------------- MODULE PersistenceProofs --------------------------
(***************************************************************************)
(* What the tables keep and what the command line has answered, for every  *)
(* value of the constants.                                                 *)
(***************************************************************************)
EXTENDS CommandLineProperties, MarginProofs

\* A sequence of whatever values.
IsSequence(s) == \E S : s \in Seq(S)

LEMMA AppendExtends ==
  ASSUME NEW s, IsSequence(s), NEW e
  PROVE  /\ IsSequence(Append(s, e))
         /\ Len(s) \in Nat /\ Len(Append(s, e)) = Len(s) + 1
         /\ DOMAIN s = 1..Len(s) /\ DOMAIN Append(s, e) = 1..Len(s) + 1
         /\ \A n \in DOMAIN s : Append(s, e)[n] = s[n]
         /\ Append(s, e)[Len(s) + 1] = e
<1>1. PICK S : s \in Seq(S)
  BY DEF IsSequence
<1> DEFINE T == S \cup {e}
<1>2. s \in Seq(T) /\ e \in T
  BY <1>1
<1> HIDE DEF T
<1>3. Append(s, e) \in Seq(T)
  BY <1>2
<1> QED BY <1>2, <1>3 DEF IsSequence

-----------------------------------------------------------------------------
(* Rows.                                                                   *)

LEMMA Options ==
  /\ {} \in Option(Int)
  /\ \A x \in Int : {x} \in Option(Int)
  BY DEF Option

\* What the order is when it is saved.
LEMMA SavedOrderIs ==
  ASSUME NEW req \in OrderRequest
  PROVE  \E status \in OrderStatus :
           SavedOrder(req) =
             [instrument |-> req.instrument, side |-> req.side, type |-> req.type,
              quantity |-> req.quantity, filled |-> 0, tif |-> req.tif,
              status |-> status, best |-> {}]
<1> DEFINE status == IF req.tif = "FOK" THEN "Rejected"
                     ELSE IF IsStopType(req.type) THEN "PendingTrigger" ELSE "Accepted"
<1>1. status \in OrderStatus /\ CanMove("New", status)
  BY DEF OrderStatus, CanMove
<1>2. SavedOrder(req) = [NewOrder(req) EXCEPT !.status = status]
  BY <1>1 DEF SavedOrder, MoveTo, NewOrder
<1> HIDE DEF status
<1> QED BY <1>1, <1>2 DEF NewOrder

LEMMA TextsAreKnown ==
  /\ \A side \in Side : SideText[side] \in Range(SideText)
  /\ \A tif \in TimeInForce : TifText[tif] \in Range(TifText)
  /\ \A status \in OrderStatus : StatusText[status] \in Range(StatusText)
  /\ \A type \in OrderType : TypeText[type.kind] \in Range(TypeText)
<1>1. \A side \in Side : side \in DOMAIN SideText
  BY DEF Side, SideText
<1>2. \A tif \in TimeInForce : tif \in DOMAIN TifText
  BY DEF TimeInForce, TifText
<1>3. \A status \in OrderStatus : status \in DOMAIN StatusText
  BY DEF OrderStatus, StatusText
<1>4. \A type \in OrderType : type.kind \in DOMAIN TypeText
  BY DEF OrderType, TypeText
<1> QED BY <1>1, <1>2, <1>3, <1>4 DEF Range

LEMMA PriceColumnsType ==
  ASSUME NEW type \in OrderType
  PROVE  /\ PriceColumns(type).price \in Option(Int)
         /\ PriceColumns(type).trigger \in Option(Int)
         /\ PriceColumns(type).limit \in Option(Int)
<1>1. CASE type \in [kind : {"Market"}]
  BY <1>1, Options DEF PriceColumns
<1>2. CASE type \in [kind : {"Limit"}, price : Int]
  BY <1>2, Options DEF PriceColumns
<1>3. CASE type \in [kind : {"Stop"}, trigger : Int]
  BY <1>3, Options DEF PriceColumns
<1>4. CASE type \in [kind : {"StopLimit"}, trigger : Int, limit : Int]
  BY <1>4, Options DEF PriceColumns
<1>5. CASE type \in [kind : {"TrailingStop"}, trail : Int]
  BY <1>5, Options DEF PriceColumns
<1> QED BY <1>1, <1>2, <1>3, <1>4, <1>5 DEF OrderType

LEMMA SavedRowType ==
  ASSUME NEW req \in OrderRequest
  PROVE  RowOf(SavedOrder(req)) \in Row
<1>1. PICK status \in OrderStatus :
        SavedOrder(req) =
          [instrument |-> req.instrument, side |-> req.side, type |-> req.type,
           quantity |-> req.quantity, filled |-> 0, tif |-> req.tif,
           status |-> status, best |-> {}]
  BY SavedOrderIs
<1>2. /\ req.instrument \in Instrument /\ req.side \in Side /\ req.type \in OrderType
      /\ req.quantity \in Int /\ req.tif \in TimeInForce
  BY DEF OrderRequest
<1> QED BY <1>1, <1>2, TextsAreKnown, PriceColumnsType, Options DEF RowOf, Row

\* A row the table accepts reads back with the terms of the request.
LEMMA SavedRowReadsBack ==
  ASSUME NEW req \in OrderRequest, Accepts(RowOf(SavedOrder(req)))
  PROVE  \E order \in OrderOf(RowOf(SavedOrder(req))) :
           /\ order.instrument = req.instrument /\ order.side = req.side
           /\ order.type = req.type /\ order.quantity = req.quantity
           /\ order.tif = req.tif
<1>1. PICK status \in OrderStatus :
        SavedOrder(req) =
          [instrument |-> req.instrument, side |-> req.side, type |-> req.type,
           quantity |-> req.quantity, filled |-> 0, tif |-> req.tif,
           status |-> status, best |-> {}]
  BY SavedOrderIs
<1> DEFINE row == RowOf(SavedOrder(req))
<1>2. /\ req.side \in Side /\ req.type \in OrderType /\ req.tif \in TimeInForce
  BY DEF OrderRequest
<1>3. /\ row.instrument = req.instrument /\ row.quantity = req.quantity
      /\ row.side = SideText[req.side] /\ row.tif = TifText[req.tif]
      /\ row.status = StatusText[status]
      /\ row.type = TypeText[req.type.kind]
      /\ row.price = PriceColumns(req.type).price
  BY <1>1 DEF RowOf
<1>4. req.side \in Read(SideText, row.side)
  BY <1>2, <1>3 DEF Read, SideText, Side
<1>5. req.tif \in Read(TifText, row.tif)
  BY <1>2, <1>3 DEF Read, TifText, TimeInForce
<1>6. status \in Read(StatusText, row.status)
  BY <1>3 DEF Read, StatusText, OrderStatus
<1>7. req.type \in TypeOf(row)
  <2>0. row.type \in {"market", "limit"}
    BY DEF Accepts
  <2> HIDE DEF row
  <2>1. CASE req.type \in [kind : {"Market"}]
    BY <1>3, <2>1 DEF TypeText, TypeOf
  <2>2. CASE req.type \in [kind : {"Limit"}, price : Int]
    <3>1. row.type = "limit" /\ row.price = {req.type.price}
      BY <1>3, <2>2 DEF TypeText, PriceColumns
    <3> QED BY <2>2, <3>1 DEF TypeOf
  <2>3. CASE req.type \notin [kind : {"Market"}] \cup [kind : {"Limit"}, price : Int]
    BY <1>2, <1>3, <2>0, <2>3 DEF OrderType, TypeText
  <2> QED BY <2>1, <2>2, <2>3
<1> DEFINE order ==
      [instrument |-> row.instrument, side |-> req.side, type |-> req.type,
       quantity |-> row.quantity, filled |-> row.filled, tif |-> req.tif,
       status |-> status, best |-> row.best]
<1> HIDE DEF row
<1>8. order \in OrderOf(row)
  BY <1>4, <1>5, <1>6, <1>7 DEF OrderOf
<1> QED BY <1>3, <1>8 DEF row

\* Saving an order as it was read changes nothing in its row but the time.
LEMMA UpsertOfRead ==
  ASSUME NEW row \in Row, NEW order \in OrderOf(row)
  PROVE  Upsert(row, RowOf(order)) = Touched(row)
<1>1. /\ order.status \in Read(StatusText, row.status)
      /\ order.filled = row.filled /\ order.best = row.best
  BY DEF OrderOf
<1>2. StatusText[order.status] = row.status
  BY <1>1 DEF Read
<1>3. /\ RowOf(order).status = row.status /\ RowOf(order).filled = row.filled
      /\ RowOf(order).best = row.best
  BY <1>1, <1>2 DEF RowOf
<1> QED BY <1>3 DEF Upsert, Touched, Row

\* The time of the last update is no part of the order that is read.
LEMMA TouchedReadsSame ==
  ASSUME NEW row \in Row
  PROVE  Touched(row) \in Row /\ OrderOf(Touched(row)) = OrderOf(row)
<1>1. Touched(row) \in Row
  BY DEF Touched, Row
<1> DEFINE after == Touched(row)
<1>2. /\ after.instrument = row.instrument /\ after.side = row.side /\ after.type = row.type
      /\ after.price = row.price /\ after.quantity = row.quantity
      /\ after.filled = row.filled /\ after.tif = row.tif /\ after.status = row.status
      /\ after.trigger = row.trigger /\ after.limit = row.limit
      /\ after.trail = row.trail /\ after.best = row.best
  BY DEF Touched, Row
<1> HIDE DEF after
<1>3. TypeOf(after) = TypeOf(row)
  BY <1>2 DEF TypeOf
<1>4. OrderOf(after) = OrderOf(row)
  BY <1>2, <1>3 DEF OrderOf
<1> QED BY <1>1, <1>4 DEF after

-----------------------------------------------------------------------------
(* What the steps do to the tables.                                        *)

TablesInv ==
  /\ orderRows \in Seq(Row)
  /\ IsSequence(tradeRows)
  /\ IsSequence(trades)

\* Both tables keep their records.
TablesKept ==
  /\ Len(orderRows) <= Len(orderRows')
  /\ \A n \in DOMAIN orderRows : orderRows'[n] \in {orderRows[n], Touched(orderRows[n])}
  /\ Len(tradeRows) <= Len(tradeRows')
  /\ \A n \in DOMAIN tradeRows : tradeRows'[n] = tradeRows[n]

LEMMA SequencesHaveLength ==
  ASSUME NEW s, IsSequence(s)
  PROVE  Len(s) \in Nat /\ DOMAIN s = 1..Len(s)
  BY DEF IsSequence

LEMMA EmptyIsSequence == IsSequence(<<>>)
  BY DEF IsSequence

LEMMA LinesAreRequests ==
  ASSUME NEW line \in SubmitLines, NEW req \in RequestsOf(line)
  PROVE  req \in OrderRequest
<1>1. line \in Line
  BY CommandAssumption
<1>2. ParseOrderType(line.type, line.price) \in OrderType
  <2>1. line.price \in Int
    BY <1>1 DEF Line
  <2> QED BY <2>1 DEF ParseOrderType, OrderType
<1> QED BY <1>1, <1>2 DEF RequestsOf, ParseSide, Line, OrderRequest, TimeInForce

\* An insert adds a row at the end of the table, and nothing else.
LEMMA SubmitSavedTables ==
  ASSUME TablesInv, NEW req \in OrderRequest, SubmitSaved(req)
  PROVE  /\ TablesInv' /\ TablesKept
         /\ Len(orderRows') \in DOMAIN orderRows'
         /\ orderRows'[Len(orderRows')] = RowOf(SavedOrder(req))
         /\ Accepts(RowOf(SavedOrder(req)))
<1> DEFINE row == RowOf(SavedOrder(req))
<1>1. row \in Row
  BY SavedRowType
<1>2. orderRows' = Append(orderRows, row) /\ tradeRows' = tradeRows /\ Accepts(row)
  BY DEF SubmitSaved
<1>3. trades' = trades
  BY DEF SubmitSaved, SubmitOrder, SubmitFok, SubmitLimit, SubmitMarket, SubmitStop, SubmitIoc
<1> HIDE DEF row
<1>4. IsSequence(orderRows)
  BY DEF TablesInv, IsSequence
<1>5. orderRows' \in Seq(Row)
  BY <1>1, <1>2 DEF TablesInv
<1>6. /\ Len(orderRows) \in Nat /\ Len(orderRows') = Len(orderRows) + 1
      /\ DOMAIN orderRows' = 1..Len(orderRows) + 1
      /\ \A n \in DOMAIN orderRows : orderRows'[n] = orderRows[n]
      /\ orderRows'[Len(orderRows) + 1] = row
  BY <1>2, <1>4, AppendExtends
<1>7. Len(tradeRows) \in Nat
  BY SequencesHaveLength DEF TablesInv
<1> QED BY <1>2, <1>3, <1>5, <1>6, <1>7 DEF TablesInv, TablesKept, row

LEMMA FillSavedTables ==
  ASSUME TablesInv, NEW id, NEW qty, NEW price, FillSaved(id, qty, price)
  PROVE  /\ TablesInv' /\ TablesKept
         /\ Len(tradeRows') \in DOMAIN tradeRows' /\ Len(tradeRows') \notin DOMAIN tradeRows
         /\ tradeRows'[Len(tradeRows')].order = ids[id]
         /\ tradeRows'[Len(tradeRows')].quantity = qty
         /\ tradeRows'[Len(tradeRows')].price = price
<1> DEFINE trade ==
      [order |-> id, instrument |-> store[id].instrument, side |-> store[id].side,
       quantity |-> qty, price |-> price,
       pnl |-> RealizedPnl(positions, store[id].instrument, store[id].side, qty, price)]
<1>1. trades' = Append(trades, trade)
  BY DEF FillSaved, SettleFill
<1>2. tradeRows' = Append(tradeRows, RowOfTrade(trades'[Len(trades')])) /\ orderRows' = orderRows
  BY DEF FillSaved
<1> DEFINE row == RowOfTrade(trade)
<1>3. row.order = ids[id] /\ row.quantity = qty /\ row.price = price
  BY DEF RowOfTrade
<1> HIDE DEF trade
<1>4. IsSequence(trades') /\ trades'[Len(trades')] = trade
  BY <1>1, AppendExtends DEF TablesInv
<1>5. tradeRows' = Append(tradeRows, row)
  BY <1>2, <1>4
<1> HIDE DEF row
<1>6. /\ IsSequence(tradeRows')
      /\ Len(tradeRows) \in Nat /\ Len(tradeRows') = Len(tradeRows) + 1
      /\ DOMAIN tradeRows = 1..Len(tradeRows) /\ DOMAIN tradeRows' = 1..Len(tradeRows) + 1
      /\ \A n \in DOMAIN tradeRows : tradeRows'[n] = tradeRows[n]
      /\ tradeRows'[Len(tradeRows) + 1] = row
  BY <1>5, AppendExtends DEF TablesInv
<1>7. Len(orderRows) \in Nat
  BY DEF TablesInv
<1> QED BY <1>2, <1>3, <1>4, <1>6, <1>7 DEF TablesInv, TablesKept

\* Restoring saves what it reads, and so changes nothing that is read.
LEMMA RestartTables ==
  ASSUME TablesInv, Restart
  PROVE  /\ TablesInv' /\ TablesKept
         /\ DOMAIN orderRows' = DOMAIN orderRows
         /\ \A n \in DOMAIN orderRows : OrderOf(orderRows'[n]) = OrderOf(orderRows[n])
<1>1. PICK read \in SUBSET RestorableRows :
        orderRows' = [n \in DOMAIN orderRows |->
                        IF n \in read THEN Upsert(orderRows[n], RowOf(RestoredOrder(n)))
                        ELSE orderRows[n]]
  BY DEF Restart, RestoreFromDb
<1>2. ASSUME NEW n \in DOMAIN orderRows
      PROVE  orderRows'[n] \in {orderRows[n], Touched(orderRows[n])}
  <2>1. CASE n \in read
    <3>1. OrderOf(orderRows[n]) # {}
      BY <2>1 DEF RestorableRows
    <3>2. RestoredOrder(n) \in OrderOf(orderRows[n])
      BY <3>1 DEF RestoredOrder
    <3>3. orderRows[n] \in Row
      BY DEF TablesInv
    <3> QED BY <1>1, <2>1, <3>2, <3>3, UpsertOfRead
  <2>2. CASE n \notin read
    BY <1>1, <2>2
  <2> QED BY <2>1, <2>2
<1>3. ASSUME NEW n \in DOMAIN orderRows
      PROVE  orderRows'[n] \in Row /\ OrderOf(orderRows'[n]) = OrderOf(orderRows[n])
  <2>1. orderRows[n] \in Row
    BY DEF TablesInv
  <2> QED BY <1>2, <2>1, TouchedReadsSame
<1>4. tradeRows' = tradeRows /\ trades' = <<>>
  BY DEF Restart
<1>5. Len(orderRows) \in Nat /\ Len(tradeRows) \in Nat /\ DOMAIN orderRows = 1..Len(orderRows)
  BY SequencesHaveLength DEF TablesInv
<1>6. DOMAIN orderRows' = DOMAIN orderRows /\ orderRows' \in Seq(Row)
      /\ Len(orderRows') = Len(orderRows)
  <2>1. DOMAIN orderRows' = DOMAIN orderRows
    BY <1>1
  <2>2. orderRows' = [n \in 1..Len(orderRows) |-> orderRows'[n]]
    BY <1>1, <1>5, <2>1
  <2>3. orderRows' \in [1..Len(orderRows) -> Row]
    BY <1>3, <1>5, <2>2
  <2>4. orderRows' \in Seq(Row) /\ Len(orderRows') = Len(orderRows)
    BY <1>5, <2>3
  <2> QED BY <2>1, <2>4
<1>7. TablesKept
  BY <1>2, <1>4, <1>5, <1>6 DEF TablesKept
<1> QED BY <1>3, <1>4, <1>6, <1>7, EmptyIsSequence DEF TablesInv

\* Everything else writes nothing.
LEMMA UnwrittenTables ==
  ASSUME TablesInv, UNCHANGED tables, IsSequence(trades')
  PROVE  TablesInv' /\ TablesKept
<1>1. Len(orderRows) \in Nat /\ Len(tradeRows) \in Nat
  BY SequencesHaveLength DEF TablesInv
<1> QED BY <1>1 DEF TablesInv, TablesKept, tables

LEMMA FillFailsTables ==
  ASSUME TablesInv, NEW id, NEW qty, NEW price,
         FillFails(id, qty, price) \/ FillUnsaved(id, qty, price)
  PROVE  UNCHANGED tables /\ IsSequence(trades')
<1>1. CASE FillFails(id, qty, price)
  BY <1>1 DEF FillFails, RefuseFill, AbandonFill, persistenceVars, TablesInv
<1>2. CASE FillUnsaved(id, qty, price)
  <2>1. \/ trades' = trades
        \/ \E trade : trades' = Append(trades, trade)
    BY <1>2 DEF FillUnsaved, SettleFill
  <2>2. IsSequence(trades)
    BY DEF TablesInv
  <2>3. CASE \E trade : trades' = Append(trades, trade)
    <3>1. PICK trade : trades' = Append(trades, trade)
      BY <2>3
    <3>2. IsSequence(Append(trades, trade))
      BY <2>2, AppendExtends
    <3> QED BY <1>2, <3>1, <3>2 DEF FillUnsaved, persistenceVars
  <2> QED BY <1>2, <2>1, <2>2, <2>3 DEF FillUnsaved, persistenceVars
<1> QED BY <1>1, <1>2

-----------------------------------------------------------------------------
(* The steps of the command line.                                          *)

SessionInv == TablesInv /\ ToldOrdersSurvive /\ ToldFillsSurvive

\* Answers stand while the tables keep their rows.
LEMMA AnswersStand ==
  ASSUME SessionInv, TablesInv', TablesKept
  PROVE  /\ \A answer \in told : answer.says = "created" =>
              /\ answer.row \in DOMAIN orderRows'
              /\ AsRequested(answer.row, answer.request)' # {}
         /\ \A answer \in told : answer.says = "filled" =>
              /\ answer.trade \in DOMAIN tradeRows
              /\ answer.trade \in DOMAIN tradeRows'
              /\ tradeRows'[answer.trade].order = answer.row
              /\ tradeRows'[answer.trade].quantity = answer.quantity
              /\ tradeRows'[answer.trade].price = answer.price
<1>1. /\ Len(orderRows) \in Nat /\ Len(orderRows') \in Nat
      /\ DOMAIN orderRows = 1..Len(orderRows) /\ DOMAIN orderRows' = 1..Len(orderRows')
  BY DEF SessionInv, TablesInv
<1>2. /\ Len(tradeRows) \in Nat /\ Len(tradeRows') \in Nat
      /\ DOMAIN tradeRows = 1..Len(tradeRows) /\ DOMAIN tradeRows' = 1..Len(tradeRows')
  BY SequencesHaveLength DEF SessionInv, TablesInv
<1>3. ASSUME NEW answer \in told, answer.says = "created"
      PROVE  answer.row \in DOMAIN orderRows' /\ AsRequested(answer.row, answer.request)' # {}
  <2>1. answer.row \in DOMAIN orderRows /\ AsRequested(answer.row, answer.request) # {}
    BY <1>3 DEF SessionInv, ToldOrdersSurvive
  <2>2. /\ answer.row \in DOMAIN orderRows'
        /\ orderRows'[answer.row] \in {orderRows[answer.row], Touched(orderRows[answer.row])}
    BY <1>1, <2>1 DEF TablesKept
  <2>3. orderRows[answer.row] \in Row
    BY <2>1 DEF SessionInv, TablesInv
  <2>4. OrderOf(orderRows'[answer.row]) = OrderOf(orderRows[answer.row])
    BY <2>2, <2>3, TouchedReadsSame
  <2> QED BY <2>1, <2>2, <2>4 DEF AsRequested
<1>4. ASSUME NEW answer \in told, answer.says = "filled"
      PROVE  /\ answer.trade \in DOMAIN tradeRows
             /\ answer.trade \in DOMAIN tradeRows'
             /\ tradeRows'[answer.trade].order = answer.row
             /\ tradeRows'[answer.trade].quantity = answer.quantity
             /\ tradeRows'[answer.trade].price = answer.price
  <2>1. /\ answer.trade \in DOMAIN tradeRows
        /\ tradeRows[answer.trade].order = answer.row
        /\ tradeRows[answer.trade].quantity = answer.quantity
        /\ tradeRows[answer.trade].price = answer.price
    BY <1>4 DEF SessionInv, ToldFillsSurvive
  <2> QED BY <1>2, <2>1 DEF TablesKept
<1> QED BY <1>3, <1>4

LEMMA NothingTold ==
  ASSUME SessionInv, TablesInv', TablesKept, told' = told
  PROVE  SessionInv'
<1>1. ToldOrdersSurvive'
  BY AnswersStand DEF ToldOrdersSurvive
<1>2. ToldFillsSurvive'
  BY AnswersStand DEF ToldFillsSurvive, SessionInv
<1> QED BY <1>1, <1>2 DEF SessionInv

LEMMA HandleSubmitKeeps ==
  ASSUME SessionInv, NEW line \in SubmitLines, HandleSubmit(line)
  PROVE  SessionInv' /\ TablesKept
<1>1. PICK req \in RequestsOf(line) :
        /\ SubmitSaved(req)
        /\ told' = told \cup
             {[says |-> "created", row |-> Len(orderRows'), request |-> req]}
  BY DEF HandleSubmit
<1>2. req \in OrderRequest
  BY LinesAreRequests
<1>3. /\ TablesInv' /\ TablesKept
      /\ Len(orderRows') \in DOMAIN orderRows'
      /\ orderRows'[Len(orderRows')] = RowOf(SavedOrder(req))
      /\ Accepts(RowOf(SavedOrder(req)))
  BY <1>1, <1>2, SubmitSavedTables DEF SessionInv
<1>4. PICK order \in OrderOf(orderRows'[Len(orderRows')]) :
        /\ order.instrument = req.instrument /\ order.side = req.side
        /\ order.type = req.type /\ order.quantity = req.quantity
        /\ order.tif = req.tif
  BY <1>2, <1>3, SavedRowReadsBack
<1>5. ToldOrdersSurvive'
  <2>1. ASSUME NEW answer \in told', answer.says = "created"
        PROVE  answer.row \in DOMAIN orderRows' /\ AsRequested(answer.row, answer.request)' # {}
    <3>1. CASE answer \in told
      BY <1>3, <2>1, <3>1, AnswersStand
    <3>2. CASE answer = [says |-> "created", row |-> Len(orderRows'), request |-> req]
      <4>1. answer.row = Len(orderRows') /\ answer.request = req
        BY <3>2
      <4>2. order \in AsRequested(answer.row, answer.request)'
        BY <1>4, <4>1 DEF AsRequested
      <4> QED BY <1>3, <4>1, <4>2
    <3> QED BY <1>1, <2>1, <3>1, <3>2
  <2> QED BY <2>1 DEF ToldOrdersSurvive
<1>6. ToldFillsSurvive'
  <2>1. {answer \in told' : answer.says = "filled"} = {answer \in told : answer.says = "filled"}
    BY <1>1
  <2> QED BY <1>3, <2>1, AnswersStand DEF ToldFillsSurvive, SessionInv
<1> QED BY <1>3, <1>5, <1>6 DEF SessionInv

LEMMA HandleFillKeeps ==
  ASSUME SessionInv, NEW id, NEW qty, NEW price, HandleFill(id, qty, price)
  PROVE  SessionInv' /\ TablesKept
<1> DEFINE new == [says |-> "filled", row |-> ids[id], quantity |-> qty, price |-> price,
                   trade |-> Len(tradeRows')]
<1>1. FillSaved(id, qty, price) /\ told' = told \cup {new}
  BY DEF HandleFill
<1>2. /\ TablesInv' /\ TablesKept
      /\ Len(tradeRows') \in DOMAIN tradeRows' /\ Len(tradeRows') \notin DOMAIN tradeRows
      /\ tradeRows'[Len(tradeRows')].order = ids[id]
      /\ tradeRows'[Len(tradeRows')].quantity = qty
      /\ tradeRows'[Len(tradeRows')].price = price
  BY <1>1, FillSavedTables DEF SessionInv
<1>3. ToldOrdersSurvive'
  BY <1>1, <1>2, AnswersStand DEF ToldOrdersSurvive
<1>4. ToldFillsSurvive'
  <2> DEFINE old == {answer \in told : answer.says = "filled"}
  <2>1. {answer \in told' : answer.says = "filled"} = old \cup {new}
    BY <1>1
  <2>2. /\ new.trade = Len(tradeRows') /\ new.row = ids[id]
        /\ new.quantity = qty /\ new.price = price
    OBVIOUS
  <2>3. \A answer \in old : /\ answer.trade \in DOMAIN tradeRows
                            /\ answer.trade \in DOMAIN tradeRows'
                            /\ tradeRows'[answer.trade].order = answer.row
                            /\ tradeRows'[answer.trade].quantity = answer.quantity
                            /\ tradeRows'[answer.trade].price = answer.price
    BY <1>2, AnswersStand
  <2>4. \A answer, other \in old : other.trade = answer.trade => other = answer
    BY DEF SessionInv, ToldFillsSurvive
  <2> HIDE DEF new, old
  <2>5. \A answer \in old \cup {new} : \A other \in old \cup {new} :
          other.trade = answer.trade => other = answer
    BY <1>2, <2>2, <2>3, <2>4
  <2> QED BY <1>2, <2>1, <2>2, <2>3, <2>5 DEF ToldFillsSurvive
<1> QED BY <1>2, <1>3, <1>4 DEF SessionInv

LEMMA InitSession == CommandInit => SessionInv
<1> SUFFICES ASSUME CommandInit PROVE SessionInv
  OBVIOUS
<1>1. orderRows = <<>> /\ tradeRows = <<>> /\ trades = <<>> /\ told = {}
  BY DEF CommandInit, PersistenceInit, Init
<1> QED BY <1>1, EmptyIsSequence DEF SessionInv, TablesInv, ToldOrdersSurvive, ToldFillsSurvive

LEMMA StepSession == SessionInv /\ [CommandNext]_commandVars => SessionInv' /\ TablesKept
<1> SUFFICES ASSUME SessionInv, [CommandNext]_commandVars PROVE SessionInv' /\ TablesKept
  OBVIOUS
<1>t. TablesInv
  BY DEF SessionInv
<1>0. ASSUME UNCHANGED tables, IsSequence(trades'), told' = told
      PROVE  SessionInv' /\ TablesKept
  BY <1>0, <1>t, UnwrittenTables, NothingTold
<1>1. ASSUME NEW line \in SubmitLines, HandleSubmit(line) PROVE SessionInv' /\ TablesKept
  BY <1>1, HandleSubmitKeeps
<1>2. ASSUME NEW line \in SubmitLines, HandleSubmitFails(line)
      PROVE  SessionInv' /\ TablesKept
  <2>1. UNCHANGED tables /\ trades' = trades /\ told' = told
    BY <1>2 DEF HandleSubmitFails, SubmitUnsaved, tables
  <2> QED BY <1>0, <1>t, <2>1 DEF TablesInv
<1>3. ASSUME NEW id, NEW qty, NEW price, HandleFill(id, qty, price)
      PROVE  SessionInv' /\ TablesKept
  BY <1>3, HandleFillKeeps
<1>4. ASSUME NEW id, NEW qty, NEW price, HandleFillFails(id, qty, price)
      PROVE  SessionInv' /\ TablesKept
  BY <1>0, <1>4, <1>t, FillFailsTables DEF HandleFillFails
<1>5. ASSUME NEW id, HandleCancel(id) PROVE SessionInv' /\ TablesKept
  <2>1. UNCHANGED tables /\ trades' = trades /\ told' = told
    BY <1>5 DEF HandleCancel, CancelInCache, CancelOrder, persistenceVars
  <2> QED BY <1>0, <1>t, <2>1 DEF TablesInv
<1>6. ASSUME NEW amount, HandleCash(amount) PROVE SessionInv' /\ TablesKept
  <2>1. UNCHANGED tables /\ trades' = trades /\ told' = told
    BY <1>6 DEF HandleCash, CashInMemory, Deposit, Withdraw, persistenceVars
  <2> QED BY <1>0, <1>t, <2>1 DEF TablesInv
<1>7. CASE EndAndRestart
  <2>1. Restart /\ told' = told
    BY <1>7 DEF EndAndRestart
  <2> QED BY <1>t, <2>1, RestartTables, NothingTold
<1>8. CASE UNCHANGED commandVars
  <2>1. UNCHANGED tables /\ trades' = trades /\ told' = told
    BY <1>8 DEF commandVars, vars, persistenceVars
  <2> QED BY <1>0, <1>t, <2>1 DEF TablesInv
<1> QED BY <1>1, <1>2, <1>3, <1>4, <1>5, <1>6, <1>7, <1>8 DEF CommandNext, Command

\* No record is ever lost, and of a row nothing but the time of its last update
\* ever changes, through fills and cancels that only the cache sees, failed writes
\* and restarts that end half-way.
THEOREM RecordsStay == CommandSpec => RecordsArePermanent
<1>1. SessionInv /\ [CommandNext]_commandVars => [TablesKept]_commandVars
  BY StepSession
<1> QED BY <1>1, InitSession, StepSession, PTL DEF CommandSpec, RecordsArePermanent, TablesKept

\* An order that was answered for is on record as it was typed and can be read
\* back, whatever happens after.
THEOREM ToldOrdersStand == CommandSpec => []ToldOrdersSurvive
<1>1. SessionInv => ToldOrdersSurvive
  BY DEF SessionInv
<1> QED BY <1>1, InitSession, StepSession, PTL DEF CommandSpec

\* A fill that was answered for has a record of its own, whatever happens after.
THEOREM ToldFillsStand == CommandSpec => []ToldFillsSurvive
<1>1. SessionInv => ToldFillsSurvive
  BY DEF SessionInv
<1> QED BY <1>1, InitSession, StepSession, PTL DEF CommandSpec

-----------------------------------------------------------------------------
(* The cache.  The command line lets quantities through that are not       *)
(* positive, so that what is known of the positions here is less than in   *)
(* TypeOK; and the locks are only known to be positive.                    *)

Holding ==
  [side : {"Buy", "Sell"}, quantity : Int, avgPrice : Int, unrealized : Int]

\* A fill of any quantity leaves such holdings, and realizes an integer.
LEMMA HoldingAfterFill ==
  ASSUME NEW book, book \in [DOMAIN book -> Holding], NEW i, NEW side \in Side,
         NEW qty \in Int, NEW price \in Int
  PROVE  /\ NetFill(book, i, side, qty, price)
              \in [DOMAIN NetFill(book, i, side, qty, price) -> Holding]
         /\ RealizedPnl(book, i, side, qty, price) \in Int
<1>0. \A n \in Int : NewPosition(side, n, price) \in Holding
  BY DEF NewPosition, Holding, Side
<1>1. CASE i \notin DOMAIN book
  <2>1. NetFill(book, i, side, qty, price) = Insert(book, i, NewPosition(side, qty, price))
    BY <1>1 DEF NetFill
  <2> QED BY <1>0, <1>1, <2>1 DEF RealizedPnl, Insert
<1>2. CASE i \in DOMAIN book
  <2> DEFINE pos  == book[i]
             rest == Reduce(pos, qty)
             more == Add(pos, qty, price)
  <2>1. pos \in Holding
    BY <1>2
  <2>2. CloseQuantity(pos, qty) \in Int
    BY <2>1 DEF CloseQuantity, Holding
  <2>3. RealizedPnl(book, i, side, qty, price) \in Int
    <3>1. Gain(pos, CloseQuantity(pos, qty), price) \in Int
      <4> DEFINE n == CloseQuantity(pos, qty)
      <4> HIDE DEF n, pos
      <4> QED BY <2>1, <2>2 DEF Gain, Holding, n
    <3> QED BY <3>1 DEF RealizedPnl
  <2>4. rest \in Holding
    <3> DEFINE n == pos.quantity - CloseQuantity(pos, qty)
               average == IF n = 0 THEN 0 ELSE pos.avgPrice
    <3>1. n \in Int /\ average \in Int
      BY <2>1, <2>2 DEF Holding
    <3>2. rest = [pos EXCEPT !.quantity = n, !.avgPrice = average]
      BY DEF Reduce
    <3> HIDE DEF pos, rest, n, average
    <3> QED BY <2>1, <3>1, <3>2 DEF Holding
  <2>5. more \in Holding
    <3> DEFINE total == pos.quantity + qty
               cost  == pos.avgPrice * pos.quantity + price * qty
               average == IF total = 0 THEN pos.avgPrice ELSE Quotient(cost, total)
    <3>1. total \in Int /\ cost \in Int /\ pos.avgPrice \in Int
      <4> HIDE DEF pos
      <4> QED BY <2>1 DEF Holding
    <3>2. average \in Int
      <4> HIDE DEF total, cost
      <4> QED BY <3>1, QuotientType
    <3>3. more = [pos EXCEPT !.quantity = total, !.avgPrice = average]
      BY DEF Add
    <3> HIDE DEF pos, more, total, average
    <3> QED BY <2>1, <3>1, <3>2, <3>3 DEF Holding
  <2>6. NewPosition(side, qty - pos.quantity, price) \in Holding
    BY <1>0, <2>1 DEF Holding
  <2>7. \/ NetFill(book, i, side, qty, price) = Remove(book, i)
        \/ \E new \in Holding : NetFill(book, i, side, qty, price) = [book EXCEPT ![i] = new]
    <3>1. NetFill(book, i, side, qty, price) =
            IF pos.side = side THEN [book EXCEPT ![i] = more]
            ELSE IF rest.quantity # 0 THEN [book EXCEPT ![i] = rest]
            ELSE IF qty > pos.quantity
                 THEN [book EXCEPT ![i] = NewPosition(side, qty - pos.quantity, price)]
            ELSE Remove(book, i)
      BY <1>2 DEF NetFill
    <3> HIDE DEF pos, rest, more
    <3> QED BY <3>1, <2>4, <2>5, <2>6
  <2>8. Remove(book, i) \in [DOMAIN book \ {i} -> Holding]
    BY DEF Remove, Restrict
  <2> QED BY <2>3, <2>7, <2>8
<1> QED BY <1>1, <1>2

\* What is read from a row is an order.
LEMMA OrderOfType ==
  ASSUME NEW row \in Row
  PROVE  OrderOf(row) \subseteq Order
<1>1. /\ DOMAIN SideText = Side /\ DOMAIN TifText = TimeInForce
      /\ DOMAIN StatusText = OrderStatus
  BY DEF SideText, Side, TifText, TimeInForce, StatusText, OrderStatus
<1>2. /\ row.price \subseteq Int /\ row.trigger \subseteq Int /\ row.limit \subseteq Int
      /\ row.trail \subseteq Int
  BY DEF Row, Option
<1>3. TypeOf(row) \subseteq OrderType
  BY <1>2 DEF TypeOf, OrderType
<1>4. /\ row.instrument \in Instrument /\ row.quantity \in Int /\ row.filled \in Int
      /\ row.best \in Option(Int)
  BY DEF Row
<1>5. ASSUME NEW side \in Read(SideText, row.side), NEW type \in TypeOf(row),
             NEW tif \in Read(TifText, row.tif), NEW status \in Read(StatusText, row.status)
      PROVE  [instrument |-> row.instrument, side |-> side, type |-> type,
              quantity |-> row.quantity, filled |-> row.filled, tif |-> tif,
              status |-> status, best |-> row.best] \in Order
  <2>1. side \in Side /\ tif \in TimeInForce /\ status \in OrderStatus /\ type \in OrderType
    BY <1>1, <1>3 DEF Read
  <2> QED BY <1>4, <2>1 DEF Order
<1> QED BY <1>5 DEF OrderOf

\* An order in the cache has the terms of what its row is read back as.
SameTerms(order, saved) ==
  /\ order.instrument = saved.instrument /\ order.side = saved.side
  /\ order.type = saved.type /\ order.quantity = saved.quantity /\ order.tif = saved.tif

LEMMA TermsKept ==
  ASSUME NEW order \in Order
  PROVE  /\ \A status \in OrderStatus :
              MoveTo(order, status) \in Order /\ SameTerms(MoveTo(order, status), order)
         /\ \A qty \in Int :
              ApplyFill(order, qty) \in Order /\ SameTerms(ApplyFill(order, qty), order)
<1>1. ASSUME NEW o \in Order, NEW status \in OrderStatus
      PROVE  MoveTo(o, status) \in Order /\ SameTerms(MoveTo(o, status), o)
  BY MoveToType DEF MoveTo, SameTerms, Order
<1>2. ASSUME NEW qty \in Int
      PROVE  ApplyFill(order, qty) \in Order /\ SameTerms(ApplyFill(order, qty), order)
  <2> DEFINE counted == [order EXCEPT !.filled = @ + qty]
             to      == FillStatus(order, qty)
  <2>1. counted \in Order /\ SameTerms(counted, order)
    BY DEF Order, SameTerms
  <2>2. to \in OrderStatus
    BY DEF FillStatus, OrderStatus
  <2>3. ApplyFill(order, qty) = IF OverFills(order, qty) THEN order ELSE MoveTo(counted, to)
    BY DEF ApplyFill
  <2> HIDE DEF counted, to
  <2>4. MoveTo(counted, to) \in Order /\ SameTerms(MoveTo(counted, to), counted)
    BY <1>1, <2>1, <2>2
  <2> QED BY <2>1, <2>3, <2>4 DEF SameTerms
<1> QED BY <1>1, <1>2

-----------------------------------------------------------------------------
(* The invariant of the sessions.                                          *)

SessionTypes ==
  /\ store \in Seq(Order)
  /\ account \in Account
  /\ positions \in [DOMAIN positions -> Holding]
  /\ cumulativeLoss \in Int
  /\ LocksOK

CacheInv ==
  /\ SessionInv
  /\ SessionTypeOK
  /\ SessionTypes
  /\ CacheMatchesRows
  /\ LossNotForgotten
  /\ RestoredInFull

\* What is typed asks for market and limit orders good till cancelled alone.
LEMMA LinesAreResting ==
  ASSUME NEW line \in SubmitLines, NEW req \in RequestsOf(line)
  PROVE  /\ req \in OrderRequest /\ req.tif = "GTC"
         /\ req.type.kind \in {"Market", "Limit"}
  BY LinesAreRequests DEF RequestsOf, ParseOrderType

\* A saved submission puts one order with the terms of the request into the
\* cache, and locks its margin, if any.
LEMMA SubmitSavedEffect ==
  ASSUME SessionTypes, NEW req \in OrderRequest, req.tif = "GTC",
         req.type.kind \in {"Market", "Limit"}, SubmitSaved(req)
  PROVE  /\ \E order \in Order : store' = Append(store, order) /\ SameTerms(order, req)
         /\ account' \in Account
         /\ \E margin \in Nat :
              /\ account'.locked = account.locked + margin
              /\ \/ marginLocks' = marginLocks /\ margin = 0
                 \/ marginLocks' = Insert(marginLocks, NextId, margin) /\ margin > 0
         /\ positions' = positions /\ cumulativeLoss' = cumulativeLoss
<1>1. SubmitLimit(req) \/ SubmitMarket(req)
  BY DEF SubmitSaved, SubmitOrder, SubmitFok, SubmitStop, SubmitIoc, IsStopType
<1> DEFINE new == MoveTo(NewOrder(req), "Accepted")
<1>2. new \in Order /\ SameTerms(new, req)
  <2>1. NewOrder(req) \in Order /\ SameTerms(NewOrder(req), req)
    BY NewOrderType DEF NewOrder, SameTerms
  <2>2. "Accepted" \in OrderStatus
    BY DEF OrderStatus
  <2> QED BY <2>1, <2>2, TermsKept DEF SameTerms
<1>3. store' = Append(store, new) /\ positions' = positions /\ cumulativeLoss' = cumulativeLoss
  BY <1>1 DEF SubmitLimit, SubmitMarket, Save
<1> HIDE DEF new
<1>4. CASE SubmitLimit(req)
  <2> DEFINE margin == MarginOf(req)
  <2>1. /\ account' = LockMargin(account, margin) /\ margin > 0
        /\ marginLocks' = Insert(marginLocks, NextId, margin)
        /\ req.type.kind = "Limit"
    BY <1>4 DEF SubmitLimit, CanReserve, CanLock
  <2>2. margin \in Nat
    BY <2>1, MarginOfRequestType
  <2> HIDE DEF margin
  <2>3. account' \in Account /\ account'.locked = account.locked + margin
    BY <2>1, <2>2 DEF LockMargin, Account, SessionTypes
  <2> QED BY <1>2, <1>3, <2>1, <2>2, <2>3
<1>5. CASE SubmitMarket(req)
  <2> DEFINE margin == 0
  <2>1. account' = account /\ marginLocks' = marginLocks
    BY <1>5 DEF SubmitMarket
  <2>2. account' \in Account /\ margin \in Nat /\ account'.locked = account.locked + margin
    BY <2>1 DEF SessionTypes, Account
  <2> QED BY <1>2, <1>3, <2>1, <2>2
<1> QED BY <1>1, <1>4, <1>5

LEMMA SubmitUnsavedEffect ==
  ASSUME SessionTypes, NEW req \in OrderRequest, SubmitUnsaved(req)
  PROVE  /\ account' \in Account
         /\ \E margin \in Nat : /\ account'.locked = account.locked + margin
                               /\ strayMargin' = strayMargin + margin
         /\ UNCHANGED <<store, positions, marginLocks, cumulativeLoss, tables, ids, restored>>
<1> DEFINE margin == MarginOf(req)
<1>1. /\ account' = LockMargin(account, margin) /\ margin > 0
      /\ req.type.kind = "Limit" /\ strayMargin' = strayMargin + margin
  BY DEF SubmitUnsaved, CanReserve, CanLock
<1>2. margin \in Nat
  BY <1>1, MarginOfRequestType
<1>3. UNCHANGED <<store, positions, marginLocks, cumulativeLoss, tables, ids, restored>>
  BY DEF SubmitUnsaved
<1> HIDE DEF margin
<1>4. account' \in Account /\ account'.locked = account.locked + margin
  BY <1>1, <1>2 DEF LockMargin, Account, SessionTypes
<1> QED BY <1>1, <1>2, <1>3, <1>4

\* Giving margin back leaves an account.
LEMMA ReleasedEffect ==
  ASSUME SessionTypes, NEW id \in OrderId
  PROVE  /\ Released(id) \in Account
         /\ ~ReleaseFails(id) => Released(id).locked = account.locked - LockOf(id)
<1>1. account \in Account /\ (id \in DOMAIN marginLocks => marginLocks[id] \in Int)
  BY DEF SessionTypes, LocksOK
<1>2. CASE id \in DOMAIN marginLocks
  <2> DEFINE lock == marginLocks[id]
  <2>1. Released(id) = UnlockMargin(account, lock) /\ LockOf(id) = lock
    BY <1>2 DEF Released, LockOf
  <2>2. ~ReleaseFails(id) => CanUnlock(account, lock)
    BY <1>2 DEF ReleaseFails
  <2>3. lock \in Int
    BY <1>1, <1>2
  <2> HIDE DEF lock
  <2>4. UnlockMargin(account, lock) \in Account
    BY <1>1, <2>3, AccountMethodsType
  <2>5. CanUnlock(account, lock) =>
          UnlockMargin(account, lock).locked = account.locked - lock
    BY <1>1, <2>3 DEF UnlockMargin, Account
  <2> QED BY <2>1, <2>2, <2>4, <2>5
<1>3. CASE id \notin DOMAIN marginLocks
  BY <1>1, <1>3 DEF Released, LockOf, Account
<1> QED BY <1>2, <1>3

\* A cancel and every kind of fill change one order, which keeps its terms;
\* they may remove its lock, and give its margin back if nothing refuses it.
ChangesOrder(id) ==
  /\ \E new \in Order : SameTerms(new, store[id]) /\ store' = [store EXCEPT ![id] = new]
  /\ account' \in Account
  /\ \/ marginLocks' = marginLocks /\ account'.locked = account.locked
     \/ /\ marginLocks' = Remove(marginLocks, id)
        /\ ReleaseFails(id) \/ account'.locked = Released(id).locked
  /\ positions' \in [DOMAIN positions' -> Holding]

LEMMA CancelEffect ==
  ASSUME SessionTypes, NEW id \in OrderId, CancelOrder(id)
  PROVE  ChangesOrder(id) /\ cumulativeLoss' = cumulativeLoss
<1>1. store[id] \in Order
  BY DEF SessionTypes, OrderId
<1>2. "Cancelled" \in OrderStatus
  BY DEF OrderStatus
<1> DEFINE new == MoveTo(store[id], "Cancelled")
<1>3. new \in Order /\ SameTerms(new, store[id])
  BY <1>1, <1>2, TermsKept
<1>4. store' = [store EXCEPT ![id] = new]
  BY DEF CancelOrder
<1>5. /\ marginLocks' = Remove(marginLocks, id) /\ account' = Released(id)
      /\ positions' = positions /\ cumulativeLoss' = cumulativeLoss
  BY DEF CancelOrder
<1> HIDE DEF new
<1>6. Released(id) \in Account
  BY ReleasedEffect
<1> QED BY <1>3, <1>4, <1>5, <1>6 DEF ChangesOrder, SessionTypes

LEMMA FillFailsEffect ==
  ASSUME SessionTypes, NEW id \in OrderId, NEW qty \in Int, NEW price \in Int,
         RefuseFill(id, qty) \/ AbandonFill(id, qty, price)
  PROVE  ChangesOrder(id) /\ cumulativeLoss' = cumulativeLoss
<1>1. store[id] \in Order
  BY DEF SessionTypes, OrderId
<1> DEFINE new == ApplyFill(store[id], qty)
<1>2. new \in Order /\ SameTerms(new, store[id])
  BY <1>1, TermsKept
<1>3. store' = [store EXCEPT ![id] = new]
  BY DEF RefuseFill, AbandonFill, EnterFill
<1> HIDE DEF new
<1>4. account' = account /\ positions' = positions /\ cumulativeLoss' = cumulativeLoss
  BY DEF RefuseFill, AbandonFill
<1>5. \/ marginLocks' = marginLocks
      \/ marginLocks' = Remove(marginLocks, id) /\ ReleaseFails(id)
  BY DEF RefuseFill, AbandonFill
<1> QED BY <1>2, <1>3, <1>4, <1>5 DEF ChangesOrder, SessionTypes

LEMMA SettleEffect ==
  ASSUME SessionTypes, NEW id \in OrderId, NEW qty \in Int, NEW price \in Int,
         SettleFill(id, qty, price)
  PROVE  /\ ChangesOrder(id)
         /\ \E pnl \in Int :
              /\ cumulativeLoss' = LossAfter(pnl)
              /\ trades' # trades =>
                   trades' = Append(trades,
                     [order |-> id, instrument |-> store[id].instrument,
                      side |-> store[id].side, quantity |-> qty, price |-> price,
                      pnl |-> pnl])
<1>1. store[id] \in Order
  BY DEF SessionTypes, OrderId
<1> DEFINE new == ApplyFill(store[id], qty)
           pnl == RealizedPnl(positions, store[id].instrument, store[id].side, qty, price)
           after == NetFill(positions, store[id].instrument, store[id].side, qty, price)
           freed == IF FillsUp(id, qty) THEN Released(id) ELSE account
<1>2. new \in Order /\ SameTerms(new, store[id])
  BY <1>1, TermsKept
<1>3. store' = [store EXCEPT ![id] = new]
  BY DEF SettleFill, EnterFill
<1>4. pnl \in Int /\ after \in [DOMAIN after -> Holding]
  <2>1. store[id].side \in Side
    BY <1>1 DEF Order
  <2> DEFINE i == store[id].instrument
             side == store[id].side
  <2> HIDE DEF i
  <2> QED BY <2>1, HoldingAfterFill DEF SessionTypes, i
<1>5. /\ account' = ApplyRealizedPnl(freed, pnl) /\ positions' = after
      /\ cumulativeLoss' = LossAfter(pnl)
      /\ \/ trades' = trades
         \/ trades' = Append(trades,
                     [order |-> id, instrument |-> store[id].instrument,
                      side |-> store[id].side, quantity |-> qty, price |-> price,
                      pnl |-> pnl])
  BY DEF SettleFill
<1>6. \/ marginLocks' = marginLocks /\ freed = account
      \/ marginLocks' = Remove(marginLocks, id) /\ freed = Released(id)
  BY DEF SettleFill
<1>7. freed \in Account
  BY ReleasedEffect DEF SessionTypes
<1> HIDE DEF new, pnl, after, freed
<1>8. account' \in Account /\ account'.locked = freed.locked
  BY <1>4, <1>5, <1>7 DEF ApplyRealizedPnl, Account
<1> QED BY <1>2, <1>3, <1>4, <1>5, <1>6, <1>8 DEF ChangesOrder

LEMMA CacheTerms ==
  CacheMatchesRows <=>
    \A id \in OrderId : \E saved \in OrderOf(orderRows[ids[id]]) : SameTerms(store[id], saved)
  BY DEF CacheMatchesRows, SameTerms

LEMMA ChangeKeepsTypes ==
  ASSUME SessionTypes, NEW id \in OrderId, ChangesOrder(id), cumulativeLoss' \in Int
  PROVE  SessionTypes' /\ Len(store') = Len(store) /\ OrderId' = OrderId
<1>1. PICK new \in Order : SameTerms(new, store[id]) /\ store' = [store EXCEPT ![id] = new]
  BY DEF ChangesOrder
<1>2. store \in Seq(Order) /\ id \in 1..Len(store)
  BY DEF SessionTypes, LocksOK
<1>3. store' \in Seq(Order) /\ Len(store') = Len(store) /\ OrderId' = OrderId
  BY <1>1, <1>2, ExceptSeq DEF OrderId
<1>4. LocksOK'
  <2>1. LocksOK
    BY DEF SessionTypes
  <2>2. marginLocks' = marginLocks \/ marginLocks' = Remove(marginLocks, id)
    BY DEF ChangesOrder
  <2> QED BY <1>3, <2>1, <2>2, HeldReleases, HeldStays
<1> QED BY <1>3, <1>4 DEF SessionTypes, ChangesOrder

\* What changes an order in the cache leaves it with the terms of its row.
LEMMA ChangeKeepsRows ==
  ASSUME CacheInv, NEW id \in OrderId, ChangesOrder(id), cumulativeLoss' \in Int,
         UNCHANGED <<orderRows, ids, strayMargin, restored>>,
         tradeRows' \in Seq(Trade), told' \subseteq Answer
  PROVE  SessionTypes' /\ SessionTypeOK' /\ CacheMatchesRows' /\ RestoredInFull'
<1>1. SessionTypes' /\ Len(store') = Len(store) /\ OrderId' = OrderId
  BY ChangeKeepsTypes DEF CacheInv
<1>2. orderRows' = orderRows /\ ids' = ids /\ strayMargin' = strayMargin /\ restored' = restored
  OBVIOUS
<1>3. SessionTypeOK'
  BY <1>1, <1>2 DEF CacheInv, SessionTypeOK
<1>4. RestoredInFull'
  BY <1>1, <1>2 DEF CacheInv, RestoredInFull
<1>5. CacheMatchesRows'
  <2>1. PICK new \in Order : SameTerms(new, store[id]) /\ store' = [store EXCEPT ![id] = new]
    BY DEF ChangesOrder
  <2>2. ASSUME NEW k \in OrderId
        PROVE  \E saved \in OrderOf(orderRows[ids[k]]) : SameTerms(store'[k], saved)
    <3>1. PICK saved \in OrderOf(orderRows[ids[k]]) : SameTerms(store[k], saved)
      BY CacheTerms DEF CacheInv
    <3>2. SameTerms(store'[k], store[k])
      BY <2>1 DEF SameTerms, OrderId
    <3> QED BY <3>1, <3>2 DEF SameTerms
  <2>3. \A k \in OrderId' :
          \E saved \in OrderOf(orderRows'[ids'[k]]) : SameTerms(store'[k], saved)
    BY <1>1, <1>2, <2>2
  <2> QED BY <2>3 DEF CacheMatchesRows, SameTerms
<1> QED BY <1>1, <1>3, <1>4, <1>5

\* A submission adds an order to the cache and its row to the table.
LEMMA SubmitKeepsCache ==
  ASSUME CacheInv, NEW line \in SubmitLines, HandleSubmit(line), SessionInv'
  PROVE  CacheInv'
<1>1. PICK req \in RequestsOf(line) :
        /\ SubmitSaved(req)
        /\ told' = told \cup
             {[says |-> "created", row |-> Len(orderRows'), request |-> req]}
  BY DEF HandleSubmit
<1>2. /\ req \in OrderRequest /\ req.tif = "GTC"
      /\ req.type.kind \in {"Market", "Limit"}
  BY LinesAreResting
<1>3. SessionTypes /\ TablesInv
  BY DEF CacheInv, SessionInv
<1> DEFINE row == RowOf(SavedOrder(req))
           n   == Len(orderRows)
           m   == Len(store)
<1>4. /\ orderRows' = Append(orderRows, row) /\ tradeRows' = tradeRows
      /\ ids' = Append(ids, Len(orderRows')) /\ strayMargin' = strayMargin
      /\ restored' = restored
  BY <1>1 DEF SubmitSaved
<1>5. Accepts(row) /\ orderRows' \in Seq(Row)
  BY <1>1, <1>2, <1>3, SubmitSavedTables DEF TablesInv
<1>6. PICK saved \in OrderOf(row) : SameTerms(saved, req)
  BY <1>2, <1>5, SavedRowReadsBack DEF SameTerms
<1>7. /\ account' \in Account
      /\ \E margin \in Nat :
           /\ account'.locked = account.locked + margin
           /\ \/ marginLocks' = marginLocks /\ margin = 0
              \/ marginLocks' = Insert(marginLocks, NextId, margin) /\ margin > 0
      /\ positions' = positions /\ cumulativeLoss' = cumulativeLoss
  BY <1>1, <1>2, <1>3, SubmitSavedEffect
<1>8. PICK order \in Order : store' = Append(store, order) /\ SameTerms(order, req)
  BY <1>1, <1>2, <1>3, SubmitSavedEffect
<1> HIDE DEF row
<1>9. /\ n \in Nat /\ DOMAIN orderRows = 1..n /\ Len(orderRows') = n + 1
      /\ DOMAIN orderRows' = 1..n + 1 /\ orderRows'[n + 1] = row
      /\ \A k \in 1..n : orderRows'[k] = orderRows[k]
  BY <1>3, <1>4, <1>5 DEF TablesInv
<1>10. /\ m \in Nat /\ OrderId = 1..m /\ Len(store') = m + 1 /\ OrderId' = 1..m + 1
       /\ store' \in Seq(Order) /\ store'[m + 1] = order
       /\ \A k \in 1..m : store'[k] = store[k]
  BY <1>3, <1>8 DEF SessionTypes, LocksOK, OrderId
<1>11. ids \in Seq(1..n) /\ Len(ids) = m /\ \A j, k \in 1..m : j < k => ids[j] < ids[k]
  BY <1>9, <1>10 DEF CacheInv, SessionTypeOK
<1> HIDE DEF n, m
<1>12. /\ ids' \in Seq(1..n + 1) /\ Len(ids') = m + 1 /\ ids'[m + 1] = n + 1
       /\ \A k \in 1..m : ids'[k] = ids[k] /\ ids[k] \in 1..n
  BY <1>4, <1>9, <1>10, <1>11
<1>13. LocksOK'
  BY <1>3, <1>7, <1>10, HeldExtends DEF SessionTypes, m
<1>14. SessionTypes'
  BY <1>3, <1>7, <1>10, <1>13 DEF SessionTypes
<1>15. told' \subseteq Answer
  <2>1. told \subseteq Answer
    BY DEF CacheInv, SessionTypeOK
  <2>2. [says |-> "created", row |-> Len(orderRows'), request |-> req] \in Answer
    BY <1>2, <1>9 DEF Answer
  <2> QED BY <1>1, <2>1, <2>2
<1>16. SessionTypeOK'
  <2>1. ASSUME NEW j \in 1..m + 1, NEW k \in 1..m + 1, j < k PROVE ids'[j] < ids'[k]
    <3>1. m \in Nat /\ n \in Nat
      BY <1>9, <1>10
    <3>2. j \in 1..m /\ ids'[j] = ids[j] /\ ids[j] \in 1..n
      BY <1>12, <2>1, <3>1
    <3>3. CASE k \in 1..m
      BY <1>11, <1>12, <2>1, <3>2, <3>3
    <3>4. CASE k = m + 1
      BY <1>12, <3>1, <3>2, <3>4
    <3> QED BY <3>1, <3>3, <3>4
  <2>2. tradeRows' \in Seq(Trade) /\ strayMargin' \in Nat /\ restored' \in BOOLEAN
    BY <1>4 DEF CacheInv, SessionTypeOK
  <2> QED BY <1>5, <1>9, <1>10, <1>12, <1>15, <2>1, <2>2 DEF SessionTypeOK
<1>17. CacheMatchesRows'
  <2>1. ASSUME NEW k \in 1..m + 1
        PROVE  \E s \in OrderOf(orderRows'[ids'[k]]) : SameTerms(store'[k], s)
    <3>1. CASE k \in 1..m
      <4>1. PICK s \in OrderOf(orderRows[ids[k]]) : SameTerms(store[k], s)
        BY <1>10, <3>1, CacheTerms DEF CacheInv
      <4> QED BY <1>9, <1>10, <1>12, <3>1, <4>1
    <3>2. CASE k = m + 1
      <4>1. SameTerms(order, saved)
        BY <1>6, <1>8 DEF SameTerms
      <4> QED BY <1>6, <1>9, <1>10, <1>12, <3>2, <4>1
    <3> QED BY <1>10, <3>1, <3>2
  <2> QED BY <1>10, <2>1 DEF CacheMatchesRows, SameTerms
<1>18. RestoredInFull'
  <2>1. ASSUME restored', NEW k \in 1..n + 1, OrderOf(orderRows'[k]) # {}
        PROVE  \E id \in 1..m + 1 : ids'[id] = k
    <3>1. CASE k \in 1..n
      <4>1. OrderOf(orderRows[k]) # {}
        BY <1>9, <2>1, <3>1
      <4>2. PICK id \in 1..m : ids[id] = k
        BY <1>4, <1>9, <1>10, <2>1, <3>1, <4>1 DEF CacheInv, RestoredInFull
      <4> QED BY <1>10, <1>12, <4>2
    <3>2. CASE k = n + 1
      BY <1>10, <1>12, <3>2
    <3> QED BY <1>9, <3>1, <3>2
  <2> QED BY <1>9, <1>10, <2>1 DEF RestoredInFull
<1>19. LossNotForgotten'
  BY <1>4, <1>7 DEF CacheInv, LossNotForgotten, LostInRows
<1> QED BY <1>14, <1>16, <1>17, <1>18, <1>19 DEF CacheInv

\* Steps that leave the cache's orders and the tables as they are.
LEMMA UnchangedCache ==
  ASSUME CacheInv, SessionInv', account' \in Account, strayMargin' \in Nat,
         UNCHANGED <<store, positions, marginLocks, cumulativeLoss, tables, ids, restored, told>>
  PROVE  CacheInv'
<1>1. /\ store' = store /\ positions' = positions /\ marginLocks' = marginLocks
      /\ cumulativeLoss' = cumulativeLoss /\ orderRows' = orderRows
      /\ tradeRows' = tradeRows /\ ids' = ids /\ restored' = restored /\ told' = told
  BY DEF tables
<1>2. OrderId' = OrderId
  BY <1>1 DEF OrderId
<1>3. LocksOK'
  BY <1>1, <1>2, HeldStays DEF CacheInv, SessionTypes
<1>4. SessionTypes'
  BY <1>1, <1>3 DEF CacheInv, SessionTypes
<1>5. SessionTypeOK'
  BY <1>1, <1>2 DEF CacheInv, SessionTypeOK
<1>6. CacheMatchesRows'
  BY <1>1, <1>2 DEF CacheInv, CacheMatchesRows
<1>7. LossNotForgotten' /\ RestoredInFull'
  BY <1>1, <1>2 DEF CacheInv, LossNotForgotten, LostInRows, RestoredInFull
<1> QED BY <1>4, <1>5, <1>6, <1>7 DEF CacheInv

\* The loss on record is an integer, and a row more adds what it lost; it is
\* what a restart computes.
LEMMA LossAdds ==
  ASSUME tradeRows \in Seq(Trade)
  PROVE  /\ LostInRows \in Int /\ LossOf(tradeRows) = LostInRows
         /\ \A row \in Trade : tradeRows' = Append(tradeRows, row) =>
              LostInRows' = LostInRows + IF row.pnl > 0 THEN 0 ELSE row.pnl
<1> DEFINE Lost(row) == IF row.pnl > 0 THEN 0 ELSE row.pnl
           n == Len(tradeRows)
           f == [k \in DOMAIN tradeRows |-> Lost(tradeRows[k])]
<1>0. \A row \in Trade : /\ row.pnl \in Int /\ Lost(row) \in Int
                         /\ Lost(row) = IF row.pnl < 0 THEN row.pnl ELSE 0
  BY DEF Trade
<1>1. n \in Nat /\ DOMAIN tradeRows = 1..n /\ \A k \in 1..n : tradeRows[k] \in Trade
  OBVIOUS
<1>2. f \in [1..n -> Int]
  BY <1>0, <1>1
<1>3. LostInRows = SumUpTo(f, n)
  BY DEF LostInRows
<1>4. LossOf(tradeRows) = LostInRows
  <2>1. f = [k \in DOMAIN tradeRows |-> IF tradeRows[k].pnl < 0 THEN tradeRows[k].pnl ELSE 0]
    BY <1>0, <1>1
  <2> HIDE DEF f
  <2> QED BY <1>3, <2>1 DEF LossOf
<1>5. ASSUME NEW row \in Trade, tradeRows' = Append(tradeRows, row)
      PROVE  LostInRows' = LostInRows + Lost(row)
  <2> DEFINE g == [k \in DOMAIN tradeRows' |-> Lost(tradeRows'[k])]
  <2>1. /\ Len(tradeRows') = n + 1 /\ DOMAIN tradeRows' = 1..n + 1
        /\ tradeRows'[n + 1] = row /\ \A k \in 1..n : tradeRows'[k] = tradeRows[k]
    BY <1>1, <1>5
  <2>2. g \in [1..n + 1 -> Int] /\ g[n + 1] = Lost(row) /\ \A k \in 1..n : g[k] = f[k]
    BY <1>0, <1>1, <2>1
  <2>3. LostInRows' = SumUpTo(g, n + 1)
    BY <2>1 DEF LostInRows
  <2> HIDE DEF f, g, n, Lost
  <2>4. SumUpTo(g, n + 1) = SumUpTo(f, n) + g[n + 1]
    BY <1>1, <1>2, <2>2, SumExtends
  <2> QED BY <1>3, <2>2, <2>3, <2>4
<1>6. LostInRows \in Int
  <2> HIDE DEF f, n
  <2> QED BY <1>1, <1>2, <1>3, SumIsInt
<1> QED BY <1>4, <1>5, <1>6

\* What a fill adds to the running loss is what its trade lost, if anything.
LEMMA LossAfterFill ==
  ASSUME SessionTypes, NEW pnl \in Int
  PROVE  /\ LossAfter(pnl) \in Int /\ LossAfter(pnl) <= cumulativeLoss
         /\ LossAfter(pnl) = cumulativeLoss + IF pnl > 0 THEN 0 ELSE pnl
  BY DEF LossAfter, SessionTypes

\* A fill that is answered for records its trade under the order's row.
LEMMA FillKeepsCache ==
  ASSUME CacheInv, NEW id \in OrderId, NEW qty \in TypedQuantities, NEW price \in TypedPrices,
         HandleFill(id, qty, price), SessionInv'
  PROVE  CacheInv'
<1>1. /\ FillSaved(id, qty, price)
      /\ told' = told \cup
           {[says |-> "filled", row |-> ids[id], quantity |-> qty, price |-> price,
             trade |-> Len(tradeRows')]}
  BY DEF HandleFill
<1>2. qty \in Int /\ price \in Int
  BY CommandAssumption
<1>3. SessionTypes /\ SessionTypeOK /\ IsSequence(trades)
  BY DEF CacheInv, SessionInv, TablesInv
<1>4. /\ SettleFill(id, qty, price) /\ trades' # trades
      /\ tradeRows' = Append(tradeRows, RowOfTrade(trades'[Len(trades')]))
      /\ UNCHANGED <<orderRows, ids, strayMargin, restored>>
  BY <1>1 DEF FillSaved
<1>5. ChangesOrder(id)
  BY <1>2, <1>3, <1>4, SettleEffect
<1> DEFINE Made(pnl) ==
             [order |-> id, instrument |-> store[id].instrument, side |-> store[id].side,
              quantity |-> qty, price |-> price, pnl |-> pnl]
<1>6. PICK pnl \in Int : cumulativeLoss' = LossAfter(pnl) /\ trades' = Append(trades, Made(pnl))
  BY <1>2, <1>3, <1>4, SettleEffect
<1> DEFINE trade == Made(pnl)
           row   == RowOfTrade(trade)
<1>7. trades'[Len(trades')] = trade
  BY <1>3, <1>6, AppendExtends
<1>8. row \in Trade /\ row.pnl = pnl
  <2>1. ids[id] \in Nat
    BY <1>3 DEF SessionTypeOK, SessionTypes, LocksOK
  <2>2. store[id].instrument \in Instrument /\ store[id].side \in Side
    <3>1. store[id] \in Order
      BY <1>3 DEF SessionTypes, OrderId
    <3> QED BY <3>1 DEF Order
  <2>3. row = [order |-> ids[id], instrument |-> store[id].instrument,
               side |-> store[id].side, quantity |-> qty, price |-> price, pnl |-> pnl]
    BY DEF RowOfTrade
  <2> HIDE DEF row
  <2> QED BY <1>2, <1>6, <2>1, <2>2, <2>3 DEF Trade
<1>9. tradeRows' = Append(tradeRows, row)
  BY <1>4, <1>7
<1> HIDE DEF row, trade, Made
<1>10. tradeRows' \in Seq(Trade)
  BY <1>3, <1>8, <1>9 DEF SessionTypeOK
<1>11. cumulativeLoss' \in Int
  BY <1>3, <1>6, LossAfterFill
<1>12. told' \subseteq Answer
  <2>1. told \subseteq Answer
    BY <1>3 DEF SessionTypeOK
  <2>2. ids[id] \in Nat
    BY <1>3 DEF SessionTypeOK, SessionTypes, LocksOK
  <2>3. Len(tradeRows') \in Nat
    BY <1>10
  <2>4. [says |-> "filled", row |-> ids[id], quantity |-> qty, price |-> price,
         trade |-> Len(tradeRows')] \in Answer
    BY <1>2, <2>2, <2>3 DEF Answer
  <2> QED BY <1>1, <2>1, <2>4
<1>13. SessionTypes' /\ SessionTypeOK' /\ CacheMatchesRows' /\ RestoredInFull'
  BY <1>4, <1>5, <1>10, <1>11, <1>12, ChangeKeepsRows
<1>14. LossNotForgotten'
  <2>1. tradeRows \in Seq(Trade)
    BY <1>3 DEF SessionTypeOK
  <2>2. LostInRows \in Int /\ LostInRows' = LostInRows + IF pnl > 0 THEN 0 ELSE pnl
    BY <1>8, <1>9, <2>1, LossAdds
  <2>3. cumulativeLoss' = cumulativeLoss + IF pnl > 0 THEN 0 ELSE pnl
    BY <1>3, <1>6, LossAfterFill
  <2>4. restored' => cumulativeLoss <= LostInRows /\ cumulativeLoss \in Int
    BY <1>3, <1>4 DEF CacheInv, LossNotForgotten, SessionTypes
  <2> QED BY <1>6, <2>2, <2>3, <2>4 DEF LossNotForgotten
<1> QED BY <1>13, <1>14 DEF CacheInv

\* A change of an order that writes nothing, and forgives no loss.
LEMMA UnwrittenChange ==
  ASSUME CacheInv, SessionInv', NEW id \in OrderId, ChangesOrder(id),
         UNCHANGED <<persistenceVars, told>>,
         cumulativeLoss' \in Int, cumulativeLoss' <= cumulativeLoss
  PROVE  CacheInv'
<1>1. /\ orderRows' = orderRows /\ tradeRows' = tradeRows /\ ids' = ids
      /\ strayMargin' = strayMargin /\ restored' = restored /\ told' = told
  BY DEF persistenceVars, tables
<1>2. tradeRows \in Seq(Trade) /\ told \subseteq Answer /\ cumulativeLoss \in Int
  BY DEF CacheInv, SessionTypeOK, SessionTypes
<1>3. SessionTypes' /\ SessionTypeOK' /\ CacheMatchesRows' /\ RestoredInFull'
  BY <1>1, <1>2, ChangeKeepsRows
<1>4. LossNotForgotten'
  <2>1. LostInRows' = LostInRows
    BY <1>1 DEF LostInRows
  <2>2. LostInRows \in Int
    BY <1>2, LossAdds
  <2> QED BY <1>1, <1>2, <2>1, <2>2 DEF CacheInv, LossNotForgotten
<1> QED BY <1>3, <1>4 DEF CacheInv

LEMMA FillFailsKeepsCache ==
  ASSUME CacheInv, NEW id \in OrderId, NEW qty \in TypedQuantities, NEW price \in TypedPrices,
         HandleFillFails(id, qty, price), SessionInv'
  PROVE  CacheInv'
<1>1. qty \in Int /\ price \in Int
  BY CommandAssumption
<1>2. SessionTypes /\ cumulativeLoss \in Int
  BY DEF CacheInv, SessionTypes
<1>3. UNCHANGED <<persistenceVars, told>>
  BY DEF HandleFillFails, FillFails, FillUnsaved
<1>4. CASE RefuseFill(id, qty) \/ AbandonFill(id, qty, price)
  BY <1>1, <1>2, <1>3, <1>4, FillFailsEffect, UnwrittenChange
<1>5. CASE SettleFill(id, qty, price)
  <2>1. ChangesOrder(id) /\ \E pnl \in Int : cumulativeLoss' = LossAfter(pnl)
    BY <1>1, <1>2, <1>5, SettleEffect
  <2>2. cumulativeLoss' \in Int /\ cumulativeLoss' <= cumulativeLoss
    BY <1>2, <2>1, LossAfterFill
  <2> QED BY <1>3, <2>1, <2>2, UnwrittenChange
<1> QED BY <1>4, <1>5 DEF HandleFillFails, FillFails, FillUnsaved

\* The index of a restored order in the store has one row, a later one than
\* the index before; when as many orders as rows were read, every row has one.
LEMMA InOrderOnto ==
  ASSUME NEW n \in Nat, NEW rows \in SUBSET (1..n), NEW s \in InOrder(rows)
  PROVE  /\ s \in Seq(1..n) /\ DOMAIN s = 1..Len(s)
         /\ \A k \in DOMAIN s : s[k] \in rows
         /\ \A j, k \in DOMAIN s : j < k => s[j] < s[k]
         /\ \A r \in rows : \E k \in DOMAIN s : s[k] = r
<1> DEFINE c == Cardinality(rows)
<1>1. IsFiniteSet(rows) /\ c \in Nat
  <2>1. IsFiniteSet(1..n)
    BY FS_Interval
  <2>2. IsFiniteSet(rows)
    BY <2>1, FS_Subset
  <2> QED BY <2>2, FS_CardinalityType
<1>2. s \in [1..c -> rows] /\ \A j, k \in DOMAIN s : j < k => s[j] < s[k]
  BY DEF InOrder
<1> HIDE DEF c
<1>3. /\ s \in Seq(1..n) /\ DOMAIN s = 1..Len(s) /\ DOMAIN s = 1..c
  <2>1. s \in [1..c -> 1..n]
    BY <1>2
  <2> QED BY <1>1, <2>1
<1>4. s \in Injection(1..c, rows)
  <2>1. ASSUME NEW a \in 1..c, NEW b \in 1..c, s[a] = s[b] PROVE a = b
    <3>1. s[a] \in rows /\ s[b] \in rows
      BY <1>2
    <3>2. s[a] \in Int /\ s[b] \in Int
      <4>1. rows \subseteq Int
        OBVIOUS
      <4> QED BY <3>1, <4>1
    <3>3. a \in Int /\ b \in Int
      BY <1>1
    <3>4. (a < b => s[a] < s[b]) /\ (b < a => s[b] < s[a])
      BY <1>2
    <3> QED BY <2>1, <3>2, <3>3, <3>4
  <2> QED BY <1>2, <2>1 DEF Injection, IsInjective
<1>5. Cardinality(1..c) = Cardinality(rows)
  <2>1. Cardinality(1..c) = IF 1 > c THEN 0 ELSE c - 1 + 1
    BY <1>1, FS_Interval
  <2> QED BY <1>1, <2>1 DEF c
<1>6. s \in Surjection(1..c, rows)
  BY <1>1, <1>4, <1>5, FS_Injection
<1> QED BY <1>2, <1>3, <1>6 DEF Surjection

\* A restart fills the cache from the tables.
LEMMA RestartKeepsCache ==
  ASSUME CacheInv, Restart, told' = told, SessionInv'
  PROVE  CacheInv'
<1>1. TablesInv /\ SessionTypeOK
  BY DEF CacheInv, SessionInv
<1>2. /\ DOMAIN orderRows' = DOMAIN orderRows /\ tradeRows' = tradeRows
      /\ \A k \in DOMAIN orderRows : OrderOf(orderRows'[k]) = OrderOf(orderRows[k])
  BY <1>1, RestartTables DEF Restart
<1>3. PICK accountRead \in BOOLEAN, complete \in BOOLEAN, read \in SUBSET RestorableRows :
        RestoreFromDb(accountRead, read, complete)
  BY DEF Restart
<1> DEFINE n == Len(orderRows)
<1>4. n \in Nat /\ DOMAIN orderRows = 1..n /\ \A k \in 1..n : orderRows[k] \in Row
  BY <1>1 DEF TablesInv
<1>5. read \in SUBSET (1..n) /\ ids' \in InOrder(read)
  BY <1>3, <1>4 DEF RestoreFromDb, RestorableRows
<1>6. \A k \in read : RestoredOrder(k) \in OrderOf(orderRows[k]) /\ RestoredOrder(k) \in Order
  <2>1. ASSUME NEW k \in read PROVE RestoredOrder(k) \in OrderOf(orderRows[k])
    <3>1. OrderOf(orderRows[k]) # {}
      BY DEF RestorableRows
    <3> QED BY <3>1 DEF RestoredOrder
  <2> QED BY <1>4, <1>5, <2>1, OrderOfType
<1>7. store' = [k \in DOMAIN ids' |-> RestoredOrder(ids'[k])]
  BY <1>3 DEF RestoreFromDb
<1> HIDE DEF n
<1>8. /\ ids' \in Seq(1..n) /\ DOMAIN ids' = 1..Len(ids')
      /\ \A k \in DOMAIN ids' : ids'[k] \in read
      /\ \A j, k \in DOMAIN ids' : j < k => ids'[j] < ids'[k]
      /\ \A r \in read : \E k \in DOMAIN ids' : ids'[k] = r
  BY <1>4, <1>5, InOrderOnto
<1>9. Len(ids') \in Nat
  BY <1>8
<1>10. /\ store' \in Seq(Order) /\ Len(store') = Len(ids')
       /\ OrderId' = DOMAIN ids' /\ OrderId' = 1..Len(store')
       /\ \A k \in DOMAIN ids' : store'[k] = RestoredOrder(ids'[k])
  <2>1. store' \in [1..Len(ids') -> Order]
    BY <1>6, <1>7, <1>8
  <2>2. store' \in Seq(Order) /\ Len(store') = Len(ids')
    BY <1>9, <2>1
  <2> QED BY <1>7, <1>8, <2>2 DEF OrderId
<1>11. account' \in Account
  <2>1. AccountRow # {} => (CHOOSE row \in AccountRow : TRUE) \in Account
    BY PersistenceAssumption DEF Option
  <2>2. [balance |-> InitialBalance, locked |-> 0] \in Account
    BY ServiceAssumption DEF Account
  <2>3. account' = LoadedAccount(accountRead)
    BY <1>3 DEF RestoreFromDb
  <2> QED BY <2>1, <2>2, <2>3 DEF LoadedAccount
<1>12. positions' \in [DOMAIN positions' -> Holding]
  <2>1. CASE positions' = RestoredPositions
    <3> DEFINE Back(i) ==
          NewPosition(CHOOSE side \in Read(SideText, PositionRows[i].side) : TRUE,
                      PositionRows[i].quantity, PositionRows[i].avgPrice)
    <3>2. ASSUME NEW i \in DOMAIN PositionRows PROVE Back(i) \in Holding
      <4>1. PositionRows[i] \in [side : {"buy", "sell"}, quantity : Nat, avgPrice : Nat]
        BY PersistenceAssumption
      <4>2. /\ Read(SideText, PositionRows[i].side) \subseteq Side
            /\ Read(SideText, PositionRows[i].side) # {}
        BY <4>1 DEF Read, SideText, Side
      <4>3. (CHOOSE side \in Read(SideText, PositionRows[i].side) : TRUE) \in Side
        BY <4>2
      <4> QED BY <4>1, <4>3 DEF NewPosition, Holding, Side
    <3> QED BY <2>1, <3>2 DEF RestoredPositions
  <2>2. CASE positions' = <<>>
    <3>1. DOMAIN positions' = {}
      BY <2>2
    <3> QED BY <2>2, <3>1
  <2> QED BY <1>3, <2>1, <2>2 DEF RestoreFromDb
<1>13. /\ cumulativeLoss' \in Int
       /\ complete => cumulativeLoss' = LostInRows
  <2>1. LossOf(tradeRows) \in Int /\ LossOf(tradeRows) = LostInRows
    BY <1>1, LossAdds DEF SessionTypeOK
  <2>2. cumulativeLoss' = IF complete THEN LossOf(tradeRows) ELSE 0
    BY <1>3 DEF RestoreFromDb
  <2> QED BY <2>1, <2>2
<1>14. LocksOK'
  <2>1. DOMAIN marginLocks' = {}
    BY DEF Restart
  <2> QED BY <1>9, <1>10, <2>1 DEF LocksOK
<1>15. SessionTypes'
  BY <1>10, <1>11, <1>12, <1>13, <1>14 DEF SessionTypes
<1>16. restored' = complete /\ strayMargin' = 0
  BY <1>3 DEF Restart, RestoreFromDb
<1>17. SessionTypeOK'
  <2>1. ids' \in Seq(DOMAIN orderRows')
    BY <1>2, <1>4, <1>8
  <2>2. orderRows' \in Seq(Row)
    BY <1>1, RestartTables DEF TablesInv
  <2> QED BY <1>1, <1>2, <1>8, <1>10, <1>16, <2>1, <2>2 DEF SessionTypeOK
<1>18. CacheMatchesRows'
  <2>1. ASSUME NEW k \in DOMAIN ids'
        PROVE  \E saved \in OrderOf(orderRows'[ids'[k]]) : SameTerms(store'[k], saved)
    <3>1. ids'[k] \in read /\ store'[k] = RestoredOrder(ids'[k])
      BY <1>8, <1>10
    <3>2. store'[k] \in OrderOf(orderRows[ids'[k]])
      BY <1>6, <3>1
    <3>3. ids'[k] \in DOMAIN orderRows
      BY <1>4, <1>5, <3>1
    <3> QED BY <1>2, <3>2, <3>3 DEF SameTerms
  <2> QED BY <1>10, <2>1 DEF CacheMatchesRows, SameTerms
<1>19. RestoredInFull'
  <2>1. ASSUME complete, NEW k \in 1..n, OrderOf(orderRows[k]) # {}
        PROVE  \E id \in DOMAIN ids' : ids'[id] = k
    <3>1. k \in read
      BY <1>3, <1>4, <2>1 DEF RestoreFromDb, RestorableRows
    <3> QED BY <1>8, <3>1
  <2> QED BY <1>2, <1>4, <1>10, <1>16, <2>1 DEF RestoredInFull
<1>20. LossNotForgotten'
  <2>1. LostInRows' = LostInRows /\ LostInRows \in Int
    BY <1>1, <1>2, LossAdds DEF LostInRows, SessionTypeOK
  <2> QED BY <1>13, <1>16, <2>1 DEF LossNotForgotten
<1> QED BY <1>15, <1>17, <1>18, <1>19, <1>20 DEF CacheInv

LEMMA CancelKeepsCache ==
  ASSUME CacheInv, NEW id \in OrderId, HandleCancel(id), SessionInv'
  PROVE  CacheInv'
<1>1. ChangesOrder(id) /\ cumulativeLoss' = cumulativeLoss
  BY CancelEffect DEF CacheInv, HandleCancel, CancelInCache
<1>2. UNCHANGED <<persistenceVars, told>>
  BY DEF HandleCancel, CancelInCache
<1>3. cumulativeLoss \in Int
  BY DEF CacheInv, SessionTypes
<1> QED BY <1>1, <1>2, <1>3, UnwrittenChange

LEMMA CashEffect ==
  ASSUME SessionTypes, NEW amount \in CashAmounts, HandleCash(amount)
  PROVE  /\ account' \in Account /\ account'.locked = account.locked
         /\ UNCHANGED <<store, positions, marginLocks, cumulativeLoss, tables, ids, strayMargin,
                       restored, told>>
<1>1. amount \in Int /\ account \in Account
  BY ServiceAssumption DEF SessionTypes
<1> QED BY <1>1 DEF HandleCash, CashInMemory, Deposit, Withdraw, DepositTo, WithdrawFrom,
                    Account, persistenceVars

LEMMA InitCache == CommandInit => CacheInv
<1> SUFFICES ASSUME CommandInit PROVE CacheInv
  OBVIOUS
<1>1. /\ store = <<>> /\ account = [balance |-> InitialBalance, locked |-> 0]
      /\ positions = <<>> /\ marginLocks = <<>> /\ cumulativeLoss = 0
      /\ orderRows = <<>> /\ tradeRows = <<>> /\ ids = <<>> /\ strayMargin = 0
      /\ restored = FALSE /\ told = {}
  BY DEF CommandInit, PersistenceInit, Init
<1>2. \A S : <<>> \in Seq(S) /\ Len(<<>>) = 0
  BY EmptySeq
<1>3. OrderId = {} /\ 1..0 = {} /\ DOMAIN positions = {} /\ DOMAIN marginLocks = {}
  BY <1>1 DEF OrderId
<1>4. LocksOK
  BY <1>1, <1>2, <1>3 DEF LocksOK
<1>5. account \in Account
  BY <1>1, ServiceAssumption DEF Account
<1>6. positions \in [DOMAIN positions -> Holding]
  BY <1>1, <1>3
<1>7. SessionTypes
  BY <1>1, <1>2, <1>4, <1>5, <1>6 DEF SessionTypes
<1>8. SessionTypeOK
  BY <1>1, <1>2, <1>3 DEF SessionTypeOK
<1>9. CacheMatchesRows /\ LossNotForgotten /\ RestoredInFull
  BY <1>1, <1>3 DEF CacheMatchesRows, LossNotForgotten, RestoredInFull
<1> QED BY <1>7, <1>8, <1>9, InitSession DEF CacheInv

LEMMA StepCache == CacheInv /\ [CommandNext]_commandVars => CacheInv'
<1> SUFFICES ASSUME CacheInv, [CommandNext]_commandVars PROVE CacheInv'
  OBVIOUS
<1>0. SessionInv' /\ SessionTypes
  BY StepSession DEF CacheInv
<1>1. ASSUME NEW line \in SubmitLines, HandleSubmit(line) PROVE CacheInv'
  BY <1>0, <1>1, SubmitKeepsCache
<1>2. ASSUME NEW line \in SubmitLines, HandleSubmitFails(line) PROVE CacheInv'
  <2>1. PICK req \in RequestsOf(line) : SubmitUnsaved(req) /\ told' = told
    BY <1>2 DEF HandleSubmitFails
  <2>2. PICK margin \in Nat : strayMargin' = strayMargin + margin
    BY <1>0, <2>1, LinesAreRequests, SubmitUnsavedEffect
  <2>3. strayMargin' \in Nat
    BY <2>2 DEF CacheInv, SessionTypeOK
  <2>4. /\ account' \in Account
        /\ UNCHANGED <<store, positions, marginLocks, cumulativeLoss, tables, ids, restored>>
    BY <1>0, <2>1, LinesAreRequests, SubmitUnsavedEffect
  <2> QED BY <1>0, <2>1, <2>3, <2>4, UnchangedCache
<1>3. ASSUME NEW id \in OrderId, NEW qty \in TypedQuantities, NEW price \in TypedPrices,
             HandleFill(id, qty, price) \/ HandleFillFails(id, qty, price)
      PROVE  CacheInv'
  BY <1>0, <1>3, FillKeepsCache, FillFailsKeepsCache
<1>4. ASSUME NEW id \in OrderId, HandleCancel(id) PROVE CacheInv'
  BY <1>0, <1>4, CancelKeepsCache
<1>5. ASSUME NEW amount \in CashAmounts, HandleCash(amount) PROVE CacheInv'
  <2>1. strayMargin \in Nat
    BY DEF CacheInv, SessionTypeOK
  <2> QED BY <1>0, <1>5, <2>1, CashEffect, UnchangedCache
<1>6. CASE EndAndRestart
  BY <1>0, <1>6, RestartKeepsCache DEF EndAndRestart
<1>7. CASE UNCHANGED commandVars
  <2>1. strayMargin \in Nat
    BY DEF CacheInv, SessionTypeOK
  <2> QED BY <1>0, <1>7, <2>1, UnchangedCache
             DEF commandVars, vars, persistenceVars, SessionTypes
<1> QED BY <1>1, <1>2, <1>3, <1>4, <1>5, <1>6, <1>7 DEF CommandNext, Command

\* Whatever is typed, and wherever the process ends, the sessions' variables
\* keep their types and the cache gives each order a row of its own.
THEOREM SessionsTypeCorrect == CommandSpec => []SessionTypeOK
<1>1. CacheInv => SessionTypeOK
  BY DEF CacheInv
<1> QED BY <1>1, InitCache, StepCache, PTL DEF CommandSpec

\* An order in the cache never changes from the terms its row is read back
\* with, through fills, cancels and restarts that read some of the rows.
THEOREM CacheStandsForRows == CommandSpec => []CacheMatchesRows
<1>1. CacheInv => CacheMatchesRows
  BY DEF CacheInv
<1> QED BY <1>1, InitCache, StepCache, PTL DEF CommandSpec

\* After a complete restore the running loss counts every loss on record.
THEOREM NoLossIsForgotten == CommandSpec => []LossNotForgotten
<1>1. CacheInv => LossNotForgotten
  BY DEF CacheInv
<1> QED BY <1>1, InitCache, StepCache, PTL DEF CommandSpec

\* After a complete restore the cache has every row that can be read: the
\* indices of the restored orders are as many as these rows and none is given
\* to two orders.
THEOREM RestoresEveryRow == CommandSpec => []RestoredInFull
<1>1. CacheInv => RestoredInFull
  BY DEF CacheInv
<1> QED BY <1>1, InitCache, StepCache, PTL DEF CommandSpec

-----------------------------------------------------------------------------
(* The locked margin.  A restart takes the locked margin of the account's  *)
(* row and no locks, so it is accounted for when the row has none: the     *)
(* seed data writes none, and no code writes the row.                      *)

NothingLockedOnRecord == \A row \in AccountRow : row.locked = 0

AccountInv == CacheInv /\ MarginAccounted

LEMMA AccountedIsHeld == MarginAccounted <=> account.locked = strayMargin + MarginHeld
  BY DEF MarginAccounted, MarginHeld, Locks, LockOf

\* So each lock is at most what is locked, and giving it back is not refused.
LEMMA NoReleaseFails ==
  ASSUME AccountInv
  PROVE  \A id \in OrderId : ~ReleaseFails(id)
<1>1. /\ LocksOK /\ strayMargin \in Nat /\ account.locked \in Int
      /\ account.locked = strayMargin + MarginHeld
  BY AccountedIsHeld DEF AccountInv, CacheInv, SessionTypes, SessionTypeOK, Account
<1>2. \A id \in DOMAIN marginLocks :
        marginLocks[id] \in Nat \ {0} /\ marginLocks[id] <= MarginHeld /\ MarginHeld \in Nat
  BY <1>1, HeldBounds DEF LocksOK
<1> QED BY <1>1, <1>2 DEF ReleaseFails, CanUnlock

LEMMA ChangeKeepsAccounted ==
  ASSUME AccountInv, NEW id \in OrderId, ChangesOrder(id), cumulativeLoss' \in Int,
         strayMargin' = strayMargin
  PROVE  MarginAccounted'
<1>1. /\ LocksOK /\ SessionTypes /\ strayMargin \in Nat
      /\ account.locked = strayMargin + MarginHeld
  BY AccountedIsHeld DEF AccountInv, CacheInv, SessionTypes, SessionTypeOK
<1>2. Len(store') = Len(store) /\ OrderId' = OrderId
  BY <1>1, ChangeKeepsTypes
<1>3. MarginHeld \in Nat /\ LockOf(id) \in Int
  BY <1>1, HeldBounds DEF LocksOK, LockOf
<1>4. account'.locked = strayMargin + MarginHeld'
  <2>1. CASE marginLocks' = marginLocks /\ account'.locked = account.locked
    BY <1>1, <1>2, <2>1, HeldStays
  <2>2. CASE marginLocks' = Remove(marginLocks, id) /\ account'.locked = Released(id).locked
    <3>1. MarginHeld' = MarginHeld - LockOf(id)
      BY <1>1, <1>2, <2>2, HeldReleases
    <3>2. Released(id).locked = account.locked - LockOf(id)
      BY <1>1, NoReleaseFails, ReleasedEffect
    <3> QED BY <1>1, <1>3, <2>2, <3>1, <3>2
  <2> QED BY <2>1, <2>2, NoReleaseFails DEF ChangesOrder
<1> QED BY <1>4 DEF MarginAccounted, MarginHeld, Locks, LockOf

\* A fill that is entered or refused, and a cancel.
LEMMA CallKeepsAccounted ==
  ASSUME AccountInv, NEW id \in OrderId, NEW qty \in Int, NEW price \in Int,
         \/ CancelOrder(id)
         \/ RefuseFill(id, qty) \/ AbandonFill(id, qty, price)
         \/ SettleFill(id, qty, price),
         strayMargin' = strayMargin
  PROVE  MarginAccounted'
<1>1. SessionTypes /\ cumulativeLoss \in Int
  BY DEF AccountInv, CacheInv, SessionTypes
<1>2. ChangesOrder(id) /\ cumulativeLoss' \in Int
  BY <1>1, CancelEffect, FillFailsEffect, SettleEffect, LossAfterFill
<1> QED BY <1>2, ChangeKeepsAccounted

LEMMA UnchangedAccounted ==
  ASSUME AccountInv, NEW margin \in Nat, store' = store, marginLocks' = marginLocks,
         account'.locked = account.locked + margin, strayMargin' = strayMargin + margin
  PROVE  MarginAccounted'
<1>1. /\ LocksOK /\ strayMargin \in Nat
      /\ account.locked = strayMargin + MarginHeld
  BY AccountedIsHeld DEF AccountInv, CacheInv, SessionTypes, SessionTypeOK
<1>2. MarginHeld' = MarginHeld /\ MarginHeld \in Nat
  BY <1>1, HeldStays, HeldBounds DEF OrderId
<1>3. account'.locked = strayMargin' + MarginHeld'
  BY <1>1, <1>2
<1> QED BY <1>3 DEF MarginAccounted, MarginHeld, Locks, LockOf

LEMMA SubmitKeepsAccounted ==
  ASSUME AccountInv, NEW line \in SubmitLines, HandleSubmit(line)
  PROVE  MarginAccounted'
<1>1. /\ LocksOK /\ SessionTypes /\ strayMargin \in Nat
      /\ account.locked = strayMargin + MarginHeld
  BY AccountedIsHeld DEF AccountInv, CacheInv, SessionTypes, SessionTypeOK
<1>2. PICK req \in RequestsOf(line) : SubmitSaved(req)
  BY DEF HandleSubmit
<1>3. /\ req \in OrderRequest /\ req.tif = "GTC"
      /\ req.type.kind \in {"Market", "Limit"}
  BY LinesAreResting
<1>4. PICK order \in Order : store' = Append(store, order)
  BY <1>1, <1>2, <1>3, SubmitSavedEffect
<1>5. Len(store') = Len(store) + 1 /\ OrderId' = 1..Len(store) + 1
  BY <1>1, <1>4 DEF SessionTypes, OrderId
<1>6. PICK margin \in Nat :
        /\ account'.locked = account.locked + margin
        /\ \/ marginLocks' = marginLocks /\ margin = 0
           \/ marginLocks' = Insert(marginLocks, NextId, margin) /\ margin > 0
  BY <1>1, <1>2, <1>3, SubmitSavedEffect
<1>7. MarginHeld' = MarginHeld + margin /\ MarginHeld \in Nat
  BY <1>1, <1>5, <1>6, HeldExtends, HeldBounds
<1>8. strayMargin' = strayMargin
  BY <1>2 DEF SubmitSaved
<1>9. account'.locked = strayMargin' + MarginHeld'
  BY <1>1, <1>6, <1>7, <1>8
<1> QED BY <1>9 DEF MarginAccounted, MarginHeld, Locks, LockOf

LEMMA RestartKeepsAccounted ==
  ASSUME NothingLockedOnRecord, Restart, LocksOK'
  PROVE  MarginAccounted'
<1>1. DOMAIN marginLocks' = {} /\ strayMargin' = 0
  BY DEF Restart
<1>2. account'.locked = 0
  <2>1. PICK accountRead \in BOOLEAN : account' = LoadedAccount(accountRead)
    BY DEF Restart, RestoreFromDb
  <2>2. AccountRow # {} => (CHOOSE row \in AccountRow : TRUE).locked = 0
    BY DEF NothingLockedOnRecord
  <2> QED BY <2>1, <2>2 DEF LoadedAccount
<1>3. MarginHeld' = 0
  <2> DEFINE f == Locks'
             n == Len(store')
             none == [k \in 1..0 |-> 0]
  <2>1. n \in Nat /\ OrderId' = 1..n
    BY DEF LocksOK
  <2>2. f = [id \in OrderId' |-> LockOf(id)']
    BY DEF Locks
  <2>3. \A id \in OrderId' : LockOf(id)' = 0
    BY <1>1 DEF LockOf
  <2>4. MarginHeld' = SumUpTo(f, n)
    BY DEF MarginHeld
  <2> HIDE DEF f, n
  <2>5. f \in [1..n -> Int] /\ \A k \in 1..n : f[k] = 0
    BY <2>1, <2>2, <2>3
  <2>6. none \in [1..0 -> Int] /\ 0 \in Nat /\ 0 <= n
    BY <2>1
  <2> HIDE DEF none
  <2>7. \A k \in 1..n : f[k] = IF k <= 0 THEN none[k] ELSE 0
    BY <2>1, <2>5
  <2>8. SumUpTo(f, n) = SumUpTo(none, 0)
    BY <2>1, <2>5, <2>6, <2>7, SumIgnoresZeros
  <2> QED BY <2>4, <2>6, <2>8, SumOfNone
<1> QED BY <1>1, <1>2, <1>3 DEF MarginAccounted, MarginHeld, Locks, LockOf

LEMMA InitAccounted == CommandInit => AccountInv
<1> SUFFICES ASSUME CommandInit PROVE AccountInv
  OBVIOUS
<1>1. /\ store = <<>> /\ account.locked = 0 /\ strayMargin = 0 /\ marginLocks = <<>>
  BY DEF CommandInit, PersistenceInit, Init
<1>2. Len(store) = 0 /\ OrderId = {}
  BY <1>1, EmptySeq DEF OrderId
<1>3. Locks \in [1..0 -> Int]
  BY <1>2 DEF Locks
<1>4. MarginHeld = 0
  BY <1>2, <1>3, SumOfNone DEF MarginHeld
<1> QED BY <1>1, <1>4, InitCache, AccountedIsHeld DEF AccountInv

LEMMA StepAccounted ==
  NothingLockedOnRecord /\ AccountInv /\ [CommandNext]_commandVars => AccountInv'
<1> SUFFICES ASSUME NothingLockedOnRecord, AccountInv, [CommandNext]_commandVars
             PROVE  MarginAccounted'
  BY StepCache DEF AccountInv
<1>0. SessionTypes /\ LocksOK'
  BY StepCache DEF AccountInv, CacheInv, SessionTypes
<1>1. ASSUME NEW line \in SubmitLines, HandleSubmit(line) PROVE MarginAccounted'
  BY <1>1, SubmitKeepsAccounted
<1>2. ASSUME NEW line \in SubmitLines, HandleSubmitFails(line) PROVE MarginAccounted'
  <2>1. PICK req \in RequestsOf(line) : SubmitUnsaved(req)
    BY <1>2 DEF HandleSubmitFails
  <2>2. PICK margin \in Nat : /\ account'.locked = account.locked + margin
                              /\ strayMargin' = strayMargin + margin
    BY <1>0, <2>1, LinesAreRequests, SubmitUnsavedEffect
  <2>3. store' = store /\ marginLocks' = marginLocks
    BY <2>1 DEF SubmitUnsaved
  <2> QED BY <2>2, <2>3, UnchangedAccounted
<1>3. ASSUME NEW id \in OrderId, NEW qty \in TypedQuantities, NEW price \in TypedPrices,
             HandleFill(id, qty, price) \/ HandleFillFails(id, qty, price)
      PROVE  MarginAccounted'
  <2>1. qty \in Int /\ price \in Int
    BY CommandAssumption
  <2>2. /\ RefuseFill(id, qty) \/ AbandonFill(id, qty, price) \/ SettleFill(id, qty, price)
        /\ strayMargin' = strayMargin
    BY <1>3 DEF HandleFill, HandleFillFails, FillSaved, FillUnsaved, FillFails, persistenceVars
  <2> QED BY <2>1, <2>2, CallKeepsAccounted
<1>4. ASSUME NEW id \in OrderId, HandleCancel(id) PROVE MarginAccounted'
  <2>1. CancelOrder(id) /\ strayMargin' = strayMargin /\ 0 \in Int
    BY <1>4 DEF HandleCancel, CancelInCache, persistenceVars
  <2> QED BY <2>1, CallKeepsAccounted
<1>5. ASSUME account'.locked = account.locked, store' = store, marginLocks' = marginLocks,
             strayMargin' = strayMargin
      PROVE  MarginAccounted'
  <2> DEFINE none == 0
  <2>1. none \in Nat /\ account'.locked = account.locked + none
        /\ strayMargin' = strayMargin + none
    BY <1>0, <1>5 DEF SessionTypes, Account, AccountInv, CacheInv, SessionTypeOK
  <2> HIDE DEF none
  <2> QED BY <1>5, <2>1, UnchangedAccounted
<1>6. ASSUME NEW amount \in CashAmounts, HandleCash(amount) PROVE MarginAccounted'
  BY <1>0, <1>5, <1>6, CashEffect
<1>7. CASE EndAndRestart
  BY <1>0, <1>7, RestartKeepsAccounted DEF EndAndRestart
<1>8. CASE UNCHANGED commandVars
  BY <1>5, <1>8 DEF commandVars, vars, persistenceVars
<1> QED BY <1>1, <1>2, <1>3, <1>4, <1>6, <1>7, <1>8 DEF CommandNext, Command

\* The locked margin is the margin of the locks and what failed saves left: a
\* restart drops both, and no cancel or fill fails to give margin back.
THEOREM MarginIsAccounted == NothingLockedOnRecord => (CommandSpec => []MarginAccounted)
<1> SUFFICES ASSUME NothingLockedOnRecord PROVE CommandSpec => []MarginAccounted
  OBVIOUS
<1>1. AccountInv /\ [CommandNext]_commandVars => AccountInv'
  BY StepAccounted
<1>2. AccountInv => MarginAccounted
  BY DEF AccountInv
<1> QED BY <1>1, <1>2, InitAccounted, PTL DEF CommandSpec
=============================================================================
