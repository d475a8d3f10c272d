------------------------------ MODULE OrderRows ------------------------------
(***************************************************************************)
(* Orders as rows of the orders table: what PgOrderRepository writes, what *)
(* the table accepts and what is read back                                 *)
(* (src/src/infra/pg_order_repo.rs, src/sql/001_create_tables.sql).  A     *)
(* column that may be NULL is an optional value.                           *)
(***************************************************************************)
EXTENDS Orders

SideText == [Buy |-> "buy", Sell |-> "sell"]

TypeText ==
  [Market |-> "market", Limit |-> "limit", Stop |-> "stop",
   StopLimit |-> "stop_limit", TrailingStop |-> "trailing_stop"]

TifText == [GTC |-> "gtc", IOC |-> "ioc", FOK |-> "fok"]

StatusText ==
  [New |-> "new", PendingTrigger |-> "pending_trigger", Accepted |-> "accepted",
   PartiallyFilled |-> "partially_filled", Filled |-> "filled",
   Cancelled |-> "cancelled", Rejected |-> "rejected"]

\* The value a text stands for, if there is one.
Read(names, text) == {value \in DOMAIN names : names[value] = text}

Row ==
  [instrument : Instrument, side : Range(SideText), type : Range(TypeText),
   price : Option(Int), quantity : Int, filled : Int, tif : Range(TifText),
   status : Range(StatusText),
   trigger : Option(Int), limit : Option(Int), trail : Option(Int), best : Option(Int),
   updated : {"Submitted", "Restored"}]   \* what updated_at is the time of

\* A trailing stop's distance is the fourth field of its tuple, which save
\* binds to limit_price; trail_amount is always NULL.
PriceColumns(type) ==
  CASE type.kind = "Market"       -> [price |-> {}, trigger |-> {}, limit |-> {}]
    [] type.kind = "Limit"        -> [price |-> {type.price}, trigger |-> {}, limit |-> {}]
    [] type.kind = "Stop"         -> [price |-> {}, trigger |-> {type.trigger}, limit |-> {}]
    [] type.kind = "StopLimit"    -> [price |-> {}, trigger |-> {type.trigger},
                                      limit |-> {type.limit}]
    [] type.kind = "TrailingStop" -> [price |-> {}, trigger |-> {}, limit |-> {type.trail}]

RowOf(order) ==
  [instrument |-> order.instrument, side |-> SideText[order.side],
   type |-> TypeText[order.type.kind], price |-> PriceColumns(order.type).price,
   quantity |-> order.quantity, filled |-> order.filled, tif |-> TifText[order.tif],
   status |-> StatusText[order.status], trigger |-> PriceColumns(order.type).trigger,
   limit |-> PriceColumns(order.type).limit, trail |-> {}, best |-> order.best,
   updated |-> "Submitted"]

\* The CHECK constraints of the table: no stop is a limit or a market order.
Accepts(row) ==
  /\ row.quantity > 0
  /\ row.filled >= 0 /\ row.filled <= row.quantity
  /\ \/ row.type = "market" /\ row.price = {}
     \/ row.type = "limit" /\ \E price \in row.price : price > 0

\* A row that is there already takes three columns of the new one.  It takes
\* updated_at as well, but the trigger on updates of the table puts the present
\* time over it; and saves of rows that are there are a restart's.
Upsert(old, new) ==
  [old EXCEPT !.status = new.status, !.filled = new.filled, !.best = new.best,
              !.updated = "Restored"]

\* Mutant: a price is read from the column of stop-limit orders.
TypeFromLimitColumn(row) == {[kind |-> "Limit", price |-> p] : p \in row.limit}

TypeOf(row) ==
  CASE row.type = "market"        -> {[kind |-> "Market"]}
    [] row.type = "limit"         -> {[kind |-> "Limit", price |-> p] : p \in row.price}
    [] row.type = "stop"          -> {[kind |-> "Stop", trigger |-> t] : t \in row.trigger}
    [] row.type = "stop_limit"    -> {[kind |-> "StopLimit", trigger |-> t, limit |-> l] :
                                        t \in row.trigger, l \in row.limit}
    [] row.type = "trailing_stop" -> {[kind |-> "TrailingStop", trail |-> a] : a \in row.trail}
    [] OTHER                      -> {}

\* The order a row stands for, if it can be read.
OrderOf(row) ==
  {[instrument |-> row.instrument, side |-> side, type |-> type,
    quantity |-> row.quantity, filled |-> row.filled, tif |-> tif,
    status |-> status, best |-> row.best] :
      side \in Read(SideText, row.side), type \in TypeOf(row),
      tif \in Read(TifText, row.tif), status \in Read(StatusText, row.status)}
=============================================================================
