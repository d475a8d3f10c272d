------------------------------- MODULE Orders -------------------------------
(***************************************************************************)
(* One order: its statuses, the moves between them, how a fill is entered  *)
(* and how a market price moves a stop (src/src/domain/order.rs).          *)
(* Operators take the order they act on and return the order the method    *)
(* leaves behind.  A Decimal is an integer number of the smallest units.   *)
(***************************************************************************)
EXTENDS Integers, FiniteSetsExt

CONSTANT Instrument

Side == {"Buy", "Sell"}

TimeInForce == {"GTC", "IOC", "FOK"}

OrderType ==
       [kind : {"Market"}]
  \cup [kind : {"Limit"}, price : Int]
  \cup [kind : {"Stop"}, trigger : Int]
  \cup [kind : {"StopLimit"}, trigger : Int, limit : Int]
  \cup [kind : {"TrailingStop"}, trail : Int]

IsStopType(type) == type.kind \in {"Stop", "StopLimit", "TrailingStop"}

OrderStatus ==
  {"New", "PendingTrigger", "Accepted", "PartiallyFilled", "Filled",
   "Cancelled", "Rejected"}

IsOpen(status) ==
  status \in {"New", "PendingTrigger", "Accepted", "PartiallyFilled"}

IsTerminal(status) == status \in {"Filled", "Cancelled", "Rejected"}

\* Mutant: an accepted order can be accepted again, a finished one cancelled.
CanMoveTooFar(from, to) ==
  \/ from = "New" /\ to \in {"PendingTrigger", "Accepted", "Rejected"}
  \/ from = "PendingTrigger" /\ to \in {"Accepted", "Cancelled"}
  \/ from \in {"Accepted", "PartiallyFilled"} /\ to \in {"PartiallyFilled", "Filled"}
  \/ to = "Cancelled"

CanMove(from, to) ==
  \/ from = "New" /\ to \in {"PendingTrigger", "Accepted", "Rejected"}
  \/ from = "PendingTrigger" /\ to \in {"Accepted", "Cancelled"}
  \/ from \in {"Accepted", "PartiallyFilled"}
     /\ to \in {"PartiallyFilled", "Filled", "Cancelled"}

\* An optional value is the empty set or a singleton.
Option(S) == {T \in SUBSET S : \A x, y \in T : x = y}

OrderRequest ==
  [instrument : Instrument, side : Side, type : OrderType, quantity : Int,
   tif : TimeInForce]

Order ==
  [instrument : Instrument, side : Side, type : OrderType, quantity : Int,
   filled : Int, tif : TimeInForce, status : OrderStatus, best : Option(Int)]

NewOrder(req) ==
  [instrument |-> req.instrument, side |-> req.side, type |-> req.type,
   quantity |-> req.quantity, filled |-> 0, tif |-> req.tif,
   status |-> "New", best |-> {}]

\* An illegal move returns an error and leaves the order alone.
MoveTo(order, status) ==
  IF CanMove(order.status, status) THEN [order EXCEPT !.status = status] ELSE order

-----------------------------------------------------------------------------
(* Fills.                                                                  *)

\* Mutant: earlier fills are forgotten.
OverFillsAlone(order, qty) == qty > order.quantity

OverFills(order, qty) == order.filled + qty > order.quantity

FillStatus(order, qty) ==
  IF order.filled + qty = order.quantity THEN "Filled" ELSE "PartiallyFilled"

\* The fills apply_fill returns Ok for.
TakesFill(order, qty) ==
  ~OverFills(order, qty) /\ CanMove(order.status, FillStatus(order, qty))

\* The filled quantity is written before the move is tried: a fill that does
\* not over-fill is counted even when the order's status refuses it.
ApplyFill(order, qty) ==
  IF OverFills(order, qty)
  THEN order
  ELSE MoveTo([order EXCEPT !.filled = @ + qty], FillStatus(order, qty))

-----------------------------------------------------------------------------
(* Stops and trailing stops under a market price.                          *)

\* A buy stop is reached from below, a sell stop from above.
Reaches(side, price, level) == IF side = "Buy" THEN price >= level ELSE price <= level

BestPrice(order, price) == IF order.best = {} THEN price ELSE Min(order.best)

TriggerLevel(order, price) ==
  CASE order.type.kind \in {"Stop", "StopLimit"} -> order.type.trigger
    [] order.type.kind = "TrailingStop" /\ order.side = "Buy" ->
         BestPrice(order, price) + order.type.trail
    [] order.type.kind = "TrailingStop" /\ order.side = "Sell" ->
         BestPrice(order, price) - order.type.trail

\* Mutant: the level has to be passed, touching it is not enough.
TriggersStrictly(order, price) ==
  /\ IsStopType(order.type)
  /\ Reaches(order.side, price, TriggerLevel(order, price))
  /\ price # TriggerLevel(order, price)

Triggers(order, price) ==
  /\ IsStopType(order.type)
  /\ Reaches(order.side, price, TriggerLevel(order, price))

CheckTrigger(order, price) ==
  IF order.status = "PendingTrigger" /\ Triggers(order, price)
  THEN MoveTo(order, "Accepted")
  ELSE order

\* Mutant: the best price follows the market in both directions.
FollowPrice(order, price) ==
  IF order.type.kind = "TrailingStop" /\ order.status = "PendingTrigger"
  THEN [order EXCEPT !.best = {price}]
  ELSE order

\* The best price a waiting trailing stop has seen: the lowest for a buy, the
\* highest for a sell.
UpdateTrailingBest(order, price) ==
  IF order.type.kind = "TrailingStop" /\ order.status = "PendingTrigger"
  THEN [order EXCEPT !.best =
          {IF order.side = "Buy" THEN Min(@ \cup {price}) ELSE Max(@ \cup {price})}]
  ELSE order
=============================================================================
