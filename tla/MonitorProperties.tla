------------------------- MODULE MonitorProperties -------------------------
(***************************************************************************)
(* What the margin monitor and the risk engine promise.                    *)
(***************************************************************************)
EXTENDS MarginMonitor

\* Every variable has its type; what is left to close is a position.
MonitorTypeOK ==
  /\ lastLevel \in MarginLevel
  /\ toClose \subseteq DOMAIN positions
  /\ calls \in Nat
  /\ liquidation \subseteq OrderId

\* A stop-out counts as handled, and is not acted on again, only when an order
\* of the whole size and the opposite side was submitted for every position: a
\* liquidation that ends half-way in an error is taken up by the next check.
\* (check, force_liquidate)
HandledStopOutCoversPositions ==
  [][lastLevel' = "StopOut" /\ lastLevel # "StopOut" =>
       \A i \in DOMAIN positions : \E id \in liquidation' :
         /\ store'[id].instrument = i
         /\ store'[id].side # positions[i].side
         /\ store'[id].quantity = positions[i].quantity]_<<vars, monitorVars>>

\* A liquidation ends, with all its orders submitted or one refused, and lets the
\* other callers of the service in again: no position keeps it from ending.
\* (force_liquidate, under the lock of the service)
LiquidationEnds == (toClose # {}) ~> (toClose = {})

\* However the level moves between checks, through stop-outs handled and
\* refused, the owner gets at most one margin call until it is normal again.
\* Not so the stop-out alert, which every check repeats that tries a refused
\* liquidation again.  (check)
MarginCallsAreNotRepeated == calls <= 1

\* The closing orders within the limit on an order's quantity.
ClosingRequests ==
  [instrument : Instrument, side : Side, type : [kind : {"Market"}],
   quantity : 1..MaxOrderQuantity, tif : {"IOC"}]

Service == INSTANCE OrderService WITH Requests <- Requests \cup ClosingRequests

\* Liquidation goes through the order service: to the service the monitor is one
\* more client, that asks for closing orders besides the others' requests.
MonitorImplementsService == Service!Spec

KnownMarks == UNION {[known -> MarketPrices] : known \in SUBSET Instrument}

\* The equation of risk_engine.rs:166-171: with the position's instrument at
\* price and all else as it is, equity is the stop-out ratio of used margin.
StopsOutAt(i, price, marks) ==
  LET pos    == positions[i]
      others == DOMAIN positions \ {i}
      level  == price.num - pos.avgPrice * price.den
      gain   == pos.quantity * (IF pos.side = "Buy" THEN level ELSE -level)
      equity == price.den * (account.balance + Unrealized(positions, others, marks)) + gain
      used   == price.den * Leverage[i] * UsedMargin(positions, others, marks, Leverage)
                  + price.num * pos.quantity
  IN  100 * Leverage[i] * equity = StopOutRatio * used

PricesFor(marks) == StopOutPrices(account.balance, positions, marks, Leverage)

\* The stop-out price reported for a short position is the price at which it
\* stops out, whatever else is held and whichever prices are known.
ShortStopOutPricesAreRight ==
  \A marks \in KnownMarks : \A i \in DOMAIN PricesFor(marks) :
    positions[i].side = "Sell" => StopsOutAt(i, PricesFor(marks)[i], marks)

-----------------------------------------------------------------------------
(* Said of the monitor and the engine, and not so: each is checked to find *)
(* the counterexample.                                                     *)

\* margin_monitor.rs:115: the matching engine, or the caller of fill_order in a
\* simulation, fills the closing orders; so they can take their fill.
ClosingOrdersCanBeFilled ==
  [][\A id \in liquidation' \ liquidation :
       TakesFill(store'[id], store'[id].quantity)]_<<vars, monitorVars>>

\* risk_engine.rs:39: reaching a stop-out price stops the position out, be it
\* short or long.
StopOutPricesAreRight ==
  \A marks \in KnownMarks : \A i \in DOMAIN PricesFor(marks) :
    StopsOutAt(i, PricesFor(marks)[i], marks)
=============================================================================
