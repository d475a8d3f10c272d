---------------------------- MODULE MarginMonitor ----------------------------
(***************************************************************************)
(* The margin monitor (src/src/service/margin_monitor.rs), over the order  *)
(* service whose account it watches.  check is called with the market      *)
(* prices the caller knows; on a stop-out it submits an order to close     *)
(* each position.  The submissions are steps of their own, with everyone   *)
(* else held back by toClose while the call lasts.  A check that only      *)
(* reports the level is no step.                                           *)
(***************************************************************************)
EXTENDS OrderService, RiskEngine

VARIABLES
  lastLevel,    \* the level the last check acted on
  toClose,      \* the instruments force_liquidate has still to submit for
  calls,        \* history: margin call alerts since a check last found Normal
  liquidation   \* history: the orders of the last liquidation

monitorVars == <<lastLevel, toClose, calls, liquidation>>

MonitorInit ==
  /\ Init
  /\ lastLevel = "Normal" /\ toClose = {} /\ calls = 0 /\ liquidation = {}

MonitoredCall ==
  /\ toClose = {}
  /\ Next
  /\ UNCHANGED monitorVars

Level(marks) == LevelOf(account.balance, positions, marks, Leverage)

CheckNormal(marks) ==
  /\ toClose = {}
  /\ Level(marks) = "Normal"
  /\ lastLevel' = "Normal"
  /\ calls' = 0
  /\ UNCHANGED <<vars, toClose, liquidation>>

\* Mutant: recovering from a stop-out to a margin call is announced as well.
CheckMarginCallAlways(marks) ==
  /\ toClose = {}
  /\ Level(marks) = "MarginCall" /\ lastLevel # "MarginCall"
  /\ lastLevel' = "MarginCall"
  /\ calls' = calls + 1
  /\ UNCHANGED <<vars, toClose, liquidation>>

CheckMarginCall(marks) ==
  /\ toClose = {}
  /\ Level(marks) = "MarginCall" /\ lastLevel = "Normal"
  /\ lastLevel' = "MarginCall"
  /\ calls' = calls + 1
  /\ UNCHANGED <<vars, toClose, liquidation>>

\* Mutant: an order is submitted for every instrument, held or not.
CheckStopOutEverywhere(marks) ==
  /\ toClose = {}
  /\ Level(marks) = "StopOut" /\ lastLevel # "StopOut"
  /\ Len(store) + Cardinality(DOMAIN positions) <= MaxOrders
  /\ toClose' = Instrument
  /\ liquidation' = {}
  /\ UNCHANGED <<vars, lastLevel, calls>>

\* The model's bound on orders leaves room for the closing orders.
CheckStopOut(marks) ==
  /\ toClose = {}
  /\ Level(marks) = "StopOut" /\ lastLevel # "StopOut"
  /\ Len(store) + Cardinality(DOMAIN positions) <= MaxOrders
  /\ toClose' = DOMAIN positions
  /\ liquidation' = {}
  /\ UNCHANGED <<vars, lastLevel, calls>>

ClosingOrder(i) ==
  [instrument |-> i, side |-> IF positions[i].side = "Buy" THEN "Sell" ELSE "Buy",
   type |-> [kind |-> "Market"], quantity |-> positions[i].quantity, tif |-> "IOC"]

\* Mutant: the position is closed without an order.
CloseUnseen(i) ==
  /\ i \in toClose
  /\ positions' = Remove(positions, i)
  /\ toClose' = toClose \ {i}
  /\ lastLevel' = IF toClose' = {} THEN "StopOut" ELSE lastLevel
  /\ UNCHANGED <<store, account, marginLocks, cumulativeLoss, trades, lastEvent,
                 netCash, calls, liquidation>>

\* With the last order submitted the stop-out counts as handled.
ForceLiquidate(i) ==
  /\ i \in toClose
  /\ SubmitIoc(ClosingOrder(i))
  /\ toClose' = toClose \ {i}
  /\ liquidation' = liquidation \cup {NextId}
  /\ lastLevel' = IF toClose' = {} THEN "StopOut" ELSE lastLevel
  /\ UNCHANGED calls

\* Mutant: the refused order's error is swallowed.
SkipRefused(i) ==
  /\ i \in toClose
  /\ ~WithinLimits(ClosingOrder(i))
  /\ toClose' = toClose \ {i}
  /\ lastLevel' = IF toClose' = {} THEN "StopOut" ELSE lastLevel
  /\ UNCHANGED <<vars, calls, liquidation>>

\* Mutant: a refused order is tried again.
RetryRefused(i) ==
  /\ i \in toClose
  /\ ~WithinLimits(ClosingOrder(i))
  /\ UNCHANGED <<vars, monitorVars>>

\* A refused order ends the call with its error: the rest is not tried, and the
\* level is not recorded.
LiquidationRefused(i) ==
  /\ i \in toClose
  /\ ~WithinLimits(ClosingOrder(i))
  /\ toClose' = {}
  /\ UNCHANGED <<vars, lastLevel, calls, liquidation>>

Liquidate == \E i \in Instrument : ForceLiquidate(i) \/ LiquidationRefused(i)

Check ==
  \/ \E known \in SUBSET Instrument : \E marks \in [known -> MarketPrices] :
       CheckNormal(marks) \/ CheckMarginCall(marks) \/ CheckStopOut(marks)
  \/ Liquidate

MonitorNext == MonitoredCall \/ Check

MonitorSpec == MonitorInit /\ [][MonitorNext]_<<vars, monitorVars>>

\* A liquidation is a loop of one call: it goes on until it ends.
FairMonitorSpec == MonitorSpec /\ WF_<<vars, monitorVars>>(Liquidate)
=============================================================================
