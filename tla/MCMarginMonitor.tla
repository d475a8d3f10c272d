--------------------------- MODULE MCMarginMonitor ---------------------------
(***************************************************************************)
(* Instances of the margin monitor for TLC.                                *)
(***************************************************************************)
EXTENDS MonitorProperties, MCOrderService

\* A long position in one instrument, a short one in the other; two buys make
\* the long position larger than an order may be.
MonitorRequests ==
  {Request(FX, "Buy", Market, 1, "GTC"),
   Request(JP, "Sell", Market, 1, "GTC")}
=============================================================================
