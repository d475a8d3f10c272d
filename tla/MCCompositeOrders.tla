-------------------------- MODULE MCCompositeOrders --------------------------
(***************************************************************************)
(* Instances of the composite order service for TLC.                       *)
(***************************************************************************)
EXTENDS CompositeProperties, MCOrderService

\* Orders to be secondaries: a limit order, which is refused when the others
\* leave no room or no funds for it, and a FOK order, which is rejected.
CompositeSecondaries ==
  {Request(FX, "Buy", Limit(6), 3, "GTC"),
   Request(FX, "Sell", Market, 1, "FOK")}

\* Orders to be primaries and legs: besides those a smaller limit order.  Of
\* fills of 2 and 3 units the larger one takes either: a part of it, which leaves
\* it open for good or until it is cancelled, or the whole.  Only one of it can be
\* afforded, beside a smaller one.
CompositeRequests ==
  CompositeSecondaries \cup {Request(FX, "Sell", Limit(6), 2, "GTC")}
=============================================================================
