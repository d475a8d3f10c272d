----------------------------- MODULE RiskChecks -----------------------------
(***************************************************************************)
(* The checks made before an order is taken and before a market order is   *)
(* settled (src/src/service/risk_check.rs), and the limits they read.      *)
(***************************************************************************)
EXTENDS Orders, Accounts

CONSTANTS
  MaxOrderQuantity,  \* largest quantity of one order
  MaxOpenOrders,     \* open orders an account may have
  MaxOpenPositions,  \* positions an account may have
  MaxLoss            \* {} for no limit, {m} for a cumulative realized loss of m

ASSUME LimitsAssumption ==
  /\ MaxOrderQuantity \in Nat
  /\ MaxOpenOrders \in Nat
  /\ MaxOpenPositions \in Nat
  /\ MaxLoss \in Option(Nat)

PositivePrices(type) ==
  /\ type.kind = "Limit" => type.price > 0
  /\ type.kind = "Stop" => type.trigger > 0
  /\ type.kind = "StopLimit" => type.trigger > 0 /\ type.limit > 0
  /\ type.kind = "TrailingStop" => type.trail > 0

\* Mutant: one open order more than the limit is let in.
ValidateOrderOffByOne(type, quantity, openOrders, openPositions) ==
  /\ quantity > 0
  /\ quantity <= MaxOrderQuantity
  /\ PositivePrices(type)
  /\ openOrders <= MaxOpenOrders
  /\ openPositions < MaxOpenPositions

ValidateOrder(type, quantity, openOrders, openPositions) ==
  /\ quantity > 0
  /\ quantity <= MaxOrderQuantity
  /\ PositivePrices(type)
  /\ openOrders < MaxOpenOrders
  /\ openPositions < MaxOpenPositions

ValidateMargin(available, price, quantity, leverage) ==
  available >= RequiredMargin(price, quantity, leverage)

LossLimitHit(cumulativeLoss) == \E limit \in MaxLoss : cumulativeLoss < -limit
=============================================================================
