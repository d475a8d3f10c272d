----------------------------- MODULE RiskEngine -----------------------------
(***************************************************************************)
(* Margin levels and stop-out prices (src/src/domain/risk_engine.rs).      *)
(* marks maps the instruments that have a market price to it; ratios are   *)
(* percentages.  What is only displayed - free margin, effective leverage, *)
(* the ratio itself - is left out.                                         *)
(***************************************************************************)
EXTENDS Positions, FiniteSetsExt

CONSTANTS
  MarginCallRatio,  \* at or below it the level is MarginCall
  StopOutRatio      \* at or below it the level is StopOut

ASSUME RatiosAssumption ==
  /\ MarginCallRatio \in Nat
  /\ StopOutRatio \in Nat

MarginLevel == {"Normal", "MarginCall", "StopOut"}

\* A position whose instrument has no mark price counts with the profit and
\* loss stored with it, and ties up margin at its average price.
UnrealizedOf(pos, i, marks) ==
  IF i \in DOMAIN marks THEN Gain(pos, pos.quantity, marks[i]) ELSE pos.unrealized

PriceOf(pos, i, marks) == IF i \in DOMAIN marks THEN marks[i] ELSE pos.avgPrice

Unrealized(positions, held, marks) ==
  LET Value(i) == UnrealizedOf(positions[i], i, marks) IN MapThenSumSet(Value, held)

UsedMargin(positions, held, marks, leverage) ==
  LET Value(i) == (PriceOf(positions[i], i, marks) * positions[i].quantity) \div leverage[i]
  IN  MapThenSumSet(Value, held)

Equity(balance, positions, marks) ==
  balance + Unrealized(positions, DOMAIN positions, marks)

\* equity / used * 100 <= ratio; without used margin the ratio is the largest
\* Decimal.
AtOrBelow(ratio, equity, used) == used # 0 /\ 100 * equity <= ratio * used

\* The level MarginStatus::calculate finds.
LevelOf(balance, positions, marks, leverage) ==
  LET equity == Equity(balance, positions, marks)
      used   == UsedMargin(positions, DOMAIN positions, marks, leverage)
  IN  CASE AtOrBelow(StopOutRatio, equity, used) -> "StopOut"
        [] ~AtOrBelow(StopOutRatio, equity, used)
             /\ AtOrBelow(MarginCallRatio, equity, used) -> "MarginCall"
        [] OTHER -> "Normal"

-----------------------------------------------------------------------------
(* Stop-out prices.  A price is a fraction num/den.                        *)

Below(price, level) ==
  IF price.den > 0 THEN price.num < level * price.den ELSE price.num > level * price.den

Above(price, level) ==
  IF price.den > 0 THEN price.num > level * price.den ELSE price.num < level * price.den

\* Mutant: the margin of the other positions is forgotten.
StopPriceAlone(pos, baseEquity, baseMargin, lev) ==
  IF pos.side = "Buy"
  THEN [num |-> (100 * (pos.avgPrice * pos.quantity - baseEquity)) * lev,
        den |-> (StopOutRatio - 100 * lev) * pos.quantity]
  ELSE [num |-> (100 * (baseEquity + pos.avgPrice * pos.quantity)) * lev,
        den |-> (100 * lev + StopOutRatio) * pos.quantity]

\* (M r - E + a q) / ((r / lev - 1) q) for a long position of q at average a,
\* and (E + a q - M r) / ((1 + r / lev) q) for a short one: E is the equity and
\* M the margin without it, r the stop-out ratio over 100.
StopPrice(pos, baseEquity, baseMargin, lev) ==
  IF pos.side = "Buy"
  THEN [num |-> (StopOutRatio * baseMargin + 100 * (pos.avgPrice * pos.quantity - baseEquity)) * lev,
        den |-> (StopOutRatio - 100 * lev) * pos.quantity]
  ELSE [num |-> (100 * (baseEquity + pos.avgPrice * pos.quantity) - StopOutRatio * baseMargin) * lev,
        den |-> (100 * lev + StopOutRatio) * pos.quantity]

\* The prices calculate_stop_out_prices returns: no price for a position the
\* equation has no solution for, nor for one that is past its price.
StopOutPrices(balance, positions, marks, leverage) ==
  LET Others(i) == DOMAIN positions \ {i}
      PriceFor(i) == StopPrice(positions[i],
                               balance + Unrealized(positions, Others(i), marks),
                               UsedMargin(positions, Others(i), marks, leverage),
                               leverage[i])
      Meaningful(i) == /\ PriceFor(i).den # 0
                       /\ IF positions[i].side = "Buy"
                          THEN Below(PriceFor(i), PriceOf(positions[i], i, marks))
                          ELSE Above(PriceFor(i), PriceOf(positions[i], i, marks))
  IN  [i \in {j \in DOMAIN positions : Meaningful(j)} |-> PriceFor(i)]
=============================================================================
