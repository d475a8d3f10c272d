------------------------------ MODULE Positions -----------------------------
(***************************************************************************)
(* Netted positions: at most one per instrument                            *)
(* (src/src/domain/position.rs), and how a fill is netted into them        *)
(* (update_position_with_pnl of src/src/service/order_service.rs).         *)
(***************************************************************************)
EXTENDS Integers, Maps

\* The quantity is never negative: fills are positive and close what is held.
Position ==
  [side : {"Buy", "Sell"}, quantity : Nat, avgPrice : Int, unrealized : Int]

NewPosition(side, qty, price) ==
  [side |-> side, quantity |-> qty, avgPrice |-> price, unrealized |-> 0]

\* What qty units of the position gain when they are valued at price.
Gain(pos, qty, price) ==
  IF pos.side = "Buy" THEN (price - pos.avgPrice) * qty ELSE (pos.avgPrice - price) * qty

\* In whole units.  The divisor may be negative, since the command line lets
\* negative quantities through, and \div is defined for positive ones alone.
Quotient(a, b) == IF b > 0 THEN a \div b ELSE (-a) \div (-b)

\* Mutant: the average ignores the size of what is held already.
AddUnweighted(pos, qty, price) ==
  [pos EXCEPT !.quantity = @ + qty, !.avgPrice = (@ + price) \div 2]

\* A fill on the position's side: the average price is weighted by quantity.
Add(pos, qty, price) ==
  LET total == pos.quantity + qty
  IN  [pos EXCEPT !.quantity = total,
                  !.avgPrice = IF total = 0 THEN @
                               ELSE Quotient(@ * pos.quantity + price * qty, total)]

CloseQuantity(pos, qty) == IF qty < pos.quantity THEN qty ELSE pos.quantity

\* A fill against the position closes at most what is held.
Reduce(pos, qty) ==
  LET rest == pos.quantity - CloseQuantity(pos, qty)
  IN  [pos EXCEPT !.quantity = rest, !.avgPrice = IF rest = 0 THEN 0 ELSE @]

UpdateUnrealized(pos, price) ==
  [pos EXCEPT !.unrealized = Gain(pos, pos.quantity, price)]

\* The realized profit or loss of a fill; a fill that closes nothing has none,
\* which is written 0.
RealizedPnl(positions, instrument, side, qty, price) ==
  IF instrument \in DOMAIN positions /\ positions[instrument].side # side
  THEN LET pos == positions[instrument]
       IN  Gain(pos, CloseQuantity(pos, qty), price)
  ELSE 0

\* Mutant: what is left of a reversing fill is lost.
NetFillNoReversal(positions, instrument, side, qty, price) ==
  IF instrument \notin DOMAIN positions
  THEN Insert(positions, instrument, NewPosition(side, qty, price))
  ELSE LET pos  == positions[instrument]
           rest == Reduce(pos, qty)
       IN  IF pos.side = side
           THEN [positions EXCEPT ![instrument] = Add(pos, qty, price)]
           ELSE IF rest.quantity # 0
           THEN [positions EXCEPT ![instrument] = rest]
           ELSE Remove(positions, instrument)

\* A first fill opens the position, one on its side adds to it, one against it
\* reduces it; a flat position is removed, and what the fill has left over
\* opens a position on the fill's side.
NetFill(positions, instrument, side, qty, price) ==
  IF instrument \notin DOMAIN positions
  THEN Insert(positions, instrument, NewPosition(side, qty, price))
  ELSE LET pos  == positions[instrument]
           rest == Reduce(pos, qty)
       IN  IF pos.side = side
           THEN [positions EXCEPT ![instrument] = Add(pos, qty, price)]
           ELSE IF rest.quantity # 0
           THEN [positions EXCEPT ![instrument] = rest]
           ELSE IF qty > pos.quantity
           THEN [positions EXCEPT ![instrument] =
                   NewPosition(side, qty - pos.quantity, price)]
           ELSE Remove(positions, instrument)
=============================================================================
