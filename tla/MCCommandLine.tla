---------------------------- MODULE MCCommandLine ----------------------------
(***************************************************************************)
(* Sessions of the command line for TLC.  The account's row is the one the *)
(* seed data inserts; the loss is not limited, as create_pg_service leaves *)
(* the limits at their defaults.                                           *)
(***************************************************************************)
EXTENDS CommandLineProperties

CONSTANT FX

SubmitLine(side, type, price, quantity) ==
  [instrument |-> FX, side |-> side, type |-> type, price |-> price, quantity |-> quantity]

MCLeverage == [i \in Instrument |-> 2]

MCAccountRow == {[balance |-> InitialBalance, locked |-> 0]}

\* The program reads this table and never writes it; somebody has put a position
\* on record.
MCPositionRows == [i \in {FX} |-> [side |-> "sell", quantity |-> 1, avgPrice |-> 12]]

\* A type that is no word for a limit order and is taken for one; a market
\* order to sell; a side that is none.
MCSubmitLines ==
  {SubmitLine("b", "lmt", 12, 2),
   SubmitLine("sell", "m", 0, 1),
   SubmitLine("hold", "limit", 12, 1)}
=============================================================================
