----------------------------- MODULE CommandLine -----------------------------
(***************************************************************************)
(* The command line over the PostgreSQL service (src/src/cli/repl.rs,      *)
(* handlers.rs, mod.rs, src/src/main.rs): lines are typed one after the    *)
(* other, and each is one call of the service whose answer is printed      *)
(* before the next line is read.  The process may end anywhere; a command  *)
(* given as an argument is a session of one line.  An answer counts as     *)
(* told when the call has returned, though a crash may keep it from being  *)
(* printed: what is promised of answers holds of it all the same.          *)
(***************************************************************************)
EXTENDS Persistence

CONSTANTS
  SubmitLines,      \* the submit commands that may be typed
  TypedQuantities,  \* the quantities
  TypedPrices,      \*   and prices of fills that may be typed
  MaxTrades,        \* bound: trades on record
  MaxLossSeen       \* bound: the running loss fills may reach

Line == [instrument : Instrument, side : STRING, type : STRING, price : Int, quantity : Int]

ASSUME CommandAssumption ==
  /\ SubmitLines \subseteq Line
  /\ TypedQuantities \subseteq Int
  /\ TypedPrices \subseteq Int
  /\ MaxTrades \in Nat
  /\ MaxLossSeen \in Nat

VARIABLE
  told    \* history: the answers that an order or a fill has been entered

commandVars == <<vars, persistenceVars, told>>

Answer ==
       [says : {"created"}, row : Nat, request : OrderRequest]
  \cup [says : {"filled"}, row : Nat, quantity : Int, price : Int, trade : Nat]

CommandInit == PersistenceInit /\ told = {}

-----------------------------------------------------------------------------
(* Reading a line.                                                         *)

\* The side a word stands for, if there is one.
ParseSide(word) ==
  {side \in Side : word \in (IF side = "Buy" THEN {"buy", "b"} ELSE {"sell", "s"})}

\* Whatever is not a market order is a limit order.
ParseOrderType(word, price) ==
  IF word \in {"market", "m"} THEN [kind |-> "Market"]
  ELSE [kind |-> "Limit", price |-> price]

RequestsOf(line) ==
  {[instrument |-> line.instrument, side |-> side,
    type |-> ParseOrderType(line.type, line.price), quantity |-> line.quantity,
    tif |-> "GTC"] : side \in ParseSide(line.side)}

-----------------------------------------------------------------------------
(* Commands.                                                               *)

HandleSubmit(line) ==
  \E req \in RequestsOf(line) :
    /\ SubmitSaved(req)
    /\ told' = told \cup
         {[says |-> "created", row |-> Len(orderRows'), request |-> req]}

HandleSubmitFails(line) ==
  /\ \E req \in RequestsOf(line) : SubmitUnsaved(req)
  /\ UNCHANGED told

\* The model's bounds on what fills do.
FillBound(id, qty, price) ==
  /\ Len(trades) < MaxTrades /\ Len(tradeRows) < MaxTrades
  /\ LET pnl == RealizedPnl(positions, store[id].instrument, store[id].side, qty, price)
     IN  /\ account.balance + pnl <= MaxBalance
         /\ LossAfter(pnl) >= -MaxLossSeen

HandleFill(id, qty, price) ==
  /\ FillBound(id, qty, price)
  /\ FillSaved(id, qty, price)
  /\ told' = told \cup
       {[says |-> "filled", row |-> ids[id], quantity |-> qty, price |-> price,
         trade |-> Len(tradeRows')]}

HandleFillFails(id, qty, price) ==
  /\ FillFails(id, qty, price) \/ (FillBound(id, qty, price) /\ FillUnsaved(id, qty, price))
  /\ UNCHANGED told

HandleCancel(id) == CancelInCache(id) /\ UNCHANGED told

HandleCash(amount) == CashInMemory(amount) /\ UNCHANGED told

\* quit, the end of a one-line session, or a crash.
EndAndRestart == Restart /\ UNCHANGED told

Command ==
  \/ \E line \in SubmitLines : HandleSubmit(line) \/ HandleSubmitFails(line)
  \/ \E id \in OrderId, qty \in TypedQuantities, price \in TypedPrices :
       HandleFill(id, qty, price) \/ HandleFillFails(id, qty, price)
  \/ \E id \in OrderId : HandleCancel(id)
  \/ \E amount \in CashAmounts : HandleCash(amount)

CommandNext == Command \/ EndAndRestart

CommandSpec == CommandInit /\ [][CommandNext]_commandVars
=============================================================================
