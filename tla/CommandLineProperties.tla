------------------------ MODULE CommandLineProperties ------------------------
(***************************************************************************)
(* What the command line over the PostgreSQL service keeps through         *)
(* restarts, failed writes and lost answers.                               *)
(***************************************************************************)
EXTENDS CommandLine

\* Every variable the sessions add has its type, and the orders in the cache
\* stand each for a row of its own.
SessionTypeOK ==
  /\ orderRows \in Seq(Row)
  /\ tradeRows \in Seq(Trade)
  /\ ids \in Seq(DOMAIN orderRows) /\ Len(ids) = Len(store)
  /\ \A j, k \in OrderId : j < k => ids[j] < ids[k]
  /\ strayMargin \in Nat
  /\ restored \in BOOLEAN
  /\ told \subseteq Answer

\* The orders a row reads back as with the terms of a request.
AsRequested(n, req) ==
  {order \in OrderOf(orderRows[n]) :
     /\ order.instrument = req.instrument /\ order.side = req.side
     /\ order.type = req.type /\ order.quantity = req.quantity
     /\ order.tif = req.tif}

\* "Order created" is printed of an order that is on record, as it was typed,
\* and is read back at every later start.  (handle_submit, save, row_to_order)
ToldOrdersSurvive ==
  \A answer \in told :
    answer.says = "created" =>
      /\ answer.row \in DOMAIN orderRows
      /\ AsRequested(answer.row, answer.request) # {}

\* "Order filled" is printed of a fill that is on record, and no two answers
\* are of the same record.  (handle_fill, fill_order, save of the trades)
ToldFillsSurvive ==
  LET fills == {answer \in told : answer.says = "filled"}
  IN  \A answer \in fills :
        /\ answer.trade \in DOMAIN tradeRows
        /\ LET trade == tradeRows[answer.trade]
           IN  /\ trade.order = answer.row
               /\ trade.quantity = answer.quantity /\ trade.price = answer.price
        /\ \A other \in fills : other.trade = answer.trade => other = answer

\* An order keeps its row through every session: the order in the cache has the
\* terms of the row its id stands for, whichever rows were read back before it.
\* (cache and table of PgOrderRepository)
CacheMatchesRows ==
  \A id \in OrderId :
    \E saved \in OrderOf(orderRows[ids[id]]) :
      \A term \in {"instrument", "side", "type", "quantity", "tif"} :
        store[id][term] = saved[term]

\* The account's locked margin is the margin in the map of locks, the entries of
\* orders that could not be saved included: what a failed save or a restart
\* leaves behind, it leaves in both.  (submit_order, restore_from_db)
MarginAccounted ==
  account.locked =
    strayMargin
      + SumUpTo([id \in OrderId |-> IF id \in DOMAIN marginLocks THEN marginLocks[id] ELSE 0],
                Len(store))

LostInRows ==
  SumUpTo([n \in DOMAIN tradeRows |-> IF tradeRows[n].pnl > 0 THEN 0 ELSE tradeRows[n].pnl],
          Len(tradeRows))

\* After a complete restore the running loss is never less than the losses on
\* record, of all sessions: neither it nor the profits after it forgive any.  A
\* restore that breaks off starts from no loss.  (restore_from_db, fill_order)
LossNotForgotten == restored => cumulativeLoss <= LostInRows

\* After a complete restore every order on record that can be read is in the
\* cache, and so are those submitted since.  (load_all_orders, restore_from_db)
RestoredInFull ==
  restored =>
    \A n \in DOMAIN orderRows :
      OrderOf(orderRows[n]) # {} => \E id \in OrderId : ids[id] = n

\* The row after an update that changes none of its values: the time is new.
Touched(row) == [row EXCEPT !.updated = "Restored"]

\* The tables only grow.  Every start saves every order it reads, which rewrites
\* its row: the time of the last update is lost, and no other column changes.
\* (ON CONFLICT of save, the trigger on orders, restore_from_db)
RecordsArePermanent ==
  [][/\ Len(orderRows) <= Len(orderRows')
     /\ \A n \in DOMAIN orderRows : orderRows'[n] \in {orderRows[n], Touched(orderRows[n])}
     /\ Len(tradeRows) <= Len(tradeRows')
     /\ \A n \in DOMAIN tradeRows : tradeRows'[n] = tradeRows[n]]_commandVars

-----------------------------------------------------------------------------
(* Said of the service, and not so after a restart: checked to find the    *)
(* counterexample.                                                         *)

FilledOnRecord(n) ==
  SumUpTo([k \in DOMAIN tradeRows |->
             IF tradeRows[k].order = n THEN tradeRows[k].quantity ELSE 0], Len(tradeRows))

\* implemented-features.md:22 has a fill beyond the remaining quantity refused:
\* the fills on record of an order never exceed it.
RecordedFillsFit ==
  \A n \in DOMAIN orderRows : FilledOnRecord(n) <= orderRows[n].quantity
=============================================================================
