----------------------------- MODULE Persistence -----------------------------
(***************************************************************************)
(* The order service over the PostgreSQL repositories                      *)
(* (src/src/infra/pg_order_repo.rs, pg_trade_repo.rs, pg_account_repo.rs), *)
(* and what a restart makes of the tables (create_pg_service of            *)
(* src/src/main.rs, restore_from_db of                                     *)
(* src/src/service/order_service.rs).                                      *)
(*                                                                         *)
(* An order is inserted when it is submitted and a trade when it is made;  *)
(* nothing else is written.  Orders are otherwise changed in the cache,    *)
(* which is the variable store.  Each call writes at most one row, so a    *)
(* crash in the middle of a call leaves what a crash before it or after it *)
(* leaves.                                                                 *)
(***************************************************************************)
EXTENDS OrderService, OrderRows

CONSTANTS
  AccountRow,    \* the row of the accounts table, which no code writes, or {}
  PositionRows   \* the positions table, which no code writes: instrument -> row

ASSUME PersistenceAssumption ==
  /\ AccountRow \in Option(Account)
  /\ DOMAIN PositionRows \subseteq Instrument
  /\ \A i \in DOMAIN PositionRows :
       PositionRows[i] \in [side : {"buy", "sell"}, quantity : Nat, avgPrice : Nat]

VARIABLES
  orderRows,     \* the orders table, in the order of insertion
  tradeRows,     \* the trades table, in the order of insertion
  ids,           \* index in store -> index of the order's row: its ULID
  strayMargin,   \* the sum of the locks held for orders that were not saved
  restored       \* history: the last start-up restored everything

tables == <<orderRows, tradeRows>>

persistenceVars == <<tables, ids, strayMargin, restored>>

PersistenceInit ==
  /\ Init
  /\ orderRows = <<>> /\ tradeRows = <<>> /\ ids = <<>>
  /\ strayMargin = 0 /\ restored = FALSE

-----------------------------------------------------------------------------
(* Submitting.                                                             *)

\* The order as submit_order saves it: an IOC order before its residual is
\* cancelled.
SavedOrder(req) ==
  MoveTo(NewOrder(req),
         IF req.tif = "FOK" THEN "Rejected"
         ELSE IF IsStopType(req.type) THEN "PendingTrigger" ELSE "Accepted")

SubmitOrder(req) ==
  \/ SubmitFok(req) \/ SubmitLimit(req) \/ SubmitMarket(req)
  \/ SubmitStop(req) \/ SubmitIoc(req)

\* Mutant: the row is looked up by the session's number of the order.
SubmitSavedMisnumbered(req) ==
  /\ Len(orderRows) < MaxOrders
  /\ AccountRow # {} /\ Accepts(RowOf(SavedOrder(req)))
  /\ SubmitOrder(req)
  /\ orderRows' = Append(orderRows, RowOf(SavedOrder(req)))
  /\ ids' = Append(ids, NextId)
  /\ UNCHANGED <<tradeRows, strayMargin, restored>>

\* Mutant: an order whose insert fails is cached all the same.
SubmitCachedOnly(req) ==
  /\ Len(orderRows) < MaxOrders
  /\ AccountRow # {} /\ Accepts(RowOf(SavedOrder(req)))
  /\ SubmitOrder(req)
  /\ ids' = Append(ids, Len(orderRows) + 1)
  /\ UNCHANGED <<tables, strayMargin, restored>>

\* A row refers to the account's, which has to be there.
SubmitSaved(req) ==
  /\ Len(orderRows) < MaxOrders
  /\ AccountRow # {} /\ Accepts(RowOf(SavedOrder(req)))
  /\ SubmitOrder(req)
  /\ orderRows' = Append(orderRows, RowOf(SavedOrder(req)))
  /\ ids' = Append(ids, Len(orderRows'))
  /\ UNCHANGED <<tradeRows, strayMargin, restored>>

\* Mutant: the lock's map entry is made only when the order is saved.
SubmitUnsavedUnmapped(req) ==
  /\ req.type.kind = "Limit" /\ req.tif # "FOK"
  /\ Admits(req)
  /\ CanReserve(req)
  /\ account' = LockMargin(account, MarginOf(req))
  /\ UNCHANGED <<store, positions, marginLocks, cumulativeLoss, trades, lastEvent,
                 netCash, persistenceVars>>

\* save fails when the margin is locked: the order does not exist, its lock
\* stays.  Nothing else submit_order does before it saves changes the service.
SubmitUnsaved(req) ==
  /\ req.type.kind = "Limit" /\ req.tif # "FOK"
  /\ Admits(req)
  /\ CanReserve(req)
  /\ account' = LockMargin(account, MarginOf(req))
  /\ strayMargin' = strayMargin + MarginOf(req)
  /\ UNCHANGED <<store, positions, marginLocks, cumulativeLoss, trades, lastEvent,
                 netCash, tables, ids, restored>>

-----------------------------------------------------------------------------
(* Fills, and calls that write nothing.                                    *)

\* The CHECK constraints of the trades table.
AcceptsTrade(qty, price) == qty > 0 /\ price > 0

\* Mutant: the table keeps the session's number of the order.
RowOfTradeUnmapped(trade) == trade

RowOfTrade(trade) == [trade EXCEPT !.order = ids[trade.order]]

\* trades is no store here: PgTradeRepository keeps none, and all returns
\* nothing.  It stays as the history of the fills this session has settled.
FillSaved(id, qty, price) ==
  /\ SettleFill(id, qty, price)
  /\ trades' # trades
  /\ AcceptsTrade(qty, price)
  /\ tradeRows' = Append(tradeRows, RowOfTrade(trades'[Len(trades')]))
  /\ UNCHANGED <<orderRows, ids, strayMargin, restored>>

\* The fill is settled and not recorded: past the loss limit, refused by the
\* table, or lost with the connection.
FillUnsaved(id, qty, price) ==
  /\ SettleFill(id, qty, price)
  /\ UNCHANGED persistenceVars

FillFails(id, qty, price) ==
  /\ RefuseFill(id, qty) \/ AbandonFill(id, qty, price)
  /\ UNCHANGED persistenceVars

CancelInCache(id) == CancelOrder(id) /\ UNCHANGED persistenceVars

CashInMemory(amount) ==
  /\ Deposit(amount) \/ Withdraw(amount)
  /\ UNCHANGED persistenceVars

-----------------------------------------------------------------------------
(* The process ends, by a command or a crash, and is started again.        *)

\* Mutant: only the stops that wait are read back.
WaitingRows ==
  {n \in DOMAIN orderRows : orderRows[n].status = "pending_trigger" /\ OrderOf(orderRows[n]) # {}}

RestorableRows == {n \in DOMAIN orderRows : OrderOf(orderRows[n]) # {}}

\* Mutant: an order comes back as a new one.
RestoredAnew(n) ==
  [(CHOOSE order \in OrderOf(orderRows[n]) : TRUE) EXCEPT !.status = "New"]

RestoredOrder(n) == CHOOSE order \in OrderOf(orderRows[n]) : TRUE

InOrder(rows) ==
  {s \in [1..Cardinality(rows) -> rows] : \A j, k \in DOMAIN s : j < k => s[j] < s[k]}

\* Mutant: profits make good for losses.
NetOf(rows) == SumUpTo([n \in DOMAIN rows |-> rows[n].pnl], Len(rows))

LossOf(rows) ==
  SumUpTo([n \in DOMAIN rows |-> IF rows[n].pnl < 0 THEN rows[n].pnl ELSE 0], Len(rows))

RestoredPositions ==
  [i \in {i \in DOMAIN PositionRows : PositionRows[i].quantity > 0} |->
     NewPosition(CHOOSE side \in Read(SideText, PositionRows[i].side) : TRUE,
                 PositionRows[i].quantity, PositionRows[i].avgPrice)]

\* The account on record, if there is one; else the one main starts with.
LoadedAccount(accountRead) ==
  IF accountRead /\ AccountRow # {}
  THEN CHOOSE row \in AccountRow : TRUE
  ELSE [balance |-> InitialBalance, locked |-> 0]

\* The account, if it was read; the orders, which are saved as they are read;
\* the loss of the trades; the positions.  An error ends the restoring where it
\* is - main warns and goes on with what is there - but a query of the positions
\* that fails only gives none, and nothing is said of it.
RestoreFromDb(accountRead, read, complete) ==
  /\ ~accountRead => read = {}
  /\ complete => accountRead /\ read = RestorableRows
  /\ account' = LoadedAccount(accountRead)
  /\ ids' \in InOrder(read)
  /\ store' = [k \in DOMAIN ids' |-> RestoredOrder(ids'[k])]
  /\ orderRows' = [n \in DOMAIN orderRows |->
                     IF n \in read THEN Upsert(orderRows[n], RowOf(RestoredOrder(n)))
                     ELSE orderRows[n]]
  /\ cumulativeLoss' = IF complete THEN LossOf(tradeRows) ELSE 0
  /\ positions' \in IF complete THEN {RestoredPositions, <<>>} ELSE {<<>>}
  /\ restored' = complete

\* Everything else starts empty; nobody is told of the orders that come back.
Restart ==
  /\ \E accountRead, complete \in BOOLEAN, read \in SUBSET RestorableRows :
       RestoreFromDb(accountRead, read, complete)
  /\ marginLocks' = <<>> /\ trades' = <<>> /\ netCash' = 0 /\ strayMargin' = 0
  /\ lastEvent' = [k \in DOMAIN store' |-> "None"]
  /\ UNCHANGED tradeRows
=============================================================================
