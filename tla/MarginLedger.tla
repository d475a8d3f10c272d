---------------------------- MODULE MarginLedger ----------------------------
(***************************************************************************)
(* What the account promises its owner, without orders' lifecycles or      *)
(* positions: cash paid in, profit and loss realized, and funds held for   *)
(* orders.  Nothing counts as free that is held, and only free funds can   *)
(* be held or withdrawn.                                                   *)
(***************************************************************************)
EXTENDS Sums, Maps

CONSTANTS
  Opening,  \* the funds the ledger is opened with
  Orders    \* the number of orders it may hold funds for

VARIABLES
  cash,      \* paid in less paid out, since the opening
  realized,  \* profit less loss
  holds      \* order -> funds held for it

ledgerVars == <<cash, realized, holds>>

Held == SumUpTo([id \in 1..Orders |-> IF id \in DOMAIN holds THEN holds[id] ELSE 0], Orders)

Free == Opening + cash + realized - Held

LedgerInit == cash = 0 /\ realized = 0 /\ holds = <<>>

PayIn == cash' > cash /\ UNCHANGED <<realized, holds>>

PayOut ==
  /\ cash' < cash
  /\ cash - cash' <= Free
  /\ UNCHANGED <<realized, holds>>

Hold(id) ==
  /\ id \notin DOMAIN holds
  /\ DOMAIN holds' = DOMAIN holds \cup {id}
  /\ Restrict(holds', DOMAIN holds) = holds
  /\ holds'[id] > 0 /\ holds'[id] <= Free
  /\ UNCHANGED <<cash, realized>>

\* A hold is given back whole, with the profit or loss of the fill that ends
\* it, if one does.
Release(id) ==
  /\ id \in DOMAIN holds
  /\ holds' = Remove(holds, id)
  /\ UNCHANGED cash

Realize == realized' # realized /\ UNCHANGED <<cash, holds>>

LedgerNext ==
  \/ PayIn \/ PayOut \/ Realize
  \/ \E id \in 1..Orders : Hold(id) \/ Release(id)

LedgerSpec == LedgerInit /\ [][LedgerNext]_ledgerVars
=============================================================================
