------------------------------ MODULE Accounts ------------------------------
(***************************************************************************)
(* The trading account: its balance, and the part of it locked as margin   *)
(* for resting orders (src/src/domain/account.rs).  Can... is the check a  *)
(* method makes before it changes the account.                             *)
(***************************************************************************)
EXTENDS Integers

Account == [balance : Int, locked : Int]

AvailableBalance(account) == account.balance - account.locked

CanLock(account, amount) == amount > 0 /\ amount <= AvailableBalance(account)

LockMargin(account, amount) == [account EXCEPT !.locked = @ + amount]

CanUnlock(account, amount) == amount > 0 /\ amount <= account.locked

\* A refused unlock is an error that leaves the account alone.
UnlockMargin(account, amount) ==
  IF CanUnlock(account, amount) THEN [account EXCEPT !.locked = @ - amount] ELSE account

\* Mutant: losses do not reach the balance.
ApplyProfitOnly(account, pnl) == [account EXCEPT !.balance = IF pnl > 0 THEN @ + pnl ELSE @]

ApplyRealizedPnl(account, pnl) == [account EXCEPT !.balance = @ + pnl]

DepositTo(account, amount) == [account EXCEPT !.balance = @ + amount]

\* Mutant: margin locked for orders can be withdrawn.
CanWithdrawLocked(account, amount) == amount > 0 /\ amount <= account.balance

CanWithdraw(account, amount) == amount > 0 /\ amount <= AvailableBalance(account)

WithdrawFrom(account, amount) == [account EXCEPT !.balance = @ - amount]

\* Price times quantity over leverage, in whole units: what Decimal loses past
\* its 28th digit the model loses past the unit.
RequiredMargin(price, quantity, leverage) == (price * quantity) \div leverage
=============================================================================
