---------------------------- MODULE MarginProofs ----------------------------
(***************************************************************************)
(* The account's locked margin is the sum of the orders' locks, for every  *)
(* value of the service's constants.                                       *)
(***************************************************************************)
EXTENDS OrderServiceProofs, SumsProofs

\* No lock is empty: lock_margin refuses amounts that are not positive.  This
\* strengthens MarginConserved, for it is what keeps one lock from being
\* larger than their sum, and so unlock_margin from refusing.
LocksPositive == \A id \in DOMAIN marginLocks : marginLocks[id] > 0

MarginInv == TypeOK /\ LocksPositive /\ MarginConserved

Locks == [id \in OrderId |-> LockOf(id)]

MarginHeld == SumUpTo(Locks, Len(store))

\* What the facts about the sum of the locks rest on.
LocksOK ==
  /\ Len(store) \in Nat /\ OrderId = 1..Len(store)
  /\ DOMAIN marginLocks \subseteq OrderId
  /\ \A id \in DOMAIN marginLocks : marginLocks[id] \in Nat \ {0}

LEMMA LocksAreNaturals ==
  ASSUME LocksOK
  PROVE  Locks \in [1..Len(store) -> Nat]
BY DEF LocksOK, Locks, LockOf

\* The locks are naturals, so their sum bounds each.
LEMMA HeldBounds ==
  ASSUME LocksOK
  PROVE  /\ MarginHeld \in Nat
         /\ \A id \in DOMAIN marginLocks : marginLocks[id] <= MarginHeld
<1> DEFINE f == Locks
           n == Len(store)
<1>1. n \in Nat /\ f \in [1..n -> Nat]
  BY LocksAreNaturals DEF LocksOK
<1>2. \A id \in DOMAIN marginLocks : id \in 1..n /\ f[id] = marginLocks[id]
  BY DEF LocksOK, Locks, LockOf
<1>3. MarginHeld = SumUpTo(f, n)
  BY DEF MarginHeld
<1> HIDE DEF f, n
<1> QED BY <1>1, <1>2, <1>3, SumBounds

\* One more order, with the margin that was locked for it or with none.
LEMMA HeldExtends ==
  ASSUME LocksOK, Len(store') = Len(store) + 1, OrderId' = 1..Len(store) + 1,
         NEW margin \in Nat,
         \/ marginLocks' = marginLocks /\ margin = 0
         \/ marginLocks' = Insert(marginLocks, NextId, margin) /\ margin > 0
  PROVE  LocksOK' /\ MarginHeld' = MarginHeld + margin
<1>1. /\ Len(store) \in Nat /\ OrderId = 1..Len(store)
      /\ NextId = Len(store) + 1 /\ NextId \notin OrderId /\ OrderId' = OrderId \cup {NextId}
  BY DEF LocksOK, NextId
<1>2. /\ LocksOK'
      /\ \A id \in OrderId' : LockOf(id)' = IF id = NextId THEN margin ELSE LockOf(id)
  <2>1. CASE marginLocks' = marginLocks /\ margin = 0
    <3>1. NextId \notin DOMAIN marginLocks
      BY <1>1 DEF LocksOK
    <3>2. LocksOK'
      BY <1>1, <2>1 DEF LocksOK
    <3> QED BY <2>1, <3>1, <3>2 DEF LockOf
  <2>2. CASE marginLocks' = Insert(marginLocks, NextId, margin) /\ margin > 0
    <3>1. /\ DOMAIN marginLocks' = DOMAIN marginLocks \cup {NextId}
          /\ marginLocks'[NextId] = margin
          /\ \A id \in DOMAIN marginLocks : id # NextId /\ marginLocks'[id] = marginLocks[id]
      BY <1>1, <2>2 DEF LocksOK, Insert
    <3>2. LocksOK'
      BY <1>1, <2>2, <3>1 DEF LocksOK
    <3>3. \A id \in OrderId' : LockOf(id)' = IF id = NextId THEN margin ELSE LockOf(id)
      BY <1>1, <3>1 DEF LockOf
    <3> QED BY <3>2, <3>3
  <2> QED BY <2>1, <2>2
<1>3. MarginHeld' = MarginHeld + margin
  <2> DEFINE f == Locks
             g == Locks'
             n == Len(store)
  <2>1. f \in [1..n -> Int]
    BY LocksAreNaturals
  <2>2. g = [id \in OrderId' |-> LockOf(id)']
    BY DEF Locks
  <2>3. \A id \in OrderId : f[id] = LockOf(id)
    BY DEF Locks
  <2>4. DOMAIN f = OrderId
    BY DEF Locks
  <2>5. MarginHeld = SumUpTo(f, n) /\ MarginHeld' = SumUpTo(g, n + 1)
    BY DEF MarginHeld
  <2> HIDE DEF f, g
  <2>6. n \in Nat /\ OrderId = 1..n /\ OrderId' = 1..n + 1 /\ NextId = n + 1
    BY <1>1
  <2> HIDE DEF n
  <2>7. g \in [1..n + 1 -> Int] /\ \A k \in 1..n : g[k] = f[k]
    BY <1>2, <2>1, <2>2, <2>3, <2>6
  <2>8. g[n + 1] = margin
    BY <1>2, <2>2, <2>6
  <2>9. SumUpTo(g, n + 1) = SumUpTo(f, n) + g[n + 1]
    BY <2>1, <2>6, <2>7, SumExtends
  <2> QED BY <2>5, <2>8, <2>9
<1> QED BY <1>2, <1>3

\* An order's lock is released.
LEMMA HeldReleases ==
  ASSUME LocksOK, NEW id \in OrderId, Len(store') = Len(store), OrderId' = OrderId,
         marginLocks' = Remove(marginLocks, id)
  PROVE  LocksOK' /\ MarginHeld' = MarginHeld - LockOf(id)
<1>1. /\ DOMAIN marginLocks' = DOMAIN marginLocks \ {id}
      /\ \A k \in DOMAIN marginLocks \ {id} : marginLocks'[k] = marginLocks[k]
  BY DEF Remove, Restrict
<1>2. LocksOK'
  BY <1>1 DEF LocksOK
<1>3. \A k \in OrderId' : LockOf(k)' = IF k = id THEN 0 ELSE LockOf(k)
  BY <1>1 DEF LockOf
<1>4. MarginHeld' = MarginHeld - LockOf(id)
  <2> DEFINE f == Locks
             g == Locks'
             n == Len(store)
  <2>1. f \in [1..n -> Nat] /\ n \in Nat /\ OrderId = 1..n /\ OrderId' = 1..n
    BY LocksAreNaturals DEF LocksOK
  <2>2. g = [k \in OrderId' |-> LockOf(k)']
    BY DEF Locks
  <2>3. \A k \in OrderId : f[k] = LockOf(k)
    BY DEF Locks
  <2>4. MarginHeld = SumUpTo(f, n) /\ MarginHeld' = SumUpTo(g, n)
    BY DEF MarginHeld
  <2> HIDE DEF f, g, n
  <2>5. g \in [1..n -> Int] /\ g[id] = 0 /\ \A k \in 1..n \ {id} : g[k] = f[k]
    BY <1>3, <2>1, <2>2, <2>3
  <2>6. f \in [1..n -> Int] /\ id \in 1..n
    BY <2>1
  <2>7. SumUpTo(g, n) = SumUpTo(f, n) + g[id] - f[id]
    BY <2>1, <2>5, <2>6, SumChanges
  <2>8. SumUpTo(f, n) \in Nat /\ f[id] \in Nat
    BY <2>1, <2>6, SumBounds
  <2> QED BY <2>3, <2>4, <2>5, <2>7, <2>8
<1> QED BY <1>2, <1>4

\* Steps that leave the locks alone.
LEMMA HeldStays ==
  ASSUME LocksOK, Len(store') = Len(store), OrderId' = OrderId, marginLocks' = marginLocks
  PROVE  LocksOK' /\ MarginHeld' = MarginHeld
<1>1. Locks' = Locks
  BY DEF Locks, LockOf
<1> QED BY <1>1 DEF LocksOK, MarginHeld

LEMMA LocksAreOK ==
  ASSUME TypeOK, LocksPositive
  PROVE  LocksOK
BY DEF LocksPositive, LocksOK, TypeOK, OrderId

LEMMA LocksAreHeld ==
  /\ MarginInv => LocksOK /\ account.locked = MarginHeld
  /\ TypeOK /\ LocksOK /\ account.locked = MarginHeld => MarginInv
<1>1. MarginInv => LocksOK /\ account.locked = MarginHeld
  BY LocksAreOK DEF MarginInv, MarginConserved, MarginHeld, Locks
<1>2. TypeOK /\ LocksOK /\ account.locked = MarginHeld => MarginInv
  BY DEF MarginInv, MarginConserved, MarginHeld, Locks, LocksPositive, LocksOK
<1> QED BY <1>1, <1>2

LEMMA LocksBounded ==
  ASSUME MarginInv
  PROVE  /\ Len(store) \in Nat /\ OrderId = 1..Len(store)
         /\ Locks \in [1..Len(store) -> Nat]
         /\ account.locked \in Nat
         /\ \A id \in DOMAIN marginLocks : CanUnlock(account, marginLocks[id])
<1>1. LocksOK /\ account.locked = MarginHeld
  BY LocksAreHeld
<1> QED BY <1>1, HeldBounds, LocksAreNaturals DEF LocksOK, CanUnlock

LEMMA SaveKeepsSum ==
  ASSUME MarginInv, TypeOK', NEW order \in Order, NEW event \in OrderEvent,
         Save(order, event), NEW margin \in Nat,
         account'.locked = account.locked + margin,
         \/ marginLocks' = marginLocks /\ margin = 0
         \/ marginLocks' = Insert(marginLocks, NextId, margin) /\ margin > 0
  PROVE  MarginInv'
<1>1. TypeOK /\ LocksOK /\ account.locked = MarginHeld
  BY LocksAreHeld DEF MarginInv
<1>2. Len(store') = Len(store) + 1 /\ store' \in Seq(Order)
  BY <1>1, SaveType
<1>3. OrderId' = 1..Len(store) + 1
  BY <1>2 DEF OrderId
<1>4. LocksOK' /\ account'.locked = MarginHeld'
  BY <1>1, <1>2, <1>3, HeldExtends
<1>5. MarginConserved' /\ LocksPositive'
  BY <1>4 DEF MarginConserved, MarginHeld, Locks, LocksOK, LocksPositive
<1> QED BY <1>5 DEF MarginInv

\* An order's lock is released, with its margin.
LEMMA ReleaseKeepsSum ==
  ASSUME MarginInv, TypeOK', NEW id \in OrderId, Len(store') = Len(store),
         marginLocks' = Remove(marginLocks, id),
         account'.locked = Released(id).locked
  PROVE  MarginInv'
<1>1. TypeOK /\ LocksOK /\ account.locked = MarginHeld
  BY LocksAreHeld DEF MarginInv
<1>2. OrderId' = OrderId
  BY <1>1 DEF OrderId, TypeOK
<1>3. LocksOK' /\ MarginHeld' = MarginHeld - LockOf(id)
  BY <1>1, <1>2, HeldReleases
<1>4. Released(id).locked = account.locked - LockOf(id)
  BY <1>1, LocksBounded DEF Released, UnlockMargin, LockOf, TypeOK, Account
<1>5. MarginConserved' /\ LocksPositive'
  BY <1>1, <1>3, <1>4 DEF MarginConserved, MarginHeld, Locks, LocksOK, LocksPositive
<1> QED BY <1>5 DEF MarginInv

\* Steps that leave the locks and the locked margin alone.
LEMMA KeepsSum ==
  ASSUME MarginInv, TypeOK', Len(store') = Len(store), marginLocks' = marginLocks,
         account'.locked = account.locked
  PROVE  MarginInv'
<1>1. OrderId = 1..Len(store) /\ OrderId' = 1..Len(store')
  BY DEF MarginInv, TypeOK, OrderId
<1>2. Locks' = Locks
  BY <1>1 DEF Locks, LockOf
<1> QED BY <1>2 DEF MarginInv, MarginConserved, LocksPositive, Locks

LEMMA SubmitMargin ==
  ASSUME MarginInv, NEW req \in Requests,
         SubmitFok(req) \/ SubmitLimit(req) \/ SubmitMarket(req) \/ SubmitStop(req)
           \/ SubmitIoc(req)
  PROVE  MarginInv'
<1>1. TypeOK /\ TypeOK'
  BY SubmitType DEF MarginInv
<1>2. /\ req \in OrderRequest
      /\ \A s \in OrderStatus : MoveTo(NewOrder(req), s) \in Order
      /\ MoveTo(MoveTo(NewOrder(req), "Accepted"), "Cancelled") \in Order
  BY ServiceAssumption, NewOrderType, MoveToType DEF OrderStatus
<1>3. /\ {"Rejected", "Accepted", "PendingTrigger"} \subseteq OrderStatus
      /\ {"FokRejected", "Accepted", "None", "IocResidualCancelled"} \subseteq OrderEvent
  BY DEF OrderStatus, OrderEvent
<1>4. account \in Account /\ account.locked \in Nat
  BY <1>1, LocksBounded DEF TypeOK
<1>5. CASE SubmitLimit(req)
  <2>1. /\ Save(MoveTo(NewOrder(req), "Accepted"), "Accepted")
        /\ marginLocks' = Insert(marginLocks, NextId, MarginOf(req))
        /\ account' = LockMargin(account, MarginOf(req))
        /\ MarginOf(req) > 0 /\ req.type.kind = "Limit"
    BY <1>5 DEF SubmitLimit, CanReserve, CanLock
  <2>2. MarginOf(req) \in Nat
    BY <1>2, <2>1, MarginOfRequestType
  <2>3. account'.locked = account.locked + MarginOf(req)
    BY <1>4, <2>1, <2>2 DEF LockMargin, Account
  <2> QED BY <1>1, <1>2, <1>3, <2>1, <2>2, <2>3, SaveKeepsSum
<1>6. CASE ~SubmitLimit(req)
  <2>1. PICK order \in Order, event \in OrderEvent : Save(order, event)
    BY <1>2, <1>3, <1>6 DEF SubmitFok, SubmitMarket, SubmitStop, SubmitIoc, CancelResidual
  <2>2. marginLocks' = marginLocks
    BY <1>6 DEF SubmitFok, SubmitMarket, SubmitStop, SubmitIoc
  <2>3. account'.locked = account.locked
    <3>1. CASE SubmitIoc(req) /\ req.type.kind = "Limit"
      <4> DEFINE margin == MarginOf(req)
                 locked == LockMargin(account, margin)
      <4>1. account' = UnlockMargin(locked, margin) /\ margin > 0
        BY <3>1 DEF SubmitIoc, CanReserve, CanLock
      <4>2. margin \in Int
        BY <1>2, <3>1, MarginOfRequestType
      <4> HIDE DEF margin
      <4>3. locked = [account EXCEPT !.locked = @ + margin]
        BY DEF LockMargin
      <4>4. CanUnlock(locked, margin)
        BY <1>4, <4>1, <4>2, <4>3 DEF CanUnlock, Account
      <4>5. account' = [locked EXCEPT !.locked = @ - margin]
        BY <4>1, <4>4 DEF UnlockMargin
      <4>6. locked.locked = account.locked + margin /\ locked \in Account
        BY <1>4, <4>2, <4>3 DEF Account
      <4> HIDE DEF locked
      <4>7. account'.locked = locked.locked - margin
        BY <4>5, <4>6 DEF Account
      <4> QED BY <1>4, <4>2, <4>6, <4>7
    <3>2. CASE ~(SubmitIoc(req) /\ req.type.kind = "Limit")
      BY <1>6, <3>2 DEF SubmitFok, SubmitMarket, SubmitStop, SubmitIoc
    <3> QED BY <3>1, <3>2
  <2> DEFINE none == 0
  <2>4. none \in Nat /\ account'.locked = account.locked + none
    BY <1>4, <2>3
  <2> QED BY <1>1, <2>1, <2>2, <2>4, SaveKeepsSum
<1> QED BY <1>5, <1>6

LEMMA FillMargin ==
  ASSUME MarginInv, TypeOK', NEW id \in OrderId, NEW qty \in FillQuantities,
         NEW price \in FillPrices,
         AbandonFill(id, qty, price) \/ SettleFill(id, qty, price)
  PROVE  MarginInv'
<1>1. TypeOK
  BY DEF MarginInv
<1>2. Len(store') = Len(store)
  BY <1>1 DEF AbandonFill, SettleFill, EnterFill, TypeOK
<1>3. ~ReleaseFails(id)
  BY LocksBounded DEF ReleaseFails
<1>4. CASE AbandonFill(id, qty, price)
  <2>1. marginLocks' = marginLocks /\ account' = account
    BY <1>3, <1>4 DEF AbandonFill
  <2> QED BY <1>2, <2>1, KeepsSum
<1>5. CASE SettleFill(id, qty, price)
  <2> DEFINE pnl   == RealizedPnl(positions, store[id].instrument, store[id].side, qty, price)
             freed == IF FillsUp(id, qty) THEN Released(id) ELSE account
  <2>1. account' = ApplyRealizedPnl(freed, pnl)
    BY <1>5 DEF SettleFill
  <2>2. freed \in Account
    BY <1>1, ReleaseType DEF TypeOK
  <2>3. account'.locked = freed.locked
    <3> HIDE DEF freed, pnl
    <3> QED BY <2>1, <2>2 DEF ApplyRealizedPnl, Account
  <2>4. CASE FillsUp(id, qty)
    <3>1. marginLocks' = Remove(marginLocks, id) /\ account'.locked = Released(id).locked
      BY <1>5, <2>3, <2>4 DEF SettleFill
    <3> QED BY <1>2, <3>1, ReleaseKeepsSum
  <2>5. CASE ~FillsUp(id, qty)
    <3>1. marginLocks' = marginLocks /\ account'.locked = account.locked
      BY <1>5, <2>3, <2>5 DEF SettleFill
    <3> QED BY <1>2, <3>1, KeepsSum
  <2> QED BY <2>4, <2>5
<1> QED BY <1>4, <1>5

LEMMA InitMargin == Init => MarginInv
<1> SUFFICES ASSUME Init PROVE MarginInv
  OBVIOUS
<1>1. Len(store) = 0 /\ OrderId = {} /\ DOMAIN marginLocks = {} /\ account.locked = 0
  BY EmptySeq DEF Init, OrderId
<1>2. Locks \in [1..0 -> Int]
  BY <1>1 DEF Locks
<1>3. MarginConserved
  BY <1>1, <1>2, SumOfNone DEF MarginConserved, Locks
<1> QED BY <1>1, <1>3, InitType DEF MarginInv, LocksPositive

LEMMA StepMargin == MarginInv /\ [Next]_vars => MarginInv'
<1> SUFFICES ASSUME MarginInv, [Next]_vars PROVE MarginInv'
  OBVIOUS
<1>t. TypeOK /\ TypeOK'
  BY StepType DEF MarginInv
<1>1. ASSUME NEW req \in Requests,
             SubmitFok(req) \/ SubmitLimit(req) \/ SubmitMarket(req) \/ SubmitStop(req)
               \/ SubmitIoc(req)
      PROVE  MarginInv'
  BY <1>1, SubmitMargin
<1>2. ASSUME NEW id \in OrderId, CancelOrder(id) PROVE MarginInv'
  <2>1. /\ Len(store') = Len(store) /\ marginLocks' = Remove(marginLocks, id)
        /\ account'.locked = Released(id).locked
    BY <1>t, <1>2 DEF CancelOrder, TypeOK
  <2> QED BY <1>t, <2>1, ReleaseKeepsSum
<1>3. ASSUME NEW id \in OrderId, NEW qty \in FillQuantities, RefuseFill(id, qty)
      PROVE  MarginInv'
  <2>1. Len(store') = Len(store) /\ marginLocks' = marginLocks /\ account' = account
    BY <1>t, <1>3 DEF RefuseFill, TypeOK
  <2> QED BY <1>t, <2>1, KeepsSum
<1>4. ASSUME NEW id \in OrderId, NEW qty \in FillQuantities, NEW price \in FillPrices,
             AbandonFill(id, qty, price) \/ SettleFill(id, qty, price)
      PROVE  MarginInv'
  BY <1>t, <1>4, FillMargin
<1>5. ASSUME NEW amount \in CashAmounts, Deposit(amount) \/ Withdraw(amount)
      PROVE  MarginInv'
  <2>1. store' = store /\ marginLocks' = marginLocks /\ account'.locked = account.locked
    BY <1>t, <1>5 DEF Deposit, Withdraw, DepositTo, WithdrawFrom, TypeOK, Account
  <2> QED BY <1>t, <2>1, KeepsSum
<1>6. ASSUME NEW known \in SUBSET Instrument, NEW marks \in [known -> MarketPrices],
             UpdatePositionsPnl(marks)
      PROVE  MarginInv'
  <2>1. store' = store /\ marginLocks' = marginLocks /\ account' = account
    BY <1>6 DEF UpdatePositionsPnl
  <2> QED BY <1>t, <2>1, KeepsSum
<1>7. ASSUME NEW i \in Instrument, NEW price \in MarketPrices, OnPriceUpdate(i, price)
      PROVE  MarginInv'
  <2>1. DOMAIN store' = DOMAIN store /\ marginLocks' = marginLocks /\ account' = account
    BY <1>7 DEF OnPriceUpdate, OrderId
  <2>2. Len(store') = Len(store)
    BY <1>t, <2>1, LenProperties DEF TypeOK
  <2> QED BY <1>t, <2>1, <2>2, KeepsSum
<1>8. CASE UNCHANGED vars
  <2>1. store' = store /\ marginLocks' = marginLocks /\ account' = account
    BY <1>8 DEF vars
  <2> QED BY <1>t, <2>1, KeepsSum
<1>9. CASE Next
  BY <1>1, <1>2, <1>3, <1>4, <1>5, <1>6, <1>7, <1>9, NextCases
<1> QED BY <1>8, <1>9

\* The margin the account reports locked is the sum of the margins its orders
\* hold, whatever the calls: funds are neither frozen for good nor promised
\* twice, and giving margin back never fails.
THEOREM MarginIsConserved == Spec => []MarginConserved
<1>1. MarginInv => MarginConserved
  BY DEF MarginInv
<1> QED BY <1>1, InitMargin, StepMargin, PTL DEF Spec
=============================================================================
