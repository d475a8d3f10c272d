--------------------------- MODULE CompositeProofs ---------------------------
(***************************************************************************)
(* The composite order service implements the order service: its           *)
(* follow-ups are submissions and cancels the service allows anyway, so    *)
(* what is proved of the service holds with composite orders at work.  An  *)
(* IFD order gets one secondary order, and an OCO order that is completed  *)
(* trades no more than one leg.                                            *)
(***************************************************************************)
EXTENDS CompositeProperties, BooksProofs

CompositeInv == TypeOK /\ CompositeTypeOK

-----------------------------------------------------------------------------
(* Every step is a step of the order service, or none of its business.     *)

\* The secondary orders and the legs are requests and orders of the service.
LEMMA RegistryKnown ==
  ASSUME CompositeInv
  PROVE  /\ \A id \in DOMAIN orderToIfd : ifds[orderToIfd[id]].secondary \in Requests
         /\ \A id \in DOMAIN orderToOco :
              ocos[orderToOco[id]].a \in OrderId /\ ocos[orderToOco[id]].b \in OrderId
<1>1. /\ \A n \in DOMAIN ifds : ifds[n] \in IfdOrder
      /\ \A n \in DOMAIN ocos : ocos[n] \in OcoOrder
  BY DEF CompositeInv, CompositeTypeOK
<1>2. /\ \A n \in DOMAIN ifds : ifds[n].secondary \in Requests
      /\ \A n \in DOMAIN ocos : ocos[n].a \in OrderId /\ ocos[n].b \in OrderId
  BY <1>1 DEF IfdOrder, OcoOrder
<1> QED BY <1>2 DEF CompositeInv, CompositeTypeOK

\* A submission and a cancel are calls of the service.
LEMMA FollowUpsAreCalls ==
  /\ \A req \in Requests : SubmitFok(req) \/ Submits(req) => Next
  /\ \A id \in OrderId : CancelLeg(id) => [Next]_vars
BY DEF Next, Submit, Submits, Cancel, CancelLeg

LEMMA StepIsServiceStep == CompositeInv /\ [CompositeNext]_<<vars, compositeVars>> => [Next]_vars
<1> SUFFICES ASSUME CompositeInv, [CompositeNext]_<<vars, compositeVars>>
             PROVE  [Next]_vars
  OBVIOUS
<1>1. CASE ServiceCall
  BY <1>1 DEF ServiceCall
<1>2. CASE Register
  BY <1>2 DEF Register, RegisterIfd, RegisterOco
<1>3. CASE OnOrderFilled
  <2> SUFFICES ASSUME NEW id \in OrderId,
                      \/ HandleIfdIdle(id) \/ HandleIfd(id) \/ HandleIfdRefused(id)
                      \/ HandleIfdRejected(id) \/ HandleOcoIdle(id) \/ HandleOco(id)
               PROVE  [Next]_vars
    BY <1>3 DEF OnOrderFilled
  <2>1. CASE HandleIfdIdle(id) \/ HandleIfdRefused(id) \/ HandleOcoIdle(id)
    BY <2>1 DEF HandleIfdIdle, HandleIfdRefused, HandleOcoIdle
  <2>2. CASE HandleIfd(id) \/ HandleIfdRejected(id)
    BY <2>2, RegistryKnown, FollowUpsAreCalls DEF HandleIfd, HandleIfdRejected, IfdFires
  <2>3. CASE HandleOco(id)
    <3>1. OtherLeg(ocos[orderToOco[id]], id) \in OrderId
      BY <2>3, RegistryKnown DEF HandleOco, OcoFires, OtherLeg
    <3> QED BY <2>3, <3>1, FollowUpsAreCalls DEF HandleOco
  <2> QED BY <2>1, <2>2, <2>3
<1>4. CASE UNCHANGED <<vars, compositeVars>>
  BY <1>4
<1> QED BY <1>1, <1>2, <1>3, <1>4 DEF CompositeNext

-----------------------------------------------------------------------------
(* Type correctness.                                                       *)

\* No call of the service removes an order.
LEMMA OrdersStay ==
  ASSUME TypeOK, [Next]_vars
  PROVE  OrderId \subseteq OrderId'
<1>1. ASSUME NEW req \in Requests,
             SubmitFok(req) \/ SubmitLimit(req) \/ SubmitMarket(req) \/ SubmitStop(req)
               \/ SubmitIoc(req)
      PROVE  OrderId \subseteq OrderId'
  BY <1>1
  DEF TypeOK, OrderId, Save, SubmitFok, SubmitLimit, SubmitMarket, SubmitStop, SubmitIoc
<1>2. CASE UNCHANGED vars
  BY <1>2 DEF vars, OrderId
<1>3. CASE Next
  BY <1>1, <1>3, NextCases
  DEF OrderId, CancelOrder, RefuseFill, AbandonFill, SettleFill, EnterFill, Deposit,
      Withdraw, UpdatePositionsPnl, OnPriceUpdate
<1> QED BY <1>2, <1>3

\* A submission adds the order it is for.
LEMMA SubmissionAdds ==
  ASSUME TypeOK, NEW req \in Requests, SubmitFok(req) \/ Submits(req)
  PROVE  NextId \in OrderId'
BY DEF TypeOK, OrderId, NextId, Save, SubmitFok, Submits, SubmitLimit, SubmitMarket,
       SubmitStop, SubmitIoc

\* Registrations stay well typed while the service takes more orders.
LEMMA TypesWiden ==
  ASSUME OrderId \subseteq OrderId'
  PROVE  /\ IfdOrder \subseteq IfdOrder'
         /\ OcoOrder \subseteq OcoOrder'
         /\ Option(OrderId) \subseteq Option(OrderId)'
BY DEF IfdOrder, OcoOrder, Option

LEMMA CompositeInitType == CompositeInit => CompositeInv
<1> SUFFICES ASSUME CompositeInit PROVE CompositeInv
  OBVIOUS
<1>1. TypeOK
  BY InitType DEF CompositeInit
<1>2. /\ \A S : <<>> \in Seq(S)
      /\ DOMAIN <<>> = {} /\ Len(<<>>) = 0
  BY EmptySeq
<1>3. {} \in Option(OrderId)
  BY DEF Option
<1> QED BY <1>1, <1>2, <1>3 DEF CompositeInit, CompositeInv, CompositeTypeOK

\* What is registered stays registered and well typed in a longer store.
LEMMA RegistryKept ==
  ASSUME CompositeInv, OrderId \subseteq OrderId'
  PROVE  /\ ifds \in Seq(IfdOrder)' /\ ocos \in Seq(OcoOrder)'
         /\ DOMAIN orderToIfd \subseteq OrderId' /\ DOMAIN orderToOco \subseteq OrderId'
         /\ notices \subseteq OrderId'
         /\ secondaries \in Seq(SUBSET OrderId)'
         /\ followUp \in Option(OrderId)'
<1>1. /\ IfdOrder \subseteq IfdOrder' /\ OcoOrder \subseteq OcoOrder'
      /\ SUBSET OrderId \subseteq (SUBSET OrderId)'
      /\ Option(OrderId) \subseteq Option(OrderId)'
  BY TypesWiden
<1>2. ifds \in Seq(IfdOrder) /\ ocos \in Seq(OcoOrder) /\ secondaries \in Seq(SUBSET OrderId)
  BY DEF CompositeInv, CompositeTypeOK
<1>3. /\ ifds \in Seq(IfdOrder)' /\ ocos \in Seq(OcoOrder)'
      /\ secondaries \in Seq(SUBSET OrderId)'
  BY <1>1, <1>2, SeqMonotonic
<1> QED BY <1>1, <1>3 DEF CompositeInv, CompositeTypeOK

LEMMA ServiceCallType ==
  ASSUME CompositeInv, OrderId \subseteq OrderId', ServiceCall
  PROVE  CompositeTypeOK'
BY RegistryKept DEF ServiceCall, registry, CompositeInv, CompositeTypeOK, OrderId

LEMMA RegisterIfdType ==
  ASSUME CompositeInv, OrderId \subseteq OrderId',
         NEW id \in OrderId, NEW req \in Requests, RegisterIfd(id, req)
  PROVE  CompositeTypeOK'
<1> DEFINE ifd == [primary |-> id, secondary |-> req, status |-> "Active"]
<1>1. ifd \in IfdOrder'
  BY DEF IfdOrder, CompositeStatus
<1>2. /\ ifds \in Seq(IfdOrder) /\ ifds \in Seq(IfdOrder)'
      /\ secondaries \in Seq(SUBSET OrderId)' /\ Len(secondaries) = Len(ifds)
  BY RegistryKept DEF CompositeInv, CompositeTypeOK
<1> HIDE DEF ifd
<1>3. /\ Append(ifds, ifd) \in Seq(IfdOrder)'
      /\ Len(Append(ifds, ifd)) = Len(ifds) + 1
      /\ Append(ifds, ifd)[Len(ifds) + 1] = ifd
      /\ \A n \in DOMAIN ifds : Append(ifds, ifd)[n] = ifds[n]
      /\ DOMAIN Append(ifds, ifd) = DOMAIN ifds \cup {Len(ifds) + 1}
  BY <1>1, <1>2, AppendProperties
<1>4. /\ Append(secondaries, {}) \in Seq(SUBSET OrderId)'
      /\ Len(Append(secondaries, {})) = Len(secondaries) + 1
  BY <1>2, AppendProperties
<1>5. /\ ifds' = Append(ifds, ifd) /\ secondaries' = Append(secondaries, {})
      /\ orderToIfd' = Insert(orderToIfd, id, Len(ifds) + 1)
      /\ UNCHANGED <<ocos, orderToOco, followUp, notices, answered>>
  BY DEF RegisterIfd, ifd
<1>6. \A k \in DOMAIN orderToIfd' :
        orderToIfd'[k] \in DOMAIN ifds' /\ ifds'[orderToIfd'[k]].primary = k
  <2>1. ifd.primary = id
    BY DEF ifd
  <2> QED BY <1>3, <1>5, <2>1 DEF Insert, CompositeInv, CompositeTypeOK
<1>7. DOMAIN orderToIfd' \subseteq OrderId'
  BY <1>5, RegistryKept DEF Insert
<1> QED BY <1>2, <1>3, <1>4, <1>5, <1>6, <1>7, RegistryKept DEF CompositeInv, CompositeTypeOK

LEMMA RegisterOcoType ==
  ASSUME CompositeInv, OrderId \subseteq OrderId',
         NEW a \in OrderId, NEW b \in OrderId, RegisterOco(a, b)
  PROVE  CompositeTypeOK'
<1> DEFINE oco == [a |-> a, b |-> b, status |-> "Active"]
<1>1. oco \in OcoOrder' /\ LegsOf(oco) = {a, b}
  BY DEF OcoOrder, CompositeStatus, LegsOf
<1>2. ocos \in Seq(OcoOrder) /\ ocos \in Seq(OcoOrder)'
  BY RegistryKept DEF CompositeInv, CompositeTypeOK
<1> HIDE DEF oco
<1>3. /\ Append(ocos, oco) \in Seq(OcoOrder)'
      /\ Append(ocos, oco)[Len(ocos) + 1] = oco
      /\ \A n \in DOMAIN ocos : Append(ocos, oco)[n] = ocos[n]
      /\ DOMAIN Append(ocos, oco) = DOMAIN ocos \cup {Len(ocos) + 1}
  BY <1>1, <1>2, AppendProperties
<1>4. /\ ocos' = Append(ocos, oco)
      /\ orderToOco' = Insert(Insert(orderToOco, a, Len(ocos) + 1), b, Len(ocos) + 1)
      /\ UNCHANGED <<ifds, orderToIfd, followUp, notices, answered, secondaries>>
  BY DEF RegisterOco, oco
<1>5. /\ DOMAIN orderToOco' = DOMAIN orderToOco \cup {a, b}
      /\ \A k \in {a, b} : orderToOco'[k] = Len(ocos) + 1
      /\ \A k \in DOMAIN orderToOco \ {a, b} : orderToOco'[k] = orderToOco[k]
  BY <1>4 DEF Insert
<1>6. \A k \in DOMAIN orderToOco' :
        orderToOco'[k] \in DOMAIN ocos' /\ k \in LegsOf(ocos'[orderToOco'[k]])
  <2> SUFFICES ASSUME NEW k \in DOMAIN orderToOco'
               PROVE  /\ orderToOco'[k] \in DOMAIN ocos'
                      /\ k \in LegsOf(ocos'[orderToOco'[k]])
    OBVIOUS
  <2>1. CASE k \in {a, b}
    <3>1. ocos'[orderToOco'[k]] = oco /\ orderToOco'[k] \in DOMAIN ocos'
      BY <1>3, <1>4, <1>5, <2>1
    <3> QED BY <1>1, <2>1, <3>1
  <2>2. CASE k \in DOMAIN orderToOco \ {a, b}
    <3>1. orderToOco[k] \in DOMAIN ocos /\ k \in LegsOf(ocos[orderToOco[k]])
      BY <2>2 DEF CompositeInv, CompositeTypeOK
    <3>2. ocos'[orderToOco'[k]] = ocos[orderToOco[k]] /\ orderToOco'[k] \in DOMAIN ocos'
      BY <1>3, <1>4, <1>5, <2>2, <3>1
    <3> QED BY <3>1, <3>2
  <2> QED BY <1>5, <2>1, <2>2
<1>7. DOMAIN orderToOco' \subseteq OrderId'
  BY <1>5, RegistryKept
<1> QED BY <1>3, <1>4, <1>6, <1>7, RegistryKept DEF CompositeInv, CompositeTypeOK

\* Completing a registered order keeps the registry's types and indices.
LEMMA CompletionType ==
  ASSUME CompositeInv, OrderId \subseteq OrderId'
  PROVE  /\ \A n \in DOMAIN ifds :
              /\ [ifds EXCEPT ![n].status = "Completed"] \in Seq(IfdOrder)'
              /\ Len([ifds EXCEPT ![n].status = "Completed"]) = Len(ifds)
              /\ DOMAIN [ifds EXCEPT ![n].status = "Completed"] = DOMAIN ifds
              /\ \A m \in DOMAIN ifds :
                   [ifds EXCEPT ![n].status = "Completed"][m].primary = ifds[m].primary
         /\ \A n \in DOMAIN ocos :
              /\ [ocos EXCEPT ![n].status = "Completed"] \in Seq(OcoOrder)'
              /\ DOMAIN [ocos EXCEPT ![n].status = "Completed"] = DOMAIN ocos
              /\ \A m \in DOMAIN ocos :
                   LegsOf([ocos EXCEPT ![n].status = "Completed"][m]) = LegsOf(ocos[m])
<1>1. ASSUME NEW n \in DOMAIN ifds
      PROVE  /\ [ifds EXCEPT ![n].status = "Completed"] \in Seq(IfdOrder)'
             /\ Len([ifds EXCEPT ![n].status = "Completed"]) = Len(ifds)
             /\ DOMAIN [ifds EXCEPT ![n].status = "Completed"] = DOMAIN ifds
             /\ \A m \in DOMAIN ifds :
                  [ifds EXCEPT ![n].status = "Completed"][m].primary = ifds[m].primary
  <2> DEFINE done == [ifds[n] EXCEPT !.status = "Completed"]
  <2>1. ifds \in Seq(IfdOrder)' /\ n \in 1..Len(ifds) /\ ifds[n] \in IfdOrder'
    BY RegistryKept, <1>1
  <2>2. done \in IfdOrder' /\ done.primary = ifds[n].primary
    BY <2>1 DEF IfdOrder, CompositeStatus
  <2>3. [ifds EXCEPT ![n].status = "Completed"] = [ifds EXCEPT ![n] = done]
    BY <1>1
  <2> HIDE DEF done
  <2>4. /\ [ifds EXCEPT ![n] = done] \in Seq(IfdOrder)'
        /\ Len([ifds EXCEPT ![n] = done]) = Len(ifds)
    BY <2>1, <2>2, ExceptSeq
  <2>5. \A m \in DOMAIN ifds : [ifds EXCEPT ![n] = done][m].primary = ifds[m].primary
    BY <1>1, <2>2
  <2>6. DOMAIN [ifds EXCEPT ![n] = done] = DOMAIN ifds
    OBVIOUS
  <2> QED BY <2>3, <2>4, <2>5, <2>6
<1>2. ASSUME NEW n \in DOMAIN ocos
      PROVE  /\ [ocos EXCEPT ![n].status = "Completed"] \in Seq(OcoOrder)'
             /\ DOMAIN [ocos EXCEPT ![n].status = "Completed"] = DOMAIN ocos
             /\ \A m \in DOMAIN ocos :
                  LegsOf([ocos EXCEPT ![n].status = "Completed"][m]) = LegsOf(ocos[m])
  <2> DEFINE done == [ocos[n] EXCEPT !.status = "Completed"]
  <2>1. ocos \in Seq(OcoOrder)' /\ n \in 1..Len(ocos) /\ ocos[n] \in OcoOrder'
    BY RegistryKept, <1>2
  <2>2. done \in OcoOrder' /\ LegsOf(done) = LegsOf(ocos[n])
    BY <2>1 DEF OcoOrder, CompositeStatus, LegsOf
  <2>3. [ocos EXCEPT ![n].status = "Completed"] = [ocos EXCEPT ![n] = done]
    BY <1>2
  <2> HIDE DEF done
  <2>4. [ocos EXCEPT ![n] = done] \in Seq(OcoOrder)'
    BY <2>1, <2>2, ExceptSeq
  <2>5. \A m \in DOMAIN ocos : LegsOf([ocos EXCEPT ![n] = done][m]) = LegsOf(ocos[m])
    BY <1>2, <2>2
  <2>6. DOMAIN [ocos EXCEPT ![n] = done] = DOMAIN ocos
    OBVIOUS
  <2> QED BY <2>3, <2>4, <2>5, <2>6
<1> QED BY <1>1, <1>2

LEMMA HandleIfdType ==
  ASSUME CompositeInv, OrderId \subseteq OrderId', NEW id \in OrderId,
         \/ HandleIfdIdle(id) \/ HandleIfd(id)
         \/ HandleIfdRefused(id) \/ HandleIfdRejected(id)
  PROVE  CompositeTypeOK'
<1>1. /\ followUp' \in Option(OrderId)' /\ followUp' \subseteq answered'
      /\ answered' \subseteq notices' /\ notices' \subseteq OrderId'
      /\ UNCHANGED <<ocos, orderToIfd, orderToOco, notices>>
  <2>1. followUp' \in {{}, {id}} /\ BeginFollowUp(id) /\ followUp' \subseteq {id}
    BY DEF HandleIfdIdle, HandleIfd, HandleIfdRefused, HandleIfdRejected, BeginFollowUp
  <2>2. id \in OrderId' /\ {} \in Option(OrderId)' /\ {id} \in Option(OrderId)'
    BY DEF Option
  <2> QED BY <2>1, <2>2, RegistryKept DEF BeginFollowUp, CompositeInv, CompositeTypeOK
<1>2. CASE HandleIfdIdle(id) \/ HandleIfdRefused(id)
  <2>1. UNCHANGED <<ifds, secondaries>>
    BY <1>2 DEF HandleIfdIdle, HandleIfdRefused
  <2> QED BY <1>1, <2>1, RegistryKept DEF CompositeInv, CompositeTypeOK
<1>3. CASE HandleIfd(id) \/ HandleIfdRejected(id)
  <2> DEFINE n == orderToIfd[id]
  <2>1. n \in DOMAIN ifds /\ ifds[n].secondary \in Requests
    BY <1>3, RegistryKnown
    DEF HandleIfd, HandleIfdRejected, IfdFires, CompositeInv, CompositeTypeOK
  <2>2. NextId \in OrderId'
    BY <1>3, <2>1, SubmissionAdds DEF HandleIfd, HandleIfdRejected, CompositeInv
  <2> HIDE DEF n
  <2>3. /\ secondaries' \in Seq(SUBSET OrderId)'
        /\ Len(secondaries') = Len(ifds)
    <3>1. /\ secondaries \in Seq(SUBSET OrderId)' /\ Len(secondaries) = Len(ifds)
          /\ ifds \in Seq(IfdOrder)
      BY RegistryKept DEF CompositeInv, CompositeTypeOK
    <3>2. n \in 1..Len(secondaries) /\ secondaries[n] \cup {NextId} \in (SUBSET OrderId)'
      BY <2>1, <2>2, <3>1
    <3>3. secondaries' = [secondaries EXCEPT ![n] = secondaries[n] \cup {NextId}]
      BY <1>3 DEF HandleIfd, HandleIfdRejected, n
    <3> QED BY <3>1, <3>2, <3>3, ExceptSeq
  <2>4. /\ ifds' \in Seq(IfdOrder)' /\ Len(ifds') = Len(ifds) /\ DOMAIN ifds' = DOMAIN ifds
        /\ \A m \in DOMAIN ifds : ifds'[m].primary = ifds[m].primary
    <3>1. \/ ifds' = ifds
          \/ ifds' = [ifds EXCEPT ![n].status = "Completed"]
      BY <1>3 DEF HandleIfd, HandleIfdRejected, n
    <3>2. CASE ifds' = ifds
      <4>1. ifds \in Seq(IfdOrder)'
        BY RegistryKept
      <4> QED BY <3>2, <4>1
    <3>3. CASE ifds' = [ifds EXCEPT ![n].status = "Completed"]
      <4> DEFINE done == [ifds EXCEPT ![n].status = "Completed"]
      <4>1. /\ done \in Seq(IfdOrder)' /\ Len(done) = Len(ifds) /\ DOMAIN done = DOMAIN ifds
            /\ \A m \in DOMAIN ifds : done[m].primary = ifds[m].primary
        BY <2>1, CompletionType
      <4>2. ifds' = done
        BY <3>3
      <4> HIDE DEF done
      <4> QED BY <4>1, <4>2
    <3> QED BY <3>1, <3>2, <3>3
  <2> QED BY <1>1, <2>3, <2>4, RegistryKept DEF CompositeInv, CompositeTypeOK
<1> QED BY <1>2, <1>3

LEMMA HandleOcoType ==
  ASSUME CompositeInv, OrderId \subseteq OrderId', NEW id \in OrderId,
         HandleOcoIdle(id) \/ HandleOco(id)
  PROVE  CompositeTypeOK'
<1>1. /\ followUp' = {} /\ followUp' \in Option(OrderId)'
      /\ UNCHANGED <<ifds, orderToIfd, orderToOco, notices, answered, secondaries>>
  BY DEF HandleOcoIdle, HandleOco, EndFollowUp, Option
<1>2. /\ ocos' \in Seq(OcoOrder)' /\ DOMAIN ocos' = DOMAIN ocos
      /\ \A m \in DOMAIN ocos : LegsOf(ocos'[m]) = LegsOf(ocos[m])
  <2>1. \/ ocos' = ocos
        \/ /\ orderToOco[id] \in DOMAIN ocos
           /\ ocos' = [ocos EXCEPT ![orderToOco[id]].status = "Completed"]
    BY DEF HandleOcoIdle, HandleOco, OcoFires, CompositeInv, CompositeTypeOK
  <2> QED BY <2>1, RegistryKept, CompletionType
<1> QED BY <1>1, <1>2, RegistryKept DEF CompositeInv, CompositeTypeOK

LEMMA CompositeStepType ==
  CompositeInv /\ [CompositeNext]_<<vars, compositeVars>> => CompositeInv'
<1> SUFFICES ASSUME CompositeInv, [CompositeNext]_<<vars, compositeVars>>
             PROVE  CompositeInv'
  OBVIOUS
<1>1. TypeOK' /\ OrderId \subseteq OrderId'
  BY StepIsServiceStep, StepType, OrdersStay DEF CompositeInv
<1>2. CASE ServiceCall
  BY <1>1, <1>2, ServiceCallType DEF CompositeInv
<1>3. CASE Register
  BY <1>1, <1>3, RegisterIfdType, RegisterOcoType, CompositeAssumption DEF Register, CompositeInv
<1>4. CASE OnOrderFilled
  BY <1>1, <1>4, HandleIfdType, HandleOcoType DEF OnOrderFilled, CompositeInv
<1>5. CASE UNCHANGED <<vars, compositeVars>>
  BY <1>1, <1>5, RegistryKept
  DEF compositeVars, registry, CompositeInv, CompositeTypeOK
<1> QED BY <1>2, <1>3, <1>4, <1>5 DEF CompositeNext

-----------------------------------------------------------------------------
(* The theorems.                                                           *)

\* The registry is well typed and its indices are sound, whatever is registered
\* when and however fills and their follow-ups interleave.
THEOREM CompositeTypeCorrect == CompositeSpec => []CompositeTypeOK
<1>1. CompositeInv => CompositeTypeOK
  BY DEF CompositeInv
<1> QED BY <1>1, CompositeInitType, CompositeStepType, PTL DEF CompositeSpec

\* Composite orders are clients of the order service: every behaviour with them
\* is a behaviour of the service, so they can do nothing it does not allow.
THEOREM CompositeIsService == CompositeSpec => ImplementsService
<1>1. CompositeInit => Init
  BY DEF CompositeInit
<1> QED BY <1>1, CompositeInitType, CompositeStepType, StepIsServiceStep, PTL
        DEF CompositeSpec, ImplementsService, Spec

\* So cancelled legs and secondary orders keep the margin conserved.
THEOREM CompositeMarginIsConserved == CompositeSpec => []MarginConserved
BY CompositeIsService, MarginIsConserved, PTL DEF ImplementsService

\* And positions, balance and filled quantities agree with the trades.
THEOREM CompositeBooksAgree ==
  CompositeSpec => [](PositionsNetTrades /\ BalanceReconciles /\ TradesFitOrders)
BY CompositeIsService, PositionsAreTheNetOfTrades, BalanceIsReconciled,
   TradesFitTheirOrders, PTL
DEF ImplementsService

-----------------------------------------------------------------------------
(* IFD orders.                                                             *)

\* The secondary orders of an IFD order that were not rejected.
Live(n) == {id \in secondaries[n] : store[id].status # "Rejected"}

\* OneSecondaryPerIfd, of one IFD order.
Secondary(n) ==
  IF ifds[n].status = "Completed"
  THEN Cardinality(Live(n)) = 1 /\ store[ifds[n].primary].status = "Filled"
  ELSE Live(n) = {}

\* What the service does while nothing is submitted for an IFD order leaves its
\* secondary orders live or rejected, and its primary filled.
LEMMA SecondaryStays ==
  ASSUME CompositeInv, [Next]_vars, NEW n \in DOMAIN ifds, Secondary(n),
         ifds'[n] = ifds[n], secondaries'[n] = secondaries[n]
  PROVE  Secondary(n)'
<1>1. secondaries[n] \subseteq OrderId
  BY DEF CompositeInv, CompositeTypeOK
<1>2. ifds[n].primary \in OrderId
  <2>1. ifds[n] \in IfdOrder
    BY DEF CompositeInv, CompositeTypeOK
  <2> QED BY <2>1 DEF IfdOrder
<1>3. \A id \in OrderId :
        /\ store'[id].status = "Rejected" <=> store[id].status = "Rejected"
        /\ store[id].status = "Filled" => store'[id].status = "Filled"
  BY StatusStays DEF CompositeInv, IsTerminal
<1>4. Live(n)' = Live(n)
  BY <1>1, <1>3 DEF Live
<1> QED BY <1>2, <1>3, <1>4 DEF Secondary

\* A submission stores one more order, rejected exactly if it is fill-or-kill.
LEMMA SubmissionStores ==
  ASSUME TypeOK, NEW req \in Requests, SubmitFok(req) \/ Submits(req)
  PROVE  \E next : /\ next = NextId /\ next \notin OrderId
                   /\ SubmitFok(req) => store'[next].status = "Rejected"
                   /\ Submits(req) => store'[next].status # "Rejected"
<1> DEFINE new      == NewOrder(req)
           accepted == MoveTo(new, "Accepted")
<1>1. /\ new \in Order /\ new.status = "New"
      /\ {"Rejected", "Accepted", "PendingTrigger", "Cancelled"} \subseteq OrderStatus
      /\ {"FokRejected", "Accepted", "None", "IocResidualCancelled"} \subseteq OrderEvent
  BY ServiceAssumption, NewOrderType DEF OrderStatus, OrderEvent
<1>2. /\ SubmitFok(req) => Save(MoveTo(new, "Rejected"), "FokRejected")
      /\ Submits(req) => \/ Save(accepted, "Accepted")
                         \/ Save(MoveTo(new, "PendingTrigger"), "None")
                         \/ Save(MoveTo(accepted, "Cancelled"), "IocResidualCancelled")
  BY DEF SubmitFok, Submits, SubmitLimit, SubmitMarket, SubmitStop, SubmitIoc, CancelResidual
<1> HIDE DEF new
<1>3. ASSUME NEW s \in {"Rejected", "Accepted", "PendingTrigger"}
      PROVE  MoveTo(new, s) \in Order /\ MoveTo(new, s).status = s
  <2>1. s \in OrderStatus /\ CanMove(new.status, s)
    BY <1>1 DEF CanMove
  <2> QED BY <1>1, <2>1, MoveToType, MoveToEffect
<1>4. MoveTo(accepted, "Cancelled") \in Order /\ MoveTo(accepted, "Cancelled").status = "Cancelled"
  <2>1. accepted \in Order /\ accepted.status = "Accepted"
    BY <1>3
  <2> HIDE DEF accepted
  <2>2. CanMove(accepted.status, "Cancelled")
    BY <2>1 DEF CanMove
  <2> QED BY <1>1, <2>1, <2>2, MoveToType, MoveToEffect
<1>5. ASSUME NEW order \in Order, NEW event \in OrderEvent, Save(order, event)
      PROVE  \E next : next = NextId /\ next \notin OrderId /\ store'[next] = order
  BY <1>5, SaveType
<1>6. PICK next : next = NextId
  OBVIOUS
<1>7. next \notin OrderId
  BY <1>6 DEF TypeOK, OrderId, NextId
<1>8. CASE SubmitFok(req)
  <2>1. store'[next] = MoveTo(new, "Rejected")
    BY <1>1, <1>2, <1>3, <1>5, <1>6, <1>8
  <2>2. ~Submits(req)
    BY <1>8 DEF Submits, SubmitFok, SubmitLimit, SubmitMarket, SubmitStop, SubmitIoc
  <2> QED BY <1>3, <1>6, <1>7, <2>1, <2>2
<1>9. CASE Submits(req)
  <2>1. store'[next] \in {accepted, MoveTo(new, "PendingTrigger"), MoveTo(accepted, "Cancelled")}
    BY <1>1, <1>2, <1>3, <1>4, <1>5, <1>6, <1>9
  <2>2. store'[next].status # "Rejected"
    BY <1>3, <1>4, <2>1
  <2>3. ~SubmitFok(req)
    BY <1>9 DEF Submits, SubmitFok, SubmitLimit, SubmitMarket, SubmitStop, SubmitIoc
  <2> QED BY <1>6, <1>7, <2>2, <2>3
<1> QED BY <1>8, <1>9

\* The call that submits the secondary order.
LEMMA SubmissionIsSecondary ==
  ASSUME CompositeInv, NEW id \in OrderId, HandleIfd(id) \/ HandleIfdRejected(id),
         Secondary(orderToIfd[id])
  PROVE  Secondary(orderToIfd[id])'
<1> DEFINE n == orderToIfd[id]
<1>1. /\ n \in DOMAIN ifds /\ ifds[n].primary = id /\ ifds[n].status = "Active"
      /\ ifds[n].secondary \in Requests /\ store[id].status = "Filled"
      /\ orderToIfd' = orderToIfd
  BY RegistryKnown
  DEF HandleIfd, HandleIfdRejected, IfdFires, BeginFollowUp, CompositeInv, CompositeTypeOK
<1>2. TypeOK /\ n \in DOMAIN secondaries /\ secondaries[n] \subseteq OrderId
  BY <1>1 DEF CompositeInv, CompositeTypeOK
<1>3. SubmitFok(ifds[n].secondary) \/ Submits(ifds[n].secondary)
  BY DEF HandleIfd, HandleIfdRejected
<1>4. PICK next : /\ next = NextId /\ next \notin OrderId
                  /\ SubmitFok(ifds[n].secondary) => store'[next].status = "Rejected"
                  /\ Submits(ifds[n].secondary) => store'[next].status # "Rejected"
  BY <1>1, <1>2, <1>3, SubmissionStores
<1>5. secondaries'[n] = secondaries[n] \cup {next}
  BY <1>2, <1>4 DEF HandleIfd, HandleIfdRejected
<1>6. [Next]_vars
  BY <1>1, <1>3, FollowUpsAreCalls
<1>7. \A k \in OrderId :
        /\ store'[k].status = "Rejected" <=> store[k].status = "Rejected"
        /\ store[k].status = "Filled" => store'[k].status = "Filled"
  BY <1>2, <1>6, StatusStays DEF IsTerminal
<1>8. Live(n) = {}
  BY <1>1 DEF Secondary
<1>9. \A k \in secondaries[n] : store'[k].status = "Rejected"
  BY <1>2, <1>7, <1>8 DEF Live
<1>10. CASE HandleIfd(id)
  <2>1. store'[next].status # "Rejected"
    BY <1>4, <1>10 DEF HandleIfd
  <2>2. Live(n)' = {next}
    BY <1>1, <1>5, <1>9, <2>1 DEF Live
  <2>3. Cardinality(Live(n)') = 1
    BY <2>2, FS_Singleton
  <2>4. ifds'[n].status = "Completed" /\ ifds'[n].primary = id
    <3>1. ifds' = [ifds EXCEPT ![n].status = "Completed"]
      BY <1>10 DEF HandleIfd
    <3>2. ifds[n] \in IfdOrder
      BY <1>1 DEF CompositeInv, CompositeTypeOK
    <3> HIDE DEF n
    <3> QED BY <1>1, <3>1, <3>2 DEF IfdOrder
  <2>5. store'[id].status = "Filled"
    BY <1>1, <1>7
  <2> QED BY <1>1, <2>3, <2>4, <2>5 DEF Secondary
<1>11. CASE HandleIfdRejected(id)
  <2>1. store'[next].status = "Rejected" /\ ifds' = ifds
    BY <1>4, <1>11 DEF HandleIfdRejected
  <2>2. Live(n)' = {}
    BY <1>1, <1>5, <1>9, <2>1 DEF Live
  <2> QED BY <1>1, <2>1, <2>2 DEF Secondary
<1> QED BY <1>10, <1>11

LEMMA StepSecondaries ==
  /\ CompositeInv /\ \A n \in DOMAIN ifds : Secondary(n)
  /\ [CompositeNext]_<<vars, compositeVars>>
  => (\A n \in DOMAIN ifds : Secondary(n))'
<1> SUFFICES ASSUME CompositeInv, \A n \in DOMAIN ifds : Secondary(n),
                    [CompositeNext]_<<vars, compositeVars>>,
                    NEW n \in DOMAIN ifds'
             PROVE  Secondary(n)'
  OBVIOUS
<1>1. [Next]_vars
  BY StepIsServiceStep
<1>2. ASSUME ifds' = ifds, secondaries' = secondaries PROVE Secondary(n)'
  BY <1>1, <1>2, SecondaryStays
<1>3. ASSUME NEW id \in OrderId, NEW req \in Requests, RegisterIfd(id, req)
      PROVE  Secondary(n)'
  <2> DEFINE ifd == [primary |-> id, secondary |-> req, status |-> "Active"]
  <2>1. /\ ifds' = Append(ifds, ifd) /\ secondaries' = Append(secondaries, {})
        /\ ifds \in Seq(IfdOrder) /\ secondaries \in Seq(SUBSET OrderId)
        /\ Len(secondaries) = Len(ifds) /\ ifd.status = "Active"
    BY <1>3 DEF RegisterIfd, CompositeInv, CompositeTypeOK
  <2> HIDE DEF ifd
  <2>2. CASE n \in DOMAIN ifds
    <3>1. ifds'[n] = ifds[n] /\ secondaries'[n] = secondaries[n]
      BY <2>1, <2>2
    <3> QED BY <1>1, <2>2, <3>1, SecondaryStays
  <2>3. CASE n \notin DOMAIN ifds
    <3>1. ifds'[n].status = "Active" /\ secondaries'[n] = {}
      BY <2>1, <2>3
    <3> QED BY <3>1 DEF Secondary, Live
  <2> QED BY <2>2, <2>3
<1>4. ASSUME NEW id \in OrderId, HandleIfd(id) \/ HandleIfdRejected(id)
      PROVE  Secondary(n)'
  <2>1. /\ orderToIfd[id] \in DOMAIN ifds
        /\ ifds' = ifds \/ ifds' = [ifds EXCEPT ![orderToIfd[id]].status = "Completed"]
        /\ secondaries' = [secondaries EXCEPT ![orderToIfd[id]] =
                             secondaries[orderToIfd[id]] \cup {NextId}]
    BY <1>4 DEF HandleIfd, HandleIfdRejected, IfdFires, CompositeInv, CompositeTypeOK
  <2>2. n \in DOMAIN ifds
    BY <2>1
  <2>3. CASE n = orderToIfd[id]
    <3>1. orderToIfd' = orderToIfd
      BY <1>4 DEF HandleIfd, HandleIfdRejected, BeginFollowUp
    <3>2. Secondary(orderToIfd[id])'
      BY <1>4, <2>2, <2>3, SubmissionIsSecondary
    <3> QED BY <2>3, <3>1, <3>2
  <2>4. CASE n # orderToIfd[id]
    <3>1. ifds'[n] = ifds[n] /\ secondaries'[n] = secondaries[n]
      BY <2>1, <2>2, <2>4 DEF CompositeInv, CompositeTypeOK
    <3> QED BY <1>1, <2>2, <3>1, SecondaryStays
  <2> QED BY <2>3, <2>4
<1>5. CASE ServiceCall
  BY <1>2, <1>5 DEF ServiceCall, registry
<1>6. CASE Register
  BY <1>2, <1>3, <1>6, CompositeAssumption DEF Register, RegisterOco
<1>7. CASE OnOrderFilled
  BY <1>2, <1>4, <1>7
  DEF OnOrderFilled, HandleIfdIdle, HandleIfdRefused, HandleOcoIdle, HandleOco, EndFollowUp
<1>8. CASE UNCHANGED <<vars, compositeVars>>
  BY <1>2, <1>8 DEF compositeVars, registry
<1> QED BY <1>5, <1>6, <1>7, <1>8 DEF CompositeNext

\* However often and however late the fills of a primary are followed up, its
\* IFD order gets one secondary order past its submission, once it is filled
\* whole; attempts that end in an error get it none.
THEOREM OneSecondaryEach == CompositeSpec => []OneSecondaryPerIfd
<1> DEFINE Each == \A n \in DOMAIN ifds : Secondary(n)
<1>1. CompositeInit => Each
  BY EmptySeq DEF CompositeInit
<1>2. CompositeInv /\ Each /\ [CompositeNext]_<<vars, compositeVars>> => Each'
  BY StepSecondaries
<1>3. Each => OneSecondaryPerIfd
  BY DEF Secondary, Live, OneSecondaryPerIfd
<1> HIDE DEF Each
<1> QED BY <1>1, <1>2, <1>3, CompositeInitType, CompositeStepType, PTL DEF CompositeSpec

-----------------------------------------------------------------------------
(* OCO orders.                                                             *)

\* EventsTellStatus strengthens CompletedOcoIsSettled: a leg that refuses its
\* cancel is finished, for it is not new.
OcoInv == CompositeInv /\ CompletedOcoIsSettled

\* CompletedOcoIsSettled, of one OCO order.
Settled(n) ==
  ocos[n].status = "Completed" =>
    \E leg, other \in LegsOf(ocos[n]) :
      /\ LegsOf(ocos[n]) = {leg, other}
      /\ leg \in answered /\ IsTerminal(store[other].status)

LEMMA SettledStays ==
  ASSUME OcoInv, [Next]_vars, NEW n \in DOMAIN ocos, ocos'[n] = ocos[n],
         answered \subseteq answered'
  PROVE  Settled(n)'
<1>1. LegsOf(ocos[n]) \subseteq OrderId
  <2>1. ocos[n] \in OcoOrder
    BY DEF OcoInv, CompositeInv, CompositeTypeOK
  <2> QED BY <2>1 DEF OcoOrder, LegsOf
<1>2. \A id \in OrderId : IsTerminal(store[id].status) => IsTerminal(store'[id].status)
  BY StatusStays DEF OcoInv, CompositeInv
<1>3. Settled(n)
  BY DEF OcoInv, CompletedOcoIsSettled, Settled
<1> QED BY <1>1, <1>2, <1>3 DEF Settled

\* The leg whose cancel is asked for is finished afterwards.
LEMMA LegIsFinished ==
  ASSUME TypeOK, EventsTellStatus, NEW id \in OrderId, CancelLeg(id)
  PROVE  IsTerminal(store'[id].status)
<1>1. store[id] \in Order /\ lastEvent[id] \in OrderEvent
  BY DEF TypeOK, OrderId
<1>2. CASE CanMove(store[id].status, "Cancelled")
  <2>1. store'[id] = MoveTo(store[id], "Cancelled")
    BY <1>2 DEF CancelLeg, CancelOrder, OrderId
  <2>2. store'[id].status = "Cancelled"
    BY <1>1, <1>2, <2>1, MoveToEffect DEF OrderStatus
  <2> QED BY <2>2 DEF IsTerminal
<1>3. CASE ~CanMove(store[id].status, "Cancelled")
  <2>1. store' = store
    BY <1>3 DEF CancelLeg, vars
  <2>2. store[id].status = StatusTold(lastEvent[id])
    BY DEF EventsTellStatus
  <2>3. store[id].status # "New"
    BY <1>1, <2>2 DEF StatusTold, OrderEvent
  <2>4. store[id].status \in OrderStatus
    BY <1>1 DEF Order
  <2> QED BY <1>3, <2>1, <2>3, <2>4 DEF CanMove, IsTerminal, OrderStatus
<1> QED BY <1>2, <1>3

\* The call that completes an OCO order.
LEMMA CompletionSettles ==
  ASSUME OcoInv, EventsTellStatus, NEW id \in OrderId, HandleOco(id)
  PROVE  Settled(orderToOco[id])'
<1> DEFINE n     == orderToOco[id]
           oco   == ocos[n]
           other == OtherLeg(oco, id)
<1>1. /\ n \in DOMAIN ocos /\ id \in LegsOf(oco) /\ oco \in OcoOrder
      /\ oco.a \in OrderId /\ oco.b \in OrderId
  BY RegistryKnown
  DEF HandleOco, OcoFires, OcoInv, CompositeInv, CompositeTypeOK
<1>2. id \in answered /\ answered' = answered /\ orderToOco' = orderToOco
  BY DEF HandleOco, EndFollowUp, OcoInv, CompositeInv, CompositeTypeOK
<1>3. LegsOf(oco) = {id, other} /\ other \in OrderId
  BY <1>1 DEF LegsOf, OtherLeg
<1>4. IsTerminal(store'[other].status)
  BY <1>3, LegIsFinished DEF HandleOco, OcoInv, CompositeInv
<1>5. ocos' = ocos \/ ocos' = [ocos EXCEPT ![n].status = "Completed"]
  BY DEF HandleOco
<1> HIDE DEF n
<1>6. LegsOf(ocos'[n]) = LegsOf(oco)
  BY <1>1, <1>5 DEF LegsOf, OcoOrder
<1> HIDE DEF oco, other
<1>7. Settled(n)'
  <2>1. n' = n
    BY <1>2 DEF n
  <2> QED BY <1>1, <1>2, <1>3, <1>4, <1>6, <2>1 DEF Settled
<1> QED BY <1>7 DEF n

LEMMA StepOco ==
  OcoInv /\ EventsTellStatus /\ [CompositeNext]_<<vars, compositeVars>> => OcoInv'
<1> SUFFICES ASSUME OcoInv, EventsTellStatus, [CompositeNext]_<<vars, compositeVars>>
             PROVE  OcoInv'
  OBVIOUS
<1>1. CompositeInv /\ CompositeInv' /\ [Next]_vars
  BY CompositeStepType, StepIsServiceStep DEF OcoInv
<1> DEFINE Goal == \A n \in DOMAIN ocos' : Settled(n)'
<1>2. ASSUME ocos' = ocos, answered \subseteq answered' PROVE Goal
  BY <1>1, <1>2, SettledStays
<1>3. ASSUME NEW a \in OrderId, NEW b \in OrderId, RegisterOco(a, b)
      PROVE  Goal
  <2> DEFINE oco == [a |-> a, b |-> b, status |-> "Active"]
  <2>1. /\ ocos' = Append(ocos, oco) /\ ocos \in Seq(OcoOrder) /\ answered' = answered
        /\ oco.status = "Active"
    BY <1>1, <1>3 DEF RegisterOco, CompositeInv, CompositeTypeOK
  <2> HIDE DEF oco
  <2>2. ASSUME NEW n \in DOMAIN ocos' PROVE Settled(n)'
    <3>1. CASE n \in DOMAIN ocos
      <4>1. ocos'[n] = ocos[n]
        BY <2>1, <3>1
      <4> QED BY <1>1, <2>1, <3>1, <4>1, SettledStays
    <3>2. CASE n \notin DOMAIN ocos
      <4>1. ocos'[n] = oco
        BY <2>1, <2>2, <3>2
      <4> QED BY <2>1, <4>1 DEF Settled
    <3> QED BY <3>1, <3>2
  <2> QED BY <2>2
<1>4. ASSUME NEW id \in OrderId, HandleOco(id) PROVE Goal
  <2>1. /\ orderToOco[id] \in DOMAIN ocos /\ orderToOco' = orderToOco /\ answered' = answered
        /\ ocos' = ocos \/ ocos' = [ocos EXCEPT ![orderToOco[id]].status = "Completed"]
    BY <1>1, <1>4 DEF HandleOco, EndFollowUp, OcoFires, CompositeInv, CompositeTypeOK
  <2>2. ASSUME NEW n \in DOMAIN ocos PROVE Settled(n)'
    <3>1. CASE n = orderToOco[id]
      <4>1. Settled(orderToOco[id])'
        BY <1>4, CompletionSettles
      <4> QED BY <2>1, <3>1, <4>1
    <3>2. CASE n # orderToOco[id]
      <4>1. ocos'[n] = ocos[n]
        BY <2>1, <3>2
      <4> QED BY <1>1, <2>1, <4>1, SettledStays
    <3> QED BY <3>1, <3>2
  <2>3. DOMAIN ocos' = DOMAIN ocos
    BY <2>1
  <2> QED BY <2>2, <2>3
<1>5. Goal
  <2>1. CASE ServiceCall
    BY <1>2, <2>1 DEF ServiceCall, registry
  <2>2. CASE Register
    BY <1>2, <1>3, <2>2 DEF Register, RegisterIfd
  <2>3. CASE OnOrderFilled
    BY <1>2, <1>4, <2>3
    DEF OnOrderFilled, HandleIfdIdle, HandleIfdRefused, HandleIfd, HandleIfdRejected,
        HandleOcoIdle, BeginFollowUp, EndFollowUp
  <2>4. CASE UNCHANGED <<vars, compositeVars>>
    BY <1>2, <2>4 DEF compositeVars, registry
  <2> QED BY <2>1, <2>2, <2>3, <2>4 DEF CompositeNext
<1> QED BY <1>1, <1>5 DEF OcoInv, CompletedOcoIsSettled, Settled

\* Once an OCO order is completed a leg was filled and followed up and the other
\* will trade no more, whichever leg filled first, in part or whole, and
\* whatever cancels and late fills came between.
THEOREM CompletedOcosAreSettled == CompositeSpec => []CompletedOcoIsSettled
<1>1. CompositeInit => OcoInv
  BY CompositeInitType, EmptySeq DEF CompositeInit, OcoInv, CompletedOcoIsSettled
<1>2. OcoInv => CompletedOcoIsSettled
  BY DEF OcoInv
<1>3. CompositeSpec => []EventsTellStatus
  BY CompositeIsService, EventsTellTheStatus, PTL DEF ImplementsService
<1> QED BY <1>1, <1>2, <1>3, StepOco, PTL DEF CompositeSpec
=============================================================================
