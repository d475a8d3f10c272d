--------------------------- MODULE CompositeOrders ---------------------------
(***************************************************************************)
(* The composite order service, over the order service it drives           *)
(* (src/src/service/composite_order_service.rs,                            *)
(* src/src/domain/composite_order.rs).  An IFD order submits a secondary   *)
(* order once its primary is filled; an OCO order cancels one of its legs  *)
(* when the other is filled.                                               *)
(*                                                                         *)
(* on_order_filled makes up to two calls of the order service under one    *)
(* lock: its IFD half is one step, its OCO half another, and followUp      *)
(* holds everyone else back in between.                                    *)
(***************************************************************************)
EXTENDS OrderService

CONSTANTS
  SecondaryRequests,  \* the requests that IFD orders may carry
  MaxIfds,            \* bound: IFD orders ever registered
  MaxOcos             \* bound: OCO orders ever registered

ASSUME CompositeAssumption ==
  /\ SecondaryRequests \subseteq Requests
  /\ MaxIfds \in Nat
  /\ MaxOcos \in Nat

VARIABLES
  ifds,         \* the IFD orders, in the order of registration
  ocos,         \* the OCO orders, in the order of registration
  orderToIfd,   \* primary order id -> index in ifds
  orderToOco,   \* leg's order id -> index in ocos
  followUp,     \* {id} between the two halves of on_order_filled(id), else {}
  notices,      \* history: the orders a fill has been announced of
  answered,     \* history: the orders on_order_filled has been called for
  secondaries   \* history: index in ifds -> orders submitted for that IFD

\* No call sets Cancelled.
CompositeStatus == {"Active", "Completed", "Cancelled"}

IfdOrder == [primary : OrderId, secondary : Requests, status : CompositeStatus]

OcoOrder == [a : OrderId, b : OrderId, status : CompositeStatus]

LegsOf(oco) == {oco.a, oco.b}

registry == <<ifds, ocos, orderToIfd, orderToOco>>

compositeVars == <<registry, followUp, notices, answered, secondaries>>

CompositeInit ==
  /\ Init
  /\ ifds = <<>> /\ ocos = <<>>
  /\ orderToIfd = <<>> /\ orderToOco = <<>>
  /\ followUp = {} /\ notices = {} /\ answered = {}
  /\ secondaries = <<>>

\* A call of the order service alone; a fill it announces can be followed up.
ServiceCall ==
  /\ followUp = {}
  /\ Next
  /\ notices' = notices \cup
       {id \in DOMAIN store' : lastEvent'[id] \in {"PartiallyFilled", "Filled"}}
  /\ UNCHANGED <<registry, followUp, answered, secondaries>>

-----------------------------------------------------------------------------
(* Registration, of orders submitted before.  An order's earlier           *)
(* registration of the same kind is overwritten.                           *)

RegisterIfd(id, req) ==
  /\ followUp = {}
  /\ Len(ifds) < MaxIfds
  /\ ifds' = Append(ifds, [primary |-> id, secondary |-> req, status |-> "Active"])
  /\ orderToIfd' = Insert(orderToIfd, id, Len(ifds) + 1)
  /\ secondaries' = Append(secondaries, {})
  /\ UNCHANGED <<vars, ocos, orderToOco, followUp, notices, answered>>

\* Mutant: a leg is indexed under the registration before its own.
RegisterOcoMisindexed(a, b) ==
  /\ followUp = {}
  /\ Len(ocos) < MaxOcos
  /\ ocos' = Append(ocos, [a |-> a, b |-> b, status |-> "Active"])
  /\ orderToOco' = Insert(Insert(orderToOco, a, Len(ocos) + 1), b, Len(ocos))
  /\ UNCHANGED <<vars, ifds, orderToIfd, followUp, notices, answered, secondaries>>

\* Nothing keeps the legs apart: an order can be both.
RegisterOco(a, b) ==
  /\ followUp = {}
  /\ Len(ocos) < MaxOcos
  /\ ocos' = Append(ocos, [a |-> a, b |-> b, status |-> "Active"])
  /\ orderToOco' = Insert(Insert(orderToOco, a, Len(ocos) + 1), b, Len(ocos) + 1)
  /\ UNCHANGED <<vars, ifds, orderToIfd, followUp, notices, answered, secondaries>>

-----------------------------------------------------------------------------
(* on_order_filled, first half: the IFD order the filled order is the      *)
(* primary of.                                                             *)

IfdFires(id) ==
  /\ id \in DOMAIN orderToIfd
  /\ ifds[orderToIfd[id]].status = "Active"
  /\ store[id].status = "Filled"

BeginFollowUp(id) ==
  /\ followUp = {}
  /\ id \in notices
  /\ answered' = answered \cup {id}
  /\ UNCHANGED <<ocos, orderToIfd, orderToOco, notices>>

HandleIfdIdle(id) ==
  /\ BeginFollowUp(id)
  /\ ~IfdFires(id)
  /\ followUp' = {id}
  /\ UNCHANGED <<vars, ifds, secondaries>>

\* The submissions that succeed.
Submits(req) == SubmitLimit(req) \/ SubmitMarket(req) \/ SubmitStop(req) \/ SubmitIoc(req)

\* Mutant: the IFD order stays active when its secondary order is submitted.
HandleIfdAgain(id) ==
  /\ BeginFollowUp(id)
  /\ IfdFires(id)
  /\ Submits(ifds[orderToIfd[id]].secondary)
  /\ secondaries' = [secondaries EXCEPT ![orderToIfd[id]] = @ \cup {NextId}]
  /\ followUp' = {id}
  /\ UNCHANGED ifds

HandleIfd(id) ==
  /\ BeginFollowUp(id)
  /\ IfdFires(id)
  /\ Submits(ifds[orderToIfd[id]].secondary)
  /\ ifds' = [ifds EXCEPT ![orderToIfd[id]].status = "Completed"]
  /\ secondaries' = [secondaries EXCEPT ![orderToIfd[id]] = @ \cup {NextId}]
  /\ followUp' = {id}

\* A refused secondary order ends the call with its error: the IFD order stays
\* active and the OCO half is not reached.
HandleIfdRefused(id) ==
  /\ BeginFollowUp(id)
  /\ IfdFires(id)
  /\ LET req == ifds[orderToIfd[id]].secondary
     IN  \/ ~WithinLimits(req)
         \/ req.type.kind = "Limit" /\ req.tif # "FOK" /\ ~CanReserve(req)
  /\ UNCHANGED <<vars, ifds, followUp, secondaries>>

\* So does a FOK secondary, whose rejection is stored and returned as an error.
HandleIfdRejected(id) ==
  /\ BeginFollowUp(id)
  /\ IfdFires(id)
  /\ SubmitFok(ifds[orderToIfd[id]].secondary)
  /\ secondaries' = [secondaries EXCEPT ![orderToIfd[id]] = @ \cup {NextId}]
  /\ UNCHANGED <<ifds, followUp>>

-----------------------------------------------------------------------------
(* on_order_filled, second half: the OCO order the filled order is a leg   *)
(* of.                                                                     *)

OcoFires(id) ==
  id \in DOMAIN orderToOco /\ ocos[orderToOco[id]].status = "Active"

\* Mutant: the filled leg itself is taken for the other.
SameLeg(oco, id) == IF oco.a = id THEN oco.a ELSE oco.b

OtherLeg(oco, id) == IF oco.a = id THEN oco.b ELSE oco.a

EndFollowUp(id) ==
  /\ followUp = {id}
  /\ followUp' = {}
  /\ UNCHANGED <<ifds, orderToIfd, orderToOco, notices, answered, secondaries>>

HandleOcoIdle(id) ==
  /\ EndFollowUp(id)
  /\ ~OcoFires(id)
  /\ UNCHANGED <<vars, ocos>>

\* Mutant: the other leg is marked cancelled without going through the service.
CancelLegUnseen(id) ==
  /\ store' = [store EXCEPT ![id] = MoveTo(@, "Cancelled")]
  /\ UNCHANGED <<account, positions, marginLocks, cumulativeLoss, trades,
                 lastEvent, netCash>>

\* A leg that is finished already refuses the cancel, which is ignored.
CancelLeg(id) ==
  IF CanMove(store[id].status, "Cancelled") THEN CancelOrder(id) ELSE UNCHANGED vars

\* The OCO order stays active if the cancelled leg's margin is not released.
HandleOco(id) ==
  LET other == OtherLeg(ocos[orderToOco[id]], id)
  IN  /\ EndFollowUp(id)
      /\ OcoFires(id)
      /\ CancelLeg(other)
      /\ ocos' = IF CanMove(store[other].status, "Cancelled") /\ ReleaseFails(other)
                 THEN ocos
                 ELSE [ocos EXCEPT ![orderToOco[id]].status = "Completed"]

-----------------------------------------------------------------------------

Register ==
  \/ \E id \in OrderId, req \in SecondaryRequests : RegisterIfd(id, req)
  \/ \E a, b \in OrderId : RegisterOco(a, b)

OnOrderFilled ==
  \E id \in OrderId :
    \/ HandleIfdIdle(id)
    \/ HandleIfd(id)
    \/ HandleIfdRefused(id)
    \/ HandleIfdRejected(id)
    \/ HandleOcoIdle(id)
    \/ HandleOco(id)

CompositeNext == ServiceCall \/ Register \/ OnOrderFilled

CompositeSpec == CompositeInit /\ [][CompositeNext]_<<vars, compositeVars>>
=============================================================================
