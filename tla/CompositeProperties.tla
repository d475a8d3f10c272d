------------------------- MODULE CompositeProperties -------------------------
(***************************************************************************)
(* What IFD and OCO orders promise.                                        *)
(***************************************************************************)
EXTENDS CompositeOrders

\* Every variable has its type, and the two indices lead from an order to a
\* registration it is part of.
CompositeTypeOK ==
  /\ ifds \in Seq(IfdOrder)
  /\ ocos \in Seq(OcoOrder)
  /\ DOMAIN orderToIfd \subseteq OrderId
  /\ \A id \in DOMAIN orderToIfd :
       orderToIfd[id] \in DOMAIN ifds /\ ifds[orderToIfd[id]].primary = id
  /\ DOMAIN orderToOco \subseteq OrderId
  /\ \A id \in DOMAIN orderToOco :
       orderToOco[id] \in DOMAIN ocos /\ id \in LegsOf(ocos[orderToOco[id]])
  /\ followUp \in Option(OrderId)
  /\ notices \subseteq OrderId
  /\ answered \subseteq notices
  /\ followUp \subseteq answered
  /\ secondaries \in Seq(SUBSET OrderId)
  /\ Len(secondaries) = Len(ifds)

\* An IFD order gets one secondary order past its submission, and only when the
\* primary is filled whole, however often and however late its fills are
\* followed up; attempts that end in an error leave it free to try again.
\* (handle_ifd)
OneSecondaryPerIfd ==
  \A n \in DOMAIN ifds :
    LET live == {id \in secondaries[n] : store[id].status # "Rejected"}
    IN  IF ifds[n].status = "Completed"
        THEN Cardinality(live) = 1 /\ store[ifds[n].primary].status = "Filled"
        ELSE live = {}

\* Once an OCO order is completed, a leg has been filled and followed up, and
\* the other will trade no more: it has been cancelled, or was finished before.
\* Whichever leg fills first, in part or whole, and whatever client cancels
\* or late fills of either leg come between.  An order that is both legs is
\* settled itself.  That only one leg was filled is not promised: both may fill
\* before either is followed up.  (handle_oco)
CompletedOcoIsSettled ==
  \A n \in DOMAIN ocos :
    ocos[n].status = "Completed" =>
      \E leg, other \in LegsOf(ocos[n]) :
        /\ LegsOf(ocos[n]) = {leg, other}
        /\ leg \in answered /\ IsTerminal(store[other].status)

\* Follow-ups reach orders and margin only through calls of the order service:
\* whatever is true of its behaviours is true of them with composite orders.
ImplementsService == Spec

-----------------------------------------------------------------------------
(* Said of OCO orders, and not so: checked to find the counterexample.     *)

\* composite_order.rs:17: when a leg is filled the other is cancelled.  When a
\* call of on_order_filled ends, the other leg of the order's OCO order is closed.
FilledLegCancelsOther ==
  [][LET ended == followUp \cup (answered' \ answered)
     IN  followUp' = {} =>
           \A n \in DOMAIN ocos : \A leg, other \in LegsOf(ocos[n]) :
             leg # other /\ leg \in ended => ~IsOpen(store'[other].status)]_<<vars, compositeVars>>
=============================================================================
