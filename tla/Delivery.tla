------------------------------ MODULE Delivery ------------------------------
(***************************************************************************)
(* What the payment system promises about one delivery per order: an order *)
(* is claimed by one execution at a time, delivered at most once and only  *)
(* by the execution that claimed it, and a claim may be released so that   *)
(* the order is claimed again.  Payment implements this module.            *)
(***************************************************************************)
CONSTANT Order

VARIABLE phase

\* "ended" is a claim that is over without a delivery.
Phases == {"none", "open", "closed", "claimed", "delivered", "ended"}

Init == phase = [o \in Order |-> "none"]

Move(o, from, to) ==
  /\ phase[o] = from
  /\ phase' = [phase EXCEPT ![o] = to]

Place(o)   == Move(o, "none", "open")
Claim(o)   == Move(o, "open", "claimed")
Fulfil(o)  == Move(o, "claimed", "delivered")
Release(o) == Move(o, "claimed", "open")
End(o)     == Move(o, "claimed", "ended")

\* Any number of open orders may be closed in one step.
Close(S) ==
  /\ \A o \in S : phase[o] = "open"
  /\ phase' = [o \in Order |-> IF o \in S THEN "closed" ELSE phase[o]]

Next ==
  \/ \E o \in Order : Place(o) \/ Claim(o) \/ Fulfil(o) \/ Release(o) \/ End(o)
  \/ \E S \in SUBSET Order : Close(S)

Spec == Init /\ [][Next]_phase
=============================================================================
