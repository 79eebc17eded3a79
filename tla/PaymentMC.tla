----------------------------- MODULE PaymentMC -----------------------------
(* Instances of Payment for TLC: transactions of one user and of the owner. *)
EXTENDS Payment

CONSTANTS u1, owner, ostars

UserOfTx == [t \in Tx |-> IF t = ostars THEN owner ELSE u1]

\* Each user asks for one plan: every transaction of a user competes for reuse.
OfferOfTx == UserOfTx

\* Stars and test payments share nothing with an order's other transactions, so they
\* come on their own.
Begun(t) == invoice[t] # "none" \/ t \in creating \/ status[t] # "absent"
StarsAndTestsAlone ==
  \A s \in Stars \cup Test : Begun(s) => \A t \in Tx \ {s} : ~Begun(t)
=============================================================================
