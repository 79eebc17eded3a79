--------------------------- MODULE PaymentProofs ---------------------------
(***************************************************************************)
(* Theorems about Payment, for every set of transactions, workers and      *)
(* users and every combination of faults: its invariants, the edges of its *)
(* status, what its success screen shows, and that it implements Delivery. *)
(*                                                                         *)
(* The properties are not inductive: that a transaction is granted at most *)
(* once rests on the claim being exclusive (one worker per transaction)    *)
(* and on the row staying COMPLETED or REFUNDED while a worker holds it.   *)
(***************************************************************************)
EXTENDS PaymentScreen, TLAPS

Busy(w) == pc[w] # "idle"
Closed == {"COMPLETED", "REFUNDED"}
Charged == {"paid", "refunded"}

\* CreatePayment runs once per transaction.
CreateInv ==
  /\ \A t \in creating : status[t] = "absent"
  /\ \A t \in Tx \ Free : invoice[t] = "none" => status[t] = "absent" /\ t \notin creating

\* One worker per transaction, and the row and the counters agree with it.
ClaimInv ==
  /\ \A w \in Worker : Busy(w) => at[w] \in Tx /\ status[at[w]] \in Closed
  /\ \A v, w \in Worker : Busy(v) /\ Busy(w) /\ at[v] = at[w] => v = w
  /\ \A w \in Worker : pc[w] \in {"claimed", "failing"} => grants[at[w]] = 0
  /\ \A w \in Worker : pc[w] = "granted" => grants[at[w]] = 1 /\ rewards[at[w]] = 0

\* A grant is final: its row never becomes claimable again.
GrantInv ==
  \A t \in Tx :
    /\ grants[t] \in {0, 1}
    /\ grants[t] = 1 => status[t] \in Closed
    /\ rewards[t] <= grants[t]
    /\ t \in Free => rewards[t] = 0

\* COMPLETED is only said of, and acted on for, an invoice that was paid or a
\* row that a caller got for a price of zero.
PaidInv ==
  /\ \A t \in Tx : Note(t, "COMPLETED") \in notices \cup tasks => invoice[t] \in Charged
  /\ \A t \in Tx : status[t] \in Closed \cup {"FAILED"} => invoice[t] \in Charged \/ t \in offered

IInv == TypeOK /\ CreateInv /\ ClaimInv /\ GrantInv /\ PaidInv

-----------------------------------------------------------------------------
USE DEF vars, calls, db, gateway, worker, effects

\* No transaction exists and no worker is busy.
LEMMA InitIInv == Init => IInv
  BY ConstantsAssumption DEF Init, IInv, TypeOK, CreateInv, ClaimInv, GrantInv, PaidInv,
     TransactionStatus, Delivering, Notice, Outcome, Busy, Note, Closed, Charged

\* The counters are only touched for the transaction a busy worker holds.
LEMMA TypeStep == IInv /\ [Next]_vars => TypeOK'
<1> SUFFICES ASSUME IInv, [Next]_vars PROVE TypeOK'
  OBVIOUS
<1> USE ConstantsAssumption DEF IInv, TypeOK, TransactionStatus, Delivering, Notice, Outcome, Note
<1>1. ASSUME NEW t \in Tx, OpenInvoice(t) PROVE TypeOK'
  BY <1>1 DEF OpenInvoice
<1>2. ASSUME NEW t \in Tx, FreeLookup(t) PROVE TypeOK'
  BY <1>2 DEF FreeLookup
<1>3. ASSUME NEW t \in Tx, CommitPayment(t) PROVE TypeOK'
  BY <1>3 DEF CommitPayment
<1>4. ASSUME NEW t \in Tx, CreateFails(t) PROVE TypeOK'
  BY <1>4 DEF CreateFails
<1>5. ASSUME NEW t \in Tx, GatewayPaid(t) PROVE TypeOK'
  BY <1>5 DEF GatewayPaid
<1>6. ASSUME NEW t \in Tx, GatewayCanceled(t) PROVE TypeOK'
  BY <1>6 DEF GatewayCanceled
<1>7. ASSUME NEW t \in Tx, GatewayRefunded(t) PROVE TypeOK'
  BY <1>7 DEF GatewayRefunded
<1>8. ASSUME NEW t \in Tx, Tick(t) PROVE TypeOK'
  BY <1>8 DEF Tick
<1>9. ASSUME NEW t \in Tx, TakeCanceled(t) PROVE TypeOK'
  BY <1>9 DEF TakeCanceled, transition_status, Acknowledge
<1>10. ASSUME NEW t \in Tx, TakeRefunded(t) PROVE TypeOK'
  BY <1>10 DEF TakeRefunded, transition_status, Acknowledge
<1>11. ASSUME NEW t \in Tx, StarsOwnerRefunded(t) PROVE TypeOK'
  BY <1>11 DEF StarsOwnerRefunded, Answer, transition_status
<1>12. ASSUME NEW n \in Notice, Webhook(n) PROVE TypeOK'
  BY <1>12 DEF Webhook, Answer
<1>13. ASSUME NEW n \in Notice, WebhookRaises(n) PROVE TypeOK'
  BY <1>13 DEF WebhookRaises
<1>14. ASSUME NEW n \in Notice, UpdateLost(n) PROVE TypeOK'
  BY <1>14 DEF UpdateLost
<1>15. ASSUME NEW w \in Worker, NEW t \in Tx, TakeCompleted(w, t) PROVE TypeOK'
  BY <1>15 DEF TakeCompleted, transition_status, Start
<1>16. ASSUME NEW w \in Worker, NEW t \in Tx, ConfirmFree(w, t) PROVE TypeOK'
  BY <1>16 DEF ConfirmFree, transition_status, Start
<1>17. ASSUME NEW w \in Worker, NEW t \in Tx, StarsPaid(w, t) PROVE TypeOK'
  BY <1>17 DEF StarsPaid, Answer, transition_status, Start
<1>18. ASSUME NEW w \in Worker, ConfirmTest(w) PROVE TypeOK'
  BY <1>18 DEF ConfirmTest, Finish
<1>19. ASSUME NEW w \in Worker, Purchased(w) PROVE TypeOK'
  BY <1>19 DEF Purchased, ClaimInv, Busy
<1>20. ASSUME NEW w \in Worker, PurchaseRaises(w) PROVE TypeOK'
  BY <1>20 DEF PurchaseRaises
<1>21. ASSUME NEW w \in Worker, MarkFailed(w) PROVE TypeOK'
  BY <1>21 DEF MarkFailed, Finish, update_status
<1>22. ASSUME NEW w \in Worker, Reward(w) PROVE TypeOK'
  BY <1>22 DEF Reward, Finish
<1>23. ASSUME NEW w \in Worker, QueryRaises(w) PROVE TypeOK'
  BY <1>23 DEF QueryRaises, Finish
<1>24. ASSUME NEW w \in Worker, Crash(w) PROVE TypeOK'
  BY <1>24 DEF Crash
<1>25. CASE CancelOldTransactions
  BY <1>25 DEF CancelOldTransactions
<1>26. ASSUME NEW n \in Notice, TaskRaises(n) PROVE TypeOK'
  BY <1>26 DEF TaskRaises
<1>27. ASSUME NEW t \in Tx, NEW r \in Tx, FreeReuse(t, r) PROVE TypeOK'
  BY <1>27 DEF FreeReuse, get_recent_pending
<1>28. CASE UNCHANGED vars
  BY <1>28
<1>. QED
  BY <1>1, <1>2, <1>3, <1>4, <1>5, <1>6, <1>7, <1>8, <1>9, <1>10, <1>11, <1>12, <1>13, <1>14, <1>15, <1>16, <1>17, <1>18, <1>19, <1>20, <1>21, <1>22, <1>23, <1>24, <1>25, <1>26, <1>27, <1>28
  DEF Next, Create, Gateway, Notified, Take, Apply, Deliver, Disrupt

\* No action returns a row to "absent", and an invoice opens only once.
LEMMA CreateStep == IInv /\ [Next]_vars => CreateInv'
<1> SUFFICES ASSUME IInv, [Next]_vars PROVE CreateInv'
  OBVIOUS
<1> USE ConstantsAssumption DEF IInv, TypeOK, CreateInv, ClaimInv, Busy, Closed, Claimable, Delivering
<1>1. ASSUME NEW t \in Tx, OpenInvoice(t) PROVE CreateInv'
  BY <1>1 DEF OpenInvoice
<1>2. ASSUME NEW t \in Tx, FreeLookup(t) PROVE CreateInv'
  BY <1>2 DEF FreeLookup
<1>3. ASSUME NEW t \in Tx, CommitPayment(t) PROVE CreateInv'
  BY <1>3 DEF CommitPayment
<1>4. ASSUME NEW t \in Tx, CreateFails(t) PROVE CreateInv'
  BY <1>4 DEF CreateFails
<1>5. ASSUME NEW t \in Tx, GatewayPaid(t) PROVE CreateInv'
  BY <1>5 DEF GatewayPaid
<1>6. ASSUME NEW t \in Tx, GatewayCanceled(t) PROVE CreateInv'
  BY <1>6 DEF GatewayCanceled
<1>7. ASSUME NEW t \in Tx, GatewayRefunded(t) PROVE CreateInv'
  BY <1>7 DEF GatewayRefunded
<1>8. ASSUME NEW t \in Tx, Tick(t) PROVE CreateInv'
  BY <1>8 DEF Tick
<1>9. ASSUME NEW t \in Tx, TakeCanceled(t) PROVE CreateInv'
  BY <1>9 DEF TakeCanceled, transition_status, Acknowledge
<1>10. ASSUME NEW t \in Tx, TakeRefunded(t) PROVE CreateInv'
  BY <1>10 DEF TakeRefunded, transition_status, Acknowledge
<1>11. ASSUME NEW t \in Tx, StarsOwnerRefunded(t) PROVE CreateInv'
  BY <1>11 DEF StarsOwnerRefunded, Answer, transition_status
<1>12. ASSUME NEW n \in Notice, Webhook(n) PROVE CreateInv'
  BY <1>12 DEF Webhook, Answer
<1>13. ASSUME NEW n \in Notice, WebhookRaises(n) PROVE CreateInv'
  BY <1>13 DEF WebhookRaises
<1>14. ASSUME NEW n \in Notice, UpdateLost(n) PROVE CreateInv'
  BY <1>14 DEF UpdateLost
<1>15. ASSUME NEW w \in Worker, NEW t \in Tx, TakeCompleted(w, t) PROVE CreateInv'
  BY <1>15 DEF TakeCompleted, transition_status, Start
<1>16. ASSUME NEW w \in Worker, NEW t \in Tx, ConfirmFree(w, t) PROVE CreateInv'
  BY <1>16 DEF ConfirmFree, transition_status, Start
<1>17. ASSUME NEW w \in Worker, NEW t \in Tx, StarsPaid(w, t) PROVE CreateInv'
  BY <1>17 DEF StarsPaid, Answer, transition_status, Start
<1>18. ASSUME NEW w \in Worker, ConfirmTest(w) PROVE CreateInv'
  BY <1>18 DEF ConfirmTest, Finish
<1>19. ASSUME NEW w \in Worker, Purchased(w) PROVE CreateInv'
  BY <1>19 DEF Purchased
<1>20. ASSUME NEW w \in Worker, PurchaseRaises(w) PROVE CreateInv'
  BY <1>20 DEF PurchaseRaises
<1>21. ASSUME NEW w \in Worker, MarkFailed(w) PROVE CreateInv'
  BY <1>21 DEF MarkFailed, Finish, update_status
<1>22. ASSUME NEW w \in Worker, Reward(w) PROVE CreateInv'
  BY <1>22 DEF Reward, Finish
<1>23. ASSUME NEW w \in Worker, QueryRaises(w) PROVE CreateInv'
  BY <1>23 DEF QueryRaises, Finish
<1>24. ASSUME NEW w \in Worker, Crash(w) PROVE CreateInv'
  BY <1>24 DEF Crash
<1>25. CASE CancelOldTransactions
  BY <1>25 DEF CancelOldTransactions
<1>26. ASSUME NEW n \in Notice, TaskRaises(n) PROVE CreateInv'
  BY <1>26 DEF TaskRaises
<1>27. ASSUME NEW t \in Tx, NEW r \in Tx, FreeReuse(t, r) PROVE CreateInv'
  BY <1>27 DEF FreeReuse, get_recent_pending
<1>28. CASE UNCHANGED vars
  BY <1>28
<1>. QED
  BY <1>1, <1>2, <1>3, <1>4, <1>5, <1>6, <1>7, <1>8, <1>9, <1>10, <1>11, <1>12, <1>13, <1>14, <1>15, <1>16, <1>17, <1>18, <1>19, <1>20, <1>21, <1>22, <1>23, <1>24, <1>25, <1>26, <1>27, <1>28
  DEF Next, Create, Gateway, Notified, Take, Apply, Deliver, Disrupt

\* A claim is taken from a claimable row, which no busy worker's row is.
LEMMA ClaimStep == IInv /\ [Next]_vars => ClaimInv'
<1> SUFFICES ASSUME IInv, [Next]_vars PROVE ClaimInv'
  OBVIOUS
<1> USE ConstantsAssumption DEF IInv, TypeOK, CreateInv, ClaimInv, GrantInv, Busy, Closed, Claimable, Delivering
<1>1. ASSUME NEW t \in Tx, OpenInvoice(t) PROVE ClaimInv'
  BY <1>1 DEF OpenInvoice
<1>2. ASSUME NEW t \in Tx, FreeLookup(t) PROVE ClaimInv'
  BY <1>2 DEF FreeLookup
<1>3. ASSUME NEW t \in Tx, CommitPayment(t) PROVE ClaimInv'
  BY <1>3 DEF CommitPayment
<1>4. ASSUME NEW t \in Tx, CreateFails(t) PROVE ClaimInv'
  BY <1>4 DEF CreateFails
<1>5. ASSUME NEW t \in Tx, GatewayPaid(t) PROVE ClaimInv'
  BY <1>5 DEF GatewayPaid
<1>6. ASSUME NEW t \in Tx, GatewayCanceled(t) PROVE ClaimInv'
  BY <1>6 DEF GatewayCanceled
<1>7. ASSUME NEW t \in Tx, GatewayRefunded(t) PROVE ClaimInv'
  BY <1>7 DEF GatewayRefunded
<1>8. ASSUME NEW t \in Tx, Tick(t) PROVE ClaimInv'
  BY <1>8 DEF Tick
<1>9. ASSUME NEW t \in Tx, TakeCanceled(t) PROVE ClaimInv'
  BY <1>9 DEF TakeCanceled, transition_status, Acknowledge
<1>10. ASSUME NEW t \in Tx, TakeRefunded(t) PROVE ClaimInv'
  BY <1>10 DEF TakeRefunded, transition_status, Acknowledge
<1>11. ASSUME NEW t \in Tx, StarsOwnerRefunded(t) PROVE ClaimInv'
  BY <1>11 DEF StarsOwnerRefunded, Answer, transition_status
<1>12. ASSUME NEW n \in Notice, Webhook(n) PROVE ClaimInv'
  BY <1>12 DEF Webhook, Answer
<1>13. ASSUME NEW n \in Notice, WebhookRaises(n) PROVE ClaimInv'
  BY <1>13 DEF WebhookRaises
<1>14. ASSUME NEW n \in Notice, UpdateLost(n) PROVE ClaimInv'
  BY <1>14 DEF UpdateLost
<1>15. ASSUME NEW w \in Worker, NEW t \in Tx, TakeCompleted(w, t) PROVE ClaimInv'
  BY <1>15 DEF TakeCompleted, transition_status, Start
<1>16. ASSUME NEW w \in Worker, NEW t \in Tx, ConfirmFree(w, t) PROVE ClaimInv'
  BY <1>16 DEF ConfirmFree, transition_status, Start
<1>17. ASSUME NEW w \in Worker, NEW t \in Tx, StarsPaid(w, t) PROVE ClaimInv'
  BY <1>17 DEF StarsPaid, Answer, transition_status, Start
<1>18. ASSUME NEW w \in Worker, ConfirmTest(w) PROVE ClaimInv'
  BY <1>18 DEF ConfirmTest, Finish
<1>19. ASSUME NEW w \in Worker, Purchased(w) PROVE ClaimInv'
  BY <1>19 DEF Purchased
<1>20. ASSUME NEW w \in Worker, PurchaseRaises(w) PROVE ClaimInv'
  BY <1>20 DEF PurchaseRaises
<1>21. ASSUME NEW w \in Worker, MarkFailed(w) PROVE ClaimInv'
  BY <1>21 DEF MarkFailed, Finish, update_status
<1>22. ASSUME NEW w \in Worker, Reward(w) PROVE ClaimInv'
  BY <1>22 DEF Reward, Finish
<1>23. ASSUME NEW w \in Worker, QueryRaises(w) PROVE ClaimInv'
  BY <1>23 DEF QueryRaises, Finish
<1>24. ASSUME NEW w \in Worker, Crash(w) PROVE ClaimInv'
  BY <1>24 DEF Crash
<1>25. CASE CancelOldTransactions
  BY <1>25 DEF CancelOldTransactions
<1>26. ASSUME NEW n \in Notice, TaskRaises(n) PROVE ClaimInv'
  BY <1>26 DEF TaskRaises
<1>27. ASSUME NEW t \in Tx, NEW r \in Tx, FreeReuse(t, r) PROVE ClaimInv'
  BY <1>27 DEF FreeReuse, get_recent_pending
<1>28. CASE UNCHANGED vars
  BY <1>28
<1>. QED
  BY <1>1, <1>2, <1>3, <1>4, <1>5, <1>6, <1>7, <1>8, <1>9, <1>10, <1>11, <1>12, <1>13, <1>14, <1>15, <1>16, <1>17, <1>18, <1>19, <1>20, <1>21, <1>22, <1>23, <1>24, <1>25, <1>26, <1>27, <1>28
  DEF Next, Create, Gateway, Notified, Take, Apply, Deliver, Disrupt

\* A grant is made by a worker whose claim excludes every other.
LEMMA GrantStep == IInv /\ [Next]_vars => GrantInv'
<1> SUFFICES ASSUME IInv, [Next]_vars PROVE GrantInv'
  OBVIOUS
<1> USE ConstantsAssumption DEF IInv, TypeOK, CreateInv, ClaimInv, GrantInv, Busy, Closed, Claimable, Delivering
<1>1. ASSUME NEW t \in Tx, OpenInvoice(t) PROVE GrantInv'
  BY <1>1 DEF OpenInvoice
<1>2. ASSUME NEW t \in Tx, FreeLookup(t) PROVE GrantInv'
  BY <1>2 DEF FreeLookup
<1>3. ASSUME NEW t \in Tx, CommitPayment(t) PROVE GrantInv'
  BY <1>3 DEF CommitPayment
<1>4. ASSUME NEW t \in Tx, CreateFails(t) PROVE GrantInv'
  BY <1>4 DEF CreateFails
<1>5. ASSUME NEW t \in Tx, GatewayPaid(t) PROVE GrantInv'
  BY <1>5 DEF GatewayPaid
<1>6. ASSUME NEW t \in Tx, GatewayCanceled(t) PROVE GrantInv'
  BY <1>6 DEF GatewayCanceled
<1>7. ASSUME NEW t \in Tx, GatewayRefunded(t) PROVE GrantInv'
  BY <1>7 DEF GatewayRefunded
<1>8. ASSUME NEW t \in Tx, Tick(t) PROVE GrantInv'
  BY <1>8 DEF Tick
<1>9. ASSUME NEW t \in Tx, TakeCanceled(t) PROVE GrantInv'
  BY <1>9 DEF TakeCanceled, transition_status, Acknowledge
<1>10. ASSUME NEW t \in Tx, TakeRefunded(t) PROVE GrantInv'
  BY <1>10 DEF TakeRefunded, transition_status, Acknowledge
<1>11. ASSUME NEW t \in Tx, StarsOwnerRefunded(t) PROVE GrantInv'
  BY <1>11 DEF StarsOwnerRefunded, Answer, transition_status
<1>12. ASSUME NEW n \in Notice, Webhook(n) PROVE GrantInv'
  BY <1>12 DEF Webhook, Answer
<1>13. ASSUME NEW n \in Notice, WebhookRaises(n) PROVE GrantInv'
  BY <1>13 DEF WebhookRaises
<1>14. ASSUME NEW n \in Notice, UpdateLost(n) PROVE GrantInv'
  BY <1>14 DEF UpdateLost
<1>15. ASSUME NEW w \in Worker, NEW t \in Tx, TakeCompleted(w, t) PROVE GrantInv'
  BY <1>15 DEF TakeCompleted, transition_status, Start
<1>16. ASSUME NEW w \in Worker, NEW t \in Tx, ConfirmFree(w, t) PROVE GrantInv'
  BY <1>16 DEF ConfirmFree, transition_status, Start
<1>17. ASSUME NEW w \in Worker, NEW t \in Tx, StarsPaid(w, t) PROVE GrantInv'
  BY <1>17 DEF StarsPaid, Answer, transition_status, Start
<1>18. ASSUME NEW w \in Worker, ConfirmTest(w) PROVE GrantInv'
  BY <1>18 DEF ConfirmTest, Finish
<1>19. ASSUME NEW w \in Worker, Purchased(w) PROVE GrantInv'
  BY <1>19 DEF Purchased
<1>20. ASSUME NEW w \in Worker, PurchaseRaises(w) PROVE GrantInv'
  BY <1>20 DEF PurchaseRaises
<1>21. ASSUME NEW w \in Worker, MarkFailed(w) PROVE GrantInv'
  BY <1>21 DEF MarkFailed, Finish, update_status
<1>22. ASSUME NEW w \in Worker, Reward(w) PROVE GrantInv'
  BY <1>22 DEF Reward, Finish
<1>23. ASSUME NEW w \in Worker, QueryRaises(w) PROVE GrantInv'
  BY <1>23 DEF QueryRaises, Finish
<1>24. ASSUME NEW w \in Worker, Crash(w) PROVE GrantInv'
  BY <1>24 DEF Crash
<1>25. CASE CancelOldTransactions
  BY <1>25 DEF CancelOldTransactions
<1>26. ASSUME NEW n \in Notice, TaskRaises(n) PROVE GrantInv'
  BY <1>26 DEF TaskRaises
<1>27. ASSUME NEW t \in Tx, NEW r \in Tx, FreeReuse(t, r) PROVE GrantInv'
  BY <1>27 DEF FreeReuse, get_recent_pending
<1>28. CASE UNCHANGED vars
  BY <1>28
<1>. QED
  BY <1>1, <1>2, <1>3, <1>4, <1>5, <1>6, <1>7, <1>8, <1>9, <1>10, <1>11, <1>12, <1>13, <1>14, <1>15, <1>16, <1>17, <1>18, <1>19, <1>20, <1>21, <1>22, <1>23, <1>24, <1>25, <1>26, <1>27, <1>28
  DEF Next, Create, Gateway, Notified, Take, Apply, Deliver, Disrupt

\* A COMPLETED notice starts at a paid invoice and is carried unchanged.
LEMMA PaidStep == IInv /\ [Next]_vars => PaidInv'
<1> SUFFICES ASSUME IInv, [Next]_vars PROVE PaidInv'
  OBVIOUS
<1> USE ConstantsAssumption DEF IInv, TypeOK, CreateInv, ClaimInv, PaidInv, Busy, Closed, Claimable, Charged, Delivering, Notice, Note
<1>1. ASSUME NEW t \in Tx, OpenInvoice(t) PROVE PaidInv'
  BY <1>1 DEF OpenInvoice
<1>2. ASSUME NEW t \in Tx, FreeLookup(t) PROVE PaidInv'
  BY <1>2 DEF FreeLookup
<1>3. ASSUME NEW t \in Tx, CommitPayment(t) PROVE PaidInv'
  BY <1>3 DEF CommitPayment
<1>4. ASSUME NEW t \in Tx, CreateFails(t) PROVE PaidInv'
  BY <1>4 DEF CreateFails
<1>5. ASSUME NEW t \in Tx, GatewayPaid(t) PROVE PaidInv'
  BY <1>5 DEF GatewayPaid
<1>6. ASSUME NEW t \in Tx, GatewayCanceled(t) PROVE PaidInv'
  BY <1>6 DEF GatewayCanceled
<1>7. ASSUME NEW t \in Tx, GatewayRefunded(t) PROVE PaidInv'
  BY <1>7 DEF GatewayRefunded
<1>8. ASSUME NEW t \in Tx, Tick(t) PROVE PaidInv'
  BY <1>8 DEF Tick
<1>9. ASSUME NEW t \in Tx, TakeCanceled(t) PROVE PaidInv'
  BY <1>9 DEF TakeCanceled, transition_status, Acknowledge
<1>10. ASSUME NEW t \in Tx, TakeRefunded(t) PROVE PaidInv'
  BY <1>10 DEF TakeRefunded, transition_status, Acknowledge
<1>11. ASSUME NEW t \in Tx, StarsOwnerRefunded(t) PROVE PaidInv'
  BY <1>11 DEF StarsOwnerRefunded, Answer, transition_status
<1>12. ASSUME NEW n \in Notice, Webhook(n) PROVE PaidInv'
  BY <1>12 DEF Webhook, Answer
<1>13. ASSUME NEW n \in Notice, WebhookRaises(n) PROVE PaidInv'
  BY <1>13 DEF WebhookRaises
<1>14. ASSUME NEW n \in Notice, UpdateLost(n) PROVE PaidInv'
  BY <1>14 DEF UpdateLost
<1>15. ASSUME NEW w \in Worker, NEW t \in Tx, TakeCompleted(w, t) PROVE PaidInv'
  BY <1>15 DEF TakeCompleted, transition_status, Start
<1>16. ASSUME NEW w \in Worker, NEW t \in Tx, ConfirmFree(w, t) PROVE PaidInv'
  BY <1>16 DEF ConfirmFree, transition_status, Start
<1>17. ASSUME NEW w \in Worker, NEW t \in Tx, StarsPaid(w, t) PROVE PaidInv'
  BY <1>17 DEF StarsPaid, Answer, transition_status, Start
<1>18. ASSUME NEW w \in Worker, ConfirmTest(w) PROVE PaidInv'
  BY <1>18 DEF ConfirmTest, Finish
<1>19. ASSUME NEW w \in Worker, Purchased(w) PROVE PaidInv'
  BY <1>19 DEF Purchased
<1>20. ASSUME NEW w \in Worker, PurchaseRaises(w) PROVE PaidInv'
  BY <1>20 DEF PurchaseRaises
<1>21. ASSUME NEW w \in Worker, MarkFailed(w) PROVE PaidInv'
  BY <1>21 DEF MarkFailed, Finish, update_status
<1>22. ASSUME NEW w \in Worker, Reward(w) PROVE PaidInv'
  BY <1>22 DEF Reward, Finish
<1>23. ASSUME NEW w \in Worker, QueryRaises(w) PROVE PaidInv'
  BY <1>23 DEF QueryRaises, Finish
<1>24. ASSUME NEW w \in Worker, Crash(w) PROVE PaidInv'
  BY <1>24 DEF Crash
<1>25. CASE CancelOldTransactions
  BY <1>25 DEF CancelOldTransactions
<1>26. ASSUME NEW n \in Notice, TaskRaises(n) PROVE PaidInv'
  BY <1>26 DEF TaskRaises
<1>27. ASSUME NEW t \in Tx, NEW r \in Tx, FreeReuse(t, r) PROVE PaidInv'
  BY <1>27 DEF FreeReuse, get_recent_pending
<1>28. CASE UNCHANGED vars
  BY <1>28
<1>. QED
  BY <1>1, <1>2, <1>3, <1>4, <1>5, <1>6, <1>7, <1>8, <1>9, <1>10, <1>11, <1>12, <1>13, <1>14, <1>15, <1>16, <1>17, <1>18, <1>19, <1>20, <1>21, <1>22, <1>23, <1>24, <1>25, <1>26, <1>27, <1>28
  DEF Next, Create, Gateway, Notified, Take, Apply, Deliver, Disrupt

\* The inductive invariant holds in every reachable state.
THEOREM Invariance == Spec => []IInv
<1>1. IInv /\ [Next]_vars => IInv'
  BY TypeStep, CreateStep, ClaimStep, GrantStep, PaidStep DEF IInv
<1>. QED
  BY InitIInv, <1>1, PTL DEF Spec

-----------------------------------------------------------------------------
(* The properties the runs check. *)

\* Every variable keeps its type.
THEOREM TypeCorrect == Spec => []TypeOK
<1>1. IInv => TypeOK
  BY DEF IInv
<1>. QED
  BY Invariance, <1>1, PTL

\* No transaction is purchased twice, however often its webhook is resent, its
\* task redelivered or its button pressed.
THEOREM GrantedOnceHolds == Spec => []GrantedOnce
<1>1. IInv => GrantedOnce
  BY DEF IInv, GrantInv, GrantedOnce
<1>. QED
  BY Invariance, <1>1, PTL

\* A purchase is only committed for an invoice the gateway reported paid.
THEOREM GrantBackedHolds == Spec => []GrantBacked
<1>1. IInv => GrantBacked
  BY DEF IInv, TypeOK, GrantInv, PaidInv, GrantBacked, Closed, Charged
<1>. QED
  BY Invariance, <1>1, PTL

\* A referral reward follows a purchase, at most once, never a free one.
THEOREM RewardBackedHolds == Spec => []RewardBacked
<1>1. IInv => RewardBacked
  BY DEF IInv, GrantInv, RewardBacked
<1>. QED
  BY Invariance, <1>1, PTL

-----------------------------------------------------------------------------
(* The edges of the status. *)

\* A claimed row is COMPLETED or REFUNDED with nothing granted until the grant,
\* so FAILED is only written over those.
LEMMA EdgeStep == IInv /\ [Next]_vars => \A t \in Tx : StatusEdge(t)
<1> SUFFICES ASSUME IInv, [Next]_vars, NEW r \in Tx PROVE StatusEdge(r)
  OBVIOUS
<1> USE ConstantsAssumption DEF IInv, TypeOK, CreateInv, ClaimInv, Busy, Closed, Claimable,
        Delivering, StatusEdge
<1>1. ASSUME NEW t \in Tx, OpenInvoice(t) PROVE StatusEdge(r)
  BY <1>1 DEF OpenInvoice
<1>2. ASSUME NEW t \in Tx, FreeLookup(t) PROVE StatusEdge(r)
  BY <1>2 DEF FreeLookup
<1>3. ASSUME NEW t \in Tx, CommitPayment(t) PROVE StatusEdge(r)
  BY <1>3 DEF CommitPayment
<1>4. ASSUME NEW t \in Tx, CreateFails(t) PROVE StatusEdge(r)
  BY <1>4 DEF CreateFails
<1>5. ASSUME NEW t \in Tx, GatewayPaid(t) PROVE StatusEdge(r)
  BY <1>5 DEF GatewayPaid
<1>6. ASSUME NEW t \in Tx, GatewayCanceled(t) PROVE StatusEdge(r)
  BY <1>6 DEF GatewayCanceled
<1>7. ASSUME NEW t \in Tx, GatewayRefunded(t) PROVE StatusEdge(r)
  BY <1>7 DEF GatewayRefunded
<1>8. ASSUME NEW t \in Tx, Tick(t) PROVE StatusEdge(r)
  BY <1>8 DEF Tick
<1>9. ASSUME NEW t \in Tx, TakeCanceled(t) PROVE StatusEdge(r)
  BY <1>9 DEF TakeCanceled, transition_status, Acknowledge
<1>10. ASSUME NEW t \in Tx, TakeRefunded(t) PROVE StatusEdge(r)
  BY <1>10 DEF TakeRefunded, transition_status, Acknowledge
<1>11. ASSUME NEW t \in Tx, StarsOwnerRefunded(t) PROVE StatusEdge(r)
  BY <1>11 DEF StarsOwnerRefunded, Answer, transition_status
<1>12. ASSUME NEW n \in Notice, Webhook(n) PROVE StatusEdge(r)
  BY <1>12 DEF Webhook, Answer
<1>13. ASSUME NEW n \in Notice, WebhookRaises(n) PROVE StatusEdge(r)
  BY <1>13 DEF WebhookRaises
<1>14. ASSUME NEW n \in Notice, UpdateLost(n) PROVE StatusEdge(r)
  BY <1>14 DEF UpdateLost
<1>15. ASSUME NEW w \in Worker, NEW t \in Tx, TakeCompleted(w, t) PROVE StatusEdge(r)
  BY <1>15 DEF TakeCompleted, transition_status, Start
<1>16. ASSUME NEW w \in Worker, NEW t \in Tx, ConfirmFree(w, t) PROVE StatusEdge(r)
  BY <1>16 DEF ConfirmFree, transition_status, Start
<1>17. ASSUME NEW w \in Worker, NEW t \in Tx, StarsPaid(w, t) PROVE StatusEdge(r)
  BY <1>17 DEF StarsPaid, Answer, transition_status, Start
<1>18. ASSUME NEW w \in Worker, ConfirmTest(w) PROVE StatusEdge(r)
  BY <1>18 DEF ConfirmTest, Finish
<1>19. ASSUME NEW w \in Worker, Purchased(w) PROVE StatusEdge(r)
  BY <1>19 DEF Purchased
<1>20. ASSUME NEW w \in Worker, PurchaseRaises(w) PROVE StatusEdge(r)
  BY <1>20 DEF PurchaseRaises
<1>21. ASSUME NEW w \in Worker, MarkFailed(w) PROVE StatusEdge(r)
  BY <1>21 DEF MarkFailed, Finish, update_status
<1>22. ASSUME NEW w \in Worker, Reward(w) PROVE StatusEdge(r)
  BY <1>22 DEF Reward, Finish
<1>23. ASSUME NEW w \in Worker, QueryRaises(w) PROVE StatusEdge(r)
  BY <1>23 DEF QueryRaises, Finish
<1>24. ASSUME NEW w \in Worker, Crash(w) PROVE StatusEdge(r)
  BY <1>24 DEF Crash
<1>25. CASE CancelOldTransactions
  BY <1>25 DEF CancelOldTransactions
<1>26. ASSUME NEW n \in Notice, TaskRaises(n) PROVE StatusEdge(r)
  BY <1>26 DEF TaskRaises
<1>27. ASSUME NEW t \in Tx, NEW q \in Tx, FreeReuse(t, q) PROVE StatusEdge(r)
  BY <1>27 DEF FreeReuse, get_recent_pending
<1>28. CASE UNCHANGED vars
  BY <1>28
<1>. QED
  BY <1>1, <1>2, <1>3, <1>4, <1>5, <1>6, <1>7, <1>8, <1>9, <1>10, <1>11, <1>12, <1>13, <1>14, <1>15, <1>16, <1>17, <1>18, <1>19, <1>20, <1>21, <1>22, <1>23, <1>24, <1>25, <1>26, <1>27, <1>28
  DEF Next, Create, Gateway, Notified, Take, Apply, Deliver, Disrupt

\* A status moves only along the edges of the code's queries, and REFUNDED is
\* reopened only where nothing was granted.
THEOREM StatusEdgesHold == Spec => StatusEdges
<1>1. IInv /\ [Next]_vars => [\A t \in Tx : StatusEdge(t)]_vars
  BY EdgeStep
<1>. QED
  BY Invariance, <1>1, PTL DEF Spec, StatusEdges

-----------------------------------------------------------------------------
(* Without a stop or a database error nothing is stranded. *)

Stoppable == {"crash", "db"}

\* A run that loses its worker has granted, or has recorded FAILED.
LEMMA StrandStep ==
  ASSUME Faults \cap Stoppable = {}
  PROVE  IInv /\ NothingStranded /\ [Next]_vars => NothingStranded'
<1> SUFFICES ASSUME IInv, NothingStranded, [Next]_vars PROVE NothingStranded'
  OBVIOUS
<1> USE ConstantsAssumption DEF IInv, TypeOK, CreateInv, ClaimInv, GrantInv, Busy, Closed,
        Claimable, Delivering, NothingStranded, Stoppable
<1>1. ASSUME NEW t \in Tx, OpenInvoice(t) PROVE NothingStranded'
  BY <1>1 DEF OpenInvoice
<1>2. ASSUME NEW t \in Tx, FreeLookup(t) PROVE NothingStranded'
  BY <1>2 DEF FreeLookup
<1>3. ASSUME NEW t \in Tx, CommitPayment(t) PROVE NothingStranded'
  BY <1>3 DEF CommitPayment
<1>4. ASSUME NEW t \in Tx, CreateFails(t) PROVE NothingStranded'
  BY <1>4 DEF CreateFails
<1>5. ASSUME NEW t \in Tx, GatewayPaid(t) PROVE NothingStranded'
  BY <1>5 DEF GatewayPaid
<1>6. ASSUME NEW t \in Tx, GatewayCanceled(t) PROVE NothingStranded'
  BY <1>6 DEF GatewayCanceled
<1>7. ASSUME NEW t \in Tx, GatewayRefunded(t) PROVE NothingStranded'
  BY <1>7 DEF GatewayRefunded
<1>8. ASSUME NEW t \in Tx, Tick(t) PROVE NothingStranded'
  BY <1>8 DEF Tick
<1>9. ASSUME NEW t \in Tx, TakeCanceled(t) PROVE NothingStranded'
  BY <1>9 DEF TakeCanceled, transition_status, Acknowledge
<1>10. ASSUME NEW t \in Tx, TakeRefunded(t) PROVE NothingStranded'
  BY <1>10 DEF TakeRefunded, transition_status, Acknowledge
<1>11. ASSUME NEW t \in Tx, StarsOwnerRefunded(t) PROVE NothingStranded'
  BY <1>11 DEF StarsOwnerRefunded, Answer, transition_status
<1>12. ASSUME NEW n \in Notice, Webhook(n) PROVE NothingStranded'
  BY <1>12 DEF Webhook, Answer
<1>13. ASSUME NEW n \in Notice, WebhookRaises(n) PROVE NothingStranded'
  BY <1>13 DEF WebhookRaises
<1>14. ASSUME NEW n \in Notice, UpdateLost(n) PROVE NothingStranded'
  BY <1>14 DEF UpdateLost
<1>15. ASSUME NEW w \in Worker, NEW t \in Tx, TakeCompleted(w, t) PROVE NothingStranded'
  BY <1>15 DEF TakeCompleted, transition_status, Start
<1>16. ASSUME NEW w \in Worker, NEW t \in Tx, ConfirmFree(w, t) PROVE NothingStranded'
  BY <1>16 DEF ConfirmFree, transition_status, Start
<1>17. ASSUME NEW w \in Worker, NEW t \in Tx, StarsPaid(w, t) PROVE NothingStranded'
  BY <1>17 DEF StarsPaid, Answer, transition_status, Start
<1>18. ASSUME NEW w \in Worker, ConfirmTest(w) PROVE NothingStranded'
  BY <1>18 DEF ConfirmTest, Finish
<1>19. ASSUME NEW w \in Worker, Purchased(w) PROVE NothingStranded'
  BY <1>19 DEF Purchased
<1>20. ASSUME NEW w \in Worker, PurchaseRaises(w) PROVE NothingStranded'
  BY <1>20 DEF PurchaseRaises
<1>21. ASSUME NEW w \in Worker, MarkFailed(w) PROVE NothingStranded'
  BY <1>21 DEF MarkFailed, Finish, update_status
<1>22. ASSUME NEW w \in Worker, Reward(w) PROVE NothingStranded'
  BY <1>22 DEF Reward, Finish
<1>23. ASSUME NEW w \in Worker, QueryRaises(w) PROVE NothingStranded'
  BY <1>23 DEF QueryRaises, Finish
<1>24. ASSUME NEW w \in Worker, Crash(w) PROVE NothingStranded'
  BY <1>24 DEF Crash
<1>25. CASE CancelOldTransactions
  BY <1>25 DEF CancelOldTransactions
<1>26. ASSUME NEW n \in Notice, TaskRaises(n) PROVE NothingStranded'
  BY <1>26 DEF TaskRaises
<1>27. ASSUME NEW t \in Tx, NEW r \in Tx, FreeReuse(t, r) PROVE NothingStranded'
  BY <1>27 DEF FreeReuse, get_recent_pending
<1>28. CASE UNCHANGED vars
  BY <1>28
<1>. QED
  BY <1>1, <1>2, <1>3, <1>4, <1>5, <1>6, <1>7, <1>8, <1>9, <1>10, <1>11, <1>12, <1>13, <1>14, <1>15, <1>16, <1>17, <1>18, <1>19, <1>20, <1>21, <1>22, <1>23, <1>24, <1>25, <1>26, <1>27, <1>28
  DEF Next, Create, Gateway, Notified, Take, Apply, Deliver, Disrupt

\* Where neither a stop nor a database error occurs, a payment that is COMPLETED
\* or REFUNDED with nothing granted still has its worker.
THEOREM NothingStrandedHolds ==
  ASSUME Faults \cap Stoppable = {}
  PROVE  Spec => []NothingStranded
<1>1. Init => NothingStranded
  BY DEF Init, NothingStranded
<1>2. IInv /\ NothingStranded /\ [Next]_vars => NothingStranded'
  BY StrandStep
<1>. QED
  BY Invariance, <1>1, <1>2, PTL DEF Spec

-----------------------------------------------------------------------------
(* The success screen. *)

\* A step of the screen is a step of the payments or leaves them alone.
LEMMA ScreenImplements == [ScreenNext]_<<vars, screenVars>> => [Next]_vars
  BY DEF ScreenNext, GotoSuccessPayment, RedirectToSuccess, Gift, Delete, Pay, Next, Deliver

\* What was granted stays granted, and what was paid or offered stays so.
Backed(t) == invoice[t] \in Charged \/ t \in offered

LEMMA GrantsStay ==
  IInv /\ [Next]_vars =>
    \A t \in Tx : (grants[t] > 0 => grants'[t] > 0) /\ (Backed(t) => Backed(t)')
<1> SUFFICES ASSUME IInv, [Next]_vars, NEW t \in Tx
             PROVE  (grants[t] > 0 => grants'[t] > 0) /\ (Backed(t) => Backed(t)')
  OBVIOUS
<1> USE DEF IInv, TypeOK, Backed, Charged
<1>1. grants[t] > 0 => grants'[t] > 0
  <2>1. CASE UNCHANGED grants
    BY <2>1
  <2>2. ASSUME NEW w \in Worker, Purchased(w) PROVE grants'[t] > 0 \/ ~(grants[t] > 0)
    BY <2>2 DEF Purchased
  <2>. QED
    BY <2>1, <2>2 DEF Next, Create, Gateway, Notified, Take, Apply, Deliver, Disrupt,
       OpenInvoice, FreeLookup, CommitPayment, CreateFails, FreeReuse, GatewayPaid,
       GatewayCanceled, GatewayRefunded, Tick, Webhook, WebhookRaises, UpdateLost, TaskRaises,
       TakeCompleted, ConfirmFree, StarsPaid, TakeCanceled, TakeRefunded, StarsOwnerRefunded,
       ConfirmTest, PurchaseRaises, MarkFailed, Reward, QueryRaises, Crash, CancelOldTransactions
<1>2. invoice[t] \in {"paid", "refunded"} => invoice'[t] \in {"paid", "refunded"}
  <2>1. CASE UNCHANGED invoice
    BY <2>1
  <2>2. ASSUME NEW r \in Tx, OpenInvoice(r) \/ GatewayPaid(r) \/ GatewayCanceled(r)
                              \/ GatewayRefunded(r) \/ StarsOwnerRefunded(r)
        PROVE  invoice[t] \in {"paid", "refunded"} => invoice'[t] \in {"paid", "refunded"}
    BY <2>2 DEF OpenInvoice, GatewayPaid, GatewayCanceled, GatewayRefunded, StarsOwnerRefunded
  <2>. QED
    BY <2>1, <2>2 DEF Next, Create, Gateway, Notified, Take, Apply, Deliver, Disrupt,
       FreeLookup, CommitPayment, CreateFails, FreeReuse,
       Tick, Webhook, WebhookRaises, UpdateLost, TaskRaises,
       TakeCompleted, ConfirmFree, StarsPaid, TakeCanceled, TakeRefunded, Purchased,
       ConfirmTest, PurchaseRaises, MarkFailed, Reward, QueryRaises, Crash, CancelOldTransactions
<1>3. t \in offered => t \in offered'
  BY DEF Next, Create, Gateway, Notified, Take, Apply, Deliver, Disrupt,
     OpenInvoice, FreeLookup, CommitPayment, CreateFails, FreeReuse, GatewayPaid,
     GatewayCanceled, GatewayRefunded, Tick, Webhook, WebhookRaises, UpdateLost, TaskRaises,
     TakeCompleted, ConfirmFree, StarsPaid, TakeCanceled, TakeRefunded, StarsOwnerRefunded,
     ConfirmTest, Purchased, PurchaseRaises, MarkFailed, Reward, QueryRaises, Crash,
     CancelOldTransactions
<1>. QED
  BY <1>1, <1>2, <1>3

\* A user is served who bought something or was given it.
Served(u) == Bought(u) \/ u \in gifted

\* A user has paid whose transaction is backed.
HasPaid(u) == \E r \in Tx : UserOf[r] = u /\ Backed(r)

ScreenInv ==
  /\ subscribed \subseteq User /\ screen \subseteq Tx
  /\ \A u \in subscribed : Served(u)
  /\ \A t \in screen : HasPaid(UserOf[t]) /\ Served(UserOf[t])

\* Nobody who was served, or has paid, ceases to be so.
LEMMA ServedStays ==
  ASSUME IInv, [Next]_vars, gifted \subseteq gifted', NEW u
  PROVE  (Served(u) => Served(u)') /\ (HasPaid(u) => HasPaid(u)')
<1>1. ASSUME Bought(u) PROVE Bought(u)'
  <2>1. PICK t \in Tx : UserOf[t] = u /\ grants[t] > 0
    BY <1>1 DEF Bought
  <2>. QED
    BY <2>1, GrantsStay DEF Bought
<1>2. ASSUME HasPaid(u) PROVE HasPaid(u)'
  <2>1. PICK t \in Tx : UserOf[t] = u /\ Backed(t)
    BY <1>2 DEF HasPaid
  <2>2. Backed(t)'
    BY <2>1, GrantsStay
  <2>. QED
    BY <2>1, <2>2 DEF HasPaid
<1>. QED
  BY <1>1, <1>2 DEF Served

\* The redirect follows the grant of the worker's own transaction; the deep link
\* looks up a completed payment and a subscription, and whoever has one bought
\* it or was given it.
LEMMA ScreenStep == IInv /\ ScreenInv /\ [ScreenNext]_<<vars, screenVars>> => ScreenInv'
<1> SUFFICES ASSUME IInv, ScreenInv, [ScreenNext]_<<vars, screenVars>> PROVE ScreenInv'
  OBVIOUS
<1>1. [Next]_vars
  BY ScreenImplements
<1>2. gifted \subseteq gifted'
  BY DEF ScreenNext, GotoSuccessPayment, RedirectToSuccess, Gift, Delete, Pay, screenVars
<1>3. \A u : (Served(u) => Served(u)') /\ (HasPaid(u) => HasPaid(u)')
  BY <1>1, <1>2, ServedStays
<1>4. ASSUME subscribed' \subseteq subscribed, UNCHANGED screen PROVE ScreenInv'
  BY <1>3, <1>4 DEF ScreenInv
<1>5. ASSUME NEW t \in Tx, GotoSuccessPayment(t) PROVE ScreenInv'
  <2>1. Served(UserOf[t])' /\ UserOf[t] \in User
    BY <1>3, <1>5 DEF GotoSuccessPayment, HasSubscription, ScreenInv
  <2>2. PICK r \in Tx : UserOf[r] = UserOf[t] /\ status[r] = "COMPLETED"
    BY <1>5 DEF GotoSuccessPayment, HasCompleted
  <2>3. Backed(r)
    BY <2>2 DEF IInv, PaidInv, Closed, Backed
  <2>4. HasPaid(UserOf[t])'
    BY <1>3, <2>2, <2>3 DEF HasPaid
  <2>. QED
    BY <1>3, <1>5, <2>1, <2>4 DEF GotoSuccessPayment, ScreenInv
<1>6. ASSUME NEW w \in Worker, RedirectToSuccess(w) PROVE ScreenInv'
  <2>1. at[w] \in Tx /\ grants[at[w]] > 0 /\ status[at[w]] \in Closed
    BY <1>6 DEF RedirectToSuccess, Reward, IInv, ClaimInv, Busy
  <2>2. Bought(UserOf[at[w]])
    BY <2>1 DEF Bought
  <2>3. HasPaid(UserOf[at[w]])
    BY <2>1 DEF HasPaid, IInv, PaidInv, Closed, Backed
  <2>4. PICK r \in Tx : r = at[w] /\ Bought(UserOf[r]) /\ HasPaid(UserOf[r])
    BY <2>1, <2>2, <2>3
  <2>5. Served(UserOf[r])' /\ HasPaid(UserOf[r])'
    BY <1>3, <2>4 DEF Served
  <2>6. screen' = screen \cup {r} /\ UNCHANGED subscribed
    BY <1>6, <2>4 DEF RedirectToSuccess
  <2>. QED
    BY <1>3, <2>5, <2>6 DEF ScreenInv
<1>7. ASSUME NEW u \in User, Gift(u) PROVE ScreenInv'
  <2>1. Served(u)'
    BY <1>7 DEF Gift, Served
  <2>. QED
    BY <1>3, <1>7, <2>1 DEF Gift, ScreenInv
<1>8. ASSUME NEW u \in User, Delete(u) PROVE ScreenInv'
  BY <1>4, <1>8 DEF Delete
<1>9. CASE Pay
  <2>1. ASSUME NEW t \in Tx, grants'[t] # grants[t] PROVE Served(UserOf[t])'
    <3>1. GrantInv'
      BY <1>1, GrantStep
    <3>2. grants[t] \in {0, 1} /\ grants'[t] \in {0, 1}
      BY <3>1 DEF IInv, GrantInv
    <3>3. grants'[t] > 0
      BY <1>1, <2>1, <3>2, GrantsStay
    <3>. QED
      BY <3>3 DEF Served, Bought
  <2>2. \A u \in subscribed' :
          u \in subscribed \/ \E t \in Tx : u = UserOf[t] /\ grants'[t] # grants[t]
    BY <1>9 DEF Pay
  <2>3. subscribed' \subseteq User
    BY <2>2, ConstantsAssumption DEF ScreenInv
  <2>. QED
    BY <1>3, <1>9, <2>1, <2>2, <2>3 DEF Pay, ScreenInv
<1>10. CASE UNCHANGED <<vars, screenVars>>
  BY <1>4, <1>10 DEF screenVars
<1>. QED
  BY <1>5, <1>6, <1>7, <1>8, <1>9, <1>10 DEF ScreenNext

\* Whoever was shown the success screen has paid, and has bought something or
\* was given it, wherever the current subscription came from.
THEOREM ScreenFollowsPurchaseHolds == ScreenSpec => []ScreenFollowsPurchase
<1>1. ScreenInit => Init /\ ScreenInv
  BY DEF ScreenInit, ScreenInv
<1>2. ScreenSpec => Spec
  BY <1>1, ScreenImplements, PTL DEF ScreenSpec, Spec
<1>3. ScreenInv => ScreenFollowsPurchase
  BY DEF ScreenInv, ScreenFollowsPurchase, Served, HasPaid, Backed, Charged
<1>. QED
  BY <1>1, <1>2, <1>3, Invariance, ScreenStep, PTL DEF ScreenSpec

-----------------------------------------------------------------------------
(* Payment implements Delivery: every step of the code is a step of an     *)
(* order that is claimed exclusively and delivered once, or no step at all.*)

\* The order of one transaction, as a formula of its row and its worker.
Held(t) == \E w \in Worker : Busy(w) /\ at[w] = t

\* The phase in each case of the row, its grants and its being held.
LEMMA PhaseValue ==
  ASSUME NEW t \in Tx
  PROVE  /\ status[t] = "absent" => Phase[t] = "none"
         /\ status[t] \in Claimable => Phase[t] = "open"
         /\ status[t] = "CANCELED" => Phase[t] = "closed"
         /\ status[t] \in Closed /\ grants[t] > 0 => Phase[t] = "delivered"
         /\ status[t] \in Closed /\ ~(grants[t] > 0) /\ Held(t) => Phase[t] = "claimed"
         /\ status[t] \in Closed /\ ~(grants[t] > 0) /\ ~Held(t) => Phase[t] = "ended"
  BY DEF Phase, Claimable, Closed, Held, Busy

\* Where a row, its grants and its being held stay, so does the order.
LEMMA PhaseStays ==
  ASSUME NEW t \in Tx, status'[t] = status[t], grants'[t] = grants[t],
         Held(t)' <=> Held(t)
  PROVE  Phase'[t] = Phase[t]
  BY DEF Phase, Held, Busy

\* A step that changes one order moves it.
LEMMA PhaseMoves ==
  ASSUME NEW t \in Tx, NEW from, NEW to,
         Phase[t] = from, Phase'[t] = to,
         \A r \in Tx \ {t} : Phase'[r] = Phase[r]
  PROVE  Orders!Move(t, from, to)
<1>1. Phase = [r \in Tx |-> Phase[r]] /\ Phase' = [r \in Tx |-> Phase'[r]]
  BY DEF Phase
<1>2. Phase' = [Phase EXCEPT ![t] = to]
  BY <1>1
<1>. QED
  BY <1>2 DEF Orders!Move

\* A step that leaves every row, grant and holder alone is a stutter.
LEMMA PhaseStutter ==
  ASSUME \A t \in Tx : Phase'[t] = Phase[t]
  PROVE  Phase' = Phase
<1>1. Phase = [r \in Tx |-> Phase[r]] /\ Phase' = [r \in Tx |-> Phase'[r]]
  BY DEF Phase
<1>. QED
  BY <1>1

-----------------------------------------------------------------------------
(* The steps. *)

USE DEF vars, calls, db, gateway, worker, effects,
        Orders!Next, Orders!Place, Orders!Claim, Orders!Fulfil, Orders!Release, Orders!End

\* The three ways a run takes a transaction share one claim.
LEMMA ClaimStepRefines ==
  ASSUME IInv, NEW w \in Worker, NEW t \in Tx,
         pc[w] = "idle", status[t] \in Claimable,
         status' = [status EXCEPT ![t] = "COMPLETED"],
         pc' = [pc EXCEPT ![w] = "claimed"], at' = [at EXCEPT ![w] = t],
         UNCHANGED grants
  PROVE  Orders!Claim(t)
<1> USE DEF IInv, TypeOK, ClaimInv, GrantInv, Busy, Closed, Claimable, Delivering
<1>1. Held(t)' /\ \A r \in Tx \ {t} : Held(r)' <=> Held(r)
  BY DEF Held
<1>2. Phase[t] = "open"
  BY PhaseValue
<1>3. status'[t] \in Closed /\ ~(grants'[t] > 0)
  OBVIOUS
<1>4. Phase'[t] = "claimed"
  BY <1>1, <1>3 DEF Phase, Held
<1>5. ASSUME NEW r \in Tx \ {t} PROVE Phase'[r] = Phase[r]
  BY <1>1, PhaseStays
<1>. QED
  BY <1>2, <1>4, <1>5, PhaseMoves

\* A run that ends with the row still COMPLETED or REFUNDED lets its order go:
\* nothing was granted, so the order is over.
LEMMA EndStepRefines ==
  ASSUME IInv, NEW w \in Worker, pc[w] \in {"claimed", "failing"},
         pc' = [pc EXCEPT ![w] = "idle"], at' = [at EXCEPT ![w] = None],
         UNCHANGED <<status, grants>>
  PROVE  Orders!End(at[w])
<1> USE ConstantsAssumption DEF IInv, TypeOK, ClaimInv, GrantInv, Busy, Closed, Claimable, Delivering
<1>1. at[w] \in Tx /\ Held(at[w]) /\ status[at[w]] \in Closed /\ ~(grants[at[w]] > 0)
  BY DEF Held
<1>2. ~Held(at[w])' /\ \A r \in Tx \ {at[w]} : Held(r)' <=> Held(r)
  BY <1>1 DEF Held
<1>3. Phase[at[w]] = "claimed"
  BY <1>1, PhaseValue
<1>4. Phase'[at[w]] = "ended"
  BY <1>1, <1>2 DEF Phase, Held
<1>5. ASSUME NEW r \in Tx \ {at[w]} PROVE Phase'[r] = Phase[r]
  BY <1>2, PhaseStays
<1>. QED
  BY <1>1, <1>3, <1>4, <1>5, PhaseMoves

\* A run that ends after its grant changes nothing of its order.
LEMMA GrantedEndStutters ==
  ASSUME IInv, NEW w \in Worker, pc[w] = "granted",
         pc' = [pc EXCEPT ![w] = "idle"], at' = [at EXCEPT ![w] = None],
         UNCHANGED <<status, grants>>
  PROVE  Phase' = Phase
<1> USE ConstantsAssumption DEF IInv, TypeOK, ClaimInv, GrantInv, Busy, Closed, Claimable, Delivering
<1>1. at[w] \in Tx /\ status[at[w]] \in Closed /\ grants[at[w]] > 0
  OBVIOUS
<1>2. \A r \in Tx \ {at[w]} : Held(r)' <=> Held(r)
  BY <1>1 DEF Held
<1>3. Phase'[at[w]] = Phase[at[w]]
  BY <1>1 DEF Phase
<1>4. ASSUME NEW r \in Tx \ {at[w]} PROVE Phase'[r] = Phase[r]
  BY <1>2, PhaseStays
<1>. QED
  BY <1>3, <1>4, PhaseStutter

\* Canceling pending rows, one or all that are old, closes open orders.
LEMMA CancelStepRefines ==
  ASSUME IInv, NEW S \in SUBSET Tx, \A t \in S : status[t] = "PENDING",
         status' = [t \in Tx |-> IF t \in S THEN "CANCELED" ELSE status[t]],
         UNCHANGED <<pc, at, grants>>
  PROVE  Orders!Close(S)
<1> USE DEF IInv, TypeOK, Busy, Closed, Claimable
<1>1. \A t \in S : Phase[t] = "open" /\ Phase'[t] = "closed"
  BY DEF Phase
<1>2. ASSUME NEW t \in Tx \ S PROVE Phase'[t] = Phase[t]
  <2>1. Held(t)' <=> Held(t)
    BY DEF Held
  <2>. QED
    BY <2>1, PhaseStays
<1>3. Phase' = [t \in Tx |-> Phase'[t]]
  BY DEF Phase
<1>. QED
  BY <1>1, <1>2, <1>3 DEF Orders!Close

\* Actions that touch no row, grant or worker.
LEMMA FrameStutters ==
  ASSUME UNCHANGED <<status, grants, pc, at>>
  PROVE  Phase' = Phase
  BY DEF Phase

\* A canceling transition closes the order or does not match.
LEMMA CancelTransitionRefines ==
  ASSUME IInv, NEW t \in Tx, transition_status(t, "CANCELED", {"PENDING"}),
         UNCHANGED <<pc, at, grants>>
  PROVE  [Orders!Next]_Phase
<1>1. CASE status[t] = "PENDING"
  <2>1. status' = [r \in Tx |-> IF r \in {t} THEN "CANCELED" ELSE status[r]]
    BY <1>1 DEF transition_status, IInv, TypeOK
  <2>2. Orders!Close({t})
    BY <1>1, <2>1, CancelStepRefines
  <2>. QED
    BY <2>2
<1>2. CASE status[t] # "PENDING"
  BY <1>2, FrameStutters DEF transition_status
<1>. QED
  BY <1>1, <1>2

\* The COMPLETED transition claims the order or does not match.
LEMMA TakeRefines ==
  ASSUME IInv, NEW w \in Worker, NEW t \in Tx, pc[w] = "idle", UNCHANGED grants,
         transition_status(t, "COMPLETED", Claimable),
         \/ status[t] \in Claimable /\ \E b \in BOOLEAN : Start(w, t, b)
         \/ status[t] \notin Claimable /\ UNCHANGED <<pc, at>>
  PROVE  [Orders!Next]_Phase
<1>1. CASE status[t] \in Claimable
  <2>1. Orders!Claim(t)
    BY <1>1, ClaimStepRefines DEF transition_status, Start
  <2>. QED
    BY <2>1
<1>2. CASE status[t] \notin Claimable
  BY <1>2, FrameStutters DEF transition_status
<1>. QED
  BY <1>1, <1>2

\* Every action claims, delivers, releases, ends or closes orders, or leaves them.
LEMMA RefinementStep == IInv /\ [Next]_vars => [Orders!Next]_Phase
<1> SUFFICES ASSUME IInv, [Next]_vars PROVE [Orders!Next]_Phase
  OBVIOUS
<1>1. ASSUME NEW t \in Tx, OpenInvoice(t) PROVE [Orders!Next]_Phase
  BY <1>1, FrameStutters DEF OpenInvoice
<1>2. ASSUME NEW t \in Tx, FreeLookup(t) PROVE [Orders!Next]_Phase
  BY <1>2, FrameStutters DEF FreeLookup
<1>3. ASSUME NEW t \in Tx, CreateFails(t) PROVE [Orders!Next]_Phase
  BY <1>3, FrameStutters DEF CreateFails
<1>4. ASSUME NEW t \in Tx, GatewayPaid(t) PROVE [Orders!Next]_Phase
  BY <1>4, FrameStutters DEF GatewayPaid
<1>5. ASSUME NEW t \in Tx, GatewayCanceled(t) PROVE [Orders!Next]_Phase
  BY <1>5, FrameStutters DEF GatewayCanceled
<1>6. ASSUME NEW t \in Tx, GatewayRefunded(t) PROVE [Orders!Next]_Phase
  BY <1>6, FrameStutters DEF GatewayRefunded
<1>7. ASSUME NEW t \in Tx, Tick(t) PROVE [Orders!Next]_Phase
  BY <1>7, FrameStutters DEF Tick
<1>8. ASSUME NEW t \in Tx, CommitPayment(t) PROVE [Orders!Next]_Phase
  <2>1. status[t] = "absent" /\ status' = [status EXCEPT ![t] = "PENDING"]
    BY <1>8 DEF CommitPayment, IInv, CreateInv
  <2>2. Phase[t] = "none" /\ Phase'[t] = "open"
    BY <1>8, <2>1 DEF Phase, Claimable, IInv, TypeOK
  <2>3. ASSUME NEW r \in Tx \ {t} PROVE Phase'[r] = Phase[r]
    BY <1>8, <2>1 DEF Phase, CommitPayment, IInv, TypeOK
  <2>. QED
    BY <2>2, <2>3, PhaseMoves
<1>9. ASSUME NEW n \in Notice, Webhook(n) PROVE [Orders!Next]_Phase
  BY <1>9, FrameStutters DEF Webhook
<1>10. ASSUME NEW n \in Notice, WebhookRaises(n) PROVE [Orders!Next]_Phase
  BY <1>10, FrameStutters DEF WebhookRaises
<1>11. ASSUME NEW n \in Notice, UpdateLost(n) PROVE [Orders!Next]_Phase
  BY <1>11, FrameStutters DEF UpdateLost
<1>12. ASSUME NEW w \in Worker, NEW t \in Tx, TakeCompleted(w, t) PROVE [Orders!Next]_Phase
  BY <1>12, TakeRefines DEF TakeCompleted
<1>13. ASSUME NEW w \in Worker, NEW t \in Tx, ConfirmFree(w, t) PROVE [Orders!Next]_Phase
  BY <1>13, TakeRefines DEF ConfirmFree
<1>14. ASSUME NEW w \in Worker, NEW t \in Tx, StarsPaid(w, t) PROVE [Orders!Next]_Phase
  BY <1>14, TakeRefines DEF StarsPaid
<1>15. ASSUME NEW t \in Tx, TakeCanceled(t) PROVE [Orders!Next]_Phase
  BY <1>15, CancelTransitionRefines DEF TakeCanceled
<1>16. ASSUME NEW t \in Tx, StarsOwnerRefunded(t) PROVE [Orders!Next]_Phase
  <2>1. CASE UNCHANGED status
    BY <1>16, <2>1, FrameStutters DEF StarsOwnerRefunded
  <2>2. CASE transition_status(t, "CANCELED", {"PENDING"})
    BY <1>16, <2>2, CancelTransitionRefines DEF StarsOwnerRefunded
  <2>. QED
    BY <1>16, <2>1, <2>2 DEF StarsOwnerRefunded
<1>17. ASSUME NEW t \in Tx, TakeRefunded(t) PROVE [Orders!Next]_Phase
  <2>1. ASSUME NEW r \in Tx PROVE Phase'[r] = Phase[r]
    BY <1>17 DEF TakeRefunded, transition_status, Phase, Claimable, IInv, TypeOK
  <2>. QED
    BY <2>1, PhaseStutter
<1>18. ASSUME NEW w \in Worker, ConfirmTest(w) PROVE [Orders!Next]_Phase
  <2>1. Orders!End(at[w]) /\ at[w] \in Tx
    BY <1>18, EndStepRefines, ConstantsAssumption DEF ConfirmTest, Finish
  <2>. QED
    BY <2>1
<1>19. ASSUME NEW w \in Worker, Purchased(w) PROVE [Orders!Next]_Phase
  <2> USE DEF IInv, TypeOK, ClaimInv, Busy, Closed, Claimable, Delivering
  <2>1. at[w] \in Tx /\ status[at[w]] \in Closed /\ ~(grants[at[w]] > 0) /\ Held(at[w])
    BY <1>19 DEF Purchased, Held
  <2>2. Phase[at[w]] = "claimed"
    BY <2>1, PhaseValue
  <2>3. Phase'[at[w]] = "delivered"
    BY <1>19, <2>1 DEF Purchased, Phase
  <2>4. ASSUME NEW r \in Tx \ {at[w]} PROVE Phase'[r] = Phase[r]
    <3>1. Held(r)' <=> Held(r)
      BY <1>19 DEF Purchased, Held
    <3>. QED
      BY <1>19, <3>1, PhaseStays DEF Purchased
  <2>. QED
    BY <2>1, <2>2, <2>3, <2>4, PhaseMoves
<1>20. ASSUME NEW w \in Worker, PurchaseRaises(w) PROVE [Orders!Next]_Phase
  <2>1. ASSUME NEW r \in Tx PROVE Phase'[r] = Phase[r]
    <3>1. Held(r)' <=> Held(r)
      BY <1>20 DEF PurchaseRaises, Held, Busy, IInv, TypeOK
    <3>. QED
      BY <1>20, <3>1, PhaseStays DEF PurchaseRaises
  <2>. QED
    BY <2>1, PhaseStutter
<1>21. ASSUME NEW w \in Worker, MarkFailed(w) PROVE [Orders!Next]_Phase
  <2> USE ConstantsAssumption DEF IInv, TypeOK, ClaimInv, Busy, Closed, Claimable, Delivering
  <2>1. at[w] \in Tx /\ status[at[w]] \in Closed /\ ~(grants[at[w]] > 0) /\ Held(at[w])
    BY <1>21 DEF MarkFailed, Held
  <2>2. Phase[at[w]] = "claimed"
    BY <2>1, PhaseValue
  <2>3. Phase'[at[w]] = "open"
    BY <1>21, <2>1 DEF MarkFailed, update_status, Phase
  <2>4. ASSUME NEW r \in Tx \ {at[w]} PROVE Phase'[r] = Phase[r]
    <3>1. Held(r)' <=> Held(r)
      BY <1>21 DEF MarkFailed, Finish, Held
    <3>. QED
      BY <1>21, <2>1, <3>1, PhaseStays DEF MarkFailed, update_status
  <2>. QED
    BY <2>1, <2>2, <2>3, <2>4, PhaseMoves
<1>22. ASSUME NEW w \in Worker, Reward(w) PROVE [Orders!Next]_Phase
  BY <1>22, GrantedEndStutters DEF Reward, Finish
<1>23. ASSUME NEW w \in Worker, QueryRaises(w) PROVE [Orders!Next]_Phase
  <2>1. Orders!End(at[w]) /\ at[w] \in Tx
    BY <1>23, EndStepRefines DEF QueryRaises, Finish, IInv, ClaimInv, Busy
  <2>. QED
    BY <2>1
<1>24. ASSUME NEW w \in Worker, Crash(w) PROVE [Orders!Next]_Phase
  <2>1. CASE pc[w] = "granted"
    BY <1>24, <2>1, GrantedEndStutters DEF Crash
  <2>2. CASE pc[w] \in {"claimed", "failing"}
    <3>1. Orders!End(at[w]) /\ at[w] \in Tx
      BY <1>24, <2>2, EndStepRefines DEF Crash, IInv, ClaimInv, Busy
    <3>. QED
      BY <3>1
  <2>. QED
    BY <1>24, <2>1, <2>2 DEF Crash, IInv, TypeOK, Delivering
<1>25. CASE CancelOldTransactions
  <2> DEFINE S == {t \in Tx : status[t] = "PENDING" /\ age[t] = 2}
  <2>1. status' = [t \in Tx |-> IF t \in S THEN "CANCELED" ELSE status[t]]
    BY <1>25 DEF CancelOldTransactions
  <2>2. Orders!Close(S)
    BY <1>25, <2>1, CancelStepRefines DEF CancelOldTransactions
  <2>. QED
    BY <2>2
<1>26. ASSUME NEW n \in Notice, TaskRaises(n) PROVE [Orders!Next]_Phase
  BY <1>26, FrameStutters DEF TaskRaises
<1>27. ASSUME NEW t \in Tx, NEW r \in Tx, FreeReuse(t, r) PROVE [Orders!Next]_Phase
  BY <1>27, FrameStutters DEF FreeReuse
<1>28. CASE UNCHANGED vars
  BY <1>28, FrameStutters
<1>. QED
  BY <1>1, <1>2, <1>3, <1>4, <1>5, <1>6, <1>7, <1>8, <1>9, <1>10, <1>11, <1>12, <1>13, <1>14, <1>15, <1>16, <1>17, <1>18, <1>19, <1>20, <1>21, <1>22, <1>23, <1>24, <1>25, <1>26, <1>27, <1>28
  DEF Next, Create, Gateway, Notified, Take, Apply, Deliver, Disrupt

\* The code implements exclusive claims and single deliveries.
THEOREM Refinement == Spec => ImplementsDelivery
<1>1. Init => Orders!Init
  <2>1. ASSUME Init, NEW t \in Tx PROVE Phase[t] = "none"
    BY <2>1, PhaseValue DEF Init
  <2>2. Phase = [t \in Tx |-> Phase[t]]
    BY DEF Phase
  <2>. QED
    BY <2>1, <2>2 DEF Orders!Init
<1>2. IInv /\ [Next]_vars => [Orders!Next]_Phase
  BY RefinementStep
<1>. QED
  BY Invariance, <1>1, <1>2, PTL DEF Spec, ImplementsDelivery, Orders!Spec
=============================================================================
