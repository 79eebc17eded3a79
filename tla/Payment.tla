------------------------------ MODULE Payment ------------------------------
(***************************************************************************)
(* The life of a payment transaction: CreatePayment opens an invoice at a  *)
(* gateway and inserts the transactions row, the gateway's webhook puts a  *)
(* task on the Redis stream, a worker runs ProcessPayment, and a cron      *)
(* cancels what stays pending.                                             *)
(*                                                                         *)
(* A worker's run is cut where the code commits or awaits: the status      *)
(* transition commits first, the purchase commits in a unit of work of its *)
(* own, and a purchase that raises is recorded by a third one.             *)
(***************************************************************************)
EXTENDS Naturals, FiniteSets

CONSTANTS
  Tx,        \* transactions (payment_id)
  Worker,    \* concurrent executions of ProcessPayment
  User,      \* users
  UserOf,    \* the user a transaction belongs to
  OfferOf,   \* its user, gateway, plan and duration, as one value
  Free,      \* transactions whose final amount is zero
  Test,      \* transactions made by CreateTestPayment
  Stars,     \* transactions of the Telegram Stars gateway
  Owners,    \* users with the owner role
  Faults,    \* which faults may occur
  None       \* no transaction

FaultKind == {"crash", "db", "purchase", "webhook"}

ASSUME ConstantsAssumption ==
  /\ UserOf \in [Tx -> User]
  /\ \A s, t \in Tx : OfferOf[s] = OfferOf[t] => UserOf[s] = UserOf[t]
  /\ Free \subseteq Tx /\ Test \subseteq Tx \ Free /\ Stars \subseteq Tx \ Free
  /\ Owners \subseteq User
  /\ Faults \subseteq FaultKind
  /\ None \notin Tx

VARIABLES
  status,    \* transactions.status; "absent" while there is no row
  age,       \* created_at: 0 below 15 minutes, 1 below 30, 2 older
  creating,  \* CreatePayment calls past their lookup or invoice, not committed
  offered,   \* transactions returned to a caller whose price is zero
  invoice,   \* the gateway's view of the payment
  notices,   \* webhooks and Telegram updates the gateway has yet to deliver
  tasks,     \* payment tasks on the stream that are not acknowledged
  pc, at, queued,   \* each worker: where it is, its transaction, task or direct call
  grants,    \* purchases committed for the transaction
  rewards    \* referral rewards assigned for the transaction

calls   == <<creating, offered>>
db      == <<status, age, creating, offered>>
gateway == <<invoice, notices>>
worker  == <<pc, at, queued>>
effects == <<grants, rewards>>
vars    == <<status, age, creating, offered, invoice, notices, tasks, pc, at, queued,
             grants, rewards>>

TransactionStatus == {"PENDING", "COMPLETED", "CANCELED", "REFUNDED", "FAILED"}
Outcome == {"COMPLETED", "CANCELED", "REFUNDED"}
Notice  == [tx : Tx, goal : Outcome]
Note(t, goal) == [tx |-> t, goal |-> goal]

\* A worker past the committed COMPLETED transition owns the delivery.
Delivering == {"claimed", "failing", "granted"}

\* Every variable keeps its type.
TypeOK ==
  /\ status \in [Tx -> TransactionStatus \cup {"absent"}]
  /\ age \in [Tx -> 0..2]
  /\ creating \subseteq Tx
  /\ offered \subseteq Tx
  /\ invoice \in [Tx -> {"none", "open", "void", "paid", "refunded"}]
  /\ notices \subseteq Notice
  /\ tasks \subseteq Notice
  /\ pc \in [Worker -> Delivering \cup {"idle"}]
  /\ at \in [Worker -> Tx \cup {None}]
  /\ queued \in [Worker -> BOOLEAN]
  /\ grants \in [Tx -> Nat]
  /\ rewards \in [Tx -> Nat]

Init ==
  /\ status = [t \in Tx |-> "absent"]
  /\ age = [t \in Tx |-> 0]
  /\ creating = {}
  /\ offered = {}
  /\ invoice = [t \in Tx |-> "none"]
  /\ notices = {}
  /\ tasks = {}
  /\ pc = [w \in Worker |-> "idle"]
  /\ at = [w \in Worker |-> None]
  /\ queued = [w \in Worker |-> FALSE]
  /\ grants = [t \in Tx |-> 0]
  /\ rewards = [t \in Tx |-> 0]

-----------------------------------------------------------------------------
(* TransactionDao: every status write is one UPDATE statement. *)

\* Mutant: the WHERE on the status is dropped.
transition_status_any(t, new, allowed) == status' = [status EXCEPT ![t] = new]

\* UPDATE .. WHERE status IN (allowed): matches the row or changes nothing.
transition_status(t, new, allowed) ==
  status' = IF status[t] \in allowed THEN [status EXCEPT ![t] = new] ELSE status

\* Mutants: the unit of work is never committed; a status outside the enum.
update_status_uncommitted(t, new) == UNCHANGED status
update_status_unknown(t, new) == status' = [status EXCEPT ![t] = "ERROR"]

\* UPDATE .. WHERE payment_id: unconditional.
update_status(t, new) == status' = [status EXCEPT ![t] = new]

\* The rows a free payment may reuse: pending, younger than 15 minutes, for the
\* same user, gateway, plan and duration, whatever their amount.
get_recent_pending(offer) ==
  {t \in Tx : OfferOf[t] = offer /\ status[t] = "PENDING" /\ age[t] = 0}

-----------------------------------------------------------------------------
(* CreatePayment and CreateTestPayment. *)

\* Paid: handle_create_payment opens the invoice before the row is committed.
OpenInvoice(t) ==
  /\ t \notin Free /\ invoice[t] = "none"
  /\ invoice' = [invoice EXCEPT ![t] = "open"]
  /\ creating' = creating \cup {t}
  /\ UNCHANGED <<status, age, offered, notices, tasks, worker, effects>>

\* Free: no recent pending row to reuse, so a new one is about to be inserted.
FreeLookup(t) ==
  /\ t \in Free /\ status[t] = "absent" /\ t \notin creating
  /\ get_recent_pending(OfferOf[t]) = {}
  /\ creating' = creating \cup {t}
  /\ UNCHANGED <<status, age, offered, gateway, tasks, worker, effects>>

\* Free: the caller is handed a recent pending row.
FreeReuse(t, r) ==
  /\ t \in Free /\ r \in get_recent_pending(OfferOf[t])
  /\ offered' = offered \cup {r}
  /\ UNCHANGED <<status, age, creating, gateway, tasks, worker, effects>>

\* The row is inserted and committed; only then does the caller get the link.
CommitPayment(t) ==
  /\ t \in creating
  /\ creating' = creating \ {t}
  /\ status' = [status EXCEPT ![t] = "PENDING"]
  /\ offered' = IF t \in Free THEN offered \cup {t} ELSE offered
  /\ UNCHANGED <<age, gateway, tasks, worker, effects>>

\* The process dies or the insert raises: an invoice may stay without a row.
CreateFails(t) ==
  /\ "db" \in Faults /\ t \in creating
  /\ creating' = creating \ {t}
  /\ UNCHANGED <<status, age, offered, gateway, tasks, worker, effects>>

\* The payment link reaches the user with the result of CreatePayment.
LinkShown(t) == status[t] # "absent"

-----------------------------------------------------------------------------
(* The gateway (external) and time. *)

GatewayPaid(t) ==
  /\ invoice[t] = "open" /\ LinkShown(t)
  /\ invoice' = [invoice EXCEPT ![t] = "paid"]
  /\ notices' = notices \cup {Note(t, "COMPLETED")}
  /\ UNCHANGED <<db, tasks, worker, effects>>

\* A declined attempt leaves the invoice payable; an expired one does not.
GatewayCanceled(t) ==
  /\ invoice[t] = "open" /\ LinkShown(t) /\ t \notin Stars
  /\ \E now \in {"open", "void"} : invoice' = [invoice EXCEPT ![t] = now]
  /\ notices' = notices \cup {Note(t, "CANCELED")}
  /\ UNCHANGED <<db, tasks, worker, effects>>

GatewayRefunded(t) ==
  /\ invoice[t] = "paid" /\ t \notin Stars
  /\ invoice' = [invoice EXCEPT ![t] = "refunded"]
  /\ notices' = notices \cup {Note(t, "REFUNDED")}
  /\ UNCHANGED <<db, tasks, worker, effects>>

Tick(t) ==
  /\ status[t] # "absent" /\ age[t] < 2
  /\ age' = [age EXCEPT ![t] = @ + 1]
  /\ UNCHANGED <<status, calls, gateway, tasks, worker, effects>>

-----------------------------------------------------------------------------
(* The webhook endpoint.  A notice answered with an error, or whose answer *)
(* is lost, is sent again; an enqueued task is delivered at least once.    *)

\* The sender drops what it sees answered with 200 and keeps the rest.
Answer(n) == \E seen \in BOOLEAN : notices' = IF seen THEN notices \ {n} ELSE notices

\* Mutant: every notice of a payment is taken for a success.
Webhook_trusting(n) ==
  /\ n \in notices /\ n.tx \notin Stars
  /\ tasks' = tasks \cup {Note(n.tx, "COMPLETED")}
  /\ Answer(n)
  /\ UNCHANGED <<db, invoice, worker, effects>>

Webhook(n) ==
  /\ n \in notices /\ n.tx \notin Stars
  /\ tasks' = tasks \cup {n}
  /\ Answer(n)
  /\ UNCHANGED <<db, invoice, worker, effects>>

\* handle_webhook raised: the endpoint still answers 200 and nothing is queued.
WebhookRaises(n) ==
  /\ "webhook" \in Faults
  /\ n \in notices /\ n.tx \notin Stars
  /\ notices' = notices \ {n}
  /\ UNCHANGED <<db, invoice, tasks, worker, effects>>

\* Telegram gets its 200 before the update is handled: a stop, or a handler
\* that raises before its first commit, loses the update.
UpdateLost(n) ==
  /\ Faults \cap {"crash", "db"} # {}
  /\ n \in notices /\ n.tx \in Stars
  /\ notices' = notices \ {n}
  /\ UNCHANGED <<db, invoice, tasks, worker, effects>>

-----------------------------------------------------------------------------
(* ProcessPayment. *)

Start(w, t, viaTask) ==
  /\ pc' = [pc EXCEPT ![w] = "claimed"]
  /\ at' = [at EXCEPT ![w] = t]
  /\ queued' = [queued EXCEPT ![w] = viaTask]

\* The run ends, normally or by raising: its task, if any, is acknowledged.
Finish(w) ==
  /\ pc' = [pc EXCEPT ![w] = "idle"]
  /\ at' = [at EXCEPT ![w] = None]
  /\ queued' = [queued EXCEPT ![w] = FALSE]
  /\ tasks' = IF queued[w] THEN tasks \ {Note(at[w], "COMPLETED")} ELSE tasks

\* Mutant: a redelivered task takes a payment that is already completed.
Claimable_again == {"PENDING", "FAILED", "COMPLETED"}

Claimable == {"PENDING", "FAILED"}

\* COMPLETED from the stream.  A transition that matches commits and the run
\* goes on with the delivery; one that does not ends it.
TakeCompleted(w, t) ==
  /\ pc[w] = "idle" /\ Note(t, "COMPLETED") \in tasks
  /\ transition_status(t, "COMPLETED", Claimable)
  /\ IF status[t] \in Claimable
       THEN Start(w, t, TRUE) /\ UNCHANGED tasks
       ELSE tasks' = tasks \ {Note(t, "COMPLETED")} /\ UNCHANGED worker
  /\ UNCHANGED <<age, calls, gateway, effects>>

\* COMPLETED called directly: on_get_subscription and the web endpoints for a
\* price of zero, with the row the caller got from CreatePayment.
ConfirmFree(w, t) ==
  /\ pc[w] = "idle" /\ t \in offered
  /\ status[t] \in Claimable
  /\ transition_status(t, "COMPLETED", Claimable)
  /\ Start(w, t, FALSE)
  /\ UNCHANGED <<age, calls, gateway, tasks, effects>>

\* on_successful_payment of a user who is not the owner.
StarsPaid(w, t) ==
  /\ pc[w] = "idle" /\ t \in Stars /\ UserOf[t] \notin Owners
  /\ Note(t, "COMPLETED") \in notices
  /\ Answer(Note(t, "COMPLETED"))
  /\ transition_status(t, "COMPLETED", Claimable)
  /\ IF status[t] \in Claimable THEN Start(w, t, FALSE) ELSE UNCHANGED worker
  /\ UNCHANGED <<age, calls, invoice, tasks, effects>>

\* The owner's payment is refunded at once and its transaction canceled, unless
\* the process stops in between; a second refund of the same charge raises.
StarsOwnerRefunded(t) ==
  /\ t \in Stars /\ UserOf[t] \in Owners
  /\ Note(t, "COMPLETED") \in notices
  /\ Answer(Note(t, "COMPLETED"))
  /\ invoice' = [invoice EXCEPT ![t] = "refunded"]
  /\ \/ invoice[t] = "paid" /\ transition_status(t, "CANCELED", {"PENDING"})
     \/ (invoice[t] = "refunded" \/ "crash" \in Faults) /\ UNCHANGED status
  /\ UNCHANGED <<age, calls, tasks, worker, effects>>

\* CANCELED and REFUNDED commit one transition; a stop before the
\* acknowledgement leaves the task on the stream.
Acknowledge(n) ==
  \/ tasks' = tasks \ {n}
  \/ "crash" \in Faults /\ UNCHANGED tasks

\* Mutant: a cancel is applied to a completed payment too.
TakeCanceled_late(t) ==
  /\ Note(t, "CANCELED") \in tasks
  /\ transition_status(t, "CANCELED", {"PENDING", "COMPLETED"})
  /\ Acknowledge(Note(t, "CANCELED"))
  /\ UNCHANGED <<age, calls, gateway, worker, effects>>

TakeCanceled(t) ==
  /\ Note(t, "CANCELED") \in tasks
  /\ transition_status(t, "CANCELED", {"PENDING"})
  /\ Acknowledge(Note(t, "CANCELED"))
  /\ UNCHANGED <<age, calls, gateway, worker, effects>>

TakeRefunded(t) ==
  /\ Note(t, "REFUNDED") \in tasks
  /\ transition_status(t, "REFUNDED", {"COMPLETED"})
  /\ Acknowledge(Note(t, "REFUNDED"))
  /\ UNCHANGED <<age, calls, gateway, worker, effects>>

\* The first unit of work raises and rolls back: the task is acknowledged all
\* the same, and only a notice sent again brings it back.
TaskRaises(n) ==
  /\ "db" \in Faults
  /\ n \in tasks
  /\ tasks' = tasks \ {n}
  /\ UNCHANGED <<db, gateway, worker, effects>>

-----------------------------------------------------------------------------
(* _handle_success: the delivery, one worker per claimed transaction. *)

\* A test payment is confirmed to its user and grants nothing.
ConfirmTest(w) ==
  /\ pc[w] = "claimed" /\ at[w] \in Test
  /\ Finish(w)
  /\ UNCHANGED <<db, gateway, effects>>

\* PurchaseSubscription committed its unit of work.
Purchased(w) ==
  /\ pc[w] = "claimed" /\ at[w] \notin Test
  /\ grants' = [grants EXCEPT ![at[w]] = @ + 1]
  /\ pc' = [pc EXCEPT ![w] = "granted"]
  /\ UNCHANGED <<db, gateway, tasks, at, queued, rewards>>

\* PurchaseSubscription raised and rolled back.
PurchaseRaises(w) ==
  /\ "purchase" \in Faults
  /\ pc[w] = "claimed" /\ at[w] \notin Test
  /\ pc' = [pc EXCEPT ![w] = "failing"]
  /\ UNCHANGED <<db, gateway, tasks, at, queued, effects>>

\* The failure is recorded whatever the row holds by now, then re-raised.
MarkFailed(w) ==
  /\ pc[w] = "failing"
  /\ update_status(at[w], "FAILED")
  /\ Finish(w)
  /\ UNCHANGED <<age, calls, gateway, effects>>

\* A query outside the try, or the FAILED write itself, raises.
QueryRaises(w) ==
  /\ "db" \in Faults
  /\ pc[w] \in {"claimed", "failing"}
  /\ Finish(w)
  /\ UNCHANGED <<db, gateway, effects>>

\* Mutant: a free payment earns its referrer a reward.
Reward_free(w) ==
  /\ pc[w] = "granted"
  /\ rewards' = [rewards EXCEPT ![at[w]] = @ + 1] \/ UNCHANGED rewards
  /\ Finish(w)
  /\ UNCHANGED <<db, gateway, grants>>

\* Referral rewards are best effort and skip free payments.
Reward(w) ==
  /\ pc[w] = "granted"
  /\ \/ /\ at[w] \notin Free
        /\ rewards' = [rewards EXCEPT ![at[w]] = @ + 1]
     \/ UNCHANGED rewards
  /\ Finish(w)
  /\ UNCHANGED <<db, gateway, grants>>

\* The process stops: nothing after the last commit happened and a task taken
\* from the stream is still there.
Crash(w) ==
  /\ "crash" \in Faults
  /\ pc[w] # "idle"
  /\ pc' = [pc EXCEPT ![w] = "idle"]
  /\ at' = [at EXCEPT ![w] = None]
  /\ queued' = [queued EXCEPT ![w] = FALSE]
  /\ UNCHANGED <<db, gateway, tasks, effects>>

-----------------------------------------------------------------------------
(* cancel_old_transactions_task, every 30 minutes. *)

CancelOldTransactions ==
  /\ \E t \in Tx : status[t] = "PENDING" /\ age[t] = 2
  /\ status' = [t \in Tx |-> IF status[t] = "PENDING" /\ age[t] = 2
                            THEN "CANCELED" ELSE status[t]]
  /\ UNCHANGED <<age, calls, gateway, tasks, worker, effects>>

-----------------------------------------------------------------------------
Create(t) ==
  \/ OpenInvoice(t) \/ FreeLookup(t) \/ CommitPayment(t) \/ CreateFails(t)
  \/ \E r \in Tx : FreeReuse(t, r)
Gateway(t) == GatewayPaid(t) \/ GatewayCanceled(t) \/ GatewayRefunded(t)
Notified(n) == Webhook(n) \/ WebhookRaises(n) \/ UpdateLost(n) \/ TaskRaises(n)
Take(w, t) == TakeCompleted(w, t) \/ ConfirmFree(w, t) \/ StarsPaid(w, t)
Apply(t) == TakeCanceled(t) \/ TakeRefunded(t) \/ StarsOwnerRefunded(t)
Deliver(w) == ConfirmTest(w) \/ Purchased(w) \/ PurchaseRaises(w) \/ MarkFailed(w) \/ Reward(w)
Disrupt(w) == QueryRaises(w) \/ Crash(w)

Next ==
  \/ \E t \in Tx : Create(t) \/ Gateway(t) \/ Tick(t) \/ Apply(t)
  \/ \E n \in Notice : Notified(n)
  \/ \E w \in Worker, t \in Tx : Take(w, t)
  \/ \E w \in Worker : Deliver(w) \/ Disrupt(w)
  \/ CancelOldTransactions

Spec == Init /\ [][Next]_vars

\* A gateway resends until it is answered, the stream is first in first out and
\* a running worker goes on.  Users, gateways, time and the cron owe nothing.
Fairness ==
  /\ \A n \in Notice : WF_vars(Webhook(n) /\ notices' # notices)
  /\ \A t \in Tx : SF_vars(\E w \in Worker : TakeCompleted(w, t) \/ StarsPaid(w, t))
  /\ \A w \in Worker : WF_vars(Deliver(w))

FairSpec == Spec /\ Fairness

-----------------------------------------------------------------------------
(* Properties. *)

\* A transaction is purchased at most once, whatever webhooks are resent, tasks
\* redelivered and buttons pressed twice: the claim is the status UPDATE.
GrantedOnce == \A t \in Tx : grants[t] <= 1

\* Nothing is handed out unless the gateway saw the invoice paid or CreatePayment
\* returned the row for a price of zero: a canceled notice never delivers.
GrantBacked ==
  \A t \in Tx : grants[t] > 0 => invoice[t] \in {"paid", "refunded"} \/ t \in offered

\* Referral rewards follow a committed purchase, once, and never one recorded
\* with a final amount of zero.
RewardBacked ==
  \A t \in Tx : rewards[t] <= grants[t] /\ (t \in Free => rewards[t] = 0)

\* A status moves only along the edges the queries allow.  REFUNDED is left by
\* one of them: the unconditional FAILED write of a delivery that was still
\* running when the refund came, so only for a payment that granted nothing.
StatusEdge(t) ==
  LET old == status[t] new == status'[t] IN
  \/ new = old
  \/ old = "absent"    /\ new = "PENDING"
  \/ old = "PENDING"   /\ new \in {"COMPLETED", "CANCELED"}
  \/ old = "FAILED"    /\ new = "COMPLETED"
  \/ old = "COMPLETED" /\ new = "REFUNDED"
  \/ old \in {"COMPLETED", "REFUNDED"} /\ new = "FAILED" /\ grants[t] = 0

StatusEdges == [][\A t \in Tx : StatusEdge(t)]_vars

\* Without a stop or a database error no payment is left COMPLETED with nothing
\* granted and no worker on it: every other failure is recorded as FAILED.
NothingStranded ==
  \A t \in Tx \ Test : status[t] \in {"COMPLETED", "REFUNDED"} /\ grants[t] = 0
    => \E w \in Worker : pc[w] \in Delivering /\ at[w] = t

\* A paid invoice is settled: granted, recorded as FAILED, given up by a cancel
\* that came first, or refunded.
PaidIsSettled ==
  \A t \in Tx \ Test : invoice[t] = "paid" ~>
    (grants[t] = 1 \/ status[t] \in {"FAILED", "CANCELED"} \/ invoice[t] = "refunded")

-----------------------------------------------------------------------------
(* Refinement. *)

\* The order behind a transaction, read off its row and the workers.
Phase ==
  [t \in Tx |->
    CASE status[t] = "absent" -> "none"
      [] status[t] \in Claimable -> "open"
      [] status[t] = "CANCELED" -> "closed"
      [] OTHER -> IF grants[t] > 0 THEN "delivered"
                  ELSE IF \E w \in Worker : pc[w] # "idle" /\ at[w] = t THEN "claimed"
                  ELSE "ended"]

Orders == INSTANCE Delivery WITH Order <- Tx, phase <- Phase

\* Every execution of the code is one of exclusive claims and single deliveries.
ImplementsDelivery == Orders!Spec
=============================================================================
