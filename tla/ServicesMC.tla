----------------------------- MODULE ServicesMC -----------------------------
(***************************************************************************)
(* What Redis and the broker keep, for TLC: the sessions of the web API    *)
(* ("tokens"), a broadcast sent by a task that may be delivered again      *)
(* ("send"), one that is deleted after or while it is sent ("remove"), and *)
(* the notifications with the event bus ("queues").  They share no state:  *)
(* a behaviour moves one of them (part), the others rest as they began.    *)
(***************************************************************************)
EXTENDS Sessions, TLC

CONSTANTS
  Chat, WebOnly, BatchSize,  \* of Broadcast, Chat being its User
  MaxEvents, MaxOutside      \* of Queues

VARIABLES
  part,
  broadcast, message, chat, sent, audience, starter, canceler, send, removal,
  late, mixed, answers,
  kind, outside, fault, routed, tasks, queue, batch, drain, phase, gathered,
  notified, tardy

Sending == INSTANCE Broadcast WITH
  User <- Chat, Deliveries <- 2, Removals <- 0,
  Faults <- {"audience", "stop", "database"}

Removing == INSTANCE Broadcast WITH
  User <- Chat, Deliveries <- 1, Removals <- 1,
  Faults <- {"cancel", "refused", "unanswered", "stop", "clear", "undispatched", "database"}

Queued == INSTANCE Queues WITH sent <- notified, late <- tardy

ASSUME ServicesAssumption ==
  /\ ConstantsAssumption /\ Queued!ConstantsAssumption
  /\ Sending!ConstantsAssumption /\ Removing!ConstantsAssumption

broadcasts == <<broadcast, message, chat, sent, audience, starter, canceler, send,
                removal, late, mixed, answers>>
queues == <<kind, outside, fault, routed, tasks, queue, batch, drain, phase, gathered,
            notified, tardy>>

TokenMove  == part = "tokens" /\ UNCHANGED <<part, broadcasts, queues>>
SendMove   == part = "send" /\ UNCHANGED <<part, vars, queues>>
RemoveMove == part = "remove" /\ UNCHANGED <<part, vars, queues>>
QueueMove  == part = "queues" /\ UNCHANGED <<part, vars, broadcasts>>

ServicesInit ==
  /\ part \in {"tokens", "send", "remove", "queues"}
  /\ IF part = "remove" THEN Removing!Init ELSE Sending!Init
  /\ Init /\ Queued!Init
  /\ part # "tokens" => blocked = {}
  /\ part \in {"queues", "tokens"} => audience = {}
  /\ part # "queues" => routed /\ ~fault.service /\ ~fault.route

TokensNext ==
  \/ \E c \in Call :
       \/ \E u \in User : \/ TokenMove /\ Login(c, u)
                          \/ TokenMove /\ VerifyPassword(c, u)
       \/ \E t \in Call : TokenMove /\ TakeToken(c, t)
       \/ TokenMove /\ ForgetToken(c)
       \/ TokenMove /\ CommitPassword(c)
       \/ TokenMove /\ ListTokens(c)
       \/ TokenMove /\ DropTokens(c)
       \/ TokenMove /\ DropSet(c)
       \/ TokenMove /\ StoreToken(c)
       \/ TokenMove /\ EnterToken(c)
       \/ TokenMove /\ Stop(c)
  \/ \E u \in User : TokenMove /\ ToggleBlocked(u)

SendNext ==
  \/ SendMove /\ Sending!Start
  \/ SendMove /\ Sending!Dispatch
  \* The audience read first is any; a change matters until it is read again.
  \/ \E u \in Chat : SendMove /\ send[2].step = "queued" /\ Sending!AudienceChanges(u)
  \/ \E d \in Sending!Delivery : \/ SendMove /\ Sending!ReadUsers(d)
                                 \/ SendMove /\ Sending!Initialize(d)
                                 \/ SendMove /\ Sending!NextBatch(d)
                                 \/ SendMove /\ Sending!Record(d)
                                 \/ SendMove /\ Sending!Finish(d)
                                 \/ \E u \in Chat : SendMove /\ Sending!Send(d, u)
                                 \/ SendMove /\ Sending!Raise(d)
                                 \/ SendMove /\ Sending!StopSend(d)
                                 \/ SendMove /\ Sending!Redeliver(d)

RemoveNext ==
  \/ RemoveMove /\ Removing!Start
  \/ RemoveMove /\ Removing!Dispatch
  \/ RemoveMove /\ Removing!CancelReads
  \/ RemoveMove /\ Removing!CancelWrites
  \/ RemoveMove /\ Removing!ClearOld
  \/ RemoveMove /\ Removing!ReadUsers(1)
  \/ RemoveMove /\ Removing!Initialize(1)
  \/ RemoveMove /\ Removing!NextBatch(1)
  \/ RemoveMove /\ Removing!Record(1)
  \/ RemoveMove /\ Removing!Finish(1)
  \/ \E u \in Chat : RemoveMove /\ Removing!Send(1, u)
  \/ \E k \in Removing!Removal : \/ RemoveMove /\ Removing!Delete(k)
                                 \/ RemoveMove /\ Removing!RemoveBatch(k)
                                 \/ RemoveMove /\ Removing!RecordRemoval(k)
                                 \/ RemoveMove /\ Removing!FinishRemoval(k)
                                 \/ RemoveMove /\ Removing!RaiseRemoval(k)
                                 \/ RemoveMove /\ Removing!StopRemoval(k)
                                 \/ RemoveMove /\ Removing!RedeliverRemoval(k)

QueueNext ==
  \/ \E k \in {"system", "error"} : QueueMove /\ Queued!Happen(k)
  \/ \E t \in tasks : \/ QueueMove /\ Queued!HandlerRaises(t)
                      \/ QueueMove /\ Queued!HandleSkips(t)
                      \/ QueueMove /\ Queued!HandleRoutes(t)
                      \/ QueueMove /\ Queued!HandleEnqueues(t)
  \/ QueueMove /\ Queued!Take
  \/ QueueMove /\ Queued!SendNext
  \/ QueueMove /\ Queued!Announce
  \/ QueueMove /\ Queued!Gather
  \/ QueueMove /\ Queued!DrainQueue
  \/ QueueMove /\ Queued!DrainNext
  \/ QueueMove /\ Queued!Drained
  \/ QueueMove /\ Queued!Close

ServicesNext == TokensNext \/ SendNext \/ RemoveNext \/ QueueNext

\* The fairness of Broadcast and of Queues, each for its own part.
Fairness ==
  LET all == <<part, vars, broadcasts, queues>> IN
  /\ WF_all(SendMove /\ Sending!Dispatch)
  /\ \A d \in Sending!Delivery : WF_all(SendMove /\ Sending!SendStep(d))
  /\ WF_all(SendMove /\ send[1].step = "stopped" /\ Sending!Redeliver(2))
  /\ \A e \in Queued!Event, h \in Queued!Handler :
       WF_all(QueueMove /\ <<e, h>> \in tasks /\ Queued!Handle(<<e, h>>))
  /\ WF_all(QueueMove /\ Queued!Take) /\ WF_all(QueueMove /\ Queued!SendNext)
  /\ WF_all(QueueMove /\ Queued!Gather) /\ WF_all(QueueMove /\ Queued!DrainQueue)
  /\ WF_all(QueueMove /\ Queued!DrainNext)
  /\ WF_all(QueueMove /\ Queued!Drained) /\ WF_all(QueueMove /\ Queued!Close)

ServicesSpec ==
  ServicesInit /\ [][ServicesNext]_<<part, vars, broadcasts, queues>> /\ Fairness

-----------------------------------------------------------------------------
(* What TLC checks of the other parts, as each states it. *)

\* A chat gets the message once for each delivery of the task, and once a cancel is
\* committed only what is left of a batch is sent.  A row that says DELETED is true of the
\* chat; while nothing stopped, a message in a chat has a row to delete it by, and the
\* counters match the recipients (tasks/broadcast.py, messages.py).
RowsAreTrue ==
  /\ part = "send" => Sending!OncePerDelivery
  /\ part = "remove" =>
       /\ Removing!OncePerDelivery /\ Removing!CancelStops
       /\ Removing!DeletedIsGone /\ Removing!MessagesAreKnown /\ Removing!CountsAgree

\* Only what the worker had taken, or what came too late, is lost at a shutdown.
OnlyBatchIsLost == Queued!OnlyBatchIsLost

\* A broadcast does not stay PROCESSING, unless a delivery could not write ERROR either
\* (lifecycle.py, tasks/broadcast.py).
Ends ==
  (part = "send" /\ broadcast.status = "PROCESSING")
    ~> broadcast.status # "PROCESSING" \/ (part = "send" /\ Sending!Failed)

\* While the process runs, what is queued is sent, and errors about errors come to an
\* end (notification_queue.py, event_bus.py).
QueuedIsSent == Queued!QueuedIsSent /\ Queued!CascadeEnds
=============================================================================
