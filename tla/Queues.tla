------------------------------- MODULE Queues -------------------------------
(***************************************************************************)
(* Notifications of one process: events published to the event bus are     *)
(* handled in background tasks, what goes to the administrators is put     *)
(* into a queue, a worker takes the queue in batches, and at shutdown the  *)
(* bus gathers its tasks and the queue is drained, while the worker and    *)
(* whoever else publishes go on.                                           *)
(*                                                                         *)
(* A handler that raises publishes an error event, and a route that        *)
(* refuses a message publishes a notice of it.                             *)
(***************************************************************************)
EXTENDS Naturals, Sequences

CONSTANTS
  MaxEvents,   \* bound of all events, those the handlers publish included
  MaxOutside   \* bound of the events that come from outside

ConstantsAssumption == MaxEvents \in Nat /\ MaxOutside \in 1 .. MaxEvents

VARIABLES
  kind,       \* of each event published, in order
  outside,    \* events that came from outside
  fault,      \* what is out of order for good: the service, the route
  routed,     \* whether a route is configured
  tasks,      \* background tasks of the bus: an event and its handler
  queue, batch, drain,   \* notifications: waiting, with the worker, with the shutdown
  phase,      \* of the process
  gathered,   \* tasks the shutdown waits for
  sent, late  \* history: see TypeOK

vars == <<kind, outside, fault, routed, tasks, queue, batch, drain, phase, gathered,
          sent, late>>

Event == 1 .. MaxEvents
Handler == {"system", "error", "notice"}
Phase == {"run", "announced", "gathering", "draining", "drained", "closed"}

\* Every variable keeps its type.
TypeOK ==
  /\ kind \in Seq({"system", "error", "notice"}) /\ Len(kind) <= MaxEvents
  /\ outside \in 0 .. MaxOutside
  /\ fault \in [service : BOOLEAN, route : BOOLEAN] /\ routed \in BOOLEAN
  /\ tasks \subseteq Event \X Handler
  /\ queue \in Seq(Event) /\ batch \in Seq(Event) /\ drain \in Seq(Event)
  /\ phase \in Phase /\ gathered \subseteq Event \X Handler
  /\ sent \in [Event -> 0 .. 2] \* how often each event's notification was sent
  /\ late \subseteq Event       \* published when the tasks were already gathered

Init ==
  /\ kind = <<>> /\ outside = 0
  /\ fault \in [service : BOOLEAN, route : BOOLEAN] /\ routed \in BOOLEAN
  /\ tasks = {} /\ queue = <<>> /\ batch = <<>> /\ drain = <<>>
  /\ phase = "run" /\ gathered = {}
  /\ sent = [e \in Event |-> 0] /\ late = {}

-----------------------------------------------------------------------------
\* publish: one task for every handler.  on_system_event is subscribed to notices too.
Handlers(k) == IF k = "notice" THEN {"notice", "system"} ELSE {k}
Gathered == phase \notin {"run", "announced"}

Publish(k, rest) ==
  LET e == Len(kind) + 1 IN
  /\ e <= MaxEvents
  /\ kind' = Append(kind, k)
  /\ tasks' = rest \cup ({e} \X Handlers(k))
  /\ late' = IF Gathered THEN late \cup {e} ELSE late

\* A request or a task of the broker publishes, or fails.
Happen(k) ==
  /\ phase # "closed" /\ outside < MaxOutside
  /\ outside' = outside + 1
  /\ Publish(k, tasks)
  /\ UNCHANGED <<fault, routed, queue, batch, drain, phase, gathered, sent>>

Done(t) == tasks' = tasks \ {t} /\ UNCHANGED <<kind, late>>
Rest == <<outside, fault, routed, batch, drain, phase, gathered, sent>>

\* _handle_event, when the handler or the container raises: no error about an error.
HandlerRaises(t) ==
  /\ phase # "closed" /\ t \in tasks /\ fault.service
  /\ IF kind[t[1]] = "error" THEN Done(t) ELSE Publish("error", tasks \ {t})
  /\ UNCHANGED <<Rest, queue>>

\* on_system_event of a notice, or of a type that is disabled.
HandleSkips(t) ==
  /\ phase # "closed" /\ t \in tasks /\ ~fault.service
  /\ t[2] = "system"
  /\ Done(t)
  /\ UNCHANGED <<Rest, queue>>

\* notify_system over a route, which may refuse.
HandleRoutes(t) ==
  /\ phase # "closed" /\ t \in tasks /\ ~fault.service
  /\ routed /\ t[2] # "notice" /\ kind[t[1]] # "notice"
  /\ IF fault.route THEN Publish("notice", tasks \ {t}) ELSE Done(t)
  /\ UNCHANGED <<Rest, queue>>

\* notify_admins: without a route, and always for a notice.
HandleEnqueues(t) ==
  /\ phase # "closed" /\ t \in tasks /\ ~fault.service
  /\ t[2] = "notice" \/ (~routed /\ kind[t[1]] # "notice")
  /\ queue' = Append(queue, t[1])
  /\ Done(t)
  /\ UNCHANGED Rest

-----------------------------------------------------------------------------
\* Mutant: it waits for a second notification.
Take_pair ==
  /\ phase # "closed" /\ batch = <<>> /\ Len(queue) > 1
  /\ batch' = queue /\ queue' = <<>>
  /\ UNCHANGED <<kind, outside, fault, routed, tasks, drain, phase, gathered, sent, late>>

\* The worker takes the whole queue ...
Take ==
  /\ phase # "closed" /\ batch = <<>> /\ queue # <<>>
  /\ batch' = queue /\ queue' = <<>>
  /\ UNCHANGED <<kind, outside, fault, routed, tasks, drain, phase, gathered, sent, late>>

Send(e) == sent' = [sent EXCEPT ![e] = @ + 1]

\* ... and sends one after the other, whatever one of them raises.
SendNext ==
  /\ phase # "closed" /\ batch # <<>>
  /\ Send(Head(batch))
  /\ batch' = Tail(batch)
  /\ UNCHANGED <<kind, outside, fault, routed, tasks, queue, drain, phase, gathered, late>>

-----------------------------------------------------------------------------
\* The end of lifespan: the last event is published ...
Announce ==
  /\ phase = "run" /\ Len(kind) < MaxEvents
  /\ phase' = "announced"
  /\ Publish("system", tasks)
  /\ UNCHANGED <<outside, fault, routed, queue, batch, drain, gathered, sent>>

\* ... the tasks there are then are gathered ...
Gather ==
  /\ phase = "announced"
  /\ phase' = "gathering" /\ gathered' = tasks
  /\ UNCHANGED <<kind, outside, fault, routed, tasks, queue, batch, drain, sent, late>>

Step(next) ==
  /\ phase' = next
  /\ UNCHANGED <<kind, outside, fault, routed, tasks, batch, gathered, late>>

\* Mutant: the queue is drained while they run.
DrainQueue_early ==
  /\ phase = "gathering"
  /\ drain' = queue /\ queue' = <<>>
  /\ Step("draining") /\ UNCHANGED sent

\* ... the queue is drained when they are over ...
DrainQueue ==
  /\ phase = "gathering" /\ gathered \cap tasks = {}
  /\ drain' = queue /\ queue' = <<>>
  /\ Step("draining") /\ UNCHANGED sent

DrainNext ==
  /\ phase = "draining" /\ drain # <<>>
  /\ Send(Head(drain)) /\ drain' = Tail(drain)
  /\ Step("draining") /\ UNCHANGED queue

Drained ==
  /\ phase = "draining" /\ drain = <<>>
  /\ Step("drained") /\ UNCHANGED <<queue, drain, sent>>

\* ... and the container is closed: nothing can be handled or sent any more.
Close ==
  /\ phase = "drained"
  /\ Step("closed") /\ UNCHANGED <<queue, drain, sent>>

Handle(t) == HandlerRaises(t) \/ HandleSkips(t) \/ HandleRoutes(t) \/ HandleEnqueues(t)

Next ==
  \/ \E k \in {"system", "error"} : Happen(k)
  \/ \E t \in tasks : Handle(t)
  \/ Take \/ SendNext
  \/ Announce \/ Gather \/ DrainQueue \/ DrainNext \/ Drained \/ Close

Spec == Init /\ [][Next]_vars

\* The event loop runs every task that can go on; whether the process is ever asked to
\* stop is left open.
Fairness ==
  /\ \A e \in Event, h \in Handler : WF_vars(<<e, h>> \in tasks /\ Handle(<<e, h>>))
  /\ WF_vars(Take) /\ WF_vars(SendNext)
  /\ WF_vars(Gather) /\ WF_vars(DrainQueue) /\ WF_vars(DrainNext)
  /\ WF_vars(Drained) /\ WF_vars(Close)

FairSpec == Spec /\ Fairness

-----------------------------------------------------------------------------
\* Worker and drain never send the same notification.
SentOnce == \A e \in Event : sent[e] <= 1

InQueue(e, q) == \E i \in DOMAIN q : q[i] = e

\* What was published before the tasks were gathered is handled before the container
\* closes, and its notification sent unless the worker had taken it out of the queue.
OnlyBatchIsLost ==
  phase = "closed" =>
    /\ \A t \in tasks : t[1] \in late
    /\ \A e \in Event : InQueue(e, queue) \/ InQueue(e, drain) => e \in late

\* Errors about errors and notices about routes that refuse come to an end.
CascadeEnds == <>[](tasks = {} \/ phase = "closed")

\* While the process runs, what is queued is sent.
QueuedIsSent == \A e \in Event : InQueue(e, queue) ~> sent[e] > 0 \/ phase = "closed"
=============================================================================
