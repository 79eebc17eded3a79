----------------------------- MODULE Broadcast ------------------------------
(***************************************************************************)
(* One broadcast: its row, the rows of its messages, the chats they are    *)
(* sent to, and the tasks that send and delete them.  The stream delivers  *)
(* the send task again when it was not acknowledged, that is after a stop  *)
(* or while a long run is still sending.                                   *)
(***************************************************************************)
EXTENDS Integers, FiniteSets

CONSTANTS
  User,       \* users with a Telegram account
  WebOnly,    \* users of the audience without one
  BatchSize,
  Deliveries, \* deliveries of the send task
  Removals,   \* deletions an administrator asks for
  Faults,     \* what may happen: see ConstantsAssumption
  None

ConstantsAssumption ==
  /\ BatchSize \in Nat \ {0} /\ Deliveries \in Nat \ {0} /\ Removals \in Nat
  /\ Faults \subseteq {"cancel", "clear", "audience", "refused", "unanswered",
                       "database", "stop", "undispatched"}
  /\ None \notin {"SENT", "FAILED", "COMPLETED", "CANCELED", "ERROR"} \cup Nat
  /\ IsFiniteSet(User) /\ IsFiniteSet(WebOnly)

VARIABLES
  broadcast,  \* the row
  message,    \* of each user: the row of his message
  chat,       \* of each user: the broadcast's messages in his chat
  sent,       \* of each user: how many were ever sent
  audience,
  starter,    \* StartBroadcast
  canceler,   \* CancelBroadcast
  send,       \* the deliveries of send_broadcast_task
  removal,    \* delete_broadcast_task
  late, mixed, answers \* history: see TypeOK

rows == <<broadcast, message>>
telegram == <<chat, sent>>
commands == <<starter, canceler>>
history == <<late, mixed, answers>>
vars == <<rows, telegram, audience, commands, send, removal, history>>

Final == {"COMPLETED", "CANCELED", "ERROR"}
MessageRow == [status : {"none", "PENDING", "SENT", "FAILED", "DELETED"}, id : Nat \cup {None}]
NoMessage == [status |-> "none", id |-> None]
Delivery == 1 .. Deliveries
Removal == 1 .. Removals
Busy == {"users", "loop", "sending", "finish"}
SendTask == [step : Busy \cup {"none", "queued", "done", "stopped", "failed"}, todo : SUBSET User,
             batch : SUBSET User, result : [User -> {"SENT", "FAILED", None}],
             status : Final \cup {None}]
RemovalTask == [step : {"none", "queued", "removed", "done", "stopped", "failed"},
                snapshot : [User -> MessageRow], todo : SUBSET User, batch : SUBSET User,
                removed : SUBSET User]

\* Every variable keeps its type.
TypeOK ==
  /\ broadcast \in [status : {"absent", "PROCESSING", "DELETED"} \cup Final,
                    total : Nat, success : Nat, failed : Nat]
  /\ message \in [User -> MessageRow]
  /\ chat \in [User -> SUBSET Nat] /\ sent \in [User -> Nat] /\ audience \subseteq User
  /\ starter \in {"new", "committed", "done"} /\ canceler \in {"new", "read", "done"}
  /\ send \in [Delivery -> SendTask] /\ removal \in [Removal -> RemovalTask]
  /\ late \in Nat           \* messages sent after the cancel was committed
  /\ mixed \in BOOLEAN      \* a deletion was asked for while a delivery was under way
  /\ answers \in SUBSET User \* users whose message Telegram took without an answer

NewTask == [step |-> "none", todo |-> {}, batch |-> {}, result |-> [u \in User |-> None],
            status |-> None]

Init ==
  /\ broadcast = [status |-> "absent", total |-> 0, success |-> 0, failed |-> 0]
  /\ message = [u \in User |-> NoMessage]
  /\ chat = [u \in User |-> {}] /\ sent = [u \in User |-> 0]
  /\ audience \in SUBSET User
  /\ starter = "new" /\ canceler = "new"
  /\ send = [d \in Delivery |-> NewTask]
  /\ removal = [k \in Removal |-> [step |-> "none", snapshot |-> message, todo |-> {},
                                   batch |-> {}, removed |-> {}]]
  /\ late = 0 /\ mixed = FALSE /\ answers = {}

Exists == broadcast.status # "absent"
\* FinishBroadcast: an UPDATE, which finds nothing once the row is cleared.
SetStatus(status) ==
  broadcast' = IF Exists THEN [broadcast EXCEPT !.status = status] ELSE broadcast

-----------------------------------------------------------------------------
\* StartBroadcast counts the audience, users without Telegram included, and commits.
Start ==
  /\ starter = "new" /\ Cardinality(audience) + Cardinality(WebOnly) > 0
  /\ broadcast' = [status |-> "PROCESSING", success |-> 0, failed |-> 0,
                   total |-> Cardinality(audience) + Cardinality(WebOnly)]
  /\ starter' = "committed"
  /\ UNCHANGED <<message, telegram, audience, canceler, send, removal, history>>

\* The task is put on the stream, unless the process stops before.
Dispatch ==
  /\ starter = "committed" /\ starter' = "done"
  /\ \/ send' = [send EXCEPT ![1].step = "queued"]
     \/ "undispatched" \in Faults /\ UNCHANGED send
  /\ UNCHANGED <<rows, telegram, audience, canceler, removal, history>>

\* CancelBroadcast reads the status ...
CancelReads ==
  /\ "cancel" \in Faults /\ canceler = "new" /\ broadcast.status = "PROCESSING"
  /\ canceler' = "read"
  /\ UNCHANGED <<rows, telegram, audience, starter, send, removal, history>>

\* ... and writes CANCELED without looking again.
CancelWrites ==
  /\ canceler = "read" /\ canceler' = "done"
  /\ SetStatus("CANCELED")
  /\ UNCHANGED <<message, telegram, audience, starter, send, removal, history>>

\* ClearOldBroadcasts, a week later: the row and its messages are deleted.
ClearOld ==
  /\ "clear" \in Faults /\ starter = "done" /\ Exists
  /\ broadcast' = [broadcast EXCEPT !.status = "absent"]
  /\ message' = [u \in User |-> NoMessage]
  /\ UNCHANGED <<telegram, audience, commands, send, removal, history>>

\* A user blocks the bot, or a subscription ends: the audience is another one.
AudienceChanges(u) ==
  /\ "audience" \in Faults
  /\ audience' = IF u \in audience THEN audience \ {u} ELSE audience \cup {u}
  /\ UNCHANGED <<rows, telegram, commands, send, removal, history>>

-----------------------------------------------------------------------------
To(d, step) == send' = [send EXCEPT ![d].step = step]
Finishes(d, status) == send' = [send EXCEPT ![d].step = "finish", ![d].status = status]

\* The users are read.
ReadUsers(d) ==
  /\ send[d].step = "queued"
  /\ IF audience = {} THEN Finishes(d, "COMPLETED")
     ELSE send' = [send EXCEPT ![d].step = "users", ![d].todo = audience]
  /\ UNCHANGED <<rows, telegram, audience, commands, removal, history>>

\* InitializeBroadcastMessages: the rows of the first delivery are kept by the next.
Initialize(d) ==
  /\ send[d].step = "users"
  /\ IF ~Exists THEN Finishes(d, "ERROR") /\ UNCHANGED rows
     ELSE /\ To(d, "loop")
          /\ IF \E u \in User : message[u] # NoMessage THEN UNCHANGED rows
             ELSE /\ message' = [u \in User |-> IF u \in send[d].todo
                       THEN [status |-> "PENDING", id |-> None] ELSE NoMessage]
                  /\ broadcast' = [broadcast EXCEPT !.total = Cardinality(send[d].todo)]
  /\ UNCHANGED <<telegram, audience, commands, removal, history>>

Batches(todo) ==
  {S \in SUBSET todo : Cardinality(S) = IF Cardinality(todo) < BatchSize
                                        THEN Cardinality(todo) ELSE BatchSize}

\* Mutant: the users of a batch stay in the queue when there are more.
NextBatch_again(d) ==
  /\ send[d].step = "loop"
  /\ IF send[d].todo = {} THEN Finishes(d, "COMPLETED")
     ELSE IF ~Exists \/ broadcast.status = "CANCELED" THEN Finishes(d, "CANCELED")
     ELSE \E batch \in Batches(send[d].todo) :
            send' = [send EXCEPT ![d].step = "sending", ![d].batch = batch,
                                 ![d].result = [u \in User |-> None],
                                 ![d].todo = IF @ = batch THEN {} ELSE @ \ {CHOOSE u \in @ : TRUE}]
  /\ UNCHANGED <<rows, telegram, audience, commands, removal, history>>

\* The cancel is looked for before every batch.
NextBatch(d) ==
  /\ send[d].step = "loop"
  /\ IF send[d].todo = {} THEN Finishes(d, "COMPLETED")
     ELSE IF ~Exists \/ broadcast.status = "CANCELED" THEN Finishes(d, "CANCELED")
     ELSE \E batch \in Batches(send[d].todo) :
            send' = [send EXCEPT ![d].step = "sending", ![d].batch = batch,
                                 ![d].result = [u \in User |-> None],
                                 ![d].todo = @ \ batch]
  /\ UNCHANGED <<rows, telegram, audience, commands, removal, history>>

\* send_one: Telegram takes the message, refuses it, or takes it and the answer is lost.
Send(d, u) ==
  /\ send[d].step = "sending" /\ u \in send[d].batch /\ send[d].result[u] = None
  /\ \E taken, answered \in BOOLEAN :
       /\ ~taken => answered
       /\ ~answered => "unanswered" \in Faults
       /\ send' = [send EXCEPT ![d].result[u] = IF taken /\ answered THEN "SENT" ELSE "FAILED"]
       /\ IF taken
          THEN /\ sent' = [sent EXCEPT ![u] = @ + 1]
               /\ chat' = [chat EXCEPT ![u] = @ \cup {sent[u] + 1}]
               /\ late' = IF broadcast.status = "CANCELED" THEN late + 1 ELSE late
          ELSE UNCHANGED <<telegram, late>>
       /\ answers' = IF answered THEN answers ELSE answers \cup {u}
  /\ UNCHANGED <<rows, audience, commands, removal, mixed>>

\* Mutant: the identifiers of the messages are not stored.
Result_unidentified(d, u) == [status |-> send[d].result[u], id |-> None]

\* The row a result leaves.
Result(d, u) ==
  IF send[d].result[u] = "SENT" THEN [status |-> "SENT", id |-> sent[u]]
  ELSE [status |-> "FAILED", id |-> None]

Ok(d) == {u \in send[d].batch : send[d].result[u] = "SENT"}

FailedCount(d) == Cardinality(send[d].batch) - Cardinality(Ok(d))

\* UpdateBroadcastMessageStatus.  A user whose row the first delivery did not make
\* raises; a row that is gone takes no update.
Record(d) ==
  LET batch == send[d].batch IN
  /\ send[d].step = "sending" /\ \A u \in batch : send[d].result[u] # None
  /\ IF Exists /\ \E u \in batch : message[u] = NoMessage
     THEN Finishes(d, "ERROR") /\ UNCHANGED rows
     ELSE /\ message' = [u \in User |-> IF u \in batch /\ message[u] # NoMessage
                                        THEN Result(d, u) ELSE message[u]]
          /\ broadcast' = IF Exists
               THEN [broadcast EXCEPT !.success = @ + Cardinality(Ok(d)),
                                      !.failed = @ + FailedCount(d)]
               ELSE broadcast
          /\ To(d, "loop")
  /\ UNCHANGED <<telegram, audience, commands, removal, history>>

\* FinishBroadcast, whatever the status has become.
Finish(d) ==
  /\ send[d].step = "finish"
  /\ SetStatus(send[d].status) /\ To(d, "done")
  /\ UNCHANGED <<message, telegram, audience, commands, removal, history>>

\* The messages of a batch are gathered, none of them raises.
Collected(d) == send[d].step = "sending" => \A u \in send[d].batch : send[d].result[u] # None

\* Mutant: an exception is only logged.
Raise_silent(d) ==
  /\ "database" \in Faults /\ send[d].step \in Busy \cup {"queued"} /\ Collected(d)
  /\ To(d, "done")
  /\ UNCHANGED <<rows, telegram, audience, commands, removal, history>>

\* A statement raises: the status is to become ERROR.  That write may raise like any
\* other, and does after a read outside a unit of work, which nothing rolls back: the
\* delivery fails, which is acknowledged like success and not retried.
Raise(d) ==
  /\ "database" \in Faults /\ send[d].step \in Busy \cup {"queued"} /\ Collected(d)
  /\ IF send[d].status = "ERROR" THEN To(d, "failed") ELSE Finishes(d, "ERROR")
  /\ UNCHANGED <<rows, telegram, audience, commands, removal, history>>

\* The worker stops.  The last delivery is spared: stops are bounded.
StopSend(d) ==
  /\ "stop" \in Faults /\ d < Deliveries /\ send[d].step \in Busy
  /\ To(d, "stopped")
  /\ UNCHANGED <<rows, telegram, audience, commands, removal, history>>

\* The stream hands an entry that was not acknowledged to a worker again.
Redeliver(d) ==
  /\ d > 1 /\ send[d].step = "none" /\ send[d - 1].step \in Busy \cup {"stopped"}
  /\ To(d, "queued")
  /\ UNCHANGED <<rows, telegram, audience, commands, removal, history>>

-----------------------------------------------------------------------------
Sending == \E d \in Delivery : send[d].step \in Busy \cup {"queued"}

\* DeleteBroadcast: the task carries the rows as they are now.
Delete(k) ==
  /\ removal[k].step = "none" /\ broadcast.status \in Final
  /\ removal' = [removal EXCEPT ![k] =
       [step |-> "queued", snapshot |-> message, batch |-> {}, removed |-> {},
        todo |-> {u \in User : message[u] # NoMessage}]]
  /\ mixed' = (mixed \/ Sending)
  /\ UNCHANGED <<rows, telegram, audience, commands, send, late, answers>>

\* delete_one for the messages of a batch: those SENT in the snapshot are removed from
\* their chat, or Telegram refuses.
RemoveBatch(k) ==
  /\ removal[k].step = "queued" /\ removal[k].todo # {}
  /\ \E batch \in Batches(removal[k].todo) :
       LET known == {u \in batch : removal[k].snapshot[u].status = "SENT"}
           there == {u \in known : removal[k].snapshot[u].id \in chat[u]}
       IN \E gone \in SUBSET there :
            /\ gone # there => "refused" \in Faults
            /\ chat' = [u \in User |-> IF u \in gone
                                       THEN chat[u] \ {removal[k].snapshot[u].id} ELSE chat[u]]
            /\ removal' = [removal EXCEPT ![k].step = "removed", ![k].removed = gone,
                                          ![k].batch = batch, ![k].todo = @ \ batch]
  /\ UNCHANGED <<rows, sent, audience, commands, send, history>>

\* Mutant: every message of the batch is written down as deleted.
RecordRemoval_all(k) ==
  LET task == removal[k] IN
  /\ task.step = "removed"
  /\ message' = [u \in User |->
       IF u \notin task.batch \/ message[u] = NoMessage THEN message[u]
       ELSE [task.snapshot[u] EXCEPT !.status = "DELETED"]]
  /\ removal' = [removal EXCEPT ![k].step = "queued"]
  /\ UNCHANGED <<broadcast, telegram, audience, commands, send, history>>

\* BulkUpdateBroadcastMessages writes the snapshot's rows back, the removed as DELETED.
RecordRemoval(k) ==
  LET task == removal[k] IN
  /\ task.step = "removed"
  /\ message' = [u \in User |->
       IF u \notin task.batch \/ message[u] = NoMessage THEN message[u]
       ELSE IF u \in task.removed THEN [task.snapshot[u] EXCEPT !.status = "DELETED"]
       ELSE task.snapshot[u]]
  /\ removal' = [removal EXCEPT ![k].step = "queued"]
  /\ UNCHANGED <<broadcast, telegram, audience, commands, send, history>>

\* _finalize_broadcast_deletion: DELETED, however many were refused.
FinishRemoval(k) ==
  /\ removal[k].step = "queued" /\ removal[k].todo = {}
  /\ SetStatus("DELETED")
  /\ removal' = [removal EXCEPT ![k].step = "done"]
  /\ UNCHANGED <<message, telegram, audience, commands, send, history>>

\* A statement of the deletion raises, which nothing catches: it is not retried.
RaiseRemoval(k) ==
  /\ "database" \in Faults /\ removal[k].step \in {"queued", "removed"}
  /\ removal' = [removal EXCEPT ![k].step = "failed"]
  /\ UNCHANGED <<rows, telegram, audience, commands, send, history>>

StopRemoval(k) ==
  /\ "stop" \in Faults /\ removal[k].step \in {"queued", "removed"}
  /\ removal' = [removal EXCEPT ![k].step = "stopped"]
  /\ UNCHANGED <<rows, telegram, audience, commands, send, history>>

\* The stopped task begins again with the snapshot it was given.
RedeliverRemoval(k) ==
  /\ removal[k].step = "stopped"
  /\ removal' = [removal EXCEPT ![k].step = "queued",
       ![k].todo = {u \in User : removal[k].snapshot[u] # NoMessage}]
  /\ UNCHANGED <<rows, telegram, audience, commands, send, history>>

SendStep(d) == ReadUsers(d) \/ Initialize(d) \/ NextBatch(d) \/ Record(d) \/ Finish(d)
               \/ \E u \in User : Send(d, u)

Next ==
  \/ Start \/ Dispatch \/ CancelReads \/ CancelWrites \/ ClearOld
  \/ \E u \in User : AudienceChanges(u)
  \/ \E d \in Delivery : SendStep(d) \/ Raise(d) \/ StopSend(d) \/ Redeliver(d)
  \/ \E k \in Removal : \/ Delete(k) \/ RemoveBatch(k) \/ RecordRemoval(k)
                        \/ FinishRemoval(k) \/ RaiseRemoval(k) \/ StopRemoval(k)
                        \/ RedeliverRemoval(k)

Spec == Init /\ [][Next]_vars

\* Commands run to their end, and so do tasks: the stream delivers what a stopped
\* worker left, as long as there are deliveries.
Fairness ==
  /\ WF_vars(Dispatch)
  /\ \A d \in Delivery : WF_vars(SendStep(d))
  /\ \A d \in 2 .. Deliveries : WF_vars(send[d - 1].step = "stopped" /\ Redeliver(d))

FairSpec == Spec /\ Fairness

-----------------------------------------------------------------------------
Redelivered == Deliveries > 1 /\ send[2].step # "none"

\* A chat gets the message once for each delivery of the task, at most.
OncePerDelivery ==
  \A u \in User : sent[u] <= Cardinality({d \in Delivery : send[d].step \notin {"none", "queued"}})

\* Once the cancel is committed, a delivery sends what is left of its batch and no more.
CancelStops == late <= BatchSize * Deliveries

\* Without a second delivery the counters never exceed the recipients, and a completed
\* broadcast has counted all of them.
CountsAgree ==
  ~Redelivered /\ Exists =>
    /\ broadcast.success + broadcast.failed <= broadcast.total
    /\ broadcast.status = "COMPLETED" /\ (\E u \in User : message[u] # NoMessage)
       => broadcast.success + broadcast.failed = broadcast.total

\* When nothing is being sent any more, every message in a chat has a row that can
\* delete it: unless the task was stopped, failed or was delivered twice, an answer was
\* lost, or a deletion overlapped the sending.
MessagesAreKnown ==
  ( /\ Exists /\ ~Sending /\ ~Redelivered /\ ~mixed
    /\ \A d \in Delivery : send[d].step # "stopped" /\ send[d].status # "ERROR"
    /\ \A k \in Removal : removal[k].step \in {"none", "done"} )
  => \A u \in User \ answers : \A id \in chat[u] : message[u] = [status |-> "SENT", id |-> id]

\* A row that says DELETED, of a message that was sent, is true of the chat.
DeletedIsGone ==
  \A u \in User : message[u].status = "DELETED" => message[u].id \notin chat[u]

Failed == \E d \in Delivery : send[d].step = "failed"

\* A broadcast does not stay PROCESSING: its task ends it, after a stop the next delivery;
\* unless a delivery could not write ERROR either, after which nobody looks again.
Ends == broadcast.status = "PROCESSING" ~> broadcast.status # "PROCESSING" \/ Failed

\* Does not hold; stated by the comment of DeleteBroadcast: DELETED is not claimed of messages that
\* are still there.
DeletedMeansRemoved == broadcast.status = "DELETED" => \A u \in User : chat[u] = {}

\* Does not hold; stated by the answer to the administrator: a canceled broadcast is canceled.
CanceledStays ==
  [][broadcast.status = "CANCELED" => broadcast'.status \in {"CANCELED", "DELETED", "absent"}]_vars
=============================================================================
