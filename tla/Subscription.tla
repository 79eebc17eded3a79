---------------------------- MODULE Subscription ----------------------------
(***************************************************************************)
(* One user's subscription in two places: the rows of the database, one of *)
(* them current, and the user the panel (Remnawave) keeps for it.  Every   *)
(* command reads the current row, calls the panel and commits its rows, in *)
(* an order of its own; the panel reports each change by a webhook, which  *)
(* a handler writes back.                                                  *)
(*                                                                         *)
(* The limits, squads and tags are written the way expire_at is and left   *)
(* out, with the unlimited duration and the purchase discount a purchase   *)
(* spends.  Rows and users are locked by the UPDATEs of a transaction      *)
(* until it ends; reads see what is committed.  The user has a Telegram    *)
(* account, by which the webhooks find him.                                *)
(***************************************************************************)
EXTENDS Naturals, Sequences, FiniteSets

CONSTANTS
  Call,      \* executions of the commands, one request each
  Handler,   \* the panel's webhook endpoint, which answers one webhook at a time
  Command,   \* the commands that occur
  Days,      \* what a plan or an extension lasts
  MaxNow,    \* bound of the clock
  Parallel,  \* how many commands run at a time
  Faults     \* which faults may occur

Commands == {"NEW", "RENEW", "CHANGE", "trial", "set", "extend", "toggle", "delete", "leave", "join"}

ConstantsAssumption ==
  /\ Call \cap Handler = {} /\ \A g, h \in Handler : g = h
  /\ Command \subseteq Commands
  /\ Days \in Nat \ {0} /\ MaxNow \in Nat /\ Parallel \in Nat
  /\ Faults \subseteq {"stop", "panel", "reorder"}

VARIABLES
  rows,      \* the user's subscriptions, by id
  current,   \* users.current_subscription_id, 0 for none
  trialAvailable,   \* users.is_trial_available
  panel,     \* the panel's users, by id
  hooks,     \* webhooks of the panel not yet answered, oldest first
  now,       \* the clock, in days
  task,      \* what each process is doing
  held,      \* the locks of its transaction: row ids, 0 for the users row
  bought,    \* how often the panel was given Days
  reordered  \* history: a webhook was answered after a later one

db     == <<rows, current, trialAvailable>>
past   == <<bought, reordered>>
remote == <<panel, hooks, past>>
vars   == <<rows, current, trialAvailable, panel, hooks, now, task, held, past>>

Process == Call \cup Handler

\* What a process does once its command has looked at the current row.
Creating == {"create", "trial", "change", "replace", "import"}
Deleting == {"change", "replace", "delete", "unlink", "mark"}
Op == Creating \cup Deleting
      \cup {"renew", "extend", "enable", "disable", "leave", "join", "merge", "removed"}

\* by: who disabled the subscription.
Row  == [num : Nat, status : {"ACTIVE", "DISABLED", "EXPIRED", "DELETED"}, expire : Nat,
         trial : BOOLEAN, left : BOOLEAN, by : {"nobody", "admin", "channel"}]
User == [status : {"ACTIVE", "DISABLED", "EXPIRED", "DELETED"}, expire : Nat]
View == [num : Nat, status : {"ACTIVE", "DISABLED", "EXPIRED", "DELETED"}, expire : Nat]
Hook == [event : {"modified", "status", "deleted"}, user : View]

\* op and step, the row read (its id and contents), what the panel answered.
NoRow  == [num |-> 0, status |-> "DELETED", expire |-> 0, trial |-> FALSE, left |-> FALSE,
           by |-> "nobody"]
NoView == [num |-> 0, status |-> "DELETED", expire |-> 0]
Task(op, id, got) ==
  [op |-> op, step |-> 0, id |-> id, base |-> IF id = 0 THEN NoRow ELSE rows[id], got |-> got]
Rest(op) == [op |-> op, step |-> 0, id |-> 0, base |-> NoRow, got |-> NoView]

\* Every variable keeps its type.
TypeOK ==
  /\ rows \in Seq(Row) /\ current \in 0..Len(rows)
  /\ trialAvailable \in BOOLEAN
  /\ panel \in Seq(User) /\ hooks \in Seq(Hook)
  /\ now \in 0..MaxNow
  /\ task \in [Process -> [op : Op \cup {"idle", "done"}, step : 0..3, id : Nat, base : Row, got : View]]
  /\ held \in [Process -> SUBSET (0..Len(rows))]
  /\ bought \in Nat /\ reordered \in BOOLEAN

\* No subscription yet, or one bought or tried before.
Init ==
  /\ \/ rows = <<>> /\ panel = <<>> /\ trialAvailable = TRUE /\ bought = 0
     \/ /\ \E trial \in BOOLEAN : rows = <<[num |-> 1, status |-> "ACTIVE", expire |-> Days,
                                           trial |-> trial, left |-> FALSE, by |-> "nobody"]>>
        /\ panel = <<[status |-> "ACTIVE", expire |-> Days]>>
        /\ trialAvailable = FALSE /\ bought = 1
  /\ current = Len(rows)
  /\ hooks = <<>> /\ now = 0 /\ reordered = FALSE
  /\ task = [p \in Process |-> Rest("idle")]
  /\ held = [p \in Process |-> {}]

-----------------------------------------------------------------------------
(* What an operation does, in the order of its code: calls of the panel,    *)
(* rows and users locked by their UPDATE.                                   *)

\* Mutant: a change of plan calls the panel first, as a set plan does.
Script_panel_first(op) ==
  CASE op \in {"create", "trial"} -> <<"panel", "user">>
    [] op = "import" -> <<"user">>
    [] op \in {"change", "replace"} -> <<"panel", "row", "user">>
    [] op = "extend" -> <<"row", "panel">>
    [] op = "delete" -> <<"panel", "user", "row">>
    [] op \in {"merge", "mark"} -> <<"row">>
    [] op = "removed" -> <<"row", "look">>
    [] op = "unlink" -> <<"row", "user">>
    [] OTHER -> <<"panel", "row">>

Script(op) ==
  CASE op \in {"create", "trial"} -> <<"panel", "user">>
    [] op = "import" -> <<"user">>
    [] op = "change" -> <<"row", "panel", "user">>
    [] op = "replace" -> <<"panel", "row", "user">>
    [] op = "extend" -> <<"row", "panel">>
    [] op = "delete" -> <<"panel", "user", "row">>
    [] op \in {"merge", "mark"} -> <<"row">>
    [] op = "removed" -> <<"row", "look">>
    [] op = "unlink" -> <<"row", "user">>
    [] OTHER -> <<"panel", "row">>

Running(p) == task[p].op \in Op
Due(p, what) == Running(p) /\ task[p].step < Len(Script(task[p].op))
                /\ Script(task[p].op)[task[p].step + 1] = what
Step(p) == [task EXCEPT ![p].step = @ + 1]

\* A command ends for good; the endpoint takes the next webhook.
Ended(p) == task' = [task EXCEPT ![p] = Rest(IF p \in Call THEN "done" ELSE "idle")]

\* The transaction ends with its locks.
Leaves(p) == Ended(p) /\ held' = [held EXCEPT ![p] = {}]

-----------------------------------------------------------------------------
(* The commands: each reads the current row and decides what to do. *)

Expired(row) == now > row.expire

Begin(c, command, op) ==
  /\ command \in Command
  /\ task[c].op = "idle" /\ Cardinality({d \in Call : Running(d)}) < Parallel
  /\ task' = [task EXCEPT ![c] = IF op = "done" THEN Rest("done") ELSE Task(op, current, NoView)]
  /\ UNCHANGED <<db, remote, now, held>>

\* PurchaseSubscription: a trial is converted whatever type was paid for.
Purchase(c) ==
  \E type \in {"NEW", "RENEW", "CHANGE"} :
    LET trial == current # 0 /\ rows[current].trial IN
    Begin(c, type, IF type = "NEW" /\ ~trial THEN "create"
                   ELSE IF current = 0 THEN "done"
                   ELSE IF type = "RENEW" /\ ~trial THEN "renew" ELSE "change")

\* ActivateTrialSubscription: the flag is the caller's copy.
ActivateTrial(c) == trialAvailable /\ Begin(c, "trial", "trial")

\* SetUserSubscription.
SetUserSubscription(c) == Begin(c, "set", IF current = 0 THEN "create" ELSE "replace")

AddSubscriptionDuration(c) ==
  /\ current # 0 /\ rows[current].expire + Days >= now
  /\ Begin(c, "extend", "extend")

ToggleSubscriptionStatus(c) ==
  /\ current # 0
  /\ Begin(c, "toggle", IF rows[current].status = "ACTIVE" THEN "disable" ELSE "enable")

DeleteSubscription(c) == current # 0 /\ Begin(c, "delete", "delete")

\* The channel guard: a trial is disabled when its user leaves the channel and
\* enabled when he comes back.
DisableTrialSubscription(c) ==
  /\ current # 0 /\ rows[current].trial
  /\ rows[current].status = "ACTIVE" /\ ~Expired(rows[current])
  /\ Begin(c, "leave", "leave")

EnableTrialSubscription(c) ==
  /\ current # 0 /\ rows[current].trial
  /\ rows[current].left /\ rows[current].status = "DISABLED" /\ ~Expired(rows[current])
  /\ Begin(c, "join", "join")

-----------------------------------------------------------------------------
(* The panel (external): it answers with the user it holds and reports      *)
(* every change of one but its creation, which the endpoint ignores.        *)

Lives(n) == n \in 1..Len(panel) /\ panel[n].status # "DELETED"
ViewOf(n, user) == [num |-> n, status |-> user.status, expire |-> user.expire]
Report(event, n, user) == [event |-> event, user |-> ViewOf(n, user)]

Latest(a, b) == IF a > b THEN a ELSE b

\* Mutant: a conflict is taken for a success.
Refused_overwrites(t) == t.op \notin Creating /\ t.op # "delete" /\ ~Lives(t.base.num)

\* Usernames are unique; a user who is gone cannot be updated, but deleted.
Refused(t) ==
  IF t.op \in {"create", "trial"} THEN \E n \in 1..Len(panel) : Lives(n)
  ELSE t.op # "delete" /\ ~Lives(t.base.num)

\* The status and expire_at an operation sends, from the row it read.
Sent(t) ==
  LET user == panel[t.base.num]
      status == IF t.base.status = "DISABLED" THEN "DISABLED" ELSE "ACTIVE" IN
  CASE t.op = "renew" -> [status |-> status, expire |-> Latest(t.base.expire, now) + Days]
    [] t.op = "extend" -> [status |-> status, expire |-> t.base.expire + Days]
    [] t.op \in {"change", "replace"} -> [status |-> "ACTIVE", expire |-> now + Days]
    [] t.op \in {"enable", "join"} -> [user EXCEPT !.status = "ACTIVE"]
    [] t.op \in {"disable", "leave"} -> [user EXCEPT !.status = "DISABLED"]
    [] t.op = "delete" -> [user EXCEPT !.status = "DELETED"]

Event(op) ==
  CASE op \in {"enable", "join", "disable", "leave"} -> "status"
    [] op = "delete" -> "deleted"
    [] OTHER -> "modified"

Paying == {"create", "trial", "renew", "extend", "change", "replace"}

\* The panel's user and its contents after the call.
Answer(t) ==
  IF t.op \in {"create", "trial"}
    THEN ViewOf(Len(panel) + 1, [status |-> "ACTIVE", expire |-> now + Days])
    ELSE ViewOf(t.base.num, Sent(t))

\* The call takes effect at the panel; deleting a user who is gone has none.
Apply(t) ==
  LET got == Answer(t)  user == [status |-> got.status, expire |-> got.expire] IN
  /\ \/ got.num > Len(panel) /\ panel' = Append(panel, user) /\ UNCHANGED hooks
     \/ /\ Lives(got.num)
        /\ panel' = [panel EXCEPT ![got.num] = user]
        /\ hooks' = Append(hooks, Report(Event(t.op), got.num, user))
     \/ got.num <= Len(panel) /\ ~Lives(got.num) /\ UNCHANGED <<panel, hooks>>
  /\ bought' = IF t.op \in Paying THEN bought + 1 ELSE bought
  /\ UNCHANGED reordered

CallPanel(p) ==
  /\ Due(p, "panel") /\ ~Refused(task[p])
  /\ Apply(task[p])
  /\ task' = [task EXCEPT ![p].step = @ + 1, ![p].got = Answer(task[p])]
  /\ UNCHANGED <<db, now, held>>

\* The panel refuses, or fails before or after it applied the change: the command
\* ends and its transaction is rolled back.
PanelRaises(p) ==
  /\ Due(p, "panel")
  /\ \/ (Refused(task[p]) \/ "panel" \in Faults) /\ UNCHANGED remote
     \/ "panel" \in Faults /\ ~Refused(task[p]) /\ Apply(task[p])
  /\ Leaves(p)
  /\ UNCHANGED <<db, now>>

\* Time passes; the panel expires its users.
Tick == now < MaxNow /\ now' = now + 1 /\ UNCHANGED <<db, remote, task, held>>

PanelExpires(n) ==
  /\ Lives(n) /\ panel[n].status = "ACTIVE" /\ now >= panel[n].expire
  /\ LET user == [panel[n] EXCEPT !.status = "EXPIRED"] IN
     /\ panel' = [panel EXCEPT ![n] = user]
     /\ hooks' = Append(hooks, Report("status", n, user))
  /\ UNCHANGED <<db, now, task, held, past>>

-----------------------------------------------------------------------------
(* The transaction. *)

LockOf(t, what) == IF what = "user" THEN 0 ELSE t.id
Owners(x) == {p \in Process : x \in held[p]}

\* An UPDATE waits for the transaction that wrote its row.
Lock(p) ==
  \E what \in {"row", "user"} :
    /\ Due(p, what)
    /\ Owners(LockOf(task[p], what)) = {}
    /\ held' = [held EXCEPT ![p] = @ \cup {LockOf(task[p], what)}]
    /\ task' = Step(p)
    /\ UNCHANGED <<db, remote, now>>

Waits(p, q) ==
  \E what \in {"row", "user"} : Due(p, what) /\ q \in Owners(LockOf(task[p], what)) \ {p}

\* Two transactions wait for each other: the database aborts one.
Deadlocked(p) ==
  /\ \E q \in Process : Waits(p, q) /\ Waits(q, p)
  /\ Leaves(p)
  /\ UNCHANGED <<db, remote, now>>

\* The process stops before its commit.  A webhook that is not answered with 200
\* is sent again.
Stop(p) ==
  /\ "stop" \in Faults /\ Running(p)
  /\ Leaves(p)
  /\ UNCHANGED <<db, remote, now>>

\* Mutant: only the status is synchronised.
Merge_status(row, base, got) == IF got.status # base.status THEN [row EXCEPT !.status = got.status] ELSE row

\* apply_sync changes, and update writes, the fields that differ from what was read.
Merge(row, base, got) ==
  [row EXCEPT !.num    = IF got.num # base.num THEN got.num ELSE @,
              !.status = IF got.status # base.status THEN got.status ELSE @,
              !.expire = IF got.expire # base.expire THEN got.expire ELSE @]

\* Who disables a row that is disabled already changes nothing.
Disabler(row, who) == IF row.status = "DISABLED" THEN row.by ELSE who

\* Mutant: the days are added to the row again.
Written_again(t, row) ==
  CASE t.op \in Deleting -> [row EXCEPT !.status = "DELETED"]
    [] t.op \in {"renew", "extend"} -> [row EXCEPT !.expire = @ + Days]
    [] t.op = "enable" -> [row EXCEPT !.status = "ACTIVE", !.by = "nobody"]
    [] t.op = "disable" -> [row EXCEPT !.status = "DISABLED", !.by = Disabler(row, "admin")]
    [] t.op = "leave" -> [row EXCEPT !.status = "DISABLED", !.left = TRUE, !.by = Disabler(row, "channel")]
    [] t.op = "join" -> [row EXCEPT !.status = "ACTIVE", !.left = FALSE, !.by = "nobody"]
    [] t.op = "merge" -> Merge(row, t.base, t.got)

\* What the UPDATE of the row read writes, over what others committed meanwhile.
Written(t, row) ==
  CASE t.op \in Deleting -> [row EXCEPT !.status = "DELETED"]
    [] t.op \in {"renew", "extend"} -> [row EXCEPT !.expire = t.got.expire]
    [] t.op = "enable" -> [row EXCEPT !.status = "ACTIVE", !.by = "nobody"]
    [] t.op = "disable" -> [row EXCEPT !.status = "DISABLED", !.by = Disabler(row, "admin")]
    [] t.op = "leave" -> [row EXCEPT !.status = "DISABLED", !.left = TRUE, !.by = Disabler(row, "channel")]
    [] t.op = "join" -> [row EXCEPT !.status = "ACTIVE", !.left = FALSE, !.by = "nobody"]
    [] t.op = "merge" -> Merge(row, t.base, t.got)

\* The row inserted for what the panel answered; an import looks at the clock.
Created(t) ==
  [num |-> t.got.num, expire |-> t.got.expire, trial |-> t.op = "trial", left |-> FALSE,
   by |-> "nobody",
   status |-> IF t.op = "import" /\ Expired(t.got) THEN "EXPIRED" ELSE t.got.status]

\* Mutant: the row is marked and stays current.
Unlinking_none == {}

Unlinking == {"delete", "unlink"}

\* Mutant: the id is taken before the row is inserted.
Newest_unflushed(inserted) == Len(inserted) + 1

\* create flushes before it makes the new row current.
Newest(inserted) == Len(inserted)

Commit(p) ==
  LET t == task[p]
      updated == IF t.op \in {"create", "trial", "import"} THEN rows
                 ELSE [rows EXCEPT ![t.id] = Written(t, @)] IN
  /\ Running(p) /\ t.op # "removed" /\ t.step = Len(Script(t.op))
  /\ rows' = IF t.op \in Creating THEN Append(updated, Created(t)) ELSE updated
  /\ current' = IF t.op \in Creating THEN Newest(rows')
                ELSE IF t.op \in Unlinking THEN 0 ELSE current
  /\ trialAvailable' = (trialAvailable /\ t.op \notin {"create", "trial", "replace"})
  /\ Leaves(p)
  /\ hooks' = IF p \in Handler THEN Tail(hooks) ELSE hooks
  /\ UNCHANGED <<panel, now, past>>

-----------------------------------------------------------------------------
(* The webhook endpoint, one webhook at a time. *)

Idle(h) == task[h].op = "idle" /\ hooks # <<>>
Linked(n) == current # 0 /\ rows[current].num = n

\* SyncRemnaUser, for user.modified and, if the user is the current one, a
\* change of status.
Synchronise(h) ==
  /\ Idle(h)
  /\ LET hook == Head(hooks) IN
     /\ hook.event = "status" => Linked(hook.user.num)
     /\ hook.event # "deleted"
     /\ task' = [task EXCEPT ![h] = Task(IF current = 0 THEN "import" ELSE "merge", current, hook.user)]
  /\ UNCHANGED <<db, remote, now, held>>

\* user.deleted: any row of the panel's user may be the one found.
ProcessDelete(h) ==
  /\ Idle(h)
  /\ LET hook == Head(hooks) IN
     /\ hook.event = "deleted" /\ Linked(hook.user.num)
     /\ \E id \in 1..Len(rows) : /\ rows[id].num = hook.user.num
                                 /\ task' = [task EXCEPT ![h] = Task("removed", id, hook.user)]
  /\ UNCHANGED <<db, remote, now, held>>

\* The row is marked; is the current one of the same panel user?
LookAgain(h) ==
  /\ Due(h, "look")
  /\ task' = [task EXCEPT ![h].op = IF Linked(task[h].got.num) THEN "unlink" ELSE "mark"]
  /\ UNCHANGED <<db, remote, now, held>>

\* An event about a user who is not current is answered and forgotten.
Ignore(h) ==
  /\ Idle(h)
  /\ Head(hooks).event # "modified" /\ ~Linked(Head(hooks).user.num)
  /\ hooks' = Tail(hooks)
  /\ UNCHANGED <<db, panel, now, task, held, past>>

\* A delivery that failed is tried again after the ones behind it.
Reorder ==
  /\ "reorder" \in Faults /\ Len(hooks) > 1
  /\ \A h \in Handler : task[h].op = "idle"
  /\ hooks' = Append(Tail(hooks), Head(hooks)) /\ reordered' = TRUE
  /\ UNCHANGED <<db, panel, now, task, held, bought>>

-----------------------------------------------------------------------------
Asked(c) ==
  \/ Purchase(c) \/ ActivateTrial(c) \/ SetUserSubscription(c) \/ AddSubscriptionDuration(c)
  \/ ToggleSubscriptionStatus(c) \/ DeleteSubscription(c)
  \/ DisableTrialSubscription(c) \/ EnableTrialSubscription(c)
Received(h) == Synchronise(h) \/ ProcessDelete(h) \/ LookAgain(h) \/ Ignore(h)
Transact(p) == CallPanel(p) \/ PanelRaises(p) \/ Lock(p) \/ Deadlocked(p) \/ Stop(p) \/ Commit(p)

Next ==
  \/ \E c \in Call : Asked(c)
  \/ \E h \in Handler : Received(h)
  \/ \E p \in Process : Transact(p)
  \/ Tick \/ Reorder
  \/ \E n \in 1..Len(panel) : PanelExpires(n)

Spec == Init /\ [][Next]_vars

-----------------------------------------------------------------------------
(* Properties. *)

\* The current row is never one that a command or a webhook marked DELETED.
CurrentIsNotDeleted == current # 0 => rows[current].status # "DELETED"

\* Nothing runs and every webhook is answered.
Quiet == hooks = <<>> /\ \A p \in Process : ~Running(p)

\* Once quiet, the current row belongs to a user the panel still has, if the webhooks
\* were answered in the order the panel sent them.
CurrentExists == Quiet /\ ~reordered /\ current # 0 => Lives(rows[current].num)

\* Once quiet, the current row agrees with the panel, whatever stopped or
\* failed between the panel's change and the commit.
RowAgrees ==
  Quiet /\ current # 0 =>
    panel[rows[current].num] = [status |-> rows[current].status, expire |-> rows[current].expire]

\* At most one trial: the flag is read before the panel is called, the panel's
\* unique usernames stop the second.
TrialOnce == Cardinality({id \in 1..Len(rows) : rows[id].trial}) <= 1

\* No row and no panel user lasts longer than all that was bought or granted.
NothingForFree ==
  LET end == now + Days * bought IN
  /\ \A id \in 1..Len(rows) : rows[id].expire <= end
  /\ \A n \in 1..Len(panel) : panel[n].expire <= end

\* An expired subscription is not toggled on.
ExpiredIsNotEnabled ==
  [][\A c \in Call : task[c].op = "idle" /\ task'[c].op = "enable" => ~Expired(rows[current])]_vars

\* Coming back to the channel restores only what leaving it disabled.
RestoresOwn ==
  [][\A c \in Call : task[c].op = "idle" /\ task'[c].op = "join" => rows[current].by = "channel"]_vars
=============================================================================
