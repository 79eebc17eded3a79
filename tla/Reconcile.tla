------------------------------ MODULE Reconcile ------------------------------
(***************************************************************************)
(* The importer: users of another panel's database created in the panel,   *)
(* and the two synchronizations of all users, panel to bot and bot to      *)
(* panel.  Each is a task an administrator's handler dispatches and waits  *)
(* for, behind a key in Redis that is read, then set, and deleted by the   *)
(* task and again by the handler.  A task goes through what it fetched at  *)
(* its beginning, user by user, while commands, the other direction and,   *)
(* where the key failed, another task of its own kind change the same rows.*)
(***************************************************************************)
EXTENDS Naturals, FiniteSets

CONSTANTS
  Account,    \* who may have a row in the bot: a username in the panel
  Telegram,   \* those of them known by a Telegram identifier
  Num,        \* identifiers of panel users, the panel's serial numbers
  Job,        \* presses of a start button, one task each
  Beginnings, \* what a behaviour starts from: panel, row, rows, inbounds (of the file that was
              \* sent in), kinds, presses, changes
  None

Kind == {"import", "from_panel", "from_bot"}

\* A client of a sent file, a panel user and a subscription, as far as the tasks look at them.
Client == [id : Account \cup {None}, enable : BOOLEAN, expired : BOOLEAN]
PanelUser ==
  [name : Account \cup {None}, telegram : Account \cup {None}, data : {0, 1}, on : BOOLEAN,
   url : {0, 1}]
Sub == [num : Num, data : {0, 1}, on : BOOLEAN, url : {0, 1}]

\* A behaviour begins with no panel user that two hold.
ConstantsAssumption ==
  /\ Telegram \subseteq Account
  /\ None \notin Account \cup Job \cup Num \cup PanelUser \cup Sub
  /\ \A b \in Beginnings :
       /\ b.kinds \subseteq Kind /\ b.presses \subseteq Job /\ b.rows \subseteq Account
       /\ b.panel \in [Num -> PanelUser \cup {None}] /\ b.row \in [Account -> Sub \cup {None}]
       /\ b.inbounds \subseteq SUBSET Client
       /\ \A a \in Account \ b.rows : b.row[a] = None
       /\ \A a, c \in b.rows :
            a # c /\ b.row[a] # None /\ b.row[c] # None => b.row[a].num # b.row[c].num

VARIABLES
  begun,    \* the beginning chosen
  panel,    \* panel users, None for a free identifier
  user,     \* the accounts that have a row
  row,      \* the current subscription of each, None without one
  key,      \* the kinds whose running key is set
  job,
  changes,  \* how often others changed rows or the panel
  raced     \* history: how the key came to let two tasks of a kind run at once

vars == <<begun, panel, user, row, key, job, changes, raced>>

Resting == [step |-> "idle", kind |-> "from_bot", chosen |-> {}, todo |-> {}, who |-> None,
            num |-> None, sub |-> None, view |-> None, clean |-> TRUE]

Init ==
  /\ begun \in Beginnings
  /\ panel = begun.panel /\ row = begun.row /\ user = begun.rows
  /\ key = {} /\ job = [j \in Job |-> Resting] /\ changes = 0 /\ raced = FALSE

Running == {j \in Job : job[j].step \notin {"idle", "checked", "ended", "done"}}
Existing == {n \in Num : panel[n] # None}
Names == {panel[n].name : n \in Existing}

\* What the panel may call a new user.  It numbers its users one after another and gives no
\* number twice: the new one is nobody's, and no row and no task remembers it.
Remembered(t, n) ==
  \/ t.num = n \/ (t.sub # None /\ t.sub.num = n)
  \/ t.kind = "from_panel" /\ \E x \in t.todo : x.num = n
Free ==
  {n \in Num \ Existing : /\ \A a \in user : row[a] # None => row[a].num # n
                         /\ \A j \in Job : ~Remembered(job[j], n)}

To(j, step) == [job EXCEPT ![j].step = step]
Following(j) == [job EXCEPT ![j] = [@ EXCEPT !.step = "next", !.who = None, !.num = None,
                                         !.sub = None, !.view = None]]
\* What others began before a write no longer describes what is there.
Seen(jobs, S) == [k \in Job |-> IF k \in S \/ jobs[k].step \in {"idle", "checked"} THEN jobs[k]
                               ELSE [jobs[k] EXCEPT !.clean = FALSE]]

-----------------------------------------------------------------------------
(* The handlers. *)

\* ExportUsersFromXui: the inbound with the most clients, who is enabled and has a number in
\* his email.
Exported ==
  LET Most == {i \in begun.inbounds : \A k \in begun.inbounds : Cardinality(k) <= Cardinality(i)}
  IN IF Most = {} THEN {} ELSE {c \in CHOOSE i \in Most : TRUE : c.enable /\ c.id # None}

\* SplitExportedUsers.
Unexpired == {c \in Exported : ~c.expired}

\* Mutant: the key is not looked up.
Unset_always(kind) == TRUE

\* redis.get(key).
Unset(kind) == kind \notin key

Press(j, kind) ==
  /\ j \in begun.presses /\ kind \in begun.kinds
  /\ kind = "import" => Exported # {}
  /\ job[j].step = "idle" /\ Unset(kind)
  /\ job' = [To(j, "checked") EXCEPT ![j].kind = kind, ![j].clean = kind \notin key]
  /\ UNCHANGED <<begun, panel, user, row, key, changes, raced>>

\* redis.set(key, 1, ex=600), and the task; to import all users or the active ones.
Dispatch(j, users) ==
  LET kind == job[j].kind IN
  /\ job[j].step = "checked"
  /\ users \in (IF kind = "import" THEN {Exported, Unexpired} ELSE {{}})
  /\ key' = key \cup {kind}
  /\ raced' = (raced \/ (kind \in key /\ job[j].clean))
  /\ job' = [To(j, "queued") EXCEPT ![j].chosen = users, ![j].clean = TRUE]
  /\ UNCHANGED <<begun, panel, user, row, changes>>

\* The key goes; another may begin while one still runs.
Unlock(j, kinds) ==
  /\ key' = key \ kinds
  /\ raced' = (raced \/ \E k \in Running \ {j} : job[k].kind \in kinds \cap key)

\* Mutant: the handler leaves the key.
Released_never(j) == {}

\* The handler's finally deletes the key, even one another handler has set since.
Released(j) == {job[j].kind}

Return(j) ==
  /\ job[j].step = "ended"
  /\ job' = To(j, "done")
  /\ Unlock(j, Released(j))
  /\ UNCHANGED <<begun, panel, user, row, changes>>

Expire(kind) ==
  /\ kind \in key /\ \E j \in Running : job[j].kind = kind
  /\ Unlock(None, {kind})
  /\ UNCHANGED <<begun, panel, user, row, job, changes>>

-----------------------------------------------------------------------------
(* The tasks. *)

Rest == UNCHANGED <<begun, key, changes, raced>>

\* _fetch_all_panel_users, _fetch_all_bot_users, or the list the task was sent with.
Fetch(j) ==
  /\ job[j].step = "queued"
  /\ job' = [Following(j) EXCEPT ![j].todo =
               CASE job[j].kind = "import" -> job[j].chosen
                 [] job[j].kind = "from_bot" -> user
                 [] OTHER -> {[num |-> n, view |-> panel[n]] : n \in Existing}]
  /\ Rest /\ UNCHANGED <<panel, user, row>>

\* Every call is guarded for one user: the task goes on with the next.
PanelRaises(j) ==
  /\ changes < begun.changes
  /\ changes' = changes + 1
  /\ job[j].step \in {"look", "update", "create"}
  /\ job' = [Following(j) EXCEPT ![j].clean = FALSE]
  /\ UNCHANGED <<begun, panel, user, row, key, raced>>

Finish(j) ==
  /\ job[j].step = "next" /\ job[j].todo = {}
  /\ job' = To(j, "ended")
  /\ Unlock(j, IF job[j].kind = "import" THEN {} ELSE {job[j].kind})
  /\ UNCHANGED <<begun, panel, user, row, changes>>

\* The worker stops; the stream delivers the task again.
Stop(j) ==
  /\ changes < begun.changes
  /\ j \in Running /\ job[j].step # "queued"
  /\ changes' = changes + 1
  /\ job' = [Following(j) EXCEPT ![j].step = "queued", ![j].todo = {}]
  /\ UNCHANGED <<begun, panel, user, row, key, raced>>

\* import_exported_users_task: the panel refuses a name it knows.
Import(j, c, n) ==
  LET after == [job EXCEPT ![j].todo = @ \ {c}] IN
  /\ job[j].kind = "import" /\ job[j].step = "next" /\ c \in job[j].todo
  /\ IF c.id \in Names
     THEN n = None /\ job' = after /\ UNCHANGED panel
     ELSE /\ n \in Free
          /\ panel' = [panel EXCEPT ![n] = [name |-> c.id, telegram |-> c.id, data |-> 1,
                                            on |-> TRUE, url |-> 0]]
          /\ job' = Seen(after, {j})
  /\ Rest /\ UNCHANGED <<user, row>>

-----------------------------------------------------------------------------
(* SyncRemnaUser, one transaction that reads, then writes. *)

\* Mutant: a panel user is looked up by its Telegram identifier alone.
Found_telegram(n, view) == {view.telegram} \cap user

\* Whom a panel user belongs to: the holder of its number, else of its Telegram account.
Found(n, view) ==
  LET holders == {a \in user : row[a] # None /\ row[a].num = n} IN
  IF holders # {} THEN holders ELSE {view.telegram} \cap user

ImageOf(n, view) == [num |-> n, data |-> view.data, on |-> view.on, url |-> view.url]

\* Mutant: apply_sync without its field_map.
Applied_unnumbered(old, now, image) ==
  [f \in DOMAIN image |-> IF f # "num" /\ old[f] # image[f] THEN image[f] ELSE now[f]]

\* What the session writes is what apply_sync changed.
Applied(old, now, image) ==
  [f \in DOMAIN image |-> IF old[f] # image[f] THEN image[f] ELSE now[f]]

ReadSync(j, n, view, todo) ==
  LET found == Found(n, view) IN
  /\ \/ \E a \in found :
          job' = [job EXCEPT ![j] = [@ EXCEPT !.step = "sync", !.who = a, !.num = n,
                                     !.sub = row[a], !.view = view, !.todo = todo]]
     \/ /\ found = {}
        /\ job' = IF job[j].kind = "from_panel"
                  THEN [job EXCEPT ![j] = [@ EXCEPT !.step = "sync", !.num = n, !.view = view,
                                                    !.todo = todo]]
                  ELSE Following(j)
  /\ Rest /\ UNCHANGED <<panel, user, row>>

\* SyncAllUsersFromPanel; its own queries only count.
TakePanelUser(j) ==
  /\ job[j].kind = "from_panel" /\ job[j].step = "next"
  /\ \E x \in job[j].todo : ReadSync(j, x.num, x.view, job[j].todo \ {x})

TakeCreated(j) ==
  /\ job[j].step = "created"
  /\ ReadSync(j, job[j].num, job[j].view, job[j].todo)

\* A new row's telegram_id is unique, a second one raises.
SyncNew(j, a) ==
  LET telegram == job[j].view.telegram
      taken == telegram \in user
  IN
  /\ job[j].step = "sync" /\ job[j].who = None
  /\ a \in (IF telegram # None THEN {telegram} ELSE Account \ (Telegram \cup user))
  /\ user' = user \cup {a}
  /\ row' = IF taken THEN row ELSE [row EXCEPT ![a] = ImageOf(job[j].num, job[j].view)]
  /\ job' = IF taken THEN [Following(j) EXCEPT ![j].clean = FALSE] ELSE Seen(Following(j), {j})
  /\ Rest /\ UNCHANGED panel

SyncKnown(j) ==
  LET a == job[j].who
      image == ImageOf(job[j].num, job[j].view)
  IN
  /\ job[j].step = "sync" /\ a # None
  /\ row' = IF job[j].sub = None THEN [row EXCEPT ![a] = image]
            ELSE IF row[a] = None THEN row
            ELSE [row EXCEPT ![a] = Applied(job[j].sub, @, image)]
  /\ job' = IF row' = row THEN Following(j) ELSE Seen(Following(j), {j})
  /\ Rest /\ UNCHANGED <<panel, user>>

-----------------------------------------------------------------------------
(* SyncAllUsersFromBot. *)

TakeBotUser(j) ==
  /\ job[j].kind = "from_bot" /\ job[j].step = "next"
  /\ \E a \in job[j].todo :
       job' = IF row[a] = None THEN [job EXCEPT ![j].todo = @ \ {a}]
              ELSE [job EXCEPT ![j] = [job[j] EXCEPT !.step = "look", !.who = a, !.sub = row[a],
                                                !.todo = job[j].todo \ {a}]]
  /\ Rest /\ UNCHANGED <<panel, user, row>>

Look(j) ==
  /\ job[j].step = "look"
  /\ job' = To(j, IF job[j].sub.num \in Existing THEN "update" ELSE "create")
  /\ Rest /\ UNCHANGED <<panel, user, row>>

TelegramOf(a) == IF a \in Telegram THEN a ELSE None

\* Mutant: the panel keeps what it had.
Pushed_kept(a, sub) == panel[sub.num]

\* _build_update_request with a subscription.
Pushed(a, sub) == [panel[sub.num] EXCEPT !.telegram = TelegramOf(a), !.data = sub.data,
                                         !.on = sub.on]

\* Gone since, the panel raises.
UpdatePanelUser(j) ==
  LET sub == job[j].sub IN
  /\ job[j].step = "update"
  /\ IF sub.num \notin Existing
     THEN job' = Following(j) /\ UNCHANGED panel
     ELSE /\ panel' = [panel EXCEPT ![sub.num] = Pushed(job[j].who, sub)]
          /\ LET after == IF panel[sub.num].url = sub.url THEN Following(j)
                          ELSE [To(j, "url") EXCEPT ![j].view = panel[sub.num]]
             IN job' = IF panel' = panel THEN after ELSE Seen(after, {j})
  /\ Rest /\ UNCHANGED <<user, row>>

WriteUrl(j) ==
  LET a == job[j].who IN
  /\ job[j].step = "url"
  /\ row' = IF row[a] = None THEN row ELSE [row EXCEPT ![a].url = job[j].view.url]
  /\ job' = Seen(Following(j), {j})
  /\ Rest /\ UNCHANGED <<panel, user>>

\* _build_create_request with a subscription: what the panel creates is enabled.  A name it
\* knows is a ConflictError.
CreatePanelUser(j, n) ==
  LET a == job[j].who
      new == [name |-> a, telegram |-> TelegramOf(a), data |-> job[j].sub.data, on |-> TRUE,
              url |-> 0]
  IN
  /\ job[j].step = "create"
  /\ IF a \in Names
     THEN n = None /\ job' = Following(j) /\ UNCHANGED panel
     ELSE /\ n \in Free
          /\ panel' = [panel EXCEPT ![n] = new]
          /\ job' = Seen([To(j, "created") EXCEPT ![j].num = n, ![j].view = new], {j})
  /\ Rest /\ UNCHANGED <<user, row>>

-----------------------------------------------------------------------------
(* What others do meanwhile, in the panel and in the bot. *)

Changes ==
  /\ changes < begun.changes /\ Running # {}
  /\ changes' = changes + 1
  /\ UNCHANGED <<begun, user, key, raced>>

\* An extension, in both.
Extend(a) ==
  /\ row[a] # None /\ row[a].num \in Existing
  /\ row' = [row EXCEPT ![a].data = 1 - @]
  /\ panel' = [panel EXCEPT ![row[a].num].data = 1 - row[a].data]
  /\ job' = Seen(job, {})
  /\ Changes

\* DeleteSubscription, in both.
Delete(a) ==
  /\ row[a] # None /\ row[a].num \in Existing
  /\ row' = [row EXCEPT ![a] = None]
  /\ panel' = [panel EXCEPT ![row[a].num] = None]
  /\ job' = Seen(job, {})
  /\ Changes

Next ==
  \/ \E j \in Job :
       \/ \E kind \in Kind : Press(j, kind)
       \/ \E S \in {{}, Exported, Unexpired} : Dispatch(j, S)
       \/ Return(j)
       \/ Fetch(j) \/ PanelRaises(j) \/ Finish(j) \/ Stop(j)
       \/ \E n \in Num \cup {None} : \/ \E c \in job[j].todo : Import(j, c, n)
                                     \/ CreatePanelUser(j, n)
       \/ TakePanelUser(j) \/ TakeCreated(j)
       \/ \E a \in Account : SyncNew(j, a)
       \/ SyncKnown(j)
       \/ TakeBotUser(j) \/ Look(j) \/ UpdatePanelUser(j) \/ WriteUrl(j)
  \/ \E kind \in Kind : Expire(kind)
  \/ \E a \in Account : Extend(a) \/ Delete(a)

Spec == Init /\ [][Next]_vars

-----------------------------------------------------------------------------
\* Unless two handlers read the key before either set it, or the key went while a task was
\* still running, tasks of a kind run one at a time and no two users hold one panel user;
\* and a key is set only while its handler waits (importer/handlers.py, tasks/importer.py).
OneAtATime ==
  /\ ~raced => /\ \A j, k \in Running : j # k => job[j].kind # job[k].kind
               /\ \A a, b \in user :
                    a # b /\ row[a] # None /\ row[b] # None => row[a].num # row[b].num
  /\ \A kind \in key : \E j \in Job : job[j].kind = kind /\ job[j].step \notin {"idle", "checked", "done"}

\* The row says what the panel says of its user.
Mirrors(a) ==
  /\ row[a] # None /\ row[a].num \in Existing
  /\ row[a] = ImageOf(row[a].num, panel[row[a].num])

\* What a task nobody disturbed has done when it ends (synchronization.py).
Reconciled ==
  \A j \in Job : job[j].step \in {"ended", "done"} /\ job[j].clean =>
    CASE job[j].kind = "from_panel" ->
           \A n \in Existing : \E a \in user :
             /\ Mirrors(a)
             /\ row[a].num = n \/ panel[n].telegram = a
      [] job[j].kind = "from_bot" ->
           \A a \in user : row[a] # None =>
             \/ Mirrors(a) /\ panel[row[a].num].telegram = TelegramOf(a)
             \/ row[a].num \notin Existing /\ (a \notin Telegram \/ a \in Names)
      [] OTHER -> {c.id : c \in job[j].chosen} \subseteq Names
=============================================================================
