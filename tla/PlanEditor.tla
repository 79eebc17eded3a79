----------------------------- MODULE PlanEditor -----------------------------
(***************************************************************************)
(* The plans and the dialog that edits them.  An administrator's form is a *)
(* copy of a plan kept in the dialog's data: handlers change the copy, and *)
(* nothing is stored before it is confirmed, when the whole copy is        *)
(* written over the row (PlanDao.update).  Access of single users is       *)
(* toggled on the row itself, and the order of the plans is renumbered.    *)
(*                                                                         *)
(* A command reads its rows in one step and writes and commits in another: *)
(* each is one transaction at READ COMMITTED, two administrators' commands *)
(* interleave, and one administrator does one thing at a time.             *)
(***************************************************************************)
EXTENDS Integers, Sequences, SequencesExt

CONSTANTS
  Admin, Plan,     \* Plan: identifiers a row may get
  User, IdsOf,     \* each user's identities: a Telegram ID, an address, or both
  Squad, Name, Default,
  Days, DefaultDays,
  Files,           \* plans exported before, each file a sequence
  Settings,        \* what a run starts from: rows, administrators, handlers, bounds
  None

-----------------------------------------------------------------------------
(* A plan as the dialog and the commands have it. *)

Type == {"TRAFFIC", "DEVICES", "BOTH", "UNLIMITED"}
Plain == {"description", "tag", "strategy", "active"}   \* fields nothing else depends on

PlanDurationDto == [days : Days, order : Nat, price : Nat]
PlanDto ==
  [name : Name, plain : [Plain -> {0, 1}], type : Type, availability : {"ALL", "ALLOWED"},
   trial : BOOLEAN, traffic : Nat, device : Nat, allowed : SUBSET (User \X {"telegram", "email"}),
   squads : SUBSET Squad, external : Squad \cup {None}, order : Nat,
   durations : Seq(PlanDurationDto)]

Metered(type)  == type \in {"TRAFFIC", "BOTH"}
PerDevice(type) == type \in {"DEVICES", "BOTH"}

\* A limit that counts is not zero, there is a duration, and none is there twice.
Usable(plan) ==
  /\ Metered(plan.type) => plan.traffic > 0
  /\ PerDevice(plan.type) => plan.device > 0
  /\ plan.durations # <<>>
  /\ \A i, k \in DOMAIN plan.durations :
       i # k => plan.durations[i].days # plan.durations[k].days

\* _validate_and_prepare_plan: what is refused ...
Valid(plan) == plan.squads # {} /\ (plan.trial => Len(plan.durations) <= 1)

\* What the shop relies on: a plan has squads, its limits are those of its type, a trial
\* has one duration, no duration is there twice.
Sound(plan) ==
  /\ Valid(plan) /\ Usable(plan)
  /\ ~Metered(plan.type) => plan.traffic = 0
  /\ ~PerDevice(plan.type) => plan.device = 0

\* An administrator's copy, and a command under way.
Form == [id : Plan \cup {None}, plan : PlanDto,
         touched : SUBSET {"name", "plain", "trial", "availability", "type", "traffic", "device",
                           "durations", "allowed", "squads", "external"},
         based : BOOLEAN]
Job == [kind : {"commit", "toggle", "move", "delete"}, plan : Plan, user : User \cup {None},
        list : Seq(Plan), fresh : BOOLEAN, loaded : PlanDto \cup {None},
        orders : UNION {[S -> Nat] : S \in SUBSET Plan}, based : BOOLEAN]

\* What was exported was sound; so are the plans a behaviour begins with.
ConstantsAssumption ==
  /\ IsFiniteSet(Plan) /\ Default \in Name
  /\ None \notin Plan \cup Squad \cup User \cup PlanDto \cup Form \cup Job
  /\ IdsOf \in [User -> (SUBSET {"telegram", "email"}) \ {{}}]
  /\ DefaultDays \in Seq(Days) /\ DefaultDays # <<>>
  /\ \A i, k \in DOMAIN DefaultDays : i # k => DefaultDays[i] # DefaultDays[k]
  /\ \A file \in Files : file \in Seq(PlanDto) /\ \A i \in DOMAIN file : Usable(file[i])
  /\ \A b \in Settings : /\ b.rows \in [Plan -> PlanDto \cup {None}]
                         /\ \A p \in Plan : b.rows[p] # None => Sound(b.rows[p])

VARIABLES
  setting,
  row,      \* of each identifier: the plan, or None
  born,     \* identifiers that were given to plans
  panel,    \* the squads the panel has
  form,     \* of each administrator: the copy he edits, or None
  job,      \* of each administrator: the command under way, or None
  edits, writes,
  overlapped  \* history: plans two of whose updates overlapped

vars == <<setting, row, born, panel, form, job, edits, writes, overlapped>>

-----------------------------------------------------------------------------
Identity == {i \in User \X {"telegram", "email"} : i[2] \in IdsOf[i[1]]}

NewDuration(days) == [days |-> days, order |-> 0, price |-> 1]

\* PlanDto() with the durations of configurator_getter.
NewPlan ==
  [name |-> Default, plain |-> [f \in Plain |-> 0], type |-> "BOTH", availability |-> "ALL",
   trial |-> FALSE, traffic |-> 100, device |-> 1, allowed |-> {}, squads |-> {},
   external |-> None, order |-> 0,
   durations |-> [i \in DOMAIN DefaultDays |-> NewDuration(DefaultDays[i])]]

Existing == {p \in Plan : row[p] # None}
Idle == [a \in Admin |-> None]

Init ==
  /\ setting \in Settings
  /\ row = setting.rows /\ born = Existing
  /\ panel = Squad
  /\ form = Idle /\ job = Idle
  /\ edits = 0 /\ writes = 0 /\ overlapped = {}

\* The elements of s at the places in S, in the order Before of the places.
Arranged(s, S, Before) ==
  [k \in 1 .. Cardinality(S) |->
     s[CHOOSE i \in S : Cardinality({j \in S : <<j, i>> \in Before}) = k - 1]]

\* The members of S by their keys; those with equal keys come in any order.
Listings(S, key) ==
  {s \in SetToSeqs(S) : \A i, j \in DOMAIN s : i < j => key[s[i]] <= key[s[j]]}

\* One up, the first one to the end (MovePlanUp, MoveDurationUp).
Up(s, i) == IF i = 1 THEN Tail(s) \o <<Head(s)>>
            ELSE [s EXCEPT ![i - 1] = s[i], ![i] = s[i - 1]]

-----------------------------------------------------------------------------
(* The form.  touched and based are history: the fields its handlers have set,  *)
(* and whether the row is still the one it was opened from.                     *)

Free(a) == a \in setting.admins /\ job[a] = None
Editing == {a \in Admin : Free(a) /\ form[a] # None}

Open(a, id, plan) ==
  form' = [form EXCEPT ![a] = [id |-> id, plan |-> plan, touched |-> {}, based |-> TRUE]]

\* configurator_getter without a copy in the dialog's data.
Create(a) ==
  /\ Free(a) /\ form[a] = None /\ "create" \in setting.kinds
  /\ Open(a, None, NewPlan)
  /\ UNCHANGED <<setting, row, born, panel, job, edits, writes, overlapped>>

\* on_plan_select: the durations come by their order.
Select(a, p) ==
  /\ Free(a) /\ form[a] = None /\ row[p] # None
  /\ LET durations == row[p].durations IN
     \E s \in Listings(DOMAIN durations, [i \in DOMAIN durations |-> durations[i].order]) :
       Open(a, p, [row[p] EXCEPT !.durations = [i \in DOMAIN s |-> durations[s[i]]]])
  /\ UNCHANGED <<setting, row, born, panel, job, edits, writes, overlapped>>

\* on_import_input with one plan: it becomes the copy of a new one.
ImportOne(a, file) ==
  /\ Free(a) /\ form[a] = None /\ "import" \in setting.kinds /\ Len(file) = 1
  /\ Open(a, None, file[1])
  /\ UNCHANGED <<setting, row, born, panel, job, edits, writes, overlapped>>

\* Back to the list: the stack is reset and the copy is gone.
Leave(a) ==
  /\ Free(a) /\ form[a] # None
  /\ form' = [form EXCEPT ![a] = None]
  /\ UNCHANGED <<setting, row, born, panel, job, edits, writes, overlapped>>

\* A handler of an administrator in Editing sets fields of his copy.
Change(a, kind, fields, plan) ==
  /\ kind \in setting.kinds /\ edits < setting.edits /\ plan # form[a].plan
  /\ form' = [form EXCEPT ![a].plan = plan, ![a].touched = @ \cup fields]
  /\ edits' = edits + 1
  /\ UNCHANGED <<setting, row, born, panel, job, writes, overlapped>>

\* UpdatePlanName: the name of no other plan.
Renames(name, id) == \A p \in Existing : row[p].name = name => p = id

NameInput(a, name) ==
  /\ Renames(name, form[a].id)
  /\ Change(a, "name", {"name"}, [form[a].plan EXCEPT !.name = name])

SetPlain(a, f, v) == Change(a, "plain", {"plain"}, [form[a].plan EXCEPT !.plain[f] = v])

DescriptionInput(a)  == SetPlain(a, "description", 1)
DescriptionRemove(a) == SetPlain(a, "description", 0)
TagInput(a)          == SetPlain(a, "tag", 1)
TagRemove(a)         == SetPlain(a, "tag", 0)
StrategySelect(a, v) == SetPlain(a, "strategy", v)
ActiveToggle(a)      == SetPlain(a, "active", 1 - form[a].plan.plain["active"])

TrialToggle(a) ==
  Change(a, "trial", {"trial"}, [form[a].plan EXCEPT !.trial = ~@])

AvailabilitySelect(a, availability) ==
  Change(a, "availability", {"availability"},
         [form[a].plan EXCEPT !.availability = availability])

\* Mutant: the type of both kinds gets no device.
Typed_traffic(plan, type) ==
  [plan EXCEPT !.type = type,
     !.traffic = IF Metered(type) /\ @ = 0 THEN 100 ELSE @,
     !.device = IF type = "DEVICES" /\ @ = 0 THEN 1 ELSE @]

\* UpdatePlanType: a limit that starts to count is not zero.
Typed(plan, type) ==
  [plan EXCEPT !.type = type,
     !.traffic = IF Metered(type) /\ @ = 0 THEN 100 ELSE @,
     !.device = IF PerDevice(type) /\ @ = 0 THEN 1 ELSE @]

TypeSelect(a, type) ==
  Change(a, "type", {"type", "traffic", "device"}, Typed(form[a].plan, type))

\* UpdatePlanTraffic and UpdatePlanDevice: a limit is positive.
Limited(plan, f, limit) == [plan EXCEPT ![f] = limit]

\* The configurator leads to the windows of the limits and of the allowed users for
\* plans that have them.
Buttons(plan) ==
  (IF Metered(plan.type) THEN {"traffic"} ELSE {}) \cup
  (IF PerDevice(plan.type) THEN {"devices"} ELSE {}) \cup
  (IF plan.availability = "ALLOWED" THEN {"allowed"} ELSE {})

TrafficInput(a, limit) ==
  /\ "traffic" \in Buttons(form[a].plan) /\ limit > 0
  /\ Change(a, "limits", {"traffic"}, Limited(form[a].plan, "traffic", limit))

DevicesInput(a, limit) ==
  /\ "devices" \in Buttons(form[a].plan) /\ limit > 0
  /\ Change(a, "limits", {"device"}, Limited(form[a].plan, "device", limit))

SetDurations(a, s) ==
  Change(a, "durations", {"durations"}, [form[a].plan EXCEPT !.durations = s])

DaysOf(s) == {s[i].days : i \in DOMAIN s}

\* AddPlanDuration: no duration twice; the order is the default's, zero.
WithDuration(s, days) == IF days \in DaysOf(s) THEN s ELSE Append(s, NewDuration(days))

\* RemovePlanDuration: never the last one.
WithoutDuration(s, days) ==
  IF Len(s) > 1
  THEN Arranged(s, {i \in DOMAIN s : s[i].days # days},
                {b \in (DOMAIN s) \X (DOMAIN s) : b[1] < b[2]})
  ELSE s

\* By their order, those of the same order as they come.
ByOrder(s) ==
  {b \in (DOMAIN s) \X (DOMAIN s) :
     \/ s[b[1]].order < s[b[2]].order
     \/ s[b[1]].order = s[b[2]].order /\ b[1] < b[2]}

\* MoveDurationUp: sorted, moved and numbered from one.
Moved(s, days) ==
  LET sorted == Arranged(s, DOMAIN s, ByOrder(s))
      moved == Up(sorted, Min({j \in DOMAIN s : sorted[j].days = days}))
  IN [j \in DOMAIN s |-> [moved[j] EXCEPT !.order = j]]

\* UpdatePlanPrice: of the first duration with these days.
Repriced(s, days, price) ==
  [s EXCEPT ![Min({j \in DOMAIN s : s[j].days = days})].price = price]

DurationInput(a, days)  == SetDurations(a, WithDuration(form[a].plan.durations, days))
DurationRemove(a, days) == SetDurations(a, WithoutDuration(form[a].plan.durations, days))
DurationMove(a, days) ==
  /\ days \in DaysOf(form[a].plan.durations)
  /\ SetDurations(a, Moved(form[a].plan.durations, days))
PriceInput(a, days, price) ==
  /\ days \in DaysOf(form[a].plan.durations)
  /\ SetDurations(a, Repriced(form[a].plan.durations, days, price))

\* AddAllowedUserToPlan: an identity is there once.
Allowing(plan, id) == [plan EXCEPT !.allowed = @ \cup {id}]

AllowedUserInput(a, id) ==
  /\ "allowed" \in Buttons(form[a].plan)
  /\ Change(a, "allowed", {"allowed"}, Allowing(form[a].plan, id))

AllowedUserRemove(a, id) ==
  /\ "allowed" \in Buttons(form[a].plan)
  /\ Change(a, "allowed", {"allowed"}, [form[a].plan EXCEPT !.allowed = @ \ {id}])

\* SanitizePlanSquads: what the panel no longer has is taken out.
Sanitized(plan) ==
  [plan EXCEPT !.squads = @ \cap panel, !.external = IF @ \in panel THEN @ ELSE None]

\* on_squads: not when the panel has none (CheckSquadsAvailable).
OpenSquads(a) ==
  /\ panel # {}
  /\ Change(a, "squads", {"squads", "external"}, Sanitized(form[a].plan))

InternalSquadSelect(a, s) ==
  /\ s \in panel
  /\ Change(a, "squads", {"squads"},
            [form[a].plan EXCEPT !.squads = IF s \in @ THEN @ \ {s} ELSE @ \cup {s}])

ExternalSquadSelect(a, s) ==
  /\ s \in panel
  /\ Change(a, "squads", {"external"},
            [form[a].plan EXCEPT !.external = IF s = @ THEN None ELSE s])

\* The panel's own administrators remove a squad.
SquadRemoved(s) ==
  /\ "squads" \in setting.kinds /\ s \in panel
  /\ panel' = panel \ {s}
  /\ UNCHANGED <<setting, row, born, form, job, edits, writes, overlapped>>

-----------------------------------------------------------------------------
(* The commands.  fresh is history: no other command has written what this one   *)
(* read.                                                                         *)

\* ... and what is put right.
Prepared(plan) ==
  [plan EXCEPT !.traffic = IF Metered(plan.type) THEN @ ELSE 0,
               !.device = IF PerDevice(plan.type) THEN @ ELSE 0,
               !.allowed = IF plan.availability = "ALLOWED" THEN @ ELSE {}]

\* The unique index of plans.name.
NameFree(name, S) == \A p \in S : row[p].name # name

\* A row that is being deleted is locked.
Deletes(a, p) == job[a] # None /\ job[a].kind = "delete" /\ job[a].plan = p /\ row[p] # None
Locked(p) == \E a \in Admin : Deletes(a, p)

Begin(a, kind, p, user, list) ==
  job' = [job EXCEPT ![a] =
    [kind |-> kind, plan |-> p, user |-> user, list |-> list, fresh |-> TRUE,
     loaded |-> row[p], orders |-> [q \in Existing |-> row[q].order],
     based |-> form[a] # None /\ form[a].based]]

\* After a's command wrote the rows S (and their content, or the order only): it is
\* done, and what others read is old.
Done(a, S, content, ordered) ==
  /\ job' = [x \in Admin |->
       IF x = a THEN None
       ELSE IF \/ job[x] = None
               \/ ~(content /\ job[x].kind \in {"commit", "toggle"} /\ job[x].plan \in S)
                  /\ ~(ordered /\ job[x].kind \in {"move", "delete"})
            THEN job[x] ELSE [job[x] EXCEPT !.fresh = FALSE]]
  /\ overlapped' = IF content /\ job[a].kind \in {"commit", "toggle"} /\ ~job[a].fresh
                   THEN overlapped \cup S ELSE overlapped

\* The forms after that: a's is closed if it was the command's, others' are old.
Closed(a, S) ==
  form' = [x \in Admin |->
    IF x = a THEN None
    ELSE IF form[x] # None /\ form[x].id \in S THEN [form[x] EXCEPT !.based = FALSE]
    ELSE form[x]]

Fail(a) ==
  /\ job' = [job EXCEPT ![a] = None]
  /\ UNCHANGED <<row, form, overlapped>>

\* The second click of on_plan_confirm; PlanDao.update reads the row.
ConfirmEdit(a) ==
  /\ Free(a) /\ form[a] # None /\ form[a].id \in Existing
  /\ Valid(form[a].plan) /\ writes < setting.writes
  /\ Begin(a, "commit", form[a].id, None, <<>>)
  /\ writes' = writes + 1
  /\ UNCHANGED <<setting, row, born, panel, form, edits, overlapped>>

\* The columns that differ from what was read, and all the durations: those read are
\* deleted, others stay.
Updated(p, j, new) ==
  [f \in DOMAIN new |->
     IF f = "durations"
     THEN IF j.fresh THEN new.durations ELSE new.durations \o row[p].durations
     ELSE IF new[f] # j.loaded[f] THEN new[f] ELSE row[p][f]]

\* The flush and the commit; a row that is gone, or a name that is taken, raises.
WriteEdit(a) ==
  LET j == job[a]
      new == Updated(j.plan, j, Prepared(form[a].plan))
  IN
  /\ j # None /\ j.kind = "commit" /\ ~Locked(j.plan)
  /\ IF j.plan \in Existing /\ NameFree(new.name, Existing \ {j.plan})
     THEN /\ row' = [row EXCEPT ![j.plan] = new]
          /\ Done(a, {j.plan}, TRUE, new.order # row[j.plan].order)
          /\ Closed(a, {j.plan})
     ELSE Fail(a)
  /\ UNCHANGED <<setting, born, panel, edits, writes>>

\* CommitPlan of a new plan: the name is looked up and the row inserted.
ConfirmNew(a, p) ==
  /\ Free(a) /\ form[a] # None /\ form[a].id = None
  /\ Valid(form[a].plan) /\ writes < setting.writes
  /\ p \notin born /\ NameFree(form[a].plan.name, Existing)
  /\ row' = [row EXCEPT ![p] = Prepared(form[a].plan)]
  /\ Done(a, {p}, FALSE, TRUE) /\ Closed(a, {p})
  /\ born' = born \cup {p} /\ writes' = writes + 1
  /\ UNCHANGED <<setting, panel, edits>>

\* CommitPlansBatch: every plan of the file is valid and its name new, or none is kept.
ImportBatch(a, file, ids) ==
  /\ Free(a) /\ form[a] = None /\ "import" \in setting.kinds /\ writes < setting.writes
  /\ Len(file) > 1 /\ ids \in Injection(DOMAIN file, Plan \ born)
  /\ \A i \in DOMAIN file :
       /\ Valid(file[i]) /\ NameFree(file[i].name, Existing)
       /\ \A k \in DOMAIN file : k # i => file[k].name # file[i].name
  /\ row' = [p \in Plan |->
       IF \E i \in DOMAIN file : ids[i] = p
       THEN Prepared(file[CHOOSE i \in DOMAIN file : ids[i] = p]) ELSE row[p]]
  /\ Done(a, Range(ids), FALSE, TRUE)
  /\ born' = born \cup Range(ids) /\ writes' = writes + 1
  /\ UNCHANGED <<setting, panel, form, edits>>

\* ToggleUserPlanAccess of a user in the list of plans, which may be an old one.
BeginToggle(a, p, u) ==
  /\ Free(a) /\ form[a] = None /\ "toggle" \in setting.kinds /\ writes < setting.writes
  /\ p \in Existing
  /\ Begin(a, "toggle", p, u, <<>>)
  /\ writes' = writes + 1
  /\ UNCHANGED <<setting, row, born, panel, form, edits, overlapped>>

\* All of the user's identities are taken off, or the Telegram ID, or else the address,
\* is added.
Toggled(allowed, u) ==
  LET own == {u} \X IdsOf[u] IN
  IF allowed \cap own # {} THEN allowed \ own
  ELSE allowed \cup {<<u, IF "telegram" \in IdsOf[u] THEN "telegram" ELSE "email">>}

\* Mutant: every column is written as it was read.
WriteToggle_whole(a) ==
  LET j == job[a] IN
  /\ j # None /\ j.kind = "toggle" /\ ~Locked(j.plan)
  /\ IF j.plan \in Existing
     THEN /\ row' = [row EXCEPT ![j.plan] =
                [j.loaded EXCEPT !.allowed = Toggled(@, j.user),
                                 !.durations = Updated(j.plan, j, j.loaded).durations]]
          /\ Done(a, {j.plan}, TRUE, FALSE)
          /\ Closed(a, {j.plan})
     ELSE Fail(a)
  /\ UNCHANGED <<setting, born, panel, edits, writes>>

\* PlanDao.update: the list is written; the session compares the other columns with
\* what it read itself, and leaves them.
WriteToggle(a) ==
  LET j == job[a]
      new == Updated(j.plan, j, [j.loaded EXCEPT !.allowed = Toggled(@, j.user)])
  IN
  /\ j # None /\ j.kind = "toggle" /\ ~Locked(j.plan)
  /\ IF j.plan \in Existing
     THEN /\ row' = [row EXCEPT ![j.plan] = new]
          /\ Done(a, {j.plan}, TRUE, FALSE)
          /\ Closed(a, {j.plan})
     ELSE Fail(a)
  /\ UNCHANGED <<setting, born, panel, edits, writes>>

Listed(S) == Listings(S, [p \in S |-> row[p].order])

\* MovePlanUp: all plans are read, in their order.
BeginMove(a, p) ==
  /\ Free(a) /\ form[a] = None /\ "move" \in setting.kinds /\ writes < setting.writes
  /\ p \in Existing
  /\ \E s \in Listed(Existing) :
       Begin(a, "move", p, None, Up(s, CHOOSE i \in DOMAIN s : s[i] = p))
  /\ writes' = writes + 1
  /\ UNCHANGED <<setting, row, born, panel, form, edits, overlapped>>

\* DeletePlan: the row is deleted, if another has not yet; the others are read.
BeginDelete(a) ==
  /\ Free(a) /\ form[a] # None /\ form[a].id # None /\ ~Locked(form[a].id)
  /\ "delete" \in setting.kinds /\ writes < setting.writes
  /\ \E s \in Listed(Existing \ {form[a].id}) : Begin(a, "delete", form[a].id, None, s)
  /\ writes' = writes + 1
  /\ UNCHANGED <<setting, row, born, panel, form, edits, overlapped>>

\* The places a command gives to plans whose order was another when they were read.
Places(j) ==
  {<<j.list[i], i>> : i \in {i \in DOMAIN j.list : j.orders[j.list[i]] # i}}

\* Mutant: numbered from zero.
Numbered_zero(j) ==
  [p \in Plan |->
     IF row[p] # None /\ \E i \in DOMAIN j.list : <<p, i>> \in Places(j)
     THEN [row[p] EXCEPT !.order = (CHOOSE i \in DOMAIN j.list : <<p, i>> \in Places(j)) - 1]
     ELSE row[p]]

\* set_order_index; a plan that is gone stays so.
Numbered(j) ==
  [p \in Plan |->
     IF row[p] # None /\ \E i \in DOMAIN j.list : <<p, i>> \in Places(j)
     THEN [row[p] EXCEPT !.order = CHOOSE i \in DOMAIN j.list : <<p, i>> \in Places(j)]
     ELSE row[p]]

\* a's renumbering waits for a row x is deleting.
Waits(a, x) ==
  /\ x # a
  /\ \E i \in DOMAIN job[a].list : \E p \in Plan :
       Deletes(x, p) /\ <<p, i>> \in Places(job[a])

WriteOrder(a) ==
  LET j == job[a] IN
  /\ j # None /\ j.kind \in {"move", "delete"}
  /\ \A x \in Admin : ~Waits(a, x)
  /\ row' = IF j.kind = "delete" THEN [Numbered(j) EXCEPT ![j.plan] = None]
            ELSE Numbered(j)
  /\ Done(a, {j.plan}, FALSE, TRUE) /\ Closed(a, Plan)
  /\ UNCHANGED <<setting, born, panel, edits, writes>>

\* Two deletions that wait for each other: the database ends one.
Deadlock(a) ==
  /\ job[a] # None /\ job[a].kind = "delete"
  /\ \E x \in Admin : Waits(a, x) /\ Waits(x, a)
  /\ Fail(a)
  /\ UNCHANGED <<setting, born, panel, edits, writes>>

Edit(a) ==
  \/ \E name \in Name : NameInput(a, name)
  \/ DescriptionInput(a) \/ DescriptionRemove(a) \/ TagInput(a) \/ TagRemove(a)
  \/ \E v \in {0, 1} : StrategySelect(a, v)
  \/ ActiveToggle(a) \/ TrialToggle(a)
  \/ \E availability \in {"ALL", "ALLOWED"} : AvailabilitySelect(a, availability)
  \/ \E type \in Type : TypeSelect(a, type)
  \/ \E limit \in {2, 200} : TrafficInput(a, limit) \/ DevicesInput(a, limit)
  \/ \E days \in Days : \/ DurationInput(a, days) \/ DurationRemove(a, days)
                        \/ DurationMove(a, days) \/ PriceInput(a, days, 2)
  \/ \E id \in Identity : AllowedUserInput(a, id) \/ AllowedUserRemove(a, id)
  \/ OpenSquads(a)
  \/ \E s \in Squad : InternalSquadSelect(a, s) \/ ExternalSquadSelect(a, s)

Command(a) ==
  \/ ConfirmEdit(a) \/ WriteEdit(a)
  \/ \E file \in Files : \E ids \in [DOMAIN file -> Plan] : ImportBatch(a, file, ids)
  \/ \E p \in Plan : \/ ConfirmNew(a, p) \/ BeginMove(a, p)
                     \/ \E u \in User : BeginToggle(a, p, u)
  \/ WriteToggle(a) \/ BeginDelete(a) \/ WriteOrder(a) \/ Deadlock(a)

Next ==
  \/ \E a \in Admin : \/ Create(a) \/ Leave(a)
                      \/ \E p \in Plan : Select(a, p)
                      \/ \E file \in Files : ImportOne(a, file)
                      \/ Command(a)
  \/ \E a \in Editing : Edit(a)
  \/ \E s \in Squad : SquadRemoved(s)

Spec == Init /\ [][Next]_vars

-----------------------------------------------------------------------------
\* Whatever the forms went through, stored plans are sound, unless two updates of one
\* overlapped: then its columns and durations may be a mixture.
PlansAreSound == \A p \in Existing \ overlapped : Sound(row[p])

Alike(f, x, y) == IF f = "durations" THEN ToSet(x[f]) = ToSet(y[f]) ELSE x[f] = y[f]
Changed(p) == {f \in DOMAIN row[p] : ~Alike(f, row[p], row'[p])}
PutRight(plan) == {f \in DOMAIN plan : plan[f] # Prepared(plan)[f]}

\* A command changes what its administrator changed and nothing else, even when it
\* overlaps another's: an edit the fields of a form that was up to date when it was
\* confirmed, a toggle the list, a move the order.  The durations are replaced by any
\* update, so one that overlaps may touch them.
WritesStayInside ==
  [][\A a \in Admin, p \in Plan :
       job[a] # None /\ job'[a] = None /\ row[p] # None /\ row'[p] # None =>
         \/ Changed(p) = {}
         \/ job[a].kind \in {"move", "delete"} /\ Changed(p) = {"order"}
         \/ /\ job[a].plan = p
            /\ Changed(p) \subseteq
                 (IF job[a].fresh THEN {} ELSE {"durations"}) \cup
                 (IF job[a].kind = "toggle" THEN {"allowed"}
                  ELSE IF job[a].based
                  THEN form[a].touched \cup PutRight(form[a].plan)
                  ELSE DOMAIN row[p])]_vars

\* A move, or a deletion the database did not break off, that overlaps nothing numbers the
\* plans from one, whatever orders new plans and old forms had left, and keeps the order of
\* the others.
MovesSettle ==
  [][\A a \in Admin :
       (/\ job[a] # None /\ job'[a] = None /\ job[a].kind \in {"move", "delete"}
        /\ job[a].fresh /\ (job[a].kind = "delete" => row'[job[a].plan] = None)) =>
         /\ {row'[p].order : p \in Existing'} = 1 .. Cardinality(Existing')
         /\ \A p, q \in Existing' \ {job[a].plan} :
              row[p].order < row[q].order => row'[p].order < row'[q].order]_vars
=============================================================================
