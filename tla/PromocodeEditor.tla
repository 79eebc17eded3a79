--------------------------- MODULE PromocodeEditor ---------------------------
(***************************************************************************)
(* The dialog in which administrators make and edit promocodes.  The draft *)
(* is a copy in the dialog's data; windows that depend on its type change  *)
(* it field by field, and it is stored when it is confirmed: inserted, or  *)
(* written over the row it was loaded from (PromocodeDao.update).          *)
(*                                                                         *)
(* The two clicks of a confirmation are one step, and so is a command that *)
(* is one statement.  An update reads the row in one step and writes it in *)
(* another, since another administrator's may commit in between.  Codes    *)
(* are compared regardless of their case, as they are stored.              *)
(***************************************************************************)
EXTENDS Naturals, FiniteSets

CONSTANTS
  Admin, Promocode,  \* Promocode: identifiers a row may get
  Code, Plan, Days,
  Reward,            \* what may be typed as one
  Beginnings,        \* rows, the windows used, what may be chosen in them, bounds
  None

Discounts == {"PERSONAL_DISCOUNT", "PURCHASE_DISCOUNT"}
Type == Discounts \cup {"DURATION", "TRAFFIC", "DEVICES", "SUBSCRIPTION"}

Window == {"CONFIGURATOR", "CODE", "TYPE", "REWARD", "PLAN", "PLAN_DURATION", "AVAILABILITY",
           "EXPIRES", "MAX_ACTIVATIONS"}

\* A promocode; expires and limit are only there or not.
PromocodeDto ==
  [code : Code, active : BOOLEAN, reusable : BOOLEAN, type : Type, reward : Reward \cup {None},
   plan : (Plan \X Days) \cup {None}, availability : {"ALL", "NEW"}, expires : {1, None},
   limit : {1, None}]

\* An administrator's dialog, and an update under way.
Form == [id : Promocode \cup {None}, promo : PromocodeDto, window : Window,
         plan : Plan \cup {None}, touched : SUBSET {"active", "reusable", "code", "type", "reward",
                                                    "plan", "availability", "expires", "limit"},
         based : BOOLEAN]
Job == [loaded : PromocodeDto, fresh : BOOLEAN, based : BOOLEAN]

\* What an activation relies on: a promocode for a subscription has a plan and no amount,
\* any other an amount and no plan, and a discount is a percentage.
Sound(promo) ==
  /\ IF promo.type = "SUBSCRIPTION" THEN promo.plan # None /\ promo.reward = None
                                   ELSE promo.plan = None /\ promo.reward # None
  /\ promo.type \in Discounts => promo.reward \in 1..100

\* The promocodes a behaviour begins with are sound.
ConstantsAssumption ==
  /\ Reward \subseteq Nat
  /\ None \notin Promocode \cup Plan \cup Reward \cup (Plan \X Days) \cup PromocodeDto
                    \cup Form \cup Job
  /\ \A b \in Beginnings :
       /\ b.types \subseteq Type /\ b.rows \in [Promocode -> PromocodeDto \cup {None}]
       /\ \A p \in Promocode : b.rows[p] # None => Sound(b.rows[p])

VARIABLES
  begun,
  row,      \* of each identifier: the promocode, or None
  born,     \* identifiers that were given to promocodes
  offered,  \* the plans an administrator is offered, each with a duration
  form,     \* of each administrator: his dialog, None in the list of promocodes
  job,      \* of each administrator: the row his update has read, or None
  edits, writes,
  overlapped  \* history: promocodes two of whose updates overlapped

vars == <<begun, row, born, offered, form, job, edits, writes, overlapped>>

Existing == {p \in Promocode : row[p] # None}
Codes == {row[p].code : p \in Existing}

Init ==
  /\ begun \in Beginnings
  /\ row = begun.rows /\ born = Existing
  /\ offered = Plan \X Days
  /\ form = [a \in Admin |-> None] /\ job = [a \in Admin |-> None]
  /\ edits = 0 /\ writes = 0 /\ overlapped = {}

-----------------------------------------------------------------------------
(* Opening a draft.  touched and based are history: the fields its handlers have *)
(* set, and whether the row is still the one it was loaded from.                 *)

Free(a) == a \in begun.admins /\ job[a] = None
In(a, w) == Free(a) /\ form[a] # None /\ form[a].window = w

Open(a, id, promo) ==
  form' = [form EXCEPT ![a] = [id |-> id, promo |-> promo, window |-> "CONFIGURATOR",
                               plan |-> None, touched |-> {}, based |-> TRUE]]

\* Mutant: a flag of the row is left out of the draft.
Loaded_single(promo) == [promo EXCEPT !.reusable = FALSE]

\* retort.dump and load.
Loaded(promo) == promo

\* on_promo_select: a promocode deleted since the list was shown leads nowhere.
Select(a, p) ==
  /\ Free(a) /\ form[a] = None /\ row[p] # None
  /\ Open(a, p, Loaded(row[p]))
  /\ UNCHANGED <<begun, row, born, offered, job, edits, writes, overlapped>>

\* on_create_promo, with a code that is generated until it is new.
Create(a, code) ==
  /\ Free(a) /\ form[a] = None /\ begun.creates /\ code \notin Codes
  /\ Open(a, None, [code |-> code, active |-> TRUE, reusable |-> FALSE, type |-> "DURATION",
                    reward |-> None, plan |-> None, availability |-> "ALL", expires |-> None,
                    limit |-> None])
  /\ UNCHANGED <<begun, row, born, offered, job, edits, writes, overlapped>>

-----------------------------------------------------------------------------
(* Windows. *)

\* The configurator's buttons that lead to a window; that to the plans asks for them first.
Buttons(promo) ==
  {"CODE", "TYPE", "AVAILABILITY", "EXPIRES", "MAX_ACTIVATIONS"}
    \cup (IF promo.type = "SUBSCRIPTION" THEN {} ELSE {"REWARD"})

\* Where the back button of a window leads.
BackOf(w) == IF w = "PLAN_DURATION" THEN "PLAN" ELSE "CONFIGURATOR"

Shows(a, w) ==
  /\ form' = [form EXCEPT ![a].window = w]
  /\ UNCHANGED <<begun, row, born, offered, job, edits, writes, overlapped>>

SwitchTo(a, w) ==
  In(a, "CONFIGURATOR") /\ w \in Buttons(form[a].promo) \cap begun.windows /\ Shows(a, w)

\* on_plan_open.
PlanOpen(a) ==
  /\ In(a, "CONFIGURATOR") /\ form[a].promo.type = "SUBSCRIPTION" /\ offered # {}
  /\ Shows(a, "PLAN")

Back(a) ==
  /\ Free(a) /\ form[a] # None /\ form[a].window # "CONFIGURATOR"
  /\ Shows(a, BackOf(form[a].window))

\* Back to the list resets the stack.
Leave(a) ==
  /\ In(a, "CONFIGURATOR")
  /\ form' = [form EXCEPT ![a] = None]
  /\ UNCHANGED <<begun, row, born, offered, job, edits, writes, overlapped>>

\* A handler loads the draft, sets fields, saves it and leads to a window.
Change(a, fields, promo, w) ==
  /\ edits < begun.edits
  /\ form' = [form EXCEPT ![a].promo = promo, ![a].touched = @ \cup fields, ![a].window = w]
  /\ edits' = edits + 1
  /\ UNCHANGED <<begun, row, born, offered, job, writes, overlapped>>

ToggleActive(a) ==
  /\ In(a, "CONFIGURATOR") /\ begun.toggles
  /\ Change(a, {"active"}, [form[a].promo EXCEPT !.active = ~@], "CONFIGURATOR")

ToggleReusable(a) ==
  /\ In(a, "CONFIGURATOR") /\ begun.toggles
  /\ Change(a, {"reusable"}, [form[a].promo EXCEPT !.reusable = ~@], "CONFIGURATOR")

CodeRegenerate(a, code) ==
  /\ In(a, "CODE") /\ code \notin Codes
  /\ Change(a, {"code"}, [form[a].promo EXCEPT !.code = code], "CODE")

\* on_code_input: whether another has the code is looked up when it is stored.
CodeInput(a, code) ==
  /\ In(a, "CODE")
  /\ Change(a, {"code"}, [form[a].promo EXCEPT !.code = code], "CONFIGURATOR")

\* Mutant: the reward survives a change of type.
Typed_keeps(promo, type) ==
  [promo EXCEPT !.type = type, !.plan = IF type = "SUBSCRIPTION" THEN @ ELSE None]

\* on_type_select: a reward means something else for another type.
Typed(promo, type) ==
  [promo EXCEPT !.type = type, !.reward = None,
                !.plan = IF type = "SUBSCRIPTION" THEN @ ELSE None]

TypeSelect(a, type) ==
  /\ In(a, "TYPE") /\ type \in begun.types
  /\ Change(a, {"type", "reward", "plan"}, Typed(form[a].promo, type), "CONFIGURATOR")

\* on_reward_input: a discount is a percentage.
RewardInput(a, reward) ==
  /\ In(a, "REWARD")
  /\ form[a].promo.type \in Discounts => reward \in 1..100
  /\ Change(a, {"reward"}, [form[a].promo EXCEPT !.reward = reward], "CONFIGURATOR")

\* on_plan_select, of the plans shown, which may be gone.
PlanSelect(a, plan) ==
  /\ In(a, "PLAN")
  /\ form' = [form EXCEPT ![a].plan = plan, ![a].window = "PLAN_DURATION"]
  /\ UNCHANGED <<begun, row, born, offered, job, edits, writes, overlapped>>

\* on_plan_duration_select: a duration that has gone since it was shown is ignored.
PlanDurationSelect(a, days) ==
  LET plan == form[a].plan IN
  /\ In(a, "PLAN_DURATION") /\ <<plan, days>> \in offered
  /\ Change(a, {"plan", "reward"},
            [form[a].promo EXCEPT !.plan = <<plan, days>>, !.reward = None], "CONFIGURATOR")

AvailabilitySelect(a, availability) ==
  /\ In(a, "AVAILABILITY")
  /\ Change(a, {"availability"}, [form[a].promo EXCEPT !.availability = availability],
            "CONFIGURATOR")

\* on_expires_input, of a moment that has not passed, and on_expires_reset.
ExpiresInput(a) ==
  /\ In(a, "EXPIRES")
  /\ Change(a, {"expires"}, [form[a].promo EXCEPT !.expires = 1], "CONFIGURATOR")
ExpiresReset(a) ==
  /\ In(a, "EXPIRES") /\ form[a].promo.expires # None
  /\ Change(a, {"expires"}, [form[a].promo EXCEPT !.expires = None], "CONFIGURATOR")

MaxActivationsInput(a) ==
  /\ In(a, "MAX_ACTIVATIONS")
  /\ Change(a, {"limit"}, [form[a].promo EXCEPT !.limit = 1], "CONFIGURATOR")
MaxActivationsReset(a) ==
  /\ In(a, "MAX_ACTIVATIONS") /\ form[a].promo.limit # None
  /\ Change(a, {"limit"}, [form[a].promo EXCEPT !.limit = None], "CONFIGURATOR")

\* Others take plans off the shop.
PlanGone(plan) ==
  /\ begun.plansGo /\ plan \in offered
  /\ offered' = offered \ {plan}
  /\ UNCHANGED <<begun, row, born, form, job, edits, writes, overlapped>>

-----------------------------------------------------------------------------
(* The commands.  fresh is history: nobody has written the row since it was read. *)

\* Mutant: a subscription needs no plan.
Complete_reward(promo) == promo.type = "SUBSCRIPTION" \/ promo.reward # None

\* is_promo_complete.
Complete(promo) ==
  IF promo.type = "SUBSCRIPTION" THEN promo.plan # None ELSE promo.reward # None

\* Others' forms and updates of a row that was written are old.
Wrote(a, p) ==
  /\ form' = [x \in Admin |->
       IF x = a THEN None
       ELSE IF form[x] # None /\ form[x].id = p THEN [form[x] EXCEPT !.based = FALSE]
       ELSE form[x]]
  /\ job' = [x \in Admin |->
       IF x = a THEN None
       ELSE IF job[x] # None /\ form[x].id = p THEN [job[x] EXCEPT !.fresh = FALSE]
       ELSE job[x]]

\* Mutant: the expiry is left out as well.
Stored_forever(promo) == [promo EXCEPT !.active = TRUE, !.reusable = FALSE, !.expires = None]

\* CreatePromocode: on_promo_confirm hands over neither of the flags.
Stored(promo) == [promo EXCEPT !.active = TRUE, !.reusable = FALSE]

\* A code that is taken, or a reward of nothing, is refused and the form stays.
ConfirmNew(a, p) ==
  LET promo == form[a].promo IN
  /\ In(a, "CONFIGURATOR") /\ form[a].id = None /\ writes < begun.writes
  /\ Complete(promo) /\ promo.code \notin Codes
  /\ promo.type \notin {"SUBSCRIPTION", "DURATION", "DEVICES"} => promo.reward >= 1
  /\ p \notin born
  /\ row' = [row EXCEPT ![p] = Stored(promo)]
  /\ born' = born \cup {p} /\ writes' = writes + 1
  /\ Wrote(a, p)
  /\ UNCHANGED <<begun, offered, edits, overlapped>>

\* UpdatePromocode reads the row; that it is gone is reported as an update.
ConfirmEdit(a) ==
  LET p == form[a].id IN
  /\ In(a, "CONFIGURATOR") /\ p # None /\ writes < begun.writes /\ Complete(form[a].promo)
  /\ IF p \in Existing
     THEN job' = [job EXCEPT ![a] = [loaded |-> row[p], fresh |-> TRUE,
                                             based |-> form[a].based]] /\ UNCHANGED form
     ELSE form' = [form EXCEPT ![a] = None] /\ UNCHANGED job
  /\ writes' = writes + 1
  /\ UNCHANGED <<begun, row, born, offered, edits, overlapped>>

\* Mutant: the whole draft is written.
Updated_whole(promo, loaded, now) == promo

\* The session writes what differs from what it read.
Updated(promo, loaded, now) ==
  [f \in DOMAIN promo |-> IF promo[f] # loaded[f] THEN promo[f] ELSE now[f]]

\* A row that is gone, or a code that is taken, raises and ends the dialog.
WriteEdit(a) ==
  LET p == form[a].id
      new == Updated(form[a].promo, job[a].loaded, row[p])
  IN
  /\ job[a] # None
  /\ IF p \in Existing /\ \A q \in Existing \ {p} : row[q].code # new.code
     THEN /\ row' = [row EXCEPT ![p] = new]
          /\ overlapped' = IF job[a].fresh THEN overlapped ELSE overlapped \cup {p}
          /\ Wrote(a, p)
     ELSE /\ job' = [job EXCEPT ![a] = None] /\ form' = [form EXCEPT ![a] = None]
          /\ UNCHANGED <<row, overlapped>>
  /\ UNCHANGED <<begun, born, offered, edits, writes>>

\* DeletePromocode, of a row that may be gone already.
Delete(a) ==
  /\ In(a, "CONFIGURATOR") /\ form[a].id # None /\ writes < begun.writes
  /\ row' = [row EXCEPT ![form[a].id] = None]
  /\ Wrote(a, form[a].id)
  /\ writes' = writes + 1
  /\ UNCHANGED <<begun, born, offered, edits, overlapped>>

Next ==
  \/ \E a \in Admin :
       \/ \E p \in Promocode : Select(a, p) \/ ConfirmNew(a, p)
       \/ \E c \in Code : Create(a, c) \/ CodeRegenerate(a, c) \/ CodeInput(a, c)
       \/ \E w \in begun.windows : SwitchTo(a, w)
       \/ PlanOpen(a) \/ Back(a) \/ Leave(a) \/ ToggleActive(a) \/ ToggleReusable(a)
       \/ \E type \in Type : TypeSelect(a, type)
       \/ \E reward \in Reward : RewardInput(a, reward)
       \/ \E plan \in Plan : PlanSelect(a, plan)
       \/ \E days \in Days : PlanDurationSelect(a, days)
       \/ \E availability \in {"ALL", "NEW"} : AvailabilitySelect(a, availability)
       \/ ExpiresInput(a) \/ ExpiresReset(a)
       \/ MaxActivationsInput(a) \/ MaxActivationsReset(a)
       \/ ConfirmEdit(a) \/ WriteEdit(a) \/ Delete(a)
  \/ \E plan \in Plan \X Days : PlanGone(plan)

Spec == Init /\ [][Next]_vars

-----------------------------------------------------------------------------
\* Whatever the forms went through, stored promocodes are sound, unless two updates of one
\* overlapped: then its columns may be a mixture (promocodes/handlers.py).
PromocodesAreSound == \A p \in Existing \ overlapped : Sound(row[p])

Differing(x, y) == {f \in DOMAIN x : x[f] # y[f]}

\* A new promocode is what its form showed, apart from the two flags; a save changes what
\* its administrator touched, if the form was up to date when it was confirmed.
SavesStayInside ==
  [][\A p \in Promocode : row'[p] # row[p] /\ row'[p] # None =>
       \E a \in Admin :
         /\ form[a] # None /\ form'[a] = None
         /\ IF row[p] = None
            THEN Differing(row'[p], form[a].promo) \subseteq {"active", "reusable"}
            ELSE /\ form[a].id = p
                 /\ job[a].based => Differing(row'[p], row[p]) \subseteq form[a].touched]_vars
=============================================================================
