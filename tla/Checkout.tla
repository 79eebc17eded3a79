------------------------------ MODULE Checkout ------------------------------
(***************************************************************************)
(* How an order comes about: the purchase dialog of the bot, which keeps a *)
(* copy of the plan, what was chosen and the payments already created for  *)
(* a choice, and the requests of the web page, while administrators edit   *)
(* plans, gateways and discounts.                                          *)
(*                                                                         *)
(* A handler of the dialog is one step: it reads, creates the payment and  *)
(* commits; when it raises, the dialog keeps what it had.  What becomes of *)
(* an order that is paid is Payment's subject.  Amounts are in cents.      *)
(***************************************************************************)
EXTENDS Integers, Sequences, FiniteSets, FiniteSetsExt, SequencesExt

CONSTANTS
  PlanId,
  Content,       \* what a plan may say: specification, trial, offered, prices
  Starts,        \* what a run may start from: catalog, active, discount, owned
  Gateway, Currency,
  CurrencyOf,    \* of each gateway
  Stars,         \* the gateway the web page does not take
  Default,       \* the default currency of the settings
  Whole,         \* currencies without cents
  Gateways,      \* the orders in which gateways may be active
  Discounts,     \* the pairs of discounts a user may have
  MaxOrders, MaxEdits,
  None

ConstantsAssumption ==
  /\ CurrencyOf \in [Gateway -> Currency] /\ Default \in Currency /\ Whole \subseteq Currency
  /\ Gateways \subseteq Seq(Gateway)
  /\ \A p \in Content :
       /\ p = [spec |-> p.spec, trial |-> p.trial, offered |-> p.offered, price |-> p.price]
       /\ p.trial \in BOOLEAN /\ p.offered \in BOOLEAN
       /\ DOMAIN p.price # {} /\ DOMAIN p.price \subseteq Nat
       /\ \A d \in DOMAIN p.price, c \in Currency :
            /\ p.price[d][c] \in Nat \cup {None}
            /\ c \in Whole /\ p.price[d][c] # None => p.price[d][c] % 100 = 0  \* parse_price
  /\ None \notin Content \cup PlanId \cup Nat \cup {"NEW", "RENEW", "CHANGE"}
  /\ Discounts \subseteq [personal : Nat, purchase : Nat]
  /\ Starts \subseteq [catalog : [PlanId -> Content \cup {None}], active : Gateways,
                      discount : Discounts,
                      owned : [id : PlanId, spec : {p.spec : p \in Content}] \cup {None}]
  /\ MaxOrders \in Nat /\ MaxEdits \in Nat

VARIABLES
  catalog,    \* of each plan: its content, None when deleted
  active,     \* the active gateways, in order
  discount,   \* of the user
  owned,      \* the plan of his current subscription, and its specification
  orders,     \* the transactions, oldest first
  dialog,
  edits

vars == <<catalog, active, discount, owned, orders, dialog, edits>>

Type == {"NEW", "RENEW", "CHANGE"}
State == {"MAIN", "PLAN", "PLANS", "DURATION", "PAYMENT_METHOD", "CONFIRM", "SUCCESS"}
Days == UNION {DOMAIN p.price : p \in Content}
Copy == [id : PlanId, content : Content]
Owned == [id : PlanId, spec : {p.spec : p \in Content}]
Order == [plan : Copy, days : Days, gateway : Gateway, type : Type, percent : 0 .. 100,
          final : Nat, status : {"PENDING", "COMPLETED"}, recent : BOOLEAN]
Paying == [order : 1 .. MaxOrders, final : Nat, url : BOOLEAN]
Cached == [type : Type, days : Days, gateway : Gateway, payment : Paying]
Dialog == [state : State, plan : Copy \cup {None}, start : PlanId \cup {None},
           type : Type \cup {None}, days : Days \cup {None}, method : Gateway \cup {None},
           cache : SUBSET Cached, payment : Paying \cup {None}, onlyPlan : BOOLEAN,
           onlyDays : BOOLEAN, free : BOOLEAN]

\* Every variable keeps its type.
TypeOK ==
  /\ catalog \in [PlanId -> Content \cup {None}] /\ active \in Gateways
  /\ discount \in [personal : Nat, purchase : Nat] /\ owned \in Owned \cup {None}
  /\ orders \in Seq(Order) /\ Len(orders) <= MaxOrders
  /\ dialog \in Dialog
  /\ edits \in 0 .. MaxEdits

Fresh(state) ==
  [state |-> state, plan |-> None, start |-> None, type |-> None, days |-> None,
   method |-> None, cache |-> {}, payment |-> None, onlyPlan |-> FALSE, onlyDays |-> FALSE,
   free |-> FALSE]

Init ==
  /\ \E start \in Starts :
       /\ catalog = start.catalog /\ active = start.active
       /\ discount = start.discount /\ owned = start.owned
  /\ orders = <<>> /\ dialog = Fresh("MAIN") /\ edits = 0

-----------------------------------------------------------------------------
(* PricingService. *)

\* get_effective_discount: the larger one, a hundred at most.
Effective == Min({Max({discount.personal, discount.purchase}), 100})

\* Mutant: an amount that rounds to nothing stays nothing.
Rounded_free(x, c) ==
  IF c \in Whole THEN (x \div 10000) * 100
  ELSE x \div 100 + (IF x % 100 > 50 \/ (x % 100 = 50 /\ (x \div 100) % 2 = 1) THEN 1 ELSE 0)

\* apply_currency_rules of x hundredths of a cent: cut off to whole units, or rounded
\* to cents, a half to the even one; and never below the smallest.
Rounded(x, c) ==
  IF c \in Whole THEN Max({100, (x \div 10000) * 100})
  ELSE LET half == x % 100 = 50 /\ (x \div 100) % 2 = 1
       IN Max({1, x \div 100 + (IF x % 100 > 50 \/ half THEN 1 ELSE 0)})

\* calculate.
Cost(price, c, percent) ==
  IF price = 0 \/ percent = 100 THEN 0 ELSE Rounded(price * (100 - percent), c)

\* calculate_for_duration: at a hundred percent any currency's price will do.
Priced(content, days, c, percent) == percent = 100 \/ content.price[days][c] # None
CostOf(content, days, c, percent) ==
  IF content.price[days][c] = None THEN 0 ELSE Cost(content.price[days][c], c, percent)

Percent(content) == IF content.trial THEN 0 ELSE Effective

-----------------------------------------------------------------------------
(* CreatePayment: the orders afterwards, and what the caller is given. *)

Alike(o, id, days, g) ==
  /\ o.plan.id = id /\ o.days = days /\ o.gateway = g
  /\ o.status = "PENDING" /\ o.recent

\* get_recent_pending, asked for a free payment only.
Reusable(id, days, g) == {i \in DOMAIN orders : Alike(orders[i], id, days, g)}

Create(copy, days, g, type) ==
  LET percent == Percent(copy.content)
      final == CostOf(copy.content, days, CurrencyOf[g], percent)
      old == Reusable(copy.id, days, g)
      order == [plan |-> copy, days |-> days, gateway |-> g, type |-> type,
                percent |-> percent, final |-> final, status |-> "PENDING", recent |-> TRUE]
  IN IF final = 0 /\ old # {}
     THEN [orders |-> orders, payment |-> [order |-> Max(old), final |-> 0, url |-> FALSE]]
     ELSE [orders |-> Append(orders, order),
           payment |-> [order |-> Len(orders) + 1, final |-> final, url |-> final > 0]]

\* get_price raises when the plan has no price in the gateway's currency.
CanCreate(copy, days, g) ==
  Priced(copy.content, days, CurrencyOf[g], Percent(copy.content))

-----------------------------------------------------------------------------
(* The dialog.  dialog_data is kept from window to window; a start empties it. *)

Offered == {id \in PlanId : catalog[id] # None /\ catalog[id].offered /\ ~catalog[id].trial}
CopyOf(id) == [id |-> id, content |-> catalog[id]]
The(S) == CHOOSE x \in S : TRUE
Shown(d) == dialog' = d /\ UNCHANGED orders
Environment == <<catalog, active, edits>>
Rest == UNCHANGED <<Environment, discount, owned>>

\* duration_getter takes back that the choice is free.
Enter(d, state) ==
  [d EXCEPT !.state = state, !.free = IF state = "DURATION" THEN FALSE ELSE @]

OpenMain == Shown(Fresh("MAIN")) /\ Rest

\* A link to a plan; plan_getter decides on the type when it is shown.
OpenPlan(id) ==
  /\ id \in Offered
  /\ Shown([Fresh("PLAN") EXCEPT !.start = id, !.onlyPlan = TRUE,
              !.type = IF owned = None THEN "NEW"
                       ELSE IF owned = [id |-> id, spec |-> catalog[id].spec] THEN "RENEW"
                       ELSE "CHANGE"])
  /\ Rest

TrialOffered(id) == catalog[id] # None /\ catalog[id].offered /\ catalog[id].trial /\ owned = None
FirstDays(content) == Min(DOMAIN content.price)

\* on_get_trial of a trial that is paid for.
OpenTrial(id) ==
  /\ TrialOffered(id)
  /\ catalog[id].price[FirstDays(catalog[id])][Default] \notin {0, None}
  /\ Shown([Fresh("PAYMENT_METHOD") EXCEPT !.plan = CopyOf(id), !.type = "NEW",
              !.days = FirstDays(catalog[id]), !.onlyPlan = TRUE, !.onlyDays = TRUE])
  /\ Rest

\* The payment created for the same choice before, or a new one.
PaymentChosen(d, g) ==
  LET old == {c \in d.cache : c.type = d.type /\ c.days = d.days /\ c.gateway = g}
      made == Create(d.plan, d.days, g, d.type)
      chosen == [d EXCEPT !.method = g, !.state = "CONFIRM"]
      cached == [type |-> d.type, days |-> d.days, gateway |-> g, payment |-> made.payment]
  IN IF old # {} THEN Shown([chosen EXCEPT !.payment = The(old).payment])
     ELSE /\ CanCreate(d.plan, d.days, g) /\ Len(made.orders) <= MaxOrders
          /\ orders' = made.orders
          /\ dialog' = [chosen EXCEPT !.payment = made.payment, !.cache = @ \cup {cached}]

\* on_duration_select: a single gateway, or a price of nothing, leads to the payment.
DurationChosen(d, days) ==
  LET price == d.plan.content.price[days][Default]
      free == Cost(price, Default, Effective) = 0
      chosen == [d EXCEPT !.days = days, !.free = free]
  IN /\ price # None
     /\ IF Len(active) = 1 \/ free
        THEN active # <<>> /\ PaymentChosen(chosen, active[1])
        ELSE Shown([chosen EXCEPT !.method = None, !.state = "PAYMENT_METHOD"])

\* on_subscription_plans: the choices made before are forgotten.
Chosen(type) == [dialog EXCEPT !.type = type, !.days = None, !.cache = {}]
Renews(type) == type = "RENEW" /\ owned # None
\* The plan taken without asking: for a renewal the same plan, as it is now.
Resolved(type) ==
  IF Renews(type) THEN {owned.id} \cap Offered
  ELSE IF Cardinality(Offered) = 1 THEN Offered ELSE {}
Unavailable(type) == Offered = {} \/ active = <<>> \/ (Renews(type) /\ owned.id \notin Offered)

\* The buttons of the menu, as it was shown: NEW may be left from before a purchase.
TypeShown(type) ==
  /\ dialog.state = "MAIN"
  /\ IF type = "NEW" THEN owned = None \/ \E i \in DOMAIN orders : orders[i].status = "COMPLETED"
     ELSE owned # None

SelectType(type) ==
  /\ TypeShown(type)
  /\ Unavailable(type) \/ Resolved(type) = {}
  /\ IF Unavailable(type) THEN Shown(Chosen(type))
     ELSE Shown([Chosen(type) EXCEPT !.state = "PLANS", !.onlyPlan = FALSE, !.onlyDays = FALSE])
  /\ Rest

\* With a single plan, its single duration and a single gateway are taken as well.
SelectTypeAuto(type) ==
  /\ TypeShown(type) /\ ~Unavailable(type) /\ Resolved(type) # {}
  /\ LET copy == CopyOf(The(Resolved(type)))
         days == FirstDays(copy.content)
         one == [Chosen(type) EXCEPT !.plan = copy, !.onlyPlan = TRUE]
         auto == [one EXCEPT !.days = days, !.onlyDays = TRUE]
         made == Create(copy, days, active[1], type)
     IN IF Renews(type) \/ Cardinality(DOMAIN copy.content.price) > 1
        THEN Shown(Enter(one, "DURATION"))
        ELSE IF Len(active) > 1 THEN Shown([auto EXCEPT !.state = "PAYMENT_METHOD"])
        ELSE /\ CanCreate(copy, days, active[1]) /\ Len(made.orders) <= MaxOrders
             /\ orders' = made.orders
             /\ dialog' = [auto EXCEPT !.state = "CONFIRM", !.method = active[1],
                                       !.payment = made.payment]
  /\ Rest

\* What was offered when the window was shown may have been edited since.
Seen(S, x) == x \in S \/ edits > 0

\* Mutant: the payments created for another plan are kept.
SelectPlan_keeps(id) ==
  /\ \/ dialog.state = "PLANS" /\ Seen(Offered, id)
     \/ dialog.state = "PLAN" /\ id = dialog.start
  /\ IF catalog[id] = None THEN Shown(Fresh("MAIN"))
     ELSE LET d == [dialog EXCEPT !.plan = CopyOf(id), !.days = None, !.method = None,
                                  !.onlyDays = Cardinality(DOMAIN catalog[id].price) = 1]
          IN IF d.onlyDays THEN DurationChosen(d, FirstDays(catalog[id]))
             ELSE Shown(Enter(d, "DURATION"))
  /\ Rest

\* on_plan_select reads the plan again; a single duration is taken at once.
SelectPlan(id) ==
  /\ \/ dialog.state = "PLANS" /\ Seen(Offered, id)
     \/ dialog.state = "PLAN" /\ id = dialog.start
  /\ IF catalog[id] = None THEN Shown(Fresh("MAIN"))
     ELSE LET d == [dialog EXCEPT !.plan = CopyOf(id), !.days = None, !.method = None,
                                  !.cache = {},
                                  !.onlyDays = Cardinality(DOMAIN catalog[id].price) = 1]
          IN IF d.onlyDays THEN DurationChosen(d, FirstDays(catalog[id]))
             ELSE Shown(Enter(d, "DURATION"))
  /\ Rest

SelectDuration(days) ==
  /\ dialog.state = "DURATION" /\ days \in DOMAIN dialog.plan.content.price
  /\ DurationChosen(dialog, days)
  /\ Rest

SelectMethod(g) ==
  /\ dialog.state = "PAYMENT_METHOD" /\ Seen(ToSet(active), g)
  /\ PaymentChosen(dialog, g)
  /\ Rest

\* The windows' buttons back.
Back(state) ==
  /\ \/ state = "MAIN" /\ dialog.state = "PLANS"
     \/ state = "PLANS" /\ ~dialog.onlyPlan
        /\ dialog.state \in {"DURATION", "PAYMENT_METHOD", "CONFIRM"}
     \/ state = "DURATION" /\ dialog.state = "PAYMENT_METHOD" /\ ~dialog.onlyDays
     \/ state = "DURATION" /\ dialog.state = "CONFIRM"
        /\ ((Len(active) = 1 /\ ~dialog.onlyDays) \/ dialog.free)
     \/ state = "PAYMENT_METHOD" /\ dialog.state = "CONFIRM" /\ Len(active) # 1 /\ ~dialog.free
  /\ Shown(Enter(dialog, state))
  /\ Rest

-----------------------------------------------------------------------------
(* Orders are completed: the discount of one purchase is used up. *)

Complete(all, i) ==
  /\ orders' = [all EXCEPT ![i].status = "COMPLETED"]
  /\ owned' = [id |-> all[i].plan.id, spec |-> all[i].plan.content.spec]
  /\ discount' = [discount EXCEPT !.purchase = 0]
  /\ UNCHANGED Environment

\* on_get_subscription, shown when there is no address to pay at.
Get ==
  LET i == dialog.payment.order IN
  /\ dialog.state = "CONFIRM" /\ ~dialog.payment.url
  /\ orders[i].status = "PENDING" /\ orders[i].gateway = dialog.method
  /\ Complete(orders, i)
  /\ dialog' = Fresh("SUCCESS")

\* The gateway reports a payment; the window that follows may fail to open.
Paid(i) ==
  /\ orders[i].status = "PENDING" /\ orders[i].final > 0
  /\ Complete(orders, i)
  /\ dialog' \in {dialog, Fresh("SUCCESS")}

\* purchase, extend and trial/purchase of the web page: nothing is kept between
\* requests, and what is free is completed at once.
WebOrder(id, days, g, type) ==
  LET copy == CopyOf(id)
      made == Create(copy, days, g, type)
  IN
  /\ \/ id \in Offered /\ type = (IF owned = None THEN "NEW" ELSE "CHANGE")
     \/ id \in Offered /\ type = "RENEW" /\ owned = [id |-> id, spec |-> catalog[id].spec]
     \/ /\ TrialOffered(id) /\ type = "NEW" /\ days = FirstDays(catalog[id])
        /\ catalog[id].price[days][Default] \notin {0, None}
  /\ g \in ToSet(active) \ {Stars} /\ days \in DOMAIN catalog[id].price
  /\ catalog[id].price[days][CurrencyOf[g]] # None
  /\ Len(made.orders) <= MaxOrders
  /\ IF made.payment.final = 0
     THEN Complete(made.orders, made.payment.order) /\ dialog' \in {dialog, Fresh("SUCCESS")}
     ELSE orders' = made.orders /\ UNCHANGED dialog /\ Rest

\* A quarter of an hour passes for the first i orders.
Age(i) ==
  /\ orders[i].recent
  /\ orders' = [k \in DOMAIN orders |-> IF k <= i THEN [orders[k] EXCEPT !.recent = FALSE]
                                        ELSE orders[k]]
  /\ UNCHANGED dialog /\ Rest

-----------------------------------------------------------------------------
(* Administrators, and rewards. *)
Edit == edits < MaxEdits /\ edits' = edits + 1 /\ UNCHANGED <<owned, orders, dialog>>

EditPlan(id, content) ==
  /\ catalog[id] \notin {None, content}
  /\ catalog' = [catalog EXCEPT ![id] = content]
  /\ Edit /\ UNCHANGED <<active, discount>>

EditGateways(order) == active' = order /\ Edit /\ UNCHANGED <<catalog, discount>>
EditDiscount(pair) == discount' = pair /\ Edit /\ UNCHANGED <<catalog, active>>

Next ==
  \/ OpenMain
  \/ \E id \in PlanId : OpenPlan(id) \/ OpenTrial(id) \/ SelectPlan(id)
  \/ \E type \in Type : SelectType(type) \/ SelectTypeAuto(type)
  \/ \E days \in Days : SelectDuration(days)
  \/ \E g \in Gateway : SelectMethod(g)
  \/ \E state \in State : Back(state)
  \/ Get
  \/ \E i \in DOMAIN orders : Paid(i) \/ Age(i)
  \/ \E id \in PlanId, days \in Days, g \in Gateway, type \in Type : WebOrder(id, days, g, type)
  \/ \E id \in PlanId, content \in Content \cup {None} : EditPlan(id, content)
  \/ \E order \in Gateways : EditGateways(order)
  \/ \E pair \in Discounts : EditDiscount(pair)

Spec == Init /\ [][Next]_vars

-----------------------------------------------------------------------------
\* What the last window shows is what has been ordered: the plan as it was read, the
\* duration, the gateway, the type and the amount, whatever was chosen before and
\* edited meanwhile.  A payment of nothing may take over a pending order for the same
\* plan, duration and gateway, made for another type or before an edit.
ShownIsOrdered ==
  dialog.state = "CONFIRM" =>
    LET o == orders[dialog.payment.order] IN
    /\ o.plan.id = dialog.plan.id /\ o.days = dialog.days /\ o.gateway = dialog.method
    /\ dialog.payment.url => /\ o.plan = dialog.plan /\ o.type = dialog.type
                             /\ o.final = dialog.payment.final

\* Only a price of nothing or a discount of a hundred percent makes an order free; what
\* is charged never exceeds the price; and a larger discount never costs more.
AmountFollowsRules ==
  \A i, j \in DOMAIN orders :
    LET o == orders[i]
        price == o.plan.content.price[o.days][CurrencyOf[o.gateway]]
        same == [orders[j] EXCEPT !.percent = o.percent, !.final = o.final, !.type = o.type,
                                  !.status = o.status, !.recent = o.recent] = o
    IN /\ o.final = 0 <=> o.percent = 100 \/ price = 0
       /\ price # None => o.final <= price
       /\ same /\ orders[j].percent >= o.percent => orders[j].final <= o.final
=============================================================================
