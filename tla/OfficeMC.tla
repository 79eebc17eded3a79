------------------------------ MODULE OfficeMC ------------------------------
(***************************************************************************)
(* What buyers bring and meet, for TLC: the rewards of referrals           *)
(* ("referral"), the purchase dialog ("checkout") and the payment gateways *)
(* ("gateways").  They share no state: a behaviour moves one of them       *)
(* (part), the others rest as they began.                                  *)
(***************************************************************************)
EXTENDS Referral, TLC

CONSTANTS
  u1, u2, u3, t1, t2,                  \* users and transactions of Referral
  A, B, rub, usd, stars, card,         \* plans, currencies and gateways of Checkout,
  PlanId, Content, Starts, Method, Currency, CurrencyOf, Stars, Default, Whole, Methods,
  Discounts, MaxOrders,                \* ... and its constants
  Admin, Payment, Worker, Beginnings,  \* those of Gateways,
  w1, w2                               \* ... and its workers

VARIABLES
  part,
  catalog, active, discount, owned, orders, dialog, revised,
  begun, row, configuring, command, touched, adapter, payment, stored, method, signs,
  notice, hook, queued, answered, unread, torn, shuffled, crossed

-----------------------------------------------------------------------------
(* u1 brings u2, who may bring u3: both pay.  The settings cover both types, both *)
(* strategies, one and two levels, and a level without a value.                   *)

Purchase(payer, type, final, duration) ==
  [payer |-> payer, type |-> type, final |-> final, duration |-> duration, trial |-> FALSE]

Setting(level, first, type, strategy, one, two) ==
  [enable |-> TRUE, level |-> level, first |-> first,
   reward |-> [type |-> type, strategy |-> strategy,
               value |-> [l \in 1 .. 2 |-> IF l = 1 THEN one ELSE two]]]

Purchases == t1 :> Purchase(u3, "NEW", 1000, 30) @@ t2 :> Purchase(u2, "RENEW", 250, 0)
SettingsOfRuns ==
  {Setting(2, FALSE, "POINTS", "PERCENT", 20, 10),
   Setting(2, FALSE, "EXTRA_DAYS", "PERCENT", 10, 20),
   Setting(2, FALSE, "EXTRA_DAYS", "AMOUNT", 1, 2),
   Setting(2, TRUE, "POINTS", "AMOUNT", None, 2),
   Setting(1, TRUE, "POINTS", "AMOUNT", 1, 2)}

-----------------------------------------------------------------------------
(* Two plans and a trial, a currency without cents and one with.  A price of    *)
(* nothing, one missing and one of a cent are among the second plan's.          *)

Money(r, u) == rub :> r @@ usd :> u
Plan(spec, trial, price) == [spec |-> spec, trial |-> trial, offered |-> TRUE, price |-> price]
One == Plan(1, FALSE, 30 :> Money(300, 101))
Two == Plan(2, FALSE, 30 :> Money(300, None) @@ 90 :> Money(0, 1))
Trial == Plan(1, TRUE, 30 :> Money(100, 1))

Pairs == {[personal |-> 0, purchase |-> 50], [personal |-> 100, purchase |-> 0]}

\* A user without a subscription and a trial; one with a subscription, two plans and
\* one gateway; one with two gateways and a plan of two durations.
Start(a, b, order, own) ==
  [catalog |-> (A :> a @@ B :> b), active |-> order, owned |-> own,
   discount |-> [personal |-> 0, purchase |-> 50]]

Contents == {One, Two, Trial}
Situations ==
  {Start(One, Trial, <<card>>, None),
   Start(One, Two, <<card>>, [id |-> A, spec |-> 1]),
   Start(Two, None, <<card, stars>>, [id |-> A, spec |-> 2])}
Rates == stars :> rub @@ card :> usd
MethodOrders == {<<card>>, <<card, stars>>}

Buying == INSTANCE Checkout WITH Gateway <- Method, Gateways <- Methods, edits <- revised

-----------------------------------------------------------------------------
(* Before the first start; each gateway alone, with one payment, one notice and one     *)
(* change of a credential; two notices of one payment, notices of two; a toggle, resets *)
(* and inputs of two administrators; the order, from rows made before Wata was added.   *)

Types ==
  {"TELEGRAM_STARS", "YOOKASSA", "YOOMONEY", "VALUTIX", "CRYPTOMUS", "HELEKET", "CRYPTOPAY",
   "FREEKASSA", "MULENPAY", "PAYMASTER", "PLATEGA", "ROBOKASSA", "URLPAY", "WATA"}
Noticed(g) ==
  [about |-> g, rows |-> "ready", windows |-> {"MAIN", "SETTINGS"}, moved |-> {},
   fields |-> {"api_key", "secret_key", "merchant_login"}, edits |-> 1, admins |-> {u1},
   payments |-> {t1}, workers |-> {w1}, words |-> 1, unsaid |-> {}]
Fresh ==
  [about |-> "WATA", rows |-> "none", windows |-> {"MAIN", "SETTINGS"}, moved |-> {},
   fields |-> {"api_key"}, edits |-> 1, admins |-> {u1}, payments |-> {}, workers |-> {},
   words |-> 0, unsaid |-> {}]
Chances ==
  {Fresh} \cup {Noticed(g) : g \in Types} \cup
  {[Noticed("CRYPTOMUS") EXCEPT !.words = 2, !.edits = 0],
   [Noticed("PLATEGA") EXCEPT !.payments = {t1, t2}, !.workers = {w1, w2}, !.edits = 0,
                              !.windows = {}, !.unsaid = {"waiting", "CANCELED", "CHARGEBACKED"}],
   [Noticed("PLATEGA") EXCEPT !.admins = {u1, u2}, !.payments = {}, !.edits = 3,
                              !.fields = {"api_key", "payment_method"}],
   [Noticed("YOOKASSA") EXCEPT !.rows = "old", !.windows = {"MAIN", "PLACEMENT", "CURRENCY"},
                               !.moved = {"TELEGRAM_STARS", "YOOKASSA", "WATA"}, !.edits = 2,
                               !.admins = {u1, u2}, !.payments = {}]}

Gating == INSTANCE Gateways WITH
  dialog <- configuring, edits <- touched

ASSUME ConstantsAssumption /\ Buying!ConstantsAssumption /\ Gating!ConstantsAssumption

-----------------------------------------------------------------------------
checkout == <<catalog, active, discount, owned, orders, dialog, revised>>

gateways == <<begun, row, configuring, command, touched, adapter, payment, stored, method,
              signs, notice, hook, queued, answered, unread, torn, shuffled, crossed>>

ReferMove == part = "referral" /\ UNCHANGED <<part, checkout, gateways>>
BuyMove   == part = "checkout" /\ UNCHANGED <<part, vars, gateways>>
GateMove  == part = "gateways" /\ UNCHANGED <<part, vars, checkout>>

OfficeInit ==
  /\ part \in {"referral", "checkout", "gateways"}
  /\ Init /\ Buying!Init /\ Gating!Init
  /\ part # "referral" => settings.level = 1 /\ registered = {u1} /\ payable = {}
  /\ part # "checkout" => owned = None
  /\ part # "gateways" => begun = Fresh

ReferNext ==
  \/ \E u \in User :
       \/ \E r \in User : ReferMove /\ Attach(u, r)
       \/ ReferMove /\ Resubscribe(u)
       \/ \E amount \in {-1, 1} : ReferMove /\ Edit(u, amount)
  \/ \E t \in Txn : \/ ReferMove /\ Assign(t)
                    \/ ReferMove /\ CreateReward(t)
                    \/ ReferMove /\ ReadBalance(t)
                    \/ ReferMove /\ Grant(t)
                    \/ ReferMove /\ MarkIssued(t)
                    \/ ReferMove /\ Raise(t)
                    \/ ReferMove /\ Stop(t)

BuyNext ==
  \/ BuyMove /\ Buying!OpenMain
  \/ \E id \in PlanId : \/ BuyMove /\ Buying!OpenPlan(id)
                        \/ BuyMove /\ Buying!OpenTrial(id)
                        \/ BuyMove /\ Buying!SelectPlan(id)
  \/ \E content \in Content \cup {None} : BuyMove /\ Buying!EditPlan(A, content)
  \/ \E type \in Buying!Type : \/ BuyMove /\ Buying!SelectType(type)
                               \/ BuyMove /\ Buying!SelectTypeAuto(type)
  \/ \E days \in Buying!Days : BuyMove /\ Buying!SelectDuration(days)
  \/ \E g \in Method : BuyMove /\ Buying!SelectMethod(g)
  \/ \E state \in Buying!State : BuyMove /\ Buying!Back(state)
  \/ BuyMove /\ Buying!Get
  \/ \E i \in DOMAIN orders : \/ BuyMove /\ Buying!Paid(i)
                              \/ BuyMove /\ Buying!Age(i)
  \/ \E id \in PlanId, days \in Buying!Days, g \in Method, type \in Buying!Type :
       BuyMove /\ Buying!WebOrder(id, days, g, type)
  \/ \E order \in Methods : BuyMove /\ Buying!EditGateways(order)
  \/ \E pair \in Discounts : BuyMove /\ Buying!EditDiscount(pair)

GateNext ==
  \/ GateMove /\ Gating!CreateDefaults
  \/ \E a \in Admin :
       \/ \E w \in begun.windows : GateMove /\ Gating!SwitchTo(a, w)
       \/ GateMove /\ Gating!Select(a)
       \/ \E f \in begun.fields : GateMove /\ Gating!FieldSelect(a, f)
       \/ \E v \in Gating!Value : GateMove /\ Gating!BeginInput(a, v)
       \/ GateMove /\ Gating!WriteInput(a)
       \/ GateMove /\ Gating!BeginReset(a)
       \/ GateMove /\ Gating!WriteReset(a)
       \/ GateMove /\ Gating!BeginToggle(a)
       \/ GateMove /\ Gating!WriteToggle(a)
       \/ \E g \in begun.moved : GateMove /\ Gating!BeginMove(a, g)
       \/ GateMove /\ Gating!WriteMove(a)
       \/ \E p \in Payment : GateMove /\ Gating!TestPayment(a, p)
  \/ \E p \in Payment :
       \/ GateMove /\ Gating!Ask(p)
       \/ GateMove /\ Gating!Call(p)
       \/ GateMove /\ Gating!Commit(p)
       \/ GateMove /\ \E word \in Gating!Words, named \in BOOLEAN : Gating!Says(p, word, named)
  \/ GateMove /\ Gating!Rotate
  \/ \E w \in Worker :
       \/ \E n \in notice : \/ GateMove /\ Gating!Receive(w, n)
                            \/ GateMove /\ Gating!LookupRaises(w, n)
       \/ GateMove /\ Gating!Handle(w)
       \/ GateMove /\ Gating!HandleWata(w)
       \/ GateMove /\ Gating!SyncMethod(w)
       \/ GateMove /\ Gating!Enqueue(w)

OfficeNext == ReferNext \/ BuyNext \/ GateNext
OfficeSpec == OfficeInit /\ [][OfficeNext]_<<part, vars, checkout, gateways>>

-----------------------------------------------------------------------------
(* What TLC checks of the others, as they state it. *)

\* What the last window shows is what was ordered (routers/subscription/handlers.py).
ShownIsOrdered == Buying!ShownIsOrdered

\* Amounts follow the price and the discount (services/pricing.py).
AmountFollowsRules == Buying!AmountFollowsRules

\* A gateway that is offered is configured and the order is total, unless two commands met;
\* a notice read and answered became the task that finds its transaction, with the gateway's
\* verdict; a method is stored with its own payment, unless webhooks of one adapter object
\* met (configuration.py, payments.py, the adapters).
GatewaysAreTrue ==
  part = "gateways" =>
    /\ Gating!ActiveIsConfigured
    /\ Gating!OrderIsTotal
    /\ Gating!AnsweredIsQueued
    /\ Gating!MethodIsOwn
=============================================================================
