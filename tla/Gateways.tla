------------------------------ MODULE Gateways ------------------------------
(***************************************************************************)
(* The payment gateways: their rows, the dialog that configures them, and  *)
(* what their adapters make of a payment and of the gateway's notices.     *)
(*                                                                         *)
(* A command of the dialog reads its rows in one step and writes the       *)
(* columns and settings it changed in another.  A payment is created in    *)
(* three: the adapter is looked up, the gateway called, the row committed. *)
(* A webhook reads the row, waits for the body, and, for Platega, for the  *)
(* transaction it writes to.  The factory keeps one adapter object, which  *)
(* all share who look it up, and makes another one when the row differs    *)
(* from what the object was made of.                                       *)
(***************************************************************************)
EXTENDS Naturals, Sequences, FiniteSets

CONSTANTS
  Admin, Payment, Worker,
  Beginnings,      \* where a run starts: the gateway it is about, how the rows are,
                   \* who does what, and bounds
  None

VARIABLES
  begun,
  row,       \* payment_gateways: of each type its row, or None before it is created
  dialog,    \* of each administrator: window, gateway and field chosen, was the field set
  command,   \* of each administrator: the command under way and what it read, or None
  edits,     \* commands so far
  adapter,   \* of begun.about: the row the latest object was made of, and what each object
             \* remembers, the latest one last
  payment,   \* of each payment: its creation, and what has become of it at the gateway
  stored,    \* transactions: the identifier a payment is stored by, or None
  method,    \* transactions.payment_method
  signs,     \* the key the gateway signs with
  notice,    \* notices of the gateway that were not answered with 200 yet
  hook,      \* of each worker: the webhook it handles, or None
  queued,    \* tasks on the stream
  answered, unread, torn, shuffled, crossed    \* history

vars == <<begun, row, dialog, command, edits, adapter, payment, stored, method, signs,
          notice, hook, queued, answered, unread, torn, shuffled, crossed>>
config == <<row, dialog, command, edits, torn, shuffled>>
money == <<payment, stored, signs>>
hooks == <<method, notice, hook, queued, answered, unread, crossed>>

-----------------------------------------------------------------------------
(* The adapters: the settings that must be there, those the gateway asks for when a  *)
(* payment is created, those a notice is verified by, the identifier kept of a new   *)
(* payment and the one read off a notice (the adapter's own or the gateway's), what  *)
(* the words of a notice stand for, and words that are answered and left alone.      *)

Adapting(needs, calls, checks, keeps, reads, verdict, ignored) ==
  [needs |-> needs, calls |-> calls, checks |-> checks, keeps |-> keeps, reads |-> reads,
   verdict |-> verdict, ignored |-> ignored]

Verdict(paid, failed, returned) ==
  [w \in paid \cup failed \cup returned |->
     IF w \in paid THEN "COMPLETED" ELSE IF w \in failed THEN "CANCELED" ELSE "REFUNDED"]

\* Telegram calls no webhook for its Stars.
TelegramStars == Adapting({}, {}, {}, "own", "own", Verdict({}, {}, {}), {})

\* Any notice from the gateway's networks is taken.
Yookassa ==
  Adapting({"shop_id", "api_key", "customer", "vat_code"}, {"shop_id", "api_key"}, {},
           "theirs", "theirs", Verdict({"succeeded"}, {"canceled"}, {}), {})

\* Its notices are payments, the payment's label is the adapter's.
Yoomoney ==
  Adapting({"wallet_id", "secret_key"}, {"wallet_id"}, {"secret_key"},
           "own", "own", Verdict({"payment"}, {}, {}), {})

\* Mutant: the notice's externalId, which the adapter made up, instead of its id.
Valutix_external ==
  Adapting({"api_key"}, {"api_key"}, {"api_key"}, "theirs", "own",
           Verdict({"COMPLETED"}, {"CANCELED", "FAILED", "EXPIRED"}, {"CHARGEBACK"}),
           {"CREATED", "PENDING"})

\* The order is named by the gateway, whatever identifier it was sent.
Valutix ==
  Adapting({"api_key"}, {"api_key"}, {"api_key"}, "theirs", "theirs",
           Verdict({"COMPLETED"}, {"CANCELED", "FAILED", "EXPIRED"}, {"CHARGEBACK"}),
           {"CREATED", "PENDING"})

Cryptomus ==
  Adapting({"merchant_id", "api_key"}, {"merchant_id", "api_key"}, {"api_key"}, "own", "own",
           Verdict({"paid", "paid_over"}, {"cancel"}, {}), {"confirm_check"})

\* Cryptomus at another address.
Heleket == Cryptomus

CryptoPay ==
  Adapting({"api_key"}, {"api_key"}, {"api_key"}, "own", "own",
           Verdict({"paid"}, {"expired"}, {}), {})

\* Created with the key, verified by the shop and the second secret word.
FreeKassa ==
  Adapting({"shop_id", "api_key", "secret_word_2", "payment_system_id", "customer_email",
            "customer_ip"},
           {"shop_id", "api_key"}, {"shop_id", "secret_word_2"}, "own", "own",
           Verdict({"payment"}, {}, {}), {})

\* Signs what it creates; its notices come unsigned.
MulenPay ==
  Adapting({"api_key", "secret_key", "shop_id", "vat_code"},
           {"api_key", "secret_key", "shop_id"}, {}, "own", "own",
           Verdict({"success"}, {"cancel"}, {}), {})

\* MulenPay with signed notices.
UrlPay == [MulenPay EXCEPT !.checks = {"shop_id", "secret_key"}]

PayMaster ==
  Adapting({"merchant_id", "api_key"}, {"merchant_id", "api_key"}, {}, "theirs", "theirs",
           Verdict({"Settled", "Authorized"}, {"Cancelled", "Rejected"}, {}), {})

\* The payment method may be left open.
Platega ==
  Adapting({"merchant_id", "api_key"}, {"merchant_id", "api_key"}, {"merchant_id", "api_key"},
           "theirs", "theirs", Verdict({"CONFIRMED"}, {"CANCELED"}, {"CHARGEBACKED"}), {})

\* A payment is a signed address: the gateway is not called.
Robokassa ==
  Adapting({"merchant_login", "password1", "password2"}, {"merchant_login", "password1"},
           {"password2"}, "own", "own", Verdict({"payment"}, {}, {}), {})

\* Verified by the gateway's public key (VerifyKey).
Wata ==
  Adapting({"api_key"}, {"api_key"}, {}, "own", "own", Verdict({"Paid"}, {"Declined"}, {}), {})

\* The place of a type in PaymentGatewayType.
Enum ==
  <<"TELEGRAM_STARS", "YOOKASSA", "YOOMONEY", "VALUTIX", "CRYPTOMUS", "HELEKET", "CRYPTOPAY",
    "FREEKASSA", "MULENPAY", "PAYMASTER", "PLATEGA", "ROBOKASSA", "URLPAY", "WATA">>
Gateway == {Enum[i] : i \in DOMAIN Enum}
Rank(g) == CHOOSE i \in DOMAIN Enum : Enum[i] = g

\* GATEWAY_MAP.
Adapter(g) ==
  CASE g = "TELEGRAM_STARS" -> TelegramStars [] g = "YOOKASSA" -> Yookassa
    [] g = "YOOMONEY" -> Yoomoney   [] g = "VALUTIX" -> Valutix
    [] g = "CRYPTOMUS" -> Cryptomus [] g = "HELEKET" -> Heleket
    [] g = "CRYPTOPAY" -> CryptoPay [] g = "FREEKASSA" -> FreeKassa
    [] g = "MULENPAY" -> MulenPay   [] g = "PAYMASTER" -> PayMaster
    [] g = "PLATEGA" -> Platega     [] g = "ROBOKASSA" -> Robokassa
    [] g = "URLPAY" -> UrlPay       [] g = "WATA" -> Wata

\* What may be set without being needed.
Optional(g) == {"display_name"} \cup (IF g = "PLATEGA" THEN {"payment_method"} ELSE {})
Field(g) == Adapter(g).needs \cup Optional(g)
Value == {"right", "wrong"}

\* is_configured.
Configured(g, r) == \A f \in Adapter(g).needs : r.settings[f] # None
Right(settings, fields) == \A f \in fields : settings[f] = "right"

-----------------------------------------------------------------------------
About == begun.about
Up == \A g \in Gateway : row[g] # None

\* What CreateDefaultPaymentGateway makes of a type.
NewRow(g) ==
  [active |-> g = "TELEGRAM_STARS", index |-> Rank(g),
   settings |-> [f \in Field(g) |-> None]]

\* All it needs is right.
InUse(g) ==
  [NewRow(g) EXCEPT
     !.active = TRUE,
     !.settings = [f \in Field(g) |-> IF f \in Adapter(g).needs THEN "right" ELSE None]]

Closed == [window |-> "MAIN", gateway |-> None, field |-> None, set |-> FALSE]
NewObject == [method |-> None, key |-> None]
NewPayment == [step |-> "none", settings |-> None, outcome |-> "due", said |-> {}]

\* get_instance of the factory.
Lookup ==
  IF adapter.made = row[About] THEN adapter
  ELSE [made |-> row[About], object |-> Append(adapter.object, NewObject)]

ConstantsAssumption ==
  /\ None \notin Payment \cup Worker \cup Admin \cup Gateway \cup Value
  /\ \A g \in Gateway :
       None \notin [active : BOOLEAN, index : Nat, settings : [Field(g) -> Value \cup {None}]]
  /\ None \notin [id : [payment : Payment, whose : {"own", "theirs"}],
                  status : {"COMPLETED", "CANCELED", "REFUNDED"}]
  /\ \A b \in Beginnings :
       /\ b.about \in Gateway /\ b.admins \subseteq Admin /\ b.payments \subseteq Payment
       /\ b.edits \in Nat /\ b.moved \subseteq Gateway /\ b.rows \in {"none", "ready", "old"}

\* Nothing was created yet; the gateway is in use; the rows are those of a release without
\* Wata, with the Stars moved to the end.
Rows(b) ==
  [g \in Gateway |->
     CASE b.rows = "ready" -> IF g = b.about THEN InUse(g) ELSE NewRow(g)
       [] b.rows = "old" /\ g # "WATA" ->
            [NewRow(g) EXCEPT !.index = IF g = "TELEGRAM_STARS" THEN Len(Enum) - 1 ELSE @ - 1]
       [] OTHER -> None]

Init ==
  /\ begun \in Beginnings
  /\ row = Rows(begun)
  /\ dialog = [a \in Admin |-> Closed] /\ command = [a \in Admin |-> None]
  /\ edits = 0
  /\ adapter = [made |-> None, object |-> <<>>]
  /\ payment = [p \in Payment |-> NewPayment]
  /\ stored = [p \in Payment |-> None] /\ method = [p \in Payment |-> None]
  /\ signs = "old"
  /\ notice = {} /\ hook = [w \in Worker |-> None] /\ queued = {}
  /\ answered = {} /\ unread = {} /\ torn = {} /\ shuffled = FALSE /\ crossed = {}

\* Startup creates the rows of types that are new, and then orders all of them anew.
CreateDefaults ==
  /\ ~Up
  /\ row' = [g \in Gateway |->
       IF row[g] = None THEN NewRow(g)
       ELSE IF row[g].index # Rank(g) THEN [row[g] EXCEPT !.index = Rank(g)]
       ELSE row[g]]
  /\ UNCHANGED <<begun, dialog, command, edits, torn, shuffled, money, adapter, hooks>>

-----------------------------------------------------------------------------
(* The dialog: one tap of an administrator at a time. *)

Free(a) == a \in begun.admins /\ command[a] = None /\ Up
In(a, w) == Free(a) /\ dialog[a].window = w
Shows(a, d) == dialog' = [dialog EXCEPT ![a] = d]
Here(a) == dialog[a].gateway

\* A command of a begins with what it read.
Begins(a, c) ==
  /\ edits < begun.edits /\ edits' = edits + 1
  /\ command' = [command EXCEPT ![a] = c]
  /\ UNCHANGED <<begun, row, dialog, torn, shuffled, money, adapter, hooks>>

\* A command of a has written these rows and leaves the dialog at d.
Ends(a, rows, d) ==
  /\ row' = rows /\ Shows(a, d)
  /\ command' = [command EXCEPT ![a] = None]
  /\ UNCHANGED <<begun, edits, money, adapter, hooks>>

Turns(a, d) ==
  /\ Shows(a, d)
  /\ UNCHANGED <<begun, row, command, edits, torn, shuffled, money, adapter, hooks>>

\* SwitchTo of the windows: to the order and the currency, and back.
SwitchTo(a, w) ==
  /\ Free(a) /\ w \in begun.windows
  /\ \/ dialog[a].window = "MAIN" /\ w \in {"PLACEMENT", "CURRENCY"}
     \/ dialog[a].window \in {"PLACEMENT", "CURRENCY", "SETTINGS"} /\ w = "MAIN"
     \/ dialog[a].window = "FIELD" /\ w = "SETTINGS"
  /\ Turns(a, [dialog[a] EXCEPT !.window = w])

Select(a) ==
  /\ In(a, "MAIN") /\ "SETTINGS" \in begun.windows
  /\ Turns(a, [dialog[a] EXCEPT !.window = "SETTINGS", !.gateway = About])

\* The window of a field offers its reset if field_getter finds it set.
FieldSelect(a, f) ==
  /\ In(a, "SETTINGS") /\ f \in Field(Here(a)) \cap begun.fields
  /\ Turns(a, [dialog[a] EXCEPT !.window = "FIELD", !.field = f,
                                !.set = row[Here(a)].settings[f] # None])

Back(a) == [dialog[a] EXCEPT !.window = "SETTINGS"]

BeginInput(a, v) ==
  /\ In(a, "FIELD")
  /\ Begins(a, [op |-> "input", gateway |-> Here(a), read |-> row[Here(a)], value |-> v])

\* Only the field that changed is merged into the settings; nothing if none did.
WriteInput(a) ==
  LET c == command[a]  f == dialog[a].field IN
  /\ c # None /\ c.op = "input"
  /\ Ends(a, IF c.value = c.read.settings[f] THEN row
             ELSE [row EXCEPT ![c.gateway].settings[f] = c.value],
          Back(a))
  /\ UNCHANGED <<torn, shuffled>>

\* What the command read of its gateway has been changed by another.
Raced(c) == LET r == row[c.gateway] IN r.active # c.read.active \/ r.settings # c.read.settings

BeginReset(a) ==
  /\ In(a, "FIELD") /\ dialog[a].set
  /\ Begins(a, [op |-> "reset", gateway |-> Here(a), read |-> row[Here(a)]])

\* Mutant: the gateway stays active.
ResetRow_active(g, f, read, r) ==
  IF read.settings[f] = None THEN r ELSE [r EXCEPT !.settings[f] = None]

\* A gateway that was active and lacks the field now is switched off.
ResetRow(g, f, read, r) ==
  LET after == [read EXCEPT !.settings[f] = None]
      off == read.active /\ ~Configured(g, after) IN
  IF read.settings[f] = None /\ ~off THEN r
  ELSE [r EXCEPT !.settings[f] = IF read.settings[f] = None THEN @ ELSE None,
                 !.active = IF off THEN FALSE ELSE @]

WriteReset(a) ==
  LET c == command[a] IN
  /\ c # None /\ c.op = "reset"
  /\ Ends(a, [row EXCEPT ![c.gateway] = ResetRow(c.gateway, dialog[a].field, c.read, @)], Back(a))
  /\ torn' = IF Raced(c) THEN torn \cup {c.gateway} ELSE torn
  /\ UNCHANGED shuffled

\* A gateway that lacks a setting can neither be switched on nor off.
BeginToggle(a) ==
  /\ In(a, "MAIN") /\ Configured(About, row[About])
  /\ Begins(a, [op |-> "toggle", gateway |-> About, read |-> row[About]])

WriteToggle(a) ==
  LET c == command[a] IN
  /\ c # None /\ c.op = "toggle"
  /\ Ends(a, [row EXCEPT ![c.gateway].active = ~c.read.active], dialog[a])
  /\ torn' = IF Raced(c) THEN torn \cup {c.gateway} ELSE torn
  /\ UNCHANGED shuffled

BeginMove(a, g) ==
  /\ In(a, "PLACEMENT") /\ g \in begun.moved
  /\ Begins(a, [op |-> "move", gateway |-> g, read |-> row])

Place(rows, g) ==
  1 + Cardinality({h \in Gateway : \/ rows[h].index < rows[g].index
                                   \/ rows[h].index = rows[g].index /\ Rank(h) < Rank(g)})

\* Mutant: the first one goes to the end, and the others stay where they were.
Moved_end(rows, g) ==
  LET k == Place(rows, g) IN
  [h \in Gateway |->
     LET n == Place(rows, h) IN
     IF k = 1 THEN (IF h = g THEN Cardinality(Gateway) ELSE n)
     ELSE IF h = g THEN k - 1 ELSE IF n = k - 1 THEN k ELSE n]

\* One up, the first one to the end.
Moved(rows, g) ==
  LET k == Place(rows, g) IN
  [h \in Gateway |->
     LET n == Place(rows, h) IN
     IF k = 1 THEN (IF h = g THEN Cardinality(Gateway) ELSE n - 1)
     ELSE IF h = g THEN k - 1 ELSE IF n = k - 1 THEN k ELSE n]

\* Rows that got another place are written.
WriteMove(a) ==
  LET c == command[a] IN
  /\ c # None /\ c.op = "move"
  /\ LET place == Moved(c.read, c.gateway) IN
     Ends(a, [h \in Gateway |-> IF place[h] = c.read[h].index THEN row[h]
                                ELSE [row[h] EXCEPT !.index = place[h]]], dialog[a])
  /\ shuffled' = (shuffled \/ \E h \in Gateway : row[h].index # c.read[h].index)
  /\ UNCHANGED torn

-----------------------------------------------------------------------------
(* Payments through the gateway the behaviour is about. *)

\* GetPaymentGatewayInstance finds it active and configured.
Usable == Up /\ row[About].active /\ Configured(About, row[About])

Pays(p, changes) == payment' = [payment EXCEPT ![p] = changes]

Ask(p) ==
  /\ p \in begun.payments /\ payment[p].step = "none" /\ Usable
  /\ Pays(p, [payment[p] EXCEPT !.step = "asked", !.settings = row[About].settings])
  /\ adapter' = Lookup
  /\ UNCHANGED <<begun, config, stored, signs, hooks>>

\* on_gateway_test asks like a buyer does.
TestPayment(a, p) == In(a, "MAIN") /\ Configured(About, row[About]) /\ Ask(p)

\* The gateway takes a call that carries its own credentials; an adapter that makes no
\* call is answered by nobody.
Call(p) ==
  /\ payment[p].step = "asked"
  /\ \/ /\ Right(payment[p].settings, Adapter(About).calls) \/ About = "ROBOKASSA"
        /\ Pays(p, [payment[p] EXCEPT !.step = "made"])
     \/ Pays(p, [payment[p] EXCEPT !.step = "failed"])
  /\ UNCHANGED <<begun, config, stored, signs, adapter, hooks>>

Name(p, whose) == [payment |-> p, whose |-> whose]
Kept(p) == Name(p, Adapter(About).keeps)

Commit(p) ==
  /\ payment[p].step = "made" /\ stored[p] = None
  /\ stored' = [stored EXCEPT ![p] = Kept(p)]
  /\ UNCHANGED <<begun, config, payment, signs, adapter, hooks>>

-----------------------------------------------------------------------------
(* The gateway (external): what becomes of a payment and what it says of it. *)

Meaning(word) ==
  CASE word \in {"succeeded", "paid", "paid_over", "success", "Settled", "Authorized",
                 "CONFIRMED", "COMPLETED", "Paid", "payment"} -> "COMPLETED"
    [] word \in {"canceled", "cancel", "expired", "Cancelled", "Rejected", "CANCELED",
                 "FAILED", "EXPIRED", "Declined"} -> "CANCELED"
    [] word \in {"CHARGEBACKED", "CHARGEBACK"} -> "REFUNDED"
    [] OTHER -> "due"

\* "waiting" is a word the adapter does not know.
Words == DOMAIN Adapter(About).verdict \cup Adapter(About).ignored \cup {"waiting"}

Follows(old, new) ==
  \/ old = "due"
  \/ old = new
  \/ old = "COMPLETED" /\ new = "REFUNDED"

\* A payment that reached the gateway is paid, given up or charged back, and the gateway
\* says so; its notices may leave out the method it was paid by.
Says(p, word, named) ==
  /\ payment[p].step = "made" /\ Right(payment[p].settings, Adapter(About).calls)
  /\ About # "TELEGRAM_STARS"
  /\ Cardinality(payment[p].said) < begun.words /\ (named => About = "PLATEGA")
  /\ word \in Words \ (begun.unsaid \cup payment[p].said)
  /\ Follows(payment[p].outcome, Meaning(word))
  /\ Pays(p, [payment[p] EXCEPT !.outcome = Meaning(word), !.said = @ \cup {word}])
  /\ notice' = notice \cup {[payment |-> p, word |-> word,
                             method |-> IF named THEN p ELSE None]}
  /\ UNCHANGED <<begun, config, stored, signs, adapter, method, hook, queued, answered,
                 unread, crossed>>

\* The gateway signs with a new key.
Rotate ==
  /\ About = "WATA" /\ signs = "old" /\ signs' = "new"
  /\ UNCHANGED <<begun, config, payment, stored, adapter, hooks>>

-----------------------------------------------------------------------------
(* The webhook. *)

Hooked(w, h) == hook' = [hook EXCEPT ![w] = h]

\* An inactive or unconfigured gateway is answered with 404, and sends the notice again.
Receive(w, n) ==
  /\ w \in begun.workers /\ hook[w] = None /\ n \in notice /\ Usable
  /\ adapter' = Lookup
  /\ Hooked(w, [notice |-> n, object |-> Len(Lookup.object), settings |-> row[About].settings,
                key |-> signs, step |-> "body", task |-> None, crossed |-> FALSE])
  /\ UNCHANGED <<begun, config, money, method, notice, queued, answered, unread,
                 crossed>>

\* The lookup raises something else: there is no row, or the database fails.  That is
\* answered with 200 and the notice is not sent again.
LookupRaises(w, n) ==
  /\ w \in begun.workers /\ hook[w] = None /\ n \in notice
  /\ notice' = notice \ {n} /\ answered' = answered \cup {n} /\ unread' = unread \cup {n}
  /\ UNCHANGED <<begun, config, money, adapter, method, hook, queued, crossed>>

\* Not answered with 200: the notice stays.
Refuses(w) ==
  /\ Hooked(w, None)
  /\ UNCHANGED <<notice, answered, unread>>

Answers(w) ==
  LET n == hook[w].notice IN
  /\ Hooked(w, None)
  /\ notice' = notice \ {n} /\ answered' = answered \cup {n}

\* What the object's status and identifier come to; an unknown word raises, and is
\* answered like one that is left alone.
Task(n) ==
  LET a == Adapter(About) IN
  IF n.word \in DOMAIN a.verdict
  THEN [id |-> Name(n.payment, a.reads), status |-> a.verdict[n.word]] ELSE None

Object(w) == adapter.object[hook[w].object]
Remembers(w, object) == adapter' = [adapter EXCEPT !.object[hook[w].object] = object]

\* Mutant: a notice that does not name the method leaves the one before.
Remembered_named(w, object) ==
  IF About = "PLATEGA" /\ hook[w].notice.method # None
  THEN [object EXCEPT !.method = hook[w].notice.method] ELSE object

\* Platega's object remembers the method of the notice it handles.
Remembered(w, object) ==
  IF About = "PLATEGA" THEN [object EXCEPT !.method = hook[w].notice.method] ELSE object

\* From here on it is another notice's method that the webhooks of this object find.
Crossed(w) ==
  [x \in Worker |->
     IF /\ x # w /\ hook[x] # None /\ hook[x].step = "method" /\ About = "PLATEGA"
        /\ hook[x].object = hook[w].object
     THEN [hook[x] EXCEPT !.crossed = TRUE] ELSE hook[x]]

\* The notice is genuine and read: to the method, to the queue, or to the answer.
Proceeds(w, object) ==
  LET n == hook[w].notice  t == Task(n)  o == Remembered(w, object)
      step == IF o.method # None THEN "method" ELSE "enqueue" IN
  /\ Remembers(w, o)
  /\ IF t = None
     THEN /\ hook' = [Crossed(w) EXCEPT ![w] = None]
          /\ notice' = notice \ {n} /\ answered' = answered \cup {n}
     ELSE /\ hook' = [Crossed(w) EXCEPT ![w].task = t, ![w].step = step]
          /\ UNCHANGED <<notice, answered>>
  /\ UNCHANGED unread

\* handle_webhook but for Wata's: a signature that does not match is answered with 403.
Handle(w) ==
  /\ hook[w] # None /\ hook[w].step = "body" /\ About # "WATA"
  /\ IF Right(hook[w].settings, Adapter(About).checks)
     THEN Proceeds(w, Object(w))
     ELSE Refuses(w) /\ UNCHANGED adapter
  /\ UNCHANGED <<begun, config, money, method, queued, crossed>>

\* Wata's public key is cached for six hours and fetched again when it does not verify.
\* If the first fetch fails the notice is refused; if the second does, it is an
\* exception like any other, which is answered with 200.
HandleWata(w) ==
  LET object == Object(w) IN
  /\ hook[w] # None /\ hook[w].step = "body" /\ About = "WATA"
  /\ \/ Refuses(w) /\ UNCHANGED adapter
     \/ \E key \in {signs, object.key} \ {None} :
          \/ key = hook[w].key /\ Proceeds(w, [object EXCEPT !.key = key])
          \/ /\ key # hook[w].key /\ signs = hook[w].key
             /\ Proceeds(w, [object EXCEPT !.key = signs])
          \/ /\ key # hook[w].key /\ signs # hook[w].key
             /\ Refuses(w) /\ Remembers(w, [object EXCEPT !.key = signs])
          \/ /\ key # hook[w].key
             /\ Answers(w) /\ unread' = unread \cup {hook[w].notice}
             /\ Remembers(w, [object EXCEPT !.key = key])
  /\ UNCHANGED <<begun, config, money, method, queued, crossed>>

\* _sync_platega_payment_method reads the object's method after it found the transaction.
SyncMethod(w) ==
  LET p == hook[w].notice.payment IN
  /\ hook[w] # None /\ hook[w].step = "method"
  /\ \/ /\ Hooked(w, [hook[w] EXCEPT !.step = "enqueue"])
        /\ IF stored[p] # hook[w].task.id THEN UNCHANGED <<method, crossed>>
           ELSE /\ method' = [method EXCEPT ![p] = Object(w).method]
                /\ crossed' = IF hook[w].crossed THEN crossed \cup {p} ELSE crossed \ {p}
     \/ Hooked(w, None) /\ UNCHANGED <<method, crossed>>
  /\ UNCHANGED <<begun, config, money, adapter, notice, queued, answered, unread>>

\* kiq, or 503.
Enqueue(w) ==
  /\ hook[w] # None /\ hook[w].step = "enqueue"
  /\ \/ Answers(w) /\ queued' = queued \cup {hook[w].task} /\ UNCHANGED unread
     \/ Refuses(w) /\ UNCHANGED queued
  /\ UNCHANGED <<begun, config, money, adapter, method, crossed>>

Next ==
  \/ CreateDefaults
  \/ \E a \in Admin :
       \/ \E w \in {"MAIN", "SETTINGS", "PLACEMENT", "CURRENCY"} : SwitchTo(a, w)
       \/ Select(a)
       \/ \E f \in Field(About) : FieldSelect(a, f)
       \/ \E v \in Value : BeginInput(a, v)
       \/ WriteInput(a)
       \/ BeginReset(a)
       \/ WriteReset(a)
       \/ BeginToggle(a)
       \/ WriteToggle(a)
       \/ \E g \in Gateway : BeginMove(a, g)
       \/ WriteMove(a)
       \/ \E p \in Payment : TestPayment(a, p)
  \/ \E p \in Payment :
       \/ Ask(p)
       \/ Call(p)
       \/ Commit(p)
       \/ \E word \in Words, named \in BOOLEAN : Says(p, word, named)
  \/ Rotate
  \/ \E w \in Worker :
       \/ \E n \in notice : Receive(w, n) \/ LookupRaises(w, n)
       \/ Handle(w)
       \/ HandleWata(w)
       \/ SyncMethod(w)
       \/ Enqueue(w)

Spec == Init /\ [][Next]_vars

-----------------------------------------------------------------------------
TypeOK ==
  /\ \A g \in Gateway : row[g] # None =>
       /\ row[g].active \in BOOLEAN /\ row[g].index \in 1 .. Len(Enum)
       /\ row[g].settings \in [Field(g) -> Value \cup {None}]
  /\ \A t \in queued : t.id \in [payment : Payment, whose : {"own", "theirs"}]
  /\ \A p \in Payment : stored[p] \in {None, Kept(p)} /\ method[p] \in Payment \cup {None}

\* A gateway that is offered has all it needs, unless a reset met a toggle: a field's
\* reset switches it off (configuration.py).
ActiveIsConfigured ==
  \A g \in Gateway : row[g] # None /\ row[g].active => Configured(g, row[g]) \/ g \in torn

\* The places are one to n, whatever types were added and moved, unless two moves met.
OrderIsTotal == Up => {row[g].index : g \in Gateway} = 1 .. Cardinality(Gateway) \/ shuffled

\* A notice that was read and answered for good became a task that names the payment by
\* what its row will be stored by, with the gateway's own verdict.  Unread are those whose
\* gateway could not be looked up, and Wata's whose key could not be fetched: they are
\* answered like the others and lost (payments.py, handle_webhook of the adapters).
AnsweredIsQueued ==
  \A n \in answered \ unread :
    Meaning(n.word) # "due" => [id |-> Kept(n.payment), status |-> Meaning(n.word)] \in queued

\* The payment method on a transaction is its own, unless another webhook of the same
\* adapter object was handled while this one looked for its row (payments.py).
MethodIsOwn == \A p \in Payment \ crossed : method[p] \in {None, p}
=============================================================================
