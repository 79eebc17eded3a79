----------------------------- MODULE DashboardMC -----------------------------
(***************************************************************************)
(* The administrators' dashboard for TLC: plans and the dialog that edits  *)
(* them ("plans"), roles, blocking and the columns of users ("roles"), the *)
(* windows in which one administrator edits a user ("users"), and the      *)
(* dialog that makes and edits promocodes ("promocodes").                  *)
(* The parts share no state: a behaviour moves one of them (part), the     *)
(* others rest as they began.                                              *)
(***************************************************************************)
EXTENDS Roles, Sequences, FiniteSets, TLC

CONSTANTS
  a1, a2, u1, u2, u3, s1, s2, d1, d2, d3, p1, p2, p3,
  Admin, PlanId, Guest, Identities, Squad, Name, Default, Days, DefaultDays,
  Files, Settings,                    \* plans: what is imported, what they begin with
  PromoId, Code, Sold, Reward, Drafts,
  Customer, Lower, Invited, Opening   \* the windows' users, and what they begin with

VARIABLES
  part,
  setting, plan, born, panel, form, job, edits, writes, overlapped,
  opened, world, shop, window, opening, start, data, seen, error, disturbed,
  listing, promo, coined, offered, draft, save, touches, saves, mixed

-----------------------------------------------------------------------------
(* Plans: two sound ones, a file of one and a file of two, administrators that *)
(* edit one, a new one, or two, that toggle access, and that order.             *)

Plain == {"description", "tag", "strategy", "active"}
FirstPlan ==
  [name |-> "x", plain |-> [f \in Plain |-> 0], type |-> "DEVICES",
   availability |-> "ALLOWED", trial |-> FALSE, traffic |-> 0, device |-> 1,
   allowed |-> {}, squads |-> {s1}, external |-> None, order |-> 1,
   durations |-> <<[days |-> 7, order |-> 1, price |-> 1],
                   [days |-> 30, order |-> 0, price |-> 2]>>]
SecondPlan == [FirstPlan EXCEPT !.name = "y", !.order = 4, !.type = "BOTH", !.traffic = 5,
                                !.external = s2, !.availability = "ALL"]
ThirdPlan == [FirstPlan EXCEPT !.name = "z", !.order = 0]
Rows(x, y, z) == p1 :> x @@ p2 :> y @@ p3 :> z

EditOne == [rows |-> Rows(FirstPlan, None, None), admins |-> {a1},
            kinds |-> {"name", "plain", "trial", "availability", "type", "limits",
                       "durations", "allowed", "squads"}, edits |-> 2, writes |-> 2]
MakeNew == [EditOne EXCEPT !.kinds = {"create", "squads", "trial", "durations",
                                      "availability"}, !.edits = 3, !.writes = 1]
EditTwo == [rows |-> Rows(FirstPlan, SecondPlan, None), admins |-> {a1, a2},
            kinds |-> {"type", "availability", "toggle"}, edits |-> 2, writes |-> 2]
Ordering == [rows |-> Rows(FirstPlan, SecondPlan, ThirdPlan), admins |-> {a1, a2},
             kinds |-> {"move", "delete", "import"}, edits |-> 0, writes |-> 3]
Importing == [Ordering EXCEPT !.rows = Rows(FirstPlan, None, None)]

PlanSettings == {EditOne, MakeNew, EditTwo, Ordering, Importing}
Exported == {<<FirstPlan>>, <<SecondPlan, ThirdPlan>>}
BothIdentities == u1 :> {"telegram", "email"}
WeekAndMonth == <<7, 30>>

Plans == INSTANCE PlanEditor WITH
  Plan <- PlanId, User <- Guest, IdsOf <- Identities, row <- plan

(* Roles: an owner who stays or changes, three updates of which one may be idle. *)

Person(role) == [role |-> role, column |-> [c \in Column |-> 0]]
People(x, y, z) == u1 :> x @@ u2 :> y @@ u3 :> z

Newcomers == [rows |-> People(Person(OWNER), Person(DEV), None), owner |-> u1,
              commands |-> {"assign", "revoke"}, updates |-> {d1, d2, d3}]
NewOwner == [rows |-> People(Person(OWNER), Person(ADMIN), Person(USER)), owner |-> u2,
             commands |-> {"assign", "revoke", "trial"}, updates |-> {d1, d2}]
Blocking == [rows |-> People(Person(DEV), Person(ADMIN), Person(USER)), owner |-> u1,
             commands |-> {"block", "block_ids", "unblock_all", "profile"},
             updates |-> {d1, d2}]
Columned == [Blocking EXCEPT !.commands = {"email", "password", "trial", "points", "code",
                                           "personal", "purchase"}]

RoleBeginnings == {Newcomers, NewOwner, Blocking, Columned}

(* Users: the windows of a subscription, its squads, giving one and the sync,   *)
(* access and discounts, messages and transactions, addresses and mails.        *)

Complete == [sub |-> "ACTIVE", panel |-> TRUE, devices |-> 1, email |-> TRUE,
             telegram |-> TRUE, paid |-> TRUE, orphan |-> FALSE, reset |-> FALSE]
AllSold == [offered |-> TRUE, restricted |-> TRUE, plan |-> TRUE, points |-> TRUE,
            reset |-> "on"]
Subscribed ==
  [world |-> u1 :> Complete @@ u2 :> [Complete EXCEPT !.sub = "EXPIRED"],
   shop |-> AllSold, self |-> u3, changes |-> {"gone", "panel"},
   windows |-> {"MAIN", "SUBSCRIPTION", "TRAFFIC_LIMIT", "DEVICE_LIMIT", "EXPIRE_TIME",
                "DEVICES_LIST"}]
Squads == [Subscribed EXCEPT !.changes = {"time", "gone"}, !.windows =
  {"MAIN", "SUBSCRIPTION", "SQUADS", "INTERNAL_SQUADS", "EXTERNAL_SQUADS"}]
Giving == [Subscribed EXCEPT
  !.world = u1 :> [Complete EXCEPT !.sub = "none", !.panel = FALSE]
         @@ u2 :> [Complete EXCEPT !.telegram = FALSE, !.sub = "none"],
  !.changes = {"buys", "shop"},
  !.windows = {"MAIN", "SYNC", "SUBSCRIPTION", "GIVE_SUBSCRIPTION",
               "SUBSCRIPTION_DURATION"}]
Writing == [Subscribed EXCEPT
  !.world[u2] = [Complete EXCEPT !.telegram = FALSE, !.paid = FALSE], !.changes = {},
  !.windows = {"MAIN", "MESSAGE", "STATISTICS", "REFERRALS", "TRANSACTIONS_LIST",
               "TRANSACTION", "RECENT", "SEARCH_RESULTS"}]
Mailing == [Writing EXCEPT !.self = u2, !.windows =
  {"MAIN", "EMAIL_SET", "EMAIL_OPTIONS", "EMAIL_CUSTOM", "PASSWORD"}]
Granting == [Writing EXCEPT !.changes = {"shop"}, !.windows =
  {"MAIN", "ROLE", "POINTS", "GIVE_ACCESS", "DISCOUNT", "PERSONAL_DISCOUNT",
   "PURCHASE_DISCOUNT"}]

Openings == {Subscribed, Squads, Giving, Writing, Mailing, Granting}
Invitations == u1 :> {u2} @@ u2 :> {}

UI == INSTANCE UserDialog WITH
  User <- Customer, Below <- Lower, Referred <- Invited, Beginnings <- Opening, begun <- opened

(* Promocodes: one administrator who types and rewards, one who fills in the rest,  *)
(* for a new one or one that exists, and two who edit the same.                     *)

Gift == [code |-> "A", active |-> TRUE, reusable |-> TRUE, type |-> "DURATION",
         reward |-> 150, plan |-> None, availability |-> "ALL", expires |-> 1, limit |-> 1]
Trip == [Gift EXCEPT !.code = "B", !.type = "SUBSCRIPTION", !.reward = None,
                     !.plan = <<p1, 7>>]
AllWindows == {"CODE", "TYPE", "REWARD", "PLAN", "AVAILABILITY", "EXPIRES",
               "MAX_ACTIVATIONS"}
Typing == [rows |-> Rows(Gift, Trip, None), admins |-> {a1},
           windows |-> {"TYPE", "REWARD", "PLAN"},
           types |-> {"DURATION", "PERSONAL_DISCOUNT", "SUBSCRIPTION"},
           creates |-> TRUE, toggles |-> FALSE, plansGo |-> TRUE, edits |-> 3, writes |-> 1]
Filling == [Typing EXCEPT !.windows = AllWindows \ {"TYPE", "PLAN"}, !.toggles = TRUE,
                          !.plansGo = FALSE, !.edits = 2]
TwoAdmins == [Typing EXCEPT !.admins = {a1, a2}, !.windows = {"TYPE", "REWARD", "CODE"},
              !.types = {"PERSONAL_DISCOUNT"}, !.rows = Rows(Gift, None, None),
              !.plansGo = FALSE, !.creates = FALSE, !.edits = 2, !.writes = 2]

PromoBeginnings == {Typing, Filling, TwoAdmins}

Promocodes == INSTANCE PromocodeEditor WITH
  Promocode <- PromoId, Plan <- Sold, Beginnings <- Drafts,
  begun <- listing, row <- promo, born <- coined, form <- draft, job <- save,
  edits <- touches, writes <- saves, overlapped <- mixed

ASSUME /\ ConstantsAssumption /\ Plans!ConstantsAssumption
       /\ UI!ConstantsAssumption /\ Promocodes!ConstantsAssumption

-----------------------------------------------------------------------------
plans == <<setting, plan, born, panel, form, job, edits, writes, overlapped>>
windows == <<opened, world, shop, window, opening, start, data, seen, error, disturbed>>
promos == <<listing, promo, coined, offered, draft, save, touches, saves, mixed>>

Symmetry == Permutations({d1, d2})

PlanMove == part = "plans" /\ UNCHANGED <<part, vars, windows, promos>>
RoleMove == part = "roles" /\ UNCHANGED <<part, plans, windows, promos>>
Tap      == part = "users" /\ UNCHANGED <<part, plans, vars, promos>>
PromoMove == part = "promocodes" /\ UNCHANGED <<part, plans, vars, windows>>

DashboardInit ==
  /\ part \in {"plans", "roles", "users", "promocodes"}
  /\ Init /\ Plans!Init /\ UI!Init /\ Promocodes!Init
  /\ part # "plans" => setting = EditOne
  /\ part # "roles" => begun = Newcomers
  /\ part # "users" => opened = Squads
  /\ part # "promocodes" => listing = Typing

PlanEdit(a) ==
  \/ \E name \in {"x", "y", "z", "default"} : PlanMove /\ Plans!NameInput(a, name)
  \/ PlanMove /\ Plans!DescriptionInput(a)
  \/ PlanMove /\ Plans!DescriptionRemove(a)
  \/ PlanMove /\ Plans!TagInput(a)
  \/ PlanMove /\ Plans!TagRemove(a)
  \/ \E v \in {0, 1} : PlanMove /\ Plans!StrategySelect(a, v)
  \/ PlanMove /\ Plans!ActiveToggle(a)
  \/ PlanMove /\ Plans!TrialToggle(a)
  \/ \E v \in {"ALL", "ALLOWED"} : PlanMove /\ Plans!AvailabilitySelect(a, v)
  \/ \E type \in Plans!Type : PlanMove /\ Plans!TypeSelect(a, type)
  \/ \E limit \in {2, 200} : \/ PlanMove /\ Plans!TrafficInput(a, limit)
                             \/ PlanMove /\ Plans!DevicesInput(a, limit)
  \/ \E days \in {7, 30} : \/ PlanMove /\ Plans!DurationInput(a, days)
                           \/ PlanMove /\ Plans!DurationRemove(a, days)
                           \/ PlanMove /\ Plans!DurationMove(a, days)
                           \/ PlanMove /\ Plans!PriceInput(a, days, 2)
  \/ \E id \in Plans!Identity : \/ PlanMove /\ Plans!AllowedUserInput(a, id)
                                \/ PlanMove /\ Plans!AllowedUserRemove(a, id)
  \/ PlanMove /\ Plans!OpenSquads(a)
  \/ \E s \in {s1, s2} : \/ PlanMove /\ Plans!InternalSquadSelect(a, s)
                         \/ PlanMove /\ Plans!ExternalSquadSelect(a, s)

PlanCommand(a) ==
  \/ PlanMove /\ Plans!Create(a)
  \/ PlanMove /\ Plans!Leave(a)
  \/ \E p \in {p1, p2, p3} : \/ PlanMove /\ Plans!Select(a, p)
                             \/ PlanMove /\ Plans!ConfirmNew(a, p)
                             \/ PlanMove /\ Plans!BeginMove(a, p)
                             \/ PlanMove /\ Plans!BeginToggle(a, p, u1)
  \/ PlanMove /\ Plans!ImportOne(a, <<FirstPlan>>)
  \/ \E ids \in [1..2 -> {p1, p2, p3}] :
       PlanMove /\ Plans!ImportBatch(a, <<SecondPlan, ThirdPlan>>, ids)
  \/ PlanMove /\ Plans!ConfirmEdit(a)
  \/ PlanMove /\ Plans!WriteEdit(a)
  \/ PlanMove /\ Plans!WriteToggle(a)
  \/ PlanMove /\ Plans!BeginDelete(a)
  \/ PlanMove /\ Plans!WriteOrder(a)
  \/ PlanMove /\ Plans!Deadlock(a)

PlanNext ==
  \/ \E a \in Plans!Editing : PlanEdit(a)
  \/ \E a \in {a1, a2} : PlanCommand(a)
  \/ \E s \in {s1, s2} : PlanMove /\ Plans!SquadRemoved(s)

RoleNext ==
  \/ \E d \in Update :
       \/ \E u \in User :
            \/ RoleMove /\ Arrive(d, u)
            \/ RoleMove /\ Revoke(d, u)
            \/ RoleMove /\ ToggleBlocked(d, u)
            \/ \E role \in {USER, ADMIN, DEV} : RoleMove /\ Assign(d, u, role)
            \/ \E c \in Edit : \E v \in Values(c) : RoleMove /\ Change(d, u, c, v)
       \/ RoleMove /\ TransferOwnerRole(d)
       \/ RoleMove /\ Register(d)
       \/ RoleMove /\ UpdateProfile(d, 1)
       \/ RoleMove /\ UnblockAll(d)
       \/ RoleMove /\ Leave(d)
       \/ RoleMove /\ Write(d)
       \/ \E S \in SUBSET User : RoleMove /\ BlockUsersByIds(d, S)
  \/ \E u \in User : RoleMove /\ Restart(u)

UserNext ==
  \/ Tap /\ UI!RenderMain
  \/ Tap /\ UI!RenderReferrals
  \/ Tap /\ UI!RenderTransaction
  \/ Tap /\ UI!RenderOther
  \/ \E w \in opened.windows :
       \/ Tap /\ UI!Switch(w)
       \/ Tap /\ UI!SetDiscount(w)
  \/ \E u \in Customer :
       \/ Tap /\ UI!SelectUser(u)
       \/ Tap /\ UI!SelectTransaction(u)
       \/ Tap /\ UI!SmartSearch(u)
       \/ Tap /\ UI!SelectReferral(u)
       \/ Tap /\ UI!SubscriptionGone(u)
       \/ Tap /\ UI!PanelUserGone(u)
       \/ Tap /\ UI!Expires(u)
       \/ Tap /\ UI!Buys(u)
  \/ Tap /\ UI!BackToReferrals
  \/ Tap /\ UI!GoToUser
  \/ Tap /\ UI!BackToList
  \/ Tap /\ UI!BackToMenu
  \/ Tap /\ UI!OpenList
  \/ \E found \in SUBSET Customer : Tap /\ UI!Search(found)
  \/ Tap /\ UI!CurrentSubscription
  \/ Tap /\ UI!Transactions
  \/ Tap /\ UI!GiveAccess
  \/ Tap /\ UI!GiveSubscription
  \/ Tap /\ UI!BlockToggle
  \/ Tap /\ UI!TrialToggle
  \/ Tap /\ UI!ReferralReset
  \/ Tap /\ UI!SelectFromTransactions
  \/ Tap /\ UI!TogglePlanAccess
  \/ Tap /\ UI!RoleSelect
  \/ Tap /\ UI!ChangePoints
  \/ Tap /\ UI!SubscriptionSelect
  \/ Tap /\ UI!SubscriptionDurationSelect
  \/ Tap /\ UI!SyncFromRemnashop
  \/ Tap /\ UI!TrafficLimit
  \/ Tap /\ UI!DeviceLimit
  \/ Tap /\ UI!SquadSelect
  \/ Tap /\ UI!SubscriptionDelete
  \/ Tap /\ UI!ResetTraffic
  \/ Tap /\ UI!Reissue
  \/ Tap /\ UI!Devices
  \/ Tap /\ UI!DeviceDelete
  \/ Tap /\ UI!MessageInput
  \/ Tap /\ UI!Send
  \/ Tap /\ UI!SetEmail
  \/ Tap /\ UI!ClearEmail
  \/ Tap /\ UI!SetPassword
  \/ Tap /\ UI!SendPurchaseMail
  \/ Tap /\ UI!DraftInput
  \/ Tap /\ UI!Cooldown
  \/ \E d \in BOOLEAN :
       \/ Tap /\ UI!Sync(d)
       \/ Tap /\ UI!SendMail(d)
  \/ \E s \in UI!Status :
       \/ Tap /\ UI!SyncFromRemnawave(s)
       \/ Tap /\ UI!AddDuration(s)
       \/ Tap /\ UI!ActiveToggle(s)
  \/ \E changed \in UI!Shops : Tap /\ UI!ShopChanges(changed)

PromoNext ==
  \/ \E a \in {a1, a2} :
       \/ \E p \in {p1, p2, p3} :
            \/ PromoMove /\ Promocodes!Select(a, p)
            \/ PromoMove /\ Promocodes!ConfirmNew(a, p)
       \/ \E c \in {"A", "B", "C"} :
            \/ PromoMove /\ Promocodes!Create(a, c)
            \/ PromoMove /\ Promocodes!CodeRegenerate(a, c)
            \/ PromoMove /\ Promocodes!CodeInput(a, c)
       \/ \E w \in AllWindows : PromoMove /\ Promocodes!SwitchTo(a, w)
       \/ PromoMove /\ Promocodes!PlanOpen(a)
       \/ PromoMove /\ Promocodes!Back(a)
       \/ PromoMove /\ Promocodes!Leave(a)
       \/ PromoMove /\ Promocodes!ToggleActive(a)
       \/ PromoMove /\ Promocodes!ToggleReusable(a)
       \/ \E type \in Promocodes!Type : PromoMove /\ Promocodes!TypeSelect(a, type)
       \/ \E reward \in {0, 50, 150} : PromoMove /\ Promocodes!RewardInput(a, reward)
       \/ PromoMove /\ Promocodes!PlanSelect(a, p1)
       \/ \E days \in {7, 30} : PromoMove /\ Promocodes!PlanDurationSelect(a, days)
       \/ \E v \in {"ALL", "NEW"} : PromoMove /\ Promocodes!AvailabilitySelect(a, v)
       \/ PromoMove /\ Promocodes!ExpiresInput(a)
       \/ PromoMove /\ Promocodes!ExpiresReset(a)
       \/ PromoMove /\ Promocodes!MaxActivationsInput(a)
       \/ PromoMove /\ Promocodes!MaxActivationsReset(a)
       \/ PromoMove /\ Promocodes!ConfirmEdit(a)
       \/ PromoMove /\ Promocodes!WriteEdit(a)
       \/ PromoMove /\ Promocodes!Delete(a)
  \/ \E days \in {7, 30} : PromoMove /\ Promocodes!PlanGone(<<p1, days>>)

DashboardNext == PlanNext \/ RoleNext \/ UserNext \/ PromoNext

DashboardSpec == DashboardInit /\ [][DashboardNext]_<<part, plans, vars, windows, promos>>

-----------------------------------------------------------------------------
(* What TLC checks of the other parts, as each states it. *)

\* Stored plans and promocodes are sound (edit.py, commit.py, promocodes/handlers.py).
PlansAreSound == Plans!PlansAreSound /\ Promocodes!PromocodesAreSound

\* A command on plans changes what it is about, and a move or a deletion numbers the
\* plans from one (dao/plan.py, access.py, order.py, commit.py); a save of a promocode
\* changes what its form did (dao/promocode.py).
WritesStayInside == Plans!WritesStayInside /\ Plans!MovesSettle /\ Promocodes!SavesStayInside

\* A window finds what its handler looked for, and what was typed and chosen is used for the
\* user it was meant for (users/user/handlers.py, getters.py).
WindowsAreTrue == UI!NothingMissing /\ UI!MadeForTarget
=============================================================================
