----------------------------- MODULE UserDialog -----------------------------
(***************************************************************************)
(* The windows in which one administrator looks at users and edits them.   *)
(* A dialog is started with a user and keeps data from window to window;   *)
(* a button's handler reads the database and the panel, runs a command and *)
(* names the next window, whose getter then reads again and may find that  *)
(* what it shows is gone.  Between handler and getter, and between windows,*)
(* others change the same users.                                           *)
(*                                                                         *)
(* The administrator taps what the last message shows (seen), one tap at a *)
(* time.  An exception ends the dialog at the main menu, except a denied   *)
(* permission, which leaves it as it is (ErrorMiddleware).                 *)
(***************************************************************************)
EXTENDS Naturals, FiniteSets

CONSTANTS
  User,
  Below,      \* the users whose role is below the administrator's
  Referred,   \* of each user: those he invited
  Beginnings, \* what a behaviour starts from: users, the shop, the windows used, and
              \* what others may change (all but users and shop are bounds)
  None

Status == {"ACTIVE", "DISABLED", "EXPIRED"}
Shops == [offered : BOOLEAN, restricted : BOOLEAN, plan : BOOLEAN, points : BOOLEAN,
          reset : {"on", "off", "cooldown"}]
Windows == {"MAIN", "SUBSCRIPTION", "TRAFFIC_LIMIT", "DEVICE_LIMIT", "EXPIRE_TIME", "SQUADS",
  "INTERNAL_SQUADS", "EXTERNAL_SQUADS", "DEVICES_LIST", "SYNC", "GIVE_SUBSCRIPTION",
  "SUBSCRIPTION_DURATION", "STATISTICS", "REFERRALS", "TRANSACTIONS_LIST", "TRANSACTION",
  "MESSAGE", "DISCOUNT", "PERSONAL_DISCOUNT", "PURCHASE_DISCOUNT", "POINTS", "GIVE_ACCESS",
  "ROLE", "EMAIL_SET", "EMAIL_OPTIONS", "EMAIL_CUSTOM", "PASSWORD"}
\* What the windows and commands ask about a user.
Facts == [sub : Status \cup {"none"}, panel : BOOLEAN, devices : Nat, email : BOOLEAN,
          telegram : BOOLEAN, paid : BOOLEAN, orphan : BOOLEAN, reset : BOOLEAN]

ConstantsAssumption ==
  /\ None \notin User /\ None \notin Windows /\ Below \subseteq User
  /\ Referred \in [User -> SUBSET User]
  /\ \A b \in Beginnings : b.world \in [User -> Facts] /\ b.shop \in Shops

VARIABLES
  begun,
  world,     \* of each user: what is known about him
  shop,      \* what they ask of plans and settings
  window,    \* the one shown, "lists", or "closed" after an exception
  opening,   \* the one whose getter runs next, or None
  start,     \* start_data
  data,      \* dialog_data; drafts and choices stand for the user they were made for
  seen,      \* what the message shows
  error,     \* what the last exception was for: what is not there ("missing"), or a
             \* name that is in use ("taken")
  disturbed  \* history: others changed something since all users were last in order

vars == <<begun, world, shop, window, opening, start, data, seen, error, disturbed>>

-----------------------------------------------------------------------------
Blank == [target |-> None, from |-> None, telegram |-> None, message |-> None,
          draft |-> None, plan |-> None, transaction |-> None, hwids |-> None,
          clicked |-> {}]
NoStart == [target |-> None, from |-> None, transaction |-> None, origin |-> None, found |-> {}]

T == data.target
Shown == seen.facts

\* The bot's row and the panel agree that there is a subscription.
InOrder(u) == world[u].sub # "none" => world[u].panel

Init ==
  /\ begun \in Beginnings
  /\ world = begun.world /\ shop = begun.shop
  /\ window = "lists" /\ opening = None
  /\ start = NoStart /\ data = Blank
  /\ seen = [target |-> None, facts |-> None, shop |-> shop]
  /\ error = "none" /\ disturbed = (\E u \in User : ~InOrder(u))

(* What a tap leads to. *)

Tapped(w) == window = w /\ opening = None /\ w \in begun.windows \cup {"lists"}

\* The next window, or the same one again.
To(w, d) ==
  /\ opening' = w /\ data' = d
  /\ UNCHANGED <<begun, shop, window, start, seen, error, disturbed>>

Go(w) == To(w, data) /\ UNCHANGED world

Closes(reason) ==
  /\ window' = "closed" /\ opening' = None /\ error' = reason
  /\ UNCHANGED <<begun, world, shop, start, data, seen, disturbed>>

\* NotFoundError or a ValueError, and the ConflictError of create_user.
Raise      == Closes("missing")
RaiseTaken == Closes("taken")

Denied == UNCHANGED vars

\* Mutant: what was typed and tapped is kept.
Start_keeps(w, s) ==
  /\ opening' = w /\ start' = s /\ data' = [data EXCEPT !.target = None, !.from = None]
  /\ UNCHANGED <<begun, world, shop, window, seen, error, disturbed>>

\* manager.start with RESET_STACK: new data.
Start(w, s) ==
  /\ opening' = w /\ start' = s /\ data' = Blank
  /\ UNCHANGED <<begun, world, shop, window, seen, error, disturbed>>

\* A command that needs what ok says, changes the target to facts, and leads to w.
Runs(ok, facts, w) ==
  IF ok THEN world' = [world EXCEPT ![T] = facts] /\ To(w, data) ELSE Raise

\* The first of two taps within the cooldown only asks for the second.
Confirms(key, w) ==
  key \notin data.clicked /\ To(w, [data EXCEPT !.clicked = @ \cup {key}]) /\ UNCHANGED world
Confirmed(key) == key \in data.clicked

EditsOwnOrBelow == T \notin User \ (Below \cup {begun.self})
Has(u) == world[u].sub # "none"

-----------------------------------------------------------------------------
(* Windows: what their getters need, and where they lead. *)

SubscriptionFound   == Has(T) /\ world[T].panel
DevicesFound        == Has(T) /\ world[T].panel
ExpireTimeFound     == Has(T)
SquadsFound         == Has(T)
InternalSquadsFound == Has(T)
ExternalSquadsFound == Has(T)
RestrictedFound     == shop.restricted
OfferedFound        == shop.offered
PlanFound           == shop.plan

Found(w) ==
  CASE w = "SUBSCRIPTION"    -> SubscriptionFound
    [] w = "DEVICES_LIST"    -> DevicesFound
    [] w = "EXPIRE_TIME"     -> ExpireTimeFound
    [] w = "SQUADS"          -> SquadsFound
    [] w = "INTERNAL_SQUADS" -> InternalSquadsFound
    [] w = "EXTERNAL_SQUADS" -> ExternalSquadsFound
    [] w = "GIVE_ACCESS"     -> RestrictedFound
    [] w = "GIVE_SUBSCRIPTION"     -> OfferedFound
    [] w = "SUBSCRIPTION_DURATION" -> PlanFound
    [] OTHER -> TRUE

Renders(w, d) ==
  /\ data' = d /\ window' = w /\ opening' = None
  /\ seen' = [target |-> d.target, facts |-> world[d.target], shop |-> shop]
  /\ error' = "none"
  /\ UNCHANGED <<begun, world, shop, start>>

\* user_getter: the target of the start, and no draft of a message.
RenderMain ==
  /\ opening = "MAIN"
  /\ LET u == start.target IN
     /\ Renders("MAIN", [data EXCEPT !.target = u, !.from = start.from, !.message = None,
                                     !.telegram = IF world[u].telegram THEN u ELSE @])
     /\ disturbed' = (disturbed /\ \E v \in User : ~InOrder(v))

\* The target of the start, when these windows come first.
Target == IF T = None THEN start.target ELSE T

RenderReferrals ==
  /\ opening = "REFERRALS"
  /\ Renders("REFERRALS", [data EXCEPT !.target = Target])
  /\ UNCHANGED disturbed

RenderTransaction ==
  /\ opening = "TRANSACTION"
  /\ Renders("TRANSACTION", [data EXCEPT
       !.target = Target,
       !.transaction = IF @ = None THEN start.transaction ELSE @])
  /\ UNCHANGED disturbed

RenderOther ==
  /\ opening \notin {None, "MAIN", "REFERRALS", "TRANSACTION"}
  /\ IF Found(opening)
     THEN /\ Renders(opening, [data EXCEPT !.hwids = IF opening = "DEVICES_LIST" THEN T ELSE @])
          /\ UNCHANGED disturbed
     ELSE Raise

(* SwitchTo buttons, as the windows show them. *)

Editable == seen.target \in Below

MainButtons ==
  {"STATISTICS", "MESSAGE", "EMAIL_OPTIONS", "DISCOUNT"}
    \cup (IF Editable THEN {"ROLE"} ELSE {}) \cup (IF seen.shop.points THEN {"POINTS"} ELSE {})

SubscriptionButtons ==
  {"MAIN", "EXPIRE_TIME"} \cup
  (IF Shown.sub # "EXPIRED" THEN {"TRAFFIC_LIMIT", "DEVICE_LIMIT", "SQUADS"} ELSE {})

SquadButtons(w) ==
  IF w = "SQUADS" THEN {"INTERNAL_SQUADS", "EXTERNAL_SQUADS", "SUBSCRIPTION"} ELSE {"SQUADS"}

StatisticsButtons ==
  {"MAIN"} \cup (IF Referred[seen.target] # {} THEN {"REFERRALS"} ELSE {})

TransactionButtons == IF start.origin = "all" THEN {} ELSE {"TRANSACTIONS_LIST"}

DiscountButtons(w) ==
  IF w = "DISCOUNT" THEN {"PERSONAL_DISCOUNT", "PURCHASE_DISCOUNT", "MAIN"} ELSE {"DISCOUNT"}

EmailButtons(w) ==
  IF w # "EMAIL_OPTIONS" THEN {"EMAIL_OPTIONS"}
  ELSE {"EMAIL_SET", "MAIN"} \cup (IF Shown.email THEN {"EMAIL_CUSTOM", "PASSWORD"} ELSE {})

LimitButtons == {"SUBSCRIPTION"}

Switches(w) ==
  CASE w = "MAIN" -> MainButtons
    [] w = "SUBSCRIPTION" -> SubscriptionButtons
    [] w \in {"TRAFFIC_LIMIT", "DEVICE_LIMIT", "EXPIRE_TIME", "DEVICES_LIST"} -> LimitButtons
    [] w \in {"SQUADS", "INTERNAL_SQUADS", "EXTERNAL_SQUADS"} -> SquadButtons(w)
    [] w = "SUBSCRIPTION_DURATION" -> {"GIVE_SUBSCRIPTION"}
    [] w = "STATISTICS" -> StatisticsButtons
    [] w = "TRANSACTION" -> TransactionButtons
    [] w \in {"DISCOUNT", "PERSONAL_DISCOUNT", "PURCHASE_DISCOUNT"} -> DiscountButtons(w)
    [] w \in {"EMAIL_OPTIONS", "EMAIL_SET", "EMAIL_CUSTOM", "PASSWORD"} -> EmailButtons(w)
    [] w \in {"SYNC", "GIVE_SUBSCRIPTION", "REFERRALS", "TRANSACTIONS_LIST", "MESSAGE",
              "POINTS", "GIVE_ACCESS", "ROLE"} -> {"MAIN"}

Switch(w) ==
  /\ window \notin {"lists", "closed"} /\ Tapped(window)
  /\ w \in Switches(window) /\ w \in begun.windows
  /\ Go(w)

-----------------------------------------------------------------------------
(* From user to user. *)

\* A list of users, or what a search has found.
Listing(origin, found) ==
  /\ window' = "lists" /\ opening' = None /\ data' = Blank
  /\ start' = [NoStart EXCEPT !.origin = origin, !.found = found]
  /\ error' = "none" /\ seen' = [target |-> None, facts |-> None, shop |-> shop]
  /\ UNCHANGED <<begun, world, shop, disturbed>>

OpenList ==
  Tapped("lists") /\ "RECENT" \in begun.windows /\ start.origin = None /\ Listing("list", User)

\* on_user_search: who alone is found is opened at once.
Search(found) ==
  /\ Tapped("lists") /\ start.origin = None /\ found # {}
  /\ Cardinality(found) > 1 => "SEARCH_RESULTS" \in begun.windows
  /\ IF Cardinality(found) > 1 THEN Listing("search", found)
     ELSE \E u \in found : Start("MAIN", [NoStart EXCEPT !.target = u])

\* on_user_select in a list, which the window leads back to.
SelectUser(u) ==
  /\ Tapped("lists") /\ u \in start.found
  /\ Start("MAIN", [start EXCEPT !.target = u])

StartTransaction(u, origin) ==
  /\ Tapped("lists") /\ start.origin = None
  /\ "TRANSACTION" \in begun.windows /\ world[u].paid
  /\ Start("TRANSACTION", [NoStart EXCEPT !.target = u, !.transaction = u, !.origin = origin])

\* From the list of all transactions, and a search for one of somebody with Telegram.
SelectTransaction(u) == StartTransaction(u, "all")
SmartSearch(u) == world[u].telegram /\ StartTransaction(u, "user")

SelectReferral(u) ==
  /\ Tapped("REFERRALS") /\ u \in Referred[seen.target]
  /\ Start("MAIN", [NoStart EXCEPT !.target = u, !.from = T])

BackToReferrals ==
  /\ Tapped("MAIN") /\ data.from # None
  /\ Start("REFERRALS", [NoStart EXCEPT !.target = data.from])

GoToUser ==
  /\ Tapped("TRANSACTION") /\ start.origin = "all"
  /\ Start("MAIN", [NoStart EXCEPT !.target = T])

BackToList ==
  /\ Tapped("MAIN")
  /\ IF start.origin \in {"list", "search"} THEN Listing(start.origin, start.found)
     ELSE Listing(None, {})

\* The list of all transactions, the users' menu, and the menu after an exception.
BackToMenu ==
  /\ \/ window = "closed" \/ (Tapped("TRANSACTION") /\ start.origin = "all")
     \/ Tapped("lists") /\ start.origin # None
  /\ Listing(None, {})

-----------------------------------------------------------------------------
(* MAIN and what it asks before it leads on. *)

Asks(ok, w) ==
  Tapped("MAIN") /\ w \in begun.windows /\ Go(IF ok THEN w ELSE "MAIN")

\* Mutant: the window is opened without a look.
GiveAccess_unasked == Asks(TRUE, "GIVE_ACCESS")

CurrentSubscription == Asks(Has(T), "SUBSCRIPTION") /\ Shown.sub # "none"
Transactions        == Asks(world[T].paid, "TRANSACTIONS_LIST")
GiveAccess          == Asks(shop.restricted, "GIVE_ACCESS")
GiveSubscription    == Asks(shop.offered, "GIVE_SUBSCRIPTION")

\* CheckSubscriptionSyncState: there must be something, and it must differ.
Differs(F, differs) ==
  LET panel == F.panel /\ (F.sub # "none" \/ F.telegram)
  IN (F.sub # "none" \/ panel) /\ (differs \/ F.sub = "none" \/ ~panel)

Sync(differs) == Asks(Differs(world[T], differs), "SYNC")

\* The block and trial toggles, and the new referral code on the second tap.
BlockToggle   == Tapped("MAIN") /\ Editable /\ Go("MAIN")
TrialToggle   == Tapped("MAIN") /\ EditsOwnOrBelow /\ Go("MAIN")
ReferralReset ==
  /\ Tapped("MAIN")
  /\ Confirms("referral", "MAIN") \/ (Confirmed("referral") /\ EditsOwnOrBelow /\ Go("MAIN"))

SelectFromTransactions ==
  /\ Tapped("TRANSACTIONS_LIST")
  /\ To("TRANSACTION", [data EXCEPT !.transaction = seen.target]) /\ UNCHANGED world

TogglePlanAccess == Tapped("GIVE_ACCESS") /\ Go("GIVE_ACCESS")
RoleSelect       == Tapped("ROLE") /\ Go("ROLE")
ChangePoints     == Tapped("POINTS") /\ EditsOwnOrBelow /\ Go("POINTS")
SetDiscount(w) ==
  /\ w \in {"PERSONAL_DISCOUNT", "PURCHASE_DISCOUNT"} /\ Tapped(w)
  /\ EditsOwnOrBelow /\ Go("DISCOUNT")

SubscriptionSelect ==
  /\ Tapped("GIVE_SUBSCRIPTION") /\ seen.shop.plan
  /\ To("SUBSCRIPTION_DURATION", [data EXCEPT !.plan = seen.target]) /\ UNCHANGED world

\* SetUserSubscription: the panel's user of the old one is updated, or one is created.
Given(F) == [F EXCEPT !.sub = "ACTIVE", !.panel = TRUE]

\* The panel's user is created by the fixed name of the account (remna_name).  Without a
\* row the panel may have one: left behind by a sync, or never the bot's; one that only
\* the Telegram identity leads to may bear another name.
NameTaken(F) == F.orphan \/ F.panel
NameFree(F)  == ~F.orphan /\ (F.panel => F.telegram)

GiveFirst ==
  \/ NameFree(world[T]) /\ Runs(TRUE, Given(world[T]), "MAIN")
  \/ NameTaken(world[T]) /\ RaiseTaken

SubscriptionDurationSelect ==
  /\ Tapped("SUBSCRIPTION_DURATION")
  /\ IF shop.plan /\ ~Has(T) THEN GiveFirst
     ELSE Runs(shop.plan /\ world[T].panel, Given(world[T]), "MAIN")

\* SyncSubscriptionFromRemnawave: an account without a row is looked for by Telegram.
Imported(F, status) ==
  LET found == F.panel /\ (F.sub # "none" \/ F.telegram)
  IN [F EXCEPT !.sub = IF found THEN status ELSE "none"]

SyncFromRemnawave(status) == Tapped("SYNC") /\ Runs(TRUE, Imported(world[T], status), "MAIN")

\* SyncSubscriptionFromRemnashop.  The panel's user that is created for an account
\* without Telegram is not found again: the row keeps the old identifier, and the next
\* attempt meets the name that is taken.
Exported(F) ==
  IF F.sub # "none"
  THEN [F EXCEPT !.panel = @ \/ F.telegram, !.orphan = @ \/ (~F.panel /\ ~F.telegram)]
  ELSE [F EXCEPT !.panel = @ /\ ~F.telegram]

SyncFromRemnashop ==
  /\ Tapped("SYNC")
  /\ IF Has(T) /\ ~world[T].panel /\ world[T].orphan THEN RaiseTaken
     ELSE Runs(TRUE, Exported(world[T]), "MAIN")

-----------------------------------------------------------------------------
(* SUBSCRIPTION and the windows below it. *)

\* UpdateTrafficLimit and UpdateDeviceLimit: the row and the panel's user.
UpdateLimit(w) == Tapped(w) /\ Runs(Has(T) /\ world[T].panel, world[T], "SUBSCRIPTION")
TrafficLimit == UpdateLimit("TRAFFIC_LIMIT")
DeviceLimit  == UpdateLimit("DEVICE_LIMIT")

\* ToggleInternalSquad and ToggleExternalSquad, and the window again.
ToggleSquad(w) == Tapped(w) /\ Runs(Has(T) /\ world[T].panel, world[T], w)
SquadSelect == ToggleSquad("INTERNAL_SQUADS") \/ ToggleSquad("EXTERNAL_SQUADS")

\* AddSubscriptionDuration: an expired one may become active.
Extends(sub, status) == status = sub \/ (sub = "EXPIRED" /\ status = "ACTIVE")

\* Without a row the ValueError is caught.
AddDuration(status) ==
  /\ Tapped("EXPIRE_TIME") /\ Extends(world[T].sub, status)
  /\ IF Has(T) THEN Runs(world[T].panel, [world[T] EXCEPT !.sub = status], "EXPIRE_TIME")
     ELSE Go("EXPIRE_TIME")

\* ToggleSubscriptionStatus, by the stored status; one that has expired shows as such
\* unless it is disabled.
Toggles(sub, status) ==
  CASE sub = "ACTIVE"   -> status = "DISABLED"
    [] sub = "DISABLED" -> status = "ACTIVE"
    [] OTHER            -> status \in {"DISABLED", "EXPIRED"}

ActiveToggle(status) ==
  /\ Tapped("SUBSCRIPTION") /\ Shown.sub \in {"ACTIVE", "DISABLED"}
  /\ Toggles(world[T].sub, status)
  /\ Runs(Has(T) /\ world[T].panel, [world[T] EXCEPT !.sub = status], "SUBSCRIPTION")

\* Mutant: the panel's user stays.
Deleted_row(F) == [F EXCEPT !.sub = "none"]

\* DeleteSubscription: the panel's user and the row.
Deleted(F) == [F EXCEPT !.sub = "none", !.panel = FALSE]

\* Mutant: the window of the deleted subscription is shown again.
SubscriptionDelete_stays ==
  /\ Tapped("SUBSCRIPTION")
  /\ \/ Confirms("delete", "SUBSCRIPTION")
     \/ Confirmed("delete") /\ Runs(Has(T), Deleted(world[T]), "SUBSCRIPTION")

SubscriptionDelete ==
  /\ Tapped("SUBSCRIPTION")
  /\ \/ Confirms("delete", "SUBSCRIPTION")
     \/ Confirmed("delete") /\ Runs(Has(T), Deleted(world[T]), "MAIN")

\* ResetUserTraffic and ReissueUserSubscription: a user the panel has lost is no error.
PanelCommand == Runs(Has(T), world[T], "SUBSCRIPTION")

ResetTraffic == Tapped("SUBSCRIPTION") /\ PanelCommand
Reissue ==
  /\ Tapped("SUBSCRIPTION")
  /\ Confirms("reissue", "SUBSCRIPTION") \/ (Confirmed("reissue") /\ PanelCommand)

Devices ==
  /\ Tapped("SUBSCRIPTION") /\ "DEVICES_LIST" \in begun.windows
  /\ Runs(Has(T) /\ world[T].panel, world[T],
          IF world[T].devices > 0 THEN "DEVICES_LIST" ELSE "SUBSCRIPTION")

\* DeleteUserDevice: switched off, or in its cooldown, it raises for administrators too.
Refused == shop.reset = "off" \/ (Has(T) /\ shop.reset = "cooldown" /\ world[T].reset)

\* A device that is gone is none.
DeviceDelete ==
  LET F == world[T]
      left == IF F.panel /\ F.devices > 0 THEN F.devices - 1 ELSE 0
  IN
  /\ Tapped("DEVICES_LIST") /\ Shown.devices > 0
  /\ IF Refused
     THEN /\ window' = "closed" /\ opening' = None
          /\ UNCHANGED <<begun, world, shop, start, data, seen, error, disturbed>>
     ELSE Runs(Has(T), [F EXCEPT !.devices = IF F.panel THEN left ELSE @, !.reset = TRUE],
               IF left = 0 THEN "SUBSCRIPTION" ELSE "DEVICES_LIST")

-----------------------------------------------------------------------------
(* Messages and addresses. *)

MessageInput ==
  /\ Tapped("MESSAGE")
  /\ To("MESSAGE", [data EXCEPT !.message = seen.target]) /\ UNCHANGED world

\* on_send: to those below only.
Send ==
  /\ Tapped("MESSAGE") /\ data.message # None
  /\ \/ Confirms("message", "MESSAGE")
     \/ Confirmed("message") /\ IF T \in Below THEN Go("MAIN") ELSE Denied

\* SetUserEmail and SetUserPassword: what is wrong with a value is caught.
SetEmail ==
  /\ Tapped("EMAIL_SET")
  /\ Runs(TRUE, [world[T] EXCEPT !.email = TRUE], "EMAIL_OPTIONS")

ClearEmail ==
  /\ Tapped("EMAIL_OPTIONS") /\ Shown.email /\ Shown.telegram
  /\ Runs(TRUE, [world[T] EXCEPT !.email = @ /\ ~world[T].telegram], "EMAIL_OPTIONS")

SetPassword ==
  /\ Tapped("PASSWORD")
  /\ EditsOwnOrBelow /\ Go(IF world[T].email THEN "EMAIL_OPTIONS" ELSE "PASSWORD")

SendPurchaseMail == Tapped("EMAIL_OPTIONS") /\ Shown.email /\ Go("EMAIL_OPTIONS")

DraftInput ==
  /\ Tapped("EMAIL_CUSTOM")
  /\ To("EMAIL_CUSTOM", [data EXCEPT !.draft = seen.target]) /\ UNCHANGED world

\* on_send_email_custom; a mail that fails leaves the draft.
SendMail(fails) ==
  /\ Tapped("EMAIL_CUSTOM") /\ data.draft # None
  /\ IF ~world[T].email THEN Go("EMAIL_CUSTOM")
     ELSE \/ Confirms("mail", "EMAIL_CUSTOM")
          \/ Confirmed("mail") /\ fails /\ Go("EMAIL_CUSTOM")
          \/ /\ Confirmed("mail") /\ ~fails /\ UNCHANGED world
             /\ To("EMAIL_OPTIONS", [data EXCEPT !.draft = None])

\* The seconds between two taps are over.
Cooldown ==
  /\ data.clicked # {} /\ opening = None
  /\ data' = [data EXCEPT !.clicked = {}]
  /\ UNCHANGED <<begun, world, shop, window, opening, start, seen, error, disturbed>>

-----------------------------------------------------------------------------
(* Others: the user himself, the panel, other administrators, time; one change    *)
(* until all users are found in order again.                                   *)

Others(u, facts) ==
  /\ ~disturbed /\ facts # world[u] /\ window \notin {"lists", "closed"}
  /\ world' = [world EXCEPT ![u] = facts] /\ disturbed' = TRUE
  /\ UNCHANGED <<begun, shop, window, opening, start, data, seen, error>>

SubscriptionGone(u) ==
  "gone" \in begun.changes /\ Others(u, [world[u] EXCEPT !.sub = "none", !.panel = FALSE])
PanelUserGone(u)    == "panel" \in begun.changes /\ Others(u, [world[u] EXCEPT !.panel = FALSE])
Expires(u) ==
  /\ "time" \in begun.changes /\ world[u].sub = "ACTIVE"
  /\ Others(u, [world[u] EXCEPT !.sub = "EXPIRED"])
Buys(u) ==
  /\ "buys" \in begun.changes /\ (Has(u) \/ NameFree(world[u]))
  /\ Others(u, [world[u] EXCEPT !.sub = "ACTIVE", !.panel = TRUE])

ShopChanges(changed) ==
  /\ "shop" \in begun.changes /\ ~disturbed /\ changed # shop /\ window \notin {"lists", "closed"}
  /\ changed.points = shop.points /\ changed.reset = shop.reset
  /\ shop' = changed /\ disturbed' = TRUE
  /\ UNCHANGED <<begun, world, window, opening, start, data, seen, error>>

Next ==
  \/ RenderMain \/ RenderReferrals \/ RenderTransaction \/ RenderOther
  \/ \E w \in Windows : Switch(w) \/ SetDiscount(w)
  \/ OpenList \/ \E found \in SUBSET User : Search(found)
  \/ \E u \in User : \/ SelectUser(u)
                     \/ SelectTransaction(u) \/ SmartSearch(u)
                     \/ SelectReferral(u)
                     \/ SubscriptionGone(u) \/ PanelUserGone(u) \/ Expires(u) \/ Buys(u)
  \/ BackToReferrals \/ GoToUser \/ BackToList \/ BackToMenu
  \/ CurrentSubscription \/ Transactions \/ GiveAccess \/ GiveSubscription
  \/ \E d \in BOOLEAN : Sync(d) \/ SendMail(d)
  \/ BlockToggle \/ TrialToggle \/ ReferralReset \/ SelectFromTransactions
  \/ TogglePlanAccess \/ RoleSelect \/ ChangePoints
  \/ SubscriptionSelect \/ SubscriptionDurationSelect \/ SyncFromRemnashop
  \/ \E s \in Status : SyncFromRemnawave(s) \/ AddDuration(s) \/ ActiveToggle(s)
  \/ TrafficLimit \/ DeviceLimit \/ SquadSelect
  \/ SubscriptionDelete \/ ResetTraffic \/ Reissue \/ Devices \/ DeviceDelete
  \/ MessageInput \/ Send \/ SetEmail \/ ClearEmail \/ SetPassword
  \/ SendPurchaseMail \/ DraftInput \/ Cooldown
  \/ \E changed \in Shops : ShopChanges(changed)

Spec == Init /\ [][Next]_vars

-----------------------------------------------------------------------------
\* The panel had a user for u before, and u no row.
Foreign(u) == begun.world[u].sub = "none" /\ begun.world[u].panel

\* An administrator whom nobody disturbs is never thrown out because something is not
\* there: each handler has looked for what the next window and its commands need.  A name
\* that is in use throws him out only when he gives a first subscription to somebody whose
\* user was in the panel from the beginning or was left there by a sync: no other command
\* of the dashboard leaves a user without a row behind.
NothingMissing ==
  error # "none" /\ ~disturbed =>
    error = "taken" /\ ~Has(T) /\ (world[T].orphan \/ Foreign(T))

\* What was typed, chosen, listed and tapped once is used for the user it was meant for,
\* who is the one the message shows: no window keeps it for the next user.
MadeForTarget ==
  /\ \A f \in {"message", "draft", "plan", "transaction", "hwids", "telegram"} :
       data[f] \in {None, T}
  /\ data.clicked # {} => T # None
  /\ window \notin {"lists", "closed"} /\ opening = None => seen.target = T
=============================================================================
