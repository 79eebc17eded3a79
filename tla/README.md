# Formal models of remnabot

remnabot sells VPN subscriptions through a Telegram bot and a web API. It keeps
users, subscriptions and payments in PostgreSQL, sends work through Redis streams,
takes money through payment gateways and drives a Remnawave panel, where every
subscription is a panel user. This directory holds TLA+ models of it, the TLC
configurations that check them on small instances, and TLAPS proofs for every value
of the constants. Paths below are relative to `src/src/`.

## 1. How the system runs

* A **use case** is an `Interactor` (`application/use_cases/**`). Each request, update
  or task has one `AsyncSession` (`infrastructure/di/providers/database.py`) at
  PostgreSQL's default READ COMMITTED.
* `UnitOfWork` (`infrastructure/database/uow.py`) commits when told to and rolls back on
  an exception. A query outside `async with uow` runs in the same session.
* DTOs track which fields were assigned, and a DAO's `update` writes those fields with
  the **absolute values** of the DTO. A value computed from an older read overwrites
  what was committed since.
* The panel and the gateways are called over HTTP, usually between the read and the
  commit. The panel reports changes of its users by webhooks, which are answered with
  503, and sent again, when their handler raises.
* Tasks travel on a Redis stream: at least once, acknowledged after the task ends,
  by raising too. What lives in Redis is written one call at a time.
* A dialog keeps a copy of what it edits from window to window; handlers run one tap at
  a time per chat, and the window's getter reads again.

The models cut an operation where this structure lets others in between: at each
committed transaction, each call of an external system, each Redis call and each row
lock.

## 2. Inventory

| Component | State | Operations | Hard behaviours | What makes it correct |
|---|---|---|---|---|
| **Payment transactions** (`use_cases/gateways/commands/payment.py`, `dao/transaction.py`, `web/endpoints/payments.py`, `telegram/routers/extra/payment.py`, cron) | `transactions` rows, stream tasks | create paid, free and test payments; process COMPLETED, CANCELED, REFUNDED; cancel old rows | repeated webhooks and tasks, stops between commits, late payments, reuse of pending rows | delivered once, only when paid or free; status edges; paid ends settled |
| **Success screen** (`routers/extra/goto.py`, `services/redirect.py`) | what the user was shown | deep link, redirect | COMPLETED precedes the purchase | screen only for a user who paid or was offered something for free, and was given something |
| **Purchase dialog, pricing** (`routers/subscription`, `services/pricing.py`, `web/endpoints/public/subscription.py`) | copies of plans, prices and payments in the dialog | choose, order, pay on the web | plans, gateways and discounts edited between windows, rounding | what was shown is ordered, amounts follow the rules |
| **Gateways** (`infrastructure/payment_gateways`, `use_cases/gateways/commands/configuration.py`, `routers/dashboard/remnashop/gateways`) | rows, one adapter object per type | default rows, set and reset a field, toggle, move; call a gateway, verify and read its notices | commands of two administrators, objects shared by webhooks, identifiers and words of 14 providers | what is offered is configured, the order total; an answered notice finds its transaction |
| **Promocodes** (`use_cases/promocode`, `dao/promocode.py`) | promocode row, activations | validate, activate, edit, delete | check before lock, panel before commit | limit, one use per user, a consumed code gave its reward |
| **Subscription purchase, trial, management** (`use_cases/subscription`) | subscription rows, `users.current_subscription_id` | trial, new, renew, change, set, extend, toggle, delete, channel guard | stale reads, locks in opposite order, panel and row diverge | current row alive at the panel, rows agree with it, no days twice, one trial |
| **Panel synchronisation, importer** (`services/remnawave.py`, `use_cases/remnawave`, `routers/dashboard/importer`) | the panel's users, running keys | webhooks; bulk syncs both ways; import | webhooks late, repeated, out of order; two bulk tasks at once | row follows the panel, one task of a kind |
| **Referrals** (`use_cases/referral`) | links, rewards, points | attach, assign, give | issued mark after grant, lost updates of points | each reward once, to the chain |
| **Broadcasts** (`use_cases/broadcast`, `tasks/broadcast.py`) | broadcast, messages | start, cancel, delete, send | cancel against completion, redelivery | one message per delivery, true rows, an end |
| **Email codes, sessions** (`use_cases/auth`, `redis/auth.py`) | Redis keys, user rows | request, verify, login, refresh, logout | counters in two calls, revocation races | a stored code was sent, spent once, rotated tokens dead |
| **Telegram link, merge** (`auth/commands/telegram.py`) | users and all they own | link, merge | donor changes during the merge | nothing lost but what raced |
| **Settings, access, waitlist** (`dao/settings.py`, `redis/cache.py`, `settings/commands`) | row, cached copy, waitlist | read, update, invalidate, restore payments | stale copy stored after invalidation | no key undone, notices before the list is cleared |
| **Users and roles** (`use_cases/user`, `middlewares/user.py`, `common/policy.py`) | user rows | register, transfer ownership, assign, revoke, block, edit columns | checks and writes of rows that others change | one owner, ranks respected |
| **Plans** (`use_cases/plan`, `routers/dashboard/remnashop/plans`) | plans, form copies | edit, create, import, order, delete, toggle access | stale forms, overlapping updates, deadlocks | sound plans, writes stay inside |
| **Windows of a user** (`routers/dashboard/users`) | dialog data, target | every button of the user's windows | target and data gone between windows | windows show and use their target's things |
| **Notification queue, event bus** (`services/notification_queue.py`, `event_bus.py`) | queue, task set | enqueue, drain, shutdown | batches in flight at shutdown | only the batch is lost |

The remaining components (advertising links, blacklist, backups, bots, menu editor, statistics,
configuration, dependency injection, tests) are listed with their reasons in `PROJECT.json`:
single-row administrator forms, read-only queries, pure I/O or wiring.

**Interactions.** `ProcessPayment` calls `PurchaseSubscription`, then
`AssignReferralRewards`, then redirects the user. Promocodes, referrals and
administrators change the same subscription row and panel user as purchases do. The
panel's webhooks and the bulk tasks write those rows too. All share the session and
unit-of-work rules of section 1; the panel's unique usernames are a guard several
components rely on.

## 3. Modules

| Module | What it is | Proofs |
|---|---|---|
| `Payment`, `Delivery` | transactions from invoice to delivery; abstract: an order is claimed exclusively and delivered once | `PaymentProofs` |
| `PaymentScreen` | Payment composed with what the user is shown | `PaymentProofs` |
| `Checkout` | the purchase dialog, web orders and prices | `OfficeProofs` |
| `Gateways` | the gateways' rows, their dialog, the adapters and the webhook | `OfficeProofs` |
| `Promocode` | activations of one promocode with edits, panel and webhooks | `PromocodeProofs` |
| `PromocodeEditor` | the dialog that makes and edits promocodes | `DashboardProofs` |
| `Subscription` | one user's rows and panel users, all commands, the webhooks | `SubscriptionProofs` |
| `Reconcile` | the importer and the two synchronisations of all users | `SubscriptionProofs` |
| `Referral` | links, rewards and balances | `OfficeProofs` |
| `Broadcast` | one broadcast, its messages and tasks | `ServicesProofs` |
| `EmailCode`, `Sessions` | one-time codes; refresh tokens | `EmailCodeProofs`, `AccountsProofs`, `ServicesProofs` |
| `TelegramLink` | the merge of two accounts | `AccountsProofs` |
| `Settings` | the cached settings, access and the waitlist | `AccountsProofs` |
| `Roles` | loading, ownership, roles and columns of users | `DashboardProofs` |
| `PlanEditor` | plans and the dialog that edits them | `DashboardProofs` |
| `UserDialog` | the windows in which a user is edited | `DashboardProofs` |
| `Queues` | event bus and notification queue up to the shutdown | `ServicesProofs` |
| `*MC` | instances for TLC | |

**Sums.** Components that share no state are checked in one run by a sum:
`AccountsMC` (Settings, EmailCode, TelegramLink), `OfficeMC` (Referral, Checkout,
Gateways),
`ServicesMC` (Sessions, Broadcast twice, Queues), `SubscriptionsMC` (Subscription twice,
Reconcile) and `DashboardMC` (Roles, PlanEditor, UserDialog, PromocodeEditor). `part` names
the component that moves in a behaviour; the others rest in one canonical initial
state. Every reachable state of a component is reached with its part, so an invariant of
one of them holds in all interleavings if it holds in the sum. The two sides of
`SubscriptionsMC` use the same variables, in behaviours of their own. A sum extends the
module whose theorems are proved and instantiates the others, so that TLC evaluates the
very definitions the theorems are about.

Operators named `X_word`, marked "Mutant", are faulty variants of `X`. They are not part of
any specification: each documents a bug that some property catches.

### 3.1 Payment

| Code | Model |
|---|---|
| `transactions.status`, `created_at` | `status`, `age` (below 15 minutes, below 30, older) |
| `CreatePayment` between lookup or invoice and commit | `creating`; `OpenInvoice`, `FreeLookup`, `FreeReuse`, `CommitPayment`, `CreateFails` |
| the row returned for a price of zero | `offered` |
| the gateway | `invoice`, `notices`; `GatewayPaid`, `GatewayCanceled`, `GatewayRefunded` (external) |
| webhook endpoint, always 200 | `Webhook`, `WebhookRaises`; unanswered notices are sent again |
| the stream | `tasks`, acknowledged in `Finish` or `Acknowledge` |
| `ProcessPayment`, COMPLETED | `TakeCompleted` (task), `ConfirmFree` (direct call), `StarsPaid` (Telegram) |
| `_handle_success` | `ConfirmTest`, `Purchased`, `PurchaseRaises`, `MarkFailed`, `Reward` |
| CANCELED, REFUNDED, owner's Stars | `TakeCanceled`, `TakeRefunded`, `StarsOwnerRefunded` |
| `cancel_old_transactions_task` | `CancelOldTransactions` |
| stops and database errors | `Crash`, `UpdateLost`, `QueryRaises`, `TaskRaises` |

The purchase is one committed step, since it is one unit of work; `Subscription`
opens it up. A gateway's webhook is its verdict; `Gateways` has what adapters make of one.
`grants` and `rewards` count what was delivered and exist only in the model.

`PaymentScreen` adds who has a current subscription (`subscribed`, what `get_current` reads).
It comes from a purchase (`Pay`) or from a trial, a promocode or an administrator (`Gift`), and
goes with a deletion (`Delete`). `gifted` remembers who was given one, and exists only in the
model.

### 3.2 Promocode and its editor

Each call goes `new, validated, read, rewarded, locked, checked, done`, one step per
query, panel call or commit of `ActivatePromocode`. `lock` is `SELECT .. FOR UPDATE`;
the insert waits for it too, since its foreign key takes a key share lock on the
same row. A call checks against the version it validated (`seen`), as the code does
with its DTO. Rewards are counted in units (`row`, `panel`), "add" kinds from the
subscription read, "set" a plan, "local" a discount. `stranded` counts units given at
the panel by calls that activated nothing: the panel is called before the lock, so
they exist, and `RewardAccounted` states that they are the only excess.

`PromocodeEditor` has every window of the dialog. The two clicks of a confirmation are one
action; paging is left out; codes are compared regardless of case, as they are stored.

### 3.3 Subscription and the synchronisations

| Code | Model |
|---|---|
| `subscriptions` rows, `users.current_subscription_id`, `is_trial_available` | `rows`, `current`, `trialAvailable` |
| the panel's users and pending webhooks | `panel`, `hooks` (external) |
| a command between its steps | `task[p]`: `op`, `step`, the row read (`base`), the panel's answer (`got`) |
| order of panel calls and UPDATEs of a command | `Script` |
| row locks until commit | `held`; `Lock`, and `Deadlocked` when PostgreSQL aborts |
| `_build_update_request`, `_build_create_request` | `Sent`, `Answer` |
| `apply_sync` with `update` | `Merge`: the fields that differ from what was read |
| `handle_user_event`, `SyncRemnaUser`, `_process_delete_subscription` | `Synchronise`, `ProcessDelete`, `LookAgain`, `Ignore` |

A webhook's first reads (the user by panel id, his current row) are one step.
`user.created` is not queued: the endpoint ignores it unless tagged as imported. `merge`
takes its row's lock even when nothing differs, which only adds waiting. Webhooks form a
queue whose head is answered before the next one is: `Handler` has at most one element
(an assumption on the panel, part of `ConstantsAssumption`). Left out: limits, squads and
tags (written like `expire`), traffic resets, unlimited durations, the purchase
discount, users without a Telegram account (the fallback `get_by_telegram_id` then finds
nobody). `bought` and `by` exist only in the model.

`Reconcile` has the tasks over all users: `Press`, `Dispatch`, `Return` are the dialog's
handler around its Redis key, `Fetch` and `Take…`, `Look`, `SyncNew`, `SyncKnown`,
`UpdatePanelUser`, `WriteUrl`, `CreatePanelUser` the steps of a task per user, `Import` the
import, `Extend` and `Delete` whatever commands do meanwhile. The panel numbers its users one
after another: a new one's number (`Free`) is in no row and in nothing a task remembers.

### 3.4 Accounts and sessions

`EmailCode` names a code by the call that generated it; a code for an address nobody has
lives in Redis (`pending`), any other in the user's row. `Sessions` has a key per token and
a set of tokens per user, one Redis call per action. `TelegramLink` runs the merge
statement by statement; `raced` records that the donor was changed after it was
examined. `Settings` has a scalar key, a toggle and a list of the row, the cache and the
waitlist: `ReadRow`, `Write`, `Invalidate`, `Commit` per command.

### 3.5 Shop and administration

`Checkout` takes a handler of the dialog as one action; `orders` are the transactions with
what was agreed on, `dialog` what it keeps. `Referral` creates, grants and marks a reward in
three transactions. `Roles` has three transactions per update: load or register (with
the transfer of ownership), the command's read with its checks, its write. `PlanEditor` and
`PromocodeEditor` keep a form per administrator and split each update of a row into read
and write. `UserDialog` splits every tap into handler and getter, with others' changes
between them. A deletion of a plan that is gone renumbers the rest like any other
(`BeginDelete`); only one that finds its row holds it locked (`Deletes`).

In `UserDialog` a handler that raises closes the dialog; `error` remembers whether something
was missing or a name was taken. A first subscription creates a panel user under the account's
fixed name (`remna_name`): `NameTaken` and `NameFree` say when the panel already has a user of
that name, and both may be true where a panel user was found by its Telegram account, whose
name nobody knows.

`Gateways` has an adapter as a record: the settings it needs, those it calls with, those it
verifies by, whose identifier it keeps of a payment (`keeps`) and reads off a notice (`reads`),
its words and what they stand for. `Meaning` is what the gateway means by them (external).
`Adapter` is `GATEWAY_MAP`; `Lookup` is the factory with its one cached object per type, whose
memory (`method` for Platega, `key` for Wata) the webhooks share. A setting is right, wrong or
not there: calls and verifications succeed with right ones. Each command of the dialog is a
`Begin…` and a `Write…`; `Ask`, `Call`, `Commit` are a payment's creation, and `Receive`,
`LookupRaises`, `Handle`, `SyncMethod`, `Enqueue` a webhook's. `torn`, `shuffled`, `crossed` and
`unread` record what two commands or webhooks, or a failing lookup or key request, got between.
A behaviour is about one gateway: types share no state but the order, which has a beginning of
its own.

### 3.6 Broadcasts and queues

`Broadcast` has the row, a row per message, the chats, and the send and deletion tasks with
redelivery. `Raise` may be taken by any statement of the send task, by the one that writes ERROR
too, after which the delivery has `Failed`; `RaiseRemoval` ends a deletion. `Queues` has the
event bus's tasks, the queue, the worker's batch and the drain at shutdown; what is out of order
(service, route) stays so for a behaviour.

## 4. Runs

| Run | Instance | Shows |
|---|---|---|
| `payment_safety` | a paid, a free, a Stars and a test transaction, 2 workers, every fault | `GrantedOnce`, `GrantBacked`, `RewardBacked`, `StatusEdges`, implements `Delivery` |
| `payment_live` | paid and Stars transactions, no stops or database errors, `FairSpec` | `PaidIsSettled`, `NothingStranded` |
| `payment_screen` | a paid, a free, a test payment and the owner's Stars, one worker, subscriptions given and deleted | `ScreenFollowsPurchase` |
| `payment_screen_comment` | two transactions | **violated**: `ScreenIsTruthful` |
| `promocode` | 2 users, 3 calls, 7 versions, every fault | `LimitRespected`, `FirstOfItsUser`, `ConsumedIsRewarded`, `RewardAccounted` |
| `subscriptions` | 3 commands in sequence, 2 at once, 2 bulk tasks over 4 accounts | `CurrentIsNotDeleted`, `NothingForFree` (sequence); `BusyIsSafe` (at once: current row exists at the panel, nothing for free, one trial); `AllAgree` (rows agree with the panel, tasks reconcile); `OneAtATime` |
| `subscription_toggle` | one toggle, an expiry | **violated**: `ExpiredIsNotEnabled` |
| `subscription_rejoin` | leave, toggles, join, one after the other | **violated**: `RestoresOwn` |
| `accounts` | 3 requests on the settings, codes of 2 accounts, a donor merged, 2 links | `KeysAreKept`, `StaleOnlyByRace`, `NoticeBeforeClear`, `StoredWasDelivered`, `SpentOnce`, `MergeKeeps` |
| `office` | 2 purchases in a chain of 3 users, 2 orders with one edit, 14 gateways with 2 payments, 2 webhooks, 2 administrators | `BalanceAccounted`, `IssuedWasGranted`, `RewardFollowsChain`, `ShownIsOrdered`, `AmountFollowsRules`, `GatewaysAreTrue` (offered ones are configured, the order is total, a notice that was read became the task that finds its transaction, a method is its own) |
| `services` | 3 requests on tokens, a broadcast to 2 chats delivered twice, one removed, 4 events | `ExchangedOnce`, `RestRevoked`, `RowsAreTrue` (one message per delivery, rows true of the chats), `OnlyBatchIsLost`, `Ends`, `QueuedIsSent` |
| `dashboard` | 3 users and 3 updates, 2 administrators on 3 plans, windows over 2 users, 2 on 3 promocodes | `OwnerIsConfigured`, `RanksRespected`, `PlansAreSound`, `WritesStayInside`, `WindowsAreTrue` |

Deadlock is not checked: every call, transaction and clock is finite, and a system
with nothing left to do has stopped legitimately.

**Bounds.** Two workers and one offer already give every race on a row: the claim is a
single UPDATE, and a third worker only repeats the loser's part (the theorems cover
any number). `StarsAndTestsAlone` keeps Stars and test payments, which share nothing with
an order's other transactions, in behaviours of their own. `age` has the three values its
two thresholds tell apart. Three promocode calls with limits 1 and 2 let the limit be
reached and exceeded by one; `OneMix` keeps a behaviour to the versions that ask one of the
two questions. In Subscription two commands with a webhook handler reach every pair of
overlapping scripts; `MaxNow` is large enough for a row of `Days` to expire where expiry
matters, and below it where rows must agree, where it would only hide what is asked.
The beginnings (`Beginnings`, `Settings`, `Starts`) of editors and windows each open the
windows and commands that meet; `edits` and `writes` bound how often a form changes. In
UserDialog others change something once until all users are in order again. `MaxEvents` is
large enough that publishing never blocks. Symmetry is used over calls and users which no
action tells apart, and in no run with a liveness property.

**Limits that the runs need** (each is a true limit of the code, not of the model):

* `BusyIsSafe` holds for two overlapping commands and without `SetUserSubscription`. That
  command calls the panel before it takes a lock, so a deletion may fall between; with
  three commands a change of plan that started from a row replaced meanwhile can link a
  new row to a panel user deleted since, and an administrator's deletion between two racing
  trials lets both through.
* `CurrentIsNotDeleted` needs webhooks answered one at a time: with two at once, a merge that
  renumbers the row between the read and the look of a deletion leaves a DELETED row current.
* `AllAgree` holds for one command at a time, in-order webhooks and no expiry during a
  command. An expiry webhook that arrives before a new row is committed finds nobody. Of
  the tasks it is claimed for users nobody disturbed.
* A `user.modified` webhook that is delivered after `user.deleted` imports the deleted user again.
* A new purchase that overlaps `DeleteSubscription` can have its row unlinked: the pointer is
  cleared whatever it holds by then. A stop in a new purchase leaves an orphan panel user.
* Of two overlapping renewals, extensions or promocode rewards one is lost; none is
  counted twice.
* A free payment may take over the pending row of a paid invoice of the same offer; the
  invoice stays payable, and a later payment finds the row COMPLETED.
* `PaidIsSettled` counts a row that the cron canceled as settled: money that arrives
  after it is not delivered.
* `OneAtATime` excuses starts after the key expired or was deleted by an earlier starter.
* `OwnerIsConfigured` excuses a role command that wrote over a role changed since its check:
  it may demote the new owner until his next update.
* `MergeKeeps` excuses what raced with the donor's examination: an email of the donor's own, a
  purchase begun before the link, whose stale copy still names the donor.
* `SpentOnce` is of codes read once: two logins that overlap both succeed. It excuses an
  address whose registration stopped between its commit and the revocation (`LeftBehind`).
* `GatewaysAreTrue` excuses a gateway whose reset met a toggle, which leaves it active without
  a setting and out of the toggle's reach; an order that two moves wrote at once; a Platega
  method stored while another webhook of the object was handled; a Wata notice whose second
  key request failed, and a notice whose gateway's lookup raised, which are answered with 200
  and lost.
* `ScreenFollowsPurchase` asks of a user whose subscription was given to him no purchase: the link
  finds any current subscription, and COMPLETED is committed before the purchase.
* `Ends` excuses a broadcast whose delivery could not write ERROR (`Failed`).
* `WindowsAreTrue` excuses one thing an undisturbed administrator meets: a first subscription for
  somebody whose name the panel has, from the beginning or since a synchronisation left it there.
* `NothingStranded` is claimed without stops and database errors: either leaves a COMPLETED
  transaction with nothing granted. `BalanceAccounted` is of balances nobody wrote at once,
  `RanksRespected` of roles nobody changed since the check.
* `WritesStayInside` is of forms that were up to date when confirmed; a stale form writes its
  whole copy, over access toggled since too.

**Fairness.** `Payment!FairSpec`: weak fairness that a gateway's notice is answered
(gateways resend until they see a 200); strong fairness per transaction that some worker
takes its completed notice, since the stream is first in first out but workers are
busy with other tasks in between, so the step is not continuously enabled; weak
fairness that a running worker takes its next step (a coroutine is resumed).
`ServicesMC`: weak fairness of the steps of a send task in progress, of the redelivery of one
that stopped, and of the bus's tasks, the queue's worker and the drain. Nothing is
assumed of users, gateways' verdicts, administrators, the clock or the cron, nor of any
fault.

## 5. Divergences found

With a run:

1. `ScreenIsTruthful`: the success link names no payment, so an earlier purchase opens
   the success screen for a checkout that is still pending (`goto.py:266` says it is
   shown only once the payment is completed).
2. `ExpiredIsNotEnabled`: the toggle's comment (`management.py:42`) takes an expired row
   to be stored ACTIVE; the panel's webhook stores EXPIRED, and the toggle turns it on.
3. `RestoresOwn`: "Only restore what we disabled" (`management.py:471`); a toggle does not
   reset `disabled_by_channel_leave`, and a later join enables what an administrator
   disabled.

Met while modelling, without a run of their own:

* `user/commands/roles.py:115` reads and writes in one transaction "to close the TOCTOU window";
  at READ COMMITTED it stays open. `RanksRespected` is what holds.
* A new promocode loses the reusable and inactive flags of its form (`CreatePromocodeDto` has
  no `is_reusable`, `is_active` is set). An update skips the validation of the reward that a
  creation makes; a code that exists raises; the update of a deleted promocode is reported
  as done.
* `DeviceDelete` is refused to administrators too while single resets are off;
  `is_double_click` keeps its stamp after a confirmation; `SetUserEmail` checks no rank.
* "Synchronise from Remnashop" of an account without Telegram whose panel user is missing
  creates a panel user nobody is linked to; the next attempt raises ConflictError.
* A panel user that is created has no status in the request: a DISABLED row comes back ACTIVE.
* The handler of a bulk task deletes its key once more than the task, and the key lives 600 s:
  a third start may overlap.
* Deleting a broadcast during a batch writes PENDING over SENT rows; a redelivery counts
  twice; COMPLETED overwrites a cancel.
* A user with a trial, a promocode's or an administrator's subscription sees the success screen
  for a payment whose purchase raised or was never run: the status is committed at
  `payment.py:383`, and `goto.py:270` asks for any subscription.
* A gateway that cannot be looked up (a database error, no row) has its notice answered with 200
  (`payments.py:109`); the gateway does not send it again.
* A broadcast stays PROCESSING when ERROR cannot be written: always so after a database error in
  a read outside the unit of work (`tasks/broadcast.py:50`), since nothing rolls the session back.
* Giving a first subscription to somebody whose name the panel has raises ConflictError out of
  the dialog (`services/remnawave.py:96`).
* A link of a Telegram account tells the panel subscription by subscription
  (`auth/commands/telegram.py:319`); an error leaves the rest untold although the link is
  committed.
* `_define_referral_level` never yields SECOND: a user without a row has no parent.
* A code whose registration stopped between commit and revocation registers again.
* Two overlapping changes of password leave a token live that no set names.
* Overlapping updates of a plan can double its durations or mix columns, those of a
  promocode mix columns.

## 6. Proofs

All theorems are of the full specifications, for every set of users, calls, transactions,
versions and faults, from the module's `ConstantsAssumption` alone, which states types, the
bounds' types, that `None` is no element of the sets, and

* Roles: at most one owner in the rows a behaviour begins with;
* Subscription: commands and webhooks are different processes, webhooks come one at a time;
* Payment: transactions of one offer are one user's, Stars and test payments are not free.

Each proof has one inductive invariant, which TLC checked on the runs' instances first,
one lemma per action or group of actions, and a last step by PTL.

| Module | Invariant beyond the types | Theorems |
|---|---|---|
| `PaymentProofs` | `CreateInv`: one call creates a transaction; `ClaimInv`: a busy worker's row is COMPLETED or REFUNDED, no two share one; `GrantInv`: a granted row is never claimable again; `PaidInv`: a completed row was paid or offered for free | `GrantedOnceHolds`, `GrantBackedHolds`, `RewardBackedHolds`, `StatusEdgesHold`, `NothingStrandedHolds`, `ScreenFollowsPurchaseHolds`, `Refinement` |
| `PromocodeProofs` | `LockInv`, `CheckInv`: what the lock's holder checked is still true; `RewardInv` and the sum of units per user | `LimitHolds`, `FirstOfItsUserHolds`, `ConsumedIsRewardedHolds`, `RewardAccountedHolds` |
| `SubscriptionProofs` | everything that travels ends by what was bought; what is prepared names a panel user; a deletion's row is its user's and is marked only while it is not current. Tasks over all users: `KeyInv`: running tasks have their keys, one each; `Unheld`: a number about to be written is in no other's row; `Agreed`: who knows a number that was just made knows its user | `NothingForFreeHolds`, `CurrentIsNotDeletedHolds`, `OneAtATimeHolds` |
| `AccountsProofs` | settings: copies were committed once; between drop and commit only a racing reader fills the cache; who was read off is told first. Codes: EmailCode's invariant, in the composed behaviours. Link: `ShareInv`: what a request re-points is its donor's and the rest of his raced; `AloneInv`: no two requests share a donor or a survivor; `ChosenInv`, `PanelInv` | `KeysAreKeptHolds`, `StaleOnlyByRaceHolds`, `NoticeBeforeClearHolds`, `StoredWasDeliveredHolds`, `SpentOnceHolds`, `MergeKeepsHolds` |
| `ServicesProofs` | sessions: a key is of an issued token, a taken one has none; a live session is in its user's set unless a change emptied it meanwhile. Queues: a task that was not gathered is of an event published late. Broadcast: `SentInv`, `LateInv`, `GoneInv`, `MessageInv`, `CountInv`, and `DeliveredInv` for two deliveries | `ExchangedOnceHolds`, `RestRevokedHolds`, `OnlyBatchIsLostHolds`, `RowsAreTrueHolds` |
| `EmailCodeProofs` | a call past its mail delivered its code to the address it stores it for (`CarriesInv`); a code is in one place, and a used one in none unless it was left behind (`PlacesInv`); a code and its end are written together and end by the life of one asked for now (`EndsInv`) | `StoredWasDeliveredHolds`, `SpentOnceHolds`, `CounterOutlivesCodeHolds` |
| `OfficeProofs` | referrals: a chain read once stays the chain; rewards belong to its members; a grant is marked after it was made; `TurnInv`: a call grants each level once, in turn; `AccountInv`: what a grant under way has read is the balance unless writes overlapped. Checkout: `HasChosen`: what a window has chosen; `KeptBacks`, `ShownBacks`: an order backs every payment kept or shown; `Fair`: an amount is what its own copy's price comes to. Gateways: `Ordered`: the index is a bijection of types and places; `CommandOK`: what a command read; `HookOK`: a webhook past the body has its notice's task, and its method in the object unless it was crossed | `IssuedWasGrantedHolds`, `RewardFollowsChainHolds`, `BalanceAccountedHolds`, `ShownIsOrderedHolds`, `AmountFollowsRulesHolds`, `GatewaysAreTrueHolds` |
| `DashboardProofs` | roles: who became owner since a transfer read the owners is its own actor; a command holds what it checked and knows whether a role was written since. Windows: `OneTarget`: what a dialog keeps is for the user it was started with; `Undisturbed`: what the window shown or about to be shown needs is there. Plans and promocodes: `PlanForm`, `PromoForm`: what a copy kept in a dialog may lack, and what of it is still the row's; `PlanJob`, `PromoJob`: what a command has read is there until somebody else writes; `Lists`: a renumbering lists each plan once, in order | `OwnerIsConfiguredHolds`, `RanksRespectedHolds`, `WindowsAreTrueHolds`, `PlansAreSoundHolds`, `WritesStayInsideHolds` |

**Payment.** None of the properties is inductive: that a transaction is granted once rests on
who holds it. `Phase` maps a row and its workers to an order; every step of Payment is a step of
`Delivery` or leaves the phases alone, `Refinement == Spec => ImplementsDelivery`.
`NothingStrandedHolds` assumes neither stops nor database errors among the faults. The screen's
theorem is of `ScreenSpec`, whose every step is one of Payment or of the screen: `ScreenInv`:
who has a subscription bought it or was given it, and who was shown the screen has paid or been
offered something for free.

**Promocode.** The single use is proved without the unique constraint that the model class
declares and a migration dropped. `RewardAccountedHolds` counts log entries, calls in flight
and stranded units by cardinalities of finite sets.

**Subscription.** `End` is the time at which all that was bought runs out. Rows, panel users,
webhooks, what a process read and what it was answered all end by then (`Stored`,
`Working`); a step that buys moves `End` by `Days` and one answer by as much. That the
current row is not DELETED needs `Looking` and `Placed`: a deletion's handler marks a row
only after it saw that another is current, and only the one handler could change that row's
panel user. Attempting the proof showed a `CASE` of `Purchase` with overlapping guards, which
TLC had resolved by order and the logic does not; it is an IF now.

**Reconcile.** That no two users come to hold one panel user takes the keys and the numbers: two
tasks that both write into rows are of different kinds, and what the one from the panel
fetched of a panel user that the one from the bot has just made names the same user. It
needs a panel that never gives a number twice. An earlier model let a deleted number come
back, and the proof did not go through: a task could write the number it remembered into
one row after the panel had given it to another. The theorem is of `Reconcile`'s own
specification with every constant free (`Syncs` of `SubscriptionsMC`), for any beginning in which
no two rows hold one number.

**Roles.** `Transfers`: the owners a transfer is about to demote are all there are but for its
actor. `RanksRespectedHolds` is an action property: the one step that changes another's row
is the write of a command whose checks `Holds` remembers.

**UserDialog.** `Fits` says of each window what it needs of its user and of the shop. A handler
leads to a window only after it saw that; a button leads without asking only to windows that
need no more than the one it is in (`SwitchKeeps`). `disturbed` is true from a change by
others until everybody's row and panel user agree again, and at the start if somebody's do
not: only then may a window miss something. That a taken name throws nobody else out needs that
whom the panel has without a row it had so from the beginning (`Strangers`): every other command of
the dashboard that ends without a row ends without a panel user, or an orphan.
The theorem is of `UserDialog`'s own
specification with its constants free (`UI` of `DashboardMC`).

**EmailCode.** A request's code and its end must not be mixed with another's when UserDao.update
writes the differing fields: the new end differs from the one that was read because requests
are a positive cooldown apart (60 s in `core/constants.py`), which `ConstantsAssumption` states.
`AccountsMC` takes its codes from `EmailCodeProofs`, so that its lemmas can be cited of the
composed behaviours (`CodesMoveOrRest`).

**TelegramLink.** That a merge loses only what raced is an invariant about its commit, so what a
request holds of its donor is followed from the statement that selected it to the commit:
another request could take it only by holding the same donor, which the rows' locks forbid.
That the panel knows the account rests on Telegram users being known on all they own, and on
a purchase with a copy from before the link being raced. TLC checked the invariant with two
users of each kind and two requests; the theorem is of `AccountsSpec`, whose two parts for the
link only restrict who moves.

**Referral.** What is due to a user is counted by the cardinality of a finite set, one unit per
point or day granted, so that no sum over data is needed: a grant adds units of a reward that
`TurnInv` shows was not granted before.

**Checkout.** Its theorems are of `Checkout`'s own specification with every constant free
(`Buying` of `OfficeMC`). They assume of a plan that it has a duration, and of a price in a
currency without cents that it is whole, as `RemovePlanDuration` and `parse_price` see to
(`plan/commands/durations.py:57`, `services/pricing.py:105`): without the latter a price below
one rouble would be charged as one. The arithmetic, that rounding keeps the order of amounts
and never exceeds a price, is proved for all numbers.

**Gateways.** The invariant has two halves no step joins: rows, dialog and commands
(`ConfiguringInv`), and notices, webhooks and adapter objects (`WebhookInv`). That the order
stays total needs that it is a bijection, under which a row's place in the sorted list is its
index (`PlaceIsIndex`, by counting the rows before it), so that a move is a swap or a rotation.
That an answered notice finds its transaction is a lemma about all fourteen adapters
(`AdaptersAreFaithful`): each reads the identifier it keeps, and its table says of every word
what the word means; a notice answered without being read is in `unread`. The theorem is of
`Gateways`' own specification with its constants free (`Gating` of `OfficeMC`).

**PlanEditor.** A sound plan is not inductive, since the copy in a dialog may be unsound and yet
be written: what is (`PlanForm`) is that a copy can be used (`Usable`: limits that count are not
zero, a duration and none twice), which every handler keeps and `Valid` and `Prepared` complete
when it is confirmed. An update writes the fields that differ from what it read; it keeps a
plan sound because what it read is still the row, unless it overlapped another (`Read`). That
a renumbering ends with 1 to n needs that its list is a bijection of the places and the plans that
remain (`Lists`), and that the sort of `MoveDurationUp` and the rotation of `MovePlanUp` lose
nothing (`Arranged`, `Up`), by counting the elements before a place. Attempting the proof
refuted an earlier `MovesSettle`, which was said of every deletion: one that the database ends
as a deadlock leaves the old orders. It is said of completed ones now, and the run begins with a
gap in the orders, with which TLC finds the earlier one violated too. The order of durations is
by counting places rather than by a sorting operator with a parameter, which the provers
cannot instantiate.

**PromocodeEditor.** The same argument with one more link, the windows: an amount is typed only in a
window that its type has, a plan is chosen only for a subscription, and no window leads to a
change of type while one of those is open (`PromoForm`). Both theorems are of the two modules'
own specifications with their constants free (`Plans` and `Promocodes` of `DashboardMC`), from the
assumption that the rows a behaviour begins with are sound and that exported files hold usable
plans.

**Broadcast, Queues.** These theorems are of `ServicesSpec`, for every set of chats and size of
batch, with the deliveries and faults of its two instances: one delivery that is cancelled,
deleted and cleared, or two after a stop. `LateInv` weighs what was sent after the cancel
with what is left of the batch; `MessageInv` says who knows a message at each step of the
task; `CountInv` counts recipients by the cardinalities of what is left and of the batch.

**Only model-checked.** Liveness (`PaidIsSettled`, `Ends`, `QueuedIsSent`) is beyond the prover.
What is claimed of quiet states (`BusyIsSafe`, `AllAgree`) is checked by TLC alone: it holds within
the limits section 4 names (at most two commands at once, a choice of kinds), beyond which the
code does not keep it; a theorem would carry them as assumptions and has not been attempted.

## 7. Not modelled

* Gateways: payloads, networks and hashes (a signature matches when the settings are right), the
  default currency (a key of the settings).
* Signatures, HTTP, rendering, keyboards, translations, mail and hashing: I/O.
* The trimming of the Redis stream at 1000 entries (`taskiq/broker.py:19`): reaching it takes a
  thousand tasks, and a smaller limit would be another program.
* Settings: failing Redis writes; after a race the cache stays stale for up to 6 hours.
* Reconcile: pagination without ORDER BY (`dao/user.py:138`), the redelivery of a task still
  running; a stop between a panel user's creation and its import ends in a ConflictError at
  the redelivery; outcomes that depend on the order of accounts with two panel users are not
  among the beginnings; overlapping syncs from the panel can make two users of one panel
  user without Telegram.
* TelegramLink: the donor's points, discounts and activations, which vanish with its row.
* PlanEditor: prices in full, public codes, copies the ORM might share; ties in the order are
  arbitrary. Checkout: getters that raise; a one-time discount applies to every order made
  before it is used.
* Roles: the middleware's two reads are one step, a registration one transaction.
* The components listed as `not_modelled` in `PROJECT.json`.

## 8. Plan

| Step | Content | State |
|---|---|---|
| 1 | Payment, Delivery, PaymentScreen with all safety and the refinement proved | done |
| 2 | Promocode, Subscription, accounts, shop, services, dashboard modelled and checked | done |
| 3 | Theorems of Settings, Sessions, EmailCode, Referral, Roles, Subscription | done |
| 4 | `RowsAreTrue` of Broadcast, `OnlyBatchIsLost` of Queues: invariants about who holds which copy | done |
| 4a | `SpentOnce` and `StoredWasDelivered` of the composed run | done |
| 4b | `MergeKeeps` of TelegramLink | done |
| 4c | `BalanceAccounted` of Referral, `ShownIsOrdered` and `AmountFollowsRules` of Checkout | done |
| 4d | `OneAtATime` of Reconcile | done |
| 4e | `GatewaysAreTrue` of Gateways | done |
| 4f | `WindowsAreTrue` of UserDialog | done |
| 4g | `PlansAreSound`, `WritesStayInside` | done |
| 5 | Gateway adapters and their configuration | done |
| 6 | Payment with Subscription's steps, a delivery followed through a stop to the retry that finds the panel user there | |
