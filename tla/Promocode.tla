----------------------------- MODULE Promocode -----------------------------
(***************************************************************************)
(* The activations of one promocode: ActivatePromocode validates the code, *)
(* applies the reward at the panel outside any transaction, then locks the *)
(* promocode's row, checks the limit and the user again and commits the    *)
(* activation with the local side of the reward.  Administrators edit and  *)
(* delete the promocode meanwhile, and the panel's webhooks write its view *)
(* of a subscription back into the database.                               *)
(*                                                                         *)
(* The reward is counted in units: row and panel hold how many a user has. *)
(***************************************************************************)
EXTENDS Naturals, Sequences, FiniteSets

CONSTANTS
  User,
  Call,       \* executions of ActivatePromocode, one request each
  Version,    \* what an administrator may save: [active, limit, reusable, kind]
  Unlimited,  \* no activation limit
  Faults,     \* which faults may occur
  Nothing     \* no call, no promocode, no subscription

\* add: duration, traffic, devices; set: a plan; local: a discount.
Kind == {"add", "set", "local"}

ASSUME ConstantsAssumption ==
  /\ Unlimited \notin Nat
  /\ Version \subseteq [active : BOOLEAN, limit : Nat \cup {Unlimited},
                         reusable : BOOLEAN, kind : Kind]
  /\ Faults \subseteq {"stop", "panel", "unsubscribe"}
  /\ Nothing \notin Call \cup Version \cup Nat \cup User

VARIABLES
  promo,      \* the promocodes row, Nothing once deleted
  log,        \* its activations in the order they commit, with the version each call saw
  lock,       \* the call holding the row FOR UPDATE
  pc, by, seen, snap,   \* each call: where it is, its user, version and subscription read
  subscribed, \* users with a current subscription
  row, panel, \* reward units in the database and at the panel
  notices,    \* webhooks of the panel not yet handled
  stranded    \* units given at the panel by calls that activated nothing

promocode == <<promo, log, lock>>
call      == <<pc, by, seen, snap>>
reward    == <<row, panel, notices, stranded>>
vars == <<promo, log, lock, pc, by, seen, snap, subscribed, row, panel, notices, stranded>>

Active == {"validated", "read", "rewarded", "locked", "checked"}

\* Every variable keeps its type.
TypeOK ==
  /\ promo \in Version \cup {Nothing}
  /\ log \in Seq([user : User, seen : Version])
  /\ lock \in Call \cup {Nothing}
  /\ pc \in [Call -> Active \cup {"new", "done"}]
  /\ by \in [Call -> User \cup {Nothing}]
  /\ seen \in [Call -> Version \cup {Nothing}]
  /\ snap \in [Call -> Nat \cup {Nothing}]
  /\ subscribed \subseteq User
  /\ row \in [User -> Nat] /\ panel \in [User -> Nat]
  /\ notices \subseteq [user : User, units : Nat]
  /\ stranded \in [User -> Nat]

Init ==
  /\ promo \in Version
  /\ log = <<>>
  /\ lock = Nothing
  /\ pc = [c \in Call |-> "new"]
  /\ by = [c \in Call |-> Nothing]
  /\ seen = [c \in Call |-> Nothing]
  /\ snap = [c \in Call |-> Nothing]
  /\ subscribed \in SUBSET User
  /\ row = [u \in User |-> 0] /\ panel = [u \in User |-> 0]
  /\ notices = {}
  /\ stranded = [u \in User |-> 0]

-----------------------------------------------------------------------------
(* The two checks made by validate and made again under the lock. *)

WithinLimit(v) == v.limit # Unlimited => Len(log) < v.limit
NotUsedBy(v, u) == ~v.reusable => \A i \in 1..Len(log) : log[i].user # u

\* Mutant: only limited promocodes are locked.
Locks_limited(v) == v.limit # Unlimited

\* create_activation locks the row unless neither check applies.
Locks(v) == v.limit # Unlimited \/ ~v.reusable

-----------------------------------------------------------------------------
(* ActivatePromocode. *)

\* The checks read one after the other; what they reject is checked again under
\* the lock, except for the subscription, which get_current reads again.
Validate(c, u) ==
  /\ pc[c] = "new"
  /\ promo # Nothing /\ promo.active
  /\ WithinLimit(promo) /\ NotUsedBy(promo, u)
  /\ promo.kind = "add" => u \in subscribed
  /\ pc' = [pc EXCEPT ![c] = "validated"]
  /\ by' = [by EXCEPT ![c] = u]
  /\ seen' = [seen EXCEPT ![c] = promo]
  /\ UNCHANGED <<promocode, snap, subscribed, reward>>

\* get_current: the reward is computed from what is read here.
ReadSubscription(c) ==
  /\ pc[c] = "validated"
  /\ snap' = [snap EXCEPT ![c] = IF by[c] \in subscribed THEN row[by[c]] ELSE Nothing]
  /\ pc' = [pc EXCEPT ![c] = "read"]
  /\ UNCHANGED <<promocode, by, seen, subscribed, reward>>

\* An added reward without a subscription is an empty _PendingReward.
Gives(c) == seen[c].kind = "add" => snap[c] # Nothing
Units(c) == IF seen[c].kind = "add" THEN snap[c] + 1 ELSE 1
OnPanel(c) == seen[c].kind # "local" /\ Gives(c)

\* The panel has a user for u: with the subscription, or left by a failed call.
AtPanel(u) == u \in subscribed \/ panel[u] > 0

\* create_user conflicts with a user that is there, update_user misses one that
\* is not.
Refused(c) == OnPanel(c) /\ (AtPanel(by[c]) <=> snap[c] = Nothing)

\* Only user.modified is handled: a creation is not.
GivePanel(c) ==
  /\ panel' = [panel EXCEPT ![by[c]] = Units(c)]
  /\ notices' = IF snap[c] = Nothing THEN notices
                ELSE notices \cup {[user |-> by[c], units |-> Units(c)]}

ApplyRemote(c) ==
  /\ pc[c] = "read" /\ ~Refused(c)
  /\ pc' = [pc EXCEPT ![c] = "rewarded"]
  /\ IF OnPanel(c) THEN GivePanel(c) ELSE UNCHANGED <<panel, notices>>
  /\ UNCHANGED <<promocode, by, seen, snap, subscribed, row, stranded>>

\* A call that ends without an activation leaves what it gave at the panel.
End(c, given) ==
  /\ pc' = [pc EXCEPT ![c] = "done"]
  /\ lock' = IF lock = c THEN Nothing ELSE lock
  /\ stranded' = IF given THEN [stranded EXCEPT ![by[c]] = @ + 1] ELSE stranded
  /\ UNCHANGED <<promo, log, by, seen, snap, subscribed, row>>

\* The panel refuses, or times out after it applied the update.
RemoteRaises(c) ==
  /\ pc[c] = "read"
  /\ "panel" \in Faults \/ Refused(c)
  /\ \/ End(c, FALSE) /\ UNCHANGED <<panel, notices>>
     \/ OnPanel(c) /\ ~Refused(c) /\ End(c, TRUE) /\ GivePanel(c)

\* Mutant: the row is not selected FOR UPDATE.
LockPromocode_skipped(c) ==
  /\ pc[c] = "rewarded"
  /\ pc' = [pc EXCEPT ![c] = "locked"]
  /\ UNCHANGED <<promocode, by, seen, snap, subscribed, reward>>

\* SELECT .. FOR UPDATE waits for its holder; a deleted row is not locked.
LockPromocode(c) ==
  /\ pc[c] = "rewarded"
  /\ IF Locks(seen[c]) /\ promo # Nothing
       THEN lock = Nothing /\ lock' = c
       ELSE UNCHANGED lock
  /\ pc' = [pc EXCEPT ![c] = "locked"]
  /\ UNCHANGED <<promo, log, by, seen, snap, subscribed, reward>>

\* The count and the existing activation, against the version validated.
CheckPasses(c) ==
  /\ pc[c] = "locked"
  /\ WithinLimit(seen[c]) /\ NotUsedBy(seen[c], by[c])
  /\ pc' = [pc EXCEPT ![c] = "checked"]
  /\ UNCHANGED <<promocode, by, seen, snap, subscribed, reward>>

CheckRaises(c) ==
  /\ pc[c] = "locked"
  /\ ~(WithinLimit(seen[c]) /\ NotUsedBy(seen[c], by[c]))
  /\ End(c, OnPanel(c)) /\ UNCHANGED <<panel, notices>>

\* Mutants: the value read is written back, though there may be none; the local
\* side is skipped; it adds to the row instead of writing what was computed.
Persist_read(c) == row' = [row EXCEPT ![by[c]] = snap[c]]
Persist_nothing(c) == UNCHANGED row
Persist_again(c) == row' = [row EXCEPT ![by[c]] = @ + 1]

\* _persist_reward writes the value computed before the panel was called.
Persist(c) == row' = IF Gives(c) THEN [row EXCEPT ![by[c]] = Units(c)] ELSE row

\* Insert, local reward and commit.  The foreign key of the new row takes the
\* promocode's key share lock, which waits for a FOR UPDATE holder too.
Activate(c) ==
  /\ pc[c] = "checked"
  /\ promo # Nothing /\ lock \in {c, Nothing}
  /\ log' = Append(log, [user |-> by[c], seen |-> seen[c]])
  /\ Persist(c)
  /\ lock' = Nothing
  /\ subscribed' = IF seen[c].kind = "set" THEN subscribed \cup {by[c]} ELSE subscribed
  /\ pc' = [pc EXCEPT ![c] = "done"]
  /\ UNCHANGED <<promo, by, seen, snap, panel, notices, stranded>>

\* The insert violates the foreign key of a deleted promocode.
ActivateRaises(c) ==
  /\ pc[c] = "checked" /\ promo = Nothing
  /\ End(c, OnPanel(c)) /\ UNCHANGED <<panel, notices>>

\* The process stops, or a query raises: the database drops the lock.
Stop(c) ==
  /\ "stop" \in Faults /\ pc[c] \in Active
  /\ End(c, OnPanel(c) /\ pc[c] \in {"rewarded", "locked", "checked"})
  /\ UNCHANGED <<panel, notices>>

-----------------------------------------------------------------------------
(* UpdatePromocode, DeletePromocode and the panel. *)

\* Every column is written: the row must not be locked.
UpdatePromocode(v) ==
  /\ promo # Nothing /\ lock = Nothing /\ v # promo
  /\ promo' = v
  /\ UNCHANGED <<log, lock, call, subscribed, reward>>

\* The activations go with the row.
DeletePromocode ==
  /\ promo # Nothing /\ lock = Nothing
  /\ promo' = Nothing
  /\ log' = <<>>
  /\ UNCHANGED <<lock, call, subscribed, reward>>

\* SyncRemnaUser: a user.modified webhook, in any order and perhaps again.  It
\* imports a subscription for a user who has none.
SyncRemnaUser(n) ==
  /\ n \in notices
  /\ notices' \in {notices, notices \ {n}}
  /\ row' = [row EXCEPT ![n.user] = n.units]
  /\ subscribed' = subscribed \cup {n.user}
  /\ UNCHANGED <<promocode, call, panel, stranded>>

\* DeleteSubscription: the panel user and the pointer to the row are gone.
DeleteSubscription(u) ==
  /\ "unsubscribe" \in Faults
  /\ u \in subscribed
  /\ subscribed' = subscribed \ {u}
  /\ panel' = [panel EXCEPT ![u] = 0]
  /\ UNCHANGED <<promocode, call, row, notices, stranded>>

-----------------------------------------------------------------------------
Reward(c) == ReadSubscription(c) \/ ApplyRemote(c) \/ RemoteRaises(c)
Commit(c) == LockPromocode(c) \/ CheckPasses(c) \/ CheckRaises(c) \/ Activate(c) \/ ActivateRaises(c)

Next ==
  \/ \E c \in Call : (\E u \in User : Validate(c, u)) \/ Reward(c) \/ Commit(c) \/ Stop(c)
  \/ \E v \in Version : UpdatePromocode(v)
  \/ DeletePromocode
  \/ \E n \in notices : SyncRemnaUser(n)
  \/ \E u \in User : DeleteSubscription(u)

Spec == Init /\ [][Next]_vars

-----------------------------------------------------------------------------
(* Properties. *)

\* An activation under a limit was within it when it committed, whoever else
\* was activating and whatever was saved in between.
LimitRespected ==
  \A i \in 1..Len(log) : log[i].seen.limit # Unlimited => i <= log[i].seen.limit

\* An activation of a single-use promocode is its user's first.
FirstOfItsUser ==
  \A i \in 1..Len(log) : ~log[i].seen.reusable => \A j \in 1..(i - 1) : log[j].user # log[i].user

\* A promocode that was consumed gave its reward: a raise at the panel consumes
\* nothing.  A user who lost the subscription lost the reward with it.
ConsumedIsRewarded ==
  \A i \in 1..Len(log) :
    log[i].user \in subscribed \/ log[i].seen.kind # "add" => row[log[i].user] >= 1

Activations(u) == Cardinality({i \in 1..Len(log) : log[i].user = u})
InFlight(u) == Cardinality({c \in Call : by[c] = u /\ pc[c] \in {"rewarded", "locked", "checked"}})

\* Nobody holds more than was activated, is being activated, or was stranded at
\* the panel by an activation that failed after the panel was called.
RewardAccounted ==
  promo # Nothing => \A u \in User :
    LET given == Activations(u) + InFlight(u) + stranded[u] IN row[u] <= given /\ panel[u] <= given
=============================================================================
