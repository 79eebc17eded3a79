--------------------------- MODULE SubscriptionsMC ---------------------------
(***************************************************************************)
(* Commands on one subscription for TLC, from two sides: two of them at    *)
(* once, with webhooks out of order ("busy"), and three one after another  *)
(* whose rows and panel users must agree in the end ("exact"); and for the *)
(* importer's tasks on all users ("all").  They share no state: a behaviour*)
(* moves one, the others rest as they began.                               *)
(***************************************************************************)
EXTENDS Subscription, TLC

CONSTANTS
  b1, b2, c1, c2, c3, sync,              \* calls and webhooks
  u1, u2, u3, u4, j1, j2,                \* users and tasks of Reconcile,
  Account, Telegram, Num, Tasks, Outsets, None  \* ... and its constants

VARIABLES
  part, outset, others, members, mirror, lock, job, meanwhile, loose

\* The other side of the same variables, with calls of its own.
Busy == INSTANCE Subscription WITH
  Call <- {b1, b2}, Handler <- {sync}, Days <- 1, MaxNow <- 2, Parallel <- 2,
  Command <- {"NEW", "RENEW", "CHANGE", "trial", "extend", "toggle", "delete", "leave",
              "join"},
  Faults <- {"stop", "panel", "reorder"}

(* Synchronizations: panel to bot with one user known, web-only or new, and with *)
(* users the panel names otherwise; bot to panel with a user, an address and a   *)
(* number the panel has lost; both at once; and two files of another panel.      *)

PanelUser(name, telegram, number, on, url) ==
  [name |-> name, telegram |-> telegram, data |-> number, on |-> on, url |-> url]
Sub(num, number, on, url) == [num |-> num, data |-> number, on |-> on, url |-> url]
Subs(x, y, z) == u1 :> x @@ u2 :> y @@ u3 :> z @@ u4 :> None
PanelUsers(x, y, z) == 1 :> x @@ 2 :> y @@ 3 :> z @@ 4 :> None

Downward ==
  [panel |-> PanelUsers(PanelUser(u1, u1, 0, TRUE, 0), PanelUser(u3, None, 1, FALSE, 1),
                        PanelUser(u2, u2, 1, TRUE, 0)),
   rows |-> {u1, u3}, row |-> Subs(Sub(1, 1, FALSE, 0), None, Sub(2, 1, TRUE, 0)),
   kinds |-> {"from_panel"}, presses |-> {j1, j2}, changes |-> 1, inbounds |-> {}]
Unnamed == [Downward EXCEPT
  !.panel = PanelUsers(PanelUser(u1, u1, 0, TRUE, 0), PanelUser(None, u1, 1, TRUE, 0),
                       PanelUser(None, None, 1, TRUE, 0)),
  !.rows = {u1, u2}, !.row = Subs(None, Sub(1, 0, TRUE, 0), None)]
Upward == [Downward EXCEPT
  !.kinds = {"from_bot"}, !.panel[3] = None, !.rows = {u1, u2, u3},
  !.row = Subs(Sub(1, 1, FALSE, 0), Sub(3, 0, FALSE, 0), Sub(2, 0, TRUE, 0))]
Alone == [Upward EXCEPT
  !.kinds = {"from_panel", "from_bot"}, !.presses = {j1}, !.rows = {u1, u3},
  !.row = Subs(Sub(4, 1, FALSE, 0), None, Sub(2, 0, TRUE, 0))]
Lost == [Upward EXCEPT !.row = Subs(Sub(4, 1, FALSE, 0), None, Sub(3, 0, TRUE, 0))]
Crossing == [Upward EXCEPT !.kinds = {"from_bot", "from_panel"}, !.changes = 0]
Client(id, enable, expired) == [id |-> id, enable |-> enable, expired |-> expired]
Exports == [Downward EXCEPT
  !.kinds = {"import", "from_panel"}, !.panel[3] = None,
  !.inbounds = {{Client(u1, TRUE, TRUE), Client(u2, TRUE, FALSE), Client(u3, FALSE, FALSE)},
                {Client(None, TRUE, FALSE)}}]

Situations == {Downward, Unnamed, Upward, Alone, Lost, Crossing, Exports}

Syncs == INSTANCE Reconcile WITH
  Job <- Tasks, Beginnings <- Outsets,
  begun <- outset, panel <- others, user <- members, row <- mirror, key <- lock,
  changes <- meanwhile, raced <- loose

ASSUME Busy!ConstantsAssumption /\ ConstantsAssumption /\ Syncs!ConstantsAssumption

syncs == <<outset, others, members, mirror, lock, job, meanwhile, loose>>

Symmetry == Permutations({b1, b2}) \cup Permutations({c1, c2, c3})
            \cup Permutations({j1, j2})

BusyMove  == part = "busy" /\ UNCHANGED <<part, syncs>>
ExactMove == part = "exact" /\ UNCHANGED <<part, syncs>>
SyncMove  == part = "all" /\ UNCHANGED <<part, vars>>

SubscriptionsInit ==
  /\ part \in {"busy", "exact", "all"}
  /\ IF part = "exact" THEN Init ELSE Busy!Init
  /\ Syncs!Init
  /\ IF part = "all" THEN rows = <<>> ELSE outset = Crossing

BusyNext ==
  \/ \E c \in {b1, b2} : \/ BusyMove /\ Busy!Purchase(c)
                         \/ BusyMove /\ Busy!ActivateTrial(c)
                         \/ BusyMove /\ Busy!AddSubscriptionDuration(c)
                         \/ BusyMove /\ Busy!ToggleSubscriptionStatus(c)
                         \/ BusyMove /\ Busy!DeleteSubscription(c)
                         \/ BusyMove /\ Busy!DisableTrialSubscription(c)
                         \/ BusyMove /\ Busy!EnableTrialSubscription(c)
  \/ \E h \in {sync} : \/ BusyMove /\ Busy!Synchronise(h)
                       \/ BusyMove /\ Busy!ProcessDelete(h)
                       \/ BusyMove /\ Busy!LookAgain(h)
                       \/ BusyMove /\ Busy!Ignore(h)
  \/ \E p \in {b1, b2, sync} : \/ BusyMove /\ Busy!CallPanel(p)
                               \/ BusyMove /\ Busy!PanelRaises(p)
                               \/ BusyMove /\ Busy!Lock(p)
                               \/ BusyMove /\ Busy!Deadlocked(p)
                               \/ BusyMove /\ Busy!Stop(p)
                               \/ BusyMove /\ Busy!Commit(p)
  \/ BusyMove /\ Busy!Tick
  \/ BusyMove /\ Busy!Reorder
  \/ \E n \in 1..Len(panel) : BusyMove /\ Busy!PanelExpires(n)

ExactNext ==
  \/ \E c \in {c1, c2, c3} : \/ ExactMove /\ Purchase(c)
                             \/ ExactMove /\ ActivateTrial(c)
                             \/ ExactMove /\ SetUserSubscription(c)
                             \/ ExactMove /\ AddSubscriptionDuration(c)
                             \/ ExactMove /\ ToggleSubscriptionStatus(c)
                             \/ ExactMove /\ DeleteSubscription(c)
                             \/ ExactMove /\ DisableTrialSubscription(c)
                             \/ ExactMove /\ EnableTrialSubscription(c)
  \/ \E h \in {sync} : \/ ExactMove /\ Synchronise(h)
                       \/ ExactMove /\ ProcessDelete(h)
                       \/ ExactMove /\ LookAgain(h)
                       \/ ExactMove /\ Ignore(h)
  \/ \E p \in {c1, c2, c3, sync} : \/ ExactMove /\ CallPanel(p)
                                   \/ ExactMove /\ PanelRaises(p)
                                   \/ ExactMove /\ Lock(p)
                                   \/ ExactMove /\ Stop(p)
                                   \/ ExactMove /\ Commit(p)
  \/ ExactMove /\ Tick

SyncNext ==
  \/ \E j \in {j1, j2} :
       \/ \E kind \in Syncs!Kind : SyncMove /\ Syncs!Press(j, kind)
       \/ \E S \in {{}, Syncs!Exported, Syncs!Unexpired} : SyncMove /\ Syncs!Dispatch(j, S)
       \/ SyncMove /\ Syncs!Return(j)
       \/ SyncMove /\ Syncs!Fetch(j)
       \/ SyncMove /\ Syncs!PanelRaises(j)
       \/ SyncMove /\ Syncs!Finish(j)
       \/ SyncMove /\ Syncs!Stop(j)
       \/ \E n \in 1..4 \cup {None} :
            \/ \E c \in job[j].todo : SyncMove /\ Syncs!Import(j, c, n)
            \/ SyncMove /\ Syncs!CreatePanelUser(j, n)
       \/ SyncMove /\ Syncs!TakePanelUser(j)
       \/ SyncMove /\ Syncs!TakeCreated(j)
       \/ \E a \in {u1, u2, u3, u4} : SyncMove /\ Syncs!SyncNew(j, a)
       \/ SyncMove /\ Syncs!SyncKnown(j)
       \/ SyncMove /\ Syncs!TakeBotUser(j)
       \/ SyncMove /\ Syncs!Look(j)
       \/ SyncMove /\ Syncs!UpdatePanelUser(j)
       \/ SyncMove /\ Syncs!WriteUrl(j)
  \/ \E kind \in Syncs!Kind : SyncMove /\ Syncs!Expire(kind)
  \/ \E a \in {u1, u2, u3, u4} :
       \/ SyncMove /\ Syncs!Extend(a)
       \/ SyncMove /\ Syncs!Delete(a)

SubscriptionsNext == BusyNext \/ ExactNext \/ SyncNext

SubscriptionsSpec == SubscriptionsInit /\ [][SubscriptionsNext]_<<part, vars, syncs>>

-----------------------------------------------------------------------------
(* What TLC checks, with NothingForFree and CurrentIsNotDeleted as Subscription states *)
(* them, on both sides.                                                                *)

\* Once quiet, the current row belongs to a user the panel has, even if commands overlap
\* and webhooks are late; nothing lasts longer than bought, and there is one trial
\* (management.py, purchase.py, synchronization.py).
BusyIsSafe ==
  part = "busy" => Busy!CurrentExists /\ Busy!NothingForFree /\ Busy!TrialOnce

\* Once quiet, the row and the panel's user agree, and so do all of them when a
\* synchronization that nobody disturbed has ended (synchronization.py).
AllAgree ==
  /\ part = "exact" => RowAgrees
  /\ Syncs!Reconciled

\* Two synchronizations of a kind do not overlap unless their key failed, and no two users
\* hold one panel user (importer/handlers.py, synchronization.py).
OneAtATime == Syncs!OneAtATime
=============================================================================
