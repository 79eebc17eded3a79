--------------------------- MODULE PaymentScreen ---------------------------
(***************************************************************************)
(* Payment together with what its Telegram user is shown: the redirect at  *)
(* the end of a delivery, and the success deep link the gateway sends the  *)
(* user back through.                                                      *)
(***************************************************************************)
EXTENDS Payment

VARIABLES
  subscribed,   \* users with a current subscription
  gifted,       \* history: users who were given one that they did not buy
  screen        \* transactions whose user was shown the success screen for them

screenVars == <<subscribed, gifted, screen>>

\* subscription_dao.get_current: whatever the subscription comes from.
HasSubscription(u) == u \in subscribed
HasCompleted(u) == \E t \in Tx : UserOf[t] = u /\ status[t] = "COMPLETED"

\* Mutant: the current subscription is not looked up.
GotoSuccessPayment_status(t) ==
  /\ invoice[t] # "none" /\ LinkShown(t)
  /\ HasCompleted(UserOf[t])
  /\ screen' = screen \cup {t}
  /\ UNCHANGED <<vars, subscribed, gifted>>

\* The user comes back from the checkout of t.  The link names no payment: any
\* completed transaction of the user, with any subscription, opens the screen.
GotoSuccessPayment(t) ==
  /\ invoice[t] # "none" /\ LinkShown(t)
  /\ HasCompleted(UserOf[t]) /\ HasSubscription(UserOf[t])
  /\ screen' = screen \cup {t}
  /\ UNCHANGED <<vars, subscribed, gifted>>

\* to_success_payment, for a user with a Telegram account.
RedirectToSuccess(w) ==
  /\ Reward(w)
  /\ screen' = screen \cup {at[w]}
  /\ UNCHANGED <<subscribed, gifted>>

\* A trial, a promocode's reward or an administrator's command.
Gift(u) ==
  /\ subscribed' = subscribed \cup {u}
  /\ gifted' = gifted \cup {u}
  /\ UNCHANGED <<vars, screen>>

\* Its owner or an administrator deletes the current subscription.
Delete(u) ==
  /\ subscribed' = subscribed \ {u}
  /\ UNCHANGED <<vars, gifted, screen>>

\* Every other step of the payments; a committed purchase is its user's current
\* subscription.
Pay ==
  /\ Next
  /\ subscribed' = subscribed \cup {UserOf[t] : t \in {r \in Tx : grants'[r] # grants[r]}}
  /\ UNCHANGED <<gifted, screen>>

ScreenInit == Init /\ subscribed = {} /\ gifted = {} /\ screen = {}

ScreenNext ==
  \/ \E t \in Tx : GotoSuccessPayment(t)
  \/ \E w \in Worker : RedirectToSuccess(w)
  \/ \E u \in User : Gift(u) \/ Delete(u)
  \/ Pay

ScreenSpec == ScreenInit /\ [][ScreenNext]_<<vars, screenVars>>

Bought(u) == \E t \in Tx : UserOf[t] = u /\ grants[t] > 0

\* Whoever is shown the screen has a payment that its gateway took or that was
\* offered for free, and has bought something or was given a subscription some
\* other way.  The status alone shows neither: COMPLETED commits before the
\* purchase, so a user who was given nothing must not see the screen on it.
ScreenFollowsPurchase ==
  \A t \in screen :
    /\ \E r \in Tx : /\ UserOf[r] = UserOf[t]
                     /\ invoice[r] \in {"paid", "refunded"} \/ r \in offered
    /\ Bought(UserOf[t]) \/ UserOf[t] \in gifted

\* The comment at goto.py:266 on on_goto_success_payment: "Show the success
\* screen only once the payment is actually completed; otherwise the webhook
\* handler will redirect the user to it by itself".
ScreenIsTruthful == \A t \in screen : status[t] \notin {"PENDING", "CANCELED"}
=============================================================================
