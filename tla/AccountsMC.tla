----------------------------- MODULE AccountsMC -----------------------------
(***************************************************************************)
(* How an account comes in, for TLC, side by side: the settings that say   *)
(* who may, codes by mail and the link with Telegram.  They share no       *)
(* state, so a behaviour moves one of them (part) and the others rest as   *)
(* they began: an invariant of one holds in every interleaving if it holds *)
(* here.                                                                   *)
(***************************************************************************)
EXTENDS Settings, TLC

CONSTANTS
  Account, Email,                        \* of EmailCode
  Web, Shell, Sub, Txn, MaxExpire, Link  \* of TelegramLink, Link being its Call

VARIABLES
  part,
  account, pending, attempts, now, request, delivered, uses, proven,
  profile, sub, txn, referral, panel, buyer, link, lost, mended, crossed

Codes == INSTANCE EmailCodeProofs WITH
  user <- account, call <- request, Blocked <- {},
  Ttl <- 1, Cooldown <- 1, MaxAttempts <- 2, MaxNow <- 1, Parallel <- 2,
  Faults <- {"mail", "stop"}

Links == INSTANCE TelegramLink WITH Call <- Link, user <- profile, raced <- crossed

ASSUME AccountsAssumption ==
  /\ ConstantsAssumption /\ Codes!ConstantsAssumption
  /\ Links!ConstantsAssumption /\ {} \notin {Web, Link, Sub}

codes  == <<account, pending, attempts, now, request, delivered, uses, proven>>
links  == <<profile, sub, txn, referral, panel, buyer, link, lost, mended, crossed>>

CodesMove == part = "codes" /\ UNCHANGED <<part, vars, links>>
SetMove   == part = "settings" /\ UNCHANGED <<part, codes, links>>
LinksMove == part \in {"links", "twice"} /\ UNCHANGED <<part, codes, vars>>

\* One user links once, a donor with whatever he bought ("links"); or two link the same
\* account, or one of them does it twice, with one subscription of a day ("twice").
One(S) == {CHOOSE x \in S : TRUE}
Linking  == IF part = "links" THEN One(Web) ELSE Web
Requests == IF part = "links" THEN One(Link) ELSE Link
Sold     == IF part = "links" THEN Sub ELSE One(Sub)
Days     == IF part = "links" THEN 1 .. MaxExpire ELSE {1}

AccountsInit ==
  /\ part \in {"settings", "codes", "links", "twice"}
  /\ Init /\ Codes!Init /\ Links!Init
  /\ part # "codes" => \A a \in Account : account[a] = None
  /\ part # "settings" => row.payments /\ \A p \in Person : user[p] = "none"
  /\ \A u \in Links!User : {u, referral[u]} \subseteq Linking \cup Shell \/ referral[u] = None
  /\ part \in {"settings", "codes"} => \A u \in Links!User : referral[u] = None

CodesNext ==
  \/ \E p \in Call :
       \/ \E e \in Email : \/ CodesMove /\ Codes!RequestEmailCode(p, e)
                           \/ \E c \in Codes!Delivered \cup {None} :
                                CodesMove /\ Codes!CountAttempt(p, e, c)
       \/ \E a \in Codes!Rows :
            \/ \E e \in Email : CodesMove /\ Codes!ChangeEmail(p, a, e)
            \/ \E e \in Email \cup {None} :
                 CodesMove /\ Codes!RequestEmailVerification(p, a, e)
            \/ \E c \in Codes!Delivered :
                 CodesMove /\ Codes!ConfirmEmailVerification(p, a, c)
       \/ CodesMove /\ Codes!Deliver(p)
       \/ CodesMove /\ Codes!DeliveryRaises(p)
       \/ CodesMove /\ Codes!StoreCode(p)
       \/ CodesMove /\ Codes!ResetAttempts(p)
       \/ CodesMove /\ Codes!ExpireAttempts(p)
       \/ CodesMove /\ Codes!Examine(p)
       \/ CodesMove /\ Codes!CommitConfirmed(p)
       \/ CodesMove /\ Codes!CommitRegistered(p)
       \/ CodesMove /\ Codes!RevokeCode(p)
       \/ CodesMove /\ Codes!CommitChange(p)
       \/ CodesMove /\ Codes!CommitRaises(p)
       \/ CodesMove /\ Codes!Stop(p)
  \/ \E a \in Account, e \in Email : CodesMove /\ Codes!RegisterEmailUser(a, e)
  \/ CodesMove /\ Codes!Tick

SetNext ==
  \/ \E c \in Call :
       \/ \E k \in Kinds, ids \in SUBSET Person :
            SetMove /\ Begin(c, k, ids)
       \/ SetMove /\ Lookup(c)
       \/ SetMove /\ ReadRow(c)
       \/ SetMove /\ Fill(c)
       \/ SetMove /\ Write(c)
       \/ SetMove /\ Invalidate(c)
       \/ SetMove /\ Commit(c)
       \/ SetMove /\ Raise(c)
       \/ SetMove /\ CheckAccess(c)
       \/ SetMove /\ Register(c)
       \/ SetMove /\ ReadMembers(c)
       \/ SetMove /\ Dispatch(c)
       \/ SetMove /\ Clear(c)
  \/ SetMove /\ Expire

LinksNext ==
  \/ \E u \in Linking \cup Shell :
       \/ \E t \in Txn : LinksMove /\ part = "links" /\ Links!Pay(u, t)
       \/ LinksMove /\ Links!Buy(u)
       \/ LinksMove /\ u \in Shell /\ Links!Start(u)
       \/ \E s \in Sold, expire \in Days : LinksMove /\ Links!Bought(u, s, expire)
       \/ LinksMove /\ Links!ChangeEmail(u)
  \/ \E s \in Sub : LinksMove /\ part = "links" /\ Links!Extend(s)
  \/ \E c \in Requests :
       \/ \E a \in Linking, tg \in Shell : LinksMove /\ Links!LinkTelegram(c, a, tg)
       \/ LinksMove /\ Links!CommitPlain(c)
       \/ LinksMove /\ Links!ReassignSubs(c)
       \/ LinksMove /\ Links!ReassignTxns(c)
       \/ LinksMove /\ Links!ReassignReferrals(c)
       \/ LinksMove /\ Links!DeleteDonor(c)
       \/ LinksMove /\ Links!ChooseCurrent(c)
       \/ LinksMove /\ Links!CommitMerge(c)
       \/ LinksMove /\ Links!SyncPanel(c)

AccountsNext == CodesNext \/ SetNext \/ LinksNext

AccountsSpec == AccountsInit /\ [][AccountsNext]_<<part, codes, vars, links>>

Symmetry == Permutations(Call)

-----------------------------------------------------------------------------
(* What TLC checks of the codes and of the link, as they state it. *)

\* A code is stored only after its mail was delivered (email_code.py).
StoredWasDelivered == Codes!StoredWasDelivered

\* A spent code lets no later login in, and the attempts on a code are counted for as long
\* as it lives (email_code.py, redis/auth.py).
SpentOnce == Codes!SpentOnce /\ Codes!CounterOutlivesCode

\* A merge loses only what was made while it was under way, a current subscription is its
\* user's, an account of Telegram has one user, and the panel knows him on his
\* subscriptions (telegram.py).
MergeKeeps ==
  Links!OnlyRacedIsLost /\ Links!CurrentIsOwned /\ Links!OneHolder /\ Links!PanelKnows
=============================================================================
