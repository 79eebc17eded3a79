---------------------------- MODULE TelegramLink ----------------------------
(***************************************************************************)
(* Linking a Telegram account to a web account.  When the Telegram account *)
(* already has a user of its own (the donor), its subscriptions,           *)
(* transactions and referrals are re-pointed to the web user, statement by *)
(* statement in one transaction, and the donor is deleted with whatever    *)
(* still points to it.  The donor's bot goes on working meanwhile.         *)
(*                                                                         *)
(* A statement sees what is committed when it runs.  The transaction's own *)
(* writes take effect at its commit; until then the rows it wrote and the  *)
(* deleted donor are locked for everybody else.                            *)
(***************************************************************************)
EXTENDS Naturals

CONSTANTS
  Web, Shell,   \* users that registered on the web, and through Telegram
  Sub, Txn,     \* names for subscriptions and transactions
  Call,         \* requests to link
  MaxExpire,    \* bound of the days of a subscription
  None

User == Web \cup Shell

VARIABLES
  user,       \* None once the row is deleted
  sub, txn,   \* None while there is no such row
  referral,   \* of each referred user: who brought him
  panel,      \* subscriptions whose panel user knows the Telegram account
  buyer,      \* purchases under way: the copy of the user each began with
  link,
  lost, mended, raced \* history: see TypeOK

rows == <<user, sub, txn, referral>>
history == <<lost, mended, raced>>
vars == <<rows, panel, buyer, link, history>>

\* A Telegram account is named by the user that first came with it.
UserRow == [tg : Shell \cup {None}, credentials : BOOLEAN, current : Sub \cup {None}]
SubRow == [owner : User, expire : 1 .. MaxExpire]
Copy == [tg : Shell \cup {None}]

ConstantsAssumption ==
  /\ MaxExpire \in Nat \ {0}
  /\ Web \cap Shell = {} /\ None \notin User \cup Sub
  /\ None \notin UserRow /\ None \notin SubRow /\ None \notin Copy

Merging == {"found", "subs", "txns", "refs", "deleted", "chosen"}
Running == Merging \cup {"plain", "committed"}
LinkState == [step : Running \cup {"new", "done", "failed", "refused"},
              actor : Web \cup {None},
              donor : Shell \cup {None}, tg : Shell \cup {None}, subs : SUBSET Sub,
              txns : SUBSET Txn, brought : SUBSET User, own : BOOLEAN,
              listed : SUBSET Sub, current : Sub \cup {None}]

\* Every variable keeps its type.
TypeOK ==
  /\ user \in [User -> UserRow \cup {None}]
  /\ sub \in [Sub -> SubRow \cup {None}] /\ txn \in [Txn -> User \cup {None}]
  /\ referral \in [User -> User \cup {None}]
  /\ panel \subseteq Sub /\ buyer \in [User -> Copy \cup {None}]
  /\ link \in [Call -> LinkState]
  /\ lost \in SUBSET (Sub \cup Txn) \* rows that were deleted with a donor
  /\ mended \in SUBSET User         \* donors that were no shell when they were deleted
  /\ raced \in SUBSET (Sub \cup Txn) \* rows made or changed while a merge was under way,
                                     \* or bought with a copy from before it

NoLink == [step |-> "new", actor |-> None, donor |-> None, tg |-> None, subs |-> {},
           txns |-> {}, brought |-> {}, own |-> FALSE, listed |-> {}, current |-> None]

WebRow == [tg |-> None, credentials |-> TRUE, current |-> None]
ShellRow(u) == [tg |-> u, credentials |-> FALSE, current |-> None]

Acyclic(f) == \A u \in User : f[u] # None => f[u] # u /\ f[f[u]] = None

Init ==
  /\ user = [u \in User |-> IF u \in Web THEN WebRow ELSE None]
  /\ sub = [s \in Sub |-> None] /\ txn = [t \in Txn |-> None]
  /\ referral \in {f \in [User -> User \cup {None}] : Acyclic(f)}
                \* of a Telegram user: the link he will come by
  /\ panel = {} /\ buyer = [u \in User |-> None]
  /\ link = [c \in Call |-> NoLink]
  /\ lost = {} /\ mended = {} /\ raced = {}

-----------------------------------------------------------------------------
\* The donor's row is locked from its deletion on: whoever writes a row that points to
\* it waits, and fails when the deletion is committed.
Locked(u) == \E c \in Call : link[c].donor = u /\ link[c].step \in {"deleted", "chosen"}
\* A survivor's row is written after the deletion.
Written(u) == \E c \in Call : link[c].actor = u /\ link[c].step \in {"deleted", "chosen"}
Free(u) == user[u] # None /\ ~Locked(u)
Moving(s) == \E c \in Call : link[c].step \in Merging /\ s \in link[c].subs
Races(x) == raced' = IF \E c \in Call : link[c].step \in Merging THEN raced \cup {x} ELSE raced

Owners(tg) == {u \in User : user[u] # None /\ user[u].tg = tg}

\* _get_or_create_telegram_user: somebody comes with a Telegram account nobody has.
Start(u) ==
  /\ user[u] = None /\ Owners(u) = {}
  /\ user' = [user EXCEPT ![u] = ShellRow(u)]
  /\ UNCHANGED <<sub, txn, referral, panel, buyer, link, history>>

\* CreatePayment: a pending transaction.
Pay(u, t) ==
  /\ Free(u) /\ txn[t] = None /\ t \notin lost
  /\ txn' = [txn EXCEPT ![t] = u]
  /\ Races(t)
  /\ UNCHANGED <<user, sub, referral, panel, buyer, link, lost, mended>>

\* PurchaseSubscription begins with the user its request loaded ...
Buy(u) ==
  /\ Free(u) /\ buyer[u] = None
  /\ buyer' = [buyer EXCEPT ![u] = [tg |-> user[u].tg]]
  /\ UNCHANGED <<rows, panel, link, history>>

\* ... and creates the panel user from it and the row, and makes that the current one.
Bought(u, s, expire) ==
  /\ Free(u) /\ ~Written(u) /\ buyer[u] # None /\ sub[s] = None /\ s \notin lost
  /\ sub' = [sub EXCEPT ![s] = [owner |-> u, expire |-> expire]]
  /\ user' = [user EXCEPT ![u].current = s]
  /\ panel' = IF buyer[u].tg # None THEN panel \cup {s} ELSE panel
  /\ buyer' = [buyer EXCEPT ![u] = None]
  /\ IF buyer[u].tg = user[u].tg THEN Races(s) ELSE raced' = raced \cup {s}
  /\ UNCHANGED <<txn, referral, link, lost, mended>>

\* A renewal, or days granted.
Extend(s) ==
  /\ sub[s] # None /\ sub[s].expire < MaxExpire /\ ~Moving(s)
  /\ sub' = [sub EXCEPT ![s].expire = @ + 1]
  /\ Races(s)
  /\ UNCHANGED <<user, txn, referral, panel, buyer, link, lost, mended>>

\* The Telegram user asks for an email of his own.
ChangeEmail(u) ==
  /\ u \in Shell /\ Free(u) /\ ~user[u].credentials
  /\ user' = [user EXCEPT ![u].credentials = TRUE]
  /\ UNCHANGED <<sub, txn, referral, panel, buyer, link, history>>

-----------------------------------------------------------------------------
\* LinkTelegram up to its unit of work: who has this Telegram account, and may he be
\* merged.
LinkTelegram(c, a, tg) ==
  LET holder == Owners(tg)
      real == \E u \in holder : user[u].credentials
  IN
  /\ link[c].step = "new" /\ user[a] # None
  /\ link' = [link EXCEPT ![c] =
       IF user[a].tg = tg THEN [NoLink EXCEPT !.step = "done"]
       ELSE IF user[a].tg # None \/ real THEN [NoLink EXCEPT !.step = "refused"]
       ELSE [NoLink EXCEPT !.step = IF holder = {} THEN "plain" ELSE "found",
               !.actor = a, !.tg = tg,
               !.donor = IF holder = {} THEN None ELSE CHOOSE u \in holder : TRUE]]
  /\ UNCHANGED <<rows, panel, buyer, history>>

To(c, step) == link' = [link EXCEPT ![c].step = step]
Owned(u) == {s \in Sub : sub[s] # None /\ sub[s].owner = u}

\* Nobody has the account: the row takes it, unless the unique column refuses.
CommitPlain(c) ==
  LET l == link[c] IN
  /\ l.step = "plain" /\ ~Written(l.actor)
  /\ IF Owners(l.tg) \ {l.actor} # {} THEN To(c, "refused") /\ UNCHANGED user
     ELSE /\ user' = [user EXCEPT ![l.actor].tg = l.tg]
          /\ link' = [link EXCEPT ![c].step = "committed", ![c].listed = Owned(l.actor)]
  /\ UNCHANGED <<sub, txn, referral, panel, buyer, history>>

\* Two merges of one donor write the same rows: the second waits for the first.
Alone(c) == \A d \in Call \ {c} :
  ~(link[d].donor = link[c].donor /\ link[d].step \in Merging \ {"found"})

\* Mutant: only the donor's current subscription is re-pointed.
ReassignSubs_current(c) ==
  /\ link[c].step = "found" /\ Alone(c)
  /\ link' = [link EXCEPT ![c].step = "subs",
       ![c].subs = {s \in Owned(link[c].donor) : user[link[c].donor].current = s}]
  /\ UNCHANGED <<rows, panel, buyer, history>>

ReassignSubs(c) ==
  /\ link[c].step = "found" /\ Alone(c)
  /\ link' = [link EXCEPT ![c].step = "subs", ![c].subs = Owned(link[c].donor)]
  /\ UNCHANGED <<rows, panel, buyer, history>>

ReassignTxns(c) ==
  /\ link[c].step = "subs"
  /\ link' = [link EXCEPT ![c].step = "txns",
                          ![c].txns = {t \in Txn : txn[t] = link[c].donor}]
  /\ UNCHANGED <<rows, panel, buyer, history>>

\* reassign_user: those the donor brought, and his own referral when the survivor
\* has none.
ReassignReferrals(c) ==
  LET l == link[c] IN
  /\ l.step = "txns"
  /\ link' = [link EXCEPT ![c].step = "refs",
       ![c].brought = {u \in User : referral[u] = l.donor},
       ![c].own = (referral[l.actor] = None /\ referral[l.donor] # None)]
  /\ UNCHANGED <<rows, panel, buyer, history>>

\* The donor's row is deleted, with what points to it and was not re-pointed.
DeleteDonor(c) ==
  LET l == link[c] IN
  /\ l.step = "refs" /\ ~Written(l.actor)
  /\ To(c, "deleted")
  /\ mended' = IF user[l.donor] # None /\ user[l.donor].credentials
               THEN mended \cup {l.donor} ELSE mended
  /\ UNCHANGED <<rows, panel, buyer, lost, raced>>

\* The latest to expire of the survivor's, those re-pointed included.
Listed(c) == link[c].subs \cup Owned(link[c].actor)
Latest(S) == {s \in S : \A r \in S : sub[r].expire <= sub[s].expire}

\* Mutant: the donor's current one stays current.
ChooseCurrent_donor(c) ==
  /\ link[c].step = "deleted"
  /\ link' = [link EXCEPT ![c].step = "chosen", ![c].listed = Listed(c),
       ![c].current = IF user[link[c].donor] = None THEN None ELSE user[link[c].donor].current]
  /\ UNCHANGED <<rows, panel, buyer, history>>

ChooseCurrent(c) ==
  /\ link[c].step = "deleted"
  /\ \E s \in IF Listed(c) = {} THEN {None} ELSE Latest(Listed(c)) :
       link' = [link EXCEPT ![c].step = "chosen", ![c].listed = Listed(c), ![c].current = s]
  /\ UNCHANGED <<rows, panel, buyer, history>>

\* Referrals once the donor is gone: re-pointed, or deleted with him.
Redirected(c) ==
  LET l == link[c]
      moved == [u \in User |-> IF u \in l.brought THEN l.actor
                               ELSE IF referral[u] = l.donor THEN None ELSE referral[u]]
  IN [u \in User |-> IF u = l.donor THEN None
                     ELSE IF u = l.actor /\ l.own THEN moved[l.donor] ELSE moved[u]]

\* Subscriptions once the donor is gone: likewise.
SubsAfter(c) ==
  [s \in Sub |-> IF s \in link[c].subs THEN [sub[s] EXCEPT !.owner = link[c].actor]
                 ELSE IF s \in Owned(link[c].donor) THEN None ELSE sub[s]]

\* The commit: everything at once, unless the unique column refuses.
CommitMerge(c) ==
  LET l == link[c]
      gone == {s \in Owned(l.donor) : s \notin l.subs}
      unpaid == {t \in Txn : txn[t] = l.donor /\ t \notin l.txns}
  IN
  /\ l.step = "chosen"
  /\ IF Owners(l.tg) \ {l.donor, l.actor} # {}
     THEN To(c, "refused") /\ UNCHANGED <<rows, lost>>
     ELSE /\ user' = [user EXCEPT ![l.donor] = None, ![l.actor].tg = l.tg,
                ![l.actor].current = IF l.current = None THEN @ ELSE l.current]
          /\ sub' = SubsAfter(c)
          /\ txn' = [t \in Txn |-> IF t \in unpaid THEN None
                      ELSE IF t \in l.txns THEN l.actor ELSE txn[t]]
          /\ referral' = Redirected(c)
          /\ lost' = lost \cup gone \cup unpaid
          /\ To(c, "committed")
  /\ UNCHANGED <<panel, buyer, mended, raced>>

\* _sync_panel_identity: the panel user of every subscription listed, one call each; one
\* that is missing is passed over, any other error or a stop ends it.
SyncPanel(c) ==
  /\ link[c].step = "committed"
  /\ \E told \in SUBSET link[c].listed :
       /\ panel' = panel \cup told
       /\ To(c, IF told = link[c].listed THEN "done" ELSE "failed")
  /\ UNCHANGED <<rows, buyer, history>>

Next ==
  \/ \E u \in User : \/ \E t \in Txn : Pay(u, t)
                     \/ Buy(u)
                     \/ u \in Shell /\ Start(u)
                     \/ \E s \in Sub, expire \in 1 .. MaxExpire : Bought(u, s, expire)
                     \/ ChangeEmail(u)
  \/ \E s \in Sub : Extend(s)
  \/ \E c \in Call :
       \/ \E a \in Web, tg \in Shell : LinkTelegram(c, a, tg)
       \/ CommitPlain(c) \/ ReassignSubs(c) \/ ReassignTxns(c) \/ ReassignReferrals(c)
       \/ DeleteDonor(c) \/ ChooseCurrent(c) \/ CommitMerge(c) \/ SyncPanel(c)

Spec == Init /\ [][Next]_vars

-----------------------------------------------------------------------------
\* A merge loses no row of the donor's, except one made while it was under way.
OnlyRacedIsLost == lost \subseteq raced

\* A current subscription belongs to the user whose current one it is.
CurrentIsOwned ==
  \A u \in User : user[u] # None /\ user[u].current # None => user[u].current \in Owned(u)

\* One user for each Telegram account, whatever two requests link at once.
OneHolder == \A tg \in Shell : \A u, v \in Owners(tg) : u = v

\* When a link has succeeded, the panel knows the account on every subscription of its user,
\* except on one bought meanwhile or with the copy of the user from before.
PanelKnows ==
  \A c \in Call : link[c].step = "done" /\ link[c].actor # None =>
    Owned(link[c].actor) \ raced \subseteq panel

\* Does not hold; stated by the docstring of _merge: a donor's subscriptions and transactions do not
\* go away with it.
NothingIsLost == lost = {}

\* Does not hold; stated by the comment on the credentials: a donor is merged as a shell only.
DonorIsShell == mended = {}

\* Does not hold; stated by the refusal of AttachReferral: no user is his own referrer.
NoSelfReferral == \A u \in User : referral[u] # u
=============================================================================
