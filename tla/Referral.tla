------------------------------ MODULE Referral ------------------------------
(***************************************************************************)
(* Referrals: the row a registration by code leaves, and the rewards a     *)
(* purchase brings to the buyer's referrer and to the referrer's own.  A   *)
(* reward is created, granted and marked issued in three transactions, and *)
(* a grant reads a balance (points, or the days of the subscription) and   *)
(* writes back the sum.                                                    *)
(*                                                                         *)
(* A purchase is delivered by at most one call (Payment, RewardBacked), so *)
(* a call is named by its transaction and a reward by call and level.      *)
(***************************************************************************)
EXTENDS Integers, FiniteSets, FiniteSetsExt

CONSTANTS
  User, Txn,
  Bought,          \* the transactions: payer, type, price in cents, days, whether a trial
  SettingsChoices, \* the referral settings a run starts from
  MaxEdits,        \* edits of a balance by administrators
  Faults,          \* which faults may occur
  None

Level == 1 .. 2
Rewards == [type : {"POINTS", "EXTRA_DAYS"}, strategy : {"AMOUNT", "PERCENT"},
            value : [Level -> Nat \cup {None}]]
ReferralSettings == [enable : BOOLEAN, level : Level, first : BOOLEAN, reward : Rewards]

ConstantsAssumption ==
  /\ MaxEdits \in Nat /\ None \notin User \cup Nat
  /\ SettingsChoices \subseteq ReferralSettings
  /\ Faults \subseteq {"database", "panel", "stop"}
  /\ Bought \in [Txn -> [payer : User, type : {"NEW", "RENEW", "CHANGE"},
                         final : Nat, duration : Nat, trial : BOOLEAN]]

VARIABLES
  settings,
  registered,
  referral,   \* of each user: None, or who brought him and at which level
  balance,    \* points, or days added to the subscription
  payable,    \* users whose current subscription is there and no trial
  reward,     \* of each transaction and level: its row
  job,        \* the calls of AssignReferralRewards
  edits, edited,       \* administrators' edits, and their sum for each user
  given, overlapped    \* history: rewards granted, users two of whose writes overlapped

history == <<edited, given, overlapped>>
vars == <<settings, registered, referral, balance, payable, reward, job, edits, history>>

Reward == Txn \X Level
Row == [status : {"none", "pending", "issued"}, owner : User \cup {None}, amount : Nat]
NoRow == [status |-> "none", owner |-> None, amount |-> 0]
Running == {"level", "created", "read", "granted"}
JobState == [step : Running \cup {"new", "done", "stopped"}, level : Level,
             chain : [Level -> User \cup {None}], seen : Nat]

\* Every variable keeps its type.
TypeOK ==
  /\ settings \in ReferralSettings
  /\ registered \subseteq User /\ payable \subseteq User
  /\ referral \in [User -> [referrer : User, level : Level] \cup {None}]
  /\ balance \in [User -> Nat] /\ edits \in 0 .. MaxEdits /\ edited \in [User -> Int]
  /\ reward \in [Reward -> Row] /\ job \in [Txn -> JobState]
  /\ given \subseteq Reward /\ overlapped \subseteq User

Init ==
  /\ settings \in SettingsChoices
  /\ registered \in {S \in SUBSET User : Cardinality(S) = 1}
  /\ referral = [u \in User |-> None]
  /\ balance = [u \in User |-> 0]
  /\ payable \in SUBSET User
  /\ reward = [r \in Reward |-> NoRow]
  /\ job = [t \in Txn |-> [step |-> "new", level |-> 1, chain |-> [l \in Level |-> None],
                           seen |-> 0]]
  /\ edits = 0 /\ edited = [u \in User |-> 0]
  /\ given = {} /\ overlapped = {}

-----------------------------------------------------------------------------
\* ReferralDao.get_referral_chain: who brought the user, and who brought that one.
Chain(u) ==
  LET first == IF referral[u] = None THEN None ELSE referral[u].referrer
  IN [l \in Level |-> IF l = 1 THEN first
                      ELSE IF first = None \/ referral[first] = None THEN None
                      ELSE referral[first].referrer]

\* _define_referral_level: one below the parent's, the last level at most.
LevelBelow(parent) == IF parent = None THEN 1 ELSE Min({parent.level + 1, Max(Level)})

\* Registration with a code, and AttachReferral.  The user has no row yet when the
\* chain is read, so there is no parent whose level could count.
Attach(u, r) ==
  /\ u \notin registered /\ r \in registered /\ r # u
  /\ registered' = registered \cup {u}
  /\ referral' = IF settings.enable /\ referral[u] = None
                 THEN [referral EXCEPT ![u] = [referrer |-> r, level |-> LevelBelow(None)]]
                 ELSE referral
  /\ UNCHANGED <<settings, balance, payable, reward, job, edits, history>>

\* The subscription a reward in days would lengthen ends, or begins.
Resubscribe(u) ==
  /\ settings.reward.type = "EXTRA_DAYS"
  /\ payable' = IF u \in payable THEN payable \ {u} ELSE payable \cup {u}
  /\ UNCHANGED <<settings, registered, referral, balance, reward, job, edits, history>>

Reading(u) == {t \in Txn : job[t].step = "read" /\ reward[<<t, job[t].level>>].owner = u}
WritesOver(u, own) == IF Reading(u) \ own = {} THEN overlapped ELSE overlapped \cup {u}

\* ChangeUserPoints or AddSubscriptionDuration by an administrator: never below zero.
Edit(u, amount) ==
  /\ edits < MaxEdits
  /\ settings.reward.type = "EXTRA_DAYS" => u \in payable
  /\ balance[u] + amount >= 0
  /\ balance' = [balance EXCEPT ![u] = @ + amount]
  /\ edits' = edits + 1 /\ edited' = [edited EXCEPT ![u] = @ + amount]
  /\ overlapped' = WritesOver(u, {})
  /\ UNCHANGED <<settings, registered, referral, payable, reward, job, given>>

-----------------------------------------------------------------------------
\* CalculateReferralReward: the value itself, or its percentage, cut off but never
\* below one, of the price or of the days; None of an unlimited plan.
RewardAmount(t, value) ==
  IF settings.reward.strategy = "AMOUNT" THEN value
  ELSE IF settings.reward.type = "POINTS"
  THEN Max({1, (Bought[t].final * value) \div 10000})
  ELSE IF Bought[t].duration = 0 THEN None
  ELSE Max({1, (Bought[t].duration * value) \div 100})

Rewarded(t) ==
  /\ settings.enable /\ ~Bought[t].trial /\ Bought[t].final > 0
  /\ settings.first => Bought[t].type = "NEW"

Step(t, step) == job' = [job EXCEPT ![t].step = step]

\* AssignReferralRewards: the settings and the chain are read once.
Assign(t) ==
  /\ job[t].step = "new" /\ Bought[t].payer \in registered
  /\ job' = [job EXCEPT ![t].step = IF Rewarded(t) /\ referral[Bought[t].payer] # None
                                    THEN "level" ELSE "done",
                        ![t].chain = Chain(Bought[t].payer)]
  /\ UNCHANGED <<settings, registered, referral, balance, payable, reward, edits, history>>

\* The loop goes on to the second level, or ends.
NextLevel(t) ==
  IF job[t].level = 1
  THEN job' = [job EXCEPT ![t].step = "level", ![t].level = 2]
  ELSE Step(t, "done")

\* Mutant: the second level's reward goes to the first referrer.
CreateReward_direct(t) ==
  LET l == job[t].level
      value == settings.reward.value[l]
  IN
  /\ job[t].step = "level"
  /\ IF \/ job[t].chain[l] = None \/ l > settings.level \/ value = None
        \/ RewardAmount(t, value) \in {None, 0}
     THEN NextLevel(t) /\ UNCHANGED reward
     ELSE /\ reward' = [reward EXCEPT ![<<t, l>>] =
                [status |-> "pending", owner |-> job[t].chain[1],
                 amount |-> RewardAmount(t, value)]]
          /\ Step(t, "created")
  /\ UNCHANGED <<settings, registered, referral, balance, payable, edits, history>>

\* A level of the loop: skipped, or its reward is committed.
CreateReward(t) ==
  LET l == job[t].level
      value == settings.reward.value[l]
  IN
  /\ job[t].step = "level"
  /\ IF \/ job[t].chain[l] = None \/ l > settings.level \/ value = None
        \/ RewardAmount(t, value) \in {None, 0}
     THEN NextLevel(t) /\ UNCHANGED reward
     ELSE /\ reward' = [reward EXCEPT ![<<t, l>>] =
                [status |-> "pending", owner |-> job[t].chain[l],
                 amount |-> RewardAmount(t, value)]]
          /\ Step(t, "created")
  /\ UNCHANGED <<settings, registered, referral, balance, payable, edits, history>>

\* GiveReferrerReward up to the read of the balance.  Without a subscription, or on
\* a trial, the reward stays pending.
ReadBalance(t) ==
  LET owner == reward[<<t, job[t].level>>].owner IN
  /\ job[t].step = "created"
  /\ IF settings.reward.type = "EXTRA_DAYS" /\ owner \notin payable
     THEN NextLevel(t)
     ELSE job' = [job EXCEPT ![t].step = "read", ![t].seen = balance[owner]]
  /\ UNCHANGED <<settings, registered, referral, balance, payable, reward, edits, history>>

\* Mutant: what was read is replaced by the reward.
Grant_replaces(t) ==
  LET r == <<t, job[t].level>> IN
  /\ job[t].step = "read"
  /\ balance' = [balance EXCEPT ![reward[r].owner] = reward[r].amount]
  /\ given' = given \cup {r} /\ overlapped' = WritesOver(reward[r].owner, {t})
  /\ Step(t, "granted")
  /\ UNCHANGED <<settings, registered, referral, payable, reward, edits, edited>>

\* The sum is written back and committed.
Grant(t) ==
  LET r == <<t, job[t].level>> IN
  /\ job[t].step = "read"
  /\ balance' = [balance EXCEPT ![reward[r].owner] = job[t].seen + reward[r].amount]
  /\ given' = given \cup {r} /\ overlapped' = WritesOver(reward[r].owner, {t})
  /\ Step(t, "granted")
  /\ UNCHANGED <<settings, registered, referral, payable, reward, edits, edited>>

\* Mutant: the mark is set whatever the grant did.
MarkIssued_always(t) ==
  /\ job[t].step \in {"created", "granted"}
  /\ reward' = [reward EXCEPT ![<<t, job[t].level>>].status = "issued"]
  /\ NextLevel(t)
  /\ UNCHANGED <<settings, registered, referral, balance, payable, edits, history>>

\* mark_reward_as_issued, in a transaction of its own.
MarkIssued(t) ==
  /\ job[t].step = "granted"
  /\ reward' = [reward EXCEPT ![<<t, job[t].level>>].status = "issued"]
  /\ NextLevel(t)
  /\ UNCHANGED <<settings, registered, referral, balance, payable, edits, history>>

\* A statement or the panel's call raises: the level is given up, the loop goes on.
Raise(t) ==
  /\ \/ "database" \in Faults /\ job[t].step \in Running
     \/ "panel" \in Faults /\ settings.reward.type = "EXTRA_DAYS" /\ job[t].step = "read"
  /\ NextLevel(t)
  /\ UNCHANGED <<settings, registered, referral, balance, payable, reward, edits, history>>

\* The worker stops; the transaction is COMPLETED and no call is made again.
Stop(t) ==
  /\ "stop" \in Faults /\ job[t].step \in Running
  /\ Step(t, "stopped")
  /\ UNCHANGED <<settings, registered, referral, balance, payable, reward, edits, history>>

Next ==
  \/ \E u, r \in User : Attach(u, r)
  \/ \E u \in User : Resubscribe(u) \/ \E amount \in {-1, 1} : Edit(u, amount)
  \/ \E t \in Txn : \/ Assign(t) \/ CreateReward(t) \/ ReadBalance(t) \/ Grant(t)
                    \/ MarkIssued(t) \/ Raise(t) \/ Stop(t)

Spec == Init /\ [][Next]_vars

-----------------------------------------------------------------------------
\* A reward marked issued has been granted, whatever raised or stopped in between.
IssuedWasGranted == \A r \in Reward : reward[r].status = "issued" => r \in given

Given(u) == {r \in given : reward[r].owner = u}
\* The points, or days, granted to a user, each named by its reward and its number.
Units(u) == UNION {{r} \X (1 .. reward[r].amount) : r \in Given(u)}
Due(u) == edited[u] + Cardinality(Units(u))

\* A balance is what was granted and edited, unless two read-modify-writes of it
\* overlapped: then something may be missing.  A granted reward that is still pending
\* counts.
BalanceAccounted ==
  \A u \in User : u \notin overlapped => balance[u] = Due(u)

\* A reward belongs to who brought the buyer, or to who brought that one, and never
\* to the buyer himself.
RewardFollowsChain ==
  \A t \in Txn, l \in Level : reward[<<t, l>>].status # "none" =>
    LET payer == Bought[t].payer
        owner == reward[<<t, l>>].owner
    IN /\ owner # payer
       /\ IF l = 1 THEN owner = referral[payer].referrer
          ELSE owner = referral[referral[payer].referrer].referrer
=============================================================================
