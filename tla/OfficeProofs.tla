----------------------------- MODULE OfficeProofs -----------------------------
(***************************************************************************)
(* Theorems about Referral, about Checkout and about Gateways, for every   *)
(* set of users, purchases, settings, plans, gateways, discounts,          *)
(* administrators, payments and webhooks.                                  *)
(*                                                                         *)
(* Referral: a chain read once stays the chain, for a row is written when  *)
(* its user registers, and names a user who was registered before.  A call *)
(* grants level by level, and what it read is the balance unless another   *)
(* write came between.                                                     *)
(*                                                                         *)
(* Checkout: what the dialog keeps and shows is backed by an order, and an *)
(* order's amount by its own copy of the plan.                             *)
(*                                                                         *)
(* Gateways: the rows and the dialog on one side, where a command writes   *)
(* what it read unless another met it, and notices and webhooks on the     *)
(* other, where a task is the notice's and a method the object's.          *)
(***************************************************************************)
EXTENDS OfficeMC, SequenceTheorems, FiniteSetTheorems, WellFoundedInduction, TLAPS

-----------------------------------------------------------------------------
(* Referral. *)

\* Who is referred is registered, his referrer was before him, and so was that one's.
ChainInv ==
  \A u \in User : referral[u] # None =>
    /\ u \in registered
    /\ referral[u].referrer \in registered \ {u}
    /\ referral[referral[u].referrer] # None
         => referral[referral[u].referrer].referrer # u

\* A call has the chain of a registered payer ...
JobInv ==
  \A t \in Txn : job[t].step # "new" =>
    /\ Bought[t].payer \in registered
    /\ job[t].chain = Chain(Bought[t].payer)

\* ... its rewards belong to members of it ...
OwnerInv ==
  \A t \in Txn, l \in Level : reward[<<t, l>>].status # "none" =>
    /\ job[t].step # "new"
    /\ reward[<<t, l>>].owner = job[t].chain[l] /\ job[t].chain[l] # None

\* ... and are marked when they are granted.  A call past the grant has made it, one
\* past the creation has a row.
GrantInv ==
  \A t \in Txn :
    /\ job[t].step = "granted" => <<t, job[t].level>> \in given
    /\ job[t].step \in {"created", "read", "granted"}
         => reward[<<t, job[t].level>>].status # "none"

\* A call's rewards are granted level by level, each at most once ...
TurnInv ==
  \A t \in Txn, l \in Level : <<t, l>> \in given =>
    \/ l < job[t].level
    \/ l = job[t].level /\ job[t].step \in {"granted", "done", "stopped"}

\* ... and a balance no two writes of which overlapped is what every grant under way has read.
AccountInv ==
  \A u \in User :
    /\ IsFiniteSet(Units(u))
    /\ u \notin overlapped =>
         /\ balance[u] = Due(u)
         /\ \A t \in Reading(u) : job[t].seen = balance[u]

IInv ==
  /\ TypeOK /\ ChainInv /\ JobInv /\ OwnerInv /\ GrantInv /\ IssuedWasGranted
  /\ TurnInv /\ AccountInv

-----------------------------------------------------------------------------
USE DEF vars, history, Running, Level, Reward

\* Nothing is granted yet.
LEMMA InitAccount == ConstantsAssumption /\ Init => TurnInv /\ AccountInv
<1> SUFFICES ASSUME ConstantsAssumption, Init PROVE TurnInv /\ AccountInv
  OBVIOUS
<1>1. TurnInv
  BY DEF Init, TurnInv
<1>2. ASSUME NEW u \in User
      PROVE  IsFiniteSet(Units(u)) /\ balance[u] = Due(u) /\ Reading(u) = {}
<2>1. Units(u) = {}
  BY DEF Init, Units, Given
<2>2. Reading(u) = {}
  BY DEF Init, Reading
<2>3. balance[u] = 0 /\ edited[u] = 0
  BY DEF Init
<2>. QED
  BY <2>1, <2>2, <2>3, FS_EmptySet DEF Due
<1>. QED
  BY <1>1, <1>2 DEF AccountInv

\* Nobody is referred and nothing is bought.
LEMMA InitIInv == ConstantsAssumption /\ Init => IInv
<1> SUFFICES ASSUME ConstantsAssumption, Init PROVE IInv
  OBVIOUS
<1>1. NoRow \in Row
  BY DEF NoRow, Row
<1>2. TypeOK
  BY <1>1 DEF Init, TypeOK, JobState, ConstantsAssumption
<1>3. \A r \in Reward : reward[r].status = "none"
  BY DEF Init, NoRow
<1>4. ChainInv /\ JobInv /\ OwnerInv /\ GrantInv
  BY <1>3 DEF Init, ChainInv, JobInv, OwnerInv, GrantInv
<1>5. IssuedWasGranted
  BY <1>3 DEF IssuedWasGranted
<1>. QED
  BY <1>2, <1>4, <1>5, InitAccount DEF IInv

\* A registration is at the first level: a user without a row has no parent.
LEMMA FirstLevel == LevelBelow(None) = 1
  BY DEF LevelBelow

\* The larger of two numbers is a number.
LEMMA MaxIsNat == ASSUME NEW n \in Int PROVE Max({1, n}) \in Nat
<1>1. \E x \in {1, n} : \A y \in {1, n} : x >= y
  OBVIOUS
<1>2. Max({1, n}) \in {1, n} /\ \A y \in {1, n} : Max({1, n}) >= y
  BY <1>1 DEF Max
<1>. QED
  BY <1>2

\* A reward that is neither None nor zero is a number.
LEMMA AmountIsNat ==
  ASSUME ConstantsAssumption, TypeOK, NEW t \in Txn, NEW v \in Nat,
         RewardAmount(t, v) # None
  PROVE  RewardAmount(t, v) \in Nat
<1>1. Bought[t].final \in Nat /\ Bought[t].duration \in Nat
  BY DEF ConstantsAssumption
<1>2. (Bought[t].final * v) \div 10000 \in Int /\ (Bought[t].duration * v) \div 100 \in Int
  BY <1>1
<1>. QED
  BY <1>2, MaxIsNat DEF RewardAmount

\* A call that goes to another step, or to the next level, keeps its type.
LEMMA StepKeepsType ==
  ASSUME TypeOK, NEW t \in Txn, NEW step \in Running \cup {"done", "stopped"}, Step(t, step)
  PROVE  job' \in [Txn -> JobState]
<1>1. job[t] \in JobState
  BY DEF TypeOK
<1>2. [job[t] EXCEPT !.step = step] \in JobState
  BY <1>1 DEF JobState
<1>. QED
  BY <1>2 DEF TypeOK, Step

\* So does one that goes to the next level.
LEMMA NextLevelKeepsType ==
  ASSUME TypeOK, NEW t \in Txn, NextLevel(t) PROVE job' \in [Txn -> JobState]
<1>1. \A n \in JobState : [n EXCEPT !.step = "level"] \in JobState
  BY DEF JobState
<1>2. \A n \in JobState : [n EXCEPT !.level = 2] \in JobState
  BY DEF JobState
<1>3. [[job[t] EXCEPT !.step = "level"] EXCEPT !.level = 2] \in JobState
  BY <1>1, <1>2 DEF TypeOK
<1>4. CASE job[t].level = 1
  BY <1>3, <1>4 DEF TypeOK, NextLevel
<1>5. CASE job[t].level # 1
  BY <1>5, StepKeepsType DEF NextLevel
<1>. QED
  BY <1>4, <1>5

\* After the next level is taken the call keeps its chain and is between rewards.
LEMMA NextLevelFacts ==
  ASSUME TypeOK, NEW t \in Txn, NextLevel(t)
  PROVE  /\ \A x \in Txn : job'[x].chain = job[x].chain
         /\ \A x \in Txn \ {t} : job'[x] = job[x]
         /\ job'[t].step \in {"level", "done"}
<1>1. job \in [Txn -> JobState]
  BY DEF TypeOK
<1>2. CASE job[t].level = 1
  BY <1>1, <1>2 DEF NextLevel, JobState
<1>3. CASE job[t].level # 1
  BY <1>1, <1>3 DEF NextLevel, Step, JobState
<1>. QED
  BY <1>2, <1>3

\* A call that only takes a step keeps everything else.
LEMMA StepFacts ==
  ASSUME TypeOK, NEW t \in Txn, NEW step, Step(t, step)
  PROVE  /\ \A x \in Txn : job'[x].chain = job[x].chain /\ job'[x].level = job[x].level
         /\ \A x \in Txn \ {t} : job'[x] = job[x]
         /\ job'[t].step = step
<1>1. job \in [Txn -> JobState]
  BY DEF TypeOK
<1>. QED
  BY <1>1 DEF Step, JobState

-----------------------------------------------------------------------------
\* A registration writes the new user's row only, at the first level.
LEMMA AttachWrites ==
  ASSUME TypeOK, NEW u \in User, NEW r \in User, Attach(u, r)
  PROVE  /\ \A w \in User \ {u} : referral'[w] = referral[w]
         /\ referral'[u] \in {referral[u], [referrer |-> r, level |-> 1]}
         /\ referral' \in [User -> [referrer : User, level : Level] \cup {None}]
<1>1. referral \in [User -> [referrer : User, level : Level] \cup {None}]
  BY DEF TypeOK
<1>2. [referrer |-> r, level |-> LevelBelow(None)] = [referrer |-> r, level |-> 1]
  BY FirstLevel
<1>3. [referrer |-> r, level |-> 1] \in [referrer : User, level : Level]
  OBVIOUS
<1>. QED
  BY <1>1, <1>2, <1>3 DEF Attach

\* The chain of users does not change once they are registered.
LEMMA ChainStays ==
  ASSUME TypeOK, ChainInv, NEW u \in User, NEW r \in User, Attach(u, r), NEW w \in registered
  PROVE  Chain(w)' = Chain(w)
<1>1. w \in User /\ w # u /\ referral'[w] = referral[w]
  BY AttachWrites DEF Attach, TypeOK
<1>2. ASSUME referral[w] # None
      PROVE  referral'[referral[w].referrer] = referral[referral[w].referrer]
  <2>1. referral[w].referrer \in registered
    BY <1>1, <1>2 DEF ChainInv
  <2>2. referral[w].referrer \in User \ {u}
    BY <2>1 DEF Attach, TypeOK
  <2>. QED
    BY <2>2, AttachWrites
<1>. QED
  BY <1>1, <1>2 DEF Chain

\* The chain of users keeps its shape.
LEMMA ChainStep ==
  ASSUME ConstantsAssumption, TypeOK, ChainInv, [Next]_vars PROVE ChainInv'
<1>1. ASSUME NEW u \in User, NEW r \in User, Attach(u, r) PROVE ChainInv'
  <2> SUFFICES ASSUME NEW w \in User, referral'[w] # None
               PROVE  /\ w \in registered'
                      /\ referral'[w].referrer \in registered' \ {w}
                      /\ referral'[referral'[w].referrer] # None
                           => referral'[referral'[w].referrer].referrer # w
    BY DEF ChainInv
  <2>1. registered' = registered \cup {u} /\ u \notin registered /\ r \in registered /\ r # u
    BY <1>1 DEF Attach
  <2>2. referral[u] = None
    BY <2>1 DEF ChainInv
  <2>3. registered \subseteq User
    BY DEF TypeOK
  <2>4. \A x \in registered : referral'[x] = referral[x]
    BY <1>1, <2>1, <2>3, AttachWrites
  <2>5. CASE w = u
    <3>1. referral'[u].referrer = r
      BY <1>1, <2>2, <2>5, AttachWrites
    <3>2. referral'[r] # None => referral'[r].referrer \in registered
      BY <2>1, <2>3, <2>4 DEF ChainInv
    <3>. QED
      BY <2>1, <2>5, <3>1, <3>2
  <2>6. CASE w # u
    <3>1. referral'[w] = referral[w]
      BY <1>1, <2>6, AttachWrites
    <3>2. referral[w].referrer \in registered
      BY <3>1 DEF ChainInv
    <3>. QED
      BY <2>1, <2>4, <3>1, <3>2 DEF ChainInv
  <2>. QED
    BY <2>5, <2>6
<1>2. ASSUME UNCHANGED <<registered, referral>> PROVE ChainInv'
  BY <1>2 DEF ChainInv
<1>3. CASE UNCHANGED vars
  BY <1>2, <1>3
<1>4. ASSUME NEW u \in User, Resubscribe(u) \/ \E amount \in {-1, 1} : Edit(u, amount)
      PROVE  ChainInv'
  BY <1>2, <1>4 DEF Resubscribe, Edit
<1>5. ASSUME NEW t \in Txn,
             \/ Assign(t) \/ CreateReward(t) \/ ReadBalance(t) \/ Grant(t)
             \/ MarkIssued(t) \/ Raise(t) \/ Stop(t)
      PROVE  ChainInv'
  BY <1>2, <1>5 DEF Assign, CreateReward, ReadBalance, Grant, MarkIssued, Raise, Stop
<1>. QED
  BY <1>1, <1>3, <1>4, <1>5 DEF Next

\* The calls keep the chains they have read.
LEMMA JobStep ==
  ASSUME ConstantsAssumption, TypeOK, ChainInv, JobInv, [Next]_vars PROVE JobInv'
<1>p. \A t \in Txn : Bought[t].payer \in User
  BY DEF ConstantsAssumption
<1>1. ASSUME NEW u \in User, NEW r \in User, Attach(u, r) PROVE JobInv'
  <2>1. registered \subseteq registered' /\ job' = job
    BY <1>1 DEF Attach
  <2>2. \A w \in registered : Chain(w)' = Chain(w)
    BY <1>1, ChainStays
  <2>3. \A w \in registered : Chain(w)' = Chain(w) /\ w \in registered'
    BY <2>1, <2>2
  <2>. QED
    BY <2>1, <2>3 DEF JobInv
<1>c. ASSUME UNCHANGED <<registered, referral>>,
             \A t \in Txn : job'[t].chain = job[t].chain
                            /\ (job'[t].step # "new" => job[t].step # "new")
      PROVE  JobInv'
  BY <1>c DEF JobInv, Chain
<1>3. CASE UNCHANGED vars
  BY <1>c, <1>3
<1>4. ASSUME NEW u \in User, Resubscribe(u) \/ \E amount \in {-1, 1} : Edit(u, amount)
      PROVE  JobInv'
  BY <1>c, <1>4 DEF Resubscribe, Edit
<1>5. ASSUME NEW t \in Txn, Assign(t) PROVE JobInv'
  <2>1. UNCHANGED <<registered, referral>> /\ Bought[t].payer \in registered
    BY <1>5 DEF Assign
  <2>2. job'[t].chain = Chain(Bought[t].payer) /\ \A x \in Txn \ {t} : job'[x] = job[x]
    BY <1>5 DEF Assign, TypeOK, JobState
  <2>3. \A w : Chain(w)' = Chain(w)
    BY <2>1 DEF Chain
  <2>4. ASSUME NEW x \in Txn, job'[x].step # "new"
        PROVE  Bought[x].payer \in registered /\ job'[x].chain = Chain(Bought[x].payer)
    BY <2>1, <2>2, <2>4 DEF JobInv
  <2>. QED
    BY <2>1, <2>3, <2>4 DEF JobInv
<1>6. ASSUME NEW t \in Txn, job[t].step # "new", UNCHANGED <<registered, referral>>,
             NextLevel(t) \/ (\E step : Step(t, step))
      PROVE  JobInv'
  <2>1. \A x \in Txn : job'[x].chain = job[x].chain
    BY <1>6, NextLevelFacts, StepFacts
  <2>2. \A x \in Txn \ {t} : job'[x] = job[x]
    BY <1>6, NextLevelFacts, StepFacts
  <2>. QED
    BY <1>6, <1>c, <2>1, <2>2
<1>7. ASSUME NEW t \in Txn, CreateReward(t) PROVE JobInv'
  BY <1>6, <1>7 DEF CreateReward
<1>8. ASSUME NEW t \in Txn, ReadBalance(t) PROVE JobInv'
  <2>1. CASE NextLevel(t)
    BY <1>6, <1>8, <2>1 DEF ReadBalance
  <2>2. CASE ~NextLevel(t)
    <3>1. \A x \in Txn : job'[x].chain = job[x].chain
                         /\ (job'[x].step # "new" => job[x].step # "new")
      BY <1>8, <2>2 DEF ReadBalance, TypeOK, JobState
    <3>. QED
      BY <1>8, <1>c, <3>1 DEF ReadBalance
  <2>. QED
    BY <2>1, <2>2
<1>9. ASSUME NEW t \in Txn, Grant(t) \/ MarkIssued(t) \/ Raise(t) \/ Stop(t) PROVE JobInv'
  BY <1>6, <1>9 DEF Grant, MarkIssued, Raise, Stop
<1>. QED
  BY <1>1, <1>3, <1>4, <1>5, <1>7, <1>8, <1>9 DEF Next

-----------------------------------------------------------------------------
\* The start of a call leaves its step to the settings and the chain.
LEMMA AssignFacts ==
  ASSUME TypeOK, NEW t \in Txn, Assign(t)
  PROVE  /\ \A x \in Txn \ {t} : job'[x] = job[x]
         /\ job'[t].step \in {"level", "done"}
         /\ job[t].step = "new"
         /\ Bought[t].payer \in User => job' \in [Txn -> JobState]
<1>1. PICK step \in {"level", "done"} :
        job' = [job EXCEPT ![t].step = step, ![t].chain = Chain(Bought[t].payer)]
  <2>1. CASE Rewarded(t) /\ referral[Bought[t].payer] # None
    BY <2>1 DEF Assign
  <2>2. CASE ~(Rewarded(t) /\ referral[Bought[t].payer] # None)
    BY <2>2 DEF Assign
  <2>. QED
    BY <2>1, <2>2
<1>2. \A n \in JobState : [n EXCEPT !.step = step] \in JobState
  BY <1>1 DEF JobState
<1>3. \A n \in JobState, c \in [Level -> User \cup {None}] : [n EXCEPT !.chain = c] \in JobState
  BY DEF JobState
<1>4. ASSUME Bought[t].payer \in User PROVE Chain(Bought[t].payer) \in [Level -> User \cup {None}]
  <2> DEFINE w == Bought[t].payer
  <2>1. referral[w] # None => referral[w].referrer \in User
    BY <1>4 DEF TypeOK
  <2>2. referral[w] # None /\ referral[referral[w].referrer] # None
          => referral[referral[w].referrer].referrer \in User
    BY <2>1 DEF TypeOK
  <2>. QED
    BY <2>1, <2>2 DEF Chain
<1>5. \A n \in JobState : "step" \in DOMAIN n /\ "chain" \in DOMAIN n
  BY DEF JobState
<1>6. job \in [Txn -> JobState]
  BY DEF TypeOK
<1>7. job'[t].step = step
  BY <1>1, <1>6 DEF JobState
<1>8. ASSUME Bought[t].payer \in User PROVE job' \in [Txn -> JobState]
  <2>1. [[job[t] EXCEPT !.step = step] EXCEPT !.chain = Chain(Bought[t].payer)] \in JobState
    BY <1>2, <1>3, <1>4, <1>6, <1>8
  <2>. QED
    BY <1>1, <1>6, <2>1
<1>9. \A x \in Txn \ {t} : job'[x] = job[x]
  BY <1>1, <1>6
<1>. QED
  BY <1>1, <1>7, <1>8, <1>9 DEF Assign

\* The read of a balance changes only the call.
LEMMA ReadFacts ==
  ASSUME TypeOK, NEW t \in Txn, ReadBalance(t), ~NextLevel(t)
  PROVE  LET owner == reward[<<t, job[t].level>>].owner IN
         /\ \A x \in Txn \ {t} : job'[x] = job[x]
         /\ job'[t].step = "read" /\ job'[t].level = job[t].level
         /\ job'[t].chain = job[t].chain
         /\ owner \in User => job' \in [Txn -> JobState]
<1> DEFINE o == reward[<<t, job[t].level>>].owner
<1>1. job' = [job EXCEPT ![t].step = "read", ![t].seen = balance[o]]
  BY DEF ReadBalance
<1>2. job \in [Txn -> JobState]
  BY DEF TypeOK
<1>3. \A n \in JobState : [n EXCEPT !.step = "read"] \in JobState
  BY DEF JobState
<1>4. \A n \in JobState, b \in Nat : [n EXCEPT !.seen = b] \in JobState
  BY DEF JobState
<1>5. ASSUME o \in User PROVE job' \in [Txn -> JobState]
  <2>1. balance[o] \in Nat
    BY <1>5 DEF TypeOK
  <2>2. [[job[t] EXCEPT !.step = "read"] EXCEPT !.seen = balance[o]] \in JobState
    BY <1>2, <1>3, <1>4, <2>1
  <2>. QED
    BY <1>1, <1>2, <2>2
<1>6. /\ \A x \in Txn \ {t} : job'[x] = job[x]
      /\ job'[t].step = "read" /\ job'[t].level = job[t].level
      /\ job'[t].chain = job[t].chain
  BY <1>1, <1>2 DEF JobState
<1>. QED
  BY <1>5, <1>6

\* A reward with a row has an owner among the users.
LEMMA OwnerIsUser ==
  ASSUME TypeOK, OwnerInv, NEW t \in Txn, NEW l \in Level, reward[<<t, l>>].status # "none"
  PROVE  reward[<<t, l>>].owner \in User
<1>1. job[t].chain \in [Level -> User \cup {None}]
  BY DEF TypeOK, JobState
<1>. QED
  BY <1>1 DEF OwnerInv

\* The created reward is a row.
LEMMA CreatedIsRow ==
  ASSUME ConstantsAssumption, TypeOK, NEW t \in Txn, CreateReward(t), ~UNCHANGED reward
  PROVE  LET l == job[t].level IN
         /\ Step(t, "created") /\ job[t].chain[l] # None /\ l \in Level
         /\ \E n \in Row : /\ n.status = "pending" /\ n.owner = job[t].chain[l]
                           /\ reward' = [reward EXCEPT ![<<t, l>>] = n]
<1> DEFINE l == job[t].level
           v == settings.reward.value[l]
           n == [status |-> "pending", owner |-> job[t].chain[l], amount |-> RewardAmount(t, v)]
<1>1. l \in Level /\ job[t].chain[l] \in User \cup {None}
  BY DEF TypeOK, JobState
<1>2. v \in Nat \cup {None}
  BY <1>1 DEF TypeOK, ReferralSettings, Rewards
<1>3. /\ job[t].chain[l] # None /\ v # None /\ RewardAmount(t, v) \notin {None, 0}
      /\ reward' = [reward EXCEPT ![<<t, l>>] = n] /\ Step(t, "created")
  BY DEF CreateReward
<1>4. RewardAmount(t, v) \in Nat
  BY <1>2, <1>3, AmountIsNat
<1>5. n \in Row
  BY <1>1, <1>4 DEF Row
<1>. QED
  BY <1>1, <1>3, <1>5

\* A row that is only marked stays a row.
LEMMA MarkedIsRow ==
  ASSUME TypeOK, NEW r \in Reward
  PROVE  [reward EXCEPT ![r].status = "issued"] \in [Reward -> Row]
<1>1. \A n \in Row : [n EXCEPT !.status = "issued"] \in Row
  BY DEF Row
<1>2. reward \in [Reward -> Row]
  BY DEF TypeOK
<1>. QED
  BY <1>1, <1>2

\* Every step keeps the types.
LEMMA TypeStep ==
  ASSUME ConstantsAssumption, TypeOK, OwnerInv, GrantInv, [Next]_vars PROVE TypeOK'
<1>s. settings \in ReferralSettings /\ registered \subseteq User /\ payable \subseteq User
  BY DEF TypeOK
<1>b. balance \in [User -> Nat] /\ edits \in 0 .. MaxEdits /\ edited \in [User -> Int]
  BY DEF TypeOK
<1>r. reward \in [Reward -> Row] /\ job \in [Txn -> JobState]
  BY DEF TypeOK
<1>g. given \subseteq Reward /\ overlapped \subseteq User
  BY DEF TypeOK
<1>f. referral \in [User -> [referrer : User, level : Level] \cup {None}]
  BY DEF TypeOK
<1>l. \A t \in Txn : job[t].level \in Level
  BY <1>r DEF JobState
<1>1. CASE UNCHANGED vars
  BY <1>1 DEF TypeOK
<1>2. ASSUME NEW u \in User, NEW r \in User, Attach(u, r) PROVE TypeOK'
  BY <1>2, <1>s, <1>b, <1>r, <1>g, AttachWrites DEF Attach, TypeOK
<1>3. ASSUME NEW u \in User, Resubscribe(u) PROVE TypeOK'
  BY <1>3, <1>s, <1>b, <1>r, <1>g, <1>f DEF Resubscribe, TypeOK
<1>4. ASSUME NEW u \in User, NEW amount \in {-1, 1}, Edit(u, amount) PROVE TypeOK'
  <2>1. balance' \in [User -> Nat]
    BY <1>4, <1>b DEF Edit
  <2>2. edits' \in 0 .. MaxEdits /\ edited' \in [User -> Int]
    BY <1>4, <1>b DEF Edit, ConstantsAssumption
  <2>3. overlapped' \subseteq User
    BY <1>4, <1>g DEF Edit, WritesOver
  <2>. QED
    BY <1>4, <1>s, <1>r, <1>g, <1>f, <2>1, <2>2, <2>3 DEF Edit, TypeOK
<1>j. ASSUME job' \in [Txn -> JobState], reward' \in [Reward -> Row],
             UNCHANGED <<settings, registered, referral, balance, payable, edits, history>>
      PROVE  TypeOK'
  BY <1>j, <1>s, <1>b, <1>g, <1>f DEF TypeOK
<1>5. ASSUME NEW t \in Txn, Assign(t) PROVE TypeOK'
  <2>1. Bought[t].payer \in User
    BY DEF ConstantsAssumption
  <2>. QED
    BY <1>5, <1>j, <1>r, <2>1, AssignFacts DEF Assign
<1>6. ASSUME NEW t \in Txn, CreateReward(t) PROVE TypeOK'
  <2>1. CASE reward' = reward
    <3>1. NextLevel(t) \/ Step(t, "created")
      BY <1>6 DEF CreateReward
    <3>2. job' \in [Txn -> JobState]
      BY <3>1, NextLevelKeepsType, StepKeepsType
    <3>. QED
      BY <1>6, <1>j, <1>r, <2>1, <3>2 DEF CreateReward
  <2>2. CASE reward' # reward
    <3>1. Step(t, "created")
      BY <1>6, <2>2, CreatedIsRow
    <3>2. PICK n \in Row : reward' = [reward EXCEPT ![<<t, job[t].level>>] = n]
      BY <1>6, <2>2, CreatedIsRow
    <3>3. reward' \in [Reward -> Row]
      BY <1>r, <3>2
    <3>4. job' \in [Txn -> JobState]
      BY <3>1, StepKeepsType
    <3>. QED
      BY <1>6, <1>j, <3>3, <3>4 DEF CreateReward
  <2>. QED
    BY <2>1, <2>2
<1>7. ASSUME NEW t \in Txn, ReadBalance(t) PROVE TypeOK'
  <2>1. reward[<<t, job[t].level>>].owner \in User
    BY <1>7, <1>l, OwnerIsUser DEF ReadBalance, GrantInv
  <2>2. job' \in [Txn -> JobState]
    BY <1>7, <2>1, NextLevelKeepsType, ReadFacts
  <2>. QED
    BY <1>7, <1>j, <1>r, <2>2 DEF ReadBalance
<1>8. ASSUME NEW t \in Txn, Grant(t) PROVE TypeOK'
  <2> DEFINE r == <<t, job[t].level>>
  <2>1. r \in Reward /\ reward[r].owner \in User
    BY <1>8, <1>l, OwnerIsUser DEF Grant, GrantInv
  <2>2. job[t].seen + reward[r].amount \in Nat
    <3>1. job[t].seen \in Nat
      BY <1>r DEF JobState
    <3>2. reward[r].amount \in Nat
      BY <1>r, <2>1 DEF Row
    <3>. QED
      BY <3>1, <3>2
  <2>3. balance' \in [User -> Nat]
    BY <1>8, <1>b, <2>1, <2>2 DEF Grant
  <2>4. given' \subseteq Reward /\ overlapped' \subseteq User
    BY <1>8, <1>g, <2>1 DEF Grant, WritesOver
  <2>5. job' \in [Txn -> JobState]
    BY <1>8, StepKeepsType DEF Grant
  <2>6. UNCHANGED <<settings, registered, referral, payable, reward, edits, edited>>
    BY <1>8 DEF Grant
  <2>. QED
    BY <1>s, <1>b, <1>r, <1>f, <2>3, <2>4, <2>5, <2>6 DEF TypeOK
<1>9. ASSUME NEW t \in Txn, MarkIssued(t) PROVE TypeOK'
  <2>1. reward' \in [Reward -> Row]
    BY <1>9, <1>l, MarkedIsRow DEF MarkIssued
  <2>2. job' \in [Txn -> JobState]
    BY <1>9, NextLevelKeepsType DEF MarkIssued
  <2>. QED
    BY <1>9, <1>j, <2>1, <2>2 DEF MarkIssued
<1>10. ASSUME NEW t \in Txn, Raise(t) \/ Stop(t) PROVE TypeOK'
  <2>1. job' \in [Txn -> JobState]
    BY <1>10, NextLevelKeepsType, StepKeepsType DEF Raise, Stop
  <2>. QED
    BY <1>10, <1>j, <1>r, <2>1 DEF Raise, Stop
<1>. QED
  BY <1>1, <1>2, <1>3, <1>4, <1>5, <1>6, <1>7, <1>8, <1>9, <1>10 DEF Next

-----------------------------------------------------------------------------
\* Rewards keep their owners, taken from their call's chain.
LEMMA OwnerStep ==
  ASSUME ConstantsAssumption, TypeOK, OwnerInv, GrantInv, [Next]_vars PROVE OwnerInv'
<1>r. reward \in [Reward -> Row] /\ job \in [Txn -> JobState]
  BY DEF TypeOK
<1>k. ASSUME \A x \in Txn, l \in Level :
               /\ reward'[<<x, l>>].status # "none" => reward[<<x, l>>].status # "none"
               /\ reward'[<<x, l>>].owner = reward[<<x, l>>].owner,
             \A x \in Txn : job[x].step # "new" =>
               job'[x].step # "new" /\ job'[x].chain = job[x].chain
      PROVE  OwnerInv'
  BY <1>k DEF OwnerInv
<1>1. CASE UNCHANGED <<reward, job>>
  BY <1>1, <1>k
<1>2. ASSUME NEW t \in Txn, Assign(t) PROVE OwnerInv'
  BY <1>2, <1>k, AssignFacts DEF Assign
<1>3. ASSUME NEW t \in Txn, CreateReward(t) PROVE OwnerInv'
  <2>1. CASE reward' = reward
    <3>1. NextLevel(t) \/ Step(t, "created")
      BY <1>3 DEF CreateReward
    <3>. QED
      BY <1>k, <2>1, <3>1, NextLevelFacts, StepFacts
  <2>2. CASE reward' # reward
    <3> DEFINE k == job[t].level
    <3>1. Step(t, "created") /\ job[t].chain[k] # None /\ k \in Level
      BY <1>3, <2>2, CreatedIsRow
    <3>2. PICK n \in Row : /\ n.owner = job[t].chain[k]
                           /\ reward' = [reward EXCEPT ![<<t, k>>] = n]
      BY <1>3, <2>2, CreatedIsRow
    <3>3. \A x \in Txn : job'[x].chain = job[x].chain
      BY <3>1, StepFacts
    <3>4. job'[t].step # "new" /\ \A x \in Txn \ {t} : job'[x] = job[x]
      BY <3>1, StepFacts
    <3>5. reward'[<<t, k>>].owner = job[t].chain[k]
      BY <1>r, <3>1, <3>2
    <3>6. \A x \in Txn, l \in Level : <<x, l>> # <<t, k>> => reward'[<<x, l>>] = reward[<<x, l>>]
      BY <1>r, <3>2
    <3> HIDE DEF k
    <3>7. ASSUME NEW x \in Txn, NEW l \in Level, reward'[<<x, l>>].status # "none"
          PROVE  /\ job'[x].step # "new"
                 /\ reward'[<<x, l>>].owner = job'[x].chain[l] /\ job'[x].chain[l] # None
      <4>1. CASE x = t /\ l = k
        BY <3>1, <3>3, <3>4, <3>5, <4>1
      <4>2. CASE ~(x = t /\ l = k)
        BY <3>3, <3>4, <3>6, <3>7, <4>2 DEF OwnerInv
      <4>. QED
        BY <4>1, <4>2
    <3>. QED
      BY <3>7 DEF OwnerInv
  <2>. QED
    BY <2>1, <2>2
<1>4. ASSUME NEW t \in Txn, ReadBalance(t) PROVE OwnerInv'
  BY <1>4, <1>k, NextLevelFacts, ReadFacts DEF ReadBalance
<1>5. ASSUME NEW t \in Txn, MarkIssued(t) PROVE OwnerInv'
  <2> DEFINE r == <<t, job[t].level>>
  <2>1. r \in Reward /\ reward[r].status # "none"
    BY <1>5, <1>r DEF MarkIssued, GrantInv, JobState
  <2>2. \A q \in Reward : reward'[q].owner = reward[q].owner
                          /\ (q # r => reward'[q] = reward[q])
    BY <1>5, <1>r, <2>1 DEF MarkIssued, Row
  <2>3. \A x \in Txn, l \in Level :
          /\ reward'[<<x, l>>].status # "none" => reward[<<x, l>>].status # "none"
          /\ reward'[<<x, l>>].owner = reward[<<x, l>>].owner
    BY <2>1, <2>2
  <2>. QED
    BY <1>5, <1>k, <2>3, NextLevelFacts DEF MarkIssued
<1>6. ASSUME NEW t \in Txn, Grant(t) \/ Raise(t) \/ Stop(t) PROVE OwnerInv'
  BY <1>6, <1>k, NextLevelFacts, StepFacts DEF Grant, Raise, Stop
<1>7. ASSUME NEW u \in User, \/ \E r \in User : Attach(u, r)
                             \/ Resubscribe(u) \/ \E amount \in {-1, 1} : Edit(u, amount)
      PROVE  OwnerInv'
  BY <1>1, <1>7 DEF Attach, Resubscribe, Edit
<1>. QED
  BY <1>1, <1>2, <1>3, <1>4, <1>5, <1>6, <1>7 DEF Next

\* A call past a creation has a row, one past a grant has granted.
LEMMA GrantStep ==
  ASSUME ConstantsAssumption, TypeOK, GrantInv, [Next]_vars PROVE GrantInv'
<1>r. reward \in [Reward -> Row] /\ job \in [Txn -> JobState]
  BY DEF TypeOK
<1>l. \A x \in Txn : job[x].level \in Level
  BY <1>r DEF JobState
<1>k. ASSUME \A q \in Reward : reward[q].status # "none" => reward'[q].status # "none",
             given \subseteq given',
             NEW t \in Txn, \A x \in Txn \ {t} : job'[x] = job[x],
             job'[t].step = "granted" => <<t, job'[t].level>> \in given',
             job'[t].step \in {"created", "read", "granted"}
               => reward'[<<t, job'[t].level>>].status # "none"
      PROVE  GrantInv'
  <2>1. ASSUME NEW x \in Txn \ {t}
        PROVE  /\ job'[x].step = "granted" => <<x, job'[x].level>> \in given'
               /\ job'[x].step \in {"created", "read", "granted"}
                    => reward'[<<x, job'[x].level>>].status # "none"
    BY <1>k, <1>l DEF GrantInv
  <2>. QED
    BY <1>k, <2>1 DEF GrantInv
<1>1. CASE UNCHANGED <<reward, job, given>>
  BY <1>1 DEF GrantInv
<1>2. ASSUME NEW t \in Txn, Assign(t) PROVE GrantInv'
  BY <1>2, <1>k, AssignFacts DEF Assign
<1>3. ASSUME NEW t \in Txn, CreateReward(t) PROVE GrantInv'
  <2>1. CASE reward' = reward
    <3>2. CASE NextLevel(t)
      BY <1>3, <1>k, <2>1, <3>2, NextLevelFacts DEF CreateReward
    <3>3. CASE ~NextLevel(t)
      <4> DEFINE k == job[t].level
                 n == [status |-> "pending", owner |-> job[t].chain[k],
                       amount |-> RewardAmount(t, settings.reward.value[k])]
      <4>1. reward' = [reward EXCEPT ![<<t, k>>] = n] /\ Step(t, "created")
        BY <1>3, <3>3 DEF CreateReward
      <4>2. reward'[<<t, k>>].status # "none"
        BY <1>r, <1>l, <4>1
      <4>3. /\ job'[t].step = "created" /\ job'[t].level = job[t].level
            /\ \A x \in Txn \ {t} : job'[x] = job[x]
        BY <4>1, StepFacts
      <4>. QED
        BY <1>3, <1>k, <2>1, <4>2, <4>3 DEF CreateReward
    <3>. QED
      BY <3>2, <3>3
  <2>2. CASE reward' # reward
    <3> DEFINE k == job[t].level
    <3>1. Step(t, "created") /\ k \in Level
      BY <1>3, <2>2, CreatedIsRow
    <3>2. PICK n \in Row : n.status = "pending" /\ reward' = [reward EXCEPT ![<<t, k>>] = n]
      BY <1>3, <2>2, CreatedIsRow
    <3>3. \A q \in Reward : reward[q].status # "none" => reward'[q].status # "none"
      BY <1>r, <3>2
    <3>4. reward'[<<t, k>>].status # "none"
      BY <1>r, <3>1, <3>2
    <3>5. /\ job'[t].step = "created" /\ job'[t].level = k
          /\ \A x \in Txn \ {t} : job'[x] = job[x]
      BY <3>1, StepFacts
    <3>6. given' = given
      BY <1>3 DEF CreateReward
    <3>. QED
      BY <1>k, <3>3, <3>4, <3>5, <3>6
  <2>. QED
    BY <2>1, <2>2
<1>4. ASSUME NEW t \in Txn, ReadBalance(t) PROVE GrantInv'
  <2>1. CASE NextLevel(t)
    BY <1>4, <1>k, <2>1, NextLevelFacts DEF ReadBalance
  <2>2. CASE ~NextLevel(t)
    <3>1. reward[<<t, job[t].level>>].status # "none"
      BY <1>4 DEF ReadBalance, GrantInv
    <3>. QED
      BY <1>4, <1>k, <2>2, <3>1, ReadFacts DEF ReadBalance
  <2>. QED
    BY <2>1, <2>2
<1>5. ASSUME NEW t \in Txn, Grant(t) PROVE GrantInv'
  <2>1. reward[<<t, job[t].level>>].status # "none" /\ Step(t, "granted")
    BY <1>5 DEF Grant, GrantInv
  <2>2. given' = given \cup {<<t, job[t].level>>} /\ reward' = reward
    BY <1>5 DEF Grant
  <2>. QED
    BY <1>k, <2>1, <2>2, StepFacts
<1>6. ASSUME NEW t \in Txn, MarkIssued(t) PROVE GrantInv'
  <2>1. \A q \in Reward : reward[q].status # "none" => reward'[q].status # "none"
    BY <1>6, <1>r DEF MarkIssued, Row
  <2>. QED
    BY <1>6, <1>k, <2>1, NextLevelFacts DEF MarkIssued
<1>7. ASSUME NEW t \in Txn, Raise(t) \/ Stop(t) PROVE GrantInv'
  <2>1. reward' = reward /\ given' = given /\ (NextLevel(t) \/ Step(t, "stopped"))
    BY <1>7 DEF Raise, Stop
  <2>2. job'[t].step \in {"level", "done", "stopped"} /\ \A x \in Txn \ {t} : job'[x] = job[x]
    BY <2>1, NextLevelFacts, StepFacts
  <2>. QED
    BY <1>k, <2>1, <2>2
<1>8. ASSUME NEW u \in User, \/ \E r \in User : Attach(u, r)
                             \/ Resubscribe(u) \/ \E amount \in {-1, 1} : Edit(u, amount)
      PROVE  GrantInv'
  BY <1>1, <1>8 DEF Attach, Resubscribe, Edit
<1>. QED
  BY <1>1, <1>2, <1>3, <1>4, <1>5, <1>6, <1>7, <1>8 DEF Next

\* Only the mark makes a reward issued, and it follows the grant.
LEMMA IssuedStep ==
  ASSUME ConstantsAssumption, TypeOK, GrantInv, IssuedWasGranted, [Next]_vars
  PROVE  IssuedWasGranted'
<1>r. reward \in [Reward -> Row] /\ job \in [Txn -> JobState]
  BY DEF TypeOK
<1>k. ASSUME \A q \in Reward : reward'[q].status = "issued" => reward[q].status = "issued",
             given \subseteq given'
      PROVE  IssuedWasGranted'
  BY <1>k DEF IssuedWasGranted
<1>1. ASSUME NEW t \in Txn, CreateReward(t) PROVE IssuedWasGranted'
  <2>1. CASE reward' = reward
    BY <1>1, <1>k, <2>1 DEF CreateReward
  <2>2. CASE reward' # reward
    <3>1. PICK n \in Row : /\ n.status = "pending"
                           /\ reward' = [reward EXCEPT ![<<t, job[t].level>>] = n]
      BY <1>1, <2>2, CreatedIsRow
    <3>2. \A q \in Reward : reward'[q].status = "issued" => reward[q].status = "issued"
      BY <1>r, <3>1
    <3>. QED
      BY <1>1, <1>k, <3>2 DEF CreateReward
  <2>. QED
    BY <2>1, <2>2
<1>2. ASSUME NEW t \in Txn, MarkIssued(t) PROVE IssuedWasGranted'
  <2> DEFINE r == <<t, job[t].level>>
  <2>1. r \in given
    BY <1>2 DEF MarkIssued, GrantInv
  <2>2. \A q \in Reward : q # r => reward'[q] = reward[q]
    BY <1>2, <1>r DEF MarkIssued
  <2>3. given' = given
    BY <1>2 DEF MarkIssued
  <2>. QED
    BY <2>1, <2>2, <2>3 DEF IssuedWasGranted
<1>3. ASSUME NEW t \in Txn, Grant(t) PROVE IssuedWasGranted'
  BY <1>3, <1>k DEF Grant
<1>4. CASE UNCHANGED <<reward, given>>
  BY <1>4, <1>k
<1>5. ASSUME NEW t \in Txn, Assign(t) \/ ReadBalance(t) \/ Raise(t) \/ Stop(t)
      PROVE  IssuedWasGranted'
  BY <1>4, <1>5 DEF Assign, ReadBalance, Raise, Stop
<1>6. ASSUME NEW u \in User, \/ \E r \in User : Attach(u, r)
                             \/ Resubscribe(u) \/ \E amount \in {-1, 1} : Edit(u, amount)
      PROVE  IssuedWasGranted'
  BY <1>4, <1>6 DEF Attach, Resubscribe, Edit
<1>. QED
  BY <1>1, <1>2, <1>3, <1>4, <1>5, <1>6 DEF Next

-----------------------------------------------------------------------------
\* How a call goes on keeps which of its rewards may be granted.
LEMMA TurnStep ==
  ASSUME ConstantsAssumption, TypeOK, TurnInv, [Next]_vars PROVE TurnInv'
<1>j. job \in [Txn -> JobState] /\ \A t \in Txn : job[t].level \in {1, 2}
  BY DEF TypeOK, JobState
<1>n. ASSUME NEW t \in Txn, NextLevel(t)
      PROVE  \/ job[t].level = 1 /\ job'[t].level = 2
             \/ job[t].level = 2 /\ job'[t].level = 2 /\ job'[t].step = "done"
<2>1. CASE job[t].level = 1
  BY <1>n, <1>j, <2>1 DEF NextLevel, JobState
<2>2. CASE job[t].level = 2
  BY <1>n, <1>j, <2>2 DEF NextLevel, Step, JobState
<2>. QED
  BY <1>j, <2>1, <2>2
<1>1. ASSUME UNCHANGED given, NEW t \in Txn, job[t].step \in Running, NextLevel(t) PROVE TurnInv'
<2> SUFFICES ASSUME NEW x \in Txn, NEW l \in Level, <<x, l>> \in given'
             PROVE  \/ l < job'[x].level
                    \/ l = job'[x].level /\ job'[x].step \in {"granted", "done", "stopped"}
  BY DEF TurnInv
<2>1. CASE x # t
  <3>1. job'[x] = job[x]
    BY <1>1, <2>1, NextLevelFacts
  <3>. QED
    BY <1>1, <3>1 DEF TurnInv
<2>2. CASE x = t
  <3>1. \/ l < job[t].level
        \/ l = job[t].level
    BY <1>1, <2>2 DEF TurnInv
  <3>. QED
    BY <1>1, <1>j, <1>n, <2>2, <3>1
<2>. QED
  BY <2>1, <2>2
<1>2. ASSUME UNCHANGED given, NEW t \in Txn, NEW step,
             job[t].step \in {"granted", "done", "stopped"}
               => step \in {"granted", "done", "stopped"},
             Step(t, step)
      PROVE  TurnInv'
<2> SUFFICES ASSUME NEW x \in Txn, NEW l \in Level, <<x, l>> \in given'
             PROVE  \/ l < job'[x].level
                    \/ l = job'[x].level /\ job'[x].step \in {"granted", "done", "stopped"}
  BY DEF TurnInv
<2>1. CASE x # t
  BY <1>2, <2>1, StepFacts DEF TurnInv
<2>2. CASE x = t
  <3>1. job'[t].level = job[t].level /\ job'[t].step = step
    BY <1>2, StepFacts
  <3>. QED
    BY <1>2, <2>2, <3>1 DEF TurnInv
<2>. QED
  BY <2>1, <2>2
<1>3. CASE UNCHANGED <<given, job>>
  BY <1>3 DEF TurnInv
<1>4. ASSUME NEW u \in User, \/ \E r \in User : Attach(u, r)
                             \/ Resubscribe(u) \/ \E amount \in {-1, 1} : Edit(u, amount)
      PROVE  TurnInv'
  BY <1>3, <1>4 DEF Attach, Resubscribe, Edit
<1>5. ASSUME NEW t \in Txn, Assign(t) PROVE TurnInv'
<2>1. job'[t].level = job[t].level
  BY <1>5, <1>j DEF Assign, JobState
<2>2. given' = given
  BY <1>5 DEF Assign
<2> SUFFICES ASSUME NEW x \in Txn, NEW l \in Level, <<x, l>> \in given'
             PROVE  \/ l < job'[x].level
                    \/ l = job'[x].level /\ job'[x].step \in {"granted", "done", "stopped"}
  BY DEF TurnInv
<2>3. \/ l < job[x].level
      \/ l = job[x].level /\ job[x].step \in {"granted", "done", "stopped"}
  BY <2>2 DEF TurnInv
<2>4. CASE x # t
  BY <1>5, <2>3, <2>4, AssignFacts
<2>5. CASE x = t
  <3>1. job[t].step = "new"
    BY <1>5, AssignFacts
  <3>. QED
    BY <2>1, <2>3, <2>5, <3>1
<2>. QED
  BY <2>4, <2>5
<1>6. ASSUME NEW t \in Txn, CreateReward(t) PROVE TurnInv'
  BY <1>6, <1>1, <1>2 DEF CreateReward
<1>7. ASSUME NEW t \in Txn, ReadBalance(t) PROVE TurnInv'
<2>1. CASE NextLevel(t)
  BY <1>7, <1>1, <2>1 DEF ReadBalance
<2>2. CASE ~NextLevel(t)
  <3>1. given' = given /\ job[t].step = "created"
    BY <1>7 DEF ReadBalance
  <3>. QED
    BY <1>7, <2>2, <3>1, ReadFacts DEF TurnInv
<2>. QED
  BY <2>1, <2>2
<1>8. ASSUME NEW t \in Txn, Grant(t) PROVE TurnInv'
<2>1. Step(t, "granted") /\ given' = given \cup {<<t, job[t].level>>}
  BY <1>8 DEF Grant
<2>2. /\ job'[t].level = job[t].level /\ job'[t].step = "granted"
      /\ \A x \in Txn \ {t} : job'[x] = job[x]
  BY <2>1, StepFacts
<2>3. ASSUME NEW x \in Txn, NEW l \in Level, <<x, l>> \in given'
      PROVE  \/ l < job'[x].level
             \/ l = job'[x].level /\ job'[x].step \in {"granted", "done", "stopped"}
  <3>1. CASE <<x, l>> = <<t, job[t].level>>
    BY <2>2, <3>1
  <3>2. CASE <<x, l>> \in given
    <4>1. job[t].step = "read"
      BY <1>8 DEF Grant
    <4>. QED
      BY <2>2, <3>2, <4>1 DEF TurnInv
  <3>. QED
    BY <2>1, <2>3, <3>1, <3>2
<2>. QED
  BY <2>3 DEF TurnInv
<1>9. ASSUME NEW t \in Txn, MarkIssued(t) \/ Raise(t) PROVE TurnInv'
  BY <1>9, <1>1 DEF MarkIssued, Raise
<1>10. ASSUME NEW t \in Txn, Stop(t) PROVE TurnInv'
  BY <1>10, <1>2 DEF Stop
<1>. QED
  BY <1>3, <1>4, <1>5, <1>6, <1>7, <1>8, <1>9, <1>10 DEF Next

\* A reward of n adds n units.
LEMMA UnitsOf ==
  ASSUME NEW r, NEW n \in Nat
  PROVE  IsFiniteSet({r} \X (1 .. n)) /\ Cardinality({r} \X (1 .. n)) = n
<1>1. IsFiniteSet({r}) /\ Cardinality({r}) = 1
  BY FS_Singleton
<1>2. IsFiniteSet(1 .. n) /\ Cardinality(1 .. n) = n
  BY FS_Interval
<1>3. /\ IsFiniteSet({r} \X (1 .. n))
      /\ Cardinality({r} \X (1 .. n)) = Cardinality({r}) * Cardinality(1 .. n)
  BY <1>1, <1>2, FS_Product
<1>. QED
  BY <1>1, <1>2, <1>3

\* Nothing but a grant moves units, and nothing but an edit what is due besides.
LEMMA SameUnits ==
  ASSUME given' = given, \A r \in given : reward'[r].owner = reward[r].owner
                                          /\ reward'[r].amount = reward[r].amount
  PROVE  \A u \in User : Units(u)' = Units(u)
<1> SUFFICES ASSUME NEW u \in User PROVE Units(u)' = Units(u)
  OBVIOUS
<1>1. Given(u)' = Given(u)
  BY DEF Given
<1>2. \A r \in Given(u) : reward'[r].amount = reward[r].amount
  BY DEF Given
<1>. QED
  BY <1>1, <1>2 DEF Units

\* A step that leaves balances, rewards granted and what was read alone leaves the accounts.
LEMMA AccountFrame ==
  ASSUME TypeOK, AccountInv,
         UNCHANGED <<balance, edited, given, overlapped>>,
         \A r \in given : reward'[r].owner = reward[r].owner
                          /\ reward'[r].amount = reward[r].amount,
         \A u \in User : Reading(u)' \subseteq Reading(u),
         \A u \in User : \A t \in Reading(u)' : job'[t].seen = job[t].seen
  PROVE  AccountInv'
<1>1. \A u \in User : Units(u)' = Units(u)
  BY SameUnits
<1>2. \A u \in User : Due(u)' = Due(u)
  BY <1>1 DEF Due
<1> SUFFICES ASSUME NEW u \in User
             PROVE  /\ IsFiniteSet(Units(u))'
                    /\ u \notin overlapped => /\ balance[u] = Due(u)'
                                              /\ \A t \in Reading(u)' : job'[t].seen = balance[u]
  BY DEF AccountInv
<1>. QED
  BY <1>1, <1>2 DEF AccountInv

\* Who reads on, reads what he read.
LEMMA ReadingStays ==
  ASSUME NEW t \in Txn, NEW u \in User, \A x \in Txn \ {t} : job'[x] = job[x],
         job'[t].step # "read",
         \A x \in Txn \ {t}, l \in Level :
           reward'[<<x, l>>].owner = reward[<<x, l>>].owner,
         \A x \in Txn : job[x].level \in Level
  PROVE  /\ Reading(u)' = Reading(u) \ {t}
         /\ \A x \in Reading(u)' : job'[x].seen = job[x].seen
<1>1. \A x \in Txn \ {t} : reward'[<<x, job'[x].level>>].owner = reward[<<x, job[x].level>>].owner
  OBVIOUS
<1>2. \A x \in Txn : x \in Reading(u)' <=> x \in Reading(u) \ {t}
  BY <1>1 DEF Reading
<1>3. Reading(u)' = Reading(u) \ {t}
  BY <1>2 DEF Reading
<1>. QED
  BY <1>3 DEF Reading

\* What is due is what is there.
LEMMA AccountStep ==
  ASSUME ConstantsAssumption, TypeOK, OwnerInv, GrantInv, TurnInv, AccountInv, [Next]_vars
  PROVE  AccountInv'
<1>j. /\ job \in [Txn -> JobState] /\ \A t \in Txn : job[t].level \in Level
      /\ reward \in [Reward -> Row] /\ given \subseteq Reward
  BY DEF TypeOK, JobState
<1>1. ASSUME UNCHANGED <<balance, edited, given, overlapped, reward>>, NEW t \in Txn,
             \A x \in Txn \ {t} : job'[x] = job[x], job'[t].step # "read"
      PROVE  AccountInv'
<2>1. \A u \in User : /\ Reading(u)' \subseteq Reading(u)
                       /\ \A x \in Reading(u)' : job'[x].seen = job[x].seen
  BY <1>1, <1>j, ReadingStays
<2>. QED
  BY <1>1, <2>1, AccountFrame
<1>2. CASE UNCHANGED <<balance, edited, given, overlapped, reward, job>>
<2>1. \A u \in User : /\ Reading(u)' = Reading(u)
                       /\ \A x \in Reading(u)' : job'[x].seen = job[x].seen
  BY <1>2 DEF Reading
<2>. QED
  BY <1>2, <2>1, AccountFrame
<1>3. ASSUME NEW u \in User, \/ \E r \in User : Attach(u, r)
                             \/ Resubscribe(u)
      PROVE  AccountInv'
  BY <1>2, <1>3 DEF Attach, Resubscribe
<1>4. ASSUME NEW u \in User, NEW amount \in {-1, 1}, Edit(u, amount) PROVE AccountInv'
<2>1. /\ balance' = [balance EXCEPT ![u] = balance[u] + amount]
      /\ edited' = [edited EXCEPT ![u] = edited[u] + amount]
      /\ overlapped' = WritesOver(u, {}) /\ UNCHANGED <<given, reward, job>>
  BY <1>4 DEF Edit
<2>2. /\ balance \in [User -> Nat] /\ edited \in [User -> Int]
  BY DEF TypeOK
<2>3. \A v \in User : Reading(v)' = Reading(v) /\ Units(v)' = Units(v)
  BY <2>1, SameUnits DEF Reading
<2>4. ASSUME NEW v \in User, v # u
      PROVE  /\ balance'[v] = balance[v] /\ Due(v)' = Due(v)
             /\ v \notin overlapped' => v \notin overlapped
  BY <2>1, <2>2, <2>3, <2>4 DEF Due, WritesOver
<2>5. u \notin overlapped' => /\ u \notin overlapped /\ Reading(u) = {}
                             /\ balance'[u] = Due(u)'
<3>1. u \notin overlapped' => u \notin overlapped /\ Reading(u) = {}
  BY <2>1 DEF WritesOver
<3>2. balance'[u] = balance[u] + amount /\ edited'[u] = edited[u] + amount
  BY <2>1, <2>2
<3>3. Due(u)' = edited'[u] + Cardinality(Units(u)) /\ Due(u) = edited[u] + Cardinality(Units(u))
  BY <2>3 DEF Due
<3>4. IsFiniteSet(Units(u)) /\ (u \notin overlapped => balance[u] = Due(u))
  BY DEF AccountInv
<3>5. Cardinality(Units(u)) \in Nat
  BY <3>4, FS_CardinalityType
<3>6. edited[u] \in Int /\ amount \in Int
  BY <2>2
<3>. QED
  BY <3>1, <3>2, <3>3, <3>4, <3>5, <3>6
<2>6. ASSUME NEW v \in User
      PROVE  /\ IsFiniteSet(Units(v)')
             /\ v \notin overlapped' => /\ balance'[v] = Due(v)'
                                       /\ \A t \in Reading(v)' : job'[t].seen = balance'[v]
<3>1. IsFiniteSet(Units(v)')
  BY <2>3 DEF AccountInv
<3>2. CASE v = u
  BY <2>3, <2>5, <3>1, <3>2
<3>3. CASE v # u
  BY <2>1, <2>3, <2>4, <3>1, <3>3 DEF AccountInv
<3>. QED
  BY <3>2, <3>3
<2>. QED
  BY <2>6 DEF AccountInv
<1>5. ASSUME NEW t \in Txn, Assign(t) PROVE AccountInv'
  BY <1>5, <1>1, AssignFacts DEF Assign
<1>6. ASSUME NEW t \in Txn, CreateReward(t) PROVE AccountInv'
<2>1. CASE reward' = reward
  <3>1. NextLevel(t) \/ Step(t, "created")
    BY <1>6 DEF CreateReward
  <3>2. job'[t].step # "read" /\ \A x \in Txn \ {t} : job'[x] = job[x]
    BY <3>1, NextLevelFacts, StepFacts
  <3>. QED
    BY <1>1, <1>6, <2>1, <3>2 DEF CreateReward
<2>2. CASE reward' # reward
  <3> DEFINE k == job[t].level
  <3>1. Step(t, "created") /\ k \in Level
    BY <1>6, <2>2, CreatedIsRow
  <3>2. PICK n \in Row : reward' = [reward EXCEPT ![<<t, k>>] = n]
    BY <1>6, <2>2, CreatedIsRow
  <3>3. job'[t].step # "read" /\ \A x \in Txn \ {t} : job'[x] = job[x]
    BY <3>1, StepFacts
  <3>4. \A r \in Reward : r # <<t, k>> => reward'[r] = reward[r]
    BY <1>j, <3>2
  <3>5. <<t, k>> \notin given
    <4>1. job[t].step = "level" /\ k \in Level
      BY <1>6, <1>j DEF CreateReward
    <4>2. <<t, k>> \in given => k < job[t].level
                              \/ job[t].step \in {"granted", "done", "stopped"}
      BY <4>1 DEF TurnInv
    <4>. QED
      BY <4>1, <4>2
  <3>6. UNCHANGED <<balance, edited, given, overlapped>>
    BY <1>6 DEF CreateReward
  <3> HIDE DEF k
  <3>7. \A r \in given : reward'[r].owner = reward[r].owner /\ reward'[r].amount = reward[r].amount
    BY <1>j, <3>4, <3>5
  <3>8. \A x \in Txn \ {t}, l \in Level : reward'[<<x, l>>].owner = reward[<<x, l>>].owner
    BY <3>4
  <3>9. \A u \in User : /\ Reading(u)' \subseteq Reading(u)
                         /\ \A x \in Reading(u)' : job'[x].seen = job[x].seen
    BY <1>j, <3>3, <3>8, ReadingStays
  <3>. QED
    BY <3>6, <3>7, <3>9, AccountFrame
<2>. QED
  BY <2>1, <2>2
<1>7. ASSUME NEW t \in Txn, ReadBalance(t) PROVE AccountInv'
<2>1. CASE NextLevel(t)
  BY <1>1, <1>7, <2>1, NextLevelFacts DEF ReadBalance
<2>2. CASE ~NextLevel(t)
  <3> DEFINE o == reward[<<t, job[t].level>>].owner
  <3>1. /\ job' = [job EXCEPT ![t].step = "read", ![t].seen = balance[o]]
        /\ UNCHANGED <<balance, edited, given, overlapped, reward>>
    BY <1>7, <2>2 DEF ReadBalance
  <3>2. /\ \A x \in Txn \ {t} : job'[x] = job[x]
        /\ job'[t].seen = balance[o] /\ job'[t].level = job[t].level
    BY <1>j, <3>1 DEF JobState
  <3>3. \A u \in User : Units(u)' = Units(u)
    BY <3>1, SameUnits
  <3>4. \A u \in User : Due(u)' = Due(u)
    BY <3>1, <3>3 DEF Due
  <3>5. \A u \in User : \A x \in Reading(u)' : x \in Reading(u) \/ (x = t /\ o = u)
    BY <3>1, <3>2 DEF Reading
  <3>6. ASSUME NEW u \in User, u \notin overlapped, NEW x \in Reading(u)'
        PROVE  job'[x].seen = balance[u]
    <4>1. CASE x = t
      <5>1. o = u
        BY <3>1, <3>2, <3>6, <4>1 DEF Reading
      <5>. QED
        BY <3>2, <4>1, <5>1
    <4>2. CASE x # t
      BY <3>2, <3>5, <3>6, <4>2 DEF AccountInv, Reading
    <4>. QED
      BY <4>1, <4>2
  <3> HIDE DEF o
  <3>7. ASSUME NEW u \in User
        PROVE  /\ IsFiniteSet(Units(u)')
               /\ u \notin overlapped' => /\ balance'[u] = Due(u)'
                                         /\ \A x \in Reading(u)' : job'[x].seen = balance'[u]
    BY <3>1, <3>3, <3>4, <3>6 DEF AccountInv
  <3>. QED
    BY <3>7 DEF AccountInv
<2>. QED
  BY <2>1, <2>2
<1>8. ASSUME NEW t \in Txn, Grant(t) PROVE AccountInv'
<2>r. PICK r, o, n : r = <<t, job[t].level>> /\ o = reward[r].owner /\ n = reward[r].amount
  OBVIOUS
<2> USE <2>r
<2>1. /\ balance' = [balance EXCEPT ![o] = job[t].seen + n]
      /\ given' = given \cup {r} /\ overlapped' = WritesOver(o, {t})
      /\ Step(t, "granted") /\ UNCHANGED <<reward, edited>> /\ job[t].step = "read"
  BY <1>8 DEF Grant
<2>2. r \in Reward /\ o \in User /\ n \in Nat
<3>1. r \in Reward /\ reward[r].status # "none"
  BY <1>j, <2>1 DEF GrantInv
<3>2. o \in User
  BY <1>j, <2>1, OwnerIsUser DEF GrantInv
<3>. QED
  BY <1>j, <3>1, <3>2 DEF Row
<2>3. r \notin given
<3>1. job[t].step = "read" /\ job[t].level \in Level
  BY <1>j, <2>1
<3>2. <<t, job[t].level>> \in given => job[t].level < job[t].level
                                     \/ job[t].step \in {"granted", "done", "stopped"}
  BY <3>1 DEF TurnInv
<3>. QED
  BY <3>1, <3>2
<2>4. /\ balance \in [User -> Nat] /\ edited \in [User -> Int]
  BY DEF TypeOK
<2>5. job'[t].step # "read" /\ \A x \in Txn \ {t} : job'[x] = job[x]
  BY <2>1, StepFacts
<2>6. \A u \in User : /\ Reading(u)' = Reading(u) \ {t}
                       /\ \A x \in Reading(u)' : job'[x].seen = job[x].seen
  BY <1>j, <2>1, <2>5, ReadingStays
<2>7. t \in Reading(o) /\ \A u \in User : u # o => t \notin Reading(u)
  BY <2>1 DEF Reading
<2>8. \A u \in User : Given(u)' = IF u = o THEN Given(u) \cup {r} ELSE Given(u)
  BY <2>1, <2>2 DEF Given
<2>9. \A u \in User : u # o => Units(u)' = Units(u) /\ balance'[u] = balance[u]
  BY <2>1, <2>2, <2>4, <2>8 DEF Units
<2>10. Units(o)' = Units(o) \cup ({r} \X (1 .. n)) /\ Units(o) \cap ({r} \X (1 .. n)) = {}
<3>1. \A q : reward'[q] = reward[q]
  BY <2>1
<3>2. Units(o)' = UNION {{q} \X (1 .. reward[q].amount) : q \in Given(o) \cup {r}}
  <4>1. Units(o)' = UNION {{q} \X (1 .. reward'[q].amount) : q \in Given(o)'}
    BY DEF Units
  <4>2. Given(o)' = Given(o) \cup {r}
    BY <2>2, <2>8
  <4>. QED
    BY <3>1, <4>1, <4>2
<3>3. r \notin Given(o)
  BY <2>3 DEF Given
<3>. QED
  BY <3>2, <3>3 DEF Units
<2>11. /\ IsFiniteSet(Units(o)')
       /\ Cardinality(Units(o)') = Cardinality(Units(o)) + n /\ Cardinality(Units(o)) \in Nat
<3>1. IsFiniteSet(Units(o))
  BY <2>2 DEF AccountInv
<3>2. IsFiniteSet({r} \X (1 .. n)) /\ Cardinality({r} \X (1 .. n)) = n
  BY <2>2, UnitsOf
<3>3. /\ IsFiniteSet(Units(o) \cup ({r} \X (1 .. n)))
      /\ Cardinality(Units(o) \cup ({r} \X (1 .. n)))
           = Cardinality(Units(o)) + Cardinality({r} \X (1 .. n))
               - Cardinality(Units(o) \cap ({r} \X (1 .. n)))
  BY <3>1, <3>2, FS_Union
<3>4. Cardinality(Units(o) \cap ({r} \X (1 .. n))) = 0
  BY <2>10, FS_EmptySet
<3>5. Cardinality(Units(o)) \in Nat
  BY <3>1, FS_CardinalityType
<3>. QED
  BY <2>2, <2>10, <3>2, <3>3, <3>4, <3>5
<2>12. o \notin overlapped' => o \notin overlapped /\ Reading(o)' = {} /\ balance'[o] = Due(o)'
<3> SUFFICES ASSUME o \notin overlapped'
             PROVE  o \notin overlapped /\ Reading(o)' = {} /\ balance'[o] = Due(o)'
  OBVIOUS
<3>1. o \notin overlapped /\ Reading(o) \ {t} = {}
  BY <2>1 DEF WritesOver
<3>2. job[t].seen = balance[o] /\ balance[o] = Due(o)
  BY <2>2, <2>7, <3>1 DEF AccountInv
<3>3. balance'[o] = balance[o] + n
  BY <2>1, <2>2, <2>4, <3>2
<3>4. Due(o)' = edited[o] + Cardinality(Units(o)') /\ Due(o) = edited[o] + Cardinality(Units(o))
  BY <2>1 DEF Due
<3>5. edited[o] \in Int /\ balance[o] \in Nat
  BY <2>2, <2>4
<3>6. balance'[o] = Due(o)'
  BY <2>2, <2>11, <3>2, <3>3, <3>4, <3>5
<3>7. Reading(o)' = Reading(o) \ {t}
  BY <2>2, <2>6
<3>. QED
  BY <3>1, <3>6, <3>7
<2>13. ASSUME NEW u \in User
       PROVE  /\ IsFiniteSet(Units(u)')
              /\ u \notin overlapped' => /\ balance'[u] = Due(u)'
                                        /\ \A x \in Reading(u)' : job'[x].seen = balance'[u]
<3>1. CASE u = o
  <4>1. IsFiniteSet(Units(u)')
    BY <2>11, <3>1
  <4>2. u \notin overlapped' => Reading(u)' = {} /\ balance'[u] = Due(u)'
    BY <2>12, <3>1
  <4>. QED
    BY <4>1, <4>2
<3>2. CASE u # o
  <4>1. Due(u)' = Due(u) /\ (u \notin overlapped' => u \notin overlapped)
    BY <2>1, <2>9, <3>2 DEF Due, WritesOver
  <4>2. \A x \in Reading(u)' : x \in Reading(u) /\ job'[x].seen = job[x].seen
    BY <2>6
  <4>. QED
    BY <2>9, <3>2, <4>1, <4>2 DEF AccountInv
<3>. QED
  BY <3>1, <3>2
<2>. QED
  BY <2>13 DEF AccountInv
<1>9. ASSUME NEW t \in Txn, MarkIssued(t) PROVE AccountInv'
<2>1. /\ NextLevel(t) /\ UNCHANGED <<balance, edited, given, overlapped>>
      /\ reward' = [reward EXCEPT ![<<t, job[t].level>>].status = "issued"]
  BY <1>9 DEF MarkIssued
<2>2. \A r \in Reward : reward'[r].owner = reward[r].owner /\ reward'[r].amount = reward[r].amount
  BY <1>j, <2>1 DEF Row
<2>3. job'[t].step # "read" /\ \A x \in Txn \ {t} : job'[x] = job[x]
  BY <2>1, NextLevelFacts
<2>4. \A u \in User : /\ Reading(u)' \subseteq Reading(u)
                       /\ \A x \in Reading(u)' : job'[x].seen = job[x].seen
  BY <1>j, <2>2, <2>3, ReadingStays
<2>5. \A r \in given : reward'[r].owner = reward[r].owner /\ reward'[r].amount = reward[r].amount
  BY <1>j, <2>2
<2>. QED
  BY <2>1, <2>4, <2>5, AccountFrame
<1>10. ASSUME NEW t \in Txn, Raise(t) PROVE AccountInv'
  BY <1>1, <1>10, NextLevelFacts DEF Raise
<1>11. ASSUME NEW t \in Txn, Stop(t) PROVE AccountInv'
  BY <1>1, <1>11, StepFacts DEF Stop
<1>. QED
  BY <1>2, <1>3, <1>4, <1>5, <1>6, <1>7, <1>8, <1>9, <1>10, <1>11 DEF Next
-----------------------------------------------------------------------------
\* The owners of a chain that was read are whom the table still names.
LEMMA FollowsChain ==
  ASSUME ConstantsAssumption, TypeOK, ChainInv, JobInv, OwnerInv PROVE RewardFollowsChain
<1> SUFFICES ASSUME NEW t \in Txn, NEW l \in Level, reward[<<t, l>>].status # "none"
             PROVE  LET payer == Bought[t].payer
                        owner == reward[<<t, l>>].owner
                    IN /\ owner # payer
                       /\ IF l = 1 THEN owner = referral[payer].referrer
                          ELSE owner = referral[referral[payer].referrer].referrer
  BY DEF RewardFollowsChain
<1> DEFINE p == Bought[t].payer
<1>1. p \in User
  BY DEF ConstantsAssumption
<1>2. reward[<<t, l>>].owner = Chain(p)[l] /\ Chain(p)[l] # None
  BY DEF OwnerInv, JobInv
<1>3. CASE l = 1
  <2>1. referral[p] # None /\ reward[<<t, l>>].owner = referral[p].referrer
    BY <1>2, <1>3 DEF Chain
  <2>. QED
    BY <1>1, <1>3, <2>1 DEF ChainInv
<1>4. CASE l # 1
  <2>1. Chain(p)[1] = IF referral[p] = None THEN None ELSE referral[p].referrer
    BY DEF Chain
  <2>2. l = 2
    BY <1>4
  <2>3. /\ referral[p] # None /\ referral[referral[p].referrer] # None
        /\ reward[<<t, l>>].owner = referral[referral[p].referrer].referrer
    BY <1>2, <2>2 DEF Chain
  <2>. QED
    BY <1>1, <1>4, <2>3 DEF ChainInv
<1>. QED
  BY <1>3, <1>4

\* IInv is inductive.
LEMMA Induction == ConstantsAssumption /\ IInv /\ [Next]_vars => IInv'
<1> SUFFICES ASSUME ConstantsAssumption, IInv, [Next]_vars PROVE IInv'
  OBVIOUS
<1>1. TypeOK' /\ ChainInv' /\ JobInv'
  BY TypeStep, ChainStep, JobStep DEF IInv
<1>2. OwnerInv' /\ GrantInv' /\ IssuedWasGranted'
  BY OwnerStep, GrantStep, IssuedStep DEF IInv
<1>3. TurnInv' /\ AccountInv'
  BY TurnStep, AccountStep DEF IInv
<1>. QED
  BY <1>1, <1>2, <1>3 DEF IInv

\* The inductive invariant holds in every reachable state.
LEMMA Invariance == ASSUME ConstantsAssumption PROVE Spec => []IInv
<1>1. Init => IInv
  BY InitIInv
<1>2. IInv /\ [Next]_vars => IInv'
  BY Induction
<1>. QED
  BY <1>1, <1>2, PTL DEF Spec

\* AssignReferralRewards marks no reward issued before it was granted, whatever raises
\* or stops between its three transactions.
THEOREM IssuedWasGrantedHolds == ASSUME ConstantsAssumption PROVE Spec => []IssuedWasGranted
<1>1. IInv => IssuedWasGranted
  BY DEF IInv
<1>. QED
  BY <1>1, Invariance, PTL

\* A reward's owner is who the referrals' table names as the buyer's referrer, or that
\* one's, and never the buyer: registrations between the read of the chain and the
\* rewards change nothing in it.
THEOREM RewardFollowsChainHolds ==
  ASSUME ConstantsAssumption PROVE Spec => []RewardFollowsChain
<1>1. IInv => RewardFollowsChain
  BY FollowsChain DEF IInv
<1>. QED
  BY <1>1, Invariance, PTL

\* A balance of points or days is what was granted and edited, reward by reward and for any
\* number of purchases, unless two read-modify-writes of it overlapped.
THEOREM BalanceAccountedHolds == ASSUME ConstantsAssumption PROVE Spec => []BalanceAccounted
<1>1. IInv => BalanceAccounted
  BY DEF IInv, AccountInv, BalanceAccounted
<1>. QED
  BY <1>1, Invariance, PTL

-----------------------------------------------------------------------------
(* Checkout. *)

\* Who is asked for a payment has chosen a plan, a duration and a type.
HasChosen(d) ==
  /\ d.state \in {"PLAN", "PLANS", "DURATION", "PAYMENT_METHOD", "CONFIRM"}
    => d.type \in Buying!Type
  /\ d.state \in {"DURATION", "PAYMENT_METHOD", "CONFIRM"} => d.plan \in Buying!Copy
  /\ d.state \in {"PAYMENT_METHOD", "CONFIRM"} => d.days \in DOMAIN d.plan.content.price

\* A payment p backs a choice: it is an order of the plan, the duration and the gateway,
\* and of the type and the amount when it has to be paid.
Backs(all, p, copy, days, g, type) ==
  /\ p.order \in DOMAIN all
  /\ LET o == all[p.order] IN
     /\ o.plan.id = copy.id /\ o.days = days /\ o.gateway = g
     /\ p.url => o.plan = copy /\ o.type = type /\ o.final = p.final

\* What is kept for a choice, and what is shown, backs it.
KeptBacks(d, all) ==
  \A c \in d.cache : d.plan \in Buying!Copy
    /\ Backs(all, c.payment, d.plan, c.days, c.gateway, c.type)
ShownBacks(d, all) ==
  d.state = "CONFIRM" => Backs(all, d.payment, d.plan, d.days, d.method, d.type)

\* An order's amount is what its price and its discount come to.
Fair(o) ==
  LET c == CurrencyOf[o.gateway] IN
  /\ o.days \in DOMAIN o.plan.content.price
  /\ Buying!Priced(o.plan.content, o.days, c, o.percent)
  /\ o.final = Buying!CostOf(o.plan.content, o.days, c, o.percent)

OrderInv ==
  /\ Buying!TypeOK /\ HasChosen(dialog) /\ KeptBacks(dialog, orders) /\ ShownBacks(dialog, orders)
  /\ \A i \in DOMAIN orders : Fair(orders[i])

-----------------------------------------------------------------------------
USE DEF Buying!Environment, Buying!Rest

\* The larger of two numbers.
LEMMA MaxOfTwo ==
  ASSUME NEW a \in Int, NEW b \in Int PROVE Buying!Max({a, b}) = IF a >= b THEN a ELSE b
<1>1. \E x \in {a, b} : \A y \in {a, b} : x >= y
  OBVIOUS
<1>2. Buying!Max({a, b}) \in {a, b} /\ \A y \in {a, b} : Buying!Max({a, b}) >= y
  BY <1>1 DEF Buying!Max
<1>. QED
  BY <1>2

\* ... and the smaller one.
LEMMA MinOfTwo ==
  ASSUME NEW a \in Int, NEW b \in Int PROVE Buying!Min({a, b}) = IF a <= b THEN a ELSE b
<1>1. \E x \in {a, b} : \A y \in {a, b} : x =< y
  OBVIOUS
<1>2. Buying!Min({a, b}) \in {a, b} /\ \A y \in {a, b} : Buying!Min({a, b}) =< y
  BY <1>1 DEF Buying!Min
<1>. QED
  BY <1>2

\* A set of numbers has a least one.
LEMMA MinIsIn == ASSUME NEW S, S \subseteq Nat, S # {} 
  PROVE  Buying!Min(S) \in S /\ \A y \in S : Buying!Min(S) =< y
<1>1. PICK x \in S : \A y \in S : ~(<<y, x>> \in OpToRel(<, Nat))
  BY WFMin, NatLessThanWellFounded
<1>2. \A y \in S : ~(y < x)
  BY <1>1 DEF OpToRel
<1>3. \A y \in S : x =< y
  BY <1>2
<1>. QED
  BY <1>3 DEF Buying!Min

\* A set of numbers up to n has a largest one.
LEMMA MaxIsIn == ASSUME NEW n \in Nat, NEW S, S \subseteq 1 .. n, S # {} PROVE Buying!Max(S) \in S
<1> DEFINE T == {d \in Nat : n - d \in S}
<1>1. T \subseteq Nat /\ \A x \in S : x \in Int /\ n - x \in Nat /\ n - (n - x) = x
  OBVIOUS
<1>2. \A x \in S : n - x \in T
  BY <1>1
<1>3. T # {}
  BY <1>2
<1> HIDE DEF T
<1>4. Buying!Min(T) \in T /\ \A e \in T : Buying!Min(T) =< e
  BY <1>1, <1>3, MinIsIn
<1>5. n - Buying!Min(T) \in S /\ Buying!Min(T) \in Nat
  BY <1>4 DEF T
<1>6. \A y \in S : n - Buying!Min(T) >= y
  BY <1>1, <1>2, <1>4, <1>5
<1>. QED
  BY <1>5, <1>6 DEF Buying!Max

-----------------------------------------------------------------------------
\* What apply_currency_rules makes of two amounts keeps their order.
LEMMA RoundedIsMonotone ==
  ASSUME NEW x \in Nat, NEW y \in Nat, x <= y, NEW c
  PROVE  Buying!Rounded(x, c) <= Buying!Rounded(y, c)
<1>1. CASE c \in Whole
  <2>1. (x \div 10000) * 100 \in Int /\ (y \div 10000) * 100 \in Int
        /\ (x \div 10000) * 100 <= (y \div 10000) * 100
    OBVIOUS
  <2>. QED
    BY <1>1, <2>1, MaxOfTwo DEF Buying!Rounded
<1>2. CASE c \notin Whole
  <2> DEFINE R(z) == z \div 100 + (IF z % 100 > 50 \/ (z % 100 = 50 /\ (z \div 100) % 2 = 1)
                                   THEN 1 ELSE 0)
  <2>1. R(x) \in Int /\ R(y) \in Int /\ R(x) <= R(y)
    OBVIOUS
  <2>2. Buying!Rounded(x, c) = Buying!Max({1, R(x)})
          /\ Buying!Rounded(y, c) = Buying!Max({1, R(y)})
    BY <1>2 DEF Buying!Rounded
  <2> HIDE DEF R
  <2>. QED
    BY <2>1, <2>2, MaxOfTwo
<1>. QED
  BY <1>1, <1>2

\* A price, cut by a percentage, stays a price and does not rise.
LEMMA RoundedIsBounded ==
  ASSUME NEW p \in Nat, p > 0, NEW x \in Nat, x <= 100 * p, NEW c, c \in Whole => p % 100 = 0
  PROVE  Buying!Rounded(x, c) \in Nat /\ Buying!Rounded(x, c) > 0 /\ Buying!Rounded(x, c) <= p
<1>1. CASE c \in Whole
  <2>1. (x \div 10000) * 100 \in Nat /\ (x \div 10000) * 100 <= p /\ p >= 100
    BY <1>1
  <2>. QED
    BY <1>1, <2>1, MaxOfTwo DEF Buying!Rounded
<1>2. CASE c \notin Whole
  <2> DEFINE r == x \div 100 + (IF x % 100 > 50 \/ (x % 100 = 50 /\ (x \div 100) % 2 = 1)
                                THEN 1 ELSE 0)
  <2>1. r \in Nat /\ r <= p
    OBVIOUS
  <2>2. Buying!Rounded(x, c) = Buying!Max({1, r})
    BY <1>2 DEF Buying!Rounded
  <2> HIDE DEF r
  <2>. QED
    BY <2>1, <2>2, MaxOfTwo
<1>. QED
  BY <1>1, <1>2

\* A larger percentage leaves less of a price.
LEMMA LessIsLeft ==
  ASSUME NEW p \in Nat, NEW a \in 0 .. 100, NEW b \in 0 .. 100, a <= b
  PROVE  p * (100 - b) \in Nat /\ p * (100 - b) <= p * (100 - a) /\ p * (100 - a) <= 100 * p
<1>1. \A k, l \in Nat : k <= l => p * k <= p * l /\ p * k \in Nat
  OBVIOUS
<1>2. 100 - b \in Nat /\ 100 - a \in Nat /\ 100 \in Nat /\ 100 - b <= 100 - a /\ 100 - a <= 100
  OBVIOUS
<1>. QED
  BY <1>1, <1>2

\* The amount of an order: free for nothing or a hundred percent, never above the price,
\* and less for a larger discount.
LEMMA CostIsFair ==
  ASSUME NEW p \in Nat, NEW c, c \in Whole => p % 100 = 0,
         NEW a \in 0 .. 100, NEW b \in 0 .. 100, a <= b
  PROVE  /\ Buying!Cost(p, c, a) \in Nat /\ Buying!Cost(p, c, a) <= p
         /\ Buying!Cost(p, c, a) = 0 <=> a = 100 \/ p = 0
         /\ Buying!Cost(p, c, b) <= Buying!Cost(p, c, a)
<1>1. CASE p = 0 \/ a = 100
  BY <1>1 DEF Buying!Cost
<1>2. CASE p > 0 /\ a < 100
  <2> DEFINE x == p * (100 - a)
             y == p * (100 - b)
  <2>1. x \in Nat /\ y \in Nat /\ y <= x /\ x <= 100 * p
    BY LessIsLeft
  <2>2. Buying!Cost(p, c, a) = Buying!Rounded(x, c)
          /\ Buying!Cost(p, c, b) \in {0, Buying!Rounded(y, c)}
    BY <1>2 DEF Buying!Cost
  <2> HIDE DEF x, y
  <2>3. /\ Buying!Rounded(x, c) \in Nat /\ Buying!Rounded(x, c) > 0 /\ Buying!Rounded(x, c) <= p
        /\ Buying!Rounded(y, c) <= Buying!Rounded(x, c)
    BY <1>2, <2>1, RoundedIsBounded, RoundedIsMonotone
  <2>. QED
    BY <1>2, <2>2, <2>3
<1>. QED
  BY <1>1, <1>2

-----------------------------------------------------------------------------
\* A dialog begins with nothing chosen.
LEMMA FreshIsDialog ==
  ASSUME NEW state \in Buying!State
  PROVE  /\ Buying!Fresh(state) \in Buying!Dialog /\ Buying!Fresh(state).state = state
         /\ Buying!Fresh(state).cache = {}
  BY DEF Buying!Fresh, Buying!Dialog

\* Nothing is ordered, nothing chosen.
LEMMA InitOrders == Buying!ConstantsAssumption /\ Buying!Init => OrderInv
<1> SUFFICES ASSUME Buying!ConstantsAssumption, Buying!Init PROVE OrderInv
  OBVIOUS
<1>1. PICK start \in Starts : /\ catalog = start.catalog /\ active = start.active
                              /\ discount = start.discount /\ owned = start.owned
  BY DEF Buying!Init
<1>2. /\ catalog \in [PlanId -> Content \cup {None}] /\ active \in Methods
      /\ discount \in [personal : Nat, purchase : Nat] /\ owned \in Buying!Owned \cup {None}
  BY <1>1 DEF Buying!ConstantsAssumption, Buying!Owned
<1>3. "MAIN" \in Buying!State
  BY DEF Buying!State
<1>4. dialog \in Buying!Dialog /\ dialog.state = "MAIN" /\ dialog.cache = {}
  BY <1>3, FreshIsDialog DEF Buying!Init
<1>5. orders \in Seq(Buying!Order) /\ Len(orders) = 0 /\ DOMAIN orders = {} /\ revised = 0
  BY DEF Buying!Init
<1>6. MaxOrders \in Nat /\ MaxEdits \in Nat
  BY DEF Buying!ConstantsAssumption
<1>7. Buying!TypeOK
  BY <1>2, <1>4, <1>5, <1>6 DEF Buying!TypeOK
<1>. QED
  BY <1>4, <1>5, <1>7 DEF OrderInv, HasChosen, KeptBacks, ShownBacks

\* A plan's shortest duration is one of its durations.
LEMMA FirstIsOne ==
  ASSUME Buying!ConstantsAssumption, NEW p \in Content
  PROVE  Buying!FirstDays(p) \in DOMAIN p.price
  BY MinIsIn DEF Buying!ConstantsAssumption, Buying!FirstDays

\* The discount is a percentage.
LEMMA PercentIsOne ==
  ASSUME Buying!ConstantsAssumption, Buying!TypeOK, NEW p \in Content
  PROVE  Buying!Percent(p) \in 0 .. 100
<1>1. discount.personal \in Nat /\ discount.purchase \in Nat
  BY DEF Buying!TypeOK
<1>2. PICK m \in Nat : Buying!Max({discount.personal, discount.purchase}) = m
  BY <1>1, MaxOfTwo
<1>3. Buying!Min({m, 100}) \in 0 .. 100
  <2>1. Buying!Min({m, 100}) = IF m <= 100 THEN m ELSE 100
    BY MinOfTwo
  <2>. QED
    BY <2>1
<1>4. Buying!Effective \in 0 .. 100
  BY <1>2, <1>3 DEF Buying!Effective
<1>. QED
  BY <1>4 DEF Buying!Percent

\* A price, where there is one, is a number, a whole one in a currency without cents.
LEMMA PriceIsPrice ==
  ASSUME Buying!ConstantsAssumption, NEW p \in Content, NEW d \in DOMAIN p.price,
         NEW g \in Method,
         p.price[d][CurrencyOf[g]] # None
  PROVE  /\ p.price[d][CurrencyOf[g]] \in Nat
         /\ CurrencyOf[g] \in Whole => p.price[d][CurrencyOf[g]] % 100 = 0
<1>1. CurrencyOf[g] \in Currency
  BY DEF Buying!ConstantsAssumption
<1>. QED
  BY <1>1 DEF Buying!ConstantsAssumption

\* The amount of an order is a number.
LEMMA CostIsNat ==
  ASSUME Buying!ConstantsAssumption, NEW p \in Content, NEW d \in DOMAIN p.price,
         NEW g \in Method,
         NEW percent \in 0 .. 100
  PROVE  Buying!CostOf(p, d, CurrencyOf[g], percent) \in Nat
<1>1. CASE p.price[d][CurrencyOf[g]] = None
  BY <1>1 DEF Buying!CostOf
<1>2. CASE p.price[d][CurrencyOf[g]] # None
  <2>c. PICK c : c = CurrencyOf[g]
    OBVIOUS
  <2>1. PICK v \in Nat : v = p.price[d][c] /\ (c \in Whole => v % 100 = 0)
    BY <1>2, <2>c, PriceIsPrice
  <2>2. Buying!Cost(v, c, percent) \in Nat
    <3>1. percent <= percent
      OBVIOUS
    <3>. QED
      BY <2>1, <3>1, CostIsFair
  <2>. QED
    BY <1>2, <2>c, <2>1, <2>2 DEF Buying!CostOf
<1>. QED
  BY <1>1, <1>2

\* Orders that go on as they were made, whatever became of their payment.
Goes(all, next) ==
  /\ DOMAIN all \subseteq DOMAIN next
  /\ \A i \in DOMAIN all :
       /\ next[i].plan = all[i].plan /\ next[i].days = all[i].days
       /\ next[i].gateway = all[i].gateway /\ next[i].type = all[i].type
       /\ next[i].final = all[i].final

\* What backs a choice goes on backing it.
LEMMA BacksOn ==
  ASSUME NEW all, NEW next, Goes(all, next), NEW p, NEW copy, NEW days, NEW g, NEW type,
         Backs(all, p, copy, days, g, type)
  PROVE  Backs(next, p, copy, days, g, type)
  BY DEF Goes, Backs

\* So do the payments kept,
LEMMA KeptBacksOn ==
  ASSUME NEW all, NEW next, Goes(all, next), NEW d, KeptBacks(d, all) PROVE KeptBacks(d, next)
  BY BacksOn DEF KeptBacks

\* ... and the one shown.
LEMMA ShownBacksOn ==
  ASSUME NEW all, NEW next, Goes(all, next), NEW d, ShownBacks(d, all) PROVE ShownBacks(d, next)
  BY BacksOn DEF ShownBacks

\* What CreatePayment makes of a choice that has a price.
LEMMA CreateFacts ==
  ASSUME Buying!ConstantsAssumption, OrderInv, NEW copy \in Buying!Copy,
         NEW days \in DOMAIN copy.content.price,
         NEW g \in Method, NEW type \in Buying!Type, Buying!CanCreate(copy, days, g),
         Len(Buying!Create(copy, days, g, type).orders) <= MaxOrders
  PROVE  LET made == Buying!Create(copy, days, g, type) IN
         /\ made.orders \in Seq(Buying!Order) /\ made.payment \in Buying!Paying
         /\ Goes(orders, made.orders)
         /\ Backs(made.orders, made.payment, copy, days, g, type)
         /\ \A i \in DOMAIN made.orders : Fair(made.orders[i])
<1> DEFINE percent == Buying!Percent(copy.content)
           final == Buying!CostOf(copy.content, days, CurrencyOf[g], percent)
           old == Buying!Reusable(copy.id, days, g)
           order == [plan |-> copy, days |-> days, gateway |-> g, type |-> type,
                     percent |-> percent, final |-> final, status |-> "PENDING",
                     recent |-> TRUE]
           made == Buying!Create(copy, days, g, type)
<1>1. copy.content \in Content /\ days \in Buying!Days
  BY DEF Buying!Copy, Buying!Days
<1>2. percent \in 0 .. 100 /\ final \in Nat
  BY <1>1, PercentIsOne, CostIsNat DEF OrderInv
<1>3. orders \in Seq(Buying!Order) /\ Len(orders) \in Nat /\ DOMAIN orders = 1 .. Len(orders)
  BY DEF OrderInv, Buying!TypeOK
<1>4. order \in Buying!Order
  BY <1>1, <1>2 DEF Buying!Order
<1>5. Fair(order)
  BY DEF Fair, Buying!CanCreate
<1>6. CASE final = 0 /\ old # {}
  <2>1. made = [orders |-> orders,
                payment |-> [order |-> Buying!Max(old), final |-> 0, url |-> FALSE]]
    BY <1>6 DEF Buying!Create
  <2>2. Buying!Max(old) \in old /\ old \subseteq DOMAIN orders
    BY <1>3, <1>6, MaxIsIn DEF Buying!Reusable
  <2>3. /\ orders[Buying!Max(old)].plan.id = copy.id /\ orders[Buying!Max(old)].days = days
        /\ orders[Buying!Max(old)].gateway = g
    BY <2>2 DEF Buying!Reusable, Buying!Alike
  <2>4. Buying!Max(old) \in 1 .. MaxOrders
    BY <1>3, <2>2 DEF OrderInv, Buying!TypeOK, Buying!ConstantsAssumption
  <2> HIDE DEF made, old
  <2>5. made.payment \in Buying!Paying
    BY <2>1, <2>4 DEF Buying!Paying
  <2>6. Goes(orders, made.orders)
    BY <2>1 DEF Goes
  <2>7. Backs(made.orders, made.payment, copy, days, g, type)
    BY <2>1, <2>2, <2>3 DEF Backs
  <2>. QED
    BY <1>3, <2>1, <2>5, <2>6, <2>7 DEF OrderInv, made
<1>7. CASE ~(final = 0 /\ old # {})
  <2> DEFINE n == Len(orders) + 1
  <2>1. made = [orders |-> Append(orders, order),
                payment |-> [order |-> n, final |-> final, url |-> final > 0]]
    BY <1>7 DEF Buying!Create
  <2> HIDE DEF made, order, final, percent, old
  <2>2. /\ made.orders \in Seq(Buying!Order) /\ DOMAIN made.orders = 1 .. n
        /\ Len(made.orders) = n
        /\ \A i \in 1 .. Len(orders) : made.orders[i] = orders[i]
        /\ made.orders[n] = order
    BY <1>3, <1>4, <2>1
  <2>3. made.payment \in Buying!Paying
    <3>1. n \in 1 .. MaxOrders
      BY <1>3, <2>2 DEF made, Buying!ConstantsAssumption
    <3>. QED
      BY <1>2, <2>1, <3>1 DEF Buying!Paying
  <2>4. Goes(orders, made.orders)
    BY <1>3, <2>2 DEF Goes
  <2>5. Backs(made.orders, made.payment, copy, days, g, type)
    <3>1. /\ order.plan = copy /\ order.days = days /\ order.gateway = g
          /\ order.type = type /\ order.final = final
      BY DEF order
    <3>2. made.payment.order = n /\ made.payment.final = final /\ n \in DOMAIN made.orders
      BY <1>3, <2>1, <2>2
    <3>. QED
      BY <2>2, <3>1, <3>2 DEF Backs
  <2>6. \A i \in DOMAIN made.orders : Fair(made.orders[i])
    BY <1>3, <1>5, <2>2 DEF OrderInv
  <2>. QED
    BY <2>2, <2>3, <2>4, <2>5, <2>6 DEF made
<1>. QED
  BY <1>6, <1>7

\* A window that asks for no payment.
LEMMA ShownKeeps ==
  ASSUME OrderInv, NEW d \in Buying!Dialog, HasChosen(d), KeptBacks(d, orders),
         d.state # "CONFIRM",
         Buying!Shown(d), Buying!Rest
  PROVE  OrderInv'
<1>1. Buying!TypeOK'
  BY DEF OrderInv, Buying!TypeOK, Buying!Shown
<1>. QED
  BY <1>1 DEF OrderInv, Buying!Shown, ShownBacks, HasChosen, KeptBacks, Backs, Fair

\* A payment for what was chosen, kept from before or made.
LEMMA PaymentKeeps ==
  ASSUME Buying!ConstantsAssumption, OrderInv, NEW d \in Buying!Dialog, NEW g \in Method,
         d.plan \in Buying!Copy, d.type \in Buying!Type, d.days \in DOMAIN d.plan.content.price,
         KeptBacks(d, orders), Buying!PaymentChosen(d, g), Buying!Rest
  PROVE  OrderInv'
<1> DEFINE old == {c \in d.cache : c.type = d.type /\ c.days = d.days /\ c.gateway = g}
           made == Buying!Create(d.plan, d.days, g, d.type)
           chosen == [d EXCEPT !.method = g, !.state = "CONFIRM"]
           cached == [type |-> d.type, days |-> d.days, gateway |-> g, payment |-> made.payment]
<1>1. d.cache \subseteq Buying!Cached /\ d.days \in Buying!Days
  BY DEF Buying!Dialog, Buying!Days, Buying!Copy
<1>2. CASE old # {}
  <2>1. Buying!The(old) \in old
    BY <1>2 DEF Buying!The
  <2>2. PICK c \in d.cache : /\ c = Buying!The(old) /\ c.type = d.type /\ c.days = d.days
                             /\ c.gateway = g
    BY <2>1
  <2>3. dialog' = [chosen EXCEPT !.payment = c.payment] /\ UNCHANGED orders
    BY <1>2, <2>2 DEF Buying!PaymentChosen, Buying!Shown
  <2>4. c.payment \in Buying!Paying
    BY <1>1 DEF Buying!Cached
  <2> HIDE DEF old
  <2>5. /\ dialog' \in Buying!Dialog /\ dialog'.state = "CONFIRM" /\ dialog'.plan = d.plan
        /\ dialog'.type = d.type /\ dialog'.days = d.days /\ dialog'.method = g
        /\ dialog'.payment = c.payment /\ dialog'.cache = d.cache
    BY <2>3, <2>4 DEF Buying!Dialog, Buying!State
  <2>6. Buying!TypeOK'
    BY <2>3, <2>5 DEF OrderInv, Buying!TypeOK
  <2>7. HasChosen(dialog)' /\ KeptBacks(dialog, orders)'
    BY <2>3, <2>5 DEF HasChosen, KeptBacks, Backs
  <2>8. ShownBacks(dialog, orders)'
    BY <2>2, <2>3, <2>5 DEF KeptBacks, ShownBacks, Backs
  <2>. QED
    BY <2>3, <2>6, <2>7, <2>8 DEF OrderInv, Fair
<1>3. CASE old = {}
  <2>1. /\ Buying!CanCreate(d.plan, d.days, g) /\ Len(made.orders) <= MaxOrders
        /\ orders' = made.orders
        /\ dialog' = [chosen EXCEPT !.payment = made.payment, !.cache = d.cache \cup {cached}]
    BY <1>3 DEF Buying!PaymentChosen
  <2>2. /\ made.orders \in Seq(Buying!Order) /\ made.payment \in Buying!Paying
        /\ Goes(orders, made.orders)
        /\ Backs(made.orders, made.payment, d.plan, d.days, g, d.type)
        /\ \A i \in DOMAIN made.orders : Fair(made.orders[i])
    BY <2>1, CreateFacts
  <2> HIDE DEF made, old
  <2>3. cached \in Buying!Cached
    BY <1>1, <2>2 DEF Buying!Cached
  <2>4. /\ dialog' \in Buying!Dialog /\ dialog'.state = "CONFIRM" /\ dialog'.plan = d.plan
        /\ dialog'.type = d.type /\ dialog'.days = d.days /\ dialog'.method = g
        /\ dialog'.payment = made.payment /\ dialog'.cache = d.cache \cup {cached}
    <3> HIDE DEF cached
    <3>. QED
      BY <1>1, <2>1, <2>2, <2>3 DEF Buying!Dialog, Buying!State
  <2>5. Buying!TypeOK'
    BY <2>1, <2>2, <2>4 DEF OrderInv, Buying!TypeOK
  <2>6. HasChosen(dialog)' /\ ShownBacks(dialog, orders)'
    BY <2>1, <2>2, <2>4 DEF HasChosen, ShownBacks, Backs
  <2>7. KeptBacks(d, made.orders)
    BY <2>2, KeptBacksOn
  <2>8. KeptBacks(dialog, orders)'
    BY <2>1, <2>2, <2>4, <2>7 DEF KeptBacks, Backs
  <2>. QED
    BY <2>1, <2>2, <2>5, <2>6, <2>8 DEF OrderInv, Fair
<1>. QED
  BY <1>2, <1>3

\* A duration that has a price, and the payment when nothing else is to be chosen.
LEMMA DurationKeeps ==
  ASSUME Buying!ConstantsAssumption, OrderInv, NEW d \in Buying!Dialog, d.plan \in Buying!Copy,
         d.type \in Buying!Type,
         NEW days \in DOMAIN d.plan.content.price, KeptBacks(d, orders),
         Buying!DurationChosen(d, days), Buying!Rest
  PROVE  OrderInv'
<1>1. PICK b \in BOOLEAN : LET chosen == [d EXCEPT !.days = days, !.free = b] IN
        \/ active # <<>> /\ Buying!PaymentChosen(chosen, active[1])
        \/ Buying!Shown([chosen EXCEPT !.method = None, !.state = "PAYMENT_METHOD"])
  <2>1. (Buying!Cost(d.plan.content.price[days][Default], Default, Buying!Effective) = 0)
          \in BOOLEAN
    OBVIOUS
  <2>. QED
    BY <2>1 DEF Buying!DurationChosen
<1> DEFINE chosen == [d EXCEPT !.days = days, !.free = b]
<1>2. days \in Buying!Days
  BY DEF Buying!Days, Buying!Copy
<1>3. /\ chosen \in Buying!Dialog /\ chosen.plan = d.plan /\ chosen.type = d.type
      /\ chosen.days = days
      /\ chosen.cache = d.cache /\ chosen.state = d.state
  BY <1>2 DEF Buying!Dialog
<1> HIDE DEF chosen
<1>4. KeptBacks(chosen, orders)
  BY <1>3 DEF KeptBacks
<1>5. CASE active # <<>> /\ Buying!PaymentChosen(chosen, active[1])
  <2>1. active[1] \in Method
    BY <1>5 DEF OrderInv, Buying!TypeOK, Buying!ConstantsAssumption
  <2>. QED
    BY <1>3, <1>4, <1>5, <2>1, PaymentKeeps
<1>6. CASE Buying!Shown([chosen EXCEPT !.method = None, !.state = "PAYMENT_METHOD"])
  <2>1. PICK e : e = [chosen EXCEPT !.method = None, !.state = "PAYMENT_METHOD"]
    OBVIOUS
  <2>2. /\ e \in Buying!Dialog /\ e.plan = d.plan /\ e.type = d.type /\ e.days = days
        /\ e.cache = d.cache /\ e.state = "PAYMENT_METHOD"
    BY <1>3, <2>1 DEF Buying!Dialog, Buying!State
  <2>3. HasChosen(e) /\ KeptBacks(e, orders)
    BY <1>4, <2>2 DEF HasChosen, KeptBacks
  <2>. QED
    BY <1>6, <2>1, <2>2, <2>3, ShownKeeps
<1>. QED
  BY <1>1, <1>5, <1>6 DEF chosen

\* A dialog that begins anew.
LEMMA FreshKeeps ==
  ASSUME OrderInv, NEW state \in Buying!State \ {"PLAN", "PLANS", "DURATION", "PAYMENT_METHOD",
         "CONFIRM"},
         Buying!Shown(Buying!Fresh(state)), Buying!Rest
  PROVE  OrderInv'
<1>1. HasChosen(Buying!Fresh(state)) /\ KeptBacks(Buying!Fresh(state), orders)
        /\ Buying!Fresh(state).state # "CONFIRM"
  BY FreshIsDialog DEF HasChosen, KeptBacks
<1>. QED
  BY <1>1, FreshIsDialog, ShownKeeps

\* A link's plan is yet to be chosen.
LEMMA OpenPlanKeeps ==
  ASSUME Buying!ConstantsAssumption, OrderInv, NEW id \in PlanId, Buying!OpenPlan(id)
  PROVE  OrderInv'
<1>1. PICK type \in Buying!Type :
        Buying!Shown([Buying!Fresh("PLAN") EXCEPT !.start = id, !.onlyPlan = TRUE,
                                                       !.type = type])
  BY DEF Buying!OpenPlan, Buying!Type
<1>2. PICK d : d = [Buying!Fresh("PLAN") EXCEPT !.start = id, !.onlyPlan = TRUE, !.type = type]
  OBVIOUS
<1>3. d \in Buying!Dialog /\ d.state = "PLAN" /\ d.type = type /\ d.cache = {}
  BY <1>2 DEF Buying!Fresh, Buying!Dialog, Buying!State
<1>4. HasChosen(d) /\ KeptBacks(d, orders)
  BY <1>3 DEF HasChosen, KeptBacks
<1>. QED
  BY <1>1, <1>2, <1>3, <1>4, ShownKeeps DEF Buying!OpenPlan

\* A trial comes with its plan and its duration.
LEMMA OpenTrialKeeps ==
  ASSUME Buying!ConstantsAssumption, OrderInv, NEW id \in PlanId, Buying!OpenTrial(id)
  PROVE  OrderInv'
<1>1. PICK copy, days : copy = Buying!CopyOf(id) /\ days = Buying!FirstDays(catalog[id])
  OBVIOUS
<1>2. catalog[id] \in Content
  BY DEF Buying!OpenTrial, Buying!TrialOffered, OrderInv, Buying!TypeOK
<1>3. copy \in Buying!Copy /\ copy.content = catalog[id] /\ days \in DOMAIN copy.content.price
  BY <1>1, <1>2, FirstIsOne DEF Buying!CopyOf, Buying!Copy
<1>4. PICK d : d = [Buying!Fresh("PAYMENT_METHOD") EXCEPT !.plan = copy, !.type = "NEW",
                      !.days = days, !.onlyPlan = TRUE, !.onlyDays = TRUE]
  OBVIOUS
<1>5. days \in Buying!Days
  BY <1>2, <1>3 DEF Buying!Days
<1>6. /\ d \in Buying!Dialog /\ d.state = "PAYMENT_METHOD" /\ d.type = "NEW" /\ d.cache = {}
      /\ d.plan = copy /\ d.days = days
  BY <1>3, <1>4, <1>5 DEF Buying!Fresh, Buying!Dialog, Buying!State, Buying!Type
<1>7. HasChosen(d) /\ KeptBacks(d, orders)
  BY <1>3, <1>6 DEF HasChosen, KeptBacks, Buying!Type
<1>. QED
  BY <1>1, <1>4, <1>6, <1>7, ShownKeeps DEF Buying!OpenTrial

\* The choice of a type forgets the payments.
LEMMA ChosenIsDialog ==
  ASSUME Buying!ConstantsAssumption, OrderInv, NEW type \in Buying!Type, Buying!TypeShown(type)
  PROVE  /\ Buying!Chosen(type) \in Buying!Dialog /\ Buying!Chosen(type).type = type
    /\ Buying!Chosen(type).cache = {}
         /\ Buying!Chosen(type).state = "MAIN"
  BY DEF OrderInv, Buying!TypeOK, Buying!Chosen, Buying!Dialog, Buying!TypeShown

\* A type leaves the plan to be chosen, or the menu as it was.
LEMMA SelectTypeKeeps ==
  ASSUME Buying!ConstantsAssumption, OrderInv, NEW type \in Buying!Type, Buying!SelectType(type)
  PROVE  OrderInv'
<1>1. PICK c : c = Buying!Chosen(type)
  OBVIOUS
<1>2. c \in Buying!Dialog /\ c.type = type /\ c.cache = {} /\ c.state = "MAIN"
  BY <1>1, ChosenIsDialog DEF Buying!SelectType
<1>3. CASE Buying!Shown(c)
  <2>1. HasChosen(c) /\ KeptBacks(c, orders)
    BY <1>2 DEF HasChosen, KeptBacks
  <2>. QED
    BY <1>2, <1>3, <2>1, ShownKeeps DEF Buying!SelectType
<1>4. CASE Buying!Shown([c EXCEPT !.state = "PLANS", !.onlyPlan = FALSE, !.onlyDays = FALSE])
  <2>1. PICK d : d = [c EXCEPT !.state = "PLANS", !.onlyPlan = FALSE, !.onlyDays = FALSE]
    OBVIOUS
  <2>2. d \in Buying!Dialog /\ d.state = "PLANS" /\ d.type = type /\ d.cache = {}
    BY <1>2, <2>1 DEF Buying!Dialog, Buying!State
  <2>3. HasChosen(d) /\ KeptBacks(d, orders)
    BY <2>2 DEF HasChosen, KeptBacks
  <2>. QED
    BY <1>4, <2>1, <2>2, <2>3, ShownKeeps DEF Buying!SelectType
<1>. QED
  BY <1>1, <1>3, <1>4 DEF Buying!SelectType

\* A single plan is taken as it is now, and paid for if nothing else is to be chosen.
LEMMA SelectTypeAutoKeeps ==
  ASSUME Buying!ConstantsAssumption, OrderInv, NEW type \in Buying!Type,
         Buying!SelectTypeAuto(type)
  PROVE  OrderInv'
<1>1. PICK c, id, copy, days :
        c = Buying!Chosen(type) /\ id = Buying!The(Buying!Resolved(type))
          /\ copy = Buying!CopyOf(id)
        /\ days = Buying!FirstDays(copy.content)
  OBVIOUS
<1>2. c \in Buying!Dialog /\ c.type = type /\ c.cache = {} /\ c.state = "MAIN"
  BY <1>1, ChosenIsDialog DEF Buying!SelectTypeAuto
<1>3. id \in Buying!Offered
  <2>1. id \in Buying!Resolved(type)
    BY <1>1 DEF Buying!SelectTypeAuto, Buying!The
  <2>. QED
    BY <2>1 DEF Buying!Resolved
<1>4. /\ copy \in Buying!Copy /\ copy.content \in Content /\ days \in DOMAIN copy.content.price
      /\ days \in Buying!Days
  <2>1. id \in PlanId /\ catalog[id] \in Content
    BY <1>3 DEF Buying!Offered, OrderInv, Buying!TypeOK
  <2>2. copy \in Buying!Copy /\ copy.content = catalog[id]
    BY <1>1, <2>1 DEF Buying!CopyOf, Buying!Copy
  <2>. QED
    BY <1>1, <2>1, <2>2, FirstIsOne DEF Buying!Days
<1>5. PICK one : one = [c EXCEPT !.plan = copy, !.onlyPlan = TRUE]
  OBVIOUS
<1>6. one \in Buying!Dialog /\ one.type = type /\ one.cache = {} /\ one.plan = copy
  BY <1>2, <1>4, <1>5 DEF Buying!Dialog
<1>7. PICK auto : auto = [one EXCEPT !.days = days, !.onlyDays = TRUE]
  OBVIOUS
<1>8. auto \in Buying!Dialog /\ auto.type = type /\ auto.cache = {} /\ auto.plan = copy
        /\ auto.days = days
  BY <1>4, <1>6, <1>7 DEF Buying!Dialog
<1>9. PICK made : made = Buying!Create(copy, days, active[1], type)
  OBVIOUS
<1>10. \/ Buying!Shown(Buying!Enter(one, "DURATION"))
       \/ Buying!Shown([auto EXCEPT !.state = "PAYMENT_METHOD"])
       \/ /\ Buying!CanCreate(copy, days, active[1]) /\ Len(made.orders) <= MaxOrders
          /\ orders' = made.orders
          /\ dialog' = [auto EXCEPT !.state = "CONFIRM", !.method = active[1],
                                    !.payment = made.payment]
  BY <1>1, <1>5, <1>7, <1>9 DEF Buying!SelectTypeAuto
<1>11. CASE Buying!Shown(Buying!Enter(one, "DURATION"))
  <2>1. PICK d : d = Buying!Enter(one, "DURATION")
    OBVIOUS
  <2>2. d \in Buying!Dialog /\ d.state = "DURATION" /\ d.type = type /\ d.cache = {}
          /\ d.plan = copy
    BY <1>6, <2>1 DEF Buying!Enter, Buying!Dialog, Buying!State
  <2>3. HasChosen(d) /\ KeptBacks(d, orders)
    BY <1>4, <2>2 DEF HasChosen, KeptBacks
  <2>. QED
    BY <1>11, <2>1, <2>2, <2>3, ShownKeeps DEF Buying!SelectTypeAuto
<1>12. CASE Buying!Shown([auto EXCEPT !.state = "PAYMENT_METHOD"])
  <2>1. PICK d : d = [auto EXCEPT !.state = "PAYMENT_METHOD"]
    OBVIOUS
  <2>2. /\ d \in Buying!Dialog /\ d.state = "PAYMENT_METHOD" /\ d.type = type /\ d.cache = {}
        /\ d.plan = copy /\ d.days = days
    BY <1>8, <2>1 DEF Buying!Dialog, Buying!State
  <2>3. HasChosen(d) /\ KeptBacks(d, orders)
    BY <1>4, <2>2 DEF HasChosen, KeptBacks
  <2>. QED
    BY <1>12, <2>1, <2>2, <2>3, ShownKeeps DEF Buying!SelectTypeAuto
<1>13. CASE /\ Buying!CanCreate(copy, days, active[1]) /\ Len(made.orders) <= MaxOrders
            /\ orders' = made.orders
            /\ dialog' = [auto EXCEPT !.state = "CONFIRM", !.method = active[1],
                                      !.payment = made.payment]
  <2>1. active[1] \in Method
    <3>1. active \in Seq(Method) /\ active # <<>>
      BY DEF Buying!SelectTypeAuto, Buying!Unavailable, OrderInv, Buying!TypeOK,
         Buying!ConstantsAssumption
    <3>. QED
      BY <3>1
  <2>2. /\ made.orders \in Seq(Buying!Order) /\ made.payment \in Buying!Paying
        /\ Backs(made.orders, made.payment, copy, days, active[1], type)
        /\ \A i \in DOMAIN made.orders : Fair(made.orders[i])
    BY <1>4, <1>9, <1>13, <2>1, CreateFacts
  <2>3. /\ dialog' \in Buying!Dialog /\ dialog'.state = "CONFIRM" /\ dialog'.plan = copy
        /\ dialog'.type = type /\ dialog'.days = days /\ dialog'.method = active[1]
        /\ dialog'.payment = made.payment /\ dialog'.cache = {}
    BY <1>8, <1>13, <2>1, <2>2 DEF Buying!Dialog, Buying!State
  <2>4. Buying!TypeOK'
    BY <1>13, <2>2, <2>3 DEF OrderInv, Buying!TypeOK, Buying!SelectTypeAuto
  <2>5. HasChosen(dialog)' /\ ShownBacks(dialog, orders)' /\ KeptBacks(dialog, orders)'
    BY <1>4, <1>13, <2>2, <2>3 DEF HasChosen, ShownBacks, KeptBacks, Backs
  <2>6. \A i \in DOMAIN orders' : Fair(orders[i])'
    BY <1>13, <2>2 DEF Fair, Buying!SelectTypeAuto
  <2>. QED
    BY <2>4, <2>5, <2>6 DEF OrderInv
<1>. QED
  BY <1>10, <1>11, <1>12, <1>13

\* A plan that was read again, without a payment yet.
LEMMA SelectPlanKeeps ==
  ASSUME Buying!ConstantsAssumption, OrderInv, NEW id \in PlanId, Buying!SelectPlan(id)
  PROVE  OrderInv'
<1>1. CASE catalog[id] = None
  <2>1. Buying!Shown(Buying!Fresh("MAIN")) /\ "MAIN" \in Buying!State
    BY <1>1 DEF Buying!SelectPlan, Buying!State
  <2>. QED
    BY <2>1, FreshKeeps DEF Buying!SelectPlan
<1>2. CASE catalog[id] # None
  <2>1. PICK copy, b : copy = Buying!CopyOf(id)
          /\ b = (Buying!Cardinality(DOMAIN catalog[id].price) = 1)
    OBVIOUS
  <2>2. catalog[id] \in Content /\ copy \in Buying!Copy /\ copy.content = catalog[id]
    BY <1>2, <2>1 DEF OrderInv, Buying!TypeOK, Buying!CopyOf, Buying!Copy
  <2>3. PICK d : d = [dialog EXCEPT !.plan = copy, !.days = None, !.method = None,
                                    !.cache = {}, !.onlyDays = b]
    OBVIOUS
  <2>4. b \in BOOLEAN /\ dialog.type \in Buying!Type
    BY <2>1 DEF Buying!SelectPlan, OrderInv, HasChosen
  <2>5. d \in Buying!Dialog /\ d.type = dialog.type /\ d.cache = {} /\ d.plan = copy
    BY <2>2, <2>3, <2>4 DEF OrderInv, Buying!TypeOK, Buying!Dialog
  <2>6. KeptBacks(d, orders)
    BY <2>5 DEF KeptBacks
  <2>7. \/ Buying!DurationChosen(d, Buying!FirstDays(catalog[id]))
        \/ Buying!Shown(Buying!Enter(d, "DURATION"))
    <3>1. d = [dialog EXCEPT !.plan = Buying!CopyOf(id), !.days = None, !.method = None,
                             !.cache = {},
                             !.onlyDays = Buying!Cardinality(DOMAIN catalog[id].price) = 1]
      BY <2>1, <2>3
    <3>2. IF d.onlyDays THEN Buying!DurationChosen(d, Buying!FirstDays(catalog[id]))
          ELSE Buying!Shown(Buying!Enter(d, "DURATION"))
      BY <1>2, <3>1 DEF Buying!SelectPlan
    <3>. QED
      BY <3>2
  <2>8. CASE Buying!DurationChosen(d, Buying!FirstDays(catalog[id]))
    BY <2>2, <2>4, <2>5, <2>6, <2>8, FirstIsOne, DurationKeeps DEF Buying!SelectPlan
  <2>9. CASE Buying!Shown(Buying!Enter(d, "DURATION"))
    <3>1. PICK e : e = Buying!Enter(d, "DURATION")
      OBVIOUS
    <3>2. e \in Buying!Dialog /\ e.state = "DURATION" /\ e.type = d.type /\ e.cache = {}
            /\ e.plan = copy
      BY <2>5, <3>1 DEF Buying!Enter, Buying!Dialog, Buying!State
    <3>3. HasChosen(e) /\ KeptBacks(e, orders)
      BY <2>2, <2>4, <2>5, <3>2 DEF HasChosen, KeptBacks
    <3>. QED
      BY <2>9, <3>1, <3>2, <3>3, ShownKeeps DEF Buying!SelectPlan
  <2>. QED
    BY <2>7, <2>8, <2>9
<1>. QED
  BY <1>1, <1>2

\* A duration is one of the copy's.
LEMMA SelectDurationKeeps ==
  ASSUME Buying!ConstantsAssumption, OrderInv, NEW days \in Buying!Days,
         Buying!SelectDuration(days)
  PROVE  OrderInv'
<1>1. dialog \in Buying!Dialog /\ dialog.plan \in Buying!Copy /\ dialog.type \in Buying!Type
        /\ KeptBacks(dialog, orders)
  BY DEF Buying!SelectDuration, OrderInv, Buying!TypeOK, HasChosen
<1>. QED
  BY <1>1, DurationKeeps DEF Buying!SelectDuration

\* A gateway makes or finds the payment.
LEMMA SelectMethodKeeps ==
  ASSUME Buying!ConstantsAssumption, OrderInv, NEW g \in Method, Buying!SelectMethod(g)
  PROVE  OrderInv'
<1>1. /\ dialog \in Buying!Dialog /\ dialog.plan \in Buying!Copy /\ dialog.type \in Buying!Type
      /\ KeptBacks(dialog, orders) /\ dialog.days \in DOMAIN dialog.plan.content.price
  BY DEF Buying!SelectMethod, OrderInv, Buying!TypeOK, HasChosen
<1>. QED
  BY <1>1, PaymentKeeps DEF Buying!SelectMethod

\* The windows back keep the choice, as far as it was made.
LEMMA BackKeeps ==
  ASSUME Buying!ConstantsAssumption, OrderInv, NEW state \in Buying!State, Buying!Back(state)
  PROVE  OrderInv'
<1>1. PICK d : d = Buying!Enter(dialog, state)
  OBVIOUS
<1>2. /\ dialog \in Buying!Dialog /\ HasChosen(dialog) /\ KeptBacks(dialog, orders)
  BY DEF OrderInv, Buying!TypeOK
<1>3. /\ d \in Buying!Dialog /\ d.state = state /\ d.type = dialog.type /\ d.cache = dialog.cache
      /\ d.plan = dialog.plan /\ d.days = dialog.days
  BY <1>1, <1>2 DEF Buying!Enter, Buying!Dialog
<1>4. HasChosen(d) /\ d.state # "CONFIRM"
  BY <1>2, <1>3 DEF HasChosen, Buying!Back
<1>5. KeptBacks(d, orders)
  BY <1>2, <1>3 DEF KeptBacks
<1>. QED
  BY <1>1, <1>3, <1>4, <1>5, ShownKeeps DEF Buying!Back

-----------------------------------------------------------------------------
\* Orders that grow and are paid stay what they were made.
LEMMA CompleteKeeps ==
  ASSUME Buying!ConstantsAssumption, OrderInv, NEW all \in Seq(Buying!Order),
         Len(all) <= MaxOrders,
         Goes(orders, all), \A k \in DOMAIN all : Fair(all[k]),
         NEW i \in DOMAIN all, Buying!Complete(all, i), dialog' \in {dialog,
         Buying!Fresh("SUCCESS")}
  PROVE  OrderInv'
<1>1. /\ orders' = [all EXCEPT ![i].status = "COMPLETED"]
      /\ owned' = [id |-> all[i].plan.id, spec |-> all[i].plan.content.spec]
      /\ discount' = [discount EXCEPT !.purchase = 0] /\ UNCHANGED <<catalog, active, revised>>
  BY DEF Buying!Complete
<1>2. all[i] \in Buying!Order /\ all[i].plan \in Buying!Copy /\ all[i].plan.content \in Content
  <2>1. all[i] \in Buying!Order
    OBVIOUS
  <2>2. all[i].plan \in Buying!Copy
    BY <2>1 DEF Buying!Order
  <2>. QED
    BY <2>1, <2>2 DEF Buying!Copy
<1>3. owned' \in Buying!Owned
  BY <1>1, <1>2 DEF Buying!Owned, Buying!Copy
<1>4. discount' \in [personal : Nat, purchase : Nat]
  BY <1>1 DEF OrderInv, Buying!TypeOK
<1>5. PICK o \in Buying!Order : /\ o = [all[i] EXCEPT !.status = "COMPLETED"]
                         /\ o.plan = all[i].plan /\ o.days = all[i].days
                         /\ o.gateway = all[i].gateway /\ o.type = all[i].type
                         /\ o.final = all[i].final /\ o.percent = all[i].percent
  <2>1. PICK a \in Buying!Order : a = all[i]
    BY <1>2
  <2>2. PICK o : o = [a EXCEPT !.status = "COMPLETED"]
    OBVIOUS
  <2>3. /\ o \in Buying!Order /\ o.plan = a.plan /\ o.days = a.days /\ o.gateway = a.gateway
        /\ o.type = a.type /\ o.final = a.final /\ o.percent = a.percent
    BY <2>2 DEF Buying!Order
  <2>. QED
    BY <2>1, <2>2, <2>3
<1>6. orders' = [all EXCEPT ![i] = o]
  BY <1>1, <1>5
<1>7. /\ orders' \in Seq(Buying!Order) /\ Len(orders') = Len(all) /\ DOMAIN orders' = DOMAIN all
      /\ \A k \in DOMAIN all : orders'[k] = IF k = i THEN o ELSE all[k]
  BY <1>6
<1>e. ASSUME NEW k \in DOMAIN all
      PROVE  /\ orders'[k].plan = all[k].plan /\ orders'[k].days = all[k].days
             /\ orders'[k].gateway = all[k].gateway /\ orders'[k].type = all[k].type
             /\ orders'[k].final = all[k].final /\ orders'[k].percent = all[k].percent
  <2>1. CASE k = i
    BY <1>5, <1>7, <2>1
  <2>2. CASE k # i
    BY <1>7, <2>2
  <2>. QED
    BY <2>1, <2>2
<1>8. Goes(all, orders') /\ Goes(orders, orders')
  <2>1. Goes(all, orders')
    BY <1>7, <1>e DEF Goes
  <2>. QED
    BY <2>1 DEF Goes
<1>9. ASSUME NEW k \in DOMAIN orders' PROVE Fair(orders'[k])
  <2>1. k \in DOMAIN all
    BY <1>7
  <2>2. Fair(all[k])
    BY <2>1
  <2>. QED
    BY <1>e, <2>1, <2>2 DEF Fair
<1>10. dialog' \in Buying!Dialog /\ HasChosen(dialog')
  <2>1. "SUCCESS" \in Buying!State
    BY DEF Buying!State
  <2>2. Buying!Fresh("SUCCESS") \in Buying!Dialog /\ HasChosen(Buying!Fresh("SUCCESS"))
    BY <2>1, FreshIsDialog DEF HasChosen
  <2>. QED
    BY <2>2 DEF OrderInv, Buying!TypeOK
<1>11. KeptBacks(dialog', orders') /\ ShownBacks(dialog', orders')
  <2>1. CASE dialog' = dialog
    BY <1>8, <2>1, KeptBacksOn, ShownBacksOn DEF OrderInv
  <2>2. CASE dialog' = Buying!Fresh("SUCCESS")
    <3>1. "SUCCESS" \in Buying!State
      BY DEF Buying!State
    <3>2. dialog'.cache = {} /\ dialog'.state = "SUCCESS"
      BY <2>2, <3>1, FreshIsDialog
    <3>. QED
      BY <3>2 DEF KeptBacks, ShownBacks
  <2>. QED
    BY <2>1, <2>2
<1>12. Buying!TypeOK'
  BY <1>1, <1>3, <1>4, <1>7, <1>10 DEF OrderInv, Buying!TypeOK
<1>13. HasChosen(dialog)' /\ KeptBacks(dialog, orders)' /\ ShownBacks(dialog, orders)'
  BY <1>10, <1>11 DEF HasChosen, KeptBacks, ShownBacks, Backs
<1>14. \A k \in DOMAIN orders' : Fair(orders[k])'
  BY <1>9 DEF Fair
<1>. QED
  BY <1>12, <1>13, <1>14 DEF OrderInv

\* Orders that nothing happened to.
LEMMA OrdersGo == Goes(orders, orders)
  BY DEF Goes

\* What is free is completed,
LEMMA GetKeeps == ASSUME Buying!ConstantsAssumption, OrderInv, Buying!Get PROVE OrderInv'
<1>1. dialog.payment.order \in DOMAIN orders
  BY DEF Buying!Get, OrderInv, ShownBacks, Backs
<1>2. /\ orders \in Seq(Buying!Order) /\ Len(orders) <= MaxOrders
      /\ \A k \in DOMAIN orders : Fair(orders[k])
  BY DEF OrderInv, Buying!TypeOK
<1>. QED
  BY <1>1, <1>2, OrdersGo, CompleteKeeps DEF Buying!Get

\* ... and what is paid.
LEMMA PaidKeeps ==
  ASSUME Buying!ConstantsAssumption, OrderInv, NEW i \in DOMAIN orders, Buying!Paid(i)
  PROVE  OrderInv'
<1>1. /\ orders \in Seq(Buying!Order) /\ Len(orders) <= MaxOrders
      /\ \A k \in DOMAIN orders : Fair(orders[k])
  BY DEF OrderInv, Buying!TypeOK
<1>. QED
  BY <1>1, OrdersGo, CompleteKeeps DEF Buying!Paid

\* An order of the web page.
LEMMA WebOrderKeeps ==
  ASSUME Buying!ConstantsAssumption, OrderInv, NEW id \in PlanId, NEW days \in Buying!Days,
         NEW g \in Method,
         NEW type \in Buying!Type, Buying!WebOrder(id, days, g, type)
  PROVE  OrderInv'
<1>1. PICK copy, made : copy = Buying!CopyOf(id) /\ made = Buying!Create(copy, days, g, type)
  OBVIOUS
<1>2. catalog[id] # None
  BY DEF Buying!WebOrder, Buying!Offered, Buying!TrialOffered
<1>3. copy \in Buying!Copy /\ copy.content = catalog[id] /\ days \in DOMAIN copy.content.price
  BY <1>1, <1>2 DEF OrderInv, Buying!TypeOK, Buying!CopyOf, Buying!Copy, Buying!WebOrder
<1>4. Buying!CanCreate(copy, days, g) /\ Len(made.orders) <= MaxOrders
  BY <1>1, <1>3 DEF Buying!WebOrder, Buying!CanCreate, Buying!Priced
<1>5. /\ made.orders \in Seq(Buying!Order) /\ made.payment \in Buying!Paying
      /\ Goes(orders, made.orders)
      /\ Backs(made.orders, made.payment, copy, days, g, type)
      /\ \A i \in DOMAIN made.orders : Fair(made.orders[i])
  BY <1>1, <1>3, <1>4, CreateFacts
<1>6. CASE made.payment.final = 0
  <2>1. Buying!Complete(made.orders, made.payment.order)
          /\ dialog' \in {dialog, Buying!Fresh("SUCCESS")}
    BY <1>1, <1>6 DEF Buying!WebOrder
  <2>2. made.payment.order \in DOMAIN made.orders
    BY <1>5 DEF Backs
  <2>. QED
    BY <1>4, <1>5, <2>1, <2>2, CompleteKeeps
<1>7. CASE made.payment.final # 0
  <2>1. orders' = made.orders /\ UNCHANGED dialog /\ Buying!Rest
    BY <1>1, <1>7 DEF Buying!WebOrder
  <2>2. Buying!TypeOK'
    BY <1>4, <1>5, <2>1 DEF OrderInv, Buying!TypeOK
  <2>3. KeptBacks(dialog, made.orders) /\ ShownBacks(dialog, made.orders)
    BY <1>5, KeptBacksOn, ShownBacksOn DEF OrderInv
  <2>4. HasChosen(dialog)' /\ KeptBacks(dialog, orders)' /\ ShownBacks(dialog, orders)'
    BY <2>1, <2>3 DEF OrderInv, HasChosen, KeptBacks, ShownBacks, Backs
  <2>5. \A i \in DOMAIN orders' : Fair(orders[i])'
    BY <1>5, <2>1 DEF Fair
  <2>. QED
    BY <2>2, <2>4, <2>5 DEF OrderInv
<1>. QED
  BY <1>6, <1>7

\* Orders that are no longer recent.
LEMMA AgeKeeps ==
  ASSUME Buying!ConstantsAssumption, OrderInv, NEW i \in DOMAIN orders, Buying!Age(i)
  PROVE  OrderInv'
<1>1. orders \in Seq(Buying!Order) /\ Len(orders) <= MaxOrders
  BY DEF OrderInv, Buying!TypeOK
<1>2. \A o \in Buying!Order : /\ [o EXCEPT !.recent = FALSE] \in Buying!Order
                       /\ [o EXCEPT !.recent = FALSE].plan = o.plan
                       /\ [o EXCEPT !.recent = FALSE].days = o.days
                       /\ [o EXCEPT !.recent = FALSE].gateway = o.gateway
                       /\ [o EXCEPT !.recent = FALSE].type = o.type
                       /\ [o EXCEPT !.recent = FALSE].final = o.final
                       /\ [o EXCEPT !.recent = FALSE].percent = o.percent
  BY DEF Buying!Order
<1>3. orders' = [k \in DOMAIN orders |-> IF k <= i THEN [orders[k] EXCEPT !.recent = FALSE]
                                         ELSE orders[k]]
      /\ UNCHANGED dialog /\ Buying!Rest
  BY DEF Buying!Age
<1>4. DOMAIN orders' = DOMAIN orders
      /\ \A k \in DOMAIN orders : /\ orders'[k] \in Buying!Order
                                  /\ orders'[k].plan = orders[k].plan
                                  /\ orders'[k].days = orders[k].days
                                  /\ orders'[k].gateway = orders[k].gateway
                                  /\ orders'[k].type = orders[k].type
                                  /\ orders'[k].final = orders[k].final
                                  /\ orders'[k].percent = orders[k].percent
  BY <1>1, <1>2, <1>3
<1>5. orders' \in Seq(Buying!Order) /\ Len(orders') = Len(orders)
  <2>1. orders' = [k \in 1 .. Len(orders) |-> orders'[k]]
    BY <1>1, <1>3
  <2>. QED
    BY <1>1, <1>4, <2>1, IsASeq, LenProperties
<1>6. Buying!TypeOK'
  BY <1>1, <1>3, <1>5 DEF OrderInv, Buying!TypeOK
<1>7. Goes(orders, orders')
  BY <1>4 DEF Goes
<1>8. KeptBacks(dialog, orders') /\ ShownBacks(dialog, orders')
  BY <1>7, KeptBacksOn, ShownBacksOn DEF OrderInv
<1>9. HasChosen(dialog)' /\ KeptBacks(dialog, orders)' /\ ShownBacks(dialog, orders)'
  BY <1>3, <1>8 DEF OrderInv, HasChosen, KeptBacks, ShownBacks, Backs
<1>10. \A k \in DOMAIN orders' : Fair(orders[k])'
  BY <1>4 DEF OrderInv, Fair
<1>. QED
  BY <1>6, <1>9, <1>10 DEF OrderInv

\* Administrators change no order and no copy.
LEMMA EditKeeps ==
  ASSUME Buying!ConstantsAssumption, OrderInv,
         \/ \E id \in PlanId, content \in Content \cup {None} : Buying!EditPlan(id, content)
         \/ \E order \in Methods : Buying!EditGateways(order)
         \/ \E pair \in Discounts : Buying!EditDiscount(pair)
  PROVE  OrderInv'
<1>1. Buying!Edit
  BY DEF Buying!EditPlan, Buying!EditGateways, Buying!EditDiscount
<1>2. revised' \in 0 .. MaxEdits /\ UNCHANGED <<owned, orders, dialog>>
  BY <1>1 DEF Buying!Edit, OrderInv, Buying!TypeOK, Buying!ConstantsAssumption
<1>3. catalog' \in [PlanId -> Content \cup {None}]
  BY DEF OrderInv, Buying!TypeOK, Buying!EditPlan, Buying!EditGateways, Buying!EditDiscount
<1>4. active' \in Methods
  BY DEF OrderInv, Buying!TypeOK, Buying!EditPlan, Buying!EditGateways, Buying!EditDiscount
<1>5. discount' \in [personal : Nat, purchase : Nat]
  BY DEF OrderInv, Buying!TypeOK, Buying!EditPlan, Buying!EditGateways, Buying!EditDiscount,
     Buying!ConstantsAssumption
<1>6. Buying!TypeOK'
  BY <1>2, <1>3, <1>4, <1>5 DEF OrderInv, Buying!TypeOK
<1>. QED
  BY <1>2, <1>6 DEF OrderInv, HasChosen, KeptBacks, ShownBacks, Backs, Fair

\* OrderInv is inductive.
LEMMA OrderInduction ==
  Buying!ConstantsAssumption /\ OrderInv /\ [Buying!Next]_(Buying!vars) => OrderInv'
<1> SUFFICES ASSUME Buying!ConstantsAssumption, OrderInv, [Buying!Next]_(Buying!vars)
  PROVE OrderInv'
  OBVIOUS
<1>1. CASE Buying!OpenMain
  <2>1. "MAIN" \in Buying!State
    BY DEF Buying!State
  <2>. QED
    BY <1>1, <2>1, FreshKeeps DEF Buying!OpenMain
<1>2. CASE UNCHANGED Buying!vars
  BY <1>2 DEF Buying!vars, OrderInv, Buying!TypeOK, HasChosen, KeptBacks, ShownBacks, Backs, Fair
<1>. QED
  BY <1>1, <1>2, OpenPlanKeeps, OpenTrialKeeps, SelectPlanKeeps, SelectTypeKeeps,
     SelectTypeAutoKeeps, SelectDurationKeeps, SelectMethodKeeps, BackKeeps, GetKeeps,
     PaidKeeps, AgeKeeps, WebOrderKeeps, EditKeeps DEF Buying!Next

\* OrderInv holds in every reachable state of Checkout.
LEMMA OrderInvariance == ASSUME Buying!ConstantsAssumption PROVE Buying!Spec => []OrderInv
<1>1. Buying!Init => OrderInv
  BY InitOrders
<1>2. OrderInv /\ [Buying!Next]_(Buying!vars) => OrderInv'
  BY OrderInduction
<1>. QED
  BY <1>1, <1>2, PTL DEF Buying!Spec

\* The last window of the purchase dialog shows what was ordered, whatever was chosen before
\* and edited meanwhile: any plans, gateways and discounts, any number of orders.
THEOREM ShownIsOrderedHolds ==
  ASSUME Buying!ConstantsAssumption PROVE Buying!Spec => []ShownIsOrdered
<1>1. OrderInv => ShownIsOrdered
  BY DEF OrderInv, ShownBacks, Backs, ShownIsOrdered, Buying!ShownIsOrdered
<1>. QED
  BY <1>1, OrderInvariance, PTL

\* Two orders of one choice differ by their discounts alone.
LEMMA FairFollowsRules ==
  ASSUME Buying!ConstantsAssumption, Buying!TypeOK, \A i \in DOMAIN orders : Fair(orders[i])
  PROVE  AmountFollowsRules
<1> SUFFICES ASSUME NEW i \in DOMAIN orders, NEW j \in DOMAIN orders
             PROVE  LET o == orders[i]
                        price == o.plan.content.price[o.days][CurrencyOf[o.gateway]]
                        same == [orders[j] EXCEPT !.percent = o.percent, !.final = o.final,
                                   !.type = o.type, !.status = o.status, !.recent = o.recent] = o
                    IN /\ o.final = 0 <=> o.percent = 100 \/ price = 0
                       /\ price # None => o.final <= price
                       /\ same /\ orders[j].percent >= o.percent => orders[j].final <= o.final
  BY DEF AmountFollowsRules, Buying!AmountFollowsRules
<1>1. PICK o \in Buying!Order, q \in Buying!Order : o = orders[i] /\ q = orders[j]
  BY DEF Buying!TypeOK
<1>2. PICK p, g, days, c, price :
        /\ p = o.plan.content /\ g = o.gateway /\ days = o.days /\ c = CurrencyOf[g]
        /\ price = p.price[days][c]
  OBVIOUS
<1>3. /\ p \in Content /\ g \in Method /\ days \in DOMAIN p.price /\ o.percent \in 0 .. 100
      /\ q.percent \in 0 .. 100
      /\ Buying!Priced(p, days, c, o.percent) /\ o.final = Buying!CostOf(p, days, c, o.percent)
  BY <1>1, <1>2 DEF Buying!Order, Buying!Copy, Fair
<1>4. ASSUME [q EXCEPT !.percent = o.percent, !.final = o.final, !.type = o.type,
                       !.status = o.status, !.recent = o.recent] = o
      PROVE  q.final = Buying!CostOf(p, days, c, q.percent)
  <2>1. q.plan = o.plan /\ q.days = o.days /\ q.gateway = o.gateway
    BY <1>4 DEF Buying!Order
  <2>. QED
    BY <1>1, <1>2, <2>1 DEF Fair
<1>5. CASE price = None
  <2>1. o.final = 0 /\ o.percent = 100
    BY <1>2, <1>3, <1>5 DEF Buying!Priced, Buying!CostOf
  <2>2. Buying!CostOf(p, days, c, q.percent) = 0
    BY <1>2, <1>5 DEF Buying!CostOf
  <2>. QED
    BY <1>1, <1>2, <1>4, <1>5, <2>1, <2>2
<1>6. CASE price # None
  <2>1. price \in Nat /\ (c \in Whole => price % 100 = 0)
    BY <1>2, <1>3, <1>6, PriceIsPrice
  <2>2. Buying!CostOf(p, days, c, o.percent) = Buying!Cost(price, c, o.percent)
        /\ Buying!CostOf(p, days, c, q.percent) = Buying!Cost(price, c, q.percent)
    BY <1>2, <1>6 DEF Buying!CostOf
  <2>3. o.percent <= o.percent
    BY <1>3
  <2>4. /\ o.final \in Nat /\ o.final <= price
        /\ o.final = 0 <=> o.percent = 100 \/ price = 0
    <3>1. /\ Buying!Cost(price, c, o.percent) \in Nat /\ Buying!Cost(price, c, o.percent) <= price
          /\ Buying!Cost(price, c, o.percent) = 0 <=> o.percent = 100 \/ price = 0
      <4>1. PICK k \in 0 .. 100 : k = o.percent
        BY <1>3
      <4>2. PICK n \in Nat : n = price
        BY <2>1
      <4>3. k <= k /\ (c \in Whole => n % 100 = 0)
        BY <2>1, <4>2
      <4>4. /\ Buying!Cost(n, c, k) \in Nat /\ Buying!Cost(n, c, k) <= n
            /\ Buying!Cost(n, c, k) = 0 <=> k = 100 \/ n = 0
        BY <4>3, CostIsFair
      <4>. QED
        BY <4>1, <4>2, <4>4
    <3>. QED
      BY <1>3, <2>2, <3>1
  <2>5. ASSUME [q EXCEPT !.percent = o.percent, !.final = o.final, !.type = o.type,
                         !.status = o.status, !.recent = o.recent] = o,
               q.percent >= o.percent
        PROVE  q.final <= o.final
    <3>1. q.final = Buying!Cost(price, c, q.percent)
      BY <1>4, <2>2, <2>5
    <3>2. Buying!Cost(price, c, q.percent) <= Buying!Cost(price, c, o.percent)
      <4>1. PICK k \in 0 .. 100, h \in 0 .. 100 : k = o.percent /\ h = q.percent
        BY <1>3
      <4>2. PICK n \in Nat : n = price
        BY <2>1
      <4>3. k <= h /\ (c \in Whole => n % 100 = 0)
        BY <2>1, <2>5, <4>1, <4>2
      <4>4. Buying!Cost(n, c, h) <= Buying!Cost(n, c, k)
        BY <4>3, CostIsFair
      <4>. QED
        BY <4>1, <4>2, <4>4
    <3>. QED
      BY <1>3, <2>2, <3>1, <3>2
  <2>. QED
    BY <1>1, <1>2, <2>4, <2>5
<1>. QED
  BY <1>5, <1>6, ZenonT(30)

\* Amounts follow the price and the discount: only nothing or a hundred percent is free, no
\* amount exceeds its price, a larger discount never costs more; for any prices.
THEOREM AmountFollowsRulesHolds ==
  ASSUME Buying!ConstantsAssumption PROVE Buying!Spec => []AmountFollowsRules
<1>1. OrderInv => AmountFollowsRules
  BY FairFollowsRules DEF OrderInv
<1>. QED
  BY <1>1, OrderInvariance, PTL

-----------------------------------------------------------------------------
(* The gateways. *)

\* Sets of rows, dialogs.
GateRow(g) ==
    [active : BOOLEAN, index : Nat, settings : [Gating!Field(g) -> Gating!Value \cup {None}]]

\* The windows of the dialog.
GateWindow == {"MAIN", "SETTINGS", "FIELD", "PLACEMENT", "CURRENCY"}

\* The fields of every gateway.
AnyField == UNION {Gating!Field(g) : g \in Gating!Gateway}

\* Where an administrator is.
GateDialog ==
  [window : GateWindow, gateway : Gating!Gateway \cup {None}, field : AnyField \cup {None},
   set : BOOLEAN]

\* A command that writes a field: it read the gateway's row.
InputCommand ==
    [op : {"input"}, gateway : {Gating!About}, read : GateRow(Gating!About), value : Gating!Value]

\* A command that clears a field.
ResetCommand == [op : {"reset"}, gateway : {Gating!About}, read : GateRow(Gating!About)]

\* A command that switches the gateway on or off.
ToggleCommand == [op : {"toggle"}, gateway : {Gating!About}, read : GateRow(Gating!About)]

\* A type has a row or none yet.
RowsInv ==
  /\ row = [g \in Gating!Gateway |-> row[g]]
  /\ \A g \in Gating!Gateway : row[g] \in GateRow(g) \cup {None}

\* The settings are those of the gateway the behaviour is about.
DialogInv ==
  /\ configuring \in [Admin -> GateDialog]
  /\ \A a \in Admin :
       /\ configuring[a].window \in {"SETTINGS", "FIELD"} => configuring[a].gateway = Gating!About
       /\ configuring[a].window = "FIELD" => configuring[a].field \in Gating!Field(Gating!About)

\* A command under way; one of a field is still in the field's window.
CommandOK(a) ==
  LET c == command[a] IN
  \/ c \in InputCommand /\ configuring[a].window = "FIELD"
  \/ c \in ResetCommand /\ configuring[a].window = "FIELD"
  \/ c \in ToggleCommand /\ Gating!Configured(Gating!About, c.read)
  \/ /\ c = [op |-> "move", gateway |-> c.gateway, read |-> c.read]
     /\ c.gateway \in Gating!Gateway /\ \A g \in Gating!Gateway : c.read[g] \in GateRow(g)

\* Commands run once the rows are there.
CommandInv ==
  /\ command = [a \in Admin |-> command[a]]
  /\ \A a \in Admin : command[a] # None => Gating!Up /\ CommandOK(a)

\* The index is a bijection of the types and the places.
Ordered(rows) ==
  /\ \A g \in Gating!Gateway : rows[g].index \in 1 .. Len(Gating!Enum)
  /\ \A g, h \in Gating!Gateway : rows[g].index = rows[h].index => g = h
  /\ \A i \in 1 .. Len(Gating!Enum) : \E g \in Gating!Gateway : rows[g].index = i

\* The rows are in order as long as no two moves met.
PlacesInv == Gating!Up /\ ~shuffled => Ordered(row)

\* The invariant of the rows and of the dialog that configures them.
ConfiguringInv ==
  /\ begun \in Beginnings /\ RowsInv /\ DialogInv /\ CommandInv
  /\ Gating!ActiveIsConfigured /\ PlacesInv

\* What an adapter object remembers.
GateObject == [method : Payment \cup {None}, key : {"old", "new", None}]

\* What the gateway says.
GateNotice == [payment : Payment, word : Gating!Words, method : Payment \cup {None}]

\* A notice names the method of its own payment or none.
NoticeOK(n) == n \in GateNotice /\ n.method \in {None, n.payment}

\* A webhook past the body has the task of its notice; one that stores a method has its own
\* in its object, unless it was crossed.
HookOK(h, objects) ==
  /\ h = [notice |-> h.notice, object |-> h.object, settings |-> h.settings, key |-> h.key,
          step |-> h.step, task |-> h.task, crossed |-> h.crossed]
  /\ NoticeOK(h.notice) /\ h.object \in 1 .. Len(objects) /\ h.key \in {"old", "new"}
  /\ h.step \in {"body", "method", "enqueue"}
  /\ h.step # "body" => h.task = Gating!Task(h.notice) /\ h.task # None
  /\ h.step = "method" =>
       /\ Gating!About = "PLATEGA"
       /\ ~h.crossed => objects[h.object].method = h.notice.payment

\* Only Platega's objects remember a method.
ObjectsOK(objects) ==
  /\ objects \in Seq(GateObject)
  /\ Gating!About # "PLATEGA" => \A i \in 1 .. Len(objects) : objects[i].method = None

\* There is an object once one was made.
ObjectInv ==
  /\ adapter = [made |-> adapter.made, object |-> adapter.object] /\ ObjectsOK(adapter.object)
  /\ adapter.made # None => Len(adapter.object) > 0

\* Every worker's webhook is one.
HookInv ==
  /\ hook = [w \in Worker |-> hook[w]]
  /\ \A w \in Worker : hook[w] # None => HookOK(hook[w], adapter.object)

\* Every notice is one.
NoticeInv == \A n \in notice : NoticeOK(n)

\* The methods are of payments.
MethodInv == method = [p \in Payment |-> method[p]] /\ Gating!MethodIsOwn

\* The invariant of the notices and the webhooks.
WebhookInv ==
  /\ begun \in Beginnings /\ signs \in {"old", "new"} /\ ObjectInv /\ NoticeInv /\ HookInv
  /\ Gating!AnsweredIsQueued /\ MethodInv

\* The enumeration names every type once.
LEMMA RanksAre ==
  /\ Len(Gating!Enum) = 14 /\ DOMAIN Gating!Enum = 1 .. 14
  /\ \A i \in 1 .. 14 : Gating!Enum[i] \in Gating!Gateway /\ Gating!Rank(Gating!Enum[i]) = i
  /\ \A g \in Gating!Gateway : Gating!Rank(g) \in 1 .. 14 /\ Gating!Enum[Gating!Rank(g)] = g
<1>1. Len(Gating!Enum) = 14 /\ DOMAIN Gating!Enum = 1 .. 14
  BY DEF Gating!Enum
<1>2. \A i, j \in 1 .. 14 : Gating!Enum[i] = Gating!Enum[j] => i = j
<2> SUFFICES ASSUME NEW i \in 1 .. 14, NEW j \in 1 .. 14, i < j
             PROVE  Gating!Enum[i] # Gating!Enum[j]
  OBVIOUS
<2>. QED
  BY DEF Gating!Enum
<1>3. \A i \in 1 .. 14 : Gating!Enum[i] \in Gating!Gateway
  BY <1>1 DEF Gating!Gateway
<1>4. ASSUME NEW i \in 1 .. 14 PROVE Gating!Rank(Gating!Enum[i]) = i
<2>1. \A j \in DOMAIN Gating!Enum : Gating!Enum[j] = Gating!Enum[i] <=> j = i
  BY <1>1, <1>2
<2>. QED
  BY <2>1, <1>1 DEF Gating!Rank
<1>. QED
  BY <1>1, <1>3, <1>4 DEF Gating!Gateway

\* As many gateways as the enumeration names.
LEMMA CardinalityIs ==
  ASSUME NEW S PROVE Gating!Cardinality(S) = Cardinality(S)
  BY DEF Gating!Cardinality, Cardinality

\* As many gateways as the enumeration names.
LEMMA GatewaysAre14 ==
  IsFiniteSet(Gating!Gateway) /\ Cardinality(Gating!Gateway) = 14
  /\ Gating!Cardinality(Gating!Gateway) = 14
<1>1. [i \in 1 .. 14 |-> Gating!Enum[i]] \in Bijection(1 .. 14, Gating!Gateway)
  BY RanksAre DEF Bijection, Injection, Surjection, IsInjective
<1>2. ExistsBijection(1 .. 14, Gating!Gateway)
  BY <1>1 DEF ExistsBijection
<1>3. IsFiniteSet(1 .. 14) /\ Cardinality(1 .. 14) = 14
<2>1. PICK m \in Int : m = 14
  OBVIOUS
<2>2. 1 \in Int /\ m \in Int
  OBVIOUS
<2>3. IsFiniteSet(1 .. m) /\ Cardinality(1 .. m) = (IF 1 > m THEN 0 ELSE m - 1 + 1)
  BY <2>2, FS_Interval
<2>. QED
  BY <2>1, <2>3
<1>. QED
  BY <1>2, <1>3, FS_Bijection, CardinalityIs

\* The rows before a row are as many as its place says.
LEMMA PlaceIsIndex ==
  ASSUME NEW rows, Ordered(rows), NEW g \in Gating!Gateway
  PROVE  Gating!Place(rows, g) = rows[g].index
<1>1. PICK n \in 1 .. 14 : n = rows[g].index
  BY RanksAre DEF Ordered
<1> DEFINE S ==
      {h \in Gating!Gateway :
         \/ rows[h].index < rows[g].index
         \/ rows[h].index = rows[g].index /\ Gating!Rank(h) < Gating!Rank(g)}
<1>2. S = {h \in Gating!Gateway : rows[h].index < n}
<2> SUFFICES ASSUME NEW h \in Gating!Gateway, rows[h].index = rows[g].index
             PROVE  ~(Gating!Rank(h) < Gating!Rank(g))
  BY <1>1
<2>1. h = g
  BY DEF Ordered
<2>2. Gating!Rank(g) \in 1 .. 14
  BY RanksAre
<2>. QED
  BY <2>1, <2>2
<1>3. PICK T : T = S
  OBVIOUS
<1>4. PICK f : f = [h \in T |-> rows[h].index]
  OBVIOUS
<1>5. f \in Bijection(T, 1 .. (n - 1))
<2>1. \A h \in T : h \in Gating!Gateway /\ f[h] = rows[h].index /\ f[h] \in 1 .. (n - 1)
  BY <1>1, <1>2, <1>3, <1>4, RanksAre DEF Ordered
<2>2. \A i \in 1 .. (n - 1) : \E h \in T : f[h] = i
<3> SUFFICES ASSUME NEW i \in 1 .. (n - 1) PROVE \E h \in T : f[h] = i
  OBVIOUS
<3>1. PICK h \in Gating!Gateway : rows[h].index = i
  BY <1>1, RanksAre DEF Ordered
<3>. QED
  BY <3>1, <1>1, <1>2, <1>3, <1>4
<2>3. \A h, k \in T : f[h] = f[k] => h = k
  BY <2>1 DEF Ordered
<2>. QED
  BY <2>1, <2>2, <2>3, <1>4 DEF Bijection, Injection, Surjection, IsInjective
<1>6. Cardinality(1 .. (n - 1)) = n - 1 /\ IsFiniteSet(1 .. (n - 1))
<2>1. 1 \in Int /\ n - 1 \in Int
  OBVIOUS
<2>. QED
  BY <2>1, FS_Interval
<1>7. T \subseteq Gating!Gateway
  BY <1>3
<1>8. IsFiniteSet(T)
  BY <1>7, GatewaysAre14, FS_Subset
<1>9. ExistsBijection(T, 1 .. (n - 1))
  BY <1>5 DEF ExistsBijection
<1>10. Cardinality(T) = n - 1
  BY <1>6, <1>8, <1>9, FS_Bijection
<1>11. Gating!Place(rows, g) = 1 + Cardinality(T)
  BY <1>3, CardinalityIs DEF Gating!Place
<1>. QED
  BY <1>1, <1>10, <1>11

\* A place is a number.
LEMMA PlaceIsNat ==
  ASSUME NEW rows, NEW g PROVE Gating!Place(rows, g) \in Nat /\ Gating!Place(rows, g) > 0
<1> DEFINE S ==
      {h \in Gating!Gateway :
         \/ rows[h].index < rows[g].index
         \/ rows[h].index = rows[g].index /\ Gating!Rank(h) < Gating!Rank(g)}
<1>1. S \subseteq Gating!Gateway
  OBVIOUS
<1>2. Cardinality(S) \in Nat
<2> HIDE DEF S
<2>. QED
  BY <1>1, GatewaysAre14, FS_Subset, FS_CardinalityType
<1>3. Gating!Place(rows, g) = 1 + Cardinality(S)
  BY CardinalityIs DEF Gating!Place
<1> HIDE DEF S
<1>. QED
  BY <1>2, <1>3

\* A place after a move is a number, whatever was read.
LEMMA MovedIsNat ==
  ASSUME NEW rows, NEW g, NEW h \in Gating!Gateway PROVE Gating!Moved(rows, g)[h] \in Nat
<1>1. PICK k \in Nat : k = Gating!Place(rows, g) /\ k > 0
  BY PlaceIsNat
<1>2. PICK n \in Nat : n = Gating!Place(rows, h) /\ n > 0
  BY PlaceIsNat
<1>3. Gating!Moved(rows, g)[h] = IF k = 1 THEN (IF h = g THEN 14 ELSE n - 1)
                          ELSE IF h = g THEN k - 1 ELSE IF n = k - 1 THEN k ELSE n
  BY <1>1, <1>2, GatewaysAre14 DEF Gating!Moved
<1>. QED
  BY <1>1, <1>2, <1>3

\* A move of ordered rows leaves an order.
LEMMA MovedIsOrdered ==
  ASSUME NEW rows, Ordered(rows), NEW g \in Gating!Gateway,
         NEW next, \A h \in Gating!Gateway : next[h].index = Gating!Moved(rows, g)[h]
  PROVE  Ordered(next)
<1>1. PICK k \in 1 .. 14 : k = rows[g].index
  BY RanksAre DEF Ordered
<1>2. \A h \in Gating!Gateway : next[h].index =
         IF k = 1 THEN (IF h = g THEN 14 ELSE rows[h].index - 1)
         ELSE IF h = g THEN k - 1 ELSE IF rows[h].index = k - 1 THEN k ELSE rows[h].index
  BY <1>1, PlaceIsIndex, GatewaysAre14 DEF Gating!Moved
<1>3. \A h \in Gating!Gateway : rows[h].index \in 1 .. 14
  BY RanksAre DEF Ordered
<1>4. \A h, j \in Gating!Gateway : rows[h].index = rows[j].index => h = j
  BY DEF Ordered
<1>5. \A i \in 1 .. 14 : \E h \in Gating!Gateway : rows[h].index = i
  BY RanksAre DEF Ordered
<1>6. CASE k = 1
<2>1. ASSUME NEW h \in Gating!Gateway, h # g
      PROVE  rows[h].index \in 2 .. 14 /\ next[h].index = rows[h].index - 1
<3>1. rows[h].index \in 1 .. 14 /\ rows[h].index # rows[g].index
  BY <1>3, <1>4, <2>1
<3>2. rows[g].index = 1
  BY <1>1, <1>6
<3>3. rows[h].index \in 2 .. 14
  BY <3>1, <3>2
<3>4. next[h].index = rows[h].index - 1
  BY <1>2, <1>6, <2>1
<3>. QED
  BY <3>3, <3>4
<2>2. next[g].index = 14
  BY <1>2, <1>6
<2>3. \A i \in 1 .. 13 : \E h \in Gating!Gateway : next[h].index = i
<3> SUFFICES ASSUME NEW i \in 1 .. 13 PROVE \E h \in Gating!Gateway : next[h].index = i
  OBVIOUS
<3>1. PICK h \in Gating!Gateway : rows[h].index = i + 1
  BY <1>5
<3>2. h # g
<4> SUFFICES ASSUME h = g PROVE FALSE
  OBVIOUS
<4>1. i + 1 = 1
  BY <3>1, <1>1, <1>6
<4>. QED
  BY <4>1
<3>. QED
  BY <3>1, <3>2, <2>1
<2>4. \A h, j \in Gating!Gateway : next[h].index = next[j].index => h = j
  BY <2>1, <2>2, <1>4
<2>5. \A h \in Gating!Gateway : next[h].index \in 1 .. 14
  BY <2>1, <2>2
<2>6. \A i \in 1 .. 14 : \E h \in Gating!Gateway : next[h].index = i
  BY <2>2, <2>3
<2>. QED
  BY <2>4, <2>5, <2>6, RanksAre DEF Ordered
<1>7. CASE k # 1
<2>1. \A h \in Gating!Gateway : next[h].index = IF rows[h].index = k THEN k - 1
                          ELSE IF rows[h].index = k - 1 THEN k ELSE rows[h].index
  BY <1>1, <1>2, <1>4, <1>7
<2>2. \A i \in 1 .. 14 : \E h \in Gating!Gateway : next[h].index = i
<3> SUFFICES ASSUME NEW i \in 1 .. 14 PROVE \E h \in Gating!Gateway : next[h].index = i
  OBVIOUS
<3>1. PICK m \in 1 .. 14 : m = IF i = k THEN k - 1 ELSE IF i = k - 1 THEN k ELSE i
  BY <1>1, <1>7
<3>2. PICK h \in Gating!Gateway : rows[h].index = m
  BY <1>5
<3>. QED
  BY <3>1, <3>2, <2>1
<2>3. \A h, j \in Gating!Gateway : next[h].index = next[j].index => h = j
  BY <2>1, <1>3, <1>4
<2>4. \A h \in Gating!Gateway : next[h].index \in 1 .. 14
  BY <2>1, <1>1, <1>3, <1>7
<2>. QED
  BY <2>2, <2>3, <2>4, RanksAre DEF Ordered
<1>. QED
  BY <1>6, <1>7

\* The index is an order wherever the rows agree on it.
LEMMA SameOrder ==
  ASSUME NEW rows, Ordered(rows), NEW next,
         \A h \in Gating!Gateway : next[h].index = rows[h].index
  PROVE  Ordered(next)
  BY DEF Ordered

\* Rows placed by rank are ordered.
LEMMA RankedIsOrdered ==
  ASSUME NEW rows, \A h \in Gating!Gateway : rows[h].index = Gating!Rank(h)
  PROVE  Ordered(rows)
  BY RanksAre DEF Ordered

\* What an order shows.
LEMMA OrderedIsTotal ==
  ASSUME PlacesInv PROVE Gating!OrderIsTotal
<1> SUFFICES ASSUME Gating!Up, ~shuffled
             PROVE  {row[g].index : g \in Gating!Gateway} = 1 .. Gating!Cardinality(Gating!Gateway)
  BY DEF Gating!OrderIsTotal
<1>1. Ordered(row)
  BY DEF PlacesInv
<1>. QED
  BY <1>1, RanksAre, GatewaysAre14 DEF Ordered

-----------------------------------------------------------------------------

\* The behaviour is about a gateway.
LEMMA AboutIs ==
  ASSUME Gating!ConstantsAssumption, begun \in Beginnings PROVE Gating!About \in Gating!Gateway
  BY DEF Gating!ConstantsAssumption, Gating!About

\* Neither a type nor a row is None.
LEMMA RowsAreRows ==
  ASSUME Gating!ConstantsAssumption, NEW g \in Gating!Gateway
  PROVE  None \notin GateRow(g) /\ None # g
  BY DEF Gating!ConstantsAssumption, GateRow

\* What is needed may be set.
LEMMA NeedsAreFields ==
  ASSUME NEW g PROVE Gating!Adapter(g).needs \subseteq Gating!Field(g)
  BY DEF Gating!Field

\* A new row is one, and is active only where nothing is needed.
LEMMA NewRowIs ==
  ASSUME NEW g \in Gating!Gateway
  PROVE  /\ Gating!NewRow(g) \in GateRow(g) /\ Gating!NewRow(g).index = Gating!Rank(g)
         /\ Gating!NewRow(g).active => Gating!Configured(g, Gating!NewRow(g))
<1>1. Gating!Rank(g) \in Nat
  BY RanksAre
<1>2. Gating!NewRow(g) \in GateRow(g)
  BY <1>1 DEF Gating!NewRow, GateRow
<1>3. Gating!NewRow(g).active => Gating!Adapter(g).needs = {}
  BY DEF Gating!NewRow, Gating!Adapter, Gating!TelegramStars, Gating!Adapting
<1>. QED
  BY <1>2, <1>3 DEF Gating!Configured, Gating!NewRow

\* A gateway in use is configured.
LEMMA InUseIs ==
  ASSUME Gating!ConstantsAssumption, NEW g \in Gating!Gateway
  PROVE  Gating!InUse(g) \in GateRow(g) /\ Gating!InUse(g).index = Gating!Rank(g)
         /\ Gating!Configured(g, Gating!InUse(g))
<1>1. PICK r \in GateRow(g) : r = Gating!NewRow(g) /\ r.index = Gating!Rank(g)
  BY NewRowIs
<1>2. PICK s : s =
                   [f \in Gating!Field(g) |->
                      IF f \in Gating!Adapter(g).needs THEN "right" ELSE None]
  OBVIOUS
<1>3. s \in [Gating!Field(g) -> Gating!Value \cup {None}]
  BY <1>2 DEF Gating!Value
<1>4. Gating!InUse(g) = [r EXCEPT !.active = TRUE, !.settings = s]
  BY <1>1, <1>2 DEF Gating!InUse
<1>5. Gating!InUse(g) = [active |-> TRUE, index |-> r.index, settings |-> s]
  BY <1>4 DEF GateRow
<1>6. \A f \in Gating!Adapter(g).needs : s[f] = "right"
  BY <1>2, NeedsAreFields
<1>7. None # "right"
  BY DEF Gating!ConstantsAssumption, Gating!Value
<1>. QED
  BY <1>1, <1>3, <1>5, <1>6, <1>7 DEF GateRow, Gating!Configured

\* A row with another index.
LEMMA IndexedIs ==
  ASSUME NEW g \in Gating!Gateway, NEW r \in GateRow(g), NEW i \in Nat
  PROVE  /\ [r EXCEPT !.index = i] \in GateRow(g) /\ [r EXCEPT !.index = i].index = i
         /\ [r EXCEPT !.index = i].active = r.active
         /\ [r EXCEPT !.index = i].settings = r.settings
  BY DEF GateRow

\* Every row of a beginning is a row or None.
LEMMA RowsOfBeginning ==
  ASSUME Gating!ConstantsAssumption, NEW b \in Beginnings
  PROVE  /\ DOMAIN Gating!Rows(b) = Gating!Gateway
         /\ \A g \in Gating!Gateway :
              /\ Gating!Rows(b)[g] \in GateRow(g) \cup {None}
              /\ Gating!Rows(b)[g] # None /\ Gating!Rows(b)[g].active =>
                     Gating!Configured(g, Gating!Rows(b)[g])
         /\ (\A g \in Gating!Gateway : Gating!Rows(b)[g] # None) =>
              \A g \in Gating!Gateway : Gating!Rows(b)[g].index = Gating!Rank(g)
<1>1. DOMAIN Gating!Rows(b) = Gating!Gateway
  BY DEF Gating!Rows
<1>2. "WATA" \in Gating!Gateway
<2>1. Gating!Enum[14] = "WATA"
  BY DEF Gating!Enum
<2>. QED
  BY <2>1, RanksAre
<1>3. CASE b.rows = "ready"
<2>1. \A g \in Gating!Gateway :
          Gating!Rows(b)[g] = IF g = b.about THEN Gating!InUse(g) ELSE Gating!NewRow(g)
  BY <1>3 DEF Gating!Rows
<2>. QED
  BY <1>1, <2>1, NewRowIs, InUseIs
<1>4. CASE b.rows = "none"
<2>1. \A g \in Gating!Gateway : Gating!Rows(b)[g] = None
  BY <1>4 DEF Gating!Rows
<2>. QED
  BY <1>1, <1>2, <2>1
<1>5. CASE b.rows = "old"
<2>1. Gating!Rows(b)["WATA"] = None
  BY <1>2, <1>5 DEF Gating!Rows
<2>2. ASSUME NEW g \in Gating!Gateway, g # "WATA"
      PROVE  Gating!Rows(b)[g] \in GateRow(g)
             /\ (Gating!Rows(b)[g].active => Gating!Configured(g, Gating!Rows(b)[g]))
<3>1. PICK r \in GateRow(g) : r = Gating!NewRow(g) /\ (r.active => Gating!Configured(g, r))
                              /\ r.index = Gating!Rank(g)
  BY NewRowIs
<3>2. PICK i \in Nat : i = IF g = "TELEGRAM_STARS" THEN Len(Gating!Enum) - 1 ELSE Gating!Rank(g) - 1
  BY RanksAre
<3>3. Gating!Rows(b)[g] =
          [Gating!NewRow(g) EXCEPT
             !.index = IF g = "TELEGRAM_STARS" THEN Len(Gating!Enum) - 1 ELSE @ - 1]
  BY <1>5, <2>2 DEF Gating!Rows
<3>4. Gating!Rows(b)[g] = [r EXCEPT !.index = i]
  BY <3>1, <3>2, <3>3
<3>. QED
  BY <3>1, <3>4, IndexedIs DEF Gating!Configured
<2>. QED
  BY <1>1, <1>2, <2>1, <2>2
<1>. QED
  BY <1>3, <1>4, <1>5 DEF Gating!ConstantsAssumption

\* The rows of a beginning satisfy the invariant.
LEMMA InitConfig == Gating!ConstantsAssumption /\ Gating!Init => ConfiguringInv
<1> SUFFICES ASSUME Gating!ConstantsAssumption, Gating!Init PROVE ConfiguringInv
  OBVIOUS
<1>1. begun \in Beginnings /\ row = Gating!Rows(begun)
  BY DEF Gating!Init
<1>2. RowsInv /\ Gating!ActiveIsConfigured
<2>1. row = [g \in Gating!Gateway |-> row[g]]
  BY <1>1 DEF Gating!Rows
<2>. QED
  BY <1>1, <2>1, RowsOfBeginning DEF RowsInv, Gating!ActiveIsConfigured
<1>3. DialogInv
  BY DEF Gating!Init, Gating!Closed, DialogInv, GateDialog, GateWindow
<1>4. CommandInv
  BY DEF Gating!Init, CommandInv
<1>5. PlacesInv
  BY <1>1, RowsOfBeginning, RankedIsOrdered DEF PlacesInv, Gating!Up
<1>. QED
  BY <1>1, <1>2, <1>3, <1>4, <1>5 DEF ConfiguringInv

\* What no command touches keeps the invariant.
LEMMA ConfigFrame ==
  ASSUME ConfiguringInv, UNCHANGED <<begun, Gating!config>> PROVE ConfiguringInv'
<1>1. /\ begun' = begun /\ row' = row /\ configuring' = configuring /\ command' = command
      /\ torn' = torn /\ shuffled' = shuffled /\ Gating!About' = Gating!About
  BY DEF Gating!config, Gating!About
<1>. QED
  BY <1>1 DEF ConfiguringInv, RowsInv, DialogInv, CommandInv, CommandOK, Gating!Up,
     Gating!ActiveIsConfigured,
     PlacesInv, InputCommand, ResetCommand, ToggleCommand

\* Startup creates what is missing and orders all anew.
LEMMA CreateDefaultsKeeps ==
  ASSUME Gating!ConstantsAssumption, ConfiguringInv, Gating!CreateDefaults PROVE ConfiguringInv'
<1>1. /\ begun' = begun /\ configuring' = configuring /\ command' = command
      /\ torn' = torn /\ shuffled' = shuffled /\ Gating!About' = Gating!About /\ ~Gating!Up
  BY DEF Gating!CreateDefaults, Gating!About
<1>2. \A a \in Admin : command[a] = None
  BY <1>1 DEF ConfiguringInv, CommandInv
<1>3. ASSUME NEW g \in Gating!Gateway
      PROVE  /\ row'[g] \in GateRow(g) /\ row'[g].index = Gating!Rank(g)
             /\ row'[g].active => Gating!Configured(g, row'[g]) \/ g \in torn
<2>1. CASE row[g] = None
  BY <2>1, NewRowIs DEF Gating!CreateDefaults
<2>2. CASE row[g] # None
<3>1. PICK r \in GateRow(g) : r = row[g]
  BY <2>2 DEF ConfiguringInv, RowsInv
<3>2. r.active => Gating!Configured(g, r) \/ g \in torn
  BY <3>1, <2>2 DEF ConfiguringInv, Gating!ActiveIsConfigured
<3>3. Gating!Rank(g) \in Nat
  BY RanksAre
<3>4. row'[g] = IF r.index # Gating!Rank(g) THEN [r EXCEPT !.index = Gating!Rank(g)] ELSE r
  BY <2>2, <3>1 DEF Gating!CreateDefaults
<3>. QED
  BY <3>2, <3>3, <3>4, IndexedIs DEF Gating!Configured
<2>. QED
  BY <2>1, <2>2
<1>4. row' = [g \in Gating!Gateway |-> row'[g]]
  BY DEF Gating!CreateDefaults
<1>5. RowsInv' /\ Gating!ActiveIsConfigured'
  BY <1>1, <1>3, <1>4 DEF RowsInv, Gating!ActiveIsConfigured
<1>6. PlacesInv'
  BY <1>3, RankedIsOrdered DEF PlacesInv
<1>7. DialogInv' /\ CommandInv'
  BY <1>1, <1>2 DEF ConfiguringInv, DialogInv, CommandInv
<1>. QED
  BY <1>1, <1>5, <1>6, <1>7 DEF ConfiguringInv

\* A window with its gateway and field.
WindowOK(d) ==
  /\ d \in GateDialog
  /\ d.window \in {"SETTINGS", "FIELD"} => d.gateway = Gating!About
  /\ d.window = "FIELD" => d.field \in Gating!Field(Gating!About)

\* A turn of the dialog.
LEMMA TurnsKeep ==
  ASSUME ConfiguringInv, NEW a \in Admin, command[a] = None, NEW d, WindowOK(d), Gating!Turns(a, d)
  PROVE  ConfiguringInv'
<1>1. /\ begun' = begun /\ row' = row /\ configuring' = [configuring EXCEPT ![a] = d]
      /\ command' = command
      /\ torn' = torn /\ shuffled' = shuffled /\ Gating!About' = Gating!About
  BY DEF Gating!Turns, Gating!Shows, Gating!About
<1>2. RowsInv' /\ Gating!ActiveIsConfigured' /\ PlacesInv'
  BY <1>1 DEF ConfiguringInv, RowsInv, Gating!ActiveIsConfigured, PlacesInv, Gating!Up
<1>3. DialogInv'
  BY <1>1 DEF ConfiguringInv, DialogInv, WindowOK
<1>4. ASSUME NEW x \in Admin, command'[x] # None PROVE Gating!Up' /\ CommandOK(x)'
<2>1. command[x] # None /\ x # a /\ configuring'[x] = configuring[x]
  BY <1>1, <1>4 DEF ConfiguringInv, DialogInv
<2>. QED
  BY <1>1, <2>1 DEF ConfiguringInv, CommandInv, Gating!Up, CommandOK, InputCommand, ResetCommand,
     ToggleCommand
<1>. QED
  BY <1>1, <1>2, <1>3, <1>4 DEF ConfiguringInv, CommandInv

\* A command begins with what it read.
LEMMA BeginsKeeps ==
  ASSUME Gating!ConstantsAssumption, ConfiguringInv, NEW a \in Admin, Gating!Up, NEW c,
         Gating!Begins(a, c),
         \/ c \in InputCommand /\ configuring[a].window = "FIELD"
         \/ c \in ResetCommand /\ configuring[a].window = "FIELD"
         \/ c \in ToggleCommand /\ Gating!Configured(Gating!About, c.read)
         \/ /\ c = [op |-> "move", gateway |-> c.gateway, read |-> c.read]
            /\ c.gateway \in Gating!Gateway /\ \A g \in Gating!Gateway : c.read[g] \in GateRow(g)
  PROVE  ConfiguringInv'
<1>1. /\ begun' = begun /\ row' = row /\ configuring' = configuring
      /\ command' = [command EXCEPT ![a] = c]
      /\ torn' = torn /\ shuffled' = shuffled /\ Gating!About' = Gating!About
  BY DEF Gating!Begins, Gating!About
<1>2. RowsInv' /\ Gating!ActiveIsConfigured' /\ PlacesInv' /\ Gating!Up'
  BY <1>1 DEF ConfiguringInv, RowsInv, Gating!ActiveIsConfigured, PlacesInv, Gating!Up
<1>3. DialogInv'
  BY <1>1 DEF ConfiguringInv, DialogInv
<1>4. command' = [x \in Admin |-> IF x = a THEN c ELSE command[x]]
  BY <1>1 DEF ConfiguringInv, CommandInv
<1>5. ASSUME NEW x \in Admin, command'[x] # None PROVE CommandOK(x)'
<2>1. CASE x = a
  BY <1>1, <1>4, <2>1 DEF CommandOK, InputCommand, ResetCommand, ToggleCommand
<2>2. CASE x # a
<3>1. CommandOK(x)
  BY <1>4, <1>5, <2>2 DEF ConfiguringInv, CommandInv
<3>. QED
  BY <1>1, <1>4, <2>2, <3>1 DEF CommandOK, InputCommand, ResetCommand, ToggleCommand
<2>. QED
  BY <2>1, <2>2
<1>. QED
  BY <1>1, <1>2, <1>3, <1>4, <1>5 DEF ConfiguringInv, CommandInv

\* The end of a command: the rows it leaves are rows, what is active is configured or torn,
\* and the places are an order unless they were shuffled.
LEMMA EndsKeeps ==
  ASSUME Gating!ConstantsAssumption, ConfiguringInv, NEW a \in Admin, NEW rows, NEW d, WindowOK(d),
         Gating!Ends(a, rows, d), rows = [g \in Gating!Gateway |-> rows[g]],
         \A g \in Gating!Gateway : rows[g] \in GateRow(g),
         torn \subseteq torn',
         \A g \in Gating!Gateway : rows[g].active => Gating!Configured(g, rows[g]) \/ g \in torn',
         shuffled' \/ Ordered(rows)
  PROVE  ConfiguringInv'
<1>1. /\ begun' = begun /\ row' = rows /\ configuring' = [configuring EXCEPT ![a] = d]
      /\ command' = [command EXCEPT ![a] = None] /\ Gating!About' = Gating!About
  BY DEF Gating!Ends, Gating!Shows, Gating!About
<1>2. RowsInv' /\ Gating!ActiveIsConfigured' /\ PlacesInv'
  BY <1>1 DEF ConfiguringInv, RowsInv, Gating!ActiveIsConfigured, PlacesInv
<1>3. Gating!Up'
  BY <1>1, RowsAreRows DEF Gating!Up
<1>4. DialogInv'
  BY <1>1 DEF ConfiguringInv, DialogInv, WindowOK
<1>5. command' = [x \in Admin |-> IF x = a THEN None ELSE command[x]]
  BY <1>1 DEF ConfiguringInv, CommandInv
<1>6. ASSUME NEW x \in Admin, command'[x] # None PROVE CommandOK(x)'
<2>1. x # a /\ command[x] # None /\ command'[x] = command[x] /\ configuring'[x] = configuring[x]
  BY <1>1, <1>5, <1>6 DEF ConfiguringInv, DialogInv
<2>2. CommandOK(x)
  BY <2>1 DEF ConfiguringInv, CommandInv
<2>. QED
  BY <1>1, <2>1, <2>2 DEF CommandOK, InputCommand, ResetCommand, ToggleCommand
<1>. QED
  BY <1>1, <1>2, <1>3, <1>4, <1>5, <1>6 DEF ConfiguringInv, CommandInv

\* A free administrator.
LEMMA FreeFacts ==
  ASSUME ConfiguringInv, NEW a \in Admin, Gating!Free(a)
  PROVE  /\ command[a] = None /\ Gating!Up /\ WindowOK(configuring[a])
         /\ \A g \in Gating!Gateway : row[g] \in GateRow(g)
  BY DEF Gating!Free, ConfiguringInv, DialogInv, WindowOK, RowsInv, Gating!Up

\* To another window.
LEMMA SwitchToKeeps ==
  ASSUME ConfiguringInv, NEW a \in Admin, NEW w, Gating!SwitchTo(a, w) PROVE ConfiguringInv'
<1>1. PICK d \in GateDialog : d = configuring[a] /\ WindowOK(d) /\ command[a] = None
  BY FreeFacts DEF Gating!SwitchTo, WindowOK
<1>2. PICK e : e = [d EXCEPT !.window = w]
  OBVIOUS
<1>3. w \in GateWindow
  BY DEF Gating!SwitchTo, GateWindow
<1>4. e \in GateDialog /\ e.window = w /\ e.gateway = d.gateway
  BY <1>2, <1>3 DEF GateDialog
<1>5. w = "SETTINGS" => d.window = "FIELD"
  BY <1>1 DEF Gating!SwitchTo
<1>6. w # "FIELD"
  BY DEF Gating!SwitchTo
<1>7. WindowOK(e)
  BY <1>1, <1>4, <1>5, <1>6 DEF WindowOK
<1>8. Gating!Turns(a, e)
  BY <1>1, <1>2 DEF Gating!SwitchTo
<1>. QED
  BY <1>1, <1>7, <1>8, TurnsKeep

\* To the settings.
LEMMA SelectKeeps ==
  ASSUME Gating!ConstantsAssumption, ConfiguringInv, NEW a \in Admin, Gating!Select(a)
  PROVE  ConfiguringInv'
<1>1. PICK d \in GateDialog : d = configuring[a] /\ WindowOK(d) /\ command[a] = None
  BY FreeFacts DEF Gating!Select, Gating!In, WindowOK
<1>2. PICK e : e = [d EXCEPT !.window = "SETTINGS", !.gateway = Gating!About]
  OBVIOUS
<1>3. Gating!About \in Gating!Gateway
  BY AboutIs DEF ConfiguringInv
<1>4. WindowOK(e)
  BY <1>1, <1>2, <1>3 DEF WindowOK, GateDialog, GateWindow
<1>5. Gating!Turns(a, e)
  BY <1>1, <1>2 DEF Gating!Select
<1>. QED
  BY <1>1, <1>4, <1>5, TurnsKeep

\* To a field.
LEMMA FieldSelectKeeps ==
  ASSUME Gating!ConstantsAssumption, ConfiguringInv, NEW a \in Admin, NEW f,
         Gating!FieldSelect(a, f)
  PROVE  ConfiguringInv'
<1>1. PICK d \in GateDialog : d = configuring[a] /\ WindowOK(d) /\ command[a] = None
  BY FreeFacts DEF Gating!FieldSelect, Gating!In, WindowOK
<1>2. PICK b \in BOOLEAN : b = (row[Gating!Here(a)].settings[f] # None)
  OBVIOUS
<1>3. PICK e : e = [d EXCEPT !.window = "FIELD", !.field = f, !.set = b]
  OBVIOUS
<1>4. Gating!About \in Gating!Gateway
  BY AboutIs DEF ConfiguringInv
<1>5. d.window = "SETTINGS" /\ d.gateway = Gating!About /\ f \in Gating!Field(Gating!About)
  BY <1>1 DEF Gating!FieldSelect, Gating!In, WindowOK, Gating!Here
<1>6. f \in AnyField
  BY <1>4, <1>5 DEF AnyField
<1>7. e \in GateDialog /\ e.window = "FIELD" /\ e.gateway = d.gateway /\ e.field = f
  BY <1>3, <1>6 DEF GateDialog, GateWindow
<1>8. WindowOK(e)
  BY <1>5, <1>7 DEF WindowOK
<1>9. Gating!Turns(a, e)
  BY <1>1, <1>2, <1>3 DEF Gating!FieldSelect
<1>. QED
  BY <1>1, <1>8, <1>9, TurnsKeep

\* An input begins ...
LEMMA BeginInputKeeps ==
  ASSUME Gating!ConstantsAssumption, ConfiguringInv, NEW a \in Admin, NEW v \in Gating!Value,
         Gating!BeginInput(a, v)
  PROVE  ConfiguringInv'
<1>1. /\ Gating!Up /\ WindowOK(configuring[a]) /\ configuring[a].window = "FIELD"
      /\ \A g \in Gating!Gateway : row[g] \in GateRow(g)
  BY FreeFacts DEF Gating!BeginInput, Gating!In
<1>2. Gating!About \in Gating!Gateway
  BY AboutIs DEF ConfiguringInv
<1>3. Gating!Here(a) = Gating!About
  BY <1>1 DEF WindowOK, Gating!Here
<1>4. PICK c : c =
                   [op |-> "input", gateway |-> Gating!Here(a),
                    read |-> row[Gating!Here(a)], value |-> v]
  OBVIOUS
<1>5. c \in InputCommand
  BY <1>1, <1>2, <1>3, <1>4 DEF InputCommand
<1>6. Gating!Begins(a, c)
  BY <1>4 DEF Gating!BeginInput
<1>. QED
  BY <1>1, <1>5, <1>6, BeginsKeeps

\* ... a reset ...
LEMMA BeginResetKeeps ==
  ASSUME Gating!ConstantsAssumption, ConfiguringInv, NEW a \in Admin, Gating!BeginReset(a)
  PROVE  ConfiguringInv'
<1>1. /\ Gating!Up /\ WindowOK(configuring[a]) /\ configuring[a].window = "FIELD"
      /\ \A g \in Gating!Gateway : row[g] \in GateRow(g)
  BY FreeFacts DEF Gating!BeginReset, Gating!In
<1>2. Gating!About \in Gating!Gateway
  BY AboutIs DEF ConfiguringInv
<1>3. Gating!Here(a) = Gating!About
  BY <1>1 DEF WindowOK, Gating!Here
<1>4. PICK c : c = [op |-> "reset", gateway |-> Gating!Here(a), read |-> row[Gating!Here(a)]]
  OBVIOUS
<1>5. c \in ResetCommand
  BY <1>1, <1>2, <1>3, <1>4 DEF ResetCommand
<1>6. Gating!Begins(a, c)
  BY <1>4 DEF Gating!BeginReset
<1>. QED
  BY <1>1, <1>5, <1>6, BeginsKeeps

\* ... a toggle ...
LEMMA BeginToggleKeeps ==
  ASSUME Gating!ConstantsAssumption, ConfiguringInv, NEW a \in Admin, Gating!BeginToggle(a)
  PROVE  ConfiguringInv'
<1>1. Gating!Up /\ \A g \in Gating!Gateway : row[g] \in GateRow(g)
  BY FreeFacts DEF Gating!BeginToggle, Gating!In
<1>2. Gating!About \in Gating!Gateway
  BY AboutIs DEF ConfiguringInv
<1>3. PICK c : c = [op |-> "toggle", gateway |-> Gating!About, read |-> row[Gating!About]]
  OBVIOUS
<1>4. c \in ToggleCommand /\ c.read = row[Gating!About]
  BY <1>1, <1>2, <1>3 DEF ToggleCommand
<1>5. Gating!Begins(a, c) /\ Gating!Configured(Gating!About, c.read)
  BY <1>3, <1>4 DEF Gating!BeginToggle
<1>. QED
  BY <1>1, <1>4, <1>5, BeginsKeeps

\* ... and a move.
LEMMA BeginMoveKeeps ==
  ASSUME Gating!ConstantsAssumption, ConfiguringInv, NEW a \in Admin, NEW g \in Gating!Gateway,
         Gating!BeginMove(a, g)
  PROVE  ConfiguringInv'
<1>1. Gating!Up /\ \A h \in Gating!Gateway : row[h] \in GateRow(h)
  BY FreeFacts DEF Gating!BeginMove, Gating!In
<1>2. PICK c : c = [op |-> "move", gateway |-> g, read |-> row]
  OBVIOUS
<1>3. Gating!Begins(a, c)
  BY <1>2 DEF Gating!BeginMove
<1>4. c = [op |-> "move", gateway |-> c.gateway, read |-> c.read] /\ c.gateway = g /\ c.read = row
  BY <1>2
<1>. QED
  BY <1>1, <1>3, <1>4, BeginsKeeps

\* The field of a command, and the rows while it runs.
LEMMA RunningFacts ==
  ASSUME Gating!ConstantsAssumption, ConfiguringInv, NEW a \in Admin, command[a] # None
  PROVE  /\ CommandOK(a) /\ Gating!Up /\ WindowOK(configuring[a]) /\ Gating!About \in Gating!Gateway
         /\ row = [g \in Gating!Gateway |-> row[g]]
         /\ \A g \in Gating!Gateway : row[g] \in GateRow(g)
         /\ shuffled \/ Ordered(row)
         /\ \A g \in Gating!Gateway : row[g].active => Gating!Configured(g, row[g]) \/ g \in torn
  BY AboutIs DEF ConfiguringInv, CommandInv, DialogInv, WindowOK, RowsInv, Gating!Up, PlacesInv,
     Gating!ActiveIsConfigured

\* A command is what its operation says.
LEMMA CommandIs ==
  ASSUME NEW a \in Admin, CommandOK(a), NEW c, c = command[a]
  PROVE  /\ c.op = "input" => c \in InputCommand /\ configuring[a].window = "FIELD"
         /\ c.op = "reset" => c \in ResetCommand /\ configuring[a].window = "FIELD"
         /\ c.op = "toggle" => c \in ToggleCommand /\ Gating!Configured(Gating!About, c.read)
<1>1. c \in InputCommand => c.op = "input"
  BY DEF InputCommand
<1>2. c \in ResetCommand => c.op = "reset"
  BY DEF ResetCommand
<1>3. c \in ToggleCommand => c.op = "toggle"
  BY DEF ToggleCommand
<1>4. c = [op |-> "move", gateway |-> c.gateway, read |-> c.read] => c.op = "move"
<2>1. PICK x, y : x = c.gateway /\ y = c.read
  OBVIOUS
<2>2. [op |-> "move", gateway |-> x, read |-> y].op = "move"
  OBVIOUS
<2>. QED
  BY <2>1, <2>2
<1>. QED
  BY <1>1, <1>2, <1>3, <1>4 DEF CommandOK

\* Back from the window of a field.
LEMMA BackIs ==
  ASSUME NEW a \in Admin, WindowOK(configuring[a]), configuring[a].window = "FIELD"
  PROVE  WindowOK(Gating!Back(a))
<1>1. PICK d \in GateDialog : d = configuring[a] /\ d.gateway = Gating!About /\ d.window = "FIELD"
  BY DEF WindowOK
<1>2. Gating!Back(a) = [d EXCEPT !.window = "SETTINGS"]
  BY <1>1 DEF Gating!Back
<1>. QED
  BY <1>1, <1>2 DEF WindowOK, GateDialog, GateWindow

\* One row of a command is written, its place is not.
LEMMA RowKeeps ==
  ASSUME Gating!ConstantsAssumption, ConfiguringInv, NEW a \in Admin, command[a] # None,
         NEW r \in GateRow(Gating!About), r.index = row[Gating!About].index,
         NEW rows, rows = [row EXCEPT ![Gating!About] = r],
         torn \subseteq torn',
         r.active => Gating!Configured(Gating!About, r) \/ Gating!About \in torn',
         NEW d, WindowOK(d), Gating!Ends(a, rows, d), shuffled' = shuffled
  PROVE  ConfiguringInv'
<1>1. rows = [g \in Gating!Gateway |-> IF g = Gating!About THEN r ELSE row[g]]
  BY RunningFacts
<1>2. rows = [g \in Gating!Gateway |-> rows[g]]
  BY <1>1
<1>3. \A g \in Gating!Gateway : rows[g] \in GateRow(g)
  BY <1>1, RunningFacts
<1>4. \A g \in Gating!Gateway : rows[g].active => Gating!Configured(g, rows[g]) \/ g \in torn'
  BY <1>1, RunningFacts
<1>5. \A g \in Gating!Gateway : rows[g].index = row[g].index
  BY <1>1, RunningFacts
<1>6. shuffled' \/ Ordered(rows)
  BY <1>5, RunningFacts, SameOrder
<1>. QED
  BY <1>2, <1>3, <1>4, <1>6, EndsKeeps

\* An input sets a field: what was configured still is.
LEMMA WriteInputKeeps ==
  ASSUME Gating!ConstantsAssumption, ConfiguringInv, NEW a \in Admin, Gating!WriteInput(a)
  PROVE  ConfiguringInv'
<1>1. PICK c \in InputCommand : c = command[a] /\ command[a] # None
                                /\ configuring[a].window = "FIELD"
<2>1. command[a] # None /\ command[a].op = "input"
  BY DEF Gating!WriteInput
<2>. QED
  BY <2>1, CommandIs, RunningFacts
<1>2. PICK f \in Gating!Field(Gating!About) : f = configuring[a].field
  BY <1>1, RunningFacts DEF WindowOK
<1>3. PICK r \in GateRow(Gating!About) : r = row[Gating!About]
  BY <1>1, RunningFacts
<1>4. c.gateway = Gating!About /\ c.value \in Gating!Value /\ c.value # None
  BY DEF InputCommand, Gating!ConstantsAssumption
<1>5. WindowOK(Gating!Back(a))
  BY <1>1, BackIs, RunningFacts
<1>6. PICK s : s = [r.settings EXCEPT ![f] = c.value]
  OBVIOUS
<1>7. PICK n : n = [r EXCEPT !.settings = s]
  OBVIOUS
<1>8. /\ s \in [Gating!Field(Gating!About) -> Gating!Value \cup {None}]
      /\ \A x \in Gating!Field(Gating!About) : r.settings[x] # None => s[x] # None
  BY <1>4, <1>6 DEF GateRow
<1>9. n \in GateRow(Gating!About) /\ n.index = r.index /\ n.active = r.active /\ n.settings = s
  BY <1>7, <1>8 DEF GateRow
<1>10. n.active => Gating!Configured(Gating!About, n) \/ Gating!About \in torn
<2>1. r.active => Gating!Configured(Gating!About, r) \/ Gating!About \in torn
  BY <1>1, <1>3, RunningFacts
<2>. QED
  BY <2>1, <1>8, <1>9, NeedsAreFields DEF Gating!Configured
<1>11. torn' = torn /\ shuffled' = shuffled
  BY DEF Gating!WriteInput
<1>12. CASE c.value = c.read.settings[f]
<2>1. Gating!Ends(a, row, Gating!Back(a))
  BY <1>1, <1>2, <1>12 DEF Gating!WriteInput
<2>2. row = [row EXCEPT ![Gating!About] = r]
  BY <1>1, <1>3, RunningFacts
<2>3. r.active => Gating!Configured(Gating!About, r) \/ Gating!About \in torn'
  BY <1>1, <1>3, <1>11, RunningFacts
<2>. QED
  BY <2>1, <2>2, <2>3, <1>1, <1>3, <1>5, <1>11, RowKeeps
<1>13. CASE c.value # c.read.settings[f]
<2>1. Gating!Ends(a, [row EXCEPT ![Gating!About].settings[f] = c.value], Gating!Back(a))
  BY <1>1, <1>2, <1>4, <1>13 DEF Gating!WriteInput
<2>2. [row EXCEPT ![Gating!About].settings[f] = c.value] = [row EXCEPT ![Gating!About] = n]
  BY <1>1, <1>3, <1>6, <1>7, RunningFacts
<2>3. Gating!Ends(a, [row EXCEPT ![Gating!About] = n], Gating!Back(a))
  BY <2>1, <2>2
<2>. QED
  BY <2>3, <1>1, <1>3, <1>5, <1>9, <1>10, <1>11, RowKeeps
<1>. QED
  BY <1>12, <1>13

\* What a reset makes of a row it has read as it is.
LEMMA ResetRowIs ==
  ASSUME Gating!ConstantsAssumption, NEW g \in Gating!Gateway, NEW f \in Gating!Field(g),
         NEW read \in GateRow(g), NEW r \in GateRow(g)
  PROVE  /\ Gating!ResetRow(g, f, read, r) \in GateRow(g)
         /\ Gating!ResetRow(g, f, read, r).index = r.index
         /\ r.active = read.active /\ r.settings = read.settings
              => (Gating!ResetRow(g, f, read, r).active =>
                      Gating!Configured(g, Gating!ResetRow(g, f, read, r))
                    \/ ~read.active \/ r = Gating!ResetRow(g, f, read, r))
<1>1. PICK s : s = [read.settings EXCEPT ![f] = None]
  OBVIOUS
<1>2. PICK after \in GateRow(g) : after = [read EXCEPT !.settings = s] /\ after.settings = s
<2>1. read.settings \in [Gating!Field(g) -> Gating!Value \cup {None}]
  BY DEF GateRow
<2>2. s \in [Gating!Field(g) -> Gating!Value \cup {None}]
  BY <1>1, <2>1
<2>3. PICK after : after = [read EXCEPT !.settings = s]
  OBVIOUS
<2>4. after = [active |-> read.active, index |-> read.index, settings |-> s]
  BY <2>3 DEF GateRow
<2>5. after \in GateRow(g) /\ after.settings = s
  BY <2>2, <2>4 DEF GateRow
<2>. QED
  BY <2>3, <2>5
<1>3. [read EXCEPT !.settings[f] = None] = after
  BY <1>1, <1>2
<1>4. PICK off \in BOOLEAN : off = (read.active /\ ~Gating!Configured(g, after))
  OBVIOUS
<1>5. PICK t : t =
                   [r.settings EXCEPT ![f] =
                      IF read.settings[f] = None THEN r.settings[f] ELSE None]
  OBVIOUS
<1>6. PICK n : n = [r EXCEPT !.settings = t, !.active = IF off THEN FALSE ELSE r.active]
  OBVIOUS
<1>7. Gating!ResetRow(g, f, read, r) = IF read.settings[f] = None /\ ~off THEN r ELSE n
<2>1. Gating!ResetRow(g, f, read, r) =
        IF read.settings[f] = None /\ ~off THEN r
        ELSE [r EXCEPT !.settings[f] = IF read.settings[f] = None THEN @ ELSE None,
                 !.active = IF off THEN FALSE ELSE @]
  BY <1>3, <1>4 DEF Gating!ResetRow
<2>. QED
  BY <2>1, <1>5, <1>6
<1>8. t \in [Gating!Field(g) -> Gating!Value \cup {None}]
  BY <1>5 DEF GateRow
<1>9. n \in GateRow(g) /\ n.index = r.index /\ n.settings = t
      /\ n.active = (IF off THEN FALSE ELSE r.active)
  BY <1>6, <1>8 DEF GateRow
<1>10. ASSUME r.active = read.active, r.settings = read.settings, n.active, read.active
       PROVE  Gating!Configured(g, n)
<2>1. ~off /\ Gating!Configured(g, after)
  BY <1>4, <1>9, <1>10
<2>2. t = s
  BY <1>1, <1>5, <1>10 DEF GateRow
<2>. QED
  BY <1>2, <1>9, <2>1, <2>2 DEF Gating!Configured
<1>. QED
  BY <1>7, <1>9, <1>10

\* A reset switches off what lacks the field now, unless another command met it.
LEMMA WriteResetKeeps ==
  ASSUME Gating!ConstantsAssumption, ConfiguringInv, NEW a \in Admin, Gating!WriteReset(a)
  PROVE  ConfiguringInv'
<1>1. PICK c \in ResetCommand : c = command[a] /\ command[a] # None
                                /\ configuring[a].window = "FIELD"
<2>1. command[a] # None /\ command[a].op = "reset"
  BY DEF Gating!WriteReset
<2>. QED
  BY <2>1, CommandIs, RunningFacts
<1>2. PICK f \in Gating!Field(Gating!About) : f = configuring[a].field
  BY <1>1, RunningFacts DEF WindowOK
<1>3. PICK r \in GateRow(Gating!About) : r = row[Gating!About]
  BY <1>1, RunningFacts
<1>4. c.gateway = Gating!About /\ c.read \in GateRow(Gating!About)
      /\ Gating!About \in Gating!Gateway
  BY <1>1, RunningFacts DEF ResetCommand
<1>5. WindowOK(Gating!Back(a))
  BY <1>1, BackIs, RunningFacts
<1>6. PICK n : n = Gating!ResetRow(Gating!About, f, c.read, r)
  OBVIOUS
<1>7. n \in GateRow(Gating!About) /\ n.index = r.index
  BY <1>4, <1>6, ResetRowIs
<1>8. torn' = (IF Gating!Raced(c) THEN torn \cup {Gating!About} ELSE torn) /\ shuffled' = shuffled
  BY <1>1, <1>4 DEF Gating!WriteReset
<1>9. n.active => Gating!Configured(Gating!About, n) \/ Gating!About \in torn'
<2>1. CASE Gating!Raced(c)
  BY <2>1, <1>8
<2>2. CASE ~Gating!Raced(c)
<3>1. r.active = c.read.active /\ r.settings = c.read.settings
  BY <2>2, <1>3, <1>4 DEF Gating!Raced
<3>2. r.active => Gating!Configured(Gating!About, r) \/ Gating!About \in torn
  BY <1>1, <1>3, RunningFacts
<3>3. n.active => r.active
  BY <1>6 DEF Gating!ResetRow, GateRow
<3>. QED
  BY <3>1, <3>2, <3>3, <2>2, <1>4, <1>6, <1>8, ResetRowIs
<2>. QED
  BY <2>1, <2>2
<1>10. Gating!Ends(a, [row EXCEPT ![Gating!About] = n], Gating!Back(a))
<2>1. Gating!Ends(a, [row EXCEPT ![Gating!About] = Gating!ResetRow(Gating!About, f, c.read, @)],
                 Gating!Back(a))
  BY <1>1, <1>2, <1>4 DEF Gating!WriteReset
<2>2. [row EXCEPT ![Gating!About] = Gating!ResetRow(Gating!About, f, c.read, @)] =
          [row EXCEPT ![Gating!About] = n]
  BY <1>3, <1>6
<2>. QED
  BY <2>1, <2>2
<1>. QED
  BY <1>1, <1>3, <1>5, <1>7, <1>8, <1>9, <1>10, RowKeeps

\* A toggle switches on what was configured when it was read.
LEMMA WriteToggleKeeps ==
  ASSUME Gating!ConstantsAssumption, ConfiguringInv, NEW a \in Admin, Gating!WriteToggle(a)
  PROVE  ConfiguringInv'
<1>1. PICK c \in ToggleCommand : c = command[a] /\ command[a] # None
                                 /\ Gating!Configured(Gating!About, c.read)
<2>1. command[a] # None /\ command[a].op = "toggle"
  BY DEF Gating!WriteToggle
<2>. QED
  BY <2>1, CommandIs, RunningFacts
<1>2. PICK r \in GateRow(Gating!About) : r = row[Gating!About]
  BY <1>1, RunningFacts
<1>3. c.gateway = Gating!About /\ c.read \in GateRow(Gating!About)
      /\ Gating!About \in Gating!Gateway
  BY <1>1, RunningFacts DEF ToggleCommand
<1>4. PICK n : n = [r EXCEPT !.active = ~c.read.active]
  OBVIOUS
<1>5. n \in GateRow(Gating!About) /\ n.index = r.index /\ n.settings = r.settings
  BY <1>3, <1>4 DEF GateRow
<1>6. torn' = (IF Gating!Raced(c) THEN torn \cup {Gating!About} ELSE torn) /\ shuffled' = shuffled
  BY <1>1, <1>3 DEF Gating!WriteToggle
<1>7. Gating!Configured(Gating!About, n) \/ Gating!About \in torn'
<2>1. CASE Gating!Raced(c)
  BY <2>1, <1>6
<2>2. CASE ~Gating!Raced(c)
  BY <2>2, <1>1, <1>2, <1>3, <1>5 DEF Gating!Raced, Gating!Configured
<2>. QED
  BY <2>1, <2>2
<1>8. Gating!Ends(a, [row EXCEPT ![Gating!About] = n], configuring[a])
<2>1. Gating!Ends(a, [row EXCEPT ![Gating!About].active = ~c.read.active], configuring[a])
  BY <1>1, <1>3 DEF Gating!WriteToggle
<2>2. [row EXCEPT ![Gating!About].active = ~c.read.active] = [row EXCEPT ![Gating!About] = n]
  BY <1>2, <1>4
<2>. QED
  BY <2>1, <2>2
<1>. QED
  BY <1>1, <1>2, <1>5, <1>6, <1>7, <1>8, RunningFacts, RowKeeps

\* A move of what is still as it was read leaves an order.
LEMMA WriteMoveKeeps ==
  ASSUME Gating!ConstantsAssumption, ConfiguringInv, NEW a \in Admin, Gating!WriteMove(a)
  PROVE  ConfiguringInv'
<1>1. PICK c : c = command[a] /\ command[a] # None
  BY DEF Gating!WriteMove
<1>2. c.gateway \in Gating!Gateway /\ \A g \in Gating!Gateway : c.read[g] \in GateRow(g)
  BY <1>1, RunningFacts DEF Gating!WriteMove, CommandOK, InputCommand, ResetCommand, ToggleCommand
<1>3. PICK place : place = Gating!Moved(c.read, c.gateway)
  OBVIOUS
<1>4. \A h \in Gating!Gateway : place[h] \in Nat
  BY <1>3, MovedIsNat
<1>5. PICK rows : rows = [h \in Gating!Gateway |-> IF place[h] = c.read[h].index THEN row[h]
                                ELSE [row[h] EXCEPT !.index = place[h]]]
  OBVIOUS
<1>6. Gating!Ends(a, rows, configuring[a]) /\ torn' = torn
      /\ shuffled' = (shuffled \/ \E h \in Gating!Gateway : row[h].index # c.read[h].index)
  BY <1>1, <1>3, <1>5 DEF Gating!WriteMove
<1>7. ASSUME NEW h \in Gating!Gateway
      PROVE  /\ rows[h] \in GateRow(h)
             /\ rows[h].active => Gating!Configured(h, rows[h]) \/ h \in torn
             /\ row[h].index = c.read[h].index => rows[h].index = place[h]
<2>1. PICK r \in GateRow(h) : r = row[h]
  BY <1>1, RunningFacts
<2>2. r.active => Gating!Configured(h, r) \/ h \in torn
  BY <1>1, <2>1, RunningFacts
<2>3. PICK i \in Nat : i = place[h]
  BY <1>4
<2>4. rows[h] = IF i = c.read[h].index THEN r ELSE [r EXCEPT !.index = i]
  BY <1>5, <2>1, <2>3
<2>. QED
  BY <2>1, <2>2, <2>3, <2>4, IndexedIs DEF Gating!Configured
<1>8. shuffled' \/ Ordered(rows)
<2> SUFFICES ASSUME ~shuffled, \A h \in Gating!Gateway : row[h].index = c.read[h].index
             PROVE  Ordered(rows)
  BY <1>6
<2>1. Ordered(c.read)
  BY <1>1, RunningFacts, SameOrder
<2>2. \A h \in Gating!Gateway : rows[h].index = Gating!Moved(c.read, c.gateway)[h]
  BY <1>3, <1>7
<2>. QED
  BY <1>2, <2>1, <2>2, MovedIsOrdered
<1>9. rows = [h \in Gating!Gateway |-> rows[h]]
  BY <1>5
<1>10. WindowOK(configuring[a])
  BY <1>1, RunningFacts
<1>. QED
  BY <1>6, <1>7, <1>8, <1>9, <1>10, EndsKeeps

\* Every step preserves the invariant of the configuration.
LEMMA ConfigInduction ==
  ASSUME Gating!ConstantsAssumption, ConfiguringInv, [Gating!Next]_(Gating!vars)
  PROVE  ConfiguringInv'
<1>1. CASE UNCHANGED Gating!vars
  BY <1>1, ConfigFrame DEF Gating!vars, Gating!config
<1>2. CASE Gating!CreateDefaults
  BY <1>2, CreateDefaultsKeeps
<1>3. ASSUME NEW a \in Admin, NEW w, Gating!SwitchTo(a, w) PROVE ConfiguringInv'
  BY <1>3, SwitchToKeeps
<1>4. ASSUME NEW a \in Admin, Gating!Select(a) PROVE ConfiguringInv'
  BY <1>4, SelectKeeps
<1>5. ASSUME NEW a \in Admin, NEW f, Gating!FieldSelect(a, f) PROVE ConfiguringInv'
  BY <1>5, FieldSelectKeeps
<1>6. ASSUME NEW a \in Admin, NEW v \in Gating!Value, Gating!BeginInput(a, v) PROVE ConfiguringInv'
  BY <1>6, BeginInputKeeps
<1>7. ASSUME NEW a \in Admin, Gating!WriteInput(a) PROVE ConfiguringInv'
  BY <1>7, WriteInputKeeps
<1>8. ASSUME NEW a \in Admin, Gating!BeginReset(a) PROVE ConfiguringInv'
  BY <1>8, BeginResetKeeps
<1>9. ASSUME NEW a \in Admin, Gating!WriteReset(a) PROVE ConfiguringInv'
  BY <1>9, WriteResetKeeps
<1>10. ASSUME NEW a \in Admin, Gating!BeginToggle(a) PROVE ConfiguringInv'
  BY <1>10, BeginToggleKeeps
<1>11. ASSUME NEW a \in Admin, Gating!WriteToggle(a) PROVE ConfiguringInv'
  BY <1>11, WriteToggleKeeps
<1>12. ASSUME NEW a \in Admin, NEW g \in Gating!Gateway, Gating!BeginMove(a, g)
       PROVE  ConfiguringInv'
  BY <1>12, BeginMoveKeeps
<1>13. ASSUME NEW a \in Admin, Gating!WriteMove(a) PROVE ConfiguringInv'
  BY <1>13, WriteMoveKeeps
<1>14. ASSUME NEW p \in Payment, Gating!Ask(p) \/ Gating!Call(p) \/ Gating!Commit(p)
       PROVE  ConfiguringInv'
  BY <1>14, ConfigFrame DEF Gating!Ask, Gating!Call, Gating!Commit
<1>15. ASSUME NEW p \in Payment, NEW word, NEW named, Gating!Says(p, word, named)
       PROVE  ConfiguringInv'
  BY <1>15, ConfigFrame DEF Gating!Says
<1>16. ASSUME NEW w \in Worker, NEW n, Gating!Receive(w, n) \/ Gating!LookupRaises(w, n)
       PROVE  ConfiguringInv'
  BY <1>16, ConfigFrame DEF Gating!Receive, Gating!LookupRaises
<1>17. CASE Gating!Rotate
  BY <1>17, ConfigFrame DEF Gating!Rotate
<1>18. ASSUME NEW w \in Worker,
              Gating!Handle(w) \/ Gating!HandleWata(w) \/ Gating!SyncMethod(w) \/ Gating!Enqueue(w)
       PROVE  ConfiguringInv'
  BY <1>18, ConfigFrame DEF Gating!Handle, Gating!HandleWata, Gating!SyncMethod, Gating!Enqueue
<1>. QED
  BY <1>1, <1>2, <1>3, <1>4, <1>5, <1>6, <1>7, <1>8, <1>9, <1>10, <1>11, <1>12, <1>13, <1>14,
     <1>15, <1>16, <1>17, <1>18 DEF Gating!Next, Gating!TestPayment

-----------------------------------------------------------------------------
\* What an adapter makes of a word is what the word means, it finds a payment by the
\* identifier it keeps, and the words it leaves alone mean nothing.
Faithful(a) ==
  /\ a.keeps = a.reads /\ a.keeps \in {"own", "theirs"}
  /\ \A w \in DOMAIN a.verdict :
       a.verdict[w] = Gating!Meaning(w)
       /\ Gating!Meaning(w) \in {"COMPLETED", "CANCELED", "REFUNDED"}
  /\ \A w \in a.ignored : Gating!Meaning(w) = "due"

\* An adapter whose words mean what its verdict says.
LEMMA FaithfulIs ==
  ASSUME NEW needs, NEW calls, NEW checks, NEW keeps \in {"own", "theirs"},
         NEW paid, NEW failed, NEW returned, NEW ignored,
         \A w \in paid : Gating!Meaning(w) = "COMPLETED",
         \A w \in failed : Gating!Meaning(w) = "CANCELED",
         \A w \in returned : Gating!Meaning(w) = "REFUNDED",
         \A w \in ignored : Gating!Meaning(w) = "due"
  PROVE  Faithful(Gating!Adapting(needs, calls, checks, keeps, keeps,
                                  Gating!Verdict(paid, failed, returned),
                           ignored))
<1>1. PICK v : v = Gating!Verdict(paid, failed, returned)
  OBVIOUS
<1>2. DOMAIN v = paid \cup failed \cup returned
  BY <1>1 DEF Gating!Verdict
<1>3. \A w \in DOMAIN v :
          v[w] = Gating!Meaning(w) /\ Gating!Meaning(w) \in {"COMPLETED", "CANCELED", "REFUNDED"}
  BY <1>1, <1>2 DEF Gating!Verdict
<1>. QED
  BY <1>1, <1>3 DEF Gating!Adapting, Faithful

\* All fourteen adapters are.
LEMMA AdaptersAreFaithful ==
  ASSUME NEW g \in Gating!Gateway PROVE Faithful(Gating!Adapter(g))
<1>1. /\ \A w \in {"succeeded", "paid", "paid_over", "success", "Settled", "Authorized",
                   "CONFIRMED", "COMPLETED", "Paid", "payment"} : Gating!Meaning(w) = "COMPLETED"
      /\ \A w \in {"canceled", "cancel", "expired", "Cancelled", "Rejected", "CANCELED",
                   "FAILED", "EXPIRED", "Declined"} : Gating!Meaning(w) = "CANCELED"
      /\ \A w \in {"CHARGEBACKED", "CHARGEBACK"} : Gating!Meaning(w) = "REFUNDED"
      /\ \A w \in {"CREATED", "PENDING", "confirm_check"} : Gating!Meaning(w) = "due"
  BY DEF Gating!Meaning
<1>2. Faithful(Gating!TelegramStars)
  BY FaithfulIs DEF Gating!TelegramStars
<1>3. Faithful(Gating!Yookassa)
  BY <1>1, FaithfulIs DEF Gating!Yookassa
<1>4. Faithful(Gating!Yoomoney)
  BY <1>1, FaithfulIs DEF Gating!Yoomoney
<1>5. Faithful(Gating!Valutix)
  BY <1>1, FaithfulIs DEF Gating!Valutix
<1>6. Faithful(Gating!Cryptomus)
  BY <1>1, FaithfulIs DEF Gating!Cryptomus
<1>7. Faithful(Gating!Heleket)
  BY <1>6 DEF Gating!Heleket
<1>8. Faithful(Gating!CryptoPay)
  BY <1>1, FaithfulIs DEF Gating!CryptoPay
<1>9. Faithful(Gating!FreeKassa)
  BY <1>1, FaithfulIs DEF Gating!FreeKassa
<1>10. Faithful(Gating!MulenPay)
  BY <1>1, FaithfulIs DEF Gating!MulenPay
<1>11. Faithful(Gating!UrlPay)
<2>1. /\ Gating!UrlPay.keeps = Gating!MulenPay.keeps /\ Gating!UrlPay.reads = Gating!MulenPay.reads
      /\ Gating!UrlPay.verdict = Gating!MulenPay.verdict
      /\ Gating!UrlPay.ignored = Gating!MulenPay.ignored
  BY DEF Gating!UrlPay, Gating!MulenPay, Gating!Adapting
<2>. QED
  BY <1>10, <2>1 DEF Faithful
<1>12. Faithful(Gating!PayMaster)
  BY <1>1, FaithfulIs DEF Gating!PayMaster
<1>13. Faithful(Gating!Platega)
  BY <1>1, FaithfulIs DEF Gating!Platega
<1>14. Faithful(Gating!Robokassa)
  BY <1>1, FaithfulIs DEF Gating!Robokassa
<1>15. Faithful(Gating!Wata)
  BY <1>1, FaithfulIs DEF Gating!Wata
<1>16. PICK i \in 1 .. 14 : g = Gating!Enum[i]
  BY RanksAre DEF Gating!Gateway
<1>17. g \in {"TELEGRAM_STARS", "YOOKASSA", "YOOMONEY", "VALUTIX", "CRYPTOMUS", "HELEKET",
              "CRYPTOPAY", "FREEKASSA", "MULENPAY", "PAYMASTER", "PLATEGA", "ROBOKASSA",
              "URLPAY", "WATA"}
  BY <1>16 DEF Gating!Enum
<1>. QED
  BY <1>2, <1>3, <1>4, <1>5, <1>6, <1>7, <1>8, <1>9, <1>10, <1>11, <1>12, <1>13, <1>14, <1>15,
     <1>17 DEF Gating!Adapter

\* The task of a notice that means something.
LEMMA TaskIs ==
  ASSUME Gating!ConstantsAssumption, begun \in Beginnings, NEW n \in GateNotice,
         Gating!Meaning(n.word) # "due"
  PROVE  /\ Gating!Task(n) = [id |-> Gating!Kept(n.payment), status |-> Gating!Meaning(n.word)]
         /\ Gating!Task(n) # None
<1>1. PICK a : a = Gating!Adapter(Gating!About) /\ Faithful(a)
  BY AboutIs, AdaptersAreFaithful
<1>2. PICK w : w = n.word
  OBVIOUS
<1>3. w \in DOMAIN a.verdict \cup a.ignored \cup {"waiting"}
  BY <1>1, <1>2 DEF GateNotice, Gating!Words
<1>4. Gating!Meaning("waiting") = "due"
  BY DEF Gating!Meaning
<1>5. w \in DOMAIN a.verdict /\ a.verdict[w] = Gating!Meaning(w)
      /\ Gating!Meaning(w) \in {"COMPLETED", "CANCELED", "REFUNDED"}
  BY <1>1, <1>2, <1>3, <1>4 DEF Faithful
<1>6. a.keeps = a.reads /\ a.keeps \in {"own", "theirs"}
  BY <1>1 DEF Faithful
<1>7. Gating!Task(n) = [id |-> Gating!Kept(n.payment), status |-> Gating!Meaning(w)]
  BY <1>1, <1>2, <1>5, <1>6 DEF Gating!Task, Gating!Kept, Gating!Name
<1>8. n.payment \in Payment
  BY DEF GateNotice
<1>9. Gating!Kept(n.payment) \in [payment : Payment, whose : {"own", "theirs"}]
  BY <1>1, <1>6, <1>8 DEF Gating!Kept, Gating!Name
<1>10. Gating!Task(n) \in [id : [payment : Payment, whose : {"own", "theirs"}],
                    status : {"COMPLETED", "CANCELED", "REFUNDED"}]
  BY <1>5, <1>7, <1>9
<1>. QED
  BY <1>2, <1>7, <1>10 DEF Gating!ConstantsAssumption

-----------------------------------------------------------------------------
\* The gateway a behaviour is about stays, and with it what webhooks and notices are.
LEMMA HookStays ==
  ASSUME begun' = begun
  PROVE  /\ Gating!About' = Gating!About /\ GateNotice' = GateNotice
         /\ \A n : NoticeOK(n)' <=> NoticeOK(n)
         /\ \A n : Gating!Task(n)' = Gating!Task(n) /\ \A p : Gating!Kept(p)' = Gating!Kept(p)
         /\ \A objects : ObjectsOK(objects)' <=> ObjectsOK(objects)
         /\ \A h, objects : HookOK(h, objects)' <=> HookOK(h, objects)
<1>1. Gating!About' = Gating!About
  BY DEF Gating!About
<1>2. GateNotice' = GateNotice
  BY <1>1 DEF GateNotice, Gating!Words
<1>3. \A n : Gating!Task(n)' = Gating!Task(n) /\ \A p : Gating!Kept(p)' = Gating!Kept(p)
  BY <1>1 DEF Gating!Task, Gating!Kept
<1>4. \A n : NoticeOK(n)' <=> NoticeOK(n)
  BY <1>2 DEF NoticeOK
<1>5. \A objects : ObjectsOK(objects)' <=> ObjectsOK(objects)
  BY <1>1 DEF ObjectsOK
<1>. QED
  BY <1>1, <1>2, <1>3, <1>4, <1>5 DEF HookOK

\* Nothing has been said.
LEMMA InitHooks == Gating!ConstantsAssumption /\ Gating!Init => WebhookInv
<1> SUFFICES ASSUME Gating!ConstantsAssumption, Gating!Init PROVE WebhookInv
  OBVIOUS
<1>1. /\ begun \in Beginnings /\ signs = "old" /\ notice = {} /\ answered = {}
      /\ adapter = [made |-> None, object |-> <<>>] /\ hook = [w \in Worker |-> None]
      /\ method = [p \in Payment |-> None]
  BY DEF Gating!Init
<1>2. <<>> \in Seq(GateObject) /\ Len(<<>>) = 0
  OBVIOUS
<1>3. ObjectInv
  BY <1>1, <1>2 DEF ObjectInv, ObjectsOK
<1>. QED
  BY <1>1, <1>3 DEF WebhookInv, NoticeInv, HookInv, Gating!AnsweredIsQueued, MethodInv,
     Gating!MethodIsOwn

\* What touches neither notices nor webhooks keeps the invariant.
LEMMA HookFrame ==
  ASSUME WebhookInv, signs' \in {"old", "new"}, UNCHANGED <<begun, adapter, Gating!hooks>>
  PROVE  WebhookInv'
<1>1. /\ begun' = begun /\ adapter' = adapter /\ method' = method /\ notice' = notice
      /\ hook' = hook /\ queued' = queued /\ answered' = answered /\ unread' = unread
      /\ crossed' = crossed
  BY DEF Gating!hooks
<1>2. ObjectInv' /\ NoticeInv' /\ HookInv'
  BY <1>1, HookStays DEF WebhookInv, ObjectInv, NoticeInv, HookInv
<1>3. Gating!AnsweredIsQueued'
  BY <1>1, HookStays DEF WebhookInv, Gating!AnsweredIsQueued
<1>4. MethodInv'
  BY <1>1 DEF WebhookInv, MethodInv, Gating!MethodIsOwn
<1>. QED
  BY <1>1, <1>2, <1>3, <1>4 DEF WebhookInv

\* Objects that remember the methods they did serve the webhooks they did.
LEMMA HookOn ==
  ASSUME NEW old, NEW new, old \in Seq(GateObject), new \in Seq(GateObject), Len(new) >= Len(old),
         \A i \in 1 .. Len(old) : new[i].method = old[i].method,
         NEW h, HookOK(h, old)
  PROVE  HookOK(h, new)
  BY DEF HookOK

\* What the factory gives.
LEMMA LookupIs ==
  ASSUME WebhookInv
  PROVE  /\ Gating!Lookup = [made |-> Gating!Lookup.made, object |-> Gating!Lookup.object]
         /\ row[Gating!About] # None \/ Gating!Lookup.made # None => Len(Gating!Lookup.object) > 0
         /\ ObjectsOK(Gating!Lookup.object) /\ Len(Gating!Lookup.object) >= Len(adapter.object)
         /\ \A i \in 1 .. Len(adapter.object) :
                Gating!Lookup.object[i].method = adapter.object[i].method
<1>1. PICK o : o = adapter.object /\ ObjectsOK(o)
  BY DEF WebhookInv, ObjectInv
<1>2. CASE adapter.made = row[Gating!About]
<2>1. Gating!Lookup = adapter
  BY <1>2 DEF Gating!Lookup
<2>2. /\ adapter = [made |-> adapter.made, object |-> adapter.object]
      /\ adapter.made # None => Len(adapter.object) > 0
  BY DEF WebhookInv, ObjectInv
<2>3. o \in Seq(GateObject)
  BY <1>1 DEF ObjectsOK
<2>. QED
  BY <1>1, <1>2, <2>1, <2>2, <2>3
<1>3. CASE adapter.made # row[Gating!About]
<2>1. PICK n : n = Append(o, Gating!NewObject)
  OBVIOUS
<2>2. Gating!Lookup = [made |-> row[Gating!About], object |-> n]
  BY <1>1, <1>3, <2>1 DEF Gating!Lookup
<2>3. Gating!NewObject \in GateObject /\ Gating!NewObject.method = None
  BY DEF Gating!NewObject, GateObject
<2>4. o \in Seq(GateObject)
  BY <1>1 DEF ObjectsOK
<2>5. n \in Seq(GateObject) /\ Len(n) = Len(o) + 1
  BY <2>1, <2>3, <2>4
<2>6. \A i \in 1 .. Len(n) : n[i] = IF i = Len(o) + 1 THEN Gating!NewObject ELSE o[i]
  BY <2>1, <2>3, <2>4
<2>7. ObjectsOK(n)
  BY <1>1, <2>3, <2>4, <2>5, <2>6 DEF ObjectsOK
<2>. QED
  BY <1>1, <2>2, <2>4, <2>5, <2>6, <2>7
<1>. QED
  BY <1>2, <1>3

\* Webhooks of an adapter that was looked up.
LEMMA LookedUp ==
  ASSUME WebhookInv, NEW w \in Worker, hook[w] # None
  PROVE  HookOK(hook[w], Gating!Lookup.object)
<1>1. HookOK(hook[w], adapter.object) /\ adapter.object \in Seq(GateObject)
  BY DEF WebhookInv, HookInv, ObjectInv, ObjectsOK
<1>2. Gating!Lookup.object \in Seq(GateObject)
  BY LookupIs DEF ObjectsOK
<1>. QED
  BY <1>1, <1>2, LookupIs, HookOn

\* The factory is asked.
LEMMA AskKeeps ==
  ASSUME WebhookInv, NEW p, Gating!Ask(p) PROVE WebhookInv'
<1>1. /\ begun' = begun /\ adapter' = Gating!Lookup /\ method' = method /\ notice' = notice
      /\ hook' = hook /\ queued' = queued /\ answered' = answered /\ unread' = unread
      /\ crossed' = crossed /\ signs' = signs
  BY DEF Gating!Ask, Gating!hooks
<1>2. ObjectInv' /\ NoticeInv'
  BY <1>1, HookStays, LookupIs DEF WebhookInv, ObjectInv, NoticeInv
<1>3. HookInv'
  BY <1>1, HookStays, LookedUp DEF WebhookInv, HookInv
<1>4. Gating!AnsweredIsQueued' /\ MethodInv'
  BY <1>1, HookStays DEF WebhookInv, Gating!AnsweredIsQueued, MethodInv, Gating!MethodIsOwn
<1>. QED
  BY <1>1, <1>2, <1>3, <1>4 DEF WebhookInv

\* The gateway says something.
LEMMA SaysKeeps ==
  ASSUME WebhookInv, NEW p \in Payment, NEW word \in Gating!Words, NEW named \in BOOLEAN,
         Gating!Says(p, word, named)
  PROVE  WebhookInv'
<1>1. /\ begun' = begun /\ adapter' = adapter /\ method' = method
      /\ hook' = hook /\ queued' = queued /\ answered' = answered /\ unread' = unread
      /\ crossed' = crossed /\ signs' = signs
  BY DEF Gating!Says
<1>2. PICK m \in {None, p} : m = IF named THEN p ELSE None
  OBVIOUS
<1>3. PICK n : n = [payment |-> p, word |-> word, method |-> m]
  OBVIOUS
<1>4. notice' = notice \cup {n}
  BY <1>2, <1>3 DEF Gating!Says
<1>5. NoticeOK(n)
  BY <1>2, <1>3 DEF NoticeOK, GateNotice
<1>6. ObjectInv' /\ NoticeInv' /\ HookInv'
  BY <1>1, <1>4, <1>5, HookStays DEF WebhookInv, ObjectInv, NoticeInv, HookInv
<1>7. Gating!AnsweredIsQueued' /\ MethodInv'
  BY <1>1, HookStays DEF WebhookInv, Gating!AnsweredIsQueued, MethodInv, Gating!MethodIsOwn
<1>. QED
  BY <1>1, <1>6, <1>7 DEF WebhookInv

\* A webhook comes in.
LEMMA ReceiveKeeps ==
  ASSUME Gating!ConstantsAssumption, WebhookInv, NEW w \in Worker, NEW n \in notice,
         Gating!Receive(w, n)
  PROVE  WebhookInv'
<1>1. /\ begun' = begun /\ adapter' = Gating!Lookup /\ method' = method /\ notice' = notice
      /\ queued' = queued /\ answered' = answered /\ unread' = unread
      /\ crossed' = crossed /\ signs' = signs
  BY DEF Gating!Receive, Gating!money
<1>2. PICK h : h =
                   [notice |-> n, object |-> Len(Gating!Lookup.object),
                    settings |-> row[Gating!About].settings,
                key |-> signs, step |-> "body", task |-> None, crossed |-> FALSE]
  OBVIOUS
<1>3. hook' = [hook EXCEPT ![w] = h]
  BY <1>2 DEF Gating!Receive, Gating!Hooked
<1>4. PICK o : o = Gating!Lookup.object
  OBVIOUS
<1>5. Len(o) \in 1 .. Len(o)
<2>1. o \in Seq(GateObject)
  BY <1>4, LookupIs DEF ObjectsOK
<2>2. row[Gating!About] # None
  BY AboutIs DEF Gating!Receive, Gating!Usable, Gating!Up, WebhookInv
<2>3. Len(o) > 0
  BY <1>4, <2>2, LookupIs
<2>. QED
  BY <2>1, <2>3
<1>6. HookOK(h, o)
  BY <1>2, <1>4, <1>5 DEF HookOK, WebhookInv, NoticeInv
<1>7. ObjectInv' /\ NoticeInv'
  BY <1>1, HookStays, LookupIs DEF WebhookInv, ObjectInv, NoticeInv
<1>8. HookInv'
<2>1. hook' = [x \in Worker |-> IF x = w THEN h ELSE hook[x]]
  BY <1>3 DEF WebhookInv, HookInv
<2>2. \A x \in Worker : hook'[x] # None => HookOK(hook'[x], o)
  BY <1>4, <1>6, <2>1, LookedUp
<2>3. hook' = [x \in Worker |-> hook'[x]]
  BY <2>1
<2>. QED
  BY <1>1, <1>4, <2>2, <2>3, HookStays DEF HookInv
<1>9. Gating!AnsweredIsQueued' /\ MethodInv'
  BY <1>1, HookStays DEF WebhookInv, Gating!AnsweredIsQueued, MethodInv, Gating!MethodIsOwn
<1>. QED
  BY <1>1, <1>7, <1>8, <1>9 DEF WebhookInv

\* What answering a notice for good asks for.
Settles(n, tasks) ==
  Gating!Meaning(n.word) # "due" =>
      [id |-> Gating!Kept(n.payment), status |-> Gating!Meaning(n.word)] \in tasks

\* A webhook ends, answered for good or not.
LEMMA EndKeeps ==
  ASSUME WebhookInv, NEW w \in Worker, NEW n, begun' = begun, signs' = signs,
         hook' = [hook EXCEPT ![w] = None], adapter' = adapter,
         UNCHANGED <<method, crossed>>, queued \subseteq queued', unread \subseteq unread',
         notice' \subseteq notice, answered' \subseteq answered \cup {n},
         n \in unread' \/ Settles(n, queued') \/ answered' = answered
  PROVE  WebhookInv'
<1>1. ObjectInv' /\ NoticeInv'
  BY HookStays DEF WebhookInv, ObjectInv, NoticeInv
<1>2. HookInv'
<2>1. hook' = [x \in Worker |-> IF x = w THEN None ELSE hook[x]]
  BY DEF WebhookInv, HookInv
<2>2. \A x \in Worker : hook'[x] # None => HookOK(hook'[x], adapter.object)
  BY <2>1 DEF WebhookInv, HookInv
<2>3. hook' = [x \in Worker |-> hook'[x]]
  BY <2>1
<2>. QED
  BY <2>2, <2>3, HookStays DEF HookInv
<1>3. Gating!AnsweredIsQueued'
<2> SUFFICES ASSUME NEW m \in answered', m \notin unread', Gating!Meaning(m.word) # "due"
             PROVE  [id |-> Gating!Kept(m.payment), status |-> Gating!Meaning(m.word)] \in queued'
  BY HookStays DEF Gating!AnsweredIsQueued
<2>1. CASE m \in answered
  BY <2>1 DEF WebhookInv, Gating!AnsweredIsQueued
<2>2. CASE m \notin answered
  BY <2>2 DEF Settles
<2>. QED
  BY <2>1, <2>2
<1>4. MethodInv'
  BY DEF WebhookInv, MethodInv, Gating!MethodIsOwn
<1>. QED
  BY <1>1, <1>2, <1>3, <1>4 DEF WebhookInv

\* A notice is answered whose gateway could not be looked up.
LEMMA LookupRaisesKeeps ==
  ASSUME WebhookInv, NEW w \in Worker, NEW n, Gating!LookupRaises(w, n)
  PROVE  WebhookInv'
<1>1. /\ begun' = begun /\ signs' = signs /\ adapter' = adapter /\ queued' = queued
      /\ UNCHANGED <<method, crossed>> /\ notice' \subseteq notice
      /\ answered' \subseteq answered \cup {n} /\ unread' = unread \cup {n}
  BY DEF Gating!LookupRaises, Gating!money
<1>2. hook' = [hook EXCEPT ![w] = None]
  BY DEF Gating!LookupRaises, WebhookInv, HookInv
<1>. QED
  BY <1>1, <1>2, EndKeeps

\* A webhook's own facts.
LEMMA HookedFacts ==
  ASSUME WebhookInv, NEW w \in Worker, hook[w] # None
  PROVE  /\ HookOK(hook[w], adapter.object) /\ NoticeOK(hook[w].notice)
         /\ hook[w].object \in 1 .. Len(adapter.object) /\ hook[w].key \in {"old", "new"}
         /\ adapter.object \in Seq(GateObject) /\ Gating!Object(w) = adapter.object[hook[w].object]
         /\ Gating!Object(w) \in GateObject
         /\ (Gating!About # "PLATEGA" => Gating!Object(w).method = None)
<1>1. HookOK(hook[w], adapter.object) /\ ObjectsOK(adapter.object)
  BY DEF WebhookInv, HookInv, ObjectInv
<1>2. hook[w].object \in 1 .. Len(adapter.object) /\ adapter.object \in Seq(GateObject)
  BY <1>1 DEF HookOK, ObjectsOK
<1>. QED
  BY <1>1, <1>2 DEF HookOK, ObjectsOK, Gating!Object

\* An object written to: objects stay objects.
\* The objects with another i-th one.
Written(new, objects, i, o) ==
  /\ Len(new) = Len(objects) /\ new \in Seq(GateObject)
  /\ \A j \in 1 .. Len(objects) : new[j] = IF j = i THEN o ELSE objects[j]

\* They are objects if the new one is.
LEMMA ObjectWritten ==
  ASSUME NEW objects, ObjectsOK(objects), NEW i, i \in 1 .. Len(objects), NEW o \in GateObject,
         Gating!About = "PLATEGA" \/ o.method = None, NEW new, new = [objects EXCEPT ![i] = o]
  PROVE  ObjectsOK(new) /\ Written(new, objects, i, o)
<1>1. objects \in Seq(GateObject)
  BY DEF ObjectsOK
<1>2. new \in Seq(GateObject) /\ Len(new) = Len(objects)
  BY <1>1
<1>3. \A j \in 1 .. Len(objects) : new[j] = IF j = i THEN o ELSE objects[j]
  BY <1>1
<1>. QED
  BY <1>2, <1>3 DEF ObjectsOK, Written

\* Writing an adapter's object.
LEMMA RemembersIs ==
  ASSUME WebhookInv, NEW w \in Worker, NEW o, Gating!Remembers(w, o)
  PROVE  adapter' = [made |-> adapter.made,
                     object |-> [adapter.object EXCEPT ![hook[w].object] = o]]
<1>1. PICK m, s : m = adapter.made /\ s = adapter.object /\ adapter = [made |-> m, object |-> s]
  BY DEF WebhookInv, ObjectInv
<1>2. adapter' = [adapter EXCEPT !.object[hook[w].object] = o]
  BY DEF Gating!Remembers
<1>. QED
  BY <1>1, <1>2

\* The webhooks of an object whose method is another now have been crossed.
LEMMA CrossedIs ==
  ASSUME WebhookInv, NEW w \in Worker, hook[w] # None, NEW x \in Worker, x # w, hook[x] # None,
         NEW o \in GateObject, Gating!About # "PLATEGA" => o.method = None,
         NEW new, new = [adapter.object EXCEPT ![hook[w].object] = o]
  PROVE  HookOK(Gating!Crossed(w)[x], new)
<1>1. HookOK(hook[x], adapter.object) /\ ObjectsOK(adapter.object)
      /\ hook[w].object \in 1 .. Len(adapter.object)
  BY HookedFacts DEF WebhookInv, ObjectInv
<1>2. PICK s : s = adapter.object
  OBVIOUS
<1>3. /\ ObjectsOK(new) /\ Len(new) = Len(s) /\ new \in Seq(GateObject)
      /\ \A j \in 1 .. Len(s) : new[j] = IF j = hook[w].object THEN o ELSE s[j]
<2>1. PICK i : i \in 1 .. Len(s) /\ i = hook[w].object
  BY <1>1, <1>2
<2>2. ObjectsOK(s) /\ new = [s EXCEPT ![i] = o]
  BY <1>1, <1>2, <2>1
<2>3. ObjectsOK(new) /\ Written(new, s, i, o)
  BY <2>1, <2>2, ObjectWritten
<2>. QED
  BY <2>1, <2>3 DEF Written
<1>4. PICK h : h = hook[x]
  OBVIOUS
<1>5. CASE h.step = "method" /\ Gating!About = "PLATEGA" /\ h.object = hook[w].object
<2>1. Gating!Crossed(w)[x] = [h EXCEPT !.crossed = TRUE]
  BY <1>4, <1>5 DEF Gating!Crossed
<2>2. PICK n, b, s1, k, st, t :
        /\ n = h.notice /\ b = h.object /\ s1 = h.settings /\ k = h.key /\ st = h.step /\ t = h.task
        /\ h = [notice |-> n, object |-> b, settings |-> s1, key |-> k, step |-> st, task |-> t,
                crossed |-> h.crossed]
  BY <1>1, <1>4 DEF HookOK
<2>3. PICK e : e = [notice |-> n, object |-> b, settings |-> s1, key |-> k, step |-> st,
                    task |-> t, crossed |-> TRUE]
  OBVIOUS
<2>4. Gating!Crossed(w)[x] = e
  BY <2>1, <2>2, <2>3
<2>5. HookOK(e, new)
  BY <1>1, <1>2, <1>3, <1>4, <2>2, <2>3 DEF HookOK
<2>. QED
  BY <2>4, <2>5
<1>6. CASE ~(h.step = "method" /\ Gating!About = "PLATEGA" /\ h.object = hook[w].object)
<2>1. Gating!Crossed(w)[x] = h
  BY <1>4, <1>6 DEF Gating!Crossed
<2>2. HookOK(h, new)
  BY <1>1, <1>2, <1>3, <1>4, <1>6 DEF HookOK
<2>. QED
  BY <2>1, <2>2
<1>. QED
  BY <1>5, <1>6

\* A webhook that is alone with what it changes.
LEMMA CrossedNone ==
  ASSUME NEW w \in Worker, NEW x \in Worker, hook[x] = None \/ x = w
  PROVE  Gating!Crossed(w)[x] = hook[x]
  BY DEF Gating!Crossed

\* A genuine notice goes to the method, to the queue, or is answered.
LEMMA ProceedsKeeps ==
  ASSUME Gating!ConstantsAssumption, WebhookInv, NEW w \in Worker, hook[w] # None,
         NEW object \in GateObject, object.method = Gating!Object(w).method,
         Gating!Proceeds(w, object),
         UNCHANGED <<begun, signs, method, queued, crossed>>
  PROVE  WebhookInv'
<1>1. PICK h : h = hook[w] /\ HookOK(h, adapter.object) /\ NoticeOK(h.notice)
  BY HookedFacts
<1>2. PICK n \in GateNotice : n = h.notice /\ n.method \in {None, n.payment}
  BY <1>1 DEF NoticeOK
<1>3. PICK o : o = Gating!Remembered(w, object)
  OBVIOUS
<1>4. /\ o \in GateObject
      /\ Gating!About # "PLATEGA" => o.method = None
      /\ Gating!About = "PLATEGA" => o.method = n.method
<2>1. CASE Gating!About = "PLATEGA"
<3>1. o = [object EXCEPT !.method = n.method]
  BY <1>1, <1>2, <1>3, <2>1 DEF Gating!Remembered
<3>2. n.method \in Payment \cup {None}
  BY DEF GateNotice
<3>. QED
  BY <3>1, <3>2, <2>1 DEF GateObject
<2>2. CASE Gating!About # "PLATEGA"
  BY <2>2, <1>3, HookedFacts DEF Gating!Remembered
<2>. QED
  BY <2>1, <2>2
<1>5. PICK new : new = [adapter.object EXCEPT ![h.object] = o]
  OBVIOUS
<1>6. adapter' = [made |-> adapter.made, object |-> new]
  BY <1>1, <1>3, <1>5, RemembersIs DEF Gating!Proceeds
<1>7. /\ ObjectsOK(new) /\ Len(new) = Len(adapter.object) /\ new \in Seq(GateObject)
      /\ new[h.object] = o
<2>1. PICK old : old = adapter.object /\ ObjectsOK(old)
  BY DEF WebhookInv, ObjectInv
<2>2. PICK i : i \in 1 .. Len(old) /\ i = h.object
  BY <1>1, <2>1, HookedFacts
<2>3. new = [old EXCEPT ![i] = o]
  BY <1>5, <2>1, <2>2
<2>4. ObjectsOK(new) /\ Written(new, old, i, o)
  BY <2>1, <2>2, <2>3, <1>4, ObjectWritten
<2>. QED
  BY <2>1, <2>2, <2>4 DEF Written
<1>8. ObjectInv'
<2>1. adapter'.object = new /\ adapter'.made = adapter.made
  BY <1>6
<2>. QED
  BY <2>1, <1>6, <1>7, HookStays DEF ObjectInv, WebhookInv
<1>9. \A x \in Worker : x # w => (hook[x] # None => HookOK(Gating!Crossed(w)[x], new))
                                 /\ (hook[x] = None => Gating!Crossed(w)[x] = None)
  BY <1>1, <1>4, <1>5, CrossedIs, CrossedNone
<1>10. PICK t : t = Gating!Task(n)
  OBVIOUS
<1>11. NoticeInv'
  BY <1>1, HookStays DEF Gating!Proceeds, WebhookInv, NoticeInv
<1>12. MethodInv'
  BY DEF WebhookInv, MethodInv, Gating!MethodIsOwn
<1>13. PICK c : c = Gating!Crossed(w) /\ c = [x \in Worker |-> c[x]]
  BY DEF Gating!Crossed
<1>14. CASE t = None
<2>1. hook' = [c EXCEPT ![w] = None] /\ answered' = answered \cup {n} /\ unread' = unread
  BY <1>1, <1>2, <1>10, <1>13, <1>14 DEF Gating!Proceeds
<2>2. hook' = [x \in Worker |-> IF x = w THEN None ELSE c[x]]
  BY <1>13, <2>1
<2>3. /\ hook' = [x \in Worker |-> hook'[x]]
      /\ \A x \in Worker : hook'[x] # None => HookOK(hook'[x], new)
  BY <1>9, <1>13, <2>2
<2>4. HookInv'
  BY <1>6, <2>3, HookStays DEF HookInv
<2>5. Gating!Meaning(n.word) = "due"
  BY <1>10, <1>14, TaskIs DEF WebhookInv
<2>6. Gating!AnsweredIsQueued'
  BY <2>1, <2>5, HookStays DEF WebhookInv, Gating!AnsweredIsQueued
<2>. QED
  BY <1>8, <1>11, <1>12, <2>4, <2>6 DEF WebhookInv
<1>15. CASE t # None
<2>1. PICK s \in {"method", "enqueue"} : s = IF o.method # None THEN "method" ELSE "enqueue"
  OBVIOUS
<2>2. hook' = [Gating!Crossed(w) EXCEPT ![w].task = t, ![w].step = s]
      /\ answered' = answered /\ unread' = unread
  BY <1>1, <1>2, <1>3, <1>10, <1>15, <2>1 DEF Gating!Proceeds
<2>3. c[w] = h
  BY <1>1, <1>13, CrossedNone
<2>4. PICK e : e = [h EXCEPT !.task = t, !.step = s]
  OBVIOUS
<2>5. hook' = [x \in Worker |-> IF x = w THEN e ELSE c[x]]
  BY <1>13, <2>2, <2>3, <2>4
<2>6. PICK b, s1, k, r, u, v :
        /\ b = h.object /\ s1 = h.settings /\ k = h.key /\ r = h.crossed
        /\ h = [notice |-> n, object |-> b, settings |-> s1, key |-> k, step |-> u,
                task |-> v, crossed |-> r]
  BY <1>1, <1>2 DEF HookOK
<2>7. e = [notice |-> n, object |-> b, settings |-> s1, key |-> k, step |-> s,
           task |-> t, crossed |-> r]
<3>1. [[h EXCEPT !.task = t] EXCEPT !.step = s] = e
  BY <2>4
<3>2. PICK g : g = [h EXCEPT !.task = t]
  OBVIOUS
<3>3. g = [notice |-> n, object |-> b, settings |-> s1, key |-> k, step |-> u,
           task |-> t, crossed |-> r]
  BY <2>6, <3>2
<3>4. [g EXCEPT !.step = s] = [notice |-> n, object |-> b, settings |-> s1, key |-> k,
                               step |-> s, task |-> t, crossed |-> r]
  BY <3>3
<3>. QED
  BY <3>1, <3>2, <3>4
<2>8. HookOK(e, new)
<3>1. b \in 1 .. Len(new) /\ k \in {"old", "new"} /\ NoticeOK(n)
  BY <1>1, <1>2, <1>7, <2>6 DEF HookOK
<3>2. s = "method" => Gating!About = "PLATEGA" /\ new[b].method = n.payment
  BY <1>2, <1>4, <1>7, <2>1, <2>6
<3>. QED
  BY <1>10, <1>15, <2>1, <2>7, <3>1, <3>2 DEF HookOK
<2>9. /\ hook' = [x \in Worker |-> hook'[x]]
      /\ \A x \in Worker : hook'[x] # None => HookOK(hook'[x], new)
  BY <1>9, <1>13, <2>5, <2>8
<2>10. HookInv'
  BY <1>6, <2>9, HookStays DEF HookInv
<2>11. Gating!AnsweredIsQueued'
  BY <2>2, HookStays DEF WebhookInv, Gating!AnsweredIsQueued
<2>. QED
  BY <1>8, <1>11, <1>12, <2>10, <2>11 DEF WebhookInv
<1>. QED
  BY <1>14, <1>15

\* A webhook ends, with a key remembered.
LEMMA RemembersKeeps ==
  ASSUME WebhookInv, NEW w \in Worker, hook[w] # None, NEW n, begun' = begun, signs' = signs,
         NEW o \in GateObject, Gating!About # "PLATEGA", o.method = Gating!Object(w).method,
         Gating!Remembers(w, o),
         hook' = [hook EXCEPT ![w] = None],
         UNCHANGED <<method, crossed>>, queued \subseteq queued', unread \subseteq unread',
         notice' \subseteq notice, answered' \subseteq answered \cup {n},
         n \in unread' \/ answered' = answered
  PROVE  WebhookInv'
<1>1. PICK new : new = [adapter.object EXCEPT ![hook[w].object] = o]
  OBVIOUS
<1>2. adapter' = [made |-> adapter.made, object |-> new]
  BY <1>1, RemembersIs
<1>3. o.method = None
  BY HookedFacts
<1>4. /\ ObjectsOK(new) /\ Len(new) = Len(adapter.object) /\ new \in Seq(GateObject)
<2>1. PICK old : old = adapter.object /\ ObjectsOK(old)
  BY DEF WebhookInv, ObjectInv
<2>2. PICK i : i \in 1 .. Len(old) /\ i = hook[w].object
  BY <2>1, HookedFacts
<2>3. new = [old EXCEPT ![i] = o]
  BY <1>1, <2>1, <2>2
<2>4. ObjectsOK(new) /\ Written(new, old, i, o)
  BY <2>1, <2>2, <2>3, <1>3, ObjectWritten
<2>. QED
  BY <2>1, <2>2, <2>4 DEF Written
<1>5. ObjectInv'
<2>1. adapter'.object = new /\ adapter'.made = adapter.made
  BY <1>2
<2>. QED
  BY <2>1, <1>2, <1>4, HookStays DEF ObjectInv, WebhookInv
<1>6. HookInv'
<2>1. hook' = [x \in Worker |-> IF x = w THEN None ELSE hook[x]]
  BY DEF WebhookInv, HookInv
<2>2. ASSUME NEW x \in Worker, hook'[x] # None PROVE HookOK(hook'[x], new)
<3>1. hook[x] # None /\ x # w /\ hook'[x] = hook[x]
  BY <2>1, <2>2
<3>2. HookOK(Gating!Crossed(w)[x], new)
  BY <3>1, <1>1, CrossedIs, <1>3
<3>3. Gating!Crossed(w)[x] = hook[x]
  BY <3>1 DEF Gating!Crossed
<3>. QED
  BY <3>1, <3>2, <3>3
<2>3. hook' = [x \in Worker |-> hook'[x]]
  BY <2>1
<2>. QED
  BY <1>2, <2>2, <2>3, HookStays DEF HookInv
<1>7. Gating!AnsweredIsQueued'
  BY HookStays DEF WebhookInv, Gating!AnsweredIsQueued
<1>8. NoticeInv' /\ MethodInv'
  BY HookStays DEF WebhookInv, NoticeInv, MethodInv, Gating!MethodIsOwn
<1>. QED
  BY <1>5, <1>6, <1>7, <1>8 DEF WebhookInv

\* The body is read and verified.
LEMMA HandleKeeps ==
  ASSUME Gating!ConstantsAssumption, WebhookInv, NEW w \in Worker, Gating!Handle(w)
  PROVE  WebhookInv'
<1>1. hook[w] # None /\ UNCHANGED <<begun, signs, method, queued, crossed>>
  BY DEF Gating!Handle, Gating!money
<1>2. CASE Gating!Right(hook[w].settings, Gating!Adapter(Gating!About).checks)
<2>1. Gating!Proceeds(w, Gating!Object(w))
  BY <1>2 DEF Gating!Handle
<2>. QED
  BY <1>1, <2>1, HookedFacts, ProceedsKeeps
<1>3. CASE ~Gating!Right(hook[w].settings, Gating!Adapter(Gating!About).checks)
<2>1. Gating!Refuses(w) /\ UNCHANGED adapter
  BY <1>3 DEF Gating!Handle
<2>. QED
  BY <1>1, <2>1, EndKeeps DEF Gating!Refuses, Gating!Hooked
<1>. QED
  BY <1>2, <1>3

\* Wata's is verified by a key that may be another by now.
LEMMA HandleWataKeeps ==
  ASSUME Gating!ConstantsAssumption, WebhookInv, NEW w \in Worker, Gating!HandleWata(w)
  PROVE  WebhookInv'
<1>1. hook[w] # None /\ UNCHANGED <<begun, signs, method, queued, crossed>>
      /\ Gating!About # "PLATEGA"
      /\ signs \in {"old", "new"}
  BY DEF Gating!HandleWata, Gating!money, WebhookInv
<1>2. PICK object \in GateObject : object = Gating!Object(w)
  BY <1>1, HookedFacts
<1>3. ASSUME NEW k \in {"old", "new"}
      PROVE  [object EXCEPT !.key = k] \in GateObject
             /\ [object EXCEPT !.key = k].method = object.method
  BY DEF GateObject
<1>4. CASE Gating!Refuses(w) /\ UNCHANGED adapter
  BY <1>1, <1>4, EndKeeps DEF Gating!Refuses, Gating!Hooked
<1>5. ASSUME NEW key \in {signs, object.key} \ {None}, 
             \/ key = hook[w].key /\ Gating!Proceeds(w, [object EXCEPT !.key = key])
             \/ /\ key # hook[w].key /\ signs = hook[w].key
                /\ Gating!Proceeds(w, [object EXCEPT !.key = signs])
             \/ /\ key # hook[w].key /\ signs # hook[w].key
                /\ Gating!Refuses(w) /\ Gating!Remembers(w, [object EXCEPT !.key = signs])
             \/ /\ key # hook[w].key
                /\ Gating!Answers(w) /\ unread' = unread \cup {hook[w].notice}
                /\ Gating!Remembers(w, [object EXCEPT !.key = key])
      PROVE  WebhookInv'
<2>1. key \in {"old", "new"}
  BY <1>1, <1>5 DEF GateObject
<2>2. CASE Gating!Proceeds(w, [object EXCEPT !.key = key])
  BY <1>1, <1>2, <1>3, <2>1, <2>2, ProceedsKeeps
<2>3. CASE Gating!Proceeds(w, [object EXCEPT !.key = signs])
  BY <1>1, <1>2, <1>3, <2>3, ProceedsKeeps
<2>4. CASE Gating!Refuses(w) /\ Gating!Remembers(w, [object EXCEPT !.key = signs])
<3>1. PICK o \in GateObject : o = [object EXCEPT !.key = signs] /\ o.method = object.method
  BY <1>1, <1>3
<3>. QED
  BY <1>1, <1>2, <2>4, <3>1, RemembersKeeps DEF Gating!Refuses, Gating!Hooked
<2>5. CASE Gating!Answers(w) /\ unread' = unread \cup {hook[w].notice}
           /\ Gating!Remembers(w, [object EXCEPT !.key = key])
<3>1. PICK o \in GateObject : o = [object EXCEPT !.key = key] /\ o.method = object.method
  BY <1>3, <2>1
<3>2. /\ hook' = [hook EXCEPT ![w] = None] /\ notice' \subseteq notice
      /\ answered' = answered \cup {hook[w].notice} /\ hook[w].notice \in unread'
  BY <2>5 DEF Gating!Answers, Gating!Hooked
<3>. QED
  BY <1>1, <1>2, <2>5, <3>1, <3>2, RemembersKeeps
<2>. QED
  BY <1>5, <2>2, <2>3, <2>4, <2>5
<1>. QED
  BY <1>2, <1>4, <1>5 DEF Gating!HandleWata

\* The method of the transaction found is stored.
LEMMA SyncMethodKeeps ==
  ASSUME Gating!ConstantsAssumption, WebhookInv, NEW w \in Worker, Gating!SyncMethod(w)
  PROVE  WebhookInv'
<1>1. /\ hook[w] # None /\ hook[w].step = "method"
      /\ UNCHANGED <<begun, signs, adapter, notice, queued, answered, unread>>
  BY DEF Gating!SyncMethod, Gating!money
<1>2. CASE Gating!Hooked(w, None) /\ UNCHANGED <<method, crossed>>
  BY <1>1, <1>2, EndKeeps DEF Gating!Hooked
<1>3. CASE ~(Gating!Hooked(w, None) /\ UNCHANGED <<method, crossed>>)
<2>1. PICK h : h = hook[w] /\ HookOK(h, adapter.object) /\ NoticeOK(h.notice)
  BY <1>1, HookedFacts
<2>2. PICK e : e = [h EXCEPT !.step = "enqueue"]
  OBVIOUS
<2>3. PICK p : p = h.notice.payment
  OBVIOUS
<2>4. /\ hook' = [hook EXCEPT ![w] = e]
      /\ \/ UNCHANGED <<method, crossed>>
         \/ /\ method' = [method EXCEPT ![p] = Gating!Object(w).method]
            /\ crossed' = IF h.crossed THEN crossed \cup {p} ELSE crossed \ {p}
  BY <1>3, <2>1, <2>2, <2>3 DEF Gating!SyncMethod, Gating!Hooked
<2>5. PICK n, b, s1, k, t, r :
        /\ n = h.notice /\ b = h.object /\ s1 = h.settings /\ k = h.key /\ r = h.crossed
        /\ t = h.task
        /\ h = [notice |-> n, object |-> b, settings |-> s1, key |-> k, step |-> h.step,
                task |-> t, crossed |-> r]
  BY <2>1 DEF HookOK
<2>6. e = [notice |-> n, object |-> b, settings |-> s1, key |-> k, step |-> "enqueue",
           task |-> t, crossed |-> r]
  BY <2>2, <2>5
<2>7. HookOK(e, adapter.object)
  BY <1>1, <2>1, <2>5, <2>6 DEF HookOK
<2>8. hook' = [x \in Worker |-> IF x = w THEN e ELSE hook[x]]
  BY <2>4 DEF WebhookInv, HookInv
<2>9. hook' = [x \in Worker |-> hook'[x]]
      /\ \A x \in Worker : hook'[x] # None => HookOK(hook'[x], adapter.object)
  BY <2>7, <2>8 DEF WebhookInv, HookInv
<2>10. HookInv'
  BY <1>1, <2>9, HookStays DEF HookInv
<2>11. MethodInv'
<3>1. CASE UNCHANGED <<method, crossed>>
  BY <3>1 DEF WebhookInv, MethodInv, Gating!MethodIsOwn
<3>2. CASE /\ method' = [method EXCEPT ![p] = Gating!Object(w).method]
           /\ crossed' = IF h.crossed THEN crossed \cup {p} ELSE crossed \ {p}
<4>1. method' = [q \in Payment |-> IF q = p THEN Gating!Object(w).method ELSE method[q]]
  BY <3>2 DEF WebhookInv, MethodInv
<4>2. ~h.crossed => Gating!Object(w).method = p
  BY <1>1, <2>1, <2>3, HookedFacts DEF HookOK
<4>3. method' = [q \in Payment |-> method'[q]]
  BY <4>1
<4>4. Gating!MethodIsOwn'
  BY <3>2, <4>1, <4>2 DEF WebhookInv, MethodInv, Gating!MethodIsOwn
<4>. QED
  BY <4>3, <4>4 DEF MethodInv
<3>. QED
  BY <2>4, <3>1, <3>2
<2>12. ObjectInv' /\ NoticeInv' /\ Gating!AnsweredIsQueued'
  BY <1>1, HookStays DEF WebhookInv, ObjectInv, NoticeInv, Gating!AnsweredIsQueued
<2>. QED
  BY <1>1, <2>10, <2>11, <2>12 DEF WebhookInv
<1>. QED
  BY <1>2, <1>3

\* The task is queued, and the notice answered.
LEMMA EnqueueKeeps ==
  ASSUME Gating!ConstantsAssumption, WebhookInv, NEW w \in Worker, Gating!Enqueue(w)
  PROVE  WebhookInv'
<1>1. /\ hook[w] # None /\ hook[w].step = "enqueue"
      /\ begun' = begun /\ signs' = signs /\ adapter' = adapter
      /\ method' = method /\ crossed' = crossed
  BY DEF Gating!Enqueue, Gating!money
<1>2. CASE Gating!Refuses(w) /\ UNCHANGED queued
  BY <1>1, <1>2, EndKeeps DEF Gating!Refuses, Gating!Hooked
<1>3. CASE Gating!Answers(w) /\ queued' = queued \cup {hook[w].task} /\ UNCHANGED unread
<2>1. PICK n \in GateNotice : n = hook[w].notice /\ hook[w].task = Gating!Task(n)
  BY <1>1, HookedFacts DEF HookOK, NoticeOK
<2>2. Settles(n, queued')
  BY <1>3, <2>1, TaskIs DEF Settles, WebhookInv
<2>3. /\ hook' = [hook EXCEPT ![w] = None] /\ notice' \subseteq notice
      /\ answered' = answered \cup {n}
  BY <1>3, <2>1 DEF Gating!Answers, Gating!Hooked
<2>. QED
  BY <1>1, <1>3, <2>2, <2>3, EndKeeps
<1>. QED
  BY <1>2, <1>3 DEF Gating!Enqueue

\* Every step preserves the invariant of the webhooks.
LEMMA HookInduction ==
  ASSUME Gating!ConstantsAssumption, WebhookInv, [Gating!Next]_(Gating!vars) PROVE WebhookInv'
<1>. signs \in {"old", "new"}
  BY DEF WebhookInv
<1>1. CASE UNCHANGED Gating!vars
  BY <1>1, HookFrame DEF Gating!vars, Gating!hooks
<1>2. ASSUME UNCHANGED <<begun, Gating!money, adapter, Gating!hooks>> PROVE WebhookInv'
  BY <1>2, HookFrame DEF Gating!money
<1>3. CASE Gating!CreateDefaults
  BY <1>2, <1>3 DEF Gating!CreateDefaults
<1>4. ASSUME NEW a \in Admin, NEW d, Gating!Turns(a, d) PROVE WebhookInv'
  BY <1>2, <1>4 DEF Gating!Turns
<1>5. ASSUME NEW a \in Admin, NEW c, Gating!Begins(a, c) PROVE WebhookInv'
  BY <1>2, <1>5 DEF Gating!Begins
<1>6. ASSUME NEW a \in Admin, NEW rows, NEW d, Gating!Ends(a, rows, d) PROVE WebhookInv'
  BY <1>2, <1>6 DEF Gating!Ends
<1>7. ASSUME NEW a \in Admin, NEW w, Gating!SwitchTo(a, w) PROVE WebhookInv'
  BY <1>4, <1>7 DEF Gating!SwitchTo
<1>8. ASSUME NEW a \in Admin, NEW f, Gating!Select(a) \/ Gating!FieldSelect(a, f) PROVE WebhookInv'
  BY <1>4, <1>8 DEF Gating!Select, Gating!FieldSelect
<1>9. ASSUME NEW a \in Admin, NEW v, Gating!BeginInput(a,
             v) \/ Gating!BeginReset(a) \/ Gating!BeginToggle(a)
      PROVE WebhookInv'
  BY <1>5, <1>9 DEF Gating!BeginInput, Gating!BeginReset, Gating!BeginToggle
<1>10. ASSUME NEW a \in Admin, NEW g, Gating!BeginMove(a, g) PROVE WebhookInv'
  BY <1>5, <1>10 DEF Gating!BeginMove
<1>11. ASSUME NEW a \in Admin, Gating!WriteInput(a) PROVE WebhookInv'
  BY <1>6, <1>11 DEF Gating!WriteInput
<1>12. ASSUME NEW a \in Admin, Gating!WriteReset(a) PROVE WebhookInv'
  BY <1>6, <1>12 DEF Gating!WriteReset
<1>13. ASSUME NEW a \in Admin, Gating!WriteToggle(a) PROVE WebhookInv'
  BY <1>6, <1>13 DEF Gating!WriteToggle
<1>14. ASSUME NEW a \in Admin, Gating!WriteMove(a) PROVE WebhookInv'
  BY <1>6, <1>14 DEF Gating!WriteMove
<1>15. ASSUME NEW p, Gating!Ask(p) PROVE WebhookInv'
  BY <1>15, AskKeeps
<1>16. ASSUME NEW p, Gating!Call(p) \/ Gating!Commit(p) PROVE WebhookInv'
  BY <1>16, HookFrame DEF Gating!Call, Gating!Commit
<1>17. ASSUME NEW p \in Payment, NEW word \in Gating!Words, NEW named \in BOOLEAN, Gating!Says(p,
              word, named)
       PROVE  WebhookInv'
  BY <1>17, SaysKeeps
<1>18. CASE Gating!Rotate
  BY <1>18, HookFrame DEF Gating!Rotate
<1>19. ASSUME NEW w \in Worker, NEW n \in notice, Gating!Receive(w, n) \/ Gating!LookupRaises(w, n)
       PROVE  WebhookInv'
  BY <1>19, ReceiveKeeps, LookupRaisesKeeps
<1>20. ASSUME NEW w \in Worker,
              Gating!Handle(w) \/ Gating!HandleWata(w) \/ Gating!SyncMethod(w) \/ Gating!Enqueue(w)
       PROVE  WebhookInv'
  BY <1>20, HandleKeeps, HandleWataKeeps, SyncMethodKeeps, EnqueueKeeps
<1>. QED
  BY <1>1, <1>3, <1>7, <1>8, <1>9, <1>10, <1>11, <1>12, <1>13, <1>14, <1>15, <1>16, <1>17,
     <1>18, <1>19, <1>20 DEF Gating!Next, Gating!TestPayment

\* Both hold throughout.
LEMMA GateInvariance ==
  ASSUME Gating!ConstantsAssumption PROVE Gating!Spec => [](ConfiguringInv /\ WebhookInv)
<1>1. Gating!Init => ConfiguringInv /\ WebhookInv
  BY InitConfig, InitHooks
<1>2. (ConfiguringInv /\ WebhookInv) /\ [Gating!Next]_(Gating!vars) =>
          (ConfiguringInv /\ WebhookInv)'
  BY ConfigInduction, HookInduction
<1>. QED
  BY <1>1, <1>2, PTL DEF Gating!Spec

\* A gateway that is offered is configured and the order is total, unless two commands met;
\* a notice read and answered became the task that finds its transaction, with the gateway's
\* verdict; a method is stored with its own payment, unless webhooks of one adapter object
\* met (configuration.py, payments.py, the adapters); for any number of administrators,
\* payments, webhooks and commands.
THEOREM GatewaysAreTrueHolds ==
  ASSUME Gating!ConstantsAssumption PROVE Gating!Spec => []GatewaysAreTrue
<1>1. ConfiguringInv /\ WebhookInv => GatewaysAreTrue
  BY OrderedIsTotal DEF ConfiguringInv, WebhookInv, MethodInv, GatewaysAreTrue
<1>. QED
  BY <1>1, GateInvariance, PTL
===============================================================================
