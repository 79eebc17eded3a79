-------------------------- MODULE PromocodeProofs --------------------------
(***************************************************************************)
(* Theorems about Promocode, for every set of users, calls and versions.   *)
(*                                                                         *)
(* The limit and the uniqueness are not inductive: that nothing is         *)
(* activated between the check and the insert of a call rests on the row   *)
(* lock it holds, and on the key share lock that the insert of a call      *)
(* which took no lock waits for.  What rewards are accounted for rests on  *)
(* a count: the units a user was given, by the calls past their grant, are *)
(* those of his row.                                                       *)
(***************************************************************************)
EXTENDS Promocode, SequenceTheorems, FiniteSetTheorems, TLAPS

\* A call past its validation knows its user and the version it saw.
CallInv == \A c \in Call : pc[c] \in Active => by[c] \in User /\ seen[c] \in Version

\* Between the lock and the commit the row is held, if it is there to hold.
LockInv ==
  \A c \in Call :
    pc[c] \in {"locked", "checked"} /\ Locks(seen[c]) /\ promo # Nothing => lock = c

\* What a call has checked stays true until it commits.
CheckInv ==
  \A c \in Call : pc[c] = "checked" /\ promo # Nothing =>
    WithinLimit(seen[c]) /\ NotUsedBy(seen[c], by[c])

\* Rewards are written as at least one unit; a call that read no subscription
\* finds one only where a unit was written.
RewardInv ==
  /\ \A n \in notices : n.units >= 1
  /\ \A c \in Call : pc[c] \in Active \ {"validated"} /\ snap[c] = Nothing /\ by[c] \in subscribed
       => row[by[c]] >= 1

IInv ==
  /\ TypeOK /\ CallInv /\ LockInv /\ CheckInv /\ RewardInv
  /\ LimitRespected /\ FirstOfItsUser /\ ConsumedIsRewarded

-----------------------------------------------------------------------------
USE DEF vars, promocode, call, reward

\* Nothing is activated and no call runs.
LEMMA InitIInv == Init => IInv
  BY ConstantsAssumption DEF Init, IInv, TypeOK, CallInv, LockInv, CheckInv, RewardInv,
     LimitRespected, FirstOfItsUser, ConsumedIsRewarded, Active

\* A reward that is given is of one unit or more.
LEMMA UnitsPositive ==
  ASSUME TypeOK, NEW c \in Call, Gives(c)
  PROVE  Units(c) \in Nat /\ Units(c) >= 1
  BY DEF TypeOK, Gives, Units

\* Calls and rewards keep their types.
LEMMA TypeStep == IInv /\ [Next]_vars => TypeOK'
<1> SUFFICES ASSUME IInv, [Next]_vars PROVE TypeOK'
  OBVIOUS
<1> USE ConstantsAssumption DEF IInv, TypeOK, CallInv, Active, Kind
<1>1. ASSUME NEW c \in Call, NEW u \in User, Validate(c, u) PROVE TypeOK'
  BY <1>1 DEF Validate
<1>2. ASSUME NEW c \in Call, ReadSubscription(c) PROVE TypeOK'
  BY <1>2 DEF ReadSubscription
<1>3. ASSUME NEW c \in Call, ApplyRemote(c) PROVE TypeOK'
<2>1. CASE OnPanel(c)
  <3>1. Units(c) \in Nat /\ Units(c) >= 1
    BY <2>1, UnitsPositive DEF OnPanel
  <3>2. by[c] \in User
    BY <1>3 DEF ApplyRemote
  <3>. QED
    BY <1>3, <3>1, <3>2 DEF ApplyRemote, GivePanel
<2>2. CASE ~OnPanel(c)
  BY <1>3, <2>2 DEF ApplyRemote
<2>. QED
  BY <2>1, <2>2
<1>4. ASSUME NEW c \in Call, RemoteRaises(c) PROVE TypeOK'
<2>1. CASE End(c, FALSE) /\ UNCHANGED <<panel, notices>>
  BY <1>4, <2>1 DEF RemoteRaises, End
<2>2. CASE OnPanel(c) /\ End(c, TRUE) /\ GivePanel(c)
  <3>1. Units(c) \in Nat /\ Units(c) >= 1
    BY <2>2, UnitsPositive DEF OnPanel
  <3>2. by[c] \in User
    BY <1>4 DEF RemoteRaises
  <3>3. /\ panel' \in [User -> Nat]
        /\ notices' \subseteq [user : User, units : Nat]
        /\ \A n \in notices' : n \in notices \/ n.units >= 1
    BY <2>2, <3>1, <3>2 DEF GivePanel
  <3>4. /\ stranded' = [stranded EXCEPT ![by[c]] = @ + 1]
        /\ pc' = [pc EXCEPT ![c] = "done"]
        /\ lock' \in {lock, Nothing}
        /\ UNCHANGED <<promo, log, by, seen, snap, subscribed, row>>
    BY <2>2 DEF End
  <3>. QED
    BY <3>2, <3>3, <3>4
<2>. QED
  BY <1>4, <2>1, <2>2 DEF RemoteRaises
<1>5. ASSUME NEW c \in Call, LockPromocode(c) PROVE TypeOK'
  BY <1>5 DEF LockPromocode
<1>6. ASSUME NEW c \in Call, CheckPasses(c) PROVE TypeOK'
  BY <1>6 DEF CheckPasses
<1>7. ASSUME NEW c \in Call, CheckRaises(c) PROVE TypeOK'
  BY <1>7 DEF CheckRaises, End
<1>8. ASSUME NEW c \in Call, Activate(c) PROVE TypeOK'
  BY <1>8 DEF Activate, Persist, Gives, Units
<1>9. ASSUME NEW c \in Call, ActivateRaises(c) PROVE TypeOK'
  BY <1>9 DEF ActivateRaises, End
<1>10. ASSUME NEW c \in Call, Stop(c) PROVE TypeOK'
  BY <1>10 DEF Stop, End
<1>11. ASSUME NEW v \in Version, UpdatePromocode(v) PROVE TypeOK'
  BY <1>11 DEF UpdatePromocode
<1>12. CASE DeletePromocode
  BY <1>12 DEF DeletePromocode
<1>13. ASSUME NEW n \in notices, SyncRemnaUser(n) PROVE TypeOK'
  BY <1>13 DEF SyncRemnaUser
<1>14. ASSUME NEW u \in User, DeleteSubscription(u) PROVE TypeOK'
  BY <1>14 DEF DeleteSubscription
<1>15. CASE UNCHANGED vars
  BY <1>15
<1>. QED
  BY <1>1, <1>2, <1>3, <1>4, <1>5, <1>6, <1>7, <1>8, <1>9, <1>10, <1>11, <1>12, <1>13, <1>14, <1>15 DEF Next, Reward, Commit

\* A call learns its user and version when it is validated.
LEMMA CallStep == IInv /\ [Next]_vars => CallInv'
<1> SUFFICES ASSUME IInv, [Next]_vars PROVE CallInv'
  OBVIOUS
<1> USE ConstantsAssumption DEF IInv, TypeOK, CallInv, Active
<1>1. ASSUME NEW c \in Call, NEW u \in User, Validate(c, u) PROVE CallInv'
  BY <1>1 DEF Validate
<1>2. ASSUME NEW c \in Call, ReadSubscription(c) PROVE CallInv'
  BY <1>2 DEF ReadSubscription
<1>3. ASSUME NEW c \in Call, ApplyRemote(c) PROVE CallInv'
  BY <1>3 DEF ApplyRemote, GivePanel, OnPanel, Gives, Units
<1>4. ASSUME NEW c \in Call, RemoteRaises(c) PROVE CallInv'
  BY <1>4 DEF RemoteRaises, End, GivePanel, OnPanel, Gives, Units
<1>5. ASSUME NEW c \in Call, LockPromocode(c) PROVE CallInv'
  BY <1>5 DEF LockPromocode
<1>6. ASSUME NEW c \in Call, CheckPasses(c) PROVE CallInv'
  BY <1>6 DEF CheckPasses
<1>7. ASSUME NEW c \in Call, CheckRaises(c) PROVE CallInv'
  BY <1>7 DEF CheckRaises, End
<1>8. ASSUME NEW c \in Call, Activate(c) PROVE CallInv'
  BY <1>8 DEF Activate, Persist, Gives, Units
<1>9. ASSUME NEW c \in Call, ActivateRaises(c) PROVE CallInv'
  BY <1>9 DEF ActivateRaises, End
<1>10. ASSUME NEW c \in Call, Stop(c) PROVE CallInv'
  BY <1>10 DEF Stop, End
<1>11. ASSUME NEW v \in Version, UpdatePromocode(v) PROVE CallInv'
  BY <1>11 DEF UpdatePromocode
<1>12. CASE DeletePromocode
  BY <1>12 DEF DeletePromocode
<1>13. ASSUME NEW n \in notices, SyncRemnaUser(n) PROVE CallInv'
  BY <1>13 DEF SyncRemnaUser
<1>14. ASSUME NEW u \in User, DeleteSubscription(u) PROVE CallInv'
  BY <1>14 DEF DeleteSubscription
<1>15. CASE UNCHANGED vars
  BY <1>15
<1>. QED
  BY <1>1, <1>2, <1>3, <1>4, <1>5, <1>6, <1>7, <1>8, <1>9, <1>10, <1>11, <1>12, <1>13, <1>14, <1>15 DEF Next, Reward, Commit

\* The lock is only released by its holder.
LEMMA LockStep == IInv /\ [Next]_vars => LockInv'
<1> SUFFICES ASSUME IInv, [Next]_vars PROVE LockInv'
  OBVIOUS
<1> USE ConstantsAssumption DEF IInv, TypeOK, CallInv, LockInv, Active, Locks
<1>1. ASSUME NEW c \in Call, NEW u \in User, Validate(c, u) PROVE LockInv'
  BY <1>1 DEF Validate
<1>2. ASSUME NEW c \in Call, ReadSubscription(c) PROVE LockInv'
  BY <1>2 DEF ReadSubscription
<1>3. ASSUME NEW c \in Call, ApplyRemote(c) PROVE LockInv'
  BY <1>3 DEF ApplyRemote, GivePanel, OnPanel, Gives, Units
<1>4. ASSUME NEW c \in Call, RemoteRaises(c) PROVE LockInv'
  BY <1>4 DEF RemoteRaises, End, GivePanel, OnPanel, Gives, Units
<1>5. ASSUME NEW c \in Call, LockPromocode(c) PROVE LockInv'
  BY <1>5 DEF LockPromocode
<1>6. ASSUME NEW c \in Call, CheckPasses(c) PROVE LockInv'
  BY <1>6 DEF CheckPasses
<1>7. ASSUME NEW c \in Call, CheckRaises(c) PROVE LockInv'
  BY <1>7 DEF CheckRaises, End
<1>8. ASSUME NEW c \in Call, Activate(c) PROVE LockInv'
  BY <1>8 DEF Activate, Persist, Gives, Units
<1>9. ASSUME NEW c \in Call, ActivateRaises(c) PROVE LockInv'
  BY <1>9 DEF ActivateRaises, End
<1>10. ASSUME NEW c \in Call, Stop(c) PROVE LockInv'
  BY <1>10 DEF Stop, End
<1>11. ASSUME NEW v \in Version, UpdatePromocode(v) PROVE LockInv'
  BY <1>11 DEF UpdatePromocode
<1>12. CASE DeletePromocode
  BY <1>12 DEF DeletePromocode
<1>13. ASSUME NEW n \in notices, SyncRemnaUser(n) PROVE LockInv'
  BY <1>13 DEF SyncRemnaUser
<1>14. ASSUME NEW u \in User, DeleteSubscription(u) PROVE LockInv'
  BY <1>14 DEF DeleteSubscription
<1>15. CASE UNCHANGED vars
  BY <1>15
<1>. QED
  BY <1>1, <1>2, <1>3, <1>4, <1>5, <1>6, <1>7, <1>8, <1>9, <1>10, <1>11, <1>12, <1>13, <1>14, <1>15 DEF Next, Reward, Commit

\* While a call that has checked holds the row nobody else inserts.
LEMMA CheckStep == IInv /\ [Next]_vars => CheckInv'
<1> SUFFICES ASSUME IInv, [Next]_vars PROVE CheckInv'
  OBVIOUS
<1> USE ConstantsAssumption DEF IInv, TypeOK, CallInv, LockInv, CheckInv, Active, Locks, WithinLimit, NotUsedBy
<1>1. ASSUME NEW c \in Call, NEW u \in User, Validate(c, u) PROVE CheckInv'
  BY <1>1 DEF Validate
<1>2. ASSUME NEW c \in Call, ReadSubscription(c) PROVE CheckInv'
  BY <1>2 DEF ReadSubscription
<1>3. ASSUME NEW c \in Call, ApplyRemote(c) PROVE CheckInv'
  BY <1>3 DEF ApplyRemote, GivePanel, OnPanel, Gives, Units
<1>4. ASSUME NEW c \in Call, RemoteRaises(c) PROVE CheckInv'
  BY <1>4 DEF RemoteRaises, End, GivePanel, OnPanel, Gives, Units
<1>5. ASSUME NEW c \in Call, LockPromocode(c) PROVE CheckInv'
  BY <1>5 DEF LockPromocode
<1>6. ASSUME NEW c \in Call, CheckPasses(c) PROVE CheckInv'
  BY <1>6 DEF CheckPasses
<1>7. ASSUME NEW c \in Call, CheckRaises(c) PROVE CheckInv'
  BY <1>7 DEF CheckRaises, End
<1>8. ASSUME NEW c \in Call, Activate(c) PROVE CheckInv'
  BY <1>8 DEF Activate, Persist, Gives, Units
<1>9. ASSUME NEW c \in Call, ActivateRaises(c) PROVE CheckInv'
  BY <1>9 DEF ActivateRaises, End
<1>10. ASSUME NEW c \in Call, Stop(c) PROVE CheckInv'
  BY <1>10 DEF Stop, End
<1>11. ASSUME NEW v \in Version, UpdatePromocode(v) PROVE CheckInv'
  BY <1>11 DEF UpdatePromocode
<1>12. CASE DeletePromocode
  BY <1>12 DEF DeletePromocode
<1>13. ASSUME NEW n \in notices, SyncRemnaUser(n) PROVE CheckInv'
  BY <1>13 DEF SyncRemnaUser
<1>14. ASSUME NEW u \in User, DeleteSubscription(u) PROVE CheckInv'
  BY <1>14 DEF DeleteSubscription
<1>15. CASE UNCHANGED vars
  BY <1>15
<1>. QED
  BY <1>1, <1>2, <1>3, <1>4, <1>5, <1>6, <1>7, <1>8, <1>9, <1>10, <1>11, <1>12, <1>13, <1>14, <1>15 DEF Next, Reward, Commit

\* Every write of a reward is of one unit or more.
LEMMA RewardStep == IInv /\ [Next]_vars => RewardInv'
<1> SUFFICES ASSUME IInv, [Next]_vars PROVE RewardInv'
  OBVIOUS
<1> USE ConstantsAssumption DEF IInv, TypeOK, CallInv, RewardInv, Active, Kind
<1>1. ASSUME NEW c \in Call, NEW u \in User, Validate(c, u) PROVE RewardInv'
  BY <1>1 DEF Validate
<1>2. ASSUME NEW c \in Call, ReadSubscription(c) PROVE RewardInv'
  BY <1>2 DEF ReadSubscription
<1>3. ASSUME NEW c \in Call, ApplyRemote(c) PROVE RewardInv'
<2>1. CASE OnPanel(c)
  <3>1. Units(c) \in Nat /\ Units(c) >= 1
    BY <2>1, UnitsPositive DEF OnPanel
  <3>2. by[c] \in User
    BY <1>3 DEF ApplyRemote
  <3>. QED
    BY <1>3, <3>1, <3>2 DEF ApplyRemote, GivePanel
<2>2. CASE ~OnPanel(c)
  BY <1>3, <2>2 DEF ApplyRemote
<2>. QED
  BY <2>1, <2>2
<1>4. ASSUME NEW c \in Call, RemoteRaises(c) PROVE RewardInv'
<2>1. CASE End(c, FALSE) /\ UNCHANGED <<panel, notices>>
  BY <1>4, <2>1 DEF RemoteRaises, End
<2>2. CASE OnPanel(c) /\ End(c, TRUE) /\ GivePanel(c)
  <3>1. Units(c) \in Nat /\ Units(c) >= 1
    BY <2>2, UnitsPositive DEF OnPanel
  <3>2. by[c] \in User
    BY <1>4 DEF RemoteRaises
  <3>3. /\ panel' \in [User -> Nat]
        /\ notices' \subseteq [user : User, units : Nat]
        /\ \A n \in notices' : n \in notices \/ n.units >= 1
    BY <2>2, <3>1, <3>2 DEF GivePanel
  <3>4. /\ stranded' = [stranded EXCEPT ![by[c]] = @ + 1]
        /\ pc' = [pc EXCEPT ![c] = "done"]
        /\ lock' \in {lock, Nothing}
        /\ UNCHANGED <<promo, log, by, seen, snap, subscribed, row>>
    BY <2>2 DEF End
  <3>. QED
    BY <3>2, <3>3, <3>4
<2>. QED
  BY <1>4, <2>1, <2>2 DEF RemoteRaises
<1>5. ASSUME NEW c \in Call, LockPromocode(c) PROVE RewardInv'
  BY <1>5 DEF LockPromocode
<1>6. ASSUME NEW c \in Call, CheckPasses(c) PROVE RewardInv'
  BY <1>6 DEF CheckPasses
<1>7. ASSUME NEW c \in Call, CheckRaises(c) PROVE RewardInv'
  BY <1>7 DEF CheckRaises, End
<1>8. ASSUME NEW c \in Call, Activate(c) PROVE RewardInv'
  BY <1>8 DEF Activate, Persist, Gives, Units
<1>9. ASSUME NEW c \in Call, ActivateRaises(c) PROVE RewardInv'
  BY <1>9 DEF ActivateRaises, End
<1>10. ASSUME NEW c \in Call, Stop(c) PROVE RewardInv'
  BY <1>10 DEF Stop, End
<1>11. ASSUME NEW v \in Version, UpdatePromocode(v) PROVE RewardInv'
  BY <1>11 DEF UpdatePromocode
<1>12. CASE DeletePromocode
  BY <1>12 DEF DeletePromocode
<1>13. ASSUME NEW n \in notices, SyncRemnaUser(n) PROVE RewardInv'
  BY <1>13 DEF SyncRemnaUser
<1>14. ASSUME NEW u \in User, DeleteSubscription(u) PROVE RewardInv'
  BY <1>14 DEF DeleteSubscription
<1>15. CASE UNCHANGED vars
  BY <1>15
<1>. QED
  BY <1>1, <1>2, <1>3, <1>4, <1>5, <1>6, <1>7, <1>8, <1>9, <1>10, <1>11, <1>12, <1>13, <1>14, <1>15 DEF Next, Reward, Commit

\* The new activation is the one the check counted for.
LEMMA LimitStep == IInv /\ [Next]_vars => LimitRespected'
<1> SUFFICES ASSUME IInv, [Next]_vars PROVE LimitRespected'
  OBVIOUS
<1> USE ConstantsAssumption DEF IInv, TypeOK, CallInv, CheckInv, LimitRespected, Active, WithinLimit
<1>1. ASSUME NEW c \in Call, NEW u \in User, Validate(c, u) PROVE LimitRespected'
  BY <1>1 DEF Validate
<1>2. ASSUME NEW c \in Call, ReadSubscription(c) PROVE LimitRespected'
  BY <1>2 DEF ReadSubscription
<1>3. ASSUME NEW c \in Call, ApplyRemote(c) PROVE LimitRespected'
  BY <1>3 DEF ApplyRemote, GivePanel, OnPanel, Gives, Units
<1>4. ASSUME NEW c \in Call, RemoteRaises(c) PROVE LimitRespected'
  BY <1>4 DEF RemoteRaises, End, GivePanel, OnPanel, Gives, Units
<1>5. ASSUME NEW c \in Call, LockPromocode(c) PROVE LimitRespected'
  BY <1>5 DEF LockPromocode
<1>6. ASSUME NEW c \in Call, CheckPasses(c) PROVE LimitRespected'
  BY <1>6 DEF CheckPasses
<1>7. ASSUME NEW c \in Call, CheckRaises(c) PROVE LimitRespected'
  BY <1>7 DEF CheckRaises, End
<1>8. ASSUME NEW c \in Call, Activate(c) PROVE LimitRespected'
  BY <1>8 DEF Activate, Persist, Gives, Units
<1>9. ASSUME NEW c \in Call, ActivateRaises(c) PROVE LimitRespected'
  BY <1>9 DEF ActivateRaises, End
<1>10. ASSUME NEW c \in Call, Stop(c) PROVE LimitRespected'
  BY <1>10 DEF Stop, End
<1>11. ASSUME NEW v \in Version, UpdatePromocode(v) PROVE LimitRespected'
  BY <1>11 DEF UpdatePromocode
<1>12. CASE DeletePromocode
  BY <1>12 DEF DeletePromocode
<1>13. ASSUME NEW n \in notices, SyncRemnaUser(n) PROVE LimitRespected'
  BY <1>13 DEF SyncRemnaUser
<1>14. ASSUME NEW u \in User, DeleteSubscription(u) PROVE LimitRespected'
  BY <1>14 DEF DeleteSubscription
<1>15. CASE UNCHANGED vars
  BY <1>15
<1>. QED
  BY <1>1, <1>2, <1>3, <1>4, <1>5, <1>6, <1>7, <1>8, <1>9, <1>10, <1>11, <1>12, <1>13, <1>14, <1>15 DEF Next, Reward, Commit

\* Appending an activation by a user with none keeps the first ones first.
LEMMA FirstOfAppended ==
  ASSUME NEW s \in Seq([user : User, seen : Version]),
         NEW e \in [user : User, seen : Version],
         NEW t, t = Append(s, e),
         \A i \in 1..Len(s) : ~s[i].seen.reusable => \A j \in 1..(i - 1) : s[j].user # s[i].user,
         ~e.seen.reusable => \A i \in 1..Len(s) : s[i].user # e.user
  PROVE  \A i \in 1..Len(t) : ~t[i].seen.reusable => \A j \in 1..(i - 1) : t[j].user # t[i].user
<1>1. Len(t) = Len(s) + 1 /\ Len(s) \in Nat
  OBVIOUS
<1>2. t[Len(s) + 1] = e /\ \A k \in 1..Len(s) : t[k] = s[k]
  OBVIOUS
<1>3. ASSUME NEW i \in 1..Len(t), ~t[i].seen.reusable, NEW j \in 1..(i - 1)
      PROVE  t[j].user # t[i].user
  <2>1. j \in 1..Len(s) /\ t[j] = s[j]
    BY <1>1, <1>2, <1>3
  <2>2. CASE i = Len(s) + 1
    BY <1>2, <1>3, <2>1, <2>2
  <2>3. CASE i \in 1..Len(s)
    <3>1. t[i] = s[i] /\ ~s[i].seen.reusable
      BY <1>2, <1>3, <2>3
    <3>2. s[j].user # s[i].user
      BY <1>3, <2>3, <3>1
    <3>. QED
      BY <2>1, <3>1, <3>2
  <2>. QED
    BY <1>1, <1>3, <2>2, <2>3
<1>. QED
  BY <1>3

\* The new activation is of a user the check did not find.
LEMMA FirstStep == IInv /\ [Next]_vars => FirstOfItsUser'
<1> SUFFICES ASSUME IInv, [Next]_vars PROVE FirstOfItsUser'
  OBVIOUS
<1> USE ConstantsAssumption DEF IInv, TypeOK, CallInv, CheckInv, FirstOfItsUser, Active, NotUsedBy
<1>1. ASSUME NEW c \in Call, NEW u \in User, Validate(c, u) PROVE FirstOfItsUser'
  BY <1>1 DEF Validate
<1>2. ASSUME NEW c \in Call, ReadSubscription(c) PROVE FirstOfItsUser'
  BY <1>2 DEF ReadSubscription
<1>3. ASSUME NEW c \in Call, ApplyRemote(c) PROVE FirstOfItsUser'
  BY <1>3 DEF ApplyRemote, GivePanel, OnPanel, Gives, Units
<1>4. ASSUME NEW c \in Call, RemoteRaises(c) PROVE FirstOfItsUser'
  BY <1>4 DEF RemoteRaises, End, GivePanel, OnPanel, Gives, Units
<1>5. ASSUME NEW c \in Call, LockPromocode(c) PROVE FirstOfItsUser'
  BY <1>5 DEF LockPromocode
<1>6. ASSUME NEW c \in Call, CheckPasses(c) PROVE FirstOfItsUser'
  BY <1>6 DEF CheckPasses
<1>7. ASSUME NEW c \in Call, CheckRaises(c) PROVE FirstOfItsUser'
  BY <1>7 DEF CheckRaises, End
<1>8. ASSUME NEW c \in Call, Activate(c) PROVE FirstOfItsUser'
<2>1. log' = Append(log, [user |-> by[c], seen |-> seen[c]])
  BY <1>8 DEF Activate
<2>2. by[c] \in User /\ seen[c] \in Version /\ NotUsedBy(seen[c], by[c])
  BY <1>8 DEF Activate
<2>3. log \in Seq([user : User, seen : Version]) /\ FirstOfItsUser
  OBVIOUS
<2>4. [user |-> by[c], seen |-> seen[c]] \in [user : User, seen : Version]
  BY <2>2
<2>5. ~seen[c].reusable => \A i \in 1..Len(log) : log[i].user # by[c]
  BY <2>2
<2> DEFINE e == [user |-> by[c], seen |-> seen[c]]
<2>6. ~e.seen.reusable => \A i \in 1..Len(log) : log[i].user # e.user
  BY <2>5
<2> HIDE DEF e
<2>7. \A i \in 1..Len(log') :
         ~log'[i].seen.reusable => \A j \in 1..(i - 1) : log'[j].user # log'[i].user
  <3>1. log' = Append(log, e) /\ e \in [user : User, seen : Version]
    BY <2>1, <2>4 DEF e
  <3>. QED
    BY ONLY <2>3, <2>6, <3>1, FirstOfAppended DEF FirstOfItsUser
<2>. QED
  BY <2>7
<1>9. ASSUME NEW c \in Call, ActivateRaises(c) PROVE FirstOfItsUser'
  BY <1>9 DEF ActivateRaises, End
<1>10. ASSUME NEW c \in Call, Stop(c) PROVE FirstOfItsUser'
  BY <1>10 DEF Stop, End
<1>11. ASSUME NEW v \in Version, UpdatePromocode(v) PROVE FirstOfItsUser'
  BY <1>11 DEF UpdatePromocode
<1>12. CASE DeletePromocode
  BY <1>12 DEF DeletePromocode
<1>13. ASSUME NEW n \in notices, SyncRemnaUser(n) PROVE FirstOfItsUser'
  BY <1>13 DEF SyncRemnaUser
<1>14. ASSUME NEW u \in User, DeleteSubscription(u) PROVE FirstOfItsUser'
  BY <1>14 DEF DeleteSubscription
<1>15. CASE UNCHANGED vars
  BY <1>15
<1>. QED
  BY <1>1, <1>2, <1>3, <1>4, <1>5, <1>6, <1>7, <1>8, <1>9, <1>10, <1>11, <1>12, <1>13, <1>14, <1>15 DEF Next, Reward, Commit

\* The activation commits with its reward, and rewards are never written back to zero.
LEMMA ConsumedStep == IInv /\ [Next]_vars => ConsumedIsRewarded'
<1> SUFFICES ASSUME IInv, [Next]_vars PROVE ConsumedIsRewarded'
  OBVIOUS
<1> USE ConstantsAssumption DEF IInv, TypeOK, CallInv, RewardInv, ConsumedIsRewarded, Active, Kind
<1>1. ASSUME NEW c \in Call, NEW u \in User, Validate(c, u) PROVE ConsumedIsRewarded'
  BY <1>1 DEF Validate
<1>2. ASSUME NEW c \in Call, ReadSubscription(c) PROVE ConsumedIsRewarded'
  BY <1>2 DEF ReadSubscription
<1>3. ASSUME NEW c \in Call, ApplyRemote(c) PROVE ConsumedIsRewarded'
  BY <1>3 DEF ApplyRemote, GivePanel, OnPanel, Gives, Units
<1>4. ASSUME NEW c \in Call, RemoteRaises(c) PROVE ConsumedIsRewarded'
  BY <1>4 DEF RemoteRaises, End, GivePanel, OnPanel, Gives, Units
<1>5. ASSUME NEW c \in Call, LockPromocode(c) PROVE ConsumedIsRewarded'
  BY <1>5 DEF LockPromocode
<1>6. ASSUME NEW c \in Call, CheckPasses(c) PROVE ConsumedIsRewarded'
  BY <1>6 DEF CheckPasses
<1>7. ASSUME NEW c \in Call, CheckRaises(c) PROVE ConsumedIsRewarded'
  BY <1>7 DEF CheckRaises, End
<1>8. ASSUME NEW c \in Call, Activate(c) PROVE ConsumedIsRewarded'
<2>1. log' = Append(log, [user |-> by[c], seen |-> seen[c]])
  BY <1>8 DEF Activate
<2>2. by[c] \in User /\ seen[c] \in Version
  BY <1>8 DEF Activate
<2>3. \A u \in User : row[u] >= 1 => row'[u] >= 1
  BY <1>8, <2>2, UnitsPositive DEF Activate, Persist
<2>4. by[c] \in subscribed' \/ seen[c].kind # "add" => row'[by[c]] >= 1
  <3>1. CASE Gives(c)
    BY <1>8, <2>2, <3>1, UnitsPositive DEF Activate, Persist
  <3>2. CASE ~Gives(c)
    <4>1. seen[c].kind = "add" /\ snap[c] = Nothing
      BY <3>2 DEF Gives
    <4>. QED
      BY <1>8, <2>3, <4>1, <2>2 DEF Activate
  <3>. QED
    BY <3>1, <3>2
<2>5. \A u \in User : u \in subscribed' => u \in subscribed \/ u = by[c]
  BY <1>8 DEF Activate
<2>6. ASSUME NEW i \in 1..Len(log'), log'[i].user \in subscribed' \/ log'[i].seen.kind # "add"
      PROVE  row'[log'[i].user] >= 1
  <3>1. CASE i = Len(log) + 1
    BY <2>1, <2>2, <2>4, <2>6, <3>1
  <3>2. CASE i \in 1..Len(log)
    <4>1. log'[i] = log[i]
      BY <2>1, <3>2
    <4>2. log[i] \in [user : User, seen : Version]
      <5>1. log \in Seq([user : User, seen : Version])
        OBVIOUS
      <5>. QED
        BY <3>2, <5>1, ElementOfSeq
    <4>3. CASE log[i].user \in subscribed \/ log[i].seen.kind # "add"
      BY <2>3, <3>2, <4>1, <4>2, <4>3
    <4>4. CASE log[i].user = by[c] /\ by[c] \in subscribed'
      BY <2>4, <4>1, <4>4
    <4>. QED
      BY <2>5, <2>6, <4>1, <4>2, <4>3, <4>4
  <3>. QED
    BY <2>1, <2>2, <3>1, <3>2
<2>. QED
  BY <2>6
<1>9. ASSUME NEW c \in Call, ActivateRaises(c) PROVE ConsumedIsRewarded'
  BY <1>9 DEF ActivateRaises, End
<1>10. ASSUME NEW c \in Call, Stop(c) PROVE ConsumedIsRewarded'
  BY <1>10 DEF Stop, End
<1>11. ASSUME NEW v \in Version, UpdatePromocode(v) PROVE ConsumedIsRewarded'
  BY <1>11 DEF UpdatePromocode
<1>12. CASE DeletePromocode
  BY <1>12 DEF DeletePromocode
<1>13. ASSUME NEW n \in notices, SyncRemnaUser(n) PROVE ConsumedIsRewarded'
  BY <1>13 DEF SyncRemnaUser
<1>14. ASSUME NEW u \in User, DeleteSubscription(u) PROVE ConsumedIsRewarded'
  BY <1>14 DEF DeleteSubscription
<1>15. CASE UNCHANGED vars
  BY <1>15
<1>. QED
  BY <1>1, <1>2, <1>3, <1>4, <1>5, <1>6, <1>7, <1>8, <1>9, <1>10, <1>11, <1>12, <1>13, <1>14, <1>15 DEF Next, Reward, Commit

-----------------------------------------------------------------------------
\* The inductive invariant holds in every reachable state.
THEOREM Invariance == Spec => []IInv
<1>1. IInv /\ [Next]_vars => IInv'
  BY TypeStep, CallStep, LockStep, CheckStep, RewardStep, LimitStep, FirstStep, ConsumedStep
  DEF IInv
<1>. QED
  BY InitIInv, <1>1, PTL DEF Spec

\* Calls, versions and rewards keep their types.
THEOREM TypeCorrect == Spec => []TypeOK
<1>1. IInv => TypeOK
  BY DEF IInv
<1>. QED
  BY Invariance, <1>1, PTL

\* However many activations run at once, and whatever is saved meanwhile, an
\* activation commits within the limit its call validated.
THEOREM LimitHolds == Spec => []LimitRespected
<1>1. IInv => LimitRespected
  BY DEF IInv
<1>. QED
  BY Invariance, <1>1, PTL

\* However often the button is pressed, a single-use promocode is activated once
\* by a user.
THEOREM FirstOfItsUserHolds == Spec => []FirstOfItsUser
<1>1. IInv => FirstOfItsUser
  BY DEF IInv
<1>. QED
  BY Invariance, <1>1, PTL

\* Whatever fails at the panel or stops, a consumed promocode gave its reward.
THEOREM ConsumedIsRewardedHolds == Spec => []ConsumedIsRewarded
<1>1. IInv => ConsumedIsRewarded
  BY DEF IInv
<1>. QED
  BY Invariance, <1>1, PTL

-----------------------------------------------------------------------------
(* RewardAccounted is not inductive either: a notice or a call under way may *)
(* still write what it carries.  Both carry no more than was given out, and  *)
(* what was given out never shrinks; of the calls under way only those count *)
(* that gave something at the panel.                                         *)

Flight == {"rewarded", "locked", "checked"}
Flying(u) == {c \in Call : by[c] = u /\ pc[c] \in Flight /\ OnPanel(c)}
Given(u) == Activations(u) + Cardinality(Flying(u)) + stranded[u]

\* Finitely many calls have begun, even of infinitely many.
StartedInv == IsFiniteSet({c \in Call : pc[c] # "new"})

\* Row, panel, notices and calls of a user hold no more than was given out to him.
Accounted(u) ==
  /\ row[u] <= Given(u) /\ panel[u] <= Given(u)
  /\ \A n \in notices : n.user = u => n.units <= Given(u)
  /\ \A c \in Call : by[c] = u /\ OnPanel(c) =>
       /\ pc[c] = "read" => Units(c) <= Given(u) + 1
       /\ pc[c] \in Flight => Units(c) <= Given(u)

AccountInv == promo # Nothing => \A u \in User : Accounted(u)

\* A step moves at most one call.
LEMMA StartedStep == TypeOK /\ StartedInv /\ [Next]_vars => StartedInv'
<1> SUFFICES ASSUME TypeOK, StartedInv, [Next]_vars PROVE StartedInv'
  OBVIOUS
<1> DEFINE Started == {c \in Call : pc[c] # "new"}
<1>1. \/ pc' = pc
      \/ \E c \in Call, x \in Active \cup {"done"} : pc' = [pc EXCEPT ![c] = x]
  BY Zenon DEF Next, Reward, Commit, Validate, ReadSubscription, ApplyRemote, RemoteRaises,
     LockPromocode, CheckPasses, CheckRaises, Activate, ActivateRaises, Stop, UpdatePromocode,
     DeletePromocode, SyncRemnaUser, DeleteSubscription, End, Active
<1>2. CASE pc' = pc
  BY <1>2 DEF StartedInv
<1>3. ASSUME NEW c \in Call, NEW x, pc' = [pc EXCEPT ![c] = x] PROVE StartedInv'
<2>1. IsFiniteSet(Started \cup {c})
  BY FS_AddElement DEF StartedInv
<2>2. Started' \subseteq Started \cup {c}
  BY <1>3 DEF TypeOK
<2>. QED
  BY <2>1, <2>2, FS_Subset DEF StartedInv
<1>. QED
  BY <1>1, <1>2, <1>3

\* What was given out is a number.
LEMMA GivenIsNat ==
  ASSUME TypeOK, StartedInv, NEW u \in User
  PROVE  /\ IsFiniteSet(Flying(u)) /\ Cardinality(Flying(u)) \in Nat
         /\ IsFiniteSet({i \in 1..Len(log) : log[i].user = u}) /\ Activations(u) \in Nat
         /\ Given(u) \in Nat
<1>1. IsFiniteSet(Flying(u)) /\ Cardinality(Flying(u)) \in Nat
<2>1. Flying(u) \subseteq {c \in Call : pc[c] # "new"}
  BY DEF Flying, Flight
<2>. QED
  BY <2>1, FS_Subset, FS_CardinalityType DEF StartedInv
<1>2. IsFiniteSet({i \in 1..Len(log) : log[i].user = u}) /\ Activations(u) \in Nat
<2>1. Len(log) \in Nat
  BY DEF TypeOK
<2>2. IsFiniteSet(1..Len(log))
  BY <2>1, FS_Interval
<2>. QED
  BY <2>2, FS_Subset, FS_CardinalityType DEF Activations
<1>. QED
  BY <1>1, <1>2 DEF Given, TypeOK

\* A call that stops counting at the panel counts as stranded.
LEMMA EndKeepsGiven ==
  ASSUME TypeOK, StartedInv, NEW c \in Call, by[c] \in User,
         pc' = [pc EXCEPT ![c] = "done"], UNCHANGED <<log, by, seen, snap>>,
         stranded' = IF pc[c] \in Flight /\ OnPanel(c)
                     THEN [stranded EXCEPT ![by[c]] = @ + 1] ELSE stranded
  PROVE  \A u \in User : Given(u)' = Given(u)
<1> SUFFICES ASSUME NEW u \in User PROVE Given(u)' = Given(u)
  OBVIOUS
<1>1. Activations(u)' = Activations(u)
  BY DEF Activations
<1>2. \A x \in Call : OnPanel(x)' = OnPanel(x)
  BY DEF OnPanel, Gives
<1>3. Cardinality(Flying(u)) \in Nat /\ IsFiniteSet(Flying(u)) /\ Activations(u) \in Nat
  BY GivenIsNat
<1>4. CASE pc[c] \in Flight /\ OnPanel(c) /\ by[c] = u
<2>1. Flying(u)' = Flying(u) \ {c} /\ c \in Flying(u)
  BY <1>2, <1>4 DEF Flying, Flight, TypeOK
<2>2. Cardinality(Flying(u)') = Cardinality(Flying(u)) - 1
  BY <2>1, <1>3, FS_RemoveElement
<2>3. stranded'[u] = stranded[u] + 1
  BY <1>4 DEF TypeOK
<2>. QED
  BY <1>1, <1>3, <2>2, <2>3 DEF Given, TypeOK
<1>5. CASE ~(pc[c] \in Flight /\ OnPanel(c) /\ by[c] = u)
<2>1. Flying(u)' = Flying(u)
  BY <1>2, <1>5 DEF Flying, Flight, TypeOK
<2>2. stranded'[u] = stranded[u]
  BY <1>5 DEF TypeOK
<2>. QED
  BY <1>1, <2>1, <2>2 DEF Given
<1>. QED
  BY <1>4, <1>5

\* A step that leaves the log, what is stranded and the calls in flight alone.
LEMMA SameGiven ==
  ASSUME UNCHANGED <<log, stranded>>, \A u \in User : Flying(u)' = Flying(u)
  PROVE  \A u \in User : Given(u)' = Given(u)
  BY DEF Given, Activations

\* What a call gives at the panel counts from then on.
LEMMA ApplyGives ==
  ASSUME TypeOK, StartedInv, NEW c \in Call, by[c] \in User, ApplyRemote(c)
  PROVE  \A u \in User : Given(u)' = IF OnPanel(c) /\ u = by[c] THEN Given(u) + 1 ELSE Given(u)
<1> SUFFICES ASSUME NEW u \in User
             PROVE  Given(u)' = IF OnPanel(c) /\ u = by[c] THEN Given(u) + 1 ELSE Given(u)
  OBVIOUS
<1>1. Activations(u)' = Activations(u) /\ stranded' = stranded
  BY DEF ApplyRemote, Activations
<1>2. \A x \in Call : OnPanel(x)' = OnPanel(x)
  BY DEF ApplyRemote, OnPanel, Gives
<1>3. /\ Cardinality(Flying(u)) \in Nat /\ IsFiniteSet(Flying(u)) /\ Activations(u) \in Nat
      /\ stranded[u] \in Nat
  BY GivenIsNat DEF TypeOK
<1>4. CASE OnPanel(c) /\ u = by[c]
<2>1. Flying(u)' = Flying(u) \cup {c} /\ c \notin Flying(u)
  BY <1>2, <1>4 DEF ApplyRemote, Flying, Flight, TypeOK
<2>2. Cardinality(Flying(u)') = Cardinality(Flying(u)) + 1
  BY <2>1, <1>3, FS_AddElement
<2>. QED
  BY <1>1, <1>3, <1>4, <2>2 DEF Given
<1>5. CASE ~(OnPanel(c) /\ u = by[c])
<2>1. Flying(u)' = Flying(u)
  BY <1>2, <1>5 DEF ApplyRemote, Flying, Flight, TypeOK
<2>. QED
  BY <1>1, <1>5, <2>1 DEF Given
<1>. QED
  BY <1>4, <1>5

\* What was given before the panel's answer was lost is stranded.
LEMMA RaiseGives ==
  ASSUME TypeOK, StartedInv, NEW c \in Call, by[c] \in User, pc[c] = "read",
         pc' = [pc EXCEPT ![c] = "done"], UNCHANGED <<log, by, seen, snap>>,
         stranded' = [stranded EXCEPT ![by[c]] = @ + 1]
  PROVE  \A u \in User : Given(u)' = IF u = by[c] THEN Given(u) + 1 ELSE Given(u)
<1> SUFFICES ASSUME NEW u \in User
             PROVE  Given(u)' = IF u = by[c] THEN Given(u) + 1 ELSE Given(u)
  OBVIOUS
<1>1. Activations(u)' = Activations(u)
  BY DEF Activations
<1>2. \A x \in Call : OnPanel(x)' = OnPanel(x)
  BY DEF OnPanel, Gives
<1>3. /\ Cardinality(Flying(u)) \in Nat /\ Activations(u) \in Nat /\ stranded[u] \in Nat
  BY GivenIsNat DEF TypeOK
<1>4. Flying(u)' = Flying(u)
  BY <1>2 DEF Flying, Flight, TypeOK
<1>5. stranded'[u] = IF u = by[c] THEN stranded[u] + 1 ELSE stranded[u]
  BY DEF TypeOK
<1>. QED
  BY <1>1, <1>3, <1>4, <1>5 DEF Given

\* An activation takes the place of the call that made it.
LEMMA ActivateGives ==
  ASSUME TypeOK, StartedInv, NEW c \in Call, by[c] \in User, seen[c] \in Version, Activate(c)
  PROVE  \A u \in User :
           Given(u)' = IF u = by[c] /\ ~OnPanel(c) THEN Given(u) + 1 ELSE Given(u)
<1> SUFFICES ASSUME NEW u \in User
             PROVE  Given(u)' = IF u = by[c] /\ ~OnPanel(c) THEN Given(u) + 1 ELSE Given(u)
  OBVIOUS
<1> DEFINE Own == {i \in 1..Len(log) : log[i].user = u}
<1>1. /\ Cardinality(Flying(u)) \in Nat /\ IsFiniteSet(Flying(u)) /\ stranded[u] \in Nat
      /\ Activations(u) \in Nat /\ IsFiniteSet(Own)
  BY GivenIsNat DEF TypeOK
<1>2. stranded' = stranded /\ \A x \in Call : OnPanel(x)' = OnPanel(x)
  BY DEF Activate, OnPanel, Gives
<1>3. /\ Len(log) \in Nat /\ Len(log') = Len(log) + 1
      /\ \A i \in 1..Len(log) : log'[i] = log[i]
      /\ log'[Len(log) + 1].user = by[c]
<2>1. log \in Seq([user : User, seen : Version])
  BY DEF TypeOK
<2>. QED
  BY <2>1 DEF Activate
<1>4. Own' = IF u = by[c] THEN Own \cup {Len(log) + 1} ELSE Own
  BY <1>3
<1>5. Len(log) + 1 \notin Own
  BY <1>3
<1>6. Activations(u)' = IF u = by[c] THEN Activations(u) + 1 ELSE Activations(u)
  BY <1>1, <1>4, <1>5, FS_AddElement DEF Activations
<1>7. Flying(u)' = Flying(u) \ {c}
  BY <1>2 DEF Activate, Flying, Flight, TypeOK
<1>8. c \in Flying(u) <=> u = by[c] /\ OnPanel(c)
  BY DEF Activate, Flying, Flight
<1>9. Cardinality(Flying(u)') =
        IF u = by[c] /\ OnPanel(c) THEN Cardinality(Flying(u)) - 1 ELSE Cardinality(Flying(u))
  BY <1>1, <1>7, <1>8, FS_RemoveElement
<1>. QED
  BY <1>1, <1>2, <1>6, <1>9 DEF Given

\* A step that gives nothing more away, and moves a call at most out of its read.
LEMMA AccountStays ==
  ASSUME NEW u, Accounted(u), Given(u)' = Given(u),
         UNCHANGED <<row, panel, by, seen, snap>>, notices' \subseteq notices,
         \A c \in Call : \/ pc'[c] = pc[c]
                        \/ pc'[c] \notin {"read"} \cup Flight
                        \/ (pc[c] \in Flight /\ pc'[c] \in Flight)
  PROVE  Accounted(u)'
<1>1. \A c \in Call : (OnPanel(c)' <=> OnPanel(c)) /\ Units(c)' = Units(c)
  BY DEF OnPanel, Gives, Units
<1>. QED
  BY <1>1 DEF Accounted, Flight

\* A step that raises what was given to a user, and touches nothing of a call but pc[c].
LEMMA AccountGrows ==
  ASSUME TypeOK, StartedInv, NEW u \in User, Accounted(u), NEW k \in {0, 1},
         Given(u)' = Given(u) + k,
         UNCHANGED <<by, seen, snap>>,
         row'[u] = row[u] \/ row'[u] <= Given(u) + k,
         panel'[u] = panel[u] \/ panel'[u] <= Given(u) + k,
         \A n \in notices' : n \in notices \/ (n.user = u => n.units <= Given(u) + k),
         \A c \in Call : \/ pc'[c] = pc[c]
                        \/ pc'[c] \notin {"read"} \cup Flight
                        \/ (pc[c] = "read" /\ (by[c] = u /\ OnPanel(c) => k = 1)),
         \A c \in Call : by[c] = u /\ OnPanel(c) => Units(c) \in Nat
  PROVE  Accounted(u)'
<1>1. \A c \in Call : (OnPanel(c)' <=> OnPanel(c)) /\ Units(c)' = Units(c)
  BY DEF OnPanel, Gives, Units
<1>2. Given(u) \in Nat /\ row[u] \in Nat /\ panel[u] \in Nat /\ \A n \in notices : n.units \in Nat
  BY GivenIsNat DEF TypeOK
<1>3. row'[u] <= Given(u)' /\ panel'[u] <= Given(u)'
  BY <1>2 DEF Accounted
<1>4. \A n \in notices' : n.user = u => n.units <= Given(u)'
  BY <1>2 DEF Accounted
<1>5. ASSUME NEW c \in Call, by[c] = u, OnPanel(c)
      PROVE  /\ pc'[c] = "read" => Units(c) <= Given(u)' + 1
             /\ pc'[c] \in Flight => Units(c) <= Given(u)'
  BY <1>2, <1>5 DEF Accounted, Flight
<1>. QED
  BY <1>1, <1>3, <1>4, <1>5 DEF Accounted

\* Every step but the deletion, which takes the activations with it, keeps the account.
LEMMA AccountStep == IInv /\ StartedInv /\ AccountInv /\ [Next]_vars => AccountInv'
<1> SUFFICES ASSUME IInv, StartedInv, AccountInv, [Next]_vars, promo' # Nothing, NEW u \in User
             PROVE  Accounted(u)'
  BY DEF AccountInv
<1> USE ConstantsAssumption DEF IInv
<1>1. promo # Nothing => Accounted(u)
  BY DEF AccountInv
<1>2. Given(u) \in Nat /\ row[u] \in Nat /\ panel[u] \in Nat
  BY GivenIsNat DEF TypeOK
<1>3. \A c \in Call : pc[c] \in Active => by[c] \in User /\ seen[c] \in Version
  BY DEF CallInv
<1>4. \A c \in Call : OnPanel(c) => Units(c) \in Nat /\ Units(c) >= 1
  BY UnitsPositive DEF OnPanel
<1>5. ASSUME NEW c \in Call, NEW v \in User, Validate(c, v) PROVE Accounted(u)'
<2>1. \A x \in Call : x # c => /\ pc'[x] = pc[x] /\ by'[x] = by[x]
                              /\ (OnPanel(x)' <=> OnPanel(x)) /\ Units(x)' = Units(x)
  BY <1>5 DEF Validate, TypeOK, OnPanel, Gives, Units
<2>2. pc[c] = "new" /\ pc'[c] = "validated"
  BY <1>5 DEF Validate, TypeOK
<2>3. \A w \in User : Flying(w)' = Flying(w)
  BY <2>1, <2>2 DEF Flying, Flight
<2>4. Given(u)' = Given(u)
  BY <1>5, <2>3, SameGiven DEF Validate
<2>. QED
  BY <1>5, <1>1, <2>1, <2>2, <2>4 DEF Validate, Accounted, Flight
<1>6. ASSUME NEW c \in Call, ReadSubscription(c) PROVE Accounted(u)'
<2>1. \A x \in Call : x # c => /\ pc'[x] = pc[x]
                              /\ (OnPanel(x)' <=> OnPanel(x)) /\ Units(x)' = Units(x)
  BY <1>6 DEF ReadSubscription, TypeOK, OnPanel, Gives, Units
<2>2. pc[c] = "validated" /\ pc'[c] = "read"
  BY <1>6 DEF ReadSubscription, TypeOK
<2>3. \A w \in User : Flying(w)' = Flying(w)
  BY <1>6, <2>1, <2>2 DEF ReadSubscription, Flying, Flight
<2>4. Given(u)' = Given(u)
  BY <1>6, <2>3, SameGiven DEF ReadSubscription
<2>5. by[c] = u /\ OnPanel(c)' => Units(c)' <= Given(u) + 1
  BY <1>6, <1>1, <1>2 DEF ReadSubscription, Accounted, OnPanel, Gives, Units, TypeOK
<2>. QED
  BY <1>6, <1>1, <2>1, <2>2, <2>4, <2>5 DEF ReadSubscription, Accounted, Flight
<1>7. ASSUME NEW c \in Call, ApplyRemote(c) PROVE Accounted(u)'
<2>1. by[c] \in User /\ pc[c] = "read" /\ pc' = [pc EXCEPT ![c] = "rewarded"] /\ Accounted(u)
  BY <1>7, <1>1, <1>3 DEF ApplyRemote, Active
<2>2. UNCHANGED <<row, by, seen, snap>>
  BY <1>7 DEF ApplyRemote
<2> DEFINE k == IF OnPanel(c) /\ u = by[c] THEN 1 ELSE 0
<2>3. Given(u)' = Given(u) + k
  BY <1>2, <1>7, <2>1, ApplyGives
<2>4. u = by[c] /\ OnPanel(c) => Units(c) <= Given(u) + 1
  BY <2>1 DEF Accounted
<2>5. panel'[u] = panel[u] \/ panel'[u] <= Given(u) + k
  BY <1>7, <2>4 DEF ApplyRemote, GivePanel, TypeOK
<2>6. \A n \in notices' : n \in notices \/ (n.user = u => n.units <= Given(u) + k)
  BY <1>7, <2>4 DEF ApplyRemote, GivePanel
<2>7. \A x \in Call : pc'[x] = pc[x] \/ (pc[x] = "read" /\ (by[x] = u /\ OnPanel(x) => k = 1))
  BY <2>1 DEF TypeOK
<2> HIDE DEF k
<2>8. k \in {0, 1}
  BY DEF k
<2>. QED
  BY <1>4, <2>1, <2>2, <2>3, <2>5, <2>6, <2>7, <2>8, AccountGrows
<1>8. ASSUME NEW c \in Call, RemoteRaises(c) PROVE Accounted(u)'
<2>1. by[c] \in User /\ pc[c] = "read"
  BY <1>8, <1>3 DEF RemoteRaises, Active
<2>2. CASE End(c, FALSE) /\ UNCHANGED <<panel, notices>>
  <3>1. /\ Accounted(u) /\ UNCHANGED <<log, row, by, seen, snap, stranded>>
        /\ pc' = [pc EXCEPT ![c] = "done"]
    BY <1>1, <2>2 DEF End
  <3>2. Given(u)' = Given(u)
    BY <2>1, <3>1, EndKeepsGiven DEF Flight
  <3>. QED
    BY <2>2, <3>2, <3>1, AccountStays DEF TypeOK, Flight
<2>3. CASE OnPanel(c) /\ End(c, TRUE) /\ GivePanel(c)
  <3> DEFINE k == IF u = by[c] THEN 1 ELSE 0
  <3>1. /\ Accounted(u) /\ UNCHANGED <<log, row, by, seen, snap>>
        /\ pc' = [pc EXCEPT ![c] = "done"] /\ stranded' = [stranded EXCEPT ![by[c]] = @ + 1]
    BY <1>1, <2>3 DEF End
  <3>2. Given(u)' = Given(u) + k
    <4>1. \A v \in User : Given(v)' = IF v = by[c] THEN Given(v) + 1 ELSE Given(v)
      BY <2>1, <3>1, RaiseGives
    <4>. QED
      BY <1>2, <4>1
  <3>3. u = by[c] => Units(c) <= Given(u) + 1
    BY <2>1, <2>3, <3>1 DEF Accounted
  <3>4. panel'[u] = panel[u] \/ panel'[u] <= Given(u) + k
    BY <2>3, <3>3 DEF GivePanel, TypeOK
  <3>5. \A n \in notices' : n \in notices \/ (n.user = u => n.units <= Given(u) + k)
    BY <2>3, <3>3 DEF GivePanel
  <3>6. \A x \in Call : pc'[x] = pc[x] \/ pc'[x] \notin {"read"} \cup Flight
    BY <3>1 DEF TypeOK, Flight
  <3> HIDE DEF k
  <3>7. k \in {0, 1}
    BY DEF k
  <3>. QED
    BY <1>4, <3>2, <3>1, <3>4, <3>5, <3>6, <3>7, AccountGrows
<2>. QED
  BY <1>8, <2>2, <2>3 DEF RemoteRaises
<1>9. ASSUME NEW c \in Call, LockPromocode(c) \/ CheckPasses(c) PROVE Accounted(u)'
<2>1. /\ pc[c] \in Flight /\ \E x \in Flight : pc' = [pc EXCEPT ![c] = x]
      /\ UNCHANGED <<promo, log, stranded, row, panel, by, seen, snap, notices>>
  BY <1>9 DEF LockPromocode, CheckPasses, Flight
<2>2. \A w \in User : Flying(w)' = Flying(w)
  BY <2>1 DEF Flying, Flight, OnPanel, Gives, TypeOK
<2>3. Given(u)' = Given(u)
  BY <2>1, <2>2, SameGiven
<2>. QED
  BY <1>1, <2>1, <2>3, AccountStays DEF TypeOK
<1>10. ASSUME NEW c \in Call, CheckRaises(c) \/ ActivateRaises(c) \/ Stop(c) PROVE Accounted(u)'
<2>1. /\ UNCHANGED <<log, row, panel, notices, by, seen, snap>> /\ pc' = [pc EXCEPT ![c] = "done"]
      /\ stranded' = IF pc[c] \in Flight /\ OnPanel(c)
                     THEN [stranded EXCEPT ![by[c]] = @ + 1] ELSE stranded
  BY <1>10 DEF CheckRaises, ActivateRaises, Stop, End, Flight
<2>2. by[c] \in User
  BY <1>3, <1>10 DEF CheckRaises, ActivateRaises, Stop, Active
<2>3. Given(u)' = Given(u)
  BY <2>1, <2>2, EndKeepsGiven
<2>4. Accounted(u)
  BY <1>1, <1>10 DEF CheckRaises, ActivateRaises, Stop, End
<2>. QED
  BY <2>1, <2>3, <2>4, AccountStays DEF TypeOK, Flight
<1>11. ASSUME NEW c \in Call, Activate(c) PROVE Accounted(u)'
<2>1. /\ by[c] \in User /\ seen[c] \in Version /\ pc[c] = "checked" /\ Accounted(u)
      /\ pc' = [pc EXCEPT ![c] = "done"] /\ UNCHANGED <<panel, by, seen, snap, notices>>
  BY <1>1, <1>3, <1>11 DEF Activate, Active
<2> DEFINE k == IF u = by[c] /\ ~OnPanel(c) THEN 1 ELSE 0
<2>2. Given(u)' = Given(u) + k
  BY <1>2, <1>11, <2>1, ActivateGives
<2>3. u = by[c] /\ OnPanel(c) => Units(c) <= Given(u)
  BY <2>1 DEF Accounted, Flight
<2>4. Gives(c) /\ ~OnPanel(c) => Units(c) = 1
  BY DEF OnPanel, Units
<2>5. row'[u] = row[u] \/ row'[u] <= Given(u) + k
  BY <1>2, <1>11, <2>3, <2>4 DEF Activate, Persist, TypeOK
<2>6. \A x \in Call : pc'[x] = pc[x] \/ pc'[x] \notin {"read"} \cup Flight
  BY <2>1 DEF TypeOK, Flight
<2> HIDE DEF k
<2>7. k \in {0, 1}
  BY DEF k
<2>. QED
  BY <1>4, <2>1, <2>2, <2>5, <2>6, <2>7, AccountGrows
<1>12. ASSUME NEW v \in Version, UpdatePromocode(v) PROVE Accounted(u)'
<2>1. UNCHANGED <<log, stranded, pc, row, panel, by, seen, snap, notices>> /\ promo # Nothing
  BY <1>12 DEF UpdatePromocode
<2>2. Given(u)' = Given(u)
  BY <2>1, SameGiven DEF Flying, OnPanel, Gives
<2>. QED
  BY <1>1, <2>1, <2>2, AccountStays
<1>13. CASE DeletePromocode
  BY <1>13 DEF DeletePromocode
<1>14. ASSUME NEW n \in notices, SyncRemnaUser(n) PROVE Accounted(u)'
<2>1. /\ UNCHANGED <<promo, log, stranded, pc, panel, by, seen, snap>> /\ notices' \subseteq notices
      /\ row' = [row EXCEPT ![n.user] = n.units]
  BY <1>14 DEF SyncRemnaUser
<2>2. Given(u)' = Given(u)
  BY <2>1, SameGiven DEF Flying, OnPanel, Gives
<2>3. row'[u] = row[u] \/ row'[u] <= Given(u)
  BY <1>1, <2>1 DEF Accounted, TypeOK
<2>4. Given(u) = Given(u) + 0 /\ 0 \in {0, 1}
  BY <1>2
<2>. QED
  BY <1>1, <1>4, <2>1, <2>2, <2>3, <2>4, AccountGrows
<1>15. ASSUME NEW v \in User, DeleteSubscription(v) PROVE Accounted(u)'
<2>1. /\ UNCHANGED <<promo, log, stranded, pc, row, by, seen, snap, notices>>
      /\ panel' = [panel EXCEPT ![v] = 0]
  BY <1>15 DEF DeleteSubscription
<2>2. Given(u)' = Given(u)
  BY <2>1, SameGiven DEF Flying, OnPanel, Gives
<2>3. panel'[u] = panel[u] \/ panel'[u] <= Given(u)
  BY <1>2, <2>1 DEF TypeOK
<2>4. Given(u) = Given(u) + 0 /\ 0 \in {0, 1}
  BY <1>2
<2>. QED
  BY <1>1, <1>4, <2>1, <2>2, <2>3, <2>4, AccountGrows
<1>16. CASE UNCHANGED vars
<2>1. Given(u)' = Given(u)
  BY <1>16, SameGiven DEF Flying, OnPanel, Gives
<2>. QED
  BY <1>1, <1>16, <2>1, AccountStays
<1>. QED
  BY <1>5, <1>6, <1>7, <1>8, <1>9, <1>10, <1>11, <1>12, <1>13, <1>14, <1>15, <1>16
  DEF Next, Reward, Commit

\* Whatever fails, stops or is redelivered, nobody holds more units than were activated for
\* him, are being activated, or were stranded at the panel (activate.py).
THEOREM RewardAccountedHolds == Spec => []RewardAccounted
<1>1. Init => StartedInv /\ AccountInv
<2> SUFFICES ASSUME Init PROVE StartedInv /\ AccountInv
  OBVIOUS
<2>1. TypeOK /\ {c \in Call : pc[c] # "new"} = {}
  BY InitIInv DEF Init, IInv
<2>2. StartedInv
  BY <2>1, FS_EmptySet DEF StartedInv
<2>3. \A u \in User : Given(u) \in Nat
  BY <2>1, <2>2, GivenIsNat
<2>. QED
  BY <2>2, <2>3 DEF Init, AccountInv, Accounted, Flight
<1>2. IInv => TypeOK
  BY DEF IInv
<1>3. StartedInv /\ AccountInv /\ IInv /\ [Next]_vars => (StartedInv /\ AccountInv)'
  BY <1>2, StartedStep, AccountStep
<1>4. IInv /\ StartedInv /\ AccountInv => RewardAccounted
<2> SUFFICES ASSUME IInv, StartedInv, AccountInv, promo # Nothing, NEW u \in User
             PROVE  LET given == Activations(u) + InFlight(u) + stranded[u]
                    IN  row[u] <= given /\ panel[u] <= given
  BY DEF RewardAccounted
<2> DEFINE Flown == {c \in Call : by[c] = u /\ pc[c] \in {"rewarded", "locked", "checked"}}
<2>1. TypeOK /\ Accounted(u)
  BY <1>2 DEF AccountInv
<2>2. /\ Cardinality(Flying(u)) \in Nat /\ Activations(u) \in Nat /\ stranded[u] \in Nat
      /\ row[u] \in Nat /\ panel[u] \in Nat
  BY <2>1, GivenIsNat DEF TypeOK
<2>3. Flown \subseteq {c \in Call : pc[c] # "new"} /\ Flying(u) \subseteq Flown
  BY DEF Flying, Flight
<2>4. IsFiniteSet(Flown)
  BY <2>3, FS_Subset DEF StartedInv
<2>5. Cardinality(Flown) \in Nat /\ Cardinality(Flying(u)) <= Cardinality(Flown)
  BY <2>3, <2>4, FS_Subset, FS_CardinalityType
<2>. QED
  BY <2>1, <2>2, <2>5 DEF Accounted, Given, InFlight
<1>. QED
  BY Invariance, <1>1, <1>3, <1>4, PTL DEF Spec
=============================================================================
