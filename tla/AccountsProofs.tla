--------------------------- MODULE AccountsProofs ---------------------------
(***************************************************************************)
(* Theorems about Settings, for every set of accounts and requests, and    *)
(* about the codes and the link as AccountsMC composes them with it.       *)
(*                                                                         *)
(* That the cache is stale only after a race is not inductive: it rests on *)
(* the cache being empty, or filled around the update, from the moment a   *)
(* command that changes the row has dropped it until its commit.           *)
(***************************************************************************)
EXTENDS AccountsMC, TLAPS

\* A request past its read holds a row that was committed once, as does the table.
CopyInv ==
  /\ row \in seen
  /\ \A c \in Call : call[c].step \in {"read", "have"} \cup Open => call[c].copy \in seen

\* Only a racing reader fills the cache between the drop and the commit.
DropInv ==
  \A c \in Call : call[c].step = "invalidated" /\ Changed(c) # call[c].copy
                  => cache = None \/ raced

\* Who was read off the waitlist is told before it is emptied.
ToldInv == \A c \in Call : call[c].step = "dispatched" => call[c].members \subseteq told

IInv ==
  /\ TypeOK /\ CopyInv /\ DropInv /\ ToldInv
  /\ KeysAreKept /\ StaleOnlyByRace /\ CacheWasCommitted /\ NoticeBeforeClear

-----------------------------------------------------------------------------
USE DEF vars, history, Open, Restoring, AnyKind

\* No request has come and nothing is cached.
LEMMA InitIInv == Init => IInv
<1> SUFFICES ASSUME Init PROVE IInv
  OBVIOUS
<1>1. TypeOK
  BY DEF Init, TypeOK, CallState, NoCall, Row
<1>2. CopyInv /\ DropInv /\ ToldInv
  BY DEF Init, CopyInv, DropInv, ToldInv, NoCall
<1>3. KeysAreKept /\ StaleOnlyByRace /\ CacheWasCommitted /\ NoticeBeforeClear
  BY DEF Init, KeysAreKept, StaleOnlyByRace, CacheWasCommitted, NoticeBeforeClear
<1>. QED
  BY <1>1, <1>2, <1>3 DEF IInv

\* What a command makes of its copy is a row.
LEMMA ChangedIsRow ==
  ASSUME TypeOK, NEW c \in Call, call[c].copy \in Row PROVE Changed(c) \in Row
  BY DEF TypeOK, Changed, CallState, Row

\* What a commit makes of the row is a row, the same one when nothing changed.
LEMMA MergedIsRow ==
  ASSUME TypeOK, NEW c \in Call, call[c].copy \in Row
  PROVE  /\ Merged(c) \in Row
         /\ Changed(c) = call[c].copy => Merged(c) = row
<1>1. Changed(c) \in Row
  BY ChangedIsRow
<1>. QED
  BY <1>1 DEF TypeOK, Merged, Row

\* A request that goes to its next step stays one.
LEMMA ToKeepsType ==
  ASSUME TypeOK, NEW c \in Call,
         NEW step \in {"have", "done", "failed"} \cup Open \cup Restoring, To(c, step)
  PROVE  call' \in [Call -> CallState]
<1>1. [call[c] EXCEPT !.step = step] \in CallState
  BY DEF TypeOK, CallState
<1>. QED
  BY <1>1 DEF TypeOK, To

\* Requests and rows keep their types.
LEMMA TypeStep == ConstantsAssumption /\ IInv /\ [Next]_vars => TypeOK'
<1> SUFFICES ASSUME ConstantsAssumption, IInv, [Next]_vars PROVE TypeOK'
  OBVIOUS
<1> USE DEF IInv, TypeOK, CallState
<1>1. ASSUME NEW c \in Call, NEW kind \in Kinds, NEW ids \in SUBSET Person, Begin(c, kind, ids)
      PROVE TypeOK'
  BY <1>1 DEF Begin, NoCall, ConstantsAssumption
<1>2. ASSUME NEW c \in Call, Lookup(c) PROVE TypeOK'
  BY <1>2 DEF Lookup
<1>3. ASSUME NEW c \in Call, ReadRow(c) PROVE TypeOK'
  BY <1>3 DEF ReadRow
<1>4. ASSUME NEW c \in Call, Fill(c) PROVE TypeOK'
  BY <1>4, ToKeepsType DEF Fill
<1>5. ASSUME NEW c \in Call, Write(c) PROVE TypeOK'
  BY <1>5, ToKeepsType DEF Write
<1>6. ASSUME NEW c \in Call, Invalidate(c) PROVE TypeOK'
  BY <1>6, ToKeepsType DEF Invalidate
<1>7. ASSUME NEW c \in Call, Commit(c) PROVE TypeOK'
<2>1. call[c].copy \in Row
  BY <1>7 DEF Commit, CopyInv
<2>2. Changed(c) \in Row /\ Merged(c) \in Row
  BY <2>1, ChangedIsRow, MergedIsRow
<2>3. row' \in Row /\ seen' \in SUBSET Row
  BY <1>7, <2>2 DEF Commit
<2>4. last' \in [mode : {"public", "restricted"}, payments : BOOLEAN]
  BY <1>7, <2>1, <2>2 DEF Commit, Row
<2>5. user' \in [Person -> {"none", "member", "blocked"}]
  BY <1>7 DEF Commit
<2>6. banned' \in SUBSET Person
  BY <1>7 DEF Commit
<2>7. call' \in [Call -> CallState]
  BY <1>7, ToKeepsType DEF Commit
<2>. QED
  BY <1>7, <2>3, <2>4, <2>5, <2>6, <2>7 DEF Commit
<1>8. ASSUME NEW c \in Call, Raise(c) PROVE TypeOK'
  BY <1>8, ToKeepsType DEF Raise
<1>9. ASSUME NEW c \in Call, CheckAccess(c) PROVE TypeOK'
  BY <1>9, ToKeepsType DEF CheckAccess
<1>10. ASSUME NEW c \in Call, Register(c) PROVE TypeOK'
  BY <1>10, ToKeepsType DEF Register
<1>11. ASSUME NEW c \in Call, ReadMembers(c) PROVE TypeOK'
<2>1. \A step \in {"done", "members"} :
        [call[c] EXCEPT !.members = waitlist, !.step = step] \in CallState
  OBVIOUS
<2>2. call' \in [Call -> CallState]
  BY <1>11, <2>1 DEF ReadMembers
<2>. QED
  BY <1>11, <2>2 DEF ReadMembers
<1>12. ASSUME NEW c \in Call, Dispatch(c) PROVE TypeOK'
<2>1. call[c].members \subseteq Person
  OBVIOUS
<2>. QED
  BY <1>12, <2>1, ToKeepsType DEF Dispatch
<1>13. ASSUME NEW c \in Call, Clear(c) PROVE TypeOK'
  BY <1>13, ToKeepsType DEF Clear
<1>14. CASE Expire
  BY <1>14 DEF Expire
<1>15. CASE UNCHANGED vars
  BY <1>15
<1>. QED
  BY <1>1, <1>2, <1>3, <1>4, <1>5, <1>6, <1>7, <1>8, <1>9, <1>10, <1>11, <1>12, <1>13,
     <1>14, <1>15 DEF Next

\* Copies are of committed rows: the table's own, or one the cache holds.
LEMMA CopyStep == IInv /\ [Next]_vars => CopyInv'
<1> SUFFICES ASSUME IInv, [Next]_vars PROVE CopyInv'
  OBVIOUS
<1> USE DEF IInv, CopyInv
<1>t. /\ call \in [Call -> CallState] /\ seen \in SUBSET Row
  BY DEF TypeOK
<1>1. ASSUME NEW c \in Call, NEW kind \in Kinds, NEW ids \in SUBSET Person, Begin(c, kind, ids)
      PROVE CopyInv'
  BY <1>t, <1>1 DEF Begin, NoCall
<1>2. ASSUME NEW c \in Call, Lookup(c) PROVE CopyInv'
  BY <1>t, <1>2 DEF Lookup, CacheWasCommitted, CallState
<1>3. ASSUME NEW c \in Call, ReadRow(c) PROVE CopyInv'
  BY <1>t, <1>3 DEF ReadRow, CallState
<1>4. ASSUME NEW c \in Call, Fill(c) PROVE CopyInv'
  BY <1>t, <1>4 DEF Fill, To, CallState
<1>5. ASSUME NEW c \in Call, Write(c) PROVE CopyInv'
  BY <1>t, <1>5 DEF Write, To, CallState
<1>6. ASSUME NEW c \in Call, Invalidate(c) PROVE CopyInv'
  BY <1>t, <1>6 DEF Invalidate, To, CallState
<1>7. ASSUME NEW c \in Call, Commit(c) PROVE CopyInv'
  BY <1>t, <1>7 DEF Commit, To, CallState
<1>8. ASSUME NEW c \in Call, Raise(c) PROVE CopyInv'
  BY <1>t, <1>8 DEF Raise, To, CallState
<1>9. ASSUME NEW c \in Call, CheckAccess(c) PROVE CopyInv'
  BY <1>t, <1>9 DEF CheckAccess, To, CallState
<1>10. ASSUME NEW c \in Call, Register(c) PROVE CopyInv'
  BY <1>t, <1>10 DEF Register, To, CallState
<1>11. ASSUME NEW c \in Call, ReadMembers(c) PROVE CopyInv'
  BY <1>t, <1>11 DEF ReadMembers, CallState
<1>12. ASSUME NEW c \in Call, Dispatch(c) PROVE CopyInv'
  BY <1>t, <1>12 DEF Dispatch, To, CallState
<1>13. ASSUME NEW c \in Call, Clear(c) PROVE CopyInv'
  BY <1>t, <1>13 DEF Clear, To, CallState
<1>14. CASE Expire
  BY <1>14 DEF Expire
<1>15. CASE UNCHANGED vars
  BY <1>15
<1>. QED
  BY <1>1, <1>2, <1>3, <1>4, <1>5, <1>6, <1>7, <1>8, <1>9, <1>10, <1>11, <1>12, <1>13,
     <1>14, <1>15 DEF Next

\* A command that leaves its copy alone is in the same state but for its step.
LEMMA ChangedStays ==
  ASSUME TypeOK, NEW d \in Call, call'[d].kind = call[d].kind, call'[d].copy = call[d].copy,
         call'[d].ids = call[d].ids, call'[d].known = call[d].known
  PROVE  Changed(d)' = Changed(d)
  BY DEF Changed

\* Between drop and commit the cache is empty or filled by a racing reader.
LEMMA DropStep == IInv /\ [Next]_vars => DropInv'
<1> SUFFICES ASSUME IInv, [Next]_vars,
                    NEW d \in Call, call'[d].step = "invalidated",
                    Changed(d)' # call'[d].copy, cache' # None
             PROVE  raced'
  BY DEF DropInv
<1> USE DEF IInv
<1>t. call \in [Call -> CallState]
  BY DEF TypeOK
\* No step but these three changes the cache or the marks of a command.
<1>s. ASSUME call[d].step = "invalidated", Changed(d)' = Changed(d),
             call'[d].copy = call[d].copy, UNCHANGED <<cache, raced>>
      PROVE  raced'
  BY <1>s DEF DropInv
<1>k. ASSUME NEW c \in Call, NEW step, To(c, step), UNCHANGED <<cache, raced>>,
             c = d => call[d].step = "invalidated"
      PROVE  raced'
<2>1. /\ call'[d].kind = call[d].kind /\ call'[d].copy = call[d].copy
      /\ call'[d].ids = call[d].ids /\ call'[d].known = call[d].known
  BY <1>t, <1>k DEF To, CallState
<2>2. call[d].step = "invalidated"
  BY <1>t, <1>k DEF To, CallState
<2>. QED
  BY <2>1, <2>2, <1>s, <1>k, ChangedStays
<1>1. ASSUME NEW c \in Call, NEW kind \in Kinds, NEW ids \in SUBSET Person, Begin(c, kind, ids)
      PROVE raced'
<2>1. c # d
  BY <1>t, <1>1 DEF Begin, NoCall, CallState
<2>2. call'[d] = call[d]
  BY <1>t, <1>1, <2>1 DEF Begin
<2>. QED
  BY <1>1, <1>s, <2>2, ChangedStays DEF Begin
<1>2. ASSUME NEW c \in Call, Lookup(c) PROVE raced'
<2>1. c # d
  BY <1>t, <1>2 DEF Lookup, CallState
<2>2. call'[d] = call[d]
  BY <1>t, <1>2, <2>1 DEF Lookup
<2>. QED
  BY <1>2, <1>s, <2>2, ChangedStays DEF Lookup
<1>3. ASSUME NEW c \in Call, ReadRow(c) PROVE raced'
<2>1. c # d
  BY <1>t, <1>3 DEF ReadRow, CallState
<2>2. call'[d] = call[d]
  BY <1>t, <1>3, <2>1 DEF ReadRow
<2>. QED
  BY <1>3, <1>s, <2>2, ChangedStays DEF ReadRow
<1>4. ASSUME NEW c \in Call, Fill(c) PROVE raced'
<2>1. call[d].step = "invalidated"
  BY <1>t, <1>4 DEF Fill, To, CallState
<2>. QED
  BY <1>4, <2>1 DEF Fill
<1>5. ASSUME NEW c \in Call, Write(c) PROVE raced'
<2>1. CASE c = d
  <3>1. ~Updates(d)
    BY <1>t, <1>5, <2>1 DEF Write, To, CallState
  <3>2. Changed(d) = call[d].copy
    BY <3>1 DEF Updates
  <3>3. Changed(d)' = Changed(d) /\ call'[d].copy = call[d].copy
    BY <1>t, <1>5, ChangedStays DEF Write, To, CallState
  <3>. QED
    BY <3>2, <3>3
<2>2. CASE c # d
  BY <1>5, <1>k, <2>2 DEF Write
<2>. QED
  BY <2>1, <2>2
<1>6. ASSUME NEW c \in Call, Invalidate(c) PROVE raced'
  BY <1>6 DEF Invalidate
<1>7. ASSUME NEW c \in Call, Commit(c) PROVE raced'
  BY <1>7, <1>k DEF Commit
<1>8. ASSUME NEW c \in Call, Raise(c) PROVE raced'
<2>1. c # d
  BY <1>t, <1>8 DEF Raise, To, CallState
<2>. QED
  BY <1>8, <1>k, <2>1 DEF Raise
<1>9. ASSUME NEW c \in Call, CheckAccess(c) PROVE raced'
<2>1. c # d
  BY <1>t, <1>9 DEF CheckAccess, To, CallState
<2>. QED
  BY <1>9, <1>k, <2>1 DEF CheckAccess
<1>10. ASSUME NEW c \in Call, Register(c) PROVE raced'
<2>1. c # d
  BY <1>t, <1>10 DEF Register, To, CallState
<2>. QED
  BY <1>10, <1>k, <2>1 DEF Register
<1>11. ASSUME NEW c \in Call, ReadMembers(c) PROVE raced'
<2>1. c # d
  BY <1>t, <1>11 DEF ReadMembers, CallState
<2>2. call'[d] = call[d]
  BY <1>t, <1>11, <2>1 DEF ReadMembers
<2>. QED
  BY <1>11, <1>s, <2>2, ChangedStays DEF ReadMembers
<1>12. ASSUME NEW c \in Call, Dispatch(c) PROVE raced'
<2>1. c # d
  BY <1>t, <1>12 DEF Dispatch, To, CallState
<2>. QED
  BY <1>12, <1>k, <2>1 DEF Dispatch
<1>13. ASSUME NEW c \in Call, Clear(c) PROVE raced'
<2>1. c # d
  BY <1>t, <1>13 DEF Clear, To, CallState
<2>. QED
  BY <1>13, <1>k, <2>1 DEF Clear
<1>14. CASE Expire
  BY <1>14 DEF Expire
<1>15. CASE UNCHANGED vars
  BY <1>15, <1>s, ChangedStays
<1>. QED
  BY <1>1, <1>2, <1>3, <1>4, <1>5, <1>6, <1>7, <1>8, <1>9, <1>10, <1>11, <1>12, <1>13,
     <1>14, <1>15 DEF Next

-----------------------------------------------------------------------------
\* Only a commit changes what the last commands set, and it changes the row with it.
LEMMA KeysStep == IInv /\ [Next]_vars => KeysAreKept'
<1> SUFFICES ASSUME IInv, [Next]_vars PROVE KeysAreKept'
  OBVIOUS
<1>1. ASSUME NEW c \in Call, Commit(c) PROVE KeysAreKept'
<2>1. call[c].copy \in Row /\ row \in Row /\ call[c] \in CallState
  BY <1>1 DEF Commit, IInv, CopyInv, TypeOK
<2>2. call[c].kind # "payments" => Changed(c).payments = call[c].copy.payments
  BY <2>1 DEF Changed, Row, CallState
<2>3. call[c].kind = "payments" => Changed(c).payments # call[c].copy.payments
  BY <2>1 DEF Changed, Row, CallState
<2>. QED
  BY <1>1, <2>1, <2>2, <2>3 DEF Commit, Merged, KeysAreKept, IInv
<1>2. CASE UNCHANGED <<row, last>>
  BY <1>2 DEF KeysAreKept, IInv
<1>. QED
  BY <1>1, <1>2 DEF Next, Begin, Lookup, ReadRow, Fill, Write, Invalidate, Raise,
     CheckAccess, Register, ReadMembers, Dispatch, Clear, Expire

\* A commit replaces the row the cache holds only after a race: without one the
\* cache is empty, or nothing changes.
LEMMA CacheStep == IInv /\ [Next]_vars => StaleOnlyByRace' /\ CacheWasCommitted'
<1> SUFFICES ASSUME IInv, [Next]_vars PROVE StaleOnlyByRace' /\ CacheWasCommitted'
  OBVIOUS
<1> USE DEF StaleOnlyByRace, CacheWasCommitted
<1>1. ASSUME NEW c \in Call, Commit(c) PROVE StaleOnlyByRace' /\ CacheWasCommitted'
<2>1. call[c].copy \in Row
  BY <1>1 DEF Commit, IInv, CopyInv, TypeOK
<2>2. Changed(c) = call[c].copy => Merged(c) = row
  BY <2>1, MergedIsRow DEF IInv
<2>3. Changed(c) # call[c].copy => cache = None \/ raced
  BY <1>1 DEF Commit, IInv, DropInv
<2>. QED
  BY <1>1, <2>2, <2>3 DEF Commit, IInv
<1>2. ASSUME NEW c \in Call, Fill(c) PROVE StaleOnlyByRace' /\ CacheWasCommitted'
<2>1. call[c].copy \in seen
  BY <1>2 DEF Fill, IInv, CopyInv
<2>. QED
  BY <1>2, <2>1 DEF Fill
<1>3. CASE cache' = None
  BY <1>3
<1>4. CASE UNCHANGED <<cache, row, raced, seen>>
  BY <1>4 DEF IInv
<1>. QED
  BY <1>1, <1>2, <1>3, <1>4 DEF Next, Begin, Lookup, ReadRow, Write, Invalidate, Raise,
     CheckAccess, Register, ReadMembers, Dispatch, Clear, Expire

\* The list is emptied only by who has dispatched the notice of all he read there.
LEMMA NoticeStep == IInv /\ [Next]_vars => ToldInv' /\ NoticeBeforeClear'
<1> SUFFICES ASSUME IInv, [Next]_vars PROVE ToldInv' /\ NoticeBeforeClear'
  OBVIOUS
<1> USE DEF ToldInv, NoticeBeforeClear
<1>t. call \in [Call -> CallState]
  BY DEF IInv, TypeOK
<1>o. /\ \A d \in Call : call[d].step = "dispatched" => call[d].members \subseteq told
      /\ dropped = {}
  BY DEF IInv
<1>1. ASSUME NEW c \in Call, Clear(c) PROVE ToldInv' /\ NoticeBeforeClear'
<2>1. call[c].members \subseteq told
  BY <1>1, <1>o DEF Clear
<2>2. dropped' = {}
  BY <1>1, <1>o, <2>1 DEF Clear
<2>. QED
  BY <1>1, <1>o, <1>t, <2>2 DEF Clear, To, CallState
<1>2. ASSUME NEW c \in Call, Dispatch(c) PROVE ToldInv' /\ NoticeBeforeClear'
  BY <1>2, <1>o, <1>t DEF Dispatch, To, CallState
<1>3. ASSUME UNCHANGED <<told, dropped>>, NEW c \in Call, NEW state,
             state.step # "dispatched", call' = [call EXCEPT ![c] = state]
      PROVE  ToldInv' /\ NoticeBeforeClear'
  BY <1>3, <1>o, <1>t
<1>4. CASE UNCHANGED <<told, dropped, call>>
  BY <1>4, <1>o
<1>5. ASSUME NEW c \in Call, NEW step, step # "dispatched", To(c, step),
             UNCHANGED <<told, dropped>>
      PROVE  ToldInv' /\ NoticeBeforeClear'
  BY <1>5, <1>o, <1>t DEF To, CallState
<1>6. ASSUME NEW c \in Call, NEW kind \in Kinds, NEW ids \in SUBSET Person,
             Begin(c, kind, ids)
      PROVE  ToldInv' /\ NoticeBeforeClear'
  BY <1>6, <1>o, <1>t DEF Begin, NoCall
<1>7. ASSUME NEW c \in Call, Lookup(c) \/ ReadRow(c) \/ ReadMembers(c)
      PROVE  ToldInv' /\ NoticeBeforeClear'
  BY <1>7, <1>o, <1>t DEF Lookup, ReadRow, ReadMembers, CallState
<1>8. ASSUME NEW c \in Call,
             Fill(c) \/ Write(c) \/ Invalidate(c) \/ Commit(c) \/ Raise(c)
               \/ CheckAccess(c) \/ Register(c)
      PROVE  ToldInv' /\ NoticeBeforeClear'
  BY <1>8, <1>5 DEF Fill, Write, Invalidate, Commit, Raise, CheckAccess, Register
<1>. QED
  BY <1>1, <1>2, <1>4, <1>6, <1>7, <1>8 DEF Next, Expire

-----------------------------------------------------------------------------
\* IInv is inductive.
LEMMA Induction == ConstantsAssumption /\ IInv /\ [Next]_vars => IInv'
<1> SUFFICES ASSUME ConstantsAssumption, IInv, [Next]_vars PROVE IInv'
  OBVIOUS
<1>1. TypeOK'
  BY TypeStep
<1>2. CopyInv' /\ DropInv'
  BY CopyStep, DropStep
<1>3. KeysAreKept' /\ StaleOnlyByRace' /\ CacheWasCommitted'
  BY KeysStep, CacheStep
<1>4. ToldInv' /\ NoticeBeforeClear'
  BY NoticeStep
<1>. QED
  BY <1>1, <1>2, <1>3, <1>4 DEF IInv

\* The inductive invariant holds in every reachable state.
LEMMA Invariance == ASSUME ConstantsAssumption PROVE Spec => []IInv
<1>1. Init => IInv
  BY InitIInv
<1>2. IInv /\ [Next]_vars => IInv'
  BY Induction
<1>. QED
  BY <1>1, <1>2, PTL DEF Spec

\* A change of one key is never undone by a command on another key (MergedIsRow is
\* where the statement of update comes in): whatever copies the commands work on.
THEOREM KeysAreKeptHolds == ASSUME ConstantsAssumption PROVE Spec => []KeysAreKept
<1>1. IInv => KeysAreKept
  BY DEF IInv
<1>. QED
  BY <1>1, Invariance, PTL

\* invalidate_cache around update leaves a stale row in the cache only to a reader
\* that fills it around an update.
THEOREM StaleOnlyByRaceHolds ==
  ASSUME ConstantsAssumption PROVE Spec => []StaleOnlyByRace
<1>1. IInv => StaleOnlyByRace
  BY DEF IInv
<1>. QED
  BY <1>1, Invariance, PTL

\* TogglePayments takes nobody off the waitlist it read before his notice is dispatched.
THEOREM NoticeBeforeClearHolds == ASSUME ConstantsAssumption PROVE Spec => []NoticeBeforeClear
<1>1. IInv => NoticeBeforeClear
  BY DEF IInv
<1>. QED
  BY <1>1, Invariance, PTL

-----------------------------------------------------------------------------
(* The codes, as AccountsMC composes them with the rest. *)

codesInv == Codes!IInv /\ Codes!SpentInv /\ Codes!CounterInv

\* A behaviour moves the codes as EmailCode does or lets them rest.
LEMMA CodesMoveOrRest == AccountsNext => Codes!Next \/ UNCHANGED codes
<1>1. CodesNext => Codes!Next
  BY DEF CodesNext, CodesMove, Codes!Next
<1>2. SetNext => UNCHANGED codes
  BY DEF SetNext, SetMove
<1>3. LinksNext => UNCHANGED codes
  BY DEF LinksNext, LinksMove
<1>. QED
  BY <1>1, <1>2, <1>3 DEF AccountsNext

\* So what is inductive of EmailCode is invariant here.
LEMMA CodesInvariance == AccountsSpec => []codesInv
<1>a. Codes!ConstantsAssumption
  BY AccountsAssumption
<1>1. AccountsInit => codesInv
  BY <1>a, Codes!InitIInv, Codes!InitSpentInv, Codes!InitCounterInv DEF AccountsInit, codesInv
<1>2. codesInv /\ [AccountsNext]_<<part, codes, vars, links>> => codesInv'
  <2>1. [AccountsNext]_<<part, codes, vars, links>> => [Codes!Next]_(Codes!vars)
    <3>1. UNCHANGED codes => UNCHANGED Codes!vars
      BY DEF codes, Codes!vars, Codes!stores, Codes!history
    <3>. QED
      BY <3>1, CodesMoveOrRest
  <2>. QED
    BY <1>a, <2>1, Codes!Induction, Codes!SpentInduction, Codes!CounterInduction DEF codesInv
<1>. QED
  BY <1>1, <1>2, PTL DEF AccountsSpec

\* A code is stored only after its mail was delivered, whoever asks for it meanwhile.
THEOREM StoredWasDeliveredHolds == AccountsSpec => []StoredWasDelivered
<1>1. codesInv => StoredWasDelivered
  BY DEF codesInv, Codes!IInv, StoredWasDelivered
<1>. QED
  BY <1>1, CodesInvariance, PTL

\* A spent code lets no later login in, and its attempts are counted for as long as it lives.
THEOREM SpentOnceHolds == AccountsSpec => []SpentOnce
<1>1. codesInv => SpentOnce
<2> SUFFICES ASSUME Codes!SpentInv, Codes!CounterInv PROVE SpentOnce
  BY DEF codesInv
<2>1. Codes!CounterOutlivesCode
  BY DEF Codes!CounterInv
<2>2. Codes!SpentOnce
  BY Codes!SpentIsOnce
<2>. QED
  BY <2>1, <2>2 DEF SpentOnce
<1>. QED
  BY <1>1, CodesInvariance, PTL
-----------------------------------------------------------------------------
(* The link, as AccountsMC composes it with the rest.  That a merge loses nothing and *)
(* that the panel knows the account rest on what each request holds of its donor from *)
(* one statement to the next, and on no two requests holding the same.                *)

\* A request has re-pointed the first of its donor's rows and is not committed; it
\* has deleted him.
Begun(c) == link[c].step \in Links!Merging \ {"found"}
Late(c) == link[c].step \in {"deleted", "chosen"}

\* Who holds an account: one user, a Telegram user his own.
HolderInv ==
  /\ \A u \in Web : profile[u] # None /\ profile[u].credentials
  /\ \A u \in Shell : profile[u] # None => profile[u].tg = u
  /\ \A u \in Shell : buyer[u] # None => buyer[u].tg = u
  /\ \A u, v \in Links!User : profile[u] # None /\ profile[v] # None /\ profile[u].tg # None
       /\ profile[u].tg = profile[v].tg => u = v

\* Whom a request concerns.
RequestInv == \A c \in Link :
  /\ link[c].step \in Links!Merging =>
       link[c].actor \in Web /\ link[c].donor \in Shell /\ link[c].tg = link[c].donor
  /\ link[c].step = "plain" => link[c].actor \in Web /\ link[c].tg \in Shell
  /\ link[c].step = "committed" => link[c].actor \in Web
  /\ link[c].step \in {"committed", "done"} /\ link[c].actor # None =>
       profile[link[c].actor].tg # None

\* No two requests re-point rows of one donor, nor write one survivor.
AloneInv == \A c, d \in Link : c # d =>
  /\ Begun(c) /\ Begun(d) => link[c].donor # link[d].donor
  /\ Late(c) /\ Late(d) => link[c].actor # link[d].actor

\* What a request re-points is its donor's, the rest of his is raced.
ShareInv == \A c \in Link : Begun(c) =>
  /\ link[c].subs \subseteq Links!Owned(link[c].donor)
  /\ Links!Owned(link[c].donor) \ link[c].subs \subseteq crossed
  /\ link[c].step # "subs" =>
       /\ \A t \in link[c].txns : txn[t] = link[c].donor
       /\ \A t \in Txn : txn[t] = link[c].donor => t \in link[c].txns \cup crossed

\* What a request chose among is still what the survivor will own.
ChosenInv == \A c \in Link : link[c].step = "chosen" =>
  /\ link[c].listed = Links!Listed(c)
  /\ IF link[c].listed = {} THEN link[c].current = None ELSE link[c].current \in link[c].listed

\* The panel knows what Telegram users own, and will know what a request listed.
PanelInv ==
  /\ \A u \in Shell : Links!Owned(u) \subseteq panel
  /\ \A c \in Link : link[c].step = "committed" =>
       Links!Owned(link[c].actor) \ crossed \subseteq panel \cup link[c].listed

LinkInv ==
  /\ Links!TypeOK /\ HolderInv /\ RequestInv /\ AloneInv /\ ShareInv /\ ChosenInv /\ PanelInv
  /\ Links!OnlyRacedIsLost /\ Links!CurrentIsOwned /\ Links!PanelKnows

\* LinkInv holds where a behaviour of TelegramLink begins.
LEMMA LinkInit == Links!Init => LinkInv
<1> SUFFICES ASSUME Links!Init PROVE LinkInv
  OBVIOUS
<1> USE AccountsAssumption DEF Links!ConstantsAssumption, Links!Init, Links!User
<1>1. Links!TypeOK
  BY DEF Links!TypeOK, Links!UserRow, Links!SubRow, Links!LinkState, Links!NoLink,
    Links!WebRow, Links!Running, Links!Merging
<1>2. HolderInv
<2>1. \A u \in Web : profile[u] = Links!WebRow /\ Links!WebRow # None
<3>1. Links!WebRow \in Links!UserRow
  BY DEF Links!WebRow, Links!UserRow
<3>2. \A u \in Web : profile[u] = Links!WebRow
  BY DEF Links!Init
<3>. QED
  BY <3>1, <3>2
<2>2. \A u \in Links!User : profile[u] # None => profile[u].tg = None
  BY DEF Links!WebRow
<2>3. \A u \in Shell : profile[u] = None /\ buyer[u] = None
  OBVIOUS
<2>. QED
  BY <2>1, <2>2, <2>3 DEF HolderInv, Links!WebRow
<1>2a. RequestInv
  BY DEF RequestInv, Links!NoLink, Links!Merging
<1>3. AloneInv /\ ShareInv /\ ChosenInv
  BY DEF AloneInv, ShareInv, ChosenInv, Begun, Late, Links!NoLink, Links!Merging
<1>4. PanelInv /\ Links!PanelKnows
  BY DEF PanelInv, Links!PanelKnows, Links!Owned, Links!NoLink
<1>5. Links!OnlyRacedIsLost /\ Links!CurrentIsOwned
  BY DEF Links!OnlyRacedIsLost, Links!CurrentIsOwned, Links!WebRow
<1>. QED
  BY <1>1, <1>2, <1>2a, <1>3, <1>4, <1>5 DEF LinkInv

-----------------------------------------------------------------------------
\* Who comes anew holds an account nobody holds, and owns nothing.
LEMMA StartKeeps ==
  ASSUME LinkInv, NEW u \in Shell, Links!Start(u) PROVE LinkInv'
<1> USE AccountsAssumption DEF Links!ConstantsAssumption, Links!Start, LinkInv, Links!history
<1>u. u \in Links!User /\ profile \in [Links!User -> Links!UserRow \cup {None}]
  BY DEF Links!TypeOK, Links!User
<1>v. \A v \in Links!User : v # u => profile'[v] = profile[v]
  BY <1>u
<1>w. profile'[u] = Links!ShellRow(u)
  BY <1>u
<1>o. \A v \in Links!User : Links!Owned(v)' = Links!Owned(v)
  BY DEF Links!Owned
<1>1. Links!TypeOK'
  BY <1>u DEF Links!TypeOK, Links!ShellRow, Links!UserRow, Links!User
<1>2. HolderInv'
<2>1. \A v \in Web : profile'[v] = profile[v]
  BY <1>u, <1>v DEF Links!User
<2>2. \A v \in Shell : profile'[v] # None => profile'[v].tg = v
  BY <1>u, <1>v, <1>w DEF HolderInv, Links!ShellRow, Links!User
<2>3. \A v \in Links!User : profile[v] # None => profile[v].tg # u
  BY DEF Links!Owners
<2>. QED
  BY <1>v, <1>w, <2>1, <2>2, <2>3 DEF HolderInv, Links!ShellRow
<1>3. RequestInv'
  BY <1>u, <1>v, <1>w DEF RequestInv, Links!ShellRow, Links!User, Links!TypeOK, Links!LinkState
<1>4. AloneInv' /\ ShareInv' /\ ChosenInv'
  BY <1>o, <1>u DEF AloneInv, ShareInv, ChosenInv, Begun, Late, Links!Owned, Links!Listed
<1>5. PanelInv' /\ Links!PanelKnows'
  BY <1>o, <1>u DEF PanelInv, Links!PanelKnows, Links!Owned
<1>6. Links!OnlyRacedIsLost'
  BY DEF Links!OnlyRacedIsLost
<1>7. Links!CurrentIsOwned'
  BY <1>o, <1>v, <1>w DEF Links!CurrentIsOwned, Links!ShellRow
<1>. QED
  BY <1>1, <1>2, <1>3, <1>4, <1>5, <1>6, <1>7

\* A transaction made while its payer is merged is raced.
LEMMA PayKeeps ==
  ASSUME LinkInv, NEW u \in Links!User, NEW t \in Txn, Links!Pay(u, t) PROVE LinkInv'
<1> USE AccountsAssumption DEF Links!ConstantsAssumption, Links!Pay, LinkInv
<1>r. crossed \subseteq crossed'
  BY DEF Links!Races
<1>o. \A v \in Links!User : Links!Owned(v)' = Links!Owned(v)
  BY DEF Links!Owned
<1>1. Links!TypeOK'
  BY DEF Links!TypeOK, Links!Races, Links!User
<1>2. HolderInv' /\ RequestInv'
  BY DEF HolderInv, RequestInv
<1>3. AloneInv' /\ ChosenInv'
  BY <1>o DEF AloneInv, ChosenInv, Begun, Late, Links!Owned, Links!Listed
<1>4. ShareInv'
<2> SUFFICES ASSUME NEW c \in Link, Begun(c)
             PROVE  /\ link[c].subs \subseteq Links!Owned(link[c].donor)'
                    /\ (Links!Owned(link[c].donor) \ link[c].subs \subseteq crossed)'
                    /\ link[c].step # "subs" =>
                         (/\ \A x \in link[c].txns : txn[x] = link[c].donor
                          /\ \A x \in Txn : txn[x] = link[c].donor =>
                               x \in link[c].txns \cup crossed)'
  BY DEF ShareInv, Begun
<2>d. link[c].donor \in Links!User /\ link[c].donor # None
  BY DEF RequestInv, Begun, Links!User
<2>t. t \in crossed' /\ txn \in [Txn -> Links!User \cup {None}]
  BY DEF Links!Races, Begun, Links!TypeOK
<2>1. Links!Owned(link[c].donor)' = Links!Owned(link[c].donor)
  BY DEF Links!Owned
<2>2. ASSUME link[c].step # "subs"
      PROVE  /\ \A x \in link[c].txns : txn'[x] = link[c].donor
             /\ \A x \in Txn : txn'[x] = link[c].donor => x \in link[c].txns \cup crossed'
  BY <1>r, <2>d, <2>t, <2>2 DEF ShareInv, Links!TypeOK, Links!LinkState
<2>. QED
  BY <1>r, <2>1, <2>2 DEF ShareInv
<1>5. PanelInv' /\ Links!PanelKnows'
  BY <1>o, <1>r DEF PanelInv, Links!PanelKnows, Links!Owned
<1>6. Links!OnlyRacedIsLost'
  BY <1>r DEF Links!OnlyRacedIsLost
<1>7. Links!CurrentIsOwned'
  BY <1>o DEF Links!CurrentIsOwned
<1>. QED
  BY <1>1, <1>2, <1>3, <1>4, <1>5, <1>6, <1>7

\* A purchase begins with a copy of the user.
LEMMA BuyKeeps == ASSUME LinkInv, NEW u \in Links!User, Links!Buy(u) PROVE LinkInv'
<1> USE AccountsAssumption
     DEF Links!ConstantsAssumption, Links!Buy, LinkInv, Links!rows, Links!history
<1>1. Links!TypeOK'
  BY DEF Links!TypeOK, Links!Free, Links!UserRow, Links!User, Links!Copy
<1>2. HolderInv'
<2>1. buyer'[u] = [tg |-> profile[u].tg] /\ \A v \in Links!User : v # u => buyer'[v] = buyer[v]
  BY DEF Links!TypeOK
<2>. QED
  BY <2>1 DEF HolderInv, Links!Free, Links!User
<1>3. RequestInv' /\ AloneInv' /\ ShareInv' /\ ChosenInv'
  BY DEF RequestInv, AloneInv, ChosenInv, ShareInv, Begun, Late, Links!Owned, Links!Listed
<1>4. PanelInv' /\ Links!PanelKnows' /\ Links!OnlyRacedIsLost' /\ Links!CurrentIsOwned'
  BY DEF PanelInv, Links!PanelKnows, Links!Owned, Links!OnlyRacedIsLost, Links!CurrentIsOwned
<1>. QED
  BY <1>1, <1>2, <1>3, <1>4

\* An email of his own changes nothing of who a Telegram user is.
LEMMA ChangeEmailKeeps ==
  ASSUME LinkInv, NEW u \in Links!User, Links!ChangeEmail(u) PROVE LinkInv'
<1> USE AccountsAssumption
     DEF Links!ConstantsAssumption, Links!ChangeEmail, LinkInv, Links!history
<1>u. profile[u] \in Links!UserRow /\ profile \in [Links!User -> Links!UserRow \cup {None}]
  BY DEF Links!TypeOK, Links!Free
<1>x. PICK mine \in Links!UserRow : mine = [profile[u] EXCEPT !.credentials = TRUE]
  BY <1>u DEF Links!UserRow
<1>y. mine.credentials /\ mine.tg = profile[u].tg /\ mine.current = profile[u].current
  BY <1>u, <1>x DEF Links!UserRow
<1>v. profile' = [profile EXCEPT ![u] = mine]
  BY <1>u, <1>x
<1>w. \A v \in Links!User :
        /\ profile'[v] = None <=> profile[v] = None
        /\ profile[v] # None =>
             /\ profile'[v].tg = profile[v].tg
             /\ profile'[v].current = profile[v].current
             /\ profile[v].credentials => profile'[v].credentials
  BY <1>u, <1>v, <1>y DEF Links!Free
<1>1. Links!TypeOK'
<2>1. profile' \in [Links!User -> Links!UserRow \cup {None}]
  BY <1>u, <1>v
<2>. QED
  BY <2>1 DEF Links!TypeOK
<1>2. HolderInv'
  BY <1>w DEF HolderInv, Links!User
<1>3. RequestInv'
  BY <1>w DEF RequestInv, HolderInv, Links!User, Links!TypeOK, Links!LinkState
<1>4. AloneInv' /\ ShareInv' /\ ChosenInv'
  BY DEF AloneInv, ChosenInv, ShareInv, Begun, Late, Links!Owned, Links!Listed
<1>5. PanelInv' /\ Links!PanelKnows' /\ Links!OnlyRacedIsLost'
  BY DEF PanelInv, Links!PanelKnows, Links!Owned, Links!OnlyRacedIsLost
<1>6. Links!CurrentIsOwned'
  BY <1>w DEF Links!CurrentIsOwned, Links!Owned
<1>. QED
  BY <1>1, <1>2, <1>3, <1>4, <1>5, <1>6

\* More days change no owner.
LEMMA ExtendKeeps == ASSUME LinkInv, NEW s \in Sub, Links!Extend(s) PROVE LinkInv'
<1> USE AccountsAssumption DEF Links!ConstantsAssumption, Links!Extend, LinkInv
<1>s. /\ sub \in [Sub -> Links!SubRow \cup {None}] /\ sub[s] \in Links!SubRow
      /\ sub' = [sub EXCEPT ![s] = [sub[s] EXCEPT !.expire = sub[s].expire + 1]]
  BY DEF Links!TypeOK
<1>e. sub'[s].owner = sub[s].owner /\ sub'[s] \in Links!SubRow
  BY <1>s DEF Links!SubRow
<1>o. \A v \in Links!User : Links!Owned(v)' = Links!Owned(v)
  BY <1>s, <1>e DEF Links!Owned
<1>r. crossed \subseteq crossed'
  BY DEF Links!Races
<1>1. Links!TypeOK'
  BY <1>s, <1>e DEF Links!TypeOK, Links!Races
<1>2. HolderInv' /\ RequestInv'
  BY DEF HolderInv, RequestInv
<1>3. AloneInv' /\ ShareInv' /\ ChosenInv'
  BY <1>o, <1>r
     DEF AloneInv, ChosenInv, ShareInv, Begun, Late, Links!Listed, Links!TypeOK,
     Links!LinkState, RequestInv, Links!User, Links!Merging
<1>4. PanelInv' /\ Links!PanelKnows'
  BY <1>o, <1>r
     DEF PanelInv, Links!PanelKnows, Links!User, RequestInv, Links!TypeOK, Links!LinkState
<1>5. Links!OnlyRacedIsLost' /\ Links!CurrentIsOwned'
  BY <1>o, <1>r DEF Links!OnlyRacedIsLost, Links!CurrentIsOwned
<1>. QED
  BY <1>1, <1>2, <1>3, <1>4, <1>5

\* A subscription bought joins its owner's: known to the panel when the copy knew the
\* account, raced when its owner is merged or was linked since the copy.
LEMMA BoughtKeeps ==
  ASSUME LinkInv, NEW u \in Links!User, NEW s \in Sub, NEW expire \in 1 .. MaxExpire,
         Links!Bought(u, s, expire)
  PROVE  LinkInv'
<1> USE AccountsAssumption DEF Links!ConstantsAssumption, Links!Bought, LinkInv
<1>t. /\ profile[u] \in Links!UserRow /\ profile \in [Links!User -> Links!UserRow \cup {None}]
      /\ sub \in [Sub -> Links!SubRow \cup {None}] /\ buyer[u] \in Links!Copy
      /\ buyer \in [Links!User -> Links!Copy \cup {None}]
  BY DEF Links!TypeOK, Links!Free
<1>x. PICK mine \in Links!UserRow : mine = [profile[u] EXCEPT !.current = s]
  BY <1>t DEF Links!UserRow
<1>y. mine.credentials = profile[u].credentials /\ mine.tg = profile[u].tg /\ mine.current = s
  BY <1>t, <1>x DEF Links!UserRow
<1>v. profile' = [profile EXCEPT ![u] = mine]
  BY <1>t, <1>x
<1>w. /\ profile[u] # None /\ profile'[u] # None
      /\ profile'[u].tg = profile[u].tg /\ profile'[u].credentials = profile[u].credentials
      /\ profile'[u].current = s
      /\ \A v \in Links!User : v # u => profile'[v] = profile[v]
  BY <1>t, <1>v, <1>y DEF Links!Free
<1>n. PICK new \in Links!SubRow : new = [owner |-> u, expire |-> expire]
  BY DEF Links!SubRow
<1>m. new.owner = u /\ sub' = [sub EXCEPT ![s] = new]
  BY <1>n DEF Links!SubRow
<1>o. Links!Owned(u)' = Links!Owned(u) \cup {s}
      /\ \A v \in Links!User : v # u => Links!Owned(v)' = Links!Owned(v)
  BY <1>t, <1>m DEF Links!Owned
<1>p. \A v \in Links!User : s \notin Links!Owned(v)
  BY DEF Links!Owned
<1>r. crossed \subseteq crossed'
      /\ ((\E c \in Link : link[c].step \in Links!Merging) => s \in crossed')
  BY DEF Links!Races
<1>q. panel \subseteq panel' /\ (buyer[u].tg # None => s \in panel')
  OBVIOUS
<1>1. Links!TypeOK'
<2>1. profile' \in [Links!User -> Links!UserRow \cup {None}]
      /\ sub' \in [Sub -> Links!SubRow \cup {None}]
  BY <1>t, <1>v, <1>m
<2>2. crossed' \in SUBSET (Sub \cup Txn) /\ panel' \subseteq Sub
  BY DEF Links!TypeOK, Links!Races
<2>3. buyer' \in [Links!User -> Links!Copy \cup {None}]
  BY <1>t
<2>. QED
  BY <2>1, <2>2, <2>3 DEF Links!TypeOK
<1>2. HolderInv'
<2>1. \A v \in Links!User : v # u => buyer'[v] = buyer[v]
  BY <1>t
<2>2. buyer'[u] = None
  BY <1>t
<2>. QED
  BY <1>w, <2>1, <2>2 DEF HolderInv, Links!User
<1>3. RequestInv'
  BY <1>w DEF RequestInv, HolderInv, Links!User, Links!TypeOK, Links!LinkState
<1>4. AloneInv'
  BY DEF AloneInv, Begun, Late
<1>5. ShareInv'
<2> SUFFICES ASSUME NEW c \in Link, Begun(c)
             PROVE  /\ link[c].subs \subseteq Links!Owned(link[c].donor)'
                    /\ Links!Owned(link[c].donor)' \ link[c].subs \subseteq crossed'
                    /\ link[c].step # "subs" =>
                         (/\ \A t \in link[c].txns : txn[t] = link[c].donor
                          /\ \A t \in Txn : txn[t] = link[c].donor =>
                               t \in link[c].txns \cup crossed')
  BY DEF ShareInv, Begun
<2>1. link[c].donor \in Links!User /\ s \in crossed'
  BY <1>r DEF RequestInv, Begun, Links!User
<2>. QED
  BY <1>o, <1>r, <2>1 DEF ShareInv
<1>6. ChosenInv'
<2>1. ASSUME NEW c \in Link, link[c].step = "chosen" PROVE Links!Listed(c)' = Links!Listed(c)
  BY <1>o, <2>1 DEF RequestInv, Links!Written, Links!Listed, Links!User, Links!Merging
<2>. QED
  BY <2>1 DEF ChosenInv
<1>7. PanelInv'
<2>1. \A v \in Shell : Links!Owned(v)' \subseteq panel'
  BY <1>o, <1>q DEF PanelInv, HolderInv, Links!User
<2>2. ASSUME NEW c \in Link, link[c].step = "committed"
      PROVE  Links!Owned(link[c].actor)' \ crossed' \subseteq panel' \cup link[c].listed
<3>1. link[c].actor \in Links!User /\ profile[link[c].actor].tg # None
  BY <2>2 DEF RequestInv, Links!User
<3>2. link[c].actor = u => s \in panel' \cup crossed'
  BY <3>1
<3>. QED
  BY <1>o, <1>q, <1>r, <2>2, <3>1, <3>2 DEF PanelInv
<2>. QED
  BY <2>1, <2>2 DEF PanelInv
<1>8. Links!PanelKnows'
<2> SUFFICES ASSUME NEW c \in Link, link[c].step = "done", link[c].actor # None
             PROVE  Links!Owned(link[c].actor)' \ crossed' \subseteq panel'
  BY DEF Links!PanelKnows
<2>1. link[c].actor \in Links!User /\ profile[link[c].actor].tg # None
  BY DEF RequestInv, Links!User, Links!TypeOK, Links!LinkState
<2>2. link[c].actor = u => s \in panel' \cup crossed'
  BY <2>1
<2>. QED
  BY <1>o, <1>q, <1>r, <2>1, <2>2 DEF Links!PanelKnows
<1>9. Links!OnlyRacedIsLost'
  BY <1>r DEF Links!OnlyRacedIsLost
<1>10. Links!CurrentIsOwned'
  BY <1>o, <1>w DEF Links!CurrentIsOwned
<1>. QED
  BY <1>1, <1>2, <1>3, <1>4, <1>5, <1>6, <1>7, <1>8, <1>9, <1>10

-----------------------------------------------------------------------------
\* A step of one call to a state that promises nothing yet.
\* A step of requests alone that neither commits nor ends one.
LEMMA LinkFrame ==
  ASSUME LinkInv, UNCHANGED <<Links!rows, panel, buyer, lost, crossed>>,
         Links!TypeOK', RequestInv', AloneInv', ShareInv', ChosenInv',
         \A d \in Link :
           /\ link'[d].step = "committed" => link'[d] = link[d]
           /\ link'[d].step = "done" => link'[d].actor = None \/ link'[d] = link[d]
  PROVE  LinkInv'
<1> USE DEF LinkInv, Links!rows
<1>1. HolderInv' /\ Links!OnlyRacedIsLost' /\ Links!CurrentIsOwned'
  BY DEF HolderInv, Links!OnlyRacedIsLost, Links!CurrentIsOwned, Links!Owned
<1>2. PanelInv' /\ Links!PanelKnows'
  BY DEF PanelInv, Links!PanelKnows, Links!Owned
<1>. QED
  BY <1>1, <1>2

\* The holder of an account is a shell of that name, or the request is refused.
LEMMA LinkTelegramKeeps ==
  ASSUME LinkInv, NEW c \in Link, NEW a \in Web, NEW tg \in Shell,
         Links!LinkTelegram(c, a, tg)
  PROVE  LinkInv'
<1> USE AccountsAssumption DEF LinkInv, Links!ConstantsAssumption, Links!rows, Links!history
<1> DEFINE holder == Links!Owners(tg)
           real == \E u \in holder : profile[u].credentials
<1>t. link \in [Link -> Links!LinkState]
  BY DEF Links!TypeOK
<1>h. ASSUME NEW u \in holder, ~real PROVE u = tg /\ u \in Shell
  BY <1>h DEF Links!Owners, HolderInv, Links!User
<1>n. PICK l \in Links!LinkState :
        /\ link' = [link EXCEPT ![c] = l]
        /\ \/ l.step \in {"done", "refused"} /\ l.actor = None
           \/ l.step = "plain" /\ l.actor = a /\ l.tg = tg
           \/ l.step = "found" /\ l.actor = a /\ l.tg = tg /\ l.donor = tg
<2>0. Links!NoLink \in Links!LinkState
  BY DEF Links!NoLink, Links!LinkState, Links!Running, Links!Merging
<2>1. CASE profile[a].tg = tg
<3>1. link' = [link EXCEPT ![c] = [Links!NoLink EXCEPT !.step = "done"]]
  BY <2>1 DEF Links!LinkTelegram
<3>2. PICK l \in Links!LinkState : l = [Links!NoLink EXCEPT !.step = "done"]
  BY <2>0 DEF Links!LinkState
<3>3. l.step = "done" /\ l.actor = None
  BY <3>2 DEF Links!NoLink
<3>. QED
  BY <3>1, <3>2, <3>3
<2>2. CASE profile[a].tg # tg /\ (profile[a].tg # None \/ real)
<3>1. link' = [link EXCEPT ![c] = [Links!NoLink EXCEPT !.step = "refused"]]
  BY <2>2 DEF Links!LinkTelegram
<3>2. PICK l \in Links!LinkState : l = [Links!NoLink EXCEPT !.step = "refused"]
  BY <2>0 DEF Links!LinkState
<3>3. l.step = "refused" /\ l.actor = None
  BY <3>2 DEF Links!NoLink
<3>. QED
  BY <3>1, <3>2, <3>3
<2>3. CASE profile[a].tg # tg /\ ~(profile[a].tg # None \/ real) /\ holder = {}
<3>1. link' = [link EXCEPT ![c] = [Links!NoLink EXCEPT !.step = "plain", !.actor = a, !.tg = tg,
                                                 !.donor = None]]
  BY <2>3 DEF Links!LinkTelegram
<3>2. PICK l \in Links!LinkState :
        l = [Links!NoLink EXCEPT !.step = "plain", !.actor = a, !.tg = tg, !.donor = None]
  BY <2>0 DEF Links!LinkState, Links!Running, Links!Merging
<3>3. l.step = "plain" /\ l.actor = a /\ l.tg = tg /\ l.donor = None
  BY <3>2 DEF Links!NoLink
<3>. QED
  BY <3>1, <3>2, <3>3
<2>4. CASE profile[a].tg # tg /\ ~(profile[a].tg # None \/ real) /\ holder # {}
<3>0. (CHOOSE u \in holder : TRUE) = tg
  BY <1>h, <2>4
<3>1. link' = [link EXCEPT ![c] = [Links!NoLink EXCEPT !.step = "found", !.actor = a, !.tg = tg,
                                                 !.donor = tg]]
  BY <2>4, <3>0 DEF Links!LinkTelegram
<3>2. PICK l \in Links!LinkState :
        l = [Links!NoLink EXCEPT !.step = "found", !.actor = a, !.tg = tg, !.donor = tg]
  BY <2>0 DEF Links!LinkState, Links!Running, Links!Merging
<3>3. l.step = "found" /\ l.actor = a /\ l.tg = tg /\ l.donor = tg
  BY <3>2 DEF Links!NoLink
<3>. QED
  BY <3>1, <3>2, <3>3
<2>. QED
  BY <2>1, <2>2, <2>3, <2>4
<1>d. link'[c] = l /\ \A d \in Link : d # c => link'[d] = link[d]
  BY <1>t, <1>n
<1>f. UNCHANGED <<Links!rows, panel, buyer, lost, mended, crossed>>
  BY DEF Links!LinkTelegram
<1>1. Links!TypeOK'
  BY <1>n, <1>f DEF Links!TypeOK
<1>2. RequestInv'
  BY <1>d, <1>n, <1>f DEF RequestInv, Links!Merging
<1>3. AloneInv'
  BY <1>d, <1>n DEF AloneInv, Begun, Late, Links!Merging
<1>4. ShareInv'
  BY <1>d, <1>n, <1>f DEF ShareInv, Begun, Links!Merging, Links!Owned
<1>5. ChosenInv'
  BY <1>d, <1>n, <1>f DEF ChosenInv, Links!Listed, Links!Owned
<1>. QED
  BY <1>1, <1>2, <1>3, <1>4, <1>5, <1>d, <1>n, <1>f, LinkFrame

\* Alone with this donor, the request holds all that he owns.
LEMMA ReassignSubsKeeps ==
  ASSUME LinkInv, NEW c \in Link, Links!ReassignSubs(c) PROVE LinkInv'
<1> USE AccountsAssumption DEF LinkInv, Links!ConstantsAssumption, Links!rows, Links!history
<1>t. link \in [Link -> Links!LinkState] /\ link[c] \in Links!LinkState
  BY DEF Links!TypeOK
<1>n. PICK l \in Links!LinkState : l = [link[c] EXCEPT !.step = "subs",
      !.subs = Links!Owned(link[c].donor)]
  BY <1>t DEF Links!LinkState, Links!Running, Links!Merging, Links!Owned
<1>l. /\ l.step = "subs" /\ l.subs = Links!Owned(link[c].donor)
      /\ l.donor = link[c].donor /\ l.actor = link[c].actor /\ l.tg = link[c].tg
  BY <1>t, <1>n DEF Links!LinkState
<1>m. link' = [link EXCEPT ![c] = l]
  BY <1>t, <1>n DEF Links!ReassignSubs
<1>d. link'[c] = l /\ \A d \in Link : d # c => link'[d] = link[d]
  BY <1>t, <1>m
<1>f. UNCHANGED <<Links!rows, panel, buyer, lost, mended, crossed>>
  BY DEF Links!ReassignSubs
<1>1. Links!TypeOK'
  BY <1>t, <1>m, <1>f DEF Links!TypeOK
<1>2. RequestInv'
  BY <1>d, <1>l, <1>f DEF RequestInv, Links!Merging, Links!ReassignSubs
<1>3. AloneInv'
<2>1. \A d \in Link : d # c /\ Begun(d) => link[d].donor # link[c].donor
  BY DEF Links!ReassignSubs, Links!Alone, Begun
<2>. QED
  BY <1>d, <1>l, <2>1 DEF AloneInv, Begun, Late
<1>4. ShareInv'
  BY <1>d, <1>l, <1>f DEF ShareInv, Begun, Links!Merging, Links!Owned
<1>5. ChosenInv'
  BY <1>d, <1>l, <1>f DEF ChosenInv, Links!Listed, Links!Owned
<1>. QED
  BY <1>1, <1>2, <1>3, <1>4, <1>5, <1>d, <1>l, <1>f, LinkFrame

\* ... and all that he paid,
LEMMA ReassignTxnsKeeps ==
  ASSUME LinkInv, NEW c \in Link, Links!ReassignTxns(c) PROVE LinkInv'
<1> USE AccountsAssumption DEF LinkInv, Links!ConstantsAssumption, Links!rows, Links!history
<1> DEFINE his == {t \in Txn : txn[t] = link[c].donor}
<1>t. link \in [Link -> Links!LinkState] /\ link[c] \in Links!LinkState
  BY DEF Links!TypeOK
<1>n. PICK l \in Links!LinkState : l = [link[c] EXCEPT !.step = "txns", !.txns = his]
  BY <1>t DEF Links!LinkState, Links!Running, Links!Merging
<1>l. /\ l.step = "txns" /\ l.subs = link[c].subs /\ l.txns = his
      /\ l.donor = link[c].donor /\ l.actor = link[c].actor /\ l.tg = link[c].tg
  BY <1>t, <1>n DEF Links!LinkState
<1>m. link' = [link EXCEPT ![c] = l] /\ link[c].step = "subs"
  BY <1>t, <1>n DEF Links!ReassignTxns
<1>d. link'[c] = l /\ \A d \in Link : d # c => link'[d] = link[d]
  BY <1>t, <1>m
<1>f. UNCHANGED <<Links!rows, panel, buyer, lost, mended, crossed>>
  BY DEF Links!ReassignTxns
<1>1. Links!TypeOK'
  BY <1>t, <1>m, <1>f DEF Links!TypeOK
<1>2. RequestInv'
  BY <1>d, <1>l, <1>m, <1>f DEF RequestInv, Links!Merging
<1>3. AloneInv'
  BY <1>d, <1>l, <1>m DEF AloneInv, Begun, Late, Links!Merging
<1>4. ShareInv'
  BY <1>d, <1>l, <1>m, <1>f DEF ShareInv, Begun, Links!Merging, Links!Owned
<1>5. ChosenInv'
  BY <1>d, <1>l, <1>f DEF ChosenInv, Links!Listed, Links!Owned
<1>. QED
  BY <1>1, <1>2, <1>3, <1>4, <1>5, <1>d, <1>l, <1>f, LinkFrame

\* ... and whom he brought;
LEMMA ReassignReferralsKeeps ==
  ASSUME LinkInv, NEW c \in Link, Links!ReassignReferrals(c) PROVE LinkInv'
<1> USE AccountsAssumption DEF LinkInv, Links!ConstantsAssumption, Links!rows, Links!history
<1>t. link \in [Link -> Links!LinkState] /\ link[c] \in Links!LinkState
  BY DEF Links!TypeOK
<1>n. PICK l \in Links!LinkState :
        l = [link[c] EXCEPT !.step = "refs",
               !.brought = {u \in Links!User : referral[u] = link[c].donor},
               !.own = (referral[link[c].actor] = None /\ referral[link[c].donor] # None)]
  BY <1>t DEF Links!LinkState, Links!Running, Links!Merging
<1>l. /\ l.step = "refs" /\ l.subs = link[c].subs /\ l.txns = link[c].txns
      /\ l.donor = link[c].donor /\ l.actor = link[c].actor /\ l.tg = link[c].tg
  BY <1>t, <1>n DEF Links!LinkState
<1>m. link' = [link EXCEPT ![c] = l] /\ link[c].step = "txns"
  BY <1>t, <1>n DEF Links!ReassignReferrals
<1>d. link'[c] = l /\ \A d \in Link : d # c => link'[d] = link[d]
  BY <1>t, <1>m
<1>f. UNCHANGED <<Links!rows, panel, buyer, lost, mended, crossed>>
  BY DEF Links!ReassignReferrals
<1>1. Links!TypeOK'
  BY <1>t, <1>m, <1>f DEF Links!TypeOK
<1>2. RequestInv'
  BY <1>d, <1>l, <1>m, <1>f DEF RequestInv, Links!Merging
<1>3. AloneInv'
  BY <1>d, <1>l, <1>m DEF AloneInv, Begun, Late, Links!Merging
<1>4. ShareInv'
  BY <1>d, <1>l, <1>m, <1>f DEF ShareInv, Begun, Links!Merging, Links!Owned
<1>5. ChosenInv'
  BY <1>d, <1>l, <1>f DEF ChosenInv, Links!Listed, Links!Owned
<1>. QED
  BY <1>1, <1>2, <1>3, <1>4, <1>5, <1>d, <1>l, <1>f, LinkFrame

\* one request at a time deletes a donor for its survivor,
LEMMA DeleteDonorKeeps ==
  ASSUME LinkInv, NEW c \in Link, Links!DeleteDonor(c) PROVE LinkInv'
<1> USE AccountsAssumption DEF LinkInv, Links!ConstantsAssumption, Links!rows, Links!history
<1>t. link \in [Link -> Links!LinkState] /\ link[c] \in Links!LinkState
  BY DEF Links!TypeOK
<1>n. PICK l \in Links!LinkState : l = [link[c] EXCEPT !.step = "deleted"]
  BY <1>t DEF Links!LinkState, Links!Running, Links!Merging
<1>l. /\ l.step = "deleted" /\ l.subs = link[c].subs /\ l.txns = link[c].txns
      /\ l.donor = link[c].donor /\ l.actor = link[c].actor /\ l.tg = link[c].tg
  BY <1>t, <1>n DEF Links!LinkState
<1>m. link' = [link EXCEPT ![c] = l] /\ link[c].step = "refs" /\ ~Links!Written(link[c].actor)
  BY <1>t, <1>n DEF Links!DeleteDonor, Links!To
<1>d. link'[c] = l /\ \A d \in Link : d # c => link'[d] = link[d]
  BY <1>t, <1>m
<1>f. UNCHANGED <<Links!rows, panel, buyer, lost, crossed>>
  BY DEF Links!DeleteDonor
<1>1. Links!TypeOK'
<2>1. mended' \in SUBSET Links!User
  BY <1>m DEF Links!DeleteDonor, Links!TypeOK, RequestInv, Links!Merging, Links!User
<2>. QED
  BY <1>t, <1>m, <1>f, <2>1 DEF Links!TypeOK
<1>2. RequestInv'
  BY <1>d, <1>l, <1>m, <1>f DEF RequestInv, Links!Merging
<1>3. AloneInv'
  BY <1>d, <1>l, <1>m DEF AloneInv, Begun, Late, Links!Merging, Links!Written
<1>4. ShareInv'
  BY <1>d, <1>l, <1>m, <1>f DEF ShareInv, Begun, Links!Merging, Links!Owned
<1>5. ChosenInv'
  BY <1>d, <1>l, <1>f DEF ChosenInv, Links!Listed, Links!Owned
<1>. QED
  BY <1>1, <1>2, <1>3, <1>4, <1>5, <1>d, <1>l, <1>f, LinkFrame

\* ... and chooses among what the survivor will own.
LEMMA ChooseCurrentKeeps ==
  ASSUME LinkInv, NEW c \in Link, Links!ChooseCurrent(c) PROVE LinkInv'
<1> USE AccountsAssumption DEF LinkInv, Links!ConstantsAssumption, Links!rows, Links!history
<1>t. link \in [Link -> Links!LinkState] /\ link[c] \in Links!LinkState
  BY DEF Links!TypeOK
<1>s. PICK s \in (IF Links!Listed(c) = {} THEN {None} ELSE Links!Latest(Links!Listed(c))) :
        link' = [link EXCEPT ![c].step = "chosen", ![c].listed = Links!Listed(c),
        ![c].current = s]
  BY DEF Links!ChooseCurrent
<1>k. Links!Listed(c) \subseteq Sub
      /\ (IF Links!Listed(c) = {} THEN s = None ELSE s \in Links!Listed(c))
  BY <1>t, <1>s DEF Links!Listed, Links!Latest, Links!Owned, Links!LinkState
<1>n. PICK l \in Links!LinkState :
        l = [link[c] EXCEPT !.step = "chosen", !.listed = Links!Listed(c), !.current = s]
<2>1. s \in Sub \cup {None}
  BY <1>k
<2>. QED
  BY <1>t, <1>k, <2>1 DEF Links!LinkState, Links!Running, Links!Merging
<1>l. /\ l.step = "chosen" /\ l.subs = link[c].subs /\ l.txns = link[c].txns
      /\ l.donor = link[c].donor /\ l.actor = link[c].actor /\ l.tg = link[c].tg
      /\ l.listed = Links!Listed(c) /\ l.current = s
  BY <1>t, <1>n DEF Links!LinkState
<1>m. link' = [link EXCEPT ![c] = l] /\ link[c].step = "deleted"
  BY <1>t, <1>n, <1>s DEF Links!ChooseCurrent
<1>d. link'[c] = l /\ \A d \in Link : d # c => link'[d] = link[d]
  BY <1>t, <1>m
<1>f. UNCHANGED <<Links!rows, panel, buyer, lost, mended, crossed>>
  BY DEF Links!ChooseCurrent
<1>1. Links!TypeOK'
  BY <1>t, <1>m, <1>f DEF Links!TypeOK
<1>2. RequestInv'
  BY <1>d, <1>l, <1>m, <1>f DEF RequestInv, Links!Merging
<1>3. AloneInv'
  BY <1>d, <1>l, <1>m DEF AloneInv, Begun, Late, Links!Merging
<1>4. ShareInv'
  BY <1>d, <1>l, <1>m, <1>f DEF ShareInv, Begun, Links!Merging, Links!Owned
<1>5. ChosenInv'
  BY <1>d, <1>l, <1>k, <1>f DEF ChosenInv, Links!Listed, Links!Owned
<1>. QED
  BY <1>1, <1>2, <1>3, <1>4, <1>5, <1>d, <1>l, <1>f, LinkFrame

\* The panel then knows all that was listed, or the sync has failed.
LEMMA SyncPanelKeeps ==
  ASSUME LinkInv, NEW c \in Link, Links!SyncPanel(c) PROVE LinkInv'
<1> USE AccountsAssumption DEF LinkInv, Links!ConstantsAssumption, Links!rows, Links!history
<1>t. link \in [Link -> Links!LinkState] /\ link[c] \in Links!LinkState
  BY DEF Links!TypeOK
<1>s. PICK heard \in SUBSET link[c].listed :
        /\ panel' = panel \cup heard
        /\ Links!To(c, IF heard = link[c].listed THEN "done" ELSE "failed")
  BY DEF Links!SyncPanel
<1>n. PICK l \in Links!LinkState :
        l = [link[c] EXCEPT !.step = IF heard = link[c].listed THEN "done" ELSE "failed"]
  BY <1>t DEF Links!LinkState, Links!Running, Links!Merging
<1>l. /\ l.step \in {"done", "failed"} /\ l.actor = link[c].actor
      /\ l.step = "done" => heard = link[c].listed
  BY <1>t, <1>n DEF Links!LinkState
<1>m. link' = [link EXCEPT ![c] = l] /\ link[c].step = "committed"
  BY <1>s, <1>t, <1>n DEF Links!SyncPanel, Links!To
<1>d. link'[c] = l /\ \A d \in Link : d # c => link'[d] = link[d]
  BY <1>t, <1>m
<1>f. /\ UNCHANGED <<Links!rows, buyer, lost, mended, crossed>>
      /\ panel' = panel \cup heard
  BY <1>s DEF Links!SyncPanel
<1>1. Links!TypeOK'
<2>1. panel' \subseteq Sub
  BY <1>t, <1>f DEF Links!TypeOK, Links!LinkState
<2>. QED
  BY <1>t, <1>m, <1>f, <2>1 DEF Links!TypeOK
<1>2. HolderInv' /\ Links!OnlyRacedIsLost' /\ Links!CurrentIsOwned'
  BY <1>f DEF HolderInv, Links!OnlyRacedIsLost, Links!CurrentIsOwned, Links!Owned
<1>3. RequestInv'
  BY <1>d, <1>l, <1>m, <1>f DEF RequestInv, Links!Merging
<1>4. AloneInv'
  BY <1>d, <1>l, <1>m DEF AloneInv, Begun, Late, Links!Merging
<1>5. ShareInv' /\ ChosenInv'
  BY <1>d, <1>l, <1>m, <1>f
     DEF ShareInv, ChosenInv, Begun, Links!Merging, Links!Owned, Links!Listed
<1>6. PanelInv' /\ Links!PanelKnows'
  BY <1>d, <1>l, <1>m, <1>f DEF PanelInv, Links!PanelKnows, Links!Owned
<1>. QED
  BY <1>1, <1>2, <1>3, <1>4, <1>5, <1>6

\* A refusal rolls back.
LEMMA RefusalKeeps ==
  ASSUME LinkInv, NEW c \in Link, Links!To(c, "refused"),
         UNCHANGED <<Links!rows, panel, buyer, Links!history>>
  PROVE  LinkInv'
<1> USE AccountsAssumption DEF LinkInv, Links!ConstantsAssumption, Links!rows, Links!history
<1>t. link \in [Link -> Links!LinkState] /\ link[c] \in Links!LinkState
  BY DEF Links!TypeOK
<1>n. PICK l \in Links!LinkState : l = [link[c] EXCEPT !.step = "refused"]
  BY <1>t DEF Links!LinkState, Links!Running, Links!Merging
<1>l. l.step = "refused"
  BY <1>t, <1>n DEF Links!LinkState
<1>m. link' = [link EXCEPT ![c] = l]
  BY <1>t, <1>n DEF Links!To
<1>d. link'[c] = l /\ \A d \in Link : d # c => link'[d] = link[d]
  BY <1>t, <1>m
<1>1. Links!TypeOK'
  BY <1>t, <1>m DEF Links!TypeOK
<1>2. RequestInv'
  BY <1>d, <1>l DEF RequestInv, Links!Merging
<1>3. AloneInv'
  BY <1>d, <1>l DEF AloneInv, Begun, Late, Links!Merging
<1>4. ShareInv' /\ ChosenInv'
  BY <1>d, <1>l DEF ShareInv, ChosenInv, Begun, Links!Merging, Links!Owned, Links!Listed
<1>. QED
  BY <1>1, <1>2, <1>3, <1>4, <1>d, <1>l, LinkFrame

\* The account goes to a user that nobody competes with for it.
LEMMA CommitPlainKeeps ==
  ASSUME LinkInv, NEW c \in Link, Links!CommitPlain(c) PROVE LinkInv'
<1> USE AccountsAssumption DEF LinkInv, Links!ConstantsAssumption
<1> DEFINE a == link[c].actor
           tg == link[c].tg
<1>t. /\ link \in [Link -> Links!LinkState] /\ link[c] \in Links!LinkState
      /\ profile \in [Links!User -> Links!UserRow \cup {None}] /\ link[c].step = "plain"
      /\ a \in Web /\ tg \in Shell /\ a \in Links!User /\ tg # None
  BY DEF Links!TypeOK, Links!CommitPlain, RequestInv, Links!User
<1>f. UNCHANGED <<sub, txn, referral, panel, buyer, lost, mended, crossed>>
  BY DEF Links!CommitPlain, Links!history
<1>a. CASE Links!Owners(tg) \ {a} # {}
<2>1. Links!To(c, "refused") /\ UNCHANGED profile
  BY <1>a DEF Links!CommitPlain
<2>. QED
  BY <1>f, <2>1, RefusalKeeps DEF Links!rows, Links!history
<1>b. CASE Links!Owners(tg) \ {a} = {}
<2>n. PICK l \in Links!LinkState : l = [link[c] EXCEPT !.step = "committed",
      !.listed = Links!Owned(a)]
  BY <1>t DEF Links!LinkState, Links!Running, Links!Merging, Links!Owned
<2>l. l.step = "committed" /\ l.listed = Links!Owned(a) /\ l.actor = a
  BY <1>t, <2>n DEF Links!LinkState
<2>m. link' = [link EXCEPT ![c] = l]
  BY <1>t, <1>b, <2>n DEF Links!CommitPlain
<2>d. link'[c] = l /\ \A d \in Link : d # c => link'[d] = link[d]
  BY <1>t, <2>m
<2>x. profile[a] \in Links!UserRow /\ profile[a] # None
  BY <1>t DEF HolderInv
<2>r. PICK mine \in Links!UserRow : mine = [profile[a] EXCEPT !.tg = tg]
  BY <1>t, <2>x DEF Links!UserRow
<2>y. mine.tg = tg /\ mine.credentials = profile[a].credentials
      /\ mine.current = profile[a].current
  BY <2>x, <2>r DEF Links!UserRow
<2>v. profile' = [profile EXCEPT ![a] = mine]
  BY <1>t, <1>b, <2>r DEF Links!CommitPlain
<2>w. profile'[a] = mine /\ mine # None /\ \A v \in Links!User : v # a => profile'[v] = profile[v]
  BY <1>t, <2>v
<2>o. \A v \in Links!User : Links!Owned(v)' = Links!Owned(v)
  BY <1>f DEF Links!Owned
<2>1. Links!TypeOK'
<3>1. profile' \in [Links!User -> Links!UserRow \cup {None}]
  BY <1>t, <2>v
<3>2. link' \in [Link -> Links!LinkState]
  BY <1>t, <2>m
<3>. QED
  BY <1>f, <3>1, <3>2 DEF Links!TypeOK
<2>2. HolderInv'
<3>1. \A v \in Links!User : v # a /\ profile[v] # None => profile[v].tg # tg
  BY <1>b DEF Links!Owners
<3>2. a \notin Shell
  BY <1>t
<3>. QED
  BY <1>f, <1>t, <2>w, <2>y, <3>1, <3>2 DEF HolderInv, Links!User
<2>3. RequestInv'
<3>1. \A v \in Links!User : profile[v].tg # None => profile'[v].tg # None
  BY <1>t, <2>w, <2>y
<3>2. \A d \in Link : link[d].actor # None => link[d].actor \in Links!User
  BY <1>t DEF Links!LinkState, Links!User
<3>. QED
  BY <1>t, <2>d, <2>l, <2>w, <2>y, <3>1, <3>2 DEF RequestInv, Links!Merging
<2>4. AloneInv'
  BY <2>d, <2>l DEF AloneInv, Begun, Late, Links!Merging
<2>5. ShareInv' /\ ChosenInv'
  BY <1>f, <2>d, <2>l DEF ShareInv, ChosenInv, Begun, Links!Merging, Links!Owned, Links!Listed
<2>6. PanelInv' /\ Links!PanelKnows'
  BY <1>f, <2>d, <2>l DEF PanelInv, Links!PanelKnows, Links!Owned
<2>7. Links!OnlyRacedIsLost' /\ Links!CurrentIsOwned'
  BY <1>f, <1>t, <2>o, <2>w, <2>y, <2>x DEF Links!OnlyRacedIsLost, Links!CurrentIsOwned
<2>. QED
  BY <2>1, <2>2, <2>3, <2>4, <2>5, <2>6, <2>7
<1>. QED
  BY <1>a, <1>b

\* The survivor owns what the donor owned when it was re-pointed, the rest of it is
\* raced, and no other request had a share in either.
LEMMA CommitMergeKeeps ==
  ASSUME LinkInv, NEW c \in Link, Links!CommitMerge(c) PROVE LinkInv'
<1> USE AccountsAssumption DEF LinkInv, Links!ConstantsAssumption
<1>s. link[c].step = "chosen" /\ Begun(c) /\ Late(c)
  BY DEF Links!CommitMerge, Begun, Late, Links!Merging
<1>a. PICK a \in Web : a = link[c].actor
  BY <1>s DEF RequestInv, Links!Merging
<1>d. PICK d \in Shell : d = link[c].donor
  BY <1>s DEF RequestInv, Links!Merging
<1> DEFINE subs == link[c].subs
           txns == link[c].txns
           gone == {s \in Links!Owned(d) : s \notin subs}
           unpaid == {t \in Txn : txn[t] = d /\ t \notin txns}
<1>t. /\ link \in [Link -> Links!LinkState] /\ link[c] \in Links!LinkState
      /\ profile \in [Links!User -> Links!UserRow \cup {None}]
      /\ sub \in [Sub -> Links!SubRow \cup {None}] /\ txn \in [Txn -> Links!User \cup {None}]
      /\ subs \subseteq Sub /\ txns \subseteq Txn
  BY DEF Links!TypeOK, Links!LinkState
<1>c. /\ link[c].actor = a /\ link[c].donor = d /\ link[c].tg = d /\ a # d
      /\ a \in Links!User /\ d \in Links!User /\ a # None /\ d # None
  BY <1>s, <1>a, <1>d DEF RequestInv, Links!Merging, Links!User
<1>f. UNCHANGED <<panel, buyer, mended, crossed>>
  BY DEF Links!CommitMerge
<1>x. CASE Links!Owners(link[c].tg) \ {d, a} # {}
<2>1. Links!To(c, "refused") /\ UNCHANGED <<Links!rows, lost>>
  BY <1>x, <1>c DEF Links!CommitMerge
<2>. QED
  BY <1>f, <2>1, RefusalKeeps DEF Links!rows, Links!history
<1>b. CASE Links!Owners(link[c].tg) \ {d, a} = {}
<2>p. /\ profile' = [profile EXCEPT ![d] = None, ![a].tg = d,
                    ![a].current = IF link[c].current = None THEN @ ELSE link[c].current]
      /\ sub' = Links!SubsAfter(c)
      /\ txn' = [t \in Txn |-> IF t \in unpaid THEN None ELSE IF t \in txns THEN a ELSE txn[t]]
      /\ referral' = Links!Redirected(c)
      /\ lost' = lost \cup gone \cup unpaid
      /\ link' = [link EXCEPT ![c].step = "committed"]
  BY <1>b, <1>c DEF Links!CommitMerge, Links!To
<2>n. PICK l \in Links!LinkState : l = [link[c] EXCEPT !.step = "committed"]
  BY <1>t DEF Links!LinkState, Links!Running, Links!Merging
<2>l. l.step = "committed" /\ l.listed = link[c].listed /\ l.actor = a
  BY <1>t, <1>c, <2>n DEF Links!LinkState
<2>m. link' = [link EXCEPT ![c] = l]
  BY <1>c, <1>t, <2>p, <2>n
<2>d. link'[c] = l /\ \A e \in Link : e # c => link'[e] = link[e]
  BY <1>t, <2>m
<2>h. /\ subs \subseteq Links!Owned(d) /\ gone \subseteq crossed /\ Links!Owned(d) \subseteq panel
      /\ \A t \in txns : txn[t] = d
      /\ unpaid \subseteq crossed
  BY <1>s, <1>c DEF ShareInv, PanelInv
<2>x. profile[a] \in Links!UserRow /\ profile[a] # None
  BY <1>t, <1>c DEF HolderInv
<2> DEFINE then == IF link[c].current = None THEN profile[a].current ELSE link[c].current
<2>0. then \in Sub \cup {None}
  BY <1>t, <2>x DEF Links!LinkState, Links!UserRow
<2>r. PICK mine \in Links!UserRow : mine = [profile[a] EXCEPT !.tg = d, !.current = then]
  BY <1>c, <2>0, <2>x DEF Links!UserRow
<2>y. mine.tg = d /\ mine.credentials = profile[a].credentials /\ mine.current = then
  BY <2>x, <2>r DEF Links!UserRow
<2>v. profile' = [profile EXCEPT ![d] = None, ![a] = mine]
  BY <1>t, <1>c, <2>p, <2>r, <2>x DEF Links!UserRow
<2>w. /\ profile'[a] = mine /\ mine # None /\ profile'[d] = None
      /\ \A v \in Links!User : v # a /\ v # d => profile'[v] = profile[v]
  BY <1>t, <1>c, <2>v
<2>o. /\ Links!Owned(d)' = {} /\ Links!Owned(a)' = Links!Owned(a) \cup subs
      /\ \A v \in Links!User : v # a /\ v # d => Links!Owned(v)' = Links!Owned(v)
<3>1. ASSUME NEW s \in subs PROVE sub'[s] # None /\ sub'[s].owner = a /\ sub[s].owner = d
  BY <1>t, <1>c, <2>p, <2>h, <3>1 DEF Links!SubsAfter, Links!SubRow, Links!Owned
<3>2. ASSUME NEW s \in Links!Owned(d), s \notin subs PROVE sub'[s] = None
  BY <1>c, <1>t, <2>p, <3>2 DEF Links!SubsAfter, Links!Owned
<3>3. ASSUME NEW s \in Sub, s \notin Links!Owned(d) PROVE sub'[s] = sub[s] /\ s \notin subs
  BY <1>c, <1>t, <2>p, <2>h, <3>3 DEF Links!SubsAfter
<3>4. ASSUME NEW v \in Links!User, NEW s \in Sub
      PROVE  (sub'[s] # None /\ sub'[s].owner = v) <=>
               IF v = a THEN s \in Links!Owned(a) \cup subs ELSE v # d /\ s \in Links!Owned(v)
  BY <1>c, <2>h, <3>1, <3>2, <3>3 DEF Links!Owned
<3>5. Links!Owned(d)' = {}
  BY <1>c, <3>4 DEF Links!Owned
<3>6. \A s \in Sub : s \in Links!Owned(a)' <=> s \in Links!Owned(a) \cup subs
  BY <1>c, <3>4 DEF Links!Owned
<3>7. Links!Owned(a)' = Links!Owned(a) \cup subs
  BY <1>t, <3>6 DEF Links!Owned
<3>8. ASSUME NEW v \in Links!User, v # a, v # d PROVE Links!Owned(v)' = Links!Owned(v)
  BY <3>4, <3>8 DEF Links!Owned
<3>. QED
  BY <3>5, <3>7, <3>8
<2>1. Links!TypeOK'
<3>1. profile' \in [Links!User -> Links!UserRow \cup {None}]
      /\ link' \in [Link -> Links!LinkState]
  BY <1>t, <2>m, <2>v
<3>2. sub' \in [Sub -> Links!SubRow \cup {None}]
<4>1. \A s \in subs : [sub[s] EXCEPT !.owner = a] \in Links!SubRow
  BY <1>t, <1>c, <2>h DEF Links!SubRow, Links!Owned
<4>2. sub' = [s \in Sub |->
               IF s \in subs THEN [sub[s] EXCEPT !.owner = a]
               ELSE IF s \in Links!Owned(d) THEN None ELSE sub[s]]
  BY <1>c, <2>p DEF Links!SubsAfter
<4>. QED
  BY <1>t, <4>1, <4>2
<3>3. txn' \in [Txn -> Links!User \cup {None}]
  BY <1>t, <1>c, <2>p
<3>4. lost' \in SUBSET (Sub \cup Txn)
  BY <2>p DEF Links!TypeOK, Links!Owned
<3>5. referral' \in [Links!User -> Links!User \cup {None}]
  BY <1>c, <2>p DEF Links!Redirected, Links!TypeOK
<3>. QED
  BY <1>f, <3>1, <3>2, <3>3, <3>4, <3>5 DEF Links!TypeOK
<2>2. HolderInv'
<3>1. \A v \in Links!User : v # a /\ v # d /\ profile[v] # None => profile[v].tg # d
  BY <1>b, <1>c DEF Links!Owners
<3>2. a \notin Shell /\ d \notin Web
  BY <1>c
<3>. QED
  BY <1>f, <1>c, <2>w, <2>y, <3>1, <3>2 DEF HolderInv, Links!User
<2>3. RequestInv'
<3>1. \A v \in Web : profile[v].tg # None => profile'[v].tg # None
  BY <1>c, <2>w, <2>y DEF Links!User
<3>2. \A e \in Link : link[e].actor # None => link[e].actor \in Web
  BY <1>t DEF Links!LinkState
<3>. QED
  BY <1>c, <2>d, <2>l, <2>w, <2>y, <3>1, <3>2 DEF RequestInv, Links!Merging
<2>4. AloneInv'
  BY <2>d, <2>l DEF AloneInv, Begun, Late, Links!Merging
<2>5. ShareInv'
<3> SUFFICES ASSUME NEW e \in Link, e # c, Begun(e)
             PROVE  (/\ link[e].subs \subseteq Links!Owned(link[e].donor)
                     /\ Links!Owned(link[e].donor) \ link[e].subs \subseteq crossed
                     /\ link[e].step # "subs" =>
                          /\ \A t \in link[e].txns : txn[t] = link[e].donor
                          /\ \A t \in Txn : txn[t] = link[e].donor =>
                                t \in link[e].txns \cup crossed)'
  BY <2>d, <2>l DEF ShareInv, Begun, Links!Merging
<3>0. PICK u \in Shell : u = link[e].donor
  BY DEF RequestInv, Begun
<3>1. u # d /\ u # a /\ u \in Links!User /\ link'[e] = link[e]
  BY <1>c, <1>s, <2>d, <3>0 DEF AloneInv, Links!User
<3>2. Links!Owned(u)' = Links!Owned(u)
  BY <2>o, <3>1
<3>3. \A t \in Txn : txn'[t] = u <=> txn[t] = u
<4>1. \A t \in Txn : t \in unpaid => txn[t] = d /\ txn'[t] = None
  BY <2>p
<4>2. \A t \in txns : txn[t] = d /\ txn'[t] \in {a, None}
  BY <1>c, <1>t, <2>p, <2>h
<4>3. \A t \in Txn : t \notin unpaid /\ t \notin txns => txn'[t] = txn[t]
  BY <2>p
<4>4. u # None
  BY <3>1
<4>. QED
  BY <1>t, <3>1, <4>1, <4>2, <4>3, <4>4
<3>4. link[e].txns \subseteq Txn
  BY <1>t DEF Links!LinkState
<3>5. /\ link[e].subs \subseteq Links!Owned(u) /\ Links!Owned(u) \ link[e].subs \subseteq crossed
      /\ link[e].step # "subs" =>
           /\ \A t \in link[e].txns : txn[t] = u
           /\ \A t \in Txn : txn[t] = u => t \in link[e].txns \cup crossed
  BY <3>0 DEF ShareInv
<3>6. link'[e].donor = u /\ Links!Owned(link[e].donor)' = Links!Owned(u)
  BY <3>0, <3>1, <3>2
<3>. QED
  BY <1>f, <3>1, <3>3, <3>4, <3>5, <3>6
<2>6. ChosenInv'
<3> SUFFICES ASSUME NEW e \in Link, e # c, link[e].step = "chosen"
             PROVE  Links!Listed(e)' = Links!Listed(e)
  BY <2>d, <2>l DEF ChosenInv
<3>1. PICK u \in Web : u = link[e].actor
  BY DEF RequestInv, Links!Merging
<3>2. u # a /\ u # d /\ u \in Links!User /\ link'[e] = link[e]
  BY <1>c, <1>s, <2>d, <3>1 DEF AloneInv, Late, Links!User
<3>3. Links!Owned(u)' = Links!Owned(u)
  BY <2>o, <3>2
<3>. QED
  BY <3>1, <3>2, <3>3 DEF Links!Listed
<2>7. PanelInv'
<3>1. ASSUME NEW v \in Shell PROVE Links!Owned(v)' \subseteq panel
<4>1. v # a /\ v \in Links!User
  BY <1>c DEF Links!User
<4>. QED
  BY <2>o, <4>1 DEF PanelInv
<3>2. ASSUME NEW e \in Link, e # c, link[e].step = "committed"
      PROVE  Links!Owned(link[e].actor)' \ crossed \subseteq panel \cup link[e].listed
<4>1. PICK u \in Web : u = link[e].actor
  BY <3>2 DEF RequestInv
<4>2. u # d /\ u \in Links!User /\ link'[e] = link[e]
  BY <1>c, <2>d, <3>2, <4>1 DEF Links!User
<4>3. Links!Owned(u) \ crossed \subseteq panel \cup link[e].listed
  BY <3>2, <4>1 DEF PanelInv
<4>4. Links!Owned(u)' \subseteq Links!Owned(u) \cup panel
  BY <2>h, <2>o, <4>2
<4>. QED
  BY <4>1, <4>2, <4>3, <4>4
<3>3. Links!Owned(a)' \subseteq link[c].listed
  BY <1>c, <1>s, <2>o DEF ChosenInv, Links!Listed
<3>. QED
  BY <1>f, <2>d, <2>l, <3>1, <3>2, <3>3 DEF PanelInv
<2>8. Links!PanelKnows'
<3> SUFFICES ASSUME NEW e \in Link, e # c, link[e].step = "done", link[e].actor # None
             PROVE  Links!Owned(link[e].actor)' \ crossed \subseteq panel
  BY <1>f, <2>d, <2>l DEF Links!PanelKnows
<3>1. PICK u \in Web : u = link[e].actor
  BY <1>t DEF Links!LinkState
<3>2. u # d /\ u \in Links!User /\ link'[e] = link[e]
  BY <1>c, <2>d, <3>1 DEF Links!User
<3>3. Links!Owned(u) \ crossed \subseteq panel
  BY <3>1 DEF Links!PanelKnows
<3>4. Links!Owned(u)' \subseteq Links!Owned(u) \cup panel
  BY <2>h, <2>o, <3>2
<3>. QED
  BY <3>1, <3>2, <3>3, <3>4
<2>9. Links!OnlyRacedIsLost'
  BY <1>f, <2>p, <2>h DEF Links!OnlyRacedIsLost
<2>10. Links!CurrentIsOwned'
<3>1. then # None => then \in Links!Owned(a)'
<4>1. CASE link[c].current # None
  BY <1>c, <1>s, <2>o, <4>1 DEF ChosenInv, Links!Listed
<4>2. CASE link[c].current = None
  BY <1>c, <2>x, <2>o, <4>2 DEF Links!CurrentIsOwned
<4>. QED
  BY <4>1, <4>2
<3>2. ASSUME NEW v \in Links!User, v # a, v # d, profile[v] # None, profile[v].current # None
      PROVE  profile[v].current \in Links!Owned(v)'
  BY <2>o, <3>2 DEF Links!CurrentIsOwned
<3>. QED
  BY <2>w, <2>y, <3>1, <3>2 DEF Links!CurrentIsOwned
<2>. QED
  BY <2>1, <2>2, <2>3, <2>4, <2>5, <2>6, <2>7, <2>8, <2>9, <2>10
<1>. QED
  BY <1>x, <1>b

\* LinkInv is inductive in TelegramLink.
LEMMA LinkInduction == LinkInv /\ [Links!Next]_(Links!vars) => LinkInv'
<1> SUFFICES ASSUME LinkInv, [Links!Next]_(Links!vars) PROVE LinkInv'
  OBVIOUS
<1>1. ASSUME NEW u \in Links!User, NEW t \in Txn, Links!Pay(u, t) PROVE LinkInv'
  BY <1>1, PayKeeps
<1>2. ASSUME NEW u \in Links!User, Links!Buy(u) PROVE LinkInv'
  BY <1>2, BuyKeeps
<1>3. ASSUME NEW u \in Shell, Links!Start(u) PROVE LinkInv'
  BY <1>3, StartKeeps
<1>4. ASSUME NEW u \in Links!User, NEW s \in Sub, NEW expire \in 1 .. MaxExpire,
             Links!Bought(u, s, expire)
      PROVE  LinkInv'
  BY <1>4, BoughtKeeps
<1>5. ASSUME NEW u \in Links!User, Links!ChangeEmail(u) PROVE LinkInv'
  BY <1>5, ChangeEmailKeeps
<1>6. ASSUME NEW s \in Sub, Links!Extend(s) PROVE LinkInv'
  BY <1>6, ExtendKeeps
<1>7. ASSUME NEW c \in Link, NEW a \in Web, NEW tg \in Shell, Links!LinkTelegram(c, a, tg)
      PROVE  LinkInv'
  BY <1>7, LinkTelegramKeeps
<1>8. ASSUME NEW c \in Link, Links!CommitPlain(c) PROVE LinkInv'
  BY <1>8, CommitPlainKeeps
<1>9. ASSUME NEW c \in Link, Links!ReassignSubs(c) PROVE LinkInv'
  BY <1>9, ReassignSubsKeeps
<1>10. ASSUME NEW c \in Link, Links!ReassignTxns(c) PROVE LinkInv'
  BY <1>10, ReassignTxnsKeeps
<1>11. ASSUME NEW c \in Link, Links!ReassignReferrals(c) PROVE LinkInv'
  BY <1>11, ReassignReferralsKeeps
<1>12. ASSUME NEW c \in Link, Links!DeleteDonor(c) PROVE LinkInv'
  BY <1>12, DeleteDonorKeeps
<1>13. ASSUME NEW c \in Link, Links!ChooseCurrent(c) PROVE LinkInv'
  BY <1>13, ChooseCurrentKeeps
<1>14. ASSUME NEW c \in Link, Links!CommitMerge(c) PROVE LinkInv'
  BY <1>14, CommitMergeKeeps
<1>15. ASSUME NEW c \in Link, Links!SyncPanel(c) PROVE LinkInv'
  BY <1>15, SyncPanelKeeps
<1>16. CASE UNCHANGED Links!vars
<2>. USE <1>16 DEF Links!vars, Links!rows, Links!history
<2>1. Links!TypeOK' /\ HolderInv' /\ Links!OnlyRacedIsLost' /\ Links!CurrentIsOwned'
  BY DEF LinkInv, Links!TypeOK, HolderInv, Links!OnlyRacedIsLost, Links!CurrentIsOwned,
    Links!Owned
<2>2. RequestInv' /\ AloneInv' /\ ShareInv' /\ ChosenInv'
  BY DEF LinkInv, RequestInv, AloneInv, ShareInv, ChosenInv, Begun, Late, Links!Owned,
    Links!Listed
<2>3. PanelInv' /\ Links!PanelKnows'
  BY DEF LinkInv, PanelInv, Links!PanelKnows, Links!Owned
<2>. QED
  BY <2>1, <2>2, <2>3 DEF LinkInv
<1>. QED
  BY <1>1, <1>2, <1>3, <1>4, <1>5, <1>6, <1>7, <1>8, <1>9, <1>10, <1>11, <1>12, <1>13,
     <1>14, <1>15, <1>16 DEF Links!Next

\* Holders of one account are one.
LEMMA HoldersAreFew == ASSUME LinkInv PROVE Links!OneHolder
<1>1. \A tg \in Shell : tg # None
  BY AccountsAssumption DEF Links!ConstantsAssumption, Links!User
<1>. QED
  BY <1>1 DEF Links!OneHolder, Links!Owners, LinkInv, HolderInv

-----------------------------------------------------------------------------
\* A behaviour moves the link as TelegramLink does or lets it rest.
LEMMA LinksMoveOrRest == AccountsNext => Links!Next \/ UNCHANGED links
<1>1. CodesNext => UNCHANGED links
  BY DEF CodesNext, CodesMove
<1>2. SetNext => UNCHANGED links
  BY DEF SetNext, SetMove
<1>3. LinksNext => Links!Next
<2>1. /\ Linking \subseteq Web /\ Requests \subseteq Link /\ Sold \subseteq Sub
      /\ Days \subseteq 1 .. MaxExpire
  BY AccountsAssumption DEF Links!ConstantsAssumption, One, Linking, Requests, Sold, Days
<2>2. Linking \cup Shell \subseteq Links!User /\ Shell \subseteq Links!User
  BY <2>1 DEF Links!User
<2>. QED
  BY <2>1, <2>2 DEF LinksNext, LinksMove, Links!Next
<1>. QED
  BY <1>1, <1>2, <1>3 DEF AccountsNext

\* So LinkInv is invariant here.
LEMMA LinksInvariance == AccountsSpec => []LinkInv
<1>1. AccountsInit => LinkInv
  BY LinkInit DEF AccountsInit
<1>2. LinkInv /\ [AccountsNext]_<<part, codes, vars, links>> => LinkInv'
  <2>1. [AccountsNext]_<<part, codes, vars, links>> => [Links!Next]_(Links!vars)
    <3>1. UNCHANGED links => UNCHANGED Links!vars
      BY DEF links, Links!vars, Links!rows, Links!history
    <3>. QED
      BY <3>1, LinksMoveOrRest
  <2>. QED
    BY <2>1, LinkInduction
<1>. QED
  BY <1>1, <1>2, PTL DEF AccountsSpec

\* A merge loses only what was made while it was under way, a current subscription is its
\* user's, an account of Telegram has one user, and the panel knows him on what he owns when
\* his link is over: for any number of users, requests, subscriptions and transactions.
THEOREM MergeKeepsHolds == AccountsSpec => []MergeKeeps
<1>1. LinkInv => MergeKeeps
<2> SUFFICES ASSUME LinkInv PROVE MergeKeeps
  OBVIOUS
<2>1. Links!OneHolder
  BY HoldersAreFew
<2>. QED
  BY <2>1 DEF LinkInv, MergeKeeps
<1>. QED
  BY <1>1, LinksInvariance, PTL
=============================================================================
