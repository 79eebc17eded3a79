--------------------------- MODULE ServicesProofs ---------------------------
(***************************************************************************)
(* Theorems about Sessions, for every number of users and requests, and    *)
(* about the queues and broadcasts as ServicesMC runs them.                *)
(*                                                                         *)
(* Two requests never present the same token with success because a token  *)
(* that was taken is never stored again: its call is past its issue.       *)
(*                                                                         *)
(* That a change of password finds what is at rest rests on the sets: a    *)
(* live session is in its user's, unless a change emptied the set while it *)
(* was being issued; and a change deletes the set after the keys it read   *)
(* from it.                                                                *)
(*                                                                         *)
(* A shutdown loses only what the worker took or what came too late        *)
(* because a task the bus did not gather is of an event published late.    *)
(*                                                                         *)
(* A broadcast's message is sent once because nobody is in the batch and   *)
(* in what is left of the delivery; what a cancel lets through is of one   *)
(* batch; a row is true of its chat while no deletion met the sending.     *)
(***************************************************************************)
EXTENDS ServicesMC, Sequences, FiniteSetTheorems, TLAPS

\* A call that has begun acts for a user.
BegunInv == \A c \in Call : call[c].step # "new" => call[c].user # None

\* The call a token is named by has stored it.
Issued(t) == call[t].step \in {"keyed", "done", "stopped"}

\* A key in Redis is of a token that was issued; a taken token has none.
TokenInv ==
  /\ \A t \in Call : key[t] # None => Issued(t)
  /\ \A c \in Call : call[c].token # None => Issued(call[c].token) /\ key[call[c].token] = None

IInv == TypeOK /\ BegunInv /\ TokenInv /\ ExchangedOnce

-----------------------------------------------------------------------------
USE DEF vars, redis, history, Running, Issuing, Kind

\* Nothing is issued and no call has begun.
LEMMA InitIInv == ConstantsAssumption /\ Init => IInv
<1> SUFFICES ASSUME ConstantsAssumption, Init PROVE IInv
  OBVIOUS
<1>1. TypeOK
  BY DEF Init, TypeOK, CallState, NoCall
<1>2. BegunInv /\ TokenInv /\ ExchangedOnce
  BY DEF Init, BegunInv, TokenInv, ExchangedOnce, NoCall
<1>. QED
  BY <1>1, <1>2 DEF IInv

\* A call that goes to another step keeps its type.
LEMMA StepKeepsType ==
  ASSUME TypeOK, NEW c \in Call, NEW step \in Running \cup {"done", "stopped"}, Step(c, step)
  PROVE  call' \in [Call -> CallState]
<1>1. call[c] \in CallState
  BY DEF TypeOK
<1>2. [call[c] EXCEPT !.step = step] \in CallState
  BY <1>1 DEF CallState
<1>. QED
  BY <1>2 DEF TypeOK, Step

\* What a beginning call remembers is a set of changes of password.
LEMMA BeginsKeepsType ==
  ASSUME TypeOK, NEW c \in Call, NEW u, Begins(c, u)
  PROVE  /\ after' \in [Call -> [committed : SUBSET Call, ended : SUBSET Call]]
         /\ rest' \in [Call -> SUBSET Call]
<1>1. ChangesOf(u) \subseteq Call
  BY DEF ChangesOf
<1>. QED
  BY <1>1 DEF TypeOK, Begins

\* Every step keeps the types.
LEMMA TypeStep == ConstantsAssumption /\ TypeOK /\ BegunInv /\ [Next]_vars => TypeOK'
<1> SUFFICES ASSUME ConstantsAssumption, TypeOK, BegunInv, [Next]_vars PROVE TypeOK'
  OBVIOUS
<1> USE DEF TypeOK
<1>1. ASSUME NEW c \in Call, NEW u \in User, Login(c, u) PROVE TypeOK'
<2>1. call' \in [Call -> CallState]
  BY <1>1 DEF Login, Goes, NoCall, CallState
<2>. QED
  BY <1>1, <2>1, BeginsKeepsType DEF Login
<1>2. ASSUME NEW c \in Call, NEW u \in User, VerifyPassword(c, u) PROVE TypeOK'
<2>1. call' \in [Call -> CallState]
  BY <1>2 DEF VerifyPassword, Goes, NoCall, CallState
<2>. QED
  BY <1>2, <2>1, BeginsKeepsType DEF VerifyPassword
<1>3. ASSUME NEW c \in Call, NEW t \in Call, TakeToken(c, t) PROVE TypeOK'
<2>1. key[t] \in User
  BY <1>3 DEF TakeToken
<2>2. call' \in [Call -> CallState]
  <3>1. \A way \in {"refresh", "logout"} :
          [NoCall EXCEPT !.kind = way, !.step = "taken", !.user = key[t], !.token = t]
            \in CallState
    BY <2>1 DEF NoCall, CallState
  <3>. QED
    BY <1>3, <3>1 DEF TakeToken, Goes
<2>. QED
  BY <1>3, <2>2, BeginsKeepsType DEF TakeToken
<1>4. ASSUME NEW c \in Call, ForgetToken(c) PROVE TypeOK'
<2>1. call' \in [Call -> CallState]
  BY <1>4, StepKeepsType DEF ForgetToken
<2>. QED
  BY <1>4, <2>1 DEF ForgetToken
<1>5. ASSUME NEW c \in Call, CommitPassword(c) PROVE TypeOK'
<2>1. call' \in [Call -> CallState]
  BY <1>5, StepKeepsType DEF CommitPassword
<2>. QED
  BY <1>5, <2>1 DEF CommitPassword
<1>6. ASSUME NEW c \in Call, ListTokens(c) PROVE TypeOK'
<2>1. known[call[c].user] \subseteq Call
  BY <1>6 DEF ListTokens, BegunInv, CallState
<2>2. [call[c] EXCEPT !.step = "listed", !.listed = known[call[c].user]] \in CallState
  <3>1. call[c] \in CallState
    OBVIOUS
  <3>2. ASSUME NEW state \in CallState, NEW S \in SUBSET Call
        PROVE  [state EXCEPT !.step = "listed", !.listed = S] \in CallState
    BY DEF CallState
  <3>. QED
    BY <2>1, <3>1, <3>2
<2>. QED
  BY <1>6, <2>2 DEF ListTokens, Goes
<1>7. ASSUME NEW c \in Call, DropTokens(c) PROVE TypeOK'
<2>1. call' \in [Call -> CallState]
  BY <1>7, StepKeepsType DEF DropTokens
<2>. QED
  BY <1>7, <2>1 DEF DropTokens
<1>8. ASSUME NEW c \in Call, DropSet(c) PROVE TypeOK'
<2>1. call' \in [Call -> CallState]
  BY <1>8, StepKeepsType DEF DropSet
<2>. QED
  BY <1>8, <2>1 DEF DropSet
<1>9. ASSUME NEW c \in Call, StoreToken(c) PROVE TypeOK'
<2>1. call' \in [Call -> CallState]
  BY <1>9, StepKeepsType DEF StoreToken
<2>2. call[c].user \in User \cup {None}
  BY DEF CallState
<2>. QED
  BY <1>9, <2>1, <2>2 DEF StoreToken
<1>10. ASSUME NEW c \in Call, EnterToken(c) PROVE TypeOK'
<2>1. call' \in [Call -> CallState]
  BY <1>10, StepKeepsType DEF EnterToken
<2>. QED
  BY <1>10, <2>1 DEF EnterToken
<1>11. ASSUME NEW c \in Call, Stop(c) PROVE TypeOK'
<2>1. call' \in [Call -> CallState]
  BY <1>11, StepKeepsType DEF Stop
<2>. QED
  BY <1>11, <2>1 DEF Stop
<1>12. ASSUME NEW u \in User, ToggleBlocked(u) PROVE TypeOK'
  BY <1>12 DEF ToggleBlocked
<1>13. CASE UNCHANGED vars
  BY <1>13
<1>. QED
  BY <1>1, <1>2, <1>3, <1>4, <1>5, <1>6, <1>7, <1>8, <1>9, <1>10, <1>11, <1>12, <1>13 DEF Next

\* A call begins with its user and keeps him.
LEMMA BegunStep == ConstantsAssumption /\ TypeOK /\ BegunInv /\ [Next]_vars => BegunInv'
<1> SUFFICES ASSUME ConstantsAssumption, TypeOK, BegunInv, [Next]_vars PROVE BegunInv'
  OBVIOUS
<1>t. call \in [Call -> CallState] /\ None \notin User
  BY DEF TypeOK, ConstantsAssumption
<1>1. ASSUME NEW c \in Call, NEW step, Step(c, step), call[c].step # "new" PROVE BegunInv'
  BY <1>1, <1>t DEF Step, BegunInv, CallState
<1>2. ASSUME NEW c \in Call, NEW state, state.user # None, Goes(c, state) PROVE BegunInv'
  BY <1>2, <1>t DEF Goes, BegunInv
<1>3. ASSUME NEW c \in Call, NEW u \in User, Login(c, u) \/ VerifyPassword(c, u)
      PROVE  BegunInv'
  BY <1>3, <1>2, <1>t DEF Login, VerifyPassword, NoCall
<1>4. ASSUME NEW c \in Call, NEW t \in Call, TakeToken(c, t) PROVE BegunInv'
  BY <1>4, <1>2 DEF TakeToken, NoCall
<1>5. ASSUME NEW c \in Call, ListTokens(c) PROVE BegunInv'
<2>1. [call[c] EXCEPT !.step = "listed", !.listed = known[call[c].user]].user # None
  BY <1>5, <1>t DEF ListTokens, BegunInv, CallState
<2>. QED
  BY <1>5, <1>2, <2>1 DEF ListTokens
<1>6. ASSUME NEW c \in Call,
             \/ ForgetToken(c) \/ CommitPassword(c) \/ DropTokens(c) \/ DropSet(c)
             \/ StoreToken(c) \/ EnterToken(c) \/ Stop(c)
      PROVE  BegunInv'
  BY <1>6, <1>1 DEF ForgetToken, CommitPassword, DropTokens, DropSet, StoreToken,
     EnterToken, Stop
<1>7. CASE UNCHANGED call
  BY <1>7 DEF BegunInv
<1>. QED
  BY <1>3, <1>4, <1>5, <1>6, <1>7 DEF Next, ToggleBlocked

-----------------------------------------------------------------------------
\* A step of a call that takes no token, stores none and un-issues none keeps what
\* is said of tokens.
LEMMA TokensStay ==
  ASSUME IInv, NEW c \in Call, NEW state, call' = [call EXCEPT ![c] = state],
         state.token \in {call[c].token, None}, Issued(c) => Issued(c)',
         \A t \in Call : key'[t] \in {key[t], None}
  PROVE  TokenInv' /\ ExchangedOnce'
<1>1. call \in [Call -> CallState]
  BY DEF IInv, TypeOK
<1>2. \A d \in Call : Issued(d) => Issued(d)'
  BY <1>1 DEF Issued
<1>3. \A d \in Call : call'[d].token \in {call[d].token, None}
  BY <1>1
<1>4. \A d \in Call : call[d].token \in Call \cup {None}
  BY <1>1 DEF CallState
<1>. QED
  BY <1>2, <1>3, <1>4 DEF IInv, TokenInv, ExchangedOnce

\* The same of a call that only goes to its next step.
LEMMA StepKeepsTokens ==
  ASSUME IInv, NEW c \in Call, NEW step, Step(c, step), Issued(c) => Issued(c)',
         \A t \in Call : key'[t] \in {key[t], None}
  PROVE  TokenInv' /\ ExchangedOnce'
<1>1. call[c] \in CallState
  BY DEF IInv, TypeOK
<1>2. [call[c] EXCEPT !.step = step].token = call[c].token
  BY <1>1 DEF CallState
<1>. QED
  BY <1>2, TokensStay DEF Step

\* GETDEL: who takes a token is the only one, and it stays taken.
LEMMA TokenStep ==
  ConstantsAssumption /\ IInv /\ [Next]_vars => TokenInv' /\ ExchangedOnce'
<1> SUFFICES ASSUME ConstantsAssumption, IInv, [Next]_vars PROVE TokenInv' /\ ExchangedOnce'
  OBVIOUS
<1>t. /\ call \in [Call -> CallState] /\ key \in [Call -> User \cup {None}]
      /\ None \notin Call
  BY DEF IInv, TypeOK, ConstantsAssumption
<1>1. ASSUME NEW c \in Call, NEW u \in User, Login(c, u) PROVE TokenInv' /\ ExchangedOnce'
  BY <1>1, <1>t, TokensStay DEF Login, Begins, Goes, NoCall, Issued
<1>2. ASSUME NEW c \in Call, NEW u \in User, VerifyPassword(c, u)
      PROVE  TokenInv' /\ ExchangedOnce'
  BY <1>2, <1>t, TokensStay DEF VerifyPassword, Begins, Goes, NoCall, Issued
<1>3. ASSUME NEW c \in Call, NEW t \in Call, TakeToken(c, t)
      PROVE  TokenInv' /\ ExchangedOnce'
<2>1. call[c].step = "new" /\ key[t] # None /\ key' = [key EXCEPT ![t] = None]
  BY <1>3 DEF TakeToken, Begins
<2>2. Issued(t) /\ t # c
  BY <2>1 DEF IInv, TokenInv, Issued
<2>3. \A d \in Call : call[d].token # t
  BY <2>1, <1>t DEF IInv, TokenInv
<2>4. \A d \in Call \ {c} : call'[d] = call[d]
  BY <1>3, <1>t DEF TakeToken, Goes
<2>5. call'[c].token = t
  BY <1>3, <1>t DEF TakeToken, Goes, NoCall
<2>6. \A d \in Call : Issued(d) => Issued(d)'
  BY <2>1, <2>4 DEF Issued
<2>7. \A d \in Call : call[d].token \in Call \cup {None}
  BY <1>t DEF CallState
<2>8. TokenInv'
  BY <1>t, <2>1, <2>2, <2>4, <2>5, <2>6, <2>7 DEF IInv, TokenInv
<2>9. ExchangedOnce'
  BY <2>3, <2>4, <2>5 DEF IInv, ExchangedOnce
<2>. QED
  BY <2>8, <2>9
<1>4. ASSUME NEW c \in Call, ForgetToken(c) PROVE TokenInv' /\ ExchangedOnce'
  BY <1>4, <1>t, StepKeepsTokens DEF ForgetToken, Issued
<1>5. ASSUME NEW c \in Call, CommitPassword(c) PROVE TokenInv' /\ ExchangedOnce'
  BY <1>5, <1>t, StepKeepsTokens DEF CommitPassword, Issued
<1>6. ASSUME NEW c \in Call, ListTokens(c) PROVE TokenInv' /\ ExchangedOnce'
<2>1. [call[c] EXCEPT !.step = "listed", !.listed = known[call[c].user]].token = call[c].token
  BY <1>t DEF CallState
<2>. QED
  BY <1>6, <1>t, <2>1, TokensStay DEF ListTokens, Goes, Issued
<1>7. ASSUME NEW c \in Call, DropTokens(c) PROVE TokenInv' /\ ExchangedOnce'
  BY <1>7, <1>t, StepKeepsTokens DEF DropTokens, Issued
<1>8. ASSUME NEW c \in Call, DropSet(c) PROVE TokenInv' /\ ExchangedOnce'
  BY <1>8, <1>t, StepKeepsTokens DEF DropSet, Issued
<1>9. ASSUME NEW c \in Call, StoreToken(c) PROVE TokenInv' /\ ExchangedOnce'
<2>1. ~Issued(c) /\ Issued(c)'
  BY <1>9, <1>t DEF StoreToken, Step, Issued, CallState
<2>2. \A d \in Call : call[d].token # c
  BY <2>1, <1>t DEF IInv, TokenInv
<2>3. \A d \in Call : call'[d].token = call[d].token
  BY <1>9, <1>t DEF StoreToken, Step, CallState
<2>4. \A d \in Call : Issued(d) => Issued(d)'
  BY <1>9, <1>t, <2>1 DEF StoreToken, Step, Issued, CallState
<2>5. \A d \in Call \ {c} : key'[d] = key[d]
  BY <1>9, <1>t DEF StoreToken
<2>6. \A d \in Call : call[d].token \in Call \cup {None}
  BY <1>t DEF CallState
<2>7. TokenInv'
  BY <1>t, <2>1, <2>2, <2>3, <2>4, <2>5, <2>6 DEF IInv, TokenInv
<2>8. ExchangedOnce'
  BY <2>3 DEF IInv, ExchangedOnce
<2>. QED
  BY <2>7, <2>8
<1>10. ASSUME NEW c \in Call, EnterToken(c) PROVE TokenInv' /\ ExchangedOnce'
  BY <1>10, <1>t, StepKeepsTokens DEF EnterToken, Step, Issued, CallState
<1>11. ASSUME NEW c \in Call, Stop(c) PROVE TokenInv' /\ ExchangedOnce'
  BY <1>11, <1>t, StepKeepsTokens DEF Stop, Step, Issued, CallState
<1>12. CASE UNCHANGED <<key, call>>
  BY <1>12 DEF IInv, TokenInv, ExchangedOnce, Issued
<1>. QED
  BY <1>1, <1>2, <1>3, <1>4, <1>5, <1>6, <1>7, <1>8, <1>9, <1>10, <1>11, <1>12
     DEF Next, ToggleBlocked

-----------------------------------------------------------------------------
(* Changes of password. *)

\* Only a change of password goes through its steps, and it takes no token.
PasswordInv ==
  \A c \in Call :
    /\ call[c].step \in {"verified", "committed", "listed", "dropped"} => call[c].kind = "change"
    /\ call[c].kind = "change" => call[c].step \notin {"new", "taken"}

\* A key names the user its call acted for.
KeyInv == \A t \in Call : key[t] # None => key[t] = call[t].user

\* Past the deletion of its user's set; a change that stopped may be.
Emptied(d) == call[d].step \in Issuing \cup {"done", "stopped"}

EndedInv == \A t \in Call : \A d \in after[t].ended : Emptied(d)

\* A live session is in its user's set, or a change that overlapped its issue emptied it.
KnownInv ==
  \A t \in Call, u \in User : key[t] = u /\ call[t].step = "done" =>
    \/ t \in known[u]
    \/ \E d \in ChangesOf(u) : d \notin after[t].ended /\ Emptied(d)

\* How far the user's only change has come with the sessions that were at rest.
Reached(c, t) ==
  /\ call[c].step = "committed" => t \in known[call[c].user]
  /\ call[c].step = "listed" => t \in call[c].listed
  /\ ~Revoked(c)

RestInv ==
  \A c \in Call : \A t \in rest[c] :
    /\ call[t].step = "done" /\ call[c].kind = "change"
    /\ \A u \in User : key[t] = u /\ ChangesOf(u) = {c} /\ t # c => Reached(c, t)

ChangeInv == PasswordInv /\ KeyInv /\ EndedInv /\ KnownInv /\ RestInv

\* Before any request nothing was changed, and the strengthened invariant holds.
LEMMA InitChangeInv == ConstantsAssumption /\ Init => ChangeInv
  BY DEF ConstantsAssumption, Init, ChangeInv, PasswordInv, KeyInv, EndedInv, KnownInv, RestInv,
     NoCall

\* A call that has begun keeps its kind, its user and what it remembers; a call that
\* is done stays so, and its key can only go.
LEMMA Frame ==
  ASSUME ConstantsAssumption, IInv, [Next]_vars, NEW t \in Call, call[t].step # "new"
  PROVE  /\ call'[t].kind = call[t].kind /\ call'[t].user = call[t].user
         /\ call'[t].step # "new" /\ after'[t] = after[t]
         /\ Emptied(t) => Emptied(t)'
         /\ call[t].step = "done" => call'[t].step = "done" /\ key'[t] \in {key[t], None}
<1> DEFINE Kept ==
      /\ call'[t].kind = call[t].kind /\ call'[t].user = call[t].user
      /\ call'[t].step # "new" /\ after'[t] = after[t]
      /\ Emptied(t) => Emptied(t)'
      /\ call[t].step = "done" => call'[t].step = "done" /\ key'[t] \in {key[t], None}
<1>t. /\ call \in [Call -> CallState] /\ key \in [Call -> User \cup {None}]
      /\ after \in [Call -> [committed : SUBSET Call, ended : SUBSET Call]]
  BY DEF IInv, TypeOK
<1>1. ASSUME NEW c \in Call, NEW state, Goes(c, state), call[c].step = "new",
             after' = [after EXCEPT ![c] = after'[c]],
             \A s \in Call : key'[s] \in {key[s], None}
      PROVE  Kept
  BY <1>1, <1>t DEF Goes, Emptied
<1>2. ASSUME NEW c \in Call, NEW step \in Running \cup {"done", "stopped"}, Step(c, step),
             call[c].step # "done", Emptied(c) => step \in Issuing \cup {"done", "stopped"},
             after' = after, \A s \in Call : s # c => key'[s] \in {key[s], None}
      PROVE  Kept
  BY <1>2, <1>t DEF Step, Emptied, CallState
<1>3. ASSUME NEW c \in Call, NEW u \in User, Login(c, u) \/ VerifyPassword(c, u) PROVE Kept
  BY <1>3, <1>1, <1>t DEF Login, VerifyPassword, Begins
<1>4. ASSUME NEW c \in Call, NEW s \in Call, TakeToken(c, s) PROVE Kept
<2>1. \A d \in Call : key'[d] \in {key[d], None}
  BY <1>4, <1>t DEF TakeToken
<2>. QED
  BY <1>4, <2>1, <1>1, <1>t DEF TakeToken, Begins
<1>5. ASSUME NEW c \in Call, ListTokens(c) PROVE Kept
<2>1. [call[c] EXCEPT !.step = "listed", !.listed = known[call[c].user]].user = call[c].user
  BY <1>t DEF CallState
<2>. QED
  BY <1>5, <1>t DEF ListTokens, Goes, Emptied, CallState
<1>6. ASSUME NEW c \in Call, ForgetToken(c) \/ CommitPassword(c) \/ DropTokens(c) \/ DropSet(c)
      PROVE  Kept
  BY <1>6, <1>2, <1>t DEF ForgetToken, CommitPassword, DropTokens, DropSet, Emptied
<1>7. ASSUME NEW c \in Call, StoreToken(c) \/ EnterToken(c) \/ Stop(c) PROVE Kept
  BY <1>7, <1>2, <1>t DEF StoreToken, EnterToken, Stop, Emptied
<1>8. CASE UNCHANGED <<key, call, after>>
  BY <1>8 DEF Emptied
<1>. QED
  BY <1>3, <1>4, <1>5, <1>6, <1>7, <1>8 DEF Next, ToggleBlocked

\* Steps of a change follow one another, and no other call takes them.
LEMMA PasswordStep ==
  ConstantsAssumption /\ IInv /\ PasswordInv /\ [Next]_vars => PasswordInv'
<1> SUFFICES ASSUME ConstantsAssumption, IInv, PasswordInv, [Next]_vars PROVE PasswordInv'
  OBVIOUS
<1>t. call \in [Call -> CallState]
  BY DEF IInv, TypeOK
<1> DEFINE Fits(state) ==
      /\ state.step \in {"verified", "committed", "listed", "dropped"} => state.kind = "change"
      /\ state.kind = "change" => state.step \notin {"new", "taken"}
<1>1. ASSUME NEW c \in Call, NEW state, Fits(state), call' = [call EXCEPT ![c] = state]
      PROVE  PasswordInv'
  BY <1>1, <1>t DEF PasswordInv
<1>2. ASSUME NEW c \in Call, NEW step, Step(c, step), Fits([call[c] EXCEPT !.step = step])
      PROVE  PasswordInv'
  BY <1>2, <1>1 DEF Step
<1>3. \A c \in Call : \A step :
        /\ [call[c] EXCEPT !.step = step].step = step
        /\ [call[c] EXCEPT !.step = step].kind = call[c].kind
  BY <1>t DEF CallState
<1>4. ASSUME NEW c \in Call, NEW u \in User, Login(c, u) \/ VerifyPassword(c, u)
      PROVE  PasswordInv'
  BY <1>4, <1>1 DEF Login, VerifyPassword, Goes, NoCall
<1>5. ASSUME NEW c \in Call, NEW t \in Call, TakeToken(c, t) PROVE PasswordInv'
  BY <1>5, <1>1 DEF TakeToken, Goes, NoCall
<1>6. ASSUME NEW c \in Call, ForgetToken(c) PROVE PasswordInv'
  BY <1>6, <1>2, <1>3 DEF ForgetToken, PasswordInv
<1>7. ASSUME NEW c \in Call, CommitPassword(c) \/ DropTokens(c) \/ DropSet(c) PROVE PasswordInv'
  BY <1>7, <1>2, <1>3 DEF CommitPassword, DropTokens, DropSet, PasswordInv
<1>8. ASSUME NEW c \in Call, ListTokens(c) PROVE PasswordInv'
<2>1. call[c].kind = "change"
  BY <1>8 DEF ListTokens, PasswordInv
<2>2. [call[c] EXCEPT !.step = "listed", !.listed = known[call[c].user]].kind = "change"
  BY <2>1, <1>t DEF CallState
<2>3. [call[c] EXCEPT !.step = "listed", !.listed = known[call[c].user]].step = "listed"
  BY <1>t DEF CallState
<2>. QED
  BY <1>8, <1>1, <2>2, <2>3 DEF ListTokens, Goes
<1>9. ASSUME NEW c \in Call, StoreToken(c) \/ EnterToken(c) \/ Stop(c) PROVE PasswordInv'
  BY <1>9, <1>2, <1>3 DEF StoreToken, EnterToken, Stop, PasswordInv
<1>10. CASE UNCHANGED call
  BY <1>10 DEF PasswordInv
<1>. QED
  BY <1>4, <1>5, <1>6, <1>7, <1>8, <1>9, <1>10 DEF Next, ToggleBlocked

\* A key is stored for the user of its call.
LEMMA KeyStep == ConstantsAssumption /\ IInv /\ KeyInv /\ [Next]_vars => KeyInv'
<1> SUFFICES ASSUME ConstantsAssumption, IInv, KeyInv, [Next]_vars, NEW t \in Call, key'[t] # None
             PROVE  key'[t] = call'[t].user
  BY DEF KeyInv
<1>t. key \in [Call -> User \cup {None}] /\ call \in [Call -> CallState]
  BY DEF IInv, TypeOK
<1>1. CASE key'[t] = key[t]
<2>1. call[t].step # "new"
  BY <1>1 DEF IInv, TokenInv, Issued
<2>. QED
  BY <1>1, <2>1, Frame DEF KeyInv
<1>2. CASE key'[t] # key[t]
<2>1. ASSUME NEW c \in Call, NEW s \in Call, TakeToken(c, s) PROVE key'[t] \in {key[t], None}
  BY <2>1, <1>t DEF TakeToken
<2>2. ASSUME NEW c \in Call, DropTokens(c) PROVE key'[t] \in {key[t], None}
  BY <2>2, <1>t DEF DropTokens
<2>3. ASSUME NEW c \in Call, NEW u \in User, Login(c, u) \/ VerifyPassword(c, u)
      PROVE  key' = key
  BY <2>3 DEF Login, VerifyPassword
<2>4. ASSUME NEW c \in Call,
             \/ ForgetToken(c) \/ CommitPassword(c) \/ ListTokens(c) \/ DropSet(c)
             \/ EnterToken(c) \/ Stop(c)
      PROVE  key' = key
  BY <2>4 DEF ForgetToken, CommitPassword, ListTokens, DropSet, EnterToken, Stop
<2>5. \E c \in Call : StoreToken(c)
  BY <1>2, <2>1, <2>2, <2>3, <2>4 DEF Next, ToggleBlocked
<2>6. PICK c \in Call : StoreToken(c)
  BY <2>5
<2>7. c = t /\ key'[t] = call[t].user /\ call[t].step # "new"
  BY <1>2, <2>6, <1>t DEF StoreToken
<2>. QED
  BY <2>7, Frame
<1>. QED
  BY <1>1, <1>2

\* What a change has emptied before a call began stays behind it.
LEMMA EndedStep ==
  ConstantsAssumption /\ IInv /\ PasswordInv /\ EndedInv /\ [Next]_vars => EndedInv'
<1> SUFFICES ASSUME ConstantsAssumption, IInv, PasswordInv, EndedInv, [Next]_vars,
                    NEW t \in Call, NEW d \in after'[t].ended
             PROVE  Emptied(d)'
  BY DEF EndedInv
<1>t. after \in [Call -> [committed : SUBSET Call, ended : SUBSET Call]]
  BY DEF IInv, TypeOK
<1>1. CASE after'[t] = after[t]
<2>1. d \in Call /\ Emptied(d)
  BY <1>1, <1>t DEF EndedInv
<2>. QED
  BY <2>1, Frame DEF Emptied
<1>2. CASE after'[t] # after[t]
<2>1. ASSUME NEW c \in Call,
             \/ ForgetToken(c) \/ CommitPassword(c) \/ ListTokens(c) \/ DropTokens(c)
             \/ DropSet(c) \/ StoreToken(c) \/ EnterToken(c) \/ Stop(c)
      PROVE  after' = after
  BY <2>1 DEF ForgetToken, CommitPassword, ListTokens, DropTokens, DropSet, StoreToken,
     EnterToken, Stop
<2>2. ASSUME NEW c \in Call, NEW u, Begins(c, u) PROVE d \in Call /\ Emptied(d)
  BY <1>2, <2>2, <1>t DEF Begins, ChangesOf, Emptied
<2>3. ASSUME NEW c \in Call, NEW u, Login(c, u) \/ VerifyPassword(c, u) \/ TakeToken(c, u)
      PROVE  d \in Call /\ Emptied(d)
  BY <2>2, <2>3 DEF Login, VerifyPassword, TakeToken
<2>4. d \in Call /\ Emptied(d)
  BY <1>2, <2>1, <2>3 DEF Next, ToggleBlocked
<2>. QED
  BY <2>4, Frame DEF Emptied
<1>. QED
  BY <1>1, <1>2

\* The sets lose a token that is dead, and a whole set to a change that has not emptied
\* it before.
LEMMA SetStep ==
  ASSUME ConstantsAssumption, IInv, PasswordInv, [Next]_vars, NEW t \in Call, NEW u \in User,
         key[t] # None, t \in known[u]
  PROVE  t \in known'[u] \/ \E c \in ChangesOf(u) : ~Emptied(c) /\ Emptied(c)'
<1>t. known \in [User -> SUBSET Call] /\ call \in [Call -> CallState]
  BY DEF IInv, TypeOK
<1>1. ASSUME NEW c \in Call, ForgetToken(c) PROVE t \in known'[u]
<2>1. c \in Call /\ call[c].step = "taken" /\ t # None
  BY <1>1 DEF ForgetToken, ConstantsAssumption
<2>2. call[c].token # t
  BY <2>1 DEF IInv, TokenInv
<2>. QED
  BY <1>1, <2>2, <1>t DEF ForgetToken
<1>2. ASSUME NEW c \in Call, DropSet(c), t \notin known'[u]
      PROVE  c \in ChangesOf(u) /\ ~Emptied(c) /\ Emptied(c)'
<2>1. call[c].user = u
  BY <1>2, <1>t DEF DropSet
<2>2. call[c].step = "dropped" /\ call'[c].step = "allowed"
  BY <1>2, <1>t DEF DropSet, Step, CallState
<2>. QED
  BY <2>1, <2>2 DEF PasswordInv, ChangesOf, Emptied
<1>3. ASSUME NEW c \in Call, EnterToken(c) PROVE t \in known'[u]
  BY <1>3, <1>t DEF EnterToken
<1>4. ASSUME NEW c \in Call, NEW s \in User, Login(c, s) \/ VerifyPassword(c, s)
      PROVE  known' = known
  BY <1>4 DEF Login, VerifyPassword
<1>5. ASSUME NEW c \in Call, NEW s \in Call, TakeToken(c, s) PROVE known' = known
  BY <1>5 DEF TakeToken
<1>6. ASSUME NEW c \in Call,
             \/ CommitPassword(c) \/ ListTokens(c) \/ DropTokens(c) \/ StoreToken(c) \/ Stop(c)
      PROVE  known' = known
  BY <1>6 DEF CommitPassword, ListTokens, DropTokens, StoreToken, Stop
<1>. QED
  BY <1>1, <1>2, <1>3, <1>4, <1>5, <1>6 DEF Next, ToggleBlocked

\* A call whose token has a key is done by entering it in its user's set.
LEMMA DoneStep ==
  ASSUME ConstantsAssumption, IInv, KeyInv, [Next]_vars, NEW t \in Call,
         call[t].step # "done", call'[t].step = "done", key'[t] # None
  PROVE  key'[t] \in User /\ t \in known'[key'[t]]
<1>t. /\ call \in [Call -> CallState] /\ known \in [User -> SUBSET Call]
      /\ key \in [Call -> User \cup {None}]
  BY DEF IInv, TypeOK
<1>1. ASSUME NEW c \in Call, EnterToken(c) PROVE key'[t] \in User /\ t \in known'[key'[t]]
<2>1. t = c /\ key' = key
  BY <1>1, <1>t DEF EnterToken, Step
<2>2. key[t] = call[t].user /\ key[t] \in User
  BY <2>1, <1>t DEF KeyInv
<2>. QED
  BY <1>1, <2>1, <2>2, <1>t DEF EnterToken
<1>2. ASSUME NEW c \in Call, ForgetToken(c) PROVE FALSE
<2>1. t = c /\ key' = key /\ call[t].step = "taken"
  BY <1>2, <1>t DEF ForgetToken, Step
<2>. QED
  BY <2>1 DEF IInv, TokenInv, Issued
<1>3. ASSUME NEW c \in Call, NEW step \in Running \cup {"stopped"}, Step(c, step) PROVE FALSE
  BY <1>3, <1>t DEF Step, CallState
<1>4. ASSUME NEW c \in Call, NEW state, state.step # "done", Goes(c, state) PROVE FALSE
  BY <1>4, <1>t DEF Goes
<1>5. ASSUME NEW c \in Call, NEW u \in User, Login(c, u) \/ VerifyPassword(c, u) PROVE FALSE
  BY <1>5, <1>4 DEF Login, VerifyPassword, NoCall
<1>6. ASSUME NEW c \in Call, NEW s \in Call, TakeToken(c, s) PROVE FALSE
  BY <1>6, <1>4 DEF TakeToken, NoCall
<1>7. ASSUME NEW c \in Call, ListTokens(c) PROVE FALSE
<2>1. [call[c] EXCEPT !.step = "listed", !.listed = known[call[c].user]].step = "listed"
  BY <1>t DEF CallState
<2>. QED
  BY <1>7, <1>4, <2>1 DEF ListTokens
<1>8. ASSUME NEW c \in Call,
             CommitPassword(c) \/ DropTokens(c) \/ DropSet(c) \/ StoreToken(c) \/ Stop(c)
      PROVE  FALSE
  BY <1>8, <1>3 DEF CommitPassword, DropTokens, DropSet, StoreToken, Stop
<1>9. CASE UNCHANGED call
  BY <1>9
<1>. QED
  BY <1>1, <1>2, <1>5, <1>6, <1>7, <1>8, <1>9 DEF Next, ToggleBlocked

\* A session leaves its user's set for a change that overlapped its issue.
LEMMA KnownStep ==
  ConstantsAssumption /\ IInv /\ ChangeInv /\ [Next]_vars => KnownInv'
<1> SUFFICES ASSUME ConstantsAssumption, IInv, ChangeInv, [Next]_vars,
                    NEW t \in Call, NEW u \in User, key'[t] = u, call'[t].step = "done"
             PROVE  \/ t \in known'[u]
                    \/ \E d \in ChangesOf(u)' : d \notin after'[t].ended /\ Emptied(d)'
  BY DEF KnownInv
<1> USE DEF ChangeInv
<1>n. key'[t] # None
  BY DEF ConstantsAssumption
<1>1. CASE call[t].step # "done"
  BY <1>1, <1>n, DoneStep
<1>2. CASE call[t].step = "done"
<2>1. key[t] = u /\ after'[t] = after[t]
  BY <1>2, <1>n, Frame
<2>2. ASSUME NEW d \in ChangesOf(u), d \notin after[t].ended
      PROVE  d \in ChangesOf(u)' /\ d \notin after'[t].ended
<3>1. d \in Call /\ call[d].step # "new" /\ call[d].user = u /\ call[d].kind = "change"
  BY DEF ChangesOf, PasswordInv
<3>2. call'[d].user = u /\ call'[d].kind = "change"
  BY <3>1, Frame
<3>. QED
  BY <2>1, <2>2, <3>1, <3>2 DEF ChangesOf
<2>3. CASE t \in known[u]
<3>1. t \in known'[u] \/ \E c \in ChangesOf(u) : ~Emptied(c) /\ Emptied(c)'
  BY <1>n, <2>1, <2>3, SetStep
<3>. QED
  BY <2>2, <3>1 DEF EndedInv
<2>4. CASE t \notin known[u]
<3>1. PICK d \in ChangesOf(u) : d \notin after[t].ended /\ Emptied(d)
  BY <1>2, <2>1, <2>4 DEF KnownInv
<3>2. d \in Call /\ call[d].step # "new"
  BY DEF ChangesOf, PasswordInv
<3>. QED
  BY <2>2, <3>1, <3>2, Frame
<2>. QED
  BY <2>3, <2>4
<1>. QED
  BY <1>1, <1>2

\* A change stands still or takes one of its steps.
LEMMA ChangeMoves ==
  ASSUME ConstantsAssumption, IInv, PasswordInv, [Next]_vars, NEW c \in Call,
         call[c].kind = "change"
  PROVE  \/ call'[c].step = call[c].step /\ call'[c].listed = call[c].listed
         \/ CommitPassword(c) \/ ListTokens(c) \/ DropTokens(c) \/ DropSet(c)
         \/ StoreToken(c) \/ EnterToken(c) \/ Stop(c)
<1>t. call \in [Call -> CallState] /\ call[c].step \notin {"new", "taken"}
  BY DEF IInv, TypeOK, PasswordInv
<1>1. ASSUME NEW d \in Call, d # c, NEW state, call' = [call EXCEPT ![d] = state]
      PROVE  call'[c] = call[c]
  BY <1>1, <1>t
<1>2. ASSUME NEW d \in Call, NEW u \in User, Login(d, u) \/ VerifyPassword(d, u)
      PROVE  call'[c] = call[c]
  BY <1>2, <1>1, <1>t DEF Login, VerifyPassword, Begins, Goes
<1>3. ASSUME NEW d \in Call, NEW t \in Call, TakeToken(d, t) PROVE call'[c] = call[c]
  BY <1>3, <1>1, <1>t DEF TakeToken, Begins, Goes
<1>4. ASSUME NEW d \in Call, ForgetToken(d) PROVE call'[c] = call[c]
  BY <1>4, <1>1, <1>t DEF ForgetToken, Step
<1>5. ASSUME NEW d \in Call, d # c,
             CommitPassword(d) \/ DropTokens(d) \/ DropSet(d) \/ ListTokens(d)
      PROVE  call'[c] = call[c]
  BY <1>5, <1>1 DEF CommitPassword, DropTokens, DropSet, ListTokens, Step, Goes
<1>6. ASSUME NEW d \in Call, d # c, StoreToken(d) \/ EnterToken(d) \/ Stop(d)
      PROVE  call'[c] = call[c]
  BY <1>6, <1>1 DEF StoreToken, EnterToken, Stop, Step
<1>. QED
  BY <1>2, <1>3, <1>4, <1>5, <1>6 DEF Next, ToggleBlocked

\* What was at rest is noted when a change is committed.
LEMMA RestNoted ==
  ASSUME IInv, [Next]_vars, NEW c \in Call
  PROVE  rest'[c] = rest[c] \/ CommitPassword(c)
<1>t. rest \in [Call -> SUBSET Call]
  BY DEF IInv, TypeOK
<1>1. ASSUME NEW d \in Call, CommitPassword(d) PROVE rest'[c] = rest[c] \/ CommitPassword(c)
  BY <1>1, <1>t DEF CommitPassword
<1>2. ASSUME NEW d \in Call, NEW u, Login(d, u) \/ VerifyPassword(d, u) \/ TakeToken(d, u)
      PROVE  rest' = rest
  BY <1>2 DEF Login, VerifyPassword, TakeToken, Begins
<1>3. ASSUME NEW d \in Call,
             \/ ForgetToken(d) \/ ListTokens(d) \/ DropTokens(d) \/ DropSet(d)
             \/ StoreToken(d) \/ EnterToken(d) \/ Stop(d)
      PROVE  rest' = rest
  BY <1>3 DEF ForgetToken, ListTokens, DropTokens, DropSet, StoreToken, EnterToken, Stop
<1>. QED
  BY <1>1, <1>2, <1>3 DEF Next, ToggleBlocked

\* A change finds the sessions that were at rest, and deletes what it found.
LEMMA RestStep == ConstantsAssumption /\ IInv /\ ChangeInv /\ [Next]_vars => RestInv'
<1> SUFFICES ASSUME ConstantsAssumption, IInv, ChangeInv, [Next]_vars,
                    NEW c \in Call, NEW t \in rest'[c]
             PROVE  /\ call'[t].step = "done" /\ call'[c].kind = "change"
                    /\ \A u \in User : key'[t] = u /\ ChangesOf(u)' = {c} /\ t # c
                                         => Reached(c, t)'
  BY DEF RestInv
<1> USE DEF ChangeInv
<1>t. /\ rest \in [Call -> SUBSET Call] /\ call \in [Call -> CallState]
      /\ known \in [User -> SUBSET Call] /\ key \in [Call -> User \cup {None}]
  BY DEF IInv, TypeOK
<1>n. None \notin User
  BY DEF ConstantsAssumption
<1>1. CASE CommitPassword(c)
<2>1. t \in Call /\ key[t] # None /\ call[t].step = "done" /\ key' = key /\ known' = known
  BY <1>1, <1>t DEF CommitPassword
<2>2. /\ call[c].step = "verified" /\ call[c].kind = "change"
      /\ call'[c].step = "committed" /\ call'[c].user = call[c].user
  BY <1>1, <1>t DEF CommitPassword, Step, CallState, PasswordInv
<2>3. call'[t].step = "done" /\ call'[c].kind = "change"
  BY <2>1, <2>2, Frame
<2>4. ASSUME NEW u \in User, key'[t] = u, ChangesOf(u)' = {c} PROVE t \in known'[call'[c].user]
<3>1. key[t] = u /\ call[c].user = u
  BY <2>1, <2>2, <2>4 DEF ChangesOf
<3>2. ASSUME NEW d \in ChangesOf(u) PROVE d = c
<4>1. d \in Call /\ call[d].step # "new" /\ call[d].user = u /\ call[d].kind = "change"
  BY DEF ChangesOf, PasswordInv
<4>2. call'[d].user = u /\ call'[d].kind = "change"
  BY <4>1, Frame
<4>. QED
  BY <2>4, <4>1, <4>2 DEF ChangesOf
<3>3. ~Emptied(c)
  BY <2>2 DEF Emptied
<3>. QED
  BY <2>1, <2>2, <3>1, <3>2, <3>3 DEF KnownInv
<2>. QED
  BY <2>2, <2>3, <2>4 DEF Reached, Revoked
<1>2. CASE ~CommitPassword(c)
<2>1. t \in rest[c] /\ t \in Call
  BY <1>2, <1>t, RestNoted
<2>2. call[t].step = "done" /\ call[c].kind = "change" /\ call[c].step \notin {"new", "taken"}
  BY <2>1 DEF RestInv, PasswordInv
<2>3. /\ call'[t].step = "done" /\ key'[t] \in {key[t], None}
      /\ call'[c].kind = "change" /\ call'[c].user = call[c].user
  BY <2>1, <2>2, Frame
<2>4. ASSUME NEW u \in User, key'[t] = u, ChangesOf(u)' = {c}, t # c PROVE Reached(c, t)'
<3>1. key[t] = u /\ call[c].user = u
  BY <1>n, <2>3, <2>4 DEF ChangesOf
<3>2. ASSUME NEW d \in ChangesOf(u) PROVE d = c
<4>1. d \in Call /\ call[d].step # "new" /\ call[d].user = u /\ call[d].kind = "change"
  BY DEF ChangesOf, PasswordInv
<4>2. call'[d].user = u /\ call'[d].kind = "change"
  BY <4>1, Frame
<4>. QED
  BY <2>4, <4>1, <4>2 DEF ChangesOf
<3>3. ChangesOf(u) = {c}
  BY <2>2, <3>1, <3>2 DEF ChangesOf
<3>4. Reached(c, t)
  BY <2>1, <2>4, <3>1, <3>3 DEF RestInv
<3>5. t \in known[u] => t \in known'[u] \/ Emptied(c)'
  BY <1>n, <2>1, <3>1, <3>3, SetStep
<3>6. CASE call'[c].step = call[c].step /\ call'[c].listed = call[c].listed
  BY <2>3, <3>1, <3>4, <3>5, <3>6 DEF Reached, Revoked, Emptied
<3>7. CASE ListTokens(c)
<4>1. [call[c] EXCEPT !.step = "listed", !.listed = known[call[c].user]].step = "listed"
  BY <1>t DEF CallState
<4>2. [call[c] EXCEPT !.step = "listed", !.listed = known[call[c].user]].listed
        = known[call[c].user]
  BY <1>t DEF CallState
<4>3. call'[c].step = "listed" /\ call'[c].listed = known[u] /\ call[c].step = "committed"
  BY <1>t, <3>1, <3>7, <4>1, <4>2 DEF ListTokens, Goes
<4>. QED
  BY <3>1, <3>4, <4>3 DEF Reached, Revoked
<3>8. ~DropTokens(c)
<4>1. DropTokens(c) => t \in call[c].listed
  BY <3>4 DEF DropTokens, Reached
<4>2. DropTokens(c) => key'[t] = None
  BY <2>1, <4>1 DEF DropTokens
<4>. QED
  BY <1>n, <2>4, <4>2
<3>9. CASE DropSet(c) \/ StoreToken(c) \/ EnterToken(c)
  BY <3>4, <3>9 DEF DropSet, StoreToken, EnterToken, Reached, Revoked
<3>10. CASE Stop(c)
  BY <1>t, <3>10 DEF Stop, Step, Reached, Revoked, CallState
<3>. QED
  BY <1>2, <2>2, <3>6, <3>7, <3>8, <3>9, <3>10, ChangeMoves
<2>. QED
  BY <2>3, <2>4
<1>. QED
  BY <1>1, <1>2

-----------------------------------------------------------------------------
\* The inductive invariant holds in every reachable state.
LEMMA Invariance == ASSUME ConstantsAssumption PROVE Spec => [](IInv /\ ChangeInv)
<1>1. Init => IInv /\ ChangeInv
  BY InitIInv, InitChangeInv
<1>2. IInv /\ ChangeInv /\ [Next]_vars => (IInv /\ ChangeInv)'
<2>1. IInv /\ [Next]_vars => IInv'
  BY TypeStep, BegunStep, TokenStep DEF IInv
<2>2. IInv /\ ChangeInv /\ [Next]_vars => ChangeInv'
  BY PasswordStep, KeyStep, EndedStep, KnownStep, RestStep DEF ChangeInv
<2>. QED
  BY <2>1, <2>2
<1>. QED
  BY <1>1, <1>2, PTL DEF Spec

\* A refresh token opens one session at most, whoever presents it and whatever stops:
\* RefreshSession and logout take it with one GETDEL, and it is never stored again.
THEOREM ExchangedOnceHolds == ASSUME ConstantsAssumption PROVE Spec => []ExchangedOnce
<1>1. IInv /\ ChangeInv => ExchangedOnce
  BY DEF IInv
<1>. QED
  BY <1>1, Invariance, PTL

\* A session that can be refreshed is where a change of password looks for it, unless one
\* that overlapped its issue emptied its user's set.
LEMMA ReachableHolds == IInv /\ ChangeInv => Reachable
  BY DEF IInv, TypeOK, ChangeInv, KnownInv, Reachable

\* A user's only change of password leaves no session that was at rest when it was
\* committed, whatever is issued, taken or stopped meanwhile.
THEOREM RestRevokedHolds == ASSUME ConstantsAssumption PROVE Spec => []RestRevoked
<1>1. ASSUME ConstantsAssumption, IInv, ChangeInv PROVE RestRevoked
<2> SUFFICES ASSUME NEW c \in Call, NEW t \in Call, ChangesOf(key[t]) = {c}, Revoked(c),
                    Earlier(c, t), t \in rest[c]
             PROVE  FALSE
  BY <1>1, ReachableHolds DEF RestRevoked
<2>1. key[t] = call[c].user /\ call[c].step # "new"
  BY DEF Earlier, Revoked
<2>2. key[t] \in User
  BY <1>1, <2>1 DEF IInv, TypeOK, BegunInv, CallState
<2>. QED
  BY <1>1, <2>2 DEF ChangeInv, RestInv, Reached, Earlier
<1>2. ConstantsAssumption /\ IInv /\ ChangeInv => RestRevoked
  BY <1>1
<1>. QED
  BY <1>2, Invariance, PTL

-----------------------------------------------------------------------------
(* Queues, as ServicesMC runs it. *)

\* The part of TypeOK the theorem needs.
QueuesOK ==
  /\ kind \in Seq(Queued!Handler)
  /\ tasks \subseteq (1 .. Len(kind)) \X Queued!Handler
  /\ gathered \subseteq (1 .. Len(kind)) \X Queued!Handler
  /\ queue \in Seq(Nat) /\ drain \in Seq(Nat)
  /\ phase \in Queued!Phase

\* Once the tasks are gathered there are these and late ones; when they are over, only late
\* ones, and what is queued is theirs; the drain ends with nothing left.
GatherInv ==
  /\ Queued!Gathered => \A t \in tasks : t \in gathered \/ t[1] \in tardy
  /\ phase \in {"draining", "drained", "closed"} =>
       /\ gathered \cap tasks = {}
       /\ \A i \in DOMAIN queue : queue[i] \in tardy
  /\ phase \in {"drained", "closed"} => drain = <<>>

QueuesInv == QueuesOK /\ GatherInv

USE DEF Queued!vars, Queued!Handler, Queued!Phase, Queued!Gathered

\* Nothing was published yet.
LEMMA InitQueuesInv == Queued!Init => QueuesInv
  BY DEF Queued!Init, QueuesInv, QueuesOK, GatherInv

\* A publication adds tasks of an event that is new, and late if the tasks were gathered.
Published(k) ==
  /\ kind' = Append(kind, k)
  /\ tasks' \subseteq tasks \cup ({Len(kind) + 1} \X Queued!Handler)
  /\ tardy' = IF Queued!Gathered THEN tardy \cup {Len(kind) + 1} ELSE tardy

\* So it keeps the invariant, whatever it ends.
LEMMA PublishKeeps ==
  ASSUME QueuesInv, NEW k \in Queued!Handler, Published(k),
         UNCHANGED <<queue, drain, gathered>>,
         phase' = phase \/ (phase = "run" /\ phase' = "announced")
  PROVE  QueuesInv'
<1> DEFINE e == Len(kind) + 1
<1>1. /\ e \in Nat \ {0} /\ kind' \in Seq(Queued!Handler)
      /\ Len(kind) \in Nat /\ Len(kind') = Len(kind) + 1
  BY DEF Published, QueuesInv, QueuesOK
<1>2. 1 .. Len(kind) \subseteq 1 .. Len(kind') /\ e \in 1 .. Len(kind')
  BY <1>1
<1>3. QueuesOK'
  BY <1>1, <1>2 DEF Published, QueuesInv, QueuesOK
<1>4. \A t \in tasks' : t \in tasks \/ t[1] = e
  BY DEF Published
<1>5. \A t \in gathered : t[1] # e
  BY <1>1 DEF QueuesInv, QueuesOK
<1>6. tardy \subseteq tardy' /\ (Queued!Gathered => e \in tardy')
  BY DEF Published
<1>7. GatherInv'
  BY <1>4, <1>5, <1>6 DEF QueuesInv, QueuesOK, GatherInv
<1>. QED
  BY <1>3, <1>7 DEF QueuesInv

\* A task that ends takes nothing else away.
LEMMA DoneKeeps ==
  ASSUME QueuesInv, NEW t \in tasks, Queued!Done(t), UNCHANGED <<queue, drain, gathered, phase>>
  PROVE  QueuesInv'
  BY DEF Queued!Done, QueuesInv, QueuesOK, GatherInv

\* A handler ends, publishes, or queues its event.
LEMMA HandleKeeps ==
  ASSUME QueuesInv, NEW t \in tasks, Queued!Handle(t) PROVE QueuesInv'
<1>1. CASE Queued!HandlerRaises(t)
<2>1. CASE Queued!Done(t)
  BY <1>1, <2>1, DoneKeeps DEF Queued!HandlerRaises, Queued!Rest
<2>2. CASE Queued!Publish("error", tasks \ {t})
  <3>1. UNCHANGED <<queue, drain, gathered, phase>>
    BY <1>1 DEF Queued!HandlerRaises, Queued!Rest
  <3>2. "error" \in Queued!Handler /\ Published("error")
    BY <2>2 DEF Queued!Publish, Queued!Handlers, Published
  <3>. QED
    BY <3>1, <3>2, PublishKeeps
<2>. QED
  BY <1>1, <2>1, <2>2 DEF Queued!HandlerRaises
<1>2. CASE Queued!HandleSkips(t)
  BY <1>2, DoneKeeps DEF Queued!HandleSkips, Queued!Rest
<1>3. CASE Queued!HandleRoutes(t)
<2>1. CASE Queued!Done(t)
  BY <1>3, <2>1, DoneKeeps DEF Queued!HandleRoutes, Queued!Rest
<2>2. CASE Queued!Publish("notice", tasks \ {t})
  <3>1. UNCHANGED <<queue, drain, gathered, phase>>
    BY <1>3 DEF Queued!HandleRoutes, Queued!Rest
  <3>2. "notice" \in Queued!Handler /\ Published("notice")
    BY <2>2 DEF Queued!Publish, Queued!Handlers, Published
  <3>. QED
    BY <3>1, <3>2, PublishKeeps
<2>. QED
  BY <1>3, <2>1, <2>2 DEF Queued!HandleRoutes
<1>4. CASE Queued!HandleEnqueues(t)
<2>1. /\ tasks' = tasks \ {t} /\ queue' = Append(queue, t[1])
      /\ UNCHANGED <<kind, drain, phase, gathered, tardy>>
  BY <1>4 DEF Queued!HandleEnqueues, Queued!Done, Queued!Rest
<2>2. t[1] \in Nat
  BY DEF QueuesInv, QueuesOK
<2>3. \A i \in DOMAIN queue' : queue'[i] = t[1] \/ (i \in DOMAIN queue /\ queue'[i] = queue[i])
  BY <2>1 DEF QueuesInv, QueuesOK
<2>4. phase \in {"draining", "drained", "closed"} => t[1] \in tardy
  BY DEF QueuesInv, GatherInv
<2>5. QueuesOK'
  BY <2>1, <2>2 DEF QueuesInv, QueuesOK
<2>6. GatherInv'
  BY <2>1, <2>3, <2>4 DEF QueuesInv, GatherInv
<2>. QED
  BY <2>5, <2>6 DEF QueuesInv
<1>. QED
  BY <1>1, <1>2, <1>3, <1>4 DEF Queued!Handle

\* Every step keeps the invariant.
LEMMA QueuesInduction == QueuesInv /\ [Queued!Next]_Queued!vars => QueuesInv'
<1> SUFFICES ASSUME QueuesInv, [Queued!Next]_Queued!vars PROVE QueuesInv'
  OBVIOUS
<1>1. ASSUME NEW k \in {"system", "error"}, Queued!Happen(k) PROVE QueuesInv'
<2>1. k \in Queued!Handler /\ Published(k)
  BY <1>1 DEF Queued!Happen, Queued!Publish, Queued!Handlers, Published
<2>2. UNCHANGED <<queue, drain, gathered, phase>>
  BY <1>1 DEF Queued!Happen
<2>. QED
  BY <2>1, <2>2, PublishKeeps
<1>2. ASSUME NEW t \in tasks, Queued!Handle(t) PROVE QueuesInv'
  BY <1>2, HandleKeeps
<1>3. CASE Queued!Take
  BY <1>3 DEF Queued!Take, QueuesInv, QueuesOK, GatherInv
<1>4. CASE Queued!SendNext
  BY <1>4 DEF Queued!SendNext, QueuesInv, QueuesOK, GatherInv
<1>5. CASE Queued!Announce
<2>1. "system" \in Queued!Handler /\ Published("system")
  BY <1>5 DEF Queued!Announce, Queued!Publish, Queued!Handlers, Published
<2>2. /\ UNCHANGED <<queue, drain, gathered>>
      /\ phase = "run" /\ phase' = "announced"
  BY <1>5 DEF Queued!Announce
<2>. QED
  BY <2>1, <2>2, PublishKeeps
<1>6. CASE Queued!Gather
  BY <1>6 DEF Queued!Gather, QueuesInv, QueuesOK, GatherInv
<1>7. CASE Queued!DrainQueue
  BY <1>7 DEF Queued!DrainQueue, Queued!Step, QueuesInv, QueuesOK, GatherInv
<1>8. CASE Queued!DrainNext
  BY <1>8 DEF Queued!DrainNext, Queued!Step, QueuesInv, QueuesOK, GatherInv
<1>9. CASE Queued!Drained
  BY <1>9 DEF Queued!Drained, Queued!Step, QueuesInv, QueuesOK, GatherInv
<1>10. CASE Queued!Close
  BY <1>10 DEF Queued!Close, Queued!Step, QueuesInv, QueuesOK, GatherInv
<1>11. CASE UNCHANGED Queued!vars
  BY <1>11 DEF QueuesInv, QueuesOK, GatherInv
<1>. QED
  BY <1>1, <1>2, <1>3, <1>4, <1>5, <1>6, <1>7, <1>8, <1>9, <1>10, <1>11 DEF Queued!Next

\* A step of the sum is one of the queues, or leaves them alone.
LEMMA ServicesStep ==
  /\ ServicesInit => Queued!Init
  /\ [ServicesNext]_<<part, vars, broadcasts, queues>> => [Queued!Next]_Queued!vars
<1>1. ServicesInit => Queued!Init
  BY DEF ServicesInit
<1>. SUFFICES ASSUME ServicesNext \/ UNCHANGED <<part, vars, broadcasts, queues>>
             PROVE  Queued!Next \/ UNCHANGED Queued!vars
  BY <1>1
<1>2. UNCHANGED queues => UNCHANGED Queued!vars
  BY DEF queues
<1>3. CASE TokensNext
  BY <1>2, <1>3 DEF TokensNext, TokenMove
<1>4. CASE SendNext
  BY <1>2, <1>4 DEF SendNext, SendMove
<1>5. CASE RemoveNext
  BY <1>2, <1>5 DEF RemoveNext, RemoveMove
<1>6. CASE QueueNext
  BY <1>6 DEF QueueNext, Queued!Next, Queued!Handle
<1>. QED
  BY <1>2, <1>3, <1>4, <1>5, <1>6 DEF ServicesNext

\* stop() and the drain lose nothing but what the worker had taken or what came too late.
THEOREM OnlyBatchIsLostHolds == ServicesSpec => []OnlyBatchIsLost
<1>1. QueuesInv => OnlyBatchIsLost
  BY DEF QueuesInv, QueuesOK, GatherInv, OnlyBatchIsLost, Queued!OnlyBatchIsLost, Queued!InQueue
<1>. QED
  BY <1>1, InitQueuesInv, QueuesInduction, ServicesStep, PTL DEF ServicesSpec

-----------------------------------------------------------------------------
(* A broadcast that is removed, as ServicesMC runs it: one delivery. *)

USE DEF Removing!rows, Removing!telegram, Removing!commands, Removing!history,
        Removing!Delivery, Removing!Final, Removing!Busy, Removing!Exists,
        Removing!NoMessage

Task == send[1]
Early == {"none", "queued", "users"}

\* Whoever is still to be sent the message by the delivery.
Waiting(u) == \/ Task.step \in {"users", "loop", "sending"} /\ u \in Task.todo
              \/ Task.step = "sending" /\ u \in Task.batch /\ Task.result[u] = None
Pending == {u \in Task.batch : Task.result[u] = None}

\* A message is sent once, and to nobody who still waits.
SentInv ==
  /\ \A u \in Chat : /\ sent[u] \in {0, 1} /\ chat[u] \subseteq {1}
                     /\ sent[u] = 0 => chat[u] = {}
                     /\ Waiting(u) => sent[u] = 0
  /\ Task.step = "sending" => Task.batch \cap Task.todo = {}
  /\ Task.step \in Early =>
       \A u \in Chat : sent[u] = 0 /\ message[u] = [status |-> "none", id |-> None]
  /\ starter # "done" => Task.step = "none"
  /\ Task.step \notin {"finish", "done"} => Task.status = None
  /\ Task.step = "finish" => Task.status # None
  /\ Task.step = "sending" => \A u \in Task.batch : Task.result[u] = "SENT" => sent[u] = 1

\* What is sent after the cancel was of the batch under way.
LateInv ==
  /\ late <= BatchSize
  /\ canceler # "done" => late = 0 /\ (broadcast.status = "CANCELED" => Task.step = "done")
  /\ Task.step = "sending" => Cardinality(Task.batch) <= BatchSize
  /\ Task.step = "sending" /\ broadcast.status = "CANCELED"
     => late + Cardinality(Pending) <= BatchSize

\* A row with an identifier is of a user who was sent the message; one that says DELETED, or
\* that a deletion is about to write so, is of a message that is gone.
GoneInv ==
  /\ \A u \in Chat : /\ message[u].id # None => sent[u] = 1
                     /\ message[u].status = "DELETED" => message[u].id \notin chat[u]
  /\ \A k \in Removing!Removal : \A u \in Chat :
       LET row == removal[k].snapshot[u] IN
       /\ row.id # None => sent[u] = 1
       /\ row.status = "DELETED" => row.id \notin chat[u]
       /\ u \in removal[k].removed => row.id \notin chat[u]

Untold(u) == u \notin answers /\ chat[u] # {}
Known == [status |-> "SENT", id |-> 1]

\* The message in a chat is known by its row, or was just sent; and a deletion that did not
\* overlap the sending knows it too.
MessageInv ==
  /\ Removing!Exists /\ Task.status # "ERROR" /\ ~mixed =>
       \A u \in Chat : Untold(u) =>
         IF Task.step = "sending" /\ u \in Task.batch THEN Task.result[u] = "SENT"
                                                      ELSE message[u] = Known
  /\ \A k \in Removing!Removal : removal[k].step # "none" /\ ~mixed =>
       \/ /\ removal[k].todo = {} /\ removal[k].batch = {}
          /\ \A u \in Chat : removal[k].snapshot[u] = [status |-> "none", id |-> None]
       \/ /\ Task.step \in {"done", "stopped", "failed"}
          /\ Removing!Exists /\ Task.status # "ERROR" =>
               \A u \in Chat : Untold(u) => removal[k].snapshot[u] = Known

Counted == broadcast.success + broadcast.failed
Unwritten == \A u \in Chat : message[u] = [status |-> "none", id |-> None]

\* The counters and what is left make up the recipients.
CountInv ==
  Removing!Exists =>
    /\ Task.step \in Early => Counted = 0
    /\ Task.step = "loop" => Counted + Cardinality(Task.todo) = broadcast.total
    /\ Task.step = "sending" =>
         Counted + Cardinality(Task.batch) + Cardinality(Task.todo) = broadcast.total
    /\ Task.step \in {"finish", "done", "stopped", "failed"} => Counted <= broadcast.total
    /\ Task.status = "COMPLETED" => Counted = broadcast.total \/ Unwritten
    /\ broadcast.status = "COMPLETED" => Task.step = "done" /\ Task.status = "COMPLETED"

BroadcastInv ==
  Removing!TypeOK /\ SentInv /\ LateInv /\ GoneInv /\ MessageInv /\ CountInv

\* FiniteSets, as Broadcast takes it.
LEMMA SameCardinality ==
  \A S : Removing!Cardinality(S) = Cardinality(S) /\ Sending!Cardinality(S) = Cardinality(S)
  BY DEF Removing!Cardinality, Sending!Cardinality, Cardinality

\* Chats can be counted.
LEMMA Counting ==
  /\ BatchSize \in Nat \ {0}
  /\ None \notin {"SENT", "FAILED", "COMPLETED", "CANCELED", "ERROR"} \cup Nat
  /\ Cardinality(WebOnly) \in Nat
  /\ \A S \in SUBSET Chat : IsFiniteSet(S) /\ Cardinality(S) \in Nat
<1>1. \A S : Removing!IsFiniteSet(S) <=> IsFiniteSet(S)
  BY DEF Removing!IsFiniteSet, IsFiniteSet
<1>2. /\ BatchSize \in Nat \ {0}
      /\ None \notin {"SENT", "FAILED", "COMPLETED", "CANCELED", "ERROR"} \cup Nat
      /\ IsFiniteSet(Chat) /\ IsFiniteSet(WebOnly)
  BY <1>1, ServicesAssumption DEF Removing!ConstantsAssumption
<1>3. \A S \in SUBSET Chat : IsFiniteSet(S)
  BY <1>2, FS_Subset
<1>. QED
  BY <1>2, <1>3, FS_CardinalityType

LEMMA BroadcastIsTrue ==
  BroadcastInv => /\ Removing!OncePerDelivery /\ Removing!CancelStops
                  /\ Removing!DeletedIsGone /\ Removing!MessagesAreKnown /\ Removing!CountsAgree
<1> SUFFICES ASSUME BroadcastInv
             PROVE  /\ Removing!OncePerDelivery /\ Removing!CancelStops
                    /\ Removing!DeletedIsGone /\ Removing!MessagesAreKnown /\ Removing!CountsAgree
  OBVIOUS
<1>1. Removing!OncePerDelivery
<2> SUFFICES ASSUME NEW u \in Chat
    PROVE sent[u] <= Cardinality({d \in 1 .. 1 : send[d].step \notin {"none", "queued"}})
  BY SameCardinality DEF Removing!OncePerDelivery
<2>1. CASE Task.step \in {"none", "queued"}
  <3>1. {d \in 1 .. 1 : send[d].step \notin {"none", "queued"}} = {}
    BY <2>1 DEF Task
  <3>2. sent[u] = 0
    BY <2>1 DEF BroadcastInv, SentInv, Early
  <3>. QED
    BY <3>1, <3>2, FS_EmptySet
<2>2. CASE Task.step \notin {"none", "queued"}
  <3>1. {d \in 1 .. 1 : send[d].step \notin {"none", "queued"}} = {1}
    BY <2>2 DEF Task
  <3>2. Cardinality({1}) = 1
    BY FS_Singleton
  <3>3. sent[u] <= 1
    BY DEF BroadcastInv, SentInv
  <3>. QED
    BY <3>1, <3>2, <3>3
<2>. QED
  BY <2>1, <2>2
<1>2. Removing!CancelStops
  <2>1. BatchSize * 1 = BatchSize
    BY Counting
  <2>. QED
    BY <2>1 DEF BroadcastInv, LateInv, Removing!CancelStops
<1>3. Removing!DeletedIsGone
  BY DEF BroadcastInv, GoneInv, Removing!DeletedIsGone
<1>4. Removing!MessagesAreKnown
<2> SUFFICES ASSUME Removing!Exists, ~Removing!Sending, ~mixed,
                    \A d \in 1 .. 1 : send[d].step # "stopped" /\ send[d].status # "ERROR"
             PROVE  \A u \in Chat \ answers : \A id \in chat[u] :
                      message[u] = [status |-> "SENT", id |-> id]
  BY DEF Removing!MessagesAreKnown
<2>1. Task.step # "sending" /\ Task.status # "ERROR"
  BY DEF Removing!Sending, Task
<2>2. \A u \in Chat : \A id \in chat[u] : id = 1
  BY DEF BroadcastInv, SentInv
<2>. QED
  BY <2>1, <2>2 DEF BroadcastInv, MessageInv, Untold, Known
<1>5. Removing!CountsAgree
<2> SUFFICES ASSUME Removing!Exists
    PROVE /\ Counted <= broadcast.total
          /\ broadcast.status = "COMPLETED" /\ (\E u \in Chat : message[u] # Removing!NoMessage)
             => Counted = broadcast.total
  BY DEF Removing!CountsAgree, Counted
<2>1. /\ broadcast.success \in Nat /\ broadcast.failed \in Nat /\ broadcast.total \in Nat
      /\ Task.step \in {"users", "loop", "sending", "finish", "none", "queued", "done",
                        "stopped", "failed"}
      /\ Task.batch \in SUBSET Chat /\ Task.todo \in SUBSET Chat
  BY DEF BroadcastInv, Removing!TypeOK, Removing!SendTask, Task
<2>2. Cardinality(Task.batch) \in Nat /\ Cardinality(Task.todo) \in Nat
  BY <2>1, Counting
<2>3. Counted <= broadcast.total
  BY <2>1, <2>2 DEF BroadcastInv, CountInv, Counted, Early
<2>. QED
  BY <2>1, <2>3 DEF BroadcastInv, CountInv, Unwritten
<1>. QED
  BY <1>1, <1>2, <1>3, <1>4, <1>5

-----------------------------------------------------------------------------
USE DEF Task, Early, Removing!To, Removing!Finishes, Removing!SetStatus, Removing!SendTask

\* A part of a set of chats is no larger, and leaves the others.
LEMMA Parts ==
  ASSUME NEW S \in SUBSET Chat, NEW T \in SUBSET S
  PROVE  /\ Cardinality(S) \in Nat /\ Cardinality(T) \in Nat /\ Cardinality(S \ T) \in Nat
         /\ Cardinality(S) = Cardinality(T) + Cardinality(S \ T)
         /\ Cardinality(T) <= Cardinality(S)
<1>1. /\ IsFiniteSet(S) /\ Cardinality(S) \in Nat /\ Cardinality(T) \in Nat
      /\ Cardinality(S \ T) \in Nat
  BY Counting
<1>2. Cardinality(S \ T) = Cardinality(S) - Cardinality(S \cap T)
  BY <1>1, FS_Difference
<1>3. S \cap T = T
  OBVIOUS
<1>4. Cardinality(S \ T) = Cardinality(S) - Cardinality(T)
  BY <1>2, <1>3
<1>5. Cardinality(T) <= Cardinality(S)
  BY <1>1, FS_Subset
<1>. QED
  BY <1>1, <1>4, <1>5

\* A batch is of those that are left.
LEMMA Batched ==
  ASSUME NEW S \in SUBSET Chat, NEW b \in Removing!Batches(S)
  PROVE  b \in SUBSET S /\ Cardinality(b) <= BatchSize
<1>1. /\ b \in SUBSET S
      /\ Cardinality(b) = IF Cardinality(S) < BatchSize THEN Cardinality(S) ELSE BatchSize
  BY SameCardinality DEF Removing!Batches
<1>. QED
  BY <1>1, Counting

\* The row with another status.
LEMMA Restated ==
  ASSUME NEW b, NEW s \in {"absent", "PROCESSING", "DELETED"} \cup Removing!Final,
         b \in [status : {"absent", "PROCESSING", "DELETED"} \cup Removing!Final,
                total : Nat, success : Nat, failed : Nat]
  PROVE  [b EXCEPT !.status = s] \in
           [status : {"absent", "PROCESSING", "DELETED"} \cup Removing!Final,
            total : Nat, success : Nat, failed : Nat]
  OBVIOUS

\* The task at another step, and at its end.
LEMMA TaskTo ==
  ASSUME Removing!TypeOK, NEW s, Removing!To(1, s)
  PROVE  /\ Task'.step = s /\ Task'.status = Task.status
         /\ Task'.todo = Task.todo /\ Task'.batch = Task.batch /\ Task'.result = Task.result
  BY DEF Removing!TypeOK

LEMMA TaskFinishes ==
  ASSUME Removing!TypeOK, NEW s, Removing!Finishes(1, s)
  PROVE  /\ Task'.step = "finish" /\ Task'.status = s
         /\ Task'.todo = Task.todo /\ Task'.batch = Task.batch /\ Task'.result = Task.result
  BY DEF Removing!TypeOK

\* A task of the type is one.
LEMMA TaskTyped ==
  ASSUME Removing!TypeOK, NEW t \in Removing!SendTask, send' = [send EXCEPT ![1] = t]
  PROVE  send' \in [Removing!Delivery -> Removing!SendTask]
  BY DEF Removing!TypeOK

\* A deletion at another step.
LEMMA RemovalMoves ==
  ASSUME NEW r \in Removing!RemovalTask, NEW s \in {"none", "queued", "removed", "done", "stopped", "failed"}
  PROVE  [r EXCEPT !.step = s] \in Removing!RemovalTask
  BY DEF Removing!RemovalTask

\* StartBroadcast.
LEMMA StartKeeps ==
  ASSUME BroadcastInv, Removing!Start PROVE BroadcastInv'
<1>1. Removing!TypeOK'
<2>1. broadcast' \in [status : {"absent", "PROCESSING", "DELETED"} \cup Removing!Final,
                      total : Nat, success : Nat, failed : Nat]
  BY Counting, SameCardinality DEF BroadcastInv, Removing!TypeOK, Removing!Start
<2>2. message' \in [Chat -> Removing!MessageRow]
  BY DEF BroadcastInv, Removing!TypeOK, Removing!Start
<2>3. send' \in [Removing!Delivery -> Removing!SendTask]
  BY DEF BroadcastInv, Removing!TypeOK, Removing!Start
<2>4. removal' \in [Removing!Removal -> Removing!RemovalTask]
  BY DEF BroadcastInv, Removing!TypeOK, Removing!Start
<2>. QED
  BY <2>1, <2>2, <2>3, <2>4 DEF BroadcastInv, Removing!TypeOK, Removing!Start
<1>2. SentInv'
  BY SMTT(20) DEF BroadcastInv, Removing!Start, Removing!TypeOK, Removing!RemovalTask, SentInv,
     Waiting
<1>3. LateInv'
  BY SMTT(20) DEF BroadcastInv, Removing!Start, Removing!TypeOK, Removing!RemovalTask, LateInv,
     Pending, SentInv
<1>4. GoneInv'
  BY SMTT(20) DEF BroadcastInv, Removing!Start, Removing!TypeOK, Removing!RemovalTask, GoneInv,
     SentInv
<1>5. MessageInv'
  BY SMTT(20) DEF BroadcastInv, Removing!Start, Removing!TypeOK, Removing!RemovalTask,
     MessageInv, Untold, Known, SentInv
<1>6. CountInv'
  BY SMTT(20) DEF BroadcastInv, Removing!Start, Removing!TypeOK, Removing!RemovalTask,
     CountInv, Counted, Unwritten, SentInv
<1>. QED
  BY <1>1, <1>2, <1>3, <1>4, <1>5, <1>6 DEF BroadcastInv

\* The task is queued, or not.
LEMMA DispatchKeeps ==
  ASSUME BroadcastInv, Removing!Dispatch PROVE BroadcastInv'
<1>1. Removing!TypeOK'
  BY SMTT(20) DEF BroadcastInv, Removing!Dispatch, Removing!TypeOK
<1>2. SentInv'
  BY SMTT(20) DEF BroadcastInv, Removing!Dispatch, Removing!TypeOK, Removing!RemovalTask,
     SentInv, Waiting
<1>3. LateInv'
  BY SMTT(20) DEF BroadcastInv, Removing!Dispatch, Removing!TypeOK, Removing!RemovalTask,
     LateInv, Pending, SentInv
<1>4. GoneInv'
  BY SMTT(20) DEF BroadcastInv, Removing!Dispatch, Removing!TypeOK, Removing!RemovalTask,
     GoneInv, SentInv
<1>5. MessageInv'
  BY SMTT(20) DEF BroadcastInv, Removing!Dispatch, Removing!TypeOK, Removing!RemovalTask,
     MessageInv, Untold, Known, SentInv
<1>6. CountInv'
  BY SMTT(20) DEF BroadcastInv, Removing!Dispatch, Removing!TypeOK, Removing!RemovalTask,
     CountInv, Counted, Unwritten, SentInv
<1>. QED
  BY <1>1, <1>2, <1>3, <1>4, <1>5, <1>6 DEF BroadcastInv

\* CancelBroadcast reads.
LEMMA CancelReadsKeeps ==
  ASSUME BroadcastInv, Removing!CancelReads PROVE BroadcastInv'
<1>1. Removing!TypeOK'
  BY SMTT(20) DEF BroadcastInv, Removing!CancelReads, Removing!TypeOK
<1>2. SentInv'
  BY SMTT(20) DEF BroadcastInv, Removing!CancelReads, Removing!TypeOK, Removing!RemovalTask,
     SentInv, Waiting
<1>3. LateInv'
  BY SMTT(20) DEF BroadcastInv, Removing!CancelReads, Removing!TypeOK, Removing!RemovalTask,
     LateInv, Pending, SentInv
<1>4. GoneInv'
  BY SMTT(20) DEF BroadcastInv, Removing!CancelReads, Removing!TypeOK, Removing!RemovalTask,
     GoneInv, SentInv
<1>5. MessageInv'
  BY SMTT(20) DEF BroadcastInv, Removing!CancelReads, Removing!TypeOK, Removing!RemovalTask,
     MessageInv, Untold, Known, SentInv
<1>6. CountInv'
  BY SMTT(20) DEF BroadcastInv, Removing!CancelReads, Removing!TypeOK, Removing!RemovalTask,
     CountInv, Counted, Unwritten, SentInv
<1>. QED
  BY <1>1, <1>2, <1>3, <1>4, <1>5, <1>6 DEF BroadcastInv

\* CancelBroadcast writes: nothing was sent after a cancel so far.
LEMMA CancelWritesKeeps ==
  ASSUME BroadcastInv, Removing!CancelWrites PROVE BroadcastInv'
<1>1. Removing!TypeOK'
  BY SMTT(20) DEF BroadcastInv, Removing!CancelWrites, Removing!TypeOK
<1>2. SentInv'
  BY SMTT(20) DEF BroadcastInv, Removing!CancelWrites, Removing!TypeOK, Removing!RemovalTask,
     SentInv, Waiting
<1>3. LateInv'
<2>1. Pending \in SUBSET Task.batch /\ Task.batch \in SUBSET Chat
  BY DEF BroadcastInv, Removing!TypeOK, Pending
<2>2. Cardinality(Pending) \in Nat /\ Cardinality(Pending) <= Cardinality(Task.batch)
  BY <2>1, Parts
<2>3. Cardinality(Task.batch) \in Nat
  BY <2>1, Parts
<2>4. late' = late /\ canceler' = "done" /\ UNCHANGED send /\ canceler # "done"
  BY DEF Removing!CancelWrites
<2>5. Pending' = Pending
  BY <2>4 DEF Pending
<2>. QED
  BY <2>2, <2>3, <2>4, <2>5, Counting DEF BroadcastInv, LateInv
<1>4. GoneInv'
  BY SMTT(20) DEF BroadcastInv, Removing!CancelWrites, Removing!TypeOK, Removing!RemovalTask,
     GoneInv, SentInv
<1>5. MessageInv'
  BY SMTT(20) DEF BroadcastInv, Removing!CancelWrites, Removing!TypeOK, Removing!RemovalTask,
     MessageInv, Untold, Known, SentInv
<1>6. CountInv'
  BY SMTT(20) DEF BroadcastInv, Removing!CancelWrites, Removing!TypeOK, Removing!RemovalTask,
     CountInv, Counted, Unwritten, SentInv
<1>. QED
  BY <1>1, <1>2, <1>3, <1>4, <1>5, <1>6 DEF BroadcastInv

\* ClearOldBroadcasts.
LEMMA ClearOldKeeps ==
  ASSUME BroadcastInv, Removing!ClearOld PROVE BroadcastInv'
<1>1. Removing!TypeOK'
<2>1. broadcast' \in [status : {"absent", "PROCESSING", "DELETED"} \cup Removing!Final,
                      total : Nat, success : Nat, failed : Nat]
  BY DEF BroadcastInv, Removing!TypeOK, Removing!ClearOld
<2>2. message' \in [Chat -> Removing!MessageRow]
  BY DEF BroadcastInv, Removing!TypeOK, Removing!ClearOld, Removing!MessageRow
<2>3. send' \in [Removing!Delivery -> Removing!SendTask]
  BY DEF BroadcastInv, Removing!TypeOK, Removing!ClearOld
<2>4. removal' \in [Removing!Removal -> Removing!RemovalTask]
  BY DEF BroadcastInv, Removing!TypeOK, Removing!ClearOld
<2>. QED
  BY <2>1, <2>2, <2>3, <2>4 DEF BroadcastInv, Removing!TypeOK, Removing!ClearOld
<1>2. SentInv'
  BY SMTT(20) DEF BroadcastInv, Removing!ClearOld, Removing!TypeOK, Removing!RemovalTask,
     SentInv, Waiting
<1>3. LateInv'
  BY SMTT(20) DEF BroadcastInv, Removing!ClearOld, Removing!TypeOK, Removing!RemovalTask,
     LateInv, Pending, SentInv
<1>4. GoneInv'
  BY SMTT(20) DEF BroadcastInv, Removing!ClearOld, Removing!TypeOK, Removing!RemovalTask,
     GoneInv, SentInv
<1>5. MessageInv'
  BY SMTT(20) DEF BroadcastInv, Removing!ClearOld, Removing!TypeOK, Removing!RemovalTask,
     MessageInv, Untold, Known, SentInv
<1>6. CountInv'
  BY SMTT(20) DEF BroadcastInv, Removing!ClearOld, Removing!TypeOK, Removing!RemovalTask,
     CountInv, Counted, Unwritten, SentInv
<1>. QED
  BY <1>1, <1>2, <1>3, <1>4, <1>5, <1>6 DEF BroadcastInv

\* The users are read: none was sent the message yet.
LEMMA ReadUsersKeeps ==
  ASSUME BroadcastInv, Removing!ReadUsers(1) PROVE BroadcastInv'
<1>1. Removing!TypeOK'
  BY SMTT(20) DEF BroadcastInv, Removing!ReadUsers, Removing!TypeOK
<1>2. SentInv'
<2>1. /\ Task.step = "queued" /\ Task.status = None
      /\ UNCHANGED <<sent, chat, message, starter>>
  BY DEF BroadcastInv, SentInv, Removing!ReadUsers
<2>2. CASE audience = {}
  <3>1. Removing!Finishes(1, "COMPLETED")
    BY <2>2 DEF Removing!ReadUsers
  <3>2. Task'.step = "finish" /\ Task'.status = "COMPLETED"
    BY <3>1, TaskFinishes DEF BroadcastInv
  <3>. QED
    BY <2>1, <3>2, Counting DEF BroadcastInv, SentInv, Waiting
<2>3. CASE audience # {}
  <3>1. send' = [send EXCEPT ![1].step = "users", ![1].todo = audience]
    BY <2>3 DEF Removing!ReadUsers
  <3>2. Task'.step = "users" /\ Task'.status = Task.status
    BY <3>1 DEF BroadcastInv, Removing!TypeOK
  <3>. QED
    BY <2>1, <3>2, Counting DEF BroadcastInv, SentInv, Waiting
<2>. QED
  BY <2>2, <2>3
<1>3. LateInv'
  BY SMTT(20) DEF BroadcastInv, Removing!ReadUsers, Removing!TypeOK, Removing!RemovalTask,
     LateInv, Pending, SentInv
<1>4. GoneInv'
  BY SMTT(20) DEF BroadcastInv, Removing!ReadUsers, Removing!TypeOK, Removing!RemovalTask,
     GoneInv, SentInv
<1>5. MessageInv'
  BY SMTT(20) DEF BroadcastInv, Removing!ReadUsers, Removing!TypeOK, Removing!RemovalTask,
     MessageInv, Untold, Known, SentInv
<1>6. CountInv'
  BY SMTT(20) DEF BroadcastInv, Removing!ReadUsers, Removing!TypeOK, Removing!RemovalTask,
     CountInv, Counted, Unwritten, SentInv
<1>. QED
  BY <1>1, <1>2, <1>3, <1>4, <1>5, <1>6 DEF BroadcastInv

\* The rows are made.
LEMMA InitializeKeeps ==
  ASSUME BroadcastInv, Removing!Initialize(1) PROVE BroadcastInv'
<1>1. Removing!TypeOK'
<2>1. broadcast' \in [status : {"absent", "PROCESSING", "DELETED"} \cup Removing!Final,
                      total : Nat, success : Nat, failed : Nat]
  BY Counting, SameCardinality DEF BroadcastInv, Removing!TypeOK, Removing!Initialize
<2>2. message' \in [Chat -> Removing!MessageRow]
  BY DEF BroadcastInv, Removing!TypeOK, Removing!Initialize, Removing!MessageRow
<2>3. send' \in [Removing!Delivery -> Removing!SendTask]
  BY DEF BroadcastInv, Removing!TypeOK, Removing!Initialize
<2>4. removal' \in [Removing!Removal -> Removing!RemovalTask]
  BY DEF BroadcastInv, Removing!TypeOK, Removing!Initialize
<2>. QED
  BY <2>1, <2>2, <2>3, <2>4 DEF BroadcastInv, Removing!TypeOK, Removing!Initialize
<1>2. SentInv'
<2>1. /\ Task.step = "users" /\ Task.status = None
      /\ UNCHANGED <<sent, chat, starter>>
  BY DEF BroadcastInv, SentInv, Removing!Initialize
<2>2. CASE Removing!Finishes(1, "ERROR")
  <3>1. Task'.step = "finish" /\ Task'.status = "ERROR"
    BY <2>2, TaskFinishes DEF BroadcastInv
  <3>. QED
    BY <2>1, <3>1, Counting DEF BroadcastInv, SentInv, Waiting
<2>3. CASE Removing!To(1, "loop")
  <3>1. Task'.step = "loop" /\ Task'.status = Task.status /\ Task'.todo = Task.todo
    BY <2>3, TaskTo DEF BroadcastInv
  <3>. QED
    BY <2>1, <3>1, Counting DEF BroadcastInv, SentInv, Waiting
<2>. QED
  BY <2>2, <2>3 DEF Removing!Initialize
<1>3. LateInv'
  BY SMTT(20) DEF BroadcastInv, Removing!Initialize, Removing!TypeOK, Removing!RemovalTask,
     LateInv, Pending, SentInv
<1>4. GoneInv'
  BY SMTT(20) DEF BroadcastInv, Removing!Initialize, Removing!TypeOK, Removing!RemovalTask,
     GoneInv, SentInv
<1>5. MessageInv'
  BY SMTT(20) DEF BroadcastInv, Removing!Initialize, Removing!TypeOK, Removing!RemovalTask,
     MessageInv, Untold, Known, SentInv
<1>6. CountInv'
<2> SUFFICES ASSUME Removing!Exists' PROVE CountInv'
  BY DEF CountInv
<2>1. /\ Removing!Exists /\ Counted = 0 /\ Unwritten /\ Task.step = "users" /\ Task.status = None
      /\ broadcast.status # "COMPLETED"
  BY DEF Removing!Initialize, BroadcastInv, CountInv, SentInv, Unwritten
<2>2. /\ send' = [send EXCEPT ![1].step = "loop"]
      /\ broadcast' = [broadcast EXCEPT !.total = Cardinality(Task.todo)]
  BY <2>1, SameCardinality DEF Removing!Initialize, Unwritten
<2>3. Removing!To(1, "loop")
  BY <2>2
<2>4. /\ Task'.step = "loop" /\ Task'.todo = Task.todo /\ Task'.status = None
      /\ Cardinality(Task.todo) \in Nat
  BY <2>1, <2>3, TaskTo, Counting DEF BroadcastInv, Removing!TypeOK
<2>5. /\ broadcast'.total = Cardinality(Task.todo) /\ Counted' = Counted
      /\ broadcast'.status = broadcast.status
  BY <2>2 DEF BroadcastInv, Removing!TypeOK, Counted
<2>. QED
  BY <2>1, <2>4, <2>5, Counting DEF CountInv
<1>. QED
  BY <1>1, <1>2, <1>3, <1>4, <1>5, <1>6 DEF BroadcastInv

\* The next batch: the end, or a batch of those left, to whom nothing was sent yet.
LEMMA NextBatchEnds ==
  ASSUME BroadcastInv, NEW s \in {"COMPLETED", "CANCELED"}, Removing!Finishes(1, s),
         Task.step = "loop", s = "COMPLETED" => Task.todo = {},
         UNCHANGED <<broadcast, message, chat, sent, audience, starter, canceler, removal, late,
                     mixed, answers>>
  PROVE  BroadcastInv'
<1>1. /\ Task'.step = "finish" /\ Task'.status = s
      /\ Task'.todo = Task.todo /\ Task'.batch = Task.batch /\ Task'.result = Task.result
  BY TaskFinishes DEF BroadcastInv
<1>2. s # "ERROR" /\ s # None /\ Task.status = None
  BY Counting DEF BroadcastInv, SentInv
<1>3. send' \in [Removing!Delivery -> Removing!SendTask]
<2>1. Task \in Removing!SendTask
  BY DEF BroadcastInv, Removing!TypeOK
<2>2. [Task EXCEPT !.step = "finish", !.status = s] \in Removing!SendTask
  BY <2>1
<2>3. send' = [send EXCEPT ![1] = [Task EXCEPT !.step = "finish", !.status = s]]
  BY DEF BroadcastInv, Removing!TypeOK
<2>. QED
  BY <2>2, <2>3, TaskTyped DEF BroadcastInv
<1>4. Removing!TypeOK'
  BY <1>3 DEF BroadcastInv, Removing!TypeOK
<1>5. SentInv'
  BY <1>1, <1>2 DEF BroadcastInv, SentInv, Waiting
<1>6. LateInv' /\ GoneInv'
  BY <1>1 DEF BroadcastInv, LateInv, GoneInv
<1>7. MessageInv'
  BY <1>1, <1>2, Counting DEF BroadcastInv, MessageInv, Untold
<1>8. CountInv'
<2> SUFFICES ASSUME Removing!Exists PROVE CountInv'
  BY DEF CountInv
<2>1. Counted + Cardinality(Task.todo) = broadcast.total /\ broadcast.status # "COMPLETED"
  BY DEF BroadcastInv, CountInv
<2>2. Cardinality(Task.todo) \in Nat /\ (Task.todo = {} => Cardinality(Task.todo) = 0)
  BY Counting, FS_EmptySet DEF BroadcastInv, Removing!TypeOK
<2>3. Counted \in Nat /\ broadcast.total \in Nat
  BY DEF BroadcastInv, Removing!TypeOK, Counted
<2>4. Counted <= broadcast.total /\ (s = "COMPLETED" => Counted = broadcast.total)
  BY <2>1, <2>2, <2>3
<2>5. Counted' = Counted
  BY DEF Counted
<2>. QED
  BY <1>1, <2>1, <2>4, <2>5 DEF CountInv
<1>. QED
  BY <1>4, <1>5, <1>6, <1>7, <1>8 DEF BroadcastInv

LEMMA NextBatchSends ==
  ASSUME BroadcastInv, NEW b \in Removing!Batches(Task.todo), Task.step = "loop",
         send' = [send EXCEPT ![1].step = "sending", ![1].batch = b,
                              ![1].result = [u \in Chat |-> None], ![1].todo = @ \ b],
         Removing!Exists, broadcast.status # "CANCELED",
         UNCHANGED <<broadcast, message, chat, sent, audience, starter, canceler, removal, late,
                     mixed, answers>>
  PROVE  BroadcastInv'
<1>1. /\ Task'.step = "sending" /\ Task'.status = Task.status /\ Task'.batch = b
      /\ Task'.todo = Task.todo \ b /\ Task'.result = [u \in Chat |-> None]
  BY DEF BroadcastInv, Removing!TypeOK
<1>2. Task.todo \in SUBSET Chat
  BY DEF BroadcastInv, Removing!TypeOK
<1>3. b \in SUBSET Task.todo /\ Cardinality(b) <= BatchSize
  BY <1>2, Batched
<1>4. Removing!TypeOK'
<2> DEFINE t == [Task EXCEPT !.step = "sending", !.batch = b,
                            !.result = [u \in Chat |-> None], !.todo = Task.todo \ b]
<2>1. Task \in Removing!SendTask
  BY DEF BroadcastInv, Removing!TypeOK
<2>2. t \in Removing!SendTask
  BY <1>2, <1>3, <2>1
<2>3. send' = [send EXCEPT ![1] = t]
  BY DEF BroadcastInv, Removing!TypeOK
<2>4. send' \in [Removing!Delivery -> Removing!SendTask]
  BY <2>2, <2>3, TaskTyped DEF BroadcastInv
<2>. QED
  BY <2>4 DEF BroadcastInv, Removing!TypeOK
<1>5. SentInv'
<2>1. \A u \in b : Task'.result[u] # "SENT"
  BY <1>1, <1>2, <1>3, Counting
<2>. QED
  BY <1>1, <1>2, <1>3, <2>1 DEF BroadcastInv, SentInv, Waiting
<1>6. LateInv'
  BY <1>1, <1>3 DEF BroadcastInv, LateInv
<1>7. GoneInv'
  BY DEF BroadcastInv, GoneInv
<1>8. MessageInv'
<2>1. \A u \in b : chat[u] = {}
  BY <1>2, <1>3 DEF BroadcastInv, SentInv, Waiting
<2>. QED
  BY <1>1, <2>1 DEF BroadcastInv, MessageInv, Untold
<1>9. CountInv'
<2>1. Counted + Cardinality(Task.todo) = broadcast.total
  BY DEF BroadcastInv, CountInv
<2>2. /\ Cardinality(Task.todo) = Cardinality(b) + Cardinality(Task.todo \ b)
      /\ Cardinality(b) \in Nat /\ Cardinality(Task.todo \ b) \in Nat
  BY <1>2, <1>3, Parts
<2>3. Counted \in Nat /\ broadcast.total \in Nat /\ Counted' = Counted
  BY DEF BroadcastInv, Removing!TypeOK, Counted
<2>4. Counted + Cardinality(b) + Cardinality(Task.todo \ b) = broadcast.total
  BY <2>1, <2>2, <2>3
<2>5. broadcast.status # "COMPLETED" /\ Task.status = None
  BY DEF BroadcastInv, CountInv, SentInv
<2>. QED
  BY <1>1, <2>3, <2>4, <2>5, Counting DEF CountInv
<1>. QED
  BY <1>4, <1>5, <1>6, <1>7, <1>8, <1>9 DEF BroadcastInv

LEMMA NextBatchKeeps == ASSUME BroadcastInv, Removing!NextBatch(1) PROVE BroadcastInv'
<1>1. /\ Task.step = "loop"
      /\ UNCHANGED <<broadcast, message, chat, sent, audience, starter, canceler, removal, late,
                     mixed, answers>>
  BY DEF Removing!NextBatch
<1>2. CASE Task.todo = {}
  BY <1>1, <1>2, NextBatchEnds DEF Removing!NextBatch
<1>3. CASE Task.todo # {} /\ (~Removing!Exists \/ broadcast.status = "CANCELED")
<2>1. Removing!Finishes(1, "CANCELED")
  BY <1>3 DEF Removing!NextBatch
<2>. QED
  BY <1>1, <2>1, NextBatchEnds
<1>4. CASE Task.todo # {} /\ Removing!Exists /\ broadcast.status # "CANCELED"
  <2>1. PICK b \in Removing!Batches(Task.todo) :
          send' = [send EXCEPT ![1].step = "sending", ![1].batch = b,
                               ![1].result = [u \in Chat |-> None], ![1].todo = @ \ b]
    BY <1>4 DEF Removing!NextBatch
  <2>. QED
    BY <1>1, <1>4, <2>1, NextBatchSends
<1>. QED
  BY <1>2, <1>3, <1>4

\* FinishBroadcast.
LEMMA FinishKeeps ==
  ASSUME BroadcastInv, Removing!Finish(1) PROVE BroadcastInv'
<1>1. Removing!TypeOK'
<2>1. broadcast' \in [status : {"absent", "PROCESSING", "DELETED"} \cup Removing!Final,
                      total : Nat, success : Nat, failed : Nat]
  <3>1. Task.status \in Removing!Final
    BY DEF BroadcastInv, Removing!TypeOK, SentInv, Removing!Finish
  <3>. QED
    BY <3>1, Restated DEF BroadcastInv, Removing!TypeOK, Removing!Finish
<2>2. message' \in [Chat -> Removing!MessageRow]
  BY DEF BroadcastInv, Removing!TypeOK, Removing!Finish
<2>3. send' \in [Removing!Delivery -> Removing!SendTask]
  BY DEF BroadcastInv, Removing!TypeOK, Removing!Finish
<2>4. removal' \in [Removing!Removal -> Removing!RemovalTask]
  BY DEF BroadcastInv, Removing!TypeOK, Removing!Finish
<2>. QED
  BY <2>1, <2>2, <2>3, <2>4 DEF BroadcastInv, Removing!TypeOK, Removing!Finish
<1>2. SentInv'
  BY SMTT(20) DEF BroadcastInv, Removing!Finish, Removing!TypeOK, Removing!RemovalTask,
     SentInv, Waiting
<1>3. LateInv'
  BY SMTT(20) DEF BroadcastInv, Removing!Finish, Removing!TypeOK, Removing!RemovalTask,
     LateInv, Pending, SentInv
<1>4. GoneInv'
  BY SMTT(20) DEF BroadcastInv, Removing!Finish, Removing!TypeOK, Removing!RemovalTask,
     GoneInv, SentInv
<1>5. MessageInv'
  BY SMTT(20) DEF BroadcastInv, Removing!Finish, Removing!TypeOK, Removing!RemovalTask,
     MessageInv, Untold, Known, SentInv
<1>6. CountInv'
  BY SMTT(20) DEF BroadcastInv, Removing!Finish, Removing!TypeOK, Removing!RemovalTask,
     CountInv, Counted, Unwritten, SentInv
<1>. QED
  BY <1>1, <1>2, <1>3, <1>4, <1>5, <1>6 DEF BroadcastInv

\* The results are written down, unless a user has no row.
LEMMA RecordRaises ==
  ASSUME BroadcastInv, Task.step = "sending", Removing!Finishes(1, "ERROR"),
         UNCHANGED <<broadcast, message, chat, sent, audience, starter, canceler, removal, late,
                     mixed, answers>>
  PROVE  BroadcastInv'
<1>1. /\ Task'.step = "finish" /\ Task'.status = "ERROR"
      /\ Task'.todo = Task.todo /\ Task'.batch = Task.batch /\ Task'.result = Task.result
  BY TaskFinishes DEF BroadcastInv
<1>2. Removing!TypeOK'
<2>1. Task \in Removing!SendTask
  BY DEF BroadcastInv, Removing!TypeOK
<2>2. [Task EXCEPT !.step = "finish", !.status = "ERROR"] \in Removing!SendTask
  BY <2>1
<2>3. send' = [send EXCEPT ![1] = [Task EXCEPT !.step = "finish", !.status = "ERROR"]]
  BY DEF BroadcastInv, Removing!TypeOK
<2>4. send' \in [Removing!Delivery -> Removing!SendTask]
  BY <2>2, <2>3, TaskTyped DEF BroadcastInv
<2>. QED
  BY <2>4 DEF BroadcastInv, Removing!TypeOK
<1>3. SentInv'
  BY <1>1, Counting DEF BroadcastInv, SentInv, Waiting
<1>4. LateInv' /\ GoneInv' /\ MessageInv'
  BY <1>1 DEF BroadcastInv, LateInv, GoneInv, MessageInv, Untold
<1>5. CountInv'
<2> SUFFICES ASSUME Removing!Exists PROVE CountInv'
  BY DEF CountInv
<2>1. /\ Counted + Cardinality(Task.batch) + Cardinality(Task.todo) = broadcast.total
      /\ broadcast.status # "COMPLETED"
  BY DEF BroadcastInv, CountInv
<2>2. /\ Cardinality(Task.todo) \in Nat /\ Cardinality(Task.batch) \in Nat
      /\ Counted \in Nat /\ broadcast.total \in Nat /\ Counted' = Counted
  BY Counting DEF BroadcastInv, Removing!TypeOK, Counted
<2>3. Counted <= broadcast.total
  BY <2>1, <2>2
<2>. QED
  BY <1>1, <2>1, <2>2, <2>3 DEF CountInv
<1>. QED
  BY <1>2, <1>3, <1>4, <1>5 DEF BroadcastInv

LEMMA RecordWrites ==
  ASSUME BroadcastInv, Task.step = "sending", \A u \in Task.batch : Task.result[u] # None,
         Removing!Exists => \A u \in Task.batch : message[u] # Removing!NoMessage,
         message' = [u \in Chat |-> IF u \in Task.batch /\ message[u] # Removing!NoMessage
                                    THEN Removing!Result(1, u) ELSE message[u]],
         broadcast' = IF Removing!Exists
                      THEN [broadcast EXCEPT !.success = @ + Cardinality(Removing!Ok(1)),
                                             !.failed = @ + Removing!FailedCount(1)]
                      ELSE broadcast,
         Removing!To(1, "loop"),
         UNCHANGED <<chat, sent, audience, starter, canceler, removal, late, mixed, answers>>
  PROVE  BroadcastInv'
<1>1. /\ Task'.step = "loop" /\ Task'.status = Task.status
      /\ Task'.todo = Task.todo /\ Task'.batch = Task.batch /\ Task'.result = Task.result
  BY TaskTo DEF BroadcastInv
<1>2. /\ Task \in Removing!SendTask
      /\ broadcast \in [status : {"absent", "PROCESSING", "DELETED"} \cup Removing!Final,
                        total : Nat, success : Nat, failed : Nat]
  BY DEF BroadcastInv, Removing!TypeOK
<1>3. /\ Task.batch \in SUBSET Chat /\ Task.todo \in SUBSET Chat
      /\ Removing!Ok(1) \in SUBSET Task.batch
  BY <1>2 DEF Removing!Ok
<1>4. /\ Cardinality(Removing!Ok(1)) \in Nat /\ Removing!FailedCount(1) \in Nat
      /\ Cardinality(Task.batch) = Cardinality(Removing!Ok(1)) + Removing!FailedCount(1)
<2>1. Removing!FailedCount(1) = Cardinality(Task.batch) - Cardinality(Removing!Ok(1))
  BY SameCardinality DEF Removing!FailedCount
<2>2. /\ Cardinality(Task.batch) \in Nat /\ Cardinality(Removing!Ok(1)) \in Nat
      /\ Cardinality(Removing!Ok(1)) <= Cardinality(Task.batch)
  BY <1>3, Parts
<2>. QED
  BY <2>1, <2>2
<1>5. Removing!TypeOK'
<2>1. message' \in [Chat -> Removing!MessageRow]
  <3>1. \A u \in Chat : sent[u] \in Nat /\ message[u] \in Removing!MessageRow
    BY DEF BroadcastInv, Removing!TypeOK
  <3>2. \A u \in Chat : Removing!Result(1, u) \in Removing!MessageRow
    BY <3>1 DEF Removing!Result, Removing!MessageRow
  <3>. QED
    BY <3>1, <3>2
<2>2. broadcast' \in [status : {"absent", "PROCESSING", "DELETED"} \cup Removing!Final,
                      total : Nat, success : Nat, failed : Nat]
  <3>1. /\ broadcast.success + Cardinality(Removing!Ok(1)) \in Nat
        /\ broadcast.failed + Removing!FailedCount(1) \in Nat
    BY <1>2, <1>4
  <3>2. CASE Removing!Exists
    <4> DEFINE s == broadcast.success + Cardinality(Removing!Ok(1))
               f == broadcast.failed + Removing!FailedCount(1)
    <4>1. broadcast' = [broadcast EXCEPT !.success = s, !.failed = f]
      BY <1>2, <3>2
    <4>2. s \in Nat /\ f \in Nat
      BY <3>1
    <4> HIDE DEF s, f
    <4>. QED
      BY <1>2, <4>1, <4>2
  <3>. QED
    BY <1>2, <3>2
<2>3. [Task EXCEPT !.step = "loop"] \in Removing!SendTask
  BY <1>2
<2>4. send' = [send EXCEPT ![1] = [Task EXCEPT !.step = "loop"]]
  BY DEF BroadcastInv, Removing!TypeOK
<2>5. send' \in [Removing!Delivery -> Removing!SendTask]
  BY <2>3, <2>4, TaskTyped DEF BroadcastInv
<2>. QED
  BY <2>1, <2>2, <2>5 DEF BroadcastInv, Removing!TypeOK
<1>6. SentInv'
  BY <1>1 DEF BroadcastInv, SentInv, Waiting
<1>7. LateInv'
<2>1. broadcast'.status = broadcast.status
  BY <1>2
<2>. QED
  BY <1>1, <2>1 DEF BroadcastInv, LateInv
<1>8. GoneInv'
<2>1. \A u \in Chat : \/ message'[u] = message[u]
                      \/ /\ message'[u].status # "DELETED"
                         /\ message'[u].id # None => sent[u] = 1
  BY DEF BroadcastInv, SentInv, Removing!Result
<2>. QED
  BY <2>1 DEF BroadcastInv, GoneInv
<1>9. MessageInv'
<2>1. Removing!Exists' => Removing!Exists
  BY <1>2
<2>2. ASSUME Removing!Exists, Task.status # "ERROR", ~mixed, NEW u \in Chat, Untold(u)
      PROVE  message'[u] = Known
  <3>1. CASE u \in Task.batch
    <4>1. Task.result[u] = "SENT" /\ sent[u] = 1
      BY <2>2, <3>1 DEF BroadcastInv, MessageInv, SentInv, Untold
    <4>. QED
      BY <2>2, <3>1, <4>1 DEF Removing!Result, Known
  <3>2. CASE u \notin Task.batch
    BY <2>2, <3>2 DEF BroadcastInv, MessageInv
  <3>. QED
    BY <3>1, <3>2
<2>3. \A u \in Chat : Untold(u)' <=> Untold(u)
  BY DEF Untold
<2>. QED
  BY <1>1, <2>1, <2>2, <2>3 DEF BroadcastInv, MessageInv
<1>10. CountInv'
<2> SUFFICES ASSUME Removing!Exists' PROVE CountInv'
  BY DEF CountInv
<2>1. Removing!Exists
  BY <1>2
<2>2. /\ Counted + Cardinality(Task.batch) + Cardinality(Task.todo) = broadcast.total
      /\ broadcast.status # "COMPLETED" /\ Task.status = None
  BY <2>1 DEF BroadcastInv, CountInv, SentInv
<2>3. /\ broadcast'.success = broadcast.success + Cardinality(Removing!Ok(1))
      /\ broadcast'.failed = broadcast.failed + Removing!FailedCount(1)
      /\ broadcast'.total = broadcast.total /\ broadcast'.status = broadcast.status
  BY <1>2, <2>1
<2>4. Cardinality(Task.todo) \in Nat
  BY <1>3, Counting
<2>5. Counted' + Cardinality(Task.todo) = broadcast.total
  BY <1>2, <1>4, <2>2, <2>3, <2>4 DEF Counted
<2>. QED
  BY <1>1, <2>2, <2>3, <2>5, Counting DEF CountInv
<1>. QED
  BY <1>5, <1>6, <1>7, <1>8, <1>9, <1>10 DEF BroadcastInv

LEMMA RecordKeeps == ASSUME BroadcastInv, Removing!Record(1) PROVE BroadcastInv'
<1>1. /\ Task.step = "sending" /\ \A u \in Task.batch : Task.result[u] # None
      /\ UNCHANGED <<chat, sent, audience, starter, canceler, removal, late, mixed, answers>>
  BY DEF Removing!Record
<1>2. CASE Removing!Exists /\ \E u \in Task.batch : message[u] = Removing!NoMessage
<2>1. Removing!Finishes(1, "ERROR") /\ UNCHANGED <<broadcast, message>>
  BY <1>2 DEF Removing!Record
<2>. QED
  BY <1>1, <2>1, RecordRaises
<1>3. CASE ~(Removing!Exists /\ \E u \in Task.batch : message[u] = Removing!NoMessage)
<2>1. /\ message' = [u \in Chat |-> IF u \in Task.batch /\ message[u] # Removing!NoMessage
                                    THEN Removing!Result(1, u) ELSE message[u]]
      /\ broadcast' = IF Removing!Exists
                      THEN [broadcast EXCEPT !.success = @ + Cardinality(Removing!Ok(1)),
                                             !.failed = @ + Removing!FailedCount(1)]
                      ELSE broadcast
      /\ Removing!To(1, "loop")
  BY <1>3, SameCardinality DEF Removing!Record
<2>. QED
  BY <1>1, <1>3, <2>1, RecordWrites
<1>. QED
  BY <1>2, <1>3

\* One message is sent: to one who waited, and no longer does.
LEMMA SendKeeps ==
  ASSUME BroadcastInv, NEW u \in Chat, Removing!Send(1, u) PROVE BroadcastInv'
<1>1. Removing!TypeOK'
<2>1. broadcast' \in [status : {"absent", "PROCESSING", "DELETED"} \cup Removing!Final,
                      total : Nat, success : Nat, failed : Nat]
  BY DEF BroadcastInv, Removing!TypeOK, Removing!Send
<2>2. message' \in [Chat -> Removing!MessageRow]
  BY DEF BroadcastInv, Removing!TypeOK, Removing!Send
<2>3. send' \in [Removing!Delivery -> Removing!SendTask]
  BY SMTT(20) DEF BroadcastInv, Removing!TypeOK, Removing!Send
<2>4. removal' \in [Removing!Removal -> Removing!RemovalTask]
  BY DEF BroadcastInv, Removing!TypeOK, Removing!Send
<2>. QED
  BY <2>1, <2>2, <2>3, <2>4 DEF BroadcastInv, Removing!TypeOK, Removing!Send
<1>2. SentInv'
<2>1. /\ Task'.step = "sending" /\ Task'.batch = Task.batch /\ Task'.todo = Task.todo
      /\ Task'.status = Task.status /\ Task.step = "sending" /\ u \in Task.batch
      /\ \A v \in Chat : v # u => Task'.result[v] = Task.result[v]
      /\ Task.result[u] = None /\ Task'.result[u] # None
  BY Counting DEF BroadcastInv, Removing!TypeOK, Removing!Send
<2>2. sent[u] = 0 /\ chat[u] = {} /\ Task.batch \in SUBSET Chat
  BY <2>1 DEF BroadcastInv, Removing!TypeOK, SentInv, Waiting
<2>3. /\ \A v \in Chat : v # u => sent'[v] = sent[v] /\ chat'[v] = chat[v]
      /\ \/ sent'[u] = 1 /\ chat'[u] = {1}
         \/ sent'[u] = sent[u] /\ chat'[u] = chat[u] /\ Task'.result[u] = "FAILED"
      /\ UNCHANGED starter
  BY <2>2 DEF BroadcastInv, Removing!TypeOK, Removing!Send
<2>. QED
  BY <2>1, <2>2, <2>3 DEF BroadcastInv, SentInv, Waiting
<1>3. LateInv'
<2>1. /\ Task'.step = "sending" /\ Task'.batch = Task.batch /\ Task.step = "sending"
      /\ \A v \in Chat : Task'.result[v] = None <=> Task.result[v] = None /\ v # u
      /\ u \in Task.batch /\ Task.result[u] = None /\ Task.batch \in SUBSET Chat
  BY Counting DEF BroadcastInv, Removing!TypeOK, Removing!Send
<2>2. Pending' = Pending \ {u} /\ u \in Pending /\ Pending \in SUBSET Chat
  BY <2>1 DEF Pending
<2>3. IsFiniteSet(Pending) /\ Cardinality(Pending) \in Nat
  BY <2>2, Counting
<2>4. Cardinality(Pending') = Cardinality(Pending) - 1
  BY <2>2, <2>3, FS_RemoveElement
<2>5. /\ late' = late \/ (broadcast.status = "CANCELED" /\ late' = late + 1)
      /\ UNCHANGED <<broadcast, canceler>>
  BY DEF Removing!Send
<2>6. Cardinality(Pending) > 0
  BY <2>2, <2>3, FS_EmptySet
<2>7. late \in Nat
  BY DEF BroadcastInv, Removing!TypeOK
<2>. QED
  BY <2>1, <2>3, <2>4, <2>5, <2>6, <2>7, Counting DEF BroadcastInv, LateInv
<1>4. GoneInv'
<2>1. sent[u] = 0 /\ chat[u] = {}
  BY DEF BroadcastInv, SentInv, Waiting, Removing!Send
<2>2. /\ \A v \in Chat : v # u => sent'[v] = sent[v] /\ chat'[v] = chat[v]
      /\ (sent'[u] = sent[u] /\ chat'[u] = chat[u]) \/ (sent'[u] = 1 /\ chat'[u] = {1})
      /\ UNCHANGED <<message, removal>>
  BY <2>1 DEF BroadcastInv, Removing!TypeOK, Removing!Send
<2>3. /\ message[u].id = None
      /\ \A k \in Removing!Removal : removal[k].snapshot[u].id = None
  BY <2>1 DEF BroadcastInv, GoneInv
<2>4. None # 1
  BY Counting
<2>. QED
  BY <2>1, <2>2, <2>3, <2>4 DEF BroadcastInv, GoneInv
<1>5. MessageInv'
<2>1. /\ Task'.step = "sending" /\ Task'.batch = Task.batch /\ Task.step = "sending"
      /\ Task'.status = Task.status /\ u \in Task.batch /\ chat[u] = {}
      /\ \A v \in Chat : v # u => Task'.result[v] = Task.result[v] /\ chat'[v] = chat[v]
      /\ UNCHANGED <<broadcast, message, mixed, removal>>
  BY DEF BroadcastInv, Removing!TypeOK, Removing!Send, SentInv, Waiting
<2>2. /\ chat'[u] = chat[u] \/ u \in answers' \/ Task'.result[u] = "SENT"
      /\ answers \subseteq answers'
  BY DEF BroadcastInv, Removing!TypeOK, Removing!Send
<2>. QED
  BY <2>1, <2>2 DEF BroadcastInv, MessageInv, Untold
<1>6. CountInv'
  BY SMTT(20) DEF BroadcastInv, Removing!Send, Removing!TypeOK, Removing!RemovalTask, CountInv,
     Counted, Unwritten, SentInv
<1>. QED
  BY <1>1, <1>2, <1>3, <1>4, <1>5, <1>6 DEF BroadcastInv

\* DeleteBroadcast: the snapshot knows every message, or nothing was written and sent.
LEMMA DeleteKeeps ==
  ASSUME BroadcastInv, NEW k \in Removing!Removal, Removing!Delete(k) PROVE BroadcastInv'
<1>1. Removing!TypeOK'
<2> DEFINE r == [step |-> "queued", snapshot |-> message, batch |-> {}, removed |-> {},
                 todo |-> {u \in Chat : message[u] # Removing!NoMessage}]
<2>1. r \in Removing!RemovalTask
  BY DEF BroadcastInv, Removing!TypeOK, Removing!RemovalTask
<2>2. removal' = [removal EXCEPT ![k] = r]
  BY DEF Removing!Delete
<2> HIDE DEF r
<2>3. removal' \in [Removing!Removal -> Removing!RemovalTask]
  BY <2>1, <2>2 DEF BroadcastInv, Removing!TypeOK
<2>4. mixed' \in BOOLEAN
  BY DEF Removing!Delete
<2>. QED
  BY <2>3, <2>4 DEF BroadcastInv, Removing!TypeOK, Removing!Delete
<1>2. SentInv'
  BY SMTT(20) DEF BroadcastInv, Removing!Delete, Removing!TypeOK, Removing!RemovalTask,
     SentInv, Waiting
<1>3. LateInv'
  BY SMTT(20) DEF BroadcastInv, Removing!Delete, Removing!TypeOK, Removing!RemovalTask,
     LateInv, Pending, SentInv
<1>4. GoneInv'
  BY SMTT(20) DEF BroadcastInv, Removing!Delete, Removing!TypeOK, Removing!RemovalTask,
     GoneInv, SentInv
<1>5. MessageInv'
<2>1. /\ removal' = [removal EXCEPT ![k] = [step |-> "queued", snapshot |-> message,
            batch |-> {}, removed |-> {}, todo |-> {u \in Chat : message[u] # Removing!NoMessage}]]
      /\ mixed' = (mixed \/ Removing!Sending)
      /\ UNCHANGED <<broadcast, message, chat, answers, send>>
  BY DEF Removing!Delete
<2>2. removal \in [Removing!Removal -> Removing!RemovalTask]
  BY DEF BroadcastInv, Removing!TypeOK
<2>3. /\ removal'[k].snapshot = message /\ removal'[k].batch = {}
      /\ removal'[k].todo = {u \in Chat : message[u] # Removing!NoMessage}
      /\ \A j \in Removing!Removal : j # k => removal'[j] = removal[j]
  BY <2>1, <2>2
<2>4. ~mixed' => ~mixed /\ Task.step \in {"none", "done", "stopped", "failed"}
  <3>1. Task.step \in Removing!Busy \cup {"none", "queued", "done", "stopped", "failed"}
    BY DEF BroadcastInv, Removing!TypeOK
  <3>2. ~Removing!Sending => Task.step \notin Removing!Busy \cup {"queued"}
    BY DEF Removing!Sending
  <3>. QED
    BY <2>1, <3>1, <3>2
<2>5. Task.step = "none" => \A u \in Chat : message[u] = [status |-> "none", id |-> None]
  BY DEF BroadcastInv, SentInv
<2>6. Task.step = "none" => removal'[k].todo = {}
  BY <2>3, <2>5
<2>7. Removing!Exists /\ Task.status # "ERROR" /\ ~mixed' =>
        \A u \in Chat : Untold(u) => message[u] = Known
  BY <2>4 DEF BroadcastInv, MessageInv
<2>. QED
  BY <2>1, <2>3, <2>4, <2>5, <2>6, <2>7 DEF BroadcastInv, MessageInv, Untold
<1>6. CountInv'
  BY SMTT(20) DEF BroadcastInv, Removing!Delete, Removing!TypeOK, Removing!RemovalTask,
     CountInv, Counted, Unwritten, SentInv
<1>. QED
  BY <1>1, <1>2, <1>3, <1>4, <1>5, <1>6 DEF BroadcastInv

\* A batch is removed from the chats, or refused.
LEMMA RemoveBatchKeeps ==
  ASSUME BroadcastInv, NEW k \in Removing!Removal, Removing!RemoveBatch(k) PROVE BroadcastInv'
<1>1. Removing!TypeOK'
<2>1. broadcast' \in [status : {"absent", "PROCESSING", "DELETED"} \cup Removing!Final,
                      total : Nat, success : Nat, failed : Nat]
  BY DEF BroadcastInv, Removing!TypeOK, Removing!RemoveBatch
<2>2. message' \in [Chat -> Removing!MessageRow]
  BY DEF BroadcastInv, Removing!TypeOK, Removing!RemoveBatch
<2>3. send' \in [Removing!Delivery -> Removing!SendTask]
  BY DEF BroadcastInv, Removing!TypeOK, Removing!RemoveBatch
<2>4. removal' \in [Removing!Removal -> Removing!RemovalTask]
  <3>0. PICK b \in Removing!Batches(removal[k].todo) : \E gone \in SUBSET b :
          removal' = [removal EXCEPT ![k].step = "removed", ![k].removed = gone,
                                     ![k].batch = b, ![k].todo = @ \ b]
    BY DEF Removing!RemoveBatch
  <3>1. PICK gone \in SUBSET b :
          removal' = [removal EXCEPT ![k].step = "removed", ![k].removed = gone,
                                     ![k].batch = b, ![k].todo = @ \ b]
    BY <3>0
  <3>2. removal[k] \in Removing!RemovalTask
    BY DEF BroadcastInv, Removing!TypeOK
  <3>3. removal[k].todo \in SUBSET Chat
    BY <3>2 DEF Removing!RemovalTask
  <3>4. b \in SUBSET removal[k].todo
    BY <3>3, Batched
  <3> DEFINE r == [removal[k] EXCEPT !.step = "removed", !.removed = gone, !.batch = b,
                                     !.todo = removal[k].todo \ b]
  <3>5. r \in Removing!RemovalTask
    BY <3>2, <3>3, <3>4 DEF Removing!RemovalTask
  <3>6. removal' = [removal EXCEPT ![k] = r]
    BY <3>1 DEF BroadcastInv, Removing!TypeOK
  <3>. QED
    BY <3>5, <3>6 DEF BroadcastInv, Removing!TypeOK
<2>. QED
  BY <2>1, <2>2, <2>3, <2>4 DEF BroadcastInv, Removing!TypeOK, Removing!RemoveBatch
<1>2. SentInv'
  BY SMTT(20) DEF BroadcastInv, Removing!RemoveBatch, Removing!TypeOK, Removing!RemovalTask,
     SentInv, Waiting
<1>3. LateInv'
  BY SMTT(20) DEF BroadcastInv, Removing!RemoveBatch, Removing!TypeOK, Removing!RemovalTask,
     LateInv, Pending, SentInv
<1>4. GoneInv'
  BY SMTT(20) DEF BroadcastInv, Removing!RemoveBatch, Removing!TypeOK, Removing!RemovalTask,
     GoneInv, SentInv
<1>5. MessageInv'
<2>1. /\ \A u \in Chat : chat'[u] \subseteq chat[u]
      /\ UNCHANGED <<broadcast, message, answers, send, mixed>>
      /\ removal[k].step = "queued" /\ removal[k].todo # {}
  BY DEF BroadcastInv, Removing!TypeOK, Removing!RemoveBatch
<2>2. /\ removal'[k].snapshot = removal[k].snapshot
      /\ \A j \in Removing!Removal : j # k => removal'[j] = removal[j]
  BY DEF BroadcastInv, Removing!TypeOK, Removing!RemovalTask, Removing!RemoveBatch
<2>3. \A u \in Chat : Untold(u)' => Untold(u)
  BY <2>1 DEF Untold
<2>. QED
  BY <2>1, <2>2, <2>3 DEF BroadcastInv, MessageInv
<1>6. CountInv'
  BY SMTT(20) DEF BroadcastInv, Removing!RemoveBatch, Removing!TypeOK, Removing!RemovalTask,
     CountInv, Counted, Unwritten, SentInv
<1>. QED
  BY <1>1, <1>2, <1>3, <1>4, <1>5, <1>6 DEF BroadcastInv

\* The rows of a batch are written back: what is still in a chat stays known.
LEMMA RecordRemovalKeeps ==
  ASSUME BroadcastInv, NEW k \in Removing!Removal, Removing!RecordRemoval(k) PROVE BroadcastInv'
<1>1. Removing!TypeOK'
<2>1. broadcast' \in [status : {"absent", "PROCESSING", "DELETED"} \cup Removing!Final,
                      total : Nat, success : Nat, failed : Nat]
  BY DEF BroadcastInv, Removing!TypeOK, Removing!RecordRemoval
<2>2. message' \in [Chat -> Removing!MessageRow]
  <3>1. /\ removal[k].snapshot \in [Chat -> Removing!MessageRow]
        /\ message \in [Chat -> Removing!MessageRow]
    BY DEF BroadcastInv, Removing!TypeOK, Removing!RemovalTask
  <3>2. ASSUME NEW r \in Removing!MessageRow
        PROVE  [r EXCEPT !.status = "DELETED"] \in Removing!MessageRow
    BY DEF Removing!MessageRow
  <3>3. \A u \in Chat : [removal[k].snapshot[u] EXCEPT !.status = "DELETED"] \in Removing!MessageRow
    BY <3>1, <3>2
  <3>. QED
    BY <3>1, <3>3 DEF Removing!RecordRemoval
<2>3. send' \in [Removing!Delivery -> Removing!SendTask]
  BY DEF BroadcastInv, Removing!TypeOK, Removing!RecordRemoval
<2>4. removal' \in [Removing!Removal -> Removing!RemovalTask]
  BY RemovalMoves DEF BroadcastInv, Removing!TypeOK, Removing!RecordRemoval
<2>. QED
  BY <2>1, <2>2, <2>3, <2>4 DEF BroadcastInv, Removing!TypeOK, Removing!RecordRemoval
<1>2. SentInv'
  BY SMTT(20) DEF BroadcastInv, Removing!RecordRemoval, Removing!TypeOK, Removing!RemovalTask,
     SentInv, Waiting
<1>3. LateInv'
  BY SMTT(20) DEF BroadcastInv, Removing!RecordRemoval, Removing!TypeOK, Removing!RemovalTask,
     LateInv, Pending, SentInv
<1>4. GoneInv'
  BY SMTT(20) DEF BroadcastInv, Removing!RecordRemoval, Removing!TypeOK, Removing!RemovalTask,
     GoneInv, SentInv
<1>5. MessageInv'
<2>1. /\ removal[k].step = "removed"
      /\ UNCHANGED <<broadcast, chat, answers, send, mixed>>
  BY DEF Removing!RecordRemoval
<2>2. /\ removal'[k].snapshot = removal[k].snapshot /\ removal'[k].todo = removal[k].todo
      /\ removal'[k].batch = removal[k].batch
      /\ \A j \in Removing!Removal : j # k => removal'[j] = removal[j]
  BY DEF BroadcastInv, Removing!TypeOK, Removing!RemovalTask, Removing!RecordRemoval
<2>3. ASSUME NEW u \in Chat, Untold(u), Removing!Exists, Task.status # "ERROR", ~mixed,
             ~(Task.step = "sending" /\ u \in Task.batch)
      PROVE  message'[u] = Known
  <3>1. message[u] = Known
    BY <2>3 DEF BroadcastInv, MessageInv
  <3>2. CASE u \notin removal[k].batch
    BY <3>1, <3>2 DEF Removing!RecordRemoval
  <3>3. CASE u \in removal[k].batch
    <4>1. removal[k].snapshot[u] = Known
      BY <2>1, <2>3, <3>3 DEF BroadcastInv, MessageInv
    <4>2. u \notin removal[k].removed
      BY <2>3, <4>1 DEF BroadcastInv, GoneInv, SentInv, Untold, Known
    <4>. QED
      BY <3>1, <4>1, <4>2 DEF Removing!RecordRemoval
  <3>. QED
    BY <3>2, <3>3
<2>4. \A u \in Chat : Untold(u)' <=> Untold(u)
  BY <2>1 DEF Untold
<2>. QED
  BY <2>1, <2>2, <2>3, <2>4 DEF BroadcastInv, MessageInv
<1>6. CountInv'
  BY SMTT(20) DEF BroadcastInv, Removing!RecordRemoval, Removing!TypeOK, Removing!RemovalTask,
     CountInv, Counted, Unwritten, SentInv
<1>. QED
  BY <1>1, <1>2, <1>3, <1>4, <1>5, <1>6 DEF BroadcastInv

\* The broadcast is DELETED.
LEMMA FinishRemovalKeeps ==
  ASSUME BroadcastInv, NEW k \in Removing!Removal, Removing!FinishRemoval(k) PROVE BroadcastInv'
<1>1. Removing!TypeOK'
<2>1. broadcast' \in [status : {"absent", "PROCESSING", "DELETED"} \cup Removing!Final,
                      total : Nat, success : Nat, failed : Nat]
  BY Restated DEF BroadcastInv, Removing!TypeOK, Removing!FinishRemoval
<2>2. message' \in [Chat -> Removing!MessageRow]
  BY DEF BroadcastInv, Removing!TypeOK, Removing!FinishRemoval
<2>3. send' \in [Removing!Delivery -> Removing!SendTask]
  BY DEF BroadcastInv, Removing!TypeOK, Removing!FinishRemoval
<2>4. removal' \in [Removing!Removal -> Removing!RemovalTask]
  BY RemovalMoves DEF BroadcastInv, Removing!TypeOK, Removing!FinishRemoval
<2>. QED
  BY <2>1, <2>2, <2>3, <2>4 DEF BroadcastInv, Removing!TypeOK, Removing!FinishRemoval
<1>2. SentInv'
  BY SMTT(20) DEF BroadcastInv, Removing!FinishRemoval, Removing!TypeOK, Removing!RemovalTask,
     SentInv, Waiting
<1>3. LateInv'
  BY SMTT(20) DEF BroadcastInv, Removing!FinishRemoval, Removing!TypeOK, Removing!RemovalTask,
     LateInv, Pending, SentInv
<1>4. GoneInv'
  BY SMTT(20) DEF BroadcastInv, Removing!FinishRemoval, Removing!TypeOK, Removing!RemovalTask,
     GoneInv, SentInv
<1>5. MessageInv'
  BY SMTT(20) DEF BroadcastInv, Removing!FinishRemoval, Removing!TypeOK, Removing!RemovalTask,
     MessageInv, Untold, Known, SentInv
<1>6. CountInv'
  BY SMTT(20) DEF BroadcastInv, Removing!FinishRemoval, Removing!TypeOK, Removing!RemovalTask,
     CountInv, Counted, Unwritten, SentInv
<1>. QED
  BY <1>1, <1>2, <1>3, <1>4, <1>5, <1>6 DEF BroadcastInv

\* The removal raises.
LEMMA RaiseRemovalKeeps ==
  ASSUME BroadcastInv, NEW k \in Removing!Removal, Removing!RaiseRemoval(k) PROVE BroadcastInv'
<1>1. Removing!TypeOK'
<2>1. broadcast' \in [status : {"absent", "PROCESSING", "DELETED"} \cup Removing!Final,
                      total : Nat, success : Nat, failed : Nat]
  BY DEF BroadcastInv, Removing!TypeOK, Removing!RaiseRemoval
<2>2. message' \in [Chat -> Removing!MessageRow]
  BY DEF BroadcastInv, Removing!TypeOK, Removing!RaiseRemoval
<2>3. send' \in [Removing!Delivery -> Removing!SendTask]
  BY DEF BroadcastInv, Removing!TypeOK, Removing!RaiseRemoval
<2>4. removal' \in [Removing!Removal -> Removing!RemovalTask]
  BY RemovalMoves DEF BroadcastInv, Removing!TypeOK, Removing!RaiseRemoval
<2>. QED
  BY <2>1, <2>2, <2>3, <2>4 DEF BroadcastInv, Removing!TypeOK, Removing!RaiseRemoval
<1>2. SentInv'
  BY SMTT(20) DEF BroadcastInv, Removing!RaiseRemoval, Removing!TypeOK, Removing!RemovalTask,
     SentInv, Waiting
<1>3. LateInv'
  BY SMTT(20) DEF BroadcastInv, Removing!RaiseRemoval, Removing!TypeOK, Removing!RemovalTask,
     LateInv, Pending, SentInv
<1>4. GoneInv'
  BY SMTT(20) DEF BroadcastInv, Removing!RaiseRemoval, Removing!TypeOK, Removing!RemovalTask,
     GoneInv, SentInv
<1>5. MessageInv'
  BY SMTT(20) DEF BroadcastInv, Removing!RaiseRemoval, Removing!TypeOK, Removing!RemovalTask,
     MessageInv, Untold, Known, SentInv
<1>6. CountInv'
  BY SMTT(20) DEF BroadcastInv, Removing!RaiseRemoval, Removing!TypeOK, Removing!RemovalTask,
     CountInv, Counted, Unwritten, SentInv
<1>. QED
  BY <1>1, <1>2, <1>3, <1>4, <1>5, <1>6 DEF BroadcastInv

\* The removal stops ...
LEMMA StopRemovalKeeps ==
  ASSUME BroadcastInv, NEW k \in Removing!Removal, Removing!StopRemoval(k) PROVE BroadcastInv'
<1>1. Removing!TypeOK'
<2>1. broadcast' \in [status : {"absent", "PROCESSING", "DELETED"} \cup Removing!Final,
                      total : Nat, success : Nat, failed : Nat]
  BY DEF BroadcastInv, Removing!TypeOK, Removing!StopRemoval
<2>2. message' \in [Chat -> Removing!MessageRow]
  BY DEF BroadcastInv, Removing!TypeOK, Removing!StopRemoval
<2>3. send' \in [Removing!Delivery -> Removing!SendTask]
  BY DEF BroadcastInv, Removing!TypeOK, Removing!StopRemoval
<2>4. removal' \in [Removing!Removal -> Removing!RemovalTask]
  BY RemovalMoves DEF BroadcastInv, Removing!TypeOK, Removing!StopRemoval
<2>. QED
  BY <2>1, <2>2, <2>3, <2>4 DEF BroadcastInv, Removing!TypeOK, Removing!StopRemoval
<1>2. SentInv'
  BY SMTT(20) DEF BroadcastInv, Removing!StopRemoval, Removing!TypeOK, Removing!RemovalTask,
     SentInv, Waiting
<1>3. LateInv'
  BY SMTT(20) DEF BroadcastInv, Removing!StopRemoval, Removing!TypeOK, Removing!RemovalTask,
     LateInv, Pending, SentInv
<1>4. GoneInv'
  BY SMTT(20) DEF BroadcastInv, Removing!StopRemoval, Removing!TypeOK, Removing!RemovalTask,
     GoneInv, SentInv
<1>5. MessageInv'
  BY SMTT(20) DEF BroadcastInv, Removing!StopRemoval, Removing!TypeOK, Removing!RemovalTask,
     MessageInv, Untold, Known, SentInv
<1>6. CountInv'
  BY SMTT(20) DEF BroadcastInv, Removing!StopRemoval, Removing!TypeOK, Removing!RemovalTask,
     CountInv, Counted, Unwritten, SentInv
<1>. QED
  BY <1>1, <1>2, <1>3, <1>4, <1>5, <1>6 DEF BroadcastInv

\* ... and begins again.
LEMMA RedeliverRemovalKeeps ==
  ASSUME BroadcastInv, NEW k \in Removing!Removal, Removing!RedeliverRemoval(k) PROVE BroadcastInv'
<1>1. Removing!TypeOK'
<2>1. broadcast' \in [status : {"absent", "PROCESSING", "DELETED"} \cup Removing!Final,
                      total : Nat, success : Nat, failed : Nat]
  BY DEF BroadcastInv, Removing!TypeOK, Removing!RedeliverRemoval
<2>2. message' \in [Chat -> Removing!MessageRow]
  BY DEF BroadcastInv, Removing!TypeOK, Removing!RedeliverRemoval
<2>3. send' \in [Removing!Delivery -> Removing!SendTask]
  BY DEF BroadcastInv, Removing!TypeOK, Removing!RedeliverRemoval
<2>4. removal' \in [Removing!Removal -> Removing!RemovalTask]
  <3> DEFINE todo == {u \in Chat : removal[k].snapshot[u] # Removing!NoMessage}
             r == [removal[k] EXCEPT !.step = "queued", !.todo = todo]
  <3>1. removal[k] \in Removing!RemovalTask /\ todo \in SUBSET Chat
    BY DEF BroadcastInv, Removing!TypeOK
  <3>2. removal' = [removal EXCEPT ![k] = r]
    BY DEF BroadcastInv, Removing!TypeOK, Removing!RedeliverRemoval
  <3> HIDE DEF todo
  <3>3. r \in Removing!RemovalTask
    BY <3>1 DEF Removing!RemovalTask
  <3>. QED
    BY <3>2, <3>3 DEF BroadcastInv, Removing!TypeOK
<2>. QED
  BY <2>1, <2>2, <2>3, <2>4 DEF BroadcastInv, Removing!TypeOK, Removing!RedeliverRemoval
<1>2. SentInv'
  BY SMTT(20) DEF BroadcastInv, Removing!RedeliverRemoval, Removing!TypeOK,
     Removing!RemovalTask, SentInv, Waiting
<1>3. LateInv'
  BY SMTT(20) DEF BroadcastInv, Removing!RedeliverRemoval, Removing!TypeOK,
     Removing!RemovalTask, LateInv, Pending, SentInv
<1>4. GoneInv'
  BY SMTT(20) DEF BroadcastInv, Removing!RedeliverRemoval, Removing!TypeOK,
     Removing!RemovalTask, GoneInv, SentInv
<1>5. MessageInv'
  BY SMTT(20) DEF BroadcastInv, Removing!RedeliverRemoval, Removing!TypeOK,
     Removing!RemovalTask, MessageInv, Untold, Known, SentInv
<1>6. CountInv'
  BY SMTT(20) DEF BroadcastInv, Removing!RedeliverRemoval, Removing!TypeOK,
     Removing!RemovalTask, CountInv, Counted, Unwritten, SentInv
<1>. QED
  BY <1>1, <1>2, <1>3, <1>4, <1>5, <1>6 DEF BroadcastInv

\* Nothing was done yet.
LEMMA InitBroadcastInv == Removing!Init => BroadcastInv
<1> SUFFICES ASSUME Removing!Init PROVE BroadcastInv
  OBVIOUS
<1>1. /\ send[1].step = "none" /\ send[1].status = None /\ send[1].todo = {} /\ send[1].batch = {}
      /\ send \in [Removing!Delivery -> Removing!SendTask]
  BY DEF Removing!Init, Removing!NewTask
<1>2. message \in [Chat -> Removing!MessageRow]
  BY DEF Removing!Init, Removing!MessageRow
<1>3. /\ removal \in [Removing!Removal -> Removing!RemovalTask]
      /\ \A k \in Removing!Removal : removal[k].step = "none" /\ removal[k].snapshot = message
                                     /\ removal[k].removed = {}
  BY <1>2 DEF Removing!Init, Removing!RemovalTask
<1>4. Removing!TypeOK
  BY <1>1, <1>2, <1>3 DEF Removing!Init, Removing!TypeOK
<1>5. SentInv
  BY <1>1 DEF Removing!Init, SentInv, Waiting
<1>6. LateInv
  BY <1>1, Counting DEF Removing!Init, LateInv
<1>7. GoneInv
  BY <1>1, <1>3 DEF Removing!Init, GoneInv
<1>8. MessageInv
  BY <1>1, <1>3 DEF Removing!Init, MessageInv, Untold
<1>9. CountInv
  BY <1>1 DEF Removing!Init, CountInv
<1>. QED
  BY <1>4, <1>5, <1>6, <1>7, <1>8, <1>9 DEF BroadcastInv

\* Where nothing moves it stays.
LEMMA BroadcastRests == ASSUME BroadcastInv, UNCHANGED broadcasts PROVE BroadcastInv'
<1>1. UNCHANGED <<broadcast, message, chat, sent, audience, starter, canceler, send, removal, late,
                  mixed, answers>>
  BY DEF broadcasts
<1>2. Removing!TypeOK' /\ SentInv'
  BY <1>1 DEF BroadcastInv, Removing!TypeOK, SentInv, Waiting
<1>3. LateInv' /\ GoneInv'
  BY <1>1 DEF BroadcastInv, LateInv, Pending, GoneInv
<1>4. MessageInv' /\ CountInv'
  BY <1>1 DEF BroadcastInv, MessageInv, Untold, CountInv, Counted, Unwritten
<1>. QED
  BY <1>2, <1>3, <1>4 DEF BroadcastInv

\* Every step of the part keeps the invariant.
LEMMA RemoveKeeps == ASSUME BroadcastInv, RemoveNext PROVE BroadcastInv'
<1>1. CASE Removing!Start \/ Removing!Dispatch \/ Removing!CancelReads \/ Removing!CancelWrites
           \/ Removing!ClearOld
  BY <1>1, StartKeeps, DispatchKeeps, CancelReadsKeeps, CancelWritesKeeps, ClearOldKeeps
<1>2. CASE Removing!ReadUsers(1) \/ Removing!Initialize(1) \/ Removing!NextBatch(1)
           \/ Removing!Record(1) \/ Removing!Finish(1)
  BY <1>2, ReadUsersKeeps, InitializeKeeps, NextBatchKeeps, RecordKeeps, FinishKeeps
<1>3. ASSUME NEW u \in Chat, Removing!Send(1, u) PROVE BroadcastInv'
  BY <1>3, SendKeeps
<1>4. ASSUME NEW k \in Removing!Removal,
             \/ Removing!Delete(k) \/ Removing!RemoveBatch(k) \/ Removing!RecordRemoval(k)
             \/ Removing!FinishRemoval(k) \/ Removing!RaiseRemoval(k) \/ Removing!StopRemoval(k)
             \/ Removing!RedeliverRemoval(k)
      PROVE  BroadcastInv'
  BY <1>4, DeleteKeeps, RemoveBatchKeeps, RecordRemovalKeeps, FinishRemovalKeeps, RaiseRemovalKeeps,
     StopRemovalKeeps, RedeliverRemovalKeeps
<1>. QED
  BY <1>1, <1>2, <1>3, <1>4 DEF RemoveNext

-----------------------------------------------------------------------------
(* A broadcast whose task is delivered twice, as ServicesMC runs it. *)

USE DEF Sending!rows, Sending!telegram, Sending!commands, Sending!history, Sending!Delivery,
        Sending!Final, Sending!Busy, Sending!Exists, Sending!NoMessage, Sending!To,
        Sending!Finishes, Sending!SetStatus

\* Whom a delivery has not sent the message.
Waits(d, u) ==
  \/ send[d].step \in {"none", "queued"}
  \/ send[d].step \in {"users", "loop", "sending"} /\ u \in send[d].todo
  \/ send[d].step = "sending" /\ u \in send[d].batch /\ send[d].result[u] = None

\* Each delivery sends it once to each.
DeliveredInv ==
  /\ send \in [1 .. 2 -> Sending!SendTask] /\ sent \in [Chat -> Nat] /\ audience \in SUBSET Chat
  /\ starter # "done" => \A d \in 1 .. 2 : send[d].step = "none"
  /\ \A d \in 1 .. 2 : send[d].step = "sending" => send[d].batch \cap send[d].todo = {}
  /\ \A u \in Chat : /\ sent[u] <= 2
                     /\ Waits(1, u) \/ Waits(2, u) => sent[u] <= 1
                     /\ Waits(1, u) /\ Waits(2, u) => sent[u] = 0

LEMMA DeliveredOnce == DeliveredInv => Sending!OncePerDelivery
<1> SUFFICES ASSUME DeliveredInv, NEW u \in Chat
             PROVE  sent[u] <= Cardinality({d \in 1 .. 2 : send[d].step \notin {"none", "queued"}})
  BY SameCardinality DEF Sending!OncePerDelivery
<1> DEFINE S == {d \in 1 .. 2 : send[d].step \notin {"none", "queued"}}
<1>1. S = {} \/ S = {1} \/ S = {2} \/ S = {1, 2}
  OBVIOUS
<1>2. /\ Cardinality({}) = 0 /\ Cardinality({1}) = 1 /\ Cardinality({2}) = 1
      /\ Cardinality({1, 2}) = 2
<2>1. IsFiniteSet({1}) /\ Cardinality({1}) = 1 /\ Cardinality({2}) = 1
  BY FS_Singleton
<2>2. Cardinality({1} \cup {2}) = 2
  BY <2>1, FS_AddElement
<2>3. {1} \cup {2} = {1, 2}
  OBVIOUS
<2>. QED
  BY <2>1, <2>2, <2>3, FS_EmptySet
<1>3. CASE S = {}
  <2>1. Waits(1, u) /\ Waits(2, u)
    BY <1>3 DEF Waits
  <2>2. sent[u] = 0
    BY <2>1 DEF DeliveredInv
  <2>3. Cardinality(S) = 0
    BY <1>2, <1>3
  <2>. QED
    BY <2>2, <2>3
<1>4. CASE S = {1} \/ S = {2}
  <2>1. Waits(1, u) \/ Waits(2, u)
    BY <1>4 DEF Waits
  <2>2. sent[u] <= 1
    BY <2>1 DEF DeliveredInv
  <2>. QED
    BY <1>2, <1>4, <2>2
<1>5. CASE S = {1, 2}
  <2>1. sent[u] <= 2
    BY DEF DeliveredInv
  <2>. QED
    BY <1>2, <1>5, <2>1
<1>. QED
  BY <1>1, <1>3, <1>4, <1>5

\* A step that sends nothing and lets nobody wait again keeps it.
LEMMA QuietStep ==
  ASSUME DeliveredInv, NEW d \in 1 .. 2, NEW t \in Sending!SendTask, send' = [send EXCEPT ![d] = t],
         UNCHANGED sent, audience' \in SUBSET Chat, starter' = "done",
         t.step = "sending" => t.batch \cap t.todo = {},
         \A u \in Chat : \/ t.step \in {"none", "queued"}
                         \/ t.step \in {"users", "loop", "sending"} /\ u \in t.todo
                         \/ t.step = "sending" /\ u \in t.batch /\ t.result[u] = None
                         => Waits(d, u)
  PROVE  DeliveredInv'
<1>1. send'[d] = t /\ \A e \in 1 .. 2 : e # d => send'[e] = send[e]
  BY DEF DeliveredInv
<1>2. send' \in [1 .. 2 -> Sending!SendTask]
  BY DEF DeliveredInv
<1>3. \A u \in Chat : \A e \in 1 .. 2 : Waits(e, u)' => Waits(e, u)
  BY <1>1 DEF Waits
<1>4. \A e \in 1 .. 2 : send'[e].step = "sending" => send'[e].batch \cap send'[e].todo = {}
  BY <1>1 DEF DeliveredInv
<1>5. 1 \in 1 .. 2 /\ 2 \in 1 .. 2
  OBVIOUS
<1>. QED
  BY <1>2, <1>3, <1>4, <1>5 DEF DeliveredInv

\* The task another way, of the same type.
LEMMA TaskForms ==
  ASSUME NEW t \in Sending!SendTask,
         NEW s \in Sending!Busy \cup {"none", "queued", "done", "stopped", "failed"},
         NEW x \in Sending!Final, NEW S \in SUBSET Chat
  PROVE  /\ [t EXCEPT !.step = s] \in Sending!SendTask
         /\ [t EXCEPT !.step = "finish", !.status = x] \in Sending!SendTask
         /\ [t EXCEPT !.step = "users", !.todo = S] \in Sending!SendTask
  BY DEF Sending!SendTask

\* A delivery that goes to a step where nobody new waits, or to its end.
LEMMA ToKeeps ==
  ASSUME DeliveredInv, NEW d \in 1 .. 2,
         NEW s \in {"none", "queued", "loop", "finish", "done", "stopped", "failed"},
         Sending!To(d, s), UNCHANGED <<sent, audience>>, starter' = "done",
         s = "queued" => send[d].step = "none",
         s = "loop" => send[d].step \in {"users", "sending"},
         s # "none"
  PROVE  DeliveredInv'
<1> DEFINE t == [send[d] EXCEPT !.step = s]
<1>1. send[d] \in Sending!SendTask /\ audience \in SUBSET Chat
  BY DEF DeliveredInv
<1>2. t \in Sending!SendTask
  <2>1. s \in Sending!Busy \cup {"none", "queued", "done", "stopped", "failed"}
    OBVIOUS
  <2>. QED
    BY <1>1, <2>1, TaskForms
<1>3. /\ t.step = s /\ t.todo = send[d].todo /\ t.batch = send[d].batch
      /\ t.result = send[d].result
  BY <1>1 DEF Sending!SendTask
<1>4. send' = [send EXCEPT ![d] = t]
  BY DEF DeliveredInv
<1> HIDE DEF t
<1>. QED
  BY <1>1, <1>2, <1>3, <1>4, QuietStep DEF Waits

LEMMA FinishesKeeps ==
  ASSUME DeliveredInv, NEW d \in 1 .. 2, NEW x \in Sending!Final, Sending!Finishes(d, x),
         UNCHANGED <<sent, audience>>, starter' = "done"
  PROVE  DeliveredInv'
<1> DEFINE t == [send[d] EXCEPT !.step = "finish", !.status = x]
<1>1. send[d] \in Sending!SendTask /\ audience \in SUBSET Chat
  BY DEF DeliveredInv
<1>2. t \in Sending!SendTask /\ t.step = "finish"
  BY <1>1, TaskForms DEF Sending!SendTask
<1>3. send' = [send EXCEPT ![d] = t]
  BY DEF DeliveredInv
<1> HIDE DEF t
<1>. QED
  BY <1>1, <1>2, <1>3, QuietStep

\* A task that is under way was dispatched.
LEMMA WasDispatched ==
  ASSUME DeliveredInv, NEW d \in 1 .. 2, send[d].step # "none" PROVE starter = "done"
  BY DEF DeliveredInv

\* The steps of a delivery that send nothing.
LEMMA QuietKeeps ==
  ASSUME DeliveredInv, NEW d \in 1 .. 2,
         \/ Sending!ReadUsers(d) \/ Sending!Initialize(d) \/ Sending!NextBatch(d)
         \/ Sending!Record(d) \/ Sending!Finish(d) \/ Sending!Raise(d) \/ Sending!StopSend(d)
         \/ Sending!Redeliver(d)
  PROVE  DeliveredInv'
<1>0. send[d] \in Sending!SendTask /\ audience \in SUBSET Chat
  BY DEF DeliveredInv
<1>1. CASE Sending!ReadUsers(d)
<2>1. starter' = "done" /\ UNCHANGED <<sent, audience>> /\ send[d].step = "queued"
  BY <1>1, WasDispatched DEF Sending!ReadUsers
<2>2. CASE audience = {}
  BY <1>1, <2>1, <2>2, FinishesKeeps DEF Sending!ReadUsers
<2>3. CASE audience # {}
  <3> DEFINE t == [send[d] EXCEPT !.step = "users", !.todo = audience]
  <3>1. t \in Sending!SendTask /\ t.step = "users"
    BY <1>0, TaskForms DEF Sending!SendTask
  <3>2. send' = [send EXCEPT ![d] = t]
    BY <1>1, <2>3 DEF DeliveredInv, Sending!ReadUsers
  <3>3. \A u \in Chat : Waits(d, u)
    BY <2>1 DEF Waits
  <3> HIDE DEF t
  <3>. QED
    BY <1>0, <2>1, <3>1, <3>2, <3>3, QuietStep
<2>. QED
  BY <2>2, <2>3
<1>2. CASE Sending!Initialize(d)
<2>1. starter' = "done" /\ UNCHANGED <<sent, audience>> /\ send[d].step = "users"
  BY <1>2, WasDispatched DEF Sending!Initialize
<2>2. Sending!Finishes(d, "ERROR") \/ Sending!To(d, "loop")
  BY <1>2 DEF Sending!Initialize
<2>. QED
  BY <2>1, <2>2, FinishesKeeps, ToKeeps
<1>3. CASE Sending!NextBatch(d)
<2>1. starter' = "done" /\ UNCHANGED <<sent, audience>> /\ send[d].step = "loop"
  BY <1>3, WasDispatched DEF Sending!NextBatch
<2>2. CASE Sending!Finishes(d, "COMPLETED") \/ Sending!Finishes(d, "CANCELED")
  BY <2>1, <2>2, FinishesKeeps
<2>3. ASSUME NEW b \in Sending!Batches(send[d].todo),
             send' = [send EXCEPT ![d].step = "sending", ![d].batch = b,
                                  ![d].result = [u \in Chat |-> None], ![d].todo = @ \ b]
      PROVE  DeliveredInv'
  <3> DEFINE t == [send[d] EXCEPT !.step = "sending", !.batch = b,
                                  !.result = [u \in Chat |-> None], !.todo = send[d].todo \ b]
  <3>1. b \in SUBSET send[d].todo /\ send[d].todo \in SUBSET Chat
    BY <1>0 DEF Sending!Batches, Sending!SendTask
  <3>2. /\ t \in Sending!SendTask /\ t.step = "sending" /\ t.batch = b
        /\ t.todo = send[d].todo \ b
    BY <1>0, <3>1 DEF Sending!SendTask
  <3>3. send' = [send EXCEPT ![d] = t]
    BY <2>3 DEF DeliveredInv
  <3>4. \A u \in send[d].todo : Waits(d, u)
    BY <2>1 DEF Waits
  <3> HIDE DEF t
  <3>5. t.batch \cap t.todo = {} /\ t.batch \cup t.todo \subseteq send[d].todo
    BY <3>1, <3>2
  <3>. QED
    BY <1>0, <2>1, <3>2, <3>3, <3>4, <3>5, QuietStep
<2>. QED
  BY <1>3, <2>2, <2>3 DEF Sending!NextBatch
<1>4. CASE Sending!Record(d)
<2>1. starter' = "done" /\ UNCHANGED <<sent, audience>> /\ send[d].step = "sending"
  BY <1>4, WasDispatched DEF Sending!Record
<2>2. Sending!Finishes(d, "ERROR") \/ Sending!To(d, "loop")
  BY <1>4 DEF Sending!Record
<2>. QED
  BY <2>1, <2>2, FinishesKeeps, ToKeeps
<1>5. CASE Sending!Finish(d)
<2>1. starter' = "done" /\ UNCHANGED <<sent, audience>> /\ Sending!To(d, "done")
  BY <1>5, WasDispatched DEF Sending!Finish
<2>. QED
  BY <2>1, ToKeeps
<1>6. CASE Sending!Raise(d)
<2>1. starter' = "done" /\ UNCHANGED <<sent, audience>>
  BY <1>6, WasDispatched DEF Sending!Raise
<2>2. Sending!Finishes(d, "ERROR") \/ Sending!To(d, "failed")
  BY <1>6 DEF Sending!Raise
<2>. QED
  BY <2>1, <2>2, FinishesKeeps, ToKeeps
<1>7. CASE Sending!StopSend(d)
<2>1. starter' = "done" /\ UNCHANGED <<sent, audience>> /\ Sending!To(d, "stopped")
  BY <1>7, WasDispatched DEF Sending!StopSend
<2>. QED
  BY <2>1, ToKeeps
<1>8. CASE Sending!Redeliver(d)
<2>1. /\ d = 2 /\ send[1].step # "none" /\ send[d].step = "none"
      /\ UNCHANGED <<sent, audience, starter>> /\ Sending!To(d, "queued")
  BY <1>8 DEF Sending!Redeliver
<2>2. starter = "done"
  BY <2>1, WasDispatched
<2>. QED
  BY <2>1, <2>2, ToKeeps
<1>. QED
  BY <1>1, <1>2, <1>3, <1>4, <1>5, <1>6, <1>7, <1>8

\* Who is sent the message waited, and no longer does.
LEMMA SendsOnce ==
  ASSUME DeliveredInv, NEW d \in 1 .. 2, NEW u \in Chat, Sending!Send(d, u) PROVE DeliveredInv'
<1>1. /\ send[d].step = "sending" /\ u \in send[d].batch /\ send[d].result[u] = None
      /\ UNCHANGED <<audience, starter>>
  BY DEF Sending!Send
<1>2. PICK r \in {"SENT", "FAILED"} : send' = [send EXCEPT ![d].result[u] = r]
  BY DEF Sending!Send
<1>3. /\ send' \in [1 .. 2 -> Sending!SendTask]
      /\ \A e \in 1 .. 2 : /\ send'[e].step = send[e].step /\ send'[e].todo = send[e].todo
                           /\ send'[e].batch = send[e].batch
      /\ \A e \in 1 .. 2 : \A v \in Chat :
           IF e = d /\ v = u THEN send'[e].result[v] = r ELSE send'[e].result[v] = send[e].result[v]
  BY <1>2 DEF DeliveredInv, Sending!SendTask
<1>4. r # None
  BY Counting
<1>5. Waits(d, u) /\ ~Waits(d, u)'
  BY <1>1, <1>3, <1>4 DEF Waits, DeliveredInv
<1>6. \A e \in 1 .. 2 : \A v \in Chat : Waits(e, v)' => Waits(e, v)
  BY <1>3, <1>4 DEF Waits
<1>7. /\ sent' \in [Chat -> Nat] /\ \A v \in Chat : v # u => sent'[v] = sent[v]
      /\ sent'[u] = sent[u] \/ sent'[u] = sent[u] + 1
  BY DEF DeliveredInv, Sending!Send
<1>8. d = 1 \/ d = 2
  OBVIOUS
<1>9. 1 \in 1 .. 2 /\ 2 \in 1 .. 2
  OBVIOUS
<1>10. \A v \in Chat : /\ sent'[v] <= 2
                       /\ Waits(1, v)' \/ Waits(2, v)' => sent'[v] <= 1
                       /\ Waits(1, v)' /\ Waits(2, v)' => sent'[v] = 0
<2>1. CASE d = 1
  BY <2>1, <1>5, <1>6, <1>7, <1>9 DEF DeliveredInv
<2>2. CASE d = 2
  BY <2>2, <1>5, <1>6, <1>7, <1>9 DEF DeliveredInv
<2>. QED
  BY <1>8, <2>1, <2>2
<1>. QED
  BY <1>1, <1>3, <1>7, <1>10 DEF DeliveredInv

\* The commands and the audience.
LEMMA StartsOnce ==
  ASSUME DeliveredInv,
         \/ Sending!Start \/ Sending!Dispatch \/ (\E u \in Chat : Sending!AudienceChanges(u))
  PROVE  DeliveredInv'
<1>1. CASE Sending!Start
  BY <1>1 DEF DeliveredInv, Waits, Sending!Start
<1>2. CASE Sending!Dispatch
<2>1. /\ starter # "done" /\ starter' = "done" /\ UNCHANGED <<sent, audience>>
      /\ Sending!To(1, "queued") \/ UNCHANGED send
  BY <1>2 DEF Sending!Dispatch
<2>2. send[1].step = "none"
  BY <2>1 DEF DeliveredInv
<2>3. CASE Sending!To(1, "queued")
  BY <2>1, <2>2, <2>3, ToKeeps
<2>4. CASE UNCHANGED send
  BY <2>1, <2>4 DEF DeliveredInv, Waits
<2>. QED
  BY <2>1, <2>3, <2>4
<1>3. ASSUME NEW u \in Chat, Sending!AudienceChanges(u) PROVE DeliveredInv'
  BY <1>3 DEF DeliveredInv, Waits, Sending!AudienceChanges
<1>. QED
  BY <1>1, <1>2, <1>3

LEMMA SendKeepsOnce == ASSUME DeliveredInv, SendNext PROVE DeliveredInv'
  BY StartsOnce, QuietKeeps, SendsOnce DEF SendNext

LEMMA InitDelivered == Sending!Init => DeliveredInv
  BY DEF Sending!Init, Sending!NewTask, Sending!SendTask, DeliveredInv, Waits

-----------------------------------------------------------------------------
(* The sum. *)

PartInv == /\ part = "send" => DeliveredInv
           /\ part = "remove" => BroadcastInv

LEMMA InitPart == ServicesInit => PartInv
  BY InitDelivered, InitBroadcastInv DEF ServicesInit, PartInv

\* A step of another part leaves the broadcast alone.
LEMMA PartStep ==
  PartInv /\ [ServicesNext]_<<part, vars, broadcasts, queues>> => PartInv'
<1> SUFFICES ASSUME PartInv, ServicesNext \/ UNCHANGED <<part, vars, broadcasts, queues>>
             PROVE  PartInv'
  OBVIOUS
<1>1. ASSUME UNCHANGED <<part, broadcasts>> PROVE PartInv'
<2>1. DeliveredInv => DeliveredInv'
  BY <1>1 DEF broadcasts, DeliveredInv, Waits
<2>2. BroadcastInv => BroadcastInv'
  BY <1>1, BroadcastRests
<2>. QED
  BY <1>1, <2>1, <2>2 DEF PartInv
<1>2. CASE TokensNext
<2>1. UNCHANGED <<part, broadcasts>>
  BY <1>2 DEF TokensNext, TokenMove
<2>. QED
  BY <1>1, <2>1
<1>3. CASE QueueNext
<2>1. UNCHANGED <<part, broadcasts>>
  BY <1>3 DEF QueueNext, QueueMove
<2>. QED
  BY <1>1, <2>1
<1>4. CASE SendNext
<2>1. part = "send" /\ part' = part
  BY <1>4 DEF SendNext, SendMove
<2>. QED
  BY <1>4, <2>1, SendKeepsOnce DEF PartInv
<1>5. CASE RemoveNext
<2>1. part = "remove" /\ part' = part
  BY <1>5 DEF RemoveNext, RemoveMove
<2>. QED
  BY <1>5, <2>1, RemoveKeeps DEF PartInv
<1>. QED
  BY <1>1, <1>2, <1>3, <1>4, <1>5 DEF ServicesNext

\* The rows of a broadcast are true of the chats: one message per delivery, a cancel stops
\* what is not in the batch, DELETED is gone, what is there is known, and the counters agree.
THEOREM RowsAreTrueHolds == ServicesSpec => []RowsAreTrue
<1>1. PartInv => RowsAreTrue
  BY DeliveredOnce, BroadcastIsTrue DEF PartInv, RowsAreTrue
<1>. QED
  BY <1>1, InitPart, PartStep, PTL DEF ServicesSpec
=============================================================================
