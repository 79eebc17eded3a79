-------------------------- MODULE EmailCodeProofs ---------------------------
(***************************************************************************)
(* Theorems about EmailCode, for every number of accounts, addresses and   *)
(* requests, with failing mail and stops.                                  *)
(*                                                                         *)
(* That what is stored was delivered rests on the rows the calls work on:  *)
(* a call merges its copy into a row that exists, and has delivered its    *)
(* code to the address it stores it for by the time it stores it.          *)
(* That a used code lets no later login in rests on where a code is: in    *)
(* one row or in Redis, since its own call stored it, until it is used.    *)
(***************************************************************************)
EXTENDS EmailCode, TLAPS

\* The part of TypeOK the theorems need.
StoresOK ==
  /\ user \in [Account -> Row \cup {None}]
  /\ pending \in [Email -> CodeEntry \cup {None}]
  /\ now \in Nat
  /\ call \in [Call -> CallState]
  /\ delivered \subseteq [code : Call, to : Email]
  /\ uses \in [Call -> Nat]

\* What a call p with the state c has to work with, among these rows and deliveries.
Equipped(p, c, rows, done) ==
  /\ c.account # None => /\ c.account \in Account /\ rows[c.account] \in Row /\ c.snap \in Row
                         /\ c.step \in {"sending", "sent"} => c.dto \in Row
  /\ c.step \in {"sending", "sent"} => c.expires \in Nat
  /\ c.step \in {"sending", "sent", "counting", "counted", "changing"} => c.email \in Email
  /\ c.step = "changing" => c.account # None
  /\ c.step = "accepted" /\ c.account = None => c.email \in Email
  /\ c.step = "sent" => [code |-> p, to |-> c.email] \in done

CallInv == \A p \in Call : Equipped(p, call[p], user, delivered)

IInv == StoresOK /\ CallInv /\ StoredWasDelivered

-----------------------------------------------------------------------------
USE DEF vars, stores, history, Kind, Running

\* No code has been asked for.
LEMMA InitIInv == ConstantsAssumption /\ Init => IInv
<1> SUFFICES ASSUME ConstantsAssumption, Init PROVE IInv
  OBVIOUS
<1>1. NoCall \in CallState
  BY DEF NoCall, CallState
<1>2. Fresh \subseteq Row /\ \A r \in Fresh : r.code = None
<2>1. RowOf(None, FALSE) \in Row /\ RowOf(None, FALSE).code = None
  BY DEF RowOf, Row
<2>2. ASSUME NEW r \in [email : Email, pending : {None}, verified : BOOLEAN,
                         code : {None}, expires : {None}]
      PROVE  r \in Row /\ r.code = None
  BY DEF Row
<2>. QED
  BY <2>1, <2>2 DEF Fresh
<1>3. user \in [Account -> {None} \cup Fresh]
  BY DEF Init
<1>4. StoresOK
  BY <1>1, <1>2, <1>3 DEF Init, StoresOK
<1>5. CallInv
  BY DEF Init, CallInv, Equipped, NoCall
<1>6. \A a \in Rows : user[a].code = None
  BY <1>2, <1>3 DEF Rows
<1>7. StoredWasDelivered
  BY <1>6 DEF Init, StoredWasDelivered
<1>. QED
  BY <1>4, <1>5, <1>7 DEF IInv

\* What a call that is over is remembered by is a state without an account.
LEMMA EndedIsState ==
  ASSUME NEW c \in CallState
  PROVE  /\ Ended(c) \in CallState /\ Ended(c).account = None /\ Ended(c).step = c.step
<1>1. NoCall \in CallState /\ NoCall.account = None
  BY DEF NoCall, CallState
<1>2. ASSUME NEW n \in CallState, n.account = None, NEW k \in Kind \cup {None}
      PROVE  [n EXCEPT !.kind = k] \in CallState /\ [n EXCEPT !.kind = k].account = None
  BY <1>2 DEF CallState
<1>3. ASSUME NEW n \in CallState, n.account = None,
             NEW step \in Running \cup {"new", "done", "stopped"}
      PROVE  [n EXCEPT !.step = step] \in CallState /\ [n EXCEPT !.step = step].account = None
             /\ [n EXCEPT !.step = step].step = step
  BY <1>3 DEF CallState
<1>4. ASSUME NEW n \in CallState, NEW e \in Email \cup {None}
      PROVE  /\ [n EXCEPT !.email = e] \in CallState
             /\ [n EXCEPT !.email = e].account = n.account
             /\ [n EXCEPT !.email = e].step = n.step
  BY <1>4 DEF CallState
<1>5. /\ c.kind \in Kind \cup {None} /\ c.email \in Email \cup {None}
      /\ c.step \in Running \cup {"new", "done", "stopped"}
  BY DEF CallState
<1> DEFINE m == [[NoCall EXCEPT !.kind = c.kind] EXCEPT !.step = c.step]
<1>7. m \in CallState /\ m.account = None /\ m.step = c.step
  BY <1>1, <1>2, <1>3, <1>5
<1>8. Ended(c) = [m EXCEPT !.email = c.email]
  BY Zenon DEF Ended, m
<1>. QED
  BY <1>4, <1>5, <1>7, <1>8

\* A call goes on equipped, or ends; the others stay equipped while rows stay rows.
LEMMA GoesKeeps ==
  ASSUME IInv, NEW p \in Call, NEW c \in CallState, Goes(p, c),
         c.step \in Running => Equipped(p, c, user', delivered'),
         \A a \in Account : user[a] \in Row => user'[a] \in Row, delivered \subseteq delivered'
  PROVE  call' \in [Call -> CallState] /\ CallInv'
<1> DEFINE d == IF c.step \in Running THEN c ELSE Ended(c)
<1>1. d \in CallState
  BY EndedIsState
<1>2. call' = [call EXCEPT ![p] = d] /\ call \in [Call -> CallState]
  BY DEF Goes, IInv, StoresOK
<1>3. call' \in [Call -> CallState]
  BY <1>1, <1>2
<1>4. Equipped(p, d, user', delivered')
  <2>1. CASE c.step \in Running
    BY <2>1
  <2>2. CASE c.step \notin Running
    BY <2>2, EndedIsState DEF Equipped
  <2>. QED
    BY <2>1, <2>2
<1>5. ASSUME NEW q \in Call, q # p PROVE Equipped(q, call'[q], user', delivered')
  <2>1. call'[q] = call[q] /\ Equipped(q, call[q], user, delivered)
    BY <1>2, <1>5 DEF IInv, CallInv
  <2>. QED
    BY <2>1 DEF Equipped
<1>6. call'[p] = d
  BY <1>2
<1>. QED
  BY <1>3, <1>4, <1>5, <1>6 DEF CallInv

\* The same of a call that only goes to its next step.
LEMMA StepKeeps ==
  ASSUME IInv, NEW p \in Call, NEW step \in Running \cup {"done", "stopped"},
         step \notin {"sending", "counting", "accepted", "changing"},
         step = "counted" => call[p].step = "counting",
         step = "sent" => /\ call[p].step = "sending"
                          /\ [code |-> p, to |-> call[p].email] \in delivered',
         Step(p, step),
         \A a \in Account : user[a] \in Row => user'[a] \in Row, delivered \subseteq delivered'
  PROVE  call' \in [Call -> CallState] /\ CallInv'
<1> DEFINE c == [call[p] EXCEPT !.step = step]
<1>1. call[p] \in CallState /\ Equipped(p, call[p], user, delivered)
  BY DEF IInv, StoresOK, CallInv
<1>2. c \in CallState
  BY <1>1 DEF CallState
<1>3. /\ c.step = step /\ c.account = call[p].account /\ c.snap = call[p].snap
      /\ c.dto = call[p].dto /\ c.email = call[p].email /\ c.expires = call[p].expires
  BY <1>1 DEF CallState
<1>4. Equipped(p, c, user', delivered')
  BY <1>1, <1>3 DEF Equipped
<1>. QED
  BY <1>2, <1>4, GoesKeeps DEF Step

\* UserDao.update makes a row of a row, with the code of one of the two.
LEMMA SaveIsRow ==
  ASSUME IInv, NEW a \in Account, user[a] \in Row, NEW snap \in Row, NEW new \in Row,
         Save(a, snap, new)
  PROVE  /\ user' \in [Account -> Row \cup {None}]
         /\ \A b \in Account : user[b] \in Row => user'[b] \in Row
         /\ \A b \in Account \ {a} : user'[b] = user[b]
         /\ user'[a].code \in {new.code, user[a].code}
<1>1. Saved(a, snap, new) \in Row /\ Saved(a, snap, new).code \in {new.code, user[a].code}
  BY DEF Saved, Row
<1>2. user \in [Account -> Row \cup {None}] /\ user' = [user EXCEPT ![a] = Saved(a, snap, new)]
  BY DEF IInv, StoresOK, Save
<1>. QED
  BY <1>1, <1>2

\* Uses are counted.
LEMMA UsedKeepsUses == ASSUME IInv, NEW c, Used(c) PROVE uses' \in [Call -> Nat]
<1>1. uses \in [Call -> Nat] /\ uses' = [uses EXCEPT ![c] = uses[c] + 1]
  BY DEF IInv, StoresOK, Used
<1>2. CASE c \in Call
  BY <1>1, <1>2
<1>3. CASE c \notin Call
  BY <1>1, <1>3
<1>. QED
  BY <1>2, <1>3

\* A row whose code was there, was delivered or is none keeps what is said of codes.
LEMMA RowKeepsDelivered ==
  ASSUME ConstantsAssumption, IInv, NEW a \in Account, user[a] \in Row, UNCHANGED pending,
         \A b \in Account \ {a} : user'[b] = user[b],
         user'[a].code \in Delivered \cup {None, user[a].code},
         delivered \subseteq delivered'
  PROVE  StoredWasDelivered'
<1>1. Delivered \subseteq Delivered'
  BY DEF Delivered
<1>. QED
  BY <1>1 DEF IInv, StoredWasDelivered, Rows, ConstantsAssumption

-----------------------------------------------------------------------------
\* The steps that store or promote something ...
LEMMA StoringStep ==
  ASSUME ConstantsAssumption, IInv, NEW p \in Call,
         StoreCode(p) \/ CommitConfirmed(p) \/ CommitChange(p)
  PROVE  IInv'
<1> DEFINE c == call[p]
           a == call[p].account
<1>1. c \in CallState /\ Equipped(p, c, user, delivered)
  BY DEF IInv, StoresOK, CallInv
<1>2. CASE StoreCode(p) /\ a # None
<2>1. /\ a \in Account /\ user[a] \in Row /\ c.snap \in Row /\ c.dto \in Row
      /\ c.expires \in Nat /\ [code |-> p, to |-> c.email] \in delivered
  BY <1>1, <1>2 DEF Equipped, StoreCode
<2>2. WithCode(p) \in Row /\ WithCode(p).code = p
  BY <2>1 DEF WithCode, Row
<2>3. Save(a, c.snap, WithCode(p)) /\ UNCHANGED <<pending, now, delivered, uses>>
  BY <1>2 DEF StoreCode
<2>4. call' \in [Call -> CallState] /\ CallInv'
  BY <1>2, <2>1, <2>2, <2>3, SaveIsRow, StepKeeps DEF StoreCode
<2>5. p \in Delivered
  BY <2>1 DEF Delivered
<2>6. StoredWasDelivered'
  BY <2>1, <2>2, <2>3, <2>5, SaveIsRow, RowKeepsDelivered
<2>. QED
  BY <2>1, <2>2, <2>3, <2>4, <2>6, SaveIsRow DEF IInv, StoresOK
<1>3. CASE StoreCode(p) /\ a = None
<2>1. /\ c.email \in Email /\ c.expires \in Nat /\ [code |-> p, to |-> c.email] \in delivered
  BY <1>1, <1>3 DEF Equipped, StoreCode
<2>2. /\ pending' = [pending EXCEPT ![c.email] = [code |-> p, expires |-> c.expires]]
      /\ UNCHANGED <<user, now, delivered, uses>>
  BY <1>3 DEF StoreCode
<2>3. call' \in [Call -> CallState] /\ CallInv'
  BY <1>3, <2>2, StepKeeps DEF StoreCode
<2>4. pending' \in [Email -> CodeEntry \cup {None}]
  BY <2>1, <2>2 DEF IInv, StoresOK, CodeEntry
<2>5. \A e \in Email : pending'[e] # None => [code |-> pending'[e].code, to |-> e] \in delivered
  <3>1. pending'[c.email].code = p /\ \A e \in Email \ {c.email} : pending'[e] = pending[e]
    BY <2>1, <2>2 DEF IInv, StoresOK
  <3>. QED
    BY <2>1, <3>1 DEF IInv, StoredWasDelivered
<2>6. StoredWasDelivered'
  BY <2>2, <2>5 DEF IInv, StoredWasDelivered, Rows, Delivered
<2>. QED
  BY <2>2, <2>3, <2>4, <2>6 DEF IInv, StoresOK
<1>4. CASE CommitConfirmed(p)
<2>1. a \in Account /\ user[a] \in Row /\ c.snap \in Row
  BY <1>1, <1>4 DEF Equipped, CommitConfirmed
<2>2. Confirmed(c.snap) \in Row /\ Confirmed(c.snap).code = None
  BY <2>1 DEF Confirmed, Row
<2>3. Save(a, c.snap, Confirmed(c.snap)) /\ UNCHANGED <<pending, now, delivered>>
  BY <1>4 DEF CommitConfirmed, Used
<2>4. call' \in [Call -> CallState] /\ CallInv'
  BY <1>4, <2>1, <2>2, <2>3, SaveIsRow, StepKeeps DEF CommitConfirmed
<2>5. StoredWasDelivered'
  BY <2>1, <2>2, <2>3, SaveIsRow, RowKeepsDelivered
<2>6. uses' \in [Call -> Nat]
  BY <1>4, UsedKeepsUses DEF CommitConfirmed
<2>. QED
  BY <2>1, <2>2, <2>3, <2>4, <2>5, <2>6, SaveIsRow DEF IInv, StoresOK
<1>5. CASE CommitChange(p)
<2> DEFINE new == [c.snap EXCEPT !.pending = c.email, !.verified = FALSE, !.code = None,
                                 !.expires = None]
<2>1. a \in Account /\ user[a] \in Row /\ c.snap \in Row /\ c.email \in Email
  BY <1>1, <1>5 DEF Equipped, CommitChange
<2>2. new \in Row /\ new.code = None
  BY <2>1 DEF Row
<2>3. Save(a, c.snap, new) /\ UNCHANGED <<pending, now, delivered, uses>>
  BY <1>5 DEF CommitChange
<2>4. call' \in [Call -> CallState] /\ CallInv'
  BY <1>5, <2>1, <2>2, <2>3, SaveIsRow, StepKeeps DEF CommitChange
<2>5. StoredWasDelivered'
  BY <2>1, <2>2, <2>3, SaveIsRow, RowKeepsDelivered
<2>. QED
  BY <2>1, <2>2, <2>3, <2>4, <2>5, SaveIsRow DEF IInv, StoresOK
<1>. QED
  BY <1>2, <1>3, <1>4, <1>5

\* A row that is created has no code.
LEMMA NewRow ==
  ASSUME IInv, NEW a \in Account, user[a] = None, NEW e \in Email, NEW v \in BOOLEAN,
         user' = [user EXCEPT ![a] = RowOf(e, v)]
  PROVE  /\ user' \in [Account -> Row \cup {None}]
         /\ \A b \in Account : user[b] \in Row => user'[b] \in Row
         /\ \A b \in Account \ {a} : user'[b] = user[b]
         /\ user'[a].code = None
<1>1. RowOf(e, v) \in Row /\ RowOf(e, v).code = None
  BY DEF RowOf, Row
<1>. QED
  BY <1>1 DEF IInv, StoresOK

\* ... those that create a row or drop a code ...
LEMMA CreatingStep ==
  ASSUME ConstantsAssumption, IInv,
         \/ \E p \in Call : CommitRegistered(p) \/ RevokeCode(p)
         \/ \E a \in Account, e \in Email : RegisterEmailUser(a, e)
  PROVE  IInv'
<1>1. ASSUME NEW p \in Call, CommitRegistered(p) PROVE IInv'
<2>1. call[p].email \in Email
  BY <1>1 DEF IInv, CallInv, Equipped, CommitRegistered
<2>2. PICK a \in Account \ Rows : user' = [user EXCEPT ![a] = RowOf(call[p].email, TRUE)]
  BY <1>1 DEF CommitRegistered
<2>3. user[a] = None
  BY <2>2 DEF Rows
<2>4. UNCHANGED <<pending, now, delivered>>
  BY <1>1 DEF CommitRegistered, Used
<2>5. call' \in [Call -> CallState] /\ CallInv'
  BY <1>1, <2>1, <2>2, <2>3, <2>4, NewRow, StepKeeps DEF CommitRegistered
<2>6. StoredWasDelivered'
  <3>1. user'[a].code = None /\ \A b \in Account \ {a} : user'[b] = user[b]
    BY <2>1, <2>2, <2>3, NewRow
  <3>. QED
    BY <2>4, <3>1 DEF IInv, StoredWasDelivered, Rows, Delivered
<2>7. uses' \in [Call -> Nat]
  BY <1>1, UsedKeepsUses DEF CommitRegistered
<2>. QED
  BY <2>1, <2>2, <2>3, <2>4, <2>5, <2>6, <2>7, NewRow DEF IInv, StoresOK
<1>2. ASSUME NEW p \in Call, RevokeCode(p) PROVE IInv'
<2>1. UNCHANGED <<user, now, delivered, uses>> /\ pending' = [pending EXCEPT ![call[p].email] = None]
  BY <1>2 DEF RevokeCode
<2>2. call' \in [Call -> CallState] /\ CallInv'
  BY <1>2, <2>1, StepKeeps DEF RevokeCode
<2>3. /\ pending' \in [Email -> CodeEntry \cup {None}]
      /\ \A e \in Email : pending'[e] \in {pending[e], None}
  BY <2>1 DEF IInv, StoresOK
<2>4. StoredWasDelivered'
  BY <2>1, <2>3 DEF IInv, StoredWasDelivered, Rows, Delivered
<2>. QED
  BY <2>1, <2>2, <2>3, <2>4 DEF IInv, StoresOK
<1>3. ASSUME NEW a \in Account, NEW e \in Email, RegisterEmailUser(a, e) PROVE IInv'
<2>1. /\ user[a] = None /\ user' = [user EXCEPT ![a] = RowOf(e, FALSE)]
      /\ UNCHANGED <<pending, now, delivered, call, uses>>
  BY <1>3 DEF RegisterEmailUser
<2>2. /\ user' \in [Account -> Row \cup {None}]
      /\ \A b \in Account : user[b] \in Row => user'[b] \in Row
      /\ \A b \in Account \ {a} : user'[b] = user[b]
      /\ user'[a].code = None
  BY <2>1, NewRow
<2>3. CallInv'
  BY <2>1, <2>2 DEF IInv, CallInv, Equipped
<2>4. StoredWasDelivered'
  BY <2>1, <2>2 DEF IInv, StoredWasDelivered, Rows, Delivered
<2>. QED
  BY <2>1, <2>2, <2>3, <2>4 DEF IInv, StoresOK
<1>. QED
  BY <1>1, <1>2, <1>3

\* ... and those that leave rows and codes alone.
LEMMA FrameStep ==
  ASSUME IInv, UNCHANGED <<user, pending, uses>>, now' \in Nat,
         delivered \subseteq delivered', delivered' \subseteq [code : Call, to : Email],
         call' \in [Call -> CallState], CallInv'
  PROVE  IInv'
<1>1. Delivered \subseteq Delivered'
  BY DEF Delivered
<1>2. StoredWasDelivered'
  BY <1>1 DEF IInv, StoredWasDelivered, Rows
<1>. QED
  BY <1>2 DEF IInv, StoresOK

\* A call that begins or goes on with the state c, and changes no row, code or delivery.
LEMMA GoingStep ==
  ASSUME IInv, NEW p \in Call, NEW c \in CallState, Goes(p, c),
         c.step \in Running => Equipped(p, c, user, delivered),
         UNCHANGED <<user, pending, now, delivered, uses>>
  PROVE  IInv'
<1>1. call' \in [Call -> CallState] /\ CallInv'
  BY GoesKeeps
<1>. QED
  BY <1>1, FrameStep DEF IInv, StoresOK

\* The same of one that only goes to its next step.
LEMMA GoingOnStep ==
  ASSUME IInv, NEW p \in Call, NEW step \in Running \cup {"done", "stopped"},
         step \notin {"sending", "sent", "counting", "accepted", "changing"},
         step = "counted" => call[p].step = "counting", Step(p, step),
         UNCHANGED <<user, pending, now, delivered, uses>>
  PROVE  IInv'
<1>1. call' \in [Call -> CallState] /\ CallInv'
  BY StepKeeps
<1>. QED
  BY <1>1, FrameStep DEF IInv, StoresOK

\* What somebody who can be found is found by is a row.
LEMMA OwnersAreRows ==
  ASSUME IInv, NEW e PROVE \A a \in Owners(e) : a \in Account /\ user[a] \in Row
  BY DEF IInv, StoresOK, Owners, HasEmail, HasPending, Rows

\* The state of a call that has asked for a code.
LEMMA AskedIsEquipped ==
  ASSUME ConstantsAssumption, IInv, NEW p \in Call, NEW kind \in Kind, NEW e \in Email,
         NEW a \in Account \cup {None}, NEW row \in Row \cup {None},
         NEW dto \in Row \cup {None},
         a # None => user[a] \in Row /\ row \in Row /\ dto \in Row
  PROVE  /\ Asked(kind, a, e, row, dto) \in CallState
         /\ Equipped(p, Asked(kind, a, e, row, dto), user, delivered)
<1>1. now + Ttl \in Nat
  BY DEF IInv, StoresOK, ConstantsAssumption
<1>2. Asked(kind, a, e, row, dto) \in CallState
  BY <1>1 DEF Asked, NoCall, CallState
<1>3. Equipped(p, Asked(kind, a, e, row, dto), user, delivered)
  BY <1>1 DEF Asked, NoCall, Equipped
<1>. QED
  BY <1>2, <1>3

\* The calls that begin.
LEMMA BeginningStep ==
  ASSUME ConstantsAssumption, IInv, NEW p \in Call,
         \/ \E e \in Email : \/ RequestEmailCode(p, e)
                             \/ \E c \in Delivered \cup {None} : CountAttempt(p, e, c)
         \/ \E a \in Rows : \/ \E e \in Email : ChangeEmail(p, a, e)
                            \/ \E e \in Email \cup {None} : RequestEmailVerification(p, a, e)
                            \/ \E c \in Delivered : ConfirmEmailVerification(p, a, c)
  PROVE  IInv'
<1>d. Delivered \subseteq Call
  BY DEF IInv, StoresOK, Delivered
<1>r. \A a \in Rows : a \in Account /\ a # None /\ user[a] \in Row
  BY DEF IInv, StoresOK, Rows, ConstantsAssumption
<1>1. ASSUME NEW e \in Email, RequestEmailCode(p, e) PROVE IInv'
<2>1. UNCHANGED <<user, pending, now, delivered, uses>>
  BY <1>1 DEF RequestEmailCode
<2>2. ASSUME NEW a \in Owners(e), Goes(p, Asked("request", a, e, user[a], user[a])) PROVE IInv'
  <3>1. a \in Account /\ user[a] \in Row
    BY OwnersAreRows
  <3>. QED
    BY <2>1, <2>2, <3>1, AskedIsEquipped, GoingStep
<2>3. CASE Goes(p, Asked("request", None, e, None, None))
  BY <2>1, <2>3, AskedIsEquipped, GoingStep
<2>. QED
  BY <1>1, <2>2, <2>3 DEF RequestEmailCode
<1>2. ASSUME NEW e \in Email, NEW code \in Delivered \cup {None}, CountAttempt(p, e, code)
      PROVE  IInv'
<2>1. ASSUME NEW late \in BOOLEAN, NEW step \in {"counting", "done", "counted"},
             Goes(p, [NoCall EXCEPT !.kind = "login", !.email = e, !.code = code,
                        !.late = late, !.step = step])
      PROVE  IInv'
  <3>1. [NoCall EXCEPT !.kind = "login", !.email = e, !.code = code, !.late = late,
           !.step = step] \in CallState
    BY <1>d DEF NoCall, CallState
  <3>2. Equipped(p, [NoCall EXCEPT !.kind = "login", !.email = e, !.code = code,
                       !.late = late, !.step = step], user, delivered)
    BY DEF NoCall, Equipped
  <3>3. UNCHANGED <<user, pending, now, delivered, uses>>
    BY <1>2 DEF CountAttempt
  <3>. QED
    BY <2>1, <3>1, <3>2, <3>3, GoingStep
<2>2. (code # None /\ uses[code] > 0 /\ ~LeftBehind(e)) \in BOOLEAN
  BY <1>d DEF IInv, StoresOK
<2>3. (IF Attempts(e).n + 1 = 1 THEN "counting"
       ELSE IF Attempts(e).n + 1 > MaxAttempts THEN "done" ELSE "counted")
        \in {"counting", "done", "counted"}
  OBVIOUS
<2>. QED
  BY <1>2, <2>1, <2>2, <2>3 DEF CountAttempt
<1>3. ASSUME NEW a \in Rows, NEW e \in Email, ChangeEmail(p, a, e) PROVE IInv'
<2> DEFINE c == [NoCall EXCEPT !.kind = "change", !.step = "changing", !.account = a,
                               !.email = e, !.snap = user[a]]
<2>1. c \in CallState
  BY <1>r DEF NoCall, CallState
<2>2. Equipped(p, c, user, delivered)
  BY <1>r DEF NoCall, Equipped
<2>3. Goes(p, c) /\ UNCHANGED <<user, pending, now, delivered, uses>>
  BY <1>3 DEF ChangeEmail
<2>. QED
  BY <2>1, <2>2, <2>3, GoingStep
<1>4. ASSUME NEW a \in Rows, NEW e \in Email \cup {None}, RequestEmailVerification(p, a, e)
      PROVE  IInv'
<2> DEFINE row == user[a]
           dto == IF e \in {None, row.email} THEN row
                  ELSE [row EXCEPT !.pending = e, !.verified = FALSE]
           target == IF dto.pending # None THEN dto.pending ELSE dto.email
<2>1. row \in Row /\ a \in Account
  BY <1>r
<2>2. dto \in Row
  BY <2>1 DEF Row
<2>3. target \in Email
  BY <1>4, <2>2 DEF RequestEmailVerification, Row
<2>4. Goes(p, Asked("verify", a, target, row, dto)) /\ UNCHANGED <<user, pending, now, delivered, uses>>
  BY <1>4 DEF RequestEmailVerification
<2>. QED
  BY <2>1, <2>2, <2>3, <2>4, AskedIsEquipped, GoingStep
<1>5. ASSUME NEW a \in Rows, NEW code \in Delivered, ConfirmEmailVerification(p, a, code)
      PROVE  IInv'
<2> DEFINE c == [NoCall EXCEPT !.kind = "confirm", !.step = "accepted", !.account = a,
                  !.email = user[a].pending, !.code = code, !.snap = user[a],
                  !.late = uses[code] > 0]
<2>1. (uses[code] > 0) \in BOOLEAN /\ user[a].pending \in Email \cup {None}
  BY <1>d, <1>r DEF IInv, StoresOK, Row
<2>2. c \in CallState
  BY <1>d, <1>r, <2>1 DEF NoCall, CallState
<2>3. Equipped(p, c, user, delivered)
  BY <1>r, <2>1 DEF NoCall, Equipped
<2>4. Goes(p, c) /\ UNCHANGED <<user, pending, now, delivered, uses>>
  BY <1>5 DEF ConfirmEmailVerification
<2>. QED
  BY <2>2, <2>3, <2>4, GoingStep
<1>. QED
  BY <1>1, <1>2, <1>3, <1>4, <1>5

\* The calls that go on without storing anything.
LEMMA GoingOn ==
  ASSUME ConstantsAssumption, IInv, NEW p \in Call,
         \/ Deliver(p) \/ DeliveryRaises(p) \/ ResetAttempts(p) \/ ExpireAttempts(p)
         \/ Examine(p) \/ CommitRaises(p) \/ Stop(p)
  PROVE  IInv'
<1>1. CASE Deliver(p)
<2>1. call[p].email \in Email
  BY <1>1 DEF Deliver, IInv, CallInv, Equipped
<2>2. /\ delivered' = delivered \cup {[code |-> p, to |-> call[p].email]}
      /\ call[p].step = "sending" /\ Step(p, "sent") /\ UNCHANGED <<user, pending, now, uses>>
  BY <1>1 DEF Deliver
<2>3. call' \in [Call -> CallState] /\ CallInv'
  BY <2>2, StepKeeps
<2>. QED
  BY <2>1, <2>2, <2>3, FrameStep DEF IInv, StoresOK
<1>2. CASE DeliveryRaises(p)
  BY <1>2, GoingOnStep DEF DeliveryRaises
<1>3. CASE ResetAttempts(p)
  BY <1>3, GoingOnStep DEF ResetAttempts
<1>4. CASE ExpireAttempts(p)
  BY <1>4, GoingOnStep DEF ExpireAttempts
<1>5. CASE Examine(p)
<2> DEFINE c == call[p]
<2>1. c \in CallState /\ Equipped(p, c, user, delivered) /\ c.step = "counted"
  BY <1>5 DEF Examine, IInv, StoresOK, CallInv
<2>2. UNCHANGED <<user, pending, now, delivered, uses>>
  BY <1>5 DEF Examine
<2>3. ASSUME NEW a \in Owners(c.email),
             Goes(p, [c EXCEPT !.step = "accepted", !.account = a, !.snap = user[a]])
      PROVE  IInv'
  <3>1. a \in Account /\ a # None /\ user[a] \in Row
    BY OwnersAreRows DEF ConstantsAssumption
  <3>2. [c EXCEPT !.step = "accepted", !.account = a, !.snap = user[a]] \in CallState
    BY <2>1, <3>1 DEF CallState
  <3>3. Equipped(p, [c EXCEPT !.step = "accepted", !.account = a, !.snap = user[a]], user,
                 delivered)
    BY <2>1, <3>1 DEF CallState, Equipped
  <3>. QED
    BY <2>2, <2>3, <3>2, <3>3, GoingStep
<2>4. CASE Goes(p, [c EXCEPT !.step = "done"])
  BY <2>2, <2>4, GoingOnStep DEF Step
<2>5. CASE pending[c.email] # None /\ Goes(p, [c EXCEPT !.step = "accepted"])
  <3>1. [c EXCEPT !.step = "accepted"] \in CallState
    BY <2>1 DEF CallState
  <3>2. Equipped(p, [c EXCEPT !.step = "accepted"], user, delivered)
    BY <2>1, <2>5 DEF CallState, Equipped, IInv, StoresOK
  <3>. QED
    BY <2>2, <2>5, <3>1, <3>2, GoingStep
<2>. QED
  BY <1>5, <2>3, <2>4, <2>5 DEF Examine, PendingCode
<1>6. CASE CommitRaises(p)
  BY <1>6, GoingOnStep DEF CommitRaises
<1>7. CASE Stop(p)
  BY <1>7, GoingOnStep DEF Stop
<1>. QED
  BY <1>1, <1>2, <1>3, <1>4, <1>5, <1>6, <1>7

-----------------------------------------------------------------------------
\* IInv is inductive.
LEMMA Induction == ConstantsAssumption /\ IInv /\ [Next]_vars => IInv'
<1> SUFFICES ASSUME ConstantsAssumption, IInv, [Next]_vars PROVE IInv'
  OBVIOUS
<1>1. CASE Tick
<2>1. now' \in Nat
  BY <1>1 DEF Tick, IInv, StoresOK
<2>2. CallInv' /\ StoredWasDelivered'
  BY <1>1 DEF Tick, IInv, CallInv, Equipped, StoredWasDelivered, Rows, Delivered
<2>. QED
  BY <1>1, <2>1, <2>2 DEF Tick, IInv, StoresOK
<1>2. CASE UNCHANGED vars
<2>1. CallInv' /\ StoredWasDelivered'
  BY <1>2 DEF IInv, CallInv, Equipped, StoredWasDelivered, Rows, Delivered
<2>. QED
  BY <1>2, <2>1 DEF IInv, StoresOK
<1>. QED
  BY <1>1, <1>2, StoringStep, CreatingStep, BeginningStep, GoingOn DEF Next

\* The inductive invariant holds in every reachable state.
LEMMA Invariance == ASSUME ConstantsAssumption PROVE Spec => []IInv
<1>1. Init => IInv
  BY InitIInv
<1>2. IInv /\ [Next]_vars => IInv'
  BY Induction
<1>. QED
  BY <1>1, <1>2, PTL DEF Spec

\* RequestEmailCode and RequestEmailVerification send the message before they store
\* the code, and every other command drops codes: a stored code was delivered, one in
\* Redis to the address it is stored for.
THEOREM StoredWasDeliveredHolds ==
  ASSUME ConstantsAssumption PROVE Spec => []StoredWasDelivered
<1>1. IInv => StoredWasDelivered
  BY DEF IInv
<1>. QED
  BY <1>1, Invariance, PTL

-----------------------------------------------------------------------------
(* Where codes are. *)

InRow(c) == {a \in Rows : user[a].code = c}
InRedis(c) == {e \in Email : pending[e] # None /\ pending[e].code = c}
Past(c) == call[c].step \notin {"new", "sending", "sent"}

\* A code is nowhere before its own call stores it, then in one row or under its own
\* address, and after its use only where a registration left it.
Placed(c) ==
  /\ ~Past(c) => InRow(c) = {} /\ InRedis(c) = {} /\ uses[c] = 0
  /\ InRow(c) # {} => InRedis(c) = {}
  /\ \A a, b \in InRow(c) : a = b
  /\ \A e \in InRedis(c) : call[c].email = e
  /\ uses[c] > 0 => InRow(c) = {} /\ \A e \in InRedis(c) : LeftBehind(e)

\* What a call with the state d has found out about the code it carries.
Carries(d) ==
  /\ d.step \in {"counting", "counted"} => d.kind = "login" /\ d.account = None
  /\ d.step = "accepted" => d.code \in Call /\ Past(d.code)
  /\ d.step = "accepted" /\ d.account = None
       => d.kind = "login" /\ InRow(d.code) = {} /\ call[d.code].email = d.email
  /\ d.step = "accepted" /\ d.account # None
       => d.snap.code = d.code /\ InRow(d.code) \subseteq {d.account} /\ InRedis(d.code) = {}
  /\ d.late => d.step \notin {"accepted", "created", "committed"}
  /\ d.late /\ d.step \in {"counting", "counted"}
       => d.code \in Call /\ Past(d.code) /\ InRow(d.code) = {} /\ d.email \notin InRedis(d.code)

PlacesInv == \A c \in Call : Placed(c)
CarriesInv == \A p \in Call : Carries(call[p])
SpentInv == PlacesInv /\ CarriesInv

\* No code that was stored comes back to a place it left.
Drops == \A c \in Call : Past(c) => /\ Past(c)' /\ call'[c].email = call[c].email
                                    /\ InRow(c)' \subseteq InRow(c)
                                    /\ InRedis(c)' \subseteq InRedis(c)

\* No code is anywhere at first.
LEMMA InitSpentInv == ConstantsAssumption /\ Init => SpentInv
<1> SUFFICES ASSUME ConstantsAssumption, Init PROVE SpentInv
  OBVIOUS
<1>1. \A r \in Fresh : r.code = None
<2>1. RowOf(None, FALSE).code = None
  BY DEF RowOf
<2>2. \A r \in [email : Email, pending : {None}, verified : BOOLEAN, code : {None},
                expires : {None}] : r.code = None
  OBVIOUS
<2>. QED
  BY <2>1, <2>2 DEF Fresh
<1>2. user \in [Account -> {None} \cup Fresh] /\ None \notin Call
  BY DEF Init, ConstantsAssumption
<1>3. \A c \in Call : InRow(c) = {}
  BY <1>1, <1>2 DEF InRow, Rows
<1>4. \A c \in Call : InRedis(c) = {} /\ uses[c] = 0
  BY DEF Init, InRedis
<1>5. \A p \in Call : call[p].step = "new" /\ call[p].late = FALSE
  BY DEF Init, NoCall
<1>6. PlacesInv
  BY <1>3, <1>4 DEF PlacesInv, Placed
<1>7. CarriesInv
  BY <1>5 DEF CarriesInv, Carries
<1>. QED
  BY <1>6, <1>7 DEF SpentInv

\* A call that is over carries nothing, and stays known by its kind and address.
LEMMA EndedCarriesNothing ==
  ASSUME NEW c \in CallState, c.step \notin Running
  PROVE  /\ Ended(c).kind = c.kind /\ Ended(c).email = c.email /\ ~Ended(c).late
         /\ Carries(Ended(c))
<1>1. /\ Ended(c).kind = c.kind /\ Ended(c).email = c.email /\ Ended(c).late = FALSE
      /\ Ended(c).step = c.step
  BY DEF Ended, NoCall
<1>. QED
  BY <1>1 DEF Carries

\* What a call has found out stays true while codes only leave their places.
LEMMA CarriesStays ==
  ASSUME Drops, NEW d, Carries(d)
  PROVE  Carries(d)'
<1>1. CASE d.step = "accepted"
  BY <1>1 DEF Carries, Drops
<1>2. CASE d.step # "accepted"
  BY <1>2 DEF Carries, Drops
<1>. QED
  BY <1>1, <1>2

\* So a call that goes on with what it has found out leaves the others as they are.
LEMMA CarriesGoes ==
  ASSUME IInv, SpentInv, Drops, NEW p \in Call, NEW c \in CallState, Goes(p, c),
         c.step \in Running => Carries(c)'
  PROVE  CarriesInv'
<1> DEFINE d == IF c.step \in Running THEN c ELSE Ended(c)
<1>1. call' = [call EXCEPT ![p] = d] /\ call \in [Call -> CallState]
  BY DEF Goes, IInv, StoresOK
<1>2. Carries(d)'
  <2>1. CASE c.step \in Running
    BY <2>1
  <2>2. CASE c.step \notin Running
    BY <2>2, EndedCarriesNothing, CarriesStays
  <2>. QED
    BY <2>1, <2>2
<1>3. ASSUME NEW q \in Call, NEW e, e = call'[q] PROVE Carries(e)'
  <2>1. CASE q = p
    BY <1>1, <1>2, <1>3, <2>1
  <2>2. CASE q # p
    <3>1. call'[q] = call[q] /\ Carries(call[q])
      BY <1>1, <2>2 DEF SpentInv, CarriesInv
    <3>. QED
      BY <1>3, <3>1, CarriesStays
  <2>. QED
    BY <2>1, <2>2
<1>4. ASSUME NEW q \in Call PROVE Carries(call[q])'
  <2>1. PICK e : e = call'[q]
    OBVIOUS
  <2>2. Carries(e)'
    BY <1>3, <2>1
  <2>. QED
    BY <2>1, <2>2 DEF Carries
<1>. QED
  BY <1>4 DEF CarriesInv

\* A call that goes on while codes only leave their places, and whose own code is either
\* stored already or not at all: a use empties the row, or leaves the code behind.
LEMMA PlacesGo ==
  ASSUME IInv, SpentInv, NEW p \in Call, NEW c \in CallState, Goes(p, c),
         Past(p) => c.step \notin {"new", "sending", "sent"} /\ c.email = call[p].email,
         call[p].step # "stopped",
         call[p].step = "created"
           => \/ c.step = "stopped" /\ c.kind = call[p].kind
              \/ \A d \in Call : call[p].email \notin InRedis(d)',
         \A d \in Call : InRow(d)' \subseteq InRow(d) /\ InRedis(d)' \subseteq InRedis(d),
         \A d \in Call : \/ uses'[d] = uses[d]
                         \/ /\ Past(d) /\ InRow(d)' = {}
                            /\ \A e \in InRedis(d)' : LeftBehind(e)'
  PROVE  Drops /\ PlacesInv'
<1> DEFINE n == IF c.step \in Running THEN c ELSE Ended(c)
<1>1. n.step = c.step /\ n.email = c.email /\ n.kind = c.kind
  BY EndedIsState, EndedCarriesNothing
<1>2. call' = [call EXCEPT ![p] = n] /\ call \in [Call -> CallState]
  BY DEF Goes, IInv, StoresOK
<1>3. call'[p] = n /\ \A q \in Call \ {p} : call'[q] = call[q]
  BY <1>2
<1> HIDE DEF n
<1>4. \A d \in Call : Past(d) => Past(d)' /\ call'[d].email = call[d].email
  BY <1>1, <1>3 DEF Past
<1>5. Drops
  BY <1>4 DEF Drops
<1>6. ASSUME NEW e \in Email, LeftBehind(e), NEW d \in Call, e \in InRedis(d)'
      PROVE  LeftBehind(e)'
  <2>1. PICK q \in Call : /\ call[q].kind = "login" /\ call[q].email = e
                          /\ call[q].step \in {"created", "stopped"}
    BY <1>6 DEF LeftBehind
  <2>2. CASE q # p
    BY <1>3, <2>1, <2>2 DEF LeftBehind
  <2>3. CASE q = p
    <3>1. c.step = "stopped" /\ c.kind = "login" /\ c.email = e
      BY <1>6, <2>1, <2>3 DEF Past
    <3>. QED
      BY <1>1, <1>3, <3>1 DEF LeftBehind
  <2>. QED
    BY <2>2, <2>3
<1>7. ASSUME NEW d \in Call PROVE Placed(d)'
  <2>1. Placed(d) /\ InRow(d)' \subseteq InRow(d) /\ InRedis(d)' \subseteq InRedis(d)
    BY DEF SpentInv, PlacesInv
  <2>2. ~Past(d)' => InRow(d)' = {} /\ InRedis(d)' = {} /\ uses'[d] = 0
    BY <1>4, <2>1 DEF Placed
  <2>3. InRow(d)' # {} => InRedis(d)' = {}
    BY <2>1 DEF Placed
  <2>4. \A a, b \in InRow(d)' : a = b
    BY <2>1 DEF Placed
  <2>5. \A e \in InRedis(d)' : call'[d].email = e
    BY <1>4, <2>1 DEF Placed
  <2>6. uses'[d] > 0 => InRow(d)' = {} /\ \A e \in InRedis(d)' : LeftBehind(e)'
    <3>1. CASE uses'[d] = uses[d]
      BY <1>6, <2>1, <3>1 DEF Placed, InRedis
    <3>. QED
      BY <3>1
  <2>. QED
    BY <2>2, <2>3, <2>4, <2>5, <2>6 DEF Placed
<1>. QED
  BY <1>5, <1>7 DEF PlacesInv

\* A step of a call that changes no store and uses no code.
LEMMA QuietStep ==
  ASSUME IInv, SpentInv, NEW p \in Call, NEW c \in CallState, Goes(p, c),
         Past(p) => c.step \notin {"new", "sending", "sent"} /\ c.email = call[p].email,
         call[p].step # "stopped",
         call[p].step = "created" => c.step = "stopped" /\ c.kind = call[p].kind,
         UNCHANGED <<user, pending, uses>>, Carries(c)
  PROVE  SpentInv'
<1>1. \A d \in Call : InRow(d)' = InRow(d) /\ InRedis(d)' = InRedis(d)
  BY DEF InRow, Rows, InRedis
<1>2. Drops /\ PlacesInv'
  BY <1>1, PlacesGo
<1>3. Carries(c)'
  BY <1>2, CarriesStays
<1>4. CarriesInv'
  BY <1>2, <1>3, CarriesGoes
<1>. QED
  BY <1>2, <1>4 DEF SpentInv

\* A step that only goes on: nothing is found out.
LEMMA QuietGoesOn ==
  ASSUME IInv, SpentInv, NEW p \in Call, NEW step \in Running \cup {"done", "stopped"},
         Step(p, step), step \notin {"sending", "accepted", "created", "committed"},
         step = "sent" => call[p].step = "sending",
         step \in {"counting", "counted"} => call[p].step \in {"counting", "counted"},
         call[p].step # "stopped", call[p].step = "created" => step = "stopped",
         UNCHANGED <<user, pending, uses>>
  PROVE  SpentInv'
<1>1. call[p] \in CallState /\ Carries(call[p])
  BY DEF IInv, StoresOK, SpentInv, CarriesInv
<1>2. PICK c \in CallState : c = [call[p] EXCEPT !.step = step]
<2>1. [call[p] EXCEPT !.step = step] \in CallState
  BY <1>1 DEF CallState
<2>. QED
  BY <2>1
<1>3. /\ c.step = step /\ c.kind = call[p].kind /\ c.email = call[p].email
      /\ c.code = call[p].code /\ c.late = call[p].late /\ c.account = call[p].account
  BY <1>1, <1>2 DEF CallState
<1>4. Carries(c)
  BY <1>1, <1>3 DEF Carries
<1>6. Past(p) => c.step \notin {"new", "sending", "sent"}
  BY <1>3 DEF Past
<1>7. Goes(p, c)
  BY <1>2 DEF Step
<1>. QED
  BY <1>3, <1>4, <1>6, <1>7, QuietStep

\* A code that can be used is in one row, or under its own address, and unused unless
\* a registration left it there.
LEMMA RowIsPlace ==
  ASSUME IInv, SpentInv, NEW a \in Rows, NEW c \in Call, user[a].code = c
  PROVE  Past(c) /\ InRow(c) \subseteq {a} /\ InRedis(c) = {} /\ ~(uses[c] > 0)
<1>1. a \in InRow(c) /\ Placed(c)
  BY DEF InRow, SpentInv, PlacesInv
<1>. QED
  BY <1>1 DEF Placed

\* A code kept in Redis is past its mail, of that address, and in nobody's row.
LEMMA RedisIsPlace ==
  ASSUME IInv, SpentInv, NEW e \in Email, NEW c \in Call, e \in InRedis(c)
  PROVE  Past(c) /\ InRow(c) = {} /\ call[c].email = e
<1>1. Placed(c)
  BY DEF SpentInv, PlacesInv
<1>. QED
  BY <1>1 DEF Placed

\* A call that begins without a code has found out nothing.
LEMMA SpentBegins ==
  ASSUME IInv, SpentInv, NEW p \in Call, call[p].step = "new",
         NEW c \in CallState, Goes(p, c), c.step \in {"sending", "changing"}, c.late = FALSE,
         UNCHANGED <<user, pending, uses>>
  PROVE  SpentInv'
<1>1. Carries(c)
  BY DEF Carries
<1>. QED
  BY <1>1, QuietStep DEF Past

\* The calls that begin keep what is said of used codes.
LEMMA SpentBeginning ==
  ASSUME ConstantsAssumption, IInv, SpentInv, NEW p \in Call,
         \/ \E e \in Email : \/ RequestEmailCode(p, e)
                             \/ \E c \in Delivered \cup {None} : CountAttempt(p, e, c)
         \/ \E a \in Rows : \/ \E e \in Email : ChangeEmail(p, a, e)
                            \/ \E e \in Email \cup {None} : RequestEmailVerification(p, a, e)
                            \/ \E c \in Delivered : ConfirmEmailVerification(p, a, c)
  PROVE  SpentInv'
<1>d. Delivered \subseteq Call
  BY DEF IInv, StoresOK, Delivered
<1>r. \A a \in Rows : a \in Account /\ a # None /\ user[a] \in Row
  BY DEF IInv, StoresOK, Rows, ConstantsAssumption
<1>1. ASSUME NEW kind \in Kind, NEW e \in Email, NEW a \in Account \cup {None},
             NEW row \in Row \cup {None}, NEW dto \in Row \cup {None},
             a # None => user[a] \in Row /\ row \in Row /\ dto \in Row,
             call[p].step = "new", Goes(p, Asked(kind, a, e, row, dto)),
             UNCHANGED <<user, pending, uses>>
      PROVE  SpentInv'
<2>1. PICK c \in CallState : c = Asked(kind, a, e, row, dto)
  BY <1>1, AskedIsEquipped
<2>2. c.step = "sending" /\ c.late = FALSE
  BY <2>1 DEF Asked, NoCall
<2>. QED
  BY <1>1, <2>1, <2>2, SpentBegins
<1>2. ASSUME NEW e \in Email, RequestEmailCode(p, e) PROVE SpentInv'
<2>1. call[p].step = "new" /\ UNCHANGED <<user, pending, uses>>
  BY <1>2 DEF RequestEmailCode, Begin
<2>2. ASSUME NEW a \in Owners(e), Goes(p, Asked("request", a, e, user[a], user[a]))
      PROVE  SpentInv'
  <3>1. a \in Account /\ user[a] \in Row
    BY OwnersAreRows
  <3>. QED
    BY <1>1, <2>1, <2>2, <3>1
<2>3. CASE Goes(p, Asked("request", None, e, None, None))
  BY <1>1, <2>1, <2>3
<2>. QED
  BY <1>2, <2>2, <2>3 DEF RequestEmailCode
<1>3. ASSUME NEW a \in Rows, NEW e \in Email \cup {None}, RequestEmailVerification(p, a, e)
      PROVE  SpentInv'
<2> DEFINE row == user[a]
           dto == IF e \in {None, row.email} THEN row
                  ELSE [row EXCEPT !.pending = e, !.verified = FALSE]
           target == IF dto.pending # None THEN dto.pending ELSE dto.email
<2>1. row \in Row /\ a \in Account
  BY <1>r
<2>2. dto \in Row
  BY <2>1 DEF Row
<2>3. target \in Email
  BY <1>3, <2>2 DEF RequestEmailVerification, Row
<2>4. /\ Goes(p, Asked("verify", a, target, row, dto)) /\ call[p].step = "new"
      /\ UNCHANGED <<user, pending, uses>>
  BY <1>3 DEF RequestEmailVerification, Begin
<2> HIDE DEF dto, target
<2>. QED
  BY <1>1, <2>1, <2>2, <2>3, <2>4
<1>4. ASSUME NEW a \in Rows, NEW e \in Email, ChangeEmail(p, a, e) PROVE SpentInv'
<2>1. PICK c \in CallState : c = [NoCall EXCEPT !.kind = "change", !.step = "changing",
                                   !.account = a, !.email = e, !.snap = user[a]]
  <3>1. [NoCall EXCEPT !.kind = "change", !.step = "changing", !.account = a, !.email = e,
           !.snap = user[a]] \in CallState
    BY <1>r DEF NoCall, CallState
  <3>. QED
    BY <3>1
<2>2. c.step = "changing" /\ c.late = FALSE
  BY <2>1 DEF NoCall
<2>3. call[p].step = "new" /\ Goes(p, c) /\ UNCHANGED <<user, pending, uses>>
  BY <1>4, <2>1 DEF ChangeEmail, Begin
<2>. QED
  BY <2>2, <2>3, SpentBegins
<1>5. ASSUME NEW a \in Rows, NEW code \in Delivered, ConfirmEmailVerification(p, a, code)
      PROVE  SpentInv'
<2>1. user[a].code = code /\ code \in Call
  BY <1>5, <1>d DEF ConfirmEmailVerification, Accepts
<2>2. Past(code) /\ InRow(code) \subseteq {a} /\ InRedis(code) = {} /\ ~(uses[code] > 0)
  BY <2>1, RowIsPlace
<2>3. PICK c \in CallState : c = [NoCall EXCEPT !.kind = "confirm", !.step = "accepted",
          !.account = a, !.email = user[a].pending, !.code = code, !.snap = user[a],
          !.late = uses[code] > 0]
  <3>1. user[a].pending \in Email \cup {None} /\ (uses[code] > 0) \in BOOLEAN
    BY <1>r, <2>1 DEF Row, IInv, StoresOK
  <3>2. [NoCall EXCEPT !.kind = "confirm", !.step = "accepted", !.account = a,
          !.email = user[a].pending, !.code = code, !.snap = user[a],
          !.late = uses[code] > 0] \in CallState
    BY <1>r, <2>1, <3>1 DEF NoCall, CallState
  <3>. QED
    BY <3>2
<2>4. /\ c.step = "accepted" /\ c.account = a /\ c.code = code /\ c.snap = user[a]
      /\ c.late = (uses[code] > 0)
  BY <2>3 DEF NoCall
<2>5. Carries(c)
  BY <1>r, <2>1, <2>2, <2>4 DEF Carries
<2>6. call[p].step = "new" /\ Goes(p, c) /\ UNCHANGED <<user, pending, uses>>
  BY <1>5, <2>3 DEF ConfirmEmailVerification, Begin
<2>. QED
  BY <2>4, <2>5, <2>6, QuietStep DEF Past
<1>6. ASSUME NEW e \in Email, NEW code \in Delivered \cup {None}, CountAttempt(p, e, code)
      PROVE  SpentInv'
<2>1. ASSUME NEW late \in BOOLEAN, NEW step \in {"counting", "done", "counted"},
             late = (code # None /\ uses[code] > 0 /\ ~LeftBehind(e)),
             Goes(p, [NoCall EXCEPT !.kind = "login", !.email = e, !.code = code,
                        !.late = late, !.step = step])
      PROVE  SpentInv'
  <3>1. PICK c \in CallState : c = [NoCall EXCEPT !.kind = "login", !.email = e,
                                      !.code = code, !.late = late, !.step = step]
    <4>1. [NoCall EXCEPT !.kind = "login", !.email = e, !.code = code, !.late = late,
             !.step = step] \in CallState
      BY <1>d DEF NoCall, CallState
    <4>. QED
      BY <4>1
  <3>2. /\ c.step = step /\ c.kind = "login" /\ c.email = e /\ c.code = code /\ c.late = late
        /\ c.account = None
    BY <3>1 DEF NoCall
  <3>3. ASSUME late PROVE code \in Call /\ Past(code) /\ InRow(code) = {} /\ e \notin InRedis(code)
    <4>1. code \in Call /\ uses[code] > 0 /\ ~LeftBehind(e)
      BY <1>d, <2>1, <3>3
    <4>2. Placed(code)
      BY <4>1 DEF SpentInv, PlacesInv
    <4>3. Past(code)
      BY <4>1, <4>2 DEF Placed
    <4>. QED
      BY <4>1, <4>2, <4>3 DEF Placed
  <3>4. Carries(c)
    BY <3>2, <3>3 DEF Carries
  <3>5. call[p].step = "new" /\ UNCHANGED <<user, pending, uses>>
    BY <1>6 DEF CountAttempt, Begin
  <3>. QED
    BY <2>1, <3>1, <3>2, <3>4, <3>5, QuietStep DEF Past
<2>2. (code # None /\ uses[code] > 0 /\ ~LeftBehind(e)) \in BOOLEAN
  BY <1>d DEF IInv, StoresOK
<2>3. (IF Attempts(e).n + 1 = 1 THEN "counting"
       ELSE IF Attempts(e).n + 1 > MaxAttempts THEN "done" ELSE "counted")
        \in {"counting", "done", "counted"}
  OBVIOUS
<2>. QED
  BY <1>6, <2>1, <2>2, <2>3 DEF CountAttempt
<1>. QED
  BY <1>2, <1>3, <1>4, <1>5, <1>6

\* So do the calls that go on without storing anything.
LEMMA SpentGoingOn ==
  ASSUME ConstantsAssumption, IInv, SpentInv, NEW p \in Call,
         \/ Deliver(p) \/ DeliveryRaises(p) \/ ResetAttempts(p) \/ ExpireAttempts(p)
         \/ Examine(p) \/ CommitRaises(p) \/ Stop(p)
  PROVE  SpentInv'
<1>1. CASE Deliver(p)
  BY <1>1, QuietGoesOn DEF Deliver
<1>2. CASE DeliveryRaises(p)
  BY <1>2, QuietGoesOn DEF DeliveryRaises
<1>3. CASE ResetAttempts(p)
  BY <1>3, QuietGoesOn DEF ResetAttempts
<1>4. CASE ExpireAttempts(p)
  BY <1>4, QuietGoesOn DEF ExpireAttempts
<1>5. CASE Examine(p)
<2> DEFINE c == call[p]
<2>1. /\ c \in CallState /\ Equipped(p, c, user, delivered) /\ c.step = "counted" /\ Carries(c)
      /\ c.kind = "login" /\ c.account = None
  BY <1>5 DEF Examine, IInv, StoresOK, CallInv, SpentInv, CarriesInv, Carries
<2>2. UNCHANGED <<user, pending, uses>> /\ c.email \in Email
  BY <1>5, <2>1 DEF Examine, Equipped
<2>3. ASSUME NEW a \in Owners(c.email), Accepts(user[a], c.code),
             Goes(p, [c EXCEPT !.step = "accepted", !.account = a, !.snap = user[a]])
      PROVE  SpentInv'
  <3>1. a \in Account /\ a # None /\ user[a] \in Row /\ a \in Rows
    BY OwnersAreRows DEF ConstantsAssumption, Rows
  <3>2. user[a].code = c.code /\ c.code \in Call
    BY <2>3, <3>1 DEF Accepts, Row
  <3>3. Past(c.code) /\ InRow(c.code) \subseteq {a} /\ InRedis(c.code) = {} /\ InRow(c.code) # {}
    BY <3>1, <3>2, RowIsPlace DEF InRow
  <3>4. ~c.late
    BY <2>1, <3>3 DEF Carries
  <3>5. PICK d \in CallState : d = [c EXCEPT !.step = "accepted", !.account = a, !.snap = user[a]]
    <4>1. [c EXCEPT !.step = "accepted", !.account = a, !.snap = user[a]] \in CallState
      BY <2>1, <3>1 DEF CallState
    <4>. QED
      BY <4>1
  <3>6. /\ d.step = "accepted" /\ d.account = a /\ d.snap = user[a] /\ d.code = c.code
        /\ d.late = c.late /\ d.email = c.email
    BY <2>1, <3>5 DEF CallState
  <3>7. Carries(d)
    BY <3>1, <3>2, <3>3, <3>4, <3>6 DEF Carries
  <3>. QED
    BY <2>1, <2>2, <2>3, <3>5, <3>6, <3>7, QuietStep
<2>4. CASE Goes(p, [c EXCEPT !.step = "done"])
  BY <2>1, <2>2, <2>4, QuietGoesOn DEF Step
<2>5. ASSUME pending[c.email] # None, pending[c.email].code = c.code,
             Goes(p, [c EXCEPT !.step = "accepted"])
      PROVE  SpentInv'
  <3>1. c.code \in Call /\ c.email \in InRedis(c.code)
    BY <2>2, <2>5 DEF InRedis, IInv, StoresOK, CodeEntry
  <3>2. Past(c.code) /\ InRow(c.code) = {} /\ call[c.code].email = c.email
    BY <2>2, <3>1, RedisIsPlace
  <3>3. ~c.late
    BY <2>1, <3>1 DEF Carries
  <3>4. PICK d \in CallState : d = [c EXCEPT !.step = "accepted"]
    <4>1. [c EXCEPT !.step = "accepted"] \in CallState
      BY <2>1 DEF CallState
    <4>. QED
      BY <4>1
  <3>5. /\ d.step = "accepted" /\ d.account = None /\ d.kind = "login" /\ d.code = c.code
        /\ d.late = c.late /\ d.email = c.email
    BY <2>1, <3>4 DEF CallState
  <3>6. Carries(d)
    BY <3>1, <3>2, <3>3, <3>5 DEF Carries
  <3>. QED
    BY <2>1, <2>2, <2>5, <3>4, <3>5, <3>6, QuietStep
<2>. QED
  BY <1>5, <2>3, <2>4, <2>5 DEF Examine, PendingCode
<1>6. CASE CommitRaises(p)
  BY <1>6, QuietGoesOn DEF CommitRaises
<1>7. CASE Stop(p)
  BY <1>7, QuietGoesOn DEF Stop
<1>. QED
  BY <1>1, <1>2, <1>3, <1>4, <1>5, <1>6, <1>7

\* A call stores its code once, and nobody has seen it before.
LEMMA SpentStoring ==
  ASSUME ConstantsAssumption, IInv, SpentInv, NEW p \in Call, StoreCode(p)
  PROVE  SpentInv'
<1> DEFINE a == call[p].account
<1>1. /\ call[p] \in CallState /\ Equipped(p, call[p], user, delivered) /\ call[p].step = "sent"
      /\ UNCHANGED uses /\ p # None
  BY DEF StoreCode, IInv, StoresOK, CallInv, ConstantsAssumption
<1>2. InRow(p) = {} /\ InRedis(p) = {} /\ uses[p] = 0
  BY <1>1 DEF SpentInv, PlacesInv, Placed, Past
<1>3. PICK c \in CallState : /\ Goes(p, c) /\ c.step \in {"stored", "done"}
                             /\ c.kind = call[p].kind /\ c.email = call[p].email
                             /\ c.late = call[p].late
<2>1. PICK step \in {"stored", "done"} : Step(p, step)
  BY DEF StoreCode
<2>2. [call[p] EXCEPT !.step = step] \in CallState
  BY <1>1 DEF CallState
<2>3. PICK c : c = [call[p] EXCEPT !.step = step]
  OBVIOUS
<2>4. /\ c.step = step /\ c.kind = call[p].kind /\ c.email = call[p].email
      /\ c.late = call[p].late
  BY <1>1, <2>3 DEF CallState
<2>. QED
  BY <2>1, <2>2, <2>3, <2>4 DEF Step
<1>4. /\ call'[p].step = c.step /\ call'[p].email = call[p].email
      /\ \A q \in Call \ {p} : call'[q] = call[q]
<2>1. call' = [call EXCEPT ![p] = IF c.step \in Running THEN c ELSE Ended(c)]
  BY <1>3 DEF Goes
<2>. QED
  BY <1>3, <2>1, EndedIsState, EndedCarriesNothing DEF IInv, StoresOK
<1>5. /\ \A d \in Call \ {p} : InRow(d)' \subseteq InRow(d) /\ InRedis(d)' \subseteq InRedis(d)
      /\ \A x, y \in InRow(p)' : x = y
      /\ InRow(p)' # {} => InRedis(p)' = {}
      /\ \A e \in InRedis(p)' : e = call[p].email
<2>1. CASE a # None
  <3>1. a \in Account /\ user[a] \in Row /\ call[p].snap \in Row /\ call[p].dto \in Row
        /\ call[p].expires \in Nat
    BY <1>1, <2>1 DEF Equipped
  <3>2. WithCode(p) \in Row /\ WithCode(p).code = p
    BY <3>1 DEF WithCode, Row
  <3>3. Save(a, call[p].snap, WithCode(p)) /\ UNCHANGED pending
    BY <2>1 DEF StoreCode
  <3>4. /\ \A b \in Account \ {a} : user'[b] = user[b]
        /\ user'[a].code \in {p, user[a].code} /\ user'[a] # None
        /\ user[a] # None
    BY <3>1, <3>2, <3>3, SaveIsRow DEF ConstantsAssumption
  <3>5. \A d \in Call \ {p} : InRow(d)' \subseteq InRow(d)
    BY <3>1, <3>4 DEF InRow, Rows
  <3>6. InRow(p)' \subseteq {a}
    BY <1>2, <3>1, <3>4 DEF InRow, Rows
  <3>7. \A d \in Call : InRedis(d)' = InRedis(d)
    BY <3>3 DEF InRedis
  <3>. QED
    BY <1>2, <3>5, <3>6, <3>7
<2>2. CASE a = None
  <3>1. /\ call[p].email \in Email /\ UNCHANGED user
        /\ pending' = [pending EXCEPT ![call[p].email] = [code |-> p, expires |-> call[p].expires]]
    BY <1>1, <2>2 DEF Equipped, StoreCode
  <3>2. /\ pending'[call[p].email].code = p
        /\ \A e \in Email \ {call[p].email} : pending'[e] = pending[e]
    BY <3>1 DEF IInv, StoresOK
  <3>3. \A d \in Call : InRow(d)' = InRow(d)
    BY <3>1 DEF InRow, Rows
  <3>4. \A d \in Call \ {p} : InRedis(d)' \subseteq InRedis(d)
    BY <3>1, <3>2 DEF InRedis
  <3>5. \A e \in InRedis(p)' : e = call[p].email
    BY <1>2, <3>2 DEF InRedis
  <3>. QED
    BY <1>2, <3>3, <3>4, <3>5
<2>. QED
  BY <2>1, <2>2
<1>6. Drops
  BY <1>1, <1>4, <1>5 DEF Drops, Past
<1>7. Carries(c)'
  <2>1. Carries(call[p])
    BY DEF SpentInv, CarriesInv
  <2>2. Carries(c)
    BY <1>3 DEF Carries
  <2>. QED
    BY <1>6, <2>2, CarriesStays
<1>8. CarriesInv'
  BY <1>3, <1>6, <1>7, CarriesGoes
<1>9. \A e : LeftBehind(e) => LeftBehind(e)'
  BY <1>1, <1>4 DEF LeftBehind
<1>10. ASSUME NEW d \in Call PROVE Placed(d)'
  <2>1. CASE d = p
    <3>1. Past(p)' /\ call'[p].email = call[p].email
      BY <1>3, <1>4 DEF Past
    <3>. QED
      BY <1>1, <1>2, <1>5, <2>1, <3>1 DEF Placed
  <2>2. CASE d # p
    <3>1. Placed(d) /\ call'[d] = call[d] /\ uses'[d] = uses[d]
          /\ InRow(d)' \subseteq InRow(d) /\ InRedis(d)' \subseteq InRedis(d)
      BY <1>1, <1>4, <1>5, <2>2 DEF SpentInv, PlacesInv
    <3>2. Past(d)' <=> Past(d)
      BY <3>1 DEF Past
    <3>. QED
      BY <1>9, <3>1, <3>2 DEF Placed
  <2>. QED
    BY <2>1, <2>2
<1>. QED
  BY <1>8, <1>10 DEF SpentInv, PlacesInv

\* A call that goes to its next step, with what it is known by.
LEMMA StepIsGoing ==
  ASSUME IInv, SpentInv, NEW p \in Call, NEW step \in Running \cup {"done", "stopped"}, Step(p, step)
  PROVE  \E c \in CallState : /\ Goes(p, c) /\ c.step = step /\ c.kind = call[p].kind
                              /\ c.email = call[p].email /\ c.late = call[p].late
<1>1. call[p] \in CallState
  BY DEF IInv, StoresOK
<1>2. [call[p] EXCEPT !.step = step] \in CallState
  BY <1>1 DEF CallState
<1>3. PICK c : c = [call[p] EXCEPT !.step = step]
  OBVIOUS
<1>4. /\ c.step = step /\ c.kind = call[p].kind /\ c.email = call[p].email
      /\ c.late = call[p].late
  BY <1>1, <1>3 DEF CallState
<1>. QED
  BY <1>2, <1>3, <1>4 DEF Step

\* A row that loses its code, or keeps it, empties a place or leaves it as it was.
LEMMA RowLosesCode ==
  ASSUME ConstantsAssumption, IInv, NEW a \in Account, user[a] \in Row, NEW snap \in Row,
         NEW new \in Row, new.code = None, Save(a, snap, new)
  PROVE  /\ \A d \in Call : InRow(d)' \subseteq InRow(d)
         /\ snap.code # None => \A d \in Call : a \notin InRow(d)'
<1>1. /\ user'[a].code \in {None, user[a].code} /\ user'[a] \in Row /\ user[a] # None
      /\ \A b \in Account \ {a} : user'[b] = user[b]
  BY SaveIsRow DEF ConstantsAssumption
<1>2. snap.code # None => user'[a].code = None
<2>1. snap.code # None => Saved(a, snap, new).code = None
  BY DEF Saved, Row
<2>. QED
  BY <2>1 DEF Save, IInv, StoresOK
<1>3. None \notin Call
  BY DEF ConstantsAssumption
<1>. QED
  BY <1>1, <1>2, <1>3 DEF InRow, Rows

\* A use takes the code out of its row, and a registration leaves it where it is until
\* it revokes it.
LEMMA SpentCommitting ==
  ASSUME ConstantsAssumption, IInv, SpentInv, NEW p \in Call,
         CommitConfirmed(p) \/ CommitChange(p) \/ CommitRegistered(p) \/ RevokeCode(p)
  PROVE  SpentInv'
<1>0. PICK a, k : a = call[p].account /\ k = call[p].code
  OBVIOUS
<1>1. /\ call[p] \in CallState /\ Equipped(p, call[p], user, delivered) /\ Carries(call[p])
      /\ uses \in [Call -> Nat] /\ user \in [Account -> Row \cup {None}]
      /\ pending \in [Email -> CodeEntry \cup {None}]
  BY DEF IInv, StoresOK, CallInv, SpentInv, CarriesInv
<1>2. ASSUME NEW c \in CallState, Goes(p, c), c.step \in {"committed", "created", "done"},
             c.late => c.step = "done", Drops /\ PlacesInv'
      PROVE  SpentInv'
  <2>1. Carries(c)'
    BY <1>2 DEF Carries
  <2>2. CarriesInv'
    BY <1>2, <2>1, CarriesGoes
  <2>. QED
    BY <1>2, <2>2 DEF SpentInv
<1>3. CASE CommitConfirmed(p)
  <2>1. a \in Account /\ user[a] \in Row /\ call[p].snap \in Row
    BY <1>0, <1>1, <1>3 DEF Equipped, CommitConfirmed
  <2>2. Confirmed(call[p].snap) \in Row /\ Confirmed(call[p].snap).code = None
    BY <2>1 DEF Confirmed, Row
  <2>3. k \in Call /\ Past(k) /\ call[p].snap.code = k /\ InRow(k) \subseteq {a} /\ InRedis(k) = {}
    BY <1>0, <1>1, <1>3 DEF CommitConfirmed, Carries
  <2>4. Save(a, call[p].snap, Confirmed(call[p].snap)) /\ UNCHANGED pending
    BY <1>0, <1>3 DEF CommitConfirmed
  <2>5. k # None
    BY <2>3 DEF ConstantsAssumption
  <2>6. (\A d \in Call : InRow(d)' \subseteq InRow(d)) /\ a \notin InRow(k)'
    BY <2>1, <2>2, <2>3, <2>4, <2>5, RowLosesCode
  <2>7. \A d \in Call : InRedis(d)' = InRedis(d)
    BY <2>4 DEF InRedis
  <2>8. \A d \in Call : uses'[d] = uses[d] \/ d = k
    BY <1>0, <1>1, <1>3 DEF CommitConfirmed, Used
  <2>9. InRow(k)' = {} /\ InRedis(k)' = {}
    BY <2>3, <2>6, <2>7
  <2>10. PICK c \in CallState : /\ Goes(p, c) /\ c.step \in {"committed", "done"}
                                /\ c.email = call[p].email /\ c.late = call[p].late
    BY <1>3, StepIsGoing DEF CommitConfirmed
  <2>11. Drops /\ PlacesInv'
    BY <1>3, <2>3, <2>6, <2>7, <2>8, <2>9, <2>10, PlacesGo DEF CommitConfirmed
  <2>. QED
    BY <1>1, <1>2, <1>3, <2>10, <2>11 DEF CommitConfirmed, Carries
<1>4. CASE CommitChange(p)
  <2> DEFINE new == [call[p].snap EXCEPT !.pending = call[p].email, !.verified = FALSE,
                                         !.code = None, !.expires = None]
  <2>1. a \in Account /\ user[a] \in Row /\ call[p].snap \in Row /\ call[p].email \in Email
    BY <1>0, <1>1, <1>4 DEF Equipped, CommitChange
  <2>2. new \in Row /\ new.code = None
    BY <2>1 DEF Row
  <2>3. Save(a, call[p].snap, new) /\ UNCHANGED <<pending, uses>>
    BY <1>0, <1>4 DEF CommitChange
  <2> HIDE DEF new
  <2>4. \A d \in Call : InRow(d)' \subseteq InRow(d)
    BY <2>1, <2>2, <2>3, RowLosesCode
  <2>5. \A d \in Call : InRedis(d)' = InRedis(d)
    BY <2>3 DEF InRedis
  <2>6. PICK c \in CallState : Goes(p, c) /\ c.step = "done" /\ c.email = call[p].email
    BY <1>4, StepIsGoing DEF CommitChange
  <2>7. Drops /\ PlacesInv'
    BY <1>4, <2>3, <2>4, <2>5, <2>6, PlacesGo DEF CommitChange
  <2>. QED
    BY <1>2, <2>6, <2>7
<1>5. CASE CommitRegistered(p)
  <2>1. call[p].step = "accepted" /\ a = None
    BY <1>0, <1>5 DEF CommitRegistered
  <2>2. /\ call[p].kind = "login" /\ k \in Call /\ Past(k) /\ InRow(k) = {}
        /\ call[k].email = call[p].email /\ call[p].email \in Email
    BY <1>0, <1>1, <2>1 DEF Carries, Equipped
  <2>3. PICK b \in Account \ Rows : user' = [user EXCEPT ![b] = RowOf(call[p].email, TRUE)]
    BY <1>5 DEF CommitRegistered
  <2>4. user'[b].code = None /\ \A x \in Account \ {b} : user'[x] = user[x]
    BY <2>2, <2>3, NewRow DEF Rows
  <2>5. \A d \in Call : InRow(d)' \subseteq InRow(d)
    BY <2>4 DEF InRow, Rows, ConstantsAssumption
  <2>6. \A d \in Call : InRedis(d)' = InRedis(d)
    BY <1>5 DEF CommitRegistered, InRedis
  <2>7. \A d \in Call : uses'[d] = uses[d] \/ d = k
    BY <1>0, <1>1, <1>5 DEF CommitRegistered, Used
  <2>8. PICK c \in CallState : /\ Goes(p, c) /\ c.step = "created" /\ c.kind = "login"
                               /\ c.email = call[p].email /\ c.late = call[p].late
    BY <1>5, <2>2, StepIsGoing DEF CommitRegistered
  <2>9. call'[p] = c
    BY <2>8 DEF Goes, IInv, StoresOK
  <2>10. \A e \in InRedis(k)' : LeftBehind(e)'
    <3>1. \A e \in InRedis(k)' : e = call[p].email
      BY <2>2, <2>6 DEF SpentInv, PlacesInv, Placed
    <3>. QED
      BY <2>8, <2>9, <3>1 DEF LeftBehind
  <2>11. Drops /\ PlacesInv'
    BY <2>1, <2>2, <2>5, <2>6, <2>7, <2>8, <2>10, PlacesGo
  <2>. QED
    BY <1>1, <1>2, <2>1, <2>8, <2>11 DEF Carries
<1>6. CASE RevokeCode(p)
  <2>1. /\ call[p].step = "created" /\ UNCHANGED <<user, uses>>
        /\ pending' = [pending EXCEPT ![call[p].email] = None]
    BY <1>6 DEF RevokeCode
  <2>2. \A d \in Call : InRow(d)' = InRow(d)
    BY <2>1 DEF InRow, Rows
  <2>3. \A e \in Email : pending'[e] \in {pending[e], None}
                         /\ (e = call[p].email => pending'[e] = None)
    BY <1>1, <2>1
  <2>4. \A d \in Call : InRedis(d)' \subseteq InRedis(d) /\ call[p].email \notin InRedis(d)'
    BY <2>3 DEF InRedis
  <2>5. PICK c \in CallState : /\ Goes(p, c) /\ c.step = "committed"
                               /\ c.email = call[p].email /\ c.late = call[p].late
    BY <1>6, StepIsGoing DEF RevokeCode
  <2>6. Drops /\ PlacesInv'
    BY <2>1, <2>2, <2>4, <2>5, PlacesGo
  <2>. QED
    BY <1>1, <1>2, <2>1, <2>5, <2>6 DEF Carries
<1>. QED
  BY <1>3, <1>4, <1>5, <1>6

\* Nothing changes for a code when a row is created without one.
LEMMA SpentApart ==
  ASSUME IInv, SpentInv, UNCHANGED <<pending, call, uses>>,
         \A d \in Call : InRow(d)' \subseteq InRow(d)
  PROVE  SpentInv'
<1>1. \A d \in Call : InRedis(d)' = InRedis(d) /\ (Past(d)' <=> Past(d))
  BY DEF InRedis, Past
<1>2. Drops
  BY <1>1 DEF Drops
<1>3. \A e : LeftBehind(e)' <=> LeftBehind(e)
  BY DEF LeftBehind
<1>4. ASSUME NEW d \in Call PROVE Placed(d)'
  <2>1. Placed(d) /\ uses'[d] = uses[d] /\ call'[d] = call[d]
    BY DEF SpentInv, PlacesInv
  <2>. QED
    BY <1>1, <1>3, <2>1 DEF Placed
<1>5. ASSUME NEW q \in Call PROVE Carries(call[q])'
  <2>1. PICK d : d = call[q]
    OBVIOUS
  <2>2. Carries(d)'
    BY <1>2, <2>1, CarriesStays DEF SpentInv, CarriesInv
  <2>. QED
    BY <2>1, <2>2 DEF Carries
<1>. QED
  BY <1>4, <1>5 DEF SpentInv, PlacesInv, CarriesInv

\* SpentInv is inductive, relative to IInv.
LEMMA SpentInduction == ConstantsAssumption /\ IInv /\ SpentInv /\ [Next]_vars => SpentInv'
<1> SUFFICES ASSUME ConstantsAssumption, IInv, SpentInv, [Next]_vars PROVE SpentInv'
  OBVIOUS
<1>1. CASE Tick
  BY <1>1, SpentApart DEF Tick, InRow, Rows
<1>2. CASE UNCHANGED vars
  BY <1>2, SpentApart DEF InRow, Rows
<1>3. ASSUME NEW a \in Account, NEW e \in Email, RegisterEmailUser(a, e) PROVE SpentInv'
<2>1. /\ user[a] = None /\ user' = [user EXCEPT ![a] = RowOf(e, FALSE)]
      /\ UNCHANGED <<pending, call, uses>>
  BY <1>3 DEF RegisterEmailUser
<2>2. user'[a].code = None /\ \A b \in Account \ {a} : user'[b] = user[b]
  BY <2>1, NewRow
<2>3. \A d \in Call : InRow(d)' \subseteq InRow(d)
  BY <2>2 DEF InRow, Rows, ConstantsAssumption
<2>. QED
  BY <2>1, <2>3, SpentApart
<1>. QED
  BY <1>1, <1>2, <1>3, SpentBeginning, SpentGoingOn, SpentStoring, SpentCommitting DEF Next

\* A call that came late is past neither the check nor its commit.
LEMMA SpentIsOnce == SpentInv => SpentOnce
<1> SUFFICES ASSUME SpentInv, NEW p \in Call, call[p].step \in {"created", "committed"}
             PROVE  ~call[p].late
  BY DEF SpentOnce
<1>. QED
  BY DEF SpentInv, CarriesInv, Carries

\* A login with an email code clears the code of the row in the commit that accepts it,
\* and revokes the one in Redis after the registration: a login that starts after a code was used
\* does not get in with it, whatever the calls in between, unless a registration of the
\* address has yet to revoke its code or stopped before.
THEOREM SpentOnceHolds ==
  ASSUME ConstantsAssumption PROVE Spec => []SpentOnce
<1>1. Init => IInv /\ SpentInv
  BY InitIInv, InitSpentInv
<1>2. IInv /\ SpentInv /\ [Next]_vars => (IInv /\ SpentInv)'
  BY Induction, SpentInduction
<1>. QED
  BY <1>1, <1>2, SpentIsOnce, PTL DEF Spec

-----------------------------------------------------------------------------
(* How long codes live. *)

\* A code and its end are written and cleared together ...
Together(row) == (row.code = None) <=> (row.expires = None)

\* ... and no code outlives one that is asked for now.
Known(t, expires) == expires # None => expires <= t + Ttl

\* A call p with the state d writes both.
Holds(t, p, d) ==
  /\ d.step \in {"sending", "sent"} =>
       /\ Known(t, d.expires)
       /\ d.account # None =>
            d.snap.code # p /\ (d.snap.expires # None => d.snap.expires < d.expires)
       /\ d.account = None => d.kind = "request"
  /\ d.step = "accepted" /\ d.account # None => d.snap.code # None /\ d.snap.expires # None
  /\ d.step = "changing" => Together(d.snap)

EndsInv ==
  /\ attempts \in [Email -> Counter]
  /\ \A a \in Rows : Together(user[a]) /\ Known(now, user[a].expires)
  /\ \A e \in Email : pending[e] # None => Known(now, pending[e].expires)
  /\ \A p \in Call : Holds(now, p, call[p])

CounterInv == EndsInv /\ CounterOutlivesCode

\* There is no code and no counter.
LEMMA InitCounterInv == ConstantsAssumption /\ Init => CounterInv
<1> SUFFICES ASSUME ConstantsAssumption, Init PROVE CounterInv
  OBVIOUS
<1>1. \A r \in Fresh : r.code = None /\ r.expires = None
<2>1. RowOf(None, FALSE).code = None /\ RowOf(None, FALSE).expires = None
  BY DEF RowOf
<2>. QED
  BY <2>1 DEF Fresh
<1>2. user \in [Account -> {None} \cup Fresh]
  BY DEF Init
<1>3. \A a \in Rows : user[a].code = None /\ user[a].expires = None
  BY <1>1, <1>2 DEF Rows
<1>4. \A a \in Rows : Together(user[a]) /\ Known(now, user[a].expires)
  BY <1>3 DEF Together, Known
<1>5. NoCounter \in Counter /\ NoCounter.n = 0
  BY DEF NoCounter, Counter
<1>6. attempts = [e \in Email |-> NoCounter] /\ pending = [e \in Email |-> None]
  BY DEF Init
<1>7. attempts \in [Email -> Counter] /\ \A e \in Email : pending[e] = None
  BY <1>5, <1>6
<1>8. \A p \in Call : Holds(now, p, call[p])
  BY DEF Init, NoCall, Holds
<1>9. \A e \in Email : ~(Attempts(e).n > 0)
  BY <1>5, <1>6 DEF Attempts
<1>. QED
  BY <1>4, <1>7, <1>8, <1>9 DEF CounterInv, EndsInv, CounterOutlivesCode

\* What UserDao.update leaves in a row is the pair of one of the two.
LEMMA PairSaved ==
  ASSUME IInv, NEW a \in Account, user[a] \in Row, NEW snap \in Row, NEW new \in Row,
         Save(a, snap, new),
         \/ new.code # snap.code /\ new.expires # snap.expires
         \/ new.code = snap.code /\ new.expires = snap.expires
  PROVE  /\ user'[a] \in Row /\ \A b \in Account \ {a} : user'[b] = user[b]
         /\ \/ user'[a].code = new.code /\ user'[a].expires = new.expires
            \/ user'[a].code = user[a].code /\ user'[a].expires = user[a].expires
<1>1. /\ Saved(a, snap, new) \in Row
      /\ \/ Saved(a, snap, new).code = new.code /\ Saved(a, snap, new).expires = new.expires
         \/ /\ Saved(a, snap, new).code = user[a].code
            /\ Saved(a, snap, new).expires = user[a].expires
  BY DEF Saved, Row
<1>2. user' = [user EXCEPT ![a] = Saved(a, snap, new)] /\ user \in [Account -> Row \cup {None}]
  BY DEF Save, IInv, StoresOK
<1>. QED
  BY <1>1, <1>2

\* Where a call that goes on is found afterwards.
LEMMA GoneOn ==
  ASSUME IInv, NEW p \in Call, NEW c \in CallState, Goes(p, c)
  PROVE  /\ call'[p].step = c.step /\ call'[p].kind = c.kind /\ call'[p].email = c.email
         /\ c.step \in Running => call'[p] = c
         /\ \A q \in Call \ {p} : call'[q] = call[q]
<1> DEFINE n == IF c.step \in Running THEN c ELSE Ended(c)
<1>1. n.step = c.step /\ n.email = c.email /\ n.kind = c.kind
  BY EndedIsState, EndedCarriesNothing
<1>2. call' = [call EXCEPT ![p] = n] /\ call \in [Call -> CallState]
  BY DEF Goes, IInv, StoresOK
<1>3. c.step \in Running => n = c
  OBVIOUS
<1> HIDE DEF n
<1>. QED
  BY <1>1, <1>2, <1>3

\* So every call holds what it should, if this one does.
LEMMA HoldsGoes ==
  ASSUME IInv, EndsInv, NEW p \in Call, NEW c \in CallState, Goes(p, c), UNCHANGED now,
         c.step \in Running => Holds(now, p, c)
  PROVE  \A q \in Call : Holds(now, q, call[q])'
<1>1. ASSUME c.step \notin Running PROVE Holds(now, p, call'[p])
  BY <1>1, GoneOn DEF Holds
<1>2. ASSUME NEW q \in Call PROVE Holds(now', q, call'[q])
  BY <1>1, GoneOn DEF EndsInv
<1>. QED
  BY <1>2

\* The calls an address waits for are not fewer.
StillSettled(p, c, e) ==
  call[p].email = e /\ call[p].step \in {"stored", "counting", "stopped"} =>
    c.email = e /\ c.step \in {"stored", "counting", "stopped"}

\* A step that leaves an address no code it had not, and starts no new counter.
LEMMA CounterKept ==
  ASSUME IInv, SpentInv, EndsInv, NEW e \in Email,
         Settled(e) /\ Attempts(e).n > 0
           => \A t \in Ends(e) : Attempts(e).until # None /\ Attempts(e).until >= t,
         NEW p \in Call, NEW c \in CallState, Goes(p, c), UNCHANGED now,
         Past(p) => c.kind = call[p].kind /\ c.email = call[p].email,
         StillSettled(p, c, e),
         \A a \in Rows' : user'[a].code # None =>
           \/ a \in Rows /\ user'[a].code = user[a].code /\ user'[a].expires = user[a].expires
           \/ user'[a].code = p /\ ~(c.kind = "request" /\ c.email = e),
         pending'[e] \in {pending[e], None},
         \/ Attempts(e)'.n = 0
         \/ Attempts(e).n > 0 /\ Attempts(e)'.until = Attempts(e).until
  PROVE  Settled(e)' /\ Attempts(e)'.n > 0
           => \A t \in Ends(e)' : Attempts(e)'.until # None /\ Attempts(e)'.until >= t
<1>1. Settled(e)' => Settled(e)
  <2>1. CASE Settled(e)'
    BY <2>1, GoneOn DEF Settled, StillSettled
  <2>. QED
    BY <2>1
<1>2. \A a \in Rows' : user'[a].code # None =>
        \/ user'[a].code \in Call /\ Past(user[a].code)
        \/ user'[a].code = p /\ ~(c.kind = "request" /\ c.email = e)
<2> SUFFICES ASSUME NEW a \in Rows', user'[a].code # None,
                    ~(user'[a].code = p /\ ~(c.kind = "request" /\ c.email = e))
             PROVE  user'[a].code \in Call /\ Past(user[a].code)
  OBVIOUS
<2>1. a \in Rows /\ user'[a].code = user[a].code
  OBVIOUS
<2>2. user[a].code \in Call
  BY <2>1 DEF IInv, StoresOK, Rows, Row
<2>. QED
  BY <2>1, <2>2, RowIsPlace
<1>3. \A d \in Call : Past(d) => call'[d].kind = call[d].kind /\ call'[d].email = call[d].email
  BY GoneOn
<1>4. PendingCode(e)' # None => PendingCode(e) # None /\ pending'[e] = pending[e]
  BY DEF PendingCode
<1>5. Ends(e)' \subseteq Ends(e)
  <2>1. call'[p].kind = c.kind /\ call'[p].email = c.email
    BY GoneOn
  <2>2. ASSUME NEW a \in Rows', user'[a].code # None, call'[user'[a].code].kind = "request",
               call'[user'[a].code].email = e
        PROVE  /\ a \in Rows /\ user[a].code # None /\ user'[a].expires = user[a].expires
               /\ call[user[a].code].kind = "request" /\ call[user[a].code].email = e
    BY <1>2, <1>3, <2>1, <2>2
  <2>. QED
    BY <1>4, <2>2 DEF Ends
<1>. QED
  BY <1>1, <1>5

\* The states a call goes to by Step.
LEMMA StepIs ==
  ASSUME IInv, NEW p \in Call, NEW step \in Running \cup {"done", "stopped"}, Step(p, step)
  PROVE  \E c \in CallState : /\ Goes(p, c) /\ c.step = step /\ c.kind = call[p].kind
                              /\ c.email = call[p].email /\ c.account = call[p].account
                              /\ c.snap = call[p].snap /\ c.expires = call[p].expires
<1>1. call[p] \in CallState
  BY DEF IInv, StoresOK
<1>2. [call[p] EXCEPT !.step = step] \in CallState
  BY <1>1 DEF CallState
<1>3. PICK c : c = [call[p] EXCEPT !.step = step]
  OBVIOUS
<1>4. /\ c.step = step /\ c.kind = call[p].kind /\ c.email = call[p].email
      /\ c.account = call[p].account /\ c.snap = call[p].snap /\ c.expires = call[p].expires
  BY <1>1, <1>3 DEF CallState
<1>. QED
  BY <1>2, <1>3, <1>4 DEF Step

\* A step of a call that changes no store.
LEMMA CounterQuiet ==
  ASSUME IInv, SpentInv, CounterInv, NEW p \in Call, NEW c \in CallState, Goes(p, c),
         UNCHANGED <<stores, now>>, c.step \in Running => Holds(now, p, c),
         Past(p) => c.kind = call[p].kind /\ c.email = call[p].email,
         call[p].step \in {"stored", "counting"} => c.step = "stopped",
         call[p].step # "stopped"
  PROVE  CounterInv'
<1>1. \A q \in Call : Holds(now, q, call[q])'
  BY HoldsGoes DEF CounterInv
<1>2. EndsInv'
  BY <1>1 DEF CounterInv, EndsInv, Rows
<1>3. ASSUME NEW e \in Email
      PROVE  Settled(e)' /\ Attempts(e)'.n > 0
               => \A t \in Ends(e)' : Attempts(e)'.until # None /\ Attempts(e)'.until >= t
  <2>1. StillSettled(p, c, e)
    BY DEF StillSettled, Past
  <2>2. Attempts(e)' = Attempts(e) /\ Rows' = Rows
    BY DEF Attempts, Rows
  <2>3. \/ Attempts(e)'.n = 0
        \/ Attempts(e).n > 0 /\ Attempts(e)'.until = Attempts(e).until
        \/ ~(Attempts(e)'.n > 0)
    BY <2>2
  <2>. QED
    BY <2>1, <2>2, <2>3, CounterKept DEF CounterInv, CounterOutlivesCode
<1>. QED
  BY <1>2, <1>3 DEF CounterInv, CounterOutlivesCode

\* The same of one that only goes to its next step.
LEMMA CounterGoesOn ==
  ASSUME IInv, SpentInv, CounterInv, NEW p \in Call,
         NEW step \in Running \cup {"done", "stopped"}, Step(p, step),
         UNCHANGED <<stores, now>>, step \notin {"sending", "accepted", "changing"},
         step = "sent" => call[p].step = "sending",
         call[p].step \in {"stored", "counting"} => step = "stopped",
         call[p].step # "stopped"
  PROVE  CounterInv'
<1>1. PICK c \in CallState : /\ Goes(p, c) /\ c.step = step /\ c.kind = call[p].kind
                             /\ c.email = call[p].email /\ c.account = call[p].account
                             /\ c.snap = call[p].snap /\ c.expires = call[p].expires
  BY StepIs
<1>2. Holds(now, p, call[p])
  BY DEF CounterInv, EndsInv
<1>3. Holds(now, p, c)
  BY <1>1, <1>2 DEF Holds
<1>. QED
  BY <1>1, <1>3, CounterQuiet

\* A request for a code comes after the wait, and its code is new.
LEMMA CounterAsked ==
  ASSUME ConstantsAssumption, IInv, SpentInv, CounterInv, NEW p \in Call,
         call[p].step = "new", UNCHANGED <<stores, now>>,
         NEW kind \in Kind, NEW e \in Email, NEW a \in Account \cup {None},
         NEW row \in Row \cup {None}, NEW dto \in Row \cup {None},
         a = None => kind = "request",
         a # None => /\ a \in Rows /\ user[a] \in Row /\ row = user[a] /\ dto \in Row
                     /\ check_email_resend_cooldown(row.expires),
         Goes(p, Asked(kind, a, e, row, dto))
  PROVE  CounterInv'
<1>1. PICK c \in CallState : c = Asked(kind, a, e, row, dto)
  BY AskedIsEquipped
<1>2. /\ c.step = "sending" /\ c.account = a /\ c.snap = row /\ c.expires = now + Ttl
      /\ c.kind = kind
  BY <1>1 DEF Asked, NoCall
<1>3. now + Ttl \in Nat /\ Ttl \in Nat /\ now \in Nat
  BY DEF ConstantsAssumption, IInv, StoresOK
<1>4. ASSUME a # None PROVE row.code # p
  BY <1>4, RowIsPlace DEF Past
<1>5. ASSUME a # None, row.expires # None PROVE row.expires < now + Ttl
  <2>1. row.expires \in Nat /\ Cooldown \in Nat \ {0}
    BY <1>5 DEF Row, ConstantsAssumption
  <2>2. now + Ttl >= row.expires + Cooldown
    BY <1>5 DEF check_email_resend_cooldown
  <2>. QED
    BY <1>3, <2>1, <2>2
<1>6. Holds(now, p, c)
  BY <1>2, <1>3, <1>4, <1>5 DEF Holds, Known
<1>. QED
  BY <1>1, <1>6, CounterQuiet DEF Past

\* The calls that begin without counting an attempt.
LEMMA CounterBeginning ==
  ASSUME ConstantsAssumption, IInv, SpentInv, CounterInv, NEW p \in Call,
         \/ \E e \in Email : RequestEmailCode(p, e)
         \/ \E a \in Rows : \/ \E e \in Email : ChangeEmail(p, a, e)
                            \/ \E e \in Email \cup {None} : RequestEmailVerification(p, a, e)
                            \/ \E c \in Delivered : ConfirmEmailVerification(p, a, c)
  PROVE  CounterInv'
<1>r. \A a \in Rows : a \in Account /\ a # None /\ user[a] \in Row
  BY DEF IInv, StoresOK, Rows, ConstantsAssumption
<1>1. ASSUME NEW e \in Email, RequestEmailCode(p, e) PROVE CounterInv'
<2>1. call[p].step = "new" /\ UNCHANGED <<stores, now>>
  BY <1>1 DEF RequestEmailCode, Begin
<2>2. ASSUME NEW a \in Owners(e), check_email_resend_cooldown(user[a].expires),
             Goes(p, Asked("request", a, e, user[a], user[a]))
      PROVE  CounterInv'
  <3>1. a \in Rows
    BY DEF Owners, HasEmail, HasPending
  <3>. QED
    BY <1>r, <2>1, <2>2, <3>1, CounterAsked
<2>3. CASE Goes(p, Asked("request", None, e, None, None))
  BY <2>1, <2>3, CounterAsked
<2>. QED
  BY <1>1, <2>2, <2>3 DEF RequestEmailCode
<1>2. ASSUME NEW a \in Rows, NEW e \in Email \cup {None}, RequestEmailVerification(p, a, e)
      PROVE  CounterInv'
<2> DEFINE row == user[a]
           dto == IF e \in {None, row.email} THEN row
                  ELSE [row EXCEPT !.pending = e, !.verified = FALSE]
           target == IF dto.pending # None THEN dto.pending ELSE dto.email
<2>1. row \in Row /\ a \in Account
  BY <1>r
<2>2. dto \in Row
  BY <2>1 DEF Row
<2>3. target \in Email
  BY <1>2, <2>2 DEF RequestEmailVerification, Row
<2>4. /\ Goes(p, Asked("verify", a, target, row, dto)) /\ call[p].step = "new"
      /\ UNCHANGED <<stores, now>> /\ check_email_resend_cooldown(row.expires)
  BY <1>2 DEF RequestEmailVerification, Begin
<2> HIDE DEF dto, target
<2>. QED
  BY <1>r, <2>1, <2>2, <2>3, <2>4, CounterAsked
<1>3. ASSUME NEW a \in Rows, NEW e \in Email, ChangeEmail(p, a, e) PROVE CounterInv'
<2>1. PICK c \in CallState : c = [NoCall EXCEPT !.kind = "change", !.step = "changing",
                                   !.account = a, !.email = e, !.snap = user[a]]
  <3>1. [NoCall EXCEPT !.kind = "change", !.step = "changing", !.account = a, !.email = e,
           !.snap = user[a]] \in CallState
    BY <1>r DEF NoCall, CallState
  <3>. QED
    BY <3>1
<2>2. c.step = "changing" /\ c.snap = user[a]
  BY <2>1 DEF NoCall
<2>3. Holds(now, p, c)
  BY <2>2 DEF Holds, CounterInv, EndsInv
<2>4. call[p].step = "new" /\ Goes(p, c) /\ UNCHANGED <<stores, now>>
  BY <1>3, <2>1 DEF ChangeEmail, Begin
<2>. QED
  BY <2>3, <2>4, CounterQuiet DEF Past
<1>4. ASSUME NEW a \in Rows, NEW code \in Delivered, ConfirmEmailVerification(p, a, code)
      PROVE  CounterInv'
<2>1. user[a].code # None /\ user[a].expires # None /\ code \in Call
  BY <1>4 DEF ConfirmEmailVerification, Accepts, IInv, StoresOK, Delivered
<2>2. PICK c \in CallState : c = [NoCall EXCEPT !.kind = "confirm", !.step = "accepted",
          !.account = a, !.email = user[a].pending, !.code = code, !.snap = user[a],
          !.late = uses[code] > 0]
  <3>1. user[a].pending \in Email \cup {None} /\ (uses[code] > 0) \in BOOLEAN
    BY <1>r, <2>1 DEF Row, IInv, StoresOK
  <3>2. [NoCall EXCEPT !.kind = "confirm", !.step = "accepted", !.account = a,
          !.email = user[a].pending, !.code = code, !.snap = user[a],
          !.late = uses[code] > 0] \in CallState
    BY <1>r, <2>1, <3>1 DEF NoCall, CallState
  <3>. QED
    BY <3>2
<2>3. c.step = "accepted" /\ c.snap = user[a]
  BY <2>2 DEF NoCall
<2>4. Holds(now, p, c)
  BY <2>1, <2>3 DEF Holds
<2>5. call[p].step = "new" /\ Goes(p, c) /\ UNCHANGED <<stores, now>>
  BY <1>4, <2>2 DEF ConfirmEmailVerification, Begin
<2>. QED
  BY <2>4, <2>5, CounterQuiet DEF Past
<1>. QED
  BY <1>1, <1>2, <1>3, <1>4

\* Those that go on without storing or counting anything.
LEMMA CounterGoingOn ==
  ASSUME ConstantsAssumption, IInv, SpentInv, CounterInv, NEW p \in Call,
         Deliver(p) \/ DeliveryRaises(p) \/ Examine(p) \/ CommitRaises(p) \/ Stop(p)
  PROVE  CounterInv'
<1>1. CASE Deliver(p)
  BY <1>1, CounterGoesOn DEF Deliver
<1>2. CASE DeliveryRaises(p)
  BY <1>2, CounterGoesOn DEF DeliveryRaises
<1>3. CASE Examine(p)
<2> DEFINE c == call[p]
<2>1. /\ c \in CallState /\ c.step = "counted" /\ c.account = None
      /\ UNCHANGED <<stores, now>> /\ c.email \in Email
  BY <1>3 DEF Examine, IInv, StoresOK, CallInv, Equipped, SpentInv, CarriesInv, Carries
<2>2. ASSUME NEW a \in Owners(c.email), Accepts(user[a], c.code),
             Goes(p, [c EXCEPT !.step = "accepted", !.account = a, !.snap = user[a]])
      PROVE  CounterInv'
  <3>1. a \in Account /\ user[a] \in Row
    BY OwnersAreRows
  <3>2. PICK d \in CallState : d = [c EXCEPT !.step = "accepted", !.account = a, !.snap = user[a]]
    <4>1. [c EXCEPT !.step = "accepted", !.account = a, !.snap = user[a]] \in CallState
      BY <2>1, <3>1 DEF CallState
    <4>. QED
      BY <4>1
  <3>3. d.step = "accepted" /\ d.snap = user[a] /\ d.email = c.email /\ d.kind = c.kind
    BY <2>1, <3>2 DEF CallState
  <3>4. Holds(now, p, d)
    BY <2>2, <3>3 DEF Holds, Accepts
  <3>. QED
    BY <2>1, <2>2, <3>2, <3>3, <3>4, CounterQuiet
<2>3. CASE Goes(p, [c EXCEPT !.step = "done"])
  <3>1. Step(p, "done")
    BY <2>3 DEF Step
  <3>. QED
    BY <2>1, <3>1, CounterGoesOn
<2>4. CASE Goes(p, [c EXCEPT !.step = "accepted"])
  <3>1. PICK d \in CallState : d = [c EXCEPT !.step = "accepted"]
    <4>1. [c EXCEPT !.step = "accepted"] \in CallState
      BY <2>1 DEF CallState
    <4>. QED
      BY <4>1
  <3>2. d.step = "accepted" /\ d.account = None /\ d.email = c.email /\ d.kind = c.kind
    BY <2>1, <3>1 DEF CallState
  <3>3. Holds(now, p, d)
    BY <3>2 DEF Holds
  <3>. QED
    BY <2>1, <2>4, <3>1, <3>2, <3>3, CounterQuiet
<2>. QED
  BY <1>3, <2>2, <2>3, <2>4 DEF Examine
<1>4. CASE CommitRaises(p)
  BY <1>4, CounterGoesOn DEF CommitRaises
<1>5. CASE Stop(p)
  BY <1>5, CounterGoesOn DEF Stop
<1>. QED
  BY <1>1, <1>2, <1>3, <1>4, <1>5

\* A step that takes no more than codes from rows and from Redis.
LEMMA CounterLoses ==
  ASSUME IInv, SpentInv, CounterInv, NEW p \in Call,
         NEW step \in {"created", "committed", "done"}, Step(p, step),
         call[p].step \notin {"stored", "counting", "stopped"},
         UNCHANGED <<attempts, now>>,
         \A a \in Rows' : \/ user'[a].code = None /\ user'[a].expires = None
                          \/ a \in Rows /\ user'[a].code = user[a].code
                             /\ user'[a].expires = user[a].expires,
         \A e \in Email : pending'[e] \in {pending[e], None}
  PROVE  CounterInv'
<1>1. PICK c \in CallState : /\ Goes(p, c) /\ c.step = step /\ c.kind = call[p].kind
                             /\ c.email = call[p].email
  BY StepIs
<1>2. \A q \in Call : Holds(now, q, call[q])'
  BY <1>1, HoldsGoes DEF CounterInv, Holds
<1>3. \A a \in Rows' : Together(user'[a]) /\ Known(now, user'[a].expires)
  BY DEF CounterInv, EndsInv, Together, Known
<1>4. EndsInv'
  BY <1>2, <1>3 DEF CounterInv, EndsInv
<1>5. ASSUME NEW e \in Email
      PROVE  Settled(e)' /\ Attempts(e)'.n > 0
               => \A t \in Ends(e)' : Attempts(e)'.until # None /\ Attempts(e)'.until >= t
  <2>1. StillSettled(p, c, e)
    BY DEF StillSettled
  <2>2. Attempts(e)' = Attempts(e)
    BY DEF Attempts
  <2>3. EndsInv /\ CounterOutlivesCode
    BY DEF CounterInv
  <2>4. CASE Attempts(e).n > 0
    BY <1>1, <2>1, <2>2, <2>3, <2>4, CounterKept DEF CounterOutlivesCode
  <2>. QED
    BY <2>2, <2>4
<1>. QED
  BY <1>4, <1>5 DEF CounterInv, CounterOutlivesCode

\* An address's counter becomes a counter; the others stay.
LEMMA CounterTyped ==
  ASSUME EndsInv, NEW e \in Email, NEW n \in Counter, attempts' = [attempts EXCEPT ![e] = n]
  PROVE  /\ attempts' \in [Email -> Counter] /\ attempts'[e] = n
         /\ \A f \in Email \ {e} : attempts'[f] = attempts[f]
  BY DEF EndsInv

\* What is said of a counter that is read.
LEMMA AttemptsRead ==
  ASSUME EndsInv, NEW e \in Email
  PROVE  Attempts(e) \in Counter /\ Attempts(e).n \in Nat
<1>1. NoCounter \in Counter
  BY DEF NoCounter, Counter
<1>2. Attempts(e) \in Counter
  BY <1>1 DEF Attempts, EndsInv
<1>. QED
  BY <1>2 DEF Counter

\* A step of a call that changes counters only.
LEMMA CounterCounts ==
  ASSUME ConstantsAssumption, IInv, SpentInv, CounterInv, NEW p \in Call, NEW c \in CallState, Goes(p, c),
         UNCHANGED <<user, pending, now>>, attempts' \in [Email -> Counter],
         c.step \notin {"sending", "sent", "accepted", "changing"},
         Past(p) => c.kind = call[p].kind /\ c.email = call[p].email,
         \A e \in Email :
           \/ c.email = e /\ c.step = "counting"
           \/ attempts'[e] = NoCounter
           \/ attempts'[e] = attempts[e] /\ Attempts(e).n = 0
           \/ attempts'[e].until = now + Ttl /\ now \in Nat /\ Ttl \in Nat
           \/ /\ StillSettled(p, c, e)
              /\ \/ attempts'[e] = attempts[e]
                 \/ Attempts(e).n > 0 /\ attempts'[e].until = Attempts(e).until
  PROVE  CounterInv'
<1>1. \A q \in Call : Holds(now, q, call[q])'
  BY HoldsGoes DEF CounterInv, Holds
<1>2. EndsInv'
  BY <1>1 DEF CounterInv, EndsInv, Rows
<1>3. EndsInv /\ CounterOutlivesCode /\ Rows' = Rows
  BY DEF CounterInv, Rows
<1>4. ASSUME NEW e \in Email
      PROVE  Settled(e)' /\ Attempts(e)'.n > 0
               => \A t \in Ends(e)' : Attempts(e)'.until # None /\ Attempts(e)'.until >= t
  <2>1. CASE c.email = e /\ c.step = "counting"
    <3>1. ~Settled(e)'
      BY <2>1, GoneOn DEF Settled
    <3>. QED
      BY <3>1
  <2>2. CASE attempts'[e] = NoCounter
    <3>1. Attempts(e)' = NoCounter
      BY <2>2 DEF Attempts
    <3>. QED
      BY <3>1 DEF NoCounter
  <2>3. CASE attempts'[e].until = now + Ttl /\ now \in Nat /\ Ttl \in Nat
    <3>1. Attempts(e)'.until = now + Ttl
      BY <2>3 DEF Attempts
    <3>2. \A t \in Ends(e)' : t \in Nat /\ t <= now + Ttl
      <4>1. pending[e] # None => pending[e].expires \in Nat /\ pending[e].expires <= now + Ttl
        <5>1. pending[e] # None => pending[e].expires \in Nat /\ pending[e].expires # None
          BY DEF IInv, StoresOK, CodeEntry, ConstantsAssumption
        <5>. QED
          BY <1>3, <5>1 DEF EndsInv, Known
      <4>2. \A a \in Rows : user[a].code # None =>
              user[a].expires \in Nat /\ user[a].expires <= now + Ttl
        BY <1>3 DEF EndsInv, Together, Known, IInv, StoresOK, Rows, Row
      <4>. QED
        BY <1>3, <4>1, <4>2 DEF Ends, PendingCode
    <3>3. now + Ttl # None
      BY <2>3 DEF ConstantsAssumption
    <3>. QED
      BY <2>3, <3>1, <3>2, <3>3
  <2>4. CASE StillSettled(p, c, e) /\ attempts'[e] = attempts[e]
    <3>1. Attempts(e)' = Attempts(e)
      BY <2>4 DEF Attempts
    <3>2. CASE Attempts(e).n > 0
      BY <1>3, <2>4, <3>1, <3>2, CounterKept DEF CounterOutlivesCode
    <3>. QED
      BY <3>1, <3>2
  <2>5. CASE /\ StillSettled(p, c, e)
             /\ Attempts(e).n > 0 /\ attempts'[e].until = Attempts(e).until
    <3>1. Attempts(e)' = NoCounter \/ Attempts(e)'.until = Attempts(e).until
      BY <2>5 DEF Attempts
    <3>2. CASE Attempts(e)' = NoCounter
      BY <3>2 DEF NoCounter
    <3>3. CASE Attempts(e)'.until = Attempts(e).until
      BY <1>3, <2>5, <3>3, CounterKept DEF CounterOutlivesCode
    <3>. QED
      BY <3>1, <3>2, <3>3
  <2>6. CASE attempts'[e] = attempts[e] /\ Attempts(e).n = 0
    <3>1. Attempts(e)' = Attempts(e)
      BY <2>6 DEF Attempts
    <3>. QED
      BY <2>6, <3>1
  <2>. QED
    BY <2>1, <2>2, <2>3, <2>4, <2>5, <2>6
<1>. QED
  BY <1>2, <1>4 DEF CounterInv, CounterOutlivesCode

\* Counting an attempt, its expiry and the resets.
LEMMA CounterCounting ==
  ASSUME ConstantsAssumption, IInv, SpentInv, CounterInv, NEW p \in Call,
         \/ \E e \in Email : \E k \in Delivered \cup {None} : CountAttempt(p, e, k)
         \/ ExpireAttempts(p) \/ ResetAttempts(p)
  PROVE  CounterInv'
<1>n. NoCounter \in Counter
  BY DEF NoCounter, Counter
<1>i. EndsInv
  BY DEF CounterInv
<1>1. ASSUME NEW e \in Email, NEW k \in Delivered \cup {None}, CountAttempt(p, e, k)
      PROVE  CounterInv'
<2> DEFINE n == [Attempts(e) EXCEPT !.n = Attempts(e).n + 1]
<2>1. Attempts(e) \in Counter /\ Attempts(e).n \in Nat
  BY <1>i, AttemptsRead
<2>2. n \in Counter /\ n.until = Attempts(e).until
  BY <2>1 DEF Counter
<2>3. attempts' = [attempts EXCEPT ![e] = n]
  BY <1>1 DEF CountAttempt
<2>4. PICK late \in BOOLEAN, step \in {"counting", "done", "counted"} :
        /\ Goes(p, [NoCall EXCEPT !.kind = "login", !.email = e, !.code = k,
                      !.late = late, !.step = step])
        /\ step # "counting" => Attempts(e).n > 0
  <3>1. (k # None /\ uses[k] > 0 /\ ~LeftBehind(e)) \in BOOLEAN
    BY DEF IInv, StoresOK, Delivered
  <3>2. PICK step \in {"counting", "done", "counted"} :
          step = IF Attempts(e).n + 1 = 1 THEN "counting"
                 ELSE IF Attempts(e).n + 1 > MaxAttempts THEN "done" ELSE "counted"
    OBVIOUS
  <3>3. step # "counting" => Attempts(e).n > 0
    BY <2>1, <3>2
  <3>. QED
    BY <1>1, <3>1, <3>2, <3>3 DEF CountAttempt
<2>5. PICK c \in CallState : c = [NoCall EXCEPT !.kind = "login", !.email = e, !.code = k,
                                    !.late = late, !.step = step]
  <3>1. [NoCall EXCEPT !.kind = "login", !.email = e, !.code = k, !.late = late,
           !.step = step] \in CallState
    BY DEF NoCall, CallState, IInv, StoresOK, Delivered
  <3>. QED
    BY <3>1
<2>6. c.step = step /\ c.email = e /\ c.kind = "login"
  BY <2>5 DEF NoCall
<2>7. call[p].step = "new" /\ UNCHANGED <<user, pending, now>>
  BY <1>1 DEF CountAttempt, Begin
<2> HIDE DEF n
<2>8. /\ attempts' \in [Email -> Counter] /\ attempts'[e] = n
      /\ \A f \in Email \ {e} : attempts'[f] = attempts[f]
  BY <1>i, <2>2, <2>3, CounterTyped
<2>9. \A f \in Email : StillSettled(p, c, f)
  BY <2>7 DEF StillSettled
<2>. QED
  BY <2>2, <2>4, <2>5, <2>6, <2>7, <2>8, <2>9, CounterCounts DEF Past
<1>2. CASE ExpireAttempts(p)
<2> DEFINE e == call[p].email
<2>1. /\ call[p].step = "counting" /\ UNCHANGED <<user, pending, now>>
      /\ e \in Email /\ now + Ttl \in Nat /\ now \in Nat /\ Ttl \in Nat
  <3>1. call[p].step = "counting" /\ UNCHANGED <<user, pending, now>>
    BY <1>2 DEF ExpireAttempts
  <3>2. e \in Email
    BY <3>1 DEF IInv, CallInv, Equipped
  <3>3. now \in Nat /\ Ttl \in Nat
    BY DEF IInv, StoresOK, ConstantsAssumption
  <3>. QED
    BY <3>1, <3>2, <3>3
<2>2. PICK step \in {"done", "counted"} : Step(p, step)
  <3>1. (IF MaxAttempts = 0 THEN "done" ELSE "counted") \in {"done", "counted"}
    OBVIOUS
  <3>. QED
    BY <1>2, <3>1 DEF ExpireAttempts
<2>3. PICK c \in CallState : /\ Goes(p, c) /\ c.step = step /\ c.kind = call[p].kind
                             /\ c.email = call[p].email
  BY <2>2, StepIs
<2>4. \A f \in Email \ {e} : StillSettled(p, c, f)
  BY DEF StillSettled
<2>5. CASE Attempts(e).n # 0
  <3>1. attempts' = [attempts EXCEPT ![e] = [attempts[e] EXCEPT !.until = now + Ttl]]
    BY <1>2, <2>5 DEF ExpireAttempts
  <3>2. [attempts[e] EXCEPT !.until = now + Ttl] \in Counter
        /\ [attempts[e] EXCEPT !.until = now + Ttl].until = now + Ttl
    BY <1>i, <2>1 DEF EndsInv, Counter
  <3>3. PICK m : m = [attempts[e] EXCEPT !.until = now + Ttl]
    OBVIOUS
  <3>4. /\ attempts' \in [Email -> Counter] /\ attempts'[e] = m
        /\ \A f \in Email \ {e} : attempts'[f] = attempts[f]
    BY <1>i, <2>1, <3>1, <3>2, <3>3, CounterTyped
  <3>5. attempts'[e].until = now + Ttl
    BY <3>2, <3>3, <3>4
  <3> HIDE DEF e
  <3>. QED
    BY <2>1, <2>3, <2>4, <3>4, <3>5, CounterCounts
<2>6. CASE Attempts(e).n = 0
  <3>1. UNCHANGED attempts
    BY <1>2, <2>6 DEF ExpireAttempts
  <3>. QED
    BY <1>i, <2>1, <2>3, <2>4, <2>6, <3>1, CounterCounts DEF EndsInv
<2>. QED
  BY <2>5, <2>6
<1>3. CASE ResetAttempts(p)
<2> DEFINE e == IF call[p].step = "committed" /\ call[p].account # None
                THEN user[call[p].account].email ELSE call[p].email
<2>1. /\ call[p].step \in {"stored", "committed"} /\ UNCHANGED <<user, pending, now>>
      /\ Step(p, "done")
      /\ attempts' = IF e = None THEN attempts ELSE [attempts EXCEPT ![e] = NoCounter]
  BY <1>3 DEF ResetAttempts
<2>2. PICK c \in CallState : /\ Goes(p, c) /\ c.step = "done" /\ c.kind = call[p].kind
                             /\ c.email = call[p].email
  BY <2>1, StepIs
<2>3. call[p].step = "stored" => e = call[p].email
  OBVIOUS
<2> HIDE DEF e
<2>4. /\ attempts' \in [Email -> Counter]
      /\ \A f \in Email : attempts'[f] = IF f = e THEN NoCounter ELSE attempts[f]
  BY <1>i, <1>n, <2>1 DEF EndsInv, ConstantsAssumption
<2>5. \A f \in Email \ {e} : StillSettled(p, c, f)
  BY <2>1, <2>3 DEF StillSettled
<2>. QED
  BY <2>1, <2>2, <2>4, <2>5, CounterCounts
<1>. QED
  BY <1>1, <1>2, <1>3

\* A call stores its code with its end, and its address waits for the reset.
LEMMA CounterStoring ==
  ASSUME ConstantsAssumption, IInv, SpentInv, CounterInv, NEW p \in Call, StoreCode(p)
  PROVE  CounterInv'
<1> DEFINE a == call[p].account
<1>1. /\ call[p] \in CallState /\ Equipped(p, call[p], user, delivered) /\ call[p].step = "sent"
      /\ Holds(now, p, call[p]) /\ EndsInv /\ CounterOutlivesCode /\ p # None
      /\ UNCHANGED <<attempts, now>>
  BY DEF StoreCode, IInv, StoresOK, CallInv, CounterInv, EndsInv, ConstantsAssumption
<1>2. call[p].expires \in Nat /\ call[p].expires # None /\ Known(now, call[p].expires)
  BY <1>1 DEF Equipped, Holds, ConstantsAssumption
<1>3. PICK step \in {"stored", "done"} : Step(p, step) /\ (call[p].kind = "request" => step = "stored")
  BY DEF StoreCode
<1>4. PICK c \in CallState : /\ Goes(p, c) /\ c.step = step /\ c.kind = call[p].kind
                             /\ c.email = call[p].email
  BY <1>3, StepIs
<1>5. \A q \in Call : Holds(now, q, call[q])'
  BY <1>1, <1>4, HoldsGoes DEF Holds
<1>6. CASE a # None
  <2>1. a \in Account /\ user[a] \in Row /\ call[p].snap \in Row /\ call[p].dto \in Row
    BY <1>1, <1>6 DEF Equipped
  <2>2. /\ WithCode(p) \in Row /\ WithCode(p).code = p
        /\ WithCode(p).expires = call[p].expires
    BY <1>2, <2>1 DEF WithCode, Row
  <2>3. Save(a, call[p].snap, WithCode(p)) /\ UNCHANGED pending
    BY <1>6 DEF StoreCode
  <2>4. WithCode(p).code # call[p].snap.code /\ WithCode(p).expires # call[p].snap.expires
    <3>1. /\ call[p].snap.code # p
          /\ call[p].snap.expires # None => call[p].snap.expires < call[p].expires
      BY <1>1, <1>6 DEF Holds
    <3>2. call[p].snap.expires \in Nat \cup {None}
      BY <2>1 DEF Row
    <3>. QED
      BY <1>2, <2>2, <3>1, <3>2
  <2>5. /\ user'[a] \in Row /\ \A b \in Account \ {a} : user'[b] = user[b]
        /\ \/ user'[a].code = p /\ user'[a].expires = call[p].expires
           \/ user'[a].code = user[a].code /\ user'[a].expires = user[a].expires
    BY <2>1, <2>2, <2>3, <2>4, PairSaved
  <2>6. a \in Rows
    BY <2>1 DEF Rows, ConstantsAssumption
  <2>7. \A b \in Rows' : \/ b \in Rows /\ user'[b].code = user[b].code
                            /\ user'[b].expires = user[b].expires
                         \/ user'[b].code = p /\ user'[b].expires = call[p].expires
    BY <2>5, <2>6 DEF Rows
  <2>8. \A b \in Rows' : Together(user'[b]) /\ Known(now, user'[b].expires)
    BY <1>1, <1>2, <2>7 DEF EndsInv, Together, Known
  <2>9. EndsInv'
    BY <1>1, <1>5, <2>3, <2>8 DEF EndsInv
  <2>10. ASSUME NEW e \in Email
         PROVE  Settled(e)' /\ Attempts(e)'.n > 0
                  => \A t \in Ends(e)' : Attempts(e)'.until # None /\ Attempts(e)'.until >= t
    <3>1. Attempts(e)' = Attempts(e)
      BY <1>1 DEF Attempts
    <3>2. CASE c.kind = "request" /\ c.email = e
      <4>1. ~Settled(e)'
        BY <1>3, <1>4, <3>2, GoneOn DEF Settled
      <4>. QED
        BY <4>1
    <3>3. CASE ~(c.kind = "request" /\ c.email = e) /\ Attempts(e).n > 0
      <4>1. StillSettled(p, c, e)
        BY <1>1 DEF StillSettled
      <4>2. Settled(e) /\ Attempts(e).n > 0
              => \A t \in Ends(e) : Attempts(e).until # None /\ Attempts(e).until >= t
        BY <1>1 DEF CounterOutlivesCode
      <4>3. \A b \in Rows' : user'[b].code # None =>
              \/ b \in Rows /\ user'[b].code = user[b].code /\ user'[b].expires = user[b].expires
              \/ user'[b].code = p /\ ~(c.kind = "request" /\ c.email = e)
        BY <2>7, <3>3
      <4>. QED
        BY <1>1, <1>4, <2>3, <3>1, <3>3, <4>1, <4>2, <4>3, CounterKept
    <3>. QED
      BY <3>1, <3>2, <3>3
  <2>. QED
    BY <2>9, <2>10 DEF CounterInv, CounterOutlivesCode
<1>7. CASE a = None
  <2>1. /\ call[p].email \in Email /\ UNCHANGED user /\ call[p].kind = "request"
        /\ pending' = [pending EXCEPT ![call[p].email] = [code |-> p, expires |-> call[p].expires]]
    BY <1>1, <1>7 DEF Equipped, StoreCode, Holds
  <2>2. /\ pending'[call[p].email].expires = call[p].expires
        /\ \A e \in Email \ {call[p].email} : pending'[e] = pending[e]
    BY <2>1 DEF IInv, StoresOK
  <2>3. Rows' = Rows
    BY <2>1 DEF Rows
  <2>4. EndsInv'
    BY <1>1, <1>2, <1>5, <2>1, <2>2, <2>3 DEF EndsInv
  <2>5. ASSUME NEW e \in Email
        PROVE  Settled(e)' /\ Attempts(e)'.n > 0
                 => \A t \in Ends(e)' : Attempts(e)'.until # None /\ Attempts(e)'.until >= t
    <3>1. Attempts(e)' = Attempts(e)
      BY <1>1 DEF Attempts
    <3>2. CASE e = call[p].email
      <4>1. ~Settled(e)'
        BY <1>3, <1>4, <2>1, <3>2, GoneOn DEF Settled
      <4>. QED
        BY <4>1
    <3>3. CASE e # call[p].email /\ Attempts(e).n > 0
      <4>1. StillSettled(p, c, e)
        BY <1>1 DEF StillSettled
      <4>2. Settled(e) /\ Attempts(e).n > 0
              => \A t \in Ends(e) : Attempts(e).until # None /\ Attempts(e).until >= t
        BY <1>1 DEF CounterOutlivesCode
      <4>3. \A b \in Rows' : b \in Rows /\ user'[b].code = user[b].code
                             /\ user'[b].expires = user[b].expires
        BY <2>1, <2>3
      <4>. QED
        BY <1>1, <1>4, <2>2, <3>1, <3>3, <4>1, <4>2, <4>3, CounterKept
    <3>. QED
      BY <3>1, <3>2, <3>3
  <2>. QED
    BY <2>4, <2>5 DEF CounterInv, CounterOutlivesCode
<1>. QED
  BY <1>6, <1>7

\* Commits without a code and the revocation take codes away.
LEMMA CounterCommitting ==
  ASSUME ConstantsAssumption, IInv, SpentInv, CounterInv, NEW p \in Call,
         CommitConfirmed(p) \/ CommitChange(p) \/ CommitRegistered(p) \/ RevokeCode(p)
  PROVE  CounterInv'
<1>0. PICK a, snap : a = call[p].account /\ snap = call[p].snap
  OBVIOUS
<1>1. /\ call[p] \in CallState /\ Equipped(p, call[p], user, delivered)
      /\ Holds(now, p, call[p]) /\ user \in [Account -> Row \cup {None}]
      /\ pending \in [Email -> CodeEntry \cup {None}]
  BY DEF IInv, StoresOK, CallInv, CounterInv, EndsInv
<1>2. ASSUME a \in Account, user[a] \in Row, snap \in Row, NEW new \in Row,
             new.code = None, new.expires = None, Save(a, snap, new),
             \/ snap.code # None /\ snap.expires # None
             \/ snap.code = None /\ snap.expires = None
      PROVE  \A b \in Rows' : \/ user'[b].code = None /\ user'[b].expires = None
                              \/ b \in Rows /\ user'[b].code = user[b].code
                                 /\ user'[b].expires = user[b].expires
  <2>1. /\ \A b \in Account \ {a} : user'[b] = user[b]
        /\ \/ user'[a].code = None /\ user'[a].expires = None
           \/ user'[a].code = user[a].code /\ user'[a].expires = user[a].expires
    BY <1>2, PairSaved
  <2>2. a \in Rows
    BY <1>2 DEF Rows, ConstantsAssumption
  <2>. QED
    BY <2>1, <2>2 DEF Rows
<1>3. CASE CommitConfirmed(p)
  <2>1. /\ a \in Account /\ user[a] \in Row /\ snap \in Row
        /\ snap.code # None /\ snap.expires # None
    BY <1>0, <1>1, <1>3 DEF Equipped, CommitConfirmed, Holds
  <2>2. /\ Confirmed(snap) \in Row /\ Confirmed(snap).code = None
        /\ Confirmed(snap).expires = None
    BY <2>1 DEF Confirmed, Row
  <2>3. Save(a, snap, Confirmed(snap)) /\ UNCHANGED <<pending, attempts, now>>
    BY <1>0, <1>3 DEF CommitConfirmed
  <2>4. \A b \in Rows' : \/ user'[b].code = None /\ user'[b].expires = None
                         \/ b \in Rows /\ user'[b].code = user[b].code
                            /\ user'[b].expires = user[b].expires
    BY <1>2, <2>1, <2>2, <2>3
  <2>5. PICK step \in {"committed", "done"} : Step(p, step)
    BY <1>3 DEF CommitConfirmed
  <2>6. call[p].step = "accepted"
    BY <1>3 DEF CommitConfirmed
  <2>. QED
    BY <2>3, <2>4, <2>5, <2>6, CounterLoses
<1>4. CASE CommitChange(p)
  <2> DEFINE new == [snap EXCEPT !.pending = call[p].email, !.verified = FALSE,
                                 !.code = None, !.expires = None]
  <2>1. /\ a \in Account /\ user[a] \in Row /\ snap \in Row /\ call[p].email \in Email
        /\ Together(snap)
    BY <1>0, <1>1, <1>4 DEF Equipped, CommitChange, Holds
  <2>2. new \in Row /\ new.code = None /\ new.expires = None
    BY <2>1 DEF Row
  <2>3. Save(a, snap, new) /\ UNCHANGED <<pending, attempts, now>>
    BY <1>0, <1>4 DEF CommitChange
  <2> HIDE DEF new
  <2>4. \A b \in Rows' : \/ user'[b].code = None /\ user'[b].expires = None
                         \/ b \in Rows /\ user'[b].code = user[b].code
                            /\ user'[b].expires = user[b].expires
    BY <1>2, <2>1, <2>2, <2>3 DEF Together
  <2>5. Step(p, "done") /\ call[p].step = "changing"
    BY <1>4 DEF CommitChange
  <2>. QED
    BY <2>3, <2>4, <2>5, CounterLoses
<1>5. CASE CommitRegistered(p)
  <2>1. PICK b \in Account \ Rows : user' = [user EXCEPT ![b] = RowOf(call[p].email, TRUE)]
    BY <1>5 DEF CommitRegistered
  <2>2. /\ user'[b].code = None /\ user'[b].expires = None
        /\ \A x \in Account \ {b} : user'[x] = user[x]
    BY <1>1, <2>1 DEF RowOf
  <2>3. \A x \in Rows' : \/ user'[x].code = None /\ user'[x].expires = None
                         \/ x \in Rows /\ user'[x].code = user[x].code
                            /\ user'[x].expires = user[x].expires
    BY <2>2 DEF Rows
  <2>4. Step(p, "created") /\ call[p].step = "accepted" /\ UNCHANGED <<pending, attempts, now>>
    BY <1>5 DEF CommitRegistered
  <2>. QED
    BY <2>3, <2>4, CounterLoses
<1>6. CASE RevokeCode(p)
  <2>1. /\ call[p].step = "created" /\ UNCHANGED <<user, attempts, now>> /\ Step(p, "committed")
        /\ pending' = [pending EXCEPT ![call[p].email] = None]
    BY <1>6 DEF RevokeCode
  <2>2. \A e \in Email : pending'[e] \in {pending[e], None}
    BY <1>1, <2>1
  <2>3. \A b \in Rows' : b \in Rows /\ user'[b].code = user[b].code
                         /\ user'[b].expires = user[b].expires
    BY <2>1 DEF Rows
  <2>. QED
    BY <2>1, <2>2, <2>3, CounterLoses
<1>. QED
  BY <1>3, <1>4, <1>5, <1>6

\* Time and a new row without a code give no code more time.
LEMMA CounterApart ==
  ASSUME ConstantsAssumption, IInv, CounterInv, UNCHANGED <<attempts, call, pending>>,
         now' \in Nat, now <= now',
         \A a \in Rows' : \/ user'[a].code = None /\ user'[a].expires = None
                          \/ a \in Rows /\ user'[a] = user[a]
  PROVE  CounterInv'
<1>1. /\ now \in Nat /\ Ttl \in Nat /\ call \in [Call -> CallState]
      /\ pending \in [Email -> CodeEntry \cup {None}] /\ EndsInv /\ CounterOutlivesCode
  BY DEF IInv, StoresOK, ConstantsAssumption, CounterInv
<1>2. ASSUME NEW x \in Nat \cup {None}, Known(now, x) PROVE Known(now', x)
  <2>1. ASSUME NEW y \in Nat, y <= now + Ttl PROVE y <= now' + Ttl
    <3>1. \A s, t, d \in Nat : s <= t /\ y <= s + d => y <= t + d
      OBVIOUS
    <3>2. now \in Nat /\ Ttl \in Nat /\ now' \in Nat /\ now <= now'
      BY <1>1
    <3>. QED
      BY <2>1, <3>1, <3>2
  <2>. QED
    BY <1>2, <2>1 DEF Known
<1>3. \A q \in Call : Holds(now, q, call[q])'
  <2>1. \A q \in Call : call[q].expires \in Nat \cup {None} /\ Holds(now, q, call[q])
    BY <1>1 DEF CallState, EndsInv
  <2>2. \A q \in Call : Holds(now', q, call[q])
    BY <1>2, <2>1 DEF Holds
  <2>. QED
    BY <2>2
<1>4. \A e \in Email : pending'[e] # None => Known(now', pending'[e].expires)
  <2>1. \A e \in Email : pending[e] # None => pending[e].expires \in Nat
    BY <1>1 DEF CodeEntry
  <2>. QED
    BY <1>1, <1>2, <2>1 DEF EndsInv
<1>5. \A a \in Rows' : Together(user'[a]) /\ Known(now', user'[a].expires)
  <2>1. \A a \in Rows : user[a].expires \in Nat \cup {None}
    BY DEF IInv, StoresOK, Rows, Row
  <2>. QED
    BY <1>1, <1>2, <2>1 DEF EndsInv, Together, Known
<1>6. EndsInv'
  BY <1>1, <1>3, <1>4, <1>5 DEF EndsInv
<1>7. ASSUME NEW e \in Email
      PROVE  Settled(e)' /\ Attempts(e)'.n > 0
               => \A t \in Ends(e)' : Attempts(e)'.until # None /\ Attempts(e)'.until >= t
  <2>1. Settled(e)' <=> Settled(e)
    BY DEF Settled
  <2>2. attempts[e].until \in Nat \cup {None}
    BY <1>1 DEF EndsInv, Counter
  <2>3. Attempts(e)' = NoCounter \/ Attempts(e)' = Attempts(e)
    BY <1>1, <2>2 DEF Attempts
  <2>4. PendingCode(e)' # None => PendingCode(e) # None
    <3>1. pending[e] # None => pending[e].expires \in Nat
      BY <1>1 DEF CodeEntry
    <3>. QED
      BY <1>1, <3>1 DEF PendingCode
  <2>5. Ends(e)' \subseteq Ends(e)
    BY <2>4 DEF Ends
  <2>6. CASE Attempts(e)' = NoCounter
    BY <2>6 DEF NoCounter
  <2>7. CASE Attempts(e)' = Attempts(e)
    BY <1>1, <2>1, <2>5, <2>7 DEF CounterOutlivesCode
  <2>. QED
    BY <2>3, <2>6, <2>7
<1>. QED
  BY <1>6, <1>7 DEF CounterInv, CounterOutlivesCode

\* CounterInv is inductive, relative to the other two.
LEMMA CounterInduction ==
  ConstantsAssumption /\ IInv /\ SpentInv /\ CounterInv /\ [Next]_vars => CounterInv'
<1> SUFFICES ASSUME ConstantsAssumption, IInv, SpentInv, CounterInv, [Next]_vars
             PROVE  CounterInv'
  OBVIOUS
<1>n. now \in Nat
  BY DEF IInv, StoresOK
<1>1. CASE Tick
<2>1. Rows' = Rows /\ UNCHANGED <<user, attempts, call, pending>> /\ now' = now + 1
  BY <1>1 DEF Tick, Rows
<2>. QED
  BY <1>n, <2>1, CounterApart
<1>2. CASE UNCHANGED vars
<2>1. Rows' = Rows /\ UNCHANGED <<user, attempts, call, pending>> /\ now' = now
  BY <1>2 DEF Rows
<2>. QED
  BY <1>n, <2>1, CounterApart
<1>3. ASSUME NEW a \in Account, NEW e \in Email, RegisterEmailUser(a, e) PROVE CounterInv'
<2>1. /\ user' = [user EXCEPT ![a] = RowOf(e, FALSE)]
      /\ UNCHANGED <<attempts, call, pending, now>>
  BY <1>3 DEF RegisterEmailUser
<2>2. /\ user'[a].code = None /\ user'[a].expires = None
      /\ \A b \in Account \ {a} : user'[b] = user[b]
  BY <2>1 DEF RowOf, IInv, StoresOK
<2>3. \A b \in Rows' : \/ user'[b].code = None /\ user'[b].expires = None
                       \/ b \in Rows /\ user'[b] = user[b]
  BY <2>2 DEF Rows
<2>4. now' \in Nat /\ now <= now'
  BY <1>n, <2>1
<2>. QED
  BY <2>1, <2>3, <2>4, CounterApart
<1>. QED
  BY <1>1, <1>2, <1>3, CounterBeginning, CounterGoingOn, CounterCounting, CounterStoring,
     CounterCommitting DEF Next

\* The reset that ends a request and the expiry that the first attempt sets for the code's
\* whole life leave no counter that starts again before the code ends.
THEOREM CounterOutlivesCodeHolds ==
  ASSUME ConstantsAssumption PROVE Spec => []CounterOutlivesCode
<1>1. Init => IInv /\ SpentInv /\ CounterInv
  BY InitIInv, InitSpentInv, InitCounterInv
<1>2. IInv /\ SpentInv /\ CounterInv /\ [Next]_vars => (IInv /\ SpentInv /\ CounterInv)'
  BY Induction, SpentInduction, CounterInduction
<1>3. CounterInv => CounterOutlivesCode
  BY DEF CounterInv
<1>. QED
  BY <1>1, <1>2, <1>3, PTL DEF Spec
=============================================================================
