----------------------------- MODULE EmailCode -----------------------------
(***************************************************************************)
(* One-time codes sent by email: requests and logins without a session     *)
(* (RequestEmailCode, LoginWithEmailCode, LoginWithMagicLink), and a       *)
(* signed-in user's change, verification and confirmation of his address.  *)
(* A code for an address nobody has lives in Redis, any other in the       *)
(* user's row; the counter of attempts lives in Redis.                     *)
(*                                                                         *)
(* A code is named by the call that generated it.                          *)
(***************************************************************************)
EXTENDS Naturals, FiniteSets

CONSTANTS
  Account,      \* rows of users, those still to be created too
  Blocked,      \* accounts an administrator has blocked
  Email,
  Call,         \* requests to the endpoints
  Ttl, Cooldown,    \* of a code: its life, and the wait before the next one
  MaxAttempts,
  MaxNow,       \* bound of the clock
  Parallel,     \* how many calls overlap
  Faults,       \* which faults may occur
  None

Row == [email : Email \cup {None}, pending : Email \cup {None}, verified : BOOLEAN,
        code : Call \cup {None}, expires : Nat \cup {None}]

ConstantsAssumption ==
  /\ Ttl \in Nat /\ Cooldown \in Nat \ {0} /\ MaxAttempts \in Nat
  /\ MaxNow \in Nat /\ Parallel \in Nat
  /\ Cooldown <= Ttl
  /\ Blocked \subseteq Account
  /\ Faults \subseteq {"stop", "mail"}
  /\ None \notin Account \cup Email \cup Call \cup Nat \cup Row

VARIABLES
  user,       \* None while there is no such row
  pending,    \* the code in Redis for an address nobody has
  attempts,   \* Redis counter of an address; until is None before it has an expiry
  now,
  call,
  delivered,  \* which code reached which address
  uses,       \* logins and confirmations made with a code
  proven      \* addresses of which a code was accepted

stores  == <<user, pending, attempts>>
history == <<delivered, uses, proven>>
vars == <<stores, now, call, history>>

CodeEntry == [code : Call, expires : Nat]
Counter == [n : Nat, until : Nat \cup {None}]
Kind == {"request", "login", "change", "verify", "confirm"}
Running == {"sending", "sent", "stored", "counting", "counted", "accepted", "created",
            "committed", "changing"}
CallState == [kind : Kind \cup {None}, step : Running \cup {"new", "done", "stopped"},
              account : Account \cup {None}, email : Email \cup {None},
              code : Call \cup {None}, snap : Row \cup {None}, dto : Row \cup {None},
              expires : Nat \cup {None}, late : BOOLEAN]

\* Every variable keeps its type.
TypeOK ==
  /\ user \in [Account -> Row \cup {None}]
  /\ pending \in [Email -> CodeEntry \cup {None}]
  /\ attempts \in [Email -> Counter]
  /\ now \in Nat
  /\ call \in [Call -> CallState]
  /\ delivered \subseteq [code : Call, to : Email]
  /\ uses \in [Call -> Nat]
  /\ proven \subseteq Email

NoCall == [kind |-> None, step |-> "new", account |-> None, email |-> None, code |-> None,
           snap |-> None, dto |-> None, expires |-> None, late |-> FALSE]
NoCounter == [n |-> 0, until |-> None]

\* Mutant: the flag of a new row is left unset.
RowOf_unset(e, verified) == [email |-> e, pending |-> None, verified |-> None,
                             code |-> None, expires |-> None]

RowOf(e, verified) == [email |-> e, pending |-> None, verified |-> verified,
                       code |-> None, expires |-> None]

Fresh == {RowOf(None, FALSE)} \cup
         [email : Email, pending : {None}, verified : BOOLEAN, code : {None}, expires : {None}]

\* Telegram users have no address; the others registered by password or by code.
Init ==
  /\ user \in [Account -> {None} \cup Fresh]
  /\ \A a, b \in Account : a # b /\ user[a] # None /\ user[b] # None
                             => user[a].email = None \/ user[a].email # user[b].email
  /\ \A a \in Blocked : user[a] # None
  /\ pending = [e \in Email |-> None]
  /\ attempts = [e \in Email |-> NoCounter]
  /\ now = 0
  /\ call = [p \in Call |-> NoCall]
  /\ delivered = {}
  /\ uses = [p \in Call |-> 0]
  /\ proven = {e \in Email : \E a \in Account : user[a] = RowOf(e, TRUE)}

-----------------------------------------------------------------------------
(* Lookups. *)

Rows == {a \in Account : user[a] # None}
HasEmail(e) == {a \in Rows : user[a].email = e}
HasPending(e) == {a \in Rows : user[a].pending = e}

\* get_by_email, then get_by_pending_email, which returns any of several.
Owners(e) == IF HasEmail(e) # {} THEN HasEmail(e) ELSE HasPending(e)
TakenFrom(a, e) == HasEmail(e) \ {a} # {}

\* Redis drops a key at its expiry, and the code compares expires_at too.
PendingCode(e) == IF pending[e] # None /\ pending[e].expires >= now THEN pending[e] ELSE None
Attempts(e) == IF attempts[e].until # None /\ attempts[e].until < now
               THEN NoCounter ELSE attempts[e]

check_email_resend_cooldown(expires) == expires # None => now + Ttl >= expires + Cooldown

Accepts(row, c) == /\ row.code # None /\ row.expires # None
                   /\ row.expires >= now
                   /\ row.code = c

Begin(p, kind) ==
  /\ call[p].step = "new"
  /\ Cardinality({q \in Call : call[q].step \in Running}) < Parallel

\* What the call remembers when it goes on; a finished one is known by its kind
\* and address only.
Ended(c) == [NoCall EXCEPT !.kind = c.kind, !.step = c.step, !.email = c.email]
Goes(p, c) == call' = [call EXCEPT ![p] = IF c.step \in Running THEN c ELSE Ended(c)]
Step(p, step) == Goes(p, [call[p] EXCEPT !.step = step])

-----------------------------------------------------------------------------
(* RequestEmailCode, and RequestEmailVerification with a session. *)

Asked(kind, a, e, snap, dto) ==
  [NoCall EXCEPT !.kind = kind, !.step = "sending", !.account = a, !.email = e,
                 !.snap = snap, !.dto = dto, !.expires = now + Ttl]

\* A blocked user's request is answered and nothing is sent.
RequestEmailCode(p, e) ==
  /\ Begin(p, "request")
  /\ \/ \E a \in Owners(e) \ Blocked :
          /\ check_email_resend_cooldown(user[a].expires)
          /\ Goes(p, Asked("request", a, e, user[a], user[a]))
     \/ /\ Owners(e) = {}
        /\ PendingCode(e) # None => check_email_resend_cooldown(PendingCode(e).expires)
        /\ Goes(p, Asked("request", None, e, None, None))
  /\ UNCHANGED <<stores, now, history>>

\* With an address the pending one is set first; without, the known one is meant.
RequestEmailVerification(p, a, e) ==
  LET row == user[a]
      dto == IF e \in {None, row.email} THEN row
             ELSE [row EXCEPT !.pending = e, !.verified = FALSE]
      target == IF dto.pending # None THEN dto.pending ELSE dto.email
  IN /\ Begin(p, "verify")
     /\ a \notin Blocked
     /\ e # None /\ row.verified => row.email = None
     /\ e # None /\ e # row.email => ~TakenFrom(a, e)
     /\ target # None
     /\ check_email_resend_cooldown(row.expires)
     /\ Goes(p, Asked("verify", a, target, row, dto))
     /\ UNCHANGED <<stores, now, history>>

\* The message is sent before anything is stored.
Deliver(p) ==
  /\ call[p].step = "sending"
  /\ delivered' = delivered \cup {[code |-> p, to |-> call[p].email]}
  /\ Step(p, "sent")
  /\ UNCHANGED <<stores, now, uses, proven>>

DeliveryRaises(p) ==
  /\ call[p].step = "sending"
  /\ "mail" \in Faults
  /\ Step(p, "done")
  /\ UNCHANGED <<stores, now, history>>

\* UserDao.update: the fields that differ from what was read.
Saved(a, snap, new) == [f \in DOMAIN new |-> IF new[f] # snap[f] THEN new[f] ELSE user[a][f]]

\* users.email is unique.
Save(a, snap, new) ==
  /\ new.email # snap.email => ~TakenFrom(a, new.email)
  /\ user' = [user EXCEPT ![a] = Saved(a, snap, new)]

WithCode(p) == [call[p].dto EXCEPT !.code = p, !.expires = call[p].expires]

\* Mutant: the code is stored while the message is still to be sent.
StoreCode_first(p) ==
  LET c == call[p] IN
  /\ c.step = "sending"
  /\ IF c.account # None
     THEN Save(c.account, c.snap, WithCode(p)) /\ UNCHANGED pending
     ELSE /\ pending' = [pending EXCEPT ![c.email] = [code |-> p, expires |-> c.expires]]
          /\ UNCHANGED user
  /\ UNCHANGED <<attempts, now, call, history>>

\* Mutant: the attempts made with the earlier code are kept.
StoreCode_counted(p) ==
  LET c == call[p] IN
  /\ c.step = "sent"
  /\ IF c.account # None
     THEN Save(c.account, c.snap, WithCode(p)) /\ UNCHANGED pending
     ELSE /\ pending' = [pending EXCEPT ![c.email] = [code |-> p, expires |-> c.expires]]
          /\ UNCHANGED user
  /\ Step(p, "done")
  /\ UNCHANGED <<attempts, now, history>>

\* Only RequestEmailCode goes on to the attempts.
StoreCode(p) ==
  LET c == call[p] IN
  /\ c.step = "sent"
  /\ IF c.account # None
     THEN Save(c.account, c.snap, WithCode(p)) /\ UNCHANGED pending
     ELSE /\ pending' = [pending EXCEPT ![c.email] = [code |-> p, expires |-> c.expires]]
          /\ UNCHANGED user
  /\ Step(p, IF c.kind = "request" THEN "stored" ELSE "done")
  /\ UNCHANGED <<attempts, now, history>>

\* reset_email_code_attempts, at the end of a request and of a login.
ResetAttempts(p) ==
  /\ call[p].step = "stored" \/ (call[p].step = "committed" /\ call[p].kind = "login")
  /\ LET e == IF call[p].step = "committed" /\ call[p].account # None
              THEN user[call[p].account].email ELSE call[p].email
     IN attempts' = IF e = None THEN attempts ELSE [attempts EXCEPT ![e] = NoCounter]
  /\ Step(p, "done")
  /\ UNCHANGED <<user, pending, now, history>>

-----------------------------------------------------------------------------
(* LoginWithEmailCode: typed, or carried by a magic link. *)

Delivered == {d.code : d \in delivered}

\* A registration of the address that has still to revoke its code, or stopped before.
LeftBehind(e) == \E q \in Call : /\ call[q].kind = "login" /\ call[q].email = e
                                 /\ call[q].step \in {"created", "stopped"}

\* incr; the first of a series sets the expiry in a call of its own.
CountAttempt(p, e, code) ==
  LET n == Attempts(e).n + 1 IN
  /\ Begin(p, "login")
  /\ attempts' = [attempts EXCEPT ![e] = [Attempts(e) EXCEPT !.n = n]]
  /\ Goes(p, [NoCall EXCEPT !.kind = "login", !.email = e, !.code = code,
                !.late = code # None /\ uses[code] > 0 /\ ~LeftBehind(e),
                !.step = IF n = 1 THEN "counting" ELSE IF n > MaxAttempts THEN "done"
                         ELSE "counted"])
  /\ UNCHANGED <<user, pending, now, history>>

ExpireAttempts(p) ==
  LET e == call[p].email IN
  /\ call[p].step = "counting"
  /\ attempts' = IF Attempts(e).n = 0 THEN attempts
                 ELSE [attempts EXCEPT ![e].until = now + Ttl]
  /\ Step(p, IF MaxAttempts = 0 THEN "done" ELSE "counted")
  /\ UNCHANGED <<user, pending, now, history>>

\* A blocked user, a code that expired or another one end the login.
Examine(p) ==
  LET c == call[p] IN
  /\ c.step = "counted"
  /\ \/ \E a \in Owners(c.email) :
          Goes(p, IF a \notin Blocked /\ Accepts(user[a], c.code)
                     /\ (user[a].pending # None => ~TakenFrom(a, user[a].pending))
                  THEN [c EXCEPT !.step = "accepted", !.account = a, !.snap = user[a]]
                  ELSE [c EXCEPT !.step = "done"])
     \/ /\ Owners(c.email) = {}
        /\ Goes(p, [c EXCEPT !.step = IF PendingCode(c.email) # None
                                         /\ PendingCode(c.email).code = c.code
                                      THEN "accepted" ELSE "done"])
  /\ UNCHANGED <<stores, now, history>>

\* ConfirmEmailVerification: the same check with a session, uncounted.
ConfirmEmailVerification(p, a, code) ==
  LET row == user[a] IN
  /\ Begin(p, "confirm")
  /\ a \notin Blocked
  /\ Accepts(row, code)
  /\ row.pending # None \/ row.email # None
  /\ row.pending # None => ~TakenFrom(a, row.pending)
  /\ Goes(p, [NoCall EXCEPT !.kind = "confirm", !.step = "accepted", !.account = a,
                !.email = row.pending, !.code = code, !.snap = row, !.late = uses[code] > 0])
  /\ UNCHANGED <<stores, now, history>>

\* Mutant: the code stays in the row.
Confirmed_kept(row) ==
  [row EXCEPT !.email = IF row.pending # None THEN row.pending ELSE @,
              !.pending = None, !.verified = TRUE]

\* The pending address is promoted and the code cleared.
Confirmed(row) ==
  [row EXCEPT !.email = IF row.pending # None THEN row.pending ELSE @,
              !.pending = None, !.verified = TRUE, !.code = None, !.expires = None]

Used(c) ==
  /\ uses' = [uses EXCEPT ![c] = @ + 1]
  /\ proven' = proven \cup {d.to : d \in {d \in delivered : d.code = c}}
  /\ UNCHANGED delivered

CommitConfirmed(p) ==
  LET c == call[p] IN
  /\ c.step = "accepted" /\ c.account # None
  /\ Save(c.account, c.snap, Confirmed(c.snap))
  /\ Step(p, IF c.kind = "login" THEN "committed" ELSE "done")
  /\ Used(c.code)
  /\ UNCHANGED <<pending, attempts, now>>

\* _register_new: RegisterWebUser creates the row, then the code is revoked.
CommitRegistered(p) ==
  LET c == call[p] IN
  /\ c.step = "accepted" /\ c.account = None
  /\ HasEmail(c.email) = {}
  /\ \E a \in Account \ Rows : user' = [user EXCEPT ![a] = RowOf(c.email, TRUE)]
  /\ Step(p, "created")
  /\ Used(c.code)
  /\ UNCHANGED <<pending, attempts, now>>

RevokeCode(p) ==
  /\ call[p].step = "created"
  /\ pending' = [pending EXCEPT ![call[p].email] = None]
  /\ Step(p, "committed")
  /\ UNCHANGED <<user, attempts, now, history>>

-----------------------------------------------------------------------------
(* ChangeEmail and RegisterEmailUser. *)

ChangeEmail(p, a, e) ==
  /\ Begin(p, "change")
  /\ a \notin Blocked
  /\ ~TakenFrom(a, e)
  /\ check_email_resend_cooldown(user[a].expires)
  /\ Goes(p, [NoCall EXCEPT !.kind = "change", !.step = "changing", !.account = a,
                            !.email = e, !.snap = user[a]])
  /\ UNCHANGED <<stores, now, history>>

CommitChange(p) ==
  LET c == call[p] IN
  /\ c.step = "changing"
  /\ Save(c.account, c.snap, [c.snap EXCEPT !.pending = c.email, !.verified = FALSE,
                                            !.code = None, !.expires = None])
  /\ Step(p, "done")
  /\ UNCHANGED <<pending, attempts, now, history>>

\* A registration by password, whose address is not verified.
RegisterEmailUser(a, e) ==
  /\ user[a] = None /\ HasEmail(e) = {}
  /\ user' = [user EXCEPT ![a] = RowOf(e, FALSE)]
  /\ UNCHANGED <<pending, attempts, now, call, history>>

-----------------------------------------------------------------------------
\* A commit refused by the unique address raises.
CommitRaises(p) ==
  LET c == call[p] IN
  /\ c.step = "accepted"
  /\ IF c.account = None THEN HasEmail(c.email) # {}
     ELSE c.snap.pending # None /\ TakenFrom(c.account, c.snap.pending)
  /\ Step(p, "done")
  /\ UNCHANGED <<stores, now, history>>

\* The process stops in the middle of a call.
Stop(p) ==
  /\ "stop" \in Faults
  /\ call[p].step \in Running
  /\ Step(p, "stopped")
  /\ UNCHANGED <<stores, now, history>>

Tick ==
  /\ now < MaxNow
  /\ now' = now + 1
  /\ UNCHANGED <<stores, call, history>>

Next ==
  \/ \E p \in Call :
       \/ \E e \in Email : \/ RequestEmailCode(p, e)
                           \/ \E c \in Delivered \cup {None} : CountAttempt(p, e, c)
       \/ \E a \in Rows : \/ \E e \in Email : ChangeEmail(p, a, e)
                          \/ \E e \in Email \cup {None} : RequestEmailVerification(p, a, e)
                          \/ \E c \in Delivered : ConfirmEmailVerification(p, a, c)
       \/ Deliver(p) \/ DeliveryRaises(p) \/ StoreCode(p) \/ ResetAttempts(p)
       \/ ExpireAttempts(p) \/ Examine(p)
       \/ CommitConfirmed(p) \/ CommitRegistered(p) \/ RevokeCode(p)
       \/ CommitChange(p) \/ CommitRaises(p) \/ Stop(p)
  \/ \E a \in Account, e \in Email : RegisterEmailUser(a, e)
  \/ Tick

Spec == Init /\ [][Next]_vars

-----------------------------------------------------------------------------
\* Whatever code can be used was delivered, a pending one to its own address: a
\* failed delivery leaves neither a code nor a cooldown (email_code.py:113).
StoredWasDelivered ==
  /\ \A a \in Rows : user[a].code # None => user[a].code \in Delivered
  /\ \A e \in Email : pending[e] # None => [code |-> pending[e].code, to |-> e] \in delivered

\* A code that somebody has already used does not let in a login that starts later,
\* unless a registration created its user and never came to revoking the code.
SpentOnce ==
  \A p \in Call : call[p].step \in {"created", "committed"} => ~call[p].late

\* The attempts on a requested code are counted for as long as it can be used: between
\* a request's reset and the code's end the counter does not start again
\* (incr_email_code_attempts sets the expiry once, with the code's own life).
Settled(e) == \A p \in Call : call[p].email = e => call[p].step \notin {"stored", "counting", "stopped"}
Ends(e) == {pending[x].expires : x \in {x \in {e} : PendingCode(x) # None}}
           \cup {user[a].expires : a \in {a \in Rows : user[a].code # None
                  /\ call[user[a].code].kind = "request" /\ call[user[a].code].email = e}}
CounterOutlivesCode ==
  \A e \in Email : Settled(e) /\ Attempts(e).n > 0
                     => \A t \in Ends(e) : Attempts(e).until # None /\ Attempts(e).until >= t

\* Does not hold; "a signed single-use token" (_codes.py:46): at most one login per code.
SingleUse == \A c \in Call : uses[c] <= 1

\* Does not hold; "any code delivered to an address also proves ownership of it"
\* (email_code.py:163): an address is marked verified once a code delivered to it has been accepted.
VerifiedIsProven ==
  \A a \in Rows : user[a].verified /\ user[a].email # None => user[a].email \in proven
=============================================================================
