------------------------------ MODULE Sessions ------------------------------
(***************************************************************************)
(* Refresh tokens of the web API: a key per token and a set of tokens per  *)
(* user in Redis, written one call at a time.  A login or a refresh issues *)
(* one, a refresh takes the old one, a logout revokes one, a change of     *)
(* password revokes all that the user's set names and issues one more.     *)
(*                                                                         *)
(* A token is named by the call that issues it.  Keys live for 30 days and *)
(* every issue renews the set's life, so lives are not modelled.           *)
(***************************************************************************)
EXTENDS Naturals, FiniteSets

CONSTANTS
  User,
  Call,       \* requests, each of which may issue a token
  Parallel,   \* how many of them overlap
  Faults,     \* which faults may occur
  None

Kind == {"login", "refresh", "logout", "change"}

ConstantsAssumption ==
  /\ Parallel \in Nat
  /\ Faults \subseteq {"stop", "block"}
  /\ None \notin User \cup Call \cup Kind

VARIABLES
  key,        \* the token keys: whose they are, None when there is no key
  known,      \* the tokens in each user's set
  blocked,    \* users an administrator has blocked
  call,
  after,      \* the changes of password committed, and ended, before a call began
  rest        \* the sessions fully issued when a change was committed

redis == <<key, known>>
history == <<after, rest>>
vars == <<redis, blocked, call, history>>

Issuing == {"allowed", "keyed"}
Running == Issuing \cup {"taken", "verified", "committed", "listed", "dropped"}
CallState == [kind : Kind \cup {None}, step : Running \cup {"new", "done", "stopped"},
              user : User \cup {None}, token : Call \cup {None}, listed : SUBSET Call]

\* Every variable keeps its type.
TypeOK ==
  /\ key \in [Call -> User \cup {None}]
  /\ known \in [User -> SUBSET Call]
  /\ blocked \subseteq User
  /\ call \in [Call -> CallState]
  /\ after \in [Call -> [committed : SUBSET Call, ended : SUBSET Call]] /\ rest \in [Call -> SUBSET Call]

NoCall == [kind |-> None, step |-> "new", user |-> None, token |-> None, listed |-> {}]

Init ==
  /\ key = [t \in Call |-> None]
  /\ known = [u \in User |-> {}]
  /\ blocked \in SUBSET User
  /\ call = [c \in Call |-> NoCall]
  /\ after = [c \in Call |-> [committed |-> {}, ended |-> {}]] /\ rest = [c \in Call |-> {}]

Goes(c, to) == call' = [call EXCEPT ![c] = to]
Step(c, step) == call' = [call EXCEPT ![c].step = step]

ChangesOf(u) == {c \in Call : call[c].kind = "change" /\ call[c].user = u}
Begins(c, u) ==
  /\ call[c].step = "new"
  /\ Cardinality({d \in Call : call[d].step \in Running}) < Parallel
  /\ after' = [after EXCEPT ![c] =
       [committed |-> {d \in ChangesOf(u) : call[d].step # "verified"},
        ended |-> {d \in ChangesOf(u) : call[d].step \in Issuing \cup {"done"}}]]
  /\ UNCHANGED rest


-----------------------------------------------------------------------------
\* LoginEmailUser: the password is the one in the row when it is read.
Login(c, u) ==
  /\ u \notin blocked
  /\ Goes(c, [NoCall EXCEPT !.kind = "login", !.step = "allowed", !.user = u])
  /\ Begins(c, u)
  /\ UNCHANGED <<redis, blocked>>

\* Mutant: the token is read and deleted once its user is checked.
TakeToken_read(c, t) ==
  /\ key[t] # None
  /\ Goes(c, [NoCall EXCEPT !.kind = "refresh", !.step = "taken",
                            !.user = key[t], !.token = t])
  /\ Begins(c, key[t])
  /\ UNCHANGED <<redis, blocked>>

\* RefreshSession, logout: GETDEL, one of several callers gets the token.
TakeToken(c, t) ==
  /\ key[t] # None
  /\ \E kind \in {"refresh", "logout"} :
       /\ kind = "logout" => key[t] \notin blocked
       /\ Goes(c, [NoCall EXCEPT !.kind = kind, !.step = "taken",
                                 !.user = key[t], !.token = t])
  /\ Begins(c, key[t])
  /\ key' = [key EXCEPT ![t] = None]
  /\ UNCHANGED <<known, blocked>>

\* SREM, then for a refresh the user is looked up.
ForgetToken(c) ==
  LET u == call[c].user IN
  /\ call[c].step = "taken"
  /\ known' = [known EXCEPT ![u] = @ \ {call[c].token}]
  /\ Step(c, IF call[c].kind = "refresh" /\ u \notin blocked THEN "allowed" ELSE "done")
  /\ UNCHANGED <<key, blocked, history>>

\* ChangePassword, up to the read of its actor and the current password.
VerifyPassword(c, u) ==
  /\ u \notin blocked
  /\ Goes(c, [NoCall EXCEPT !.kind = "change", !.step = "verified", !.user = u])
  /\ Begins(c, u)
  /\ UNCHANGED <<redis, blocked>>

CommitPassword(c) ==
  /\ call[c].step = "verified"
  /\ Step(c, "committed")
  /\ rest' = [rest EXCEPT ![c] = {t \in Call : key[t] # None /\ call[t].step = "done"}]
  /\ UNCHANGED <<redis, blocked, after>>

\* revoke_all_user_tokens: SMEMBERS, DEL of the keys, DEL of the set.
ListTokens(c) ==
  /\ call[c].step = "committed"
  /\ Goes(c, [call[c] EXCEPT !.step = "listed", !.listed = known[call[c].user]])
  /\ UNCHANGED <<redis, blocked, history>>

\* Mutant: only the set is deleted.
DropTokens_set(c) ==
  /\ call[c].step = "listed"
  /\ Step(c, "dropped")
  /\ UNCHANGED <<redis, blocked, history>>

DropTokens(c) ==
  /\ call[c].step = "listed"
  /\ key' = [t \in Call |-> IF t \in call[c].listed THEN None ELSE key[t]]
  /\ Step(c, "dropped")
  /\ UNCHANGED <<known, blocked, history>>

\* The device that changed the password gets a session of its own.
DropSet(c) ==
  /\ call[c].step = "dropped"
  /\ known' = [known EXCEPT ![call[c].user] = {}]
  /\ Step(c, "allowed")
  /\ UNCHANGED <<key, blocked, history>>

\* Mutant: the token is not entered in its user's set.
StoreToken_alone(c) ==
  /\ call[c].step = "allowed"
  /\ key' = [key EXCEPT ![c] = call[c].user]
  /\ Step(c, "done")
  /\ UNCHANGED <<known, blocked, history>>

\* issue_session: SETEX, then SADD.
StoreToken(c) ==
  /\ call[c].step = "allowed"
  /\ key' = [key EXCEPT ![c] = call[c].user]
  /\ Step(c, "keyed")
  /\ UNCHANGED <<known, blocked, history>>

EnterToken(c) ==
  /\ call[c].step = "keyed"
  /\ known' = [known EXCEPT ![call[c].user] = @ \cup {c}]
  /\ Step(c, "done")
  /\ UNCHANGED <<key, blocked, history>>

-----------------------------------------------------------------------------
\* ToggleUserBlockedStatus: sessions stay, each use of one looks at the flag.
ToggleBlocked(u) ==
  /\ "block" \in Faults
  /\ blocked' = IF u \in blocked THEN blocked \ {u} ELSE blocked \cup {u}
  /\ UNCHANGED <<redis, call, history>>

Stop(c) ==
  /\ "stop" \in Faults
  /\ call[c].step \in Running
  /\ Step(c, "stopped")
  /\ UNCHANGED <<redis, blocked, history>>

Next ==
  \/ \E c \in Call :
       \/ \E u \in User : Login(c, u) \/ VerifyPassword(c, u)
       \/ \E t \in Call : TakeToken(c, t)
       \/ ForgetToken(c) \/ CommitPassword(c) \/ ListTokens(c) \/ DropTokens(c) \/ DropSet(c)
       \/ StoreToken(c) \/ EnterToken(c) \/ Stop(c)
  \/ \E u \in User : ToggleBlocked(u)

Spec == Init /\ [][Next]_vars

-----------------------------------------------------------------------------
\* A refresh token is exchanged for one session, however many requests present it,
\* and a logout that took it leaves nothing to exchange (session.py:24).
ExchangedOnce ==
  \A c, d \in Call : c # d /\ call[c].token # None => call[c].token # call[d].token

\* A session that can be refreshed is in its user's set, where a change of password
\* looks for it, unless a change that overlapped its issue emptied the set.
Reachable ==
  \A t \in Call : key[t] # None /\ call[t].step = "done" /\ ChangesOf(key[t]) \subseteq after[t].ended
                    => t \in known[key[t]]

Revoked(c) == call[c].step \in Issuing \cup {"dropped", "done"}
Earlier(c, t) == key[t] = call[c].user /\ t # c /\ c \notin after[t].committed

\* Sessions can be reached, and a user's only change of password leaves none that was at
\* rest when it was committed: what survives it was being issued meanwhile.
RestRevoked ==
  /\ Reachable
  /\ \A c, t \in Call : ChangesOf(key[t]) = {c} /\ Revoked(c) /\ Earlier(c, t)
                            => t \notin rest[c]

\* Does not hold; "all sessions were revoked" (web/endpoints/public/auth.py:270).
AllRevoked ==
  \A c, t \in Call : ChangesOf(key[t]) = {c} /\ Revoked(c) => ~Earlier(c, t)
=============================================================================
