-------------------------------- MODULE Roles --------------------------------
(***************************************************************************)
(* Who is who in the bot.  An update of a user first loads his row, or     *)
(* creates it, and makes the configured owner (BOT_OWNER_ID) the one       *)
(* OWNER; the command it carries then checks that row's role, reads the    *)
(* row of its target and writes one column of it.  Each of the three is a  *)
(* transaction of its own at READ COMMITTED, and updates interleave.       *)
(*                                                                         *)
(* The owner is configured anew by a restart, which ends what is running.  *)
(***************************************************************************)
EXTENDS Integers

CONSTANTS
  User,
  Update,     \* executions, one update each
  Beginnings, \* what a behaviour starts from: rows, owner, commands, updates
  None

USER == 1
PREVIEW == 2
ADMIN == 3
DEV == 4
OWNER == 5
Role == USER .. OWNER

\* Two values of each column the dashboard edits.
Column == {"personal", "purchase", "trial", "points", "code", "password", "email", "name",
           "blocked"}
Edit == Column \ {"blocked", "name"}
Commands == Edit \cup {"profile", "assign", "revoke", "block", "block_ids", "unblock_all"}

\* A row of users, as far as the commands here change it.
Account == [role : Role, column : [Column -> Int]]

OwnersIn(rows) == {u \in User : rows[u] # None /\ rows[u].role = OWNER}

\* There is one owner at most to begin with.
ConstantsAssumption ==
  /\ None \notin User \cup Account
  /\ \A b \in Beginnings :
       /\ b.owner \in User /\ b.commands \subseteq Commands /\ b.updates \subseteq Update
       /\ b.rows \in [User -> Account \cup {None}]
       /\ \A u, v \in OwnersIn(b.rows) : u = v

VARIABLES
  begun,    \* the beginning chosen
  row,      \* users, None for who has not come yet
  owner,    \* config.bot.owner_id
  update,   \* what each update is doing
  restarted,
  came,     \* history: the configured owner was seen by this process
  raced     \* history: a command wrote a role that was not the one it had checked

vars == <<begun, row, owner, update, restarted, came, raced>>

Resting == [step |-> "new", actor |-> None, as |-> USER, command |-> "none", targets |-> {},
            value |-> 0, read |-> [u \in {} |-> None], owners |-> {}, fresh |-> TRUE]

Init ==
  /\ begun \in Beginnings
  /\ row = begun.rows /\ owner = begun.owner
  /\ update = [p \in Update |-> IF p \in begun.updates THEN Resting
                               ELSE [Resting EXCEPT !.step = "done"]]
  /\ restarted = FALSE /\ came = FALSE /\ raced = FALSE

Known == {u \in User : row[u] # None}
Owners == OwnersIn(row)
Newcomer(role) ==
  [role |-> role, column |-> [c \in Column |-> 0]]

-----------------------------------------------------------------------------
(* GetOrCreateUser, for every update. *)

Arrive(p, u) ==
  LET is_owner == u = owner
      Next(step) == [update EXCEPT ![p] = [@ EXCEPT !.step = step, !.actor = u]]
  IN
  /\ update[p].step = "new"
  /\ update' = IF row[u] = None THEN Next("register")
               ELSE IF is_owner /\ row[u].role # OWNER
               THEN [Next("transfer") EXCEPT ![p].owners = Owners]
               ELSE [Next("ready") EXCEPT ![p].as = row[u].role]
  /\ came' = (came \/ (is_owner /\ u \in Owners))
  /\ UNCHANGED <<begun, row, owner, restarted, raced>>

\* What others read of the roles of S is old.
Ready(p, as, S) ==
  [q \in Update |->
     IF q = p THEN [update[p] EXCEPT !.step = "ready", !.as = as]
     ELSE IF update[q].targets \cap S # {} THEN [update[q] EXCEPT !.fresh = FALSE]
     ELSE update[q]]

\* Mutant: the old owners keep the role.
Demoted_none(S) == row

\* The owners become developers.
Demoted(S) == [u \in User |-> IF u \in S THEN [row[u] EXCEPT !.role = DEV] ELSE row[u]]

\* _transfer_owner_role, and the commit.
TransferOwnerRole(p) ==
  LET u == update[p].actor IN
  /\ update[p].step = "transfer"
  /\ row' = [Demoted(update[p].owners \ {u}) EXCEPT ![u].role = OWNER]
  /\ update' = Ready(p, OWNER, update[p].owners \cup {u})
  /\ came' = TRUE
  /\ UNCHANGED <<begun, owner, restarted, raced>>

\* The row is created; telegram_id is unique, a second one raises.
Register(p) ==
  LET u == update[p].actor
      role == IF u = owner THEN OWNER ELSE USER
  IN
  /\ update[p].step = "register"
  /\ IF row[u] # None
     THEN /\ update' = [update EXCEPT ![p].step = "done"]
          /\ UNCHANGED <<row, came>>
     ELSE /\ row' = [(IF u = owner THEN Demoted(Owners) ELSE row) EXCEPT ![u] = Newcomer(role)]
          /\ update' = Ready(p, role, IF u = owner THEN Owners ELSE {})
          /\ came' = (came \/ u = owner)
  /\ UNCHANGED <<begun, owner, restarted, raced>>

-----------------------------------------------------------------------------
(* The commands.  as is the actor's role of when the update began. *)

\* ROLE_PERMISSIONS, of the commands here.
Permitted(command, as) ==
  CASE command = "profile" -> TRUE
    [] command \in Edit \cup {"block"} -> as >= ADMIN
    [] OTHER -> as >= DEV

\* Mutant: equals may change each other.
Outranks_equal(p, u) == update[p].as >= row[u].role

Outranks(p, u) == update[p].as > row[u].role

\* The checks of each command, on the target it has read.
SetUserRole(p, u, role) ==
  update[p].actor # u /\ row[u].role # OWNER /\ update[p].as > role /\ Outranks(p, u)

RevokeRole(p, u) == update[p].actor # u /\ Outranks(p, u) /\ row[u].role # OWNER

EditsOwnOrBelow(p, u) == update[p].actor = u \/ Outranks(p, u)

Set(p, u, column, value) ==
  CASE column = "email" -> TRUE
    [] column = "points" -> EditsOwnOrBelow(p, u) /\ row[u].column["points"] + value >= 0
    [] column = "password" -> EditsOwnOrBelow(p, u) /\ row[u].column["email"] # 0
    [] OTHER -> EditsOwnOrBelow(p, u)

Reads(p, command, S, value) ==
  /\ update[p].step = "ready" /\ command \in begun.commands
  /\ Permitted(command, update[p].as)
  /\ update' = [update EXCEPT ![p] =
       [@ EXCEPT !.step = "write", !.command = command, !.targets = S, !.value = value,
                 !.read = [u \in S |-> row[u]], !.fresh = TRUE]]
  /\ UNCHANGED <<begun, row, owner, restarted, came, raced>>

Assign(p, u, role) == u \in Known /\ SetUserRole(p, u, role) /\ Reads(p, "assign", {u}, role)
Revoke(p, u) == u \in Known /\ RevokeRole(p, u) /\ Reads(p, "revoke", {u}, USER)

Change(p, u, column, value) ==
  u \in Known /\ Set(p, u, column, value) /\ Reads(p, column, {u}, value)

\* A discount or an address is set or cleared; points are added or taken off.
Values(column) ==
  CASE column = "points" -> {-1, 1}
    [] column \in {"trial", "code", "password"} -> {1}
    [] OTHER -> {0, 1}

\* UpdateUserProfile, before the handler runs: from the row just loaded.
UpdateProfile(p, value) == Reads(p, "profile", {update[p].actor}, value)

ToggleBlocked(p, u) == u \in Known /\ Outranks(p, u) /\ Reads(p, "block", {u}, 0)

\* Those below the actor and not blocked yet.
BlockUsersByIds(p, S) ==
  Reads(p, "block_ids",
        {u \in S \cap Known : Outranks(p, u) /\ row[u].column["blocked"] = 0}, 1)

UnblockAll(p) ==
  /\ \E u \in Known : row[u].column["blocked"] = 1
  /\ Reads(p, "unblock_all", {}, 0)

Leave(p) ==
  /\ update[p].step = "ready"
  /\ update' = [update EXCEPT ![p] = [Resting EXCEPT !.step = "done"]]
  /\ UNCHANGED <<begun, row, owner, restarted, came, raced>>

\* The value written: what was set, or reckoned from what was read.
Value(j, u) ==
  CASE j.command = "trial" -> 1 - j.read[u].column["trial"]
    [] j.command = "points" -> j.read[u].column["points"] + j.value
    [] j.command = "code" -> 1
    [] OTHER -> j.value

\* Mutant: the whole row is written as it was read.
Updated_whole(j, u) ==
  CASE j.command \in {"assign", "revoke"} -> [j.read[u] EXCEPT !.role = j.value]
    [] j.command = "profile" -> [j.read[u] EXCEPT !.column["name"] = j.value]
    [] j.command = "block" -> [row[u] EXCEPT !.column["blocked"] = 1 - @]
    [] j.command = "block_ids" -> [row[u] EXCEPT !.column["blocked"] = 1]
    [] OTHER -> [j.read[u] EXCEPT !.column[j.command] = Value(j, u)]

\* UserDao.update writes the column that was assigned, if its value changed;
\* toggle_blocked_status negates the stored one.
Updated(j, u) ==
  LET Assigned(c, v) == IF j.read[u].column[c] = v THEN row[u]
                        ELSE [row[u] EXCEPT !.column[c] = v]
  IN
  CASE j.command \in {"assign", "revoke"} ->
         IF j.read[u].role = j.value THEN row[u] ELSE [row[u] EXCEPT !.role = j.value]
    [] j.command = "profile" -> Assigned("name", j.value)
    [] j.command = "block" -> [row[u] EXCEPT !.column["blocked"] = 1 - @]
    [] j.command = "block_ids" -> [row[u] EXCEPT !.column["blocked"] = 1]
    [] OTHER -> Assigned(j.command, Value(j, u))

Write(p) ==
  LET j == update[p]
      roles == j.command \in {"assign", "revoke"}
  IN
  /\ j.step = "write"
  /\ row' = IF j.command = "unblock_all"
            THEN [u \in User |-> IF u \in Known THEN [row[u] EXCEPT !.column["blocked"] = 0]
                                 ELSE None]
            ELSE [u \in User |-> IF u \in j.targets THEN Updated(j, u) ELSE row[u]]
  /\ update' = [Ready(p, j.as, IF roles THEN j.targets ELSE {})
                  EXCEPT ![p] = IF j.command = "profile"
                                THEN [@ EXCEPT !.targets = {}] ELSE [Resting EXCEPT !.step = "done"]]
  /\ raced' = (raced \/ (roles /\ ~j.fresh))
  /\ UNCHANGED <<begun, owner, restarted, came>>

\* BOT_OWNER_ID names another.
Restart(u) ==
  /\ ~restarted /\ u # owner
  /\ owner' = u /\ restarted' = TRUE /\ came' = FALSE
  /\ update' = [p \in Update |-> IF update[p].step = "new" THEN update[p]
                                 ELSE [Resting EXCEPT !.step = "done"]]
  /\ UNCHANGED <<begun, row, raced>>

Next ==
  \/ \E p \in Update :
       \/ \E u \in User : \/ Arrive(p, u)
                          \/ Revoke(p, u) \/ ToggleBlocked(p, u)
                          \/ \E role \in {USER, ADMIN, DEV} : Assign(p, u, role)
                          \/ \E c \in Edit : \E v \in Values(c) : Change(p, u, c, v)
       \/ TransferOwnerRole(p) \/ Register(p)
       \/ UpdateProfile(p, 1) \/ UnblockAll(p) \/ Leave(p) \/ Write(p)
       \/ \E S \in SUBSET User : BlockUsersByIds(p, S)
  \/ \E u \in User : Restart(u)

Spec == Init /\ [][Next]_vars

-----------------------------------------------------------------------------
\* There are never two owners, and once the configured one was seen he is the OWNER,
\* whoever was before and whatever the commands that ran meanwhile had checked, unless one
\* of them wrote over a role that had changed since (GetOrCreateUser, SetUserRole).
OwnerIsConfigured ==
  /\ \A u, v \in Owners : u = v
  /\ came /\ ~raced => Owners = {owner}

ChangedColumns(u) == {c \in Column : row[u].column[c] # row'[u].column[c]}

\* The columns a command may change.
Names(command) ==
  CASE command \in {"assign", "revoke"} -> {}
    [] command \in {"block", "block_ids", "unblock_all"} -> {"blocked"}
    [] command = "profile" -> {"name"}
    [] OTHER -> {command}

\* A command changes the one column it is about, of its targets, and keeps what other
\* updates wrote meanwhile; a role only of somebody else, and only if the actor was above
\* the old and the new one when the update began, or the role changed since it was read.
RanksRespected ==
  [][\A p \in Update, u \in User :
       update[p].step = "write" /\ update'[p].step # "write" /\ row'[u] # row[u] =>
         LET j == update[p]
             role == row'[u].role # row[u].role
         IN
         /\ ChangedColumns(u) \subseteq Names(j.command)
         /\ role => j.command \in {"assign", "revoke"} /\ j.actor # u
         /\ role /\ j.fresh => j.as > row[u].role /\ j.as > row'[u].role
         /\ j.fresh => \/ j.actor = u \/ j.as > row[u].role
                       \/ j.command \in {"email", "unblock_all"}]_vars
=============================================================================
