-------------------------- MODULE DashboardProofs --------------------------
(***************************************************************************)
(* Theorems about Roles, for any users, any number of updates and any      *)
(* commands, about the windows of a user, for any users and shop, and      *)
(* about the dialogs that edit plans and promocodes, for any               *)
(* administrators, rows and files.                                         *)
(* That the configured owner is the only one rests on what a transfer has  *)
(* read: whoever became owner since is the actor himself, for only his     *)
(* updates transfer, and a restart that names another ends them.  That a   *)
(* window finds what it shows rests on what the window before it needed    *)
(* and on what its handler has just looked for.  That what is stored is    *)
(* sound, and that a save changes what was set, rests on what a form and a *)
(* command under way remember of the row, until somebody else writes it.   *)
(***************************************************************************)
EXTENDS DashboardMC, FiniteSetTheorems, TLAPS

\* Where an update is.
Steps == {"new", "register", "transfer", "ready", "write", "done"}
\* What an update remembers.
Job ==
  [step : Steps, actor : User \cup {None}, as : Role, command : Commands \cup {"none"},
   targets : SUBSET User, value : Int, read : UNION {[S -> Account] : S \in SUBSET User},
   owners : SUBSET User, fresh : BOOLEAN]

\* Every variable keeps its type.
TypeInv ==
  /\ row \in [User -> Account \cup {None}]
  /\ owner \in User
  /\ came \in BOOLEAN /\ raced \in BOOLEAN
  /\ update \in [Update -> Job]

\* Whoever was loaded has a row; rows are never deleted.
Loaded(p) ==
  /\ update[p].step = "register" => update[p].actor \in User
  /\ update[p].step \in {"transfer", "ready", "write"} => update[p].actor \in Known

\* What a command found when it read its targets.
Checked(j) ==
  \A u \in j.targets :
    /\ j.command \in {"assign", "revoke"} =>
         /\ j.actor # u /\ j.value \in Role \ {OWNER} /\ j.read[u].role # OWNER
         /\ j.as > j.value /\ j.as > j.read[u].role
    /\ j.command \in Edit \ {"email"} => j.actor = u \/ j.as > j.read[u].role
    /\ j.command \in {"block", "block_ids"} => j.as > j.read[u].role
    /\ j.command = "profile" => j.actor = u

\* A command holds what it read and had checked, and knows if a role was written since.
Holds(p) ==
  update[p].step = "write" =>
    /\ update[p].command \in Commands /\ update[p].targets \subseteq Known
    /\ update[p].command = "unblock_all" => update[p].targets = {}
    /\ Checked(update[p])
    /\ \A u \in update[p].targets :
         /\ update[p].read[u] \in Account
         /\ update[p].fresh => update[p].read[u].role = row[u].role

\* The owners a transfer is about to demote are all there are, but for its actor.
Transfers(p) ==
  update[p].step = "transfer" =>
    /\ update[p].actor = owner
    /\ update[p].owners \subseteq Known /\ Owners \subseteq update[p].owners \cup {owner}

OneOwner == \A u, v \in Owners : u = v

\* The configured owner, once seen, keeps the role.
CameInv == came /\ ~raced => owner \in Owners

\* The inductive invariant.
IInv ==
  /\ TypeInv
  /\ \A p \in Update : Loaded(p) /\ Holds(p) /\ Transfers(p)
  /\ OneOwner /\ CameInv


-----------------------------------------------------------------------------
USE DEF vars, USER, PREVIEW, ADMIN, DEV, OWNER, Role

\* An update that rests, and one that is over.
LEMMA RestingJob ==
  /\ Resting \in Job /\ Resting.step = "new"
  /\ [Resting EXCEPT !.step = "done"] \in Job
  /\ [Resting EXCEPT !.step = "done"].step = "done"
<1>1. Resting \in Job
  BY DEF Job, Resting, Steps
<1>2. Resting.step = "new"
  BY DEF Resting
<1>. QED
  BY <1>1, <1>2 DEF Job, Steps

\* There is one owner at most, and no update has read anything.
LEMMA InitIInv == ConstantsAssumption /\ Init => IInv
<1> SUFFICES ASSUME ConstantsAssumption, Init PROVE IInv
  OBVIOUS
<1>1. ASSUME NEW p \in Update PROVE update[p] \in Job /\ update[p].step \in {"new", "done"}
  <2>1. \/ update[p] = Resting
        \/ update[p] = [Resting EXCEPT !.step = "done"]
    BY <1>1 DEF Init
  <2>. QED
    BY <2>1, RestingJob
<1>2. TypeInv
  BY <1>1 DEF Init, TypeInv, ConstantsAssumption
<1>3. ASSUME NEW p \in Update PROVE Loaded(p) /\ Holds(p) /\ Transfers(p)
  BY <1>1 DEF Loaded, Holds, Transfers
<1>4. OneOwner /\ CameInv
  BY DEF Init, OneOwner, CameInv, ConstantsAssumption, Owners
<1>. QED
  BY <1>2, <1>3, <1>4 DEF IInv

\* Whatever a command reads, it has checked: the seven that read are one step.
Checks(p, command, S, value) ==
  /\ command \in Commands /\ S \subseteq Known /\ value \in Int
  /\ command = "unblock_all" => S = {}
  /\ \A u \in S :
       /\ command \in {"assign", "revoke"} =>
            /\ update[p].actor # u /\ value \in Role \ {OWNER} /\ row[u].role # OWNER
            /\ update[p].as > value /\ update[p].as > row[u].role
       /\ command \in Edit \ {"email"} => update[p].actor = u \/ update[p].as > row[u].role
       /\ command \in {"block", "block_ids"} => update[p].as > row[u].role
       /\ command = "profile" => update[p].actor = u

Command(p) ==
  \E command \in Commands, S \in SUBSET User, value \in Int :
    Checks(p, command, S, value) /\ Reads(p, command, S, value)

\* The edits of a profile are commands of their own.
LEMMA EditIsColumn ==
  /\ \A c \in Edit : c \in Commands
  /\ \A c \in Edit : c \notin {"profile", "assign", "revoke", "block", "block_ids", "unblock_all"}
  BY DEF Edit, Column, Commands

\* SetUserRole refuses an owner and whoever is not below its actor.
LEMMA AssignChecks ==
  ASSUME IInv, NEW p \in Update, NEW u \in User, NEW role \in {USER, ADMIN, DEV}, Assign(p, u, role)
  PROVE  Command(p)
<1>1. update[p] \in Job /\ row[u] \in Account
  BY DEF IInv, TypeInv, Assign, Known
<1>2. Checks(p, "assign", {u}, role)
  BY <1>1 DEF Assign, SetUserRole, Outranks, Checks, Commands, Job, Account, Edit, Column
<1>. QED
  BY <1>2 DEF Command, Assign, Commands

\* RevokeRole refuses its actor, owners and the actor's equals.
LEMMA RevokeChecks ==
  ASSUME IInv, NEW p \in Update, NEW u \in User, Revoke(p, u)
  PROVE  Command(p)
<1>1. update[p] \in Job /\ row[u] \in Account
  BY DEF IInv, TypeInv, Revoke, Known
<1>2. Checks(p, "revoke", {u}, USER)
  BY <1>1 DEF Revoke, RevokeRole, Outranks, Checks, Commands, Job, Account, Edit, Column
<1>3. {u} \in SUBSET User /\ "revoke" \in Commands /\ USER \in Int
  BY DEF Commands
<1>. QED
  BY <1>2, <1>3 DEF Command, Revoke

\* A change of the profile refuses whom its actor may not edit.
LEMMA ChangeChecks ==
  ASSUME IInv, NEW p \in Update, NEW u \in User, NEW c \in Edit, NEW v \in Values(c),
         Change(p, u, c, v)
  PROVE  Command(p)
<1>1. v \in Int
  BY DEF Values
<1>2. c = "email" \/ update[p].actor = u \/ update[p].as > row[u].role
  BY DEF Change, Set, EditsOwnOrBelow, Outranks
<1>3. Checks(p, c, {u}, v)
  BY <1>1, <1>2, EditIsColumn DEF Change, Checks
<1>. QED
  BY <1>1, <1>3, EditIsColumn DEF Command, Change

\* An update of the own profile is about its actor.
LEMMA ProfileChecks ==
  ASSUME IInv, NEW p \in Update, UpdateProfile(p, 1)
  PROVE  Command(p)
<1>1. update[p].actor \in Known
  BY DEF IInv, Loaded, UpdateProfile, Reads
<1>2. Checks(p, "profile", {update[p].actor}, 1)
  BY <1>1, EditIsColumn DEF Checks, Commands
<1>. QED
  BY <1>1, <1>2 DEF Command, UpdateProfile, Commands, Known

\* A block, or its end, is of somebody the actor is above.
LEMMA BlockChecks ==
  ASSUME IInv, NEW p \in Update, NEW u \in User, ToggleBlocked(p, u)
  PROVE  Command(p)
<1>1. Checks(p, "block", {u}, 0)
  BY EditIsColumn DEF ToggleBlocked, Outranks, Checks, Commands
<1>2. {u} \in SUBSET User /\ "block" \in Commands
  BY DEF Commands
<1>. QED
  BY <1>1, <1>2 DEF Command, ToggleBlocked

\* A block by a list leaves out whom the actor is not above.
LEMMA BlockIdsChecks ==
  ASSUME IInv, NEW p \in Update, NEW S \in SUBSET User, BlockUsersByIds(p, S)
  PROVE  Command(p)
<1> DEFINE T == {u \in S \cap Known : Outranks(p, u) /\ row[u].column["blocked"] = 0}
<1>1. Checks(p, "block_ids", T, 1)
  BY EditIsColumn DEF Outranks, Checks, Commands
<1>2. T \in SUBSET User /\ Reads(p, "block_ids", T, 1)
  BY DEF BlockUsersByIds
<1>. QED
  BY <1>1, <1>2 DEF Command, Commands

\* Ending all blocks checks nothing and writes the block alone.
LEMMA UnblockChecks ==
  ASSUME IInv, NEW p \in Update, UnblockAll(p)
  PROVE  Command(p)
<1>1. Checks(p, "unblock_all", {}, 0)
  BY EditIsColumn DEF Checks, Commands
<1>. QED
  BY <1>1 DEF Command, UnblockAll, Commands

\* What is left of Next.
Step(p) ==
  \/ \E u \in User : Arrive(p, u)
  \/ TransferOwnerRole(p)
  \/ Register(p)
  \/ Command(p)
  \/ Leave(p)
  \/ Write(p)

\* The disjuncts of Next, the seven reading commands as one.
LEMMA NextCases ==
  ASSUME IInv, Next
  PROVE  \/ \E p \in Update : Step(p)
         \/ \E u \in User : Restart(u)
<1>1. ASSUME NEW p \in Update, NEW u \in User, Arrive(p, u) PROVE Step(p)
  BY <1>1 DEF Step
<1>2. ASSUME NEW p \in Update, Command(p) PROVE Step(p)
  BY <1>2 DEF Step
<1>3. ASSUME NEW p \in Update, TransferOwnerRole(p) \/ Register(p) \/ Leave(p) \/ Write(p)
      PROVE  Step(p)
  BY <1>3 DEF Step
<1>. QED
  BY <1>1, <1>2, <1>3, AssignChecks, RevokeChecks, ChangeChecks, ProfileChecks, BlockChecks,
     BlockIdsChecks, UnblockChecks DEF Next

-----------------------------------------------------------------------------
(* What is left alone. *)

\* Another update may learn that the roles of S were written, no more.
Keeps(j, k, S) ==
  \/ k = j /\ j.targets \cap S = {}
  \/ k = [j EXCEPT !.fresh = FALSE]

\* Rows stay, and the roles of all but S.
RolesKept(S) ==
  \A v \in Known : row'[v] # None /\ (v \notin S => row'[v].role = row[v].role)

\* A step that writes only rows of S keeps what is claimed of the others' calls.
LEMMA OthersStay ==
  ASSUME IInv, NEW q \in Update, NEW S, Keeps(update[q], update'[q], S), RolesKept(S),
         owner' = owner, Owners' \subseteq Owners \cup {owner}
  PROVE  (update[q] \in Job)' /\ Loaded(q)' /\ Holds(q)' /\ Transfers(q)'
<1>. DEFINE j == update[q]  k == update'[q]
<1>1. j \in Job /\ Loaded(q) /\ Holds(q) /\ Transfers(q)
  BY DEF IInv, TypeInv
<1>2. /\ k \in Job /\ k.step = j.step /\ k.actor = j.actor /\ k.as = j.as
      /\ k.command = j.command /\ k.targets = j.targets /\ k.value = j.value
      /\ k.read = j.read /\ k.owners = j.owners
      /\ k.fresh => j.fresh /\ j.targets \cap S = {}
  BY <1>1 DEF Keeps, Job
<1>3. Known \subseteq Known'
  BY DEF RolesKept, Known
<1>4. Loaded(q)'
  BY <1>1, <1>2, <1>3 DEF Loaded
<1>5. Transfers(q)'
  BY <1>1, <1>2, <1>3 DEF Transfers
<1>6. Checked(j) => Checked(k)
  BY <1>2 DEF Checked
<1>7. Holds(q)'
  BY <1>1, <1>2, <1>3, <1>6 DEF Holds, RolesKept
<1>. QED
  BY <1>2, <1>4, <1>5, <1>7

\* An update that is ready, and what the others learn.
LEMMA ReadyEffect ==
  ASSUME update \in [Update -> Job], NEW p \in Update, NEW as \in Role, NEW S,
         NEW next, next = Ready(p, as, S)
  PROVE  /\ next \in [Update -> Job]
         /\ \A q \in Update \ {p} : Keeps(update[q], next[q], S)
         /\ next[p].step = "ready" /\ next[p].actor = update[p].actor
         /\ next[p].targets = update[p].targets
<1>1. ASSUME NEW q \in Update \ {p}
      PROVE  Keeps(update[q], next[q], S) /\ next[q] \in Job
  <2>1. CASE update[q].targets \cap S # {}
    <3>1. next[q] = [update[q] EXCEPT !.fresh = FALSE]
      BY <2>1 DEF Ready
    <3>2. [update[q] EXCEPT !.fresh = FALSE] \in Job
      BY DEF Job
    <3>. QED
      BY <3>1, <3>2 DEF Keeps
  <2>2. CASE update[q].targets \cap S = {}
    BY <2>2 DEF Ready, Keeps
  <2>. QED
    BY <2>1, <2>2
<1>2. next[p] = [update[p] EXCEPT !.step = "ready", !.as = as]
  BY DEF Ready
<1>3. /\ next[p] \in Job /\ next[p].step = "ready" /\ next[p].actor = update[p].actor
      /\ next[p].targets = update[p].targets
  <2>1. update[p] \in Job
    OBVIOUS
  <2>2. [update[p] EXCEPT !.step = "ready", !.as = as] \in Job
    BY <2>1 DEF Job, Steps
  <2>. QED
    BY <1>2, <2>1, <2>2 DEF Job
<1>4. next = [q \in Update |-> next[q]]
  BY DEF Ready
<1>. QED
  BY <1>1, <1>3, <1>4

-----------------------------------------------------------------------------
(* The steps. *)

\* An update arrives, and knows its user if he has a row.
LEMMA ArriveStep ==
  ASSUME IInv, NEW p \in Update, NEW u \in User, Arrive(p, u)
  PROVE  IInv'
<1>1. update[p] \in Job /\ update[p].step = "new" /\ update \in [Update -> Job]
  BY DEF IInv, TypeInv, Arrive
<1>. DEFINE next(step) == [update[p] EXCEPT !.step = step, !.actor = u]
<1>2. ASSUME NEW step \in Steps
      PROVE  next(step) \in Job /\ next(step).step = step /\ next(step).actor = u
  BY <1>1 DEF Job
<1>. HIDE DEF next
<1>3. row[u] # None => row[u].role \in Role
  BY DEF IInv, TypeInv, Account
<1>4. /\ update' = [q \in Update |-> update'[q]]
      /\ \A q \in Update \ {p} : update'[q] = update[q]
      /\ update'[p] \in Job /\ update'[p].step \in {"register", "transfer", "ready"}
      /\ update'[p].actor = u
      /\ update'[p].step # "register" => row[u] # None
      /\ update'[p].step = "transfer" => u = owner /\ update'[p].owners = Owners
  <2>1. CASE row[u] = None
    <3>1. update' = [update EXCEPT ![p] = next("register")]
      BY <2>1 DEF Arrive, next
    <3>. QED
      BY <1>1, <1>2, <2>1, <3>1 DEF Steps
  <2>2. CASE row[u] # None /\ u = owner /\ row[u].role # OWNER
    <3>1. update' = [[update EXCEPT ![p] = next("transfer")] EXCEPT ![p].owners = Owners]
      BY <2>2 DEF Arrive, next
    <3>2. update' = [update EXCEPT ![p] = [next("transfer") EXCEPT !.owners = Owners]]
      BY <1>1, <3>1
    <3>3. Owners \in SUBSET User
      BY DEF Owners, OwnersIn
    <3>4. /\ [next("transfer") EXCEPT !.owners = Owners] \in Job
          /\ [next("transfer") EXCEPT !.owners = Owners].step = "transfer"
          /\ [next("transfer") EXCEPT !.owners = Owners].actor = u
          /\ [next("transfer") EXCEPT !.owners = Owners].owners = Owners
      BY <1>2, <3>3 DEF Job, Steps
    <3>. QED
      BY <1>1, <2>2, <3>2, <3>4
  <2>3. CASE row[u] # None /\ ~(u = owner /\ row[u].role # OWNER)
    <3>1. update' = [[update EXCEPT ![p] = next("ready")] EXCEPT ![p].as = row[u].role]
      BY <2>3 DEF Arrive, next
    <3>2. update' = [update EXCEPT ![p] = [next("ready") EXCEPT !.as = row[u].role]]
      BY <1>1, <3>1
    <3>3. /\ [next("ready") EXCEPT !.as = row[u].role] \in Job
          /\ [next("ready") EXCEPT !.as = row[u].role].step = "ready"
          /\ [next("ready") EXCEPT !.as = row[u].role].actor = u
      BY <1>2, <1>3, <2>3 DEF Job, Steps
    <3>. QED
      BY <1>1, <2>3, <3>2, <3>3
  <2>. QED
    BY <2>1, <2>2, <2>3
<1>5. /\ row' = row /\ owner' = owner /\ raced' = raced
      /\ came' = (came \/ (u = owner /\ u \in Owners))
  BY DEF Arrive
<1>6. Known' = Known /\ Owners' = Owners
  BY <1>5 DEF Known, Owners
<1>7. TypeInv'
  BY <1>4, <1>5 DEF IInv, TypeInv
<1>8. ASSUME NEW q \in Update PROVE Loaded(q)' /\ Holds(q)' /\ Transfers(q)'
  <2>1. CASE q = p
    BY <1>4, <1>5, <1>6, <2>1 DEF Loaded, Holds, Transfers, Known, Owners, OwnersIn
  <2>2. CASE q # p
    BY <1>4, <1>5, <2>2 DEF IInv, Loaded, Holds, Transfers, Known, Owners, OwnersIn
  <2>. QED
    BY <2>1, <2>2
<1>9. OneOwner' /\ CameInv'
  BY <1>5, <1>6 DEF IInv, OneOwner, CameInv
<1>. QED
  BY <1>7, <1>8, <1>9 DEF IInv

\* A command reads, and holds what it checked.
LEMMA CommandStep ==
  ASSUME IInv, NEW p \in Update, Command(p)
  PROVE  IInv'
<1>1. PICK command \in Commands, S \in SUBSET User, value \in Int :
        Checks(p, command, S, value) /\ Reads(p, command, S, value)
  BY DEF Command
<1>2. update[p] \in Job /\ update[p].step = "ready" /\ update \in [Update -> Job]
  BY <1>1 DEF IInv, TypeInv, Reads
<1>. DEFINE read == [u \in S |-> row[u]]
            next == [update[p] EXCEPT !.step = "write", !.command = command, !.targets = S,
                                      !.value = value, !.read = read, !.fresh = TRUE]
<1>3. /\ update' = [q \in Update |-> update'[q]]
      /\ \A q \in Update \ {p} : update'[q] = update[q]
      /\ update'[p] = next
  <2>1. update' = [update EXCEPT ![p] = next]
    BY <1>1 DEF Reads
  <2>. HIDE DEF next
  <2>. QED
    BY <1>2, <2>1
<1>4. read \in [S -> Account]
  BY <1>1 DEF Checks, Known, IInv, TypeInv
<1>. HIDE DEF read
<1>a. /\ next \in Job /\ next.step = "write" /\ next.actor = update[p].actor
      /\ next.as = update[p].as /\ next.command = command /\ next.targets = S
      /\ next.value = value /\ next.read = read
  <2>1. next \in Job
    <3>1. read \in UNION {[T -> Account] : T \in SUBSET User}
      BY <1>4
    <3>2. "write" \in Steps /\ command \in Commands \cup {"none"} /\ TRUE \in BOOLEAN
      BY DEF Steps
    <3>. QED
      BY <1>2, <3>1, <3>2 DEF Job
  <2>2. next.step = "write" /\ next.actor = update[p].actor /\ next.as = update[p].as
    BY <1>2 DEF Job
  <2>3. next.command = command /\ next.targets = S /\ next.value = value /\ next.read = read
    BY <1>2 DEF Job
  <2>. QED
    BY <2>1, <2>2, <2>3
<1>. HIDE DEF next
<1>5. row' = row /\ owner' = owner /\ raced' = raced /\ came' = came
  BY <1>1 DEF Reads
<1>6. Known' = Known /\ Owners' = Owners
  BY <1>5 DEF Known, Owners
<1>7. TypeInv'
  BY <1>3, <1>a, <1>5 DEF IInv, TypeInv
<1>8. ASSUME NEW q \in Update PROVE Loaded(q)' /\ Holds(q)' /\ Transfers(q)'
  <2>1. CASE q = p
    <3>1. Loaded(p)' /\ Transfers(p)'
      BY <1>2, <1>3, <1>a, <1>6 DEF IInv, Loaded, Transfers
    <3>2. ASSUME NEW u \in S PROVE read[u] \in Account /\ read[u] = row[u]
      BY <1>4, <3>2 DEF read
    <3>3. Checked(next)
      BY <1>1, <1>a, <3>2 DEF Checks, Checked
    <3>4. Holds(p)'
      BY <1>1, <1>3, <1>a, <1>5, <1>6, <3>2, <3>3 DEF Holds, Checks
    <3>. QED
      BY <2>1, <3>1, <3>4
  <2>2. CASE q # p
    BY <1>3, <1>5, <2>2 DEF IInv, Loaded, Holds, Transfers, Known, Owners, OwnersIn
  <2>. QED
    BY <2>1, <2>2
<1>9. OneOwner' /\ CameInv'
  BY <1>5, <1>6 DEF IInv, OneOwner, CameInv
<1>. QED
  BY <1>7, <1>8, <1>9 DEF IInv

\* An update that changes nothing ends.
LEMMA LeaveStep ==
  ASSUME IInv, NEW p \in Update, Leave(p)
  PROVE  IInv'
<1>1. /\ update' = [q \in Update |-> update'[q]]
      /\ \A q \in Update \ {p} : update'[q] = update[q]
      /\ update'[p] \in Job /\ update'[p].step = "done"
      /\ row' = row /\ owner' = owner /\ raced' = raced /\ came' = came
  BY RestingJob DEF Leave, IInv, TypeInv
<1>2. Known' = Known /\ Owners' = Owners
  BY <1>1 DEF Known, Owners
<1>3. TypeInv'
  BY <1>1 DEF IInv, TypeInv
<1>4. ASSUME NEW q \in Update PROVE Loaded(q)' /\ Holds(q)' /\ Transfers(q)'
  <2>1. CASE q = p
    BY <1>1, <2>1 DEF Loaded, Holds, Transfers
  <2>2. CASE q # p
    BY <1>1, <2>2 DEF IInv, Loaded, Holds, Transfers, Known, Owners, OwnersIn
  <2>. QED
    BY <2>1, <2>2
<1>5. OneOwner' /\ CameInv'
  BY <1>1, <1>2 DEF IInv, OneOwner, CameInv
<1>. QED
  BY <1>3, <1>4, <1>5 DEF IInv

\* The owners that were read are demoted; one who came since is the actor.
LEMMA TransferStep ==
  ASSUME ConstantsAssumption, IInv, NEW p \in Update, TransferOwnerRole(p)
  PROVE  IInv'
<1>. DEFINE u == update[p].actor  S == update[p].owners \cup {u}
<1>0. None \notin Account
  BY DEF ConstantsAssumption
<1>1. /\ u = owner /\ u \in Known /\ update[p].owners \subseteq Known
      /\ Owners \subseteq S /\ u \in S
  BY DEF IInv, Loaded, Transfers, TransferOwnerRole
<1>2. /\ update' = Ready(p, OWNER, S) /\ OWNER \in Role
      /\ owner' = owner /\ raced' = raced /\ came' = TRUE
      /\ row' = [Demoted(update[p].owners \ {u}) EXCEPT ![u].role = OWNER]
  BY DEF TransferOwnerRole
<1>3. ASSUME NEW v \in User
      PROVE  /\ v \notin S => row'[v] = row[v]
             /\ v \in S \ {u} => row'[v] = [row[v] EXCEPT !.role = DEV]
             /\ v = u => row'[v] = [row[v] EXCEPT !.role = OWNER]
  BY <1>1, <1>2 DEF Demoted, Known
<1>. HIDE DEF S, u
<1>4. ASSUME NEW v \in User
      PROVE  /\ row'[v] \in Account \cup {None}
             /\ v \in Known => row'[v] \in Account
             /\ v \notin Known => row'[v] = None
             /\ v \in S \ {u} => row'[v].role = DEV
             /\ v = u => row'[v].role = OWNER
  <2>1. row[v] \in Account \cup {None} /\ (v \in Known => row[v] \in Account)
    BY DEF Known, IInv, TypeInv
  <2>2. \A a \in Account : /\ [a EXCEPT !.role = DEV] \in Account
                           /\ [a EXCEPT !.role = DEV].role = DEV
                           /\ [a EXCEPT !.role = OWNER] \in Account
                           /\ [a EXCEPT !.role = OWNER].role = OWNER
    BY DEF Account
  <2>3. S \subseteq Known
    BY <1>1 DEF S
  <2>4. CASE v = u
    BY <1>1, <1>3, <2>1, <2>2, <2>4
  <2>5. CASE v \in S \ {u}
    BY <1>3, <2>1, <2>2, <2>3, <2>5
  <2>6. CASE v \notin S /\ v # u
    BY <1>3, <2>1, <2>6 DEF Known
  <2>. QED
    BY <2>4, <2>5, <2>6
<1>5. row' \in [User -> Account \cup {None}]
  BY <1>2, <1>4 DEF Demoted
<1>6. Known' = Known /\ Owners' = {owner}
  <2>1. ASSUME NEW v \in User PROVE v \in Owners' <=> v = owner
    <3>1. CASE v = u
      BY <1>0, <1>1, <1>4, <3>1 DEF Owners, OwnersIn
    <3>2. CASE v \in S \ {u}
      BY <1>1, <1>4, <3>2 DEF Owners, OwnersIn
    <3>3. CASE v \notin S
      BY <1>1, <1>3, <3>3 DEF Owners, OwnersIn
    <3>. QED
      BY <3>1, <3>2, <3>3
  <2>2. Known' = Known
    BY <1>0, <1>4 DEF Known, IInv, TypeInv
  <2>. QED
    BY <2>1, <2>2, <1>1 DEF Owners, OwnersIn, Known
<1>7. /\ update' \in [Update -> Job] /\ update'[p].step = "ready" /\ update'[p].actor = u
      /\ \A q \in Update \ {p} : Keeps(update[q], update'[q], S)
  BY <1>2, ReadyEffect DEF IInv, TypeInv, u
<1>8. RolesKept(S)
  BY <1>0, <1>1, <1>3, <1>4 DEF RolesKept, Known
<1>9. TypeInv'
  BY <1>2, <1>5, <1>7 DEF IInv, TypeInv, TransferOwnerRole
<1>10. ASSUME NEW q \in Update PROVE Loaded(q)' /\ Holds(q)' /\ Transfers(q)'
  <2>1. CASE q = p
    BY <1>1, <1>6, <1>7, <2>1 DEF Loaded, Holds, Transfers
  <2>2. CASE q # p
    BY <1>2, <1>6, <1>7, <1>8, <2>2, OthersStay
  <2>. QED
    BY <2>1, <2>2
<1>11. OneOwner' /\ CameInv'
  BY <1>2, <1>6 DEF OneOwner, CameInv
<1>. QED
  BY <1>9, <1>10, <1>11 DEF IInv

\* The configured owner's first row takes the role; anybody else's has none.
LEMMA RegisterStep ==
  ASSUME ConstantsAssumption, IInv, NEW p \in Update, Register(p)
  PROVE  IInv'
<1>. DEFINE u == update[p].actor  role == IF u = owner THEN OWNER ELSE USER
            S == IF u = owner THEN Owners ELSE {}
<1>1. CASE row[u] # None
  <2>1. /\ update' = [update EXCEPT ![p].step = "done"]
        /\ row' = row /\ owner' = owner /\ raced' = raced /\ came' = came
    BY <1>1 DEF Register
  <2>2. /\ update' \in [Update -> Job] /\ update'[p].step = "done"
        /\ \A q \in Update \ {p} : update'[q] = update[q]
    <3>1. [update[p] EXCEPT !.step = "done"] \in Job
      BY DEF IInv, TypeInv, Job, Steps
    <3>2. update[p] \in Job
      BY DEF IInv, TypeInv
    <3>. QED
      BY <2>1, <3>1, <3>2 DEF IInv, TypeInv, Job
  <2>3. Known' = Known /\ Owners' = Owners
    BY <2>1 DEF Known, Owners
  <2>4. TypeInv'
    BY <2>1, <2>2 DEF IInv, TypeInv
  <2>5. ASSUME NEW q \in Update PROVE Loaded(q)' /\ Holds(q)' /\ Transfers(q)'
    <3>1. CASE q = p
      BY <2>2, <3>1 DEF Loaded, Holds, Transfers
    <3>2. CASE q # p
      BY <2>1, <2>2, <3>2 DEF IInv, Loaded, Holds, Transfers, Known, Owners, OwnersIn
    <3>. QED
      BY <3>1, <3>2
  <2>6. OneOwner' /\ CameInv'
    BY <2>1, <2>3 DEF IInv, OneOwner, CameInv
  <2>. QED
    BY <2>4, <2>5, <2>6 DEF IInv
<1>2. CASE row[u] = None
  <2>0. None \notin Account /\ u \in User
    BY DEF ConstantsAssumption, IInv, Loaded, Register
  <2>1. /\ update' = Ready(p, role, S) /\ role \in Role
        /\ owner' = owner /\ raced' = raced /\ came' = (came \/ u = owner)
        /\ row' = [(IF u = owner THEN Demoted(Owners) ELSE row) EXCEPT ![u] = Newcomer(role)]
    BY <1>2 DEF Register
  <2>. DEFINE base == IF u = owner THEN Demoted(Owners) ELSE row
  <2>2. ASSUME NEW v \in User
        PROVE  base[v] = IF v \in S THEN [row[v] EXCEPT !.role = DEV] ELSE row[v]
    BY DEF Demoted
  <2>3. base = [v \in User |-> base[v]]
    BY DEF Demoted, IInv, TypeInv
  <2>. HIDE DEF base
  <2>4. ASSUME NEW v \in User
        PROVE  row'[v] = IF v = u THEN Newcomer(role) ELSE base[v]
    BY <2>0, <2>1, <2>3 DEF base
  <2>5. Newcomer(role) \in Account /\ Newcomer(role).role = role
    BY <2>1 DEF Newcomer, Account
  <2>6. S \subseteq Known /\ u \notin Known
    BY <1>2 DEF Known, Owners, OwnersIn
  <2>. HIDE DEF S, u
  <2>7. ASSUME NEW v \in User
        PROVE  /\ row'[v] \in Account \cup {None}
               /\ v \in Known \cup {u} => row'[v] \in Account
               /\ v \notin Known \cup {u} => row'[v] = None
               /\ v = u => row'[v].role = role
               /\ v \in S => row'[v].role = DEV
               /\ v \in Known \ S => row'[v].role = row[v].role
    <3>1. row[v] \in Account \cup {None} /\ (v \in Known => row[v] \in Account)
      BY DEF Known, IInv, TypeInv
    <3>2. \A a \in Account : /\ [a EXCEPT !.role = DEV] \in Account
                             /\ [a EXCEPT !.role = DEV].role = DEV
      BY DEF Account
    <3>3. CASE v = u
      BY <2>4, <2>5, <2>6, <3>3
    <3>4. CASE v \in S
      <4>1. v # u /\ v \in Known /\ row[v] \in Account
        BY <2>6, <3>1, <3>4
      <4>2. row'[v] = [row[v] EXCEPT !.role = DEV]
        BY <2>2, <2>4, <3>4, <4>1
      <4>. QED
        BY <3>2, <3>4, <4>1, <4>2
    <3>5. CASE v \notin S /\ v # u
      BY <2>2, <2>4, <3>1, <3>5 DEF Known
    <3>. QED
      BY <3>3, <3>4, <3>5
  <2>8. row' \in [User -> Account \cup {None}]
    BY <2>1, <2>3, <2>7 DEF base
  <2>9. /\ Known' = Known \cup {u}
        /\ u = owner => Owners' = {owner}
        /\ u # owner => Owners' = Owners
    <3>1. ASSUME NEW v \in User PROVE v \in Known' <=> v \in Known \cup {u}
      BY <2>0, <2>7 DEF Known
    <3>2. ASSUME NEW v \in User, u = owner PROVE v \in Owners' <=> v = owner
      BY <2>0, <2>7, <3>1, <3>2 DEF Owners, OwnersIn, Known, S, role
    <3>3. ASSUME NEW v \in User, u # owner PROVE v \in Owners' <=> v \in Owners
      BY <2>0, <2>6, <2>7, <3>1, <3>3 DEF Owners, OwnersIn, Known, S, role
    <3>. QED
      BY <2>0, <2>1, <3>1, <3>2, <3>3 DEF Owners, OwnersIn, Known
  <2>10. /\ update' \in [Update -> Job] /\ update'[p].step = "ready" /\ update'[p].actor = u
         /\ \A q \in Update \ {p} : Keeps(update[q], update'[q], S)
    BY <2>1, ReadyEffect DEF IInv, TypeInv, u
  <2>11. RolesKept(S)
    BY <2>0, <2>7 DEF RolesKept, Known
  <2>12. TypeInv'
    BY <2>1, <2>8, <2>10 DEF IInv, TypeInv
  <2>13. ASSUME NEW q \in Update PROVE Loaded(q)' /\ Holds(q)' /\ Transfers(q)'
    <3>1. CASE q = p
      BY <2>9, <2>10, <3>1 DEF Loaded, Holds, Transfers
    <3>2. CASE q # p
      BY <2>1, <2>9, <2>10, <2>11, <3>2, OthersStay
    <3>. QED
      BY <3>1, <3>2
  <2>14. OneOwner' /\ CameInv'
    BY <2>1, <2>9 DEF IInv, OneOwner, CameInv
  <2>. QED
    BY <2>12, <2>13, <2>14 DEF IInv
<1>. QED
  BY <1>1, <1>2

\* A row with one column written.
LEMMA ColumnWritten ==
  ASSUME NEW a \in Account, NEW c \in Column, NEW v \in Int
  PROVE  LET new == [a EXCEPT !.column[c] = v] IN
         /\ new \in Account /\ new.role = a.role
         /\ \A d \in Column \ {c} : new.column[d] = a.column[d]
  BY DEF Account

\* The columns a command may not change, and the role but for those about it.
LEMMA UpdatedRow ==
  ASSUME IInv, NEW p \in Update, update[p].step = "write", NEW u \in update[p].targets
  PROVE  LET j == update[p]
             new == Updated(j, u) IN
         /\ new \in Account
         /\ \A c \in Column \ Names(j.command) : new.column[c] = row[u].column[c]
         /\ j.command \notin {"assign", "revoke"} => new.role = row[u].role
         /\ j.command \in {"assign", "revoke"} =>
              IF j.read[u].role = j.value THEN new = row[u] ELSE new.role = j.value
<1>. DEFINE j == update[p]
<1>1. j \in Job /\ row[u] \in Account /\ j.read[u] \in Account
  BY DEF IInv, TypeInv, Holds, Known
<1>2. j.command \in Commands /\ j.command # "unblock_all" /\ Checked(j)
  BY DEF IInv, Holds
<1>3. CASE j.command \in {"assign", "revoke"}
  <2>1. j.value \in Role
    BY <1>2, <1>3 DEF Checked
  <2>2. /\ [row[u] EXCEPT !.role = j.value] \in Account
        /\ [row[u] EXCEPT !.role = j.value].role = j.value
        /\ [row[u] EXCEPT !.role = j.value].column = row[u].column
    BY <1>1, <2>1 DEF Account
  <2>. QED
    BY <1>1, <1>3, <2>2 DEF Updated
<1>. DEFINE Keeping(new, S) == /\ new \in Account /\ new.role = row[u].role
                               /\ \A d \in Column \ S : new.column[d] = row[u].column[d]
<1>4. ASSUME NEW c \in Column, NEW v \in Int
      PROVE  Keeping([row[u] EXCEPT !.column[c] = v], {c})
  BY <1>1, ColumnWritten
<1>a. Keeping(row[u], Names(j.command))
  BY <1>1
<1>5. Value(j, u) \in Int
  BY <1>1 DEF Value, Job, Account, Column
<1>6. CASE j.command = "profile"
  BY <1>1, <1>4, <1>6 DEF Updated, Names, Column, Job
<1>7. CASE j.command \in {"block", "block_ids"}
  <2>1. row[u].column["blocked"] \in Int /\ "blocked" \in Column
    BY <1>1 DEF Account, Column
  <2>2. Updated(j, u) \in {[row[u] EXCEPT !.column["blocked"] = 1],
                           [row[u] EXCEPT !.column["blocked"] = 1 - row[u].column["blocked"]]}
    BY <1>1, <1>7 DEF Updated, Account
  <2>3. Names(j.command) = {"blocked"}
    BY <1>7 DEF Names
  <2>4. Keeping(Updated(j, u), {"blocked"})
    <3>1. 1 \in Int /\ 1 - row[u].column["blocked"] \in Int
      BY <2>1
    <3>. HIDE DEF Keeping
    <3>. QED
      BY <1>4, <2>1, <2>2, <3>1
  <2>. QED
    BY <1>7, <2>3, <2>4
<1>8. CASE j.command \in Edit
  <2>1. Names(j.command) = {j.command} /\ j.command \in Column
    BY <1>8, EditIsColumn DEF Names, Edit
  <2>2. Updated(j, u) \in {row[u], [row[u] EXCEPT !.column[j.command] = Value(j, u)]}
    BY <1>8, EditIsColumn DEF Updated
  <2>3. Keeping(Updated(j, u), {j.command})
    <3>1. /\ Keeping(row[u], {j.command})
          /\ Keeping([row[u] EXCEPT !.column[j.command] = Value(j, u)], {j.command})
      BY <1>4, <1>5, <1>a, <2>1
    <3>. HIDE DEF Keeping
    <3>. QED
      BY <2>2, <3>1
  <2>. QED
    BY <1>8, <2>1, <2>3, EditIsColumn
<1>. QED
  BY <1>2, <1>3, <1>6, <1>7, <1>8 DEF Commands

\* A write: rows stay, only a role command changes roles, and never to or from OWNER
\* where the role it had read still stands.
LEMMA WriteRows ==
  ASSUME ConstantsAssumption, IInv, NEW p \in Update, Write(p)
  PROVE  LET j == update[p]
             roles == j.command \in {"assign", "revoke"} IN
         /\ row' \in [User -> Account \cup {None}] /\ Known' = Known
         /\ \A v \in Known : v \notin j.targets \/ ~roles => row'[v].role = row[v].role
         /\ \A v \in Known \ j.targets : j.command # "unblock_all" => row'[v] = row[v]
         /\ \A v \in j.targets : row'[v] = Updated(j, v)
         /\ j.command = "unblock_all" =>
              \A v \in Known, c \in Column \ {"blocked"} : row'[v].column[c] = row[v].column[c]
         /\ Owners' \subseteq Owners
         /\ roles /\ j.fresh => Owners' = Owners
<1>. DEFINE j == update[p]  roles == j.command \in {"assign", "revoke"}
<1>1. /\ j.step = "write" /\ j \in Job /\ j.targets \subseteq Known /\ Checked(j)
      /\ j.command = "unblock_all" => j.targets = {}
      /\ \A v \in j.targets : j.fresh => j.read[v].role = row[v].role
  BY DEF Write, IInv, TypeInv, Holds
<1>2. None \notin Account
  BY DEF ConstantsAssumption
<1>3. ASSUME NEW v \in User
      PROVE  /\ row[v] \in Account \cup {None} /\ (v \in Known => row[v] \in Account)
             /\ v \notin Known => row[v] = None
  BY DEF IInv, TypeInv, Known
<1>4. ASSUME NEW v \in j.targets
      PROVE  /\ Updated(j, v) \in Account
             /\ ~roles => Updated(j, v).role = row[v].role
             /\ roles => IF j.read[v].role = j.value THEN Updated(j, v) = row[v]
                         ELSE Updated(j, v).role = j.value
  BY <1>1, <1>4, UpdatedRow
<1>5. CASE j.command = "unblock_all"
  <2>1. ASSUME NEW v \in User
        PROVE  /\ v \in Known => row'[v] = [row[v] EXCEPT !.column["blocked"] = 0]
               /\ v \notin Known => row'[v] = None
    BY <1>5 DEF Write
  <2>2. ASSUME NEW v \in Known
        PROVE  /\ row'[v] \in Account /\ row'[v].role = row[v].role
               /\ \A c \in Column \ {"blocked"} : row'[v].column[c] = row[v].column[c]
    <3>1. row[v] \in Account /\ v \in User
      BY <1>3 DEF Known
    <3>2. "blocked" \in Column /\ 0 \in Int
      BY DEF Column
    <3>3. row'[v] = [row[v] EXCEPT !.column["blocked"] = 0]
      BY <2>1, <3>1
    <3>4. PICK new : new = [row[v] EXCEPT !.column["blocked"] = 0]
      OBVIOUS
    <3>5. /\ new \in Account /\ new.role = row[v].role
          /\ \A c \in Column \ {"blocked"} : new.column[c] = row[v].column[c]
      BY <3>1, <3>2, <3>4, ColumnWritten
    <3>. QED
      BY <3>3, <3>4, <3>5
  <2>3. row' \in [User -> Account \cup {None}]
    BY <1>5, <2>1, <2>2 DEF Write
  <2>4. Known' = Known
    BY <1>2, <2>1, <2>2 DEF Known
  <2>5. Owners' = Owners
    BY <2>2, <2>4 DEF Owners, OwnersIn, Known
  <2>. QED
    BY <1>1, <1>5, <2>2, <2>3, <2>4, <2>5
<1>6. CASE j.command # "unblock_all"
  <2>1. row' = [v \in User |-> IF v \in j.targets THEN Updated(j, v) ELSE row[v]]
    BY <1>6 DEF Write
  <2>. HIDE DEF j
  <2>2. ASSUME NEW v \in User
        PROVE  row'[v] = IF v \in j.targets THEN Updated(j, v) ELSE row[v]
    BY <2>1
  <2>3. row' \in [User -> Account \cup {None}]
    BY <1>3, <1>4, <2>1
  <2>4. Known' = Known
    BY <1>1, <1>2, <1>4, <2>2 DEF Known
  <2>5. ASSUME NEW v \in Known, v \notin j.targets \/ ~roles
        PROVE  row'[v].role = row[v].role
    BY <1>4, <2>2, <2>5 DEF Known
  <2>6. ASSUME NEW v \in Known, v \in j.targets, roles
        PROVE  /\ row'[v].role = OWNER => row[v].role = OWNER
               /\ j.fresh => row'[v].role # OWNER /\ row[v].role # OWNER
    <3>1. j.value # OWNER /\ j.read[v].role # OWNER
      BY <1>1, <2>6 DEF Checked
    <3>. QED
      BY <1>1, <1>4, <2>2, <2>6, <3>1 DEF Known
  <2>7. Owners' \subseteq Owners /\ (roles /\ j.fresh => Owners' = Owners)
    BY <2>4, <2>5, <2>6 DEF Owners, OwnersIn, Known
  <2>. QED
    BY <1>1, <1>6, <2>2, <2>3, <2>4, <2>5, <2>7 DEF Known, j
<1>. QED
  BY <1>5, <1>6

\* A command writes what it held.
LEMMA WriteStep ==
  ASSUME ConstantsAssumption, IInv, NEW p \in Update, Write(p)
  PROVE  IInv'
<1>. DEFINE j == update[p]  roles == j.command \in {"assign", "revoke"}
            S == IF roles THEN j.targets ELSE {}
            ready == Ready(p, j.as, S)
<1>1. /\ j \in Job /\ j.step = "write" /\ j.as \in Role /\ j.actor \in Known
      /\ j.targets \subseteq Known
  BY DEF Write, IInv, TypeInv, Job, Loaded, Holds
<1>2. /\ ready \in [Update -> Job]
      /\ \A q \in Update \ {p} : Keeps(update[q], ready[q], S)
      /\ ready[p].step = "ready" /\ ready[p].actor = j.actor
  BY <1>1, ReadyEffect DEF IInv, TypeInv
<1>3. /\ update' = [ready EXCEPT ![p] = IF j.command = "profile"
                        THEN [@ EXCEPT !.targets = {}] ELSE [Resting EXCEPT !.step = "done"]]
      /\ owner' = owner /\ came' = came /\ raced' = (raced \/ (roles /\ ~j.fresh))
  BY DEF Write
<1>. HIDE DEF ready, S
<1>4. /\ update' \in [Update -> Job]
      /\ \A q \in Update \ {p} : Keeps(update[q], update'[q], S)
      /\ update'[p].step \in {"ready", "done"}
      /\ update'[p].step = "ready" => update'[p].actor = j.actor
  <2>1. /\ [ready[p] EXCEPT !.targets = {}] \in Job
        /\ [ready[p] EXCEPT !.targets = {}].step = "ready"
        /\ [ready[p] EXCEPT !.targets = {}].actor = j.actor
    BY <1>2 DEF Job
  <2>2. update' = [ready EXCEPT ![p] = IF j.command = "profile"
                        THEN [ready[p] EXCEPT !.targets = {}] ELSE [Resting EXCEPT !.step = "done"]]
    BY <1>2, <1>3
  <2>. QED
    BY <1>2, <2>1, <2>2, RestingJob
<1>5. /\ row' \in [User -> Account \cup {None}] /\ Known' = Known
      /\ \A v \in Known : v \notin S => row'[v].role = row[v].role
      /\ Owners' \subseteq Owners
      /\ roles /\ j.fresh => Owners' = Owners
      /\ ~roles => Owners' = Owners
  <2>1. ASSUME ~roles PROVE Owners' = Owners
    BY <2>1, WriteRows DEF Owners, OwnersIn, Known
  <2>. QED
    BY <2>1, WriteRows DEF S
<1>6. RolesKept(S)
  BY <1>5 DEF RolesKept, Known
<1>7. TypeInv'
  BY <1>3, <1>4, <1>5 DEF IInv, TypeInv, Job
<1>8. ASSUME NEW q \in Update PROVE Loaded(q)' /\ Holds(q)' /\ Transfers(q)'
  <2>1. CASE q = p
    BY <1>1, <1>4, <1>5, <2>1 DEF Loaded, Holds, Transfers
  <2>2. CASE q # p
    BY <1>3, <1>4, <1>5, <1>6, <2>2, OthersStay
  <2>. QED
    BY <2>1, <2>2
<1>9. OneOwner' /\ CameInv'
  <2>1. OneOwner'
    BY <1>5 DEF IInv, OneOwner
  <2>2. CameInv'
    BY <1>3, <1>5 DEF IInv, CameInv, TypeInv
  <2>. QED
    BY <2>1, <2>2
<1>. QED
  BY <1>7, <1>8, <1>9 DEF IInv

\* The process starts anew, perhaps with another owner configured: no update survives.
LEMMA RestartStep ==
  ASSUME IInv, NEW u \in User, Restart(u)
  PROVE  IInv'
<1>1. /\ row' = row /\ owner' = u /\ raced' = raced /\ came' = FALSE
      /\ \A q \in Update : update'[q] = IF update[q].step = "new" THEN update[q]
                                       ELSE [Resting EXCEPT !.step = "done"]
      /\ update' = [q \in Update |-> update'[q]]
  BY DEF Restart
<1>2. ASSUME NEW q \in Update PROVE update'[q] \in Job /\ update'[q].step \in {"new", "done"}
  BY <1>1, RestingJob DEF IInv, TypeInv
<1>3. TypeInv'
  BY <1>1, <1>2 DEF IInv, TypeInv
<1>4. ASSUME NEW q \in Update PROVE Loaded(q)' /\ Holds(q)' /\ Transfers(q)'
  BY <1>2 DEF Loaded, Holds, Transfers
<1>5. OneOwner' /\ CameInv'
  BY <1>1 DEF IInv, OneOwner, CameInv, Owners
<1>. QED
  BY <1>3, <1>4, <1>5 DEF IInv

\* Nothing happens.
LEMMA StutterStep == IInv /\ UNCHANGED vars => IInv'
  BY DEF IInv, TypeInv, Loaded, Holds, Transfers, OneOwner, CameInv, Owners, OwnersIn, Known

\* The inductive invariant holds in every reachable state.
THEOREM Invariance == ASSUME ConstantsAssumption PROVE Spec => []IInv
<1>1. ConstantsAssumption /\ IInv /\ [Next]_vars => IInv'
  <2> SUFFICES ASSUME ConstantsAssumption, IInv, [Next]_vars PROVE IInv'
    OBVIOUS
  <2>1. CASE UNCHANGED vars
    BY <2>1, StutterStep
  <2>2. ASSUME NEW p \in Update, Step(p) PROVE IInv'
    BY <2>2, ArriveStep, TransferStep, RegisterStep, CommandStep, LeaveStep, WriteStep DEF Step
  <2>3. ASSUME NEW u \in User, Restart(u) PROVE IInv'
    BY <2>3, RestartStep
  <2>. QED
    BY <2>1, <2>2, <2>3, NextCases
<1>. QED
  BY InitIInv, <1>1, PTL DEF Spec

-----------------------------------------------------------------------------
(* The properties the runs check. *)

\* There are never two owners, and once the configured one was seen he is the OWNER,
\* unless a command wrote over a role that had changed since it was checked.
THEOREM OwnerIsConfiguredHolds ==
  ASSUME ConstantsAssumption PROVE Spec => []OwnerIsConfigured
<1>1. IInv => OwnerIsConfigured
  BY DEF IInv, OneOwner, CameInv, OwnerIsConfigured
<1>. QED
  BY Invariance, <1>1, PTL

\* What RanksRespected says of one update and one row.
Respects(p, u) ==
  update[p].step = "write" /\ update'[p].step # "write" /\ row'[u] # row[u] =>
    LET j == update[p]
        role == row'[u].role # row[u].role
    IN
    /\ ChangedColumns(u) \subseteq Names(j.command)
    /\ role => j.command \in {"assign", "revoke"} /\ j.actor # u
    /\ role /\ j.fresh => j.as > row[u].role /\ j.as > row'[u].role
    /\ j.fresh => \/ j.actor = u \/ j.as > row[u].role
                  \/ j.command \in {"email", "unblock_all"}

\* Only its own write ends an update that holds a command and changes a row.
LEMMA OwnWrite ==
  ASSUME ConstantsAssumption, IInv, [Next]_vars, NEW p \in Update,
         update[p].step = "write", update'[p].step # "write", row' # row
  PROVE  Write(p)
<1>1. ASSUME NEW q \in Update, Step(q), q # p PROVE update'[p].step = "write"
  <2>1. update \in [Update -> Job] /\ update[p] \in Job /\ update[q] \in Job
    BY DEF IInv, TypeInv
  <2>2. ASSUME NEW S, Keeps(update[p], update'[p], S) PROVE update'[p].step = "write"
    BY <2>1, <2>2 DEF Keeps, Job
  <2>3. ASSUME NEW as, NEW S, NEW next, next = Ready(q, as, S), update'[p] = next[p]
        PROVE  update'[p].step = "write"
    BY <1>1, <2>1, <2>3 DEF Ready, Job
  <2>4. CASE \E u \in User : Arrive(q, u)
    BY <1>1, <2>1, <2>4 DEF Arrive
  <2>5. CASE TransferOwnerRole(q)
    BY <2>3, <2>5 DEF TransferOwnerRole
  <2>6. CASE Register(q)
    BY <1>1, <2>1, <2>3, <2>6 DEF Register
  <2>7. CASE Command(q)
    BY <1>1, <2>1, <2>7 DEF Command, Reads
  <2>8. CASE Leave(q)
    BY <1>1, <2>1, <2>8 DEF Leave
  <2>9. CASE Write(q)
    <3>1. PICK next : /\ next = Ready(q, update[q].as, IF update[q].command \in {"assign", "revoke"}
                                                      THEN update[q].targets ELSE {})
                      /\ update'[p] = next[p]
      BY <1>1, <2>9 DEF Write, Ready
    <3>. QED
      BY <2>3, <3>1
  <2>. QED
    BY <1>1, <2>4, <2>5, <2>6, <2>7, <2>8, <2>9 DEF Step
<1>2. ASSUME Step(p) PROVE Write(p)
  BY <1>2 DEF Step, Arrive, TransferOwnerRole, Register, Command, Reads, Leave
<1>3. ASSUME NEW u \in User, Restart(u) PROVE FALSE
  BY <1>3 DEF Restart
<1>. QED
  BY <1>1, <1>2, <1>3, NextCases

\* A step changes a row as its own update's ranks allow.
LEMMA RankStep ==
  ASSUME ConstantsAssumption, IInv, [Next]_vars, NEW p \in Update, NEW u \in User
  PROVE  Respects(p, u)
<1> SUFFICES ASSUME update[p].step = "write", update'[p].step # "write", row'[u] # row[u]
             PROVE  Respects(p, u)
  BY DEF Respects
<1>. DEFINE j == update[p]
<1>1. Write(p)
  BY OwnWrite
<1>2. u \in Known
  BY <1>1, WriteRows DEF Known, ConstantsAssumption
<1>3. /\ j.command \in Commands /\ Checked(j)
      /\ \A v \in j.targets : j.fresh => j.read[v].role = row[v].role
      /\ j.command = "unblock_all" => j.targets = {}
  BY DEF IInv, Holds
<1>4. CASE j.command = "unblock_all"
  <2>1. ChangedColumns(u) \subseteq {"blocked"} /\ row'[u].role = row[u].role
    BY <1>1, <1>2, <1>3, <1>4, WriteRows DEF ChangedColumns
  <2>. QED
    BY <1>4, <2>1 DEF Respects, Names
<1>5. CASE j.command # "unblock_all"
  <2>1. u \in j.targets /\ row'[u] = Updated(j, u)
    BY <1>1, <1>2, <1>5, WriteRows
  <2>2. ChangedColumns(u) \subseteq Names(j.command)
    BY <2>1, UpdatedRow DEF ChangedColumns
  <2>3. CASE j.command \in {"assign", "revoke"}
    <3>1. /\ j.actor # u /\ j.as > j.value /\ j.as > j.read[u].role
          /\ row'[u].role = j.value
      BY <1>3, <2>1, <2>3, UpdatedRow DEF Checked
    <3>. QED
      BY <1>3, <2>1, <2>2, <2>3, <3>1 DEF Respects
  <2>4. CASE j.command \notin {"assign", "revoke"}
    <3>1. row'[u].role = row[u].role
      BY <2>1, <2>4, UpdatedRow
    <3>2. j.fresh => j.actor = u \/ j.as > row[u].role \/ j.command = "email"
      BY <1>3, <1>5, <2>1, <2>4 DEF Checked, Commands
    <3>. QED
      BY <2>2, <3>1, <3>2 DEF Respects
  <2>. QED
    BY <2>3, <2>4
<1>. QED
  BY <1>4, <1>5

\* A command changes the one column it is about, and a role or a row only of somebody the
\* actor was above, for any number of updates and whatever they do meanwhile.
THEOREM RanksRespectedHolds == ASSUME ConstantsAssumption PROVE Spec => RanksRespected
<1>1. ConstantsAssumption /\ IInv /\ [Next]_vars =>
        [\A p \in Update, u \in User :
           update[p].step = "write" /\ update'[p].step # "write" /\ row'[u] # row[u] =>
             LET j == update[p]
                 role == row'[u].role # row[u].role
             IN
             /\ ChangedColumns(u) \subseteq Names(j.command)
             /\ role => j.command \in {"assign", "revoke"} /\ j.actor # u
             /\ role /\ j.fresh => j.as > row[u].role /\ j.as > row'[u].role
             /\ j.fresh => \/ j.actor = u \/ j.as > row[u].role
                           \/ j.command \in {"email", "unblock_all"}]_vars
  BY RankStep DEF Respects
<1>. QED
  BY Invariance, <1>1, PTL DEF Spec, RanksRespected

-----------------------------------------------------------------------------
(* The windows of a user. *)

\* What is tapped twice.
ConfirmKeys == {"referral", "delete", "reissue", "message", "mail"}

\* What the dialog keeps.
DialogData ==
    [target : Customer \cup {None}, from : Customer \cup {None}, telegram : Customer \cup {None},
         message : Customer \cup {None}, draft : Customer \cup {None}, plan : Customer \cup {None},
         transaction : Customer \cup {None}, hwids : Customer \cup {None}, clicked :
             SUBSET ConfirmKeys]

\* What a dialog is started with.
DialogStart == [target : Customer \cup {None}, from : Customer \cup {None},
           transaction : Customer \cup {None},
           origin : {None, "list", "search", "all", "user"}, found : SUBSET Customer]

\* Every variable keeps its type.
WindowTypes ==
  /\ world \in [Customer -> UI!Facts] /\ shop \in UI!Shops
  /\ window \in UI!Windows \cup {"lists", "closed"}
  /\ opening \in UI!Windows \cup {None}
  /\ start \in DialogStart /\ data \in DialogData
  /\ error \in {"none", "missing", "taken"} /\ disturbed \in BOOLEAN

\* What is kept is kept for t.
KeptFor(d, t) ==
  /\ d.message \in {None, t} /\ d.draft \in {None, t} /\ d.plan \in {None, t}
  /\ d.transaction \in {None, t} /\ d.hwids \in {None, t} /\ d.telegram \in {None, t}
  /\ d.clicked # {} => t # None

\* A dialog is about the user it was started with, whom the message shows and for whom
\* everything is kept.
OneTarget ==
  /\ data.target \in {None, start.target}
  /\ start.transaction \in {None, start.target}
  /\ window = "lists" /\ opening = None => start.target = None
  /\ opening # None => start.target \in Customer
  /\ opening \in UI!Windows \ {"MAIN", "REFERRALS", "TRANSACTION"} => data.target \in Customer
  /\ window \in UI!Windows /\ opening = None =>
         data.target \in Customer /\ seen.target = data.target
  /\ KeptFor(data, data.target)

\* The windows of one subscription.
OfOne == {"SUBSCRIPTION", "TRAFFIC_LIMIT", "DEVICE_LIMIT", "EXPIRE_TIME", "SQUADS",
          "INTERNAL_SQUADS", "EXTERNAL_SQUADS", "DEVICES_LIST"}

\* What window w needs of its target and of the shop.
Fits(w, facts, s) ==
  /\ w \in OfOne => facts.sub # "none"
  /\ w = "GIVE_ACCESS" => s.restricted
  /\ w = "GIVE_SUBSCRIPTION" => s.offered
  /\ w = "SUBSCRIPTION_DURATION" => s.offered /\ s.plan

\* The bot's row and the panel agree about the subscription.
Settled(facts) == facts.sub # "none" => facts.panel

\* The window that is shown, or the one whose getter runs next.
Leading == IF opening = None THEN window ELSE opening

\* A name that is in use has closed the window of one without a row.
Occupied ==
  /\ error = "taken" /\ window = "closed" /\ opening = None
  /\ world[data.target].sub = "none"
  /\ world[data.target].orphan \/ UI!Foreign(data.target)

\* While nobody disturbs: nothing was missing, everybody is in order, the message shows the
\* shop as it is, and the window the tap leads to will find what it needs.
Undisturbed ==
  /\ error # "none" => Occupied
  /\ \A u \in Customer : Settled(world[u])
  /\ seen.shop = shop
  /\ Leading \in UI!Windows => Fits(Leading, world[data.target], shop)

\* The inductive invariant of the windows.
WindowInv == WindowTypes /\ OneTarget /\ (~disturbed => Undisturbed)

\* Whom the panel has without a row it had so from the beginning.
Strangers ==
  \A u \in Customer : world[u].sub = "none" /\ world[u].panel => UI!Foreign(u)

\* None is no window and no user.
LEMMA WindowNames ==
  ASSUME UI!ConstantsAssumption
  PROVE  /\ "lists" \notin UI!Windows /\ "closed" \notin UI!Windows /\ None \notin UI!Windows
         /\ None \notin Customer
  BY DEF UI!ConstantsAssumption, UI!Windows

\* A handler that leads to w, whatever it changed of the target ...
LEMMA ToKeeps ==
  ASSUME UI!ConstantsAssumption, WindowInv, NEW w \in UI!Windows, NEW d \in DialogData,
         window \in UI!Windows, opening = None,
         d.target = data.target, KeptFor(d, data.target), UI!To(w, d),
         world' \in [Customer -> UI!Facts],
         ~disturbed => /\ \A u \in Customer : Settled(world'[u])
                       /\ Fits(w, world'[data.target], shop)
  PROVE  WindowInv'
<1>1. WindowTypes'
  BY WindowNames DEF WindowInv, WindowTypes, UI!To
<1>2. OneTarget'
  BY WindowNames DEF WindowInv, WindowTypes, UI!To, OneTarget, KeptFor
<1>3. ASSUME ~disturbed' PROVE Undisturbed'
  <2>1. ~disturbed /\ Undisturbed
    BY <1>3 DEF UI!To, WindowInv
  <2>2. Leading' = w
    BY WindowNames DEF UI!To, Leading
  <2>3. error' = "none" /\ seen'.shop = shop'
    BY <2>1, WindowNames DEF UI!To, Undisturbed, Occupied
  <2>4. Fits(w, world'[data'.target], shop')
    BY <2>1 DEF UI!To
  <2> QED  BY <2>1, <2>2, <2>3, <2>4 DEF Undisturbed, Fits, OfOne
<1> QED  BY <1>1, <1>2, <1>3 DEF WindowInv

\* ... nothing ...
LEMMA GoKeeps ==
  ASSUME UI!ConstantsAssumption, WindowInv, NEW w \in UI!Windows, window \in UI!Windows,
         opening = None,
         UI!Go(w), ~disturbed => Fits(w, world[data.target], shop)
  PROVE  WindowInv'
<1>1. UI!To(w, data) /\ world' = world
  BY DEF UI!Go
<1>2. data \in DialogData /\ world \in [Customer -> UI!Facts] /\ KeptFor(data, data.target)
  BY DEF WindowInv, WindowTypes, OneTarget
<1>3. ~disturbed => \A u \in Customer : Settled(world[u])
  BY DEF WindowInv, Undisturbed
<1> QED  BY <1>1, <1>2, <1>3, ToKeeps

\* ... or that raises, when others disturbed ...
LEMMA RaiseKeeps ==
  ASSUME UI!ConstantsAssumption, WindowInv, UI!Raise \/ UI!RaiseTaken, disturbed
  PROVE  WindowInv'
<1>1. WindowTypes'
  BY DEF WindowInv, WindowTypes, UI!Raise, UI!RaiseTaken, UI!Closes
<1>2. OneTarget'
  BY WindowNames DEF WindowInv, WindowTypes, UI!Raise, UI!RaiseTaken, UI!Closes, OneTarget, KeptFor
<1>3. disturbed' = disturbed
  BY DEF UI!Raise, UI!RaiseTaken, UI!Closes
<1> QED  BY <1>1, <1>2, <1>3 DEF WindowInv

\* ... or that meets a name in use ...
LEMMA RaiseTakenKeeps ==
  ASSUME UI!ConstantsAssumption, WindowInv, UI!RaiseTaken, window \in UI!Windows, opening = None,
         world[data.target].sub = "none",
         world[data.target].orphan \/ UI!Foreign(data.target)
  PROVE  WindowInv'
<1>1. WindowTypes'
  BY DEF WindowInv, WindowTypes, UI!RaiseTaken, UI!Closes
<1>2. OneTarget'
  BY WindowNames DEF WindowInv, WindowTypes, UI!RaiseTaken, UI!Closes, OneTarget, KeptFor
<1>3. UNCHANGED <<opened, world, shop, data, seen, disturbed>>
      /\ error' = "taken" /\ window' = "closed" /\ opening' = None
  BY DEF UI!RaiseTaken, UI!Closes
<1>4. Occupied'
  BY <1>3 DEF Occupied, UI!Foreign
<1>5. Leading' \notin UI!Windows
  BY <1>3, WindowNames DEF Leading
<1>6. ASSUME ~disturbed' PROVE Undisturbed'
  BY <1>3, <1>4, <1>5, <1>6 DEF WindowInv, Undisturbed
<1> QED  BY <1>1, <1>2, <1>6 DEF WindowInv

\* ... or that runs a command first.
LEMMA RunsKeeps ==
  ASSUME UI!ConstantsAssumption, WindowInv, NEW w \in UI!Windows, NEW ok, NEW facts,
         ok => facts \in UI!Facts, window \in UI!Windows, opening = None, UI!Runs(ok, facts, w),
         ~disturbed => ok /\ Settled(facts) /\ Fits(w, facts, shop)
  PROVE  WindowInv'
<1>1. CASE ok
  <2>1. UI!To(w, data) /\ world' = [world EXCEPT ![data.target] = facts]
    BY <1>1 DEF UI!Runs, UI!T
  <2>2. data \in DialogData /\ KeptFor(data, data.target) /\ data.target \in Customer
    BY DEF WindowInv, WindowTypes, OneTarget
  <2>3. world' \in [Customer -> UI!Facts]
    BY <1>1, <2>1, <2>2 DEF WindowInv, WindowTypes
  <2>4. ASSUME ~disturbed
        PROVE  /\ \A u \in Customer : Settled(world'[u])
               /\ Fits(w, world'[data.target], shop)
    <3>1. \A u \in Customer : Settled(world[u])
      BY <2>4 DEF WindowInv, Undisturbed
    <3>2. world'[data.target] = facts
      BY <2>1, <2>2 DEF WindowInv, WindowTypes
    <3>3. \A u \in Customer : world'[u] = world[u] \/ world'[u] = facts
      BY <2>1, <2>2 DEF WindowInv, WindowTypes
    <3> QED  BY <2>4, <3>1, <3>2, <3>3
  <2> QED  BY <2>1, <2>2, <2>3, <2>4, ToKeeps
<1>2. CASE ~ok
  BY <1>2, RaiseKeeps DEF UI!Runs
<1> QED  BY <1>1, <1>2

\* Nothing but what is kept for the target changes in data.
LEMMA DataKeeps ==
  ASSUME UI!ConstantsAssumption, WindowInv, NEW w \in UI!Windows, NEW d \in DialogData,
         window \in UI!Windows, opening = None,
         d.target = data.target, KeptFor(d, data.target), UI!To(w, d), UNCHANGED world,
         ~disturbed => Fits(w, world[data.target], shop)
  PROVE  WindowInv'
<1>1. world \in [Customer -> UI!Facts]
  BY DEF WindowInv, WindowTypes
<1>2. ~disturbed => \A u \in Customer : Settled(world[u])
  BY DEF WindowInv, Undisturbed
<1> QED  BY <1>1, <1>2, ToKeeps

\* The first of two taps.
LEMMA ConfirmKeeps ==
  ASSUME UI!ConstantsAssumption, WindowInv, NEW key \in ConfirmKeys, window \in UI!Windows,
         opening = None,
         UI!Confirms(key, window)
  PROVE  WindowInv'
<1> DEFINE d == [data EXCEPT !.clicked = @ \cup {key}]
<1>1. data \in DialogData /\ data.target \in Customer /\ KeptFor(data, data.target)
  BY DEF WindowInv, WindowTypes, OneTarget
<1>2. d \in DialogData /\ d.target = data.target
  BY <1>1 DEF DialogData
<1>3. KeptFor(d, data.target)
  BY <1>1, WindowNames DEF DialogData, KeptFor
<1>4. UI!To(window, d) /\ UNCHANGED world
  BY DEF UI!Confirms
<1>5. ~disturbed => Fits(window, world[data.target], shop)
  BY DEF WindowInv, Undisturbed, Leading
<1> HIDE DEF d
<1> QED  BY <1>2, <1>3, <1>4, <1>5, DataKeeps

\* A new dialog is about its user, with nothing kept.
LEMMA StartKeeps ==
  ASSUME UI!ConstantsAssumption, WindowInv, NEW w \in {"MAIN", "REFERRALS", "TRANSACTION"},
         NEW s \in DialogStart, s.target \in Customer, s.transaction \in {None, s.target},
         window # "closed", UI!Start(w, s)
  PROVE  WindowInv'
<1>0. w \in UI!Windows /\ UI!Blank \in DialogData /\ UI!Blank.target = None
      /\ KeptFor(UI!Blank, None)
  BY DEF UI!Windows, UI!Blank, DialogData, KeptFor
<1>1. WindowTypes'
  BY <1>0 DEF WindowInv, WindowTypes, UI!Start
<1>2. OneTarget'
  BY <1>0, WindowNames DEF OneTarget, UI!Start, KeptFor
<1>3. ASSUME ~disturbed' PROVE Undisturbed'
  <2>1. ~disturbed /\ Undisturbed
    BY <1>3 DEF UI!Start, WindowInv
  <2>2. Leading' = w
    BY <1>0, WindowNames DEF UI!Start, Leading
  <2>3. error' = "none" /\ seen'.shop = shop' /\ \A u \in Customer : Settled(world'[u])
    BY <2>1 DEF UI!Start, Undisturbed, Occupied
  <2>4. Fits(w, world'[data'.target], shop')
    BY DEF Fits, OfOne
  <2> QED  BY <2>2, <2>3, <2>4 DEF Undisturbed, Fits
<1> QED  BY <1>1, <1>2, <1>3 DEF WindowInv

\* A list is about nobody.
LEMMA ListingKeeps ==
  ASSUME UI!ConstantsAssumption, WindowInv, NEW origin \in {None, "list", "search"},
         NEW found \in SUBSET Customer, UI!Listing(origin, found)
  PROVE  WindowInv'
<1>0. UI!Blank \in DialogData /\ UI!Blank.target = None /\ KeptFor(UI!Blank, None)
  BY DEF UI!Blank, DialogData, KeptFor
<1>1. [UI!NoStart EXCEPT !.origin = origin, !.found = found] \in DialogStart
      /\ [UI!NoStart EXCEPT !.origin = origin, !.found = found].target = None
      /\ [UI!NoStart EXCEPT !.origin = origin, !.found = found].transaction = None
  BY DEF UI!NoStart, DialogStart
<1>2. WindowTypes'
  BY <1>0, <1>1 DEF WindowInv, WindowTypes, UI!Listing
<1>3. OneTarget'
  BY <1>0, <1>1, WindowNames DEF OneTarget, UI!Listing, KeptFor
<1>4. ASSUME ~disturbed' PROVE Undisturbed'
  <2>1. ~disturbed /\ Undisturbed
    BY <1>4 DEF UI!Listing, WindowInv
  <2>2. Leading' = "lists"
    BY DEF UI!Listing, Leading
  <2> QED  BY <2>1, <2>2, WindowNames DEF Undisturbed, UI!Listing
<1> QED  BY <1>2, <1>3, <1>4 DEF WindowInv

\* Others change a user.
LEMMA OthersKeep ==
  ASSUME UI!ConstantsAssumption, WindowInv, NEW u \in Customer, NEW facts \in UI!Facts,
         UI!Others(u, facts)
  PROVE  WindowInv'
<1>1. WindowTypes'
  BY DEF WindowInv, WindowTypes, UI!Others
<1>2. OneTarget'
  BY DEF WindowInv, OneTarget, UI!Others, KeptFor
<1> QED  BY <1>1, <1>2 DEF WindowInv, UI!Others

\* A getter that shows w.
LEMMA RendersKeeps ==
  ASSUME UI!ConstantsAssumption, WindowInv, NEW w \in UI!Windows, NEW d \in DialogData,
         UI!Renders(w, d), d.target = start.target, start.target \in Customer,
         KeptFor(d, d.target), disturbed' \in BOOLEAN,
         ~disturbed' => /\ \A u \in Customer : Settled(world[u])
                        /\ Fits(w, world[d.target], shop)
  PROVE  WindowInv'
<1>1. WindowTypes'
  BY DEF WindowInv, WindowTypes, UI!Renders
<1>2. OneTarget'
  BY WindowNames DEF WindowInv, UI!Renders, OneTarget, KeptFor
<1>3. ASSUME ~disturbed' PROVE Undisturbed'
  <2>1. Leading' = w
    BY DEF UI!Renders, Leading
  <2> QED  BY <1>3, <2>1 DEF Undisturbed, UI!Renders, Fits
<1> QED  BY <1>1, <1>2, <1>3 DEF WindowInv

\* The main window: the user of the start, and no draft of a message.
LEMMA RenderMainKeeps ==
  ASSUME UI!ConstantsAssumption, WindowInv, UI!RenderMain
  PROVE  WindowInv'
<1> DEFINE u == start.target
           d == [data EXCEPT !.target = u, !.from = start.from, !.message = None,
                             !.telegram = IF world[u].telegram THEN u ELSE @]
<1>1. u \in Customer /\ data.target \in {None, u} /\ KeptFor(data, data.target)
      /\ data \in DialogData /\ start.from \in Customer \cup {None}
  BY WindowNames DEF UI!RenderMain, WindowInv, WindowTypes, OneTarget, UI!Windows, DialogStart
<1>2. d \in DialogData /\ d.target = u
  BY <1>1 DEF DialogData
<1>3. KeptFor(d, d.target)
  BY <1>1, WindowNames DEF DialogData, KeptFor
<1>4. UI!Renders("MAIN", d) /\ disturbed' = (disturbed /\ \E v \in Customer : ~UI!InOrder(v))
  BY DEF UI!RenderMain
<1>5. disturbed' \in BOOLEAN
  BY <1>4
<1>6. ~disturbed' => \A v \in Customer : Settled(world[v])
  BY <1>4 DEF WindowInv, Undisturbed, UI!InOrder, Settled
<1>7. "MAIN" \in UI!Windows /\ Fits("MAIN", world[d.target], shop)
  BY DEF UI!Windows, Fits, OfOne
<1> HIDE DEF d
<1> QED  BY <1>1, <1>2, <1>3, <1>4, <1>5, <1>6, <1>7, RendersKeeps

\* The window of the referrals may come first ...
LEMMA RenderReferralsKeeps ==
  ASSUME UI!ConstantsAssumption, WindowInv, UI!RenderReferrals
  PROVE  WindowInv'
<1> DEFINE d == [data EXCEPT !.target = UI!Target]
<1>1. start.target \in Customer /\ data.target \in {None, start.target}
      /\ KeptFor(data, data.target) /\ data \in DialogData
  BY WindowNames DEF UI!RenderReferrals, WindowInv, WindowTypes, OneTarget, UI!Windows
<1>2. UI!Target = start.target
  BY <1>1, WindowNames DEF UI!Target, UI!T
<1>3. d \in DialogData /\ d.target = start.target
  BY <1>1, <1>2 DEF DialogData
<1>4. KeptFor(d, d.target)
  BY <1>1, <1>2, WindowNames DEF DialogData, KeptFor
<1>5. UI!Renders("REFERRALS", d) /\ disturbed' = disturbed
  BY DEF UI!RenderReferrals
<1>6. ~disturbed' => \A v \in Customer : Settled(world[v])
  BY <1>5 DEF WindowInv, Undisturbed
<1>7. "REFERRALS" \in UI!Windows /\ Fits("REFERRALS", world[d.target], shop)
  BY DEF UI!Windows, Fits, OfOne
<1>8. disturbed' \in BOOLEAN
  BY <1>5 DEF WindowInv, WindowTypes
<1> HIDE DEF d
<1> QED  BY <1>1, <1>3, <1>4, <1>5, <1>6, <1>7, <1>8, RendersKeeps

\* ... and so may that of a transaction.
LEMMA RenderTransactionKeeps ==
  ASSUME UI!ConstantsAssumption, WindowInv, UI!RenderTransaction
  PROVE  WindowInv'
<1> DEFINE d == [data EXCEPT !.target = UI!Target,
                             !.transaction = IF @ = None THEN start.transaction ELSE @]
<1>1. start.target \in Customer /\ data.target \in {None, start.target}
      /\ KeptFor(data, data.target) /\ data \in DialogData
      /\ start.transaction \in {None, start.target}
  BY WindowNames DEF UI!RenderTransaction, WindowInv, WindowTypes, OneTarget, UI!Windows
<1>2. UI!Target = start.target
  BY <1>1, WindowNames DEF UI!Target, UI!T
<1>3. d \in DialogData /\ d.target = start.target
  BY <1>1, <1>2 DEF DialogData
<1>4. KeptFor(d, d.target)
  BY <1>1, <1>2, WindowNames DEF DialogData, KeptFor
<1>5. UI!Renders("TRANSACTION", d) /\ disturbed' = disturbed
  BY DEF UI!RenderTransaction
<1>6. ~disturbed' => \A v \in Customer : Settled(world[v])
  BY <1>5 DEF WindowInv, Undisturbed
<1>7. "TRANSACTION" \in UI!Windows /\ Fits("TRANSACTION", world[d.target], shop)
  BY DEF UI!Windows, Fits, OfOne
<1>8. disturbed' \in BOOLEAN
  BY <1>5 DEF WindowInv, WindowTypes
<1> HIDE DEF d
<1> QED  BY <1>1, <1>3, <1>4, <1>5, <1>6, <1>7, <1>8, RendersKeeps

\* Any other getter finds what its window needs, unless others disturbed.
LEMMA RenderOtherKeeps ==
  ASSUME UI!ConstantsAssumption, WindowInv, UI!RenderOther
  PROVE  WindowInv'
<1> DEFINE d == [data EXCEPT !.hwids = IF opening = "DEVICES_LIST" THEN data.target ELSE @]
<1>1. opening \in UI!Windows \ {"MAIN", "REFERRALS", "TRANSACTION"}
  BY DEF UI!RenderOther, WindowInv, WindowTypes
<1>2. data.target \in Customer /\ data.target = start.target
      /\ KeptFor(data, data.target) /\ data \in DialogData
  BY <1>1, WindowNames DEF WindowInv, WindowTypes, OneTarget
<1>3. d \in DialogData /\ d.target = data.target
  BY <1>2 DEF DialogData
<1>4. KeptFor(d, d.target)
  BY <1>2, WindowNames DEF DialogData, KeptFor
<1>5. ~disturbed => /\ \A v \in Customer : Settled(world[v])
                    /\ Fits(opening, world[data.target], shop)
  BY <1>1, WindowNames DEF WindowInv, Undisturbed, Leading
<1>6. CASE UI!Found(opening)
  <2>1. UI!Renders(opening, d) /\ disturbed' = disturbed
    BY <1>6 DEF UI!RenderOther, UI!T
  <2>2. disturbed' \in BOOLEAN
    BY <2>1 DEF WindowInv, WindowTypes
  <2> HIDE DEF d
  <2> QED  BY <1>1, <1>2, <1>3, <1>4, <1>5, <2>1, <2>2, RendersKeeps
<1>7. CASE ~UI!Found(opening)
  <2>1. UI!Raise
    BY <1>7 DEF UI!RenderOther
  <2>2. ASSUME ~disturbed PROVE FALSE
    <3>1. Fits(opening, world[data.target], shop) /\ Settled(world[data.target])
      BY <1>2, <1>5, <2>2
    <3> QED  BY <1>7, <3>1 DEF Fits, OfOne, Settled, UI!Found, UI!SubscriptionFound,
                UI!DevicesFound,
               UI!ExpireTimeFound, UI!SquadsFound, UI!InternalSquadsFound, UI!ExternalSquadsFound,
               UI!RestrictedFound, UI!OfferedFound, UI!PlanFound, UI!Has, UI!T
  <2> QED  BY <2>1, <2>2, RaiseKeeps DEF WindowInv, WindowTypes
<1> QED  BY <1>6, <1>7

\* What the handler of a tapped window may rely on.
LEMMA TappedFacts ==
  ASSUME UI!ConstantsAssumption, WindowInv, NEW w \in UI!Windows, UI!Tapped(w)
  PROVE  /\ window = w /\ window \in UI!Windows /\ opening = None
         /\ data \in DialogData /\ data.target \in Customer /\ seen.target = data.target
         /\ KeptFor(data, data.target)
         /\ world[data.target] \in UI!Facts /\ shop \in UI!Shops /\ start \in DialogStart
         /\ ~disturbed => /\ Fits(w, world[data.target], shop) /\ seen.shop = shop
                          /\ \A u \in Customer : Settled(world[u])
                          /\ Settled(world[data.target])
<1>1. window = w /\ opening = None
  BY DEF UI!Tapped
<1>2. data.target \in Customer /\ seen.target = data.target /\ KeptFor(data, data.target)
  BY <1>1 DEF WindowInv, OneTarget
<1>3. data \in DialogData /\ world[data.target] \in UI!Facts /\ shop \in UI!Shops
      /\ start \in DialogStart
  BY <1>2 DEF WindowInv, WindowTypes
<1>4. ~disturbed => /\ Fits(w, world[data.target], shop) /\ seen.shop = shop
                    /\ \A u \in Customer : Settled(world[u])
  BY <1>1 DEF WindowInv, Undisturbed, Leading
<1> QED  BY <1>1, <1>2, <1>3, <1>4

\* A button leads from a window to those that need no more than it does.
LEMMA SwitchKeeps ==
  ASSUME UI!ConstantsAssumption, WindowInv, NEW w \in UI!Windows, UI!Switch(w)
  PROVE  WindowInv'
<1>1. window \in UI!Windows /\ UI!Tapped(window)
  BY DEF UI!Switch, WindowInv, WindowTypes
<1>2. UI!Go(w) /\ w \in UI!Switches(window)
  BY DEF UI!Switch
<1>3. opening = None /\ (~disturbed => Fits(window, world[data.target], shop))
  BY <1>1, TappedFacts
<1>4. Fits(window, world[data.target], shop) => Fits(w, world[data.target], shop)
  BY <1>1, <1>2 DEF UI!Windows, Fits, OfOne, UI!Switches, UI!MainButtons, UI!SubscriptionButtons,
     UI!LimitButtons, UI!SquadButtons, UI!StatisticsButtons, UI!TransactionButtons,
     UI!DiscountButtons,
     UI!EmailButtons
<1> QED  BY <1>1, <1>2, <1>3, <1>4, GoKeeps

\* What a dialog is started with names its user: whom he was reached from too ...
LEMMA StartFrom ==
  ASSUME NEW u \in Customer, NEW v \in Customer
  PROVE  /\ [UI!NoStart EXCEPT !.target = u, !.from = v] \in DialogStart
         /\ [UI!NoStart EXCEPT !.target = u, !.from = v].target = u
         /\ [UI!NoStart EXCEPT !.target = u, !.from = v].transaction = None
  BY DEF UI!NoStart, DialogStart

\* ... nobody else ...
LEMMA StartOf ==
  ASSUME NEW u \in Customer
  PROVE  /\ [UI!NoStart EXCEPT !.target = u] \in DialogStart
         /\ [UI!NoStart EXCEPT !.target = u].target = u
         /\ [UI!NoStart EXCEPT !.target = u].transaction = None
  BY DEF UI!NoStart, DialogStart

\* ... or of one of his transactions.
LEMMA StartOfTransaction ==
  ASSUME NEW u \in Customer, NEW o \in {None, "all", "user"}
  PROVE  /\ [UI!NoStart EXCEPT !.target = u, !.transaction = u, !.origin = o] \in DialogStart
         /\ [UI!NoStart EXCEPT !.target = u, !.transaction = u, !.origin = o].target = u
         /\ [UI!NoStart EXCEPT !.target = u, !.transaction = u, !.origin = o].transaction = u
  BY DEF UI!NoStart, DialogStart

\* The recent users.
LEMMA OpenListKeeps ==
  ASSUME UI!ConstantsAssumption, WindowInv, UI!OpenList
  PROVE  WindowInv'
<1>1. UI!Listing("list", Customer) /\ Customer \in SUBSET Customer
  BY DEF UI!OpenList
<1> QED  BY <1>1, ListingKeeps

\* A search.
LEMMA SearchKeeps ==
  ASSUME UI!ConstantsAssumption, WindowInv, NEW found \in SUBSET Customer, UI!Search(found)
  PROVE  WindowInv'
<1>1. CASE UI!Listing("search", found)
  BY <1>1, ListingKeeps
<1>2. ASSUME NEW u \in found, UI!Start("MAIN", [UI!NoStart EXCEPT !.target = u])
      PROVE  WindowInv'
  <2>0. window # "closed"
    BY DEF UI!Search, UI!Tapped
  <2> DEFINE s == [UI!NoStart EXCEPT !.target = u]
  <2>1. s \in DialogStart /\ s.target = u /\ s.transaction = None
    BY StartOf
  <2>2. UI!Start("MAIN", s) /\ u \in Customer
    BY <1>2
  <2> HIDE DEF s
  <2> QED  BY <2>0, <2>1, <2>2, StartKeeps
<1> QED  BY <1>1, <1>2 DEF UI!Search

\* A user of a list.
LEMMA SelectUserKeeps ==
  ASSUME UI!ConstantsAssumption, WindowInv, NEW u \in Customer, UI!SelectUser(u)
  PROVE  WindowInv'
<1> DEFINE s == [start EXCEPT !.target = u]
<1>1. UI!Start("MAIN", s) /\ start \in DialogStart /\ start.transaction = None
      /\ window # "closed"
  BY DEF UI!SelectUser, WindowInv, WindowTypes, OneTarget, UI!Tapped
<1>2. s \in DialogStart /\ s.target = u /\ s.transaction = None
  BY <1>1 DEF DialogStart
<1> HIDE DEF s
<1> QED  BY <1>1, <1>2, StartKeeps

\* A transaction, from the list of all or by search.
LEMMA StartTransactionKeeps ==
  ASSUME UI!ConstantsAssumption, WindowInv, NEW u \in Customer, NEW o \in {"all", "user"},
         UI!StartTransaction(u, o)
  PROVE  WindowInv'
<1> DEFINE s == [UI!NoStart EXCEPT !.target = u, !.transaction = u, !.origin = o]
<1>1. UI!Start("TRANSACTION", s) /\ window # "closed"
  BY DEF UI!StartTransaction, UI!Tapped
<1>2. s \in DialogStart /\ s.target = u /\ s.transaction = u
  BY StartOfTransaction
<1> HIDE DEF s
<1> QED  BY <1>1, <1>2, StartKeeps

\* One he invited ...
LEMMA SelectReferralKeeps ==
  ASSUME UI!ConstantsAssumption, WindowInv, NEW u \in Customer, UI!SelectReferral(u)
  PROVE  WindowInv'
<1> DEFINE s == [UI!NoStart EXCEPT !.target = u, !.from = data.target]
<1>1. UI!Start("MAIN", s) /\ UI!Tapped("REFERRALS")
      /\ window # "closed"
  BY DEF UI!SelectReferral, UI!T, UI!Tapped
<1>2. data.target \in Customer
  BY <1>1, TappedFacts DEF UI!Windows
<1>3. s \in DialogStart /\ s.target = u /\ s.transaction = None
  BY <1>2, StartFrom
<1> HIDE DEF s
<1> QED  BY <1>1, <1>3, StartKeeps

\* ... and back.
LEMMA BackToReferralsKeeps ==
  ASSUME UI!ConstantsAssumption, WindowInv, UI!BackToReferrals
  PROVE  WindowInv'
<1> DEFINE s == [UI!NoStart EXCEPT !.target = data.from]
<1>1. UI!Start("REFERRALS", s) /\ data.from # None /\ data \in DialogData
  BY DEF UI!BackToReferrals, WindowInv, WindowTypes
<1>0. window # "closed"
  BY DEF UI!BackToReferrals, UI!Tapped
<1>2. data.from \in Customer
  BY <1>1 DEF DialogData
<1>3. s \in DialogStart /\ s.target = data.from /\ s.transaction = None
  BY <1>2, StartOf
<1> HIDE DEF s
<1> QED  BY <1>0, <1>1, <1>2, <1>3, StartKeeps

\* From a transaction to its user.
LEMMA GoToUserKeeps ==
  ASSUME UI!ConstantsAssumption, WindowInv, UI!GoToUser
  PROVE  WindowInv'
<1> DEFINE s == [UI!NoStart EXCEPT !.target = data.target]
<1>1. UI!Start("MAIN", s) /\ UI!Tapped("TRANSACTION")
      /\ window # "closed"
  BY DEF UI!GoToUser, UI!T, UI!Tapped
<1>2. data.target \in Customer
  BY <1>1, TappedFacts DEF UI!Windows
<1>3. s \in DialogStart /\ s.target = data.target /\ s.transaction = None
  BY <1>2, StartOf
<1> HIDE DEF s
<1> QED  BY <1>1, <1>2, <1>3, StartKeeps

\* Back to where the user was found.
LEMMA BackToListKeeps ==
  ASSUME UI!ConstantsAssumption, WindowInv, UI!BackToList
  PROVE  WindowInv'
<1>1. start.found \in SUBSET Customer
  BY DEF WindowInv, WindowTypes, DialogStart
<1>2. \/ start.origin \in {"list", "search"} /\ UI!Listing(start.origin, start.found)
      \/ UI!Listing(None, {})
  BY DEF UI!BackToList
<1> QED  BY <1>1, <1>2, ListingKeeps

\* Back to the menu.
LEMMA BackToMenuKeeps ==
  ASSUME UI!ConstantsAssumption, WindowInv, UI!BackToMenu
  PROVE  WindowInv'
  BY ListingKeeps DEF UI!BackToMenu

\* MAIN asks, and leads on or shows itself again.
LEMMA AsksKeeps ==
  ASSUME UI!ConstantsAssumption, WindowInv, NEW ok, NEW w \in UI!Windows, UI!Asks(ok, w),
         ~disturbed /\ ok => Fits(w, world[data.target], shop)
  PROVE  WindowInv'
<1>1. UI!Tapped("MAIN") /\ UI!Go(IF ok THEN w ELSE "MAIN") /\ "MAIN" \in UI!Windows
  BY DEF UI!Asks, UI!Windows
<1>2. window \in UI!Windows /\ opening = None
  BY <1>1, TappedFacts
<1>3. Fits("MAIN", world[data.target], shop)
  BY DEF Fits, OfOne
<1>4. CASE ok
  BY <1>1, <1>2, <1>4, GoKeeps
<1>5. CASE ~ok
  BY <1>1, <1>2, <1>3, <1>5, GoKeeps
<1> QED  BY <1>4, <1>5

\* What MAIN asks is what the next window needs.
LEMMA AskingKeeps ==
  ASSUME UI!ConstantsAssumption, WindowInv,
         \/ UI!CurrentSubscription \/ UI!Transactions \/ UI!GiveAccess \/ UI!GiveSubscription
         \/ \E d \in BOOLEAN : UI!Sync(d)
  PROVE  WindowInv'
<1>1. CASE UI!CurrentSubscription
  <2>1. UI!Asks(world[data.target].sub # "none", "SUBSCRIPTION")
    BY <1>1 DEF UI!CurrentSubscription, UI!Has, UI!T
  <2>2. world[data.target].sub # "none" => Fits("SUBSCRIPTION", world[data.target], shop)
    BY DEF Fits
  <2> QED  BY <2>1, <2>2, AsksKeeps DEF UI!Windows
<1>2. CASE UI!Transactions
  <2>1. Fits("TRANSACTIONS_LIST", world[data.target], shop)
    BY DEF Fits, OfOne
  <2> QED  BY <1>2, <2>1, AsksKeeps DEF UI!Transactions, UI!Windows
<1>3. CASE UI!GiveAccess
  <2>1. shop.restricted => Fits("GIVE_ACCESS", world[data.target], shop)
    BY DEF Fits, OfOne
  <2> QED  BY <1>3, <2>1, AsksKeeps DEF UI!GiveAccess, UI!Windows
<1>4. CASE UI!GiveSubscription
  <2>1. shop.offered => Fits("GIVE_SUBSCRIPTION", world[data.target], shop)
    BY DEF Fits, OfOne
  <2> QED  BY <1>4, <2>1, AsksKeeps DEF UI!GiveSubscription, UI!Windows
<1>5. ASSUME NEW d \in BOOLEAN, UI!Sync(d) PROVE WindowInv'
  <2>1. Fits("SYNC", world[data.target], shop)
    BY DEF Fits, OfOne
  <2>2. UI!Asks(UI!Differs(world[data.target], d), "SYNC")
    BY <1>5 DEF UI!Sync, UI!T
  <2> QED  BY <2>1, <2>2, AsksKeeps DEF UI!Windows
<1> QED  BY <1>1, <1>2, <1>3, <1>4, <1>5

\* These show a window that needs nothing, and change nothing of what the windows ask.
LEMMA StayingKeeps ==
  ASSUME UI!ConstantsAssumption, WindowInv,
         \/ UI!BlockToggle \/ UI!TrialToggle \/ UI!ReferralReset
         \/ UI!TogglePlanAccess \/ UI!RoleSelect \/ UI!ChangePoints
         \/ \E w \in UI!Windows : UI!SetDiscount(w)
         \/ UI!SetPassword \/ UI!SendPurchaseMail
  PROVE  WindowInv'
<1>0. /\ "MAIN" \in UI!Windows /\ "GIVE_ACCESS" \in UI!Windows /\ "ROLE" \in UI!Windows
      /\ "POINTS" \in UI!Windows /\ "DISCOUNT" \in UI!Windows /\ "PASSWORD" \in UI!Windows
      /\ "EMAIL_OPTIONS" \in UI!Windows
  BY DEF UI!Windows
<1>1. ASSUME NEW w \in {"MAIN", "ROLE", "POINTS", "DISCOUNT", "EMAIL_OPTIONS", "PASSWORD"},
             NEW v \in UI!Windows, UI!Tapped(v), UI!Go(w)
      PROVE  WindowInv'
  <2>1. w \in UI!Windows /\ Fits(w, world[data.target], shop)
    BY <1>0 DEF Fits, OfOne
  <2>2. window \in UI!Windows /\ opening = None
    BY <1>1, TappedFacts
  <2> QED  BY <1>1, <2>1, <2>2, GoKeeps
<1>2. CASE UI!BlockToggle \/ UI!TrialToggle
  BY <1>0, <1>1, <1>2 DEF UI!BlockToggle, UI!TrialToggle
<1>3. CASE UI!ReferralReset
  <2>1. UI!Tapped("MAIN") /\ (UI!Confirms("referral", "MAIN") \/ UI!Go("MAIN"))
    BY <1>3 DEF UI!ReferralReset
  <2>2. window = "MAIN" /\ window \in UI!Windows /\ opening = None
    BY <1>0, <2>1, TappedFacts
  <2>3. CASE UI!Confirms("referral", "MAIN")
    BY <2>2, <2>3, ConfirmKeeps DEF ConfirmKeys
  <2> QED  BY <1>0, <1>1, <2>1, <2>3
<1>4. CASE UI!TogglePlanAccess
  <2>1. UI!Tapped("GIVE_ACCESS") /\ UI!Go("GIVE_ACCESS")
    BY <1>4 DEF UI!TogglePlanAccess
  <2>2. window \in UI!Windows /\ opening = None
        /\ (~disturbed => Fits("GIVE_ACCESS", world[data.target], shop))
    BY <1>0, <2>1, TappedFacts
  <2> QED  BY <1>0, <2>1, <2>2, GoKeeps
<1>5. CASE UI!RoleSelect \/ UI!ChangePoints
  BY <1>0, <1>1, <1>5 DEF UI!RoleSelect, UI!ChangePoints
<1>6. ASSUME NEW w \in UI!Windows, UI!SetDiscount(w) PROVE WindowInv'
  BY <1>1, <1>6 DEF UI!SetDiscount
<1>7. CASE UI!SetPassword \/ UI!SendPurchaseMail
  BY <1>0, <1>1, <1>7 DEF UI!SetPassword, UI!SendPurchaseMail
<1> QED  BY <1>2, <1>3, <1>4, <1>5, <1>6, <1>7

\* What is typed or chosen is kept for the one the message shows.
LEMMA KeepingKeeps ==
  ASSUME UI!ConstantsAssumption, WindowInv,
         \/ UI!SelectFromTransactions \/ UI!SubscriptionSelect \/ UI!MessageInput \/ UI!DraftInput
  PROVE  WindowInv'
<1>0. /\ "TRANSACTIONS_LIST" \in UI!Windows /\ "GIVE_SUBSCRIPTION" \in UI!Windows
      /\ "MESSAGE" \in UI!Windows /\ "EMAIL_CUSTOM" \in UI!Windows /\ "TRANSACTION" \in UI!Windows
      /\ "SUBSCRIPTION_DURATION" \in UI!Windows
  BY DEF UI!Windows
<1>1. CASE UI!SelectFromTransactions
  <2> DEFINE d == [data EXCEPT !.transaction = seen.target]
  <2>1. UI!Tapped("TRANSACTIONS_LIST") /\ UI!To("TRANSACTION", d) /\ UNCHANGED world
    BY <1>1 DEF UI!SelectFromTransactions
  <2>2. /\ window \in UI!Windows /\ opening = None /\ data \in DialogData
        /\ data.target \in Customer
        /\ seen.target = data.target /\ KeptFor(data, data.target)
    BY <1>0, <2>1, TappedFacts
  <2>3. d \in DialogData /\ d.target = data.target /\ KeptFor(d, data.target)
    BY <2>2 DEF DialogData, KeptFor
  <2>4. Fits("TRANSACTION", world[data.target], shop)
    BY DEF Fits, OfOne
  <2> HIDE DEF d
  <2> QED  BY <1>0, <2>1, <2>2, <2>3, <2>4, DataKeeps
<1>2. CASE UI!SubscriptionSelect
  <2> DEFINE d == [data EXCEPT !.plan = seen.target]
  <2>1. UI!Tapped("GIVE_SUBSCRIPTION") /\ UI!To("SUBSCRIPTION_DURATION", d) /\ UNCHANGED world
        /\ seen.shop.plan
    BY <1>2 DEF UI!SubscriptionSelect
  <2>2. /\ window \in UI!Windows /\ opening = None /\ data \in DialogData
        /\ data.target \in Customer
        /\ seen.target = data.target /\ KeptFor(data, data.target)
        /\ ~disturbed => Fits("GIVE_SUBSCRIPTION", world[data.target], shop)
                         /\ seen.shop = shop
    BY <1>0, <2>1, TappedFacts
  <2>3. d \in DialogData /\ d.target = data.target /\ KeptFor(d, data.target)
    BY <2>2 DEF DialogData, KeptFor
  <2>4. ~disturbed => Fits("SUBSCRIPTION_DURATION", world[data.target], shop)
    BY <2>1, <2>2 DEF Fits, OfOne
  <2> HIDE DEF d
  <2> QED  BY <1>0, <2>1, <2>2, <2>3, <2>4, DataKeeps
<1>3. CASE UI!MessageInput
  <2> DEFINE d == [data EXCEPT !.message = seen.target]
  <2>1. UI!Tapped("MESSAGE") /\ UI!To("MESSAGE", d) /\ UNCHANGED world
    BY <1>3 DEF UI!MessageInput
  <2>2. /\ window \in UI!Windows /\ opening = None /\ data \in DialogData
        /\ data.target \in Customer
        /\ seen.target = data.target /\ KeptFor(data, data.target)
    BY <1>0, <2>1, TappedFacts
  <2>3. d \in DialogData /\ d.target = data.target /\ KeptFor(d, data.target)
    BY <2>2 DEF DialogData, KeptFor
  <2>4. Fits("MESSAGE", world[data.target], shop)
    BY DEF Fits, OfOne
  <2> HIDE DEF d
  <2> QED  BY <1>0, <2>1, <2>2, <2>3, <2>4, DataKeeps
<1>4. CASE UI!DraftInput
  <2> DEFINE d == [data EXCEPT !.draft = seen.target]
  <2>1. UI!Tapped("EMAIL_CUSTOM") /\ UI!To("EMAIL_CUSTOM", d) /\ UNCHANGED world
    BY <1>4 DEF UI!DraftInput
  <2>2. /\ window \in UI!Windows /\ opening = None /\ data \in DialogData
        /\ data.target \in Customer
        /\ seen.target = data.target /\ KeptFor(data, data.target)
    BY <1>0, <2>1, TappedFacts
  <2>3. d \in DialogData /\ d.target = data.target /\ KeptFor(d, data.target)
    BY <2>2 DEF DialogData, KeptFor
  <2>4. Fits("EMAIL_CUSTOM", world[data.target], shop)
    BY DEF Fits, OfOne
  <2> HIDE DEF d
  <2> QED  BY <1>0, <2>1, <2>2, <2>3, <2>4, DataKeeps
<1> QED  BY <1>1, <1>2, <1>3, <1>4

\* A subscription is given.
LEMMA DurationSelectKeeps ==
  ASSUME UI!ConstantsAssumption, WindowInv, Strangers, UI!SubscriptionDurationSelect
  PROVE  WindowInv'
<1> DEFINE F == world[data.target]
           G == [F EXCEPT !.sub = "ACTIVE", !.panel = TRUE]
<1>1. /\ UI!Tapped("SUBSCRIPTION_DURATION")
      /\ \/ UI!Runs(shop.plan /\ F.panel, G, "MAIN") /\ ~(shop.plan /\ F.sub = "none")
         \/ UI!Runs(TRUE, G, "MAIN")
         \/ UI!RaiseTaken /\ F.sub = "none" /\ (F.orphan \/ F.panel)
  BY DEF UI!SubscriptionDurationSelect, UI!GiveFirst, UI!NameTaken, UI!Has, UI!T, UI!Given
<1>2. /\ window \in UI!Windows /\ opening = None /\ F \in UI!Facts /\ data.target \in Customer
      /\ ~disturbed => Fits("SUBSCRIPTION_DURATION", F, shop) /\ Settled(F)
  BY <1>1, TappedFacts DEF UI!Windows
<1>3. G \in UI!Facts /\ Settled(G)
  BY <1>2 DEF UI!Facts, UI!Status, Settled
<1>4. "MAIN" \in UI!Windows /\ Fits("MAIN", G, shop)
  BY DEF UI!Windows, Fits, OfOne
<1>5. CASE UI!Runs(shop.plan /\ F.panel, G, "MAIN") /\ ~(shop.plan /\ F.sub = "none")
  <2>1. ~disturbed => shop.plan /\ F.panel
    BY <1>2, <1>5 DEF Fits, Settled
  <2> HIDE DEF G
  <2> QED  BY <1>2, <1>3, <1>4, <1>5, <2>1, RunsKeeps
<1>6. CASE UI!Runs(TRUE, G, "MAIN")
  <2> HIDE DEF G
  <2> QED  BY <1>2, <1>3, <1>4, <1>6, RunsKeeps
<1>7. CASE UI!RaiseTaken /\ F.sub = "none" /\ (F.orphan \/ F.panel)
  <2>1. F.orphan \/ UI!Foreign(data.target)
    BY <1>2, <1>7 DEF Strangers
  <2> QED  BY <1>2, <1>7, <2>1, RaiseTakenKeeps
<1> QED  BY <1>1, <1>5, <1>6, <1>7

\* The subscription is taken from the panel, or given to it.
LEMMA SyncKeeps ==
  ASSUME UI!ConstantsAssumption, WindowInv,
         UI!SyncFromRemnashop \/ \E s \in UI!Status : UI!SyncFromRemnawave(s)
  PROVE  WindowInv'
<1> DEFINE F == world[data.target]
<1>0. "MAIN" \in UI!Windows /\ "SYNC" \in UI!Windows /\ \A G : Fits("MAIN", G, shop)
  BY DEF UI!Windows, Fits, OfOne
<1>1. CASE UI!SyncFromRemnashop
  <2> DEFINE G == UI!Exported(F)
  <2>1. /\ UI!Tapped("SYNC")
        /\ UI!Runs(TRUE, G, "MAIN") \/ (UI!RaiseTaken /\ F.sub # "none" /\ ~F.panel)
    BY <1>1 DEF UI!SyncFromRemnashop, UI!Has, UI!T
  <2>2. window \in UI!Windows /\ opening = None /\ F \in UI!Facts /\ (~disturbed => Settled(F))
    BY <1>0, <2>1, TappedFacts
  <2>3. G \in UI!Facts /\ (Settled(F) => Settled(G))
    BY <2>2 DEF UI!Facts, Settled, UI!Exported
  <2> HIDE DEF G
  <2>4. CASE UI!Runs(TRUE, G, "MAIN")
    BY <1>0, <2>2, <2>3, <2>4, RunsKeeps
  <2>5. CASE UI!RaiseTaken /\ F.sub # "none" /\ ~F.panel
    <3>1. disturbed
      BY <2>2, <2>5 DEF Settled, WindowInv, WindowTypes
    <3> QED  BY <2>5, <3>1, RaiseKeeps
  <2> QED  BY <2>1, <2>4, <2>5
<1>2. ASSUME NEW s \in UI!Status, UI!SyncFromRemnawave(s) PROVE WindowInv'
  <2> DEFINE G == UI!Imported(F, s)
  <2>1. UI!Tapped("SYNC") /\ UI!Runs(TRUE, G, "MAIN")
    BY <1>2 DEF UI!SyncFromRemnawave, UI!T
  <2>2. window \in UI!Windows /\ opening = None /\ F \in UI!Facts
    BY <1>0, <2>1, TappedFacts
  <2>3. G \in UI!Facts /\ Settled(G)
    BY <2>2 DEF UI!Facts, Settled, UI!Imported
  <2> HIDE DEF G
  <2> QED  BY <1>0, <2>1, <2>2, <2>3, RunsKeeps
<1> QED  BY <1>1, <1>2

\* A command that needs the row and the panel's user, in a window of one subscription.
LEMMA OfOneKeeps ==
  ASSUME UI!ConstantsAssumption, WindowInv, NEW v \in OfOne, UI!Tapped(v), NEW w \in OfOne,
         NEW facts \in UI!Facts,
         world[data.target].sub # "none" => facts.sub # "none",
         Settled(world[data.target]) => Settled(facts),
         \/ UI!Runs(UI!Has(UI!T) /\ world[UI!T].panel, facts, w)
         \/ UI!Runs(UI!Has(UI!T), facts, w)
         \/ UI!Runs(world[UI!T].panel, facts, w)
  PROVE  WindowInv'
<1>1. v \in UI!Windows /\ w \in UI!Windows
  BY DEF OfOne, UI!Windows
<1>2. /\ window \in UI!Windows /\ opening = None
      /\ ~disturbed => Fits(v, world[data.target], shop) /\ Settled(world[data.target])
  BY <1>1, TappedFacts
<1>3. ~disturbed => UI!Has(UI!T) /\ world[UI!T].panel
  BY <1>2 DEF Fits, Settled, UI!Has, UI!T
<1>4. ~disturbed => Settled(facts) /\ Fits(w, facts, shop)
  BY <1>2 DEF Fits, OfOne
<1>5. CASE UI!Runs(UI!Has(UI!T) /\ world[UI!T].panel, facts, w)
  BY <1>1, <1>2, <1>3, <1>4, <1>5, RunsKeeps
<1>6. CASE UI!Runs(UI!Has(UI!T), facts, w)
  BY <1>1, <1>2, <1>3, <1>4, <1>6, RunsKeeps
<1>7. CASE UI!Runs(world[UI!T].panel, facts, w)
  BY <1>1, <1>2, <1>3, <1>4, <1>7, RunsKeeps
<1> QED  BY <1>5, <1>6, <1>7

\* The limits and the squads.
LEMMA LimitKeeps ==
  ASSUME UI!ConstantsAssumption, WindowInv, UI!TrafficLimit \/ UI!DeviceLimit \/ UI!SquadSelect
  PROVE  WindowInv'
<1> DEFINE F == world[data.target]
<1>0. /\ "SUBSCRIPTION" \in OfOne
      /\ {"TRAFFIC_LIMIT", "DEVICE_LIMIT", "INTERNAL_SQUADS", "EXTERNAL_SQUADS"} \subseteq OfOne
      /\ OfOne \subseteq UI!Windows
  BY DEF OfOne, UI!Windows
<1>1. PICK v \in {"TRAFFIC_LIMIT", "DEVICE_LIMIT", "INTERNAL_SQUADS", "EXTERNAL_SQUADS"},
           w \in OfOne :
        UI!Tapped(v) /\ UI!Runs(UI!Has(UI!T) /\ world[UI!T].panel, F, w)
  BY <1>0 DEF UI!TrafficLimit, UI!DeviceLimit, UI!SquadSelect, UI!UpdateLimit, UI!ToggleSquad, UI!T
<1>2. F \in UI!Facts
  BY <1>0, <1>1, TappedFacts
<1> QED  BY <1>0, <1>1, <1>2, OfOneKeeps

\* Days are added.
LEMMA AddDurationKeeps ==
  ASSUME UI!ConstantsAssumption, WindowInv, NEW s \in UI!Status, UI!AddDuration(s)
  PROVE  WindowInv'
<1> DEFINE F == world[data.target]
           G == [F EXCEPT !.sub = s]
<1>0. "EXPIRE_TIME" \in OfOne /\ "EXPIRE_TIME" \in UI!Windows
  BY DEF OfOne, UI!Windows
<1>1. UI!Tapped("EXPIRE_TIME") /\ (IF UI!Has(UI!T) THEN UI!Runs(world[UI!T].panel, G, "EXPIRE_TIME")
                                ELSE UI!Go("EXPIRE_TIME"))
  BY DEF UI!AddDuration, UI!T
<1>2. /\ window \in UI!Windows /\ opening = None /\ F \in UI!Facts
      /\ ~disturbed => Fits("EXPIRE_TIME", F, shop)
  BY <1>0, <1>1, TappedFacts
<1>3. CASE ~UI!Has(UI!T)
  BY <1>0, <1>1, <1>2, <1>3, GoKeeps
<1>4. CASE UI!Has(UI!T)
  <2>1. G \in UI!Facts /\ G.sub # "none" /\ (Settled(F) => Settled(G))
    BY <1>2, <1>4 DEF UI!Facts, Settled, UI!Status, UI!Has, UI!T
  <2> HIDE DEF G
  <2> QED  BY <1>0, <1>1, <1>4, <2>1, OfOneKeeps
<1> QED  BY <1>3, <1>4

\* The subscription is switched on or off.
LEMMA ActiveToggleKeeps ==
  ASSUME UI!ConstantsAssumption, WindowInv, NEW s \in UI!Status, UI!ActiveToggle(s)
  PROVE  WindowInv'
<1> DEFINE F == world[data.target]
           G == [F EXCEPT !.sub = s]
<1>0. "SUBSCRIPTION" \in OfOne /\ "SUBSCRIPTION" \in UI!Windows
  BY DEF OfOne, UI!Windows
<1>1. UI!Tapped("SUBSCRIPTION") /\ UI!Runs(UI!Has(UI!T) /\ world[UI!T].panel, G, "SUBSCRIPTION")
  BY DEF UI!ActiveToggle, UI!T
<1>2. F \in UI!Facts /\ window \in UI!Windows /\ opening = None
      /\ (~disturbed => Fits("SUBSCRIPTION", F, shop) /\ Settled(F))
  BY <1>0, <1>1, TappedFacts
<1>3. G \in UI!Facts /\ G.sub # "none" /\ G.panel = F.panel
  BY <1>2 DEF UI!Facts, UI!Status
<1>4. ~disturbed => /\ UI!Has(UI!T) /\ world[UI!T].panel /\ Settled(G)
                    /\ Fits("SUBSCRIPTION", G, shop)
  BY <1>2, <1>3 DEF Fits, OfOne, Settled, UI!Has, UI!T
<1> HIDE DEF G
<1> QED  BY <1>0, <1>1, <1>2, <1>3, <1>4, RunsKeeps

\* It is deleted, and its windows are left.
LEMMA SubscriptionDeleteKeeps ==
  ASSUME UI!ConstantsAssumption, WindowInv, UI!SubscriptionDelete
  PROVE  WindowInv'
<1> DEFINE F == world[data.target]
           G == UI!Deleted(F)
<1>0. "SUBSCRIPTION" \in OfOne /\ "SUBSCRIPTION" \in UI!Windows /\ "MAIN" \in UI!Windows
  BY DEF OfOne, UI!Windows
<1>1. /\ UI!Tapped("SUBSCRIPTION")
      /\ UI!Confirms("delete", "SUBSCRIPTION") \/ UI!Runs(UI!Has(UI!T), G, "MAIN")
  BY DEF UI!SubscriptionDelete, UI!T
<1>2. /\ window = "SUBSCRIPTION" /\ window \in UI!Windows /\ opening = None /\ F \in UI!Facts
      /\ ~disturbed => Fits("SUBSCRIPTION", F, shop)
  BY <1>0, <1>1, TappedFacts
<1>3. CASE UI!Confirms("delete", "SUBSCRIPTION")
  BY <1>2, <1>3, ConfirmKeeps DEF ConfirmKeys
<1>4. CASE UI!Runs(UI!Has(UI!T), G, "MAIN")
  <2>1. G \in UI!Facts /\ Settled(G) /\ Fits("MAIN", G, shop)
    BY <1>2 DEF UI!Facts, Settled, UI!Deleted, Fits, OfOne
  <2>2. ~disturbed => UI!Has(UI!T)
    BY <1>2 DEF Fits, OfOne, UI!Has, UI!T
  <2> HIDE DEF G
  <2> QED  BY <1>0, <1>2, <1>4, <2>1, <2>2, RunsKeeps
<1> QED  BY <1>1, <1>3, <1>4

\* What the panel is asked to do.
LEMMA PanelCommandKeeps ==
  ASSUME UI!ConstantsAssumption, WindowInv, UI!ResetTraffic \/ UI!Reissue \/ UI!Devices
  PROVE  WindowInv'
<1> DEFINE F == world[data.target]
<1>0. "SUBSCRIPTION" \in OfOne /\ "SUBSCRIPTION" \in UI!Windows /\ "DEVICES_LIST" \in OfOne
  BY DEF OfOne, UI!Windows
<1>1. /\ UI!Tapped("SUBSCRIPTION")
      /\ \/ UI!Confirms("reissue", "SUBSCRIPTION")
         \/ UI!Runs(UI!Has(UI!T), F, "SUBSCRIPTION")
         \/ \E w \in OfOne : UI!Runs(UI!Has(UI!T) /\ world[UI!T].panel, F, w)
  BY <1>0 DEF UI!ResetTraffic, UI!Reissue, UI!PanelCommand, UI!Devices, UI!T
<1>2. window = "SUBSCRIPTION" /\ window \in UI!Windows /\ opening = None /\ F \in UI!Facts
  BY <1>0, <1>1, TappedFacts
<1>3. CASE UI!Confirms("reissue", "SUBSCRIPTION")
  BY <1>2, <1>3, ConfirmKeeps DEF ConfirmKeys
<1>4. CASE UI!Runs(UI!Has(UI!T), F, "SUBSCRIPTION")
  BY <1>0, <1>1, <1>2, <1>4, OfOneKeeps
<1>5. ASSUME NEW w \in OfOne, UI!Runs(UI!Has(UI!T) /\ world[UI!T].panel, F, w) PROVE WindowInv'
  BY <1>0, <1>1, <1>2, <1>5, OfOneKeeps
<1> QED  BY <1>1, <1>3, <1>4, <1>5

\* A device is deleted.
LEMMA DeviceDeleteKeeps ==
  ASSUME UI!ConstantsAssumption, WindowInv, UI!DeviceDelete
  PROVE  WindowInv'
<1> DEFINE F == world[data.target]
           left == IF F.panel /\ F.devices > 0 THEN F.devices - 1 ELSE 0
           G == [F EXCEPT !.devices = IF F.panel THEN left ELSE @, !.reset = TRUE]
           w == IF left = 0 THEN "SUBSCRIPTION" ELSE "DEVICES_LIST"
<1>0. w \in OfOne /\ "DEVICES_LIST" \in OfOne /\ "DEVICES_LIST" \in UI!Windows
  BY DEF OfOne, UI!Windows
<1>1. UI!Tapped("DEVICES_LIST")
  BY DEF UI!DeviceDelete
<1>2. F \in UI!Facts
  BY <1>0, <1>1, TappedFacts
<1>3. CASE UI!Refused
  <2>1. /\ window' = "closed" /\ opening' = None
        /\ UNCHANGED <<opened, world, shop, start, data, seen, error, disturbed>>
    BY <1>3 DEF UI!DeviceDelete
  <2>2. WindowTypes'
    BY <2>1 DEF WindowInv, WindowTypes
  <2>3. OneTarget'
    BY <2>1, WindowNames DEF WindowInv, OneTarget, KeptFor
  <2>4. ~disturbed' => Undisturbed'
    BY <1>0, <1>1, <2>1, WindowNames DEF WindowInv, Undisturbed, Occupied, UI!Tapped, Leading, Fits
  <2> QED  BY <2>2, <2>3, <2>4 DEF WindowInv
<1>4. CASE ~UI!Refused
  <2>1. UI!Runs(UI!Has(UI!T), G, w)
    BY <1>4 DEF UI!DeviceDelete, UI!T
  <2>2. left \in Nat
    BY <1>2 DEF UI!Facts
  <2> HIDE DEF left
  <2>3. G \in UI!Facts /\ G.sub = F.sub /\ G.panel = F.panel
    BY <1>2, <2>2 DEF UI!Facts
  <2> HIDE DEF G, w
  <2> QED  BY <1>0, <1>1, <2>1, <2>3, OfOneKeeps DEF Settled
<1> QED  BY <1>3, <1>4

\* A message or a mail is sent.
LEMMA MessageKeeps ==
  ASSUME UI!ConstantsAssumption, WindowInv, UI!Send \/ \E f \in BOOLEAN : UI!SendMail(f)
  PROVE  WindowInv'
<1>0. /\ "MESSAGE" \in UI!Windows /\ "MAIN" \in UI!Windows /\ "EMAIL_CUSTOM" \in UI!Windows
      /\ "EMAIL_OPTIONS" \in UI!Windows
      /\ \A w \in {"MAIN", "EMAIL_CUSTOM", "EMAIL_OPTIONS"} :
           Fits(w, world[data.target], shop)
  BY DEF UI!Windows, Fits, OfOne
<1>1. CASE UI!Send
  <2>1. /\ UI!Tapped("MESSAGE")
        /\ UI!Confirms("message", "MESSAGE") \/ UI!Go("MAIN") \/ UI!Denied
    BY <1>1 DEF UI!Send
  <2>2. window = "MESSAGE" /\ window \in UI!Windows /\ opening = None
    BY <1>0, <2>1, TappedFacts
  <2>3. CASE UI!Confirms("message", "MESSAGE")
    BY <2>2, <2>3, ConfirmKeeps DEF ConfirmKeys
  <2>4. CASE UI!Go("MAIN")
    BY <1>0, <2>2, <2>4, GoKeeps
  <2>5. CASE UI!Denied
    BY <2>5 DEF UI!Denied, UI!vars, WindowInv, WindowTypes, OneTarget, KeptFor, Undisturbed,
       Occupied, UI!Foreign, Leading, Fits
  <2> QED  BY <2>1, <2>3, <2>4, <2>5
<1>2. ASSUME NEW f \in BOOLEAN, UI!SendMail(f) PROVE WindowInv'
  <2> DEFINE d == [data EXCEPT !.draft = None]
  <2>1. /\ UI!Tapped("EMAIL_CUSTOM")
        /\ \/ UI!Confirms("mail", "EMAIL_CUSTOM") \/ UI!Go("EMAIL_CUSTOM")
           \/ UNCHANGED world /\ UI!To("EMAIL_OPTIONS", d)
    BY <1>2 DEF UI!SendMail
  <2>2. /\ window = "EMAIL_CUSTOM" /\ window \in UI!Windows /\ opening = None
        /\ data \in DialogData /\ KeptFor(data, data.target)
    BY <1>0, <2>1, TappedFacts
  <2>3. CASE UI!Confirms("mail", "EMAIL_CUSTOM")
    BY <2>2, <2>3, ConfirmKeeps DEF ConfirmKeys
  <2>4. CASE UI!Go("EMAIL_CUSTOM")
    BY <1>0, <2>2, <2>4, GoKeeps
  <2>5. CASE UNCHANGED world /\ UI!To("EMAIL_OPTIONS", d)
    <3>1. d \in DialogData /\ d.target = data.target /\ KeptFor(d, data.target)
      BY <2>2 DEF DialogData, KeptFor
    <3> HIDE DEF d
    <3> QED  BY <1>0, <2>2, <2>5, <3>1, DataKeeps
  <2> QED  BY <2>1, <2>3, <2>4, <2>5
<1> QED  BY <1>1, <1>2

\* The address is set or cleared.
LEMMA AddressKeeps ==
  ASSUME UI!ConstantsAssumption, WindowInv, UI!SetEmail \/ UI!ClearEmail
  PROVE  WindowInv'
<1> DEFINE F == world[data.target]
<1>0. "EMAIL_SET" \in UI!Windows /\ "EMAIL_OPTIONS" \in UI!Windows
      /\ \A G : Fits("EMAIL_OPTIONS", G, shop)
  BY DEF UI!Windows, Fits, OfOne
<1>1. PICK v \in {"EMAIL_SET", "EMAIL_OPTIONS"}, e \in {TRUE, F.email /\ ~F.telegram} :
        UI!Tapped(v) /\ UI!Runs(TRUE, [F EXCEPT !.email = e], "EMAIL_OPTIONS")
  BY DEF UI!SetEmail, UI!ClearEmail, UI!T
<1>2. window \in UI!Windows /\ opening = None /\ F \in UI!Facts /\ (~disturbed => Settled(F))
  BY <1>0, <1>1, TappedFacts
<1> DEFINE G == [F EXCEPT !.email = e]
<1>3. G \in UI!Facts /\ (Settled(F) => Settled(G))
  BY <1>2 DEF UI!Facts, Settled
<1>4. UI!Runs(TRUE, G, "EMAIL_OPTIONS")
  BY <1>1
<1> HIDE DEF G
<1> QED  BY <1>0, <1>2, <1>3, <1>4, RunsKeeps

\* A tap is forgotten.
LEMMA CooldownKeeps ==
  ASSUME UI!ConstantsAssumption, WindowInv, UI!Cooldown
  PROVE  WindowInv'
<1>1. data \in DialogData
  BY DEF WindowInv, WindowTypes
<1>2. data' \in DialogData /\ data'.target = data.target /\ data'.clicked = {}
      /\ (KeptFor(data, data.target) => KeptFor(data', data.target))
  BY <1>1 DEF UI!Cooldown, DialogData, KeptFor
<1>3. UNCHANGED <<opened, world, shop, window, opening, start, seen, error, disturbed>>
  BY DEF UI!Cooldown
<1>4. WindowTypes'
  BY <1>2, <1>3 DEF WindowInv, WindowTypes
<1>5. OneTarget'
  BY <1>2, <1>3 DEF WindowInv, OneTarget
<1>6. ~disturbed' => Undisturbed'
  BY <1>2, <1>3 DEF WindowInv, Undisturbed, Occupied, UI!Foreign, Leading, Fits
<1> QED  BY <1>4, <1>5, <1>6 DEF WindowInv

\* Others change the shop.
LEMMA ShopChangesKeeps ==
  ASSUME UI!ConstantsAssumption, WindowInv, NEW changed \in UI!Shops, UI!ShopChanges(changed)
  PROVE  WindowInv'
<1>1. WindowTypes'
  BY DEF WindowInv, WindowTypes, UI!ShopChanges
<1>2. OneTarget'
  BY DEF WindowInv, OneTarget, UI!ShopChanges, KeptFor
<1> QED  BY <1>1, <1>2 DEF WindowInv, UI!ShopChanges

\* Whatever others do to a user.
LEMMA OthersKeepAll ==
  ASSUME UI!ConstantsAssumption, WindowInv, NEW u \in Customer,
         UI!SubscriptionGone(u) \/ UI!PanelUserGone(u) \/ UI!Expires(u) \/ UI!Buys(u)
  PROVE  WindowInv'
<1>1. world[u] \in UI!Facts
  BY DEF WindowInv, WindowTypes
<1>2. /\ [world[u] EXCEPT !.sub = "none", !.panel = FALSE] \in UI!Facts
      /\ [world[u] EXCEPT !.panel = FALSE] \in UI!Facts
      /\ [world[u] EXCEPT !.sub = "EXPIRED"] \in UI!Facts
      /\ [world[u] EXCEPT !.sub = "ACTIVE", !.panel = TRUE] \in UI!Facts
  BY <1>1 DEF UI!Facts, UI!Status
<1>3. PICK G \in UI!Facts : UI!Others(u, G)
  BY <1>2 DEF UI!SubscriptionGone, UI!PanelUserGone, UI!Expires, UI!Buys
<1> QED  BY <1>3, OthersKeep

\* The invariant holds where a behaviour begins.
LEMMA InitWindows == UI!ConstantsAssumption /\ UI!Init => WindowInv
<1> SUFFICES ASSUME UI!ConstantsAssumption, UI!Init PROVE WindowInv
  OBVIOUS
<1>1. world \in [Customer -> UI!Facts] /\ shop \in UI!Shops
  BY DEF UI!Init, UI!ConstantsAssumption
<1>2. /\ UI!NoStart \in DialogStart /\ UI!Blank \in DialogData /\ UI!NoStart.target = None
      /\ UI!NoStart.transaction = None /\ UI!Blank.target = None /\ KeptFor(UI!Blank, None)
  BY DEF UI!NoStart, DialogStart, UI!Blank, DialogData, KeptFor
<1>3. WindowTypes
  BY <1>1, <1>2 DEF UI!Init, WindowTypes
<1>4. OneTarget
  BY <1>2, WindowNames DEF UI!Init, OneTarget
<1>5. ~disturbed => Undisturbed
  BY WindowNames DEF UI!Init, Undisturbed, UI!InOrder, Settled, Leading
<1> QED  BY <1>3, <1>4, <1>5 DEF WindowInv

\* Every step keeps it.
LEMMA WindowsStep ==
  ASSUME UI!ConstantsAssumption, WindowInv, Strangers, UI!Next
  PROVE  WindowInv'
<1>1. CASE UI!RenderMain \/ UI!RenderReferrals \/ UI!RenderTransaction \/ UI!RenderOther
  BY <1>1, RenderMainKeeps, RenderReferralsKeeps, RenderTransactionKeeps, RenderOtherKeeps
<1>2. ASSUME NEW w \in UI!Windows, UI!Switch(w) PROVE WindowInv'
  BY <1>2, SwitchKeeps
<1>3. CASE UI!OpenList \/ UI!BackToReferrals \/ UI!GoToUser \/ UI!BackToList \/ UI!BackToMenu
  BY <1>3, OpenListKeeps, BackToReferralsKeeps, GoToUserKeeps, BackToListKeeps,
     BackToMenuKeeps
<1>4. ASSUME NEW found \in SUBSET Customer, UI!Search(found) PROVE WindowInv'
  BY <1>4, SearchKeeps
<1>5. ASSUME NEW u \in Customer, UI!SelectUser(u) \/ UI!SelectReferral(u) PROVE WindowInv'
  BY <1>5, SelectUserKeeps, SelectReferralKeeps
<1>6. ASSUME NEW u \in Customer, UI!SelectTransaction(u) \/ UI!SmartSearch(u) PROVE WindowInv'
  BY <1>6, StartTransactionKeeps DEF UI!SelectTransaction, UI!SmartSearch
<1>7. ASSUME NEW u \in Customer,
             UI!SubscriptionGone(u) \/ UI!PanelUserGone(u) \/ UI!Expires(u) \/ UI!Buys(u)
      PROVE  WindowInv'
  BY <1>7, OthersKeepAll
<1>8. CASE \/ UI!CurrentSubscription \/ UI!Transactions \/ UI!GiveAccess \/ UI!GiveSubscription
           \/ \E d \in BOOLEAN : UI!Sync(d)
  BY <1>8, AskingKeeps
<1>9. CASE \/ UI!BlockToggle \/ UI!TrialToggle \/ UI!ReferralReset
           \/ UI!TogglePlanAccess \/ UI!RoleSelect \/ UI!ChangePoints
           \/ \E w \in UI!Windows : UI!SetDiscount(w)
           \/ UI!SetPassword \/ UI!SendPurchaseMail
  BY <1>9, StayingKeeps
<1>10. CASE UI!SelectFromTransactions \/ UI!SubscriptionSelect \/ UI!MessageInput \/ UI!DraftInput
  BY <1>10, KeepingKeeps
<1>11. CASE UI!SubscriptionDurationSelect
  BY <1>11, DurationSelectKeeps
<1>12. CASE UI!SyncFromRemnashop \/ \E s \in UI!Status : UI!SyncFromRemnawave(s)
  BY <1>12, SyncKeeps
<1>13. ASSUME NEW s \in UI!Status, UI!AddDuration(s) \/ UI!ActiveToggle(s) PROVE WindowInv'
  BY <1>13, AddDurationKeeps, ActiveToggleKeeps
<1>14. CASE UI!TrafficLimit \/ UI!DeviceLimit \/ UI!SquadSelect
  BY <1>14, LimitKeeps
<1>15. CASE UI!SubscriptionDelete \/ UI!DeviceDelete \/ UI!Cooldown
  BY <1>15, SubscriptionDeleteKeeps, DeviceDeleteKeeps, CooldownKeeps
<1>16. CASE UI!ResetTraffic \/ UI!Reissue \/ UI!Devices
  BY <1>16, PanelCommandKeeps
<1>17. CASE UI!Send \/ \E f \in BOOLEAN : UI!SendMail(f)
  BY <1>17, MessageKeeps
<1>18. CASE UI!SetEmail \/ UI!ClearEmail
  BY <1>18, AddressKeeps
<1>19. ASSUME NEW changed \in UI!Shops, UI!ShopChanges(changed) PROVE WindowInv'
  BY <1>19, ShopChangesKeeps
<1> QED  BY <1>1, <1>2, <1>3, <1>4, <1>5, <1>6, <1>7, <1>8, <1>9, <1>10, <1>11, <1>12,
            <1>13, <1>14, <1>15, <1>16, <1>17, <1>18, <1>19 DEF UI!Next

\* A row whose panel user G lacks, or who has none, was no stranger unless F is one.
NoStranger(F, G) == G.sub = "none" /\ G.panel => F.sub = "none" /\ F.panel

\* What the windows change of a user, whoever does it.
LEMMA ChangedFacts ==
  ASSUME UI!ConstantsAssumption, WindowInv, UI!Next
  PROVE  /\ opened' = opened
         /\ \/ world' = world
            \/ \E u \in Customer : \E G : NoStranger(world[u], G)
                                      /\ world' = [world EXCEPT ![u] = G]
<1> DEFINE Kept == opened' = opened /\ world' = world
           Changed(u, G) == opened' = opened /\ world' = [world EXCEPT ![u] = G]
           F == world[data.target]
<1> SUFFICES Kept \/ \E u \in Customer : \E G : NoStranger(world[u], G) /\ Changed(u, G)
  OBVIOUS
<1>0. \A w : UI!Tapped(w) /\ w \in UI!Windows => data.target \in Customer
  BY TappedFacts
<1>1. \A ok, G, w : UI!Runs(ok, G, w) => Kept \/ Changed(data.target, G)
  BY DEF UI!Runs, UI!T, UI!To, UI!Raise, UI!Closes
<1>2. ASSUME NEW w, UI!Tapped(w), w \in UI!Windows, NEW ok, NEW G, NEW v, UI!Runs(ok, G, v),
             NoStranger(F, G)
      PROVE  Kept \/ \E u \in Customer : \E H : NoStranger(world[u], H) /\ Changed(u, H)
  BY <1>0, <1>1, <1>2
<1>3. CASE \/ UI!RenderMain \/ UI!RenderReferrals \/ UI!RenderTransaction \/ UI!RenderOther
           \/ UI!OpenList \/ UI!BackToReferrals \/ UI!GoToUser \/ UI!BackToList \/ UI!BackToMenu
           \/ \E found \in SUBSET Customer : UI!Search(found)
           \/ \E u \in Customer : \/ UI!SelectUser(u) \/ UI!SelectReferral(u)
                                  \/ UI!SelectTransaction(u) \/ UI!SmartSearch(u)
  <2>1. \A w, s : UI!Start(w, s) => Kept
    BY DEF UI!Start
  <2>2. \A o, f : UI!Listing(o, f) => Kept
    BY DEF UI!Listing
  <2>3. \A w, d : UI!Renders(w, d) => Kept
    BY DEF UI!Renders
  <2>4. UI!Raise => Kept
    BY DEF UI!Raise, UI!Closes
  <2> HIDE DEF Kept
  <2>5. CASE UI!RenderMain \/ UI!RenderReferrals \/ UI!RenderTransaction \/ UI!RenderOther
    BY <2>3, <2>4, <2>5 DEF UI!RenderMain, UI!RenderReferrals, UI!RenderTransaction, UI!RenderOther
  <2>6. CASE UI!OpenList \/ UI!BackToReferrals \/ UI!GoToUser \/ UI!BackToList \/ UI!BackToMenu
    BY <2>1, <2>2, <2>6 DEF UI!OpenList, UI!BackToReferrals, UI!GoToUser, UI!BackToList,
       UI!BackToMenu
  <2>7. ASSUME NEW found \in SUBSET Customer, UI!Search(found) PROVE Kept
    BY <2>1, <2>2, <2>7 DEF UI!Search
  <2>8. ASSUME NEW u \in Customer, \/ UI!SelectUser(u) \/ UI!SelectReferral(u)
                                  \/ UI!SelectTransaction(u) \/ UI!SmartSearch(u)
        PROVE  Kept
    BY <2>1, <2>8 DEF UI!SelectUser, UI!SelectReferral, UI!SelectTransaction, UI!SmartSearch,
       UI!StartTransaction
  <2> QED  BY <1>3, <2>5, <2>6, <2>7, <2>8
<1>4. CASE \/ \E w \in UI!Windows : UI!Switch(w) \/ UI!SetDiscount(w)
           \/ UI!CurrentSubscription \/ UI!Transactions \/ UI!GiveAccess \/ UI!GiveSubscription
           \/ \E d \in BOOLEAN : UI!Sync(d) \/ UI!SendMail(d)
           \/ UI!BlockToggle \/ UI!TrialToggle \/ UI!ReferralReset \/ UI!SelectFromTransactions
           \/ UI!TogglePlanAccess \/ UI!RoleSelect \/ UI!ChangePoints
           \/ UI!SubscriptionSelect \/ UI!MessageInput \/ UI!Send \/ UI!SetPassword
           \/ UI!SendPurchaseMail \/ UI!DraftInput \/ UI!Cooldown
           \/ \E changed \in UI!Shops : UI!ShopChanges(changed)
  BY <1>4 DEF UI!Switch, UI!SetDiscount, UI!CurrentSubscription, UI!Transactions, UI!GiveAccess,
     UI!GiveSubscription, UI!Sync, UI!SendMail, UI!Asks, UI!BlockToggle, UI!TrialToggle,
     UI!ReferralReset, UI!SelectFromTransactions, UI!TogglePlanAccess, UI!RoleSelect,
     UI!ChangePoints, UI!SubscriptionSelect, UI!MessageInput, UI!Send, UI!SetPassword,
     UI!SendPurchaseMail, UI!DraftInput, UI!Cooldown, UI!ShopChanges, UI!Confirms, UI!Go, UI!To,
     UI!Denied, UI!vars
<1>5. ASSUME NEW u \in Customer,
             UI!SubscriptionGone(u) \/ UI!PanelUserGone(u) \/ UI!Expires(u) \/ UI!Buys(u)
      PROVE  \E G : NoStranger(world[u], G) /\ Changed(u, G)
  <2>0. world[u] \in UI!Facts
    BY DEF WindowInv, WindowTypes
  <2>1. CASE UI!SubscriptionGone(u)
    <3> DEFINE G == [world[u] EXCEPT !.sub = "none", !.panel = FALSE]
    <3>1. NoStranger(world[u], G)
      BY <2>0 DEF NoStranger, UI!Facts
    <3>2. Changed(u, G)
      BY <2>1 DEF UI!SubscriptionGone, UI!Others
    <3> QED  BY <3>1, <3>2
  <2>2. CASE UI!PanelUserGone(u)
    <3> DEFINE G == [world[u] EXCEPT !.panel = FALSE]
    <3>1. NoStranger(world[u], G)
      BY <2>0 DEF NoStranger, UI!Facts
    <3>2. Changed(u, G)
      BY <2>2 DEF UI!PanelUserGone, UI!Others
    <3> QED  BY <3>1, <3>2
  <2>3. CASE UI!Expires(u)
    <3> DEFINE G == [world[u] EXCEPT !.sub = "EXPIRED"]
    <3>1. NoStranger(world[u], G)
      BY <2>0 DEF NoStranger, UI!Facts
    <3>2. Changed(u, G)
      BY <2>3 DEF UI!Expires, UI!Others
    <3> QED  BY <3>1, <3>2
  <2>4. CASE UI!Buys(u)
    <3> DEFINE G == [world[u] EXCEPT !.sub = "ACTIVE", !.panel = TRUE]
    <3>1. NoStranger(world[u], G)
      BY <2>0 DEF NoStranger, UI!Facts
    <3>2. Changed(u, G)
      BY <2>4 DEF UI!Buys, UI!Others
    <3> QED  BY <3>1, <3>2
  <2> QED  BY <1>5, <2>1, <2>2, <2>3, <2>4
<1>6. /\ UI!Tapped("SUBSCRIPTION_DURATION") \/ UI!Tapped("SYNC") \/ UI!Tapped("EXPIRE_TIME")
         \/ UI!Tapped("SUBSCRIPTION") => F \in UI!Facts
      /\ \A w \in {"TRAFFIC_LIMIT", "DEVICE_LIMIT", "INTERNAL_SQUADS", "EXTERNAL_SQUADS",
                   "DEVICES_LIST", "EMAIL_SET", "EMAIL_OPTIONS"} :
           UI!Tapped(w) => F \in UI!Facts
  BY TappedFacts DEF UI!Windows
<1>7. CASE UI!SubscriptionDurationSelect
  <2> DEFINE G == UI!Given(F)
  <2>1. UI!Tapped("SUBSCRIPTION_DURATION")
        /\ ((\E ok : UI!Runs(ok, G, "MAIN")) \/ UI!RaiseTaken)
    BY <1>7 DEF UI!SubscriptionDurationSelect, UI!GiveFirst, UI!T
  <2>2. NoStranger(F, G)
    BY <1>6, <2>1 DEF NoStranger, UI!Given, UI!Facts
  <2> HIDE DEF G
  <2> QED  BY <1>2, <2>1, <2>2 DEF UI!RaiseTaken, UI!Closes, UI!Windows
<1>8. CASE UI!SyncFromRemnashop
  <2> DEFINE G == UI!Exported(F)
  <2>1. UI!Tapped("SYNC") /\ (UI!Runs(TRUE, G, "MAIN") \/ UI!RaiseTaken)
    BY <1>8 DEF UI!SyncFromRemnashop, UI!T
  <2>2. NoStranger(F, G)
    BY <1>6, <2>1 DEF NoStranger, UI!Exported, UI!Facts
  <2> HIDE DEF G
  <2> QED  BY <1>2, <2>1, <2>2 DEF UI!RaiseTaken, UI!Closes, UI!Windows
<1>9. ASSUME NEW s \in UI!Status,
             UI!SyncFromRemnawave(s) \/ UI!AddDuration(s) \/ UI!ActiveToggle(s)
      PROVE  Kept \/ \E u \in Customer : \E G : NoStranger(world[u], G) /\ Changed(u, G)
  <2>1. CASE UI!SyncFromRemnawave(s)
    <3> DEFINE G == UI!Imported(F, s)
    <3>1. UI!Tapped("SYNC") /\ UI!Runs(TRUE, G, "MAIN")
      BY <2>1 DEF UI!SyncFromRemnawave, UI!T
    <3>2. NoStranger(F, G)
      BY <1>6, <3>1 DEF NoStranger, UI!Imported, UI!Facts, UI!Status
    <3> HIDE DEF G
    <3> QED  BY <1>2, <3>1, <3>2 DEF UI!Windows
  <2>2. CASE UI!AddDuration(s) \/ UI!ActiveToggle(s)
    <3> DEFINE G == [F EXCEPT !.sub = s]
    <3>1. /\ UI!Tapped("EXPIRE_TIME") \/ UI!Tapped("SUBSCRIPTION")
          /\ Kept \/ \E ok, w : UI!Runs(ok, G, w)
      BY <2>2 DEF UI!AddDuration, UI!ActiveToggle, UI!T, UI!Go, UI!To
    <3>2. NoStranger(F, G)
      BY <1>6, <3>1 DEF NoStranger, UI!Facts, UI!Status
    <3> HIDE DEF G
    <3> QED  BY <1>2, <3>1, <3>2 DEF UI!Windows
  <2> QED  BY <1>9, <2>1, <2>2
<1>10. CASE UI!SubscriptionDelete
  <2> DEFINE G == UI!Deleted(F)
  <2>1. UI!Tapped("SUBSCRIPTION") /\ (Kept \/ \E ok : UI!Runs(ok, G, "MAIN"))
    BY <1>10 DEF UI!SubscriptionDelete, UI!T, UI!Confirms, UI!To
  <2>2. NoStranger(F, G)
    BY <1>6, <2>1 DEF NoStranger, UI!Deleted, UI!Facts
  <2> HIDE DEF G
  <2> QED  BY <1>2, <2>1, <2>2 DEF UI!Windows
<1>11. CASE \/ UI!TrafficLimit \/ UI!DeviceLimit \/ UI!SquadSelect
            \/ UI!ResetTraffic \/ UI!Reissue \/ UI!Devices
  <2>1. /\ Kept \/ \E ok, w : UI!Runs(ok, F, w)
        /\ \E w \in UI!Windows : UI!Tapped(w)
    BY <1>11 DEF UI!TrafficLimit, UI!DeviceLimit, UI!SquadSelect, UI!UpdateLimit, UI!ToggleSquad,
       UI!ResetTraffic, UI!Reissue, UI!Devices, UI!PanelCommand, UI!Confirms, UI!To, UI!T,
       UI!Windows
  <2>2. NoStranger(F, F)
    BY DEF NoStranger
  <2> HIDE DEF F
  <2> QED  BY <1>2, <2>1, <2>2
<1>12. CASE UI!SetEmail \/ UI!ClearEmail
  <2>1. PICK w \in {"EMAIL_SET", "EMAIL_OPTIONS"} : UI!Tapped(w)
             /\ \E e : UI!Runs(TRUE, [F EXCEPT !.email = e], "EMAIL_OPTIONS")
    BY <1>12 DEF UI!SetEmail, UI!ClearEmail, UI!T
  <2>2. PICK e : UI!Runs(TRUE, [F EXCEPT !.email = e], "EMAIL_OPTIONS")
    BY <2>1
  <2> DEFINE G == [F EXCEPT !.email = e]
  <2>3. NoStranger(F, G)
    BY <1>6, <2>1 DEF NoStranger, UI!Facts
  <2>4. UI!Runs(TRUE, G, "EMAIL_OPTIONS")
    BY <2>2
  <2> HIDE DEF G
  <2> QED  BY <1>2, <2>1, <2>3, <2>4 DEF UI!Windows
<1>13. CASE UI!DeviceDelete
  <2> DEFINE left == IF F.panel /\ F.devices > 0 THEN F.devices - 1 ELSE 0
             n == IF F.panel THEN left ELSE F.devices
             G == [F EXCEPT !.devices = n, !.reset = TRUE]
             w == IF left = 0 THEN "SUBSCRIPTION" ELSE "DEVICES_LIST"
  <2>1. UI!Tapped("DEVICES_LIST") /\ (Kept \/ UI!Runs(UI!Has(UI!T), G, w))
    BY <1>13 DEF UI!DeviceDelete, UI!T
  <2>2. NoStranger(F, G)
    BY <1>6, <2>1 DEF NoStranger, UI!Facts
  <2> HIDE DEF G, w
  <2> QED  BY <1>2, <2>1, <2>2 DEF UI!Windows
<1> HIDE DEF F, Kept, Changed
<1> QED  BY <1>3, <1>4, <1>5, <1>7, <1>8, <1>9, <1>10, <1>11, <1>12, <1>13 DEF UI!Next

\* No command leaves a user in the panel without a row.
LEMMA StrangersStay ==
  ASSUME UI!ConstantsAssumption, WindowInv, Strangers, UI!Next
  PROVE  Strangers'
<1>1. opened' = opened /\ world \in [Customer -> UI!Facts]
  BY ChangedFacts DEF WindowInv, WindowTypes
<1>2. CASE world' = world
  BY <1>1, <1>2 DEF Strangers, UI!Foreign
<1>3. ASSUME NEW u \in Customer, NEW G, NoStranger(world[u], G),
             world' = [world EXCEPT ![u] = G]
      PROVE  Strangers'
  BY <1>1, <1>3 DEF Strangers, UI!Foreign, NoStranger
<1> QED  BY <1>2, <1>3, ChangedFacts

\* It implies what the run checks.
LEMMA WindowInvImplies ==
  ASSUME UI!ConstantsAssumption, WindowInv
  PROVE  UI!NothingMissing /\ UI!MadeForTarget
<1>1. UI!NothingMissing
  BY DEF UI!NothingMissing, WindowInv, Undisturbed, Occupied, WindowTypes, UI!Has, UI!T
<1>2. window \notin {"lists", "closed"} /\ opening = None => seen.target = data.target
  BY DEF WindowInv, OneTarget, WindowTypes
<1>3. KeptFor(data, data.target)
  BY DEF WindowInv, OneTarget
<1>4. \A f \in {"message", "draft", "plan", "transaction", "hwids", "telegram"} :
        data[f] \in {None, data.target}
  BY <1>3 DEF KeptFor
<1>5. data.clicked # {} => data.target # None
  BY <1>3 DEF KeptFor
<1> QED  BY <1>1, <1>2, <1>4, <1>5 DEF UI!MadeForTarget, UI!T

\* An administrator whom nobody disturbs is never thrown out because something is not there,
\* and by a name in use only when he gives a first subscription to one whose user the panel
\* had before or keeps from a sync; what he typed, chose and tapped is used for the user it
\* was meant for (users/user/handlers.py, getters.py, set_plan.py); for any users, roles,
\* shops and windows.
THEOREM WindowsAreTrueHolds ==
  ASSUME UI!ConstantsAssumption
  PROVE  UI!Spec => []WindowsAreTrue
<1> DEFINE Inv == WindowInv /\ Strangers
<1>1. UI!Init => Inv
  BY InitWindows DEF UI!Init, Strangers, UI!Foreign
<1>2. Inv /\ [UI!Next]_(UI!vars) => Inv'
  <2>1. ASSUME Inv, UI!Next PROVE Inv'
    BY <2>1, WindowsStep, StrangersStay
  <2>2. ASSUME Inv, UNCHANGED UI!vars PROVE Inv'
    BY <2>2 DEF UI!vars, WindowInv, WindowTypes, OneTarget, KeptFor, Undisturbed, Occupied,
       Strangers, UI!Foreign, Leading, Fits
  <2> QED  BY <2>1, <2>2
<1>3. Inv => WindowsAreTrue
  BY WindowInvImplies DEF WindowsAreTrue
<1> QED  BY <1>1, <1>2, <1>3, PTL DEF UI!Spec

-----------------------------------------------------------------------------
(* The plans. *)

\* The plans' module counts with operators of its own, which are the library's: what the
\* library says of finite sets holds for them.
LEMMA SameOperators ==
  /\ \A S : Plans!IsFiniteSet(S) <=> IsFiniteSet(S)
  /\ \A S : Plans!Cardinality(S) = Cardinality(S)
  /\ \A S, T : Plans!Injection(S, T) = Injection(S, T)
  /\ \A S, T : Plans!Surjection(S, T) = Surjection(S, T)
<1>1. ASSUME NEW S PROVE Plans!IsFiniteSet(S) <=> IsFiniteSet(S)
  BY DEF Plans!IsFiniteSet, IsFiniteSet
<1>2. ASSUME NEW S PROVE Plans!Cardinality(S) = Cardinality(S)
  BY DEF Plans!Cardinality, Cardinality
<1>3. ASSUME NEW S, NEW T PROVE Plans!Injection(S, T) = Injection(S, T)
  BY DEF Plans!Injection, Injection, Plans!IsInjective, IsInjective
<1>4. ASSUME NEW S, NEW T PROVE Plans!Surjection(S, T) = Surjection(S, T)
  BY DEF Plans!Surjection, Surjection
<1> QED BY <1>1, <1>2, <1>3, <1>4

\* A finite set has a number of elements.
LEMMA CountIsNat ==
  ASSUME NEW S, Plans!IsFiniteSet(S)
  PROVE  Plans!Cardinality(S) \in Nat
BY SameOperators, FS_CardinalityType

\* A part of a finite set is finite, and smaller unless it is all of it.
LEMMA CountOfPart ==
  ASSUME NEW S, Plans!IsFiniteSet(S), NEW T \in SUBSET S
  PROVE  /\ Plans!IsFiniteSet(T)
         /\ Plans!Cardinality(T) <= Plans!Cardinality(S)
         /\ Plans!Cardinality(S) = Plans!Cardinality(T) => S = T
BY SameOperators, FS_Subset

\* How many numbers there are from a to b.
LEMMA CountOfInterval ==
  ASSUME NEW a \in Int, NEW b \in Int
  PROVE  /\ Plans!IsFiniteSet(a .. b)
         /\ Plans!Cardinality(a .. b) = IF a > b THEN 0 ELSE b - a + 1
BY SameOperators, FS_Interval

\* An injection into a finite set of the same size reaches all of it.
LEMMA CountOfInjection ==
  ASSUME NEW S, NEW T, NEW f \in Plans!Injection(S, T), Plans!IsFiniteSet(T)
  PROVE  /\ Plans!IsFiniteSet(S)
         /\ Plans!Cardinality(S) <= Plans!Cardinality(T)
         /\ Plans!Cardinality(S) = Plans!Cardinality(T) <=> f \in Plans!Surjection(S, T)
<1>1. IsFiniteSet(T) /\ f \in Injection(S, T)
  BY SameOperators
<1>2. /\ IsFiniteSet(S) /\ Cardinality(S) <= Cardinality(T)
      /\ Cardinality(S) = Cardinality(T) <=> f \in Surjection(S, T)
  BY <1>1, FS_Injection
<1> QED BY <1>2, SameOperators

\* Only the empty set has no element.
LEMMA CountOfNone ==
  /\ Plans!IsFiniteSet({}) /\ Plans!Cardinality({}) = 0
  /\ \A S : Plans!IsFiniteSet(S) => (Plans!Cardinality(S) = 0 <=> S = {})
BY SameOperators, FS_EmptySet

\* Every variable keeps its type.
PlanTypes ==
  /\ plan \in [PlanId -> Plans!PlanDto \cup {None}] /\ born \in SUBSET PlanId
  /\ panel \in SUBSET Squad
  /\ form \in [Admin -> Plans!Form \cup {None}] /\ job \in [Admin -> Plans!Job \cup {None}]
  /\ overlapped \in SUBSET PlanId

\* The fields of a plan.
PlanFields == {"name", "plain", "type", "availability", "trial", "traffic", "device", "allowed",
           "squads", "external", "order", "durations"}

\* Rows are born, what is born stays so.
PlanBorn == Plans!Existing \subseteq born

\* Copy x has row y's fields apart from touched.
Copies(x, y, touched) == \A f \in PlanFields \ touched : Plans!Alike(f, x, y)

\* A form is of a plan that was there; without overlapping updates its plan can be used, and
\* up to date it has the row's values where its administrator set nothing.
PlanForm(a) ==
  form[a] # None =>
    /\ form[a].id # None => form[a].id \in born
    /\ form[a].id \notin overlapped => Plans!Usable(form[a].plan)
    /\ form[a].based /\ form[a].id # None =>
         form[a].id \in Plans!Existing /\ Copies(form[a].plan, plan[form[a].id], form[a].touched)

\* What the command of a remembers.
Commits(a) ==
  job[a].kind = "commit" =>
    /\ form[a] # None /\ form[a].id = job[a].plan /\ Plans!Valid(form[a].plan)
    /\ job[a].based => Copies(form[a].plan, job[a].loaded, form[a].touched)

\* What a command has read of a row nobody has written since is there.
Read(a) ==
  job[a].kind \in {"commit", "toggle"} /\ job[a].fresh /\ job[a].plan \in Plans!Existing =>
    \A f \in PlanFields \ {"order"} : job[a].loaded[f] = plan[job[a].plan][f]

\* The plans a renumbering leaves.
Rest(a) == IF job[a].kind = "delete" THEN Plans!Existing \ {job[a].plan} ELSE Plans!Existing

\* A renumbering nothing overlapped lists each of them once, in their order but for the plan
\* that moves.
Lists(a) ==
  job[a].kind \in {"move", "delete"} /\ job[a].fresh =>
    /\ job[a].kind = "move" => job[a].plan \in Plans!Existing
    /\ job[a].orders = [q \in Plans!Existing |-> plan[q].order]
    /\ job[a].list \in Plans!Bijection(1 .. Plans!Cardinality(Rest(a)), Rest(a))
    /\ \A i, k \in DOMAIN job[a].list :
         i < k /\ job[a].list[i] # job[a].plan /\ job[a].list[k] # job[a].plan =>
           job[a].orders[job[a].list[i]] <= job[a].orders[job[a].list[k]]

\* A command is about a plan that was there, and what it remembers is right; only a deletion
\* may have read no row.
PlanJob(a) ==
  job[a] # None =>
    /\ job[a].kind = "delete" \/ job[a].loaded \in Plans!PlanDto
    /\ job[a].plan \in born /\ (job[a].kind = "toggle" => job[a].user \in Guest)
    /\ Commits(a) /\ Read(a) /\ Lists(a)

\* All forms are right ...
PlanForms == \A a \in Admin : PlanForm(a)

\* ... and all commands.
PlanJobs == \A a \in Admin : PlanJob(a)

\* The inductive invariant of the plans.
PlanInv == PlanTypes /\ PlanBorn /\ PlanForms /\ PlanJobs /\ Plans!PlansAreSound

\* R puts the places in S in an order.
Orders(R, S) ==
  /\ \A i \in S : <<i, i>> \notin R
  /\ \A i, j, k \in S : <<i, j>> \in R /\ <<j, k>> \in R => <<i, k>> \in R
  /\ \A i, j \in S : i # j => <<i, j>> \in R \/ <<j, i>> \in R

\* Arranged lists each place once, in that order: who has k places before him comes as k + 1st.
LEMMA Ranked ==
  ASSUME NEW s, NEW S, Plans!IsFiniteSet(S), NEW R, Orders(R, S)
  PROVE \E f \in Plans!Bijection(1 .. Plans!Cardinality(S), S) :
          /\ Plans!Arranged(s, S, R) = [k \in 1 .. Plans!Cardinality(S) |-> s[f[k]]]
          /\ \A k, l \in 1 .. Plans!Cardinality(S) : k < l => <<f[k], f[l]>> \in R
<1> DEFINE Below(i) == {j \in S : <<j, i>> \in R}
           n == Plans!Cardinality(S)
           rank == [i \in S |-> Plans!Cardinality(Below(i))]
<1>1. n \in Nat
  BY CountIsNat
<1>2. ASSUME NEW i \in S PROVE Plans!IsFiniteSet(Below(i)) /\ rank[i] \in 0 .. n - 1
  <2>1. Below(i) \in SUBSET S /\ i \notin Below(i)
    BY DEF Orders
  <2>2. /\ Plans!IsFiniteSet(Below(i)) /\ Plans!Cardinality(Below(i)) <= n
        /\ Plans!Cardinality(S) = Plans!Cardinality(Below(i)) => S = Below(i)
    <3> HIDE DEF Below
    <3> QED BY <2>1, CountOfPart
  <2>3. Plans!Cardinality(Below(i)) \in Nat
    BY <2>2, CountIsNat
  <2>4. rank[i] = Plans!Cardinality(Below(i))
    OBVIOUS
  <2> HIDE DEF Below, rank, n
  <2>5. Plans!Cardinality(Below(i)) # n
    BY <2>1, <2>2 DEF n
  <2> QED BY <1>1, <2>2, <2>3, <2>4, <2>5
<1>3. ASSUME NEW i \in S, NEW j \in S, <<i, j>> \in R PROVE rank[i] < rank[j]
  <2>1. Below(i) \in SUBSET Below(j) /\ i \in Below(j) /\ i \notin Below(i)
    BY <1>3 DEF Orders
  <2>2. /\ Plans!Cardinality(Below(i)) <= Plans!Cardinality(Below(j))
        /\ Plans!Cardinality(Below(j)) = Plans!Cardinality(Below(i)) => Below(j) = Below(i)
    <3>1. Plans!IsFiniteSet(Below(j))
      BY <1>2
    <3> HIDE DEF Below
    <3> QED BY <2>1, <3>1, CountOfPart
  <2>4. rank[i] = Plans!Cardinality(Below(i)) /\ rank[j] = Plans!Cardinality(Below(j))
    OBVIOUS
  <2>5. rank[i] \in Nat /\ rank[j] \in Nat
    BY <1>2, CountIsNat
  <2> HIDE DEF Below, rank, n
  <2> QED BY <2>1, <2>2, <2>4, <2>5
<1>4. rank \in Plans!Injection(S, 0 .. n - 1)
  <2>1. rank \in [S -> 0 .. n - 1]
    BY <1>2
  <2>2. ASSUME NEW i \in S, NEW j \in S, i # j PROVE rank[i] # rank[j]
    <3>1. rank[i] \in Nat /\ rank[j] \in Nat
      BY <1>2, CountIsNat
    <3>2. rank[i] < rank[j] \/ rank[j] < rank[i]
      BY <1>3, <2>2 DEF Orders
    <3> HIDE DEF rank
    <3> QED BY <3>1, <3>2
  <2> HIDE DEF rank
  <2> QED BY <2>1, <2>2 DEF Plans!Injection, Plans!IsInjective
<1>5. Plans!IsFiniteSet(0 .. n - 1) /\ Plans!Cardinality(0 .. n - 1) = n
  <2>1. 0 \in Int /\ n - 1 \in Int
    BY <1>1
  <2>2. /\ Plans!IsFiniteSet(0 .. n - 1)
        /\ Plans!Cardinality(0 .. n - 1) = IF 0 > n - 1 THEN 0 ELSE (n - 1) - 0 + 1
    <3> HIDE DEF n
    <3> QED BY <2>1, CountOfInterval
  <2> HIDE DEF n
  <2> QED BY <1>1, <2>2
<1>6. rank \in Plans!Surjection(S, 0 .. n - 1)
  <2> HIDE DEF rank
  <2> QED BY <1>4, <1>5, CountOfInjection DEF n
<1> DEFINE f ==
    [k \in 1 .. n |-> CHOOSE i \in S : Plans!Cardinality({j \in S : <<j, i>> \in R}) = k - 1]
<1>7. ASSUME NEW k \in 1 .. n PROVE f[k] \in S /\ rank[f[k]] = k - 1
  <2>1. k - 1 \in 0 .. n - 1
    BY <1>1
  <2>2. \E i \in S : rank[i] = k - 1
    <3> HIDE DEF rank
    <3> QED BY <1>6, <2>1 DEF Plans!Surjection
  <2>3. \E i \in S : Plans!Cardinality({j \in S : <<j, i>> \in R}) = k - 1
    BY <2>2
  <2>4. f[k] = CHOOSE i \in S : Plans!Cardinality({j \in S : <<j, i>> \in R}) = k - 1
    OBVIOUS
  <2>5. f[k] \in S /\ Plans!Cardinality({j \in S : <<j, f[k]>> \in R}) = k - 1
    <3> HIDE DEF f
    <3> QED BY <2>3, <2>4
  <2> HIDE DEF f
  <2> QED BY <2>5
<1>8. ASSUME NEW k \in 1 .. n, NEW l \in 1 .. n, k < l PROVE <<f[k], f[l]>> \in R
  <2>1. f[k] \in S /\ f[l] \in S /\ rank[f[k]] = k - 1 /\ rank[f[l]] = l - 1
    BY <1>7
  <2>2. k \in Int /\ l \in Int /\ f[k] # f[l]
    <3> HIDE DEF f, rank
    <3> QED BY <1>1, <1>8, <2>1
  <2>3. ~(<<f[l], f[k]>> \in R)
    <3>1. SUFFICES ASSUME <<f[l], f[k]>> \in R PROVE FALSE
      OBVIOUS
    <3>2. rank[f[l]] < rank[f[k]]
      BY <1>3, <2>1, <3>1
    <3> HIDE DEF f, rank
    <3> QED BY <1>8, <2>1, <2>2, <3>2
  <2> HIDE DEF f
  <2> QED BY <2>1, <2>2, <2>3 DEF Orders
<1>9. f \in Plans!Bijection(1 .. n, S)
  <2>1. f \in [1 .. n -> S]
    BY <1>7
  <2>2. ASSUME NEW k \in 1 .. n, NEW l \in 1 .. n, f[k] = f[l] PROVE k = l
    <3>1. k - 1 = l - 1
      BY <1>7, <2>2
    <3> QED BY <1>1, <3>1
  <2>3. ASSUME NEW i \in S PROVE \E k \in 1 .. n : f[k] = i
    <3>1. rank[i] \in 0 .. n - 1
      BY <1>2
    <3>2. rank[i] + 1 \in 1 .. n /\ (rank[i] + 1) - 1 = rank[i]
      <4> HIDE DEF rank
      <4> QED BY <1>1, <3>1
    <3>3. f[rank[i] + 1] \in S /\ rank[f[rank[i] + 1]] = rank[i]
      BY <1>7, <3>2
    <3>4. f[rank[i] + 1] = i
      <4> HIDE DEF rank, f
      <4> QED BY <1>4, <3>3 DEF Plans!Injection, Plans!IsInjective
    <3> QED BY <3>2, <3>4
  <2> HIDE DEF f
  <2> QED BY <2>1, <2>2, <2>3 DEF Plans!Bijection, Plans!Injection, Plans!Surjection,
             Plans!IsInjective
<1>10. Plans!Arranged(s, S, R) = [k \in 1 .. n |-> s[f[k]]]
  BY DEF Plans!Arranged
<1> HIDE DEF f, rank
<1> QED BY <1>8, <1>9, <1>10 DEF n

\* The least of some numbers is one of them.
LEMMA LeastOf ==
  ASSUME NEW n \in Nat, NEW S \in SUBSET (1 .. n), S # {}
  PROVE Plans!Min(S) \in S /\ \A y \in S : Plans!Min(S) <= y
<1> DEFINE R == {b \in S \X S : b[1] < b[2]}
<1>1. Plans!IsFiniteSet(S)
  <2>1. 1 \in Int /\ n \in Int
    OBVIOUS
  <2>2. Plans!IsFiniteSet(1 .. n)
    BY <2>1, CountOfInterval
  <2> QED BY <2>2, CountOfPart
<1>2. Orders(R, S)
  BY DEF Orders
<1> HIDE DEF R
<1>3. PICK f \in Plans!Bijection(1 .. Plans!Cardinality(S), S) :
        \A k, l \in 1 .. Plans!Cardinality(S) : k < l => <<f[k], f[l]>> \in R
  BY <1>1, <1>2, Ranked
<1>4. Plans!Cardinality(S) \in Nat /\ Plans!Cardinality(S) # 0
  BY <1>1, CountIsNat, CountOfNone
<1>5. f[1] \in S /\ \A y \in S : f[1] <= y
  <2>1. f \in [1 .. Plans!Cardinality(S) -> S]
    BY <1>3 DEF Plans!Bijection, Plans!Injection
  <2>2. f[1] \in S
    BY <1>4, <2>1
  <2>3. ASSUME NEW y \in S PROVE f[1] <= y
    <3>1. PICK k \in 1 .. Plans!Cardinality(S) : f[k] = y
      BY <1>3 DEF Plans!Bijection, Plans!Surjection
    <3>2. CASE k = 1
      <4>1. f[1] = y /\ y \in 1 .. n
        BY <3>1, <3>2
      <4> QED BY <4>1
    <3>3. CASE k # 1
      <4>1. <<f[1], f[k]>> \in R
        BY <1>3, <1>4, <3>3
      <4>2. <<f[1], y>>[1] < <<f[1], y>>[2]
        BY <3>1, <4>1 DEF R
      <4>3. f[1] \in 1 .. n /\ y \in 1 .. n
        BY <2>2
      <4> QED BY <4>2, <4>3
    <3> QED BY <3>2, <3>3
  <2> QED BY <2>2, <2>3
<1> QED BY <1>5 DEF Plans!Min

\* One up moves an element and keeps the order of the others.
LEMMA UpPermutes ==
  ASSUME NEW T, NEW s \in Seq(T), NEW i \in 1 .. Len(s)
  PROVE /\ Plans!Up(s, i) \in Seq(T) /\ Len(Plans!Up(s, i)) = Len(s)
        /\ \E g \in Plans!Bijection(1 .. Len(s), 1 .. Len(s)) :
             /\ \A k \in 1 .. Len(s) : Plans!Up(s, i)[k] = s[g[k]]
             /\ \A k, l \in 1 .. Len(s) : k < l /\ g[k] # i /\ g[l] # i => g[k] < g[l]
<1> DEFINE n == Len(s)
           g == IF i = 1 THEN [k \in 1 .. n |-> IF k = n THEN 1 ELSE k + 1]
                ELSE [k \in 1 .. n |-> IF k = i - 1 THEN i ELSE IF k = i THEN i - 1 ELSE k]
<1>1. n \in Nat /\ i \in Nat /\ 1 <= i /\ i <= n
  OBVIOUS
<1>2. g \in [1 .. n -> 1 .. n]
  BY <1>1
<1>3. g \in Plans!Bijection(1 .. n, 1 .. n)
  <2>1. ASSUME NEW k \in 1 .. n, NEW l \in 1 .. n, g[k] = g[l] PROVE k = l
    BY <1>1, <2>1
  <2>2. ASSUME NEW j \in 1 .. n PROVE \E k \in 1 .. n : g[k] = j
    <3>1. CASE i = 1
      <4>1. CASE j = 1
        BY <1>1, <3>1, <4>1
      <4>2. CASE j # 1
        <5>1. j - 1 \in 1 .. n /\ g[j - 1] = j
          BY <1>1, <3>1, <4>2
        <5> QED BY <5>1
      <4> QED BY <4>1, <4>2
    <3>2. CASE i # 1
      <4>1. g[g[j]] = j
        BY <1>1, <3>2
      <4> QED BY <1>2, <4>1
    <3> QED BY <3>1, <3>2
  <2> HIDE DEF g
  <2> QED BY <1>2, <2>1, <2>2 DEF Plans!Bijection, Plans!Injection, Plans!Surjection,
             Plans!IsInjective
<1>4. Plans!Up(s, i) \in Seq(T) /\ Len(Plans!Up(s, i)) = n
  <2>1. CASE i = 1
    BY <1>1, <2>1 DEF Plans!Up
  <2>2. CASE i # 1
    BY <1>1, <2>2 DEF Plans!Up
  <2> QED BY <2>1, <2>2
<1>5. ASSUME NEW k \in 1 .. n PROVE Plans!Up(s, i)[k] = s[g[k]]
  <2>1. CASE i = 1
    BY <1>1, <2>1 DEF Plans!Up
  <2>2. CASE i # 1
    BY <1>1, <2>2 DEF Plans!Up
  <2> QED BY <2>1, <2>2
<1>6. ASSUME NEW k \in 1 .. n, NEW l \in 1 .. n, k < l, g[k] # i, g[l] # i PROVE g[k] < g[l]
  BY <1>1, <1>6
<1> HIDE DEF g
<1> QED BY <1>3, <1>4, <1>5, <1>6

\* There is a duration, and none is there twice.
OneEach(s) == s # <<>> /\ \A i, k \in DOMAIN s : i # k => s[i].days # s[k].days

\* Durations at other places are still one each.
LEMMA Reordered ==
  ASSUME NEW s, OneEach(s), NEW t, t # <<>>,
         NEW f \in Plans!Injection(DOMAIN t, DOMAIN s), \A k \in DOMAIN t : t[k].days = s[f[k]].days
  PROVE OneEach(t)
<1>1. ASSUME NEW i \in DOMAIN t, NEW k \in DOMAIN t, i # k PROVE t[i].days # t[k].days
  <2>1. f[i] \in DOMAIN s /\ f[k] \in DOMAIN s /\ f[i] # f[k]
    BY <1>1 DEF Plans!Injection, Plans!IsInjective
  <2> QED BY <2>1 DEF OneEach
<1> QED BY <1>1 DEF OneEach

\* The places of a sequence.
LEMMA PlacesCounted ==
  ASSUME NEW T, NEW s \in Seq(T)
  PROVE /\ DOMAIN s = 1 .. Len(s) /\ Len(s) \in Nat /\ \A i \in DOMAIN s : s[i] \in T
        /\ Plans!IsFiniteSet(DOMAIN s) /\ Plans!Cardinality(DOMAIN s) = Len(s)
        /\ s # <<>> <=> Len(s) > 0
<1>1. DOMAIN s = 1 .. Len(s) /\ Len(s) \in Nat /\ \A i \in DOMAIN s : s[i] \in T
  OBVIOUS
<1>2. 1 \in Int /\ Len(s) \in Int
  BY <1>1
<1>3. /\ Plans!IsFiniteSet(1 .. Len(s))
      /\ Plans!Cardinality(1 .. Len(s)) = IF 1 > Len(s) THEN 0 ELSE Len(s) - 1 + 1
  BY <1>2, CountOfInterval
<1>4. s # <<>> <=> Len(s) > 0
  OBVIOUS
<1> QED BY <1>1, <1>3, <1>4

\* What is arranged has elements of the sequence, one for each place.
LEMMA ArrangedTypes ==
  ASSUME NEW T, NEW s \in Seq(T), NEW S \in SUBSET DOMAIN s, NEW R, Orders(R, S)
  PROVE /\ Plans!Arranged(s, S, R) \in Seq(T) /\ Len(Plans!Arranged(s, S, R)) = Plans!Cardinality(S)
        /\ Plans!IsFiniteSet(S)
        /\ \E f \in Plans!Bijection(1 .. Plans!Cardinality(S), S) :
             \A k \in 1 .. Plans!Cardinality(S) : Plans!Arranged(s, S, R)[k] = s[f[k]]
<1>1. Plans!IsFiniteSet(S)
  BY PlacesCounted, CountOfPart
<1>2. PICK f \in Plans!Bijection(1 .. Plans!Cardinality(S), S) :
        Plans!Arranged(s, S, R) = [k \in 1 .. Plans!Cardinality(S) |-> s[f[k]]]
  BY <1>1, Ranked
<1>3. Plans!Cardinality(S) \in Nat /\ f \in [1 .. Plans!Cardinality(S) -> S]
  BY <1>1, CountIsNat DEF Plans!Bijection, Plans!Injection
<1>4. [k \in 1 .. Plans!Cardinality(S) |-> s[f[k]]] \in Seq(T)
  <2>1. \A k \in 1 .. Plans!Cardinality(S) : s[f[k]] \in T
    BY <1>3, PlacesCounted
  <2> QED BY <1>3, <2>1
<1>5. Len([k \in 1 .. Plans!Cardinality(S) |-> s[f[k]]]) = Plans!Cardinality(S)
  BY <1>3
<1> QED BY <1>1, <1>2, <1>4, <1>5

\* Taking a duration off ...
LEMMA WithoutKeeps ==
  ASSUME NEW s \in Seq(Plans!PlanDurationDto), NEW days
  PROVE /\ Plans!WithoutDuration(s, days) \in Seq(Plans!PlanDurationDto)
        /\ OneEach(s) => OneEach(Plans!WithoutDuration(s, days))
<1>1. CASE ~(Len(s) > 1)
  BY <1>1 DEF Plans!WithoutDuration
<1>2. CASE Len(s) > 1
  <2> DEFINE S == {i \in DOMAIN s : s[i].days # days}
             R == {b \in (DOMAIN s) \X (DOMAIN s) : b[1] < b[2]}
             t == Plans!Arranged(s, S, R)
  <2>1. Plans!WithoutDuration(s, days) = t
    BY <1>2 DEF Plans!WithoutDuration
  <2>2. Orders(R, S)
    BY PlacesCounted DEF Orders
  <2>3. S \in SUBSET DOMAIN s
    OBVIOUS
  <2> HIDE DEF R, S
  <2>4. PICK f \in Plans!Bijection(1 .. Plans!Cardinality(S), S) :
          \A k \in 1 .. Plans!Cardinality(S) : t[k] = s[f[k]]
    BY <2>2, <2>3, ArrangedTypes
  <2>5. t \in Seq(Plans!PlanDurationDto) /\ Len(t) = Plans!Cardinality(S) /\ Plans!IsFiniteSet(S)
    BY <2>2, <2>3, ArrangedTypes
  <2>6. ASSUME OneEach(s) PROVE OneEach(t)
    <3>1. S # {}
      <4>1. 1 \in DOMAIN s /\ 2 \in DOMAIN s
        BY <1>2, PlacesCounted
      <4>2. s[1].days # s[2].days
        BY <2>6, <4>1 DEF OneEach
      <4> QED BY <4>1, <4>2 DEF S
    <3>2. t # <<>>
      <4>1. Plans!Cardinality(S) # 0 /\ Plans!Cardinality(S) \in Nat
        BY <2>5, <3>1, CountOfNone, CountIsNat
      <4> QED BY <2>5, <4>1
    <3>3. DOMAIN t = 1 .. Plans!Cardinality(S)
      BY <2>5
    <3>4. f \in Plans!Injection(DOMAIN t, DOMAIN s)
      BY <2>3, <2>4, <3>3 DEF Plans!Bijection, Plans!Injection
    <3> HIDE DEF t
    <3> QED BY <2>4, <2>6, <3>2, <3>3, <3>4, Reordered
  <2> QED BY <2>1, <2>5, <2>6
<1> QED BY <1>1, <1>2

\* ... adding one ...
LEMMA WithKeeps ==
  ASSUME NEW s \in Seq(Plans!PlanDurationDto), NEW days \in Days
  PROVE /\ Plans!WithDuration(s, days) \in Seq(Plans!PlanDurationDto)
        /\ OneEach(s) => OneEach(Plans!WithDuration(s, days))
<1>1. CASE days \in Plans!DaysOf(s)
  BY <1>1 DEF Plans!WithDuration
<1>2. CASE days \notin Plans!DaysOf(s)
  <2> DEFINE t == Append(s, Plans!NewDuration(days))
  <2>1. Plans!WithDuration(s, days) = t
    BY <1>2 DEF Plans!WithDuration
  <2>2. Plans!NewDuration(days) \in Plans!PlanDurationDto /\ Plans!NewDuration(days).days = days
    BY DEF Plans!PlanDurationDto, Plans!NewDuration
  <2>3. t \in Seq(Plans!PlanDurationDto) /\ Len(t) = Len(s) + 1
    BY <2>2
  <2>4. \A i \in DOMAIN s : t[i] = s[i] /\ s[i].days # days
    BY <1>2, PlacesCounted DEF Plans!DaysOf
  <2>5. DOMAIN t = (DOMAIN s) \cup {Len(s) + 1} /\ t[Len(s) + 1].days = days
    BY <2>2, <2>3, PlacesCounted
  <2> HIDE DEF t
  <2>6. t # <<>>
    BY <2>3, PlacesCounted
  <2> QED BY <2>1, <2>3, <2>4, <2>5, <2>6 DEF OneEach
<1> QED BY <1>1, <1>2

\* ... where a duration is ...
LEMMA MinDays ==
  ASSUME NEW s \in Seq(Plans!PlanDurationDto), NEW days \in Plans!DaysOf(s)
  PROVE Plans!Min({j \in DOMAIN s : s[j].days = days}) \in DOMAIN s
<1> DEFINE S == {j \in DOMAIN s : s[j].days = days}
<1>1. S # {} /\ S \in SUBSET (1 .. Len(s)) /\ Len(s) \in Nat
  BY DEF Plans!DaysOf
<1> HIDE DEF S
<1>2. Plans!Min(S) \in S
  BY <1>1, LeastOf
<1> QED BY <1>2 DEF S

\* ... pricing one ...
LEMMA RepricedKeeps ==
  ASSUME NEW s \in Seq(Plans!PlanDurationDto), NEW days \in Plans!DaysOf(s), NEW price \in Nat
  PROVE /\ Plans!Repriced(s, days, price) \in Seq(Plans!PlanDurationDto)
        /\ OneEach(s) => OneEach(Plans!Repriced(s, days, price))
<1>1. PICK m \in DOMAIN s : m = Plans!Min({j \in DOMAIN s : s[j].days = days})
  BY MinDays
<1>2. Plans!Repriced(s, days, price) = [s EXCEPT ![m].price = price]
  BY <1>1 DEF Plans!Repriced
<1>3. [s[m] EXCEPT !.price = price] \in Plans!PlanDurationDto
      /\ [s[m] EXCEPT !.price = price].days = s[m].days
  <2>1. s[m] \in Plans!PlanDurationDto
    BY PlacesCounted
  <2> QED BY <2>1 DEF Plans!PlanDurationDto
<1> DEFINE t == [s EXCEPT ![m].price = price]
<1>4. t = [s EXCEPT ![m] = [s[m] EXCEPT !.price = price]]
  OBVIOUS
<1>5. t \in Seq(Plans!PlanDurationDto) /\ Len(t) = Len(s) /\ DOMAIN t = DOMAIN s
  BY <1>3, <1>4
<1>6. \A i \in DOMAIN s : t[i].days = s[i].days
  BY <1>3, <1>4
<1>7. t # <<>> <=> s # <<>>
  <2> HIDE DEF t
  <2> QED BY <1>5
<1> HIDE DEF t
<1> QED BY <1>2, <1>5, <1>6, <1>7 DEF OneEach, t

\* ... sorting them, by an order of theirs, ...
LEMMA ByOrderOrders ==
  ASSUME NEW s \in Seq(Plans!PlanDurationDto)
  PROVE Orders(Plans!ByOrder(s), DOMAIN s)
<1>1. \A i \in DOMAIN s : s[i].order \in Nat
  <2>1. \A i \in DOMAIN s : s[i] \in Plans!PlanDurationDto
    BY PlacesCounted
  <2> QED BY <2>1 DEF Plans!PlanDurationDto
<1>2. \A i \in DOMAIN s : i \in Nat
  BY PlacesCounted
<1>3. \A i, j \in DOMAIN s : <<i, j>> \in Plans!ByOrder(s) <=>
        (s[i].order < s[j].order \/ (s[i].order = s[j].order /\ i < j))
  BY DEF Plans!ByOrder
<1> QED BY <1>1, <1>2, <1>3 DEF Orders

\* ... and moving one up leave one of each.
LEMMA MovedKeeps ==
  ASSUME NEW s \in Seq(Plans!PlanDurationDto), NEW days \in Plans!DaysOf(s)
  PROVE /\ Plans!Moved(s, days) \in Seq(Plans!PlanDurationDto)
        /\ OneEach(s) => OneEach(Plans!Moved(s, days))
<1> DEFINE sorted == Plans!Arranged(s, DOMAIN s, Plans!ByOrder(s))
           n == Len(s)
<1>1. Plans!Cardinality(DOMAIN s) = n /\ n \in Nat /\ DOMAIN s = 1 .. n
  BY PlacesCounted
<1>2. Orders(Plans!ByOrder(s), DOMAIN s)
  BY ByOrderOrders
<1>3. PICK f \in Plans!Bijection(1 .. n, 1 .. n) : \A k \in 1 .. n : sorted[k] = s[f[k]]
  <2> HIDE DEF n
  <2> QED BY <1>1, <1>2, ArrangedTypes
<1>4. sorted \in Seq(Plans!PlanDurationDto) /\ Len(sorted) = n
  <2> HIDE DEF n
  <2> QED BY <1>1, <1>2, ArrangedTypes
<1> DEFINE S == {j \in DOMAIN s : sorted[j].days = days}
<1> HIDE DEF sorted, n
<1>5. S # {} /\ S \in SUBSET (1 .. n)
  <2>1. PICK i \in 1 .. n : s[i].days = days
    BY <1>1 DEF Plans!DaysOf
  <2>2. PICK k \in 1 .. n : f[k] = i
    BY <1>3 DEF Plans!Bijection, Plans!Surjection
  <2> QED BY <1>1, <1>3, <2>1, <2>2
<1>6. PICK m \in 1 .. n : m = Plans!Min(S)
  <2> HIDE DEF S
  <2> QED BY <1>1, <1>5, LeastOf
<1> DEFINE moved == Plans!Up(sorted, m)
<1> m \in 1 .. Len(sorted)
  BY <1>4, <1>6
<1>7. moved \in Seq(Plans!PlanDurationDto) /\ Len(moved) = n
  BY <1>4, UpPermutes
<1>8. PICK g \in Plans!Bijection(1 .. n, 1 .. n) : \A k \in 1 .. n : moved[k] = sorted[g[k]]
  <2>1. PICK g \in Plans!Bijection(1 .. Len(sorted), 1 .. Len(sorted)) :
           \A k \in 1 .. Len(sorted) : moved[k] = sorted[g[k]]
    BY <1>4, UpPermutes
  <2> QED BY <1>4, <2>1
<1> DEFINE t == [j \in 1 .. n |-> [moved[j] EXCEPT !.order = j]]
<1>9. Plans!Moved(s, days) = t
  BY <1>1, <1>6 DEF Plans!Moved, sorted, S
<1> HIDE DEF moved
<1>10. ASSUME NEW k \in 1 .. n
       PROVE /\ [moved[k] EXCEPT !.order = k] \in Plans!PlanDurationDto
             /\ [moved[k] EXCEPT !.order = k].days = moved[k].days
  <2>1. moved[k] \in Plans!PlanDurationDto /\ k \in Nat
    BY <1>1, <1>7
  <2> QED BY <2>1 DEF Plans!PlanDurationDto
<1>11. t \in Seq(Plans!PlanDurationDto) /\ DOMAIN t = 1 .. n /\ Len(t) = n
  <2>1. t \in [1 .. n -> Plans!PlanDurationDto]
    BY <1>10
  <2> HIDE DEF t
  <2> QED BY <1>1, <2>1
<1>12. ASSUME OneEach(s) PROVE OneEach(t)
  <2> DEFINE h == [k \in 1 .. n |-> f[g[k]]]
  <2>1. g \in [1 .. n -> 1 .. n] /\ f \in [1 .. n -> 1 .. n]
    BY <1>3, <1>8 DEF Plans!Bijection, Plans!Injection
  <2>2. h \in [1 .. n -> 1 .. n]
    BY <2>1
  <2>3. ASSUME NEW i \in 1 .. n, NEW k \in 1 .. n, h[i] = h[k] PROVE i = k
    <3>1. f[g[i]] = f[g[k]] /\ g[i] \in 1 .. n /\ g[k] \in 1 .. n
      BY <2>1, <2>3
    <3>2. g[i] = g[k]
      BY <1>3, <2>1, <3>1 DEF Plans!Bijection, Plans!Injection, Plans!IsInjective
    <3> QED BY <1>8, <2>1, <3>2 DEF Plans!Bijection, Plans!Injection, Plans!IsInjective
  <2>4. ASSUME NEW k \in 1 .. n PROVE t[k].days = s[h[k]].days
    <3>1. t[k].days = moved[k].days
      BY <1>10
    <3>2. moved[k] = s[f[g[k]]]
      BY <1>3, <1>8, <2>1
    <3> QED BY <3>1, <3>2
  <2> HIDE DEF h, t
  <2>5. h \in Plans!Injection(DOMAIN t, DOMAIN s)
    BY <1>1, <1>11, <2>2, <2>3 DEF Plans!Injection, Plans!IsInjective
  <2>6. t # <<>>
    <3>1. s # <<>>
      BY <1>12 DEF OneEach
    <3> QED BY <1>11, <3>1 DEF n
  <2> QED BY <1>11, <1>12, <2>4, <2>5, <2>6, Reordered
<1> HIDE DEF t
<1> QED BY <1>9, <1>11, <1>12

\* What handlers may set.
Touchable == {"name", "plain", "trial", "availability", "type", "traffic", "device",
              "durations", "allowed", "squads", "external"}

\* None is nothing else.
LEMMA PlanNoneApart ==
  ASSUME Plans!ConstantsAssumption
  PROVE /\ None \notin PlanId /\ None \notin Plans!PlanDto /\ None \notin Plans!Form
        /\ None \notin Plans!Job
        /\ None \notin Squad
BY DEF Plans!ConstantsAssumption

\* An administrator whose form and rows nobody touches stays right.
LEMMA PlanUntouched ==
  ASSUME UNCHANGED <<plan, born, overlapped>>, NEW x \in Admin, form'[x] = form[x]
  PROVE /\ PlanForm(x) => PlanForm(x)'
        /\ job'[x] = job[x] /\ PlanJob(x) => PlanJob(x)'
<1>1. Plans!Existing' = Plans!Existing
  BY DEF Plans!Existing
<1>2. PlanForm(x) => PlanForm(x)'
  BY <1>1 DEF PlanForm, Copies, Plans!Alike
<1>3. ASSUME job'[x] = job[x], PlanJob(x) PROVE PlanJob(x)'
  <2>1. Rest(x)' = Rest(x)
    BY <1>1, <1>3 DEF Rest
  <2>2. Commits(x) => Commits(x)'
    BY <1>3 DEF Commits, Copies, Plans!Alike
  <2>3. Read(x) => Read(x)'
    BY <1>1, <1>3 DEF Read
  <2>4. [q \in Plans!Existing |-> plan[q].order]' = [q \in Plans!Existing |-> plan[q].order]
    BY <1>1
  <2>5. Lists(x) => Lists(x)'
    BY <1>1, <1>3, <2>1, <2>4 DEF Lists
  <2> QED BY <1>3, <2>2, <2>3, <2>5 DEF PlanJob
<1> QED BY <1>2, <1>3

\* Rows stay; a's form becomes one that is right, and he has no command.
LEMMA PlanFormKeeps ==
  ASSUME PlanInv, UNCHANGED <<plan, born, overlapped, job>>, panel' \in SUBSET Squad,
         NEW a \in Admin, job[a] = None, NEW g \in Plans!Form \cup {None},
         form' = [form EXCEPT ![a] = g], PlanForm(a)'
  PROVE PlanInv'
<1>1. PlanTypes'
  BY DEF PlanInv, PlanTypes
<1>2. PlanBorn' /\ Plans!PlansAreSound'
  BY DEF PlanInv, PlanBorn, Plans!PlansAreSound, Plans!Existing
<1>3. ASSUME NEW x \in Admin PROVE PlanForm(x)' /\ PlanJob(x)'
  <2>1. CASE x = a
    <3>1. PlanJob(a)'
      BY DEF PlanJob
    <3> QED BY <2>1, <3>1
  <2>2. CASE x # a
    <3>1. form'[x] = form[x] /\ job'[x] = job[x]
      BY <2>2 DEF PlanInv, PlanTypes
    <3>2. PlanForm(x) /\ PlanJob(x)
      BY DEF PlanInv, PlanForms, PlanJobs
    <3> QED BY <3>1, <3>2, PlanUntouched
  <2> QED BY <2>1, <2>2
<1> QED BY <1>1, <1>2, <1>3 DEF PlanInv, PlanForms, PlanJobs

\* A form is opened with a copy of a row, or a new plan.
LEMMA PlanOpenKeeps ==
  ASSUME Plans!ConstantsAssumption, PlanInv, UNCHANGED <<plan, born, panel, overlapped, job>>,
         NEW a \in Admin, job[a] = None, NEW id \in Plans!Existing \cup {None},
         NEW copy \in Plans!PlanDto,
         Plans!Open(a, id, copy),
         id \notin overlapped => Plans!Usable(copy),
         id # None => Copies(copy, plan[id], {})
  PROVE PlanInv'
<1> DEFINE g == [id |-> id, plan |-> copy, touched |-> {}, based |-> TRUE]
<1>1. id \in PlanId \cup {None}
  BY DEF Plans!Existing
<1>2. g \in Plans!Form /\ g # None
  <2>1. g \in Plans!Form
    BY <1>1 DEF Plans!Form
  <2> HIDE DEF g
  <2> QED BY <2>1, PlanNoneApart
<1>3. form' = [form EXCEPT ![a] = g]
  BY DEF Plans!Open
<1>4. form'[a] = g
  BY <1>3 DEF PlanInv, PlanTypes
<1>5. id # None => id \in born
  BY DEF PlanInv, PlanBorn
<1>6. PlanForm(a)'
  <2>1. Plans!Existing' = Plans!Existing
    BY DEF Plans!Existing
  <2>2. g.id = id /\ g.plan = copy /\ g.touched = {} /\ g.based = TRUE
    OBVIOUS
  <2> HIDE DEF g
  <2>3. id \notin overlapped' => Plans!Usable(g.plan)
    BY <2>2
  <2>4. id # None => id \in Plans!Existing /\ Copies(g.plan, plan[id], g.touched)
    BY <2>2
  <2>5. id # None => id \in Plans!Existing' /\ Copies(g.plan, plan[id], g.touched)'
    BY <2>1, <2>4 DEF Copies, Plans!Alike
  <2> QED BY <1>4, <1>5, <2>2, <2>3, <2>5 DEF PlanForm, Copies, Plans!Alike
<1> HIDE DEF g
<1>7. panel' \in SUBSET Squad
  BY DEF PlanInv, PlanTypes
<1> QED BY <1>2, <1>3, <1>6, <1>7, PlanFormKeeps

\* What is known of an administrator who edits.
LEMMA EditingIs ==
  ASSUME Plans!ConstantsAssumption, PlanInv, NEW a \in Plans!Editing
  PROVE /\ a \in Admin /\ job[a] = None /\ form[a] # None /\ form[a] \in Plans!Form
        /\ form[a].plan \in Plans!PlanDto /\ PlanForm(a)
<1>1. a \in Admin /\ job[a] = None /\ form[a] # None
  BY DEF Plans!Editing, Plans!Free
<1>2. form[a] \in Plans!Form
  BY <1>1 DEF PlanInv, PlanTypes
<1> QED BY <1>1, <1>2 DEF Plans!Form, PlanInv, PlanForms

\* A handler sets fields of a form.
LEMMA PlanChangeKeeps ==
  ASSUME Plans!ConstantsAssumption, PlanInv, NEW a \in Plans!Editing, NEW kind,
         NEW fields \in SUBSET Touchable,
         NEW copy \in Plans!PlanDto, Plans!Change(a, kind, fields, copy),
         Plans!Usable(form[a].plan) => Plans!Usable(copy),
         \A f \in PlanFields \ fields : copy[f] = form[a].plan[f]
  PROVE PlanInv'
<1>1. /\ a \in Admin /\ job[a] = None /\ form[a] # None /\ form[a] \in Plans!Form
      /\ form[a].plan \in Plans!PlanDto /\ PlanForm(a)
  BY EditingIs
<1> DEFINE g == [form[a] EXCEPT !.plan = copy, !.touched = @ \cup fields]
<1>2. /\ g \in Plans!Form /\ g.id = form[a].id /\ g.plan = copy /\ g.based = form[a].based
      /\ g.touched = form[a].touched \cup fields
  BY <1>1 DEF Plans!Form, Touchable
<1>3. g # None
  BY <1>2, PlanNoneApart
<1>4. form' = [form EXCEPT ![a] = g]
  BY DEF Plans!Change
<1> HIDE DEF g
<1>5. form'[a] = g
  BY <1>1, <1>4 DEF PlanInv, PlanTypes
<1>6. UNCHANGED <<plan, born, panel, job, overlapped>>
  BY DEF Plans!Change
<1>7. Plans!Existing' = Plans!Existing
  BY <1>6 DEF Plans!Existing
<1>8. PlanForm(a)'
  <2>1. g.id # None => g.id \in born'
    BY <1>1, <1>2, <1>6 DEF PlanForm
  <2>2. g.id \notin overlapped' => Plans!Usable(g.plan)
    BY <1>1, <1>2, <1>6 DEF PlanForm
  <2>3. ASSUME g.based, g.id # None
        PROVE g.id \in Plans!Existing /\ Copies(g.plan, plan[g.id], g.touched)
    <3>1. g.id \in Plans!Existing /\ Copies(form[a].plan, plan[form[a].id], form[a].touched)
      BY <1>1, <1>2, <2>3 DEF PlanForm
    <3>2. ASSUME NEW f \in PlanFields \ g.touched PROVE Plans!Alike(f, g.plan, plan[g.id])
      <4>1. f \in PlanFields \ fields /\ f \in PlanFields \ form[a].touched
        BY <1>2
      <4>2. Plans!Alike(f, form[a].plan, plan[form[a].id]) /\ copy[f] = form[a].plan[f]
        BY <3>1, <4>1 DEF Copies
      <4> QED BY <1>2, <4>2 DEF Plans!Alike
    <3> QED BY <3>1, <3>2 DEF Copies
  <2> QED BY <1>5, <1>6, <1>7, <2>1, <2>2, <2>3 DEF PlanForm, Copies, Plans!Alike
<1>9. panel' \in SUBSET Squad
  BY <1>6 DEF PlanInv, PlanTypes
<1> QED BY <1>1, <1>2, <1>4, <1>6, <1>8, <1>9, PlanFormKeeps

\* new is p with other fields.
PlanSets(new, p, fields) ==
  /\ new \in Plans!PlanDto /\ (Plans!Usable(p) => Plans!Usable(new))
  /\ \A f \in PlanFields \ fields : new[f] = p[f]

\* The same, as the handlers below set them.
LEMMA EditKeeps ==
  ASSUME Plans!ConstantsAssumption, PlanInv, NEW a \in Plans!Editing, NEW kind,
         NEW fields \in SUBSET Touchable,
         NEW copy, Plans!Change(a, kind, fields, copy),
         PlanSets(copy, form[a].plan, fields)
  PROVE PlanInv'
BY PlanChangeKeeps DEF PlanSets

\* What the handlers make of a plan.
LEMMA SetName ==
  ASSUME NEW p \in Plans!PlanDto, NEW v \in Name
  PROVE PlanSets([p EXCEPT !.name = v], p, {"name"})
BY DEF PlanSets, Plans!PlanDto, Plans!Usable, PlanFields

\* A field nothing depends on.
LEMMA SetPlainOf ==
  ASSUME NEW p \in Plans!PlanDto, NEW f \in Plans!Plain, NEW v \in {0, 1}
  PROVE PlanSets([p EXCEPT !.plain[f] = v], p, {"plain"})
BY DEF PlanSets, Plans!PlanDto, Plans!Usable, PlanFields

\* The trial's flag.
LEMMA SetTrial ==
  ASSUME NEW p \in Plans!PlanDto
  PROVE PlanSets([p EXCEPT !.trial = ~@], p, {"trial"})
BY DEF PlanSets, Plans!PlanDto, Plans!Usable, PlanFields

\* The availability.
LEMMA PlanSetAvailability ==
  ASSUME NEW p \in Plans!PlanDto, NEW v \in {"ALL", "ALLOWED"}
  PROVE PlanSets([p EXCEPT !.availability = v], p, {"availability"})
BY DEF PlanSets, Plans!PlanDto, Plans!Usable, PlanFields

\* The type, with the limits that start to count.
LEMMA PlanSetType ==
  ASSUME NEW p \in Plans!PlanDto, NEW v \in Plans!Type
  PROVE PlanSets(Plans!Typed(p, v), p, {"type", "traffic", "device"})
<1> DEFINE traffic == IF Plans!Metered(v) /\ p.traffic = 0 THEN 100 ELSE p.traffic
           device == IF Plans!PerDevice(v) /\ p.device = 0 THEN 1 ELSE p.device
           new == [p EXCEPT !.type = v, !.traffic = traffic, !.device = device]
<1>1. Plans!Typed(p, v) = new
  BY DEF Plans!Typed, Plans!PlanDto
<1>2. traffic \in Nat /\ device \in Nat
  BY DEF Plans!PlanDto
<1>3. (Plans!Metered(v) => traffic > 0) /\ (Plans!PerDevice(v) => device > 0)
  BY DEF Plans!PlanDto
<1> HIDE DEF traffic, device
<1>4. new \in Plans!PlanDto /\ \A f \in PlanFields \ {"type", "traffic", "device"} : new[f] = p[f]
  BY <1>2 DEF Plans!PlanDto, PlanFields
<1>5. /\ new.type = v /\ new.traffic = traffic /\ new.device = device
      /\ new.durations = p.durations
  BY DEF Plans!PlanDto
<1> HIDE DEF new
<1> QED BY <1>1, <1>3, <1>4, <1>5 DEF PlanSets, Plans!Usable

\* The traffic, ...
LEMMA SetTraffic ==
  ASSUME NEW p \in Plans!PlanDto, NEW v \in Nat, v > 0
  PROVE PlanSets(Plans!Limited(p, "traffic", v), p, {"traffic"})
BY DEF PlanSets, Plans!PlanDto, Plans!Usable, PlanFields, Plans!Limited

\* ... and the devices.
LEMMA SetDevice ==
  ASSUME NEW p \in Plans!PlanDto, NEW v \in Nat, v > 0
  PROVE PlanSets(Plans!Limited(p, "device", v), p, {"device"})
BY DEF PlanSets, Plans!PlanDto, Plans!Usable, PlanFields, Plans!Limited

\* The durations, one of each.
LEMMA SetDurationsTo ==
  ASSUME NEW p \in Plans!PlanDto, NEW s \in Seq(Plans!PlanDurationDto),
         OneEach(p.durations) => OneEach(s)
  PROVE PlanSets([p EXCEPT !.durations = s], p, {"durations"})
<1> DEFINE new == [p EXCEPT !.durations = s]
<1>1. new \in Plans!PlanDto /\ \A f \in PlanFields \ {"durations"} : new[f] = p[f]
  BY DEF Plans!PlanDto, PlanFields
<1>2. new.type = p.type /\ new.traffic = p.traffic /\ new.device = p.device /\ new.durations = s
  BY DEF Plans!PlanDto
<1> HIDE DEF new
<1>3. Plans!Usable(p) => Plans!Usable(new)
  BY <1>2 DEF Plans!Usable, OneEach
<1> QED BY <1>1, <1>3 DEF PlanSets, new

\* The allowed users.
LEMMA SetAllowed ==
  ASSUME NEW p \in Plans!PlanDto, NEW S \in SUBSET (Guest \X {"telegram", "email"})
  PROVE PlanSets([p EXCEPT !.allowed = S], p, {"allowed"})
BY DEF PlanSets, Plans!PlanDto, Plans!Usable, PlanFields

\* Internal squads, ...
LEMMA SetSquads ==
  ASSUME NEW p \in Plans!PlanDto, NEW S \in SUBSET Squad
  PROVE PlanSets([p EXCEPT !.squads = S], p, {"squads"})
BY DEF PlanSets, Plans!PlanDto, Plans!Usable, PlanFields

\* ... the external one, ...
LEMMA SetExternal ==
  ASSUME NEW p \in Plans!PlanDto, NEW v \in Squad \cup {None}
  PROVE PlanSets([p EXCEPT !.external = v], p, {"external"})
BY DEF PlanSets, Plans!PlanDto, Plans!Usable, PlanFields

\* ... and both, when the window takes out what is gone.
LEMMA SetBoth ==
  ASSUME NEW p \in Plans!PlanDto, NEW S \in SUBSET Squad, NEW v \in Squad \cup {None}
  PROVE PlanSets([p EXCEPT !.squads = S, !.external = v], p, {"squads", "external"})
BY DEF PlanSets, Plans!PlanDto, Plans!Usable, PlanFields

\* Every handler of the form keeps the invariant.
LEMMA PlanHandlersKeep ==
  ASSUME Plans!ConstantsAssumption, PlanInv, NEW a \in Plans!Editing, Plans!Edit(a)
  PROVE PlanInv'
<1> DEFINE p == form[a].plan
<1>1. p \in Plans!PlanDto /\ p.durations \in Seq(Plans!PlanDurationDto)
      /\ p.allowed \in SUBSET (Guest \X {"telegram", "email"})
      /\ p.plain \in [Plans!Plain -> {0, 1}] /\ p.squads \in SUBSET Squad
      /\ p.external \in Squad \cup {None}
  <2>1. p \in Plans!PlanDto
    BY EditingIs
  <2> HIDE DEF p
  <2> QED BY <2>1 DEF Plans!PlanDto
<1>2. panel \in SUBSET Squad
  BY DEF PlanInv, PlanTypes
<1>3. ASSUME NEW name \in Name, Plans!NameInput(a, name) PROVE PlanInv'
  <2>1. PlanSets([p EXCEPT !.name = name], p, {"name"})
    BY <1>1, SetName
  <2> QED BY <1>3, <2>1, EditKeeps DEF Plans!NameInput, Touchable
<1>4. ASSUME NEW f \in Plans!Plain, NEW v \in {0, 1}, Plans!SetPlain(a, f, v) PROVE PlanInv'
  <2>1. PlanSets([p EXCEPT !.plain[f] = v], p, {"plain"})
    BY <1>1, SetPlainOf
  <2> QED BY <1>4, <2>1, EditKeeps DEF Plans!SetPlain, Touchable
<1>5. CASE \/ Plans!DescriptionInput(a) \/ Plans!DescriptionRemove(a)
           \/ Plans!TagInput(a) \/ Plans!TagRemove(a)
  BY <1>4, <1>5 DEF Plans!DescriptionInput, Plans!DescriptionRemove, Plans!TagInput,
     Plans!TagRemove, Plans!Plain
<1>6. ASSUME NEW v \in {0, 1}, Plans!StrategySelect(a, v) PROVE PlanInv'
  BY <1>4, <1>6 DEF Plans!StrategySelect, Plans!Plain
<1>7. CASE Plans!ActiveToggle(a)
  <2>1. 1 - p.plain["active"] \in {0, 1}
    <3> HIDE DEF p
    <3>1. p.plain["active"] \in {0, 1}
      BY <1>1 DEF Plans!Plain
    <3> QED BY <3>1
  <2> QED BY <1>4, <1>7, <2>1 DEF Plans!ActiveToggle, Plans!Plain
<1>8. CASE Plans!TrialToggle(a)
  <2>1. PlanSets([p EXCEPT !.trial = ~@], p, {"trial"})
    BY <1>1, SetTrial
  <2> QED BY <1>8, <2>1, EditKeeps DEF Plans!TrialToggle, Touchable
<1>9. ASSUME NEW v \in {"ALL", "ALLOWED"}, Plans!AvailabilitySelect(a, v) PROVE PlanInv'
  <2>1. PlanSets([p EXCEPT !.availability = v], p, {"availability"})
    BY <1>1, PlanSetAvailability
  <2> QED BY <1>9, <2>1, EditKeeps DEF Plans!AvailabilitySelect, Touchable
<1>10. ASSUME NEW type \in Plans!Type, Plans!TypeSelect(a, type) PROVE PlanInv'
  <2>1. PlanSets(Plans!Typed(p, type), p, {"type", "traffic", "device"})
    BY <1>1, PlanSetType
  <2> QED BY <1>10, <2>1, EditKeeps DEF Plans!TypeSelect, Touchable
<1>11. ASSUME NEW limit \in {2, 200}, Plans!TrafficInput(a, limit) PROVE PlanInv'
  <2>1. PlanSets(Plans!Limited(p, "traffic", limit), p, {"traffic"})
    BY <1>1, SetTraffic
  <2> QED BY <1>11, <2>1, EditKeeps DEF Plans!TrafficInput, Touchable
<1>12. ASSUME NEW limit \in {2, 200}, Plans!DevicesInput(a, limit) PROVE PlanInv'
  <2>1. PlanSets(Plans!Limited(p, "device", limit), p, {"device"})
    BY <1>1, SetDevice
  <2> QED BY <1>12, <2>1, EditKeeps DEF Plans!DevicesInput, Touchable
<1>13. ASSUME NEW s \in Seq(Plans!PlanDurationDto), OneEach(p.durations) => OneEach(s),
              Plans!SetDurations(a, s)
       PROVE PlanInv'
  <2>1. PlanSets([p EXCEPT !.durations = s], p, {"durations"})
    BY <1>1, <1>13, SetDurationsTo
  <2> QED BY <1>13, <2>1, EditKeeps DEF Plans!SetDurations, Touchable
<1>14. ASSUME NEW days \in Days, Plans!DurationInput(a, days) PROVE PlanInv'
  BY <1>1, <1>13, <1>14, WithKeeps DEF Plans!DurationInput
<1>15. ASSUME NEW days \in Days, Plans!DurationRemove(a, days) PROVE PlanInv'
  BY <1>1, <1>13, <1>15, WithoutKeeps DEF Plans!DurationRemove
<1>16. ASSUME NEW days \in Days, Plans!DurationMove(a, days) PROVE PlanInv'
  BY <1>1, <1>13, <1>16, MovedKeeps DEF Plans!DurationMove
<1>17. ASSUME NEW days \in Days, Plans!PriceInput(a, days, 2) PROVE PlanInv'
  BY <1>1, <1>13, <1>17, RepricedKeeps DEF Plans!PriceInput
<1>18. ASSUME NEW S \in SUBSET (Guest \X {"telegram", "email"}),
              Plans!Change(a, "allowed", {"allowed"}, [p EXCEPT !.allowed = S])
       PROVE PlanInv'
  <2>1. PlanSets([p EXCEPT !.allowed = S], p, {"allowed"})
    BY <1>1, SetAllowed
  <2> QED BY <1>18, <2>1, EditKeeps DEF Touchable
<1>19. ASSUME NEW id \in Plans!Identity, Plans!AllowedUserInput(a, id) PROVE PlanInv'
  <2>1. p.allowed \cup {id} \in SUBSET (Guest \X {"telegram", "email"})
    BY <1>1 DEF Plans!Identity
  <2>2. Plans!Allowing(p, id) = [p EXCEPT !.allowed = p.allowed \cup {id}]
    BY <1>1 DEF Plans!Allowing, Plans!PlanDto
  <2> QED BY <1>18, <1>19, <2>1, <2>2 DEF Plans!AllowedUserInput
<1>20. ASSUME NEW id \in Plans!Identity, Plans!AllowedUserRemove(a, id) PROVE PlanInv'
  <2>1. p.allowed \ {id} \in SUBSET (Guest \X {"telegram", "email"})
    BY <1>1
  <2>2. [p EXCEPT !.allowed = @ \ {id}] = [p EXCEPT !.allowed = p.allowed \ {id}]
    BY <1>1 DEF Plans!PlanDto
  <2> QED BY <1>18, <1>20, <2>1, <2>2 DEF Plans!AllowedUserRemove
<1>21. CASE Plans!OpenSquads(a)
  <2> DEFINE S == p.squads \cap panel
             e == IF p.external \in panel THEN p.external ELSE None
  <2>1. S \in SUBSET Squad /\ e \in Squad \cup {None}
    BY <1>1, <1>2
  <2>2. Plans!Sanitized(p) = [p EXCEPT !.squads = S, !.external = e]
    BY <1>1 DEF Plans!Sanitized, Plans!PlanDto
  <2> HIDE DEF S, e
  <2>3. PlanSets(Plans!Sanitized(p), p, {"squads", "external"})
    <3>1. PlanSets([p EXCEPT !.squads = S, !.external = e], p, {"squads", "external"})
      BY <1>1, <2>1, SetBoth
    <3> HIDE DEF p
    <3> QED BY <2>2, <3>1, Zenon DEF p
  <2>4. Plans!Change(a, "squads", {"squads", "external"}, Plans!Sanitized(p))
    BY <1>21, Zenon DEF Plans!OpenSquads
  <2>5. {"squads", "external"} \in SUBSET Touchable
    BY DEF Touchable
  <2> HIDE DEF p
  <2> QED BY <2>3, <2>4, <2>5, EditKeeps DEF p
<1>22. ASSUME NEW s \in Squad, Plans!InternalSquadSelect(a, s) PROVE PlanInv'
  <2> DEFINE S == IF s \in p.squads THEN p.squads \ {s} ELSE p.squads \cup {s}
  <2>1. S \in SUBSET Squad
    BY <1>1
  <2>2. [p EXCEPT !.squads = IF s \in @ THEN @ \ {s} ELSE @ \cup {s}] = [p EXCEPT !.squads = S]
    BY <1>1 DEF Plans!PlanDto
  <2> HIDE DEF S
  <2>3. PlanSets([p EXCEPT !.squads = S], p, {"squads"})
    BY <1>1, <2>1, SetSquads
  <2> QED BY <1>22, <2>2, <2>3, EditKeeps DEF Plans!InternalSquadSelect, Touchable
<1>23. ASSUME NEW s \in Squad, Plans!ExternalSquadSelect(a, s) PROVE PlanInv'
  <2> DEFINE e == IF s = p.external THEN None ELSE s
  <2>1. e \in Squad \cup {None}
    OBVIOUS
  <2>2. [p EXCEPT !.external = IF s = @ THEN None ELSE s] = [p EXCEPT !.external = e]
    BY <1>1 DEF Plans!PlanDto
  <2> HIDE DEF e
  <2>3. PlanSets([p EXCEPT !.external = e], p, {"external"})
    BY <1>1, <2>1, SetExternal
  <2> QED BY <1>23, <2>2, <2>3, EditKeeps DEF Plans!ExternalSquadSelect, Touchable
<1> QED BY <1>3, <1>5, <1>6, <1>7, <1>8, <1>9, <1>10, <1>11, <1>12, <1>14, <1>15, <1>16, <1>17,
           <1>19, <1>20, <1>21, <1>22, <1>23 DEF Plans!Edit

\* What is put right is sound.
LEMMA PreparedTypes ==
  ASSUME NEW p \in Plans!PlanDto
  PROVE /\ Plans!Prepared(p) \in Plans!PlanDto
        /\ Plans!Usable(p) /\ Plans!Valid(p) => Plans!Sound(Plans!Prepared(p))
<1> DEFINE traffic == IF Plans!Metered(p.type) THEN p.traffic ELSE 0
           device == IF Plans!PerDevice(p.type) THEN p.device ELSE 0
           allowed == IF p.availability = "ALLOWED" THEN p.allowed ELSE {}
           new == [p EXCEPT !.traffic = traffic, !.device = device, !.allowed = allowed]
<1>1. Plans!Prepared(p) = new
  BY DEF Plans!Prepared, Plans!PlanDto
<1>2. /\ traffic \in Nat /\ device \in Nat /\ allowed \in SUBSET (Guest \X {"telegram", "email"})
  BY DEF Plans!PlanDto
<1>3. /\ Plans!Metered(p.type) => traffic = p.traffic
      /\ Plans!PerDevice(p.type) => device = p.device
      /\ ~Plans!Metered(p.type) => traffic = 0
      /\ ~Plans!PerDevice(p.type) => device = 0
  OBVIOUS
<1> HIDE DEF traffic, device, allowed
<1>4. new \in Plans!PlanDto
  BY <1>2 DEF Plans!PlanDto
<1>5. /\ new.type = p.type /\ new.traffic = traffic /\ new.device = device
      /\ new.durations = p.durations /\ new.squads = p.squads /\ new.trial = p.trial
  BY DEF Plans!PlanDto
<1> HIDE DEF new
<1>6. Plans!Usable(p) => Plans!Usable(new)
  BY <1>3, <1>5 DEF Plans!Usable
<1>7. Plans!Valid(p) => Plans!Valid(new)
  BY <1>5 DEF Plans!Valid
<1> QED BY <1>1, <1>3, <1>4, <1>5, <1>6, <1>7 DEF Plans!Sound

\* What an update writes is a plan.
LEMMA UpdatedTypes ==
  ASSUME NEW p \in PlanId, plan[p] \in Plans!PlanDto, NEW j, j.loaded \in Plans!PlanDto,
         NEW new \in Plans!PlanDto
  PROVE Plans!Updated(p, j, new) \in Plans!PlanDto
<1> DEFINE old == plan[p]
           read == j.loaded
<1>1. read \in Plans!PlanDto /\ old \in Plans!PlanDto
  OBVIOUS
<1>2. Plans!Updated(p, j, new) =
        [f \in DOMAIN new |->
           IF f = "durations"
           THEN IF j.fresh THEN new.durations ELSE new.durations \o old.durations
           ELSE IF new[f] # read[f] THEN new[f] ELSE old[f]]
  BY DEF Plans!Updated
<1> DEFINE durations == IF j.fresh THEN new.durations ELSE new.durations \o old.durations
<1>3. durations \in Seq(Plans!PlanDurationDto)
  <2>1. new.durations \in Seq(Plans!PlanDurationDto) /\ old.durations \in Seq(Plans!PlanDurationDto)
    BY <1>1 DEF Plans!PlanDto
  <2> HIDE DEF old
  <2> QED BY <2>1
<1>4. DOMAIN new = PlanFields
  BY DEF Plans!PlanDto, PlanFields
<1> DEFINE g == [f \in PlanFields |->
           IF f = "durations" THEN durations ELSE IF new[f] # read[f] THEN new[f] ELSE old[f]]
<1>5. Plans!Updated(p, j, new) = g
  BY <1>2, <1>4
<1> HIDE DEF old, read, durations
<1>6. g \in Plans!PlanDto
  BY <1>1, <1>3 DEF Plans!PlanDto, PlanFields
<1> QED BY <1>5, <1>6

\* What Updated does, field by field.
LEMMA UpdatedField ==
  ASSUME NEW p, NEW j, NEW new \in Plans!PlanDto, NEW f \in PlanFields
  PROVE Plans!Updated(p, j, new)[f] =
          IF f = "durations"
          THEN IF j.fresh THEN new.durations ELSE new.durations \o plan[p].durations
          ELSE IF new[f] # j.loaded[f] THEN new[f] ELSE plan[p][f]
BY DEF Plans!Updated, Plans!PlanDto, PlanFields

\* Sound says nothing about the order and the allowed users.
LEMMA SoundButOrder ==
  ASSUME NEW x \in Plans!PlanDto, NEW y \in Plans!PlanDto,
         \A f \in PlanFields \ {"order", "allowed"} : x[f] = y[f],
         Plans!Sound(y)
  PROVE Plans!Sound(x)
<1>1. /\ x.type = y.type /\ x.traffic = y.traffic /\ x.device = y.device
      /\ x.durations = y.durations /\ x.squads = y.squads /\ x.trial = y.trial
  BY DEF PlanFields
<1> QED BY <1>1 DEF Plans!Sound, Plans!Usable, Plans!Valid

\* a's job ends and others' may be old.
\* After a's command, which wrote the rows S and their content, or orders.
JobsAfter(a, S, content, ordered) ==
  /\ job' \in [Admin -> Plans!Job \cup {None}] /\ job'[a] = None
  /\ overlapped' \in SUBSET PlanId /\ overlapped \subseteq overlapped'
  /\ \A x \in Admin \ {a} :
       /\ job'[x] = None <=> job[x] = None
       /\ job[x] # None =>
            /\ job'[x].kind = job[x].kind /\ job'[x].plan = job[x].plan
            /\ job'[x].user = job[x].user
            /\ job'[x].list = job[x].list /\ job'[x].loaded = job[x].loaded
            /\ job'[x].orders = job[x].orders /\ job'[x].based = job[x].based
            /\ job'[x].fresh =>
                 /\ job[x].fresh
                 /\ ~(content /\ job[x].kind \in {"commit", "toggle"} /\ job[x].plan \in S)
                 /\ ~(ordered /\ job[x].kind \in {"move", "delete"})

\* The same of the forms, whose rows may be in S.
FormsAfter(a, S) ==
  /\ form' \in [Admin -> Plans!Form \cup {None}] /\ form'[a] = None
  /\ \A x \in Admin \ {a} :
       /\ form'[x] = None <=> form[x] = None
       /\ form[x] # None =>
            /\ form'[x].id = form[x].id /\ form'[x].plan = form[x].plan
            /\ form'[x].touched = form[x].touched
            /\ form'[x].based => form[x].based /\ form[x].id \notin S

\* Done does that ...
LEMMA DoneTypes ==
  ASSUME Plans!ConstantsAssumption, PlanTypes, NEW a \in Admin, NEW S \in SUBSET PlanId,
         NEW content, NEW ordered,
         Plans!Done(a, S, content, ordered)
  PROVE JobsAfter(a, S, content, ordered)
<1>1. overlapped' \in SUBSET PlanId /\ overlapped \subseteq overlapped'
  BY DEF Plans!Done, PlanTypes
<1>2. job'[a] = None
  BY DEF Plans!Done
<1> DEFINE Old(x) == [job[x] EXCEPT !.fresh = FALSE]
           Same(x) == \/ job[x] = None
                      \/ ~(content /\ job[x].kind \in {"commit", "toggle"} /\ job[x].plan \in S)
                         /\ ~(ordered /\ job[x].kind \in {"move", "delete"})
<1>3. ASSUME NEW x \in Admin \ {a} PROVE job'[x] = IF Same(x) THEN job[x] ELSE Old(x)
  BY DEF Plans!Done
<1>4. ASSUME NEW x \in Admin, job[x] # None
      PROVE /\ Old(x) \in Plans!Job /\ Old(x) # None /\ ~Old(x).fresh
            /\ Old(x).kind = job[x].kind /\ Old(x).plan = job[x].plan
            /\ Old(x).user = job[x].user
            /\ Old(x).list = job[x].list /\ Old(x).loaded = job[x].loaded
            /\ Old(x).orders = job[x].orders /\ Old(x).based = job[x].based
  <2>1. job[x] \in Plans!Job
    BY <1>4 DEF PlanTypes
  <2>2. /\ Old(x) \in Plans!Job /\ ~Old(x).fresh
        /\ Old(x).kind = job[x].kind /\ Old(x).plan = job[x].plan
        /\ Old(x).user = job[x].user
        /\ Old(x).list = job[x].list /\ Old(x).loaded = job[x].loaded
        /\ Old(x).orders = job[x].orders /\ Old(x).based = job[x].based
    BY <2>1 DEF Plans!Job
  <2> HIDE DEF Old
  <2> QED BY <2>2, PlanNoneApart
<1> HIDE DEF Old
<1>5. job' \in [Admin -> Plans!Job \cup {None}]
  <2>1. \A x \in Admin : job'[x] \in Plans!Job \cup {None}
    BY <1>2, <1>3, <1>4 DEF PlanTypes
  <2>2. job' = [x \in Admin |-> job'[x]]
    BY DEF Plans!Done
  <2> QED BY <2>1, <2>2
<1> QED BY <1>1, <1>2, <1>3, <1>4, <1>5 DEF JobsAfter

\* ... and so does Closed.
LEMMA ClosedTypes ==
  ASSUME Plans!ConstantsAssumption, PlanTypes, NEW a \in Admin, NEW S, Plans!Closed(a, S)
  PROVE FormsAfter(a, S)
<1>2. form'[a] = None
  BY DEF Plans!Closed
<1> DEFINE Old(x) == [form[x] EXCEPT !.based = FALSE]
<1>3. ASSUME NEW x \in Admin \ {a}
      PROVE form'[x] = IF form[x] # None /\ form[x].id \in S THEN Old(x) ELSE form[x]
  BY DEF Plans!Closed
<1>4. ASSUME NEW x \in Admin, form[x] # None
      PROVE /\ Old(x) \in Plans!Form /\ Old(x) # None /\ ~Old(x).based
            /\ Old(x).id = form[x].id /\ Old(x).plan = form[x].plan
            /\ Old(x).touched = form[x].touched
  <2>1. form[x] \in Plans!Form
    BY <1>4 DEF PlanTypes
  <2>2. /\ Old(x) \in Plans!Form /\ ~Old(x).based
        /\ Old(x).id = form[x].id /\ Old(x).plan = form[x].plan
        /\ Old(x).touched = form[x].touched
    BY <2>1 DEF Plans!Form
  <2> HIDE DEF Old
  <2> QED BY <2>2, PlanNoneApart
<1> HIDE DEF Old
<1>5. form' \in [Admin -> Plans!Form \cup {None}]
  <2>1. \A x \in Admin : form'[x] \in Plans!Form \cup {None}
    BY <1>2, <1>3, <1>4 DEF PlanTypes
  <2>2. form' = [x \in Admin |-> form'[x]]
    BY DEF Plans!Closed
  <2> QED BY <2>1, <2>2
<1> QED BY <1>2, <1>3, <1>4, <1>5 DEF FormsAfter

\* A command of a that ends, closes its form and makes those of C old keeps the invariant,
\* if it leaves the rows outside C alone, and those it is not about apart from their order.
LEMMA PlanCommandKeeps ==
  ASSUME Plans!ConstantsAssumption, PlanInv, NEW a \in Admin, NEW S, NEW C, NEW content,
         NEW ordered,
         JobsAfter(a, S, content, ordered), FormsAfter(a, C),
         plan' \in [PlanId -> Plans!PlanDto \cup {None}], panel' = panel,
         born \subseteq born', born' \in SUBSET PlanId, Plans!Existing' \subseteq born',
         \A p \in born \ C : plan'[p] = plan[p],
         \A p \in born \cap Plans!Existing' : p \notin S \/ ~content =>
           p \in Plans!Existing /\ \A f \in PlanFields \ {"order"} : plan'[p][f] = plan[p][f],
         ~ordered => Plans!Existing' = Plans!Existing /\ \A p \in Plans!Existing :
             plan'[p].order = plan[p].order,
         \A p \in Plans!Existing' \ overlapped' : Plans!Sound(plan'[p])
  PROVE PlanInv'
<1>1. PlanTypes'
  BY DEF PlanInv, PlanTypes, JobsAfter, FormsAfter
<1>2. PlanBorn' /\ Plans!PlansAreSound'
  BY DEF PlanBorn, Plans!PlansAreSound
<1>3. /\ form'[a] = None /\ job'[a] = None
  BY DEF JobsAfter, FormsAfter
<1>4. ASSUME NEW x \in Admin \ {a} PROVE PlanForm(x)'
  <2>1. CASE form[x] = None
    BY <2>1 DEF FormsAfter, PlanForm
  <2>2. CASE form[x] # None
    <3>1. PlanForm(x)
      BY DEF PlanInv, PlanForms
    <3>2. /\ form'[x].id = form[x].id /\ form'[x].plan = form[x].plan
          /\ form'[x].touched = form[x].touched
          /\ form'[x].based => form[x].based /\ form[x].id \notin C
      BY <2>2 DEF FormsAfter
    <3>3. form[x].id # None => form[x].id \in born'
      BY <2>2, <3>1 DEF PlanForm
    <3>4. form[x].id \notin overlapped' => Plans!Usable(form[x].plan)
      BY <2>2, <3>1 DEF PlanForm, JobsAfter
    <3>5. ASSUME form'[x].based, form[x].id # None
          PROVE /\ form[x].id \in Plans!Existing'
                /\ Copies(form[x].plan, plan'[form[x].id], form[x].touched)
      <4>1. form[x].id \in Plans!Existing /\ Copies(form[x].plan, plan[form[x].id], form[x].touched)
        BY <2>2, <3>1, <3>2, <3>5 DEF PlanForm
      <4>2. plan'[form[x].id] = plan[form[x].id]
        BY <3>2, <3>5, <4>1 DEF PlanInv, PlanBorn
      <4> QED BY <4>1, <4>2 DEF Plans!Existing
    <3> QED BY <3>2, <3>3, <3>4, <3>5 DEF PlanForm, Copies, Plans!Alike
  <2> QED BY <2>1, <2>2
<1>5. ASSUME NEW x \in Admin \ {a} PROVE PlanJob(x)'
  <2>1. CASE job[x] = None
    BY <2>1 DEF JobsAfter, PlanJob
  <2>2. CASE job[x] # None
    <3>1. /\ job[x].plan \in born /\ (job[x].kind = "toggle" => job[x].user \in Guest)
          /\ job[x].kind = "delete" \/ job[x].loaded \in Plans!PlanDto
          /\ Commits(x) /\ Read(x) /\ Lists(x)
      BY <2>2 DEF PlanInv, PlanJobs, PlanJob
    <3>2. /\ job'[x].kind = job[x].kind /\ job'[x].plan = job[x].plan
          /\ job'[x].user = job[x].user
          /\ job'[x].list = job[x].list /\ job'[x].loaded = job[x].loaded
          /\ job'[x].orders = job[x].orders /\ job'[x].based = job[x].based
          /\ job'[x].fresh =>
               /\ job[x].fresh
               /\ ~(content /\ job[x].kind \in {"commit", "toggle"} /\ job[x].plan \in S)
               /\ ~(ordered /\ job[x].kind \in {"move", "delete"})
      BY <2>2 DEF JobsAfter
    <3>3. Commits(x)'
      <4>1. CASE job[x].kind # "commit"
        BY <3>2, <4>1 DEF Commits
      <4>2. CASE job[x].kind = "commit"
        <5>1. /\ form[x] # None /\ form[x].id = job[x].plan /\ Plans!Valid(form[x].plan)
              /\ job[x].based => Copies(form[x].plan, job[x].loaded, form[x].touched)
          BY <3>1, <4>2 DEF Commits
        <5>2. /\ form'[x] # None /\ form'[x].id = form[x].id /\ form'[x].plan = form[x].plan
              /\ form'[x].touched = form[x].touched
          BY <5>1 DEF FormsAfter
        <5> QED BY <3>2, <5>1, <5>2 DEF Commits, Copies, Plans!Alike
      <4> QED BY <4>1, <4>2
    <3>4. Read(x)'
      <4>1. SUFFICES ASSUME job'[x].kind \in {"commit", "toggle"}, job'[x].fresh,
                            job'[x].plan \in Plans!Existing', NEW f \in PlanFields \ {"order"}
                     PROVE job'[x].loaded[f] = plan'[job'[x].plan][f]
        BY DEF Read
      <4>2. /\ job[x].plan \in Plans!Existing
            /\ plan'[job[x].plan][f] = plan[job[x].plan][f]
        BY <3>1, <3>2, <4>1
      <4> QED BY <3>1, <3>2, <4>1, <4>2 DEF Read
    <3>5. Lists(x)'
      <4>1. SUFFICES ASSUME job'[x].kind \in {"move", "delete"}, job'[x].fresh
                     PROVE Lists(x)'
        BY DEF Lists
      <4>2. /\ ~ordered /\ Plans!Existing' = Plans!Existing
            /\ \A p \in Plans!Existing : plan'[p].order = plan[p].order
        BY <3>2, <4>1
      <4>3. [q \in Plans!Existing |-> plan[q].order]' = [q \in Plans!Existing |-> plan[q].order]
        BY <4>2
      <4>4. Rest(x)' = Rest(x)
        BY <3>2, <4>2 DEF Rest
      <4> QED BY <3>1, <3>2, <4>1, <4>2, <4>3, <4>4 DEF Lists
    <3> QED BY <3>1, <3>2, <3>3, <3>4, <3>5 DEF PlanJob
  <2> QED BY <2>1, <2>2
<1>6. PlanForms' /\ PlanJobs'
  <2>1. PlanForm(a)' /\ PlanJob(a)'
    BY <1>3 DEF PlanForm, PlanJob
  <2> QED BY <1>4, <1>5, <2>1 DEF PlanForms, PlanJobs
<1> QED BY <1>1, <1>2, <1>6 DEF PlanInv

\* A command that fails changes no row.
LEMMA FailKeeps ==
  ASSUME Plans!ConstantsAssumption, PlanInv, NEW a \in Admin, Plans!Fail(a),
         UNCHANGED <<born, panel>>
  PROVE PlanInv'
<1>1. PlanTypes'
  BY DEF Plans!Fail, PlanInv, PlanTypes
<1>2. PlanBorn' /\ Plans!PlansAreSound'
  BY DEF Plans!Fail, PlanInv, PlanBorn, Plans!PlansAreSound, Plans!Existing
<1>3. ASSUME NEW x \in Admin PROVE PlanForm(x)' /\ PlanJob(x)'
  <2>1. PlanForm(x) /\ PlanJob(x)
    BY DEF PlanInv, PlanForms, PlanJobs
  <2>2. PlanForm(x)'
    BY <2>1, PlanUntouched DEF Plans!Fail
  <2>3. CASE x = a
    <3>1. job'[a] = None
      BY DEF Plans!Fail, PlanInv, PlanTypes
    <3> QED BY <2>2, <2>3, <3>1 DEF PlanJob
  <2>4. CASE x # a
    <3>1. job'[x] = job[x]
      BY <2>4 DEF Plans!Fail, PlanInv, PlanTypes
    <3> QED BY <2>1, <2>2, <3>1, PlanUntouched DEF Plans!Fail
  <2> QED BY <2>3, <2>4
<1> QED BY <1>1, <1>2, <1>3 DEF PlanInv, PlanForms, PlanJobs

\* A command begins with what it has read.
LEMMA BeginKeeps ==
  ASSUME Plans!ConstantsAssumption, PlanInv, NEW a \in Admin,
         NEW kind \in {"commit", "toggle", "move", "delete"}, NEW p \in born,
         kind # "delete" => p \in Plans!Existing,
         NEW u \in Guest \cup {None}, NEW list \in Seq(PlanId), Plans!Begin(a, kind, p, u, list),
         kind = "toggle" => u \in Guest,
         UNCHANGED <<plan, born, panel, form, overlapped>>, Commits(a)', Lists(a)'
  PROVE PlanInv'
<1> DEFINE j == [kind |-> kind, plan |-> p, user |-> u, list |-> list, fresh |-> TRUE,
                 loaded |-> plan[p], orders |-> [q \in Plans!Existing |-> plan[q].order],
                 based |-> form[a] # None /\ form[a].based]
<1>1. /\ p \in PlanId /\ plan[p] \in Plans!PlanDto \cup {None}
      /\ kind = "delete" \/ plan[p] \in Plans!PlanDto
  BY DEF Plans!Existing, PlanInv, PlanTypes
<1>2. j \in Plans!Job
  <2>1. [q \in Plans!Existing |-> plan[q].order] \in [Plans!Existing -> Nat]
    <3>1. ASSUME NEW q \in Plans!Existing PROVE plan[q] \in Plans!PlanDto
      BY DEF Plans!Existing, PlanInv, PlanTypes
    <3> QED BY <3>1 DEF Plans!PlanDto
  <2>2. Plans!Existing \in SUBSET PlanId
    BY DEF Plans!Existing
  <2>3. (form[a] # None /\ form[a].based) \in BOOLEAN
    <3>1. CASE form[a] = None
      BY <3>1
    <3>2. CASE form[a] # None
      <4>1. form[a] \in Plans!Form
        BY <3>2 DEF PlanInv, PlanTypes
      <4> QED BY <3>2, <4>1 DEF Plans!Form
    <3> QED BY <3>1, <3>2
  <2> DEFINE orders == [q \in Plans!Existing |-> plan[q].order]
             based == form[a] # None /\ form[a].based
  <2>4. orders \in UNION {[T -> Nat] : T \in SUBSET PlanId}
    BY <2>1, <2>2
  <2>5. based \in BOOLEAN
    BY <2>3
  <2> HIDE DEF orders, based
  <2>6. [kind |-> kind, plan |-> p, user |-> u, list |-> list, fresh |-> TRUE,
         loaded |-> plan[p], orders |-> orders, based |-> based] \in Plans!Job
    BY <1>1, <2>4, <2>5 DEF Plans!Job
  <2> QED BY <2>6 DEF orders, based
<1>3. job' = [job EXCEPT ![a] = j]
  BY DEF Plans!Begin
<1>4. j.kind = kind /\ j.plan = p /\ j.loaded = plan[p] /\ j.user = u
  OBVIOUS
<1> HIDE DEF j
<1>5. job'[a] = j
  BY <1>3 DEF PlanInv, PlanTypes
<1>6. PlanTypes'
  BY <1>2, <1>3 DEF PlanInv, PlanTypes
<1>7. Plans!Existing' = Plans!Existing /\ PlanBorn' /\ Plans!PlansAreSound'
  BY DEF PlanInv, PlanBorn, Plans!PlansAreSound, Plans!Existing
<1>8. ASSUME NEW x \in Admin PROVE PlanForm(x)' /\ PlanJob(x)'
  <2>1. PlanForm(x) /\ PlanJob(x)
    BY DEF PlanInv, PlanForms, PlanJobs
  <2>2. PlanForm(x)'
    BY <2>1, PlanUntouched
  <2>3. CASE x = a
    <3>1. Read(a)'
      BY <1>4, <1>5 DEF Read
    <3> QED BY <1>1, <1>4, <1>5, <2>2, <2>3, <3>1 DEF PlanJob
  <2>4. CASE x # a
    <3>1. job'[x] = job[x]
      BY <1>3, <2>4 DEF PlanInv, PlanTypes
    <3> QED BY <2>1, <2>2, <3>1, PlanUntouched
  <2> QED BY <2>3, <2>4
<1> QED BY <1>6, <1>7, <1>8 DEF PlanInv, PlanForms, PlanJobs

\* What it has then.
LEMMA Begun ==
  ASSUME PlanInv, NEW a \in Admin, NEW kind, NEW p, NEW u, NEW list,
         Plans!Begin(a, kind, p, u, list)
  PROVE /\ job'[a].kind = kind /\ job'[a].plan = p /\ job'[a].user = u /\ job'[a].list = list
        /\ job'[a].fresh = TRUE /\ job'[a].loaded = plan[p]
        /\ job'[a].orders = [q \in Plans!Existing |-> plan[q].order]
        /\ job'[a].based = (form[a] # None /\ form[a].based)
<1> DEFINE j == [kind |-> kind, plan |-> p, user |-> u, list |-> list, fresh |-> TRUE,
                 loaded |-> plan[p], orders |-> [q \in Plans!Existing |-> plan[q].order],
                 based |-> form[a] # None /\ form[a].based]
<1>1. job'[a] = j
  BY DEF Plans!Begin, PlanInv, PlanTypes
<1>2. /\ j.kind = kind /\ j.plan = p /\ j.user = u /\ j.list = list
      /\ j.fresh = TRUE /\ j.loaded = plan[p]
      /\ j.orders = [q \in Plans!Existing |-> plan[q].order]
      /\ j.based = (form[a] # None /\ form[a].based)
  OBVIOUS
<1> HIDE DEF j
<1> QED BY <1>1, <1>2

\* A listing has each of S once, by its key.
LEMMA ListingIs ==
  ASSUME NEW S, Plans!IsFiniteSet(S), NEW key, NEW s \in Plans!Listings(S, key)
  PROVE /\ s \in Plans!Bijection(1 .. Plans!Cardinality(S), S) /\ Plans!Cardinality(S) \in Nat
        /\ s \in Seq(S) /\ Len(s) = Plans!Cardinality(S) /\ DOMAIN s = 1 .. Plans!Cardinality(S)
        /\ \A i, k \in 1 .. Plans!Cardinality(S) : i < k => key[s[i]] <= key[s[k]]
<1> DEFINE n == Plans!Cardinality(S)
<1>1. n \in Nat
  BY CountIsNat
<1>2. s \in [1 .. n -> S] /\ \A i, k \in 1 .. n : i # k => s[i] # s[k]
  BY DEF Plans!Listings, Plans!SetToSeqs
<1>3. \A i, k \in DOMAIN s : i < k => key[s[i]] <= key[s[k]]
  BY DEF Plans!Listings
<1>4. s \in Plans!Injection(1 .. n, S)
  BY <1>2 DEF Plans!Injection, Plans!IsInjective
<1>5. Plans!Cardinality(1 .. n) = n
  <2>1. 1 \in Int /\ n \in Int
    BY <1>1
  <2>2. Plans!Cardinality(1 .. n) = IF 1 > n THEN 0 ELSE n - 1 + 1
    <3> HIDE DEF n
    <3> QED BY <2>1, CountOfInterval
  <2> HIDE DEF n
  <2> QED BY <1>1, <2>2
<1>6. s \in Plans!Surjection(1 .. n, S)
  <2>1. Plans!Cardinality(1 .. n) = Plans!Cardinality(S)
    BY <1>5
  <2> HIDE DEF n
  <2> QED BY <1>4, <2>1, CountOfInjection
<1>7. s \in Seq(S) /\ Len(s) = n /\ DOMAIN s = 1 .. n
  <2> HIDE DEF n
  <2> QED BY <1>1, <1>2
<1> HIDE DEF n
<1> QED BY <1>1, <1>3, <1>4, <1>6, <1>7 DEF Plans!Bijection, n

\* What is known of the rows.
LEMMA ExistingIs ==
  ASSUME Plans!ConstantsAssumption, PlanInv
  PROVE /\ Plans!IsFiniteSet(Plans!Existing) /\ Plans!Existing \subseteq PlanId
        /\ Plans!Existing \subseteq born
        /\ \A p \in Plans!Existing : plan[p] \in Plans!PlanDto
<1>1. Plans!Existing \in SUBSET PlanId
  BY DEF Plans!Existing
<1>2. Plans!IsFiniteSet(Plans!Existing)
  BY <1>1, CountOfPart DEF Plans!ConstantsAssumption
<1> QED BY <1>1, <1>2 DEF PlanInv, PlanTypes, PlanBorn, Plans!Existing

\* The plans a behaviour begins with are sound, and nobody does anything.
LEMMA InitPlans ==
  ASSUME Plans!ConstantsAssumption, Plans!Init
  PROVE PlanInv
<1>1. setting.rows \in [PlanId -> Plans!PlanDto \cup {None}]
      /\ \A p \in PlanId : setting.rows[p] # None => Plans!Sound(setting.rows[p])
  BY DEF Plans!Init, Plans!ConstantsAssumption
<1>2. PlanTypes
  BY <1>1 DEF Plans!Init, PlanTypes, Plans!Idle, Plans!Existing
<1>3. PlanBorn /\ Plans!PlansAreSound
  BY <1>1 DEF Plans!Init, PlanBorn, Plans!PlansAreSound, Plans!Existing
<1>4. PlanForms /\ PlanJobs
  BY DEF Plans!Init, PlanForms, PlanJobs, PlanForm, PlanJob, Plans!Idle
<1> QED BY <1>2, <1>3, <1>4 DEF PlanInv

\* A new plan has what it needs but squads.
LEMMA NewPlanIs ==
  ASSUME Plans!ConstantsAssumption
  PROVE Plans!NewPlan \in Plans!PlanDto /\ Plans!Usable(Plans!NewPlan)
<1> DEFINE s == [i \in DOMAIN DefaultDays |-> Plans!NewDuration(DefaultDays[i])]
<1>1. /\ DefaultDays \in Seq(Days) /\ DefaultDays # <<>>
      /\ \A i, k \in DOMAIN DefaultDays : i # k => DefaultDays[i] # DefaultDays[k]
  BY DEF Plans!ConstantsAssumption
<1>2. DOMAIN DefaultDays = 1 .. Len(DefaultDays) /\ Len(DefaultDays) \in Nat
      /\ Len(DefaultDays) > 0 /\ \A i \in DOMAIN DefaultDays : DefaultDays[i] \in Days
  BY <1>1
<1>3. \A i \in DOMAIN DefaultDays :
        Plans!NewDuration(DefaultDays[i]) \in Plans!PlanDurationDto
        /\ Plans!NewDuration(DefaultDays[i]).days = DefaultDays[i]
  BY <1>2 DEF Plans!NewDuration, Plans!PlanDurationDto
<1>4. s \in [1 .. Len(DefaultDays) -> Plans!PlanDurationDto]
  BY <1>2, <1>3
<1>5. DOMAIN s = DOMAIN DefaultDays /\ \A i \in DOMAIN s : s[i].days = DefaultDays[i]
  BY <1>3
<1> HIDE DEF s
<1>6. s \in Seq(Plans!PlanDurationDto) /\ s # <<>>
  BY <1>2, <1>4
<1>7. OneEach(s)
  BY <1>1, <1>5, <1>6 DEF OneEach
<1>8. Plans!NewPlan =
        [name |-> Default, plain |-> [f \in Plans!Plain |-> 0], type |-> "BOTH",
         availability |-> "ALL", trial |-> FALSE, traffic |-> 100, device |-> 1,
         allowed |-> {}, squads |-> {}, external |-> None, order |-> 0, durations |-> s]
  BY DEF Plans!NewPlan, s
<1>9. Default \in Name
  BY DEF Plans!ConstantsAssumption
<1>10. Plans!NewPlan \in Plans!PlanDto
  BY <1>6, <1>8, <1>9 DEF Plans!PlanDto, Plans!Type
<1>11. Plans!NewPlan.traffic = 100 /\ Plans!NewPlan.device = 1 /\ Plans!NewPlan.durations = s
  BY <1>8
<1> QED BY <1>7, <1>10, <1>11 DEF Plans!Usable, OneEach

\* A form for a new plan.
LEMMA PlanCreateKeeps ==
  ASSUME Plans!ConstantsAssumption, PlanInv, NEW a \in Admin, Plans!Create(a)
  PROVE PlanInv'
<1>1. Plans!NewPlan \in Plans!PlanDto /\ Plans!Usable(Plans!NewPlan)
  BY NewPlanIs
<1>2. job[a] = None /\ Plans!Open(a, None, Plans!NewPlan)
      /\ UNCHANGED <<plan, born, panel, overlapped, job>>
  BY DEF Plans!Create, Plans!Free
<1> QED BY <1>1, <1>2, PlanOpenKeeps

\* A form of a plan that was exported.
LEMMA ImportOneKeeps ==
  ASSUME Plans!ConstantsAssumption, PlanInv, NEW a \in Admin, NEW file \in Files,
         Plans!ImportOne(a, file)
  PROVE PlanInv'
<1>1. file \in Seq(Plans!PlanDto) /\ Len(file) = 1 /\ \A i \in DOMAIN file : Plans!Usable(file[i])
  BY DEF Plans!ConstantsAssumption, Plans!ImportOne
<1>2. file[1] \in Plans!PlanDto /\ Plans!Usable(file[1])
  BY <1>1
<1>3. job[a] = None /\ Plans!Open(a, None, file[1])
      /\ UNCHANGED <<plan, born, panel, overlapped, job>>
  BY DEF Plans!ImportOne, Plans!Free
<1> QED BY <1>2, <1>3, PlanOpenKeeps

\* A form of a stored plan, its durations sorted.
LEMMA PlanSelectKeeps ==
  ASSUME Plans!ConstantsAssumption, PlanInv, NEW a \in Admin, NEW p \in PlanId, Plans!Select(a, p)
  PROVE PlanInv'
<1> DEFINE old == plan[p]
           ds == plan[p].durations
           key == [i \in DOMAIN ds |-> ds[i].order]
<1>1. p \in Plans!Existing /\ old \in Plans!PlanDto
  BY ExistingIs DEF Plans!Select, Plans!Existing
<1>2. ds \in Seq(Plans!PlanDurationDto)
  <2> HIDE DEF old
  <2>1. old.durations \in Seq(Plans!PlanDurationDto)
    BY <1>1 DEF Plans!PlanDto
  <2> QED BY <2>1 DEF old
<1>3. PICK s \in Plans!Listings(DOMAIN ds, key) :
        Plans!Open(a, p, [plan[p] EXCEPT !.durations = [i \in DOMAIN s |-> ds[s[i]]]])
  BY DEF Plans!Select
<1> DEFINE t == [i \in DOMAIN s |-> ds[s[i]]]
           new == [old EXCEPT !.durations = t]
<1> HIDE DEF key
<1>4. /\ Plans!IsFiniteSet(DOMAIN ds) /\ Plans!Cardinality(DOMAIN ds) = Len(ds)
      /\ DOMAIN ds = 1 .. Len(ds)
      /\ Len(ds) \in Nat /\ \A i \in DOMAIN ds : ds[i] \in Plans!PlanDurationDto
  BY <1>2, PlacesCounted
<1>5. s \in Plans!Bijection(DOMAIN ds, DOMAIN ds) /\ DOMAIN s = DOMAIN ds
  <2> HIDE DEF ds
  <2>1. s \in Plans!Bijection(1 .. Plans!Cardinality(DOMAIN ds), DOMAIN ds)
        /\ DOMAIN s = 1 .. Plans!Cardinality(DOMAIN ds)
    BY <1>4, ListingIs
  <2> QED BY <1>4, <2>1
<1> HIDE DEF ds
<1>6. s \in [DOMAIN ds -> DOMAIN ds]
  BY <1>5 DEF Plans!Bijection, Plans!Injection
<1>7. t \in Seq(Plans!PlanDurationDto) /\ DOMAIN t = DOMAIN ds
  <2>1. t \in [1 .. Len(ds) -> Plans!PlanDurationDto] /\ DOMAIN t = DOMAIN ds
    BY <1>4, <1>5, <1>6
  <2> HIDE DEF t
  <2> QED BY <1>4, <2>1
<1>8. OneEach(ds) => OneEach(t)
  <2>1. SUFFICES ASSUME OneEach(ds) PROVE OneEach(t)
    OBVIOUS
  <2>2. s \in Plans!Injection(DOMAIN t, DOMAIN ds)
    BY <1>5, <1>7 DEF Plans!Bijection
  <2>3. \A k \in DOMAIN t : t[k].days = ds[s[k]].days
    BY <1>5, <1>7
  <2>4. t # <<>>
    <3>1. DOMAIN ds # {}
      BY <1>2, <2>1, PlacesCounted DEF OneEach
    <3> HIDE DEF t
    <3> QED BY <1>7, <3>1
  <2> HIDE DEF t
  <2> QED BY <2>1, <2>2, <2>3, <2>4, Reordered
<1>9. Plans!ToSet(t) = Plans!ToSet(ds)
  <2>1. \A i \in DOMAIN t : s[i] \in DOMAIN ds /\ t[i] = ds[s[i]]
    BY <1>5, <1>6, <1>7
  <2>2. \A k \in DOMAIN ds : \E i \in DOMAIN t : t[i] = ds[k]
    <3>1. TAKE k \in DOMAIN ds
    <3>2. PICK i \in DOMAIN ds : s[i] = k
      BY <1>5 DEF Plans!Bijection, Plans!Surjection
    <3> QED BY <1>7, <2>1, <3>2
  <2> HIDE DEF t
  <2> QED BY <2>1, <2>2 DEF Plans!ToSet
<1> HIDE DEF t
<1>10. new \in Plans!PlanDto /\ new.durations = t /\ (Plans!Usable(old) => Plans!Usable(new))
       /\ \A f \in PlanFields \ {"durations"} : new[f] = old[f]
  <2> HIDE DEF old
  <2>1. OneEach(old.durations) => OneEach(t)
    BY <1>8 DEF ds, old
  <2>2. PlanSets(new, old, {"durations"})
    BY <1>1, <1>7, <2>1, SetDurationsTo
  <2>3. new.durations = t
    BY <1>1 DEF Plans!PlanDto
  <2> QED BY <2>2, <2>3 DEF PlanSets
<1>11. Plans!Open(a, p, new)
  BY <1>3 DEF t
<1>12. p \notin overlapped => Plans!Usable(new)
  BY <1>1, <1>10 DEF PlanInv, Plans!PlansAreSound, Plans!Sound
<1>13. Copies(new, plan[p], {})
  <2>1. old.durations = ds
    BY DEF ds
  <2> HIDE DEF new
  <2>2. \A f \in PlanFields : Plans!Alike(f, new, old)
    BY <1>9, <1>10, <2>1 DEF Plans!Alike
  <2> QED BY <2>2 DEF Copies
<1>14. job[a] = None /\ UNCHANGED <<plan, born, panel, overlapped, job>>
  BY DEF Plans!Select, Plans!Free
<1> HIDE DEF new
<1> QED BY <1>1, <1>10, <1>11, <1>12, <1>13, <1>14, PlanOpenKeeps

\* The form is gone.
LEMMA PlanLeaveKeeps ==
  ASSUME Plans!ConstantsAssumption, PlanInv, NEW a \in Admin, Plans!Leave(a)
  PROVE PlanInv'
<1>1. /\ job[a] = None /\ form' = [form EXCEPT ![a] = None]
      /\ UNCHANGED <<plan, born, panel, overlapped, job>>
  BY DEF Plans!Leave, Plans!Free
<1>2. panel' \in SUBSET Squad
  BY <1>1 DEF PlanInv, PlanTypes
<1>3. form'[a] = None
  BY <1>1 DEF PlanInv, PlanTypes
<1>4. PlanForm(a)'
  BY <1>3 DEF PlanForm
<1> QED BY <1>1, <1>2, <1>4, PlanFormKeeps

\* The panel loses a squad.
LEMMA SquadKeeps ==
  ASSUME Plans!ConstantsAssumption, PlanInv, NEW s \in Squad, Plans!SquadRemoved(s)
  PROVE PlanInv'
<1>1. PlanTypes' /\ PlanBorn' /\ Plans!PlansAreSound'
  BY DEF Plans!SquadRemoved, PlanInv, PlanTypes, PlanBorn, Plans!PlansAreSound, Plans!Existing
<1>2. ASSUME NEW x \in Admin PROVE PlanForm(x)' /\ PlanJob(x)'
  BY PlanUntouched DEF Plans!SquadRemoved, PlanInv, PlanForms, PlanJobs
<1> QED BY <1>1, <1>2 DEF PlanInv, PlanForms, PlanJobs

\* The confirmed copy is about to be written.
LEMMA PlanConfirmEditKeeps ==
  ASSUME Plans!ConstantsAssumption, PlanInv, NEW a \in Admin, Plans!ConfirmEdit(a)
  PROVE PlanInv'
<1>0. PICK p : p = form[a].id
  OBVIOUS
<1>1. /\ form[a] # None /\ p \in Plans!Existing /\ Plans!Valid(form[a].plan)
      /\ Plans!Begin(a, "commit", p, None, <<>>)
      /\ UNCHANGED <<plan, born, panel, form, overlapped>>
  BY <1>0 DEF Plans!ConfirmEdit
<1>2. /\ job'[a].kind = "commit" /\ job'[a].plan = p /\ job'[a].loaded = plan[p]
      /\ job'[a].based = (form[a] # None /\ form[a].based)
  <2>1. job'[a] =
          [kind |-> "commit", plan |-> p, user |-> None, list |-> <<>>, fresh |-> TRUE,
           loaded |-> plan[p], orders |-> [q \in Plans!Existing |-> plan[q].order],
           based |-> form[a] # None /\ form[a].based]
    BY <1>1 DEF Plans!Begin, PlanInv, PlanTypes
  <2> QED BY <2>1
<1>3. Lists(a)'
  BY <1>2 DEF Lists
<1>4. p # None
  <2>1. p \in PlanId
    BY <1>1 DEF Plans!Existing
  <2> QED BY <2>1, PlanNoneApart
<1>5. form[a].based => Copies(form[a].plan, plan[p], form[a].touched)
  BY <1>0, <1>1, <1>4 DEF PlanInv, PlanForms, PlanForm
<1>6. job'[a].based => Copies(form[a].plan, plan[p], form[a].touched)
  BY <1>2, <1>5
<1>7. Commits(a)'
  <2>1. form' = form
    BY <1>1
  <2> QED BY <1>0, <1>1, <1>2, <1>6, <2>1 DEF Commits, Copies, Plans!Alike
<1>8. <<>> \in Seq(PlanId)
  OBVIOUS
<1>9. p \in born
  BY <1>1, ExistingIs
<1> QED BY <1>1, <1>3, <1>7, <1>8, <1>9, BeginKeeps

\* The row whose access is toggled is read.
LEMMA BeginToggleKeeps ==
  ASSUME Plans!ConstantsAssumption, PlanInv, NEW a \in Admin, NEW p \in PlanId, NEW u \in Guest,
         Plans!BeginToggle(a, p, u)
  PROVE PlanInv'
<1>1. /\ p \in Plans!Existing /\ Plans!Begin(a, "toggle", p, u, <<>>)
      /\ UNCHANGED <<plan, born, panel, form, overlapped>>
  BY DEF Plans!BeginToggle
<1>2. job'[a].kind = "toggle"
  BY <1>1, Begun
<1>3. Lists(a)' /\ Commits(a)'
  BY <1>2 DEF Lists, Commits
<1>4. <<>> \in Seq(PlanId)
  OBVIOUS
<1>5. p \in born
  BY <1>1, ExistingIs
<1> QED BY <1>1, <1>3, <1>4, <1>5, BeginKeeps

\* Sequence t has the elements of s at other places, where those apart from i keep their order.
Shift(s, t, i) ==
  \E g \in Plans!Bijection(1 .. Len(s), 1 .. Len(s)) :
    /\ \A k \in 1 .. Len(s) : t[k] = s[g[k]]
    /\ \A k, l \in 1 .. Len(s) : k < l /\ g[k] # i /\ g[l] # i => g[k] < g[l]

\* One up does that.
LEMMA UpShifts ==
  ASSUME NEW T, NEW s \in Seq(T), NEW i \in 1 .. Len(s)
  PROVE Shift(s, Plans!Up(s, i), i)
<1>1. PICK g \in Plans!Bijection(1 .. Len(s), 1 .. Len(s)) :
        /\ \A k \in 1 .. Len(s) : Plans!Up(s, i)[k] = s[g[k]]
        /\ \A k, l \in 1 .. Len(s) : k < l /\ g[k] # i /\ g[l] # i => g[k] < g[l]
  BY UpPermutes
<1> QED BY <1>1 DEF Shift

\* The list of a move: all plans, one of them a place up.
LEMMA BeginMoveKeeps ==
  ASSUME Plans!ConstantsAssumption, PlanInv, NEW a \in Admin, NEW p \in PlanId,
         Plans!BeginMove(a, p)
  PROVE PlanInv'
<1> DEFINE key == [q \in Plans!Existing |-> plan[q].order]
           n == Plans!Cardinality(Plans!Existing)
<1>1. PICK s \in Plans!Listed(Plans!Existing) :
        Plans!Begin(a, "move", p, None, Plans!Up(s, CHOOSE i \in DOMAIN s : s[i] = p))
  BY DEF Plans!BeginMove
<1>2. p \in Plans!Existing /\ UNCHANGED <<plan, born, panel, form, overlapped>>
  BY DEF Plans!BeginMove
<1>3. Plans!IsFiniteSet(Plans!Existing) /\ Plans!Existing \subseteq PlanId
  BY ExistingIs
<1>4. s \in Plans!Listings(Plans!Existing, key)
  BY DEF Plans!Listed
<1>5. /\ s \in Plans!Bijection(1 .. n, Plans!Existing) /\ n \in Nat /\ s \in Seq(Plans!Existing)
      /\ Len(s) = n /\ DOMAIN s = 1 .. n
      /\ \A i, k \in 1 .. n : i < k => key[s[i]] <= key[s[k]]
  <2> HIDE DEF key
  <2> QED BY <1>3, <1>4, ListingIs
<1> HIDE DEF key, n
<1>6. PICK m \in 1 .. Len(s) : m = (CHOOSE i \in DOMAIN s : s[i] = p) /\ s[m] = p
  BY <1>2, <1>5 DEF Plans!Bijection, Plans!Surjection
<1> DEFINE t == Plans!Up(s, m)
<1>7. Plans!Begin(a, "move", p, None, t)
  BY <1>1, <1>6
<1>8. t \in Seq(Plans!Existing) /\ Len(t) = n
  BY <1>5, UpPermutes
<1>9. PICK g \in Plans!Bijection(1 .. n, 1 .. n) :
        /\ \A k \in 1 .. n : t[k] = s[g[k]]
        /\ \A k, l \in 1 .. n : k < l /\ g[k] # m /\ g[l] # m => g[k] < g[l]
  <2>1. PICK g \in Plans!Bijection(1 .. Len(s), 1 .. Len(s)) :
          /\ \A k \in 1 .. Len(s) : t[k] = s[g[k]]
          /\ \A k, l \in 1 .. Len(s) : k < l /\ g[k] # m /\ g[l] # m => g[k] < g[l]
    <3>1. Shift(s, t, m)
      BY <1>5, UpShifts
    <3> HIDE DEF t
    <3> QED BY <3>1 DEF Shift
  <2> QED BY <1>5, <2>1
<1> HIDE DEF t
<1>10. DOMAIN t = 1 .. n
  BY <1>8
<1>11. g \in [1 .. n -> 1 .. n] /\ s \in [1 .. n -> Plans!Existing]
  BY <1>5, <1>9 DEF Plans!Bijection, Plans!Injection
<1>12. t \in Plans!Bijection(1 .. n, Plans!Existing)
  <2>1. t \in [1 .. n -> Plans!Existing]
    BY <1>5, <1>8
  <2>2. ASSUME NEW i \in 1 .. n, NEW k \in 1 .. n, t[i] = t[k] PROVE i = k
    <3>1. s[g[i]] = s[g[k]] /\ g[i] \in 1 .. n /\ g[k] \in 1 .. n
      BY <1>9, <1>11, <2>2
    <3>2. g[i] = g[k]
      BY <1>5, <1>11, <3>1 DEF Plans!Bijection, Plans!Injection, Plans!IsInjective
    <3> QED BY <1>9, <1>11, <3>2 DEF Plans!Bijection, Plans!Injection, Plans!IsInjective
  <2>3. ASSUME NEW q \in Plans!Existing PROVE \E k \in 1 .. n : t[k] = q
    <3>1. PICK i \in 1 .. n : s[i] = q
      BY <1>5 DEF Plans!Bijection, Plans!Surjection
    <3>2. PICK k \in 1 .. n : g[k] = i
      BY <1>9 DEF Plans!Bijection, Plans!Surjection
    <3> QED BY <1>9, <3>1, <3>2
  <2> QED BY <2>1, <2>2, <2>3 DEF Plans!Bijection, Plans!Injection, Plans!Surjection,
             Plans!IsInjective
<1>13. ASSUME NEW i \in 1 .. n, NEW k \in 1 .. n, i < k, t[i] # p, t[k] # p
       PROVE key[t[i]] <= key[t[k]]
  <2>1. g[i] \in 1 .. n /\ g[k] \in 1 .. n /\ t[i] = s[g[i]] /\ t[k] = s[g[k]]
    BY <1>9, <1>11
  <2>2. g[i] # m /\ g[k] # m
    BY <1>6, <1>13, <2>1
  <2>3. g[i] < g[k]
    BY <1>9, <1>13, <2>2
  <2> QED BY <1>5, <2>1, <2>3
<1>14. /\ job'[a].kind = "move" /\ job'[a].plan = p /\ job'[a].list = t
       /\ job'[a].orders = key
  <2>1. /\ job'[a].kind = "move" /\ job'[a].plan = p /\ job'[a].list = t
        /\ job'[a].orders = [q \in Plans!Existing |-> plan[q].order]
    <3>1. job'[a] =
            [kind |-> "move", plan |-> p, user |-> None, list |-> t, fresh |-> TRUE,
             loaded |-> plan[p], orders |-> [q \in Plans!Existing |-> plan[q].order],
             based |-> form[a] # None /\ form[a].based]
      BY <1>7 DEF Plans!Begin, PlanInv, PlanTypes
    <3> QED BY <3>1
  <2> QED BY <2>1 DEF key
<1>15. Plans!Existing' = Plans!Existing /\ [q \in Plans!Existing |-> plan[q].order]' = key
  BY <1>2 DEF Plans!Existing, key
<1>16. Rest(a)' = Plans!Existing
  BY <1>14, <1>15 DEF Rest
<1>17. Lists(a)'
  BY <1>2, <1>10, <1>12, <1>13, <1>14, <1>15, <1>16 DEF Lists, n
<1>18. Commits(a)'
  BY <1>14 DEF Commits
<1>19. t \in Seq(PlanId)
  BY <1>3, <1>8
<1>20. p \in born
  BY <1>2, ExistingIs
<1> QED BY <1>2, <1>7, <1>17, <1>18, <1>19, <1>20, BeginKeeps

\* The list of a deletion: the plans that stay.
LEMMA BeginDeleteKeeps ==
  ASSUME Plans!ConstantsAssumption, PlanInv, NEW a \in Admin, Plans!BeginDelete(a)
  PROVE PlanInv'
<1>0. PICK p : p = form[a].id
  OBVIOUS
<1> DEFINE R == Plans!Existing \ {p}
           key == [q \in R |-> plan[q].order]
           n == Plans!Cardinality(R)
<1>1. PICK s \in Plans!Listed(R) : Plans!Begin(a, "delete", p, None, s)
  BY <1>0 DEF Plans!BeginDelete
<1>2. p \in born /\ UNCHANGED <<plan, born, panel, form, overlapped>>
  BY <1>0 DEF Plans!BeginDelete, PlanInv, PlanForms, PlanForm
<1>3. Plans!IsFiniteSet(R) /\ R \subseteq PlanId /\ Plans!IsFiniteSet(Plans!Existing)
  <2>1. R \in SUBSET Plans!Existing /\ Plans!IsFiniteSet(Plans!Existing)
        /\ Plans!Existing \subseteq PlanId
    BY ExistingIs
  <2> HIDE DEF R
  <2> QED BY <2>1, CountOfPart
<1>4. s \in Plans!Listings(R, key)
  BY DEF Plans!Listed
<1>5. /\ s \in Plans!Bijection(1 .. n, R) /\ s \in Seq(R) /\ DOMAIN s = 1 .. n
      /\ \A i, k \in 1 .. n : i < k => key[s[i]] <= key[s[k]]
  <2> HIDE DEF key, R
  <2> QED BY <1>3, <1>4, ListingIs
<1>6. /\ job'[a].kind = "delete" /\ job'[a].plan = p /\ job'[a].list = s
      /\ job'[a].orders = [q \in Plans!Existing |-> plan[q].order]
  <2>1. job'[a] =
          [kind |-> "delete", plan |-> p, user |-> None, list |-> s, fresh |-> TRUE,
           loaded |-> plan[p], orders |-> [q \in Plans!Existing |-> plan[q].order],
           based |-> form[a] # None /\ form[a].based]
    BY <1>1 DEF Plans!Begin, PlanInv, PlanTypes
  <2> QED BY <2>1
<1>7. Plans!Existing' = Plans!Existing
      /\ [q \in Plans!Existing |-> plan[q].order]' = [q \in Plans!Existing |-> plan[q].order]
  BY <1>2 DEF Plans!Existing
<1>8. Rest(a)' = R
  BY <1>6, <1>7 DEF Rest
<1>9. \A i, k \in 1 .. n : i < k => job'[a].orders[s[i]] <= job'[a].orders[s[k]]
  <2>1. s \in [1 .. n -> R]
    BY <1>5 DEF Plans!Bijection, Plans!Injection
  <2>2. \A q \in R : job'[a].orders[q] = key[q]
    BY <1>6
  <2> HIDE DEF key, R, n
  <2> QED BY <1>5, <2>1, <2>2
<1> HIDE DEF key, R
<1>10. Lists(a)'
  BY <1>2, <1>5, <1>6, <1>7, <1>8, <1>9 DEF Lists
<1>11. Commits(a)'
  BY <1>6 DEF Commits
<1>12. s \in Seq(PlanId)
  BY <1>3, <1>5
<1> QED BY <1>1, <1>2, <1>10, <1>11, <1>12, BeginKeeps

\* The database ends a deletion.
LEMMA DeadlockKeeps ==
  ASSUME Plans!ConstantsAssumption, PlanInv, NEW a \in Admin, Plans!Deadlock(a)
  PROVE PlanInv'
BY FailKeeps DEF Plans!Deadlock

\* What is known of a confirmed form.
LEMMA CommitIs ==
  ASSUME Plans!ConstantsAssumption, PlanInv, NEW a \in Admin, job[a] # None, job[a].kind = "commit"
  PROVE /\ job[a] \in Plans!Job /\ job[a].plan \in born /\ job[a].plan \in PlanId
        /\ job[a].loaded \in Plans!PlanDto /\ job[a].fresh \in BOOLEAN
        /\ form[a] # None /\ form[a].id = job[a].plan /\ form[a] \in Plans!Form
        /\ form[a].plan \in Plans!PlanDto /\ Plans!Valid(form[a].plan)
        /\ Plans!Prepared(form[a].plan) \in Plans!PlanDto
<1>1. job[a] \in Plans!Job
  BY DEF PlanInv, PlanTypes
<1>2. job[a].plan \in born /\ Commits(a)
  BY DEF PlanInv, PlanJobs, PlanJob
<1>3. form[a] # None /\ form[a].id = job[a].plan /\ Plans!Valid(form[a].plan)
  BY <1>2 DEF Commits
<1>4. form[a] \in Plans!Form
  BY <1>3 DEF PlanInv, PlanTypes
<1>5. form[a].plan \in Plans!PlanDto
  BY <1>4 DEF Plans!Form
<1>6. job[a].plan \in PlanId /\ job[a].loaded \in Plans!PlanDto /\ job[a].fresh \in BOOLEAN
  BY <1>1 DEF Plans!Job, PlanInv, PlanJobs, PlanJob
<1> QED BY <1>1, <1>2, <1>3, <1>4, <1>5, <1>6, PreparedTypes

\* A row is written; if it is not overlapped, it is sound.
LEMMA WriteKeeps ==
  ASSUME Plans!ConstantsAssumption, PlanInv, NEW a \in Admin, NEW p \in Plans!Existing,
         NEW new \in Plans!PlanDto,
         NEW ordered, Plans!Done(a, {p}, TRUE, ordered), Plans!Closed(a, {p}),
         plan' = [plan EXCEPT ![p] = new], UNCHANGED <<born, panel>>,
         ~ordered => new.order = plan[p].order,
         p \notin overlapped' => Plans!Sound(new)
  PROVE PlanInv'
<1>1. p \in PlanId /\ plan \in [PlanId -> Plans!PlanDto \cup {None}]
      /\ Plans!Existing \subseteq born /\ born \in SUBSET PlanId
  BY DEF Plans!Existing, PlanInv, PlanTypes, PlanBorn
<1>2. plan' \in [PlanId -> Plans!PlanDto \cup {None}]
  BY <1>1
<1>3. JobsAfter(a, {p}, TRUE, ordered) /\ FormsAfter(a, {p})
  <2>1. {p} \in SUBSET PlanId /\ PlanTypes
    BY <1>1 DEF PlanInv
  <2> QED BY <2>1, DoneTypes, ClosedTypes
<1>4. plan'[p] = new /\ \A q \in PlanId : q # p => plan'[q] = plan[q]
  BY <1>1
<1>5. new # None
  BY PlanNoneApart
<1>6. Plans!Existing' = Plans!Existing
  BY <1>1, <1>4, <1>5 DEF Plans!Existing
<1>7. overlapped \subseteq overlapped'
  BY <1>3 DEF JobsAfter
<1>8. \A q \in Plans!Existing' \ overlapped' : Plans!Sound(plan'[q])
  <2>1. TAKE q \in Plans!Existing' \ overlapped'
  <2>2. CASE q = p
    BY <1>4, <2>2
  <2>3. CASE q # p
    <3>1. q \in Plans!Existing \ overlapped /\ plan'[q] = plan[q]
      BY <1>4, <1>6, <1>7, <2>3 DEF Plans!Existing
    <3> QED BY <3>1 DEF PlanInv, Plans!PlansAreSound
  <2> QED BY <2>2, <2>3
<1>9. \A q \in born \ {p} : plan'[q] = plan[q]
  BY <1>1, <1>4
<1>10. \A q \in born \cap Plans!Existing' : q \notin {p} \/ ~TRUE =>
         q \in Plans!Existing /\ \A f \in PlanFields \ {"order"} : plan'[q][f] = plan[q][f]
  BY <1>6, <1>9
<1>11. ~ordered => Plans!Existing' = Plans!Existing /\ \A q \in Plans!Existing :
           plan'[q].order = plan[q].order
  BY <1>1, <1>4, <1>6
<1>12. born \subseteq born' /\ born' \in SUBSET PlanId /\ Plans!Existing' \subseteq born'
       /\ panel' = panel
  BY <1>1, <1>6
<1> QED BY <1>2, <1>3, <1>8, <1>9, <1>10, <1>11, <1>12, PlanCommandKeeps

\* The copy is written over a row that may have changed since.
LEMMA PlanWriteEditKeeps ==
  ASSUME Plans!ConstantsAssumption, PlanInv, NEW a \in Admin, Plans!WriteEdit(a)
  PROVE PlanInv'
<1> DEFINE p == job[a].plan
           made == Plans!Prepared(form[a].plan)
           new == Plans!Updated(p, job[a], made)
<1>1. job[a] # None /\ job[a].kind = "commit" /\ UNCHANGED <<born, panel>>
  BY DEF Plans!WriteEdit
<1>2. /\ job[a] \in Plans!Job /\ p \in PlanId /\ form[a].id = p /\ form[a] # None
      /\ form[a].plan \in Plans!PlanDto /\ Plans!Valid(form[a].plan) /\ made \in Plans!PlanDto
      /\ job[a].loaded \in Plans!PlanDto
  BY <1>1, CommitIs
<1>3. CASE ~(p \in Plans!Existing /\ Plans!NameFree(new.name, Plans!Existing \ {p}))
  <2>1. Plans!Fail(a)
    BY <1>3 DEF Plans!WriteEdit
  <2> QED BY <1>1, <2>1, FailKeeps
<1>4. CASE p \in Plans!Existing /\ Plans!NameFree(new.name, Plans!Existing \ {p})
  <2>1. /\ plan' = [plan EXCEPT ![p] = new]
        /\ Plans!Done(a, {p}, TRUE, new.order # plan[p].order)
        /\ Plans!Closed(a, {p})
    BY <1>4 DEF Plans!WriteEdit
  <2>2. plan[p] \in Plans!PlanDto
    BY <1>4, ExistingIs
  <2>3. new \in Plans!PlanDto
    <3> HIDE DEF made, p
    <3> QED BY <1>2, <2>2, UpdatedTypes
  <2>4. ASSUME p \notin overlapped' PROVE Plans!Sound(new)
    <3>1. job[a].fresh /\ p \notin overlapped
      BY <1>1, <2>1, <2>4 DEF Plans!Done
    <3>2. Plans!Usable(form[a].plan)
      BY <1>2, <3>1 DEF PlanInv, PlanForms, PlanForm
    <3>3. Plans!Sound(made)
      BY <1>2, <3>2, PreparedTypes
    <3>4. \A f \in PlanFields \ {"order"} : job[a].loaded[f] = plan[p][f]
      BY <1>1, <1>4, <3>1 DEF PlanInv, PlanJobs, PlanJob, Read
    <3>5. \A f \in PlanFields \ {"order", "allowed"} : new[f] = made[f]
      <4>1. TAKE f \in PlanFields \ {"order", "allowed"}
      <4>2. new[f] = IF f = "durations"
              THEN IF job[a].fresh THEN made.durations ELSE made.durations \o plan[p].durations
              ELSE IF made[f] # job[a].loaded[f] THEN made[f] ELSE plan[p][f]
        <5> HIDE DEF made, p
        <5> QED BY <1>2, UpdatedField
      <4> HIDE DEF new, made, p
      <4> QED BY <3>1, <3>4, <4>2
    <3> HIDE DEF new, made
    <3> QED BY <1>2, <2>3, <3>3, <3>5, SoundButOrder
  <2> HIDE DEF new, p
  <2> QED BY <1>1, <1>4, <2>1, <2>3, <2>4, WriteKeeps
<1> QED BY <1>3, <1>4

\* Toggling gives a set of identities.
LEMMA ToggledTypes ==
  ASSUME Plans!ConstantsAssumption, NEW S \in SUBSET (Guest \X {"telegram", "email"}),
         NEW u \in Guest
  PROVE Plans!Toggled(S, u) \in SUBSET (Guest \X {"telegram", "email"})
<1>1. Identities[u] \in SUBSET {"telegram", "email"}
  BY DEF Plans!ConstantsAssumption
<1> QED BY <1>1 DEF Plans!Toggled

\* What is known of a toggle.
LEMMA ToggleIs ==
  ASSUME Plans!ConstantsAssumption, PlanInv, NEW a \in Admin, job[a] # None, job[a].kind = "toggle"
  PROVE /\ job[a] \in Plans!Job /\ job[a].plan \in PlanId /\ job[a].plan \in born
        /\ job[a].loaded \in Plans!PlanDto /\ job[a].fresh \in BOOLEAN
        /\ [job[a].loaded EXCEPT !.allowed = Plans!Toggled(@, job[a].user)] \in Plans!PlanDto
        /\ \A f \in PlanFields \ {"allowed"} :
             [job[a].loaded EXCEPT !.allowed = Plans!Toggled(@, job[a].user)][f] = job[a].loaded[f]
<1> DEFINE read == job[a].loaded
<1>1. job[a] \in Plans!Job
  BY DEF PlanInv, PlanTypes
<1>2. job[a].user \in Guest /\ job[a].plan \in born
  BY DEF PlanInv, PlanJobs, PlanJob
<1>3. job[a].plan \in PlanId /\ read \in Plans!PlanDto /\ job[a].fresh \in BOOLEAN
  BY <1>1 DEF Plans!Job, PlanInv, PlanJobs, PlanJob
<1> HIDE DEF read
<1>4. PICK S \in SUBSET (Guest \X {"telegram", "email"}) :
        S = Plans!Toggled(read.allowed, job[a].user)
  <2>1. read.allowed \in SUBSET (Guest \X {"telegram", "email"})
    BY <1>3 DEF Plans!PlanDto
  <2> QED BY <1>2, <2>1, ToggledTypes
<1>5. [read EXCEPT !.allowed = Plans!Toggled(@, job[a].user)] = [read EXCEPT !.allowed = S]
  BY <1>3, <1>4 DEF Plans!PlanDto
<1>6. PlanSets([read EXCEPT !.allowed = S], read, {"allowed"})
  BY <1>3, SetAllowed
<1> QED BY <1>1, <1>2, <1>3, <1>5, <1>6 DEF PlanSets, read

\* The access is written.
LEMMA WriteToggleKeeps ==
  ASSUME Plans!ConstantsAssumption, PlanInv, NEW a \in Admin, Plans!WriteToggle(a)
  PROVE PlanInv'
<1> DEFINE p == job[a].plan
           made == [job[a].loaded EXCEPT !.allowed = Plans!Toggled(@, job[a].user)]
           new == Plans!Updated(p, job[a], made)
<1>1. job[a] # None /\ job[a].kind = "toggle" /\ UNCHANGED <<born, panel>>
  BY DEF Plans!WriteToggle
<1>2. /\ job[a] \in Plans!Job /\ p \in PlanId /\ made \in Plans!PlanDto
      /\ job[a].loaded \in Plans!PlanDto
      /\ \A f \in PlanFields \ {"allowed"} : made[f] = job[a].loaded[f]
  BY <1>1, ToggleIs
<1>3. CASE p \notin Plans!Existing
  <2>1. Plans!Fail(a)
    BY <1>3 DEF Plans!WriteToggle
  <2> QED BY <1>1, <2>1, FailKeeps
<1>4. CASE p \in Plans!Existing
  <2>1. plan' = [plan EXCEPT ![p] = new] /\ Plans!Done(a, {p}, TRUE, FALSE) /\ Plans!Closed(a, {p})
    BY <1>4 DEF Plans!WriteToggle
  <2>2. plan[p] \in Plans!PlanDto
    BY <1>4, ExistingIs
  <2>3. new \in Plans!PlanDto
    <3> HIDE DEF made, p
    <3> QED BY <1>2, <2>2, UpdatedTypes
  <2>4. \A f \in PlanFields : new[f] = IF f = "durations"
          THEN IF job[a].fresh THEN made.durations ELSE made.durations \o plan[p].durations
          ELSE IF made[f] # job[a].loaded[f] THEN made[f] ELSE plan[p][f]
    <3> HIDE DEF made, p
    <3> QED BY <1>2, UpdatedField
  <2> HIDE DEF new, made
  <2>5. new.order = plan[p].order
    <3>1. new["order"] = plan[p]["order"]
      BY <1>2, <2>4 DEF PlanFields
    <3> QED BY <3>1
  <2>6. ASSUME p \notin overlapped' PROVE Plans!Sound(new)
    <3>1. job[a].fresh /\ p \notin overlapped
      BY <1>1, <2>1, <2>6 DEF Plans!Done
    <3>2. \A f \in PlanFields \ {"order"} : job[a].loaded[f] = plan[p][f]
      BY <1>1, <1>4, <3>1 DEF PlanInv, PlanJobs, PlanJob, Read
    <3>3. Plans!Sound(plan[p])
      BY <1>4, <3>1 DEF PlanInv, Plans!PlansAreSound
    <3>4. \A f \in PlanFields \ {"order", "allowed"} : new[f] = plan[p][f]
      <4>1. made.durations = plan[p].durations
        <5>1. made["durations"] = plan[p]["durations"]
          BY <1>2, <3>2 DEF PlanFields
        <5> QED BY <5>1
      <4>2. TAKE f \in PlanFields \ {"order", "allowed"}
      <4> QED BY <1>2, <2>4, <3>1, <3>2, <4>1
    <3> HIDE DEF p
    <3> QED BY <2>2, <2>3, <3>3, <3>4, SoundButOrder
  <2> HIDE DEF p
  <2> QED BY <1>1, <1>4, <2>1, <2>3, <2>5, <2>6, WriteKeeps
<1> QED BY <1>3, <1>4

\* Rows are added, all of them sound.
LEMMA AddKeeps ==
  ASSUME Plans!ConstantsAssumption, PlanInv, NEW a \in Admin, NEW S \in SUBSET (PlanId \ born),
         Plans!Done(a, S, FALSE, TRUE), FormsAfter(a, S), born' = born \cup S, panel' = panel,
         NEW new \in [PlanId -> Plans!PlanDto \cup {None}], plan' = new,
         \A p \in S : new[p] \in Plans!PlanDto /\ Plans!Sound(new[p]),
         \A p \in PlanId \ S : new[p] = plan[p]
  PROVE PlanInv'
<1>1. S \in SUBSET PlanId /\ born \in SUBSET PlanId /\ Plans!Existing \subseteq born /\ PlanTypes
  BY DEF PlanInv, PlanTypes, PlanBorn
<1>2. JobsAfter(a, S, FALSE, TRUE)
  BY <1>1, DoneTypes
<1>3. Plans!Existing' = Plans!Existing \cup S
  BY PlanNoneApart DEF Plans!Existing
<1>4. born \subseteq born' /\ born' \in SUBSET PlanId /\ Plans!Existing' \subseteq born'
  BY <1>1, <1>3
<1>5. \A p \in born \ S : plan'[p] = plan[p]
  BY <1>1
<1>6. \A p \in born \cap Plans!Existing' : p \notin S \/ ~FALSE =>
        p \in Plans!Existing /\ \A f \in PlanFields \ {"order"} : plan'[p][f] = plan[p][f]
  BY <1>1, <1>3, <1>5
<1>7. \A p \in Plans!Existing' \ overlapped' : Plans!Sound(plan'[p])
  <2>1. TAKE p \in Plans!Existing' \ overlapped'
  <2>2. CASE p \in S
    BY <2>2
  <2>3. CASE p \notin S
    <3>1. p \in Plans!Existing \ overlapped /\ plan'[p] = plan[p]
      BY <1>2, <1>3, <2>3 DEF Plans!Existing, JobsAfter
    <3> QED BY <3>1 DEF PlanInv, Plans!PlansAreSound
  <2> QED BY <2>2, <2>3
<1>8. plan' \in [PlanId -> Plans!PlanDto \cup {None}]
  OBVIOUS
<1> QED BY <1>2, <1>4, <1>5, <1>6, <1>7, <1>8, PlanCommandKeeps

\* A new plan is stored.
LEMMA PlanConfirmNewKeeps ==
  ASSUME Plans!ConstantsAssumption, PlanInv, NEW a \in Admin, NEW p \in PlanId,
         Plans!ConfirmNew(a, p)
  PROVE PlanInv'
<1> DEFINE made == Plans!Prepared(form[a].plan)
           new == [plan EXCEPT ![p] = made]
<1>1. /\ form[a] # None /\ form[a].id = None /\ Plans!Valid(form[a].plan) /\ p \notin born
      /\ plan' = new /\ Plans!Done(a, {p}, FALSE, TRUE) /\ Plans!Closed(a, {p})
      /\ born' = born \cup {p}
      /\ panel' = panel
  BY DEF Plans!ConfirmNew
<1>2. form[a] \in Plans!Form /\ PlanForm(a) /\ PlanTypes
  BY <1>1 DEF PlanInv, PlanTypes, PlanForms
<1>3. form[a].plan \in Plans!PlanDto
  BY <1>2 DEF Plans!Form
<1>4. Plans!Usable(form[a].plan)
  <2>1. None \notin overlapped
    BY <1>2, PlanNoneApart DEF PlanTypes
  <2> QED BY <1>1, <1>2, <2>1 DEF PlanForm
<1>5. made \in Plans!PlanDto /\ Plans!Sound(made)
  BY <1>1, <1>3, <1>4, PreparedTypes
<1> HIDE DEF made
<1>6. plan \in [PlanId -> Plans!PlanDto \cup {None}]
  BY <1>2 DEF PlanTypes
<1>7. /\ new \in [PlanId -> Plans!PlanDto \cup {None}] /\ new[p] = made
      /\ \A q \in PlanId \ {p} : new[q] = plan[q]
  BY <1>5, <1>6
<1> HIDE DEF new
<1>8. FormsAfter(a, {p})
  BY <1>1, <1>2, ClosedTypes
<1>9. {p} \in SUBSET (PlanId \ born)
  BY <1>1
<1>10. \A q \in {p} : new[q] \in Plans!PlanDto /\ Plans!Sound(new[q])
  BY <1>5, <1>7
<1> QED BY <1>1, <1>7, <1>8, <1>9, <1>10, AddKeeps

\* All plans of a file are stored.
LEMMA ImportBatchKeeps ==
  ASSUME Plans!ConstantsAssumption, PlanInv, NEW a \in Admin, NEW file \in Files,
         NEW ids \in [DOMAIN file -> PlanId], Plans!ImportBatch(a, file, ids)
  PROVE PlanInv'
<1> DEFINE S == Plans!Range(ids)
           at(p) == CHOOSE i \in DOMAIN file : ids[i] = p
           new == [p \in PlanId |->
                     IF \E i \in DOMAIN file :
                         ids[i] = p THEN Plans!Prepared(file[at(p)]) ELSE plan[p]]
<1>1. /\ form[a] = None /\ ids \in Plans!Injection(DOMAIN file, PlanId \ born)
      /\ \A i \in DOMAIN file : Plans!Valid(file[i])
      /\ plan' = new /\ Plans!Done(a, S, FALSE, TRUE) /\ form' = form /\ born' = born \cup S
      /\ panel' = panel
  BY DEF Plans!ImportBatch
<1>2. file \in Seq(Plans!PlanDto) /\ \A i \in DOMAIN file : Plans!Usable(file[i])
  BY DEF Plans!ConstantsAssumption
<1>3. \A i \in DOMAIN file : file[i] \in Plans!PlanDto
  BY <1>2
<1>4. \A i \in DOMAIN file :
          Plans!Prepared(file[i]) \in Plans!PlanDto /\ Plans!Sound(Plans!Prepared(file[i]))
  BY <1>1, <1>2, <1>3, PreparedTypes
<1>5. ids \in [DOMAIN file -> PlanId \ born] /\ S \in SUBSET (PlanId \ born)
  BY <1>1 DEF Plans!Injection, Plans!Range
<1>6. \A p \in PlanId : p \in S <=> \E i \in DOMAIN file : ids[i] = p
  BY <1>5 DEF Plans!Range
<1>7. \A p \in S : at(p) \in DOMAIN file
  BY <1>5 DEF Plans!Range
<1> HIDE DEF at
<1>8. \A p \in S : new[p] = Plans!Prepared(file[at(p)])
  BY <1>5, <1>6
<1>9. \A p \in PlanId \ S : new[p] = plan[p]
  BY <1>6
<1>10. plan \in [PlanId -> Plans!PlanDto \cup {None}] /\ PlanTypes
  BY DEF PlanInv, PlanTypes
<1> HIDE DEF S
<1>11. new \in [PlanId -> Plans!PlanDto \cup {None}]
  BY <1>4, <1>6, <1>7, <1>10
<1> HIDE DEF new
<1>12. \A p \in S : new[p] \in Plans!PlanDto /\ Plans!Sound(new[p])
  BY <1>4, <1>7, <1>8
<1>13. FormsAfter(a, S)
  <2>1. ASSUME NEW x \in Admin, form[x] # None PROVE form[x].id \notin S
    <3>1. form[x].id # None => form[x].id \in born
      BY <2>1 DEF PlanInv, PlanForms, PlanForm
    <3> QED BY <1>5, <3>1, PlanNoneApart
  <2> QED BY <1>1, <1>10, <2>1 DEF FormsAfter, PlanTypes
<1> QED BY <1>1, <1>5, <1>9, <1>11, <1>12, <1>13, AddKeeps

\* The places a list gives.
LEMMA NumberedIs ==
  ASSUME Plans!ConstantsAssumption, PlanInv, NEW j \in Plans!Job
  PROVE /\ Plans!Numbered(j) \in [PlanId -> Plans!PlanDto \cup {None}]
        /\ \A p \in PlanId : Plans!Numbered(j)[p] = None <=> plan[p] = None
        /\ \A p \in Plans!Existing : \A f \in PlanFields \ {"order"} :
               Plans!Numbered(j)[p][f] = plan[p][f]
<1> DEFINE held(p) == \E i \in DOMAIN j.list : <<p, i>> \in Plans!Places(j)
           at(p) == CHOOSE i \in DOMAIN j.list : <<p, i>> \in Plans!Places(j)
<1>1. DOMAIN j.list \subseteq Nat
  <2>1. j.list \in Seq(PlanId)
    BY DEF Plans!Job
  <2> QED BY <2>1
<1>2. \A p \in PlanId : held(p) => at(p) \in Nat
  BY <1>1
<1> HIDE DEF at
<1>3. \A p \in Plans!Existing : plan[p] \in Plans!PlanDto /\ p \in PlanId
  BY ExistingIs
<1>4. \A p \in PlanId : plan[p] # None <=> p \in Plans!Existing
  BY DEF Plans!Existing
<1>5. Plans!Numbered(j) = [p \in PlanId |-> IF plan[p] # None /\ held(p)
                                    THEN [plan[p] EXCEPT !.order = at(p)] ELSE plan[p]]
  BY DEF Plans!Numbered, at
<1> HIDE DEF held
<1>6. ASSUME NEW p \in Plans!Existing, NEW n \in Nat
      PROVE /\ [plan[p] EXCEPT !.order = n] \in Plans!PlanDto
            /\ \A f \in PlanFields \ {"order"} : [plan[p] EXCEPT !.order = n][f] = plan[p][f]
  <2>1. plan[p] \in Plans!PlanDto
    BY <1>3
  <2> QED BY <2>1 DEF Plans!PlanDto, PlanFields
<1>7. ASSUME NEW p \in PlanId
      PROVE /\ Plans!Numbered(j)[p] \in Plans!PlanDto \cup {None}
            /\ Plans!Numbered(j)[p] = None <=> plan[p] = None
            /\ p \in Plans!Existing => \A f \in PlanFields \ {"order"} :
                   Plans!Numbered(j)[p][f] = plan[p][f]
  <2>1. CASE plan[p] = None
    BY <1>4, <1>5, <2>1
  <2>2. CASE plan[p] # None /\ ~held(p)
    BY <1>3, <1>4, <1>5, <2>2
  <2>3. CASE plan[p] # None /\ held(p)
    <3>1. p \in Plans!Existing /\ at(p) \in Nat
      BY <1>2, <1>4, <2>3
    <3>2. Plans!Numbered(j)[p] = [plan[p] EXCEPT !.order = at(p)]
      BY <1>5, <2>3
    <3>3. Plans!Numbered(j)[p] \in Plans!PlanDto
      BY <1>6, <3>1, <3>2
    <3> QED BY <1>6, <2>3, <3>1, <3>2, <3>3, PlanNoneApart
  <2> QED BY <2>1, <2>2, <2>3
<1>8. Plans!Numbered(j) \in [PlanId -> Plans!PlanDto \cup {None}]
  BY <1>5, <1>7
<1> QED BY <1>3, <1>7, <1>8

\* Plans are numbered, and one may be deleted.
LEMMA WriteOrderKeeps ==
  ASSUME Plans!ConstantsAssumption, PlanInv, NEW a \in Admin, Plans!WriteOrder(a)
  PROVE PlanInv'
<1> DEFINE j == job[a]
           p == job[a].plan
           made == Plans!Numbered(j)
           new == IF j.kind = "delete" THEN [made EXCEPT ![p] = None] ELSE made
<1>1. /\ j # None /\ plan' = new /\ Plans!Done(a, {p}, FALSE, TRUE) /\ Plans!Closed(a, PlanId)
      /\ born' = born /\ panel' = panel
  BY DEF Plans!WriteOrder
<1>2. j \in Plans!Job /\ PlanTypes /\ born \in SUBSET PlanId /\ Plans!Existing \subseteq born
  BY <1>1 DEF PlanInv, PlanTypes, PlanBorn
<1>3. p \in PlanId
  BY <1>2 DEF Plans!Job
<1>4. JobsAfter(a, {p}, FALSE, TRUE) /\ FormsAfter(a, PlanId)
  BY <1>1, <1>2, <1>3, DoneTypes, ClosedTypes
<1>5. /\ made \in [PlanId -> Plans!PlanDto \cup {None}]
      /\ \A q \in PlanId : made[q] = None <=> plan[q] = None
      /\ \A q \in Plans!Existing : \A f \in PlanFields \ {"order"} : made[q][f] = plan[q][f]
  BY <1>2, NumberedIs
<1> HIDE DEF made
<1>6. /\ new \in [PlanId -> Plans!PlanDto \cup {None}]
      /\ \A q \in PlanId : new[q] # None => new[q] = made[q]
  BY <1>5
<1> HIDE DEF new
<1>7. plan' \in [PlanId -> Plans!PlanDto \cup {None}]
  BY <1>1, <1>6
<1>8. ASSUME NEW q \in Plans!Existing'
      PROVE /\ q \in Plans!Existing /\ plan'[q] \in Plans!PlanDto
            /\ \A f \in PlanFields \ {"order"} : plan'[q][f] = plan[q][f]
  <2>1. q \in PlanId /\ new[q] # None
    BY <1>1, <1>8 DEF Plans!Existing
  <2>2. new[q] = made[q]
    BY <1>6, <2>1
  <2>3. q \in Plans!Existing
    BY <1>5, <2>1, <2>2 DEF Plans!Existing
  <2> QED BY <1>1, <1>5, <1>6, <2>1, <2>2, <2>3
<1>9. \A q \in Plans!Existing' \ overlapped' : Plans!Sound(plan'[q])
  <2>1. TAKE q \in Plans!Existing' \ overlapped'
  <2>2. /\ q \in Plans!Existing /\ plan'[q] \in Plans!PlanDto
        /\ \A f \in PlanFields \ {"order", "allowed"} : plan'[q][f] = plan[q][f]
    BY <1>8
  <2>3. plan[q] \in Plans!PlanDto /\ Plans!Sound(plan[q])
    BY <1>4, <2>2, ExistingIs DEF PlanInv, Plans!PlansAreSound, JobsAfter
  <2> QED BY <2>2, <2>3, SoundButOrder
<1>10. \A q \in born \ PlanId : plan'[q] = plan[q]
  BY <1>2
<1>11. \A q \in born \cap Plans!Existing' : q \notin {p} \/ ~FALSE =>
         q \in Plans!Existing /\ \A f \in PlanFields \ {"order"} : plan'[q][f] = plan[q][f]
  BY <1>8
<1>12. born \subseteq born' /\ born' \in SUBSET PlanId /\ Plans!Existing' \subseteq born'
       /\ panel' = panel
  BY <1>1, <1>2, <1>8
<1> QED BY <1>4, <1>7, <1>9, <1>10, <1>11, <1>12, PlanCommandKeeps

\* Every step keeps the invariant, ...
LEMMA PlanNextKeeps ==
  ASSUME Plans!ConstantsAssumption, PlanInv, Plans!Next
  PROVE PlanInv'
<1>1. ASSUME NEW a \in Admin, Plans!Create(a) \/ Plans!Leave(a) PROVE PlanInv'
  BY <1>1, PlanCreateKeeps, PlanLeaveKeeps
<1>2. ASSUME NEW a \in Admin, NEW p \in PlanId, Plans!Select(a, p) PROVE PlanInv'
  BY <1>2, PlanSelectKeeps
<1>3. ASSUME NEW a \in Admin, NEW file \in Files, Plans!ImportOne(a, file) PROVE PlanInv'
  BY <1>3, ImportOneKeeps
<1>4. ASSUME NEW a \in Admin, Plans!Command(a) PROVE PlanInv'
  <2>1. CASE Plans!ConfirmEdit(a) \/ Plans!WriteEdit(a)
    BY <2>1, PlanConfirmEditKeeps, PlanWriteEditKeeps
  <2>2. CASE \E file \in Files : \E ids \in [DOMAIN file -> PlanId] :
            Plans!ImportBatch(a, file, ids)
    BY <2>2, ImportBatchKeeps
  <2>3. ASSUME NEW p \in PlanId, Plans!ConfirmNew(a, p) \/ Plans!BeginMove(a, p) PROVE PlanInv'
    BY <2>3, PlanConfirmNewKeeps, BeginMoveKeeps
  <2>4. ASSUME NEW p \in PlanId, NEW u \in Guest, Plans!BeginToggle(a, p, u) PROVE PlanInv'
    BY <2>4, BeginToggleKeeps
  <2>5. CASE Plans!WriteToggle(a) \/ Plans!BeginDelete(a)
    BY <2>5, WriteToggleKeeps, BeginDeleteKeeps
  <2>6. CASE Plans!WriteOrder(a) \/ Plans!Deadlock(a)
    BY <2>6, WriteOrderKeeps, DeadlockKeeps
  <2> QED BY <1>4, <2>1, <2>2, <2>3, <2>4, <2>5, <2>6 DEF Plans!Command
<1>5. ASSUME NEW a \in Plans!Editing, Plans!Edit(a) PROVE PlanInv'
  BY <1>5, PlanHandlersKeep
<1>6. ASSUME NEW s \in Squad, Plans!SquadRemoved(s) PROVE PlanInv'
  BY <1>6, SquadKeeps
<1> QED BY <1>1, <1>2, <1>3, <1>4, <1>5, <1>6 DEF Plans!Next

\* ... so does none, ...
LEMMA PlanStutterKeeps ==
  ASSUME PlanInv, UNCHANGED Plans!vars
  PROVE PlanInv'
<1>1. UNCHANGED <<plan, born, panel, form, job, overlapped>>
  BY DEF Plans!vars
<1>2. PlanTypes' /\ PlanBorn' /\ Plans!PlansAreSound'
  BY <1>1 DEF PlanInv, PlanTypes, PlanBorn, Plans!PlansAreSound, Plans!Existing
<1>3. ASSUME NEW x \in Admin PROVE PlanForm(x)' /\ PlanJob(x)'
  BY <1>1, PlanUntouched DEF PlanInv, PlanForms, PlanJobs
<1> QED BY <1>2, <1>3 DEF PlanInv, PlanForms, PlanJobs

\* ... and it always holds.
LEMMA PlansAlways ==
  ASSUME Plans!ConstantsAssumption
  PROVE Plans!Spec => []PlanInv
<1>1. Plans!Init => PlanInv
  BY InitPlans
<1>2. PlanInv /\ [Plans!Next]_(Plans!vars) => PlanInv'
  BY PlanNextKeeps, PlanStutterKeeps
<1> QED BY <1>1, <1>2, PTL DEF Plans!Spec

\* Nobody but x ends a command.
Spares(x) == \A y \in Admin \ {x} : job[y] # None => job'[y] # None

\* A command that ends spares the others, ...
LEMMA DoneSpares ==
  ASSUME Plans!ConstantsAssumption, PlanInv, NEW x \in Admin, NEW S \in SUBSET PlanId, NEW content,
         NEW ordered, Plans!Done(x, S, content, ordered)
  PROVE Spares(x)
<1>1. JobsAfter(x, S, content, ordered)
  BY DoneTypes DEF PlanInv
<1> QED BY <1>1 DEF JobsAfter, Spares

\* ... so does one that fails, ...
LEMMA FailSpares ==
  ASSUME Plans!ConstantsAssumption, PlanInv, NEW x \in Admin, Plans!Fail(x)
  PROVE Spares(x)
BY DEF Spares, Plans!Fail, PlanInv, PlanTypes

\* What a step leaves of the commands under way.
LEMMA ReadingGoesOn ==
  ASSUME Plans!ConstantsAssumption, PlanInv, NEW x \in Admin,
         \/ Plans!ConfirmEdit(x) \/ Plans!BeginDelete(x)
         \/ \E p \in PlanId : Plans!BeginMove(x, p) \/ \E u \in Guest : Plans!BeginToggle(x, p, u)
  PROVE job[x] = None /\ Spares(x)
<1>1. job[x] = None
  BY DEF Plans!ConfirmEdit, Plans!BeginDelete, Plans!BeginMove, Plans!BeginToggle, Plans!Free
<1>2. \E kind, p, u, list : Plans!Begin(x, kind, p, u, list)
  BY DEF Plans!ConfirmEdit, Plans!BeginDelete, Plans!BeginMove, Plans!BeginToggle
<1>3. Spares(x)
  BY <1>2 DEF Plans!Begin, Spares, PlanInv, PlanTypes
<1> QED BY <1>1, <1>3

\* Storing new plans ends no other's command, ...
LEMMA AddingGoesOn ==
  ASSUME Plans!ConstantsAssumption, PlanInv, NEW x \in Admin,
         \/ \E p \in PlanId : Plans!ConfirmNew(x, p)
         \/ \E file \in Files : \E ids \in [DOMAIN file -> PlanId] : Plans!ImportBatch(x, file, ids)
  PROVE job[x] = None /\ Spares(x)
<1>1. job[x] = None
  BY DEF Plans!ConfirmNew, Plans!ImportBatch, Plans!Free
<1>2. \E S \in SUBSET PlanId : Plans!Done(x, S, FALSE, TRUE)
  <2>1. ASSUME NEW p \in PlanId, Plans!ConfirmNew(x, p)
        PROVE  \E S \in SUBSET PlanId : Plans!Done(x, S, FALSE, TRUE)
    BY <2>1 DEF Plans!ConfirmNew
  <2>2. ASSUME NEW file \in Files, NEW ids \in [DOMAIN file -> PlanId],
               Plans!ImportBatch(x, file, ids)
        PROVE \E S \in SUBSET PlanId : Plans!Done(x, S, FALSE, TRUE)
    <3>1. Plans!Done(x, Plans!Range(ids), FALSE, TRUE)
      BY <2>2 DEF Plans!ImportBatch
    <3>2. Plans!Range(ids) \in SUBSET PlanId
      BY DEF Plans!Range
    <3> QED BY <3>1, <3>2
  <2> QED BY <2>1, <2>2
<1> QED BY <1>1, <1>2, DoneSpares

\* ... nor does writing.
LEMMA WritingGoesOn ==
  ASSUME Plans!ConstantsAssumption, PlanInv, NEW x \in Admin,
         Plans!WriteEdit(x) \/ Plans!WriteToggle(x) \/ Plans!WriteOrder(x) \/ Plans!Deadlock(x)
  PROVE Spares(x)
<1>1. job[x] # None
  BY DEF Plans!WriteEdit, Plans!WriteToggle, Plans!WriteOrder, Plans!Deadlock
<1>2. job[x].plan \in PlanId
  BY <1>1 DEF PlanInv, PlanTypes, Plans!Job
<1>3. Plans!Fail(x) \/ \E S \in SUBSET PlanId : \E content, ordered :
          Plans!Done(x, S, content, ordered)
  <2>1. {job[x].plan} \in SUBSET PlanId
    BY <1>2
  <2> QED BY <2>1 DEF Plans!WriteEdit, Plans!WriteToggle, Plans!WriteOrder, Plans!Deadlock
<1> QED BY <1>3, DoneSpares, FailSpares

\* A command ends in one of four ways.
LEMMA EndsBy ==
  ASSUME Plans!ConstantsAssumption, PlanInv, Plans!Next, NEW a \in Admin, job[a] # None,
         job'[a] = None
  PROVE Plans!WriteEdit(a) \/ Plans!WriteToggle(a) \/ Plans!WriteOrder(a) \/ Plans!Deadlock(a)
<1>1. ASSUME NEW x \in Admin,
             \/ Plans!Create(x) \/ Plans!Leave(x)
             \/ \E p \in PlanId : Plans!Select(x, p)
             \/ \E file \in Files : Plans!ImportOne(x, file)
      PROVE job' = job
  BY <1>1 DEF Plans!Create, Plans!Leave, Plans!Select, Plans!ImportOne
<1>2. ASSUME NEW x \in Plans!Editing, Plans!Edit(x) PROVE job' = job
  <2>1. \E kind, fields, copy : Plans!Change(x, kind, fields, copy)
    <3>1. CASE \/ \E name \in Name : Plans!NameInput(x, name)
               \/ Plans!DescriptionInput(x) \/ Plans!DescriptionRemove(x)
               \/ Plans!TagInput(x) \/ Plans!TagRemove(x)
               \/ \E v \in {0, 1} : Plans!StrategySelect(x, v)
               \/ Plans!ActiveToggle(x) \/ Plans!TrialToggle(x)
      BY <3>1 DEF Plans!NameInput, Plans!DescriptionInput, Plans!DescriptionRemove,
         Plans!TagInput, Plans!TagRemove, Plans!StrategySelect, Plans!ActiveToggle,
         Plans!TrialToggle, Plans!SetPlain
    <3>2. CASE \/ \E availability \in {"ALL", "ALLOWED"} : Plans!AvailabilitySelect(x, availability)
               \/ \E type \in Plans!Type : Plans!TypeSelect(x, type)
               \/ \E limit \in {2, 200} :
                   Plans!TrafficInput(x, limit) \/ Plans!DevicesInput(x, limit)
      BY <3>2 DEF Plans!AvailabilitySelect, Plans!TypeSelect, Plans!TrafficInput,
         Plans!DevicesInput
    <3>3. CASE \E days \in Days : \/ Plans!DurationInput(x, days) \/ Plans!DurationRemove(x, days)
                                  \/ Plans!DurationMove(x, days) \/ Plans!PriceInput(x, days, 2)
      BY <3>3 DEF Plans!DurationInput, Plans!DurationRemove, Plans!DurationMove, Plans!PriceInput,
         Plans!SetDurations
    <3>4. CASE \/ \E id \in Plans!Identity :
                    Plans!AllowedUserInput(x, id) \/ Plans!AllowedUserRemove(x, id)
               \/ Plans!OpenSquads(x)
               \/ \E s \in Squad :
                   Plans!InternalSquadSelect(x, s) \/ Plans!ExternalSquadSelect(x, s)
      BY <3>4 DEF Plans!AllowedUserInput, Plans!AllowedUserRemove, Plans!OpenSquads,
         Plans!InternalSquadSelect, Plans!ExternalSquadSelect
    <3> QED BY <1>2, <3>1, <3>2, <3>3, <3>4 DEF Plans!Edit
  <2> QED BY <2>1 DEF Plans!Change
<1>3. \A s \in Squad : Plans!SquadRemoved(s) => job' = job
  BY DEF Plans!SquadRemoved
<1>4. PICK x \in Admin : Plans!Command(x)
  BY <1>1, <1>2, <1>3 DEF Plans!Next
<1>5. CASE \/ Plans!ConfirmEdit(x) \/ Plans!BeginDelete(x)
           \/ \E p \in PlanId : Plans!BeginMove(x, p) \/ \E u \in Guest : Plans!BeginToggle(x, p, u)
  BY <1>5, ReadingGoesOn DEF Spares
<1>6. CASE \/ \E p \in PlanId : Plans!ConfirmNew(x, p)
           \/ \E file \in Files : \E ids \in [DOMAIN file -> PlanId] :
               Plans!ImportBatch(x, file, ids)
  BY <1>6, AddingGoesOn DEF Spares
<1>7. CASE Plans!WriteEdit(x) \/ Plans!WriteToggle(x) \/ Plans!WriteOrder(x) \/ Plans!Deadlock(x)
  BY <1>7, WritingGoesOn DEF Spares
<1> QED BY <1>4, <1>5, <1>6, <1>7 DEF Plans!Command

\* A plan has these fields.
LEMMA FieldsAre ==
  ASSUME NEW copy \in Plans!PlanDto
  PROVE DOMAIN copy = PlanFields
BY DEF Plans!PlanDto, PlanFields

\* No field of a row that stays has changed.
LEMMA NothingChanged ==
  ASSUME NEW p, plan'[p] = plan[p]
  PROVE Plans!Changed(p) = {}
BY DEF Plans!Changed, Plans!Alike

\* What a command of a may change of p.
Inside(a, p) ==
  \/ Plans!Changed(p) = {}
  \/ job[a].kind \in {"move", "delete"} /\ Plans!Changed(p) = {"order"}
  \/ /\ job[a].plan = p
     /\ Plans!Changed(p) \subseteq
          (IF job[a].fresh THEN {} ELSE {"durations"}) \cup
          (IF job[a].kind = "toggle" THEN {"allowed"}
           ELSE IF job[a].based
           THEN form[a].touched \cup Plans!PutRight(form[a].plan)
           ELSE DOMAIN plan[p])

\* A confirmed form changes what its administrator set and what was put right, ...
LEMMA EditInside ==
  ASSUME Plans!ConstantsAssumption, PlanInv, NEW a \in Admin, Plans!WriteEdit(a),
         NEW p \in Plans!Existing
  PROVE Inside(a, p)
<1> DEFINE q == job[a].plan
           made == Plans!Prepared(form[a].plan)
           new == Plans!Updated(q, job[a], made)
<1>1. job[a] # None /\ job[a].kind = "commit"
  BY DEF Plans!WriteEdit
<1>2. /\ job[a] \in Plans!Job /\ q \in PlanId /\ form[a] # None
      /\ form[a].plan \in Plans!PlanDto /\ made \in Plans!PlanDto
  BY <1>1, CommitIs
<1>3. plan[p] \in Plans!PlanDto /\ p \in PlanId /\ plan \in [PlanId -> Plans!PlanDto \cup {None}]
  BY ExistingIs DEF PlanInv, PlanTypes
<1>4. CASE plan'[p] = plan[p]
  BY <1>4, NothingChanged DEF Inside
<1>5. CASE plan'[p] # plan[p]
  <2>1. q = p /\ plan'[p] = new
    <3>1. plan' = plan \/ plan' = [plan EXCEPT ![q] = new]
      BY DEF Plans!WriteEdit, Plans!Fail
    <3> HIDE DEF new
    <3> QED BY <1>2, <1>3, <1>5, <3>1
  <2>2. /\ Commits(a) /\ Read(a)
    BY <1>1 DEF PlanInv, PlanJobs, PlanJob
  <2>3. ASSUME NEW f \in Plans!Changed(p), job[a].based,
               f \notin form[a].touched, f \notin Plans!PutRight(form[a].plan)
        PROVE f = "durations" /\ ~job[a].fresh
    <3>1. f \in PlanFields /\ ~Plans!Alike(f, plan[p], plan'[p])
      BY <1>3, <2>3, FieldsAre DEF Plans!Changed
    <3>2. Plans!Alike(f, form[a].plan, job[a].loaded)
      BY <1>1, <2>2, <2>3, <3>1 DEF Commits, Copies
    <3>3. made[f] = form[a].plan[f]
      BY <1>2, <2>3, <3>1, FieldsAre DEF Plans!PutRight
    <3>4. new[f] = IF f = "durations"
            THEN IF job[a].fresh THEN made.durations ELSE made.durations \o plan[p].durations
            ELSE IF made[f] # job[a].loaded[f] THEN made[f] ELSE plan[p][f]
      <4> HIDE DEF made
      <4> QED BY <1>2, <2>1, <3>1, UpdatedField
    <3> HIDE DEF new, made
    <3>5. CASE f # "durations"
      BY <2>1, <3>1, <3>2, <3>3, <3>4, <3>5 DEF Plans!Alike
    <3>6. CASE f = "durations" /\ job[a].fresh
      <4>1. job[a].loaded["durations"] = plan[p]["durations"]
        BY <1>1, <2>1, <2>2, <3>6 DEF Read, PlanFields
      <4>2. new[f] = form[a].plan[f] /\ job[a].loaded[f] = plan[p][f]
        BY <3>3, <3>4, <3>6, <4>1
      <4> QED BY <2>1, <3>1, <3>2, <3>6, <4>2 DEF Plans!Alike
    <3> QED BY <3>5, <3>6
  <2>4. Plans!Changed(p) \subseteq DOMAIN plan[p]
    BY DEF Plans!Changed
  <2> HIDE DEF new, made
  <2> QED BY <1>1, <2>1, <2>3, <2>4 DEF Inside
<1> QED BY <1>4, <1>5

\* ... a toggle the allowed users, ...
LEMMA ToggleInside ==
  ASSUME Plans!ConstantsAssumption, PlanInv, NEW a \in Admin, Plans!WriteToggle(a),
         NEW p \in Plans!Existing
  PROVE Inside(a, p)
<1> DEFINE q == job[a].plan
           made == [job[a].loaded EXCEPT !.allowed = Plans!Toggled(@, job[a].user)]
           new == Plans!Updated(q, job[a], made)
<1>1. job[a] # None /\ job[a].kind = "toggle"
  BY DEF Plans!WriteToggle
<1>2. /\ job[a] \in Plans!Job /\ q \in PlanId /\ made \in Plans!PlanDto
      /\ \A f \in PlanFields \ {"allowed"} : made[f] = job[a].loaded[f]
  BY <1>1, ToggleIs
<1>3. plan[p] \in Plans!PlanDto /\ p \in PlanId /\ plan \in [PlanId -> Plans!PlanDto \cup {None}]
  BY ExistingIs DEF PlanInv, PlanTypes
<1>4. CASE plan'[p] = plan[p]
  BY <1>4, NothingChanged DEF Inside
<1>5. CASE plan'[p] # plan[p]
  <2>1. q = p /\ plan'[p] = new
    <3>1. plan' = plan \/ plan' = [plan EXCEPT ![q] = new]
      BY DEF Plans!WriteToggle, Plans!Fail
    <3> HIDE DEF new
    <3> QED BY <1>2, <1>3, <1>5, <3>1
  <2>2. Read(a)
    BY <1>1 DEF PlanInv, PlanJobs, PlanJob
  <2>3. ASSUME NEW f \in Plans!Changed(p), f # "allowed" PROVE f = "durations" /\ ~job[a].fresh
    <3>1. f \in PlanFields /\ ~Plans!Alike(f, plan[p], plan'[p])
      BY <1>3, <2>3, FieldsAre DEF Plans!Changed
    <3>2. made[f] = job[a].loaded[f]
      BY <1>2, <2>3, <3>1
    <3>3. new[f] = IF f = "durations"
            THEN IF job[a].fresh THEN made.durations ELSE made.durations \o plan[p].durations
            ELSE IF made[f] # job[a].loaded[f] THEN made[f] ELSE plan[p][f]
      <4> HIDE DEF made
      <4> QED BY <1>2, <2>1, <3>1, UpdatedField
    <3> HIDE DEF new, made
    <3>4. CASE f # "durations"
      BY <2>1, <3>1, <3>2, <3>3, <3>4 DEF Plans!Alike
    <3>5. CASE f = "durations" /\ job[a].fresh
      <4>1. job[a].loaded["durations"] = plan[p]["durations"]
        BY <1>1, <2>1, <2>2, <3>5 DEF Read, PlanFields
      <4>2. new[f] = plan[p][f]
        BY <3>2, <3>3, <3>5, <4>1
      <4> QED BY <2>1, <3>1, <4>2 DEF Plans!Alike
    <3> QED BY <3>4, <3>5
  <2> HIDE DEF new, made
  <2> QED BY <1>1, <2>1, <2>3 DEF Inside
<1> QED BY <1>4, <1>5

\* A renumbering writes rows that stay with their order only.
LEMMA OrderWrites ==
  ASSUME Plans!ConstantsAssumption, PlanInv, NEW a \in Admin, Plans!WriteOrder(a),
         NEW p \in Plans!Existing,
         plan'[p] # None
  PROVE /\ plan'[p] = Plans!Numbered(job[a])[p] /\ plan'[p] \in Plans!PlanDto
        /\ \A f \in PlanFields \ {"order"} : plan'[p][f] = plan[p][f]
<1> DEFINE made == Plans!Numbered(job[a])
<1>1. job[a] # None
      /\ plan' = IF job[a].kind = "delete" THEN [made EXCEPT ![job[a].plan] = None] ELSE made
  BY DEF Plans!WriteOrder
<1>2. job[a] \in Plans!Job /\ p \in PlanId
  BY <1>1, ExistingIs DEF PlanInv, PlanTypes
<1>3. /\ made \in [PlanId -> Plans!PlanDto \cup {None}]
      /\ \A q \in Plans!Existing : \A f \in PlanFields \ {"order"} : made[q][f] = plan[q][f]
  BY <1>2, NumberedIs
<1> HIDE DEF made
<1>4. plan'[p] = made[p]
  BY <1>1, <1>2, <1>3
<1> QED BY <1>2, <1>3, <1>4 DEF made

\* ... a move or a deletion the order.
LEMMA OrderInside ==
  ASSUME Plans!ConstantsAssumption, PlanInv, NEW a \in Admin, Plans!WriteOrder(a),
         NEW p \in Plans!Existing,
         plan'[p] # None
  PROVE Inside(a, p)
<1>1. job[a].kind \in {"move", "delete"}
  BY DEF Plans!WriteOrder
<1>2. plan[p] \in Plans!PlanDto
  BY ExistingIs
<1>3. \A f \in PlanFields \ {"order"} : plan'[p][f] = plan[p][f]
  BY OrderWrites
<1>4. Plans!Changed(p) \subseteq {"order"}
  BY <1>2, <1>3, FieldsAre DEF Plans!Changed, Plans!Alike
<1> QED BY <1>1, <1>4 DEF Inside

\* So does every step that ends a command.
LEMMA PlanStepInside ==
  ASSUME Plans!ConstantsAssumption, PlanInv, Plans!Next, NEW a \in Admin, NEW p \in PlanId,
         job[a] # None, job'[a] = None, plan[p] # None, plan'[p] # None
  PROVE Inside(a, p)
<1>1. p \in Plans!Existing
  BY DEF Plans!Existing
<1>2. Plans!WriteEdit(a) \/ Plans!WriteToggle(a) \/ Plans!WriteOrder(a) \/ Plans!Deadlock(a)
  BY EndsBy
<1>3. CASE Plans!Deadlock(a)
  <2>1. plan'[p] = plan[p]
    BY <1>3 DEF Plans!Deadlock, Plans!Fail
  <2> QED BY <2>1, NothingChanged DEF Inside
<1> QED BY <1>1, <1>2, <1>3, EditInside, ToggleInside, OrderInside

\* A command changes what its administrator changed and nothing else, even when it overlaps
\* another's (dao/plan.py, access.py).
LEMMA PlanWritesStay ==
  ASSUME Plans!ConstantsAssumption
  PROVE Plans!Spec => Plans!WritesStayInside
<1> DEFINE Within == \A a \in Admin, p \in PlanId :
       job[a] # None /\ job'[a] = None /\ plan[p] # None /\ plan'[p] # None =>
         \/ Plans!Changed(p) = {}
         \/ job[a].kind \in {"move", "delete"} /\ Plans!Changed(p) = {"order"}
         \/ /\ job[a].plan = p
            /\ Plans!Changed(p) \subseteq
                 (IF job[a].fresh THEN {} ELSE {"durations"}) \cup
                 (IF job[a].kind = "toggle" THEN {"allowed"}
                  ELSE IF job[a].based
                  THEN form[a].touched \cup Plans!PutRight(form[a].plan)
                  ELSE DOMAIN plan[p])
<1>1. PlanInv /\ [Plans!Next]_(Plans!vars) => [Within]_(Plans!vars)
  <2>1. PlanInv /\ Plans!Next => Within
    BY PlanStepInside DEF Inside
  <2> HIDE DEF Within
  <2> QED BY <2>1
<1> QED BY <1>1, PlansAlways, PTL DEF Plans!Spec, Plans!WritesStayInside

\* A fresh renumbering gives each plan of its list its place.
LEMMA PlacesGiven ==
  ASSUME Plans!ConstantsAssumption, PlanInv, NEW a \in Admin, job[a] # None,
         job[a].kind \in {"move", "delete"}, job[a].fresh
  PROVE /\ Rest(a) \subseteq Plans!Existing /\ Plans!IsFiniteSet(Rest(a))
        /\ Plans!Cardinality(Rest(a)) \in Nat
        /\ job[a].list \in Plans!Bijection(1 .. Plans!Cardinality(Rest(a)), Rest(a))
        /\ \A i \in 1 .. Plans!Cardinality(Rest(a)) :
               Plans!Numbered(job[a])[job[a].list[i]].order = i
<1> DEFINE j == job[a]
           n == Plans!Cardinality(Rest(a))
           s == job[a].list
<1>1. /\ j.orders = [q \in Plans!Existing |-> plan[q].order]
      /\ s \in Plans!Bijection(1 .. n, Rest(a))
  BY DEF PlanInv, PlanJobs, PlanJob, Lists
<1>2. Rest(a) \in SUBSET Plans!Existing /\ Plans!IsFiniteSet(Plans!Existing)
      /\ Plans!Existing \subseteq PlanId
  BY ExistingIs DEF Rest
<1>3. Plans!IsFiniteSet(Rest(a)) /\ n \in Nat
  BY <1>2, CountOfPart, CountIsNat
<1>4. /\ s \in [1 .. n -> Rest(a)] /\ DOMAIN s = 1 .. n
      /\ \A i, k \in 1 .. n : s[i] = s[k] => i = k
  BY <1>1 DEF Plans!Bijection, Plans!Injection, Plans!IsInjective
<1>5. \A q \in Rest(a) : j.orders[q] = plan[q].order
  BY <1>1, <1>2
<1>6. ASSUME NEW i \in 1 .. n PROVE Plans!Numbered(j)[s[i]].order = i
  <2> DEFINE p == s[i]
             held == \E k \in DOMAIN s : <<p, k>> \in Plans!Places(j)
             at == CHOOSE k \in DOMAIN s : <<p, k>> \in Plans!Places(j)
  <2>1. p \in Rest(a) /\ p \in PlanId /\ plan[p] # None /\ plan[p] \in Plans!PlanDto
    BY <1>2, <1>4, ExistingIs, PlanNoneApart
  <2>2. \A k \in DOMAIN s : <<p, k>> \in Plans!Places(j) <=> k = i /\ plan[p].order # i
    <3>1. \A k \in DOMAIN s : <<p, k>> \in Plans!Places(j) <=> s[k] = p /\ j.orders[s[k]] # k
      BY DEF Plans!Places
    <3> QED BY <1>4, <1>5, <2>1, <3>1
  <2>3. Plans!Numbered(j)[p] = IF held THEN [plan[p] EXCEPT !.order = at] ELSE plan[p]
    BY <2>1 DEF Plans!Numbered
  <2>4. CASE plan[p].order # i
    <3>1. held /\ at = i
      BY <1>4, <2>2, <2>4
    <3> HIDE DEF held, at, p
    <3>2. Plans!Numbered(j)[p] = [plan[p] EXCEPT !.order = i]
      BY <2>3, <3>1
    <3>3. Plans!Numbered(j)[p].order = i
      BY <2>1, <3>2 DEF Plans!PlanDto
    <3> QED BY <3>3 DEF p
  <2>5. CASE plan[p].order = i
    <3>1. ~held
      BY <2>2, <2>5
    <3> HIDE DEF held, at
    <3> QED BY <2>3, <2>5, <3>1
  <2> QED BY <2>4, <2>5
<1> QED BY <1>1, <1>2, <1>3, <1>6

\* What such a renumbering leaves.
LEMMA OrderSettles ==
  ASSUME Plans!ConstantsAssumption, PlanInv, NEW a \in Admin, Plans!WriteOrder(a), job[a].fresh
  PROVE /\ {plan'[p].order : p \in Plans!Existing'} = 1 .. Plans!Cardinality(Plans!Existing')
        /\ \A p, q \in Plans!Existing' \ {job[a].plan} :
             plan[p].order < plan[q].order => plan'[p].order < plan'[q].order
<1> DEFINE j == job[a]
           n == Plans!Cardinality(Rest(a))
           s == job[a].list
           made == Plans!Numbered(job[a])
<1>1. /\ j # None /\ j.kind \in {"move", "delete"}
      /\ plan' = IF j.kind = "delete" THEN [made EXCEPT ![j.plan] = None] ELSE made
  BY DEF Plans!WriteOrder
<1>2. /\ Rest(a) \subseteq Plans!Existing /\ n \in Nat /\ s \in Plans!Bijection(1 .. n, Rest(a))
      /\ \A i \in 1 .. n : made[s[i]].order = i
  BY <1>1, PlacesGiven
<1>3. /\ j.orders = [q \in Plans!Existing |-> plan[q].order]
      /\ j.kind = "move" => j.plan \in Plans!Existing
      /\ \A i, k \in DOMAIN s : i < k /\ s[i] # j.plan /\ s[k] # j.plan =>
           j.orders[s[i]] <= j.orders[s[k]]
  BY <1>1 DEF PlanInv, PlanJobs, PlanJob, Lists
<1>4. j \in Plans!Job
  BY <1>1 DEF PlanInv, PlanTypes
<1>5. /\ made \in [PlanId -> Plans!PlanDto \cup {None}]
      /\ \A p \in PlanId : made[p] = None <=> plan[p] = None
  BY <1>4, NumberedIs
<1> HIDE DEF made
<1>6. Plans!Existing' = Rest(a) /\ \A p \in Plans!Existing' : plan'[p] = made[p]
  <2>1. j.plan \in PlanId
    BY <1>4 DEF Plans!Job
  <2> QED BY <1>1, <1>5, <2>1 DEF Plans!Existing, Rest
<1>7. /\ s \in [1 .. n -> Rest(a)] /\ DOMAIN s = 1 .. n
      /\ \A p \in Rest(a) : \E i \in 1 .. n : s[i] = p
  BY <1>2 DEF Plans!Bijection, Plans!Injection, Plans!Surjection
<1> HIDE DEF n, s
<1>8. {plan'[p].order : p \in Plans!Existing'} = 1 .. n
  <2>1. \A i \in 1 .. n : s[i] \in Plans!Existing' /\ plan'[s[i]].order = i
    BY <1>2, <1>6, <1>7
  <2>2. \A p \in Plans!Existing' : \E i \in 1 .. n : plan'[p].order = i
    BY <1>6, <1>7, <2>1
  <2> QED BY <2>1, <2>2
<1>9. ASSUME NEW p \in Plans!Existing' \ {j.plan}, NEW q \in Plans!Existing' \ {j.plan},
             plan[p].order < plan[q].order
      PROVE plan'[p].order < plan'[q].order
  <2>1. PICK i \in 1 .. n : s[i] = p
    BY <1>6, <1>7
  <2>2. PICK k \in 1 .. n : s[k] = q
    BY <1>6, <1>7
  <2>3. plan'[p].order = i /\ plan'[q].order = k
    BY <1>2, <1>6, <2>1, <2>2
  <2>4. p \in Plans!Existing /\ q \in Plans!Existing
    BY <1>2, <1>6
  <2>5. j.orders[p] = plan[p].order /\ j.orders[q] = plan[q].order
    BY <1>3, <2>4
  <2>6. plan[p].order \in Nat /\ plan[q].order \in Nat
    <3>1. plan[p] \in Plans!PlanDto /\ plan[q] \in Plans!PlanDto
      BY <2>4, ExistingIs
    <3> QED BY <3>1 DEF Plans!PlanDto
  <2>7. ~(k < i)
    <3>1. SUFFICES ASSUME k < i PROVE FALSE
      OBVIOUS
    <3>2. j.orders[s[k]] <= j.orders[s[i]]
      BY <1>3, <1>7, <1>9, <2>1, <2>2, <3>1
    <3>3. plan[q].order <= plan[p].order
      BY <2>1, <2>2, <2>5, <3>2
    <3> QED BY <1>9, <2>6, <3>3
  <2>8. i # k
    BY <1>9, <2>1, <2>2, <2>6
  <2> QED BY <1>2, <2>3, <2>7, <2>8
<1> QED BY <1>6, <1>8, <1>9 DEF n

\* It is the only step that ends a move, or a deletion that deletes.
LEMMA StepSettles ==
  ASSUME Plans!ConstantsAssumption, PlanInv, Plans!Next, NEW a \in Admin, job[a] # None,
         job'[a] = None,
         job[a].kind \in {"move", "delete"}, job[a].fresh,
         job[a].kind = "delete" => plan'[job[a].plan] = None
  PROVE /\ {plan'[p].order : p \in Plans!Existing'} = 1 .. Plans!Cardinality(Plans!Existing')
        /\ \A p, q \in Plans!Existing' \ {job[a].plan} :
             plan[p].order < plan[q].order => plan'[p].order < plan'[q].order
<1>1. Plans!WriteOrder(a) \/ Plans!Deadlock(a)
  BY EndsBy DEF Plans!WriteEdit, Plans!WriteToggle
<1>2. ~Plans!Deadlock(a)
  <2>1. SUFFICES ASSUME Plans!Deadlock(a) PROVE FALSE
    OBVIOUS
  <2>2. job[a].kind = "delete" /\ plan[job[a].plan] # None
    BY <2>1 DEF Plans!Deadlock, Plans!Waits, Plans!Deletes
  <2> QED BY <2>1, <2>2 DEF Plans!Deadlock, Plans!Fail
<1> QED BY <1>1, <1>2, OrderSettles

\* A move, or a deletion the database did not break off, that overlaps nothing numbers the
\* plans from one and keeps the others' order (order.py, commit.py).
LEMMA MovesSettleAlways ==
  ASSUME Plans!ConstantsAssumption
  PROVE Plans!Spec => Plans!MovesSettle
<1> DEFINE Within == \A a \in Admin :
       (/\ job[a] # None /\ job'[a] = None /\ job[a].kind \in {"move", "delete"}
        /\ job[a].fresh /\ (job[a].kind = "delete" => plan'[job[a].plan] = None)) =>
         /\ {plan'[p].order : p \in Plans!Existing'} = 1 .. Plans!Cardinality(Plans!Existing')
         /\ \A p, q \in Plans!Existing' \ {job[a].plan} :
              plan[p].order < plan[q].order => plan'[p].order < plan'[q].order
<1>1. PlanInv /\ [Plans!Next]_(Plans!vars) => [Within]_(Plans!vars)
  <2>1. PlanInv /\ Plans!Next => Within
    BY StepSettles
  <2> HIDE DEF Within
  <2> QED BY <2>1
<1> QED BY <1>1, PlansAlways, PTL DEF Plans!Spec, Plans!MovesSettle

-----------------------------------------------------------------------------
(* The promocodes. *)

\* The fields of a promocode.
PromoFields == {"code", "active", "reusable", "type", "reward", "plan", "availability", "expires",
           "limit"}

\* Every variable keeps its type.
PromoTypes ==
  /\ promo \in [PromoId -> Promocodes!PromocodeDto \cup {None}] /\ coined \in SUBSET PromoId
  /\ offered \in SUBSET (Sold \X Days)
  /\ draft \in [Admin -> Promocodes!Form \cup {None}]
  /\ save \in [Admin -> Promocodes!Job \cup {None}]
  /\ mixed \in SUBSET PromoId
  /\ listing \in Drafts

\* Identifiers of rows were given to them.
PromoBorn == Promocodes!Existing \subseteq coined

\* x and y agree on the fields apart from touched.
PromoAgree(x, y, touched) == \A f \in PromoFields \ touched : x[f] = y[f]

\* A draft may lack an amount or a plan, and has none that its type does not have.
PromoFits(shown) ==
  /\ shown.type = "SUBSCRIPTION" => shown.reward = None
  /\ shown.type # "SUBSCRIPTION" => shown.plan = None
  /\ shown.type \in Promocodes!Discounts /\ shown.reward # None => shown.reward \in 1..100

\* A dialog is of a promocode that was there, shows a window its type has, and without
\* overlapping updates its draft fits; up to date it has the row's values where nothing was set.
PromoForm(a) ==
  draft[a] # None =>
    /\ draft[a].id # None => draft[a].id \in coined
    /\ draft[a].window = "REWARD" => draft[a].promo.type # "SUBSCRIPTION"
    /\ draft[a].window \in {"PLAN", "PLAN_DURATION"} => draft[a].promo.type = "SUBSCRIPTION"
    /\ draft[a].id \notin mixed => PromoFits(draft[a].promo)
    /\ draft[a].based /\ draft[a].id # None =>
         draft[a].id \in Promocodes!Existing
         /\ PromoAgree(draft[a].promo, promo[draft[a].id], draft[a].touched)

\* An update has a complete draft, and what it has read is there if nobody has written since.
PromoJob(a) ==
  save[a] # None =>
    /\ draft[a] # None /\ draft[a].id # None /\ Promocodes!Complete(draft[a].promo)
    /\ save[a].fresh => draft[a].id \in Promocodes!Existing /\ promo[draft[a].id] = save[a].loaded
    /\ save[a].based => PromoAgree(draft[a].promo, save[a].loaded, draft[a].touched)

\* All dialogs are right ...
PromoForms == \A a \in Admin : PromoForm(a)

\* ... and all updates.
PromoJobs == \A a \in Admin : PromoJob(a)

\* The inductive invariant of the promocodes.
PromoInv == PromoTypes /\ PromoBorn /\ PromoForms /\ PromoJobs /\ Promocodes!PromocodesAreSound

\* None is nothing else.
LEMMA PromoNoneApart ==
  ASSUME Promocodes!ConstantsAssumption
  PROVE /\ None \notin PromoId /\ None \notin Promocodes!PromocodeDto /\ None \notin Promocodes!Form
        /\ None \notin Promocodes!Job /\ None \notin Sold /\ None \notin Sold \X Days
BY DEF Promocodes!ConstantsAssumption

\* An administrator whose dialog and rows nobody touches stays right.
LEMMA PromoUntouched ==
  ASSUME UNCHANGED <<promo, coined, mixed>>, NEW x \in Admin, draft'[x] = draft[x]
  PROVE /\ PromoForm(x) => PromoForm(x)'
        /\ save'[x] = save[x] /\ PromoJob(x) => PromoJob(x)'
<1>1. Promocodes!Existing' = Promocodes!Existing
  BY DEF Promocodes!Existing
<1>2. PromoForm(x) => PromoForm(x)'
  BY <1>1 DEF PromoForm, PromoAgree
<1>3. ASSUME save'[x] = save[x], PromoJob(x) PROVE PromoJob(x)'
  BY <1>1, <1>3 DEF PromoJob, PromoAgree
<1> QED BY <1>2, <1>3

\* Rows stay; a's form becomes one that is right, and he has no command.
LEMMA PromoFormKeeps ==
  ASSUME PromoInv, UNCHANGED <<listing, promo, coined, mixed, save>>,
         offered' \in SUBSET (Sold \X Days),
         NEW a \in Admin, save[a] = None, NEW g \in Promocodes!Form \cup {None},
         draft' = [draft EXCEPT ![a] = g], PromoForm(a)'
  PROVE PromoInv'
<1>1. PromoTypes'
  BY DEF PromoInv, PromoTypes
<1>2. PromoBorn' /\ Promocodes!PromocodesAreSound'
  BY DEF PromoInv, PromoBorn, Promocodes!PromocodesAreSound, Promocodes!Existing
<1>3. ASSUME NEW x \in Admin PROVE PromoForm(x)' /\ PromoJob(x)'
  <2>1. CASE x = a
    <3>1. PromoJob(a)'
      BY DEF PromoJob
    <3> QED BY <2>1, <3>1
  <2>2. CASE x # a
    <3>1. draft'[x] = draft[x] /\ save'[x] = save[x]
      BY <2>2 DEF PromoInv, PromoTypes
    <3>2. PromoForm(x) /\ PromoJob(x)
      BY DEF PromoInv, PromoForms, PromoJobs
    <3> QED BY <3>1, <3>2, PromoUntouched
  <2> QED BY <2>1, <2>2
<1> QED BY <1>1, <1>2, <1>3 DEF PromoInv, PromoForms, PromoJobs

\* A draft is opened with a copy of a row, or a new promocode.
LEMMA PromoOpenKeeps ==
  ASSUME Promocodes!ConstantsAssumption, PromoInv,
         UNCHANGED <<listing, promo, coined, offered, mixed, save>>,
         NEW a \in Admin, save[a] = None, NEW id \in Promocodes!Existing \cup {None},
         NEW new \in Promocodes!PromocodeDto, Promocodes!Open(a, id, new),
         id \notin mixed => PromoFits(new),
         id # None => PromoAgree(new, promo[id], {})
  PROVE PromoInv'
<1> DEFINE g == [id |-> id, promo |-> new, window |-> "CONFIGURATOR", plan |-> None,
                 touched |-> {}, based |-> TRUE]
<1>1. id \in PromoId \cup {None}
  BY DEF Promocodes!Existing
<1>2. g \in Promocodes!Form /\ g # None
  <2>1. g \in Promocodes!Form
    BY <1>1 DEF Promocodes!Form, Promocodes!Window
  <2> HIDE DEF g
  <2> QED BY <2>1, PromoNoneApart
<1>3. draft' = [draft EXCEPT ![a] = g]
  BY DEF Promocodes!Open
<1>4. draft'[a] = g
  BY <1>3 DEF PromoInv, PromoTypes
<1>5. id # None => id \in coined
  BY DEF PromoInv, PromoBorn
<1>6. PromoForm(a)'
  <2>1. Promocodes!Existing' = Promocodes!Existing
    BY DEF Promocodes!Existing
  <2>2. /\ g.id = id /\ g.promo = new /\ g.touched = {} /\ g.based = TRUE
        /\ g.window = "CONFIGURATOR"
    OBVIOUS
  <2> HIDE DEF g
  <2>3. id \notin mixed' => PromoFits(g.promo)
    BY <2>2
  <2>4. id # None => id \in Promocodes!Existing /\ PromoAgree(g.promo, promo[id], g.touched)
    BY <2>2
  <2>5. id # None => id \in Promocodes!Existing' /\ PromoAgree(g.promo, promo[id], g.touched)'
    BY <2>1, <2>4 DEF PromoAgree
  <2> QED BY <1>4, <1>5, <2>2, <2>3, <2>5 DEF PromoForm, PromoAgree
<1> HIDE DEF g
<1>7. offered' \in SUBSET (Sold \X Days)
  BY DEF PromoInv, PromoTypes
<1> QED BY <1>2, <1>3, <1>6, <1>7, PromoFormKeeps

\* A window that shows a form: what is known of an administrator there.
LEMMA InIs ==
  ASSUME Promocodes!ConstantsAssumption, PromoInv, NEW a \in Admin, save[a] = None, draft[a] # None
  PROVE draft[a] \in Promocodes!Form /\ draft[a].promo \in Promocodes!PromocodeDto /\ PromoForm(a)
        /\ draft[a].window \in Promocodes!Window
<1>1. draft[a] \in Promocodes!Form
  BY DEF PromoInv, PromoTypes
<1> QED BY <1>1 DEF Promocodes!Form, PromoInv, PromoForms

\* new is promo with other fields.
PromoSets(new, shown, fields) ==
  /\ new \in Promocodes!PromocodeDto /\ (PromoFits(shown) => PromoFits(new))
  /\ \A f \in PromoFields \ fields : new[f] = shown[f]

\* A handler sets fields of a draft.
LEMMA PromoChangeKeeps ==
  ASSUME Promocodes!ConstantsAssumption, PromoInv, NEW a \in Admin, Promocodes!Free(a),
         draft[a] # None,
         NEW fields \in SUBSET PromoFields, NEW new, NEW w \in {"CONFIGURATOR", "CODE"},
         Promocodes!Change(a, fields, new, w), PromoSets(new, draft[a].promo, fields)
  PROVE PromoInv'
<1>1. save[a] = None
  BY DEF Promocodes!Free
<1>2. /\ draft[a] \in Promocodes!Form /\ draft[a].promo \in Promocodes!PromocodeDto /\ PromoForm(a)
      /\ new \in Promocodes!PromocodeDto
      /\ \A f \in PromoFields \ fields : new[f] = draft[a].promo[f]
  BY <1>1, InIs DEF PromoSets
<1> DEFINE g == [draft[a] EXCEPT !.promo = new, !.touched = @ \cup fields, !.window = w]
<1>3. /\ g \in Promocodes!Form /\ g.id = draft[a].id /\ g.promo = new /\ g.based = draft[a].based
      /\ g.touched = draft[a].touched \cup fields /\ g.window = w
  BY <1>2 DEF Promocodes!Form, PromoFields, Promocodes!Window
<1>4. g # None
  BY <1>3, PromoNoneApart
<1>5. draft' = [draft EXCEPT ![a] = g]
  BY DEF Promocodes!Change
<1> HIDE DEF g
<1>6. draft'[a] = g
  BY <1>2, <1>5 DEF PromoInv, PromoTypes
<1>7. UNCHANGED <<listing, promo, coined, offered, save, mixed>>
  BY DEF Promocodes!Change
<1>8. Promocodes!Existing' = Promocodes!Existing
  BY <1>7 DEF Promocodes!Existing
<1>9. PromoForm(a)'
  <2>1. g.id # None => g.id \in coined'
    BY <1>2, <1>3, <1>7 DEF PromoForm
  <2>2. g.id \notin mixed' => PromoFits(g.promo)
    BY <1>2, <1>3, <1>7 DEF PromoForm, PromoSets
  <2>3. ASSUME g.based, g.id # None
        PROVE g.id \in Promocodes!Existing /\ PromoAgree(g.promo, promo[g.id], g.touched)
    <3>1. g.id \in Promocodes!Existing
          /\ PromoAgree(draft[a].promo, promo[draft[a].id], draft[a].touched)
      BY <1>2, <1>3, <2>3 DEF PromoForm
    <3>2. ASSUME NEW f \in PromoFields \ g.touched PROVE g.promo[f] = promo[g.id][f]
      <4>1. f \in PromoFields \ fields /\ f \in PromoFields \ draft[a].touched
        BY <1>3
      <4>2. draft[a].promo[f] = promo[draft[a].id][f] /\ new[f] = draft[a].promo[f]
        BY <1>2, <3>1, <4>1 DEF PromoAgree
      <4> QED BY <1>3, <4>2
    <3> QED BY <3>1, <3>2 DEF PromoAgree
  <2>4. g.window # "REWARD" /\ g.window \notin {"PLAN", "PLAN_DURATION"}
    BY <1>3
  <2> QED BY <1>6, <1>7, <1>8, <2>1, <2>2, <2>3, <2>4 DEF PromoForm, PromoAgree
<1>10. offered' \in SUBSET (Sold \X Days)
  BY <1>7 DEF PromoInv, PromoTypes
<1> QED BY <1>1, <1>3, <1>5, <1>7, <1>9, <1>10, PromoFormKeeps

\* Only the window or the plan that was chosen changes.
LEMMA PromoShowsKeeps ==
  ASSUME Promocodes!ConstantsAssumption, PromoInv, NEW a \in Admin, Promocodes!Free(a),
         draft[a] # None,
         NEW w \in Promocodes!Window, NEW g \in Promocodes!Form,
         g.id = draft[a].id, g.promo = draft[a].promo, g.based = draft[a].based,
         g.touched = draft[a].touched, g.window = w,
         draft' = [draft EXCEPT ![a] = g],
         UNCHANGED <<listing, promo, coined, offered, save, mixed>>,
         w = "REWARD" => draft[a].promo.type # "SUBSCRIPTION",
         w \in {"PLAN", "PLAN_DURATION"} => draft[a].promo.type = "SUBSCRIPTION"
  PROVE PromoInv'
<1>1. save[a] = None
  BY DEF Promocodes!Free
<1>2. PromoForm(a)
  BY <1>1, InIs
<1>3. draft'[a] = g
  BY DEF PromoInv, PromoTypes
<1>4. Promocodes!Existing' = Promocodes!Existing
  BY DEF Promocodes!Existing
<1>5. PromoForm(a)'
  BY <1>2, <1>3, <1>4 DEF PromoForm, PromoAgree
<1>6. offered' \in SUBSET (Sold \X Days)
  BY DEF PromoInv, PromoTypes
<1> QED BY <1>1, <1>5, <1>6, PromoFormKeeps

\* What is known of a row.
LEMMA PromoRowIs ==
  ASSUME PromoInv, NEW p \in Promocodes!Existing
  PROVE p \in PromoId /\ p \in coined /\ promo[p] \in Promocodes!PromocodeDto
BY DEF Promocodes!Existing, PromoInv, PromoTypes, PromoBorn

\* The promocodes a behaviour begins with are sound, and nobody does anything.
LEMMA InitPromos ==
  ASSUME Promocodes!ConstantsAssumption, Promocodes!Init
  PROVE PromoInv
<1>1. listing.rows \in [PromoId -> Promocodes!PromocodeDto \cup {None}]
      /\ \A p \in PromoId : listing.rows[p] # None => Promocodes!Sound(listing.rows[p])
  BY DEF Promocodes!Init, Promocodes!ConstantsAssumption
<1>2. PromoTypes
  BY <1>1 DEF Promocodes!Init, PromoTypes, Promocodes!Existing
<1>3. PromoBorn /\ Promocodes!PromocodesAreSound
  BY <1>1 DEF Promocodes!Init, PromoBorn, Promocodes!PromocodesAreSound, Promocodes!Existing
<1>4. PromoForms /\ PromoJobs
  BY DEF Promocodes!Init, PromoForms, PromoJobs, PromoForm, PromoJob
<1> QED BY <1>2, <1>3, <1>4 DEF PromoInv

\* A draft of a stored promocode.
LEMMA PromoSelectKeeps ==
  ASSUME Promocodes!ConstantsAssumption, PromoInv, NEW a \in Admin, NEW p \in PromoId,
         Promocodes!Select(a, p)
  PROVE PromoInv'
<1>1. /\ save[a] = None /\ p \in Promocodes!Existing /\ Promocodes!Open(a, p, promo[p])
      /\ UNCHANGED <<listing, promo, coined, offered, mixed, save>>
  BY DEF Promocodes!Select, Promocodes!Free, Promocodes!Loaded, Promocodes!Existing
<1>2. promo[p] \in Promocodes!PromocodeDto
  BY <1>1, PromoRowIs
<1>3. p \notin mixed => PromoFits(promo[p])
  BY <1>1 DEF PromoInv, Promocodes!PromocodesAreSound, Promocodes!Sound, PromoFits
<1>4. PromoAgree(promo[p], promo[p], {})
  BY DEF PromoAgree
<1> QED BY <1>1, <1>2, <1>3, <1>4, PromoOpenKeeps

\* A draft of a new one.
LEMMA PromoCreateKeeps ==
  ASSUME Promocodes!ConstantsAssumption, PromoInv, NEW a \in Admin, NEW code \in Code,
         Promocodes!Create(a, code)
  PROVE PromoInv'
<1> DEFINE new == [code |-> code, active |-> TRUE, reusable |-> FALSE, type |-> "DURATION",
                   reward |-> None, plan |-> None, availability |-> "ALL", expires |-> None,
                   limit |-> None]
<1>1. /\ save[a] = None /\ Promocodes!Open(a, None, new)
      /\ UNCHANGED <<listing, promo, coined, offered, mixed, save>>
  BY DEF Promocodes!Create, Promocodes!Free
<1>2. new \in Promocodes!PromocodeDto /\ PromoFits(new)
  BY DEF Promocodes!PromocodeDto, PromoFits, Promocodes!Type, Promocodes!Discounts
<1> HIDE DEF new
<1> QED BY <1>1, <1>2, PromoOpenKeeps

\* A window is shown.
LEMMA PromoShowKeeps ==
  ASSUME Promocodes!ConstantsAssumption, PromoInv, NEW a \in Admin, Promocodes!Free(a),
         draft[a] # None,
         NEW w \in Promocodes!Window, Promocodes!Shows(a, w),
         w = "REWARD" => draft[a].promo.type # "SUBSCRIPTION",
         w \in {"PLAN", "PLAN_DURATION"} => draft[a].promo.type = "SUBSCRIPTION"
  PROVE PromoInv'
<1> DEFINE g == [draft[a] EXCEPT !.window = w]
<1>1. draft[a] \in Promocodes!Form
  BY InIs DEF Promocodes!Free
<1>2. /\ g \in Promocodes!Form /\ g.id = draft[a].id /\ g.promo = draft[a].promo
      /\ g.based = draft[a].based
      /\ g.touched = draft[a].touched /\ g.window = w
  BY <1>1 DEF Promocodes!Form
<1>3. draft' = [draft EXCEPT ![a] = g] /\ UNCHANGED <<listing, promo, coined, offered, save, mixed>>
  BY DEF Promocodes!Shows
<1> HIDE DEF g
<1> QED BY <1>2, <1>3, PromoShowsKeeps

\* The buttons that lead to windows.
LEMMA PromoWindowsKeep ==
  ASSUME Promocodes!ConstantsAssumption, PromoInv, NEW a \in Admin, NEW w,
         Promocodes!SwitchTo(a, w) \/ Promocodes!PlanOpen(a) \/ Promocodes!Back(a)
  PROVE PromoInv'
<1>1. CASE Promocodes!SwitchTo(a, w)
  <2>1. Promocodes!Free(a) /\ draft[a] # None /\ w \in Promocodes!Buttons(draft[a].promo)
        /\ Promocodes!Shows(a, w)
    BY <1>1 DEF Promocodes!SwitchTo, Promocodes!In
  <2>2. /\ w \in Promocodes!Window /\ w \notin {"PLAN", "PLAN_DURATION"}
        /\ w = "REWARD" => draft[a].promo.type # "SUBSCRIPTION"
    BY <2>1 DEF Promocodes!Buttons, Promocodes!Window
  <2> QED BY <2>1, <2>2, PromoShowKeeps
<1>2. CASE Promocodes!PlanOpen(a)
  <2>1. Promocodes!Free(a) /\ draft[a] # None /\ draft[a].promo.type = "SUBSCRIPTION"
        /\ Promocodes!Shows(a, "PLAN")
    BY <1>2 DEF Promocodes!PlanOpen, Promocodes!In
  <2>2. "PLAN" \in Promocodes!Window
    BY DEF Promocodes!Window
  <2> QED BY <2>1, <2>2, PromoShowKeeps
<1>3. CASE Promocodes!Back(a)
  <2>1. Promocodes!Free(a) /\ draft[a] # None
        /\ Promocodes!Shows(a, Promocodes!BackOf(draft[a].window))
    BY <1>3 DEF Promocodes!Back
  <2>2. PromoForm(a)
    BY <2>1, InIs DEF Promocodes!Free
  <2>3. PICK v : v = Promocodes!BackOf(draft[a].window)
    OBVIOUS
  <2>4. /\ v \in Promocodes!Window /\ v # "REWARD"
        /\ v \in {"PLAN", "PLAN_DURATION"} => draft[a].promo.type = "SUBSCRIPTION"
    BY <2>1, <2>2, <2>3 DEF PromoForm, Promocodes!BackOf, Promocodes!Window
  <2> QED BY <2>1, <2>3, <2>4, PromoShowKeeps
<1> QED BY <1>1, <1>2, <1>3

\* The draft is gone.
LEMMA PromoLeaveKeeps ==
  ASSUME Promocodes!ConstantsAssumption, PromoInv, NEW a \in Admin, Promocodes!Leave(a)
  PROVE PromoInv'
<1>1. /\ save[a] = None /\ draft' = [draft EXCEPT ![a] = None]
      /\ UNCHANGED <<listing, promo, coined, offered, mixed, save>>
  BY DEF Promocodes!Leave, Promocodes!In, Promocodes!Free
<1>2. offered' \in SUBSET (Sold \X Days)
  BY <1>1 DEF PromoInv, PromoTypes
<1>3. draft'[a] = None
  BY <1>1 DEF PromoInv, PromoTypes
<1>4. PromoForm(a)'
  BY <1>3 DEF PromoForm
<1> QED BY <1>1, <1>2, <1>4, PromoFormKeeps

\* What the handlers make of a draft.
LEMMA SetActive ==
  ASSUME NEW q \in Promocodes!PromocodeDto
  PROVE PromoSets([q EXCEPT !.active = ~@], q, {"active"})
BY DEF PromoSets, Promocodes!PromocodeDto, PromoFits, PromoFields

\* A flag.
LEMMA SetReusable ==
  ASSUME NEW q \in Promocodes!PromocodeDto
  PROVE PromoSets([q EXCEPT !.reusable = ~@], q, {"reusable"})
BY DEF PromoSets, Promocodes!PromocodeDto, PromoFits, PromoFields

\* The code.
LEMMA SetCode ==
  ASSUME NEW q \in Promocodes!PromocodeDto, NEW v \in Code
  PROVE PromoSets([q EXCEPT !.code = v], q, {"code"})
BY DEF PromoSets, Promocodes!PromocodeDto, PromoFits, PromoFields

\* The availability.
LEMMA PromoSetAvailability ==
  ASSUME NEW q \in Promocodes!PromocodeDto, NEW v \in {"ALL", "NEW"}
  PROVE PromoSets([q EXCEPT !.availability = v], q, {"availability"})
BY DEF PromoSets, Promocodes!PromocodeDto, PromoFits, PromoFields

\* The expiry, there or not.
LEMMA SetExpires ==
  ASSUME NEW q \in Promocodes!PromocodeDto, NEW v \in {1, None}
  PROVE PromoSets([q EXCEPT !.expires = v], q, {"expires"})
BY DEF PromoSets, Promocodes!PromocodeDto, PromoFits, PromoFields

\* The number of activations, there or not.
LEMMA SetLimit ==
  ASSUME NEW q \in Promocodes!PromocodeDto, NEW v \in {1, None}
  PROVE PromoSets([q EXCEPT !.limit = v], q, {"limit"})
BY DEF PromoSets, Promocodes!PromocodeDto, PromoFits, PromoFields

\* The reward, of a type that has one.
LEMMA SetReward ==
  ASSUME NEW q \in Promocodes!PromocodeDto, NEW v \in Reward, q.type # "SUBSCRIPTION",
         q.type \in Promocodes!Discounts => v \in 1 .. 100
  PROVE PromoSets([q EXCEPT !.reward = v], q, {"reward"})
<1> DEFINE new == [q EXCEPT !.reward = v]
<1>1. new \in Promocodes!PromocodeDto /\ \A f \in PromoFields \ {"reward"} : new[f] = q[f]
  BY DEF Promocodes!PromocodeDto, PromoFields
<1>2. new.type = q.type /\ new.plan = q.plan /\ new.reward = v
  BY DEF Promocodes!PromocodeDto
<1> HIDE DEF new
<1>3. PromoSets(new, q, {"reward"})
  BY <1>1, <1>2 DEF PromoSets, PromoFits
<1> QED BY <1>3 DEF new

\* The plan, of the type that has one.
LEMMA SetPlan ==
  ASSUME NEW q \in Promocodes!PromocodeDto, NEW v \in Sold \X Days, q.type = "SUBSCRIPTION"
  PROVE PromoSets([q EXCEPT !.plan = v, !.reward = None], q, {"plan", "reward"})
<1> DEFINE new == [q EXCEPT !.plan = v, !.reward = None]
<1>1. new \in Promocodes!PromocodeDto /\ \A f \in PromoFields \ {"plan", "reward"} : new[f] = q[f]
  BY DEF Promocodes!PromocodeDto, PromoFields
<1>2. new.type = q.type /\ new.reward = None
  BY DEF Promocodes!PromocodeDto
<1> HIDE DEF new
<1>3. PromoSets(new, q, {"plan", "reward"})
  BY <1>1, <1>2 DEF PromoSets, PromoFits
<1> QED BY <1>3 DEF new

\* The type, which takes with it what means something else.
LEMMA PromoSetType ==
  ASSUME NEW q \in Promocodes!PromocodeDto, NEW v \in Promocodes!Type
  PROVE PromoSets(Promocodes!Typed(q, v), q, {"type", "reward", "plan"})
<1> DEFINE chosen == IF v = "SUBSCRIPTION" THEN q.plan ELSE None
           new == [q EXCEPT !.type = v, !.reward = None, !.plan = chosen]
<1>1. Promocodes!Typed(q, v) = new
  BY DEF Promocodes!Typed, Promocodes!PromocodeDto
<1>2. chosen \in (Sold \X Days) \cup {None} /\ (v # "SUBSCRIPTION" => chosen = None)
  BY DEF Promocodes!PromocodeDto
<1> HIDE DEF chosen
<1>3. /\ new \in Promocodes!PromocodeDto
      /\ \A f \in PromoFields \ {"type", "reward", "plan"} : new[f] = q[f]
  BY <1>2 DEF Promocodes!PromocodeDto, PromoFields
<1>4. new.type = v /\ new.reward = None /\ new.plan = chosen
  BY DEF Promocodes!PromocodeDto
<1> HIDE DEF new
<1> QED BY <1>1, <1>2, <1>3, <1>4 DEF PromoSets, PromoFits

\* Every handler of the draft keeps the invariant.
LEMMA PromoHandlersKeep ==
  ASSUME Promocodes!ConstantsAssumption, PromoInv, NEW a \in Admin,
         \/ Promocodes!ToggleActive(a) \/ Promocodes!ToggleReusable(a)
         \/ \E c \in Code : Promocodes!CodeRegenerate(a, c) \/ Promocodes!CodeInput(a, c)
         \/ \E type \in Promocodes!Type : Promocodes!TypeSelect(a, type)
         \/ \E reward \in Reward : Promocodes!RewardInput(a, reward)
         \/ \E days \in Days : Promocodes!PlanDurationSelect(a, days)
         \/ \E v \in {"ALL", "NEW"} : Promocodes!AvailabilitySelect(a, v)
         \/ Promocodes!ExpiresInput(a) \/ Promocodes!ExpiresReset(a)
         \/ Promocodes!MaxActivationsInput(a) \/ Promocodes!MaxActivationsReset(a)
  PROVE PromoInv'
<1> DEFINE q == draft[a].promo
<1>1. Promocodes!Free(a) /\ draft[a] # None
  BY DEF Promocodes!In, Promocodes!ToggleActive, Promocodes!ToggleReusable,
     Promocodes!CodeRegenerate, Promocodes!CodeInput, Promocodes!TypeSelect,
     Promocodes!RewardInput, Promocodes!PlanDurationSelect, Promocodes!AvailabilitySelect,
     Promocodes!ExpiresInput, Promocodes!ExpiresReset, Promocodes!MaxActivationsInput,
     Promocodes!MaxActivationsReset
<1>2. q \in Promocodes!PromocodeDto /\ PromoForm(a)
  BY <1>1, InIs DEF Promocodes!Free
<1>3. CASE Promocodes!ToggleActive(a) \/ Promocodes!ToggleReusable(a)
  <2>1. /\ {"active"} \in SUBSET PromoFields /\ {"reusable"} \in SUBSET PromoFields
        /\ PromoSets([q EXCEPT !.active = ~@], q, {"active"})
        /\ PromoSets([q EXCEPT !.reusable = ~@], q, {"reusable"})
    BY <1>2, SetActive, SetReusable DEF PromoFields
  <2>2. CASE Promocodes!ToggleActive(a)
    <3>1. Promocodes!Change(a, {"active"}, [q EXCEPT !.active = ~@], "CONFIGURATOR")
      BY <2>2 DEF Promocodes!ToggleActive
    <3> QED BY <1>1, <2>1, <3>1, PromoChangeKeeps
  <2>3. CASE Promocodes!ToggleReusable(a)
    <3>1. Promocodes!Change(a, {"reusable"}, [q EXCEPT !.reusable = ~@], "CONFIGURATOR")
      BY <2>3 DEF Promocodes!ToggleReusable
    <3> QED BY <1>1, <2>1, <3>1, PromoChangeKeeps
  <2> QED BY <1>3, <2>2, <2>3
<1>4. ASSUME NEW c \in Code, Promocodes!CodeRegenerate(a, c) \/ Promocodes!CodeInput(a, c)
      PROVE  PromoInv'
  <2>1. {"code"} \in SUBSET PromoFields /\ PromoSets([q EXCEPT !.code = c], q, {"code"})
    BY <1>2, SetCode DEF PromoFields
  <2>2. \E w \in {"CONFIGURATOR", "CODE"} : Promocodes!Change(a, {"code"}, [q EXCEPT !.code = c], w)
    BY <1>4 DEF Promocodes!CodeRegenerate, Promocodes!CodeInput
  <2> QED BY <1>1, <2>1, <2>2, PromoChangeKeeps
<1>5. ASSUME NEW type \in Promocodes!Type, Promocodes!TypeSelect(a, type) PROVE PromoInv'
  <2>1. {"type", "reward", "plan"} \in SUBSET PromoFields
        /\ PromoSets(Promocodes!Typed(q, type), q, {"type", "reward", "plan"})
    BY <1>2, PromoSetType DEF PromoFields
  <2>2. Promocodes!Change(a, {"type", "reward", "plan"}, Promocodes!Typed(q, type), "CONFIGURATOR")
    BY <1>5 DEF Promocodes!TypeSelect
  <2> QED BY <1>1, <2>1, <2>2, PromoChangeKeeps
<1>6. ASSUME NEW reward \in Reward, Promocodes!RewardInput(a, reward) PROVE PromoInv'
  <2>1. /\ draft[a].window = "REWARD" /\ (q.type \in Promocodes!Discounts => reward \in 1 .. 100)
        /\ Promocodes!Change(a, {"reward"}, [q EXCEPT !.reward = reward], "CONFIGURATOR")
    BY <1>6 DEF Promocodes!RewardInput, Promocodes!In
  <2>2. q.type # "SUBSCRIPTION"
    BY <1>1, <1>2, <2>1 DEF PromoForm
  <2>3. {"reward"} \in SUBSET PromoFields /\ PromoSets([q EXCEPT !.reward = reward], q, {"reward"})
    BY <1>2, <2>1, <2>2, SetReward DEF PromoFields
  <2> QED BY <1>1, <2>1, <2>3, PromoChangeKeeps
<1>7. ASSUME NEW days \in Days, Promocodes!PlanDurationSelect(a, days) PROVE PromoInv'
  <2>1. PICK v : v = <<draft[a].plan, days>>
    OBVIOUS
  <2>2. /\ draft[a].window = "PLAN_DURATION" /\ v \in offered
        /\ Promocodes!Change(a, {"plan", "reward"}, [q EXCEPT !.plan = v, !.reward = None],
                             "CONFIGURATOR")
    BY <1>7, <2>1 DEF Promocodes!PlanDurationSelect, Promocodes!In
  <2>3. q.type = "SUBSCRIPTION" /\ v \in Sold \X Days
    BY <1>1, <1>2, <2>2 DEF PromoForm, PromoInv, PromoTypes
  <2>4. {"plan", "reward"} \in SUBSET PromoFields
        /\ PromoSets([q EXCEPT !.plan = v, !.reward = None], q, {"plan", "reward"})
    BY <1>2, <2>3, SetPlan DEF PromoFields
  <2> QED BY <1>1, <2>2, <2>4, PromoChangeKeeps
<1>8. ASSUME NEW v \in {"ALL", "NEW"}, Promocodes!AvailabilitySelect(a, v) PROVE PromoInv'
  <2>1. {"availability"} \in SUBSET PromoFields
        /\ PromoSets([q EXCEPT !.availability = v], q, {"availability"})
    BY <1>2, PromoSetAvailability DEF PromoFields
  <2>2. Promocodes!Change(a, {"availability"}, [q EXCEPT !.availability = v], "CONFIGURATOR")
    BY <1>8 DEF Promocodes!AvailabilitySelect
  <2> QED BY <1>1, <2>1, <2>2, PromoChangeKeeps
<1>9. CASE Promocodes!ExpiresInput(a) \/ Promocodes!ExpiresReset(a)
  <2>1. PICK v \in {1, None} :
          Promocodes!Change(a, {"expires"}, [q EXCEPT !.expires = v], "CONFIGURATOR")
    BY <1>9 DEF Promocodes!ExpiresInput, Promocodes!ExpiresReset
  <2>2. {"expires"} \in SUBSET PromoFields /\ PromoSets([q EXCEPT !.expires = v], q, {"expires"})
    BY <1>2, SetExpires DEF PromoFields
  <2> QED BY <1>1, <2>1, <2>2, PromoChangeKeeps
<1>10. CASE Promocodes!MaxActivationsInput(a) \/ Promocodes!MaxActivationsReset(a)
  <2>1. PICK v \in {1, None} :
          Promocodes!Change(a, {"limit"}, [q EXCEPT !.limit = v], "CONFIGURATOR")
    BY <1>10 DEF Promocodes!MaxActivationsInput, Promocodes!MaxActivationsReset
  <2>2. {"limit"} \in SUBSET PromoFields /\ PromoSets([q EXCEPT !.limit = v], q, {"limit"})
    BY <1>2, SetLimit DEF PromoFields
  <2> QED BY <1>1, <2>1, <2>2, PromoChangeKeeps
<1> QED BY <1>3, <1>4, <1>5, <1>6, <1>7, <1>8, <1>9, <1>10

\* A plan is chosen, to choose its duration next.
LEMMA PromoPlanSelectKeeps ==
  ASSUME Promocodes!ConstantsAssumption, PromoInv, NEW a \in Admin, NEW chosen \in Sold,
         Promocodes!PlanSelect(a, chosen)
  PROVE PromoInv'
<1> DEFINE g == [draft[a] EXCEPT !.plan = chosen, !.window = "PLAN_DURATION"]
<1>1. /\ Promocodes!Free(a) /\ draft[a] # None /\ draft[a].window = "PLAN"
      /\ draft' = [draft EXCEPT ![a] = g]
      /\ UNCHANGED <<listing, promo, coined, offered, save, mixed>>
  BY DEF Promocodes!PlanSelect, Promocodes!In
<1>2. draft[a] \in Promocodes!Form /\ PromoForm(a)
  BY <1>1, InIs DEF Promocodes!Free
<1>3. /\ g \in Promocodes!Form /\ g.id = draft[a].id /\ g.promo = draft[a].promo
      /\ g.based = draft[a].based
      /\ g.touched = draft[a].touched /\ g.window = "PLAN_DURATION"
  BY <1>2 DEF Promocodes!Form, Promocodes!Window
<1> HIDE DEF g
<1>4. draft[a].promo.type = "SUBSCRIPTION" /\ "PLAN_DURATION" \in Promocodes!Window
  BY <1>1, <1>2 DEF PromoForm, Promocodes!Window
<1> QED BY <1>1, <1>3, <1>4, PromoShowsKeeps

\* The shop loses a plan.
LEMMA PromoPlanGoneKeeps ==
  ASSUME Promocodes!ConstantsAssumption, PromoInv, NEW chosen, Promocodes!PlanGone(chosen)
  PROVE PromoInv'
<1>1. PromoTypes' /\ PromoBorn' /\ Promocodes!PromocodesAreSound'
  BY DEF Promocodes!PlanGone, PromoInv, PromoTypes, PromoBorn, Promocodes!PromocodesAreSound,
     Promocodes!Existing
<1>2. ASSUME NEW x \in Admin PROVE PromoForm(x)' /\ PromoJob(x)'
  BY PromoUntouched DEF Promocodes!PlanGone, PromoInv, PromoForms, PromoJobs
<1> QED BY <1>1, <1>2 DEF PromoInv, PromoForms, PromoJobs

\* A form whose row is gone closes; otherwise the row is read.
LEMMA PromoConfirmEditKeeps ==
  ASSUME Promocodes!ConstantsAssumption, PromoInv, NEW a \in Admin, Promocodes!ConfirmEdit(a)
  PROVE PromoInv'
<1>0. PICK p : p = draft[a].id
  OBVIOUS
<1>1. /\ save[a] = None /\ draft[a] # None /\ p # None /\ Promocodes!Complete(draft[a].promo)
      /\ UNCHANGED <<listing, promo, coined, offered, mixed>>
  BY <1>0 DEF Promocodes!ConfirmEdit, Promocodes!In, Promocodes!Free
<1>2. draft[a] \in Promocodes!Form /\ PromoForm(a) /\ p \in PromoId
  BY <1>0, <1>1, InIs DEF Promocodes!Form
<1>3. CASE p \notin Promocodes!Existing
  <2>1. draft' = [draft EXCEPT ![a] = None] /\ save' = save
    BY <1>0, <1>3 DEF Promocodes!ConfirmEdit
  <2>2. draft'[a] = None /\ offered' \in SUBSET (Sold \X Days)
    BY <1>1, <2>1 DEF PromoInv, PromoTypes
  <2>3. PromoForm(a)'
    BY <2>2 DEF PromoForm
  <2> QED BY <1>1, <2>1, <2>2, <2>3, PromoFormKeeps
<1>4. CASE p \in Promocodes!Existing
  <2> DEFINE j == [loaded |-> promo[p], fresh |-> TRUE, based |-> draft[a].based]
  <2>1. save' = [save EXCEPT ![a] = j] /\ draft' = draft
    BY <1>0, <1>4 DEF Promocodes!ConfirmEdit
  <2>2. promo[p] \in Promocodes!PromocodeDto
    BY <1>4, PromoRowIs
  <2>3. draft[a].based \in BOOLEAN
    BY <1>2 DEF Promocodes!Form
  <2>4. j \in Promocodes!Job /\ j.loaded = promo[p] /\ j.based = draft[a].based
    BY <2>2, <2>3 DEF Promocodes!Job
  <2> HIDE DEF j
  <2>5. save'[a] = j /\ PromoTypes'
    BY <1>1, <2>1, <2>4 DEF PromoInv, PromoTypes
  <2>6. Promocodes!Existing' = Promocodes!Existing
    BY <1>1 DEF Promocodes!Existing
  <2>7. PromoBorn' /\ Promocodes!PromocodesAreSound'
    BY <1>1, <2>6 DEF PromoInv, PromoBorn, Promocodes!PromocodesAreSound
  <2>8. \A x \in Admin : PromoForm(x)'
    BY <1>1, <2>1, PromoUntouched DEF PromoInv, PromoForms
  <2>9. PromoJob(a)'
    <3>1. save'[a].loaded = promo[p] /\ save'[a].based = draft[a].based
      BY <2>4, <2>5
    <3>2. save'[a].based => PromoAgree(draft[a].promo, promo[p], draft[a].touched)
      BY <1>0, <1>1, <1>2, <3>1 DEF PromoForm
    <3>3. p \in Promocodes!Existing' /\ promo'[p] = promo[p] /\ draft' = draft
      BY <1>1, <1>4, <2>1, <2>6
    <3> HIDE DEF j
    <3> QED BY <1>0, <1>1, <3>1, <3>2, <3>3 DEF PromoJob, PromoAgree, Promocodes!Complete
  <2>10. ASSUME NEW x \in Admin \ {a} PROVE PromoJob(x)'
    <3>1. save'[x] = save[x]
      BY <2>1 DEF PromoInv, PromoTypes
    <3>2. PromoJob(x)
      BY DEF PromoInv, PromoJobs
    <3> QED BY <1>1, <2>1, <3>1, <3>2, PromoUntouched
  <2> QED BY <2>5, <2>7, <2>8, <2>9, <2>10 DEF PromoInv, PromoForms, PromoJobs
<1> QED BY <1>3, <1>4

\* What a's command that wrote p makes of the forms and the updates.
PromoAfter(a, p) ==
  /\ draft' \in [Admin -> Promocodes!Form \cup {None}] /\ draft'[a] = None
  /\ save' \in [Admin -> Promocodes!Job \cup {None}] /\ save'[a] = None
  /\ \A x \in Admin \ {a} :
       /\ draft'[x] = None <=> draft[x] = None
       /\ draft[x] # None =>
            /\ draft'[x].id = draft[x].id /\ draft'[x].promo = draft[x].promo
            /\ draft'[x].touched = draft[x].touched /\ draft'[x].window = draft[x].window
            /\ draft'[x].based => draft[x].based /\ draft[x].id # p
       /\ save'[x] = None <=> save[x] = None
       /\ save[x] # None =>
            /\ save'[x].loaded = save[x].loaded /\ save'[x].based = save[x].based
            /\ save'[x].fresh => save[x].fresh /\ draft[x].id # p

\* Wrote does that.
LEMMA WroteIs ==
  ASSUME Promocodes!ConstantsAssumption, PromoInv, NEW a \in Admin, NEW p, Promocodes!Wrote(a, p)
  PROVE PromoAfter(a, p)
<1> DEFINE OldForm(x) == [draft[x] EXCEPT !.based = FALSE]
           OldJob(x) == [save[x] EXCEPT !.fresh = FALSE]
<1>1. draft'[a] = None /\ save'[a] = None
  BY DEF Promocodes!Wrote
<1>2. ASSUME NEW x \in Admin \ {a}
      PROVE /\ draft'[x] = IF draft[x] # None /\ draft[x].id = p THEN OldForm(x) ELSE draft[x]
            /\ save'[x] = IF save[x] # None /\ draft[x].id = p THEN OldJob(x) ELSE save[x]
  BY DEF Promocodes!Wrote
<1>3. ASSUME NEW x \in Admin, draft[x] # None
      PROVE /\ OldForm(x) \in Promocodes!Form /\ OldForm(x) # None /\ ~OldForm(x).based
            /\ OldForm(x).id = draft[x].id /\ OldForm(x).promo = draft[x].promo
            /\ OldForm(x).touched = draft[x].touched /\ OldForm(x).window = draft[x].window
  <2>1. draft[x] \in Promocodes!Form
    BY <1>3 DEF PromoInv, PromoTypes
  <2>2. /\ OldForm(x) \in Promocodes!Form /\ ~OldForm(x).based
        /\ OldForm(x).id = draft[x].id /\ OldForm(x).promo = draft[x].promo
        /\ OldForm(x).touched = draft[x].touched /\ OldForm(x).window = draft[x].window
    BY <2>1 DEF Promocodes!Form
  <2> HIDE DEF OldForm
  <2> QED BY <2>2, PromoNoneApart
<1>4. ASSUME NEW x \in Admin, save[x] # None
      PROVE /\ OldJob(x) \in Promocodes!Job /\ OldJob(x) # None /\ ~OldJob(x).fresh
            /\ OldJob(x).loaded = save[x].loaded /\ OldJob(x).based = save[x].based
  <2>1. save[x] \in Promocodes!Job
    BY <1>4 DEF PromoInv, PromoTypes
  <2>2. /\ OldJob(x) \in Promocodes!Job /\ ~OldJob(x).fresh
        /\ OldJob(x).loaded = save[x].loaded /\ OldJob(x).based = save[x].based
    BY <2>1 DEF Promocodes!Job
  <2> HIDE DEF OldJob
  <2> QED BY <2>2, PromoNoneApart
<1> HIDE DEF OldForm, OldJob
<1>5. draft' \in [Admin -> Promocodes!Form \cup {None}]
      /\ save' \in [Admin -> Promocodes!Job \cup {None}]
  <2>1. \A x \in Admin :
            draft'[x] \in Promocodes!Form \cup {None} /\ save'[x] \in Promocodes!Job \cup {None}
    BY <1>1, <1>2, <1>3, <1>4 DEF PromoInv, PromoTypes
  <2>2. draft' = [x \in Admin |-> draft'[x]] /\ save' = [x \in Admin |-> save'[x]]
    BY DEF Promocodes!Wrote
  <2> QED BY <2>1, <2>2
<1> QED BY <1>1, <1>2, <1>3, <1>4, <1>5 DEF PromoAfter

\* A command of a ends and leaves the rows apart from p alone.
LEMMA PromoCommandKeeps ==
  ASSUME Promocodes!ConstantsAssumption, PromoInv, NEW a \in Admin, NEW p, PromoAfter(a, p),
         promo' \in [PromoId -> Promocodes!PromocodeDto \cup {None}],
         UNCHANGED <<listing, offered>>,
         coined \subseteq coined', coined' \in SUBSET PromoId,
         Promocodes!Existing' \subseteq coined',
         mixed \subseteq mixed', mixed' \in SUBSET PromoId,
         \A q \in coined \ {p} : promo'[q] = promo[q],
         \A q \in Promocodes!Existing' \ mixed' : Promocodes!Sound(promo'[q])
  PROVE PromoInv'
<1>1. PromoTypes'
  BY DEF PromoInv, PromoTypes, PromoAfter
<1>2. PromoBorn' /\ Promocodes!PromocodesAreSound'
  BY DEF PromoBorn, Promocodes!PromocodesAreSound
<1>3. PromoForm(a)' /\ PromoJob(a)'
  BY DEF PromoAfter, PromoForm, PromoJob
<1>4. ASSUME NEW x \in Admin \ {a} PROVE PromoForm(x)'
  <2>1. CASE draft[x] = None
    BY <2>1 DEF PromoAfter, PromoForm
  <2>2. CASE draft[x] # None
    <3>1. PromoForm(x)
      BY DEF PromoInv, PromoForms
    <3>2. /\ draft'[x].id = draft[x].id /\ draft'[x].promo = draft[x].promo
          /\ draft'[x].touched = draft[x].touched /\ draft'[x].window = draft[x].window
          /\ draft'[x].based => draft[x].based /\ draft[x].id # p
      BY <2>2 DEF PromoAfter
    <3>3. draft[x].id # None => draft[x].id \in coined'
      BY <2>2, <3>1 DEF PromoForm
    <3>4. draft[x].id \notin mixed' => PromoFits(draft[x].promo)
      BY <2>2, <3>1 DEF PromoForm
    <3>5. ASSUME draft'[x].based, draft[x].id # None
          PROVE /\ draft[x].id \in Promocodes!Existing'
                /\ PromoAgree(draft[x].promo, promo'[draft[x].id], draft[x].touched)
      <4>1. draft[x].id \in Promocodes!Existing
            /\ PromoAgree(draft[x].promo, promo[draft[x].id], draft[x].touched)
        BY <2>2, <3>1, <3>2, <3>5 DEF PromoForm
      <4>2. promo'[draft[x].id] = promo[draft[x].id]
        BY <3>2, <3>5, <4>1 DEF PromoInv, PromoBorn
      <4> QED BY <4>1, <4>2 DEF Promocodes!Existing
    <3> QED BY <2>2, <3>1, <3>2, <3>3, <3>4, <3>5 DEF PromoForm, PromoAgree
  <2> QED BY <2>1, <2>2
<1>5. ASSUME NEW x \in Admin \ {a} PROVE PromoJob(x)'
  <2>1. CASE save[x] = None
    BY <2>1 DEF PromoAfter, PromoJob
  <2>2. CASE save[x] # None
    <3>1. /\ draft[x] # None /\ draft[x].id # None /\ Promocodes!Complete(draft[x].promo)
          /\ save[x].fresh =>
                 draft[x].id \in Promocodes!Existing /\ promo[draft[x].id] = save[x].loaded
          /\ save[x].based => PromoAgree(draft[x].promo, save[x].loaded, draft[x].touched)
      BY <2>2 DEF PromoInv, PromoJobs, PromoJob
    <3>2. /\ draft'[x] # None /\ draft'[x].id = draft[x].id /\ draft'[x].promo = draft[x].promo
          /\ draft'[x].touched = draft[x].touched
          /\ save'[x].loaded = save[x].loaded /\ save'[x].based = save[x].based
          /\ save'[x].fresh => save[x].fresh /\ draft[x].id # p
      BY <2>2, <3>1 DEF PromoAfter
    <3>3. ASSUME save'[x].fresh
          PROVE draft[x].id \in Promocodes!Existing' /\ promo'[draft[x].id] = save[x].loaded
      <4>1. draft[x].id \in Promocodes!Existing /\ promo[draft[x].id] = save[x].loaded
            /\ draft[x].id # p
        BY <3>1, <3>2, <3>3
      <4>2. promo'[draft[x].id] = promo[draft[x].id]
        BY <4>1 DEF PromoInv, PromoBorn
      <4> QED BY <4>1, <4>2 DEF Promocodes!Existing
    <3> QED BY <3>1, <3>2, <3>3 DEF PromoJob, PromoAgree, Promocodes!Complete
  <2> QED BY <2>1, <2>2
<1> QED BY <1>1, <1>2, <1>3, <1>4, <1>5 DEF PromoInv, PromoForms, PromoJobs

\* A draft that fits and is complete is sound.
LEMMA FitsAndComplete ==
  ASSUME NEW shown \in Promocodes!PromocodeDto, PromoFits(shown), Promocodes!Complete(shown)
  PROVE Promocodes!Sound(shown) /\ Promocodes!Stored(shown) \in Promocodes!PromocodeDto
        /\ Promocodes!Sound(Promocodes!Stored(shown))
<1> DEFINE new == [shown EXCEPT !.active = TRUE, !.reusable = FALSE]
<1>1. /\ new \in Promocodes!PromocodeDto /\ new.type = shown.type /\ new.plan = shown.plan
      /\ new.reward = shown.reward
  BY DEF Promocodes!PromocodeDto
<1>2. Promocodes!Sound(shown)
  BY DEF PromoFits, Promocodes!Complete, Promocodes!Sound, Promocodes!Discounts
<1> HIDE DEF new
<1>3. Promocodes!Sound(new)
  BY <1>1, <1>2 DEF Promocodes!Sound
<1>4. Promocodes!Stored(shown) = new
  BY DEF Promocodes!Stored, new
<1> QED BY <1>1, <1>2, <1>3, <1>4

\* A new promocode is stored.
LEMMA PromoConfirmNewKeeps ==
  ASSUME Promocodes!ConstantsAssumption, PromoInv, NEW a \in Admin, NEW p \in PromoId,
         Promocodes!ConfirmNew(a, p)
  PROVE PromoInv'
<1> DEFINE made == Promocodes!Stored(draft[a].promo)
           new == [promo EXCEPT ![p] = made]
<1>1. /\ save[a] = None /\ draft[a] # None /\ draft[a].id = None
      /\ Promocodes!Complete(draft[a].promo)
      /\ p \notin coined /\ promo' = new /\ coined' = coined \cup {p} /\ Promocodes!Wrote(a, p)
      /\ UNCHANGED <<listing, offered, mixed>>
  BY DEF Promocodes!ConfirmNew, Promocodes!In, Promocodes!Free
<1>2. draft[a].promo \in Promocodes!PromocodeDto /\ PromoForm(a) /\ PromoTypes
  BY <1>1, InIs DEF PromoInv
<1>3. PromoFits(draft[a].promo)
  <2>1. None \notin mixed
    BY <1>2, PromoNoneApart DEF PromoTypes
  <2> QED BY <1>1, <1>2, <2>1 DEF PromoForm
<1>4. made \in Promocodes!PromocodeDto /\ Promocodes!Sound(made)
  BY <1>1, <1>2, <1>3, FitsAndComplete
<1> HIDE DEF made
<1>5. promo \in [PromoId -> Promocodes!PromocodeDto \cup {None}]
  BY <1>2 DEF PromoTypes
<1>6. /\ new \in [PromoId -> Promocodes!PromocodeDto \cup {None}] /\ new[p] = made
      /\ \A q \in PromoId \ {p} : new[q] = promo[q]
  BY <1>4, <1>5
<1> HIDE DEF new
<1>7. Promocodes!Existing' = Promocodes!Existing \cup {p}
  BY <1>1, <1>4, <1>6, PromoNoneApart DEF Promocodes!Existing
<1>8. coined \in SUBSET PromoId /\ Promocodes!Existing \subseteq coined
  BY <1>2 DEF PromoTypes, PromoInv, PromoBorn
<1>9. \A q \in coined \ {p} : promo'[q] = promo[q]
  BY <1>1, <1>6, <1>8
<1>10. \A q \in Promocodes!Existing' \ mixed' : Promocodes!Sound(promo'[q])
  <2>1. TAKE q \in Promocodes!Existing' \ mixed'
  <2>2. CASE q = p
    BY <1>1, <1>4, <1>6, <2>2
  <2>3. CASE q # p
    <3>1. q \in Promocodes!Existing \ mixed
      BY <1>1, <1>7, <2>3
    <3>2. promo'[q] = promo[q]
      BY <1>8, <1>9, <2>3, <3>1
    <3> QED BY <3>1, <3>2 DEF PromoInv, Promocodes!PromocodesAreSound
  <2> QED BY <2>2, <2>3
<1>11. PromoAfter(a, p)
  BY <1>1, WroteIs
<1>12. /\ coined \subseteq coined' /\ coined' \in SUBSET PromoId
       /\ Promocodes!Existing' \subseteq coined'
       /\ mixed \subseteq mixed' /\ mixed' \in SUBSET PromoId
       /\ promo' \in [PromoId -> Promocodes!PromocodeDto \cup {None}]
  BY <1>1, <1>2, <1>6, <1>7, <1>8 DEF PromoTypes
<1> QED BY <1>1, <1>9, <1>10, <1>11, <1>12, PromoCommandKeeps

\* What an update writes, field by field.
LEMMA PromoUpdatedIs ==
  ASSUME NEW shown \in Promocodes!PromocodeDto, NEW loaded \in Promocodes!PromocodeDto,
         NEW now \in Promocodes!PromocodeDto
  PROVE /\ Promocodes!Updated(shown, loaded, now) \in Promocodes!PromocodeDto
        /\ \A f \in PromoFields : Promocodes!Updated(shown, loaded, now)[f] =
                               IF shown[f] # loaded[f] THEN shown[f] ELSE now[f]
        /\ loaded = now => Promocodes!Updated(shown, loaded, now) = shown
<1> DEFINE new == Promocodes!Updated(shown, loaded, now)
<1>1. /\ DOMAIN shown = PromoFields
      /\ new = [f \in PromoFields |-> IF shown[f] # loaded[f] THEN shown[f] ELSE now[f]]
  BY DEF Promocodes!Updated, Promocodes!PromocodeDto, PromoFields
<1>2. \A f \in PromoFields : new[f] = IF shown[f] # loaded[f] THEN shown[f] ELSE now[f]
  BY <1>1
<1>3. new = [code |-> new.code, active |-> new.active, reusable |-> new.reusable,
             type |-> new.type, reward |-> new.reward, plan |-> new.plan,
             availability |-> new.availability, expires |-> new.expires, limit |-> new.limit]
  BY <1>1 DEF PromoFields
<1> HIDE DEF new
<1>4. /\ new.code \in {shown.code, now.code} /\ new.active \in {shown.active, now.active}
      /\ new.reusable \in {shown.reusable, now.reusable} /\ new.type \in {shown.type, now.type}
      /\ new.reward \in {shown.reward, now.reward} /\ new.plan \in {shown.plan, now.plan}
      /\ new.availability \in {shown.availability, now.availability}
      /\ new.expires \in {shown.expires, now.expires} /\ new.limit \in {shown.limit, now.limit}
  BY <1>2 DEF PromoFields
<1>5. /\ new.code \in Code /\ new.active \in BOOLEAN /\ new.reusable \in BOOLEAN
      /\ new.type \in Promocodes!Type /\ new.reward \in Reward \cup {None}
      /\ new.plan \in (Sold \X Days) \cup {None}
      /\ new.availability \in {"ALL", "NEW"} /\ new.expires \in {1, None}
      /\ new.limit \in {1, None}
  BY <1>4 DEF Promocodes!PromocodeDto
<1>6. new \in Promocodes!PromocodeDto
  BY <1>3, <1>5 DEF Promocodes!PromocodeDto
<1>7. ASSUME loaded = now PROVE new = shown
  <2>1. \A f \in PromoFields : new[f] = shown[f]
    BY <1>2, <1>7
  <2> QED BY <1>6, <2>1 DEF Promocodes!PromocodeDto, PromoFields
<1> QED BY <1>2, <1>6, <1>7 DEF new

\* The draft is written over a row that may have changed since.
LEMMA PromoWriteEditKeeps ==
  ASSUME Promocodes!ConstantsAssumption, PromoInv, NEW a \in Admin, Promocodes!WriteEdit(a)
  PROVE PromoInv'
<1>0. PICK p : p = draft[a].id
  OBVIOUS
<1> DEFINE new == Promocodes!Updated(draft[a].promo, save[a].loaded, promo[p])
<1>1. save[a] # None /\ UNCHANGED <<listing, coined, offered>>
  BY DEF Promocodes!WriteEdit
<1>2. PromoJob(a) /\ PromoForm(a) /\ PromoTypes /\ coined \in SUBSET PromoId
      /\ Promocodes!Existing \subseteq coined
  BY DEF PromoInv, PromoJobs, PromoForms, PromoTypes, PromoBorn
<1>3. draft[a] # None /\ p # None /\ Promocodes!Complete(draft[a].promo)
  BY <1>0, <1>1, <1>2 DEF PromoJob
<1>4. draft[a] \in Promocodes!Form /\ save[a] \in Promocodes!Job
  BY <1>1, <1>2, <1>3 DEF PromoTypes
<1>5. draft[a].promo \in Promocodes!PromocodeDto /\ p \in PromoId
      /\ save[a].loaded \in Promocodes!PromocodeDto
  BY <1>0, <1>3, <1>4 DEF Promocodes!Form, Promocodes!Job
<1>6. CASE ~(/\ p \in Promocodes!Existing
             /\ \A q \in Promocodes!Existing \ {p} : promo[q].code # new.code)
  <2>1. /\ save' = [save EXCEPT ![a] = None] /\ draft' = [draft EXCEPT ![a] = None]
        /\ UNCHANGED <<promo, mixed>>
    BY <1>0, <1>6 DEF Promocodes!WriteEdit
  <2>2. PromoTypes' /\ draft'[a] = None /\ save'[a] = None
    BY <1>1, <1>2, <2>1 DEF PromoTypes
  <2>3. PromoBorn' /\ Promocodes!PromocodesAreSound'
    BY <1>1, <2>1 DEF PromoInv, PromoBorn, Promocodes!PromocodesAreSound, Promocodes!Existing
  <2>4. PromoForm(a)' /\ PromoJob(a)'
    BY <2>2 DEF PromoForm, PromoJob
  <2>5. ASSUME NEW x \in Admin \ {a} PROVE PromoForm(x)' /\ PromoJob(x)'
    <3>1. draft'[x] = draft[x] /\ save'[x] = save[x]
      BY <1>2, <2>1 DEF PromoTypes
    <3>2. PromoForm(x) /\ PromoJob(x)
      BY DEF PromoInv, PromoForms, PromoJobs
    <3> QED BY <1>1, <2>1, <3>1, <3>2, PromoUntouched
  <2> QED BY <2>2, <2>3, <2>4, <2>5 DEF PromoInv, PromoForms, PromoJobs
<1>7. CASE /\ p \in Promocodes!Existing
           /\ \A q \in Promocodes!Existing \ {p} : promo[q].code # new.code
  <2>1. /\ promo' = [promo EXCEPT ![p] = new] /\ Promocodes!Wrote(a, p)
        /\ mixed' = IF save[a].fresh THEN mixed ELSE mixed \cup {p}
    BY <1>0, <1>7 DEF Promocodes!WriteEdit
  <2>2. promo[p] \in Promocodes!PromocodeDto
    BY <1>7, PromoRowIs
  <2>3. new \in Promocodes!PromocodeDto /\ (save[a].loaded = promo[p] => new = draft[a].promo)
    BY <1>5, <2>2, PromoUpdatedIs
  <2> HIDE DEF new
  <2>4. promo \in [PromoId -> Promocodes!PromocodeDto \cup {None}] /\ mixed \in SUBSET PromoId
    BY <1>2 DEF PromoTypes
  <2>5. /\ promo' \in [PromoId -> Promocodes!PromocodeDto \cup {None}] /\ promo'[p] = new
        /\ \A q \in PromoId \ {p} : promo'[q] = promo[q]
    BY <1>5, <2>1, <2>3, <2>4
  <2>6. new # None
    BY <2>3, PromoNoneApart
  <2>7. Promocodes!Existing' = Promocodes!Existing
    BY <1>7, <2>5, <2>6 DEF Promocodes!Existing
  <2>8. ASSUME p \notin mixed' PROVE Promocodes!Sound(new)
    <3>1. save[a].fresh /\ p \notin mixed
      BY <2>1, <2>8
    <3>2. new = draft[a].promo
      BY <1>0, <1>1, <1>2, <2>3, <3>1 DEF PromoJob
    <3>3. PromoFits(draft[a].promo)
      BY <1>0, <1>2, <1>3, <3>1 DEF PromoForm
    <3> QED BY <1>3, <1>5, <3>2, <3>3, FitsAndComplete
  <2>9. \A q \in Promocodes!Existing' \ mixed' : Promocodes!Sound(promo'[q])
    <3>1. TAKE q \in Promocodes!Existing' \ mixed'
    <3>2. CASE q = p
      BY <2>5, <2>8, <3>2
    <3>3. CASE q # p
      <4>1. q \in Promocodes!Existing \ mixed /\ q \in PromoId \ {p}
        BY <2>1, <2>7, <3>3 DEF Promocodes!Existing
      <4>2. promo'[q] = promo[q]
        BY <2>5, <4>1
      <4> QED BY <4>1, <4>2 DEF PromoInv, Promocodes!PromocodesAreSound
    <3> QED BY <3>2, <3>3
  <2>10. PromoAfter(a, p)
    BY <2>1, WroteIs
  <2>11. /\ coined \subseteq coined' /\ coined' \in SUBSET PromoId
         /\ Promocodes!Existing' \subseteq coined'
         /\ mixed \subseteq mixed' /\ mixed' \in SUBSET PromoId
         /\ \A q \in coined \ {p} : promo'[q] = promo[q]
    BY <1>1, <1>2, <1>5, <2>1, <2>4, <2>5, <2>7
  <2> QED BY <1>1, <2>5, <2>9, <2>10, <2>11, PromoCommandKeeps
<1> QED BY <1>6, <1>7

\* A row is deleted.
LEMMA PromoDeleteKeeps ==
  ASSUME Promocodes!ConstantsAssumption, PromoInv, NEW a \in Admin, Promocodes!Delete(a)
  PROVE PromoInv'
<1>0. PICK p : p = draft[a].id
  OBVIOUS
<1>1. /\ save[a] = None /\ draft[a] # None /\ p # None /\ promo' = [promo EXCEPT ![p] = None]
      /\ Promocodes!Wrote(a, p) /\ UNCHANGED <<listing, coined, offered, mixed>>
  BY <1>0 DEF Promocodes!Delete, Promocodes!In, Promocodes!Free
<1>2. promo \in [PromoId -> Promocodes!PromocodeDto \cup {None}] /\ mixed \in SUBSET PromoId
      /\ coined \in SUBSET PromoId /\ Promocodes!Existing \subseteq coined
  BY DEF PromoInv, PromoTypes, PromoBorn
<1>3. /\ promo' \in [PromoId -> Promocodes!PromocodeDto \cup {None}]
      /\ \A q \in PromoId \ {p} : promo'[q] = promo[q]
      /\ \A q \in PromoId : promo'[q] # None => promo'[q] = promo[q]
  BY <1>1, <1>2
<1>4. Promocodes!Existing' \subseteq Promocodes!Existing
  BY <1>3 DEF Promocodes!Existing
<1>5. \A q \in Promocodes!Existing' \ mixed' : Promocodes!Sound(promo'[q])
  BY <1>1, <1>3, <1>4 DEF PromoInv, Promocodes!PromocodesAreSound, Promocodes!Existing
<1>6. PromoAfter(a, p)
  BY <1>1, WroteIs
<1>7. /\ coined \subseteq coined' /\ coined' \in SUBSET PromoId
      /\ Promocodes!Existing' \subseteq coined'
      /\ mixed \subseteq mixed' /\ mixed' \in SUBSET PromoId
      /\ \A q \in coined \ {p} : promo'[q] = promo[q]
  BY <1>1, <1>2, <1>3, <1>4
<1> QED BY <1>1, <1>3, <1>5, <1>6, <1>7, PromoCommandKeeps

\* Every step keeps the invariant, ...
LEMMA PromoNextKeeps ==
  ASSUME Promocodes!ConstantsAssumption, PromoInv, Promocodes!Next
  PROVE PromoInv'
<1>1. ASSUME NEW a \in Admin, NEW p \in PromoId,
             Promocodes!Select(a, p) \/ Promocodes!ConfirmNew(a, p)
      PROVE  PromoInv'
  BY <1>1, PromoSelectKeeps, PromoConfirmNewKeeps
<1>2. ASSUME NEW a \in Admin, NEW c \in Code, Promocodes!Create(a, c) PROVE PromoInv'
  BY <1>2, PromoCreateKeeps
<1>3. ASSUME NEW a \in Admin, NEW w,
             Promocodes!SwitchTo(a, w) \/ Promocodes!PlanOpen(a) \/ Promocodes!Back(a)
      PROVE  PromoInv'
  BY <1>3, PromoWindowsKeep
<1>4. ASSUME NEW a \in Admin, NEW chosen \in Sold, Promocodes!PlanSelect(a, chosen) PROVE PromoInv'
  BY <1>4, PromoPlanSelectKeeps
<1>5. ASSUME NEW a \in Admin,
             \/ Promocodes!ToggleActive(a) \/ Promocodes!ToggleReusable(a)
             \/ \E c \in Code : Promocodes!CodeRegenerate(a, c) \/ Promocodes!CodeInput(a, c)
             \/ \E type \in Promocodes!Type : Promocodes!TypeSelect(a, type)
             \/ \E reward \in Reward : Promocodes!RewardInput(a, reward)
             \/ \E days \in Days : Promocodes!PlanDurationSelect(a, days)
             \/ \E v \in {"ALL", "NEW"} : Promocodes!AvailabilitySelect(a, v)
             \/ Promocodes!ExpiresInput(a) \/ Promocodes!ExpiresReset(a)
             \/ Promocodes!MaxActivationsInput(a) \/ Promocodes!MaxActivationsReset(a)
      PROVE PromoInv'
  BY <1>5, PromoHandlersKeep
<1>6. ASSUME NEW a \in Admin,
             \/ Promocodes!Leave(a) \/ Promocodes!ConfirmEdit(a)
             \/ Promocodes!WriteEdit(a) \/ Promocodes!Delete(a)
      PROVE  PromoInv'
  BY <1>6, PromoLeaveKeeps, PromoConfirmEditKeeps, PromoWriteEditKeeps, PromoDeleteKeeps
<1>7. ASSUME NEW chosen, Promocodes!PlanGone(chosen) PROVE PromoInv'
  BY <1>7, PromoPlanGoneKeeps
<1> QED BY <1>1, <1>2, <1>3, <1>4, <1>5, <1>6, <1>7 DEF Promocodes!Next

\* ... so does none, ...
LEMMA PromoStutterKeeps ==
  ASSUME PromoInv, UNCHANGED Promocodes!vars
  PROVE PromoInv'
<1>1. UNCHANGED <<listing, promo, coined, offered, draft, save, mixed>>
  BY DEF Promocodes!vars
<1>2. PromoTypes' /\ PromoBorn' /\ Promocodes!PromocodesAreSound'
  BY <1>1 DEF PromoInv, PromoTypes, PromoBorn, Promocodes!PromocodesAreSound, Promocodes!Existing
<1>3. ASSUME NEW x \in Admin PROVE PromoForm(x)' /\ PromoJob(x)'
  BY <1>1, PromoUntouched DEF PromoInv, PromoForms, PromoJobs
<1> QED BY <1>2, <1>3 DEF PromoInv, PromoForms, PromoJobs

\* ... and it always holds.
LEMMA PromosAlways ==
  ASSUME Promocodes!ConstantsAssumption
  PROVE Promocodes!Spec => []PromoInv
<1>1. Promocodes!Init => PromoInv
  BY InitPromos
<1>2. PromoInv /\ [Promocodes!Next]_(Promocodes!vars) => PromoInv'
  BY PromoNextKeeps, PromoStutterKeeps
<1> QED BY <1>1, <1>2, PTL DEF Promocodes!Spec

\* Who wrote a row has closed his draft, and wrote what he touched.
LEMMA PromoStepInside ==
  ASSUME Promocodes!ConstantsAssumption, PromoInv, Promocodes!Next, NEW p \in PromoId,
         promo'[p] # promo[p], promo'[p] # None
  PROVE \E a \in Admin :
          /\ draft[a] # None /\ draft'[a] = None
          /\ IF promo[p] = None
             THEN Promocodes!Differing(promo'[p], draft[a].promo) \subseteq {"active", "reusable"}
             ELSE /\ draft[a].id = p
                  /\ save[a].based =>
                         Promocodes!Differing(promo'[p], promo[p]) \subseteq draft[a].touched
<1>1. promo \in [PromoId -> Promocodes!PromocodeDto \cup {None}] /\ promo' # promo
  BY DEF PromoInv, PromoTypes
<1>2. PICK a \in Admin : \/ \E q \in PromoId : Promocodes!ConfirmNew(a, q)
                         \/ Promocodes!WriteEdit(a) \/ Promocodes!Delete(a)
  <2>1. \A a \in Admin : \A q : Promocodes!Select(a, q) => promo' = promo
    BY DEF Promocodes!Select
  <2>2. \A a \in Admin : \A c :
            (\/ Promocodes!Create(a, c) \/ Promocodes!CodeRegenerate(a, c)
             \/ Promocodes!CodeInput(a, c)) => promo' = promo
    BY DEF Promocodes!Create, Promocodes!CodeRegenerate, Promocodes!CodeInput, Promocodes!Change
  <2>3. \A a \in Admin : \A w : Promocodes!SwitchTo(a, w) => promo' = promo
    BY DEF Promocodes!SwitchTo, Promocodes!Shows
  <2>4. \A a \in Admin :
            (\/ Promocodes!PlanOpen(a) \/ Promocodes!Back(a)
             \/ Promocodes!Leave(a) \/ Promocodes!ConfirmEdit(a)) => promo' = promo
    BY DEF Promocodes!PlanOpen, Promocodes!Back, Promocodes!Leave, Promocodes!Shows,
       Promocodes!ConfirmEdit
  <2>5. \A a \in Admin :
            (\/ Promocodes!ToggleActive(a) \/ Promocodes!ToggleReusable(a)
             \/ Promocodes!ExpiresInput(a) \/ Promocodes!ExpiresReset(a)
             \/ Promocodes!MaxActivationsInput(a) \/ Promocodes!MaxActivationsReset(a)) =>
               promo' = promo
    BY DEF Promocodes!ToggleActive, Promocodes!ToggleReusable, Promocodes!ExpiresInput,
       Promocodes!ExpiresReset, Promocodes!MaxActivationsInput, Promocodes!MaxActivationsReset,
       Promocodes!Change
  <2>6. \A a \in Admin : \A v :
            (\/ Promocodes!TypeSelect(a, v) \/ Promocodes!RewardInput(a, v)
             \/ Promocodes!PlanSelect(a, v) \/ Promocodes!PlanDurationSelect(a, v)
             \/ Promocodes!AvailabilitySelect(a, v)) => promo' = promo
    BY DEF Promocodes!TypeSelect, Promocodes!RewardInput, Promocodes!PlanSelect,
       Promocodes!PlanDurationSelect, Promocodes!AvailabilitySelect, Promocodes!Change
  <2>7. \A chosen : Promocodes!PlanGone(chosen) => promo' = promo
    BY DEF Promocodes!PlanGone
  <2> QED BY <1>1, <2>1, <2>2, <2>3, <2>4, <2>5, <2>6, <2>7 DEF Promocodes!Next
<1>3. CASE \E q \in PromoId : Promocodes!ConfirmNew(a, q)
  <2>1. PICK q \in PromoId : Promocodes!ConfirmNew(a, q)
    BY <1>3
  <2>2. /\ save[a] = None /\ draft[a] # None /\ q \notin coined /\ Promocodes!Wrote(a, q)
        /\ promo' = [promo EXCEPT ![q] = Promocodes!Stored(draft[a].promo)]
    BY <2>1 DEF Promocodes!ConfirmNew, Promocodes!In, Promocodes!Free
  <2>3. q = p /\ promo'[p] = Promocodes!Stored(draft[a].promo)
    BY <1>1, <2>2
  <2>4. promo[p] = None
    BY <2>2, <2>3 DEF PromoInv, PromoBorn, Promocodes!Existing
  <2>5. draft[a].promo \in Promocodes!PromocodeDto
    BY <2>2, InIs
  <2>6. DOMAIN Promocodes!Stored(draft[a].promo) = PromoFields
        /\ \A f \in PromoFields \ {"active", "reusable"} :
               Promocodes!Stored(draft[a].promo)[f] = draft[a].promo[f]
    BY <2>5 DEF Promocodes!Stored, Promocodes!PromocodeDto, PromoFields
  <2>7. Promocodes!Differing(promo'[p], draft[a].promo) \subseteq {"active", "reusable"}
    BY <2>3, <2>6 DEF Promocodes!Differing
  <2>8. draft'[a] = None
    BY <2>2 DEF Promocodes!Wrote
  <2> QED BY <2>2, <2>4, <2>7, <2>8
<1>4. CASE Promocodes!Delete(a)
  <2>1. PICK q : q = draft[a].id
    OBVIOUS
  <2>2. promo' = [promo EXCEPT ![q] = None]
    BY <1>4, <2>1 DEF Promocodes!Delete
  <2> QED BY <1>1, <2>2
<1>5. CASE Promocodes!WriteEdit(a)
  <2>1. PICK q : q = draft[a].id
    OBVIOUS
  <2> DEFINE new == Promocodes!Updated(draft[a].promo, save[a].loaded, promo[q])
  <2>2. save[a] # None /\ PromoJob(a)
    BY <1>5 DEF Promocodes!WriteEdit, PromoInv, PromoJobs
  <2>3. draft[a] # None
    BY <2>2 DEF PromoJob
  <2>4. q \in Promocodes!Existing /\ promo' = [promo EXCEPT ![q] = new] /\ Promocodes!Wrote(a, q)
    BY <1>1, <1>5, <2>1 DEF Promocodes!WriteEdit
  <2>5. draft[a].promo \in Promocodes!PromocodeDto /\ save[a].loaded \in Promocodes!PromocodeDto
        /\ promo[q] \in Promocodes!PromocodeDto
    <3>1. draft[a] \in Promocodes!Form /\ save[a] \in Promocodes!Job
      BY <2>2, <2>3 DEF PromoInv, PromoTypes
    <3> QED BY <2>4, <3>1, PromoRowIs DEF Promocodes!Form, Promocodes!Job
  <2>6. /\ new \in Promocodes!PromocodeDto
        /\ \A f \in PromoFields : new[f] = IF draft[a].promo[f] # save[a].loaded[f]
                                      THEN draft[a].promo[f] ELSE promo[q][f]
    BY <2>5, PromoUpdatedIs
  <2> HIDE DEF new
  <2>7. q = p /\ promo'[p] = new /\ promo[p] # None
    BY <1>1, <2>4 DEF Promocodes!Existing
  <2>8. ASSUME save[a].based
        PROVE  Promocodes!Differing(promo'[p], promo[p]) \subseteq draft[a].touched
    <3>1. PromoAgree(draft[a].promo, save[a].loaded, draft[a].touched)
      BY <2>2, <2>8 DEF PromoJob
    <3>2. DOMAIN new = PromoFields
      BY <2>6 DEF Promocodes!PromocodeDto, PromoFields
    <3>3. \A f \in PromoFields \ draft[a].touched : new[f] = promo[p][f]
      BY <2>6, <2>7, <3>1 DEF PromoAgree
    <3> QED BY <2>7, <3>2, <3>3 DEF Promocodes!Differing
  <2>9. draft'[a] = None
    BY <2>4 DEF Promocodes!Wrote
  <2> QED BY <2>1, <2>3, <2>7, <2>8, <2>9
<1> QED BY <1>2, <1>3, <1>4, <1>5

\* A new promocode is what its draft showed, apart from the two flags, and a save changes
\* what its administrator touched (promocodes/handlers.py, dao/promocode.py).
LEMMA PromoSavesStay ==
  ASSUME Promocodes!ConstantsAssumption
  PROVE Promocodes!Spec => Promocodes!SavesStayInside
<1> DEFINE Within == \A p \in PromoId : promo'[p] # promo[p] /\ promo'[p] # None =>
       \E a \in Admin :
         /\ draft[a] # None /\ draft'[a] = None
         /\ IF promo[p] = None
            THEN Promocodes!Differing(promo'[p], draft[a].promo) \subseteq {"active", "reusable"}
            ELSE /\ draft[a].id = p
                 /\ save[a].based =>
                        Promocodes!Differing(promo'[p], promo[p]) \subseteq draft[a].touched
<1>1. PromoInv /\ [Promocodes!Next]_(Promocodes!vars) => [Within]_(Promocodes!vars)
  BY PromoStepInside DEF Promocodes!vars
<1> QED BY <1>1, PromosAlways, PTL DEF Promocodes!Spec, Promocodes!SavesStayInside

-----------------------------------------------------------------------------

\* Whatever the dialogs went through, stored plans and promocodes are sound, unless two updates
\* of one overlapped: a plan has squads, the limits of its type, one duration for a trial and
\* none twice, a promocode for a subscription has a plan and any other an amount (edit.py,
\* commit.py, promocodes/handlers.py); for any administrators, rows, files and number of edits.
THEOREM PlansAreSoundHolds ==
  ASSUME Plans!ConstantsAssumption, Promocodes!ConstantsAssumption
  PROVE  Plans!Spec /\ Promocodes!Spec => []PlansAreSound
<1>1. PlanInv => Plans!PlansAreSound
  BY DEF PlanInv
<1>2. PromoInv => Promocodes!PromocodesAreSound
  BY DEF PromoInv
<1>3. Plans!Spec => []Plans!PlansAreSound
  BY <1>1, PlansAlways, PTL
<1>4. Promocodes!Spec => []Promocodes!PromocodesAreSound
  BY <1>2, PromosAlways, PTL
<1> QED  BY <1>3, <1>4, PTL DEF PlansAreSound

\* A command on plans changes what it is about and nothing else, even when it overlaps
\* another's, and a move or a deletion that ends undisturbed numbers the plans from one; a save
\* of a promocode changes what its draft did (dao/plan.py, access.py, order.py, commit.py,
\* dao/promocode.py); for any administrators, rows and files.
THEOREM WritesStayInsideHolds ==
  ASSUME Plans!ConstantsAssumption, Promocodes!ConstantsAssumption
  PROVE  Plans!Spec /\ Promocodes!Spec => WritesStayInside
BY PlanWritesStay, MovesSettleAlways, PromoSavesStay DEF WritesStayInside
=============================================================================
