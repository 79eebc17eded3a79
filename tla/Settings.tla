------------------------------ MODULE Settings ------------------------------
(***************************************************************************)
(* The one row of settings behind a cache in Redis that lives six hours,   *)
(* the commands that change it, and those who act on what they read of it: *)
(* the access check with its waitlist of payers, and the registration with *)
(* the list of blocked accounts.                                           *)
(*                                                                         *)
(* A command works on a copy, from the cache or from the row.  What it     *)
(* changed is written key by key, a list or a nested object as a whole;    *)
(* the cache is dropped after the statement, before the commit.            *)
(***************************************************************************)
EXTENDS Naturals, FiniteSets

CONSTANTS
  Person,     \* Telegram accounts
  Call,       \* requests, each of one kind
  Kinds,       \* kinds of requests that come, a subset of AnyKind
  None

AnyKind == {"open", "restrict", "payments", "block", "clear", "register", "pay"}
ConstantsAssumption == Kinds \subseteq AnyKind /\ None \notin Person

VARIABLES
  row,        \* what is committed
  cache,      \* None once dropped or expired
  user,       \* of each account: "none", "member" or "blocked"
  waitlist,   \* who was refused a payment
  call,
  last, seen, raced, told, dropped, banned   \* history: see TypeOK

history == <<last, seen, raced, told, dropped, banned>>
vars == <<row, cache, user, waitlist, call, history>>

Row == [mode : {"public", "restricted"}, payments : BOOLEAN, blocked : SUBSET Person]
Open == {"written", "invalidated"}   \* an UPDATE that is not committed holds the row
Restoring == {"restored", "members", "dispatched"}
CallState == [kind : AnyKind \cup {None}, ids : SUBSET Person, known : SUBSET Person,
              copy : Row \cup {None}, members : SUBSET Person,
              step : {"new", "get", "miss", "read", "have", "done", "failed"}
                     \cup Open \cup Restoring]

\* Every variable keeps its type.
TypeOK ==
  /\ row \in Row /\ cache \in Row \cup {None}
  /\ user \in [Person -> {"none", "member", "blocked"}]
  /\ waitlist \subseteq Person /\ call \in [Call -> CallState]
  /\ last \in [mode : {"public", "restricted"}, payments : BOOLEAN]
                               \* what the last commands on these keys set
  /\ seen \in SUBSET Row       \* every row that was committed
  /\ raced \in BOOLEAN         \* the cache was filled with a row being replaced
  /\ told \in SUBSET Person    \* notified that payments are back
  /\ dropped \in SUBSET Person \* taken off the waitlist unnotified though they had been
                               \* there when it was read
  /\ banned \in SUBSET Person  \* blocked by a command that is over

NoCall == [kind |-> None, ids |-> {}, known |-> {}, copy |-> None, members |-> {},
           step |-> "new"]

\* The row as it is created, or after payments were switched off.
Init ==
  /\ row \in [mode : {"public"}, payments : BOOLEAN, blocked : {{}}]
  /\ cache = None
  /\ user \in [Person -> {"none", "member"}]
  /\ waitlist = {} /\ call = [c \in Call |-> NoCall]
  /\ last = [mode |-> row.mode, payments |-> row.payments] /\ seen = {row} /\ raced = FALSE
  /\ told = {} /\ dropped = {} /\ banned = {}

To(c, step) == call' = [call EXCEPT ![c].step = step]

-----------------------------------------------------------------------------
\* A request comes.  A block looks up its accounts before it takes the settings.
Begin(c, kind, ids) ==
  /\ call[c].step = "new"
  /\ CASE kind = "block" -> ids # {}
       [] kind = "register" -> \E p \in Person : ids = {p} /\ user[p] = "none"
       [] kind = "pay" -> \E p \in Person : ids = {p} /\ user[p] = "member"
       [] OTHER -> ids = {}
  /\ call' = [call EXCEPT ![c] = [NoCall EXCEPT !.kind = kind, !.step = "get", !.ids = ids,
                                    !.known = {p \in ids : user[p] # "none"}]]
  /\ UNCHANGED <<row, cache, user, waitlist, history>>

\* provide_cache: the cached row ...
Lookup(c) ==
  /\ call[c].step = "get"
  /\ call' = [call EXCEPT ![c].copy = cache,
                          ![c].step = IF cache = None THEN "miss" ELSE "have"]
  /\ UNCHANGED <<row, cache, user, waitlist, history>>

\* ... or the committed one ...
ReadRow(c) ==
  /\ call[c].step = "miss"
  /\ call' = [call EXCEPT ![c].copy = row, ![c].step = "read"]
  /\ UNCHANGED <<row, cache, user, waitlist, history>>

\* ... which it stores, whatever happened to the row meanwhile.
Fill(c) ==
  /\ call[c].step = "read"
  /\ cache' = call[c].copy
  /\ raced' = (call[c].copy # row \/ \E d \in Call : call[d].step \in Open)
  /\ To(c, "have")
  /\ UNCHANGED <<row, user, waitlist, last, seen, told, dropped, banned>>

Expire ==
  /\ cache # None
  /\ cache' = None /\ raced' = FALSE
  /\ UNCHANGED <<row, user, waitlist, call, last, seen, told, dropped, banned>>

-----------------------------------------------------------------------------
\* ChangeAccessMode, TogglePayments, BlockUsersByIds and ClearBlockedIds on their copy.
Changed(c) ==
  LET l == call[c] IN
  CASE l.kind = "open" -> [l.copy EXCEPT !.mode = "public"]
    [] l.kind = "restrict" -> [l.copy EXCEPT !.mode = "restricted"]
    [] l.kind = "payments" -> [l.copy EXCEPT !.payments = ~@]
    [] l.kind = "block" -> [l.copy EXCEPT !.blocked = @ \cup (l.ids \ l.known)]
    [] l.kind = "clear" -> [l.copy EXCEPT !.blocked = {}]
    [] OTHER -> l.copy

Writers == {"open", "restrict", "payments", "block", "clear"}
\* A block without an account to add and a clear of an empty list do not call update.
Updates(c) == call[c].kind \in {"block", "clear"} => Changed(c) # call[c].copy

\* The statement of update, when something changed: it waits for an uncommitted one.
Write(c) ==
  /\ call[c].step = "have" /\ call[c].kind \in Writers
  /\ Changed(c) # call[c].copy => \A d \in Call : call[d].step \notin Open
  /\ call[c].kind = "clear" => Updates(c)
  /\ To(c, IF Updates(c) THEN "written" ELSE "invalidated")
  /\ UNCHANGED <<row, cache, user, waitlist, history>>

\* Mutant: nothing is dropped.
Invalidate_skips(c) ==
  /\ call[c].step = "written"
  /\ To(c, "invalidated")
  /\ UNCHANGED <<row, cache, user, waitlist, history>>

\* invalidate_cache, around update.
Invalidate(c) ==
  /\ call[c].step = "written"
  /\ cache' = None /\ raced' = FALSE
  /\ To(c, "invalidated")
  /\ UNCHANGED <<row, user, waitlist, last, seen, told, dropped, banned>>

\* Mutant: the copy replaces the row.
Merged_whole(c) == IF Changed(c) = call[c].copy THEN row ELSE Changed(c)

\* The keys that changed, concatenated onto the row's.
Merged(c) ==
  LET new == Changed(c)
      old == call[c].copy
  IN [mode |-> IF new.mode # old.mode THEN new.mode ELSE row.mode,
      payments |-> IF new.payments # old.payments THEN new.payments ELSE row.payments,
      blocked |-> IF new.blocked # old.blocked THEN new.blocked ELSE row.blocked]

Commit(c) ==
  LET l == call[c] IN
  /\ l.step = "invalidated"
  /\ row' = Merged(c) /\ seen' = seen \cup {row'}
  /\ last' = [mode |-> IF Changed(c).mode # l.copy.mode THEN Changed(c).mode ELSE last.mode,
              payments |-> IF l.kind = "payments" THEN Changed(c).payments ELSE last.payments]
  /\ IF l.kind = "block"
     THEN user' = [p \in Person |-> IF p \in l.known THEN "blocked" ELSE user[p]]
     ELSE UNCHANGED user
  /\ banned' = CASE l.kind = "block" -> banned \cup l.ids
                 [] l.kind = "clear" -> {p \in banned : user[p] = "blocked"}
                 [] OTHER -> banned
  /\ To(c, IF l.kind = "payments" /\ Changed(c).payments THEN "restored" ELSE "done")
  /\ UNCHANGED <<cache, waitlist, raced, told, dropped>>

\* An error of the database, of the dispatch or of Redis, or a stop: nothing is undone
\* but the transaction.
Raise(c) ==
  /\ call[c].step \in Open \cup Restoring
  /\ To(c, "failed")
  /\ UNCHANGED <<row, cache, user, waitlist, history>>

-----------------------------------------------------------------------------
\* CheckAccess of a payment: who is refused waits.
CheckAccess(c) ==
  /\ call[c].step = "have" /\ call[c].kind = "pay"
  /\ waitlist' = IF call[c].copy.mode = "public" /\ ~call[c].copy.payments
                 THEN waitlist \cup call[c].ids ELSE waitlist
  /\ To(c, "done")
  /\ UNCHANGED <<row, cache, user, history>>

\* GetOrCreateUser: a listed account is registered as blocked.
Register(c) ==
  /\ call[c].step = "have" /\ call[c].kind = "register"
  /\ user' = [p \in Person |-> IF p \notin call[c].ids \/ user[p] # "none" THEN user[p]
                              ELSE IF p \in call[c].copy.blocked THEN "blocked" ELSE "member"]
  /\ To(c, "done")
  /\ UNCHANGED <<row, cache, waitlist, history>>

\* TogglePayments, once committed: the waitlist is read,
ReadMembers(c) ==
  /\ call[c].step = "restored"
  /\ call' = [call EXCEPT ![c].members = waitlist,
                          ![c].step = IF waitlist = {} THEN "done" ELSE "members"]
  /\ UNCHANGED <<row, cache, user, waitlist, history>>

\* a task to tell them is dispatched,
Dispatch(c) ==
  /\ call[c].step = "members"
  /\ told' = told \cup call[c].members
  /\ To(c, "dispatched")
  /\ UNCHANGED <<row, cache, user, waitlist, last, seen, raced, dropped, banned>>

\* Mutant: the list is emptied before the dispatch.
Clear_first(c) ==
  /\ call[c].step \in {"members", "dispatched"}
  /\ waitlist' = {}
  /\ dropped' = dropped \cup ((waitlist \cap call[c].members) \ told)
  /\ To(c, IF call[c].step = "members" THEN "members" ELSE "done")
  /\ UNCHANGED <<row, cache, user, last, seen, raced, told, banned>>

\* and the list is emptied.
Clear(c) ==
  /\ call[c].step = "dispatched"
  /\ waitlist' = {}
  /\ dropped' = dropped \cup ((waitlist \cap call[c].members) \ told)
  /\ To(c, "done")
  /\ UNCHANGED <<row, cache, user, last, seen, raced, told, banned>>

Next ==
  \/ \E c \in Call :
       \/ \E kind \in Kinds, ids \in SUBSET Person : Begin(c, kind, ids)
       \/ Lookup(c) \/ ReadRow(c) \/ Fill(c)
       \/ Write(c) \/ Invalidate(c) \/ Commit(c) \/ Raise(c)
       \/ CheckAccess(c) \/ Register(c)
       \/ ReadMembers(c) \/ Dispatch(c) \/ Clear(c)
  \/ Expire

Spec == Init /\ [][Next]_vars

-----------------------------------------------------------------------------
\* What a reader can get from the cache was committed once, even when the writer that
\* dropped the cache is rolled back.
CacheWasCommitted == cache = None \/ cache \in seen

\* The cache holds another row than the committed one only when a reader filled it
\* around an update, and then one that was committed.
StaleOnlyByRace == CacheWasCommitted /\ (cache \notin {None, row} => raced)

\* A change of one key of the access column is not undone by a command on another key
\* or column, however old its copy is.
KeysAreKept == row.mode = last.mode /\ row.payments = last.payments

\* Nobody who was on the waitlist when payments were restored is taken off it unless
\* the dispatch of his notice succeeded.
NoticeBeforeClear == dropped = {}

\* Does not hold; stated by the comment in TogglePayments (no silent drop): whoever
\* waited was told, or still waits.
NoSilentDrop ==
  [][\A p \in Person : p \in waitlist /\ p \notin waitlist' => p \in told']_vars

\* Does not hold; stated by the text of the block window: a block applies to its accounts, whether
\* they have used the bot or not.
BlockApplies ==
  \A p \in banned : \/ user[p] = "blocked"
                    \/ user[p] = "none" /\ p \in row.blocked
=============================================================================
