------------------------- MODULE SubscriptionProofs -------------------------
(***************************************************************************)
(* Theorems about Subscription, for any number of commands at once, any    *)
(* clock and all the faults.  That nothing lasts longer than was bought    *)
(* rests on what travels: rows, panel users, webhooks and what a process   *)
(* has read or was answered all end by then.  That the current row is not  *)
(* a DELETED one rests on the webhooks being handled one at a time.  And   *)
(* theorems about the tasks of Reconcile: two users never come to hold one *)
(* panel user, because a task of a kind has its kind's key, and no two     *)
(* tasks that will write a number know it of different users.              *)
(***************************************************************************)
EXTENDS SubscriptionsMC, SequenceTheorems, TLAPS

\* When all that was bought or granted has run out.
EndAt(t, n) == t + Days * n
End == EndAt(now, bought)

\* Rows and webhooks of the first n panel users, and panel users, that end by e.
Rows(n, e)  == {r \in Row : r.num \in 1..n /\ r.expire <= e}
Users(e)    == {u \in User : u.expire <= e}
Hooks(n, e) == {k \in Hook : /\ k.user.num \in 1..n /\ k.user.expire <= e
                             /\ k.event # "deleted" => k.user.status # "DELETED"}

\* What a command and a webhook may be about.
Called == {"idle", "done", "create", "trial", "change", "replace", "delete", "renew", "extend", "enable",
           "disable", "leave", "join"}
Answering == {"import", "merge", "removed", "unlink", "mark"}

Job == [op : Op \cup {"idle", "done"}, step : Nat, id : Nat, base : Row, got : View]

\* A panel user was made or set up for the row that will be inserted.
Prepared(t) ==
  \/ t.op \in {"create", "trial", "replace"} /\ t.step >= 1
  \/ t.op = "change" /\ t.step >= 2

\* What a process may hold when there are m rows and n panel users that end by e.
Jobs(m, n, e) ==
  {t \in Job :
    /\ t.base.expire <= e /\ t.got.expire <= e
    /\ t.op \in Op \ {"create", "trial", "import"} => t.id \in 1..m /\ t.base.num \in 1..n
    /\ t.op \in Answering \/ Prepared(t) => t.got.num \in 1..n
    /\ t.op \in {"import", "merge"} \/ Prepared(t) => t.got.status # "DELETED"}

\* Everything ends by what was bought.
Stored ==
  /\ now \in Nat /\ bought \in Nat
  /\ rows \in Seq(Rows(Len(panel), End))
  /\ current \in 0..Len(rows)
  /\ panel \in Seq(Users(End))
  /\ hooks \in Seq(Hooks(Len(panel), End))
Working == task \in [Process -> Jobs(Len(rows), Len(panel), End)]

\* Commands and webhooks do what they are for; a webhook is answered at its end.
Placed ==
  /\ \A c \in Call : task[c].op \in Called
  /\ \A h \in Handler : task[h].op \in Answering \cup {"idle"}
  /\ \A h \in Handler : task[h].op # "idle" => hooks # <<>>

\* A deletion looks at the row of the user it was reported for, and marks it if it is not
\* the current one.
Looking ==
  \A h \in Handler :
    /\ task[h].op = "removed" => rows[task[h].id].num = task[h].got.num
    /\ task[h].op = "mark" => task[h].id # current

\* The inductive invariant.
IInv == Stored /\ Working /\ Placed /\ Looking /\ CurrentIsNotDeleted

-----------------------------------------------------------------------------
USE DEF vars, db, remote, past, Process

\* What was bought adds up.
LEMMA EndFacts ==
  ASSUME ConstantsAssumption, NEW t \in Nat, NEW n \in Nat
  PROVE  /\ EndAt(t, n) \in Nat /\ t <= EndAt(t, n)
         /\ EndAt(t, n + 1) = EndAt(t, n) + Days /\ EndAt(t + 1, n) = EndAt(t, n) + 1
<1>1. Days \in Nat
  BY DEF ConstantsAssumption
<1>2. Days * n \in Nat
  BY <1>1
<1>3. Days * (n + 1) = Days * n + Days
  BY <1>1
<1>. QED
  BY <1>1, <1>2, <1>3 DEF EndAt

\* More rows and users, and a later end, allow more.
LEMMA Wider ==
  ASSUME NEW n \in Nat, NEW e \in Nat, NEW l \in Nat, NEW f \in Nat, n <= l, e <= f
  PROVE  /\ Rows(n, e) \subseteq Rows(l, f) /\ Users(e) \subseteq Users(f)
         /\ Hooks(n, e) \subseteq Hooks(l, f)
<1>1. Rows(n, e) \subseteq Rows(l, f)
  BY DEF Rows, Row
<1>2. Users(e) \subseteq Users(f)
  BY DEF Users, User
<1>3. Hooks(n, e) \subseteq Hooks(l, f)
  BY DEF Hooks, Hook, View
<1>. QED
  BY <1>1, <1>2, <1>3

\* Where a script calls the panel, writes and looks, and what is behind it at its end.
LEMMA ScriptFacts ==
  ASSUME NEW op \in Op, NEW s \in Nat, s <= Len(Script(op))
  PROVE  /\ s < Len(Script(op)) /\ Script(op)[s + 1] = "panel" =>
              /\ op \notin Answering
              /\ op \in {"create", "trial", "replace"} => s = 0
              /\ op = "change" => s = 1
         /\ s < Len(Script(op)) /\ Script(op)[s + 1] \in {"row", "user"} =>
              /\ op \in {"create", "trial", "replace"} => s >= 1
              /\ op = "change" => s # 1
         /\ s < Len(Script(op)) /\ Script(op)[s + 1] = "look" => op = "removed"
         /\ s = Len(Script(op)) =>
              /\ op \in {"create", "trial", "replace"} => s >= 1
              /\ op = "change" => s >= 2
  BY DEF Op, Creating, Deleting, Script, Answering

-----------------------------------------------------------------------------
\* A process at rest, and one that has read the current row, hold what they may.
LEMMA Resting ==
  ASSUME IInv, ConstantsAssumption, NEW op \in {"idle", "done"}
  PROVE  /\ Rest(op) \in Jobs(Len(rows), Len(panel), End)
         /\ Rest(op).op = op
<1>1. End \in Nat
  BY EndFacts DEF IInv, Stored, End
<1>2. Rest(op).op = op /\ Rest(op).base.expire = 0 /\ Rest(op).got.expire = 0
  BY DEF Rest, NoRow, NoView
<1>3. Rest(op) \in Job
  <2>1. NoRow \in Row
    BY DEF NoRow, Row
  <2>2. NoView \in View
    BY DEF NoView, View
  <2>. QED
    BY <2>1, <2>2 DEF Rest, Job
<1>4. op \notin Op \cup Answering
  BY DEF Op, Creating, Deleting, Answering
<1>5. ~Prepared(Rest(op))
  BY <1>2 DEF Prepared
<1>. QED
  BY <1>1, <1>2, <1>3, <1>4, <1>5 DEF Jobs, Answering

\* A process reads the current row and goes on with what it read.
LEMMA Reading ==
  ASSUME IInv, ConstantsAssumption, NEW op \in Op, NEW id \in 0..Len(rows), NEW got \in View,
         got.expire <= End,
         op \notin {"create", "trial", "import"} => id # 0,
         op \in Answering => got.num \in 1..Len(panel),
         op \in {"import", "merge"} => got.status # "DELETED"
  PROVE  /\ Task(op, id, got) \in Jobs(Len(rows), Len(panel), End)
         /\ Task(op, id, got).op = op /\ Task(op, id, got).id = id
         /\ Task(op, id, got).got = got
<1>1. End \in Nat
  BY EndFacts DEF IInv, Stored, End
<1> DEFINE base == IF id = 0 THEN NoRow ELSE rows[id]
<1>2. base \in Row /\ base.expire <= End /\ (id # 0 => base.num \in 1..Len(panel))
  <2>1. CASE id = 0
    BY <1>1, <2>1 DEF NoRow, Row
  <2>2. CASE id # 0
    <3>1. rows[id] \in Rows(Len(panel), End)
      BY <2>2, ElementOfSeq DEF IInv, Stored
    <3>. QED
      BY <3>1, <2>2 DEF Rows
  <2>. QED
    BY <2>1, <2>2
<1>3. Task(op, id, got) = [op |-> op, step |-> 0, id |-> id, base |-> base, got |-> got]
  BY DEF Task
<1> HIDE DEF base
<1>4. Len(rows) \in Nat
  BY LenProperties DEF IInv, Stored
<1>5. Task(op, id, got) \in Job
  BY <1>2, <1>3, <1>4 DEF Job
<1>6. ~Prepared(Task(op, id, got))
  BY <1>3 DEF Prepared
<1>. QED
  BY <1>2, <1>3, <1>4, <1>5, <1>6 DEF Jobs

-----------------------------------------------------------------------------
\* A process goes on with job x.
Goes(p, x) ==
  /\ task' = [task EXCEPT ![p] = x]
  /\ p \in Call => x.op \in Called
  /\ p \in Handler => x.op \in Answering \cup {"idle"}

\* If rows, users and the end only grow, what others hold remains allowed.
LEMMA Worked ==
  ASSUME IInv, ConstantsAssumption, NEW p \in Process, NEW x \in Jobs(Len(rows'), Len(panel'), End'),
         task' = [task EXCEPT ![p] = x],
         Len(rows') \in Nat, Len(rows) <= Len(rows'), Len(panel') \in Nat, Len(panel) <= Len(panel'),
         End' \in Nat, End <= End'
  PROVE  Working'
<1>1. Len(rows) \in Nat /\ Len(panel) \in Nat /\ End \in Nat
  BY LenProperties, EndFacts DEF IInv, Stored, End
<1> DEFINE Old == Jobs(Len(rows), Len(panel), End)
           New == Jobs(Len(rows'), Len(panel'), End')
<1>2. Old \subseteq New
  <2>. SUFFICES ASSUME NEW t \in Old
                PROVE  t \in New
    OBVIOUS
  <2>1. t \in Job /\ t.base.expire \in Nat /\ t.got.expire \in Nat
    BY DEF Jobs, Job, Row, View
  <2>. QED
    BY <1>1, <2>1 DEF Jobs
<1>3. task \in [Process -> Old]
  BY DEF IInv, Working
<1>4. x \in New
  OBVIOUS
<1> HIDE DEF Old, New
<1>5. task' \in [Process -> New]
  BY <1>2, <1>3, <1>4
<1>. QED
  BY <1>5 DEF Working, New

\* A process only changes what it holds.
LEMMA Moves ==
  ASSUME IInv, ConstantsAssumption, NEW p \in Process, NEW x \in Jobs(Len(rows), Len(panel), End),
         Goes(p, x), UNCHANGED <<db, remote, now>>,
         p \in Handler /\ x.op # "idle" => hooks # <<>>,
         x.op = "removed" => rows[x.id].num = x.got.num,
         x.op = "mark" => x.id # current
  PROVE  IInv'
<1>1. Stored' /\ CurrentIsNotDeleted'
  BY DEF IInv, Stored, CurrentIsNotDeleted, End
<1>2. Len(rows) \in Nat /\ Len(panel) \in Nat /\ End \in Nat
  BY LenProperties, EndFacts DEF IInv, Stored, End
<1>3. Working'
  <2>1. End' = End /\ rows' = rows /\ panel' = panel
    BY DEF End
  <2>2. x \in Jobs(Len(rows'), Len(panel'), End')
    BY <2>1
  <2>3. Len(rows) <= Len(rows') /\ Len(panel) <= Len(panel') /\ End <= End'
    BY <1>2, <2>1
  <2>4. Len(rows') \in Nat /\ Len(panel') \in Nat /\ End' \in Nat
    BY <1>2, <2>1
  <2>. QED
    BY <2>2, <2>3, <2>4, Worked DEF Goes
<1>4. task \in [Process -> Job]
  BY DEF IInv, Working, Jobs
<1>5. Placed'
  BY <1>4 DEF IInv, Placed, Goes
<1>6. Looking'
  BY <1>4 DEF IInv, Looking, Goes
<1>. QED
  BY <1>1, <1>3, <1>5, <1>6 DEF IInv

\* A command or a webhook ends and leaves what is stored alone.
LEMMA Leaving ==
  ASSUME IInv, ConstantsAssumption, NEW p \in Process, Leaves(p), UNCHANGED <<db, remote, now>>
  PROVE  IInv'
<1> DEFINE op == IF p \in Call THEN "done" ELSE "idle"
<1>1. op \in {"idle", "done"} /\ op \notin {"removed", "mark"}
  OBVIOUS
<1>2. Goes(p, Rest(op))
  BY <1>1, Resting DEF Leaves, Ended, Goes, Called, Answering, ConstantsAssumption
<1>3. p \in Handler => op = "idle"
  BY DEF ConstantsAssumption
<1> HIDE DEF op
<1>. QED
  BY <1>1, <1>2, <1>3, Moves, Resting

-----------------------------------------------------------------------------
(* Steps in which a process reads, waits or gives up. *)

\* A command begins what the current row asks for, and needs one if it changes it.
LEMMA Beginning ==
  ASSUME IInv, ConstantsAssumption, NEW c \in Call, NEW command, NEW op \in Called \ {"idle"},
         Begin(c, command, op), op \notin {"create", "trial", "done"} => current # 0
  PROVE  IInv'
<1>1. CASE op = "done"
  <2>1. Goes(c, Rest("done"))
    BY <1>1, Resting DEF Begin, Goes, Called, ConstantsAssumption
  <2>. QED
    BY <2>1, Moves, Resting, <1>1 DEF Begin, ConstantsAssumption
<1>2. CASE op # "done"
  <2>1. op \in Op /\ op \notin Answering
    BY <1>2 DEF Called, Op, Creating, Deleting, Answering
  <2>2. NoView \in View /\ NoView.expire = 0
    BY DEF NoView, View
  <2>3. current \in 0..Len(rows) /\ NoView.expire <= End
    BY <2>2, EndFacts DEF IInv, Stored, End
  <2> DEFINE x == Task(op, current, NoView)
  <2>4. x \in Jobs(Len(rows), Len(panel), End) /\ x.op = op
    BY <2>1, <2>2, <2>3, <1>2, Reading DEF Answering
  <2>5. task' = [task EXCEPT ![c] = x]
    BY <1>2 DEF Begin
  <2> HIDE DEF x
  <2>6. Goes(c, x)
    BY <2>4, <2>5 DEF Goes, ConstantsAssumption
  <2>. QED
    BY <2>1, <2>4, <2>6, Moves DEF Begin, Answering, ConstantsAssumption
<1>. QED
  BY <1>1, <1>2

\* A command begins.
LEMMA Commanding ==
  ASSUME IInv, ConstantsAssumption, NEW c \in Call, Asked(c)
  PROVE  IInv'
<1>1. CASE Purchase(c)
  <2> DEFINE trial == current # 0 /\ rows[current].trial
             Asks(type) == IF type = "NEW" /\ ~trial THEN "create"
                           ELSE IF current = 0 THEN "done"
                           ELSE IF type = "RENEW" /\ ~trial THEN "renew" ELSE "change"
  <2>1. PICK type \in {"NEW", "RENEW", "CHANGE"} : Begin(c, type, Asks(type))
    BY <1>1 DEF Purchase
  <2>2. \/ Asks(type) \in {"create", "done"}
        \/ current # 0 /\ Asks(type) \in {"renew", "change"}
    OBVIOUS
  <2> HIDE DEF Asks
  <2>. QED
    BY <2>1, <2>2, Beginning DEF Called
<1>2. CASE ActivateTrial(c)
  BY <1>2, Beginning DEF ActivateTrial, Called
<1>3. CASE SetUserSubscription(c)
  <2>1. Begin(c, "set", "create") \/ (current # 0 /\ Begin(c, "set", "replace"))
    BY <1>3 DEF SetUserSubscription
  <2>. QED
    BY <2>1, Beginning DEF Called
<1>4. CASE AddSubscriptionDuration(c)
  BY <1>4, Beginning DEF AddSubscriptionDuration, Called
<1>5. CASE ToggleSubscriptionStatus(c)
  <2>1. current # 0 /\ (Begin(c, "toggle", "disable") \/ Begin(c, "toggle", "enable"))
    BY <1>5 DEF ToggleSubscriptionStatus
  <2>. QED
    BY <2>1, Beginning DEF Called
<1>6. CASE DeleteSubscription(c)
  BY <1>6, Beginning DEF DeleteSubscription, Called
<1>7. CASE DisableTrialSubscription(c)
  BY <1>7, Beginning DEF DisableTrialSubscription, Called
<1>8. CASE EnableTrialSubscription(c)
  BY <1>8, Beginning DEF EnableTrialSubscription, Called
<1>. QED
  BY <1>1, <1>2, <1>3, <1>4, <1>5, <1>6, <1>7, <1>8 DEF Asked

\* The webhook at the head is one the panel sent.
LEMMA HeadHook ==
  ASSUME IInv, ConstantsAssumption, hooks # <<>>
  PROVE  /\ Head(hooks) \in Hooks(Len(panel), End) /\ Head(hooks).user \in View
         /\ Tail(hooks) \in Seq(Hooks(Len(panel), End))
<1>1. Head(hooks) \in Hooks(Len(panel), End) /\ Tail(hooks) \in Seq(Hooks(Len(panel), End))
  BY HeadTailProperties DEF IInv, Stored
<1>. QED
  BY <1>1 DEF Hooks, Hook

\* The endpoint reads the row a webhook is about.
LEMMA Synchronising ==
  ASSUME IInv, ConstantsAssumption, NEW h \in Handler, Synchronise(h)
  PROVE  IInv'
<1> DEFINE op == IF current = 0 THEN "import" ELSE "merge"
           x  == Task(op, current, Head(hooks).user)
<1>1. hooks # <<>> /\ Head(hooks).event # "deleted"
      /\ task' = [task EXCEPT ![h] = x] /\ UNCHANGED <<db, remote, now>>
  BY DEF Synchronise, Idle
<1>2. Head(hooks) \in Hooks(Len(panel), End) /\ Head(hooks).user \in View
  BY <1>1, HeadHook
<1>3. Head(hooks).user.expire <= End /\ Head(hooks).user.num \in 1..Len(panel)
      /\ Head(hooks).user.status # "DELETED"
  BY <1>1, <1>2 DEF Hooks
<1>4. op \in {"import", "merge"} /\ (op # "import" => current # 0) /\ op \in Op
  BY DEF Op, Creating
<1>5. current \in 0..Len(rows)
  BY DEF IInv, Stored
<1> HIDE DEF op
<1>6. x \in Jobs(Len(rows), Len(panel), End) /\ x.op = op
  BY <1>2, <1>3, <1>4, <1>5, Reading
<1>7. Goes(h, x)
  BY <1>1, <1>4, <1>6 DEF Goes, Answering, ConstantsAssumption
<1> HIDE DEF x
<1>. QED
  BY <1>1, <1>4, <1>6, <1>7, Moves

\* The webhook of a deletion reads the row it will mark.
LEMMA DeletionRead ==
  ASSUME IInv, ConstantsAssumption, NEW h \in Handler, ProcessDelete(h)
  PROVE  IInv'
<1>1. PICK id \in 1..Len(rows) : /\ rows[id].num = Head(hooks).user.num
                                 /\ task' = [task EXCEPT ![h] = Task("removed", id, Head(hooks).user)]
  BY DEF ProcessDelete
<1> DEFINE x == Task("removed", id, Head(hooks).user)
<1>2. hooks # <<>> /\ UNCHANGED <<db, remote, now>>
  BY DEF ProcessDelete, Idle
<1>3. Head(hooks) \in Hooks(Len(panel), End) /\ Head(hooks).user \in View
  BY <1>2, HeadHook
<1>4. Head(hooks).user.expire <= End /\ Head(hooks).user.num \in 1..Len(panel)
  BY <1>3 DEF Hooks
<1>5. "removed" \in Op /\ id \in 0..Len(rows) /\ id # 0
  BY DEF Op
<1>6. x \in Jobs(Len(rows), Len(panel), End) /\ x.op = "removed" /\ x.id = id
      /\ x.got = Head(hooks).user
  BY <1>3, <1>4, <1>5, Reading
<1>7. Goes(h, x)
  BY <1>1, <1>6 DEF Goes, Answering, ConstantsAssumption
<1> HIDE DEF x
<1>. QED
  BY <1>1, <1>2, <1>6, <1>7, Moves

\* The row is marked if another panel user's is current, else the current row goes with it.
LEMMA LookingAgain ==
  ASSUME IInv, ConstantsAssumption, NEW h \in Handler, LookAgain(h)
  PROVE  IInv'
<1> DEFINE t  == task[h]
           op == IF Linked(t.got.num) THEN "unlink" ELSE "mark"
           x  == [t EXCEPT !.op = op]
<1>1. t \in Jobs(Len(rows), Len(panel), End) /\ t.op \in Op
  BY DEF IInv, Working, LookAgain, Due, Running
<1>2. task' = [task EXCEPT ![h] = x] /\ UNCHANGED <<db, remote, now>>
  BY DEF LookAgain
<1>3. t.op = "removed"
  <2>1. t.step \in Nat /\ t.step < Len(Script(t.op)) /\ Script(t.op)[t.step + 1] = "look"
    BY <1>1 DEF LookAgain, Due, Jobs, Job
  <2> HIDE DEF t
  <2>2. t.step <= Len(Script(t.op))
    BY <2>1 DEF Script
  <2>. QED
    BY <1>1, <2>1, <2>2, ScriptFacts
<1>4. hooks # <<>> /\ rows[t.id].num = t.got.num
  BY <1>3 DEF IInv, Placed, Looking
<1>5. op \in {"unlink", "mark"} /\ (op = "mark" => ~Linked(t.got.num))
  OBVIOUS
<1> HIDE DEF t, op
<1>6. x \in Job /\ x.op = op /\ x.id = t.id /\ x.step = t.step /\ x.base = t.base /\ x.got = t.got
  BY <1>1, <1>5 DEF Jobs, Job, Op, Deleting
<1>7. x \in Jobs(Len(rows), Len(panel), End)
  <2>1. t.id \in 1..Len(rows) /\ t.base.num \in 1..Len(panel) /\ t.got.num \in 1..Len(panel)
    BY <1>1, <1>3 DEF Jobs, Op, Answering
  <2>2. ~Prepared(x) /\ x.op \notin {"import", "merge"}
    BY <1>5, <1>6 DEF Prepared
  <2> HIDE DEF x
  <2>. QED
    BY <1>1, <1>6, <2>1, <2>2 DEF Jobs
<1>8. x.op = "mark" => x.id # current
  <2>1. t.id \in 1..Len(rows)
    BY <1>1, <1>3 DEF Jobs, Op
  <2>. QED
    BY <2>1, <1>4, <1>5, <1>6 DEF Linked
<1> HIDE DEF x
<1>9. Goes(h, x)
  BY <1>2, <1>5, <1>6 DEF Goes, Answering, ConstantsAssumption
<1>. QED
  BY <1>2, <1>4, <1>5, <1>6, <1>7, <1>8, <1>9, Moves

\* A row or the user is locked by the next UPDATE.
LEMMA Locking ==
  ASSUME IInv, ConstantsAssumption, NEW p \in Process, Lock(p)
  PROVE  IInv'
<1> DEFINE t == task[p]
           x == [t EXCEPT !.step = @ + 1]
<1>1. /\ t \in Jobs(Len(rows), Len(panel), End) /\ t.op \in Op
      /\ t.step < Len(Script(t.op)) /\ Script(t.op)[t.step + 1] \in {"row", "user"}
  BY DEF IInv, Working, Lock, Due, Running
<1>2. task' = [task EXCEPT ![p] = x] /\ UNCHANGED <<db, remote, now>>
  BY DEF Lock, Step
<1>3. t.op \in Called \ {"idle"} \/ t.op \in Answering
  BY <1>1 DEF IInv, Placed, Op, Called, Answering, Creating, Deleting
<1>4. /\ p \in Call => t.op \in Called
      /\ p \in Handler => t.op \in Answering /\ hooks # <<>>
      /\ p \in Handler /\ t.op = "removed" => rows[t.id].num = t.got.num
      /\ p \in Handler /\ t.op = "mark" => t.id # current
      /\ t.op \in Answering => p \in Handler
  <2>1. t.op \notin {"idle"}
    BY <1>1 DEF Op, Creating, Deleting
  <2>2. Called \cap Answering = {}
    BY DEF Called, Answering
  <2>. QED
    BY <2>1, <2>2 DEF IInv, Placed, Looking
<1> HIDE DEF t
<1>5. t.step \in Nat /\ t \in Job
  BY <1>1 DEF Jobs, Job
<1>6. t.step <= Len(Script(t.op))
  BY <1>1, <1>5 DEF Script
<1>7. (t.op \in {"create", "trial", "replace"} => t.step >= 1) /\ (t.op = "change" => t.step # 1)
  BY <1>1, <1>5, <1>6, ScriptFacts
<1>8. x \in Job /\ x.op = t.op /\ x.id = t.id /\ x.step = t.step + 1 /\ x.base = t.base /\ x.got = t.got
  BY <1>5 DEF Job
<1> HIDE DEF x
<1>9. Prepared(x) => Prepared(t)
  BY <1>5, <1>7, <1>8 DEF Prepared
<1>10. x \in Jobs(Len(rows), Len(panel), End)
  BY <1>1, <1>8, <1>9 DEF Jobs
<1>11. Goes(p, x)
  BY <1>2, <1>4, <1>8 DEF Goes
<1>. QED
  BY <1>2, <1>4, <1>8, <1>10, <1>11, Moves DEF Answering

-----------------------------------------------------------------------------
(* The panel's answer. *)

\* What a process at the panel holds.
LEMMA Asking ==
  ASSUME IInv, NEW p \in Process, Due(p, "panel")
  PROVE  /\ task[p] \in Jobs(Len(rows), Len(panel), End) /\ task[p] \in Job
         /\ task[p].op \in Op \ Answering /\ p \in Call
         /\ task[p].op \in {"create", "trial", "replace"} => task[p].step = 0
         /\ task[p].op = "change" => task[p].step = 1
         /\ task[p].op \notin {"create", "trial"} =>
              task[p].id \in 1..Len(rows) /\ task[p].base.num \in 1..Len(panel)
<1> DEFINE t == task[p]
<1>1. /\ t \in Jobs(Len(rows), Len(panel), End) /\ t.op \in Op
      /\ t.step < Len(Script(t.op)) /\ Script(t.op)[t.step + 1] = "panel"
  BY DEF IInv, Working, Due, Running
<1>2. t \in Job /\ t.step \in Nat
  BY <1>1 DEF Jobs, Job
<1>3. t.op \in Answering \cup {"idle"} => p \notin Call
  BY <1>1 DEF IInv, Placed, Op, Creating, Deleting, Called, Answering
<1>4. p \in Handler => t.op \in Answering \cup {"idle"}
  BY DEF IInv, Placed
<1> HIDE DEF t
<1>5. t.step <= Len(Script(t.op))
  BY <1>1, <1>2 DEF Script
<1>6. /\ t.op \notin Answering
      /\ t.op \in {"create", "trial", "replace"} => t.step = 0
      /\ t.op = "change" => t.step = 1
  BY <1>1, <1>2, <1>5, ScriptFacts
<1>7. t.op # "idle"
  BY <1>1 DEF Op, Creating, Deleting
<1>8. t.op \notin {"create", "trial"} => t.id \in 1..Len(rows) /\ t.base.num \in 1..Len(panel)
  BY <1>1, <1>6 DEF Jobs, Answering
<1>. QED
  BY <1>1, <1>2, <1>4, <1>6, <1>7, <1>8 DEF t

\* It lasts Days longer at most, if something was bought.
LEMMA AnswerBounded ==
  ASSUME IInv, ConstantsAssumption, NEW p \in Process, Due(p, "panel"), ~Refused(task[p])
  PROVE  /\ Answer(task[p]) \in View
         /\ Answer(task[p]).expire <= IF task[p].op \in Paying THEN End + Days ELSE End
         /\ Answer(task[p]).num = IF task[p].op \in {"create", "trial"} THEN Len(panel) + 1
                                  ELSE task[p].base.num
         /\ task[p].op # "delete" => Answer(task[p]).status # "DELETED"
         /\ task[p].op # "delete" => Answer(task[p]).num > Len(panel) \/ Lives(Answer(task[p]).num)
<1> DEFINE t == task[p]
<1>1. /\ t \in Jobs(Len(rows), Len(panel), End) /\ t \in Job /\ t.op \in Op \ Answering
      /\ t.op \notin {"create", "trial"} => t.base.num \in 1..Len(panel)
  BY Asking
<1>2. t.base \in Row /\ t.base.expire \in Nat /\ t.base.num \in Nat /\ t.base.expire <= End
  BY <1>1 DEF Jobs, Job, Row
<1>3. now \in Nat /\ now <= End /\ End \in Nat /\ Days \in Nat /\ Len(panel) \in Nat
  BY EndFacts, LenProperties DEF IInv, Stored, ConstantsAssumption, End
<1>4. ~Refused(t)
  OBVIOUS
<1>5. t.base.num \in 1..Len(panel) => panel[t.base.num] \in Users(End)
  BY ElementOfSeq DEF IInv, Stored
<1> HIDE DEF t
<1>6. CASE t.op \in {"create", "trial"}
  <2>1. Answer(t) = [num |-> Len(panel) + 1, status |-> "ACTIVE", expire |-> now + Days]
    BY <1>6 DEF Answer, ViewOf
  <2>2. now + Days \in Nat /\ now + Days <= End + Days /\ t.op \in Paying
    BY <1>3, <1>6 DEF Paying
  <2>. QED
    BY <1>3, <1>6, <2>1, <2>2 DEF View, t
<1>7. CASE t.op \notin {"create", "trial"}
  <2>1. Answer(t) = [num |-> t.base.num, status |-> Sent(t).status, expire |-> Sent(t).expire]
    BY <1>7 DEF Answer, ViewOf
  <2>2. /\ Sent(t).status \in {"ACTIVE", "DISABLED", "DELETED"} /\ Sent(t).expire \in Nat
        /\ Sent(t).expire <= IF t.op \in Paying THEN End + Days ELSE End
        /\ t.op # "delete" => Sent(t).status # "DELETED"
    <3>1. panel[t.base.num] \in User /\ panel[t.base.num].expire <= End
      BY <1>1, <1>5, <1>7 DEF Users
    <3>2. CASE t.op = "renew"
      BY <1>2, <1>3, <3>2 DEF Sent, Latest, Paying
    <3>3. CASE t.op = "extend"
      BY <1>2, <1>3, <3>3 DEF Sent, Paying
    <3>4. CASE t.op \in {"change", "replace"}
      BY <1>2, <1>3, <3>4 DEF Sent, Paying
    <3>5. CASE t.op \in {"enable", "join"}
      BY <3>1, <3>5 DEF Sent, Paying, User
    <3>6. CASE t.op \in {"disable", "leave"}
      BY <3>1, <3>6 DEF Sent, Paying, User
    <3>7. CASE t.op = "delete"
      BY <3>1, <3>7 DEF Sent, Paying, User
    <3>. QED
      BY <1>1, <1>7, <3>2, <3>3, <3>4, <3>5, <3>6, <3>7 DEF Op, Answering, Creating, Deleting
  <2>3. t.op # "delete" => Lives(t.base.num)
    BY <1>4, <1>7 DEF Refused
  <2>. QED
    BY <1>2, <1>7, <2>1, <2>2, <2>3 DEF View, t
<1>. QED
  BY <1>6, <1>7

\* The call leaves the panel and its webhooks within what was bought.
LEMMA Applying ==
  ASSUME IInv, ConstantsAssumption, NEW p \in Process, Due(p, "panel"), ~Refused(task[p]),
         Apply(task[p]), UNCHANGED now
  PROVE  /\ bought' \in Nat /\ End' \in Nat
         /\ End' = IF task[p].op \in Paying THEN End + Days ELSE End
         /\ Len(panel') \in Nat /\ Len(panel) <= Len(panel') /\ Answer(task[p]).num \in 1..Len(panel')
         /\ panel' \in Seq(Users(End')) /\ hooks' \in Seq(Hooks(Len(panel'), End'))
         /\ hooks # <<>> => hooks' # <<>>
<1> DEFINE t == task[p]
           got == Answer(t)
           user == [status |-> got.status, expire |-> got.expire]
<1>1. now \in Nat /\ bought \in Nat /\ End \in Nat /\ Days \in Nat /\ Len(panel) \in Nat
  BY EndFacts, LenProperties DEF IInv, Stored, ConstantsAssumption, End
<1>2. bought' \in Nat /\ End' \in Nat /\ End' = IF t.op \in Paying THEN End + Days ELSE End
  <2>1. bought' = IF t.op \in Paying THEN bought + 1 ELSE bought
    BY DEF Apply
  <2>2. bought' \in Nat /\ now' = now
    BY <1>1, <2>1
  <2>3. EndAt(now, bought + 1) = EndAt(now, bought) + Days
    BY <1>1, EndFacts
  <2>4. EndAt(now, bought) \in Nat
    BY <1>1, EndFacts
  <2>. QED
    BY <1>1, <2>1, <2>2, <2>3, <2>4 DEF End
<1>3. /\ got \in View /\ got.expire <= End'
      /\ got.num = IF t.op \in {"create", "trial"} THEN Len(panel) + 1 ELSE t.base.num
      /\ t.op # "delete" => got.status # "DELETED"
      /\ t.op # "delete" => got.num > Len(panel) \/ Lives(got.num)
  BY <1>2, AnswerBounded
<1>4. t.op \in Op \ Answering /\ (t.op \notin {"create", "trial"} => t.base.num \in 1..Len(panel))
  BY Asking
<1>5. \/ got.num > Len(panel) /\ panel' = Append(panel, user) /\ UNCHANGED hooks
      \/ /\ Lives(got.num)
         /\ panel' = [panel EXCEPT ![got.num] = user]
         /\ hooks' = Append(hooks, Report(Event(t.op), got.num, user))
      \/ got.num <= Len(panel) /\ ~Lives(got.num) /\ UNCHANGED <<panel, hooks>>
  BY DEF Apply
<1> HIDE DEF t, got
<1>6. user \in Users(End')
  BY <1>3 DEF Users, User, View
<1> HIDE DEF user
<1>7. panel \in Seq(Users(End'))
  <2>1. Users(End) \subseteq Users(End')
    BY <1>1, <1>2 DEF Users, User
  <2>. QED
    BY <2>1, SeqMonotonic DEF IInv, Stored
<1>8. CASE got.num > Len(panel) /\ panel' = Append(panel, user) /\ UNCHANGED hooks
  <2>1. panel' \in Seq(Users(End')) /\ Len(panel') = Len(panel) + 1
    BY <1>6, <1>7, <1>8, AppendProperties
  <2>2. got.num = Len(panel) + 1
    BY <1>1, <1>3, <1>4, <1>8
  <2>3. Hooks(Len(panel), End) \subseteq Hooks(Len(panel'), End')
    BY <1>1, <1>2, <2>1 DEF Hooks, Hook, View
  <2>4. hooks' \in Seq(Hooks(Len(panel'), End'))
    BY <1>8, <2>3, SeqMonotonic DEF IInv, Stored
  <2>. QED
    BY <1>1, <1>2, <1>8, <2>1, <2>2, <2>4 DEF t, got
<1>9. CASE /\ Lives(got.num)
           /\ panel' = [panel EXCEPT ![got.num] = user]
           /\ hooks' = Append(hooks, Report(Event(t.op), got.num, user))
  <2>1. got.num \in 1..Len(panel)
    BY <1>9 DEF Lives
  <2>2. panel' \in Seq(Users(End')) /\ Len(panel') = Len(panel)
    BY <1>6, <1>7, <1>9, <2>1, ExceptSeq
  <2>3. Hooks(Len(panel), End) \subseteq Hooks(Len(panel'), End')
    BY <1>1, <1>2, <2>2 DEF Hooks, Hook, View
  <2>4. Report(Event(t.op), got.num, user) \in Hooks(Len(panel'), End')
    <3>1. Report(Event(t.op), got.num, user).user = got
      BY <1>3 DEF Report, ViewOf, user, View
    <3>2. Report(Event(t.op), got.num, user) = [event |-> Event(t.op), user |-> got]
      BY <1>3 DEF Report, ViewOf, user, View
    <3>3. Event(t.op) \in {"modified", "status", "deleted"} /\ (Event(t.op) # "deleted" => t.op # "delete")
      BY DEF Event
    <3>. QED
      BY <1>3, <2>1, <2>2, <3>2, <3>3 DEF Hooks, Hook
  <2>5. hooks \in Seq(Hooks(Len(panel'), End'))
    BY <2>3, SeqMonotonic DEF IInv, Stored
  <2>6. hooks' \in Seq(Hooks(Len(panel'), End')) /\ hooks' # <<>>
    BY <1>9, <2>4, <2>5, AppendProperties
  <2>. QED
    BY <1>1, <1>2, <2>1, <2>2, <2>6 DEF t, got
<1>10. CASE got.num <= Len(panel) /\ ~Lives(got.num) /\ UNCHANGED <<panel, hooks>>
  <2>1. got.num \in 1..Len(panel)
    BY <1>1, <1>3, <1>4, <1>10
  <2>2. Hooks(Len(panel), End) \subseteq Hooks(Len(panel'), End')
    BY <1>1, <1>2, <1>10 DEF Hooks, Hook, View
  <2>3. hooks' \in Seq(Hooks(Len(panel'), End'))
    BY <1>10, <2>2, SeqMonotonic DEF IInv, Stored
  <2>. QED
    BY <1>1, <1>2, <1>7, <1>10, <2>1, <2>3 DEF t, got
<1>. QED
  BY <1>5, <1>8, <1>9, <1>10

\* After the call, a process that holds x.
LEMMA Applied ==
  ASSUME IInv, ConstantsAssumption, NEW p \in Process, Due(p, "panel"), ~Refused(task[p]),
         Apply(task[p]), UNCHANGED <<db, now>>,
         NEW x \in Jobs(Len(rows'), Len(panel'), End'), Goes(p, x)
  PROVE  IInv'
<1>1. /\ bought' \in Nat /\ End' \in Nat /\ End <= End'
      /\ Len(panel') \in Nat /\ Len(panel) <= Len(panel')
      /\ panel' \in Seq(Users(End')) /\ hooks' \in Seq(Hooks(Len(panel'), End'))
      /\ hooks # <<>> => hooks' # <<>>
  <2>1. End \in Nat /\ Days \in Nat
    BY EndFacts DEF IInv, Stored, End, ConstantsAssumption
  <2>. QED
    BY <2>1, Applying
<1>2. Len(rows) \in Nat /\ Len(panel) \in Nat /\ End \in Nat
  BY LenProperties, EndFacts DEF IInv, Stored, End
<1>3. Stored'
  <2>1. Rows(Len(panel), End) \subseteq Rows(Len(panel'), End')
    BY <1>1, <1>2 DEF Rows, Row
  <2>2. rows' \in Seq(Rows(Len(panel'), End'))
    BY <2>1, SeqMonotonic DEF IInv, Stored
  <2>. QED
    BY <1>1, <2>2 DEF IInv, Stored
<1>4. Working'
  <2>1. Len(rows') \in Nat /\ Len(rows) <= Len(rows')
    BY <1>2
  <2>. QED
    BY <1>1, <2>1, Worked DEF Goes
<1>5. p \in Call /\ p \notin Handler
  BY Asking DEF ConstantsAssumption
<1>6. task \in [Process -> Job]
  BY DEF IInv, Working, Jobs
<1>7. Placed'
  BY <1>1, <1>5, <1>6 DEF IInv, Placed, Goes
<1>8. Looking'
  BY <1>5, <1>6 DEF IInv, Looking, Goes
<1>. QED
  BY <1>3, <1>4, <1>7, <1>8 DEF IInv, CurrentIsNotDeleted

\* The panel answered, and what it answered is kept.
LEMMA Calling ==
  ASSUME IInv, ConstantsAssumption, NEW p \in Process, CallPanel(p)
  PROVE  IInv'
<1> DEFINE t == task[p]
           got == Answer(t)
           y == [t EXCEPT !.step = @ + 1]
           x == [y EXCEPT !.got = got]
<1>1. Due(p, "panel") /\ ~Refused(t) /\ Apply(t) /\ UNCHANGED <<db, now>>
      /\ task' = [task EXCEPT ![p].step = @ + 1, ![p].got = got]
  BY DEF CallPanel
<1>2. /\ t \in Jobs(Len(rows), Len(panel), End) /\ t \in Job /\ t.op \in Op \ Answering /\ p \in Call
      /\ t.op \notin {"create", "trial"} => t.id \in 1..Len(rows) /\ t.base.num \in 1..Len(panel)
  BY <1>1, Asking
<1>3. task' = [task EXCEPT ![p] = x]
  BY <1>1
<1>4. End \in Nat /\ Days \in Nat /\ Len(panel) \in Nat
  BY EndFacts, LenProperties DEF IInv, Stored, End, ConstantsAssumption
<1>5. /\ End' = (IF t.op \in Paying THEN End + Days ELSE End) /\ End <= End'
      /\ Len(panel) <= Len(panel') /\ Len(panel') \in Nat /\ End' \in Nat
      /\ got.num \in 1..Len(panel')
  BY <1>1, <1>4, Applying
<1>6. got \in View /\ got.expire <= End' /\ (t.op # "delete" => got.status # "DELETED")
  BY <1>1, <1>5, AnswerBounded
<1>7. t.op \in Called
  BY <1>2 DEF Op, Creating, Deleting, Answering, Called
<1> HIDE DEF t, got
<1>8. x \in Job /\ x.op = t.op /\ x.id = t.id /\ x.base = t.base /\ x.got = got
  <2>1. y \in Job /\ y.op = t.op /\ y.id = t.id /\ y.base = t.base
    BY <1>2 DEF Job
  <2> HIDE DEF y
  <2>. QED
    BY <1>6, <2>1 DEF Job
<1> HIDE DEF x
<1>9. x \in Jobs(Len(rows'), Len(panel'), End')
  <2>1. t.base.expire <= End' /\ t.base.expire \in Nat
    BY <1>2, <1>4, <1>5 DEF Jobs, Job, Row
  <2>2. x.op \in Op \ {"create", "trial", "import"} => x.id \in 1..Len(rows') /\ x.base.num \in 1..Len(panel')
    <3>1. Len(rows') = Len(rows)
      BY <1>1
    <3>2. 1..Len(panel) \subseteq 1..Len(panel')
      BY <1>4, <1>5
    <3>. QED
      BY <1>2, <1>8, <3>1, <3>2
  <2>3. x.op \notin Answering /\ (Prepared(x) => x.op # "delete")
    BY <1>2, <1>8 DEF Prepared
  <2>. QED
    BY <1>5, <1>6, <1>8, <2>1, <2>2, <2>3 DEF Jobs, Answering
<1>10. Goes(p, x)
  BY <1>2, <1>3, <1>7, <1>8 DEF Goes, ConstantsAssumption
<1>. QED
  BY <1>1, <1>9, <1>10, Applied DEF t

\* The panel refused or failed, perhaps after the change.
LEMMA Raising ==
  ASSUME IInv, ConstantsAssumption, NEW p \in Process, PanelRaises(p)
  PROVE  IInv'
<1>1. CASE UNCHANGED remote
  BY <1>1, Leaving DEF PanelRaises
<1>2. CASE ~Refused(task[p]) /\ Apply(task[p])
  <2>1. Due(p, "panel") /\ p \in Call /\ p \notin Handler
    BY Asking DEF PanelRaises, ConstantsAssumption
  <2>2. Len(panel) <= Len(panel') /\ Len(panel') \in Nat /\ End' \in Nat /\ End <= End'
    <3>1. End \in Nat /\ Days \in Nat
      BY EndFacts DEF IInv, Stored, End, ConstantsAssumption
    <3>2. UNCHANGED now
      BY DEF PanelRaises
    <3>. QED
      BY <1>2, <2>1, <3>1, <3>2, Applying
  <2>3. Rest("done") \in Jobs(Len(rows'), Len(panel'), End') /\ Rest("done").op = "done"
    <3>1. "done" \notin Op \cup Answering
      BY DEF Op, Creating, Deleting, Answering
    <3>2. Rest("done") \in Job /\ Rest("done").op = "done"
      BY Resting DEF Jobs
    <3>3. Rest("done").base.expire = 0 /\ Rest("done").got.expire = 0
      BY DEF Rest, NoRow, NoView
    <3>. QED
      BY <2>2, <3>1, <3>2, <3>3 DEF Jobs, Prepared, Answering
  <2>4. Goes(p, Rest("done"))
    BY <2>1, <2>3 DEF PanelRaises, Leaves, Ended, Goes, Called
  <2>. QED
    BY <1>2, <2>1, <2>3, <2>4, Applied DEF PanelRaises
<1>. QED
  BY <1>1, <1>2 DEF PanelRaises

-----------------------------------------------------------------------------
(* Steps of the clock, the panel and the webhooks that no process takes. *)

\* What processes hold remains allowed while they do not move.
LEMMA Held ==
  ASSUME IInv, ConstantsAssumption, UNCHANGED <<rows, task>>,
         Len(panel') = Len(panel), End' \in Nat, End <= End'
  PROVE  Working'
<1>1. Len(rows) \in Nat /\ Len(panel) \in Nat /\ End \in Nat
  BY LenProperties, EndFacts DEF IInv, Stored, End
<1> DEFINE Old == Jobs(Len(rows), Len(panel), End)
           New == Jobs(Len(rows'), Len(panel'), End')
<1>2. Old \subseteq New
  <2>. SUFFICES ASSUME NEW t \in Old
                PROVE  t \in New
    OBVIOUS
  <2>1. t \in Job /\ t.base.expire \in Nat /\ t.got.expire \in Nat
    BY DEF Jobs, Job, Row, View
  <2>2. Len(rows') = Len(rows)
    OBVIOUS
  <2>. QED
    BY <1>1, <2>1, <2>2 DEF Jobs
<1>3. task' \in [Process -> Old]
  BY DEF IInv, Working
<1> HIDE DEF Old, New
<1>4. task' \in [Process -> New]
  BY <1>2, <1>3
<1>. QED
  BY <1>4 DEF Working, New

\* The clock moves on.
LEMMA Ticking ==
  ASSUME IInv, ConstantsAssumption, Tick
  PROVE  IInv'
<1>1. End' = End + 1 /\ End' \in Nat /\ End <= End' /\ now' \in Nat
  <2>1. now \in Nat /\ bought \in Nat /\ now' = now + 1 /\ bought' = bought
    BY DEF IInv, Stored, Tick
  <2>2. EndAt(now, bought) \in Nat /\ EndAt(now + 1, bought) = EndAt(now, bought) + 1
    BY <2>1, EndFacts
  <2>. QED
    BY <2>1, <2>2 DEF End
<1>2. UNCHANGED <<db, remote, task>>
  BY DEF Tick
<1>3. Len(panel) \in Nat /\ End \in Nat
  BY LenProperties, EndFacts DEF IInv, Stored, End
<1>4. Stored'
  <2>1. /\ Rows(Len(panel), End) \subseteq Rows(Len(panel), End') /\ Users(End) \subseteq Users(End')
        /\ Hooks(Len(panel), End) \subseteq Hooks(Len(panel), End')
    BY <1>1, <1>3, Wider
  <2>2. /\ rows \in Seq(Rows(Len(panel), End')) /\ panel \in Seq(Users(End'))
        /\ hooks \in Seq(Hooks(Len(panel), End'))
    BY <2>1, SeqMonotonic DEF IInv, Stored
  <2>. QED
    BY <1>1, <1>2, <2>2 DEF IInv, Stored
<1>5. Working'
  BY <1>1, <1>2, Held
<1>. QED
  BY <1>2, <1>4, <1>5 DEF IInv, Placed, Looking, CurrentIsNotDeleted

\* The panel lets a user run out and says so.
LEMMA Expiring ==
  ASSUME IInv, ConstantsAssumption, NEW n \in 1..Len(panel), PanelExpires(n)
  PROVE  IInv'
<1> DEFINE user == [panel[n] EXCEPT !.status = "EXPIRED"]
           hook == Report("status", n, user)
<1>1. panel' = [panel EXCEPT ![n] = user] /\ hooks' = Append(hooks, hook)
      /\ UNCHANGED <<db, now, task, held, past>>
  BY DEF PanelExpires
<1>2. user \in Users(End) /\ hook \in Hooks(Len(panel), End)
  <2>1. panel[n] \in User /\ panel[n].expire <= End
    BY ElementOfSeq DEF IInv, Stored, Users
  <2>2. user \in User /\ user.status = "EXPIRED" /\ user.expire = panel[n].expire
    BY <2>1 DEF User
  <2> HIDE DEF user
  <2>3. hook = [event |-> "status", user |-> [num |-> n, status |-> "EXPIRED", expire |-> user.expire]]
    BY <2>2 DEF Report, ViewOf
  <2>. QED
    BY <2>1, <2>2, <2>3 DEF Users, User, Hooks, Hook, View
<1> HIDE DEF user, hook
<1>3. End' = End /\ End \in Nat
  BY <1>1, EndFacts DEF IInv, Stored, End
<1>4. panel' \in Seq(Users(End)) /\ Len(panel') = Len(panel)
  BY <1>1, <1>2, ExceptSeq DEF IInv, Stored
<1>5. hooks' \in Seq(Hooks(Len(panel), End)) /\ hooks' # <<>>
  BY <1>1, <1>2, AppendProperties DEF IInv, Stored
<1>6. Stored'
  BY <1>1, <1>3, <1>4, <1>5 DEF IInv, Stored
<1>7. Working'
  <2>1. End <= End'
    BY <1>3
  <2>. QED
    BY <1>1, <1>3, <1>4, <2>1, Held
<1>. QED
  BY <1>1, <1>5, <1>6, <1>7 DEF IInv, Placed, Looking, CurrentIsNotDeleted

\* The webhooks are taken off or turned while the endpoint is idle.
LEMMA Queueing ==
  ASSUME IInv, ConstantsAssumption, UNCHANGED <<db, panel, now, task, bought>>,
         hooks' \in Seq(Hooks(Len(panel), End)), \A h \in Handler : task[h].op = "idle"
  PROVE  IInv'
<1>1. End' = End /\ End \in Nat
  BY EndFacts DEF IInv, Stored, End
<1>2. Stored'
  BY <1>1 DEF IInv, Stored
<1>3. Working'
  <2>1. End <= End'
    BY <1>1
  <2>. QED
    BY <1>1, <2>1, Held
<1>. QED
  BY <1>2, <1>3 DEF IInv, Placed, Looking, CurrentIsNotDeleted

\* A webhook is handled and changes nothing.
LEMMA Ignoring ==
  ASSUME IInv, ConstantsAssumption, NEW h \in Handler, Ignore(h)
  PROVE  IInv'
<1>1. hooks # <<>> /\ task[h].op = "idle" /\ hooks' = Tail(hooks) /\ UNCHANGED <<db, panel, now, task, past>>
  BY DEF Ignore, Idle
<1>2. hooks' \in Seq(Hooks(Len(panel), End))
  BY <1>1, HeadHook
<1>3. \A g \in Handler : task[g].op = "idle"
  BY <1>1 DEF ConstantsAssumption
<1>. QED
  BY <1>1, <1>2, <1>3, Queueing

\* Webhooks change places.
LEMMA Reordering ==
  ASSUME IInv, ConstantsAssumption, Reorder
  PROVE  IInv'
<1>1. hooks # <<>>
  BY EmptySeq DEF Reorder
<1>2. Append(Tail(hooks), Head(hooks)) \in Seq(Hooks(Len(panel), End))
  BY <1>1, HeadHook, AppendProperties
<1>. QED
  BY <1>2, Queueing DEF Reorder

-----------------------------------------------------------------------------
(* The commit. *)

\* What an UPDATE writes stays within what was bought; only a deletion marks the row, and
\* only a webhook gives it another panel user.
LEMMA Writing ==
  ASSUME NEW m \in Nat, NEW n \in Nat, NEW e \in Nat, NEW t \in Jobs(m, n, e), NEW row \in Rows(n, e),
         t.op \in Op \ {"create", "trial", "import", "removed"}
  PROVE  /\ Written(t, row) \in Rows(n, e)
         /\ t.op # "merge" => Written(t, row).num = row.num
         /\ t.op \notin Deleting /\ row.status # "DELETED" => Written(t, row).status # "DELETED"
<1>1. row \in Row /\ row.num \in 1..n /\ row.expire <= e
  BY DEF Rows
<1>2. /\ t.got \in View /\ t.got.expire <= e
      /\ t.op = "merge" => t.got.num \in 1..n /\ t.got.status # "DELETED"
  BY DEF Jobs, Job, Answering
<1>3. \A who \in {"admin", "channel"} : Disabler(row, who) \in {"nobody", "admin", "channel"}
  BY <1>1 DEF Disabler, Row
<1>4. CASE t.op \in Deleting
  <2>1. Written(t, row) = [row EXCEPT !.status = "DELETED"]
    BY <1>4 DEF Written, Deleting
  <2>2. t.op # "merge"
    BY <1>4 DEF Deleting
  <2>. QED
    BY <1>1, <1>4, <2>1, <2>2 DEF Rows, Row
<1>5. CASE t.op \in {"renew", "extend"}
  <2>1. Written(t, row) = [row EXCEPT !.expire = t.got.expire]
    BY <1>5 DEF Written, Deleting
  <2>2. t.got.expire \in Nat
    BY <1>2 DEF View
  <2>. QED
    BY <1>1, <1>2, <1>5, <2>1, <2>2 DEF Rows, Row
<1>6. CASE t.op \in {"enable", "disable", "leave", "join"}
  <2>1. Written(t, row) \in Row /\ Written(t, row).num = row.num /\ Written(t, row).expire = row.expire
        /\ Written(t, row).status \in {"ACTIVE", "DISABLED"}
    <3>1. CASE t.op = "enable"
      BY <1>1, <3>1 DEF Written, Deleting, Row
    <3>2. CASE t.op = "disable"
      BY <1>1, <1>3, <3>2 DEF Written, Deleting, Row
    <3>3. CASE t.op = "leave"
      BY <1>1, <1>3, <3>3 DEF Written, Deleting, Row
    <3>4. CASE t.op = "join"
      BY <1>1, <3>4 DEF Written, Deleting, Row
    <3>. QED
      BY <1>6, <3>1, <3>2, <3>3, <3>4
  <2>. QED
    BY <1>1, <2>1 DEF Rows
<1>7. CASE t.op = "merge"
  <2>1. Written(t, row) = Merge(row, t.base, t.got)
    BY <1>7 DEF Written, Deleting
  <2>2. /\ Merge(row, t.base, t.got) \in Row
        /\ Merge(row, t.base, t.got).num \in {row.num, t.got.num}
        /\ Merge(row, t.base, t.got).status \in {row.status, t.got.status}
        /\ Merge(row, t.base, t.got).expire \in {row.expire, t.got.expire}
    BY <1>1, <1>2 DEF Merge, Row, View
  <2>. QED
    BY <1>1, <1>2, <1>7, <2>1, <2>2 DEF Rows
<1>. QED
  BY <1>4, <1>5, <1>6, <1>7 DEF Op, Creating, Deleting

\* So does the row that is inserted, which is not DELETED.
LEMMA Inserting ==
  ASSUME NEW m \in Nat, NEW n \in Nat, NEW e \in Nat, NEW t \in Jobs(m, n, e), t.op \in Creating,
         t.step = Len(Script(t.op))
  PROVE  Created(t) \in Rows(n, e) /\ Created(t).status # "DELETED"
<1>1. t.op \in Op /\ t.step \in Nat /\ t.step <= Len(Script(t.op)) /\ t.got \in View
  BY DEF Op, Jobs, Job, Script
<1>2. t.op = "import" \/ Prepared(t)
  BY <1>1, ScriptFacts DEF Creating, Prepared
<1>3. t.got.num \in 1..n /\ t.got.status # "DELETED" /\ t.got.expire <= e
  BY <1>2 DEF Jobs, Answering
<1> DEFINE s == IF t.op = "import" /\ Expired(t.got) THEN "EXPIRED" ELSE t.got.status
<1>4. s \in {"ACTIVE", "DISABLED", "EXPIRED", "DELETED"} /\ s # "DELETED"
  BY <1>1, <1>3 DEF View
<1>5. Created(t) = [num |-> t.got.num, expire |-> t.got.expire, trial |-> t.op = "trial",
                    left |-> FALSE, by |-> "nobody", status |-> s]
  BY DEF Created
<1> HIDE DEF s
<1>6. t.got.expire \in Nat /\ t.got.num \in Nat
  BY <1>1 DEF View
<1> DEFINE trial == t.op = "trial"
<1>7. trial \in BOOLEAN
  OBVIOUS
<1> HIDE DEF trial
<1>8. Created(t) = [num |-> t.got.num, expire |-> t.got.expire, trial |-> trial,
                    left |-> FALSE, by |-> "nobody", status |-> s]
  BY <1>5 DEF trial
<1>9. Created(t) \in Row
  BY <1>4, <1>6, <1>7, <1>8 DEF Row
<1>. QED
  BY <1>3, <1>4, <1>8, <1>9 DEF Rows

\* A commit writes the row or inserts one, links or unlinks it, and ends the process or lets it go on.
LEMMA Committing ==
  ASSUME IInv, ConstantsAssumption, NEW p \in Process, Commit(p)
  PROVE  IInv'
<1> DEFINE t == task[p]
           updated == IF t.op \in {"create", "trial", "import"} THEN rows
                      ELSE [rows EXCEPT ![t.id] = Written(t, @)]
           Known == Rows(Len(panel), End)
<1>1. /\ t.op \in Op \ {"removed"} /\ t.step = Len(Script(t.op))
      /\ rows' = IF t.op \in Creating THEN Append(updated, Created(t)) ELSE updated
      /\ current' = IF t.op \in Creating THEN Len(rows')
                    ELSE IF t.op \in Unlinking THEN 0 ELSE current
      /\ Leaves(p) /\ hooks' = (IF p \in Handler THEN Tail(hooks) ELSE hooks)
      /\ UNCHANGED <<panel, now, past>>
  BY DEF Commit, Running, Newest
<1>2. t \in Jobs(Len(rows), Len(panel), End)
  BY DEF IInv, Working
<1>3. /\ Len(rows) \in Nat /\ Len(panel) \in Nat /\ End \in Nat /\ End' = End /\ rows \in Seq(Known)
      /\ current \in 0..Len(rows)
  BY <1>1, LenProperties, EndFacts DEF IInv, Stored, End
<1>4. p \in Call => t.op \notin Answering
  BY <1>1 DEF IInv, Placed, Called, Answering
<1>5. p \in Handler => t.op \in Answering /\ hooks # <<>> /\ (t.op = "mark" => t.id # current)
  <2>1. t.op # "idle"
    BY <1>1 DEF Op, Creating, Deleting
  <2>. QED
    BY <2>1 DEF IInv, Placed, Looking
<1>6. CurrentIsNotDeleted
  BY DEF IInv
<1>7. /\ updated \in Seq(Known) /\ Len(updated) = Len(rows)
      /\ \A i \in 1..Len(rows) : t.op # "merge" => updated[i].num = rows[i].num
      /\ \A i \in 1..Len(rows) :
           (t.op \notin Deleting \/ i # t.id) /\ rows[i].status # "DELETED" => updated[i].status # "DELETED"
  <2> HIDE DEF t
  <2>1. CASE t.op \in {"create", "trial", "import"}
    <3>1. updated = rows
      BY <2>1
    <3>. QED
      BY <1>3, <3>1
  <2>2. CASE t.op \notin {"create", "trial", "import"}
    <3>1. t.id \in 1..Len(rows)
      BY <1>1, <1>2, <2>2 DEF Jobs
    <3>2. rows[t.id] \in Known
      BY <1>3, <3>1, ElementOfSeq
    <3> DEFINE w == Written(t, rows[t.id])
    <3>3. /\ w \in Known
          /\ t.op # "merge" => w.num = rows[t.id].num
          /\ t.op \notin Deleting /\ rows[t.id].status # "DELETED" => w.status # "DELETED"
      BY <1>1, <1>2, <1>3, <2>2, <3>2, Writing
    <3>4. updated = [rows EXCEPT ![t.id] = w]
      BY <2>2
    <3> HIDE DEF w, updated, Known
    <3>5. /\ updated \in Seq(Known) /\ Len(updated) = Len(rows)
          /\ \A i \in 1..Len(rows) : updated[i] = IF i = t.id THEN w ELSE rows[i]
      BY <1>3, <3>1, <3>3, <3>4, ExceptSeq
    <3>. QED
      BY <3>3, <3>5
  <2>. QED
    BY <2>1, <2>2
<1> HIDE DEF updated
<1>8. t.op \in Creating => Created(t) \in Known /\ Created(t).status # "DELETED"
  BY <1>1, <1>2, <1>3, Inserting
<1> HIDE DEF Known, t
<1>9. /\ rows' \in Seq(Known) /\ Len(rows') \in Nat /\ Len(rows) <= Len(rows')
      /\ \A i \in 1..Len(rows) : rows'[i] = updated[i]
      /\ t.op \in Creating => Len(rows') = Len(rows) + 1 /\ rows'[Len(rows')] = Created(t)
      /\ t.op \notin Creating => Len(rows') = Len(rows)
  <2>1. CASE t.op \in Creating
    <3>1. rows' = Append(updated, Created(t))
      BY <1>1, <2>1
    <3>2. /\ Append(updated, Created(t)) \in Seq(Known)
          /\ Len(Append(updated, Created(t))) = Len(updated) + 1
          /\ \A i \in 1..Len(updated) : Append(updated, Created(t))[i] = updated[i]
          /\ Append(updated, Created(t))[Len(updated) + 1] = Created(t)
      BY <1>7, <1>8, <2>1, AppendProperties
    <3>. QED
      BY <1>3, <1>7, <2>1, <3>1, <3>2
  <2>2. CASE t.op \notin Creating
    BY <1>1, <1>3, <1>7, <2>2
  <2>. QED
    BY <2>1, <2>2
<1>10. current' \in 0..Len(rows') /\ (current' \in {0, current} \/ current' = Len(rows) + 1)
  BY <1>1, <1>3, <1>9
<1>11. Stored'
  <2>1. hooks' \in Seq(Hooks(Len(panel), End))
    BY <1>1, <1>5, HeadHook DEF IInv, Stored
  <2>2. rows' \in Seq(Rows(Len(panel), End))
    BY <1>9 DEF Known
  <2>. QED
    BY <1>1, <1>3, <1>10, <2>1, <2>2 DEF IInv, Stored
<1> DEFINE op == IF p \in Call THEN "done" ELSE "idle"
<1>12. task' = [task EXCEPT ![p] = Rest(op)] /\ op \in {"idle", "done"} /\ Rest(op).op = op
  BY <1>1, Resting DEF Leaves, Ended
<1>13. Working'
  <2>1. Rest(op) \in Jobs(Len(rows'), Len(panel'), End')
    <3>1. op \notin Op \cup Answering
      BY DEF Op, Creating, Deleting, Answering
    <3>2. Rest(op) \in Job
      BY Resting DEF Jobs
    <3>3. Rest(op).base.expire = 0 /\ Rest(op).got.expire = 0
      BY DEF Rest, NoRow, NoView
    <3> HIDE DEF op
    <3>. QED
      BY <1>3, <1>12, <3>1, <3>2, <3>3 DEF Jobs, Prepared, Answering
  <2>2. Len(panel') \in Nat /\ Len(panel) <= Len(panel') /\ End' \in Nat /\ End <= End'
    BY <1>1, <1>3
  <2> HIDE DEF op
  <2>. QED
    BY <1>9, <1>12, <2>1, <2>2, Worked
<1>14. task \in [Process -> Job]
  BY DEF IInv, Working, Jobs
<1>15. \A q \in Process : q # p => task'[q] = task[q]
  BY <1>12, <1>14
<1>16. task'[p].op = op /\ (p \in Handler => op = "idle") /\ (p \in Call => op = "done")
  BY <1>12, <1>14 DEF ConstantsAssumption
<1> HIDE DEF op
<1>17. p \in Handler => \A h \in Handler : h = p
  BY DEF ConstantsAssumption
<1>18. Placed'
  <2>1. \A c \in Call : task'[c].op \in Called
    BY <1>15, <1>16 DEF IInv, Placed, Called, ConstantsAssumption
  <2>2. \A h \in Handler : task'[h].op \in Answering \cup {"idle"}
    BY <1>15, <1>16 DEF IInv, Placed
  <2>3. \A h \in Handler : task'[h].op # "idle" => hooks' # <<>>
    BY <1>1, <1>15, <1>16, <1>17 DEF IInv, Placed
  <2>. QED
    BY <2>1, <2>2, <2>3 DEF Placed
<1>19. Looking'
  <2>. SUFFICES ASSUME NEW h \in Handler, task'[h].op \in {"removed", "mark"}
                PROVE  /\ task'[h].op = "removed" => rows'[task'[h].id].num = task'[h].got.num
                       /\ task'[h].op = "mark" => task'[h].id # current'
    BY DEF Looking
  <2>1. h # p /\ p \in Call
    BY <1>16, <1>17
  <2>2. task'[h] = task[h] /\ task[h] \in Jobs(Len(rows), Len(panel), End)
    BY <1>15, <2>1 DEF IInv, Working
  <2>3. task[h].id \in 1..Len(rows)
    BY <2>2 DEF Jobs, Op, Deleting
  <2>4. t.op # "merge"
    BY <1>4, <2>1 DEF Answering
  <2>5. task[h].op = "removed" => rows'[task[h].id].num = task[h].got.num
    BY <1>7, <1>9, <2>3, <2>4 DEF IInv, Looking
  <2>6. task[h].op = "mark" => task[h].id # current'
    BY <1>3, <1>10, <2>3 DEF IInv, Looking
  <2>. QED
    BY <2>2, <2>5, <2>6
<1>20. CurrentIsNotDeleted'
  <2>. SUFFICES ASSUME current' # 0
                PROVE  rows'[current'].status # "DELETED"
    BY DEF CurrentIsNotDeleted
  <2>1. CASE t.op \in Creating
    BY <1>1, <1>8, <1>9, <2>1
  <2>2. CASE t.op \notin Creating
    <3>1. current' = current /\ t.op \notin Unlinking /\ current \in 1..Len(rows)
      BY <1>1, <1>3, <2>2
    <3>2. t.op \in Deleting => t.op = "mark"
      BY <2>2, <3>1 DEF Deleting, Creating, Unlinking
    <3>3. t.op = "mark" => t.id # current
      BY <1>4, <1>5 DEF Answering
    <3>. QED
      BY <1>6, <1>7, <1>9, <3>1, <3>2, <3>3 DEF CurrentIsNotDeleted
  <2>. QED
    BY <2>1, <2>2
<1>. QED
  BY <1>11, <1>13, <1>18, <1>19, <1>20 DEF IInv

-----------------------------------------------------------------------------
(* The theorems. *)

\* Nothing was bought, stored or asked for.
LEMMA InitInv ==
  ASSUME ConstantsAssumption, Init
  PROVE  IInv
<1>1. Days \in Nat
  BY DEF ConstantsAssumption
<1>2. now = 0 /\ hooks = <<>> /\ current = Len(rows)
  BY DEF Init
<1>3. /\ bought \in Nat /\ End = Days * bought
      /\ rows \in Seq(Rows(Len(panel), End)) /\ panel \in Seq(Users(End))
      /\ \A i \in 1..Len(rows) : rows[i].status = "ACTIVE"
  <2>1. CASE rows = <<>> /\ panel = <<>> /\ trialAvailable = TRUE /\ bought = 0
    BY <1>1, <1>2, <2>1, EmptySeq DEF End, EndAt
  <2>2. CASE /\ \E trial \in BOOLEAN : rows = <<[num |-> 1, status |-> "ACTIVE", expire |-> Days,
                                                trial |-> trial, left |-> FALSE, by |-> "nobody"]>>
             /\ panel = <<[status |-> "ACTIVE", expire |-> Days]>>
             /\ trialAvailable = FALSE /\ bought = 1
    <3>1. PICK trial \in BOOLEAN : rows = <<[num |-> 1, status |-> "ACTIVE", expire |-> Days,
                                             trial |-> trial, left |-> FALSE, by |-> "nobody"]>>
      BY <2>2
    <3> DEFINE row == [num |-> 1, status |-> "ACTIVE", expire |-> Days,
                       trial |-> trial, left |-> FALSE, by |-> "nobody"]
               user == [status |-> "ACTIVE", expire |-> Days]
    <3>2. bought = 1 /\ End = Days /\ Days * bought = Days
      BY <1>1, <1>2, <2>2 DEF End, EndAt
    <3>3. panel = <<user>> /\ rows = <<row>>
      BY <2>2, <3>1
    <3>4. row.status = "ACTIVE" /\ row \in Row /\ row.num = 1 /\ row.expire = Days
      BY <1>1 DEF Row
    <3>5. user \in Users(End)
      BY <1>1, <3>2 DEF Users, User
    <3> HIDE DEF row, user
    <3>6. Len(panel) = 1 /\ Len(rows) = 1 /\ rows[1] = row
      BY <3>3
    <3>7. row \in Rows(Len(panel), End)
      BY <1>1, <3>2, <3>4, <3>6 DEF Rows
    <3>8. rows \in Seq(Rows(Len(panel), End)) /\ panel \in Seq(Users(End))
      BY <3>3, <3>5, <3>7
    <3>. QED
      BY <3>2, <3>4, <3>6, <3>8
  <2>. QED
    BY <2>1, <2>2 DEF Init
<1>4. Len(rows) \in Nat /\ Len(panel) \in Nat /\ End \in Nat
  BY <1>1, <1>3, LenProperties
<1>5. Stored
  BY <1>2, <1>3, <1>4, EmptySeq DEF Stored
<1>6. task = [p \in Process |-> Rest("idle")]
  BY DEF Init
<1>7. Rest("idle") \in Jobs(Len(rows), Len(panel), End) /\ Rest("idle").op = "idle"
  <2>1. "idle" \notin Op \cup Answering
    BY DEF Op, Creating, Deleting, Answering
  <2>2. NoRow \in Row /\ NoView \in View
    BY DEF NoRow, Row, NoView, View
  <2>3. /\ Rest("idle") \in Job /\ Rest("idle").op = "idle"
        /\ Rest("idle").base.expire = 0 /\ Rest("idle").got.expire = 0
    BY <2>2 DEF Rest, Job, NoRow, NoView
  <2>. QED
    BY <1>4, <2>1, <2>3 DEF Jobs, Prepared, Answering
<1>8. Working /\ Placed /\ Looking
  BY <1>6, <1>7 DEF Working, Placed, Looking, Called, Answering
<1>9. CurrentIsNotDeleted
  BY <1>2, <1>3, <1>4 DEF CurrentIsNotDeleted
<1>. QED
  BY <1>5, <1>8, <1>9 DEF IInv

\* Every step preserves the invariant.
LEMMA Stepping ==
  ASSUME IInv, ConstantsAssumption, [Next]_vars
  PROVE  IInv'
<1>1. CASE \E c \in Call : Asked(c)
  BY <1>1, Commanding
<1>2. CASE \E h \in Handler : Received(h)
  BY <1>2, Synchronising, DeletionRead, LookingAgain, Ignoring DEF Received
<1>3. CASE \E p \in Process : Transact(p)
  BY <1>3, Calling, Raising, Locking, Leaving, Committing DEF Transact, Deadlocked, Stop
<1>4. CASE Tick
  BY <1>4, Ticking
<1>5. CASE Reorder
  BY <1>5, Reordering
<1>6. CASE \E n \in 1..Len(panel) : PanelExpires(n)
  BY <1>6, Expiring
<1>7. CASE UNCHANGED vars
  BY <1>7 DEF IInv, Stored, Working, Placed, Looking, CurrentIsNotDeleted, End
<1>. QED
  BY <1>1, <1>2, <1>3, <1>4, <1>5, <1>6, <1>7 DEF Next

\* The invariant holds throughout.
THEOREM Invariance ==
  ASSUME ConstantsAssumption
  PROVE  Spec => []IInv
<1>1. Init => IInv
  BY InitInv
<1>2. IInv /\ [Next]_vars => IInv'
  BY Stepping
<1>. QED
  BY <1>1, <1>2, PTL DEF Spec

\* No row and no panel user lasts longer than all that was bought or granted, whatever
\* stops, fails or is answered out of order (purchase.py, synchronization.py).
THEOREM NothingForFreeHolds ==
  ASSUME ConstantsAssumption
  PROVE  Spec => []NothingForFree
<1>1. IInv => NothingForFree
  <2>. SUFFICES ASSUME IInv
                PROVE  NothingForFree
    OBVIOUS
  <2>1. \A id \in 1..Len(rows) : rows[id].expire <= End
    BY ElementOfSeq DEF IInv, Stored, Rows
  <2>2. \A n \in 1..Len(panel) : panel[n].expire <= End
    BY ElementOfSeq DEF IInv, Stored, Users
  <2>. QED
    BY <2>1, <2>2 DEF NothingForFree, End, EndAt
<1>. QED
  BY <1>1, Invariance, PTL

\* The user's current row is never one that a command or a webhook marked DELETED, while
\* webhooks are handled one at a time (management.py, synchronization.py).
THEOREM CurrentIsNotDeletedHolds ==
  ASSUME ConstantsAssumption
  PROVE  Spec => []CurrentIsNotDeleted
<1>1. IInv => CurrentIsNotDeleted
  BY DEF IInv
<1>. QED
  BY <1>1, Invariance, PTL

-----------------------------------------------------------------------------
(* The importer's tasks. *)

\* Where a task is.
SyncSteps == {"idle", "checked", "queued", "next", "sync", "look", "update", "url", "create",
              "created", "ended", "done"}

\* A panel user as a task fetched it.
Fetched == [num : Num, view : Syncs!PanelUser]

\* What a task remembers.
SyncTask ==
  [step : SyncSteps, kind : Syncs!Kind, chosen : SUBSET Syncs!Client,
   todo : SUBSET (Account \cup Syncs!Client \cup Fetched), who : Account \cup {None},
   num : Num \cup {None}, sub : Syncs!Sub \cup {None},
   view : Syncs!PanelUser \cup {None}, clean : BOOLEAN]

\* The types.
SyncTypes ==
  /\ outset \in Outsets
  /\ others \in [Num -> Syncs!PanelUser \cup {None}]
  /\ members \subseteq Account
  /\ mirror \in [Account -> Syncs!Sub \cup {None}]
  /\ \A a \in Account \ members : mirror[a] = None
  /\ lock \subseteq Syncs!Kind
  /\ loose \in BOOLEAN
  /\ job \in [Tasks -> SyncTask]

\* What a task has found at each of its steps.
Fits(t, users) ==
  /\ t.step \in {"idle", "checked", "queued"} => t.todo = {}
  /\ t.kind = "from_panel" => t.todo \subseteq Fetched
  /\ t.kind = "from_bot" => t.todo \subseteq users
  /\ t.kind = "import" => t.todo \subseteq Syncs!Client
  /\ t.step = "next" => t.who = None /\ t.sub = None
  /\ t.step \in {"look", "update", "url", "create", "created"} =>
       t.kind = "from_bot" /\ t.who \in users /\ t.sub \in Syncs!Sub
  /\ t.step \in {"url", "created", "sync"} => t.view \in Syncs!PanelUser
  /\ t.step \in {"created", "sync"} => t.num \in Num
  /\ t.step = "sync" =>
       /\ t.kind # "import" /\ t.who \in users \cup {None}
       /\ t.kind = "from_bot" => t.who # None
       /\ t.who = None => t.sub = None

\* All tasks have found what they should.
AllFit == \A j \in Tasks : Fits(job[j], members)

\* A set key has a task that set it; a press that saw none goes on; and as long as no key
\* failed, running tasks have their keys, one each.
KeyInv ==
  /\ \A kind \in lock : \E j \in Tasks :
       job[j].kind = kind /\ job[j].step \notin {"idle", "checked", "done"}
  /\ \A j \in Tasks : job[j].step = "checked" => job[j].clean
  /\ ~loose => \A j \in Syncs!Running :
       /\ job[j].kind \in lock
       /\ \A k \in Syncs!Running : j # k => job[j].kind # job[k].kind

\* The user's row has the number.
Holds(r, a, n) == r[a] # None /\ r[a].num = n

\* A task that will write its number into a row.
Writes(t) == t.step = "sync" /\ (t.sub = None \/ t.sub.num # t.num)

\* A task that has just made the panel user of its number.
Creates(t) == t.kind = "from_bot" /\ t.step \in {"created", "sync"}

\* A number is in one row.
Sole == \A a, b \in Account, n \in Num : Holds(mirror, a, n) /\ Holds(mirror, b, n) => a = b

\* The number a task writes is in no other user's row.
Unheld ==
  \A j \in Tasks : Writes(job[j]) =>
    /\ \A a \in Account : Holds(mirror, a, job[j].num) => a = job[j].who
    /\ job[j].who # None => job[j].who = job[j].view.telegram

\* What a task fetched of a number that another task made names the same user.
Knows(n, t, a) ==
  t.kind = "from_panel" =>
    /\ \A x \in t.todo : x.num = n => x.view.telegram = a
    /\ t.step = "sync" /\ t.num = n => t.view.telegram = a /\ (t.who = None => a = None)

\* A panel user just made is of the user it was made for, and all know it.
Agreed ==
  \A j \in Tasks : Creates(job[j]) =>
    LET n == job[j].num
        a == job[j].view.telegram
    IN /\ a \in members \cup {None}
       /\ others[n] # None => others[n].telegram = a
       /\ \A k \in Tasks : Knows(n, job[k], a)

\* While no key failed, two users never have one number, and no task will write one.
NumInv == ~loose => Sole /\ Unheld /\ Agreed

\* The inductive invariant.
SyncInv == SyncTypes /\ AllFit /\ KeyInv /\ NumInv

-----------------------------------------------------------------------------

\* The steps at which a task runs.
Active == {"queued", "next", "sync", "look", "update", "url", "create", "created"}

\* The same task, but for what it knows of others' writes.
SameTask(s, t) ==
  /\ s.step = t.step /\ s.kind = t.kind /\ s.todo = t.todo /\ s.who = t.who
  /\ s.num = t.num /\ s.sub = t.sub /\ s.view = t.view
  /\ t.step = "checked" => s.clean = t.clean

\* One that will write no number.
Drops(s, t) ==
  /\ s.step \notin {"sync", "created"}
  /\ s.kind = "from_panel" => s.todo = {} \/ (t.kind = "from_panel" /\ s.todo \subseteq t.todo)

\* It writes no new number, and learns of none.
Calm(s, t) == SameTask(s, t) \/ Drops(s, t)

\* Who runs.
LEMMA RunningIs ==
  ASSUME SyncTypes PROVE \A j \in Tasks : j \in Syncs!Running <=> job[j].step \in Active
BY DEF SyncTypes, SyncTask, SyncSteps, Syncs!Running, Active

\* To be told of a write changes nothing else.
LEMMA SeenSame ==
  ASSUME NEW jobs \in [Tasks -> SyncTask], NEW S
  PROVE  /\ Syncs!Seen(jobs, S) \in [Tasks -> SyncTask]
         /\ \A k \in Tasks : SameTask(Syncs!Seen(jobs, S)[k], jobs[k])
<1> SUFFICES ASSUME NEW k \in Tasks
    PROVE Syncs!Seen(jobs, S)[k] \in SyncTask /\ SameTask(Syncs!Seen(jobs, S)[k], jobs[k])
  BY DEF Syncs!Seen
<1>1. PICK t : t = jobs[k]
  OBVIOUS
<1>2. t \in SyncTask
  BY <1>1
<1>3. PICK s : s = [t EXCEPT !.clean = FALSE]
  OBVIOUS
<1>4. s \in SyncTask /\ s.step = t.step /\ s.kind = t.kind /\ s.todo = t.todo /\ s.who = t.who
      /\ s.num = t.num /\ s.sub = t.sub /\ s.view = t.view
  BY <1>2, <1>3 DEF SyncTask
<1>5. \/ Syncs!Seen(jobs, S)[k] = t
      \/ Syncs!Seen(jobs, S)[k] = s /\ t.step \notin {"idle", "checked"}
  BY <1>1, <1>3 DEF Syncs!Seen
<1> QED
  BY <1>1, <1>2, <1>4, <1>5 DEF SameTask

\* What a task found fits as well when there are more users.
LEMMA FitsGo ==
  ASSUME NEW s, NEW t, NEW users, NEW more, SameTask(s, t), Fits(t, users), users \subseteq more
  PROVE  Fits(s, more)
BY DEF SameTask, Fits

\* The keys are untouched and a running task goes on.
LEMMA KeyGoes ==
  ASSUME SyncInv, NEW j \in Tasks, lock' = lock, loose' = loose, job' \in [Tasks -> SyncTask],
         \A k \in Tasks \ {j} : SameTask(job'[k], job[k]),
         job'[j].kind = job[j].kind, job[j].step \in Active, job'[j].step \in Active
  PROVE  KeyInv'
<1>1. \A k \in Tasks :
        /\ job'[k].kind = job[k].kind
        /\ job'[k].step \in Active <=> job[k].step \in Active
        /\ job[k].step \notin {"idle", "checked", "done"} =>
             job'[k].step \notin {"idle", "checked", "done"}
        /\ job'[k].step = "checked" => job[k].step = "checked" /\ job'[k].clean = job[k].clean
  BY DEF SameTask, Active
<1>2. \A k \in Tasks : k \in Syncs!Running' <=> k \in Syncs!Running
  BY <1>1 DEF Syncs!Running, SyncInv, SyncTypes, SyncTask, SyncSteps, Active
<1>3. \A kind \in lock' : \E k \in Tasks :
        job'[k].kind = kind /\ job'[k].step \notin {"idle", "checked", "done"}
  BY <1>1 DEF SyncInv, KeyInv
<1>4. ASSUME ~loose', NEW a \in Syncs!Running'
      PROVE  /\ job'[a].kind \in lock'
             /\ \A b \in Syncs!Running' : a # b => job'[a].kind # job'[b].kind
  <2>1. /\ a \in Tasks /\ a \in Syncs!Running
        /\ \A b \in Syncs!Running' : b \in Tasks /\ b \in Syncs!Running
    BY <1>2, <1>4 DEF Syncs!Running
  <2> QED
    BY <1>1, <1>4, <2>1 DEF SyncInv, KeyInv
<1>5. \A k \in Tasks : job'[k].step = "checked" => job'[k].clean
  BY <1>1 DEF SyncInv, KeyInv
<1> QED
  BY <1>3, <1>4, <1>5 DEF KeyInv

\* No row gets a number and no task is about to write one.
LEMMA NumGoes ==
  ASSUME SyncInv, loose => loose', members \subseteq members', job' \in [Tasks -> SyncTask],
         \A a \in Account, n \in Num : Holds(mirror', a, n) => Holds(mirror, a, n),
         \A k \in Tasks : Calm(job'[k], job[k]),
         ~loose => \A n \in Num : others'[n] # None =>
           \/ others[n] # None /\ others'[n].telegram = others[n].telegram
           \/ \A k \in Tasks : Creates(job[k]) => job[k].num # n
  PROVE  NumInv'
<1> SUFFICES ASSUME ~loose' PROVE Sole' /\ Unheld' /\ Agreed'
  BY DEF NumInv
<1>0. ~loose /\ Sole /\ Unheld /\ Agreed
  BY DEF SyncInv, NumInv
<1>1. Sole'
  BY <1>0 DEF Sole
<1>2. Unheld'
  <2> SUFFICES ASSUME NEW j \in Tasks, Writes(job'[j])
      PROVE /\ \A a \in Account : Holds(mirror', a, job'[j].num) => a = job'[j].who
            /\ job'[j].who # None => job'[j].who = job'[j].view.telegram
    BY DEF Unheld, Writes
  <2>1. SameTask(job'[j], job[j])
    BY DEF Calm, Drops, Writes
  <2>2. PICK n : n = job[j].num
    OBVIOUS
  <2>3. n \in Num /\ job'[j].num = n /\ Writes(job[j])
    BY <2>1, <2>2 DEF SameTask, Writes, SyncInv, AllFit, Fits
  <2>4. \A a \in Account : Holds(mirror', a, n) => Holds(mirror, a, n)
    BY <2>3
  <2> QED
    BY <1>0, <2>1, <2>2, <2>3, <2>4 DEF SameTask, Unheld
<1>3. Agreed'
  <2> SUFFICES ASSUME NEW j \in Tasks, Creates(job'[j])
      PROVE /\ job'[j].view.telegram \in members' \cup {None}
            /\ others'[job'[j].num] # None => others'[job'[j].num].telegram = job'[j].view.telegram
            /\ \A k \in Tasks : Knows(job'[j].num, job'[k], job'[j].view.telegram)
    BY DEF Agreed, Creates, Knows
  <2>1. SameTask(job'[j], job[j])
    BY DEF Calm, Drops, Creates
  <2>2. PICK n, a : n = job[j].num /\ a = job[j].view.telegram
    OBVIOUS
  <2>3. n \in Num /\ job'[j].num = n /\ job'[j].view.telegram = a /\ Creates(job[j])
    BY <2>1, <2>2 DEF SameTask, Creates, SyncInv, AllFit, Fits
  <2>4. /\ a \in members \cup {None}
        /\ others[n] # None => others[n].telegram = a
        /\ \A k \in Tasks : Knows(n, job[k], a)
    BY <1>0, <2>2, <2>3 DEF Agreed
  <2>5. others'[n] # None => others'[n].telegram = a
    BY <1>0, <2>2, <2>3, <2>4
  <2>6. ASSUME NEW k \in Tasks PROVE Knows(n, job'[k], a)
    <3>1. CASE SameTask(job'[k], job[k])
      BY <3>1, <2>4 DEF SameTask, Knows
    <3>2. CASE Drops(job'[k], job[k])
      BY <3>2, <2>4 DEF Drops, Knows
    <3> QED
      BY <3>1, <3>2 DEF Calm
  <2> QED
    BY <2>3, <2>4, <2>5, <2>6
<1> QED
  BY <1>1, <1>2, <1>3

\* A step keeps what the task was given.
Kept(t, s) == /\ s.kind = t.kind /\ s.chosen = t.chosen /\ s.clean = t.clean

\* A step keeps all but where the task is.
Alike(t, s) == Kept(t, s) /\ s.todo = t.todo /\ s.who = t.who /\ s.num = t.num
               /\ s.sub = t.sub /\ s.view = t.view

\* A task moves to a step.
LEMMA ToGoes ==
  ASSUME SyncTypes, NEW j \in Tasks, NEW step \in SyncSteps
  PROVE  /\ Syncs!To(j, step) \in [Tasks -> SyncTask]
         /\ Syncs!To(j, step)[j].step = step /\ Alike(job[j], Syncs!To(j, step)[j])
         /\ \A k \in Tasks \ {j} : Syncs!To(j, step)[k] = job[k]
<1>1. PICK t \in SyncTask : t = job[j]
  BY DEF SyncTypes
<1>2. PICK s : s = [t EXCEPT !.step = step]
  OBVIOUS
<1>3. s \in SyncTask /\ s.step = step /\ Alike(t, s)
  BY <1>2 DEF SyncTask, Alike, Kept
<1>4. Syncs!To(j, step) = [job EXCEPT ![j] = s]
  BY <1>1, <1>2 DEF Syncs!To, SyncTypes
<1> QED
  BY <1>1, <1>3, <1>4 DEF SyncTypes

\* A task turns to the next user.
LEMMA FollowingGoes ==
  ASSUME SyncTypes, NEW j \in Tasks
  PROVE  /\ Syncs!Following(j) \in [Tasks -> SyncTask]
         /\ Syncs!Following(j)[j].step = "next" /\ Kept(job[j], Syncs!Following(j)[j])
         /\ Syncs!Following(j)[j].todo = job[j].todo
         /\ Syncs!Following(j)[j].who = None /\ Syncs!Following(j)[j].sub = None
         /\ Syncs!Following(j)[j].num = None /\ Syncs!Following(j)[j].view = None
         /\ \A k \in Tasks \ {j} : Syncs!Following(j)[k] = job[k]
<1>1. PICK t \in SyncTask : t = job[j]
  BY DEF SyncTypes
<1>2. PICK s : s = [t EXCEPT !.step = "next", !.who = None, !.num = None, !.sub = None,
                             !.view = None]
  OBVIOUS
<1>3. s \in SyncTask /\ s.step = "next" /\ Kept(t, s) /\ s.todo = t.todo
      /\ s.who = None /\ s.sub = None /\ s.num = None /\ s.view = None
  BY <1>2 DEF SyncTask, Kept, SyncSteps
<1>4. Syncs!Following(j) = [job EXCEPT ![j] = s]
  BY <1>1, <1>2 DEF Syncs!Following, SyncTypes
<1> QED
  BY <1>1, <1>3, <1>4 DEF SyncTypes

\* Rows that stay hold what they held.
LEMMA SoleOf ==
  ASSUME SyncInv, mirror' = mirror
  PROVE \A a \in Account, n \in Num : Holds(mirror', a, n) => Holds(mirror, a, n)
BY DEF Holds

\* The handlers.
LEMMA PressKeeps ==
  ASSUME Syncs!ConstantsAssumption, SyncInv, NEW j \in Tasks, NEW kind \in Syncs!Kind,
         Syncs!Press(j, kind)
  PROVE  SyncInv'
<1>1. PICK t \in SyncTask : t = job[j]
  BY DEF SyncInv, SyncTypes
<1>2. PICK s : s = [t EXCEPT !.step = "checked", !.kind = kind, !.clean = kind \notin lock]
  OBVIOUS
<1>3. s \in SyncTask /\ s.step = "checked" /\ s.todo = {} /\ t.todo = {} /\ t.step = "idle"
      /\ s.kind = kind /\ s.clean
  BY <1>1, <1>2 DEF SyncTask, SyncSteps, Syncs!Press, SyncInv, AllFit, Fits, Syncs!Unset
<1>4. job' = [job EXCEPT ![j] = s]
  BY <1>1, <1>2 DEF Syncs!Press, Syncs!To, SyncInv, SyncTypes
<1>5. job' \in [Tasks -> SyncTask] /\ job'[j] = s /\ \A k \in Tasks \ {j} : job'[k] = job[k]
  BY <1>3, <1>4 DEF SyncInv, SyncTypes
<1>6. UNCHANGED <<outset, others, members, mirror, lock, meanwhile, loose>>
  BY DEF Syncs!Press
<1>7. SyncTypes'
  BY <1>5, <1>6 DEF SyncInv, SyncTypes
<1>8. AllFit'
  BY <1>3, <1>5, <1>6 DEF SyncInv, AllFit, Fits
<1>9. KeyInv'
  <2>1. \A k \in Tasks : k \in Syncs!Running' <=> k \in Syncs!Running
    BY <1>1, <1>3, <1>5 DEF Syncs!Running
  <2>2. j \notin Syncs!Running
    BY <1>1, <1>3 DEF Syncs!Running
  <2>3. \A x \in lock : \E k \in Tasks \ {j} :
          job'[k].kind = x /\ job'[k].step \notin {"idle", "checked", "done"}
    BY <1>1, <1>3, <1>5 DEF SyncInv, KeyInv
  <2>4. \A a \in Syncs!Running' : a \in Syncs!Running /\ a \in Tasks /\ a # j /\ job'[a] = job[a]
    BY <2>1, <2>2, <1>5 DEF Syncs!Running
  <2>5. \A k \in Tasks : job'[k].step = "checked" => job'[k].clean
    BY <1>3, <1>5 DEF SyncInv, KeyInv
  <2> QED
    BY <1>6, <2>3, <2>4, <2>5 DEF SyncInv, KeyInv
<1>10. NumInv'
  <2>1. \A k \in Tasks : Calm(job'[k], job[k])
    BY <1>3, <1>5 DEF Calm, SameTask, Drops
  <2> QED
    BY <1>5, <1>6, <2>1, NumGoes DEF Holds
<1> QED
  BY <1>7, <1>8, <1>9, <1>10 DEF SyncInv

\* A press that saw no key sets it and queues its task.
LEMMA DispatchKeeps ==
  ASSUME Syncs!ConstantsAssumption, SyncInv, NEW j \in Tasks, NEW users, Syncs!Dispatch(j, users)
  PROVE  SyncInv'
<1>1. PICK t \in SyncTask : t = job[j]
  BY DEF SyncInv, SyncTypes
<1>2. PICK s : s = [t EXCEPT !.step = "queued", !.chosen = users, !.clean = TRUE]
  OBVIOUS
<1>0. users \subseteq Syncs!Client
  <2> DEFINE Most ==
        {i \in outset.inbounds :
          \A k \in outset.inbounds : Syncs!Cardinality(k) <= Syncs!Cardinality(i)}
  <2>1. Syncs!Exported =
          IF Most = {} THEN {} ELSE {c \in CHOOSE i \in Most : TRUE : c.enable /\ c.id # None}
    BY DEF Syncs!Exported
  <2>2. Most \subseteq SUBSET Syncs!Client
    BY DEF Syncs!ConstantsAssumption, SyncInv, SyncTypes
  <2>3. Most # {} => (CHOOSE i \in Most : TRUE) \in Most
    OBVIOUS
  <2> HIDE DEF Most
  <2>4. Syncs!Exported \subseteq Syncs!Client
    BY <2>1, <2>2, <2>3
  <2> QED
    BY <2>4 DEF Syncs!Dispatch, Syncs!Unexpired
<1>3. s \in SyncTask /\ s.step = "queued" /\ s.todo = {} /\ t.todo = {} /\ t.step = "checked"
      /\ s.kind = t.kind /\ t.clean
  BY <1>1, <1>2, <1>0 DEF SyncTask, SyncSteps, Syncs!Dispatch, SyncInv, AllFit, Fits, KeyInv
<1>4. job' = [job EXCEPT ![j] = s]
  BY <1>1, <1>2 DEF Syncs!Dispatch, Syncs!To, SyncInv, SyncTypes
<1>5. job' \in [Tasks -> SyncTask] /\ job'[j] = s /\ \A k \in Tasks \ {j} : job'[k] = job[k]
  BY <1>3, <1>4 DEF SyncInv, SyncTypes
<1>6. /\ UNCHANGED <<outset, others, members, mirror, meanwhile>> /\ lock' = lock \cup {t.kind}
      /\ loose' = (loose \/ t.kind \in lock)
  BY <1>1, <1>3 DEF Syncs!Dispatch
<1>7. SyncTypes'
  BY <1>1, <1>5, <1>6 DEF SyncInv, SyncTypes, SyncTask
<1>8. AllFit'
  BY <1>3, <1>5, <1>6 DEF SyncInv, AllFit, Fits
<1>9. KeyInv'
  <2>1. \A x \in lock' : \E k \in Tasks :
          job'[k].kind = x /\ job'[k].step \notin {"idle", "checked", "done"}
    BY <1>1, <1>3, <1>5, <1>6 DEF SyncInv, KeyInv
  <2>2. \A a \in Syncs!Running' :
          a \in Tasks /\ (a = j \/ (a \in Syncs!Running /\ job'[a] = job[a]))
    BY <1>5 DEF Syncs!Running
  <2>3. ~loose' => /\ t.kind \notin lock
                   /\ \A a \in Syncs!Running :
                        /\ job[a].kind # t.kind /\ job[a].kind \in lock
                        /\ \A b \in Syncs!Running : a # b => job[a].kind # job[b].kind
    BY <1>6 DEF SyncInv, KeyInv
  <2>4. ASSUME ~loose', NEW a \in Syncs!Running'
        PROVE  /\ job'[a].kind \in lock'
               /\ \A b \in Syncs!Running' : a # b => job'[a].kind # job'[b].kind
    BY <1>3, <1>5, <1>6, <2>2, <2>3, <2>4
  <2>5. \A k \in Tasks : job'[k].step = "checked" => job'[k].clean
    BY <1>3, <1>5 DEF SyncInv, KeyInv
  <2> QED
    BY <2>1, <2>4, <2>5 DEF KeyInv
<1>10. NumInv'
  <2>1. \A k \in Tasks : Calm(job'[k], job[k])
    BY <1>3, <1>5 DEF Calm, SameTask, Drops
  <2> QED
    BY <1>5, <1>6, <2>1, NumGoes DEF Holds
<1> QED
  BY <1>7, <1>8, <1>9, <1>10 DEF SyncInv

\* The key goes, and a task of its kind may have ended.
LEMMA UnlockKeepsKeys ==
  ASSUME SyncInv, NEW S \in SUBSET Tasks, NEW kinds, job' \in [Tasks -> SyncTask],
         lock' = lock \ kinds,
         loose' <=> (loose \/ \E k \in Syncs!Running \ S : job[k].kind \in kinds \cap lock),
         \A k \in Tasks \ S : SameTask(job'[k], job[k]),
         \A j \in S : /\ job'[j].step \in {"ended", "done"} /\ job'[j].kind = job[j].kind
                      /\ job'[j].step = "done" => job[j].kind \in kinds
  PROVE  KeyInv'
<1>1. \A k \in Tasks \ S :
        /\ job'[k].kind = job[k].kind
        /\ job'[k].step = job[k].step
        /\ job'[k].step = "checked" => job'[k].clean = job[k].clean
  BY DEF SameTask
<1>3. ASSUME NEW k \in Syncs!Running' PROVE k \in Tasks /\ k \notin S /\ k \in Syncs!Running
  <2>1. k \in Tasks /\ job'[k].step \notin {"idle", "checked", "ended", "done"}
    BY <1>3 DEF Syncs!Running
  <2>2. k \notin S
    BY <2>1
  <2> QED
    BY <1>1, <2>1, <2>2 DEF Syncs!Running
<1>4. \A kind \in lock' : \E k \in Tasks :
        job'[k].kind = kind /\ job'[k].step \notin {"idle", "checked", "done"}
  <2> SUFFICES ASSUME NEW kind \in lock'
               PROVE  \E k \in Tasks : /\ job'[k].kind = kind
                                       /\ job'[k].step \notin {"idle", "checked", "done"}
    OBVIOUS
  <2>1. PICK k \in Tasks : job[k].kind = kind /\ job[k].step \notin {"idle", "checked", "done"}
    BY DEF SyncInv, KeyInv
  <2>2. CASE k \notin S
    BY <1>1, <2>1, <2>2
  <2>3. CASE k \in S
    BY <2>1, <2>3
  <2> QED
    BY <2>2, <2>3
<1>5. ASSUME ~loose', NEW a \in Syncs!Running'
      PROVE  /\ job'[a].kind \in lock'
             /\ \A b \in Syncs!Running' : a # b => job'[a].kind # job'[b].kind
  BY <1>1, <1>3, <1>5 DEF SyncInv, KeyInv
<1>6. \A k \in Tasks : job'[k].step = "checked" => job'[k].clean
  <2> SUFFICES ASSUME NEW k \in Tasks, job'[k].step = "checked" PROVE job'[k].clean
    OBVIOUS
  <2> QED
    BY <1>1 DEF SyncInv, KeyInv
<1> QED
  BY <1>4, <1>5, <1>6 DEF KeyInv

\* A handler deletes the key after its task.
LEMMA ReturnKeeps ==
  ASSUME Syncs!ConstantsAssumption, SyncInv, NEW j \in Tasks, Syncs!Return(j)
  PROVE  SyncInv'
<1>1. job' = Syncs!To(j, "done") /\ job[j].step = "ended"
  BY DEF Syncs!Return
<1>2. /\ job' \in [Tasks -> SyncTask] /\ job'[j].step = "done" /\ Alike(job[j], job'[j])
      /\ \A k \in Tasks \ {j} : job'[k] = job[k]
  BY <1>1, ToGoes DEF SyncInv, SyncSteps
<1>3. UNCHANGED <<outset, others, members, mirror, meanwhile>>
  BY DEF Syncs!Return
<1>4. /\ lock' = lock \ {job[j].kind}
      /\ loose' \in BOOLEAN
      /\ loose' <=>
           (loose \/ \E k \in Syncs!Running \ {j} : job[k].kind \in {job[j].kind} \cap lock)
  BY DEF Syncs!Return, Syncs!Unlock, Syncs!Released, SyncInv, SyncTypes
<1>5. SyncTypes'
  BY <1>2, <1>3, <1>4 DEF SyncInv, SyncTypes
<1>6. AllFit'
  BY <1>1, <1>2, <1>3 DEF SyncInv, AllFit, Fits, Alike, Kept
<1>7. KeyInv'
  <2>1. \A k \in Tasks \ {j} : SameTask(job'[k], job[k])
    BY <1>2 DEF SameTask
  <2>2. job'[j].kind = job[j].kind
    BY <1>2 DEF Alike, Kept
  <2>3. PICK S, gone : S = {j} /\ gone = {job[j].kind}
    OBVIOUS
  <2>4. /\ lock' = lock \ gone
        /\ loose' <=> (loose \/ \E k \in Syncs!Running \ S : job[k].kind \in gone \cap lock)
    BY <1>4, <2>3
  <2>5. \A k \in Tasks \ S : SameTask(job'[k], job[k])
    BY <2>1, <2>3
  <2>6. \A x \in S :
        /\ job'[x].step \in {"ended", "done"} /\ job'[x].kind = job[x].kind
        /\ job'[x].step = "done" => job[x].kind \in gone
    BY <1>2, <2>2, <2>3
  <2>7. S \in SUBSET Tasks
    BY <2>3
  <2> QED
    BY <1>2, <2>4, <2>5, <2>6, <2>7, UnlockKeepsKeys
<1>8. NumInv'
  <2>1. \A k \in Tasks : Calm(job'[k], job[k])
    BY <1>2 DEF Calm, SameTask, Drops, Alike, Kept
  <2> QED
    BY <1>2, <1>3, <1>4, <2>1, NumGoes DEF Holds
<1> QED
  BY <1>5, <1>6, <1>7, <1>8 DEF SyncInv

\* A key expires.
LEMMA ExpireKeeps ==
  ASSUME Syncs!ConstantsAssumption, SyncInv, NEW kind \in Syncs!Kind, Syncs!Expire(kind)
  PROVE  SyncInv'
<1>1. UNCHANGED <<outset, others, members, mirror, job, meanwhile>>
  BY DEF Syncs!Expire
<1>2. /\ lock' = lock \ {kind}
      /\ loose' \in BOOLEAN
      /\ loose' <=> (loose \/ \E k \in Syncs!Running : job[k].kind \in {kind} \cap lock)
  BY DEF Syncs!Expire, Syncs!Unlock, SyncInv, SyncTypes, Syncs!ConstantsAssumption, Syncs!Running
<1>3. SyncTypes'
  BY <1>1, <1>2 DEF SyncInv, SyncTypes
<1>4. AllFit'
  BY <1>1 DEF SyncInv, AllFit
<1>5. \A k \in Tasks : SameTask(job'[k], job[k]) /\ Calm(job'[k], job[k])
  BY <1>1 DEF SameTask, Calm
<1>6. KeyInv'
  <2>1. PICK S, gone : S = {} /\ gone = {kind}
    OBVIOUS
  <2>2. /\ lock' = lock \ gone
        /\ loose' <=> (loose \/ \E k \in Syncs!Running \ S : job[k].kind \in gone \cap lock)
    BY <1>2, <2>1
  <2>3. job' \in [Tasks -> SyncTask] /\ \A k \in Tasks \ S : SameTask(job'[k], job[k])
    BY <1>3, <1>5, <2>1 DEF SyncTypes
  <2>4. \A x \in S :
        /\ job'[x].step \in {"ended", "done"} /\ job'[x].kind = job[x].kind
        /\ job'[x].step = "done" => job[x].kind \in gone
    BY <2>1
  <2>5. S \in SUBSET Tasks
    BY <2>1
  <2> QED
    BY <2>2, <2>3, <2>4, <2>5, UnlockKeepsKeys
<1>7. NumInv'
  BY <1>1, <1>2, <1>3, <1>5, NumGoes DEF Holds, SyncTypes
<1> QED
  BY <1>3, <1>4, <1>6, <1>7 DEF SyncInv

\* A task that goes on, and no panel user or row changes.
LEMMA GoesOn ==
  ASSUME SyncInv, NEW j \in Tasks, job' \in [Tasks -> SyncTask], job[j].step \in Active,
         job'[j].kind = job[j].kind, job'[j].step \in Active, Fits(job'[j], members'),
         Drops(job'[j], job[j]), \A k \in Tasks \ {j} : job'[k] = job[k],
         UNCHANGED <<outset, others, members, mirror, lock, loose>>
  PROVE  SyncInv'
<1>1. \A k \in Tasks \ {j} : SameTask(job'[k], job[k])
  BY DEF SameTask
<1>2. \A k \in Tasks : Calm(job'[k], job[k])
  BY <1>1 DEF Calm
<1>3. KeyInv'
  BY <1>1, KeyGoes
<1>4. NumInv'
  BY <1>2, NumGoes DEF Holds
<1> QED
  BY <1>3, <1>4 DEF SyncInv, SyncTypes, AllFit

\* The panel raises.
LEMMA PanelRaisesKeeps ==
  ASSUME Syncs!ConstantsAssumption, SyncInv, NEW j \in Tasks, Syncs!PanelRaises(j) PROVE SyncInv'
<1>1. PICK t \in SyncTask : t = Syncs!Following(j)[j]
  BY FollowingGoes DEF SyncInv
<1>2. PICK s : s = [t EXCEPT !.clean = FALSE]
  OBVIOUS
<1>3. s \in SyncTask /\ s.step = "next" /\ s.kind = job[j].kind /\ s.todo = job[j].todo
      /\ s.who = None /\ s.sub = None
  BY <1>1, <1>2, FollowingGoes DEF SyncTask, Kept, SyncInv
<1>4. job' = [Syncs!Following(j) EXCEPT ![j] = s]
  BY <1>1, <1>2, FollowingGoes DEF Syncs!PanelRaises, SyncInv
<1>5. job' \in [Tasks -> SyncTask] /\ job'[j] = s /\ \A k \in Tasks \ {j} : job'[k] = job[k]
  BY <1>3, <1>4, FollowingGoes DEF SyncInv
<1>6. Fits(s, members) /\ job[j].step \in Active
  BY <1>3 DEF SyncInv, AllFit, Fits, Syncs!PanelRaises, Active
<1> QED
  BY <1>3, <1>5, <1>6, GoesOn DEF Syncs!PanelRaises, Drops, Active

\* A task ends.
LEMMA FinishKeeps ==
  ASSUME Syncs!ConstantsAssumption, SyncInv, NEW j \in Tasks, Syncs!Finish(j)
  PROVE  SyncInv'
<1>0. PICK kinds : kinds = IF job[j].kind = "import" THEN {} ELSE {job[j].kind}
  OBVIOUS
<1>1. job' = Syncs!To(j, "ended") /\ job[j].step = "next" /\ job[j].todo = {}
  BY DEF Syncs!Finish
<1>2. /\ job' \in [Tasks -> SyncTask] /\ job'[j].step = "ended" /\ Alike(job[j], job'[j])
      /\ \A k \in Tasks \ {j} : job'[k] = job[k]
  BY <1>1, ToGoes DEF SyncInv, SyncSteps
<1>3. UNCHANGED <<outset, others, members, mirror, meanwhile>>
  BY DEF Syncs!Finish
<1>4. /\ lock' = lock \ kinds
      /\ loose' \in BOOLEAN
      /\ loose' <=> (loose \/ \E k \in Syncs!Running \ {j} : job[k].kind \in kinds \cap lock)
  BY <1>0 DEF Syncs!Finish, Syncs!Unlock, SyncInv, SyncTypes
<1>5. SyncTypes'
  BY <1>2, <1>3, <1>4 DEF SyncInv, SyncTypes
<1>6. AllFit'
  BY <1>1, <1>2, <1>3 DEF SyncInv, AllFit, Fits, Alike, Kept
<1>7. KeyInv'
  <2>1. \A k \in Tasks \ {j} : SameTask(job'[k], job[k])
    BY <1>2 DEF SameTask
  <2>2. job'[j].kind = job[j].kind
    BY <1>2 DEF Alike, Kept
  <2>3. PICK S, gone : S = {j} /\ gone = kinds
    OBVIOUS
  <2>4. /\ lock' = lock \ gone
        /\ loose' <=> (loose \/ \E k \in Syncs!Running \ S : job[k].kind \in gone \cap lock)
    BY <1>4, <2>3
  <2>5. \A k \in Tasks \ S : SameTask(job'[k], job[k])
    BY <2>1, <2>3
  <2>6. \A x \in S :
        /\ job'[x].step \in {"ended", "done"} /\ job'[x].kind = job[x].kind
        /\ job'[x].step = "done" => job[x].kind \in gone
    BY <1>2, <2>2, <2>3
  <2>7. S \in SUBSET Tasks
    BY <2>3
  <2> QED
    BY <1>2, <2>4, <2>5, <2>6, <2>7, UnlockKeepsKeys
<1>8. NumInv'
  <2>1. \A k \in Tasks : Calm(job'[k], job[k])
    BY <1>2 DEF Calm, SameTask, Drops, Alike, Kept
  <2> QED
    BY <1>2, <1>3, <1>4, <2>1, NumGoes DEF Holds
<1> QED
  BY <1>5, <1>6, <1>7, <1>8 DEF SyncInv

\* The process stops.
LEMMA StopKeeps ==
  ASSUME Syncs!ConstantsAssumption, SyncInv, NEW j \in Tasks, Syncs!Stop(j)
  PROVE  SyncInv'
<1>1. PICK t \in SyncTask : t = Syncs!Following(j)[j]
  BY FollowingGoes DEF SyncInv
<1>2. PICK s : s = [t EXCEPT !.step = "queued", !.todo = {}]
  OBVIOUS
<1>3. s \in SyncTask /\ s.step = "queued" /\ s.kind = job[j].kind /\ s.todo = {}
  BY <1>1, <1>2, FollowingGoes DEF SyncTask, SyncSteps, Kept, SyncInv
<1>4. job' = [Syncs!Following(j) EXCEPT ![j] = s]
  BY <1>1, <1>2, FollowingGoes DEF Syncs!Stop, SyncInv
<1>5. job' \in [Tasks -> SyncTask] /\ job'[j] = s /\ \A k \in Tasks \ {j} : job'[k] = job[k]
  BY <1>3, <1>4, FollowingGoes DEF SyncInv
<1>6. Fits(s, members) /\ job[j].step \in Active
  BY <1>3, RunningIs DEF SyncInv, Fits, Syncs!Stop
<1> QED
  BY <1>3, <1>5, <1>6, GoesOn DEF Syncs!Stop, Drops, Active

\* Bot to panel: a user is next.
LEMMA TakeBotUserKeeps ==
  ASSUME Syncs!ConstantsAssumption, SyncInv, NEW j \in Tasks, Syncs!TakeBotUser(j) PROVE SyncInv'
<1>1. PICK t \in SyncTask : t = job[j]
  BY DEF SyncInv, SyncTypes
<1>2. PICK a \in t.todo :
        /\ mirror[a] = None => job' = [job EXCEPT ![j].todo = @ \ {a}]
        /\ mirror[a] # None =>
             job' = [job EXCEPT ![j] = [job[j] EXCEPT !.step = "look", !.who = a, !.sub = mirror[a],
                                                      !.todo = job[j].todo \ {a}]]
  BY <1>1 DEF Syncs!TakeBotUser
<1>3. /\ t.kind = "from_bot" /\ t.step = "next"
      /\ a \in members /\ a \in Account /\ t.todo \subseteq members
  BY <1>1, <1>2 DEF Syncs!TakeBotUser, SyncInv, AllFit, Fits, SyncTypes
<1>4. UNCHANGED <<outset, others, members, mirror, lock, loose>>
  BY DEF Syncs!TakeBotUser, Syncs!Rest
<1>5. CASE mirror[a] = None
  <2>1. PICK s : s = [t EXCEPT !.todo = t.todo \ {a}]
    OBVIOUS
  <2>2. s \in SyncTask /\ s.step = "next" /\ s.kind = t.kind /\ s.todo \subseteq t.todo
        /\ s.who = t.who /\ s.sub = t.sub
    BY <1>3, <2>1 DEF SyncTask
  <2>3. job' = [job EXCEPT ![j] = s]
    BY <1>1, <1>2, <1>5, <2>1 DEF SyncInv, SyncTypes
  <2>4. Fits(s, members)
    BY <1>1, <1>3, <2>2 DEF Fits, SyncInv, AllFit
  <2> QED
    BY <1>1, <1>3, <1>4, <2>2, <2>3, <2>4, GoesOn DEF Drops, Active, SyncInv, SyncTypes
<1>6. CASE mirror[a] # None
  <2>1. PICK s : /\ s = [job[j] EXCEPT !.step = "look", !.who = a, !.sub = mirror[a],
                                       !.todo = job[j].todo \ {a}]
                 /\ job' = [job EXCEPT ![j] = s]
    BY <1>2, <1>6
  <2>2. s \in SyncTask /\ s.step = "look" /\ s.kind = t.kind /\ s.todo \subseteq t.todo
        /\ s.who = a /\ s.sub = mirror[a] /\ mirror[a] \in Syncs!Sub
    BY <1>1, <1>3, <1>6, <2>1 DEF SyncTask, SyncSteps, SyncInv, SyncTypes
  <2>4. Fits(s, members)
    BY <1>1, <1>3, <2>2 DEF Fits, SyncInv, AllFit
  <2> QED
    BY <1>1, <1>3, <1>4, <2>1, <2>2, <2>4, GoesOn DEF Drops, Active, SyncInv, SyncTypes
<1> QED
  BY <1>5, <1>6

\* Bot to panel: the panel is asked for his number.
LEMMA LookKeeps ==
  ASSUME Syncs!ConstantsAssumption, SyncInv, NEW j \in Tasks, Syncs!Look(j)
  PROVE  SyncInv'
<1>1. PICK step \in {"update", "create"} : job' = Syncs!To(j, step)
  BY DEF Syncs!Look
<1>2. /\ job' \in [Tasks -> SyncTask] /\ job'[j].step = step /\ Alike(job[j], job'[j])
      /\ \A k \in Tasks \ {j} : job'[k] = job[k]
  BY <1>1, ToGoes DEF SyncInv, SyncSteps
<1>3. Fits(job'[j], members)
  BY <1>2 DEF Syncs!Look, SyncInv, AllFit, Fits, Alike, Kept
<1> QED
  BY <1>2, <1>3, GoesOn DEF Syncs!Look, Syncs!Rest, Drops, Active, Alike, Kept

\* A task that had fetched nothing fetched what agrees with others.
LEMMA NumKept ==
  ASSUME SyncInv, loose' = loose, job' \in [Tasks -> SyncTask],
         UNCHANGED <<others, members, mirror>>,
         NEW j \in Tasks, \A k \in Tasks \ {j} : job'[k] = job[k],
         Fits(job'[j], members),
         ~loose /\ Writes(job'[j]) =>
           /\ \A a \in Account : Holds(mirror, a, job'[j].num) => a = job'[j].who
           /\ job'[j].who # None => job'[j].who = job'[j].view.telegram,
         ~loose /\ Creates(job'[j]) =>
           Creates(job[j]) /\ job'[j].num = job[j].num /\ job'[j].view = job[j].view,
         ~loose => \A i \in Tasks \ {j} :
           Creates(job[i]) => Knows(job[i].num, job'[j], job[i].view.telegram)
  PROVE  NumInv'
<1> SUFFICES ASSUME ~loose' PROVE Sole' /\ Unheld' /\ Agreed'
  BY DEF NumInv
<1>0. ~loose /\ Sole /\ Unheld /\ Agreed
  BY DEF SyncInv, NumInv
<1>1. Sole'
  BY <1>0 DEF Sole
<1>2. Unheld'
  BY <1>0 DEF Unheld
<1>3. Agreed'
  <2> SUFFICES ASSUME NEW i \in Tasks, Creates(job'[i])
      PROVE /\ job'[i].view.telegram \in members' \cup {None}
            /\ others'[job'[i].num] # None => others'[job'[i].num].telegram = job'[i].view.telegram
            /\ \A k \in Tasks : Knows(job'[i].num, job'[k], job'[i].view.telegram)
    BY DEF Agreed, Creates, Knows
  <2>1. PICK n, a : n = job'[i].num /\ a = job'[i].view.telegram
    OBVIOUS
  <2>2. Creates(job[i]) /\ job[i].num = n /\ job[i].view.telegram = a
    BY <1>0, <2>1
  <2>3. /\ a \in members \cup {None}
        /\ others[n] # None => others[n].telegram = a
        /\ \A k \in Tasks : Knows(n, job[k], a)
    BY <1>0, <2>2 DEF Agreed
  <2>4. Knows(n, job'[j], a)
    <3>1. CASE i = j
      BY <2>1, <3>1 DEF Creates, Knows
    <3>2. CASE i # j
      BY <1>0, <2>2, <3>2
    <3> QED
      BY <3>1, <3>2
  <2> QED
    BY <2>1, <2>3, <2>4
<1> QED
  BY <1>1, <1>2, <1>3

\* A task fetches what it goes through.
LEMMA FetchKeeps ==
  ASSUME Syncs!ConstantsAssumption, SyncInv, NEW j \in Tasks, Syncs!Fetch(j)
  PROVE  SyncInv'
<1> DEFINE Views == {[num |-> n, view |-> others[n]] : n \in Syncs!Existing}
<1>1. PICK todo : todo = CASE job[j].kind = "import" -> job[j].chosen
                 [] job[j].kind = "from_bot" -> members
                 [] OTHER -> Views
  OBVIOUS
<1>2. \A x \in Views : x \in Fetched /\ x.num \in Syncs!Existing /\ x.view = others[x.num]
  BY DEF Fetched, Syncs!Existing, SyncInv, SyncTypes
<1> HIDE DEF Views
<1>3. job[j].kind \in Syncs!Kind /\ job[j].chosen \subseteq Syncs!Client /\ job[j].step = "queued"
  BY DEF SyncInv, SyncTypes, SyncTask, Syncs!Fetch
<1>4. /\ job[j].kind = "import" => todo \subseteq Syncs!Client
      /\ job[j].kind = "from_bot" => todo \subseteq members
      /\ job[j].kind = "from_panel" => todo \subseteq Fetched
           /\ \A x \in todo : x.num \in Syncs!Existing /\ x.view = others[x.num]
  BY <1>1, <1>2, <1>3 DEF Syncs!Kind
<1>5. PICK t \in SyncTask : t = Syncs!Following(j)[j]
  BY FollowingGoes DEF SyncInv
<1>6. PICK s : s = [t EXCEPT !.todo = todo]
  OBVIOUS
<1>7. s \in SyncTask /\ s.step = "next" /\ s.kind = job[j].kind /\ s.todo = todo
      /\ s.who = None /\ s.sub = None
  BY <1>3, <1>4, <1>5, <1>6, FollowingGoes DEF SyncTask, Kept, Syncs!Kind, SyncInv, SyncTypes
<1>8. job' = [Syncs!Following(j) EXCEPT ![j] = s]
  <2>1. job' = [Syncs!Following(j) EXCEPT ![j].todo = todo]
    BY <1>1 DEF Syncs!Fetch, Views
  <2> QED
    BY <2>1, <1>5, <1>6, FollowingGoes DEF SyncInv
<1>9. job' \in [Tasks -> SyncTask] /\ job'[j] = s /\ \A k \in Tasks \ {j} : job'[k] = job[k]
  BY <1>7, <1>8, FollowingGoes DEF SyncInv
<1>10. UNCHANGED <<outset, lock, meanwhile, loose>> /\ UNCHANGED <<others, members, mirror>>
  BY DEF Syncs!Fetch, Syncs!Rest
<1>11. Fits(s, members)
  BY <1>3, <1>4, <1>7 DEF Fits, Syncs!Kind
<1>12. KeyInv'
  BY <1>3, <1>7, <1>9, <1>10, KeyGoes DEF Active, SameTask
<1>13. NumInv'
  <2>1. ASSUME ~loose, NEW i \in Tasks \ {j}, Creates(job[i])
        PROVE  Knows(job[i].num, s, job[i].view.telegram)
    BY <1>4, <1>7, <2>1 DEF Knows, SyncInv, NumInv, Agreed, Syncs!Existing
  <2> QED
    BY <1>7, <1>9, <1>10, <1>11, <2>1, NumKept DEF Writes, Creates
<1> QED
  BY <1>9, <1>10, <1>11, <1>12, <1>13 DEF SyncInv, SyncTypes, AllFit

\* A panel user is read: his user is looked for.
LEMMA ReadSyncKeeps ==
  ASSUME Syncs!ConstantsAssumption, SyncInv, NEW j \in Tasks, NEW n \in Num,
         NEW view \in Syncs!PanelUser,
         NEW todo \in SUBSET job[j].todo, Syncs!ReadSync(j, n, view, todo),
         \/ job[j].kind = "from_panel" /\ job[j].step = "next"
              /\ \E x \in job[j].todo : x.num = n /\ x.view = view
         \/ job[j].kind = "from_bot" /\ job[j].step = "created"
              /\ job[j].num = n /\ job[j].view = view
  PROVE  SyncInv'
<1>0. PICK t \in SyncTask : t = job[j]
  BY DEF SyncInv, SyncTypes
<1>1. UNCHANGED <<outset, lock, meanwhile, loose>> /\ UNCHANGED <<others, members, mirror>>
  BY DEF Syncs!ReadSync, Syncs!Rest
<1>2. \A a \in Account : Holds(mirror, a, n) => a \in Syncs!Found(n, view)
  BY DEF Holds, Syncs!Found, SyncInv, SyncTypes
<1>3. \A a \in Syncs!Found(n, view) : a \in members /\ a \in Account /\ (Holds(mirror, a, n)
        \/ (a = view.telegram /\ \A b \in Account : ~Holds(mirror, b, n)))
  BY DEF Holds, Syncs!Found, SyncInv, SyncTypes
<1>4. view.telegram \in members => Syncs!Found(n, view) # {}
  BY DEF Syncs!Found
<1>5. ASSUME NEW s \in SyncTask, job' = [job EXCEPT ![j] = s], s.step = "sync", s.kind = t.kind,
             s.num = n, s.view = view, s.todo = todo,
             \/ s.who \in Syncs!Found(n, view) /\ s.sub = mirror[s.who]
             \/ s.who = None /\ s.sub = None /\ Syncs!Found(n, view) = {} /\ t.kind = "from_panel"
      PROVE  SyncInv'
  <2>1. job' \in [Tasks -> SyncTask] /\ job'[j] = s /\ \A k \in Tasks \ {j} : job'[k] = job[k]
    BY <1>5 DEF SyncInv, SyncTypes
  <2>2. Fits(t, members)
    BY <1>0 DEF SyncInv, AllFit
  <2>3. Fits(s, members)
    BY <1>0, <1>3, <1>5, <2>2 DEF Fits, SyncInv, SyncTypes, Syncs!ConstantsAssumption
  <2>4. KeyInv'
    BY <1>0, <1>1, <1>5, <2>1, KeyGoes DEF Active, SameTask
  <2>5. NumInv'
    <3>1. ASSUME Writes(s) PROVE /\ \A a \in Account : Holds(mirror, a, s.num) => a = s.who
                                 /\ s.who # None => s.who = s.view.telegram
      BY <1>2, <1>3, <1>5, <3>1 DEF Writes, Holds
    <3>2. Creates(s) => Creates(t) /\ s.num = t.num /\ s.view = t.view
      BY <1>0, <1>5 DEF Creates
    <3>3. ASSUME ~loose, NEW i \in Tasks \ {j}, Creates(job[i])
          PROVE  Knows(job[i].num, s, job[i].view.telegram)
      <4>1. PICK m, a : m = job[i].num /\ a = job[i].view.telegram
        OBVIOUS
      <4>2. Knows(m, t, a) /\ a \in members \cup {None}
        BY <1>0, <3>3, <4>1 DEF SyncInv, NumInv, Agreed
      <4>3. s.kind = "from_panel" /\ n = m => view.telegram = a
        BY <1>0, <1>5, <4>2 DEF Knows
      <4> QED
        BY <1>0, <1>3, <1>4, <1>5, <4>1, <4>2, <4>3 DEF Knows, Syncs!ConstantsAssumption
    <3> QED
      BY <1>0, <1>1, <2>1, <2>3, <3>1, <3>2, <3>3, NumKept
  <2> QED
    BY <1>1, <2>1, <2>3, <2>4, <2>5 DEF SyncInv, SyncTypes, AllFit
<1>6. CASE \E a \in Syncs!Found(n, view) :
          job' = [job EXCEPT ![j] = [@ EXCEPT !.step = "sync", !.who = a, !.num = n,
                                     !.sub = mirror[a], !.view = view, !.todo = todo]]
  <2>1. PICK a \in Syncs!Found(n, view) :
          job' = [job EXCEPT ![j] = [@ EXCEPT !.step = "sync", !.who = a, !.num = n,
                                     !.sub = mirror[a], !.view = view, !.todo = todo]]
    BY <1>6
  <2>2. PICK s : s = [t EXCEPT !.step = "sync", !.who = a, !.num = n,
                               !.sub = mirror[a], !.view = view, !.todo = todo]
    OBVIOUS
  <2>3. job' = [job EXCEPT ![j] = s]
    BY <1>0, <2>1, <2>2
  <2>4. s \in SyncTask /\ s.step = "sync" /\ s.kind = t.kind /\ s.num = n /\ s.view = view
        /\ s.todo = todo /\ s.who = a /\ s.sub = mirror[a]
    <3>1. a \in Account /\ mirror[a] \in Syncs!Sub \cup {None} /\ todo \subseteq t.todo
      BY <1>0, <1>3 DEF SyncInv, SyncTypes
    <3> QED
      BY <2>2, <3>1 DEF SyncTask, SyncSteps
  <2> QED
    BY <1>5, <2>3, <2>4
<1>7. CASE /\ Syncs!Found(n, view) = {} /\ job[j].kind = "from_panel"
           /\ job' = [job EXCEPT ![j] = [@ EXCEPT !.step = "sync", !.num = n, !.view = view,
                                                    !.todo = todo]]
  <2>2. PICK s : s = [t EXCEPT !.step = "sync", !.num = n, !.view = view, !.todo = todo]
    OBVIOUS
  <2>3. job' = [job EXCEPT ![j] = s]
    BY <1>0, <1>7, <2>2
  <2>4. s \in SyncTask /\ s.step = "sync" /\ s.kind = t.kind /\ s.num = n /\ s.view = view
        /\ s.todo = todo /\ s.who = t.who /\ s.sub = t.sub
    <3>1. todo \subseteq t.todo
      BY <1>0
    <3> QED
      BY <2>2, <3>1 DEF SyncTask, SyncSteps
  <2>5. t.who = None /\ t.sub = None
    BY <1>0, <1>7 DEF SyncInv, AllFit, Fits
  <2> QED
    BY <1>0, <1>5, <1>7, <2>3, <2>4, <2>5
<1>8. CASE job' = Syncs!Following(j)
  <2>1. /\ job' \in [Tasks -> SyncTask]
        /\ job'[j].step = "next" /\ Kept(job[j], job'[j])
        /\ job'[j].todo = job[j].todo
        /\ job'[j].who = None /\ job'[j].sub = None
        /\ \A k \in Tasks \ {j} : job'[k] = job[k]
    BY <1>8, FollowingGoes DEF SyncInv
  <2>2. Fits(job'[j], members)
    BY <2>1 DEF SyncInv, AllFit, Fits, Kept
  <2> QED
    BY <1>1, <2>1, <2>2, GoesOn DEF Drops, Active, Kept
<1> QED
  BY <1>6, <1>7, <1>8 DEF Syncs!ReadSync

\* Panel to bot: a panel user is next.
LEMMA TakePanelUserKeeps ==
  ASSUME Syncs!ConstantsAssumption, SyncInv, NEW j \in Tasks, Syncs!TakePanelUser(j) PROVE SyncInv'
<1>1. PICK x \in job[j].todo : Syncs!ReadSync(j, x.num, x.view, job[j].todo \ {x})
  BY DEF Syncs!TakePanelUser
<1>2. job[j].kind = "from_panel" /\ job[j].step = "next" /\ x \in Fetched
  BY DEF Syncs!TakePanelUser, SyncInv, AllFit, Fits
<1>3. PICK n \in Num, view \in Syncs!PanelUser, todo \in SUBSET job[j].todo :
        n = x.num /\ view = x.view /\ todo = job[j].todo \ {x}
  BY <1>2 DEF Fetched
<1> QED
  BY <1>1, <1>2, <1>3, ReadSyncKeeps

\* Bot to panel: a created panel user is applied.
LEMMA TakeCreatedKeeps ==
  ASSUME Syncs!ConstantsAssumption, SyncInv, NEW j \in Tasks, Syncs!TakeCreated(j) PROVE SyncInv'
<1>1. PICK n \in Num, view \in Syncs!PanelUser, todo \in SUBSET job[j].todo :
        n = job[j].num /\ view = job[j].view /\ todo = job[j].todo
  BY DEF Syncs!TakeCreated, SyncInv, AllFit, Fits
<1>2. Syncs!ReadSync(j, n, view, todo) /\ job[j].step = "created" /\ job[j].kind = "from_bot"
  BY <1>1 DEF Syncs!TakeCreated, SyncInv, AllFit, Fits
<1> QED
  BY <1>1, <1>2, ReadSyncKeeps

\* A number is written into a row, and nobody else has it.
LEMMA RowWritten ==
  ASSUME Syncs!ConstantsAssumption, SyncInv, loose' = loose, others' = others,
         members \subseteq members',
         NEW j \in Tasks, Writes(job[j]), job' \in [Tasks -> SyncTask], Drops(job'[j], job[j]),
         \A k \in Tasks \ {j} : SameTask(job'[k], job[k]),
         NEW a \in Account, \A b \in Account \ {a} : mirror'[b] = mirror[b],
         \A n \in Num : Holds(mirror', a, n) => n = job[j].num \/ Holds(mirror, a, n),
         \/ job[j].who = a
         \/ /\ job[j].who = None /\ job[j].kind = "from_panel"
            /\ job[j].view.telegram # None => a = job[j].view.telegram
  PROVE  NumInv'
<1> SUFFICES ASSUME ~loose' PROVE Sole' /\ Unheld' /\ Agreed'
  BY DEF NumInv
<1>0. ~loose /\ Sole /\ Unheld /\ Agreed
  BY DEF SyncInv, NumInv
<1>1. PICK m \in Num : m = job[j].num
  BY DEF SyncInv, AllFit, Fits, Writes
<1>2. \A b \in Account : Holds(mirror, b, m) => b = job[j].who
  BY <1>0, <1>1 DEF Unheld
<1>3. \A b \in Account, n \in Num : Holds(mirror', b, n) => Holds(mirror, b, n) \/ (b = a /\ n = m)
  BY <1>1 DEF Holds
<1>4. Sole'
  <2>1. \A b, c \in Account, n \in Num : Holds(mirror', b, n) /\ Holds(mirror', c, n) => b = c
    BY <1>0, <1>2, <1>3 DEF Sole, Syncs!ConstantsAssumption
  <2> QED
    BY <2>1 DEF Sole
<1>5. ASSUME NEW k \in Tasks \ {j}, Writes(job[k]), job[k].num = m PROVE job[k].who = a
  <2>1. /\ j \in Syncs!Running /\ k \in Syncs!Running
    BY <1>5 DEF Writes, Syncs!Running
  <2>2. job[j].kind # job[k].kind /\ Fits(job[j], members) /\ Fits(job[k], members)
    BY <1>0, <2>1 DEF SyncInv, KeyInv, AllFit
  <2>3. /\ job[k].who # None => job[k].who = job[k].view.telegram
        /\ job[j].who # None => job[j].who = job[j].view.telegram
    BY <1>0, <1>5 DEF Unheld
  <2>4. CASE job[k].kind = "from_bot"
    <3>1. job[j].kind = "from_panel" /\ job[k].who # None
      BY <1>5, <2>2, <2>4 DEF Fits, Writes, SyncInv, SyncTypes, SyncTask, Syncs!Kind
    <3>2. Creates(job[k]) /\ Knows(m, job[j], job[k].view.telegram)
      BY <1>0, <1>5, <2>4 DEF Creates, Writes, Agreed
    <3>3. job[j].view.telegram = job[k].view.telegram
          /\ (job[j].who = None => job[k].view.telegram = None)
      BY <1>1, <3>1, <3>2 DEF Knows, Writes
    <3> QED
      BY <2>3, <3>1, <3>3 DEF Syncs!ConstantsAssumption
  <2>5. CASE job[k].kind # "from_bot"
    <3>1. job[k].kind = "from_panel" /\ job[j].kind = "from_bot"
      BY <1>5, <2>2, <2>5 DEF Fits, Writes, SyncInv, SyncTypes, SyncTask, Syncs!Kind
    <3>2. Creates(job[j]) /\ Knows(m, job[k], job[j].view.telegram)
      BY <1>0, <1>1, <3>1 DEF Creates, Writes, Agreed
    <3>3. job[k].view.telegram = job[j].view.telegram
          /\ (job[k].who = None => job[j].view.telegram = None)
      BY <1>5, <3>1, <3>2 DEF Knows, Writes
    <3> QED
      BY <2>3, <3>1, <3>3 DEF Syncs!ConstantsAssumption
  <2> QED
    BY <2>4, <2>5
<1>6. Unheld'
  <2> SUFFICES ASSUME NEW k \in Tasks, Writes(job'[k])
      PROVE /\ \A b \in Account : Holds(mirror', b, job'[k].num) => b = job'[k].who
            /\ job'[k].who # None => job'[k].who = job'[k].view.telegram
    BY DEF Unheld, Writes
  <2>1. k # j /\ SameTask(job'[k], job[k])
    BY DEF Drops, Writes
  <2>2. PICK n : n = job[k].num
    OBVIOUS
  <2>3. n \in Num /\ job'[k].num = n /\ Writes(job[k])
    BY <2>1, <2>2 DEF SameTask, Writes, SyncInv, AllFit, Fits
  <2>4. \A b \in Account : Holds(mirror, b, n) => b = job[k].who
    BY <1>0, <2>2, <2>3 DEF Unheld
  <2>5. \A b \in Account : Holds(mirror', b, n) => b = job[k].who
    BY <1>3, <1>5, <2>1, <2>2, <2>3, <2>4
  <2> QED
    BY <1>0, <2>1, <2>3, <2>5 DEF SameTask, Unheld
<1>7. Agreed'
  <2> SUFFICES ASSUME NEW i \in Tasks, Creates(job'[i])
      PROVE /\ job'[i].view.telegram \in members' \cup {None}
            /\ others'[job'[i].num] # None => others'[job'[i].num].telegram = job'[i].view.telegram
            /\ \A k \in Tasks : Knows(job'[i].num, job'[k], job'[i].view.telegram)
    BY DEF Agreed, Creates, Knows
  <2>1. i # j /\ SameTask(job'[i], job[i])
    BY DEF Drops, Creates
  <2>2. PICK n, t : n = job[i].num /\ t = job[i].view.telegram
    OBVIOUS
  <2>3. job'[i].num = n /\ job'[i].view.telegram = t /\ Creates(job[i])
    BY <2>1, <2>2 DEF SameTask, Creates
  <2>4. /\ t \in members \cup {None}
        /\ others[n] # None => others[n].telegram = t
        /\ \A k \in Tasks : Knows(n, job[k], t)
    BY <1>0, <2>2, <2>3 DEF Agreed
  <2>5. \A k \in Tasks : SameTask(job'[k], job[k]) => Knows(n, job'[k], t)
    BY <2>4 DEF SameTask, Knows
  <2>6. Drops(job'[j], job[j]) => Knows(n, job'[j], t)
    BY <2>4 DEF Drops, Knows
  <2> QED
    BY <2>3, <2>4, <2>5, <2>6
<1> QED
  BY <1>4, <1>6, <1>7

\* A new user gets a row.
LEMMA SyncNewKeeps ==
  ASSUME Syncs!ConstantsAssumption, SyncInv, NEW j \in Tasks, NEW a \in Account, Syncs!SyncNew(j, a)
  PROVE  SyncInv'
<1>0. PICK t \in SyncTask : t = job[j]
  BY DEF SyncInv, SyncTypes
<1>1. /\ t.step = "sync" /\ t.who = None /\ t.sub = None /\ t.kind = "from_panel"
      /\ t.num \in Num /\ t.view \in Syncs!PanelUser /\ Fits(t, members)
  BY <1>0 DEF Syncs!SyncNew, SyncInv, AllFit, Fits, Syncs!Kind, SyncTask
<1>2. /\ UNCHANGED <<outset, lock, meanwhile, loose>>
      /\ others' = others /\ members' = members \cup {a}
      /\ t.view.telegram # None => a = t.view.telegram
      /\ t.view.telegram = None => a \notin members
  BY <1>0 DEF Syncs!SyncNew, Syncs!Rest
<1>3. /\ Syncs!Following(j) \in [Tasks -> SyncTask]
      /\ Syncs!Following(j)[j].step = "next" /\ Kept(job[j], Syncs!Following(j)[j])
      /\ Syncs!Following(j)[j].todo = job[j].todo
      /\ Syncs!Following(j)[j].who = None /\ Syncs!Following(j)[j].sub = None
      /\ \A k \in Tasks \ {j} : Syncs!Following(j)[k] = job[k]
  BY FollowingGoes DEF SyncInv
<1>4. CASE t.view.telegram \in members
  <2>1. mirror' = mirror /\ job' = [Syncs!Following(j) EXCEPT ![j].clean = FALSE]
    BY <1>0, <1>4 DEF Syncs!SyncNew
  <2>2. PICK u \in SyncTask : u = Syncs!Following(j)[j]
    BY <1>3
  <2>3. PICK s : s = [u EXCEPT !.clean = FALSE]
    OBVIOUS
  <2>4. s \in SyncTask /\ s.step = "next" /\ s.kind = t.kind /\ s.todo = t.todo
        /\ s.who = None /\ s.sub = None
    BY <1>0, <1>3, <2>2, <2>3 DEF SyncTask, Kept
  <2>5. job' \in [Tasks -> SyncTask] /\ job'[j] = s /\ \A k \in Tasks \ {j} : job'[k] = job[k]
    BY <1>3, <2>1, <2>2, <2>3, <2>4
  <2>6. members' = members
    BY <1>1, <1>2, <1>4 DEF Syncs!ConstantsAssumption, SyncInv, SyncTypes
  <2>7. Fits(s, members')
    BY <1>1, <2>4, <2>6 DEF Fits
  <2> QED
    BY <1>0, <1>1, <1>2, <2>1, <2>4, <2>5, <2>6, <2>7, GoesOn DEF Drops, Active
<1>5. CASE t.view.telegram \notin members
  <2>1. /\ mirror' = [mirror EXCEPT ![a] = Syncs!ImageOf(t.num, t.view)]
        /\ job' = Syncs!Seen(Syncs!Following(j), {j})
    BY <1>0, <1>5 DEF Syncs!SyncNew
  <2>2. /\ job' \in [Tasks -> SyncTask] /\ \A k \in Tasks : SameTask(job'[k], Syncs!Following(j)[k])
    BY <1>3, <2>1, SeenSame
  <2>3. /\ job'[j].step = "next" /\ job'[j].kind = t.kind /\ job'[j].todo = t.todo
        /\ job'[j].who = None /\ job'[j].sub = None
        /\ \A k \in Tasks \ {j} : SameTask(job'[k], job[k])
    BY <1>0, <1>3, <2>2 DEF SameTask, Kept
  <2>4. a \notin members /\ mirror[a] = None
    BY <1>2, <1>5 DEF SyncInv, SyncTypes
  <2>5. Syncs!ImageOf(t.num, t.view) \in Syncs!Sub /\ Syncs!ImageOf(t.num, t.view).num = t.num
    BY <1>1 DEF Syncs!ImageOf, Syncs!Sub, Syncs!PanelUser
  <2>6. SyncTypes'
    BY <1>2, <2>1, <2>2, <2>4, <2>5 DEF SyncInv, SyncTypes
  <2>7. AllFit'
    <3>1. ASSUME NEW k \in Tasks PROVE Fits(job'[k], members')
      <4>1. Fits(job[k], members)
        BY DEF SyncInv, AllFit
      <4>2. CASE k = j
        BY <1>0, <1>2, <2>3, <4>1, <4>2 DEF Fits
      <4>3. CASE k # j
        BY <1>2, <2>3, <4>1, <4>3, FitsGo
      <4> QED
        BY <4>2, <4>3
    <3> QED
      BY <3>1 DEF AllFit
  <2>8. KeyInv'
    BY <1>0, <1>1, <1>2, <2>2, <2>3, KeyGoes DEF Active
  <2>9. NumInv'
    <3>1. \A b \in Account \ {a} : mirror'[b] = mirror[b]
      BY <2>1 DEF SyncInv, SyncTypes
    <3>2. \A n \in Num : Holds(mirror', a, n) => n = job[j].num \/ Holds(mirror, a, n)
      BY <1>0, <2>1, <2>5 DEF Holds, SyncInv, SyncTypes
    <3>3. Writes(job[j]) /\ Drops(job'[j], job[j])
      BY <1>0, <1>1, <2>3 DEF Writes, Drops
    <3> QED
      BY <1>0, <1>1, <1>2, <2>2, <2>3, <3>1, <3>2, <3>3, RowWritten
  <2> QED
    BY <2>6, <2>7, <2>8, <2>9 DEF SyncInv
<1> QED
  BY <1>4, <1>5

\* A task goes on with the next user, and others may have been disturbed.
Onward(j) ==
  /\ job' \in [Tasks -> SyncTask]
  /\ job'[j].step = "next" /\ job'[j].kind = job[j].kind /\ job'[j].todo = job[j].todo
  /\ job'[j].who = None /\ job'[j].sub = None
  /\ \A k \in Tasks \ {j} : SameTask(job'[k], job[k])

\* A task is done with a user.
LEMMA OnwardIs ==
  ASSUME SyncInv, NEW j \in Tasks, NEW S,
         job' = Syncs!Following(j) \/ job' = Syncs!Seen(Syncs!Following(j), S)
  PROVE  Onward(j)
<1>1. /\ Syncs!Following(j) \in [Tasks -> SyncTask]
      /\ Syncs!Following(j)[j].step = "next" /\ Kept(job[j], Syncs!Following(j)[j])
      /\ Syncs!Following(j)[j].todo = job[j].todo
      /\ Syncs!Following(j)[j].who = None /\ Syncs!Following(j)[j].sub = None
      /\ \A k \in Tasks \ {j} : Syncs!Following(j)[k] = job[k]
  BY FollowingGoes DEF SyncInv
<1>2. job' \in [Tasks -> SyncTask] /\ \A k \in Tasks : SameTask(job'[k], Syncs!Following(j)[k])
  BY <1>1, SeenSame DEF SameTask
<1> QED
  BY <1>1, <1>2 DEF SameTask, Kept, Onward

\* ... and what it found still fits.
LEMMA OnwardFits ==
  ASSUME SyncInv, NEW j \in Tasks, Onward(j), members \subseteq members' PROVE AllFit'
<1>1. ASSUME NEW k \in Tasks PROVE Fits(job'[k], members')
  <2>1. Fits(job[k], members)
    BY DEF SyncInv, AllFit
  <2>2. CASE k = j
    BY <2>1, <2>2 DEF Fits, Onward
  <2>3. CASE k # j
    BY <2>1, <2>3, FitsGo DEF Onward
  <2> QED
    BY <2>2, <2>3
<1> QED
  BY <1>1 DEF AllFit

\* ... it still runs.
LEMMA OnwardKeys ==
  ASSUME SyncInv, NEW j \in Tasks, Onward(j), job[j].step \in Active, UNCHANGED <<lock, loose>>
  PROVE  KeyInv'
BY KeyGoes DEF Onward, Active

\* ... and writes no number.
LEMMA OnwardCalm ==
  ASSUME SyncInv, NEW j \in Tasks, Onward(j)
  PROVE  Drops(job'[j], job[j]) /\ \A k \in Tasks : Calm(job'[k], job[k])
BY DEF Onward, Drops, Calm

\* What a panel user does to a row.
LEMMA AppliedIs ==
  ASSUME NEW old \in Syncs!Sub, NEW fresh \in Syncs!Sub, NEW image \in Syncs!Sub
  PROVE  /\ Syncs!Applied(old, fresh, image) \in Syncs!Sub
         /\ Syncs!Applied(old, fresh, image).num =
              IF old.num # image.num THEN image.num ELSE fresh.num
<1>1. DOMAIN image = {"num", "data", "on", "url"}
  BY DEF Syncs!Sub
<1>2. PICK s : s = [num |-> IF old.num # image.num THEN image.num ELSE fresh.num,
                    data |-> IF old.data # image.data THEN image.data ELSE fresh.data,
                    on |-> IF old.on # image.on THEN image.on ELSE fresh.on,
                    url |-> IF old.url # image.url THEN image.url ELSE fresh.url]
  OBVIOUS
<1>3. s \in Syncs!Sub /\ s.num = IF old.num # image.num THEN image.num ELSE fresh.num
  BY <1>2 DEF Syncs!Sub
<1>4. Syncs!Applied(old, fresh, image) = s
  BY <1>1, <1>2 DEF Syncs!Applied
<1> QED
  BY <1>3, <1>4

\* A known user's row is written.
LEMMA SyncKnownKeeps ==
  ASSUME Syncs!ConstantsAssumption, SyncInv, NEW j \in Tasks, Syncs!SyncKnown(j) PROVE SyncInv'
<1>0. PICK t \in SyncTask, a \in Account : t = job[j] /\ a = t.who
  BY DEF SyncInv, SyncTypes, Syncs!SyncKnown, AllFit, Fits
<1>1. /\ t.step = "sync" /\ a \in members /\ Fits(t, members) /\ a # None
      /\ t.num \in Num /\ t.view \in Syncs!PanelUser /\ t.sub \in Syncs!Sub \cup {None}
  BY <1>0 DEF Syncs!SyncKnown, SyncInv, AllFit, Fits, SyncTask
<1>2. UNCHANGED <<outset, lock, meanwhile, loose>> /\ UNCHANGED <<others, members>>
  BY DEF Syncs!SyncKnown, Syncs!Rest
<1>3. PICK image \in Syncs!Sub : image = Syncs!ImageOf(t.num, t.view) /\ image.num = t.num
  <2>1. PICK image : image = [num |-> t.num, data |-> t.view.data, on |-> t.view.on,
                              url |-> t.view.url]
    OBVIOUS
  <2>2. image \in Syncs!Sub /\ image.num = t.num
    BY <1>1, <2>1 DEF Syncs!Sub, Syncs!PanelUser
  <2> QED
    BY <2>1, <2>2 DEF Syncs!ImageOf
<1>4. mirror' = IF t.sub = None THEN [mirror EXCEPT ![a] = image]
             ELSE IF mirror[a] = None THEN mirror
             ELSE [mirror EXCEPT ![a] = Syncs!Applied(t.sub, mirror[a], image)]
  BY <1>0, <1>3 DEF Syncs!SyncKnown
<1>5. Onward(j)
  BY OnwardIs DEF Syncs!SyncKnown
<1>6. mirror \in [Account -> Syncs!Sub \cup {None}]
  BY DEF SyncInv, SyncTypes
<1>7. /\ mirror' \in [Account -> Syncs!Sub \cup {None}]
      /\ \A b \in Account \ {a} : mirror'[b] = mirror[b]
      /\ \A n \in Num : Holds(mirror', a, n) =>
           IF Writes(t) THEN n = t.num \/ Holds(mirror, a, n) ELSE Holds(mirror, a, n)
  <2>1. CASE t.sub = None
    BY <1>1, <1>3, <1>4, <1>6, <2>1 DEF Holds, Writes
  <2>2. CASE t.sub # None /\ mirror[a] = None
    BY <1>4, <1>6, <2>2 DEF Holds
  <2>3. CASE t.sub # None /\ mirror[a] # None
    <3>1. PICK old \in Syncs!Sub, fresh \in Syncs!Sub : old = t.sub /\ fresh = mirror[a]
      BY <1>1, <1>6, <2>3
    <3>2. PICK r \in Syncs!Sub :
            /\ r = Syncs!Applied(old, fresh, image)
            /\ r.num = IF old.num # image.num THEN image.num ELSE fresh.num
      BY AppliedIs
    <3>3. mirror' = [mirror EXCEPT ![a] = r]
      BY <1>4, <2>3, <3>1, <3>2
    <3> QED
      BY <1>1, <1>3, <1>6, <2>3, <3>1, <3>2, <3>3 DEF Holds, Writes
  <2> QED
    BY <2>1, <2>2, <2>3
<1>8. SyncTypes'
  BY <1>1, <1>2, <1>5, <1>7 DEF SyncInv, SyncTypes, Onward
<1>9. AllFit'
  BY <1>2, <1>5, OnwardFits
<1>10. KeyInv'
  BY <1>0, <1>1, <1>2, <1>5, OnwardKeys DEF Active
<1>11. NumInv'
  <2>1. CASE Writes(t)
    <3>1. \A n \in Num : Holds(mirror', a, n) => n = job[j].num \/ Holds(mirror, a, n)
      BY <1>0, <1>7, <2>1
    <3> QED
      BY <1>0, <1>2, <1>5, <1>7, <2>1, <3>1, OnwardCalm, RowWritten DEF Onward
  <2>2. CASE ~Writes(t)
    <3>1. \A b \in Account, n \in Num : Holds(mirror', b, n) => Holds(mirror, b, n)
      BY <1>7, <2>2 DEF Holds
    <3> QED
      BY <1>2, <1>5, <3>1, OnwardCalm, NumGoes DEF Onward
  <2> QED
    BY <2>1, <2>2
<1> QED
  BY <1>8, <1>9, <1>10, <1>11 DEF SyncInv

\* Bot to panel: an address is written.
LEMMA WriteUrlKeeps ==
  ASSUME Syncs!ConstantsAssumption, SyncInv, NEW j \in Tasks, Syncs!WriteUrl(j) PROVE SyncInv'
<1>1. UNCHANGED <<outset, lock, meanwhile, loose>> /\ UNCHANGED <<others, members>> /\ Onward(j)
  BY OnwardIs DEF Syncs!WriteUrl, Syncs!Rest
<1>2. PICK a \in Account, url \in {0, 1} : a = job[j].who /\ url = job[j].view.url /\ a \in members
  BY DEF Syncs!WriteUrl, SyncInv, AllFit, Fits, SyncTypes, Syncs!PanelUser
<1>3. /\ mirror' \in [Account -> Syncs!Sub \cup {None}]
      /\ \A b \in Account \ members : mirror'[b] = None
      /\ \A b \in Account, n \in Num : Holds(mirror', b, n) => Holds(mirror, b, n)
  <2>1. /\ mirror \in [Account -> Syncs!Sub \cup {None}]
        /\ \A b \in Account \ members : mirror[b] = None
    BY DEF SyncInv, SyncTypes
  <2>2. CASE mirror[a] = None
    BY <1>2, <2>1, <2>2 DEF Syncs!WriteUrl, Holds
  <2>3. CASE mirror[a] # None
    <3>1. PICK r \in Syncs!Sub : r = mirror[a]
      BY <2>1, <2>3
    <3>2. PICK q : q = [r EXCEPT !.url = url]
      OBVIOUS
    <3>3. q \in Syncs!Sub /\ q.num = r.num
      BY <3>2 DEF Syncs!Sub
    <3>4. mirror' = [mirror EXCEPT ![a] = q]
      BY <1>2, <2>1, <2>3, <3>1, <3>2 DEF Syncs!WriteUrl
    <3> QED
      BY <1>2, <2>1, <2>3, <3>1, <3>3, <3>4 DEF Holds
  <2> QED
    BY <2>2, <2>3
<1>4. SyncTypes'
  BY <1>1, <1>3 DEF SyncInv, SyncTypes, Onward
<1>5. AllFit'
  BY <1>1, OnwardFits
<1>6. KeyInv'
  BY <1>1, OnwardKeys DEF Syncs!WriteUrl, Active
<1>7. NumInv'
  BY <1>1, <1>3, OnwardCalm, NumGoes DEF Onward
<1> QED
  BY <1>4, <1>5, <1>6, <1>7 DEF SyncInv

\* Two tasks of a kind do not run.
LEMMA OneCreates ==
  ASSUME SyncInv, ~loose, NEW j \in Tasks, job[j].kind = "from_bot", job[j].step \in Active,
         NEW k \in Tasks \ {j}
  PROVE  ~Creates(job[k])
<1>1. j \in Syncs!Running
  BY DEF Syncs!Running, Active
<1>2. Creates(job[k]) => k \in Syncs!Running
  BY DEF Syncs!Running, Creates
<1> QED
  BY <1>1, <1>2 DEF Creates, SyncInv, KeyInv

\* Bot to panel: a panel user is updated.
LEMMA UpdatePanelUserKeeps ==
  ASSUME Syncs!ConstantsAssumption, SyncInv, NEW j \in Tasks, Syncs!UpdatePanelUser(j)
  PROVE  SyncInv'
<1>0. PICK t \in SyncTask : t = job[j]
  BY DEF SyncInv, SyncTypes
<1>1. /\ t.step = "update" /\ t.kind = "from_bot" /\ t.who \in members /\ t.sub \in Syncs!Sub
      /\ t.sub.num \in Num /\ Fits(t, members)
  BY <1>0 DEF Syncs!UpdatePanelUser, SyncInv, AllFit, Fits, Syncs!Sub
<1>2. UNCHANGED <<outset, lock, meanwhile, loose>> /\ UNCHANGED <<members, mirror>>
  BY DEF Syncs!UpdatePanelUser, Syncs!Rest
<1>3. PICK n \in Num : n = t.sub.num
  BY <1>1
<1>4. CASE n \notin Syncs!Existing
  <2>1. others' = others /\ job' = Syncs!Following(j)
    BY <1>0, <1>3, <1>4 DEF Syncs!UpdatePanelUser
  <2>2. Onward(j)
    BY <2>1, OnwardIs
  <2>3. NumInv'
    BY <1>2, <2>1, <2>2, OnwardCalm, NumGoes DEF Holds, Onward
  <2> QED
    BY <1>0, <1>1, <1>2, <2>1, <2>2, <2>3, OnwardFits, OnwardKeys
       DEF SyncInv, SyncTypes, Onward, Active
<1>5. CASE n \in Syncs!Existing
  <2>1. others[n] \in Syncs!PanelUser
    BY <1>5 DEF Syncs!Existing, SyncInv, SyncTypes
  <2>2. PICK p \in Syncs!PanelUser : p = Syncs!Pushed(t.who, t.sub)
    <3>1. PICK old \in Syncs!PanelUser : old = others[n]
      BY <2>1
    <3>2. PICK a, d, on : a = Syncs!TelegramOf(t.who) /\ d = t.sub.data /\ on = t.sub.on
      OBVIOUS
    <3>3. a \in Account \cup {None} /\ d \in {0, 1} /\ on \in BOOLEAN
      BY <1>1, <3>2 DEF Syncs!TelegramOf, Syncs!Sub, Syncs!ConstantsAssumption, SyncInv, SyncTypes
    <3>4. PICK p : p = [old EXCEPT !.telegram = a, !.data = d, !.on = on]
      OBVIOUS
    <3>5. p \in Syncs!PanelUser
      BY <3>3, <3>4 DEF Syncs!PanelUser
    <3>6. p = Syncs!Pushed(t.who, t.sub)
      BY <1>3, <3>1, <3>2, <3>4 DEF Syncs!Pushed
    <3> QED
      BY <3>5, <3>6
  <2>3. others' = [others EXCEPT ![n] = p]
    BY <1>0, <1>3, <1>5, <2>2 DEF Syncs!UpdatePanelUser
  <2>4. PICK v \in Syncs!PanelUser : v = others[n]
    BY <2>1
  <2>5. PICK s : s = [t EXCEPT !.step = "url", !.view = v]
    OBVIOUS
  <2>6. s \in SyncTask /\ s.step = "url" /\ s.kind = t.kind /\ s.todo = t.todo /\ s.who = t.who
        /\ s.sub = t.sub /\ s.view = v
    BY <2>5 DEF SyncTask, SyncSteps
  <2>7. PICK after : after = IF others[n].url = t.sub.url THEN Syncs!Following(j)
                             ELSE [job EXCEPT ![j] = s]
    OBVIOUS
  <2>8. job' = after \/ job' = Syncs!Seen(after, {j})
    <3>1. [Syncs!To(j, "url") EXCEPT ![j].view = others[n]] = [job EXCEPT ![j] = s]
      BY <1>0, <2>4, <2>5 DEF Syncs!To, SyncInv, SyncTypes
    <3> QED
      BY <1>0, <1>3, <1>5, <2>7, <3>1 DEF Syncs!UpdatePanelUser
  <2>9. /\ after \in [Tasks -> SyncTask]
        /\ after[j].kind = t.kind /\ after[j].step \in {"next", "url"}
        /\ Fits(after[j], members) /\ \A k \in Tasks \ {j} : after[k] = job[k]
    <3>1. CASE after = Syncs!Following(j)
      <4>1. /\ Syncs!Following(j) \in [Tasks -> SyncTask]
            /\ Syncs!Following(j)[j].step = "next" /\ Kept(job[j], Syncs!Following(j)[j])
            /\ Syncs!Following(j)[j].todo = job[j].todo
            /\ Syncs!Following(j)[j].who = None /\ Syncs!Following(j)[j].sub = None
            /\ \A k \in Tasks \ {j} : Syncs!Following(j)[k] = job[k]
        BY FollowingGoes DEF SyncInv
      <4> QED
        BY <1>0, <1>1, <3>1, <4>1 DEF Fits, Kept
    <3>2. CASE after = [job EXCEPT ![j] = s]
      <4>1. /\ after[j] = s /\ after \in [Tasks -> SyncTask]
            /\ \A k \in Tasks \ {j} : after[k] = job[k]
        BY <2>6, <3>2 DEF SyncInv, SyncTypes
      <4>2. Fits(s, members)
        BY <1>1, <2>6 DEF Fits
      <4> QED
        BY <2>6, <4>1, <4>2
    <3> QED
      BY <2>7, <3>1, <3>2
  <2>10. job' \in [Tasks -> SyncTask] /\ \A k \in Tasks : SameTask(job'[k], after[k])
    BY <2>8, <2>9, SeenSame DEF SameTask
  <2>11. /\ \A k \in Tasks \ {j} : SameTask(job'[k], job[k])
         /\ job'[j].kind = t.kind /\ job'[j].step \in {"next", "url"}
    BY <2>9, <2>10 DEF SameTask
  <2>12. SyncTypes'
    BY <1>2, <2>3, <2>10 DEF SyncInv, SyncTypes
  <2>13. AllFit'
    <3>1. ASSUME NEW k \in Tasks PROVE Fits(job'[k], members)
      BY <2>9, <2>10, FitsGo DEF SyncInv, AllFit
    <3> QED
      BY <1>2, <3>1 DEF AllFit
  <2>14. KeyInv'
    BY <1>0, <1>1, <1>2, <2>10, <2>11, KeyGoes DEF Active
  <2>15. NumInv'
    <3>1. \A k \in Tasks : Calm(job'[k], job[k])
      BY <1>1, <2>11 DEF Calm, Drops
    <3>2. ~Creates(job[j]) /\ (~loose => \A k \in Tasks \ {j} : ~Creates(job[k]))
      BY <1>0, <1>1, OneCreates DEF Creates, Active
    <3> QED
      BY <1>2, <2>10, <3>1, <3>2, NumGoes DEF Holds
  <2> QED
    BY <2>12, <2>13, <2>14, <2>15 DEF SyncInv
<1> QED
  BY <1>4, <1>5

\* Bot to panel: a panel user is made, with an identifier nobody has.
LEMMA CreatePanelUserKeeps ==
  ASSUME Syncs!ConstantsAssumption, SyncInv, NEW j \in Tasks, NEW n, Syncs!CreatePanelUser(j, n)
  PROVE  SyncInv'
<1>0. PICK t \in SyncTask : t = job[j]
  BY DEF SyncInv, SyncTypes
<1>1. /\ t.step = "create" /\ t.kind = "from_bot" /\ t.who \in members /\ t.sub \in Syncs!Sub
      /\ Fits(t, members)
  BY <1>0 DEF Syncs!CreatePanelUser, SyncInv, AllFit, Fits
<1>2. UNCHANGED <<outset, lock, meanwhile, loose>> /\ UNCHANGED <<members, mirror>>
  BY DEF Syncs!CreatePanelUser, Syncs!Rest
<1>3. CASE t.who \in Syncs!Names
  <2>1. others' = others /\ job' = Syncs!Following(j)
    BY <1>0, <1>3 DEF Syncs!CreatePanelUser
  <2>2. Onward(j)
    BY <2>1, OnwardIs
  <2>3. NumInv'
    BY <1>2, <2>1, <2>2, OnwardCalm, NumGoes DEF Holds, Onward
  <2> QED
    BY <1>0, <1>1, <1>2, <2>1, <2>2, <2>3, OnwardFits, OnwardKeys
       DEF SyncInv, SyncTypes, Onward, Active
<1>4. CASE t.who \notin Syncs!Names
  <2>1. PICK new : new = [name |-> t.who, telegram |-> Syncs!TelegramOf(t.who), data |-> t.sub.data,
                          on |-> TRUE, url |-> 0]
    OBVIOUS
  <2>2. new \in Syncs!PanelUser /\ new.telegram = Syncs!TelegramOf(t.who)
    BY <1>1, <2>1 DEF Syncs!TelegramOf, Syncs!PanelUser, Syncs!Sub, SyncInv, SyncTypes
  <2>3. new.telegram \in members \cup {None}
    BY <1>1, <2>2 DEF Syncs!TelegramOf
  <2>4. PICK s : s = [t EXCEPT !.step = "created", !.num = n, !.view = new]
    OBVIOUS
  <2>5. n \in Syncs!Free /\ n \in Num
    BY <1>0, <1>4 DEF Syncs!CreatePanelUser, Syncs!Free
  <2>6. s \in SyncTask /\ s.step = "created" /\ s.kind = t.kind /\ s.todo = t.todo /\ s.who = t.who
        /\ s.sub = t.sub /\ s.view = new /\ s.num = n
    BY <2>2, <2>4, <2>5 DEF SyncTask, SyncSteps
  <2>7. PICK after : after = [job EXCEPT ![j] = s]
    OBVIOUS
  <2>8. others' = [others EXCEPT ![n] = new] /\ job' = Syncs!Seen(after, {j})
    <3>1. [Syncs!To(j, "created") EXCEPT ![j].num = n, ![j].view = new] = after
      BY <1>0, <2>4, <2>7 DEF Syncs!To, SyncInv, SyncTypes
    <3> QED
      BY <1>0, <1>4, <2>1, <3>1 DEF Syncs!CreatePanelUser
  <2>9. after \in [Tasks -> SyncTask] /\ after[j] = s /\ \A k \in Tasks \ {j} : after[k] = job[k]
    BY <2>6, <2>7 DEF SyncInv, SyncTypes
  <2>10. job' \in [Tasks -> SyncTask] /\ \A k \in Tasks : SameTask(job'[k], after[k])
    BY <2>8, <2>9, SeenSame
  <2>11. /\ \A k \in Tasks \ {j} : SameTask(job'[k], job[k])
         /\ SameTask(job'[j], s)
    BY <2>9, <2>10
  <2>12. SyncTypes'
    BY <1>2, <2>2, <2>5, <2>8, <2>10 DEF SyncInv, SyncTypes
  <2>13. AllFit'
    <3>1. Fits(s, members)
      BY <1>1, <2>2, <2>5, <2>6 DEF Fits
    <3>2. ASSUME NEW k \in Tasks PROVE Fits(job'[k], members)
      BY <2>9, <2>10, <3>1, FitsGo DEF SyncInv, AllFit
    <3> QED
      BY <1>2, <3>2 DEF AllFit
  <2>14. KeyInv'
    <3>1. job'[j].kind = job[j].kind /\ job'[j].step \in Active /\ job[j].step \in Active
      BY <1>0, <1>1, <2>6, <2>11 DEF SameTask, Active
    <3> QED
      BY <1>2, <2>10, <2>11, <3>1, KeyGoes
  <2>15. NumInv'
    <3> SUFFICES ASSUME ~loose' PROVE Sole' /\ Unheld' /\ Agreed'
      BY DEF NumInv
    <3>0. ~loose /\ Sole /\ Unheld /\ Agreed
      BY <1>2 DEF SyncInv, NumInv
    <3>1. Sole'
      BY <1>2, <3>0 DEF Sole
    <3>2. Unheld'
      <4> SUFFICES ASSUME NEW k \in Tasks, Writes(job'[k])
          PROVE /\ \A b \in Account : Holds(mirror', b, job'[k].num) => b = job'[k].who
                /\ job'[k].who # None => job'[k].who = job'[k].view.telegram
        BY DEF Unheld, Writes
      <4>1. k # j /\ SameTask(job'[k], job[k])
        BY <2>6, <2>11 DEF SameTask, Writes
      <4> QED
        BY <1>2, <3>0, <4>1 DEF SameTask, Unheld, Writes
    <3>3. Agreed'
      <4> SUFFICES ASSUME NEW i \in Tasks, Creates(job'[i])
          PROVE /\ job'[i].view.telegram \in members' \cup {None}
                /\ others'[job'[i].num] # None =>
                     others'[job'[i].num].telegram = job'[i].view.telegram
                /\ \A k \in Tasks : Knows(job'[i].num, job'[k], job'[i].view.telegram)
        BY DEF Agreed, Creates, Knows
      <4>1. i = j
        BY <1>0, <1>1, <2>11, <3>0, OneCreates DEF SameTask, Creates, Active
      <4>2. job'[i].num = n /\ job'[i].view = new
        BY <2>6, <2>11, <4>1 DEF SameTask
      <4>3. others'[n] = new
        BY <2>5, <2>8 DEF SyncInv, SyncTypes
      <4>4. ASSUME NEW k \in Tasks \ {j} PROVE Knows(n, job'[k], new.telegram)
        <5>1. ~Syncs!Remembered(job[k], n)
          BY <2>5 DEF Syncs!Free
        <5> QED
          BY <2>11, <5>1 DEF Syncs!Remembered, SameTask, Knows
      <4>5. Knows(n, job'[j], new.telegram)
        BY <1>1, <2>6, <2>11 DEF SameTask, Knows
      <4> QED
        BY <1>2, <2>3, <4>2, <4>3, <4>4, <4>5
    <3> QED
      BY <3>1, <3>2, <3>3
  <2> QED
    BY <2>12, <2>13, <2>14, <2>15 DEF SyncInv
<1> QED
  BY <1>3, <1>4

\* The importer makes a panel user.
LEMMA ImportKeeps ==
  ASSUME Syncs!ConstantsAssumption, SyncInv, NEW j \in Tasks, NEW c \in job[j].todo, NEW n,
         Syncs!Import(j, c, n)
  PROVE  SyncInv'
<1>0. PICK t \in SyncTask : t = job[j]
  BY DEF SyncInv, SyncTypes
<1>1. t.kind = "import" /\ t.step = "next" /\ c \in Syncs!Client /\ Fits(t, members)
  BY <1>0 DEF Syncs!Import, SyncInv, AllFit, Fits
<1>2. UNCHANGED <<outset, lock, meanwhile, loose>> /\ UNCHANGED <<members, mirror>>
  BY DEF Syncs!Import, Syncs!Rest
<1>3. PICK todo : todo = t.todo \ {c}
  OBVIOUS
<1>4. PICK s : s = [t EXCEPT !.todo = todo]
  OBVIOUS
<1>5. s \in SyncTask /\ s.step = "next" /\ s.kind = "import" /\ s.todo \subseteq t.todo
      /\ s.who = t.who /\ s.sub = t.sub
  BY <1>1, <1>3, <1>4 DEF SyncTask
<1>6. PICK after : after = [job EXCEPT ![j] = s]
  OBVIOUS
<1>7. after = [job EXCEPT ![j].todo = @ \ {c}]
  BY <1>0, <1>3, <1>4, <1>6 DEF SyncInv, SyncTypes
<1>8. after \in [Tasks -> SyncTask] /\ after[j] = s /\ \A k \in Tasks \ {j} : after[k] = job[k]
  BY <1>5, <1>6 DEF SyncInv, SyncTypes
<1>9. \/ others' = others /\ job' = after
      \/ /\ n \in Syncs!Free /\ job' = Syncs!Seen(after, {j})
         /\ others' = [others EXCEPT ![n] = [name |-> c.id, telegram |-> c.id, data |-> 1,
                                            on |-> TRUE, url |-> 0]]
  BY <1>7 DEF Syncs!Import
<1>10. /\ job' \in [Tasks -> SyncTask] /\ SameTask(job'[j], s)
       /\ \A k \in Tasks \ {j} : SameTask(job'[k], job[k])
  BY <1>8, <1>9, SeenSame DEF SameTask
<1>11. /\ others' \in [Num -> Syncs!PanelUser \cup {None}]
       /\ \A m \in Num : others'[m] # None =>
            \/ others[m] # None /\ others'[m].telegram = others[m].telegram
            \/ \A k \in Tasks : Creates(job[k]) => job[k].num # m
  <2>1. CASE others' = others
    BY <2>1 DEF SyncInv, SyncTypes
  <2>2. CASE /\ n \in Syncs!Free
             /\ others' = [others EXCEPT ![n] = [name |-> c.id, telegram |-> c.id, data |-> 1,
                                            on |-> TRUE, url |-> 0]]
    <3>1. PICK new : new = [name |-> c.id, telegram |-> c.id, data |-> 1, on |-> TRUE, url |-> 0]
      OBVIOUS
    <3>2. new \in Syncs!PanelUser
      BY <1>1, <3>1 DEF Syncs!PanelUser, Syncs!Client
    <3>3. \A k \in Tasks : job[k].num # n
      BY <2>2 DEF Syncs!Free, Syncs!Remembered
    <3> QED
      BY <2>2, <3>1, <3>2, <3>3 DEF SyncInv, SyncTypes, Syncs!Free
  <2> QED
    BY <1>9, <2>1, <2>2
<1>12. SyncTypes'
  BY <1>2, <1>10, <1>11 DEF SyncInv, SyncTypes
<1>13. AllFit'
  <2>1. Fits(s, members)
    BY <1>1, <1>5 DEF Fits
  <2>2. ASSUME NEW k \in Tasks PROVE Fits(job'[k], members)
    BY <1>10, <2>1, FitsGo DEF SyncInv, AllFit
  <2> QED
    BY <1>2, <2>2 DEF AllFit
<1>14. KeyInv'
  BY <1>0, <1>1, <1>2, <1>5, <1>10, KeyGoes DEF SameTask, Active
<1>15. NumInv'
  <2>1. \A k \in Tasks : Calm(job'[k], job[k])
    BY <1>5, <1>10 DEF Calm, SameTask, Drops
  <2> QED
    BY <1>2, <1>10, <1>11, <2>1, NumGoes DEF Holds
<1> QED
  BY <1>12, <1>13, <1>14, <1>15 DEF SyncInv

\* What others do.
LEMMA ChangesKeep ==
  ASSUME SyncInv, Syncs!Changes, job' = Syncs!Seen(job, {}),
         mirror' \in [Account -> Syncs!Sub \cup {None}],
         others' \in [Num -> Syncs!PanelUser \cup {None}],
         \A a \in Account \ members : mirror'[a] = None,
         \A a \in Account, n \in Num : Holds(mirror', a, n) => Holds(mirror, a, n),
         \A n \in Num : others'[n] # None =>
           others[n] # None /\ others'[n].telegram = others[n].telegram
  PROVE  SyncInv'
<1>1. UNCHANGED <<outset, members, lock, loose>>
  BY DEF Syncs!Changes
<1>2. job' \in [Tasks -> SyncTask] /\ \A k \in Tasks : SameTask(job'[k], job[k])
  BY SeenSame DEF SyncInv, SyncTypes
<1>3. PICK j \in Tasks : job[j].step \in Active
  BY RunningIs DEF Syncs!Changes, SyncInv, Syncs!Running
<1>4. SyncTypes'
  BY <1>1, <1>2 DEF SyncInv, SyncTypes
<1>5. AllFit'
  <2>1. ASSUME NEW k \in Tasks PROVE Fits(job'[k], members)
    BY <1>2, FitsGo DEF SyncInv, AllFit
  <2> QED
    BY <1>1, <2>1 DEF AllFit
<1>6. KeyInv'
  BY <1>1, <1>2, <1>3, KeyGoes DEF SameTask
<1>7. NumInv'
  BY <1>1, <1>2, NumGoes DEF Calm
<1> QED
  BY <1>4, <1>5, <1>6, <1>7 DEF SyncInv

\* Another command extends a subscription.
LEMMA ExtendKeeps ==
  ASSUME Syncs!ConstantsAssumption, SyncInv, NEW a \in Account, Syncs!Extend(a) PROVE SyncInv'
<1>1. mirror[a] \in Syncs!Sub /\ mirror[a].num \in Syncs!Existing
  BY DEF Syncs!Extend, SyncInv, SyncTypes
<1>2. PICK r \in Syncs!Sub, p \in Syncs!PanelUser, n \in Num :
        r = mirror[a] /\ n = r.num /\ p = others[n]
  BY <1>1 DEF Syncs!Existing, SyncInv, SyncTypes
<1>3. PICK d \in {0, 1} : d = 1 - r.data
  BY <1>2 DEF Syncs!Sub
<1>4. PICK q, v : q = [r EXCEPT !.data = d] /\ v = [p EXCEPT !.data = d]
  OBVIOUS
<1>5. q \in Syncs!Sub /\ q.num = n /\ v \in Syncs!PanelUser /\ v.telegram = p.telegram
  BY <1>2, <1>4 DEF Syncs!Sub, Syncs!PanelUser
<1>6. mirror' = [mirror EXCEPT ![a] = q] /\ others' = [others EXCEPT ![n] = v]
  BY <1>2, <1>3, <1>4 DEF Syncs!Extend, SyncInv, SyncTypes
<1>7. a \in members
  BY <1>1 DEF SyncInv, SyncTypes, Syncs!ConstantsAssumption
<1>8. \A b \in Account, m \in Num : Holds(mirror', b, m) => Holds(mirror, b, m)
  BY <1>1, <1>2, <1>5, <1>6 DEF Holds, SyncInv, SyncTypes, Syncs!ConstantsAssumption
<1>9. \A m \in Num :
        others'[m] # None => others[m] # None /\ others'[m].telegram = others[m].telegram
  BY <1>2, <1>5, <1>6 DEF SyncInv, SyncTypes, Syncs!ConstantsAssumption
<1>10. /\ mirror' \in [Account -> Syncs!Sub \cup {None}]
       /\ others' \in [Num -> Syncs!PanelUser \cup {None}]
       /\ \A b \in Account \ members : mirror'[b] = None
  BY <1>5, <1>6, <1>7 DEF SyncInv, SyncTypes
<1> QED
  BY <1>8, <1>9, <1>10, ChangesKeep DEF Syncs!Extend

\* Another command deletes one.
LEMMA DeleteKeeps ==
  ASSUME Syncs!ConstantsAssumption, SyncInv, NEW a \in Account, Syncs!Delete(a) PROVE SyncInv'
<1>1. PICK n : n = mirror[a].num
  OBVIOUS
<1>2. mirror' = [mirror EXCEPT ![a] = None] /\ others' = [others EXCEPT ![n] = None]
  BY <1>1 DEF Syncs!Delete
<1>3. \A b \in Account, m \in Num : Holds(mirror', b, m) => Holds(mirror, b, m)
  BY <1>2 DEF Holds, SyncInv, SyncTypes
<1>4. \A m \in Num :
        others'[m] # None => others[m] # None /\ others'[m].telegram = others[m].telegram
  BY <1>2 DEF SyncInv, SyncTypes
<1>5. /\ mirror' \in [Account -> Syncs!Sub \cup {None}]
      /\ others' \in [Num -> Syncs!PanelUser \cup {None}]
      /\ \A b \in Account \ members : mirror'[b] = None
  BY <1>2 DEF SyncInv, SyncTypes
<1> QED
  BY <1>3, <1>4, <1>5, ChangesKeep DEF Syncs!Delete

\* The invariant holds at the beginning.
LEMMA InitSync == Syncs!ConstantsAssumption /\ Syncs!Init => SyncInv
<1> SUFFICES ASSUME Syncs!ConstantsAssumption, Syncs!Init PROVE SyncInv
  OBVIOUS
<1>1. \A j \in Tasks : job[j] = Syncs!Resting
  BY DEF Syncs!Init
<1>2. PICK r : r = Syncs!Resting
  OBVIOUS
<1>3. r \in SyncTask /\ r.step = "idle" /\ r.todo = {} /\ r.kind = "from_bot" /\ r.who = None
      /\ r.sub = None
  BY <1>2 DEF Syncs!Resting, SyncTask, SyncSteps, Syncs!Kind
<1>4. SyncTypes
  BY <1>2, <1>3 DEF Syncs!Init, SyncTypes, Syncs!ConstantsAssumption
<1>5. AllFit
  BY <1>1, <1>2, <1>3 DEF AllFit, Fits
<1>6. KeyInv
  BY <1>1, <1>2, <1>3 DEF Syncs!Init, KeyInv, Syncs!Running
<1>7. NumInv
  <2>1. Sole
    BY <1>4 DEF Syncs!Init, Sole, Holds, Syncs!ConstantsAssumption, SyncTypes
  <2>2. Unheld /\ Agreed
    BY <1>1, <1>2, <1>3 DEF Unheld, Agreed, Writes, Creates
  <2> QED
    BY <2>1, <2>2 DEF NumInv
<1> QED
  BY <1>4, <1>5, <1>6, <1>7 DEF SyncInv

\* Every step preserves the invariant.
LEMMA SyncInduction == Syncs!ConstantsAssumption /\ SyncInv /\ [Syncs!Next]_(Syncs!vars) => SyncInv'
<1> SUFFICES ASSUME Syncs!ConstantsAssumption, SyncInv, [Syncs!Next]_(Syncs!vars) PROVE SyncInv'
  OBVIOUS
<1>1. CASE UNCHANGED Syncs!vars
  BY <1>1
     DEF Syncs!vars, SyncInv, SyncTypes, AllFit, KeyInv, NumInv, Sole, Unheld, Agreed, Syncs!Running
<1>2. ASSUME NEW j \in Tasks, NEW kind \in Syncs!Kind, Syncs!Press(j, kind) PROVE SyncInv'
  BY <1>2, PressKeeps
<1>3. ASSUME NEW j \in Tasks, NEW S, Syncs!Dispatch(j, S) PROVE SyncInv'
  BY <1>3, DispatchKeeps
<1>4. ASSUME NEW j \in Tasks,
             \/ Syncs!Return(j) \/ Syncs!Fetch(j) \/ Syncs!PanelRaises(j) \/ Syncs!Finish(j)
             \/ Syncs!Stop(j) \/ Syncs!TakePanelUser(j) \/ Syncs!TakeCreated(j)
             \/ Syncs!SyncKnown(j) \/ Syncs!TakeBotUser(j) \/ Syncs!Look(j)
             \/ Syncs!UpdatePanelUser(j) \/ Syncs!WriteUrl(j)
      PROVE  SyncInv'
  BY <1>4, ReturnKeeps, FetchKeeps, PanelRaisesKeeps, FinishKeeps, StopKeeps,
     TakePanelUserKeeps, TakeCreatedKeeps, SyncKnownKeeps, TakeBotUserKeeps, LookKeeps,
     UpdatePanelUserKeeps, WriteUrlKeeps
<1>5. ASSUME NEW j \in Tasks, NEW c \in job[j].todo, NEW n, Syncs!Import(j, c, n) PROVE SyncInv'
  BY <1>5, ImportKeeps
<1>6. ASSUME NEW j \in Tasks, NEW n, Syncs!CreatePanelUser(j, n) PROVE SyncInv'
  BY <1>6, CreatePanelUserKeeps
<1>7. ASSUME NEW j \in Tasks, NEW a \in Account, Syncs!SyncNew(j, a) PROVE SyncInv'
  BY <1>7, SyncNewKeeps
<1>8. ASSUME NEW kind \in Syncs!Kind, Syncs!Expire(kind) PROVE SyncInv'
  BY <1>8, ExpireKeeps
<1>9. ASSUME NEW a \in Account, Syncs!Extend(a) \/ Syncs!Delete(a) PROVE SyncInv'
  BY <1>9, ExtendKeeps, DeleteKeeps
<1> QED
  BY <1>1, <1>2, <1>3, <1>4, <1>5, <1>6, <1>7, <1>8, <1>9 DEF Syncs!Next

\* The invariant holds throughout.
LEMMA SyncInvariance ==
  ASSUME Syncs!ConstantsAssumption
  PROVE Syncs!Spec => []SyncInv
<1>1. Syncs!Init => SyncInv
  BY InitSync
<1>2. SyncInv /\ [Syncs!Next]_(Syncs!vars) => SyncInv'
  BY SyncInduction
<1> QED
  BY <1>1, <1>2, PTL DEF Syncs!Spec

\* While no key failed (it was read before another set it, it expired or was deleted under a
\* task), two tasks of one kind never run at once, and no two users hold one panel user
\* (importer.py, synchronization tasks).
THEOREM OneAtATimeHolds ==
  ASSUME Syncs!ConstantsAssumption
  PROVE Syncs!Spec => []OneAtATime
<1>1. SyncInv => OneAtATime
  <2> SUFFICES ASSUME SyncInv PROVE OneAtATime
    OBVIOUS
  <2>1. ASSUME ~loose PROVE \A j, k \in Syncs!Running : j # k => job[j].kind # job[k].kind
    BY <2>1 DEF SyncInv, KeyInv
  <2>2. ASSUME ~loose, NEW a \in members, NEW b \in members, a # b,
               mirror[a] # None, mirror[b] # None
        PROVE  mirror[a].num # mirror[b].num
    <3>1. a \in Account /\ b \in Account /\ mirror[a] \in Syncs!Sub
      BY <2>2 DEF SyncInv, SyncTypes
    <3>2. mirror[a].num \in Num
      BY <3>1 DEF Syncs!Sub
    <3> QED
      BY <2>2, <3>1, <3>2 DEF SyncInv, NumInv, Sole, Holds
  <2> QED
    BY <2>1, <2>2 DEF OneAtATime, Syncs!OneAtATime, SyncInv, KeyInv
<1> QED
  BY <1>1, SyncInvariance, PTL
=============================================================================
