------------------------ MODULE RecurringWorkerProofs ------------------------
(***************************************************************************)
(* No date is posted twice, none for a day the template was off, and none  *)
(* after the template is gone, for any number of templates and instances.  *)
(***************************************************************************)
EXTENDS RecurringWorker, TLAPS

LEMMA IdlePass == Idle \in Passes
<1>1. (CHOOSE t \in Templates : TRUE) \in Templates
  BY WorkerAssumption
<1> QED BY <1>1 DEF Idle, Passes

LEMMA SomeSchedule == (CHOOSE s \in Schedules : TRUE) \in Schedules
<1>1. PICK n \in Intervals : TRUE
  BY WorkerAssumption
<1>2. [first |-> 1, last |-> 1, every |-> n] \in Schedules
  BY <1>1, WorkerAssumption DEF Schedules, Days
<1> QED BY <1>2

LEMMA InitInv == Init => Inv
<1> SUFFICES ASSUME Init PROVE Inv
  OBVIOUS
<1>0. NewRow \in Rows /\ NewRow.state = "new" /\ NewRow.enabled = FALSE
  BY SomeSchedule, WorkerAssumption DEF NewRow, Rows, Days
<1>1. TypeOK
  BY <1>0, IdlePass, WorkerAssumption DEF Init, TypeOK, Days
<1>2. \A t \in Templates : template[t].state = "new"
  BY <1>0 DEF Init
<1>3. Remembered
  BY <1>2 DEF Init, Remembered
<1>4. IdleIsEmpty /\ StartedAfterOff
  BY DEF Init, IdleIsEmpty, StartedAfterOff, Idle
<1> QED BY <1>1, <1>3, <1>4 DEF Inv

-----------------------------------------------------------------------------
(* The user and the calendar.                                              *)

LEMMA NextDayInv == Inv /\ NextDay => Inv'
<1> SUFFICES ASSUME Inv, NextDay PROVE Inv'
  OBVIOUS
<1> USE DEF Inv
<1>1. today \in Nat /\ today' = today + 1 /\ today' \in Days /\ today \in Days
  BY WorkerAssumption DEF NextDay, TypeOK, Days
<1>2. /\ template' = template /\ worker' = worker
      /\ occurrences' = occurrences /\ posted' = posted /\ transactions' = transactions
  BY DEF NextDay
<1>3. \A t \in Templates :
         \/ off'[t] = off[t]
         \/ /\ off'[t] = off[t] \cup {today}
            /\ \A w \in Workers : worker[w].at = "idle"
            /\ ~(template[t].state = "present" /\ template[t].enabled)
  BY DEF NextDay
<1>4. TypeOK'
  BY <1>1, <1>2, <1>3 DEF TypeOK, NextDay
<1>5. Remembered' /\ IdleIsEmpty'
  BY <1>2 DEF Remembered, IdleIsEmpty
<1>6. StartedAfterOff'
  <2> SUFFICES ASSUME NEW t \in Templates, NEW d \in off'[t]
               PROVE  /\ d < today'
                      /\ template[t].state = "present" /\ template[t].enabled => d < template[t].starts
                      /\ \A w \in Workers :
                            /\ \A q \in worker[w].queue : q[1] = t => d < q[2].starts
                            /\ worker[w].current = t => d \notin worker[w].todo
    BY <1>2 DEF StartedAfterOff
  <2>1. CASE d \in off[t]
    <3>1. d \in Nat
      BY <2>1 DEF TypeOK, Days
    <3> QED BY <2>1, <3>1, <1>1 DEF StartedAfterOff
  <2>2. CASE d \notin off[t]
    <3>1. d = today /\ (\A w \in Workers : worker[w].at = "idle")
          /\ ~(template[t].state = "present" /\ template[t].enabled)
      BY <2>2, <1>3
    <3> QED BY <3>1, <1>1 DEF IdleIsEmpty
  <2> QED BY <2>1, <2>2
<1> QED BY <1>4, <1>5, <1>6

\* A user's step on a template: what StartedAfterOff needs of the new row.
LEMMA RowInv ==
    ASSUME StartedAfterOff, NEW t \in Templates, NEW row \in Rows, TypeOK,
           template' = [template EXCEPT ![t] = row],
           UNCHANGED <<today, worker, off>>,
           row.state = "present" /\ row.enabled =>
              \A d \in off[t] : d < row.starts
    PROVE  StartedAfterOff'
BY DEF StartedAfterOff, TypeOK

LEMMA CreateInv ==
    ASSUME Inv, NEW t \in Templates, NEW s \in Schedules, NEW enabled \in BOOLEAN,
           Create(t, s, enabled)
    PROVE  Inv'
<1> USE DEF Inv, Create
<1> DEFINE row == [state |-> "present", enabled |-> enabled, schedule |-> s, starts |-> today]
<1>1. row \in Rows
  BY DEF TypeOK, Rows
<1>2. TypeOK'
  BY <1>1 DEF TypeOK
<1>3. Remembered'
  BY DEF Remembered, TypeOK
<1>4. StartedAfterOff'
  BY <1>1, RowInv DEF StartedAfterOff
<1> QED BY <1>2, <1>3, <1>4 DEF IdleIsEmpty

LEMMA UpdateInv ==
    ASSUME Inv, NEW t \in Templates, NEW s \in Schedules, NEW enabled \in BOOLEAN,
           Update(t, s, enabled)
    PROVE  Inv'
<1> USE DEF Inv, Update
<1> DEFINE row == [state |-> "present", enabled |-> enabled, schedule |-> s,
                   starts |-> StartsOn(t, s, enabled)]
<1>1. row \in Rows /\ template' = [template EXCEPT ![t] = row]
  BY DEF TypeOK, Rows, StartsOn
<1>2. row.enabled => \A d \in off[t] : d < row.starts
  BY DEF StartsOn, StartedAfterOff
<1>3. row.state = "present"
  OBVIOUS
<1> HIDE DEF row
<1>4. TypeOK'
  BY <1>1 DEF TypeOK
<1>5. Remembered'
  BY <1>1, <1>3 DEF Remembered, TypeOK
<1>6. StartedAfterOff'
  BY <1>1, <1>2, RowInv
<1> QED BY <1>4, <1>5, <1>6 DEF IdleIsEmpty

LEMMA DeleteInv ==
    ASSUME Inv, NEW t \in Templates, Delete(t)
    PROVE  Inv'
<1> USE DEF Inv, Delete
<1> DEFINE row == [state |-> "gone", enabled |-> FALSE,
                   schedule |-> template[t].schedule, starts |-> template[t].starts]
<1>1. row \in Rows /\ template' = [template EXCEPT ![t] = row] /\ row.state = "gone"
  BY DEF TypeOK, Rows
<1> HIDE DEF row
<1>2. TypeOK'
  BY <1>1 DEF TypeOK
<1>3. Remembered'
  BY <1>1 DEF Remembered, TypeOK
<1>4. StartedAfterOff'
  BY <1>1, RowInv
<1> QED BY <1>2, <1>3, <1>4 DEF IdleIsEmpty

LEMMA DeleteTransactionInv ==
    ASSUME Inv, NEW t \in Templates, NEW d \in Days, DeleteTransaction(t, d)
    PROVE  Inv'
BY DEF Inv, DeleteTransaction, TypeOK, Remembered, IdleIsEmpty, StartedAfterOff

-----------------------------------------------------------------------------
(* The worker.                                                             *)

\* A step that gives one worker a new pass.
LEMMA PassInv ==
    ASSUME TypeOK, IdleIsEmpty, StartedAfterOff, NEW w \in Workers, NEW p \in Passes,
           SetWorker(w, p), UNCHANGED <<today, template, off>>,
           p.at = "idle" => p.queue = {} /\ p.todo = {},
           \A t \in Templates : \A d \in off[t] :
               /\ \A q \in p.queue : q[1] = t => d < q[2].starts
               /\ p.current = t => d \notin p.todo
    PROVE  worker' \in [Workers -> Passes] /\ IdleIsEmpty' /\ StartedAfterOff'
<1>1. \A v \in Workers : worker'[v] = IF v = w THEN p ELSE worker[v]
  BY DEF SetWorker, TypeOK
<1>2. worker' \in [Workers -> Passes]
  BY DEF SetWorker, TypeOK
<1>3. IdleIsEmpty'
  BY <1>1 DEF IdleIsEmpty
<1>4. StartedAfterOff'
  BY <1>1 DEF StartedAfterOff
<1> QED BY <1>2, <1>3, <1>4

LEMMA StartPassInv ==
    ASSUME Inv, NEW w \in Workers, StartPass(w)
    PROVE  Inv'
<1> DEFINE queue == {<<t, template[t]>> : t \in Enabled}
<1> DEFINE p == [Idle EXCEPT !.at = "pass", !.queue = queue]
<1>0. queue \subseteq Templates \X Rows
  BY DEF Inv, TypeOK, Enabled
<1> HIDE DEF queue
<1>1. p \in Passes /\ p.queue = queue /\ p.todo = {} /\ p.at = "pass"
  BY <1>0, IdlePass DEF Passes, Idle
<1>2. SetWorker(w, p) /\ UNCHANGED <<today, template, occurrences, transactions, posted, crashes, off>>
  BY DEF StartPass, queue
<1> HIDE DEF p
<1>3. \A t \in Templates : \A d \in off[t] : \A q \in p.queue : q[1] = t => d < q[2].starts
  BY <1>1 DEF Inv, StartedAfterOff, Enabled, queue
<1>4. worker' \in [Workers -> Passes] /\ IdleIsEmpty' /\ StartedAfterOff'
  BY <1>1, <1>2, <1>3, PassInv DEF Inv
<1> QED BY <1>2, <1>4 DEF Inv, TypeOK, Remembered

LEMMA EvaluateInv ==
    ASSUME Inv, NEW w \in Workers, Evaluate(w)
    PROVE  Inv'
<1>1. PICK q \in worker[w].queue :
          SetWorker(w, [worker[w] EXCEPT
             !.queue = @ \ {q}, !.current = q[1],
             !.todo = GetOccurrences(q[2].schedule, LaterOf(q[2].starts, q[2].schedule.first), today)
                      \ occurrences[q[1]]])
  BY DEF Evaluate
<1> DEFINE todo == GetOccurrences(q[2].schedule, LaterOf(q[2].starts, q[2].schedule.first), today)
                   \ occurrences[q[1]]
<1> DEFINE p == [worker[w] EXCEPT !.queue = @ \ {q}, !.current = q[1], !.todo = todo]
<1>2. worker[w] \in Passes /\ q[1] \in Templates /\ q[2] \in Rows
  BY DEF Inv, TypeOK, Passes
<1>3. todo \subseteq Days /\ \A d \in todo : q[2].starts <= d
  <2>1. q[2].starts \in Nat /\ q[2].schedule.first \in Nat
    BY <1>2 DEF Rows, Schedules, Days
  <2> QED BY <2>1 DEF GetOccurrences, LaterOf, Days
<1> HIDE DEF todo
<1>4. /\ p \in Passes /\ p.queue \subseteq worker[w].queue
      /\ p.current = q[1] /\ p.todo = todo /\ p.at = "pass"
  BY <1>2, <1>3 DEF Passes, Evaluate
<1>5. SetWorker(w, p) /\ UNCHANGED <<today, template, occurrences, transactions, posted, crashes, off>>
  BY <1>1 DEF Evaluate, todo
<1> HIDE DEF p
<1>6. \A t \in Templates : \A d \in off[t] :
         /\ \A x \in p.queue : x[1] = t => d < x[2].starts
         /\ p.current = t => d \notin p.todo
  <2> SUFFICES ASSUME NEW t \in Templates, NEW d \in off[t]
               PROVE  /\ \A x \in p.queue : x[1] = t => d < x[2].starts
                      /\ p.current = t => d \notin p.todo
    OBVIOUS
  <2>1. \A x \in worker[w].queue : x[1] = t => d < x[2].starts
    BY DEF Inv, StartedAfterOff
  <2>2. d \in Nat /\ q[2].starts \in Nat
    BY <1>2 DEF Inv, TypeOK, Days, Rows
  <2> QED BY <2>1, <2>2, <1>3, <1>4
<1>7. worker' \in [Workers -> Passes] /\ IdleIsEmpty' /\ StartedAfterOff'
  BY <1>4, <1>5, <1>6, PassInv DEF Inv
<1> QED BY <1>5, <1>7 DEF Inv, TypeOK, Remembered

\* One date less to do.
LEMMA DateDoneInv ==
    ASSUME Inv, NEW w \in Workers, NEW d \in Days, NextDate(w, d), DateDone(w, d),
           UNCHANGED <<today, template, off>>
    PROVE  worker' \in [Workers -> Passes] /\ IdleIsEmpty' /\ StartedAfterOff'
<1> DEFINE p == [worker[w] EXCEPT !.todo = @ \ {d}]
<1>1. /\ p \in Passes /\ p.queue = worker[w].queue /\ p.current = worker[w].current
      /\ p.todo \subseteq worker[w].todo /\ p.at = "pass"
  BY DEF Inv, TypeOK, Passes, NextDate
<1>2. SetWorker(w, p)
  BY DEF DateDone
<1> HIDE DEF p
<1>3. \A t \in Templates : \A x \in off[t] :
         /\ \A q \in p.queue : q[1] = t => x < q[2].starts
         /\ p.current = t => x \notin p.todo
  BY <1>1 DEF Inv, StartedAfterOff
<1> QED BY <1>1, <1>2, <1>3, PassInv DEF Inv

LEMMA PostInv ==
    ASSUME Inv, NEW w \in Workers, NEW d \in Days, Post(w, d)
    PROVE  Inv'
<1>1. PICK t \in Templates : t = worker[w].current
  BY DEF Inv, TypeOK, Passes
<1>2. /\ NextDate(w, d) /\ DateDone(w, d) /\ UNCHANGED <<today, template, crashes, off>>
      /\ template[t].state = "present" /\ d \notin occurrences[t]
      /\ occurrences' = [occurrences EXCEPT ![t] = @ \cup {d}]
      /\ transactions' = [transactions EXCEPT ![t] = @ \cup {d}]
      /\ posted' = [posted EXCEPT ![t][d] = @ + 1]
  BY <1>1 DEF Post
<1>3. worker' \in [Workers -> Passes] /\ IdleIsEmpty' /\ StartedAfterOff'
  BY <1>2, DateDoneInv
<1>4. posted[t][d] = 0
  BY <1>2 DEF Inv, Remembered
<1>5. \A x \in Templates, e \in Days :
         posted'[x][e] = IF x = t /\ e = d THEN 1 ELSE posted[x][e]
  BY <1>2, <1>4 DEF Inv, TypeOK
<1>6. posted' \in [Templates -> [Days -> Nat]]
  BY <1>2, <1>4 DEF Inv, TypeOK
<1>7. \A x \in Templates, e \in Days :
         e \in occurrences'[x] <=> (e \in occurrences[x] \/ (x = t /\ e = d))
  BY <1>2 DEF Inv, TypeOK
<1>8. TypeOK'
  BY <1>2, <1>3, <1>6 DEF Inv, TypeOK
<1>9. Remembered'
  BY <1>2, <1>5, <1>7 DEF Inv, Remembered
<1> QED BY <1>3, <1>8, <1>9 DEF Inv

LEMMA FailInv ==
    ASSUME Inv, NEW w \in Workers, NEW d \in Days, Fail(w, d)
    PROVE  Inv'
<1>1. worker' \in [Workers -> Passes] /\ IdleIsEmpty' /\ StartedAfterOff'
  BY DateDoneInv DEF Fail
<1> QED BY <1>1 DEF Fail, Inv, TypeOK, Remembered

LEMMA StopInv ==
    ASSUME Inv, NEW w \in Workers, EndPass(w) \/ Crash(w)
    PROVE  Inv'
<1>1. /\ SetWorker(w, Idle)
      /\ UNCHANGED <<today, template, occurrences, transactions, posted, off>>
  BY DEF EndPass, Crash
<1>2. Idle.queue = {} /\ Idle.todo = {}
  BY DEF Idle
<1>3. worker' \in [Workers -> Passes] /\ IdleIsEmpty' /\ StartedAfterOff'
  BY <1>1, <1>2, IdlePass, PassInv DEF Inv
<1> QED BY <1>1, <1>3 DEF Inv, TypeOK, Remembered

LEMMA NextInv == Inv /\ [Next]_vars => Inv'
<1> SUFFICES ASSUME Inv, [Next]_vars PROVE Inv'
  OBVIOUS
<1>1. CASE UNCHANGED vars
  BY <1>1 DEF vars, Inv, TypeOK, Remembered, IdleIsEmpty, StartedAfterOff
<1>2. CASE NextDay
  BY <1>2, NextDayInv
<1>3. CASE UserStep
  BY <1>3, CreateInv, UpdateInv, DeleteInv, DeleteTransactionInv DEF UserStep
<1>4. ASSUME NEW w \in Workers, WorkerStep(w) \/ Crash(w)
      PROVE  Inv'
  BY <1>4, StartPassInv, EvaluateInv, PostInv, FailInv, StopInv DEF WorkerStep
<1> QED BY <1>1, <1>2, <1>3, <1>4 DEF Next

\* Types, what is remembered of the postings, and where automation started.
THEOREM Invariance == Spec => []Inv
<1>1. Init => Inv
  BY InitInv
<1>2. Inv /\ [Next]_vars => Inv'
  BY NextInv
<1> QED BY <1>1, <1>2, PTL DEF Spec

\* A template is posted at most once for a date (CreateOccurrenceAsync).
THEOREM NeverPostedTwice == Spec => []PostedOnce
<1>1. Inv => PostedOnce
  BY DEF Inv, Remembered, PostedOnce
<1> QED BY <1>1, Invariance, PTL

\* The only step that posts, and what it finds.
LEMMA OnlyPostPosts ==
    ASSUME Inv, [Next]_vars, NEW t \in Templates, NEW d \in Days, posted'[t][d] # posted[t][d]
    PROVE  \E w \in Workers : /\ template[t].state = "present"
                              /\ worker[w].current = t /\ d \in worker[w].todo
<1>1. PICK w \in Workers, e \in Days : Post(w, e)
  BY DEF Next, vars, NextDay, UserStep, Create, Update, Delete, DeleteTransaction,
         WorkerStep, StartPass, Evaluate, EndPass, Fail, Crash
<1>2. worker[w].current = t /\ e = d
  BY <1>1 DEF Post, Inv, TypeOK
<1> QED BY <1>1, <1>2 DEF Post, NextDate

\* A deleted template is never posted again (the occurrence's foreign key).
THEOREM DeletedStaysSilent == Spec => DeletedNeverPosts
<1> DEFINE A == \A t \in Templates : template[t].state = "gone" => posted'[t] = posted[t]
<1>1. Inv /\ Inv' /\ [Next]_vars => A
  <2> SUFFICES ASSUME Inv, Inv', [Next]_vars, NEW t \in Templates, template[t].state = "gone"
               PROVE  posted'[t] = posted[t]
    OBVIOUS
  <2>1. \A d \in Days : posted'[t][d] = posted[t][d]
    BY OnlyPostPosts
  <2> QED BY <2>1 DEF Inv, TypeOK
<1>2. Inv /\ Inv' /\ [Next]_vars => [A]_vars
  BY <1>1
<1> QED BY <1>2, Invariance, PTL DEF Spec, DeletedNeverPosts

\* No date a template was off is ever posted (AutomationStartsOn).
THEOREM OffDaysStayEmpty == Spec => NoBackfill
<1> DEFINE A == \A t \in Templates : \A d \in off[t] : posted'[t][d] = posted[t][d]
<1>1. Inv /\ [Next]_vars => A
  BY OnlyPostPosts DEF Inv, TypeOK, StartedAfterOff
<1>2. Inv /\ [Next]_vars => [A]_vars
  BY <1>1
<1> QED BY <1>2, Invariance, PTL DEF Spec, NoBackfill
=============================================================================
