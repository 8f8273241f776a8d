---------------------------- MODULE RecurringWorker ----------------------------
(***************************************************************************)
(* RecurringTransactionWorker and RecurringTransactionService: templates,  *)
(* the occurrences the worker has processed, and the transactions it       *)
(* generates, with several worker instances and users who edit, disable    *)
(* and delete while a pass runs.                                           *)
(*                                                                         *)
(* A pass reads the enabled templates once; for each it computes the due   *)
(* dates and reads which are processed; each other date is one database    *)
(* transaction that inserts a transaction and its occurrence.  Occurrences *)
(* are unique by template and date and go with their template; deleting a  *)
(* generated transaction leaves its occurrence.                            *)
(*                                                                         *)
(* Dates are day numbers and a schedule is every so many days; amounts,    *)
(* notes and debts (see DebtLedger) are left out, all users are in one     *)
(* time zone.                                                              *)
(***************************************************************************)
EXTENDS Integers, FiniteSets

CONSTANTS
    Templates,    \* template ids
    Workers,      \* instances of the API, each with its worker
    MaxDay,       \* bound on the days that pass
    Intervals,    \* days between two occurrences
    Unreliable,   \* dates whose transaction may fail every time (ToUtc throws)
    MaxCrashes    \* bound on worker crashes

ASSUME WorkerAssumption ==
    /\ Templates # {}
    /\ MaxDay \in Nat \ {0}
    /\ Intervals # {} /\ Intervals \subseteq Nat \ {0}

VARIABLES
    today,        \* the users' date
    template,     \* template[t]: the row of t
    occurrences,  \* occurrences[t]: the dates with an occurrence row
    transactions, \* transactions[t]: the dates whose transaction the user kept
    posted,       \* posted[t][d]: how often t was posted for d, ever
    worker,       \* worker[w]: the pass of w
    crashes,
    off           \* off[t]: the days t spent switched off, no pass under way

vars == <<today, template, occurrences, transactions, posted, worker, crashes, off>>

Days == 1..MaxDay
NoLast == MaxDay + 1

Schedules == {s \in [first : Days, last : Days \cup {NoLast}, every : Intervals] : s.first <= s.last}

\* A row, present, not yet created or deleted.
Rows == [state : {"new", "present", "gone"}, enabled : BOOLEAN, schedule : Schedules, starts : Days]

\* RecurringSchedule.IsOccurrence
IsOccurrence(s, d) == /\ s.first <= d /\ d <= s.last
                      /\ (d - s.first) % s.every = 0

\* RecurringSchedule.GetOccurrences(template, from, to)
GetOccurrences(s, from, to) == {d \in Days : from <= d /\ d <= to /\ IsOccurrence(s, d)}

\* A pass: the templates still to evaluate, as it read them, and the dates of the
\* current one still to post.
Passes == [at : {"idle", "pass"}, queue : SUBSET (Templates \X Rows),
           current : Templates, todo : SUBSET Days]

Idle == [at |-> "idle", queue |-> {}, current |-> CHOOSE t \in Templates : TRUE, todo |-> {}]

-----------------------------------------------------------------------------
(* The user and the calendar.                                              *)

NextDay == /\ today < MaxDay
           /\ today' = today + 1
           /\ off' = [t \in Templates |->
                 IF /\ \A w \in Workers : worker[w].at = "idle"
                    /\ ~(template[t].state = "present" /\ template[t].enabled)
                 THEN off[t] \cup {today} ELSE off[t]]
           /\ UNCHANGED <<template, occurrences, transactions, posted, worker, crashes>>

Create(t, s, enabled) ==
    /\ template[t].state = "new"
    /\ template' = [template EXCEPT
          ![t] = [state |-> "present", enabled |-> enabled, schedule |-> s, starts |-> today]]
    /\ UNCHANGED <<today, occurrences, transactions, posted, worker, crashes, off>>

\* Mutant: a new schedule keeps the day automation started on.
StartUnchanged(t, s, enabled) == template[t].starts

\* Automation starts today when the schedule changes or it is switched on.
StartsOn(t, s, enabled) ==
    IF s # template[t].schedule \/ (enabled /\ ~template[t].enabled) THEN today ELSE template[t].starts

Update(t, s, enabled) ==
    /\ template[t].state = "present"
    /\ template' = [template EXCEPT
          ![t] = [state |-> "present", enabled |-> enabled, schedule |-> s,
                  starts |-> StartsOn(t, s, enabled)]]
    /\ UNCHANGED <<today, occurrences, transactions, posted, worker, crashes, off>>

\* The occurrences go with the template, the transactions stay.
Delete(t) == /\ template[t].state = "present"
             /\ template' = [template EXCEPT
                   ![t] = [state |-> "gone", enabled |-> FALSE,
                           schedule |-> @.schedule, starts |-> @.starts]]
             /\ occurrences' = [occurrences EXCEPT ![t] = {}]
             /\ UNCHANGED <<today, transactions, posted, worker, crashes, off>>

\* Mutant: the occurrence goes with its transaction.
DeleteBoth(t, d) ==
    /\ d \in transactions[t]
    /\ transactions' = [transactions EXCEPT ![t] = @ \ {d}]
    /\ occurrences' = [occurrences EXCEPT ![t] = @ \ {d}]
    /\ UNCHANGED <<today, template, posted, worker, crashes, off>>

\* The user deletes a generated transaction; its occurrence loses the reference.
DeleteTransaction(t, d) ==
    /\ d \in transactions[t]
    /\ transactions' = [transactions EXCEPT ![t] = @ \ {d}]
    /\ UNCHANGED <<today, template, occurrences, posted, worker, crashes, off>>

-----------------------------------------------------------------------------
(* The worker.                                                             *)

SetWorker(w, value) == worker' = [worker EXCEPT ![w] = value]

Enabled == {t \in Templates : /\ template[t].state = "present" /\ template[t].enabled
                              /\ template[t].schedule.last >= template[t].starts}

\* One read of the templates to process, without tracking.
StartPass(w) ==
    /\ worker[w].at = "idle"
    /\ SetWorker(w, [Idle EXCEPT
          !.at = "pass", !.queue = {<<t, template[t]>> : t \in Enabled}])
    /\ UNCHANGED <<today, template, occurrences, transactions, posted, crashes, off>>

LaterOf(a, b) == IF a > b THEN a ELSE b

\* The due dates of a template as the pass read it, today, less the processed.
Evaluate(w) ==
    /\ worker[w].at = "pass" /\ worker[w].todo = {}
    /\ \E q \in worker[w].queue :
          LET start == LaterOf(q[2].starts, q[2].schedule.first)
              due == GetOccurrences(q[2].schedule, start, today)
          IN SetWorker(w, [worker[w] EXCEPT
                !.queue = @ \ {q}, !.current = q[1], !.todo = due \ occurrences[q[1]]])
    /\ UNCHANGED <<today, template, occurrences, transactions, posted, crashes, off>>

\* The earliest date left.
NextDate(w, d) == /\ worker[w].at = "pass"
                  /\ d \in worker[w].todo
                  /\ \A other \in worker[w].todo : d <= other

DateDone(w, d) == SetWorker(w, [worker[w] EXCEPT !.todo = @ \ {d}])

\* Mutant: no unique index on template and date.
PostAgain(w, d) ==
    LET t == worker[w].current IN
    /\ NextDate(w, d)
    /\ template[t].state = "present"
    /\ occurrences' = [occurrences EXCEPT ![t] = @ \cup {d}]
    /\ transactions' = [transactions EXCEPT ![t] = @ \cup {d}]
    /\ posted' = [posted EXCEPT ![t][d] = @ + 1]
    /\ DateDone(w, d)
    /\ UNCHANGED <<today, template, crashes, off>>

\* Mutant: the occurrence does not refer to its template.
PostUnreferenced(w, d) ==
    LET t == worker[w].current IN
    /\ NextDate(w, d)
    /\ d \notin occurrences[t]
    /\ occurrences' = [occurrences EXCEPT ![t] = @ \cup {d}]
    /\ transactions' = [transactions EXCEPT ![t] = @ \cup {d}]
    /\ posted' = [posted EXCEPT ![t][d] = @ + 1]
    /\ DateDone(w, d)
    /\ UNCHANGED <<today, template, crashes, off>>

\* Transaction and occurrence commit together: the template is still there and
\* no other instance inserted the occurrence.
Post(w, d) ==
    LET t == worker[w].current IN
    /\ NextDate(w, d)
    /\ template[t].state = "present"
    /\ d \notin occurrences[t]
    /\ occurrences' = [occurrences EXCEPT ![t] = @ \cup {d}]
    /\ transactions' = [transactions EXCEPT ![t] = @ \cup {d}]
    /\ posted' = [posted EXCEPT ![t][d] = @ + 1]
    /\ DateDone(w, d)
    /\ UNCHANGED <<today, template, crashes, off>>

\* Mutant: a failed date ends the work on its template.
FailStops(w, d) ==
    /\ NextDate(w, d)
    /\ SetWorker(w, [worker[w] EXCEPT !.todo = {}])
    /\ UNCHANGED <<today, template, occurrences, transactions, posted, crashes, off>>

\* A unique violation or any other error: nothing is written, the next date
\* follows, and the next pass tries this one again.
Fail(w, d) == /\ NextDate(w, d)
              /\ DateDone(w, d)
              /\ UNCHANGED <<today, template, occurrences, transactions, posted, crashes, off>>

EndPass(w) == /\ worker[w].at = "pass" /\ worker[w].todo = {} /\ worker[w].queue = {}
              /\ SetWorker(w, Idle)
              /\ UNCHANGED <<today, template, occurrences, transactions, posted, crashes, off>>

\* The process stops, or the pass ends on an error outside a template.
Crash(w) == /\ worker[w].at = "pass" /\ crashes < MaxCrashes
            /\ crashes' = crashes + 1
            /\ SetWorker(w, Idle)
            /\ UNCHANGED <<today, template, occurrences, transactions, posted, off>>

-----------------------------------------------------------------------------
NewRow == [state |-> "new", enabled |-> FALSE,
           schedule |-> CHOOSE s \in Schedules : TRUE, starts |-> 1]

Init == /\ today = 1
        /\ template = [t \in Templates |-> NewRow]
        /\ occurrences = [t \in Templates |-> {}]
        /\ transactions = [t \in Templates |-> {}]
        /\ posted = [t \in Templates |-> [d \in Days |-> 0]]
        /\ worker = [w \in Workers |-> Idle]
        /\ crashes = 0
        /\ off = [t \in Templates |-> {}]

UserStep == \E t \in Templates :
    \/ \E s \in Schedules, enabled \in BOOLEAN : Create(t, s, enabled) \/ Update(t, s, enabled)
    \/ Delete(t)
    \/ \E d \in Days : DeleteTransaction(t, d)

WorkerStep(w) == \/ StartPass(w) \/ Evaluate(w) \/ EndPass(w)
                 \/ \E d \in Days : Post(w, d) \/ Fail(w, d)

Next == \/ NextDay \/ UserStep
        \/ \E w \in Workers : WorkerStep(w) \/ Crash(w)

Spec == Init /\ [][Next]_vars

\* The worker loops for as long as its process lives, and an error that is not
\* in the data does not come back for ever.  Of the unreliable dates nothing is
\* assumed.
FairSpec == /\ Spec
            /\ \A w \in Workers : /\ WF_vars(WorkerStep(w))
                                  /\ \A d \in Days \ Unreliable : SF_vars(Post(w, d))

-----------------------------------------------------------------------------
(* Properties.                                                             *)

TypeOK == /\ today \in Days
          /\ template \in [Templates -> Rows]
          /\ occurrences \in [Templates -> SUBSET Days]
          /\ transactions \in [Templates -> SUBSET Days]
          /\ posted \in [Templates -> [Days -> Nat]]
          /\ off \in [Templates -> SUBSET Days]
          /\ worker \in [Workers -> Passes]

\* A template is posted at most once for a date, whatever the instances, retries
\* and edits, and even if the user deleted the transaction it generated
\* (CreateOccurrenceAsync; ux_recurring_transaction_occurrences_template_date).
PostedOnce == \A t \in Templates, d \in Days : posted[t][d] <= 1

\* A deleted template is never posted again, not even by a pass that read it
\* before (the foreign key of the occurrence).
DeletedNeverPosts ==
    [][\A t \in Templates : template[t].state = "gone" => posted'[t] = posted[t]]_vars

\* Switching a template on, or on again, does not make up for the days it was
\* off (AutomationStartsOn).
NoBackfill ==
    [][\A t \in Templates : \A d \in off[t] : posted'[t][d] = posted[t][d]]_vars

Due(t, d) == /\ template[t].state = "present" /\ template[t].enabled
             /\ template[t].starts <= d /\ d <= today
             /\ IsOccurrence(template[t].schedule, d)

\* Every due date is processed in the end, although other dates of the template
\* fail every time (ProcessDueOccurrencesAsync: "will be retried").
DueIsPosted == \A t \in Templates, d \in Days \ Unreliable :
    Due(t, d) ~> (d \in occurrences[t] \/ ~Due(t, d))

-----------------------------------------------------------------------------
\* Why PostedOnce holds: what was posted has its occurrence for as long as the
\* template exists.
Remembered == \A t \in Templates, d \in Days :
    /\ template[t].state = "new" => posted[t][d] = 0 /\ d \notin occurrences[t]
    /\ template[t].state = "present" => posted[t][d] = IF d \in occurrences[t] THEN 1 ELSE 0
    /\ posted[t][d] <= 1

\* Why NoBackfill holds: automation started after the days off, in the row and in
\* what a pass under way still knows of it.
StartedAfterOff == \A t \in Templates : \A d \in off[t] :
    /\ d < today
    /\ template[t].state = "present" /\ template[t].enabled => d < template[t].starts
    /\ \A w \in Workers :
          /\ \A q \in worker[w].queue : q[1] = t => d < q[2].starts
          /\ worker[w].current = t => d \notin worker[w].todo

IdleIsEmpty == \A w \in Workers :
    worker[w].at = "idle" => worker[w].queue = {} /\ worker[w].todo = {}

Inv == TypeOK /\ Remembered /\ IdleIsEmpty /\ StartedAfterOff
=============================================================================
