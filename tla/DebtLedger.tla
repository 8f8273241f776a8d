----------------------------- MODULE DebtLedger -----------------------------
(***************************************************************************)
(* Debts, their operations and their automatic payments                    *)
(* (DebtService, and the debt half of RecurringTransactionWorker), under   *)
(* concurrent requests and worker passes.                                  *)
(*                                                                         *)
(* AddOperationAsync, UpdateOperationAsync, DeleteAsync and the worker     *)
(* hold the debt's advisory lock from their read to their commit.          *)
(* UpdateAsync, DeleteOperationAsync, CloseAsync and ReopenAsync take no   *)
(* lock.  Every request is therefore two steps: it reads a snapshot, and   *)
(* it saves what it computed from it.  Entity Framework writes the columns *)
(* that differ from the snapshot and fails the whole save when a row it    *)
(* updates or deletes is gone; PostgreSQL runs at READ COMMITTED.          *)
(*                                                                         *)
(* All operations that use an account use the same one.  Names, dates and  *)
(* notes are left out.                                                     *)
(***************************************************************************)
EXTENDS Integers, FiniteSets, FiniteSetsExt

CONSTANTS
    Debts,
    Users,          \* concurrent requests of the owner
    Workers,        \* instances of the recurring worker
    Templates,      \* ids of recurring payments
    Kinds,          \* the requests the users make
    Alone,          \* bound: requests made only while nothing else is under way
    Outside,        \* bound: requests not made between two payments of one pass
    Types,          \* the operation types they record
    Amounts,        \* amounts of operations and automatic payments
    Originals,      \* original amounts of debts
    Direction,      \* Direction[d]: "Payable" or "Receivable"
    MaxOperations,  \* bound on operations ever recorded
    MaxPerPass      \* bound on occurrences due in one worker pass

VARIABLES
    debt,        \* debt[d]: the row of d
    template,    \* template[d][t]: the recurring payment t of debt d
    operations,  \* operations[d]: the debt transactions of d
    initial,     \* the account's InitialBalance
    lock,        \* lock[d]: who holds the advisory lock of d
    session,     \* session[s]: the request or occurrence s is working on
    pass,        \* pass[w]: the worker pass of w
    recorded     \* operations recorded so far; numbers them

vars == <<debt, template, operations, initial, lock, session, pass, recorded>>

Free == "free"
Actors == Users \cup Workers

OperationTypes == {"Increase", "ManualCorrectionIncrease", "LoanDisbursement", "Payment",
                   "EarlyRepayment", "ManualCorrectionDecrease", "ReceivedRepayment"}

ASSUME DebtAssumption ==
    /\ Types \subseteq OperationTypes
    /\ Direction \in [Debts -> {"Payable", "Receivable"}]
    /\ Amounts \subseteq Nat \ {0} /\ Originals \subseteq Nat \ {0}
    /\ IsFiniteSet(Debts) /\ MaxOperations \in Nat /\ MaxPerPass \in Nat
    /\ Alone \subseteq Kinds /\ Outside \subseteq Kinds
    /\ Users \cap Workers = {} /\ Free \notin Actors

\* A debt transaction; automatic ones belong to an occurrence of a template.
Operation == [id : 1..MaxOperations, type : OperationTypes, amount : Nat \ {0},
              onAccount : BOOLEAN, automatic : BOOLEAN]

-----------------------------------------------------------------------------
(* DebtRules, DebtBalanceCalculator and TransactionSemantics.              *)

GetDebtDelta(type, amount) ==
    IF type \in {"Increase", "ManualCorrectionIncrease", "LoanDisbursement"}
    THEN amount ELSE -amount

RequiresAccount(type) == type \in {"Payment", "EarlyRepayment"}
AllowsAccount(type) == RequiresAccount(type) \/ type \in {"LoanDisbursement", "ReceivedRepayment"}

\* The operation does not match the debt direction otherwise.
MatchesDirection(type, direction) ==
    type \notin (IF direction = "Payable" THEN {"LoanDisbursement", "ReceivedRepayment"}
                                          ELSE {"Payment", "EarlyRepayment"})

CalculateRemaining(original, ops) ==
    original + MapThenSumSet(LAMBDA op : GetDebtDelta(op.type, op.amount), ops)

\* What an operation does to its account: income, expense, or a debt entry.
AccountChange(op) ==
    IF ~op.onAccount THEN 0
    ELSE IF op.type = "ReceivedRepayment" THEN op.amount ELSE -op.amount

AccountChanges(ops) == MapThenSumSet(AccountChange, ops)

AutomaticType(d) == IF Direction[d] = "Payable" THEN "Payment" ELSE "ReceivedRepayment"

\* Mutant: a repaid debt keeps its automatic payment.
KeepsAutomation(view, remaining) ==
    IF remaining # 0 THEN [view EXCEPT !.status = "Active"] ELSE [view EXCEPT !.status = "Closed"]

\* The status a debt gets with an amount remaining; a repaid debt closes and
\* its automatic payments are switched off.
ApplyAutomaticStatus(view, remaining) ==
    IF remaining # 0
    THEN [view EXCEPT !.status = "Active"]
    ELSE [view EXCEPT !.status = "Closed",
                      !.templates = [t \in Templates |-> IF @[t] = "on" THEN "off" ELSE @[t]]]

-----------------------------------------------------------------------------
(* Reading and saving.                                                     *)

Exists(d) == debt[d].status \in {"Active", "Closed"}

\* The tracked entities of one request: the debt, its operations and templates,
\* and the account of its operations.
View(d) == [original |-> debt[d].original, status |-> debt[d].status,
            templates |-> template[d], operations |-> operations[d], initial |-> initial]

Resting == [at |-> "idle"]
Working(s) == session[s].at = "read"

Locked(kind) == kind \in {"AddOperation", "UpdateOperation", "Delete", "Automatic"}

\* Mutant: AddOperationAsync and the others read before they hold the lock.
NoLock(s, d, kind) == UNCHANGED lock

AcquireLock(s, d, kind) ==
    IF Locked(kind) THEN lock[d] = Free /\ lock' = [lock EXCEPT ![d] = s]
                    ELSE UNCHANGED lock

\* The request is over: the transaction ended and the lock with it.
End(s) == /\ session' = [session EXCEPT ![s] = Resting]
          /\ lock' = [d \in Debts |-> IF lock[d] = s THEN Free ELSE lock[d]]

Ids(ops) == {op.id : op \in ops}

\* CHECK (amount > 0)
AmountsAllowed(added) == \A op \in added : op.amount > 0

\* SaveChanges: the columns that differ between what was read and what is to be
\* written go to the rows as they are now; removed rows must still be there.
Saved(s, read, write, removed, added) ==
    LET d == session[s].debt IN
    /\ Exists(d)
    /\ removed \subseteq Ids(operations[d])
    /\ Cardinality(added) + recorded <= MaxOperations
    /\ AmountsAllowed(added)
    /\ \A t \in Templates :
          read.templates[t] \notin {write.templates[t], "absent"} => template[d][t] # "absent"
    /\ debt' = [debt EXCEPT
          ![d].original = IF write.original = read.original THEN @ ELSE write.original,
          ![d].status = IF write.status = read.status THEN @ ELSE write.status]
    /\ template' = [template EXCEPT ![d] = [t \in Templates |->
          IF write.templates[t] = read.templates[t] THEN @[t] ELSE write.templates[t]]]
    /\ operations' = [operations EXCEPT ![d] = {op \in @ : op.id \notin removed} \cup added]
    /\ recorded' = recorded + Cardinality(added)
    /\ UNCHANGED initial

-----------------------------------------------------------------------------
(* The requests of the user interface.                                     *)

Create(s, d, original, payment) ==
    /\ "Create" \in Kinds
    /\ session[s] = Resting
    /\ debt[d].status = "new"
    /\ debt' = [debt EXCEPT ![d] = [original |-> original, status |-> "Active"]]
    /\ \/ payment = "absent" /\ UNCHANGED template
       \/ /\ payment # "absent"
          /\ \E t \in Templates : template' = [template EXCEPT ![d][t] = payment]
    /\ UNCHANGED <<operations, initial, lock, session, pass, recorded>>

\* The bounds Alone and Outside on the interleavings of requests.
Permitted(kind) ==
    /\ kind \in Kinds
    /\ kind \in Outside => \A w \in Workers : pass[w].tracked = {}
    /\ \A s \in Actors : session[s] # Resting =>
          kind \notin Alone /\ session[s].kind \notin Alone

\* A request reads its debt; the locked ones lock it first.
Read(s, d, kind, input) ==
    /\ Permitted(kind)
    /\ session[s] = Resting
    /\ Exists(d)
    /\ AcquireLock(s, d, kind)
    /\ session' = [session EXCEPT
          ![s] = [at |-> "read", kind |-> kind, debt |-> d, input |-> input, read |-> View(d)]]
    /\ UNCHANGED <<debt, template, operations, initial, pass, recorded>>

\* The guards of AddOperationCoreAsync.
Accepts(d, view, remaining, in) ==
    /\ view.status = "Active"
    /\ in.amount > 0
    /\ RequiresAccount(in.type) => in.onAccount
    /\ in.onAccount => AllowsAccount(in.type)
    /\ MatchesDirection(in.type, Direction[d])
    /\ remaining + GetDebtDelta(in.type, in.amount) < 0 => in.resolution # "None"

\* AddOperationCoreAsync on a tracked debt: what it leaves in the view, with the
\* operation it adds under the next number.
WithOperation(view, remaining, in) ==
    LET after == remaining + GetDebtDelta(in.type, in.amount)
        clamp == after < 0 /\ in.resolution = "ClampOperation"
        amount == IF clamp THEN remaining ELSE in.amount
        excess == IF after < 0 /\ ~clamp THEN -after ELSE 0
        op == [id |-> recorded + 1, type |-> in.type, amount |-> amount,
               onAccount |-> in.onAccount, automatic |-> in.automatic]
    IN ApplyAutomaticStatus(
           [view EXCEPT !.original = @ + excess, !.operations = @ \cup {op}],
           remaining + excess + GetDebtDelta(in.type, amount))

Added(view) == {op \in view.operations : op.id > recorded}

AddOperation(s) ==
    LET k == session[s]
        remaining == CalculateRemaining(k.read.original, k.read.operations)
        write == WithOperation(k.read, remaining, k.input)
    IN /\ Working(s) /\ k.kind = "AddOperation"
       /\ Accepts(k.debt, k.read, remaining, k.input)
       /\ Saved(s, k.read, write, {}, Added(write))
       /\ End(s)
       /\ UNCHANGED pass

\* The operation is replaced: removed first, then recorded anew.
UpdateOperation(s) ==
    LET k == session[s]
        others == {op \in k.read.operations : op.id # k.input.id}
        reopened == [k.read EXCEPT !.operations = others, !.status = "Active"]
        remaining == CalculateRemaining(k.read.original, others)
        write == WithOperation(reopened, remaining, k.input)
    IN /\ Working(s) /\ k.kind = "UpdateOperation"
       /\ k.input.id \in Ids(k.read.operations)
       /\ Accepts(k.debt, reopened, remaining, k.input)
       /\ Saved(s, k.read, write, {k.input.id}, Added(write))
       /\ End(s)
       /\ UNCHANGED pass

DeleteOperation(s) ==
    LET k == session[s]
        others == {op \in k.read.operations : op.id # k.input.id}
        write == ApplyAutomaticStatus(k.read, CalculateRemaining(k.read.original, others))
    IN /\ Working(s) /\ k.kind = "DeleteOperation"
       /\ k.input.id \in Ids(k.read.operations)
       /\ Saved(s, k.read, write, {k.input.id}, {})
       /\ End(s)
       /\ UNCHANGED pass

Close(s) ==
    LET k == session[s] IN
    /\ Working(s) /\ k.kind = "Close"
    /\ CalculateRemaining(k.read.original, k.read.operations) = 0
    /\ Saved(s, k.read, ApplyAutomaticStatus(k.read, 0), {}, {})
    /\ End(s)
    /\ UNCHANGED pass

Reopen(s) ==
    LET k == session[s] IN
    /\ Working(s) /\ k.kind = "Reopen"
    /\ Saved(s, k.read, [k.read EXCEPT !.status = "Active"], {}, {})
    /\ End(s)
    /\ UNCHANGED pass

\* Mutant: only a template that is switched on is found.
EnabledTemplates(view) == {t \in Templates : view.templates[t] = "on"}

TemplatesOf(view) == {t \in Templates : view.templates[t] # "absent"}

\* UpdateAsync with a new original amount and the payment form of the debt
\* page.  SingleOrDefault throws when the debt has two templates.
Update(s) ==
    LET k == session[s]
        present == TemplatesOf(k.read)
        remaining == CalculateRemaining(k.input.original, k.read.operations)
        enabled == IF k.input.payment = "on" /\ k.read.status # "Active" THEN "off" ELSE k.input.payment
    IN /\ Working(s) /\ k.kind = "Update"
       /\ remaining >= 0
       /\ Cardinality(present) <= 1
       /\ \E t \in IF present # {} THEN present ELSE {x \in Templates : template[k.debt][x] = "absent"} :
             LET payment == CASE k.input.payment = "absent" /\ present # {} -> "off"
                              [] k.input.payment # "absent" /\ present = {} -> k.input.payment
                              [] OTHER -> enabled
             IN Saved(s, k.read,
                      ApplyAutomaticStatus([k.read EXCEPT !.original = k.input.original,
                                                          !.templates[t] = payment],
                                           remaining), {}, {})
       /\ End(s)
       /\ UNCHANGED pass

\* Mutant: the account is not adjusted for the deleted transactions.
DeleteUnadjusted(s) ==
    LET k == session[s] IN
    /\ Working(s) /\ k.kind = "Delete"
    /\ Exists(k.debt) /\ Ids(k.read.operations) = Ids(operations[k.debt])
    /\ debt' = [debt EXCEPT ![k.debt].status = "deleted"]
    /\ template' = [template EXCEPT ![k.debt] = [t \in Templates |-> "absent"]]
    /\ operations' = [operations EXCEPT ![k.debt] = {}]
    /\ End(s)
    /\ UNCHANGED <<pass, recorded, initial>>

\* DeleteAsync removes what it read and moves its effect into the account's
\* initial balance.  Rows that vanished, or new ones that still refer to the
\* debt, fail it.
Delete(s) ==
    LET k == session[s]
        change == AccountChanges(k.read.operations)
    IN /\ Working(s) /\ k.kind = "Delete"
       /\ Exists(k.debt)
       /\ Ids(k.read.operations) = Ids(operations[k.debt])
       /\ \A t \in Templates : (k.read.templates[t] = "absent") = (template[k.debt][t] = "absent")
       /\ initial' = IF change = 0 THEN initial ELSE k.read.initial + change
       /\ debt' = [debt EXCEPT ![k.debt].status = "deleted"]
       /\ template' = [template EXCEPT ![k.debt] = [t \in Templates |-> "absent"]]
       /\ operations' = [operations EXCEPT ![k.debt] = {}]
       /\ End(s)
       /\ UNCHANGED <<pass, recorded>>

\* A recurring payment is deleted by itself.  The Api does it for any; Web redirects the
\* user to the debt if the payment belongs to one when it looks.
DeleteTemplate(s, d, t) ==
    /\ Permitted("DeleteTemplate")
    /\ session[s] = Resting
    /\ template[d][t] # "absent"
    /\ template' = [template EXCEPT ![d][t] = "absent"]
    /\ UNCHANGED <<debt, operations, initial, lock, session, pass, recorded>>

\* A guard refused the request, the save failed or the request was cancelled:
\* nothing is written.
Fail(s) == /\ Working(s) /\ session[s].kind # "Automatic"
           /\ End(s)
           /\ UNCHANGED <<debt, template, operations, initial, pass, recorded>>

-----------------------------------------------------------------------------
(* The worker.                                                             *)

NoPass == [due |-> {}, left |-> 0, tracked |-> {}]

\* A pass reads the enabled templates once.
StartPass(w) ==
    /\ pass[w] = NoPass
    /\ \E n \in 1..MaxPerPass :
          pass' = [pass EXCEPT ![w] = [due |-> {x \in Debts \X Templates : template[x[1]][x[2]] = "on"},
                                       left |-> n, tracked |-> {}]]
    /\ \E d \in Debts, t \in Templates : template[d][t] = "on"
    /\ UNCHANGED <<debt, template, operations, initial, lock, session, recorded>>

\* Mutant: the operations of a debt that is tracked are not read again.
KnownAlready(w, d) ==
    IF \E v \in pass[w].tracked : v.debt = d
    THEN (CHOOSE v \in pass[w].tracked : v.debt = d).view
    ELSE View(d)

\* Entity Framework returns a debt the context already tracks with the values it
\* had, adds the transactions it did not know and keeps those that are gone.
TrackedView(w, d) ==
    IF \E v \in pass[w].tracked : v.debt = d
    THEN LET v == CHOOSE v \in pass[w].tracked : v.debt = d
         IN [v.view EXCEPT !.operations = @ \cup
               {op \in operations[d] : op.id \notin Ids(v.view.operations)}]
    ELSE View(d)

\* The template that the pass read.
AutomaticInput(d, amount, remaining) ==
    [type |-> AutomaticType(d), amount |-> IF amount < remaining THEN amount ELSE remaining,
     onAccount |-> TRUE, resolution |-> "None", automatic |-> TRUE]

ReadOccurrence(w, d, t, amount) ==
    /\ session[w] = Resting
    /\ \A s \in Users : session[s] # Resting => session[s].kind \notin Alone
    /\ pass[w].left > 0 /\ <<d, t>> \in pass[w].due
    /\ Exists(d)
    /\ AcquireLock(w, d, "Automatic")
    /\ session' = [session EXCEPT
          ![w] = [at |-> "read", kind |-> "Automatic", debt |-> d,
                  input |-> [template |-> t, amount |-> amount], read |-> TrackedView(w, d)]]
    /\ pass' = [pass EXCEPT ![w].left = @ - 1]
    /\ UNCHANGED <<debt, template, operations, initial, recorded>>

\* AddAutomaticOperationAsync and the save of the occurrence.  The context goes
\* on tracking the debt it saved.
PostOccurrence(w) ==
    LET k == session[w]
        remaining == CalculateRemaining(k.read.original, k.read.operations)
        in == AutomaticInput(k.debt, k.input.amount, remaining)
        write == WithOperation(k.read, remaining, in)
    IN /\ Working(w) /\ k.kind = "Automatic"
       /\ Accepts(k.debt, k.read, remaining, in)
       /\ template[k.debt][k.input.template] # "absent"
       /\ Saved(w, k.read, write, {}, Added(write))
       /\ pass' = [pass EXCEPT ![w].tracked =
             {v \in @ : v.debt # k.debt} \cup {[debt |-> k.debt, view |-> write]}]
       /\ End(w)

\* The occurrence threw: the change tracker is cleared, the next pass retries.
FailOccurrence(w) ==
    /\ Working(w) /\ session[w].kind = "Automatic"
    /\ pass' = [pass EXCEPT ![w].tracked = {}]
    /\ End(w)
    /\ UNCHANGED <<debt, template, operations, initial, recorded>>

\* The pass ends, or the process is stopped between two occurrences.
EndPass(w) == /\ pass[w] # NoPass
              /\ session[w] = Resting
              /\ pass' = [pass EXCEPT ![w] = NoPass]
              /\ UNCHANGED <<debt, template, operations, initial, lock, session, recorded>>

-----------------------------------------------------------------------------
Resolutions == {"None", "IncreaseOriginalAmount", "ClampOperation"}

\* The form offers an account for the types that allow one, and no other.
OperationInputs == {in \in [type : Types, amount : Amounts, onAccount : BOOLEAN,
                            resolution : Resolutions, automatic : {FALSE}] :
                       in.onAccount = AllowsAccount(in.type)}

\* Automatically generated operations cannot be edited.
ReplaceInputs(d) == {[id |-> op.id, type |-> in.type, amount |-> in.amount, automatic |-> FALSE,
                      onAccount |-> in.onAccount, resolution |-> in.resolution] :
                        op \in {x \in operations[d] : ~x.automatic}, in \in OperationInputs}

DebtInputs == [original : Originals, payment : {"absent", "off", "on"}]

Init == /\ debt = [d \in Debts |-> [original |-> 0, status |-> "new"]]
        /\ template = [d \in Debts |-> [t \in Templates |-> "absent"]]
        /\ operations = [d \in Debts |-> {}]
        /\ initial = 0
        /\ lock = [d \in Debts |-> Free]
        /\ session = [s \in Actors |-> Resting]
        /\ pass = [w \in Workers |-> NoPass]
        /\ recorded = 0

UserNext(s) ==
    \/ \E d \in Debts : 
          \/ \E in \in DebtInputs : Create(s, d, in.original, in.payment)
          \/ \E in \in OperationInputs : Read(s, d, "AddOperation", in)
          \/ \E in \in ReplaceInputs(d) : Read(s, d, "UpdateOperation", in)
          \/ \E op \in operations[d] : Read(s, d, "DeleteOperation", [id |-> op.id])
          \/ \E kind \in {"Close", "Reopen", "Delete"} : Read(s, d, kind, [id |-> 0])
          \/ \E in \in DebtInputs : Read(s, d, "Update", in)
          \/ \E t \in Templates : DeleteTemplate(s, d, t)
    \/ AddOperation(s) \/ UpdateOperation(s) \/ DeleteOperation(s)
    \/ Close(s) \/ Reopen(s) \/ Update(s) \/ Delete(s)
    \/ Fail(s)

WorkerNext(w) ==
    \/ StartPass(w)
    \/ \E d \in Debts, t \in Templates, amount \in Amounts : ReadOccurrence(w, d, t, amount)
    \/ PostOccurrence(w)
    \/ FailOccurrence(w)
    \/ EndPass(w)

Next == (\E s \in Users : UserNext(s)) \/ (\E w \in Workers : WorkerNext(w))

Spec == Init /\ [][Next]_vars

-----------------------------------------------------------------------------
(* Properties.                                                             *)

Remaining(d) == CalculateRemaining(debt[d].original, operations[d])

\* No debt is repaid by more than is owed: operations never exceed the
\* remaining debt (AddOperationCoreAsync; BackupValidator.ValidateDebtBalances
\* rejects the data otherwise).
NeverOverpaid == \A d \in Debts : Exists(d) => Remaining(d) >= 0

\* Only the deletion of an operation leaves a debt repaid by more than is owed:
\* whatever is recorded or edited at the same time, by requests and by worker
\* passes, exceeds the remaining debt by nothing (AddOperationCoreAsync).
OnlyDeletionOverpays ==
    [][\A d \in Debts : Exists(d) /\ Remaining(d) >= 0 /\ Exists(d)' /\ Remaining(d)' < 0 =>
          \E s \in Users : session[s] # session'[s] /\ session[s].kind = "DeleteOperation"]_vars

\* A closed debt is fully repaid (CloseAsync: "Only a fully repaid debt can be
\* closed").
ClosedMeansRepaid == \A d \in Debts : debt[d].status = "Closed" => Remaining(d) = 0

\* A closed debt has no automatic payment left on (ApplyAutomaticStatus).
ClosedStopsAutomation ==
    \A d \in Debts : debt[d].status = "Closed" => \A t \in Templates : template[d][t] # "on"

\* A debt has at most one recurring payment: every reader of the debt uses
\* RecurringTransactions.SingleOrDefault().
OneTemplate ==
    \A d \in Debts : Cardinality({t \in Templates : template[d][t] # "absent"}) <= 1

Balance == initial + MapThenSumSet(LAMBDA d : AccountChanges(operations[d]), Debts)

\* Deleting a debt leaves the current balance of the accounts unchanged.
DeletionKeepsBalance ==
    [][(\E d \in Debts : Exists(d) /\ debt'[d].status = "deleted") => Balance' = Balance]_vars
=============================================================================
