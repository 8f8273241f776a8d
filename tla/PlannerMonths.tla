----------------------------- MODULE PlannerMonths -----------------------------
(***************************************************************************)
(* The monthly plans of one user: PlannerService, PlannerHistory and the   *)
(* part of PocketLedgerDbContext.SaveChangesAsync that keeps them.         *)
(*                                                                         *)
(* A plan is a record per month with a saved snapshot, and the user's      *)
(* items.  There is no job that closes a month: the first visit or write   *)
(* after its end does, for every month that was missed.  Every reader and  *)
(* writer of plans holds the owner's advisory lock to its commit, but the  *)
(* date is read before the lock (GetMonthAsync) or twice under it (an      *)
(* edit reads it to decide, SaveChangesAsync again), the user's time zone  *)
(* may change, and the recurring worker writes without the lock.           *)
(*                                                                         *)
(* Time is in half months: in the second half it is already next month in  *)
(* the east.  The figures of a snapshot stand for what they were computed  *)
(* from: the number of finance writes, the items and the settings.         *)
(***************************************************************************)
EXTENDS Integers, FiniteSets

CONSTANTS
    Visitors,    \* concurrent requests that show a month
    Editors,     \* concurrent requests that edit a month
    Items,       \* what a plan item may be (amount, account, paused ...)
    Settings,    \* opening balance settings
    Texts,       \* notes
    Nothing,     \* no settings, no notes, no lock holder
    MaxTime,     \* bound on half months
    Horizon,     \* months that can be planned ahead (ten years)
    MaxMonth,    \* bound on months
    MaxWrites,   \* bound on finance writes, of the user and of the worker
    MaxEdits     \* bound on edits of plans

ASSUME PlannerAssumption ==
    /\ Nothing \notin Editors
    /\ Nothing \in Settings /\ Nothing \in Texts
    /\ MaxTime \in Nat \ {0, 1} /\ Horizon \in Nat
    /\ MaxWrites \in Nat /\ MaxEdits \in Nat
    /\ MaxMonth \in Nat /\ MaxTime + 1 < 2 * (MaxMonth + 1)

VARIABLES
    time, zone,     \* half months; the user's time zone
    writes,         \* finance writes of the user and of the worker
    plan,           \* the committed records and items
    asked, today,   \* asked[p]: the month p asked for on its date today[p]
    lock, edit, draft, \* who holds the advisory lock, its edit, its transaction
    edits           \* edits begun, for the bound

clock == <<time, zone>>
visits == <<asked, today>>
transaction == <<lock, edit, draft, edits>>
vars == <<time, zone, writes, plan, asked, today, lock, edit, draft, edits>>

MonthAt(t, z) == (t + (IF z = "east" THEN 1 ELSE 0)) \div 2

Current == MonthAt(time, zone)

Months == 1..MaxMonth

NoMonth == 0

Figures == [writes : 0..MaxWrites, items : SUBSET Items, settings : Settings]

\* previous: the figures of the month before, shown for comparison.
Rows == [state : {"absent", "open", "closed"}, settings : Settings, figures : Figures,
         previous : SUBSET Figures, notes : Texts]

Plans == [month : [Months -> Rows], items : [Months -> SUBSET Items]]

NoFigures == [writes |-> 0, items |-> {}, settings |-> Nothing]

NoRow == [state |-> "absent", settings |-> Nothing, figures |-> NoFigures,
          previous |-> {}, notes |-> Nothing]

NoPlan == [month |-> [m \in Months |-> NoRow], items |-> [m \in Months |-> {}]]

Present(pl, m) == m \in Months /\ pl.month[m].state # "absent"

Largest(S) == CHOOSE m \in S : \A k \in S : k <= m

-----------------------------------------------------------------------------
(* PlannerHistory.RefreshAsync.                                            *)

\* Mutant: the months that were missed are left out.
CreatedToday(pl, c, requested) ==
    {m \in {c, requested} \ {NoMonth} : m >= c /\ ~Present(pl, m)}

\* The months it adds: from the last plan that has begun to today's month or
\* the requested one.
Created(pl, c, requested) ==
    LET begun == {m \in 1..c : Present(pl, m)}
        first == IF begun = {} THEN c ELSE Largest(begun)
        last == IF requested > c THEN requested ELSE c
    IN {m \in first..last : ~Present(pl, m)}

Before(S, m) == {k \in S : k < m}

\* A month it adds takes the settings of the latest record before it ...
SettingsAfter(pl, m) ==
    LET before == Before({k \in Months : Present(pl, k)}, m)
    IN IF Present(pl, m) THEN pl.month[m].settings
       ELSE IF before = {} THEN Nothing ELSE pl.month[Largest(before)].settings

\* Mutant: a month without items is filled whenever the plan is refreshed.
RefillItems(pl, created, m) ==
    LET before == Before({k \in Months : Present(pl, k) \/ pl.items[k] # {}}, m)
    IN IF pl.items[m] # {} \/ Before({k \in Months : Present(pl, k)}, m) = {} THEN pl.items[m]
       ELSE pl.items[Largest(before)]

\* ... and copies of its items, unless it has items of its own.
ItemsAfter(pl, created, m) ==
    LET before == Before({k \in Months : Present(pl, k) \/ pl.items[k] # {}}, m)
    IN IF m \notin created \/ pl.items[m] # {} \/ Before({k \in Months : Present(pl, k)}, m) = {}
       THEN pl.items[m]
       ELSE pl.items[Largest(before)]

\* What was saved of a month that has ended is final.
Kept(pl, c, m) == \/ pl.month[m].state = "closed"
                  \/ pl.month[m].state = "open" /\ m < c

FiguresAfter(pl, c, created, n, m) ==
    IF Kept(pl, c, m) THEN pl.month[m].figures
    ELSE [writes |-> n, items |-> ItemsAfter(pl, created, m), settings |-> SettingsAfter(pl, m)]

PreviousAfter(pl, c, created, n, m) ==
    IF Present(pl, m - 1) \/ m - 1 \in created THEN {FiguresAfter(pl, c, created, n, m - 1)} ELSE {}

RowAfter(pl, c, created, n, m) ==
    IF pl.month[m].state = "closed" \/ (~Present(pl, m) /\ m \notin created) THEN pl.month[m]
    ELSE IF Kept(pl, c, m) THEN [pl.month[m] EXCEPT !.state = "closed"]
    ELSE [state |-> IF m < c THEN "closed" ELSE "open",
          settings |-> SettingsAfter(pl, m),
          figures |-> FiguresAfter(pl, c, created, n, m),
          previous |-> PreviousAfter(pl, c, created, n, m),
          notes |-> IF Present(pl, m) THEN pl.month[m].notes ELSE Nothing]

\* c is today's month, n the finance writes it sees; without a requested month
\* nothing begins.
Refresh(pl, c, requested, n) ==
    LET created == Created(pl, c, requested) IN
    IF requested = NoMonth /\ \A m \in Months : ~Present(pl, m) THEN pl
    ELSE [month |-> [m \in Months |-> RowAfter(pl, c, created, n, m)],
          items |-> [m \in Months |-> ItemsAfter(pl, created, m)]]

\* Mutant: the write in progress is already there when missed months are closed.
NoCatchUp(pl) == pl

\* Months that were missed are closed before the write in progress is applied.
CatchUp(pl) ==
    IF \E m \in Months : m < Current /\ pl.month[m].state = "open"
    THEN Refresh(pl, Current, NoMonth, writes) ELSE pl

-----------------------------------------------------------------------------
\* A request spans the end of at most one month.
InTime(month) == \A p \in Visitors : asked[p] # NoMonth => month <= today[p] + 1

Tick == /\ time < MaxTime
        /\ time' = time + 1
        /\ InTime(MonthAt(time + 1, zone))
        /\ UNCHANGED <<zone, writes, plan, visits, transaction>>

SetZone(z) == /\ zone' = z
              /\ InTime(MonthAt(time, z))
              /\ UNCHANGED <<time, writes, plan, visits, transaction>>

\* The worker has no key of the user and skips the plans.
Post == /\ writes < MaxWrites
        /\ writes' = writes + 1
        /\ UNCHANGED <<clock, plan, visits, transaction>>

\* A finance write of the user: lock, catch up, refresh, commit.
Write == /\ lock = Nothing
         /\ writes < MaxWrites
         /\ writes' = writes + 1
         /\ plan' = Refresh(CatchUp(plan), Current, NoMonth, writes + 1)
         /\ UNCHANGED <<clock, visits, transaction>>

\* GetMonthAsync reads the date, then waits for the lock.
Ask(p, m) == /\ asked[p] = NoMonth
             /\ m <= Current + Horizon
             /\ asked' = [asked EXCEPT ![p] = m]
             /\ today' = [today EXCEPT ![p] = Current]
             /\ UNCHANGED <<clock, writes, plan, transaction>>

Visit(p) == /\ asked[p] # NoMonth
            /\ lock = Nothing
            /\ plan' = Refresh(plan, today[p], asked[p], writes)
            /\ asked' = [asked EXCEPT ![p] = NoMonth]
            /\ today' = [today EXCEPT ![p] = 1]
            /\ UNCHANGED <<clock, writes, transaction>>

-----------------------------------------------------------------------------
(* Edits: the lock first, then the date, the checks and the draft.  The    *)
(* items of a month are distinct.                                          *)

\* from: the month edited; to: the month an item moves to.
Edits == [settings : SUBSET Settings, notes : SUBSET Texts,
          from : Months, to : Months, removed : SUBSET Items, added : SUBSET Items]

NoEdit(m) == [settings |-> {}, notes |-> {}, from |-> m, to |-> m, removed |-> {}, added |-> {}]

UpdateNotes(m, text) == [NoEdit(m) EXCEPT !.notes = {text}]
UpdateOpeningBalance(m, value) == [NoEdit(m) EXCEPT !.settings = {value}]
Create(m, item) == [NoEdit(m) EXCEPT !.added = {item}]
Delete(m, item) == [NoEdit(m) EXCEPT !.removed = {item}]
\* SetPausedAsync is an update in place.
Update(m, old, k, new) == [NoEdit(m) EXCEPT !.to = k, !.removed = {old}, !.added = {new}]

\* Mutant: a month is editable as long as its plan is not in the past.
EditableByDate(pl, m) == Current <= m /\ m <= Current + Horizon

\* RequireEditableAsync, after EnsureMonthAsync.
Editable(pl, m) == /\ Current <= m /\ m <= Current + Horizon
                   /\ pl.month[m].state # "closed"

Begin(p, e) ==
    LET ensured == Refresh(plan, Current, e.from, writes)
        both == Refresh(ensured, Current, e.to, writes)
    IN
    /\ lock = Nothing
    /\ edits < MaxEdits
    /\ e.removed \subseteq plan.items[e.from]
    /\ e.added \cap both.items[e.to] = {}
    /\ Editable(ensured, e.from) /\ Editable(both, e.to)
    /\ lock' = p
    /\ edit' = e
    /\ draft' = both
    /\ edits' = edits + 1
    /\ UNCHANGED <<clock, writes, plan, visits>>

Chosen(S, otherwise) == IF S = {} THEN otherwise ELSE CHOOSE v \in S : TRUE

EditedRow(row) == [row EXCEPT !.settings = Chosen(edit.settings, @), !.notes = Chosen(edit.notes, @)]

\* What the edit changed in the tracked record: SaveChangesAsync sees it at once.
WithRecord(pl) ==
    [month |-> [pl.month EXCEPT ![edit.from] = EditedRow(@)], items |-> pl.items]

ItemsEdited(pl, m) == (IF m = edit.from THEN pl.items[m] \ edit.removed ELSE pl.items[m])
                          \cup (IF m = edit.to THEN edit.added ELSE {})

WithItems(pl) == [month |-> pl.month, items |-> [m \in Months |-> ItemsEdited(pl, m)]]

EndTransaction == lock' = Nothing /\ edit' = NoEdit(1) /\ draft' = NoPlan /\ edits' = edits

\* SaveChangesAsync with the date of now, and the commit.  Without a change there
\* is nothing to refresh.
Save(p) == /\ lock = p
           /\ plan' = IF WithItems(WithRecord(draft)) = draft THEN draft
                      ELSE Refresh(WithItems(CatchUp(WithRecord(draft))), Current, NoMonth, writes)
           /\ EndTransaction
           /\ UNCHANGED <<clock, writes, visits>>

\* An invalid input or an error: everything is rolled back.
Fail(p) == /\ lock = p
           /\ EndTransaction
           /\ UNCHANGED <<clock, writes, plan, visits>>

-----------------------------------------------------------------------------
Init == /\ time = 2 /\ zone = "west"
        /\ writes = 0
        /\ plan = NoPlan
        /\ asked = [p \in Visitors |-> NoMonth]
        /\ today = [p \in Visitors |-> 1]
        /\ lock = Nothing
        /\ edit = NoEdit(1)
        /\ draft = NoPlan
        /\ edits = 0

BeginNotes(p) == \E m \in Months, text \in Texts : Begin(p, UpdateNotes(m, text))
BeginOpeningBalance(p) == \E m \in Months, value \in Settings : Begin(p, UpdateOpeningBalance(m, value))
BeginItem(p) ==
    \E m \in Months, item \in Items :
        \/ Begin(p, Create(m, item))
        \/ Begin(p, Delete(m, item))
        \/ \E k \in Months, new \in Items : Begin(p, Update(m, item, k, new))

Next == \/ Tick \/ (\E z \in {"west", "east"} : SetZone(z))
        \/ Post \/ Write
        \/ \E p \in Visitors : (\E m \in Months : Ask(p, m)) \/ Visit(p)
        \/ \E p \in Editors :
              \/ BeginNotes(p) \/ BeginOpeningBalance(p) \/ BeginItem(p)
              \/ Save(p) \/ Fail(p)

Spec == Init /\ [][Next]_vars

-----------------------------------------------------------------------------
(* Properties.                                                             *)

TypeOK == /\ time \in 2..MaxTime /\ zone \in {"west", "east"}
          /\ writes \in 0..MaxWrites
          /\ plan \in Plans /\ draft \in Plans
          /\ asked \in [Visitors -> Months \cup {NoMonth}]
          /\ today \in [Visitors -> Months]
          /\ lock \in Editors \cup {Nothing}
          /\ edit \in Edits /\ edits \in 0..MaxEdits

Closed(m) == plan.month[m].state = "closed"

\* Between two plans, outside the months E: the months of the first are in the
\* second with the same items, settings and notes, and the closed ones are the same.
KeepsBut(old, new, E) == \A m \in Months \ E : Present(old, m) =>
    /\ Present(new, m)
    /\ new.items[m] = old.items[m]
    /\ new.month[m].settings = old.month[m].settings
    /\ new.month[m].notes = old.month[m].notes
    /\ old.month[m].state = "closed" => new.month[m] = old.month[m]

\* The transaction of an edit has lost nothing of the committed plan, which nobody
\* else has changed since, and it is about months that are not closed.
DraftKeeps == lock # Nothing =>
    KeepsBut(plan, draft, {}) /\ ~Closed(edit.from) /\ ~Closed(edit.to)

Inv == TypeOK /\ DraftKeeps

\* A closed month never changes and never opens again, neither its record nor its
\* items, whatever the dates and time zones that requests under way have read
\* (PlannerHistory: "Never rebuild it from live data"; PlannerService: "Closed
\* months are read-only").
ClosedIsFrozen == [][\A m \in Months : Closed(m) =>
    plan'.month[m] = plan.month[m] /\ plan'.items[m] = plan.items[m]]_vars

\* A month closes with the figures it was last saved with, in an edit's transaction if an
\* edit closes it; a month that was missed altogether closes without the write that finds it
\* missing (SaveChangesAsync: "Catch up missed boundaries before applying this write").
ClosesAsSaved == [][\A m \in Months : ~Closed(m) /\ plan'.month[m].state = "closed" =>
    /\ plan.month[m].state = "open" => plan'.month[m].figures =
           (IF lock = Nothing THEN plan ELSE draft).month[m].figures
    /\ plan.month[m].state = "absent" => plan'.month[m].figures.writes <= writes]_vars

\* A refresh adds months, and keeps what the user made of a month it finds: its
\* items, settings and notes change only when an edit of that month is saved
\* (RefreshAsync: "An already prepared future month has its own items; never
\* overwrite those edits").
EditsAreKept == [][\A m \in Months : Present(plan, m) =>
    LET old == plan.month[m]  new == plan'.month[m] IN
    \/ plan'.items[m] = plan.items[m] /\ new.settings = old.settings /\ new.notes = old.notes
    \/ lock # Nothing /\ lock' = Nothing /\ m \in {edit.from, edit.to}]_vars

\* The months that have a plan follow each other without a gap, and each shows
\* the figures the month before it really has.
PlansAreChained == \A m \in Months : Present(plan, m) =>
    /\ plan.month[m].previous = IF Present(plan, m - 1) THEN {plan.month[m - 1].figures} ELSE {}
    /\ \A k \in 1..m : Present(plan, k) => \A l \in k..m : Present(plan, l)
=============================================================================
