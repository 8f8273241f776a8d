------------------------- MODULE PlannerMonthsProofs -------------------------
(***************************************************************************)
(* Proofs about the monthly plans, for every number of requests, months,   *)
(* items, settings and notes: the plans are well-typed, a closed month is  *)
(* frozen, a refresh keeps what the user edited, the plans follow each     *)
(* other without a gap, each with the figures of the month before it, and  *)
(* a month closes with the figures it was last saved with.                 *)
(***************************************************************************)
EXTENDS PlannerMonths, WellFoundedInduction, TLAPS

-----------------------------------------------------------------------------
(* The largest month of a set.                                             *)

\* A nonempty set of months has a largest one, and Largest is it.
LEMMA LargestIsMember ==
    ASSUME NEW S, S \subseteq Months, S # {}
    PROVE  Largest(S) \in S /\ \A k \in S : k <= Largest(S)
<1> DEFINE T == {MaxMonth - k : k \in S}
           R == OpToRel(<, Nat)
<1>1. MaxMonth \in Nat /\ \A k \in S : k \in 1..MaxMonth
  BY PlannerAssumption DEF Months
<1>2. T \subseteq Nat /\ T # {}
  BY <1>1
<1>3. PICK x \in T : \A y \in T : ~(<<y, x>> \in R)
  BY <1>2, NatLessThanWellFounded, WFMin
<1>4. \A y \in Nat : y < x => <<y, x>> \in R
  BY <1>2, <1>3 DEF OpToRel
<1>5. PICK m \in S : x = MaxMonth - m
  BY <1>3
<1>6. \A k \in S : k <= m
  <2> SUFFICES ASSUME NEW k \in S, ~(k <= m) PROVE FALSE
    OBVIOUS
  <2>1. MaxMonth - k \in T /\ MaxMonth - k \in Nat /\ MaxMonth - k < x
    BY <1>1, <1>5
  <2> QED
    BY <2>1, <1>3, <1>4
<1> QED
  BY <1>6 DEF Largest

-----------------------------------------------------------------------------
(* Types of what RefreshAsync computes.                                    *)

\* The month of every date is one of the months the plans range over.
LEMMA MonthAtIsMonth ==
    ASSUME NEW t \in 2..MaxTime, NEW z \in {"west", "east"}
    PROVE  MonthAt(t, z) \in Months
<1>1. MaxTime \in Nat /\ MaxMonth \in Nat /\ MaxTime + 1 < 2 * (MaxMonth + 1)
  BY PlannerAssumption
<1> DEFINE half == t + (IF z = "east" THEN 1 ELSE 0)
<1>2. half \in Int /\ 2 <= half /\ half <= MaxTime + 1
  BY <1>1
<1>3. half \div 2 \in 1..MaxMonth
  <2> HIDE DEF half
  <2> QED
    BY <1>1, <1>2
<1> QED
  BY <1>3 DEF MonthAt, Months

\* So is the current month.
LEMMA CurrentIsMonth ==
    ASSUME time \in 2..MaxTime, zone \in {"west", "east"}
    PROVE  Current \in Months
BY MonthAtIsMonth DEF Current

\* There is a first month.
LEMMA FirstMonth == 1 \in Months
<1>1. MaxTime \in Nat /\ 2 <= MaxTime /\ MaxMonth \in Nat /\ MaxTime + 1 < 2 * (MaxMonth + 1)
  BY PlannerAssumption
<1> QED
  BY <1>1 DEF Months

\* The months a refresh adds are months.
LEMMA CreatedAreMonths ==
    ASSUME NEW pl, NEW c \in Months, NEW requested \in Months \cup {NoMonth}
    PROVE  Created(pl, c, requested) \subseteq Months
<1> DEFINE begun == {m \in 1..c : Present(pl, m)}
           first == IF begun = {} THEN c ELSE Largest(begun)
           last == IF requested > c THEN requested ELSE c
<1>1. MaxMonth \in Nat
  BY PlannerAssumption
<1>2. first \in Months
  <2>1. begun \subseteq Months
    BY DEF Present
  <2> QED
    BY <2>1, LargestIsMember
<1>3. last \in Months
  BY DEF Months, NoMonth
<1>4. first..last \subseteq Months
  <2> HIDE DEF first, last
  <2> QED
    BY <1>1, <1>2, <1>3 DEF Months
<1> QED
  BY <1>4 DEF Created

\* What a month takes over is of the right type.
LEMMA SettingsType ==
    ASSUME NEW pl \in Plans, NEW m \in Months
    PROVE  SettingsAfter(pl, m) \in Settings
<1> DEFINE before == Before({k \in Months : Present(pl, k)}, m)
<1>1. \A k \in Months : pl.month[k] \in Rows /\ pl.month[k].settings \in Settings
  BY DEF Plans, Rows
<1>2. before # {} => Largest(before) \in Months
  <2>1. before \subseteq Months
    BY DEF Before
  <2> QED
    BY <2>1, LargestIsMember
<1> QED
  BY <1>1, <1>2, PlannerAssumption DEF SettingsAfter

\* The items of a refreshed month are items.
LEMMA ItemsType ==
    ASSUME NEW pl \in Plans, NEW created, NEW m \in Months
    PROVE  ItemsAfter(pl, created, m) \in SUBSET Items
<1> DEFINE before == Before({k \in Months : Present(pl, k) \/ pl.items[k] # {}}, m)
           present == Before({k \in Months : Present(pl, k)}, m)
<1>1. \A k \in Months : pl.items[k] \in SUBSET Items
  BY DEF Plans
<1>2. present # {} => Largest(before) \in Months
  <2>1. before \subseteq Months /\ present \subseteq before
    BY DEF Before
  <2> QED
    BY <2>1, LargestIsMember
<1> QED
  BY <1>1, <1>2 DEF ItemsAfter

\* The figures of a refreshed month are figures.
LEMMA FiguresType ==
    ASSUME NEW pl \in Plans, NEW c, NEW created, NEW n \in 0..MaxWrites, NEW m \in Months
    PROVE  FiguresAfter(pl, c, created, n, m) \in Figures
<1>1. pl.month[m].figures \in Figures
  BY DEF Plans, Rows
<1> QED
  BY <1>1, SettingsType, ItemsType DEF FiguresAfter, Figures

\* The record of a refreshed month is a record.
LEMMA RowType ==
    ASSUME NEW pl \in Plans, NEW c \in Months, NEW created, created \subseteq Months,
           NEW n \in 0..MaxWrites, NEW m \in Months
    PROVE  RowAfter(pl, c, created, n, m) \in Rows
<1> DEFINE old == pl.month[m]
           closing == [old EXCEPT !.state = "closed"]
           fresh == [state |-> IF m < c THEN "closed" ELSE "open",
                     settings |-> SettingsAfter(pl, m),
                     figures |-> FiguresAfter(pl, c, created, n, m),
                     previous |-> PreviousAfter(pl, c, created, n, m),
                     notes |-> IF Present(pl, m) THEN pl.month[m].notes ELSE Nothing]
<1>1. old \in Rows /\ old.notes \in Texts
  BY DEF Plans, Rows
<1>2. closing \in Rows
  BY <1>1 DEF Rows
<1>3. PreviousAfter(pl, c, created, n, m) \in SUBSET Figures
  <2>1. Present(pl, m - 1) \/ m - 1 \in created => m - 1 \in Months
    BY DEF Present
  <2> QED
    BY <2>1, FiguresType DEF PreviousAfter
<1>4. fresh \in Rows
  BY <1>1, <1>3, SettingsType, FiguresType, PlannerAssumption DEF Rows
<1> QED
  <2> HIDE DEF closing, fresh
  <2>1. RowAfter(pl, c, created, n, m) \in {old, closing, fresh}
    BY DEF RowAfter, closing, fresh
  <2> QED
    BY <2>1, <1>1, <1>2, <1>4

\* A refreshed plan is a plan.
LEMMA RefreshType ==
    ASSUME NEW pl \in Plans, NEW c \in Months, NEW requested \in Months \cup {NoMonth},
           NEW n \in 0..MaxWrites
    PROVE  Refresh(pl, c, requested, n) \in Plans
<1> DEFINE created == Created(pl, c, requested)
           month == [m \in Months |-> RowAfter(pl, c, created, n, m)]
           items == [m \in Months |-> ItemsAfter(pl, created, m)]
<1>1. created \subseteq Months
  BY CreatedAreMonths
<1>2. month \in [Months -> Rows]
  <2> HIDE DEF created
  <2> QED
    BY <1>1, RowType
<1>3. items \in [Months -> SUBSET Items]
  <2> HIDE DEF created
  <2> QED
    BY ItemsType
<1>4. [month |-> month, items |-> items] \in Plans
  <2> HIDE DEF month, items
  <2> QED
    BY <1>2, <1>3 DEF Plans
<1> QED
  BY <1>4 DEF Refresh

-----------------------------------------------------------------------------
(* What is kept from one plan to the next.                                 *)

\* Keeping is transitive, and weaker when more months are left out.
LEMMA KeepsTransitive ==
    ASSUME NEW a, NEW b, NEW c, NEW E, KeepsBut(a, b, E), KeepsBut(b, c, E)
    PROVE  KeepsBut(a, c, E)
<1> SUFFICES ASSUME NEW m \in Months \ E, Present(a, m)
             PROVE  /\ Present(c, m)
                    /\ c.items[m] = a.items[m]
                    /\ c.month[m].settings = a.month[m].settings
                    /\ c.month[m].notes = a.month[m].notes
                    /\ a.month[m].state = "closed" => c.month[m] = a.month[m]
  BY DEF KeepsBut
<1>1. /\ Present(b, m)
      /\ b.items[m] = a.items[m]
      /\ b.month[m].settings = a.month[m].settings
      /\ b.month[m].notes = a.month[m].notes
      /\ a.month[m].state = "closed" => b.month[m] = a.month[m]
  BY DEF KeepsBut
<1>2. /\ Present(c, m)
      /\ c.items[m] = b.items[m]
      /\ c.month[m].settings = b.month[m].settings
      /\ c.month[m].notes = b.month[m].notes
      /\ b.month[m].state = "closed" => c.month[m] = b.month[m]
  BY <1>1 DEF KeepsBut
<1> QED
  BY <1>1, <1>2

\* What is kept everywhere is kept outside any months.
LEMMA KeepsWeaker ==
    ASSUME NEW a, NEW b, NEW E, KeepsBut(a, b, {})
    PROVE  KeepsBut(a, b, E)
BY DEF KeepsBut

\* A refresh keeps every month it finds.
LEMMA RefreshKeeps ==
    ASSUME NEW pl \in Plans, NEW c \in Months, NEW requested \in Months \cup {NoMonth},
           NEW n \in 0..MaxWrites
    PROVE  KeepsBut(pl, Refresh(pl, c, requested, n), {})
<1> DEFINE created == Created(pl, c, requested)
           new == Refresh(pl, c, requested, n)
<1> SUFFICES ASSUME NEW m \in Months, Present(pl, m)
             PROVE  /\ Present(new, m)
                    /\ new.items[m] = pl.items[m]
                    /\ new.month[m].settings = pl.month[m].settings
                    /\ new.month[m].notes = pl.month[m].notes
                    /\ pl.month[m].state = "closed" => new.month[m] = pl.month[m]
  BY DEF KeepsBut
<1>1. new.month[m] = RowAfter(pl, c, created, n, m) /\ new.items[m] = ItemsAfter(pl, created, m)
  BY DEF Refresh
<1>2. new.items[m] = pl.items[m]
  BY <1>1 DEF ItemsAfter, Created
<1>3. CASE pl.month[m].state = "closed"
  <2>1. new.month[m] = pl.month[m]
    BY <1>1, <1>3 DEF RowAfter
  <2> QED
    BY <2>1, <1>2 DEF Present
<1>4. CASE pl.month[m].state # "closed" /\ Kept(pl, c, m)
  <2> DEFINE old == pl.month[m]
             closing == [old EXCEPT !.state = "closed"]
  <2>1. new.month[m] = closing
    BY <1>1, <1>4 DEF RowAfter
  <2>2. old \in Rows
    BY DEF Plans
  <2>3. closing.state = "closed" /\ closing.settings = old.settings /\ closing.notes = old.notes
    BY <2>2 DEF Rows
  <2> QED
    <3> HIDE DEF closing
    <3> QED
      BY <2>1, <2>3, <1>2, <1>4 DEF Present
<1>5. CASE pl.month[m].state # "closed" /\ ~Kept(pl, c, m)
  <2>1. new.month[m].settings = pl.month[m].settings
    BY <1>1, <1>5 DEF RowAfter, SettingsAfter
  <2>2. new.month[m].notes = pl.month[m].notes /\ new.month[m].state \in {"open", "closed"}
    BY <1>1, <1>5 DEF RowAfter
  <2> QED
    BY <2>1, <2>2, <1>2, <1>5 DEF Present
<1> QED
  BY <1>3, <1>4, <1>5

\* Closing the months that were missed keeps every month it finds.
LEMMA CatchUpKeeps ==
    ASSUME TypeOK, NEW pl \in Plans
    PROVE  CatchUp(pl) \in Plans /\ KeepsBut(pl, CatchUp(pl), {})
<1>1. Current \in Months /\ writes \in 0..MaxWrites
  BY CurrentIsMonth DEF TypeOK
<1>2. KeepsBut(pl, pl, {})
  BY DEF KeepsBut
<1> QED
  BY <1>1, <1>2, RefreshType, RefreshKeeps DEF CatchUp

\* The record an edit changes stays well-typed, and so does every other.
LEMMA EditedRowType ==
    ASSUME TypeOK, NEW row \in Rows
    PROVE  EditedRow(row) \in Rows /\ EditedRow(row).state = row.state
<1> DEFINE settings == Chosen(edit.settings, row.settings)
           notes == Chosen(edit.notes, row.notes)
<1>1. edit.settings \subseteq Settings /\ edit.notes \subseteq Texts
  BY DEF TypeOK, Edits
<1>2. row.settings \in Settings /\ row.notes \in Texts
  BY DEF Rows
<1>3. settings \in Settings /\ notes \in Texts
  BY <1>1, <1>2 DEF Chosen
<1>4. EditedRow(row) = [row EXCEPT !.settings = settings, !.notes = notes]
  BY DEF EditedRow
<1> DEFINE edited == [row EXCEPT !.settings = settings, !.notes = notes]
<1>5. edited \in Rows /\ edited.state = row.state
  <2> HIDE DEF settings, notes
  <2> QED
    BY <1>3 DEF Rows
<1> QED
  <2> HIDE DEF edited
  <2> QED
    BY <1>4, <1>5 DEF edited

\* What an edit changes in its month's record.
LEMMA WithRecordKeeps ==
    ASSUME TypeOK, NEW pl \in Plans
    PROVE  /\ WithRecord(pl) \in Plans
           /\ KeepsBut(pl, WithRecord(pl), {edit.from, edit.to})
<1> DEFINE row == EditedRow(pl.month[edit.from])
           month == [pl.month EXCEPT ![edit.from] = row]
<1>1. edit.from \in Months /\ pl.month \in [Months -> Rows] /\ pl.items \in [Months -> SUBSET Items]
  BY DEF TypeOK, Edits, Plans
<1>2. row \in Rows
  BY <1>1, EditedRowType
<1>3. month \in [Months -> Rows] /\ \A m \in Months \ {edit.from} : month[m] = pl.month[m]
  <2> HIDE DEF row
  <2> QED
    BY <1>1, <1>2
<1>4. WithRecord(pl) = [month |-> month, items |-> pl.items]
  BY DEF WithRecord
<1> HIDE DEF month
<1>5. WithRecord(pl) \in Plans
  BY <1>1, <1>3, <1>4 DEF Plans
<1> QED
  BY <1>3, <1>4, <1>5 DEF KeepsBut, Present

\* What an edit changes in the items of its months.
LEMMA WithItemsKeeps ==
    ASSUME TypeOK, NEW pl \in Plans
    PROVE  /\ WithItems(pl) \in Plans
           /\ KeepsBut(pl, WithItems(pl), {edit.from, edit.to})
<1> DEFINE items == [m \in Months |-> ItemsEdited(pl, m)]
<1>1. edit.added \subseteq Items
  BY DEF TypeOK, Edits
<1>2. pl.month \in [Months -> Rows] /\ pl.items \in [Months -> SUBSET Items]
  BY DEF Plans
<1>3. \A m \in Months : ItemsEdited(pl, m) \in SUBSET Items
  BY <1>1, <1>2 DEF ItemsEdited
<1>4. \A m \in Months \ {edit.from, edit.to} : ItemsEdited(pl, m) = pl.items[m]
  BY DEF ItemsEdited
<1>5. WithItems(pl) = [month |-> pl.month, items |-> items]
  BY DEF WithItems
<1>6. items \in [Months -> SUBSET Items] /\ \A m \in Months : items[m] = ItemsEdited(pl, m)
  BY <1>3
<1> HIDE DEF items
<1>7. WithItems(pl) \in Plans
  BY <1>2, <1>5, <1>6 DEF Plans
<1> QED
  BY <1>4, <1>5, <1>6, <1>7 DEF KeepsBut, Present

-----------------------------------------------------------------------------
(* Plans without a gap.                                                    *)

\* The months a refresh adds: what a plan has of first..last is left out, and
\* first is today's month or the last month of the plan that has begun.
FromTo(pl, c, created, first, last) ==
    /\ first \in Months /\ last \in Months /\ first <= c /\ c <= last
    /\ created = {m \in first..last : ~Present(pl, m)}
    /\ first = c \/ Present(pl, first)
    /\ \A k \in Months : Present(pl, k) /\ k <= c => k <= first /\ Present(pl, first)

\* Created is such an interval.
LEMMA CreatedFromTo ==
    ASSUME NEW pl, NEW c \in Months, NEW requested \in Months \cup {NoMonth}
    PROVE  \E first, last \in Months : FromTo(pl, c, Created(pl, c, requested), first, last)
<1> DEFINE begun == {m \in 1..c : Present(pl, m)}
           first == IF begun = {} THEN c ELSE Largest(begun)
           last == IF requested > c THEN requested ELSE c
<1>1. MaxMonth \in Nat /\ Months = 1..MaxMonth
  BY PlannerAssumption DEF Months
<1>2. begun \subseteq Months /\ \A k \in Months : k <= c /\ Present(pl, k) => k \in begun
  BY <1>1 DEF Present
<1>3. begun # {} => Largest(begun) \in begun /\ \A k \in begun : k <= Largest(begun)
  <2> HIDE DEF begun
  <2> QED
    BY <1>2, LargestIsMember
<1>4. first \in Months /\ first <= c /\ (first = c \/ Present(pl, first))
  BY <1>1, <1>3
<1>5. last \in Months /\ c <= last
  BY <1>1 DEF NoMonth
<1>6. \A k \in Months : Present(pl, k) /\ k <= c => k <= first /\ Present(pl, first)
  BY <1>2, <1>3
<1>7. Created(pl, c, requested) = {m \in first..last : ~Present(pl, m)}
  BY DEF Created
<1> HIDE DEF begun, first, last
<1> QED
  BY <1>4, <1>5, <1>6, <1>7 DEF FromTo

\* A refresh without a requested month begins no plan.
Refreshes(pl, requested) == requested # NoMonth \/ \E m \in Months : Present(pl, m)

\* After a refresh, the months that have a plan are those that had one, and the
\* added ones.
LEMMA RefreshPresent ==
    ASSUME NEW pl \in Plans, NEW c \in Months, NEW requested \in Months \cup {NoMonth},
           NEW n \in 0..MaxWrites, Refreshes(pl, requested), NEW m
    PROVE  Present(Refresh(pl, c, requested, n), m)
               <=> Present(pl, m) \/ m \in Created(pl, c, requested)
<1> DEFINE created == Created(pl, c, requested)
           new == Refresh(pl, c, requested, n)
<1>1. created \subseteq Months
  BY CreatedAreMonths
<1>2. CASE m \notin Months
  BY <1>1, <1>2 DEF Present
<1>3. CASE m \in Months
  <2>1. new.month[m] = RowAfter(pl, c, created, n, m)
    BY <1>3 DEF Refresh, Refreshes
  <2>2. pl.month[m] \in Rows
    BY <1>3 DEF Plans
  <2>3. CASE pl.month[m].state = "closed"
    BY <2>1, <2>3, <1>3 DEF RowAfter, Present
  <2>4. CASE ~Present(pl, m) /\ m \notin created
    BY <2>1, <2>4, <1>3 DEF RowAfter, Present
  <2>5. CASE Present(pl, m) /\ pl.month[m].state # "closed"
    BY <1>3, <2>5, RefreshKeeps DEF KeepsBut
  <2>6. CASE ~Present(pl, m) /\ m \in created
    <3>1. pl.month[m].state = "absent"
      BY <2>6, <1>3 DEF Present
    <3>2. new.month[m].state \in {"closed", "open"}
      <4> HIDE DEF new, created
      <4> QED
        BY <2>1, <2>6, <3>1 DEF RowAfter, Kept
    <3> QED
      BY <3>2, <2>6, <1>3 DEF Present
  <2> QED
    BY <2>3, <2>4, <2>5, <2>6
<1> QED
  BY <1>2, <1>3

\* Months without a gap, of any plan.
Contiguous(pl) == \A m \in Months : Present(pl, m) =>
    \A k \in 1..m : Present(pl, k) => \A l \in k..m : Present(pl, l)

\* The months a plan has and those from first to last have no gap, if the plan has
\* none and one of its months is no later than the next month.
LEMMA NoGap ==
    ASSUME NEW pl, NEW c \in Months, NEW created, NEW first \in Months, NEW last \in Months,
           FromTo(pl, c, created, first, last), Contiguous(pl),
           \A m \in Months : Present(pl, m) => \E k \in Months : Present(pl, k) /\ k <= c + 1,
           NEW m \in Months, NEW k \in 1..m, NEW l \in k..m,
           Present(pl, k) \/ k \in created, Present(pl, m) \/ m \in created
    PROVE  Present(pl, l) \/ l \in created
<1>1. MaxMonth \in Nat /\ Months = 1..MaxMonth
  BY PlannerAssumption DEF Months
<1>2. k \in Months /\ l \in Months /\ k <= l /\ l <= m /\ m \in Int /\ l \in Int /\ k \in Int
      /\ first \in Int /\ last \in Int /\ c \in Int
  BY <1>1
<1>3. first <= c /\ c <= last /\ (first = c \/ Present(pl, first))
      /\ \A j \in Months : Present(pl, j) \/ j \in created <=> Present(pl, j) \/ j \in first..last
  BY <1>1 DEF FromTo
<1>4. \A i, j, h \in Months : Present(pl, i) /\ Present(pl, j) /\ i <= h /\ h <= j => Present(pl, h)
  BY <1>1 DEF Contiguous
<1>5. CASE l \in first..last
  BY <1>2, <1>3, <1>5
<1>6. CASE l < first
  <2>1. Present(pl, k)
    BY <1>2, <1>3, <1>6
  <2>2. Present(pl, first)
    BY <2>1, <1>2, <1>3, <1>6 DEF FromTo
  <2> QED
    BY <2>1, <2>2, <1>2, <1>4, <1>6
<1>7. CASE last < l
  <2>1. Present(pl, m)
    BY <1>2, <1>3, <1>7
  <2>2. PICK j \in Months : Present(pl, j) /\ j <= c + 1
    BY <2>1
  <2>3. j <= l
    BY <2>2, <1>1, <1>2, <1>3, <1>7
  <2> QED
    BY <2>1, <2>2, <2>3, <1>2, <1>4
<1> QED
  BY <1>2, <1>5, <1>6, <1>7

\* Each month of a plan shows the figures the month before it has.
Compares(pl) == \A m \in Months : Present(pl, m) =>
    pl.month[m].previous = IF Present(pl, m - 1) THEN {pl.month[m - 1].figures} ELSE {}

\* What PlansAreChained says of the committed plan, of any plan.
Chained(pl) == Compares(pl) /\ Contiguous(pl)

\* Today's month c may be behind what the plan was refreshed with, by one month.
Near(pl, c) ==
    /\ \A m \in Months : Present(pl, m) => \E k \in Months : Present(pl, k) /\ k <= c + 1
    /\ \A m \in Months : pl.month[m].state = "closed" => m <= c /\ Present(pl, m + 1)

\* A refresh leaves no gap.
LEMMA RefreshContiguous ==
    ASSUME NEW pl \in Plans, NEW c \in Months, NEW requested \in Months \cup {NoMonth},
           NEW n \in 0..MaxWrites, Contiguous(pl), Near(pl, c)
    PROVE  Contiguous(Refresh(pl, c, requested, n))
<1> DEFINE created == Created(pl, c, requested)
           new == Refresh(pl, c, requested, n)
<1>1. CASE ~Refreshes(pl, requested)
  <2>1. new = pl
    BY <1>1 DEF Refresh, Refreshes
  <2> QED
    BY <2>1
<1>2. CASE Refreshes(pl, requested)
  <2>1. \A j : Present(new, j) <=> Present(pl, j) \/ j \in created
    BY <1>2, RefreshPresent
  <2>2. PICK first, last \in Months : FromTo(pl, c, created, first, last)
    BY CreatedFromTo
  <2>3. \A m \in Months : Present(pl, m) => \E k \in Months : Present(pl, k) /\ k <= c + 1
    BY DEF Near
  <2> HIDE DEF created, new
  <2>4. ASSUME NEW m \in Months, Present(new, m), NEW k \in 1..m, Present(new, k), NEW l \in k..m
        PROVE  Present(new, l)
    BY <2>1, <2>2, <2>3, <2>4, NoGap
  <2> QED
    BY <2>4 DEF Contiguous, new
<1> QED
  BY <1>1, <1>2

\* After a refresh today's month has a plan, as long as it keeps any.
LEMMA RefreshHasToday ==
    ASSUME NEW pl \in Plans, NEW c \in Months, NEW requested \in Months \cup {NoMonth},
           NEW n \in 0..MaxWrites, Refreshes(pl, requested)
    PROVE  Present(Refresh(pl, c, requested, n), c)
<1>1. PICK first, last \in Months : FromTo(pl, c, Created(pl, c, requested), first, last)
  BY CreatedFromTo
<1>2. MaxMonth \in Nat /\ Months = 1..MaxMonth
  BY PlannerAssumption DEF Months
<1>3. Present(pl, c) \/ c \in Created(pl, c, requested)
  BY <1>1, <1>2 DEF FromTo
<1> QED
  BY <1>3, RefreshPresent

\* A month that closes keeps its figures.
LEMMA RefreshFigures ==
    ASSUME NEW pl \in Plans, NEW c \in Months, NEW requested \in Months \cup {NoMonth},
           NEW n \in 0..MaxWrites, NEW m \in Months
    PROVE  LET new == Refresh(pl, c, requested, n) IN
           /\ new.month[m].state = "closed" => pl.month[m].state = "closed" \/ m < c
           /\ pl.month[m].state = "open" /\ m < c => new.month[m].state = "closed"
           /\ new.month[m].state = "closed" /\ Present(pl, m)
                  => new.month[m].figures = pl.month[m].figures
           /\ \/ new.month[m].figures = pl.month[m].figures
              \/ new.month[m].figures.writes = n
<1> DEFINE created == Created(pl, c, requested)
           new == Refresh(pl, c, requested, n)
           old == pl.month[m]
<1>1. CASE ~Refreshes(pl, requested)
  <2>1. new = pl /\ ~Present(pl, m)
    BY <1>1 DEF Refresh, Refreshes
  <2> QED
    BY <2>1 DEF Present
<1>2. CASE Refreshes(pl, requested)
  <2>1. new.month[m] = RowAfter(pl, c, created, n, m)
    BY <1>2 DEF Refresh, Refreshes
  <2>2. old \in Rows /\ old.state \in {"absent", "open", "closed"}
    BY DEF Plans, Rows
  <2>3. CASE old.state = "closed" \/ (~Present(pl, m) /\ m \notin created)
    <3>1. new.month[m] = old
      BY <2>1, <2>3 DEF RowAfter
    <3> QED
      BY <3>1, <2>3 DEF Present
  <2>4. CASE old.state = "open" /\ m < c
    <3> DEFINE closing == [old EXCEPT !.state = "closed"]
    <3>1. new.month[m] = closing
      BY <2>1, <2>4 DEF RowAfter, Kept, Present
    <3>2. closing.figures = old.figures /\ closing.state = "closed"
      BY <2>2 DEF Rows
    <3> HIDE DEF closing
    <3> QED
      BY <3>1, <3>2, <2>4
  <2>5. CASE /\ old.state # "closed" /\ ~(old.state = "open" /\ m < c)
             /\ Present(pl, m) \/ m \in created
    <3>1. ~Kept(pl, c, m)
      BY <2>5 DEF Kept
    <3>2. /\ new.month[m].state = IF m < c THEN "closed" ELSE "open"
          /\ new.month[m].figures = FiguresAfter(pl, c, created, n, m)
      BY <2>1, <2>5, <3>1 DEF RowAfter
    <3>3. new.month[m].figures.writes = n
      BY <3>1, <3>2 DEF FiguresAfter
    <3> QED
      BY <3>2, <3>3, <2>2, <2>5 DEF Present
  <2> QED
    BY <2>2, <2>3, <2>4, <2>5
<1> QED
  BY <1>1, <1>2

\* A month that has ended is closed.
LEMMA RefreshEnds ==
    ASSUME NEW pl \in Plans, NEW c \in Months, NEW requested \in Months \cup {NoMonth},
           NEW n \in 0..MaxWrites, NEW m \in Months, pl.month[m].state = "open", m < c
    PROVE  Refresh(pl, c, requested, n).month[m].state = "closed"
BY RefreshFigures

\* A month that is found and is closed afterwards has the figures it had.
LEMMA RefreshCloses ==
    ASSUME NEW pl \in Plans, NEW c \in Months, NEW requested \in Months \cup {NoMonth},
           NEW n \in 0..MaxWrites, NEW m \in Months, Present(pl, m),
           Refresh(pl, c, requested, n).month[m].state = "closed"
    PROVE  Refresh(pl, c, requested, n).month[m].figures = pl.month[m].figures
BY RefreshFigures

\* The record of a refreshed month shows the refreshed figures of the month before.
LEMMA RefreshCompares ==
    ASSUME NEW pl \in Plans, NEW c \in Months, NEW requested \in Months \cup {NoMonth},
           NEW n \in 0..MaxWrites, Compares(pl), Near(pl, c)
    PROVE  Compares(Refresh(pl, c, requested, n))
<1> DEFINE created == Created(pl, c, requested)
           new == Refresh(pl, c, requested, n)
<1>1. CASE ~Refreshes(pl, requested)
  <2>1. new = pl
    BY <1>1 DEF Refresh, Refreshes
  <2> QED
    BY <2>1
<1>2. CASE Refreshes(pl, requested)
  <2>1. \A j : Present(new, j) <=> Present(pl, j) \/ j \in created
    BY <1>2, RefreshPresent
  <2>2. \A j \in Months : new.month[j] = RowAfter(pl, c, created, n, j)
    BY <1>2 DEF Refresh, Refreshes
  <2>3. PICK first, last \in Months : FromTo(pl, c, created, first, last)
    BY CreatedFromTo
  <2>4. MaxMonth \in Nat /\ Months = 1..MaxMonth /\ created \subseteq Months
    BY PlannerAssumption, CreatedAreMonths DEF Months
  <2> HIDE DEF created, new
  <2>5. ASSUME NEW m \in Months, Present(new, m)
        PROVE  new.month[m].previous
                   = IF Present(new, m - 1) THEN {new.month[m - 1].figures} ELSE {}
    <3> DEFINE old == pl.month[m]
    <3>1. old \in Rows
      BY DEF Plans
    <3>2. Present(new, m - 1) => m - 1 \in Months
      BY DEF Present
    <3>3. CASE Kept(pl, c, m)
      <4>1. Present(pl, m) /\ m <= c
        BY <3>3, <2>4 DEF Kept, Present, Near
      <4>2. new.month[m].previous = old.previous
        BY <2>2, <3>1, <3>3 DEF RowAfter, Rows
      <4>3. Present(new, m - 1) => Present(pl, m - 1)
        <5>1. m - 1 \notin created
          BY <4>1, <2>3, <2>4 DEF FromTo
        <5> QED
          BY <5>1, <2>1
      <4>4. ASSUME Present(pl, m - 1)
            PROVE  new.month[m - 1].figures = pl.month[m - 1].figures
        <5>1. m - 1 \in Months /\ m - 1 < c /\ pl.month[m - 1] \in Rows
              /\ pl.month[m - 1].state \in {"open", "closed"}
          BY <4>1, <4>4, <2>4 DEF Present, Plans, Rows
        <5>2. KeepsBut(pl, new, {})
          BY RefreshKeeps DEF new
        <5>3. CASE pl.month[m - 1].state = "closed"
          BY <5>1, <5>2, <5>3, <4>4 DEF KeepsBut
        <5>4. CASE pl.month[m - 1].state = "open"
          <6>1. Refresh(pl, c, requested, n).month[m - 1].state = "closed"
            BY <5>1, <5>4, RefreshEnds
          <6>2. Refresh(pl, c, requested, n).month[m - 1].figures = pl.month[m - 1].figures
            BY <5>1, <6>1, <4>4, RefreshCloses
          <6> QED
            BY <6>2 DEF new
        <5> QED
          BY <5>1, <5>3, <5>4
      <4>5. Present(new, m - 1) <=> Present(pl, m - 1)
        BY <4>3, <2>1
      <4>6. old.previous = IF Present(pl, m - 1) THEN {pl.month[m - 1].figures} ELSE {}
        BY <4>1 DEF Compares
      <4>7. CASE Present(pl, m - 1)
        BY <4>2, <4>4, <4>5, <4>6, <4>7
      <4>8. CASE ~Present(pl, m - 1)
        BY <4>2, <4>5, <4>6, <4>8
      <4> QED
        BY <4>7, <4>8
    <3>4. CASE ~Kept(pl, c, m)
      <4>1. Present(pl, m) \/ m \in created
        BY <2>1, <2>5
      <4>2. new.month[m].previous = PreviousAfter(pl, c, created, n, m)
        <5>1. pl.month[m].state # "closed"
          BY <3>4 DEF Kept
        <5>2. new.month[m] = RowAfter(pl, c, created, n, m)
          BY <2>2
        <5>3. new.month[m] = [state |-> IF m < c THEN "closed" ELSE "open",
                              settings |-> SettingsAfter(pl, m),
                              figures |-> FiguresAfter(pl, c, created, n, m),
                              previous |-> PreviousAfter(pl, c, created, n, m),
                              notes |-> IF Present(pl, m) THEN pl.month[m].notes ELSE Nothing]
          BY <5>2, <3>4, <4>1, <5>1 DEF RowAfter
        <5> QED
          BY <5>3
      <4>3. ASSUME Present(new, m - 1)
            PROVE  new.month[m - 1].figures = FiguresAfter(pl, c, created, n, m - 1)
        <5>1. /\ m - 1 \in Months /\ pl.month[m - 1] \in Rows
              /\ new.month[m - 1] = RowAfter(pl, c, created, n, m - 1)
              /\ Present(pl, m - 1) \/ m - 1 \in created
          BY <3>2, <4>3, <2>1, <2>2 DEF Plans
        <5>2. CASE pl.month[m - 1].state = "closed"
          BY <5>1, <5>2 DEF RowAfter, FiguresAfter, Kept
        <5>3. CASE pl.month[m - 1].state # "closed" /\ Kept(pl, c, m - 1)
          BY <5>1, <5>3 DEF RowAfter, FiguresAfter, Rows
        <5>4. CASE ~Kept(pl, c, m - 1)
          BY <5>1, <5>4 DEF RowAfter, Kept
        <5> QED
          BY <5>2, <5>3, <5>4
      <4> QED
        BY <4>2, <4>3, <2>1 DEF PreviousAfter
    <3> QED
      BY <3>3, <3>4
  <2> QED
    BY <2>5 DEF Compares, new
<1> QED
  BY <1>1, <1>2

\* A plan begins with a month that was today's: R are the months today's date may be.
Begins(pl, R) == \A m \in Months : Present(pl, m) => \E k \in R : Present(pl, k)

\* The month after a closed one was today's, and has a plan.
Followed(pl, R) == \A m \in Months : pl.month[m].state = "closed" =>
    m + 1 \in R /\ Present(pl, m + 1)

\* No figures are from a write after the n-th.
Past(pl, n) == \A m \in Months : pl.month[m].figures.writes <= n

\* What a plan keeps from one refresh to the next.
Sound(pl, R, n) == Chained(pl) /\ Begins(pl, R) /\ Followed(pl, R) /\ Past(pl, n)

\* A refresh with a date that is at most one month behind keeps it.
LEMMA RefreshSound ==
    ASSUME NEW pl \in Plans, NEW R, R \subseteq Months, \A x \in R : 1..x \subseteq R,
           NEW c \in R, \A x \in R : x <= c + 1,
           NEW requested \in Months \cup {NoMonth}, NEW n \in 0..MaxWrites, Sound(pl, R, n)
    PROVE  Sound(Refresh(pl, c, requested, n), R, n)
<1> DEFINE new == Refresh(pl, c, requested, n)
<1>1. MaxMonth \in Nat /\ Months = 1..MaxMonth /\ c \in Months /\ MaxWrites \in Nat
  BY PlannerAssumption DEF Months
<1>2. new \in Plans
  BY <1>1, RefreshType
<1>3. Near(pl, c)
  <2>1. ASSUME NEW m \in Months, pl.month[m].state = "closed"
        PROVE  m <= c /\ Present(pl, m + 1)
    <3>1. m + 1 \in R /\ Present(pl, m + 1)
      BY <2>1 DEF Sound, Followed
    <3>2. m + 1 <= c + 1
      BY <3>1
    <3> QED
      BY <3>1, <3>2, <1>1
  <2>2. ASSUME NEW m \in Months, Present(pl, m)
        PROVE  \E k \in Months : Present(pl, k) /\ k <= c + 1
    BY <2>2 DEF Sound, Begins
  <2> QED
    BY <2>1, <2>2 DEF Near
<1>4. Chained(new)
  BY <1>1, <1>3, RefreshCompares, RefreshContiguous DEF Sound, Chained
<1>5. Past(new, n)
  <2> SUFFICES ASSUME NEW m \in Months PROVE new.month[m].figures.writes <= n
    BY DEF Past
  <2>1. new.month[m].figures = pl.month[m].figures \/ new.month[m].figures.writes = n
    BY <1>1, RefreshFigures
  <2> QED
    BY <2>1 DEF Sound, Past
<1>6. CASE ~Refreshes(pl, requested)
  <2>1. new = pl
    BY <1>6 DEF Refresh, Refreshes
  <2> QED
    BY <2>1
<1>7. CASE Refreshes(pl, requested)
  <2>1. Present(new, c)
    BY <1>1, <1>7, RefreshHasToday
  <2>2. KeepsBut(pl, new, {})
    BY <1>1, RefreshKeeps
  <2>3. \A m \in Months : new.month[m].state = "closed" => pl.month[m].state = "closed" \/ m < c
    BY <1>1, RefreshFigures
  <2> HIDE DEF new
  <2>4. Begins(new, R)
    BY <2>1 DEF Begins
  <2>5. ASSUME NEW m \in Months, new.month[m].state = "closed"
        PROVE  m + 1 \in R /\ Present(new, m + 1)
    <3>1. CASE pl.month[m].state = "closed"
      <4>1. m + 1 \in R /\ Present(pl, m + 1) /\ m + 1 \in Months
        BY <3>1 DEF Sound, Followed
      <4> QED
        BY <4>1, <2>2 DEF KeepsBut
    <3>2. CASE m < c
      <4>1. Present(new, m)
        BY <2>5 DEF Present
      <4>2. m + 1 \in m..c /\ m \in 1..c
        BY <3>2, <1>1
      <4>3. Present(new, m + 1)
        BY <4>1, <4>2, <2>1, <1>1, <1>4 DEF Chained, Contiguous
      <4>4. m + 1 \in R
        BY <4>2, <1>1
      <4> QED
        BY <4>3, <4>4
    <3> QED
      BY <2>3, <2>5, <3>1, <3>2
  <2> QED
    BY <1>4, <1>5, <2>4, <2>5 DEF Sound, Followed, new
<1> QED
  BY <1>6, <1>7

\* More months may have been today's, and more writes have happened.
LEMMA SoundWeaker ==
    ASSUME NEW pl \in Plans, NEW R, NEW S, R \subseteq S, NEW n \in Nat, NEW k \in Nat, n <= k,
           Sound(pl, R, n)
    PROVE  Sound(pl, S, k)
<1>1. \A m \in Months : pl.month[m].figures.writes \in 0..MaxWrites /\ MaxWrites \in Nat
  BY PlannerAssumption DEF Plans, Rows, Figures
<1>2. Past(pl, k)
  BY <1>1 DEF Sound, Past
<1>3. Begins(pl, S) /\ Followed(pl, S)
  BY DEF Sound, Begins, Followed
<1> QED
  BY <1>2, <1>3 DEF Sound

\* An edit of the items, settings or notes disturbs none of it.
LEMMA SoundAlike ==
    ASSUME NEW pl, NEW new, NEW R, NEW n, Sound(pl, R, n),
           \A m \in Months : /\ new.month[m].state = pl.month[m].state
                             /\ new.month[m].figures = pl.month[m].figures
                             /\ new.month[m].previous = pl.month[m].previous
    PROVE  Sound(new, R, n)
<1>1. \A m : Present(new, m) <=> Present(pl, m)
  BY DEF Present
<1>2. \A m : Present(pl, m) => m \in Months
  BY DEF Present
<1>3. Compares(new)
  BY <1>1, <1>2 DEF Sound, Chained, Compares
<1>4. Contiguous(new)
  BY <1>1 DEF Sound, Chained, Contiguous
<1>5. Begins(new, R) /\ Followed(new, R)
  BY <1>1 DEF Sound, Begins, Followed
<1>6. Past(new, n)
  BY DEF Sound, Past
<1> QED
  BY <1>3, <1>4, <1>5, <1>6 DEF Sound, Chained

\* The empty plan has it.
LEMMA NoPlanSound ==
    ASSUME NEW R, NEW n \in Nat
    PROVE  Sound(NoPlan, R, n)
<1>1. \A m \in Months : NoPlan.month[m] = NoRow
  BY DEF NoPlan
<1>2. NoRow.state = "absent" /\ NoRow.figures.writes = 0
  BY DEF NoRow, NoFigures
<1>3. \A m : ~Present(NoPlan, m)
  BY <1>1, <1>2 DEF Present
<1>4. \A m \in Months : NoPlan.month[m].state # "closed" /\ NoPlan.month[m].figures.writes <= n
  BY <1>1, <1>2
<1> QED
  BY <1>3, <1>4 DEF Sound, Chained, Compares, Contiguous, Begins, Followed, Past

-----------------------------------------------------------------------------
(* The actions.                                                            *)

\* Every edit a request can begin is an edit.
LEMMA EditTypes ==
    ASSUME NEW m \in Months
    PROVE  /\ NoEdit(m) \in Edits
           /\ \A text \in Texts : UpdateNotes(m, text) \in Edits
           /\ \A value \in Settings : UpdateOpeningBalance(m, value) \in Edits
           /\ \A item \in Items : Create(m, item) \in Edits /\ Delete(m, item) \in Edits
           /\ \A k \in Months, old, new \in Items : Update(m, old, k, new) \in Edits
<1>1. NoEdit(m) \in Edits
  BY DEF NoEdit, Edits
<1>2. \A text \in Texts : UpdateNotes(m, text) \in Edits
  BY <1>1 DEF UpdateNotes, Edits
<1>3. \A value \in Settings : UpdateOpeningBalance(m, value) \in Edits
  BY <1>1 DEF UpdateOpeningBalance, Edits
<1>4. \A item \in Items : Create(m, item) \in Edits /\ Delete(m, item) \in Edits
  BY <1>1 DEF Create, Delete, Edits
<1>5. ASSUME NEW k \in Months, NEW old \in Items, NEW new \in Items
      PROVE  Update(m, old, k, new) \in Edits
  <2> DEFINE moved == [NoEdit(m) EXCEPT !.to = k, !.removed = {old}, !.added = {new}]
  <2>1. moved \in Edits
    BY <1>1 DEF Edits
  <2> QED
    <3> HIDE DEF moved
    <3>1. Update(m, old, k, new) = moved
      BY DEF Update, moved
    <3> QED
      BY <3>1, <2>1
<1> QED
  BY <1>1, <1>2, <1>3, <1>4, <1>5

\* The empty plan.
LEMMA NoPlanType == NoPlan \in Plans
<1>1. 0 \in 0..MaxWrites /\ Nothing \in Settings /\ Nothing \in Texts
  BY PlannerAssumption
<1>2. NoFigures \in Figures
  BY <1>1 DEF NoFigures, Figures
<1>3. NoRow \in Rows
  BY <1>1, <1>2 DEF NoRow, Rows
<1> QED
  BY <1>3 DEF NoPlan, Plans

\* What an edit takes into its transaction.
LEMMA BeginKeeps ==
    ASSUME TypeOK, NEW p \in Editors, NEW e \in Edits, Begin(p, e)
    PROVE  /\ draft' \in Plans
           /\ KeepsBut(plan, draft', {})
           /\ ~Closed(e.from) /\ ~Closed(e.to)
<1> DEFINE ensured == Refresh(plan, Current, e.from, writes)
           both == Refresh(ensured, Current, e.to, writes)
<1>1. /\ Current \in Months /\ writes \in 0..MaxWrites /\ plan \in Plans
      /\ e.from \in Months /\ e.to \in Months
  BY CurrentIsMonth DEF TypeOK, Edits
<1>2. ensured \in Plans /\ KeepsBut(plan, ensured, {})
  BY <1>1, RefreshType, RefreshKeeps
<1>3. both \in Plans /\ KeepsBut(ensured, both, {})
  <2> HIDE DEF ensured
  <2> QED
    BY <1>1, <1>2, RefreshType, RefreshKeeps
<1>4. draft' = both /\ Editable(ensured, e.from) /\ Editable(both, e.to)
  BY DEF Begin
<1> HIDE DEF ensured, both
<1>5. KeepsBut(plan, both, {})
  BY <1>2, <1>3, KeepsTransitive
<1>6. \A m \in Months : Closed(m) => Present(plan, m)
  BY DEF Closed, Present
<1>7. ~Closed(e.from)
  BY <1>1, <1>2, <1>4, <1>6 DEF KeepsBut, Editable, Closed
<1>8. ~Closed(e.to)
  BY <1>1, <1>4, <1>5, <1>6 DEF KeepsBut, Editable, Closed
<1> QED
  BY <1>3, <1>4, <1>5, <1>7, <1>8

\* What the save of an edit commits.
LEMMA SaveKeeps ==
    ASSUME TypeOK, NEW p \in Editors, Save(p)
    PROVE  plan' \in Plans /\ KeepsBut(draft, plan', {edit.from, edit.to})
<1> DEFINE E == {edit.from, edit.to}
           recorded == WithRecord(draft)
           caught == CatchUp(recorded)
           changed == WithItems(caught)
           saved == Refresh(changed, Current, NoMonth, writes)
<1>1. Current \in Months /\ writes \in 0..MaxWrites /\ draft \in Plans
  BY CurrentIsMonth DEF TypeOK
<1>2. recorded \in Plans /\ KeepsBut(draft, recorded, E)
  BY <1>1, WithRecordKeeps
<1>3. caught \in Plans /\ KeepsBut(recorded, caught, E)
  <2> HIDE DEF recorded
  <2> QED
    BY <1>2, CatchUpKeeps, KeepsWeaker
<1>4. changed \in Plans /\ KeepsBut(caught, changed, E)
  <2> HIDE DEF caught
  <2> QED
    BY <1>3, WithItemsKeeps
<1>5. saved \in Plans /\ KeepsBut(changed, saved, E)
  <2> HIDE DEF changed
  <2> QED
    BY <1>1, <1>4, RefreshType, RefreshKeeps, KeepsWeaker
<1>6. KeepsBut(draft, draft, E)
  BY DEF KeepsBut
<1>7. plan' \in {draft, saved}
  BY DEF Save
<1> HIDE DEF E, recorded, caught, changed, saved
<1>8. KeepsBut(draft, caught, E)
  BY <1>2, <1>3, KeepsTransitive
<1>9. KeepsBut(draft, changed, E)
  BY <1>8, <1>4, KeepsTransitive
<1>10. KeepsBut(draft, saved, E)
  BY <1>9, <1>5, KeepsTransitive
<1> QED
  BY <1>1, <1>5, <1>6, <1>7, <1>10 DEF E

\* What a step commits: every month a plan had is kept, except the open ones that
\* a saved edit is about.
PlanStep ==
    \/ KeepsBut(plan, plan', {})
    \/ /\ lock # Nothing /\ lock' = Nothing
       /\ ~Closed(edit.from) /\ ~Closed(edit.to)
       /\ KeepsBut(plan, plan', {edit.from, edit.to})

-----------------------------------------------------------------------------
(* The inductive invariant.                                                *)

\* The invariant holds initially.
LEMMA InitInv == Init => Inv
<1> SUFFICES ASSUME Init PROVE Inv
  OBVIOUS
<1>1. /\ MaxMonth \in Nat /\ MaxTime \in Nat /\ 2 <= MaxTime
      /\ MaxTime + 1 < 2 * (MaxMonth + 1) /\ MaxWrites \in Nat /\ MaxEdits \in Nat
  BY PlannerAssumption
<1>2. 1 \in Months
  BY FirstMonth
<1>3. NoPlan \in Plans /\ NoEdit(1) \in Edits
  BY <1>2, NoPlanType, EditTypes
<1>4. TypeOK
  BY <1>1, <1>2, <1>3 DEF Init, TypeOK
<1>5. DraftKeeps
  BY DEF Init, DraftKeeps
<1> QED
  BY <1>4, <1>5 DEF Inv

\* Actions that leave the plan and the transaction alone.
LEMMA ClockAndVisitsInv ==
    ASSUME Inv,
           \/ Tick
           \/ \E z \in {"west", "east"} : SetZone(z)
           \/ Post
           \/ \E p \in Visitors, m \in Months : Ask(p, m)
    PROVE  Inv' /\ PlanStep
<1>1. plan' = plan /\ lock' = lock /\ edit' = edit /\ draft' = draft /\ edits' = edits
  BY DEF Tick, SetZone, Post, Ask, transaction
<1>2. KeepsBut(plan, plan', {})
  BY <1>1 DEF KeepsBut
<1>3. DraftKeeps'
  BY <1>1 DEF Inv, DraftKeeps, KeepsBut, Closed, Present
<1>4. MaxTime \in Nat /\ MaxWrites \in Nat
  BY PlannerAssumption
<1>5. Current \in Months
  BY CurrentIsMonth DEF Inv, TypeOK
<1>6. TypeOK'
  <2>1. CASE Tick
    BY <2>1, <1>1, <1>4 DEF Inv, TypeOK, Tick, visits
  <2>2. CASE \E z \in {"west", "east"} : SetZone(z)
    BY <2>2, <1>1 DEF Inv, TypeOK, SetZone, visits
  <2>3. CASE Post
    BY <2>3, <1>1, <1>4 DEF Inv, TypeOK, Post, clock, visits
  <2>4. CASE \E p \in Visitors, m \in Months : Ask(p, m)
    BY <2>4, <1>1, <1>5 DEF Inv, TypeOK, Ask, clock
  <2> QED
    BY <2>1, <2>2, <2>3, <2>4
<1> QED
  BY <1>2, <1>3, <1>6 DEF Inv, PlanStep

\* A finance write commits a refreshed plan.
LEMMA WriteInv ==
    ASSUME Inv, Write
    PROVE  Inv' /\ PlanStep
<1>1. TypeOK /\ MaxWrites \in Nat
  BY PlannerAssumption DEF Inv
<1>2. Current \in Months /\ plan \in Plans /\ writes + 1 \in 0..MaxWrites
  BY <1>1, CurrentIsMonth DEF TypeOK, Write
<1>3. CatchUp(plan) \in Plans /\ KeepsBut(plan, CatchUp(plan), {})
  BY <1>1, <1>2, CatchUpKeeps
<1>4. plan' \in Plans /\ KeepsBut(CatchUp(plan), plan', {})
  BY <1>2, <1>3, RefreshType, RefreshKeeps DEF Write
<1>5. KeepsBut(plan, plan', {})
  BY <1>3, <1>4, KeepsTransitive
<1>6. lock = Nothing /\ lock' = lock
  BY DEF Write, transaction
<1>7. TypeOK'
  BY <1>1, <1>2, <1>4 DEF TypeOK, Write, clock, visits, transaction
<1> QED
  BY <1>5, <1>6, <1>7 DEF Inv, PlanStep, DraftKeeps

\* A visit commits a refreshed plan, with the date it read before the lock.
LEMMA VisitInv ==
    ASSUME Inv, NEW p \in Visitors, Visit(p)
    PROVE  Inv' /\ PlanStep
<1>1. TypeOK /\ 1 \in Months
  BY FirstMonth DEF Inv
<1>2. /\ plan \in Plans /\ writes \in 0..MaxWrites
      /\ today[p] \in Months /\ asked[p] \in Months \cup {NoMonth}
  BY <1>1 DEF TypeOK
<1>3. plan' \in Plans /\ KeepsBut(plan, plan', {})
  BY <1>2, RefreshType, RefreshKeeps DEF Visit
<1>4. lock = Nothing /\ lock' = lock
  BY DEF Visit, transaction
<1>5. TypeOK'
  BY <1>1, <1>3 DEF TypeOK, Visit, clock, transaction
<1> QED
  BY <1>3, <1>4, <1>5 DEF Inv, PlanStep, DraftKeeps

\* An edit begins with a transaction that has lost nothing.
LEMMA BeginInv ==
    ASSUME Inv, NEW p \in Editors, NEW e \in Edits, Begin(p, e)
    PROVE  Inv' /\ PlanStep
<1>1. TypeOK /\ MaxEdits \in Nat
  BY PlannerAssumption DEF Inv
<1>2. draft' \in Plans /\ KeepsBut(plan, draft', {}) /\ ~Closed(e.from) /\ ~Closed(e.to)
  BY <1>1, BeginKeeps
<1>3. plan' = plan /\ lock' = p /\ edit' = e /\ edits < MaxEdits /\ edits' = edits + 1
  BY DEF Begin
<1>4. TypeOK'
  BY <1>1, <1>2, <1>3 DEF TypeOK, Begin, clock, visits
<1>5. DraftKeeps'
  BY <1>2, <1>3 DEF DraftKeeps, KeepsBut, Closed, Present
<1>6. KeepsBut(plan, plan', {})
  BY <1>3 DEF KeepsBut
<1> QED
  BY <1>4, <1>5, <1>6 DEF Inv, PlanStep

\* A saved edit changes nothing but open months it is about.
LEMMA SaveInv ==
    ASSUME Inv, NEW p \in Editors, Save(p)
    PROVE  Inv' /\ PlanStep
<1>1. TypeOK /\ lock = p /\ lock # Nothing
  BY PlannerAssumption DEF Inv, Save
<1>2. KeepsBut(plan, draft, {edit.from, edit.to}) /\ ~Closed(edit.from) /\ ~Closed(edit.to)
  BY <1>1, KeepsWeaker DEF Inv, DraftKeeps
<1>3. plan' \in Plans /\ KeepsBut(draft, plan', {edit.from, edit.to})
  BY <1>1, SaveKeeps
<1>4. KeepsBut(plan, plan', {edit.from, edit.to})
  BY <1>2, <1>3, KeepsTransitive
<1>5. lock' = Nothing /\ edit' = NoEdit(1) /\ draft' = NoPlan /\ edits' = edits
  BY DEF Save, EndTransaction
<1>6. NoPlan \in Plans /\ NoEdit(1) \in Edits
  BY FirstMonth, NoPlanType, EditTypes
<1>7. TypeOK'
  BY <1>1, <1>3, <1>5, <1>6 DEF TypeOK, Save, clock, visits
<1> QED
  BY <1>1, <1>2, <1>4, <1>5, <1>7 DEF Inv, PlanStep, DraftKeeps

\* An edit that fails changes nothing.
LEMMA FailInv ==
    ASSUME Inv, NEW p \in Editors, Fail(p)
    PROVE  Inv' /\ PlanStep
<1>1. TypeOK
  BY DEF Inv
<1>2. lock' = Nothing /\ edit' = NoEdit(1) /\ draft' = NoPlan /\ edits' = edits /\ plan' = plan
  BY DEF Fail, EndTransaction
<1>3. NoPlan \in Plans /\ NoEdit(1) \in Edits
  BY FirstMonth, NoPlanType, EditTypes
<1>4. TypeOK'
  BY <1>1, <1>2, <1>3 DEF TypeOK, Fail, clock, visits
<1>5. KeepsBut(plan, plan', {})
  BY <1>2 DEF KeepsBut
<1> QED
  BY <1>2, <1>4, <1>5 DEF Inv, PlanStep, DraftKeeps

\* Every step keeps the invariant, and what the plans have.
LEMMA StepInv ==
    ASSUME Inv, [Next]_vars
    PROVE  Inv' /\ PlanStep
<1>1. CASE UNCHANGED vars
  <2>1. /\ time' = time /\ zone' = zone /\ writes' = writes /\ plan' = plan /\ asked' = asked
        /\ today' = today /\ lock' = lock /\ edit' = edit /\ draft' = draft /\ edits' = edits
    BY <1>1 DEF vars
  <2>2. TypeOK'
    BY <2>1 DEF Inv, TypeOK
  <2>3. DraftKeeps'
    BY <2>1 DEF Inv, DraftKeeps, KeepsBut, Closed, Present
  <2> QED
    BY <2>1, <2>2, <2>3 DEF Inv, PlanStep, KeepsBut
<1>2. CASE Tick \/ (\E z \in {"west", "east"} : SetZone(z)) \/ Post
  BY <1>2, ClockAndVisitsInv
<1>3. CASE Write
  BY <1>3, WriteInv
<1>4. CASE \E p \in Visitors : (\E m \in Months : Ask(p, m)) \/ Visit(p)
  BY <1>4, ClockAndVisitsInv, VisitInv
<1>5. ASSUME NEW p \in Editors, BeginNotes(p) \/ BeginOpeningBalance(p) \/ BeginItem(p)
      PROVE  Inv' /\ PlanStep
  <2>1. PICK e \in Edits : Begin(p, e)
    <3>1. CASE BeginNotes(p)
      BY <3>1, EditTypes DEF BeginNotes
    <3>2. CASE BeginOpeningBalance(p)
      BY <3>2, EditTypes DEF BeginOpeningBalance
    <3>3. CASE BeginItem(p)
      BY <3>3, EditTypes DEF BeginItem
    <3> QED
      BY <1>5, <3>1, <3>2, <3>3
  <2> QED
    BY <2>1, BeginInv
<1>6. ASSUME NEW p \in Editors, Save(p) \/ Fail(p)
      PROVE  Inv' /\ PlanStep
  BY <1>6, SaveInv, FailInv
<1> QED
  BY <1>1, <1>2, <1>3, <1>4, <1>5, <1>6 DEF Next

-----------------------------------------------------------------------------
(* The dates of requests, and the plans they refresh.                      *)

\* The months that may have been today's for every request under way: no later than
\* it is in the east, nor than the month after the one a request has read.
Reach == {m \in Months : /\ m <= MonthAt(time, "east")
                         /\ \A p \in Visitors : asked[p] # NoMonth => m <= today[p] + 1}

\* The dates that requests have read are at most a month apart.
Dates == Current \in Reach /\ \A p \in Visitors : today[p] \in Reach

\* The invariant PlansAreChained and ClosesAsSaved rest on.
Chain == Dates /\ Sound(plan, Reach, writes) /\ Sound(draft, Reach, writes)

\* Today's month is at most a month behind.
LEMMA ReachIsNear ==
    ASSUME TypeOK
    PROVE  /\ Reach \subseteq Months
           /\ \A x \in Reach : x <= Current + 1
           /\ \A x \in Reach : 1..x \subseteq Reach
           /\ \A p \in Visitors : asked[p] # NoMonth => \A x \in Reach : x <= today[p] + 1
<1>1. /\ MaxTime \in Nat /\ MaxMonth \in Nat /\ time \in Nat /\ zone \in {"west", "east"}
      /\ Months = 1..MaxMonth
      /\ today \in [Visitors -> Months]
  BY PlannerAssumption DEF TypeOK, Months
<1>2. /\ MonthAt(time, "east") \in Int /\ Current \in Int
      /\ MonthAt(time, "east") <= Current + 1
  BY <1>1 DEF MonthAt, Current
<1>3. \A x \in Reach : x \in Int /\ x <= MonthAt(time, "east")
  BY <1>1 DEF Reach
<1>4. \A x \in Reach : x <= Current + 1
  BY <1>2, <1>3
<1>5. ASSUME NEW x \in Reach, NEW y \in 1..x
      PROVE  y \in Reach
  <2>1. x \in Months /\ x <= MonthAt(time, "east")
        /\ \A p \in Visitors : asked[p] # NoMonth => x <= today[p] + 1
    BY DEF Reach
  <2>2. y \in Months /\ y <= MonthAt(time, "east")
    BY <1>1, <1>2, <2>1
  <2>3. \A p \in Visitors : asked[p] # NoMonth => y <= today[p] + 1
    BY <1>1, <2>1
  <2> QED
    BY <2>2, <2>3 DEF Reach
<1> QED
  BY <1>4, <1>5 DEF Reach

\* While a request waits with the date it has read, that date stays in reach.
LEMMA ReachGrows ==
    ASSUME Inv, Dates, [Next]_vars
    PROVE  Dates' /\ Reach \subseteq Reach'
<1>1. /\ MaxTime \in Nat /\ MaxMonth \in Nat /\ time \in Nat /\ zone \in {"west", "east"}
      /\ Months = 1..MaxMonth /\ MaxTime + 1 < 2 * (MaxMonth + 1)
      /\ today \in [Visitors -> Months] /\ asked \in [Visitors -> Months \cup {NoMonth}]
      /\ TypeOK /\ time <= MaxTime
  BY PlannerAssumption DEF Inv, TypeOK, Months
<1>2. Current \in Months /\ (TypeOK' => Current' \in Months)
  <2>1. Current \in Months
    BY <1>1, CurrentIsMonth DEF TypeOK
  <2>2. ASSUME TypeOK' PROVE Current' \in Months
    <3>1. time' \in 2..MaxTime /\ zone' \in {"west", "east"}
      BY <2>2 DEF TypeOK
    <3>2. MonthAt(time', zone') \in Months
      BY <3>1, MonthAtIsMonth
    <3> QED
      BY <3>2 DEF Current
  <2> QED
    BY <2>1, <2>2
<1>3. Inv' /\ TypeOK'
  <2>1. Inv'
    BY StepInv
  <2> QED
    BY <2>1 DEF Inv
<1>4. CASE Tick
  <2>1. time' = time + 1 /\ zone' = zone /\ asked' = asked /\ today' = today
        /\ InTime(MonthAt(time + 1, zone))
    BY <1>4 DEF Tick, visits
  <2>2. MonthAt(time, "east") <= MonthAt(time', "east")
        /\ MonthAt(time, "east") \in Int /\ MonthAt(time', "east") \in Int
        /\ Current' = MonthAt(time + 1, zone) /\ Current' <= MonthAt(time', "east")
    BY <1>1, <2>1 DEF MonthAt, Current
  <2>3. Reach \subseteq Reach'
    BY <1>1, <2>1, <2>2 DEF Reach
  <2>4. Current' \in Reach'
    BY <1>2, <1>3, <2>1, <2>2 DEF Reach, InTime
  <2> QED
    BY <2>1, <2>3, <2>4 DEF Dates
<1>5. CASE \E z \in {"west", "east"} : SetZone(z)
  <2>1. time' = time /\ zone' \in {"west", "east"} /\ asked' = asked /\ today' = today
        /\ InTime(MonthAt(time, zone'))
    BY <1>5 DEF SetZone, visits
  <2>2. Current' = MonthAt(time, zone') /\ Current' <= MonthAt(time, "east")
    BY <1>1, <2>1 DEF MonthAt, Current
  <2>3. Reach' = Reach
    BY <2>1 DEF Reach
  <2>4. Current' \in Reach'
    BY <1>2, <1>3, <2>1, <2>2 DEF Reach, InTime
  <2> QED
    BY <2>1, <2>3, <2>4 DEF Dates
<1>6. ASSUME NEW p \in Visitors, NEW m \in Months, Ask(p, m)
      PROVE  Dates' /\ Reach \subseteq Reach'
  <2>1. time' = time /\ zone' = zone /\ asked' = [asked EXCEPT ![p] = m]
        /\ today' = [today EXCEPT ![p] = Current] /\ asked[p] = NoMonth
    BY <1>6 DEF Ask, clock
  <2>2. today'[p] = Current /\ \A q \in Visitors \ {p} : today'[q] = today[q] /\ asked'[q] = asked[q]
    BY <1>1, <2>1
  <2>3. \A x \in Reach : x <= Current + 1
    BY <1>1, ReachIsNear
  <2>4. Reach \subseteq Reach'
    BY <2>1, <2>2, <2>3 DEF Reach
  <2>5. Current' = Current
    BY <2>1 DEF Current
  <2> QED
    BY <2>2, <2>4, <2>5 DEF Dates
<1>7. ASSUME NEW p \in Visitors, Visit(p)
      PROVE  Dates' /\ Reach \subseteq Reach'
  <2>1. time' = time /\ zone' = zone /\ asked' = [asked EXCEPT ![p] = NoMonth]
        /\ today' = [today EXCEPT ![p] = 1]
    BY <1>7 DEF Visit, clock
  <2>2. /\ today'[p] = 1 /\ asked'[p] = NoMonth
        /\ \A q \in Visitors \ {p} : today'[q] = today[q] /\ asked'[q] = asked[q]
    BY <1>1, <2>1
  <2>3. Reach \subseteq Reach'
    BY <2>1, <2>2 DEF Reach
  <2>4. 1 \in Reach
    <3>1. Current \in Reach /\ 1 \in 1..Current
      BY <1>1, <1>2 DEF Dates
    <3> QED
      BY <3>1, <1>1, ReachIsNear
  <2>5. Current' = Current
    BY <2>1 DEF Current
  <2> QED
    BY <2>2, <2>3, <2>4, <2>5 DEF Dates
<1>8. ASSUME time' = time /\ zone' = zone /\ asked' = asked /\ today' = today
      PROVE  Dates' /\ Reach \subseteq Reach'
  BY <1>8 DEF Dates, Reach, Current
<1>9. CASE Post \/ Write
  BY <1>8, <1>9 DEF Post, Write, clock, visits
<1>10. ASSUME NEW p \in Editors,
              BeginNotes(p) \/ BeginOpeningBalance(p) \/ BeginItem(p) \/ Save(p) \/ Fail(p)
       PROVE  time' = time /\ zone' = zone /\ asked' = asked /\ today' = today
  <2>1. ASSUME NEW e, Begin(p, e)
        PROVE  time' = time /\ zone' = zone /\ asked' = asked /\ today' = today
    BY <2>1 DEF Begin, clock, visits
  <2>2. CASE Save(p) \/ Fail(p)
    BY <2>2 DEF Save, Fail, clock, visits
  <2>3. CASE BeginNotes(p) \/ BeginOpeningBalance(p) \/ BeginItem(p)
    BY <2>1, <2>3 DEF BeginNotes, BeginOpeningBalance, BeginItem
  <2> QED
    BY <1>10, <2>2, <2>3
<1>11. CASE UNCHANGED vars
  BY <1>8, <1>11 DEF vars
<1> QED
  BY <1>4, <1>5, <1>6, <1>7, <1>8, <1>9, <1>10, <1>11 DEF Next

\* Closing the months that were missed keeps the plan sound.
LEMMA CatchUpSound ==
    ASSUME TypeOK, Dates, NEW pl \in Plans, Sound(pl, Reach, writes)
    PROVE  CatchUp(pl) \in Plans /\ Sound(CatchUp(pl), Reach, writes)
<1>1. Current \in Reach /\ writes \in 0..MaxWrites /\ NoMonth \in Months \cup {NoMonth}
  BY DEF Dates, TypeOK
<1>2. Reach \subseteq Months /\ (\A x \in Reach : x <= Current + 1) /\ (\A x \in Reach : 1..x \subseteq Reach)
  BY ReachIsNear
<1>3. Sound(Refresh(pl, Current, NoMonth, writes), Reach, writes)
  <2> PICK R, c : R = Reach /\ c = Current
    OBVIOUS
  <2> QED
    BY <1>1, <1>2, RefreshSound
<1> QED
  BY <1>3, CatchUpKeeps DEF CatchUp

\* What an edit changes keeps the plan sound.
LEMMA EditSound ==
    ASSUME TypeOK, NEW pl \in Plans, NEW R, NEW n, Sound(pl, R, n)
    PROVE  /\ WithRecord(pl) \in Plans /\ Sound(WithRecord(pl), R, n)
           /\ WithItems(pl) \in Plans /\ Sound(WithItems(pl), R, n)
           /\ \A m \in Months : /\ WithRecord(pl).month[m].figures = pl.month[m].figures
                                /\ WithRecord(pl).month[m].state = pl.month[m].state
<1>1. WithItems(pl).month = pl.month
  BY DEF WithItems
<1>2. Sound(WithItems(pl), R, n)
  <2> PICK new : new = WithItems(pl)
    OBVIOUS
  <2> QED
    BY <1>1, SoundAlike
<1>3. ASSUME NEW m \in Months
      PROVE  /\ WithRecord(pl).month[m].state = pl.month[m].state
             /\ WithRecord(pl).month[m].figures = pl.month[m].figures
             /\ WithRecord(pl).month[m].previous = pl.month[m].previous
  <2>1. pl.month \in [Months -> Rows] /\ pl.month[m] \in Rows
    BY DEF Plans
  <2>2. WithRecord(pl).month[m] = IF m = edit.from THEN EditedRow(pl.month[m]) ELSE pl.month[m]
    BY <2>1 DEF WithRecord
  <2>3. /\ EditedRow(pl.month[m]).state = pl.month[m].state
        /\ EditedRow(pl.month[m]).figures = pl.month[m].figures
        /\ EditedRow(pl.month[m]).previous = pl.month[m].previous
    BY <2>1 DEF EditedRow, Rows
  <2> QED
    BY <2>2, <2>3
<1>4. Sound(WithRecord(pl), R, n)
  <2> PICK new : new = WithRecord(pl)
    OBVIOUS
  <2> QED
    BY <1>3, SoundAlike
<1> QED
  BY <1>2, <1>3, <1>4, WithRecordKeeps, WithItemsKeeps

\* Each step keeps the plan and the transaction sound, for the dates and the
\* writes before it.
LEMMA StepSound ==
    ASSUME Inv, Chain, [Next]_vars
    PROVE  /\ Sound(plan', Reach, writes')
           /\ Sound(draft', Reach, writes')
           /\ writes \in Nat /\ writes' \in Nat /\ writes <= writes'
<1>1. /\ TypeOK /\ Dates /\ MaxWrites \in Nat /\ writes \in Nat /\ writes \in 0..MaxWrites
      /\ plan \in Plans /\ draft \in Plans
      /\ Sound(plan, Reach, writes) /\ Sound(draft, Reach, writes)
  BY PlannerAssumption DEF Inv, TypeOK, Chain
<1>2. /\ Reach \subseteq Months /\ (\A x \in Reach : x <= Current + 1) /\ Current \in Reach
      /\ \A x \in Reach : 1..x \subseteq Reach
      /\ \A p \in Visitors : asked[p] # NoMonth => \A x \in Reach : x <= today[p] + 1
      /\ \A p \in Visitors : today[p] \in Reach
  BY <1>1, ReachIsNear DEF Dates
<1>3. ASSUME NEW pl \in Plans, NEW n \in 0..MaxWrites, Sound(pl, Reach, n),
             NEW requested \in Months \cup {NoMonth}
      PROVE  /\ Refresh(pl, Current, requested, n) \in Plans
             /\ Sound(Refresh(pl, Current, requested, n), Reach, n)
  <2> PICK R, c : R = Reach /\ c = Current
    OBVIOUS
  <2>1. Sound(Refresh(pl, c, requested, n), R, n)
    BY <1>2, <1>3, RefreshSound
  <2> QED
    BY <2>1, <1>2, RefreshType
<1>4. ASSUME plan' = plan, draft' = draft, writes' \in Nat, writes <= writes'
      PROVE  Sound(plan', Reach, writes') /\ Sound(draft', Reach, writes')
  <2> PICK R, n, k : R = Reach /\ n = writes /\ k = writes'
    OBVIOUS
  <2> QED
    BY <1>1, <1>4, SoundWeaker
<1>5. CASE Tick \/ (\E z \in {"west", "east"} : SetZone(z)) \/ Post \/ UNCHANGED vars
           \/ \E p \in Visitors, m \in Months : Ask(p, m)
  <2>1. plan' = plan /\ draft' = draft /\ (writes' = writes \/ writes' = writes + 1)
    BY <1>5 DEF Tick, SetZone, Post, Ask, vars, clock, visits, transaction
  <2>2. writes' \in Nat /\ writes <= writes'
    BY <1>1, <2>1
  <2> QED
    BY <1>1, <1>4, <2>1, <2>2
<1>6. CASE Write
  <2>1. writes + 1 \in 0..MaxWrites /\ writes' = writes + 1 /\ draft' = draft
        /\ plan' = Refresh(CatchUp(plan), Current, NoMonth, writes + 1)
    BY <1>1, <1>6 DEF Write, transaction
  <2>2. CatchUp(plan) \in Plans /\ Sound(CatchUp(plan), Reach, writes)
    BY <1>1, CatchUpSound
  <2>3. Sound(CatchUp(plan), Reach, writes + 1) /\ Sound(draft, Reach, writes + 1)
    <3> PICK R, n, k, pl : R = Reach /\ n = writes /\ k = writes + 1 /\ pl = CatchUp(plan)
      OBVIOUS
    <3> QED
      BY <1>1, <2>2, SoundWeaker
  <2>4. Sound(plan', Reach, writes + 1)
    <3> PICK n, pl : n = writes + 1 /\ pl = CatchUp(plan)
      OBVIOUS
    <3> QED
      BY <1>3, <2>1, <2>2, <2>3
  <2> QED
    BY <1>1, <2>1, <2>3, <2>4
<1>7. ASSUME NEW p \in Visitors, Visit(p)
      PROVE  Sound(plan', Reach, writes') /\ Sound(draft', Reach, writes') /\ writes' = writes
  <2>1. /\ plan' = Refresh(plan, today[p], asked[p], writes) /\ asked[p] # NoMonth
        /\ draft' = draft /\ writes' = writes /\ asked[p] \in Months \cup {NoMonth}
    BY <1>1, <1>7 DEF Visit, transaction, TypeOK
  <2>2. Sound(plan', Reach, writes)
    <3> PICK R, c, n, pl, requested : R = Reach /\ c = today[p] /\ n = writes /\ pl = plan
                                         /\ requested = asked[p]
      OBVIOUS
    <3> QED
      BY <1>1, <1>2, <2>1, RefreshSound
  <2> QED
    BY <1>1, <2>1, <2>2
<1>8. ASSUME NEW p \in Editors, NEW e \in Edits, Begin(p, e)
      PROVE  Sound(plan', Reach, writes') /\ Sound(draft', Reach, writes') /\ writes' = writes
  <2> DEFINE ensured == Refresh(plan, Current, e.from, writes)
             both == Refresh(ensured, Current, e.to, writes)
  <2>1. plan' = plan /\ writes' = writes /\ draft' = both
    BY <1>8 DEF Begin
  <2>2. e.from \in Months /\ e.to \in Months
    BY DEF Edits
  <2>3. ensured \in Plans /\ Sound(ensured, Reach, writes)
    BY <1>1, <1>3, <2>2
  <2>4. Sound(both, Reach, writes)
    <3> HIDE DEF ensured
    <3> QED
      BY <1>1, <1>3, <2>2, <2>3
  <2> QED
    BY <1>1, <2>1, <2>4
<1>9. ASSUME NEW p \in Editors, Save(p) \/ Fail(p)
      PROVE  Sound(plan', Reach, writes') /\ Sound(draft', Reach, writes') /\ writes' = writes
  <2> DEFINE recorded == WithRecord(draft)
             caught == CatchUp(recorded)
             changed == WithItems(caught)
             saved == Refresh(changed, Current, NoMonth, writes)
  <2>1. writes' = writes /\ draft' = NoPlan /\ plan' \in {plan, draft, saved}
    BY <1>9 DEF Save, Fail, EndTransaction
  <2>2. recorded \in Plans /\ Sound(recorded, Reach, writes)
    BY <1>1, EditSound
  <2>3. caught \in Plans /\ Sound(caught, Reach, writes)
    <3> HIDE DEF recorded
    <3> QED
      BY <1>1, <2>2, CatchUpSound
  <2>4. changed \in Plans /\ Sound(changed, Reach, writes)
    <3> HIDE DEF caught
    <3> QED
      BY <1>1, <2>3, EditSound
  <2>5. Sound(saved, Reach, writes)
    <3> HIDE DEF changed
    <3> QED
      BY <1>1, <1>3, <2>4
  <2>6. Sound(NoPlan, Reach, writes)
    BY <1>1, NoPlanSound
  <2> HIDE DEF saved
  <2> QED
    BY <1>1, <2>1, <2>5, <2>6
<1>10. ASSUME NEW p \in Editors, BeginNotes(p) \/ BeginOpeningBalance(p) \/ BeginItem(p)
       PROVE  \E e \in Edits : Begin(p, e)
  BY <1>10, EditTypes DEF BeginNotes, BeginOpeningBalance, BeginItem
<1> QED
  BY <1>1, <1>5, <1>6, <1>7, <1>8, <1>9, <1>10 DEF Next

\* The plans stay sound.
LEMMA StepChain ==
    ASSUME Inv, Chain, [Next]_vars
    PROVE  Chain'
<1>1. Inv' /\ Dates' /\ Reach \subseteq Reach'
  BY StepInv, ReachGrows DEF Chain
<1>2. plan' \in Plans /\ draft' \in Plans
  BY <1>1 DEF Inv, TypeOK
<1>3. Sound(plan', Reach, writes') /\ Sound(draft', Reach, writes') /\ writes' \in Nat
  BY StepSound
<1>4. Sound(plan', Reach', writes') /\ Sound(draft', Reach', writes')
  <2> PICK R, S, n, a, b : R = Reach /\ S = Reach' /\ n = writes' /\ a = plan' /\ b = draft'
    OBVIOUS
  <2> QED
    BY <1>1, <1>2, <1>3, SoundWeaker
<1> QED
  BY <1>1, <1>4 DEF Chain

\* The first month of a history is the only one in reach.
LEMMA InitChain == Init => Chain
<1> SUFFICES ASSUME Init PROVE Chain
  OBVIOUS
<1>1. time = 2 /\ zone = "west" /\ writes = 0 /\ plan = NoPlan /\ draft = NoPlan
      /\ asked = [p \in Visitors |-> NoMonth] /\ today = [p \in Visitors |-> 1]
  BY DEF Init
<1>2. 1 \in Months /\ MonthAt(time, "east") = 1 /\ Current = 1
  BY <1>1, FirstMonth DEF MonthAt, Current
<1>3. 1 \in Reach
  BY <1>1, <1>2 DEF Reach
<1>4. Dates
  BY <1>1, <1>2, <1>3 DEF Dates
<1> QED
  BY <1>1, <1>4, NoPlanSound DEF Chain

-----------------------------------------------------------------------------
(* The figures a month closes with.                                        *)

\* A month that the catch-up finds, and that has ended or is closed, keeps its figures.
LEMMA CatchUpFigures ==
    ASSUME TypeOK, NEW pl \in Plans, NEW m \in Months, Present(pl, m),
           CatchUp(pl).month[m].state = "closed" \/ m < Current
    PROVE  Present(CatchUp(pl), m) /\ CatchUp(pl).month[m].figures = pl.month[m].figures
<1>1. Current \in Months /\ writes \in 0..MaxWrites /\ NoMonth \in Months \cup {NoMonth}
  BY CurrentIsMonth DEF TypeOK
<1>2. pl.month[m].state \in {"open", "closed"}
  BY DEF Present, Plans, Rows
<1> DEFINE new == Refresh(pl, Current, NoMonth, writes)
<1>3. /\ pl.month[m].state = "open" /\ m < Current => new.month[m].state = "closed"
      /\ new.month[m].state = "closed" /\ Present(pl, m)
             => new.month[m].figures = pl.month[m].figures
  <2> PICK c : c = Current
    OBVIOUS
  <2> QED
    BY <1>1, RefreshFigures
<1>4. KeepsBut(pl, new, {})
  BY <1>1, RefreshKeeps
<1> HIDE DEF new
<1>5. Present(new, m) /\ (pl.month[m].state = "closed" => new.month[m] = pl.month[m])
  BY <1>4 DEF KeepsBut
<1>6. CatchUp(pl) \in {new, pl}
  BY DEF CatchUp, new
<1> QED
  BY <1>2, <1>3, <1>5, <1>6

\* What a refresh closes, of a plan the catch-up has been through.
LEMMA RefreshedFigures ==
    ASSUME TypeOK, NEW pl \in Plans, NEW changed \in Plans, changed.month = CatchUp(pl).month,
           NEW n \in 0..MaxWrites, NEW m \in Months, Present(pl, m),
           Refresh(changed, Current, NoMonth, n).month[m].state = "closed"
    PROVE  Refresh(changed, Current, NoMonth, n).month[m].figures = pl.month[m].figures
<1>1. Current \in Months /\ NoMonth \in Months \cup {NoMonth}
  BY CurrentIsMonth DEF TypeOK
<1> DEFINE new == Refresh(changed, Current, NoMonth, n)
<1>2. /\ new.month[m].state = "closed" => changed.month[m].state = "closed" \/ m < Current
      /\ new.month[m].state = "closed" /\ Present(changed, m)
             => new.month[m].figures = changed.month[m].figures
  <2> PICK c : c = Current
    OBVIOUS
  <2> QED
    BY <1>1, RefreshFigures
<1>3. Present(CatchUp(pl), m) /\ CatchUp(pl).month[m].figures = pl.month[m].figures
  BY <1>2, CatchUpFigures
<1> QED
  BY <1>2, <1>3 DEF Present

\* How months close in a step.
Closes == \A m \in Months : ~Closed(m) /\ plan'.month[m].state = "closed" =>
    /\ plan.month[m].state = "open" => plan'.month[m].figures =
           (IF lock = Nothing THEN plan ELSE draft).month[m].figures
    /\ plan.month[m].state = "absent" => plan'.month[m].figures.writes <= writes

\* A month that a finance write finds missing is closed without that write.
LEMMA WriteCloses ==
    ASSUME Inv, Chain, Write
    PROVE  Closes
<1>1. /\ TypeOK /\ Dates /\ MaxWrites \in Nat /\ writes \in 0..MaxWrites /\ writes + 1 \in 0..MaxWrites
      /\ plan \in Plans /\ Sound(plan, Reach, writes)
      /\ Current \in Months /\ NoMonth \in Months \cup {NoMonth}
  BY PlannerAssumption, CurrentIsMonth DEF Inv, TypeOK, Chain, Write
<1> DEFINE caught == CatchUp(plan)
           new == Refresh(caught, Current, NoMonth, writes + 1)
<1>2. plan' = new
  BY DEF Write
<1>3. caught \in Plans /\ Sound(caught, Reach, writes)
  BY <1>1, CatchUpSound
<1>4. /\ Reach \subseteq Months /\ MaxMonth \in Nat /\ Months = 1..MaxMonth
  BY PlannerAssumption DEF Reach, Months
<1> SUFFICES ASSUME NEW m \in Months, ~Closed(m), new.month[m].state = "closed"
             PROVE  /\ plan.month[m].state = "open" => new.month[m].figures = plan.month[m].figures
                    /\ plan.month[m].state = "absent" => new.month[m].figures.writes <= writes
  BY <1>2 DEF Closes, Write
<1>5. ASSUME plan.month[m].state = "open"
      PROVE  new.month[m].figures = plan.month[m].figures
  <2>1. Present(plan, m)
    BY <1>5 DEF Present
  <2> HIDE DEF caught
  <2>2. caught.month = CatchUp(plan).month
    BY DEF caught
  <2> QED
    BY <1>1, <1>3, <2>1, <2>2, RefreshedFigures
<1>6. ASSUME plan.month[m].state = "absent", ~Present(caught, m)
      PROVE  FALSE
  <2>1. caught.month[m].state # "closed"
    BY <1>6 DEF Present
  <2>2. m < Current
    <3> HIDE DEF caught
    <3> PICK c : c = Current
      OBVIOUS
    <3>1. new.month[m].state = "closed" => caught.month[m].state = "closed" \/ m < c
      BY <1>1, <1>3, RefreshFigures
    <3> QED
      BY <3>1, <2>1
  <2>3. Refreshes(caught, NoMonth)
    <3>1. ASSUME ~Refreshes(caught, NoMonth) PROVE new = caught
      <4> HIDE DEF caught
      <4> QED
        BY <3>1 DEF Refresh, Refreshes
    <3> QED
      BY <3>1, <2>1
  <2>4. m \in Created(caught, Current, NoMonth)
    <3> HIDE DEF caught
    <3>1. Present(new, m)
      BY DEF Present
    <3> PICK c, n : c = Current /\ n = writes + 1
      OBVIOUS
    <3>2. Present(Refresh(caught, c, NoMonth, n), m)
              <=> Present(caught, m) \/ m \in Created(caught, c, NoMonth)
      BY <1>1, <1>3, <2>3, RefreshPresent
    <3> QED
      BY <3>1, <3>2, <1>6
  <2>5. PICK first, last \in Months :
            FromTo(caught, Current, Created(caught, Current, NoMonth), first, last)
    <3> HIDE DEF caught
    <3> PICK c : c = Current
      OBVIOUS
    <3> QED
      BY <1>1, CreatedFromTo
  <2>6. first <= m /\ Present(caught, first) /\ first < Current
        /\ \A k \in Months : Present(caught, k) /\ k <= Current => k <= first
    <3> HIDE DEF caught
    <3> QED
      BY <2>2, <2>4, <2>5, <1>1, <1>4 DEF FromTo
  <2>7. CASE \E j \in Months : j < Current /\ plan.month[j].state = "open"
    <3>1. caught = Refresh(plan, Current, NoMonth, writes)
      BY <2>7 DEF CatchUp
    <3>2. Refreshes(plan, NoMonth)
      BY <2>7 DEF Refreshes, Present
    <3>3. Present(caught, Current)
      <4> PICK c : c = Current
        OBVIOUS
      <4> QED
        BY <1>1, <3>1, <3>2, RefreshHasToday
    <3> QED
      BY <3>3, <2>6, <1>1, <1>4
  <2>8. CASE ~\E j \in Months : j < Current /\ plan.month[j].state = "open"
    <3>1. caught = plan
      BY <2>8 DEF CatchUp
    <3>2. plan.month[first].state = "closed"
      BY <3>1, <2>6, <2>8, <1>1 DEF Present, Plans, Rows
    <3>3. first + 1 \in Reach /\ Present(plan, first + 1)
      BY <3>2, <1>1 DEF Sound, Followed
    <3>4. first + 1 \in Months /\ first + 1 <= Current
      BY <3>3, <2>6, <1>1, <1>4
    <3>5. first + 1 <= first
      BY <3>1, <3>3, <3>4, <2>6
    <3> QED
      BY <3>5, <1>4
  <2> QED
    BY <2>7, <2>8
<1>7. ASSUME plan.month[m].state = "absent", Present(caught, m)
      PROVE  new.month[m].figures.writes <= writes
  <2> HIDE DEF caught
  <2>1. new.month[m].figures = caught.month[m].figures
    BY <1>1, <1>3, <1>7, RefreshCloses
  <2> QED
    BY <2>1, <1>3 DEF Sound, Past
<1> QED
  BY <1>5, <1>6, <1>7

\* Every step closes months so.
LEMMA StepCloses ==
    ASSUME Inv, Chain, [Next]_vars
    PROVE  Closes
<1>1. /\ TypeOK /\ Dates /\ MaxWrites \in Nat /\ writes \in 0..MaxWrites
      /\ plan \in Plans /\ draft \in Plans
      /\ Current \in Months /\ NoMonth \in Months \cup {NoMonth}
  BY PlannerAssumption, CurrentIsMonth DEF Inv, TypeOK, Chain
<1>2. Sound(plan', Reach, writes')
  BY StepSound
<1>3. CASE plan' = plan
  BY <1>3 DEF Closes, Closed
<1>4. CASE UNCHANGED vars \/ Tick \/ (\E z \in {"west", "east"} : SetZone(z)) \/ Post
           \/ \E p \in Visitors, m \in Months : Ask(p, m)
  BY <1>3, <1>4 DEF vars, Tick, SetZone, Post, Ask
<1>5. CASE Write
  BY <1>5, WriteCloses
<1>6. ASSUME NEW p \in Visitors, Visit(p)
      PROVE  Closes
  <2>1. /\ plan' = Refresh(plan, today[p], asked[p], writes) /\ writes' = writes
        /\ today[p] \in Months /\ asked[p] \in Months \cup {NoMonth} /\ lock = Nothing
    BY <1>1, <1>6 DEF Visit, TypeOK
  <2>2. Past(plan', writes)
    BY <1>2, <2>1 DEF Sound
  <2>3. ASSUME NEW m \in Months, plan.month[m].state = "open", plan'.month[m].state = "closed"
        PROVE  plan'.month[m].figures = plan.month[m].figures
    <3> PICK c, requested, n, pl : c = today[p] /\ requested = asked[p] /\ n = writes /\ pl = plan
      OBVIOUS
    <3>1. Refresh(pl, c, requested, n).month[m].state = "closed" /\ Present(pl, m)
      BY <2>1, <2>3 DEF Present
    <3>2. Refresh(pl, c, requested, n).month[m].figures = pl.month[m].figures
      BY <1>1, <2>1, <3>1, RefreshCloses
    <3> QED
      BY <2>1, <3>2
  <2> QED
    BY <2>1, <2>2, <2>3 DEF Closes, Past
<1>7. ASSUME NEW p \in Editors, NEW e, Begin(p, e)
      PROVE  Closes
  BY <1>3, <1>7 DEF Begin
<1>8. ASSUME NEW p \in Editors, BeginNotes(p) \/ BeginOpeningBalance(p) \/ BeginItem(p)
      PROVE  Closes
  BY <1>7, <1>8 DEF BeginNotes, BeginOpeningBalance, BeginItem
<1>9. ASSUME NEW p \in Editors, Fail(p)
      PROVE  Closes
  BY <1>3, <1>9 DEF Fail
<1>10. ASSUME NEW p \in Editors, Save(p)
       PROVE  Closes
  <2> DEFINE recorded == WithRecord(draft)
             changed == WithItems(CatchUp(recorded))
             saved == Refresh(changed, Current, NoMonth, writes)
  <2>1. plan' \in {draft, saved} /\ writes' = writes /\ lock = p /\ lock # Nothing
    BY <1>10, PlannerAssumption DEF Save
  <2>2. Past(plan', writes)
    BY <1>2, <2>1 DEF Sound
  <2>3. /\ recorded \in Plans
        /\ \A m \in Months : /\ recorded.month[m].figures = draft.month[m].figures
                             /\ recorded.month[m].state = draft.month[m].state
    <3>1. PICK R, n : R = Reach /\ n = writes
      OBVIOUS
    <3>2. Sound(draft, R, n)
      BY <3>1 DEF Chain
    <3> QED
      BY <1>1, <3>2, EditSound
  <2>4. changed \in Plans /\ changed.month = CatchUp(recorded).month
    <3> HIDE DEF recorded
    <3> QED
      BY <1>1, <2>3, CatchUpKeeps, WithItemsKeeps DEF WithItems
  <2>5. ASSUME NEW m \in Months, plan.month[m].state = "open", plan'.month[m].state = "closed"
        PROVE  plan'.month[m].figures = draft.month[m].figures
    <3>1. Present(plan, m)
      BY <2>5 DEF Present
    <3>2. Present(draft, m)
      BY <2>1, <3>1 DEF Inv, DraftKeeps, KeepsBut
    <3>3. Present(recorded, m)
      BY <2>3, <3>2 DEF Present
    <3>4. ASSUME saved.month[m].state = "closed"
          PROVE  saved.month[m].figures = draft.month[m].figures
      <4> HIDE DEF recorded, changed
      <4> QED
        BY <1>1, <2>3, <2>4, <3>3, <3>4, RefreshedFigures
    <3> HIDE DEF saved
    <3> QED
      BY <2>1, <2>5, <3>4
  <2> HIDE DEF saved
  <2> QED
    BY <2>1, <2>2, <2>5 DEF Closes, Past
<1> QED
  BY <1>3, <1>4, <1>5, <1>6, <1>8, <1>9, <1>10 DEF Next

-----------------------------------------------------------------------------
(* The theorems.                                                           *)

\* The inductive invariant of the plans: they are well-typed, and an edit under
\* way has lost nothing of the committed plan and is about open months.
THEOREM Invariance == Spec => []Inv
<1>1. Inv /\ [Next]_vars => Inv'
  BY StepInv
<1> QED
  BY InitInv, <1>1, PTL DEF Spec

\* A closed month never changes, whatever dates the requests have read.
THEOREM ClosedStaysFrozen == Spec => ClosedIsFrozen
<1>1. ASSUME Inv, [Next]_vars
      PROVE  [\A m \in Months : Closed(m) =>
                 plan'.month[m] = plan.month[m] /\ plan'.items[m] = plan.items[m]]_vars
  <2>1. PlanStep
    BY <1>1, StepInv
  <2>2. \A m \in Months : Closed(m) => Present(plan, m)
    BY DEF Closed, Present
  <2>3. \A m \in Months : Closed(m) =>
           plan'.month[m] = plan.month[m] /\ plan'.items[m] = plan.items[m]
    BY <2>1, <2>2 DEF PlanStep, KeepsBut, Closed
  <2> QED
    BY <2>3
<1> QED
  BY Invariance, <1>1, PTL DEF Spec, ClosedIsFrozen

\* A refresh keeps the items, settings and notes of every month it finds.
THEOREM RefreshKeepsEdits == Spec => EditsAreKept
<1>1. ASSUME Inv, [Next]_vars
      PROVE  [\A m \in Months : Present(plan, m) =>
                 LET old == plan.month[m]  new == plan'.month[m] IN
                 \/ plan'.items[m] = plan.items[m] /\ new.settings = old.settings /\ new.notes = old.notes
                 \/ lock # Nothing /\ lock' = Nothing /\ m \in {edit.from, edit.to}]_vars
  <2>1. PlanStep
    BY <1>1, StepInv
  <2> QED
    BY <2>1 DEF PlanStep, KeepsBut
<1> QED
  BY Invariance, <1>1, PTL DEF Spec, EditsAreKept

\* The months that have a plan follow each other without a gap, and each shows the
\* figures the month before it has, whatever dates and time zones the requests that
\* refresh them have read.
THEOREM NoMonthIsMissing == Spec => []PlansAreChained
<1>1. Inv /\ Chain /\ [Next]_vars => Chain'
  BY StepChain
<1>2. Chain => PlansAreChained
  BY DEF Chain, Sound, Chained, Compares, Contiguous, PlansAreChained
<1> QED
  BY Invariance, InitChain, <1>1, <1>2, PTL DEF Spec

\* A month closes with the figures it was last saved with, and a missed month without
\* the write that finds it missing.
THEOREM MonthsCloseAsSaved == Spec => ClosesAsSaved
<1>1. Inv /\ Chain /\ [Next]_vars => Chain'
  BY StepChain
<1>2. ASSUME Inv, Chain, [Next]_vars
      PROVE  [\A m \in Months : ~Closed(m) /\ plan'.month[m].state = "closed" =>
                 /\ plan.month[m].state = "open" => plan'.month[m].figures =
                        (IF lock = Nothing THEN plan ELSE draft).month[m].figures
                 /\ plan.month[m].state = "absent" => plan'.month[m].figures.writes <= writes]_vars
  BY <1>2, StepCloses DEF Closes
<1> QED
  BY Invariance, InitChain, <1>1, <1>2, PTL DEF Spec, ClosesAsSaved

=============================================================================
