--------------------------- MODULE DebtLedgerProofs ---------------------------
(***************************************************************************)
(* Proofs about debts.                                                     *)
(*                                                                         *)
(* UpdateAsync, DeleteOperationAsync, CloseAsync and ReopenAsync take no   *)
(* lock, and a debt that a worker pass tracks does not show what they and  *)
(* UpdateOperationAsync change: the theorems are about executions in which *)
(* the first four run alone, and none of the five between two payments of  *)
(* one pass.  All other requests and any number of passes may overlap.     *)
(* Under this bound every request computes from what is there, and what a  *)
(* pass sees of a debt is exact as long as the debt is active.             *)
(***************************************************************************)
EXTENDS DebtLedger, FiniteSetTheorems, WellFoundedInduction, TLAPS

-----------------------------------------------------------------------------
(* Sums over finite sets.  Induction over a finite set is the choice of a  *)
(* smallest subset for which a fact fails.                                 *)

\* The element with which the folds of the community modules begin.
Pick(s) == CHOOSE x \in s : TRUE

\* The function that a fold of f over T recurs to.
Solves(g, f, T) ==
    g = [s \in SUBSET T |-> IF s = {} THEN 0 ELSE f[Pick(s)] + g[s \ {Pick(s)}]]

\* The sum of f over T.
Total(f, T) == SumFunctionOnSet(f, T)

\* What is picked from a set is in it.
LEMMA PickIn == \A s : s # {} => Pick(s) \in s
BY DEF Pick

\* Induction over finite sets: a set of subsets has a smallest one.
LEMMA Smallest ==
    ASSUME NEW S, IsFiniteSet(S), NEW Bad \in SUBSET (SUBSET S), Bad # {}
    PROVE  \E T \in Bad : \A U \in Bad : U \subseteq T => U = T
<1>1. IsWellFoundedOn(StrictSubsetOrdering(S), FiniteSubsetsOf(S))
  BY FS_StrictSubsetOrderingWellFounded
<1>2. Bad \subseteq FiniteSubsetsOf(S)
  BY FS_Subset DEF FiniteSubsetsOf
<1>3. PICK T \in Bad : \A U \in Bad : ~(<<U, T>> \in StrictSubsetOrdering(S))
  BY <1>1, <1>2, WFMin, Zenon
<1> QED BY <1>3 DEF StrictSubsetOrdering

\* A solution at a subset.
LEMMA SolutionAt ==
    ASSUME NEW f, NEW T, NEW g, Solves(g, f, T), NEW s \in SUBSET T
    PROVE  /\ s = {} => g[s] = 0
           /\ s # {} => g[s] = f[Pick(s)] + g[s \ {Pick(s)}]
BY DEF Solves

\* Two solutions agree.
LEMMA Agree ==
    ASSUME NEW f, NEW S, IsFiniteSet(S), NEW T \in SUBSET S, NEW U \in SUBSET S,
           NEW g, NEW h, Solves(g, f, T), Solves(h, f, U)
    PROVE  \A s \in SUBSET (T \cap U) : g[s] = h[s]
<1> DEFINE Bad == {s \in SUBSET (T \cap U) : g[s] # h[s]}
<1> SUFFICES ASSUME Bad # {} PROVE FALSE
  OBVIOUS
<1>1. PICK s \in Bad : \A u \in Bad : u \subseteq s => u = s
  <2>1. Bad \in SUBSET (SUBSET S)
    OBVIOUS
  <2> HIDE DEF Bad
  <2> QED BY <2>1, Smallest
<1>2. s # {}
  <2>1. g[{}] = 0 /\ h[{}] = 0
    BY DEF Solves
  <2> QED BY <1>1, <2>1
<1> DEFINE r == s \ {Pick(s)}
<1>3. Pick(s) \in s
  BY <1>2, PickIn
<1>4. r \subseteq s /\ r # s
  BY <1>3
<1>5. g[r] = h[r]
  BY <1>1, <1>4
<1>6. g[s] = f[Pick(s)] + g[r] /\ h[s] = f[Pick(s)] + h[r]
  BY <1>1, <1>2, SolutionAt
<1> QED BY <1>1, <1>5, <1>6

\* There is a solution.
LEMMA Solvable ==
    ASSUME NEW f, NEW S, IsFiniteSet(S)
    PROVE  \A T \in SUBSET S : \E g : Solves(g, f, T)
<1> DEFINE Bad == {T \in SUBSET S : ~\E g : Solves(g, f, T)}
<1> SUFFICES ASSUME Bad # {} PROVE FALSE
  OBVIOUS
<1>1. PICK T \in Bad : \A U \in Bad : U \subseteq T => U = T
  <2>1. Bad \in SUBSET (SUBSET S)
    OBVIOUS
  <2> HIDE DEF Bad
  <2> QED BY <2>1, Smallest
<1> DEFINE h(U) == CHOOSE g : Solves(g, f, U)
           rest == T \ {Pick(T)}
           last == IF T = {} THEN 0 ELSE f[Pick(T)] + h(rest)[rest]
           g == [s \in SUBSET T |-> IF s = T THEN last ELSE h(s)[s]]
<1>2. \A U \in SUBSET T : U # T => Solves(h(U), f, U)
  <2> SUFFICES ASSUME NEW U \in SUBSET T, U # T PROVE \E x : Solves(x, f, U)
    OBVIOUS
  <2> QED BY <1>1
<1>3. \A s \in SUBSET T : g[s] = IF s = {} THEN 0 ELSE f[Pick(s)] + g[s \ {Pick(s)}]
  <2> SUFFICES ASSUME NEW s \in SUBSET T
               PROVE  g[s] = IF s = {} THEN 0 ELSE f[Pick(s)] + g[s \ {Pick(s)}]
    OBVIOUS
  <2> DEFINE r == s \ {Pick(s)}
  <2>1. s # {} => r \in SUBSET T /\ r # T /\ r # s /\ r \subseteq s
    BY PickIn
  <2>2. s # {} => g[r] = h(r)[r]
    BY <2>1
  <2>3. CASE s = T
    BY <2>1, <2>2, <2>3
  <2>4. CASE s # T
    <3>1. g[s] = h(s)[s]
      BY <2>4
    <3>2. Solves(h(s), f, s)
      BY <1>2, <2>4
    <3> HIDE DEF h
    <3>3. CASE s = {}
      BY <3>1, <3>2, <3>3, SolutionAt
    <3>4. CASE s # {}
      <4>1. h(s)[s] = f[Pick(s)] + h(s)[r]
        BY <3>2, <3>4, SolutionAt
      <4>2. Solves(h(r), f, r)
        BY <1>2, <2>1, <3>4
      <4>3. h(s)[r] = h(r)[r]
        <5>1. s \in SUBSET S /\ r \in SUBSET S /\ r \in SUBSET (s \cap r)
          BY <1>1, <2>1, <3>4
        <5> HIDE DEF r
        <5> QED BY <5>1, <3>2, <4>2, Agree
      <4> QED BY <3>1, <3>4, <4>1, <4>3, <2>2
    <3> QED BY <3>3, <3>4
  <2> QED BY <2>3, <2>4
<1>4. g = [s \in SUBSET T |-> g[s]]
  OBVIOUS
<1> HIDE DEF g
<1>5. Solves(g, f, T)
  BY <1>3, <1>4 DEF Solves
<1> QED BY <1>1, <1>5

\* A sum is what a solution gives for the whole set.
LEMMA SumIs == \A f, T : Total(f, T) = (CHOOSE g : Solves(g, f, T))[T]
BY DEF Total, SumFunctionOnSet, FoldFunctionOnSet, MapThenFoldSet, Solves, Pick

\* A sum is that of what is picked and that of the rest.
LEMMA SumEquation ==
    ASSUME NEW f, NEW T, IsFiniteSet(T)
    PROVE  /\ T = {} => Total(f, T) = 0
           /\ T # {} => Total(f, T) = f[Pick(T)] + Total(f, T \ {Pick(T)})
<1> DEFINE h(U) == CHOOSE g : Solves(g, f, U)
           r == T \ {Pick(T)}
<1>1. Solves(h(T), f, T) /\ Solves(h(r), f, r)
  <2>1. r \in SUBSET T /\ T \in SUBSET T
    OBVIOUS
  <2> HIDE DEF r
  <2>2. (\E g : Solves(g, f, T)) /\ (\E g : Solves(g, f, r))
    BY <2>1, Solvable
  <2> QED BY <2>2
<1>2. Total(f, T) = h(T)[T] /\ Total(f, r) = h(r)[r]
  BY SumIs
<1> HIDE DEF h
<1>3. h(T)[r] = h(r)[r]
  <2>1. r \in SUBSET T /\ T \in SUBSET T /\ r \in SUBSET (T \cap r)
    OBVIOUS
  <2> HIDE DEF r
  <2> QED BY <2>1, <1>1, Agree
<1> QED BY <1>1, <1>2, <1>3, SolutionAt

\* A sum of integers is one.
LEMMA SumInt ==
    ASSUME NEW S, IsFiniteSet(S), NEW f, \A x \in S : f[x] \in Int
    PROVE  \A T \in SUBSET S : Total(f, T) \in Int
<1> DEFINE Bad == {T \in SUBSET S : Total(f, T) \notin Int}
<1> SUFFICES ASSUME Bad # {} PROVE FALSE
  OBVIOUS
<1>1. PICK T \in Bad : \A U \in Bad : U \subseteq T => U = T
  <2>1. Bad \in SUBSET (SUBSET S)
    OBVIOUS
  <2> HIDE DEF Bad
  <2> QED BY <2>1, Smallest
<1>2. IsFiniteSet(T)
  BY <1>1, FS_Subset
<1>3. T # {}
  <2>1. T = {} => Total(f, T) = 0
    BY <1>2, SumEquation
  <2> QED BY <1>1, <2>1
<1> DEFINE r == T \ {Pick(T)}
<1>4. Pick(T) \in T /\ r \subseteq T /\ r # T
  BY <1>3, PickIn
<1>5. Total(f, r) \in Int
  BY <1>1, <1>4
<1>6. Total(f, T) = f[Pick(T)] + Total(f, r)
  BY <1>2, <1>3, SumEquation
<1> QED BY <1>1, <1>4, <1>5, <1>6

\* It does not depend on the order.
LEMMA SumRemove ==
    ASSUME NEW S, IsFiniteSet(S), NEW f, \A x \in S : f[x] \in Int
    PROVE  \A T \in SUBSET S : \A x \in T : Total(f, T) = f[x] + Total(f, T \ {x})
<1> DEFINE Bad == {T \in SUBSET S : \E x \in T : Total(f, T) # f[x] + Total(f, T \ {x})}
<1> SUFFICES ASSUME Bad # {} PROVE FALSE
  OBVIOUS
<1>1. PICK T \in Bad : \A U \in Bad : U \subseteq T => U = T
  <2>1. Bad \in SUBSET (SUBSET S)
    OBVIOUS
  <2> HIDE DEF Bad
  <2> QED BY <2>1, Smallest
<1>2. IsFiniteSet(T) /\ T \in SUBSET S
  BY <1>1, FS_Subset
<1>3. PICK x \in T : Total(f, T) # f[x] + Total(f, T \ {x})
  BY <1>1
<1> DEFINE y == Pick(T)
<1>4. y \in T /\ Total(f, T) = f[y] + Total(f, T \ {y})
  BY <1>2, <1>3, SumEquation, PickIn
<1>5. x # y
  BY <1>3, <1>4
<1> HIDE DEF y
<1> DEFINE r == T \ {x, y}
<1>6. Total(f, T \ {y}) = f[x] + Total(f, r)
  <2>1. T \ {y} \in SUBSET S /\ T \ {y} # T /\ x \in T \ {y} /\ T \ {y} \notin Bad
    BY <1>1, <1>2, <1>4, <1>5
  <2>2. (T \ {y}) \ {x} = r
    OBVIOUS
  <2> QED BY <2>1, <2>2
<1>7. Total(f, T \ {x}) = f[y] + Total(f, r)
  <2>1. T \ {x} \in SUBSET S /\ T \ {x} # T /\ y \in T \ {x} /\ T \ {x} \notin Bad
    BY <1>1, <1>2, <1>4, <1>5
  <2>2. (T \ {x}) \ {y} = r
    OBVIOUS
  <2> QED BY <2>1, <2>2
<1>8. f[x] \in Int /\ f[y] \in Int /\ Total(f, r) \in Int
  BY <1>2, <1>4, SumInt
<1> HIDE DEF r
<1> QED BY <1>3, <1>4, <1>6, <1>7, <1>8

\* Of what is summed only the values matter.
LEMMA SumSame ==
    ASSUME NEW S, IsFiniteSet(S), NEW f, NEW g, \A x \in S : f[x] = g[x]
    PROVE  \A T \in SUBSET S : Total(f, T) = Total(g, T)
<1> DEFINE Bad == {T \in SUBSET S : Total(f, T) # Total(g, T)}
<1> SUFFICES ASSUME Bad # {} PROVE FALSE
  OBVIOUS
<1>1. PICK T \in Bad : \A U \in Bad : U \subseteq T => U = T
  <2>1. Bad \in SUBSET (SUBSET S)
    OBVIOUS
  <2> HIDE DEF Bad
  <2> QED BY <2>1, Smallest
<1>2. IsFiniteSet(T) /\ T \in SUBSET S
  BY <1>1, FS_Subset
<1>3. T # {}
  BY <1>1, <1>2, SumEquation
<1> DEFINE r == T \ {Pick(T)}
<1>4. Pick(T) \in T /\ r \subseteq T /\ r # T
  BY <1>3, PickIn
<1>5. Total(f, r) = Total(g, r)
  BY <1>1, <1>4
<1>6. Total(f, T) = f[Pick(T)] + Total(f, r) /\ Total(g, T) = g[Pick(T)] + Total(g, r)
  BY <1>2, <1>3, SumEquation
<1> QED BY <1>1, <1>2, <1>4, <1>5, <1>6

-----------------------------------------------------------------------------
(* What remains of a debt.                                                 *)

\* What an operation does to its debt.
DeltaOf(op) == GetDebtDelta(op.type, op.amount)

\* A set of operations as the calculations need it: finite, with amounts.
Amounted(ops) == IsFiniteSet(ops) /\ \A op \in ops : op.amount \in Int

\* The effect of an amount is a number.
LEMMA DeltaInt == \A type : \A amount \in Int : GetDebtDelta(type, amount) \in Int
BY DEF GetDebtDelta

\* The sum of the community modules over an operator is one over a function.
LEMMA SumOfDeltas ==
    ASSUME NEW original, NEW ops
    PROVE  CalculateRemaining(original, ops) = original + Total([op \in ops |-> DeltaOf(op)], ops)
<1> DEFINE f == [op \in ops |-> DeltaOf(op)]
           R(g) == g = [s \in SUBSET ops |-> IF s = {} THEN 0
                                            ELSE GetDebtDelta(Pick(s).type, Pick(s).amount) + g[s \ {Pick(s)}]]
<1>1. CalculateRemaining(original, ops) = original + (CHOOSE g : R(g))[ops]
  BY DEF CalculateRemaining, MapThenSumSet, MapThenFoldSet, Pick
<1>2. \A g : R(g) <=> Solves(g, f, ops)
  <2>1. \A s \in SUBSET ops : s # {} => f[Pick(s)] = GetDebtDelta(Pick(s).type, Pick(s).amount)
    BY PickIn DEF DeltaOf
  <2> HIDE DEF f
  <2> QED BY <2>1 DEF Solves
<1> HIDE DEF R, f
<1>3. (CHOOSE g : R(g)) = (CHOOSE g : Solves(g, f, ops))
  BY <1>2, Zenon
<1> QED BY <1>1, <1>3, SumIs DEF f

\* What remains is a number.
LEMMA RemainingInt ==
    ASSUME NEW original \in Int, NEW ops, Amounted(ops)
    PROVE  CalculateRemaining(original, ops) \in Int
<1> DEFINE f == [op \in ops |-> DeltaOf(op)]
<1>1. \A op \in ops : f[op] \in Int
  BY DeltaInt DEF DeltaOf, Amounted
<1>2. CalculateRemaining(original, ops) = original + Total(f, ops)
  BY SumOfDeltas
<1> HIDE DEF f
<1>3. Total(f, ops) \in Int
  BY <1>1, SumInt DEF Amounted
<1> QED BY <1>2, <1>3

\* A debt without operations owes its original amount.
LEMMA RemainingNone == \A original \in Int : CalculateRemaining(original, {}) = original
<1> SUFFICES ASSUME NEW original \in Int PROVE CalculateRemaining(original, {}) = original
  OBVIOUS
<1> DEFINE f == [op \in {} |-> DeltaOf(op)]
<1>1. CalculateRemaining(original, {}) = original + Total(f, {})
  BY SumOfDeltas
<1> HIDE DEF f
<1>2. Total(f, {}) = 0
  BY SumEquation, FS_EmptySet
<1> QED BY <1>1, <1>2

\* An operation moves what remains by its effect.
LEMMA RemainingAdd ==
    ASSUME NEW original \in Int, NEW ops, NEW op, op \notin ops, Amounted(ops), op.amount \in Int
    PROVE  /\ Amounted(ops \cup {op})
           /\ CalculateRemaining(original, ops \cup {op}) =
                CalculateRemaining(original, ops) + GetDebtDelta(op.type, op.amount)
<1> DEFINE all == ops \cup {op}
           f == [x \in ops |-> DeltaOf(x)]
           g == [x \in all |-> DeltaOf(x)]
<1>1. Amounted(all)
  BY FS_AddElement DEF Amounted
<1>2. /\ CalculateRemaining(original, ops) = original + Total(f, ops)
      /\ CalculateRemaining(original, all) = original + Total(g, all)
  BY SumOfDeltas
<1>3. /\ \A x \in all : g[x] \in Int
      /\ \A x \in ops : f[x] = g[x]
      /\ g[op] = GetDebtDelta(op.type, op.amount)
  BY <1>1, DeltaInt DEF DeltaOf, Amounted
<1>4. op \in all /\ all \ {op} = ops /\ ops \in SUBSET all
  OBVIOUS
<1> HIDE DEF f, g, all
<1>5. Total(g, all) = g[op] + Total(g, ops)
  BY <1>1, <1>3, <1>4, SumRemove DEF Amounted
<1>6. Total(f, ops) = Total(g, ops)
  BY <1>3, SumSame DEF Amounted
<1>7. Total(g, ops) \in Int /\ g[op] \in Int
  BY <1>1, <1>3, <1>4, SumInt DEF Amounted
<1> QED BY <1>1, <1>2, <1>3, <1>5, <1>6, <1>7 DEF all

\* What remains moves with the original amount.
LEMMA RemainingShift ==
    ASSUME NEW original \in Int, NEW other \in Int, NEW ops, Amounted(ops)
    PROVE  CalculateRemaining(other, ops) = CalculateRemaining(original, ops) + other - original
<1> DEFINE f == [op \in ops |-> DeltaOf(op)]
<1>1. \A op \in ops : f[op] \in Int
  BY DeltaInt DEF DeltaOf, Amounted
<1>2. /\ CalculateRemaining(original, ops) = original + Total(f, ops)
      /\ CalculateRemaining(other, ops) = other + Total(f, ops)
  BY SumOfDeltas
<1> HIDE DEF f
<1>3. Total(f, ops) \in Int
  BY <1>1, SumInt DEF Amounted
<1> QED BY <1>2, <1>3

-----------------------------------------------------------------------------
(* One recurring payment at most.                                          *)

UpdateIsAlone == "Update" \in Kinds => "Update" \in Alone

IsView(v) ==
    /\ DOMAIN v = {"original", "status", "templates", "operations", "initial"}
    /\ DOMAIN v.templates = Templates

Typed ==
    /\ DOMAIN debt = Debts /\ \A d \in Debts : DOMAIN debt[d] = {"original", "status"}
    /\ DOMAIN template = Debts /\ \A d \in Debts : DOMAIN template[d] = Templates
    /\ DOMAIN session = Actors
    /\ \A s \in Actors : session[s] # Resting => session[s].debt \in Debts /\ IsView(session[s].read)
    /\ DOMAIN pass = Workers
    /\ \A w \in Workers : /\ DOMAIN pass[w] = {"due", "left", "tracked"}
                          /\ \A v \in pass[w].tracked : IsView(v.view)

OneEach ==
    \A d \in Debts : \A t, u \in Templates :
        template[d][t] # "absent" /\ template[d][u] # "absent" => t = u

\* A debt that is not there has no recurring payment, and no request read it.
NewIsEmpty ==
    /\ \A d \in Debts : debt[d].status = "new" => \A t \in Templates : template[d][t] = "absent"
    /\ \A s \in Actors : session[s] # Resting => debt[session[s].debt].status # "new"

\* What an edit has read of the recurring payments is what there is.
EditIsCurrent ==
    \A s \in Actors : session[s] # Resting /\ session[s].kind = "Update" =>
        /\ "Update" \in Alone /\ s \in Users
        /\ \A r \in Actors : r # s => session[r] = Resting
        /\ session[s].read.templates = template[session[s].debt]

Inv == Typed /\ OneEach /\ NewIsEmpty /\ EditIsCurrent

-----------------------------------------------------------------------------
(* What requests write.                                                    *)

\* Nothing but switching off.
OnlyOff(read, write) ==
    \A t \in Templates : \/ write.templates[t] = read.templates[t]
                         \/ read.templates[t] = "on" /\ write.templates[t] = "off"

\* A debt that is repaid switches its recurring payments off, and another nothing.
LEMMA StatusSwitchesOff ==
    ASSUME NEW v, IsView(v), NEW remaining
    PROVE  LET write == ApplyAutomaticStatus(v, remaining)
           IN IsView(write) /\ OnlyOff(v, write) /\ write.status \in {"Active", "Closed"}
BY DEF ApplyAutomaticStatus, IsView, OnlyOff

\* Recording an operation does what its status does.
LEMMA OperationSwitchesOff ==
    ASSUME NEW v, IsView(v), NEW remaining, NEW in
    PROVE  LET write == WithOperation(v, remaining, in)
           IN IsView(write) /\ OnlyOff(v, write) /\ write.status \in {"Active", "Closed"}
<1> PICK x, y, z : WithOperation(v, remaining, in) =
                     ApplyAutomaticStatus([v EXCEPT !.original = x, !.operations = y], z)
  BY Zenon DEF WithOperation
<1> DEFINE view == [v EXCEPT !.original = x, !.operations = y]
<1>1. IsView(view) /\ view.templates = v.templates
  BY DEF IsView
<1> HIDE DEF view
<1>2. LET write == ApplyAutomaticStatus(view, z)
      IN IsView(write) /\ OnlyOff(view, write) /\ write.status \in {"Active", "Closed"}
  BY <1>1, StatusSwitchesOff
<1>3. WithOperation(v, remaining, in) = ApplyAutomaticStatus(view, z)
  BY DEF view
<1> QED BY <1>1, <1>2, <1>3 DEF OnlyOff

-----------------------------------------------------------------------------
(* What steps do to the rows.                                              *)

\* No recurring payment comes, and no debt is new or no longer.
NothingComes ==
    /\ DOMAIN template' = Debts /\ \A d \in Debts : DOMAIN template'[d] = Templates
    /\ \A d \in Debts, t \in Templates : template'[d][t] # "absent" => template[d][t] # "absent"
    /\ DOMAIN debt' = Debts /\ \A d \in Debts : DOMAIN debt'[d] = {"original", "status"}
    /\ \A d \in Debts : debt'[d].status = "new" <=> debt[d].status = "new"

\* A save of what switches off brings no recurring payment: it fails when one it
\* switches off is gone.
LEMMA SavedBringsNothing ==
    ASSUME Typed, NEW s \in Actors, session[s] # Resting, NEW read, NEW write,
           IsView(write), OnlyOff(read, write), write.status \in {"Active", "Closed"},
           NEW removed, NEW added, Saved(s, read, write, removed, added)
    PROVE  NothingComes
<1> DEFINE d == session[s].debt
<1>1. d \in Debts
  BY DEF Typed
<1>2. /\ DOMAIN debt' = Debts /\ \A e \in Debts : DOMAIN debt'[e] = {"original", "status"}
      /\ \A e \in Debts : debt'[e].status = "new" <=> debt[e].status = "new"
  BY <1>1 DEF Saved, Typed, Exists
<1>3. /\ DOMAIN template' = Debts /\ \A e \in Debts : DOMAIN template'[e] = Templates
      /\ \A e \in Debts : e # d => template'[e] = template[e]
      /\ \A t \in Templates : template'[d][t] = IF write.templates[t] = read.templates[t]
                                               THEN template[d][t] ELSE write.templates[t]
  BY <1>1 DEF Saved, Typed
<1>4. \A t \in Templates :
          read.templates[t] \notin {write.templates[t], "absent"} => template[d][t] # "absent"
  BY DEF Saved
<1>5. \A t \in Templates : template'[d][t] # "absent" => template[d][t] # "absent"
  BY <1>3, <1>4 DEF OnlyOff
<1> QED BY <1>1, <1>2, <1>3, <1>5 DEF NothingComes

\* A request that ends leaves no edit behind.
LEMMA EndKeeps ==
    ASSUME Inv, NEW s \in Actors, session[s] # Resting, End(s), NothingComes,
           DOMAIN pass' = Workers,
           \A w \in Workers : /\ DOMAIN pass'[w] = {"due", "left", "tracked"}
                              /\ \A v \in pass'[w].tracked : IsView(v.view)
    PROVE  Inv'
<1>1. session' = [session EXCEPT ![s] = Resting]
  BY DEF End
<1>2. \A r \in Actors : session'[r] = IF r = s THEN Resting ELSE session[r]
  BY <1>1 DEF Inv, Typed
<1>3. Typed'
  BY <1>1, <1>2 DEF Inv, Typed, NothingComes
<1>4. OneEach'
  BY DEF Inv, OneEach, NothingComes
<1>5. NewIsEmpty'
  BY <1>2 DEF Inv, Typed, NewIsEmpty, NothingComes
<1>6. EditIsCurrent'
  BY <1>2 DEF Inv, EditIsCurrent
<1> QED BY <1>3, <1>4, <1>5, <1>6 DEF Inv

-----------------------------------------------------------------------------
(* The steps.                                                              *)

\* Requests other than edits save what switches off at most.
LEMMA SaveKeeps ==
    ASSUME Inv, NEW s \in Users,
           \/ AddOperation(s) \/ UpdateOperation(s) \/ DeleteOperation(s) \/ Close(s) \/ Reopen(s)
    PROVE  Inv'
<1> DEFINE k == session[s]
<1>1. s \in Actors /\ k # Resting /\ IsView(k.read)
  BY DEF Inv, Typed, Actors, Working, Resting, AddOperation, UpdateOperation, DeleteOperation,
         Close, Reopen
<1>2. UNCHANGED pass /\ End(s)
  BY DEF AddOperation, UpdateOperation, DeleteOperation, Close, Reopen
<1>3. ASSUME NEW write, IsView(write), OnlyOff(k.read, write), write.status \in {"Active", "Closed"},
             NEW removed, NEW added, Saved(s, k.read, write, removed, added)
      PROVE  Inv'
  <2>1. NothingComes
    BY <1>1, <1>3, SavedBringsNothing DEF Inv
  <2> QED BY <1>1, <1>2, <2>1, EndKeeps DEF Inv, Typed
<1>4. CASE AddOperation(s)
  <2> DEFINE write == WithOperation(k.read, CalculateRemaining(k.read.original, k.read.operations), k.input)
  <2>1. Saved(s, k.read, write, {}, Added(write))
    BY <1>4 DEF AddOperation
  <2>2. IsView(write) /\ OnlyOff(k.read, write) /\ write.status \in {"Active", "Closed"}
    BY <1>1, OperationSwitchesOff
  <2> HIDE DEF write
  <2> QED BY <1>3, <2>1, <2>2
<1>5. CASE UpdateOperation(s)
  <2> DEFINE others == {op \in k.read.operations : op.id # k.input.id}
             reopened == [k.read EXCEPT !.operations = others, !.status = "Active"]
             write == WithOperation(reopened, CalculateRemaining(k.read.original, others), k.input)
  <2>1. Saved(s, k.read, write, {k.input.id}, Added(write))
    BY <1>5 DEF UpdateOperation
  <2>2. IsView(reopened) /\ reopened.templates = k.read.templates
    BY <1>1 DEF IsView
  <2> HIDE DEF reopened
  <2>3. IsView(write) /\ OnlyOff(reopened, write) /\ write.status \in {"Active", "Closed"}
    BY <2>2, OperationSwitchesOff
  <2>4. OnlyOff(k.read, write)
    BY <2>2, <2>3 DEF OnlyOff
  <2> HIDE DEF write
  <2> QED BY <1>3, <2>1, <2>3, <2>4
<1>6. CASE DeleteOperation(s)
  <2> DEFINE others == {op \in k.read.operations : op.id # k.input.id}
             write == ApplyAutomaticStatus(k.read, CalculateRemaining(k.read.original, others))
  <2>1. Saved(s, k.read, write, {k.input.id}, {})
    BY <1>6 DEF DeleteOperation
  <2>2. IsView(write) /\ OnlyOff(k.read, write) /\ write.status \in {"Active", "Closed"}
    BY <1>1, StatusSwitchesOff
  <2> HIDE DEF write
  <2> QED BY <1>3, <2>1, <2>2
<1>7. CASE Close(s)
  <2> DEFINE write == ApplyAutomaticStatus(k.read, 0)
  <2>1. Saved(s, k.read, write, {}, {})
    BY <1>7 DEF Close
  <2>2. IsView(write) /\ OnlyOff(k.read, write) /\ write.status \in {"Active", "Closed"}
    BY <1>1, StatusSwitchesOff
  <2> HIDE DEF write
  <2> QED BY <1>3, <2>1, <2>2
<1>8. CASE Reopen(s)
  <2> DEFINE write == [k.read EXCEPT !.status = "Active"]
  <2>1. Saved(s, k.read, write, {}, {})
    BY <1>8 DEF Reopen
  <2>2. IsView(write) /\ OnlyOff(k.read, write) /\ write.status \in {"Active", "Closed"}
    BY <1>1 DEF IsView, OnlyOff
  <2> HIDE DEF write
  <2> QED BY <1>3, <2>1, <2>2
<1> QED BY <1>4, <1>5, <1>6, <1>7, <1>8

\* An edit adds a recurring payment only to a debt that has none.
LEMMA UpdateKeeps ==
    ASSUME Inv, NEW s \in Users, Update(s)
    PROVE  Inv'
<1> DEFINE k == session[s]
           d == k.debt
           present == TemplatesOf(k.read)
<1>1. /\ s \in Actors /\ k # Resting /\ k.kind = "Update" /\ d \in Debts /\ IsView(k.read)
      /\ End(s) /\ UNCHANGED pass
  BY DEF Inv, Typed, Actors, Working, Resting, Update
<1>2. k.read.templates = template[d] /\ \A r \in Actors : r # s => session[r] = Resting
  BY <1>1 DEF Inv, EditIsCurrent
<1>3. PICK t \in (IF present # {} THEN present ELSE {x \in Templates : template[d][x] = "absent"}) :
        \E payment, original, remaining :
          Saved(s, k.read,
                ApplyAutomaticStatus([k.read EXCEPT !.original = original, !.templates[t] = payment],
                                     remaining), {}, {})
  BY Zenon DEF Update
<1> PICK payment, original, remaining :
      Saved(s, k.read,
            ApplyAutomaticStatus([k.read EXCEPT !.original = original, !.templates[t] = payment],
                                 remaining), {}, {})
  BY <1>3
<1> DEFINE view == [k.read EXCEPT !.original = original, !.templates[t] = payment]
           write == ApplyAutomaticStatus(view, remaining)
<1>4. IsView(view) /\ \A u \in Templates : u # t => view.templates[u] = k.read.templates[u]
  BY <1>1 DEF IsView
<1>5. t \in Templates
  BY <1>3 DEF TemplatesOf
<1>6. Saved(s, k.read, write, {}, {})
  OBVIOUS
<1> HIDE DEF view
<1>7. IsView(write) /\ OnlyOff(view, write) /\ write.status \in {"Active", "Closed"}
  BY <1>4, StatusSwitchesOff
<1> HIDE DEF write
<1>8. /\ DOMAIN debt' = Debts /\ \A e \in Debts : DOMAIN debt'[e] = {"original", "status"}
      /\ \A e \in Debts : debt'[e].status = "new" <=> debt[e].status = "new"
      /\ debt[d].status # "new"
  BY <1>1, <1>6, <1>7 DEF Saved, Inv, Typed, Exists
<1>9. /\ DOMAIN template' = Debts /\ \A e \in Debts : DOMAIN template'[e] = Templates
      /\ \A e \in Debts : e # d => template'[e] = template[e]
      /\ \A u \in Templates : template'[d][u] = IF write.templates[u] = k.read.templates[u]
                                               THEN template[d][u] ELSE write.templates[u]
  BY <1>1, <1>6 DEF Saved, Inv, Typed
<1>10. \A u \in Templates : u # t /\ template'[d][u] # "absent" => template[d][u] # "absent"
  BY <1>2, <1>4, <1>7, <1>9 DEF OnlyOff
<1>11. OneEach'
  <2>1. CASE present # {}
    <3>1. template[d][t] # "absent"
      BY <1>2, <1>3, <2>1 DEF TemplatesOf
    <3> QED BY <1>1, <1>5, <1>9, <1>10, <3>1 DEF Inv, OneEach
  <2>2. CASE present = {}
    <3>1. \A u \in Templates : template[d][u] = "absent"
      BY <1>2, <2>2 DEF TemplatesOf
    <3> QED BY <1>1, <1>9, <1>10, <3>1 DEF Inv, OneEach
  <2> QED BY <2>1, <2>2
<1>12. \A r \in Actors : session'[r] = Resting
  BY <1>1, <1>2 DEF End, Inv, Typed
<1>13. DOMAIN session' = Actors
  BY <1>1 DEF End, Inv, Typed
<1>14. Typed'
  BY <1>1, <1>8, <1>9, <1>12, <1>13 DEF Inv, Typed
<1>15. NewIsEmpty'
  BY <1>1, <1>8, <1>9, <1>12 DEF Inv, NewIsEmpty
<1>16. EditIsCurrent'
  BY <1>12 DEF EditIsCurrent
<1> QED BY <1>11, <1>14, <1>15, <1>16 DEF Inv

\* A deletion takes the recurring payment along; a failure changes nothing.
LEMMA DeleteKeeps ==
    ASSUME Inv, NEW s \in Users, Delete(s) \/ Fail(s)
    PROVE  Inv'
<1>1. s \in Actors /\ session[s] # Resting /\ session[s].debt \in Debts /\ End(s) /\ UNCHANGED pass
  BY DEF Inv, Typed, Actors, Working, Resting, Delete, Fail
<1>2. NothingComes
  <2>1. CASE Delete(s)
    BY <1>1, <2>1 DEF Delete, Inv, Typed, NothingComes, Exists
  <2>2. CASE Fail(s)
    BY <2>2 DEF Fail, Inv, Typed, NothingComes
  <2> QED BY <2>1, <2>2
<1> QED BY <1>1, <1>2, EndKeeps DEF Inv, Typed

\* A new debt gets one recurring payment at most.
LEMMA CreateKeeps ==
    ASSUME Inv, NEW s \in Users, NEW d \in Debts, NEW original, NEW payment,
           Create(s, d, original, payment)
    PROVE  Inv'
<1>1. /\ debt[d].status = "new" /\ UNCHANGED <<session, pass>>
      /\ debt' = [debt EXCEPT ![d] = [original |-> original, status |-> "Active"]]
  BY DEF Create
<1>2. \A t \in Templates : template[d][t] = "absent"
  BY <1>1 DEF Inv, NewIsEmpty
<1>3. /\ DOMAIN template' = Debts /\ \A e \in Debts : DOMAIN template'[e] = Templates
      /\ \A e \in Debts : e # d => template'[e] = template[e]
      /\ \A t, u \in Templates : template'[d][t] # "absent" /\ template'[d][u] # "absent" => t = u
  <2>1. CASE template' = template
    BY <1>2, <2>1 DEF Inv, Typed
  <2>2. CASE \E t \in Templates : template' = [template EXCEPT ![d][t] = payment]
    <3> PICK x \in Templates : template' = [template EXCEPT ![d][x] = payment] BY <2>2
    <3> QED BY <1>2 DEF Inv, Typed
  <2> QED BY <2>1, <2>2 DEF Create
<1>4. /\ DOMAIN debt' = Debts /\ \A e \in Debts : DOMAIN debt'[e] = {"original", "status"}
      /\ debt'[d].status = "Active" /\ \A e \in Debts : e # d => debt'[e] = debt[e]
  BY <1>1 DEF Inv, Typed
<1>5. Typed'
  BY <1>1, <1>3, <1>4 DEF Inv, Typed
<1>6. OneEach'
  BY <1>3 DEF Inv, OneEach
<1>7. NewIsEmpty'
  BY <1>1, <1>3, <1>4 DEF Inv, Typed, NewIsEmpty
<1>8. EditIsCurrent'
  BY <1>1, <1>3 DEF Inv, Typed, NewIsEmpty, EditIsCurrent, Actors
<1> QED BY <1>5, <1>6, <1>7, <1>8 DEF Inv

\* An edit reads what is there, while nothing else is under way.
LEMMA ReadKeeps ==
    ASSUME UpdateIsAlone, Inv, NEW s \in Users, NEW d \in Debts, NEW kind, NEW input,
           Read(s, d, kind, input)
    PROVE  Inv'
<1> DEFINE new == [at |-> "read", kind |-> kind, debt |-> d, input |-> input, read |-> View(d)]
<1>1. /\ s \in Actors /\ Permitted(kind) /\ session[s] = Resting /\ Exists(d)
      /\ session' = [session EXCEPT ![s] = new] /\ UNCHANGED <<debt, template, pass>>
  BY DEF Read, Actors
<1>2. IsView(View(d)) /\ View(d).templates = template[d]
  BY DEF View, IsView, Inv, Typed
<1>3. new.kind = kind /\ new.debt = d /\ new.read = View(d)
  OBVIOUS
<1> HIDE DEF new
<1>4. \A r \in Actors : session'[r] = IF r = s THEN new ELSE session[r]
  BY <1>1 DEF Inv, Typed
<1>5. Typed'
  BY <1>1, <1>2, <1>3, <1>4 DEF Inv, Typed
<1>6. OneEach'
  BY <1>1 DEF Inv, OneEach
<1>7. NewIsEmpty'
  BY <1>1, <1>3, <1>4 DEF Inv, NewIsEmpty, Exists
<1>8. \A r \in Actors : session[r] # Resting => kind \notin Alone /\ session[r].kind \notin Alone
  BY <1>1 DEF Permitted
<1>9. kind \in Kinds
  BY <1>1 DEF Permitted
<1>10. EditIsCurrent'
  BY <1>1, <1>2, <1>3, <1>4, <1>8, <1>9 DEF Inv, EditIsCurrent, UpdateIsAlone
<1> QED BY <1>5, <1>6, <1>7, <1>10 DEF Inv

\* A recurring payment is not deleted while its debt is edited.
LEMMA DeleteTemplateKeeps ==
    ASSUME Inv, NEW s \in Users, NEW d \in Debts, NEW t \in Templates, DeleteTemplate(s, d, t)
    PROVE  Inv'
<1>1. /\ Permitted("DeleteTemplate") /\ template' = [template EXCEPT ![d][t] = "absent"]
      /\ UNCHANGED <<debt, session, pass>>
  BY DEF DeleteTemplate
<1>2. /\ DOMAIN template' = Debts /\ \A e \in Debts : DOMAIN template'[e] = Templates
      /\ \A e \in Debts, u \in Templates : template'[e][u] # "absent" => template[e][u] # "absent"
  BY <1>1 DEF Inv, Typed
<1>3. \A r \in Actors : session[r] # Resting => session[r].kind \notin Alone
  BY <1>1 DEF Permitted
<1>4. Typed' /\ OneEach' /\ NewIsEmpty'
  BY <1>1, <1>2 DEF Inv, Typed, OneEach, NewIsEmpty
<1>5. EditIsCurrent'
  BY <1>1, <1>3 DEF Inv, EditIsCurrent
<1> QED BY <1>4, <1>5 DEF Inv

\* The worker switches recurring payments off and brings none.
LEMMA WorkerKeeps ==
    ASSUME Inv, NEW w \in Workers, WorkerNext(w)
    PROVE  Inv'
<1> USE DEF Actors
<1>1. CASE StartPass(w) \/ EndPass(w)
  <2>1. /\ UNCHANGED <<debt, template, session>> /\ DOMAIN pass' = Workers
        /\ \A x \in Workers : \/ pass'[x] = pass[x]
                              \/ DOMAIN pass'[x] = {"due", "left", "tracked"} /\ pass'[x].tracked = {}
    BY <1>1 DEF StartPass, EndPass, NoPass, Inv, Typed
  <2>2. Typed'
    BY <2>1 DEF Inv, Typed
  <2> QED BY <2>1, <2>2 DEF Inv, OneEach, NewIsEmpty, EditIsCurrent
<1>2. ASSUME NEW d \in Debts, NEW t, NEW amount, ReadOccurrence(w, d, t, amount) PROVE Inv'
  <2> DEFINE new == [at |-> "read", kind |-> "Automatic", debt |-> d,
                     input |-> [template |-> t, amount |-> amount], read |-> TrackedView(w, d)]
  <2>1. /\ session[w] = Resting /\ Exists(d) /\ session' = [session EXCEPT ![w] = new]
        /\ pass' = [pass EXCEPT ![w].left = @ - 1] /\ UNCHANGED <<debt, template>>
        /\ \A s \in Users : session[s] # Resting => session[s].kind \notin Alone
    BY <1>2 DEF ReadOccurrence
  <2>2. IsView(TrackedView(w, d))
    <3>1. CASE \E v \in pass[w].tracked : v.debt = d
      <4> DEFINE v == CHOOSE v \in pass[w].tracked : v.debt = d
      <4>1. IsView(v.view)
        BY <3>1 DEF Inv, Typed
      <4>2. PICK ops : TrackedView(w, d) = [v.view EXCEPT !.operations = ops]
        BY <3>1, Zenon DEF TrackedView
      <4> HIDE DEF v
      <4> QED BY <4>1, <4>2 DEF IsView
    <3>2. CASE ~\E v \in pass[w].tracked : v.debt = d
      BY <3>2 DEF TrackedView, View, IsView, Inv, Typed
    <3> QED BY <3>1, <3>2
  <2>3. new.kind = "Automatic" /\ new.debt = d /\ new.read = TrackedView(w, d)
    OBVIOUS
  <2> HIDE DEF new
  <2>4. \A r \in Actors : session'[r] = IF r = w THEN new ELSE session[r]
    BY <2>1 DEF Inv, Typed
  <2>5. /\ DOMAIN pass' = Workers
        /\ \A x \in Workers : DOMAIN pass'[x] = DOMAIN pass[x] /\ pass'[x].tracked = pass[x].tracked
    BY <2>1 DEF Inv, Typed
  <2>6. Typed'
    BY <2>1, <2>2, <2>3, <2>4, <2>5 DEF Inv, Typed
  <2>7. OneEach' /\ NewIsEmpty'
    BY <2>1, <2>3, <2>4 DEF Inv, OneEach, NewIsEmpty, Exists
  <2>8. EditIsCurrent'
    BY <2>1, <2>3, <2>4 DEF Inv, EditIsCurrent
  <2> QED BY <2>6, <2>7, <2>8 DEF Inv
<1>3. CASE PostOccurrence(w)
  <2> DEFINE k == session[w]
             remaining == CalculateRemaining(k.read.original, k.read.operations)
             in == AutomaticInput(k.debt, k.input.amount, remaining)
             write == WithOperation(k.read, remaining, in)
  <2>1. /\ k # Resting /\ IsView(k.read) /\ End(w)
        /\ Saved(w, k.read, write, {}, Added(write))
        /\ pass' = [pass EXCEPT ![w].tracked =
               {v \in @ : v.debt # k.debt} \cup {[debt |-> k.debt, view |-> write]}]
    BY <1>3 DEF PostOccurrence, Inv, Typed, Working, Resting
  <2>2. IsView(write) /\ OnlyOff(k.read, write) /\ write.status \in {"Active", "Closed"}
    BY <2>1, OperationSwitchesOff
  <2> HIDE DEF write
  <2>3. NothingComes
    BY <2>1, <2>2, SavedBringsNothing DEF Inv
  <2>4. /\ DOMAIN pass' = Workers
        /\ \A x \in Workers : /\ DOMAIN pass'[x] = {"due", "left", "tracked"}
                              /\ \A v \in pass'[x].tracked : IsView(v.view)
    BY <2>1, <2>2 DEF Inv, Typed
  <2> QED BY <2>1, <2>3, <2>4, EndKeeps
<1>4. CASE FailOccurrence(w)
  <2>1. /\ session[w] # Resting /\ End(w) /\ NothingComes /\ DOMAIN pass' = Workers
        /\ \A x \in Workers : /\ DOMAIN pass'[x] = {"due", "left", "tracked"}
                              /\ \A v \in pass'[x].tracked : IsView(v.view)
    BY <1>4 DEF FailOccurrence, Inv, Typed, Working, Resting, NothingComes
  <2> QED BY <2>1, EndKeeps
<1> QED BY <1>1, <1>2, <1>3, <1>4 DEF WorkerNext

\* Every step keeps the invariant.
LEMMA StepKeeps ==
    ASSUME UpdateIsAlone, Inv, [Next]_vars
    PROVE  Inv'
<1>1. CASE UNCHANGED vars
  BY <1>1 DEF vars, Inv, Typed, OneEach, NewIsEmpty, EditIsCurrent
<1>2. ASSUME NEW s \in Users, UserNext(s) PROVE Inv'
  <2>1. ASSUME NEW d \in Debts, NEW in, Create(s, d, in.original, in.payment) PROVE Inv'
    BY <2>1, CreateKeeps
  <2>2. ASSUME NEW d \in Debts, NEW kind, NEW in, Read(s, d, kind, in) PROVE Inv'
    BY <2>2, ReadKeeps
  <2>3. ASSUME NEW d \in Debts, NEW t \in Templates, DeleteTemplate(s, d, t) PROVE Inv'
    BY <2>3, DeleteTemplateKeeps
  <2>4. CASE AddOperation(s) \/ UpdateOperation(s) \/ DeleteOperation(s) \/ Close(s) \/ Reopen(s)
    BY <2>4, SaveKeeps
  <2>5. CASE Update(s)
    BY <2>5, UpdateKeeps
  <2>6. CASE Delete(s) \/ Fail(s)
    BY <2>6, DeleteKeeps
  <2> QED BY <1>2, <2>1, <2>2, <2>3, <2>4, <2>5, <2>6 DEF UserNext
<1>3. ASSUME NEW w \in Workers, WorkerNext(w) PROVE Inv'
  BY <1>3, WorkerKeeps
<1> QED BY <1>1, <1>2, <1>3 DEF Next

\* There is no debt at first.
LEMMA Starts == Init => Inv
BY DEF Init, Inv, Typed, OneEach, NewIsEmpty, EditIsCurrent, NoPass

-----------------------------------------------------------------------------
\* Edited beside nothing else, a debt has at most one recurring payment, whatever other
\* requests and passes of the worker overlap: SingleOrDefault finds it.
THEOREM AtMostOneTemplate == UpdateIsAlone => (Spec => []OneTemplate)
<1> SUFFICES ASSUME UpdateIsAlone PROVE Spec => []OneTemplate
  OBVIOUS
<1>1. Init => Inv
  BY Starts
<1>2. Inv /\ [Next]_vars => Inv'
  BY StepKeeps
<1>3. Inv => OneTemplate
  <2> SUFFICES ASSUME Inv, NEW d \in Debts
               PROVE  Cardinality({t \in Templates : template[d][t] # "absent"}) <= 1
    BY DEF OneTemplate
  <2> DEFINE present == {t \in Templates : template[d][t] # "absent"}
  <2>1. \A t, u \in present : t = u
    BY DEF Inv, OneEach
  <2>2. CASE present = {}
    BY <2>2, FS_EmptySet
  <2>3. CASE present # {}
    <3> PICK t : t \in present BY <2>3
    <3>1. present = {t}
      BY <2>1
    <3>2. Cardinality({t}) = 1
      BY FS_Singleton
    <3> HIDE DEF present
    <3>3. Cardinality(present) <= 1
      BY <3>1, <3>2
    <3> QED BY <3>3 DEF present
  <2> QED BY <2>2, <2>3
<1> QED BY <1>1, <1>2, <1>3, PTL DEF Spec

-----------------------------------------------------------------------------
(* The invariant of the book.                                              *)

\* The bounds Alone and Outside, for the requests that take no lock or that a tracked debt does
\* not show.
Bounded ==
    /\ \A kind \in {"DeleteOperation", "Close", "Reopen", "Update"} : kind \in Kinds =>
          kind \in Alone /\ kind \in Outside
    /\ "UpdateOperation" \in Kinds => "UpdateOperation" \in Outside

\* A request or an occurrence is under way.
Busy(s) == session[s] # Resting

\* The requests that take no lock.
Unlocked == {"DeleteOperation", "Close", "Reopen", "Update"}

UserKinds == Unlocked \cup {"AddOperation", "UpdateOperation", "Delete"}

\* Operations are numbered and have amounts.
Numbers ==
    /\ recorded \in Nat
    /\ DOMAIN operations = Debts /\ DOMAIN lock = Debts
    /\ \A d \in Debts :
          /\ debt[d].original \in Int
          /\ Amounted(operations[d])
          /\ \A op \in operations[d] : op.id \in 1..recorded
          /\ \A p, q \in operations[d] : p.id = q.id => p = q

\* A debt that is not there has no operations.
Statuses ==
    \A d \in Debts : /\ debt[d].status \in {"new", "Active", "Closed", "deleted"}
                     /\ ~Exists(d) => operations[d] = {}

\* A request works on a debt that is there, and on one of its own.
OneDebtEach == \A s \in Actors : Busy(s) =>
    /\ Exists(session[s].debt)
    /\ Locked(session[s].kind) => lock[session[s].debt] = s
    /\ \A r \in Actors : r # s /\ Busy(r) => session[r].debt # session[s].debt

\* A recurring payment that is on was on when it was read.
TemplatesSeen(v, d) == \A t \in Templates : template[d][t] = "on" => v.templates[t] = "on"

\* What was read of a debt is what there is.
Exact(v, d) ==
    /\ v.original = debt[d].original /\ v.status = debt[d].status
    /\ v.operations = operations[d]
    /\ TemplatesSeen(v, d)

\* What was read is as much as there was, and exact as long as the debt is active.
Sees(v, d) ==
    /\ v.original \in Int /\ v.original <= debt[d].original
    /\ v.operations \subseteq operations[d]
    /\ debt[d].status = "Active" => v.original = debt[d].original /\ v.status = "Active"
    /\ TemplatesSeen(v, d)

\* No pass tracks the debt.
UntrackedBy(d) == \A w \in Workers : \A v \in pass[w].tracked : v.debt # d

\* Amounts that are asked for are numbers.
InputTyped(k) == /\ k.kind \in {"AddOperation", "UpdateOperation", "Automatic"} => k.input.amount \in Int
                 /\ k.kind = "Update" => k.input.original \in Int

\* A request reads exactly, and what takes no lock reads alone.
UserReads == \A s \in Users : Busy(s) =>
    /\ session[s].kind \in UserKinds \cap Kinds
    /\ InputTyped(session[s])
    /\ Exact(session[s].read, session[s].debt)
    /\ session[s].kind \in Unlocked => \A r \in Actors : r # s => ~Busy(r)
    /\ session[s].kind \in Unlocked \cup {"UpdateOperation"} => UntrackedBy(session[s].debt)

\* A worker has all operations, and the rest of what its pass tracks.
WorkerReads == \A w \in Workers : Busy(w) =>
    /\ session[w].kind = "Automatic" /\ InputTyped(session[w])
    /\ Sees(session[w].read, session[w].debt)
    /\ session[w].read.operations = operations[session[w].debt]

\* What a pass tracks of a debt is what it saw.
Tracks == \A w \in Workers : \A v \in pass[w].tracked :
    /\ v.debt \in Debts /\ debt[v.debt].status # "new"
    /\ Exists(v.debt) => Sees(v.view, v.debt)

Book == /\ Numbers /\ Statuses /\ OneDebtEach /\ UserReads /\ WorkerReads /\ Tracks
        /\ ClosedMeansRepaid /\ ClosedStopsAutomation

\* Recording an operation on a debt leaves no less than nothing, closes the debt when it leaves
\* nothing, and raises the original amount only to close it.
Records(view, write, in) ==
    \E op :
       /\ op.id = recorded + 1 /\ op.amount \in Int /\ Added(write) = {op}
       /\ write.operations = view.operations \cup {op} /\ write.original \in Int
       /\ write.original >= view.original
       /\ CalculateRemaining(write.original, view.operations \cup {op}) >= 0
       /\ write.status = "Closed" =>
             /\ CalculateRemaining(write.original, view.operations \cup {op}) = 0
             /\ \A t \in Templates : write.templates[t] # "on"
       /\ write.status = "Active" \/ in.resolution = "None" => write.original = view.original

\* A status is the one of the amount remaining, and nothing else changes but the templates.
LEMMA StatusResult ==
    ASSUME NEW v, IsView(v), NEW remaining
    PROVE  LET write == ApplyAutomaticStatus(v, remaining)
           IN /\ write.original = v.original /\ write.operations = v.operations
              /\ write.status = IF remaining = 0 THEN "Closed" ELSE "Active"
              /\ remaining = 0 => \A t \in Templates : write.templates[t] # "on"
BY DEF ApplyAutomaticStatus, IsView

\* WithOperation records what AddOperationCoreAsync accepted.
LEMMA OperationResult ==
    ASSUME NEW d, NEW view, IsView(view), view.original \in Int, Amounted(view.operations),
           recorded \in Nat, \A op \in view.operations : op.id \in 1..recorded,
           NEW in, in.amount \in Int,
           NEW remaining, remaining = CalculateRemaining(view.original, view.operations),
           Accepts(d, view, remaining, in),
           AmountsAllowed(Added(WithOperation(view, remaining, in)))
    PROVE  Records(view, WithOperation(view, remaining, in), in)
<1> DEFINE write == WithOperation(view, remaining, in)
           after == remaining + GetDebtDelta(in.type, in.amount)
           clamp == after < 0 /\ in.resolution = "ClampOperation"
           amount == IF clamp THEN remaining ELSE in.amount
           excess == IF after < 0 /\ ~clamp THEN -after ELSE 0
           op == [id |-> recorded + 1, type |-> in.type, amount |-> amount,
                  onAccount |-> in.onAccount, automatic |-> in.automatic]
           base == [view EXCEPT !.original = @ + excess, !.operations = @ \cup {op}]
           left == remaining + excess + GetDebtDelta(in.type, amount)
<1>1. write = ApplyAutomaticStatus(base, left)
  BY Zenon DEF WithOperation
<1>2. op.id = recorded + 1 /\ op.type = in.type /\ op.amount = amount
  OBVIOUS
<1>3. remaining \in Int /\ in.amount > 0 /\ after \in Int /\ amount \in Int /\ excess \in Int
  BY RemainingInt, DeltaInt DEF Accepts
<1> HIDE DEF op
<1>4. IsView(base) /\ base.original = view.original + excess /\ base.operations = view.operations \cup {op}
  BY DEF IsView
<1> HIDE DEF base, write
<1>5. /\ write.original = view.original + excess /\ write.operations = view.operations \cup {op}
      /\ write.status = IF left = 0 THEN "Closed" ELSE "Active"
      /\ left = 0 => \A t \in Templates : write.templates[t] # "on"
  BY <1>1, <1>4, StatusResult
<1>6. op \notin view.operations /\ Added(write) = {op}
  BY <1>2, <1>5 DEF Added
<1>7. amount > 0
  <2>1. AmountsAllowed(Added(write))
    BY DEF write
  <2> QED BY <1>2, <1>6, <2>1 DEF AmountsAllowed
<1>8. left >= 0 /\ excess >= 0 /\ (excess > 0 => left = 0) /\ (in.resolution = "None" => excess = 0)
  <2>1. after < 0 => in.resolution # "None"
    BY DEF Accepts
  <2>3. (\A x \in Int : GetDebtDelta(in.type, x) = x) \/ (\A x \in Int : GetDebtDelta(in.type, x) = -x)
    BY DEF GetDebtDelta
  <2>4. CASE clamp
    <3>1. amount = remaining /\ excess = 0
      BY <2>4
    <3> QED BY <1>3, <1>7, <2>1, <2>3, <2>4, <3>1
  <2>5. CASE ~clamp
    <3>1. amount = in.amount /\ left = after + excess
      BY <1>3, <2>3, <2>5
    <3> QED BY <1>3, <2>1, <2>5, <3>1
  <2> QED BY <2>4, <2>5
<1>9. CalculateRemaining(write.original, view.operations \cup {op}) = left
  <2>1. /\ Amounted(view.operations \cup {op})
        /\ CalculateRemaining(view.original, view.operations \cup {op}) =
             remaining + GetDebtDelta(in.type, amount)
    <3>1. op \notin view.operations /\ op.amount \in Int
      BY <1>2, <1>3, <1>6
    <3>2. /\ Amounted(view.operations \cup {op})
          /\ CalculateRemaining(view.original, view.operations \cup {op}) =
               CalculateRemaining(view.original, view.operations) + GetDebtDelta(op.type, op.amount)
      BY <3>1, RemainingAdd
    <3> QED BY <1>2, <3>2
  <2>2. GetDebtDelta(in.type, amount) \in Int
    BY <1>3, DeltaInt
  <2> HIDE DEF amount, excess, after
  <2>3. write.original \in Int
    BY <1>3, <1>5
  <2>4. CalculateRemaining(write.original, view.operations \cup {op}) =
          CalculateRemaining(view.original, view.operations \cup {op}) + write.original - view.original
    BY <2>1, <2>3, RemainingShift
  <2> QED BY <1>3, <1>5, <2>1, <2>2, <2>3, <2>4
<1>10. left \in Int
  BY <1>3, DeltaInt
<1> HIDE DEF left, amount, excess, after, clamp
<1>11. Records(view, write, in)
  <2>1. op.id = recorded + 1 /\ op.amount \in Int /\ Added(write) = {op}
    BY <1>2, <1>3, <1>6
  <2>2. write.original \in Int /\ write.original >= view.original
    BY <1>3, <1>5, <1>8
  <2>3. write.status = "Active" \/ in.resolution = "None" => write.original = view.original
    BY <1>3, <1>5, <1>8, <1>10
  <2>4. CalculateRemaining(write.original, view.operations \cup {op}) >= 0
    BY <1>8, <1>9
  <2>5. write.status = "Closed" =>
             /\ CalculateRemaining(write.original, view.operations \cup {op}) = 0
             /\ \A t \in Templates : write.templates[t] # "on"
    BY <1>5, <1>9
  <2> QED BY <1>5, <2>1, <2>2, <2>3, <2>4, <2>5 DEF Records
<1> QED BY <1>11 DEF write

-----------------------------------------------------------------------------
(* What a save keeps.                                                      *)

\* What an exact request saves is what the rows become.
RowsBecome(d, read, write, removed, added) ==
    /\ d \in Debts /\ Exists(d) /\ initial' = initial
    /\ recorded' = recorded + Cardinality(added)
    /\ debt'[d].original = write.original /\ debt'[d].status = write.status
    /\ operations'[d] = {op \in operations[d] : op.id \notin removed} \cup added
    /\ \A t \in Templates : template'[d][t] = "on" => write.templates[t] = "on"
    /\ OnlyOff(read, write) => \A t \in Templates : template'[d][t] = "on" => template[d][t] = "on"
    /\ DOMAIN operations' = Debts
    /\ \A e \in Debts \ {d} : /\ debt'[e] = debt[e] /\ operations'[e] = operations[e]
                              /\ template'[e] = template[e]

\* The rows become that when what the request read is exact.
LEMMA SavedRows ==
    ASSUME Typed, Numbers, NEW s \in Actors, Busy(s), NEW d, d = session[s].debt,
           NEW read, Exact(read, d),
           NEW write, NEW removed, NEW added, Saved(s, read, write, removed, added)
    PROVE  RowsBecome(d, read, write, removed, added)
<1>1. d \in Debts /\ Exists(d) /\ initial' = initial /\ recorded' = recorded + Cardinality(added)
  BY DEF Saved, Typed, Busy
<1>2. debt'[d].original = write.original /\ debt'[d].status = write.status
  BY <1>1 DEF Saved, Typed, Exact
<1>3. operations'[d] = {op \in operations[d] : op.id \notin removed} \cup added
  BY <1>1 DEF Saved, Numbers
<1>4. \A t \in Templates : template'[d][t] = IF write.templates[t] = read.templates[t]
                                            THEN template[d][t] ELSE write.templates[t]
  BY <1>1 DEF Saved, Typed
<1>5. DOMAIN operations' = Debts
  BY DEF Saved, Numbers
<1>6. \A e \in Debts \ {d} : debt'[e] = debt[e] /\ operations'[e] = operations[e] /\ template'[e] = template[e]
  BY <1>1 DEF Saved, Typed, Numbers
<1>7. \A t \in Templates : template'[d][t] = "on" => write.templates[t] = "on"
  BY <1>4 DEF Exact, TemplatesSeen
<1>8. OnlyOff(read, write) => \A t \in Templates : template'[d][t] = "on" => template[d][t] = "on"
  BY <1>4 DEF OnlyOff
<1> QED BY <1>1, <1>2, <1>3, <1>5, <1>6, <1>7, <1>8 DEF RowsBecome

\* A request that ends leaves the others as they are.
LEMMA Ended ==
    ASSUME Typed, NEW s \in Actors, End(s)
    PROVE  /\ \A r \in Actors : session'[r] = IF r = s THEN Resting ELSE session[r]
           /\ DOMAIN lock' = Debts
           /\ \A d \in Debts : \A r \in Actors : r # s /\ lock[d] = r => lock'[d] = r
BY DEF End, Typed

\* A save that adds one operation at most and closes the debt only repaid and without payments.
SavesWell(d, write, added) ==
    /\ IsView(write) /\ write.status \in {"Active", "Closed"} /\ write.original \in Int
    /\ added = {} \/ \E op : added = {op} /\ op.id = recorded + 1 /\ op.amount \in Int
    /\ write.status = "Closed" =>
          /\ CalculateRemaining(write.original, operations'[d]) = 0
          /\ \A t \in Templates : write.templates[t] # "on"

\* A save that adds to an active debt and raises its original amount only to close it: what a
\* pass tracks of the debt stays true of it.
Grows(d, read, write, removed) ==
    /\ removed = {} /\ read.status = "Active" /\ OnlyOff(read, write)
    /\ write.original >= read.original
    /\ write.status = "Active" => write.original = read.original
    /\ write.operations = operations'[d]

\* The save of an exact request keeps the book, when no pass tracks the debt or the save grows it.
LEMMA SaveKeepsBook ==
    ASSUME Inv, Inv', Book, NEW s \in Actors, Busy(s), End(s),
           NEW d, d = session[s].debt, NEW read, read = session[s].read, Exact(read, d),
           NEW write, NEW removed, NEW added, Saved(s, read, write, removed, added),
           SavesWell(d, write, added),
           \/ UntrackedBy(d) /\ pass' = pass
           \/ /\ Grows(d, read, write, removed)
              /\ \A w \in Workers : \A v \in pass'[w].tracked :
                    v \in pass[w].tracked \/ v = [debt |-> d, view |-> write]
    PROVE  Book' /\ RowsBecome(d, read, write, removed, added)
<1> USE DEF Busy
<1>0. RowsBecome(d, read, write, removed, added)
  BY SavedRows DEF Inv, Book
<1>1. /\ d \in Debts /\ Exists(d) /\ initial' = initial
      /\ recorded' = recorded + Cardinality(added)
      /\ debt'[d].original = write.original /\ debt'[d].status = write.status
      /\ operations'[d] = {op \in operations[d] : op.id \notin removed} \cup added
      /\ \A t \in Templates : template'[d][t] = "on" => write.templates[t] = "on"
      /\ OnlyOff(read, write) =>
           \A t \in Templates : template'[d][t] = "on" => template[d][t] = "on"
      /\ DOMAIN operations' = Debts
      /\ \A e \in Debts \ {d} : debt'[e] = debt[e] /\ operations'[e] = operations[e]
                                /\ template'[e] = template[e]
  BY <1>0 DEF RowsBecome
<1>2. /\ \A r \in Actors : session'[r] = IF r = s THEN Resting ELSE session[r]
      /\ DOMAIN lock' = Debts
      /\ \A e \in Debts : \A r \in Actors : r # s /\ lock[e] = r => lock'[e] = r
  BY Ended DEF Inv
<1>3. /\ write.status \in {"Active", "Closed"} /\ write.original \in Int
      /\ added = {} \/ \E op : added = {op} /\ op.id = recorded + 1 /\ op.amount \in Int
      /\ write.status = "Closed" =>
            /\ CalculateRemaining(write.original, operations'[d]) = 0
            /\ \A t \in Templates : write.templates[t] # "on"
  BY DEF SavesWell
<1>4. Numbers'
  <2>1. recorded \in Nat
    BY DEF Book, Numbers
  <2>2. /\ IsFiniteSet(added)
        /\ recorded' \in Nat /\ recorded' >= recorded
        /\ \A op \in added : op.id \in 1..recorded' /\ op.id > recorded /\ op.amount \in Int
        /\ \A p, q \in added : p = q
    <3>1. CASE added = {}
      BY <1>1, <2>1, <3>1, FS_EmptySet
    <3>2. CASE added # {}
      <4> PICK op : added = {op} /\ op.id = recorded + 1 /\ op.amount \in Int BY <1>3, <3>2
      <4>1. IsFiniteSet({op}) /\ Cardinality({op}) = 1
        BY FS_Singleton
      <4> QED BY <1>1, <2>1, <4>1
    <3> QED BY <3>1, <3>2
  <2> DEFINE kept == {op \in operations[d] : op.id \notin removed}
  <2>3. Amounted(operations'[d])
    <3>1. IsFiniteSet(kept)
      BY <1>1, FS_Subset DEF Book, Numbers, Amounted
    <3>2. IsFiniteSet(operations'[d])
      <4>1. operations'[d] = kept \cup added
        BY <1>1
      <4> HIDE DEF kept
      <4> QED BY <2>2, <3>1, <4>1, FS_Union
    <3>3. \A op \in operations'[d] : op.amount \in Int
      BY <1>1, <2>2 DEF Book, Numbers, Amounted
    <3> QED BY <3>2, <3>3 DEF Amounted
  <2>4. /\ \A op \in operations'[d] : op.id \in 1..recorded'
        /\ \A p, q \in operations'[d] : p.id = q.id => p = q
    BY <1>1, <2>1, <2>2 DEF Book, Numbers
  <2>5. \A e \in Debts \ {d} : \A op \in operations'[e] : op.id \in 1..recorded'
    BY <1>1, <2>1, <2>2 DEF Book, Numbers
  <2> QED BY <1>1, <1>2, <1>3, <2>1, <2>2, <2>3, <2>4, <2>5 DEF Book, Numbers
<1>5. \A e \in Debts : Exists(e)' <=> Exists(e)
  BY <1>1, <1>3 DEF Exists
<1>6. Statuses'
  BY <1>1, <1>3, <1>5 DEF Book, Statuses
<1>7. OneDebtEach'
  <2>1. \A r \in Actors : session'[r] # Resting => r # s /\ session'[r] = session[r] /\ session[r].debt \in Debts
    BY <1>2 DEF Inv, Typed
  <2> QED BY <1>2, <1>5, <2>1 DEF Book, OneDebtEach
<1>8. \A r \in Actors : session'[r] # Resting =>
        /\ r # s /\ session'[r] = session[r]
        /\ session[r].debt \in Debts \ {d}
  BY <1>2 DEF Inv, Typed, Book, OneDebtEach
<1>9. \A w \in Workers : \A v \in pass'[w].tracked :
        \/ v \in pass[w].tracked /\ (v.debt # d \/ Grows(d, read, write, removed))
        \/ v.debt = d /\ v.view = write /\ Grows(d, read, write, removed)
  BY DEF UntrackedBy
<1>10. UserReads'
  <2> SUFFICES ASSUME NEW r \in Users, (session[r] # Resting)'
               PROVE  (/\ session[r].kind \in UserKinds \cap Kinds
                       /\ InputTyped(session[r])
                       /\ Exact(session[r].read, session[r].debt)
                       /\ session[r].kind \in Unlocked => \A x \in Actors : x # r => ~Busy(x)
                       /\ session[r].kind \in Unlocked \cup {"UpdateOperation"} => UntrackedBy(session[r].debt))'
    BY DEF UserReads
  <2>1. session'[r] = session[r] /\ session[r].debt \in Debts \ {d} /\ r # s /\ r \in Actors
    BY <1>8 DEF Actors
  <2>2. /\ session[r].kind \in UserKinds \cap Kinds /\ InputTyped(session[r])
        /\ Exact(session[r].read, session[r].debt)
        /\ session[r].kind \notin Unlocked
        /\ session[r].kind \in Unlocked \cup {"UpdateOperation"} => UntrackedBy(session[r].debt)
    BY <1>8, <2>1 DEF Book, UserReads
  <2>3. Exact(session[r].read, session[r].debt)'
    BY <1>1, <2>1, <2>2 DEF Exact, TemplatesSeen
  <2>4. UntrackedBy(session[r].debt) => UntrackedBy(session[r].debt)'
    BY <1>9, <2>1 DEF UntrackedBy
  <2>5. InputTyped(session[r])'
    BY <2>1, <2>2 DEF InputTyped
  <2> QED BY <2>1, <2>2, <2>3, <2>4, <2>5
<1>11. WorkerReads'
  <2> SUFFICES ASSUME NEW w \in Workers, (session[w] # Resting)'
               PROVE  (/\ session[w].kind = "Automatic" /\ InputTyped(session[w])
                       /\ Sees(session[w].read, session[w].debt)
                       /\ session[w].read.operations = operations[session[w].debt])'
    BY DEF WorkerReads
  <2>1. session'[w] = session[w] /\ session[w].debt \in Debts \ {d}
    BY <1>8 DEF Actors
  <2>2. /\ session[w].kind = "Automatic" /\ InputTyped(session[w])
        /\ Sees(session[w].read, session[w].debt)
        /\ session[w].read.operations = operations[session[w].debt]
    BY <1>8, <2>1 DEF Book, WorkerReads
  <2>3. Sees(session[w].read, session[w].debt)'
    BY <1>1, <2>1, <2>2 DEF Sees, TemplatesSeen
  <2>4. InputTyped(session[w])'
    BY <2>1, <2>2 DEF InputTyped
  <2> QED BY <1>1, <2>1, <2>2, <2>3, <2>4
<1>12. Tracks'
  <2> SUFFICES ASSUME NEW w \in Workers, NEW v \in pass'[w].tracked
               PROVE  /\ v.debt \in Debts /\ debt'[v.debt].status # "new"
                      /\ Exists(v.debt)' => Sees(v.view, v.debt)'
    BY DEF Tracks
  <2>1. CASE v \in pass[w].tracked /\ v.debt # d
    <3>1. /\ v.debt \in Debts /\ debt[v.debt].status # "new"
          /\ Exists(v.debt) => Sees(v.view, v.debt)
      BY <2>1 DEF Book, Tracks
    <3>2. Sees(v.view, v.debt) => Sees(v.view, v.debt)'
      BY <1>1, <2>1, <3>1 DEF Sees, TemplatesSeen
    <3> QED BY <1>1, <1>5, <2>1, <3>1, <3>2
  <2>2. CASE v \in pass[w].tracked /\ v.debt = d /\ Grows(d, read, write, removed)
    <3>1. Sees(v.view, d)
      BY <1>1, <2>2 DEF Book, Tracks
    <3>2. /\ debt[d].status = "Active" /\ removed = {} /\ write.original >= debt[d].original
          /\ write.status = "Active" => write.original = debt[d].original
          /\ \A t \in Templates : template'[d][t] = "on" => template[d][t] = "on"
      BY <1>1, <2>2 DEF Grows, Exact
    <3>3. debt[d].original \in Int
      BY <1>1 DEF Book, Numbers
    <3>4. /\ v.view.original \in Int /\ v.view.original <= debt'[d].original
          /\ debt'[d].status = "Active" => v.view.original = debt'[d].original /\ v.view.status = "Active"
      BY <1>1, <1>3, <3>1, <3>2, <3>3 DEF Sees
    <3>5. v.view.operations \subseteq operations'[d] /\ TemplatesSeen(v.view, d)'
      BY <1>1, <3>1, <3>2 DEF Sees, TemplatesSeen
    <3>6. Sees(v.view, d)'
      BY <3>4, <3>5 DEF Sees
    <3> QED BY <1>1, <1>3, <2>2, <3>6
  <2>3. CASE v.debt = d /\ v.view = write /\ Grows(d, read, write, removed)
    <3>1. TemplatesSeen(write, d)'
      BY <1>1 DEF TemplatesSeen
    <3>2. Sees(write, d)'
      BY <1>1, <1>3, <2>3, <3>1 DEF Sees, Grows
    <3> QED BY <1>1, <1>3, <2>3, <3>2
  <2> QED BY <1>9, <2>1, <2>2, <2>3
<1>13. ClosedMeansRepaid'
  BY <1>1, <1>3 DEF Book, ClosedMeansRepaid, Remaining
<1>14. ClosedStopsAutomation'
  BY <1>1, <1>3 DEF Book, ClosedStopsAutomation
<1> QED BY <1>0, <1>4, <1>6, <1>7, <1>10, <1>11, <1>12, <1>13, <1>14 DEF Book

-----------------------------------------------------------------------------
(* The saves of requests.                                                  *)

\* No debt that is new, or not overpaid, becomes overpaid.
Covered ==
    \A e \in Debts : Exists(e)' /\ (Exists(e) => Remaining(e) >= 0) => Remaining(e)' >= 0

\* No debt is deleted, and the account's initial balance stays.
Lives == initial' = initial /\ \A e \in Debts : Exists(e) => Exists(e)'

\* A save covers all debts when it covers its own.
LEMMA RowsCovered ==
    ASSUME NEW d, NEW read, NEW write, NEW removed, NEW added,
           RowsBecome(d, read, write, removed, added), write.status \in {"Active", "Closed"}
    PROVE  /\ Lives
           /\ (Remaining(d) >= 0 => CalculateRemaining(write.original, operations'[d]) >= 0) => Covered
<1>1. \A e \in Debts : Exists(e)' <=> Exists(e)
  BY DEF RowsBecome, Exists
<1>2. \A e \in Debts \ {d} : Remaining(e)' = Remaining(e)
  BY DEF RowsBecome, Remaining
<1>3. Remaining(d)' = CalculateRemaining(write.original, operations'[d]) /\ Exists(d)
  BY DEF RowsBecome, Remaining
<1> QED BY <1>1, <1>2, <1>3 DEF Lives, Covered, RowsBecome

\* What a request of a user knows.
LEMMA UserKnows ==
    ASSUME Inv, Book, NEW s \in Users, Busy(s),
           NEW d, d = session[s].debt, NEW read, read = session[s].read
    PROVE  /\ s \in Actors /\ d \in Debts /\ IsView(read) /\ Exact(read, d) /\ InputTyped(session[s])
           /\ read.original \in Int /\ Amounted(read.operations) /\ recorded \in Nat
           /\ \A op \in read.operations : op.id \in 1..recorded
           /\ session[s].kind \in Unlocked \cup {"UpdateOperation"} => UntrackedBy(d)
<1>1. s \in Actors
  BY DEF Actors
<1>2. d \in Debts /\ IsView(read)
  BY <1>1 DEF Inv, Typed, Busy
<1>3. /\ Exact(read, d) /\ InputTyped(session[s])
      /\ session[s].kind \in Unlocked \cup {"UpdateOperation"} => UntrackedBy(d)
  BY DEF Book, UserReads
<1>4. /\ debt[d].original \in Int /\ Amounted(operations[d]) /\ recorded \in Nat
      /\ \A op \in operations[d] : op.id \in 1..recorded
  BY <1>2 DEF Book, Numbers
<1> QED BY <1>1, <1>2, <1>3, <1>4 DEF Exact

\* A debt that is closed has nothing remaining and no payment on.
LEMMA StatusWrite ==
    ASSUME NEW v, IsView(v), NEW remaining, NEW write, write = ApplyAutomaticStatus(v, remaining)
    PROVE  /\ IsView(write) /\ write.status \in {"Active", "Closed"} /\ write.original = v.original
           /\ write.status = "Closed" => remaining = 0 /\ \A t \in Templates : write.templates[t] # "on"
<1>1. IsView(write) /\ write.status \in {"Active", "Closed"}
  BY StatusSwitchesOff
<1>2. /\ write.original = v.original /\ write.status = IF remaining = 0 THEN "Closed" ELSE "Active"
      /\ remaining = 0 => \A t \in Templates : write.templates[t] # "on"
  BY StatusResult
<1>3. CASE remaining = 0
  BY <1>1, <1>2, <1>3
<1>4. CASE remaining # 0
  BY <1>1, <1>2, <1>4
<1> QED BY <1>3, <1>4

\* An operation recorded on what was read exactly.
LEMMA RecordKeepsBook ==
    ASSUME Inv, Inv', Book, NEW s \in Actors, Busy(s), End(s),
           NEW d, d = session[s].debt, NEW read, read = session[s].read, Exact(read, d),
           read.status = "Active",
           NEW write, NEW in, Records(read, write, in), IsView(write),
           OnlyOff(read, write), write.status \in {"Active", "Closed"},
           Saved(s, read, write, {}, Added(write)),
           \A w \in Workers : \A v \in pass'[w].tracked :
                    v \in pass[w].tracked \/ v = [debt |-> d, view |-> write]
    PROVE  Book' /\ Lives /\ Covered
<1>1. PICK op :
       /\ op.id = recorded + 1 /\ op.amount \in Int /\ Added(write) = {op}
       /\ write.operations = read.operations \cup {op} /\ write.original \in Int
       /\ write.original >= read.original
       /\ CalculateRemaining(write.original, read.operations \cup {op}) >= 0
       /\ write.status = "Closed" =>
             /\ CalculateRemaining(write.original, read.operations \cup {op}) = 0
             /\ \A t \in Templates : write.templates[t] # "on"
       /\ write.status = "Active" \/ in.resolution = "None" => write.original = read.original
  BY DEF Records
<1>2. RowsBecome(d, read, write, {}, {op})
  BY <1>1, SavedRows DEF Inv, Book
<1>3. operations'[d] = read.operations \cup {op}
  BY <1>2 DEF RowsBecome, Exact
<1>4. SavesWell(d, write, {op}) /\ Grows(d, read, write, {})
  BY <1>1, <1>3 DEF SavesWell, Grows
<1>5. Saved(s, read, write, {}, {op})
  BY <1>1
<1>6. Book'
  BY <1>4, <1>5, SaveKeepsBook
<1>7. CalculateRemaining(write.original, operations'[d]) >= 0
  BY <1>1, <1>3
<1> QED BY <1>2, <1>6, <1>7, RowsCovered

\* Adding an operation keeps the book.
LEMMA AddOperationBook ==
    ASSUME Inv, Inv', Book, NEW s \in Users, AddOperation(s)
    PROVE  Book' /\ Lives /\ Covered
<1> PICK d, read, in : d = session[s].debt /\ read = session[s].read /\ in = session[s].input
  OBVIOUS
<1> PICK remaining : remaining = CalculateRemaining(read.original, read.operations)
  OBVIOUS
<1> PICK write : write = WithOperation(read, remaining, in)
  OBVIOUS
<1>1. /\ Busy(s) /\ session[s].kind = "AddOperation"
      /\ Accepts(d, read, remaining, in) /\ Saved(s, read, write, {}, Added(write))
      /\ End(s) /\ pass' = pass
  BY DEF AddOperation, Busy, Working, Resting
<1>2. /\ s \in Actors /\ d \in Debts /\ IsView(read) /\ Exact(read, d) /\ InputTyped(session[s])
      /\ read.original \in Int /\ Amounted(read.operations) /\ recorded \in Nat
      /\ \A op \in read.operations : op.id \in 1..recorded
  BY <1>1, UserKnows
<1>3. in.amount \in Int
  BY <1>1, <1>2 DEF InputTyped
<1>4. AmountsAllowed(Added(write)) /\ read.status = "Active"
  BY <1>1 DEF Saved, Accepts
<1>5. Records(read, write, in)
  BY <1>1, <1>2, <1>3, <1>4, OperationResult
<1>6. IsView(write) /\ OnlyOff(read, write) /\ write.status \in {"Active", "Closed"}
  BY <1>2, OperationSwitchesOff
<1> QED BY <1>1, <1>2, <1>4, <1>5, <1>6, RecordKeepsBook

\* So does replacing one: no pass tracks the debt.
LEMMA UpdateOperationBook ==
    ASSUME Inv, Inv', Book, NEW s \in Users, UpdateOperation(s)
    PROVE  Book' /\ Lives /\ Covered
<1> PICK d, read, in : d = session[s].debt /\ read = session[s].read /\ in = session[s].input
  OBVIOUS
<1> PICK others : others = {op \in read.operations : op.id # in.id}
  OBVIOUS
<1> PICK reopened : reopened = [read EXCEPT !.operations = others, !.status = "Active"]
  OBVIOUS
<1> PICK remaining : remaining = CalculateRemaining(read.original, others)
  OBVIOUS
<1> PICK write : write = WithOperation(reopened, remaining, in)
  OBVIOUS
<1>1. /\ Busy(s) /\ session[s].kind = "UpdateOperation"
      /\ Accepts(d, reopened, remaining, in) /\ Saved(s, read, write, {in.id}, Added(write))
      /\ End(s) /\ pass' = pass
  BY DEF UpdateOperation, Busy, Working, Resting
<1>2. /\ s \in Actors /\ d \in Debts /\ IsView(read) /\ Exact(read, d) /\ InputTyped(session[s])
      /\ read.original \in Int /\ Amounted(read.operations) /\ recorded \in Nat
      /\ \A op \in read.operations : op.id \in 1..recorded
      /\ UntrackedBy(d)
  BY <1>1, UserKnows
<1>3. in.amount \in Int
  BY <1>1, <1>2 DEF InputTyped
<1>4. AmountsAllowed(Added(write))
  BY <1>1 DEF Saved
<1>5. IsView(reopened) /\ reopened.original = read.original /\ reopened.operations = others
  BY <1>2 DEF IsView
<1>6. Amounted(others) /\ \A op \in others : op.id \in 1..recorded
  BY <1>2, FS_Subset DEF Amounted
<1>7. Records(reopened, write, in)
  BY <1>1, <1>2, <1>3, <1>4, <1>5, <1>6, OperationResult
<1>8. IsView(write) /\ write.status \in {"Active", "Closed"}
  BY <1>5, OperationSwitchesOff
<1>9. PICK op :
       /\ op.id = recorded + 1 /\ op.amount \in Int /\ Added(write) = {op}
       /\ write.original \in Int
       /\ CalculateRemaining(write.original, others \cup {op}) >= 0
       /\ write.status = "Closed" =>
             /\ CalculateRemaining(write.original, others \cup {op}) = 0
             /\ \A t \in Templates : write.templates[t] # "on"
  BY <1>5, <1>7 DEF Records
<1>10. Saved(s, read, write, {in.id}, {op})
  BY <1>1, <1>9
<1>11. RowsBecome(d, read, write, {in.id}, {op})
  BY <1>1, <1>2, <1>10, SavedRows DEF Inv, Book
<1>12. operations'[d] = others \cup {op}
  BY <1>2, <1>11 DEF RowsBecome, Exact
<1>13. SavesWell(d, write, {op})
  BY <1>8, <1>9, <1>12 DEF SavesWell
<1>14. Book'
  BY <1>1, <1>2, <1>10, <1>13, SaveKeepsBook
<1>15. CalculateRemaining(write.original, operations'[d]) >= 0
  BY <1>9, <1>12
<1> QED BY <1>8, <1>11, <1>14, <1>15, RowsCovered

\* What is left of the operations when none is added.
Leaves(d, read, removed) ==
    /\ operations'[d] = {op \in read.operations : op.id \notin removed}
    /\ removed = {} => operations'[d] = read.operations
    /\ read.original = debt[d].original /\ read.operations = operations[d]

\* Without an operation added, what the request leaves is what there is.
LEMMA LeftOver ==
    ASSUME Inv, Book, NEW s \in Users, Busy(s),
           NEW d, d = session[s].debt, NEW read, read = session[s].read,
           NEW write, NEW removed, Saved(s, read, write, removed, {})
    PROVE  Leaves(d, read, removed)
<1>1. s \in Actors /\ Exact(read, d)
  BY UserKnows
<1>2. RowsBecome(d, read, write, removed, {})
  BY <1>1, SavedRows DEF Inv, Book
<1>3. operations'[d] = {op \in read.operations : op.id \notin removed}
  BY <1>1, <1>2 DEF RowsBecome, Exact
<1>4. ASSUME removed = {} PROVE operations'[d] = read.operations
  BY <1>3, <1>4
<1> QED BY <1>1, <1>3, <1>4 DEF Exact, Leaves

\* The requests that record nothing compute the status of what they leave.
LEMMA StatusBook ==
    ASSUME Inv, Inv', Book, NEW s \in Users, Busy(s), End(s), pass' = pass,
           session[s].kind \in Unlocked,
           NEW d, d = session[s].debt, NEW read, read = session[s].read,
           NEW write, IsView(write), write.status \in {"Active", "Closed"}, write.original \in Int,
           NEW removed, Saved(s, read, write, removed, {}),
           write.status = "Closed" =>
             /\ CalculateRemaining(write.original, operations'[d]) = 0
             /\ \A t \in Templates : write.templates[t] # "on"
    PROVE  /\ Book' /\ Lives
           /\ (Remaining(d) >= 0 => CalculateRemaining(write.original, operations'[d]) >= 0) => Covered
<1>1. s \in Actors /\ d \in Debts /\ Exact(read, d) /\ UntrackedBy(d)
  BY UserKnows
<1>2. RowsBecome(d, read, write, removed, {})
  BY <1>1, SavedRows DEF Inv, Book
<1>3. SavesWell(d, write, {})
  BY DEF SavesWell
<1>4. Book'
  BY <1>1, <1>3, SaveKeepsBook
<1> QED BY <1>2, <1>4, RowsCovered

\* Deleting an operation keeps the book, but may leave the debt overpaid.
LEMMA DeleteOperationBook ==
    ASSUME Inv, Inv', Book, NEW s \in Users, DeleteOperation(s)
    PROVE  Book' /\ Lives
<1> PICK d, read, id : d = session[s].debt /\ read = session[s].read /\ id = session[s].input.id
  OBVIOUS
<1> PICK others : others = {op \in read.operations : op.id # id}
  OBVIOUS
<1> PICK remaining : remaining = CalculateRemaining(read.original, others)
  OBVIOUS
<1> PICK write : write = ApplyAutomaticStatus(read, remaining)
  OBVIOUS
<1>1. /\ Busy(s) /\ session[s].kind \in Unlocked
      /\ Saved(s, read, write, {id}, {}) /\ End(s) /\ pass' = pass
  BY DEF DeleteOperation, Busy, Working, Resting, Unlocked
<1>2. IsView(read) /\ read.original \in Int
  BY <1>1, UserKnows
<1>3. /\ IsView(write) /\ write.status \in {"Active", "Closed"} /\ write.original = read.original
      /\ write.status = "Closed" => remaining = 0 /\ \A t \in Templates : write.templates[t] # "on"
  BY <1>2, StatusWrite
<1>4. operations'[d] = others
  <2>1. Leaves(d, read, {id})
    BY <1>1, LeftOver
  <2> QED BY <2>1 DEF Leaves
<1> QED BY <1>1, <1>2, <1>3, <1>4, StatusBook

\* Closing and reopening keep it.
LEMMA CloseBook ==
    ASSUME Inv, Inv', Book, NEW s \in Users, Close(s) \/ Reopen(s)
    PROVE  Book' /\ Lives /\ Covered
<1> PICK d, read : d = session[s].debt /\ read = session[s].read
  OBVIOUS
<1>1. Busy(s) /\ session[s].kind \in Unlocked /\ End(s) /\ pass' = pass
  BY DEF Close, Reopen, Busy, Working, Resting, Unlocked
<1>2. IsView(read) /\ read.original \in Int
  BY <1>1, UserKnows
<1>3. PICK write :
        /\ Saved(s, read, write, {}, {})
        /\ IsView(write) /\ write.status \in {"Active", "Closed"} /\ write.original = read.original
        /\ write.status = "Closed" =>
              /\ CalculateRemaining(read.original, read.operations) = 0
              /\ \A t \in Templates : write.templates[t] # "on"
  <2>1. CASE Close(s)
    <3> PICK write : write = ApplyAutomaticStatus(read, 0)
      OBVIOUS
    <3>1. Saved(s, read, write, {}, {}) /\ CalculateRemaining(read.original, read.operations) = 0
      BY <2>1 DEF Close
    <3>2. /\ IsView(write) /\ write.status \in {"Active", "Closed"} /\ write.original = read.original
          /\ write.status = "Closed" => \A t \in Templates : write.templates[t] # "on"
      BY <1>2, StatusWrite
    <3> QED BY <3>1, <3>2
  <2>2. CASE Reopen(s)
    <3> PICK write : write = [read EXCEPT !.status = "Active"]
      OBVIOUS
    <3>1. Saved(s, read, write, {}, {})
      BY <2>2 DEF Reopen
    <3>2. IsView(write) /\ write.status = "Active" /\ write.original = read.original
      BY <1>2 DEF IsView
    <3> QED BY <3>1, <3>2
  <2> QED BY <2>1, <2>2
<1>4. operations'[d] = read.operations /\ read.original = debt[d].original /\ read.operations = operations[d]
  <2>1. Leaves(d, read, {})
    BY <1>1, <1>3, LeftOver
  <2> QED BY <2>1 DEF Leaves
<1>5. CalculateRemaining(write.original, operations'[d]) = Remaining(d)
  BY <1>3, <1>4 DEF Remaining
<1>6. /\ write.original \in Int
      /\ write.status = "Closed" =>
            /\ CalculateRemaining(write.original, operations'[d]) = 0
            /\ \A t \in Templates : write.templates[t] # "on"
  BY <1>2, <1>3, <1>4
<1> QED BY <1>1, <1>3, <1>5, <1>6, StatusBook

\* So does an edit: it refuses an original amount below what is repaid.
LEMMA UpdateBook ==
    ASSUME Inv, Inv', Book, NEW s \in Users, Update(s)
    PROVE  Book' /\ Lives /\ Covered
<1> PICK d, read, in : d = session[s].debt /\ read = session[s].read /\ in = session[s].input
  OBVIOUS
<1> PICK remaining : remaining = CalculateRemaining(in.original, read.operations)
  OBVIOUS
<1>1. /\ Busy(s) /\ session[s].kind = "Update" /\ End(s) /\ pass' = pass /\ remaining >= 0
  BY DEF Update, Busy, Working, Resting
<1>2. IsView(read) /\ in.original \in Int
  BY <1>1, UserKnows DEF InputTyped
<1>3. \E view : /\ IsView(view) /\ view.original = in.original
                /\ Saved(s, read, ApplyAutomaticStatus(view, remaining), {}, {})
  <2>1. \E t, payment :
          Saved(s, read, ApplyAutomaticStatus([read EXCEPT !.original = in.original,
                                                          !.templates[t] = payment], remaining), {}, {})
    BY Zenon DEF Update
  <2> PICK t, payment :
        Saved(s, read, ApplyAutomaticStatus([read EXCEPT !.original = in.original,
                                                        !.templates[t] = payment], remaining), {}, {})
    BY <2>1
  <2> PICK view : view = [read EXCEPT !.original = in.original, !.templates[t] = payment]
    OBVIOUS
  <2>2. IsView(view) /\ view.original = in.original
    BY <1>2 DEF IsView
  <2> QED BY <2>2
<1>4. PICK view : /\ IsView(view) /\ view.original = in.original
                  /\ Saved(s, read, ApplyAutomaticStatus(view, remaining), {}, {})
  BY <1>3
<1> PICK write : write = ApplyAutomaticStatus(view, remaining)
  OBVIOUS
<1>5. Saved(s, read, write, {}, {})
  BY <1>4
<1>6. /\ IsView(write) /\ write.status \in {"Active", "Closed"} /\ write.original = in.original
      /\ write.status = "Closed" => remaining = 0 /\ \A u \in Templates : write.templates[u] # "on"
  BY <1>4, StatusWrite
<1>7. operations'[d] = read.operations
  <2>1. Leaves(d, read, {})
    BY <1>1, <1>5, LeftOver
  <2> QED BY <2>1 DEF Leaves
<1>8. /\ write.original \in Int /\ session[s].kind \in Unlocked
      /\ CalculateRemaining(write.original, operations'[d]) >= 0
      /\ write.status = "Closed" =>
            /\ CalculateRemaining(write.original, operations'[d]) = 0
            /\ \A t \in Templates : write.templates[t] # "on"
  BY <1>1, <1>2, <1>6, <1>7 DEF Unlocked
<1> QED BY <1>1, <1>5, <1>6, <1>8, StatusBook

-----------------------------------------------------------------------------
(* Steps that write less.                                                  *)

\* Steps that end requests, switch off, and forget.
LEMMA LessBook ==
    ASSUME Inv, Book, UNCHANGED <<debt, operations, initial, recorded>>,
           \A d \in Debts, t \in Templates : template'[d][t] = "on" => template[d][t] = "on",
           \A s \in Actors : session'[s] \in {session[s], Resting},
           DOMAIN lock' = Debts,
           \A d \in Debts, s \in Actors : session'[s] # Resting /\ lock[d] = s => lock'[d] = s,
           \A w \in Workers : pass'[w].tracked \subseteq pass[w].tracked
    PROVE  Book' /\ Lives /\ Covered
<1> USE DEF Busy
<1>1. \A s \in Actors : session'[s] # Resting =>
        session'[s] = session[s] /\ session[s] # Resting /\ session[s].debt \in Debts
  BY DEF Inv, Typed
<1>2. \A d : Exists(d)' <=> Exists(d)
  BY DEF Exists
<1>3. \A d : Remaining(d)' = Remaining(d)
  BY DEF Remaining
<1>4. \A v : \A d \in Debts : /\ Exact(v, d) => Exact(v, d)'
                              /\ Sees(v, d) => Sees(v, d)'
  BY DEF Exact, Sees, TemplatesSeen
<1>5. \A d : UntrackedBy(d) => UntrackedBy(d)'
  BY DEF UntrackedBy
<1>6. Numbers' /\ Statuses'
  BY <1>2 DEF Book, Numbers, Statuses
<1>7. OneDebtEach'
  BY <1>1, <1>2 DEF Book, OneDebtEach
<1>8. UserReads'
  <2> SUFFICES ASSUME NEW s \in Users, (session[s] # Resting)'
               PROVE  (/\ session[s].kind \in UserKinds \cap Kinds
                       /\ InputTyped(session[s])
                       /\ Exact(session[s].read, session[s].debt)
                       /\ session[s].kind \in Unlocked => \A r \in Actors : r # s => ~Busy(r)
                       /\ session[s].kind \in Unlocked \cup {"UpdateOperation"} => UntrackedBy(session[s].debt))'
    BY DEF UserReads
  <2> PICK k : k = session[s]
    OBVIOUS
  <2>1. s \in Actors /\ session'[s] = k /\ session[s] = k /\ k.debt \in Debts /\ k # Resting
    BY <1>1 DEF Actors
  <2>2. /\ k.kind \in UserKinds \cap Kinds /\ InputTyped(k) /\ Exact(k.read, k.debt)
        /\ k.kind \in Unlocked => \A r \in Actors : r # s => session[r] = Resting
        /\ k.kind \in Unlocked \cup {"UpdateOperation"} => UntrackedBy(k.debt)
    BY <2>1 DEF Book, UserReads
  <2>3. Exact(k.read, k.debt)' /\ (UntrackedBy(k.debt) => UntrackedBy(k.debt)')
    BY <1>4, <1>5, <2>1, <2>2
  <2>4. k.kind \in Unlocked => \A r \in Actors : r # s => session'[r] = Resting
    BY <2>2
  <2>5. Exact(session[s].read, session[s].debt)' /\ InputTyped(session[s])'
    BY <2>1, <2>2, <2>3 DEF Exact, TemplatesSeen, InputTyped
  <2>6. k.kind \in Unlocked \cup {"UpdateOperation"} => UntrackedBy(session[s].debt)'
    BY <2>1, <2>2, <2>3 DEF UntrackedBy
  <2> QED BY <2>1, <2>2, <2>4, <2>5, <2>6
<1>9. WorkerReads'
  <2> SUFFICES ASSUME NEW w \in Workers, (session[w] # Resting)'
               PROVE  (/\ session[w].kind = "Automatic" /\ InputTyped(session[w])
                       /\ Sees(session[w].read, session[w].debt)
                       /\ session[w].read.operations = operations[session[w].debt])'
    BY DEF WorkerReads
  <2> PICK k : k = session[w]
    OBVIOUS
  <2>1. session'[w] = k /\ session[w] = k /\ k.debt \in Debts /\ k # Resting
    BY <1>1 DEF Actors
  <2>2. /\ k.kind = "Automatic" /\ InputTyped(k) /\ Sees(k.read, k.debt)
        /\ k.read.operations = operations[k.debt]
    BY <2>1 DEF Book, WorkerReads
  <2>3. Sees(k.read, k.debt)'
    BY <1>4, <2>1, <2>2
  <2>4. Sees(session[w].read, session[w].debt)' /\ InputTyped(session[w])'
    BY <2>1, <2>2, <2>3 DEF Sees, TemplatesSeen, InputTyped
  <2> QED BY <2>1, <2>2, <2>4
<1>10. Tracks'
  BY <1>2, <1>4 DEF Book, Tracks
<1>11. ClosedMeansRepaid' /\ ClosedStopsAutomation'
  BY <1>3 DEF Book, ClosedMeansRepaid, ClosedStopsAutomation
<1> QED BY <1>2, <1>3, <1>6, <1>7, <1>8, <1>9, <1>10, <1>11 DEF Book, Lives, Covered

\* A request that ends without a write.
LEMMA LessSteps ==
    ASSUME Inv, Book,
           \/ UNCHANGED vars
           \/ \E s \in Users : Fail(s)
           \/ \E s \in Users, d \in Debts, t \in Templates : DeleteTemplate(s, d, t)
           \/ \E w \in Workers : StartPass(w) \/ EndPass(w) \/ FailOccurrence(w)
    PROVE  Book' /\ Lives /\ Covered
<1>1. DOMAIN lock = Debts
  BY DEF Book, Numbers
<1>2. CASE UNCHANGED vars
  BY <1>1, <1>2, LessBook DEF vars
<1>3. ASSUME NEW s \in Users, Fail(s) PROVE Book' /\ Lives /\ Covered
  <2>1. s \in Actors /\ End(s) /\ UNCHANGED <<debt, template, operations, initial, pass, recorded>>
    BY <1>3 DEF Fail, Actors
  <2>2. /\ \A r \in Actors : session'[r] = IF r = s THEN Resting ELSE session[r]
        /\ DOMAIN lock' = Debts
        /\ \A d \in Debts : \A r \in Actors : r # s /\ lock[d] = r => lock'[d] = r
    BY <2>1, Ended DEF Inv
  <2> QED BY <2>1, <2>2, LessBook
<1>4. ASSUME NEW s \in Users, NEW d \in Debts, NEW t \in Templates, DeleteTemplate(s, d, t)
      PROVE  Book' /\ Lives /\ Covered
  <2>1. /\ UNCHANGED <<debt, operations, initial, lock, session, pass, recorded>>
        /\ template' = [template EXCEPT ![d][t] = "absent"]
    BY <1>4 DEF DeleteTemplate
  <2>2. \A e \in Debts, u \in Templates : template'[e][u] = "on" => template[e][u] = "on"
    BY <2>1 DEF Inv, Typed
  <2> QED BY <1>1, <2>1, <2>2, LessBook
<1>5. ASSUME NEW w \in Workers, StartPass(w) \/ EndPass(w) PROVE Book' /\ Lives /\ Covered
  <2>1. /\ UNCHANGED <<debt, template, operations, initial, lock, session, recorded>>
        /\ \A x \in Workers : pass'[x].tracked \subseteq pass[x].tracked
    BY <1>5 DEF StartPass, EndPass, NoPass, Inv, Typed
  <2> QED BY <1>1, <2>1, LessBook
<1>6. ASSUME NEW w \in Workers, FailOccurrence(w) PROVE Book' /\ Lives /\ Covered
  <2>1. /\ w \in Actors /\ End(w) /\ UNCHANGED <<debt, template, operations, initial, recorded>>
        /\ \A x \in Workers : pass'[x].tracked \subseteq pass[x].tracked
    BY <1>6 DEF FailOccurrence, Actors, Inv, Typed
  <2>2. /\ \A r \in Actors : session'[r] = IF r = w THEN Resting ELSE session[r]
        /\ DOMAIN lock' = Debts
        /\ \A d \in Debts : \A r \in Actors : r # w /\ lock[d] = r => lock'[d] = r
    BY <2>1, Ended DEF Inv
  <2> QED BY <2>1, <2>2, LessBook
<1> QED BY <1>2, <1>3, <1>4, <1>5, <1>6

-----------------------------------------------------------------------------
(* Debts that come and go.                                                 *)

\* A new debt has no operations, and nobody has read it.
LEMMA CreateBook ==
    ASSUME Inv, Inv', Book, NEW s \in Users, NEW d \in Debts, NEW original \in Nat, NEW payment,
           Create(s, d, original, payment)
    PROVE  Book' /\ Lives /\ Covered
<1> USE DEF Busy
<1>1. /\ UNCHANGED <<operations, initial, lock, session, pass, recorded>>
      /\ debt[d].status = "new"
      /\ debt' = [debt EXCEPT ![d] = [original |-> original, status |-> "Active"]]
  BY DEF Create
<1>2. /\ debt'[d].original = original /\ debt'[d].status = "Active"
      /\ \A e \in Debts \ {d} : debt'[e] = debt[e]
  BY <1>1 DEF Inv, Typed
<1>3. \A e \in Debts \ {d} : template'[e] = template[e]
  <2>1. CASE template' = template
    BY <2>1
  <2>2. CASE \E t \in Templates : template' = [template EXCEPT ![d][t] = payment]
    BY <2>2 DEF Inv, Typed
  <2> QED BY <2>1, <2>2 DEF Create
<1>4. /\ ~Exists(d) /\ Exists(d)'
      /\ \A e \in Debts \ {d} : Exists(e)' <=> Exists(e)
  BY <1>1, <1>2 DEF Exists
<1>5. operations[d] = {}
  BY <1>4 DEF Book, Statuses
<1>6. \A r \in Actors : session[r] # Resting => session[r].debt \in Debts \ {d}
  BY <1>4 DEF Inv, Typed, Book, OneDebtEach
<1>7. Numbers' /\ Statuses'
  BY <1>1, <1>2, <1>4, <1>5 DEF Book, Numbers, Statuses
<1>8. OneDebtEach'
  BY <1>1, <1>4, <1>6 DEF Book, OneDebtEach
<1>9. \A v : \A e \in Debts \ {d} : (Exact(v, e) => Exact(v, e)') /\ (Sees(v, e) => Sees(v, e)')
  BY <1>1, <1>2, <1>3 DEF Exact, Sees, TemplatesSeen
<1>10. UserReads'
  <2> SUFFICES ASSUME NEW r \in Users, (session[r] # Resting)'
               PROVE  (/\ session[r].kind \in UserKinds \cap Kinds
                       /\ InputTyped(session[r])
                       /\ Exact(session[r].read, session[r].debt)
                       /\ session[r].kind \in Unlocked => \A x \in Actors : x # r => ~Busy(x)
                       /\ session[r].kind \in Unlocked \cup {"UpdateOperation"} => UntrackedBy(session[r].debt))'
    BY DEF UserReads
  <2>1. r \in Actors /\ session'[r] = session[r] /\ session[r] # Resting /\ session[r].debt \in Debts \ {d}
    BY <1>1, <1>6 DEF Actors
  <2>2. Exact(session[r].read, session[r].debt)
    BY <2>1 DEF Book, UserReads
  <2>3. Exact(session[r].read, session[r].debt)'
    BY <1>1, <1>2, <1>3, <2>1, <2>2 DEF Exact, TemplatesSeen
  <2> QED BY <1>1, <2>1, <2>3 DEF Book, UserReads, UntrackedBy, InputTyped
<1>11. WorkerReads'
  <2> SUFFICES ASSUME NEW w \in Workers, (session[w] # Resting)'
               PROVE  (/\ session[w].kind = "Automatic" /\ InputTyped(session[w])
                       /\ Sees(session[w].read, session[w].debt)
                       /\ session[w].read.operations = operations[session[w].debt])'
    BY DEF WorkerReads
  <2>1. w \in Actors /\ session'[w] = session[w] /\ session[w] # Resting /\ session[w].debt \in Debts \ {d}
    BY <1>1, <1>6 DEF Actors
  <2>2. Sees(session[w].read, session[w].debt)
    BY <2>1 DEF Book, WorkerReads
  <2>3. Sees(session[w].read, session[w].debt)'
    BY <1>1, <1>2, <1>3, <2>1, <2>2 DEF Sees, TemplatesSeen
  <2> QED BY <1>1, <2>1, <2>3 DEF Book, WorkerReads, InputTyped
<1>12. Tracks'
  BY <1>1, <1>2, <1>4, <1>9 DEF Book, Tracks
<1>13. ClosedMeansRepaid' /\ ClosedStopsAutomation'
  BY <1>1, <1>2, <1>3 DEF Book, ClosedMeansRepaid, ClosedStopsAutomation, Remaining
<1>14. Remaining(d)' = original
  BY <1>1, <1>2, <1>5, RemainingNone DEF Remaining
<1>15. \A e \in Debts \ {d} : Remaining(e)' = Remaining(e)
  BY <1>1, <1>2 DEF Remaining
<1>16. Covered
  BY <1>4, <1>14, <1>15 DEF Covered
<1>17. Lives
  BY <1>1, <1>4 DEF Lives
<1> QED BY <1>7, <1>8, <1>10, <1>11, <1>12, <1>13, <1>16, <1>17 DEF Book

\* A deletion ends the debt for everyone.
LEMMA DeleteBook ==
    ASSUME Inv, Inv', Book, NEW s \in Users, Delete(s)
    PROVE  Book' /\ Covered
<1> USE DEF Busy
<1> PICK d : d = session[s].debt
  OBVIOUS
<1>1. /\ s \in Actors /\ d \in Debts /\ End(s) /\ pass' = pass /\ recorded' = recorded
      /\ debt' = [debt EXCEPT ![d].status = "deleted"]
      /\ template' = [template EXCEPT ![d] = [t \in Templates |-> "absent"]]
      /\ operations' = [operations EXCEPT ![d] = {}]
      /\ session[s] # Resting
  BY DEF Delete, Working, Resting, Inv, Typed, Actors
<1>2. /\ debt'[d].status = "deleted" /\ debt'[d].original = debt[d].original /\ operations'[d] = {}
      /\ DOMAIN operations' = Debts
      /\ \A e \in Debts \ {d} : /\ debt'[e] = debt[e] /\ operations'[e] = operations[e]
                                /\ template'[e] = template[e]
  BY <1>1 DEF Inv, Typed, Book, Numbers
<1>3. /\ ~Exists(d)'
      /\ \A e \in Debts \ {d} : Exists(e)' <=> Exists(e)
  BY <1>1, <1>2 DEF Exists
<1>4. /\ \A r \in Actors : session'[r] = IF r = s THEN Resting ELSE session[r]
      /\ DOMAIN lock' = Debts
      /\ \A e \in Debts : \A r \in Actors : r # s /\ lock[e] = r => lock'[e] = r
  BY <1>1, Ended DEF Inv
<1>5. \A r \in Actors : session'[r] # Resting =>
        r # s /\ session'[r] = session[r] /\ session[r] # Resting /\ session[r].debt \in Debts \ {d}
  BY <1>1, <1>4 DEF Inv, Typed, Book, OneDebtEach
<1>6. Numbers' /\ Statuses'
  BY <1>1, <1>2, <1>3, <1>4, FS_EmptySet DEF Book, Numbers, Statuses, Amounted
<1>7. OneDebtEach'
  BY <1>3, <1>4, <1>5 DEF Book, OneDebtEach
<1>8. \A v : \A e \in Debts \ {d} : Sees(v, e) => Sees(v, e)'
  BY <1>1, <1>2 DEF Sees, TemplatesSeen
<1>9. UserReads'
  <2> SUFFICES ASSUME NEW r \in Users, (session[r] # Resting)'
               PROVE  (/\ session[r].kind \in UserKinds \cap Kinds
                       /\ InputTyped(session[r])
                       /\ Exact(session[r].read, session[r].debt)
                       /\ session[r].kind \in Unlocked => \A x \in Actors : x # r => ~Busy(x)
                       /\ session[r].kind \in Unlocked \cup {"UpdateOperation"} => UntrackedBy(session[r].debt))'
    BY DEF UserReads
  <2>1. r \in Actors /\ session'[r] = session[r] /\ session[r] # Resting /\ session[r].debt \in Debts \ {d}
    BY <1>5 DEF Actors
  <2>2. Exact(session[r].read, session[r].debt)
    BY <2>1 DEF Book, UserReads
  <2>3. Exact(session[r].read, session[r].debt)'
    BY <1>1, <1>2, <2>1, <2>2 DEF Exact, TemplatesSeen
  <2>4. session[r].kind \notin Unlocked
    BY <1>1, <1>5, <2>1 DEF Book, UserReads
  <2> QED BY <1>1, <2>1, <2>3, <2>4 DEF Book, UserReads, UntrackedBy, InputTyped
<1>10. WorkerReads'
  <2> SUFFICES ASSUME NEW w \in Workers, (session[w] # Resting)'
               PROVE  (/\ session[w].kind = "Automatic" /\ InputTyped(session[w])
                       /\ Sees(session[w].read, session[w].debt)
                       /\ session[w].read.operations = operations[session[w].debt])'
    BY DEF WorkerReads
  <2>1. w \in Actors /\ session'[w] = session[w] /\ session[w] # Resting /\ session[w].debt \in Debts \ {d}
    BY <1>5 DEF Actors
  <2>2. Sees(session[w].read, session[w].debt)
    BY <2>1 DEF Book, WorkerReads
  <2>3. Sees(session[w].read, session[w].debt)'
    BY <1>1, <1>2, <2>1, <2>2 DEF Sees, TemplatesSeen
  <2> QED BY <1>1, <1>2, <2>1, <2>3 DEF Book, WorkerReads, InputTyped
<1>11. Tracks'
  BY <1>1, <1>2, <1>3, <1>8 DEF Book, Tracks
<1>12. ClosedMeansRepaid' /\ ClosedStopsAutomation'
  BY <1>1, <1>2 DEF Book, ClosedMeansRepaid, ClosedStopsAutomation, Remaining
<1>13. \A e \in Debts \ {d} : Remaining(e)' = Remaining(e)
  BY <1>2 DEF Remaining
<1>14. Covered
  BY <1>3, <1>13 DEF Covered
<1> QED BY <1>6, <1>7, <1>9, <1>10, <1>11, <1>12, <1>14 DEF Book

-----------------------------------------------------------------------------
(* Reads, and payments of the worker.                                      *)

\* A request that begins on a debt that no other works on.
Begins(s, new) ==
    /\ UNCHANGED <<debt, template, operations, initial, recorded>>
    /\ DOMAIN pass' = Workers
    /\ \A w \in Workers : pass'[w].tracked = pass[w].tracked
    /\ session[s] = Resting
    /\ \A r \in Actors : session'[r] = IF r = s THEN new ELSE session[r]
    /\ DOMAIN lock' = Debts
    /\ \A d \in Debts, r \in Actors : lock[d] = r => lock'[d] = r
    /\ Exists(new.debt) /\ new.debt \in Debts
    /\ Locked(new.kind) => lock'[new.debt] = s
    /\ \A r \in Actors : r # s /\ Busy(r) => session[r].debt # new.debt
    /\ \A r \in Users : Busy(r) => session[r].kind \notin Unlocked

\* A request that has read exactly, or a worker that sees the debt, keeps the book.
LEMMA BeginBook ==
    ASSUME Inv, Book, NEW s \in Actors, NEW new, Begins(s, new),
           s \in Users =>
              /\ new.kind \in UserKinds \cap Kinds
              /\ InputTyped(new) /\ Exact(new.read, new.debt)
              /\ new.kind \in Unlocked => \A r \in Actors : r # s => ~Busy(r)
              /\ new.kind \in Unlocked \cup {"UpdateOperation"} => UntrackedBy(new.debt),
           s \in Workers =>
              /\ new.kind = "Automatic" /\ InputTyped(new)
              /\ Sees(new.read, new.debt)
              /\ new.read.operations = operations[new.debt]
    PROVE  Book' /\ Lives /\ Covered
<1> USE DEF Busy
<1>1. /\ UNCHANGED <<debt, template, operations, initial, recorded>>
      /\ \A w \in Workers : pass'[w].tracked = pass[w].tracked
      /\ session[s] = Resting
      /\ \A r \in Actors : session'[r] = IF r = s THEN new ELSE session[r]
      /\ DOMAIN lock' = Debts
      /\ \A d \in Debts, r \in Actors : lock[d] = r => lock'[d] = r
      /\ Exists(new.debt) /\ new.debt \in Debts
      /\ Locked(new.kind) => lock'[new.debt] = s
      /\ \A r \in Actors : r # s /\ session[r] # Resting => session[r].debt # new.debt
      /\ \A r \in Users : session[r] # Resting => session[r].kind \notin Unlocked
  BY DEF Begins
<1>2. /\ \A d : Exists(d)' <=> Exists(d)
      /\ \A d : Remaining(d)' = Remaining(d)
      /\ \A v, d : (Exact(v, d) <=> Exact(v, d)') /\ (Sees(v, d) <=> Sees(v, d)')
      /\ \A d : UntrackedBy(d) <=> UntrackedBy(d)'
  BY <1>1 DEF Exists, Remaining, Exact, Sees, TemplatesSeen, UntrackedBy
<1>3. Numbers' /\ Statuses'
  BY <1>1, <1>2 DEF Book, Numbers, Statuses
<1>4. OneDebtEach'
  <2> SUFFICES ASSUME NEW r \in Actors, (session[r] # Resting)'
               PROVE  (/\ Exists(session[r].debt)
                       /\ Locked(session[r].kind) => lock[session[r].debt] = r
                       /\ \A x \in Actors : x # r /\ session[x] # Resting => session[x].debt # session[r].debt)'
    BY DEF OneDebtEach
  <2>1. CASE r = s
    <3>1. session'[r] = new
      BY <1>1, <2>1
    <3>2. Exists(session[r].debt)'
      BY <1>1, <3>1 DEF Exists
    <3> QED BY <1>1, <2>1, <3>1, <3>2
  <2>2. CASE r # s
    <3>1. session'[r] = session[r] /\ session[r] # Resting /\ session[r].debt \in Debts
      BY <1>1, <2>2 DEF Inv, Typed
    <3>2. Exists(session[r].debt)'
      BY <1>1, <3>1 DEF Exists, Book, OneDebtEach
    <3> QED BY <1>1, <2>2, <3>1, <3>2 DEF Book, OneDebtEach
  <2> QED BY <2>1, <2>2
<1>5. UserReads'
  <2> SUFFICES ASSUME NEW r \in Users, (session[r] # Resting)'
               PROVE  (/\ session[r].kind \in UserKinds \cap Kinds
                       /\ InputTyped(session[r])
                       /\ Exact(session[r].read, session[r].debt)
                       /\ session[r].kind \in Unlocked => \A x \in Actors : x # r => session[x] = Resting
                       /\ session[r].kind \in Unlocked \cup {"UpdateOperation"} => UntrackedBy(session[r].debt))'
    BY DEF UserReads
  <2> PICK k : k = session'[r]
    OBVIOUS
  <2>1. r \in Actors
    BY DEF Actors
  <2>2. /\ k.kind \in UserKinds \cap Kinds
        /\ InputTyped(k)
        /\ Exact(k.read, k.debt)
        /\ k.kind \in Unlocked => r = s /\ \A x \in Actors : x # r => session[x] = Resting
        /\ k.kind \in Unlocked \cup {"UpdateOperation"} => UntrackedBy(k.debt)
    <3>1. CASE r = s
      BY <1>1, <2>1, <3>1
    <3>2. CASE r # s
      BY <1>1, <2>1, <3>2 DEF Book, UserReads
    <3> QED BY <3>1, <3>2
  <2>3. Exact(session[r].read, session[r].debt)' /\ InputTyped(session[r])'
    BY <1>1, <2>2 DEF Exact, TemplatesSeen, InputTyped
  <2>4. k.kind \in Unlocked \cup {"UpdateOperation"} => UntrackedBy(session[r].debt)'
    BY <1>1, <2>2 DEF UntrackedBy
  <2>5. k.kind \in Unlocked => \A x \in Actors : x # r => session'[x] = Resting
    BY <1>1, <2>2
  <2> QED BY <2>2, <2>3, <2>4, <2>5
<1>6. WorkerReads'
  <2> SUFFICES ASSUME NEW w \in Workers, (session[w] # Resting)'
               PROVE  (/\ session[w].kind = "Automatic" /\ InputTyped(session[w])
                       /\ Sees(session[w].read, session[w].debt)
                       /\ session[w].read.operations = operations[session[w].debt])'
    BY DEF WorkerReads
  <2> PICK k : k = session'[w]
    OBVIOUS
  <2>1. w \in Actors
    BY DEF Actors
  <2>2. /\ k.kind = "Automatic" /\ InputTyped(k) /\ Sees(k.read, k.debt)
        /\ k.read.operations = operations[k.debt]
    <3>1. CASE w = s
      BY <1>1, <2>1, <3>1
    <3>2. CASE w # s
      BY <1>1, <2>1, <3>2 DEF Book, WorkerReads
    <3> QED BY <3>1, <3>2
  <2>3. Sees(session[w].read, session[w].debt)' /\ InputTyped(session[w])'
    BY <1>1, <2>2 DEF Sees, TemplatesSeen, InputTyped
  <2> QED BY <1>1, <2>2, <2>3
<1>7. Tracks'
  <2>1. \A w \in Workers : \A v \in pass'[w].tracked :
          /\ v.debt \in Debts /\ debt[v.debt].status # "new"
          /\ Exists(v.debt) => Sees(v.view, v.debt)
    BY <1>1 DEF Book, Tracks
  <2> QED BY <1>1, <1>2, <2>1 DEF Tracks
<1>8. ClosedMeansRepaid' /\ ClosedStopsAutomation'
  BY <1>1, <1>2 DEF Book, ClosedMeansRepaid, ClosedStopsAutomation
<1> QED BY <1>1, <1>2, <1>3, <1>4, <1>5, <1>6, <1>7, <1>8 DEF Book, Lives, Covered

\* Who holds no lock and works alone meets nobody; who holds one meets nobody at the debt.
LEMMA ReadBook ==
    ASSUME Bounded, Inv, Inv', Book, NEW s \in Users, NEW d \in Debts, NEW kind \in UserKinds, NEW input,
           kind \in {"AddOperation", "UpdateOperation"} => input.amount \in Int,
           kind = "Update" => input.original \in Int,
           Read(s, d, kind, input)
    PROVE  Book' /\ Lives /\ Covered
<1> PICK new : new = [at |-> "read", kind |-> kind, debt |-> d, input |-> input, read |-> View(d)]
  OBVIOUS
<1>1. new.kind = kind /\ new.debt = d /\ new.input = input /\ new.read = View(d)
  OBVIOUS
<1>2. /\ s \in Actors /\ Permitted(kind) /\ session[s] = Resting /\ Exists(d) /\ AcquireLock(s, d, kind)
      /\ session' = [session EXCEPT ![s] = new]
      /\ UNCHANGED <<debt, template, operations, initial, pass, recorded>>
  BY DEF Read, Actors
<1>3. \A r \in Actors : session'[r] = IF r = s THEN new ELSE session[r]
  BY <1>2 DEF Inv, Typed
<1>4. /\ kind \in Kinds
      /\ kind \in Outside => UntrackedBy(d)
      /\ \A r \in Actors : Busy(r) => kind \notin Alone /\ session[r].kind \notin Alone
  BY <1>2 DEF Permitted, Busy, UntrackedBy
<1>5. kind \in Unlocked => \A r \in Actors : ~Busy(r)
  BY <1>4 DEF Bounded, Unlocked
<1>6. kind \in Unlocked \cup {"UpdateOperation"} => UntrackedBy(d)
  BY <1>4 DEF Bounded, Unlocked
<1>7. \A r \in Users : Busy(r) => session[r].kind \notin Unlocked
  BY <1>4 DEF Bounded, Unlocked, Book, UserReads, Actors
<1>8. kind \notin Unlocked => Locked(kind)
  BY DEF Unlocked, UserKinds, Locked
<1>9. \A r \in Actors : Busy(r) => Locked(session[r].kind)
  BY <1>7 DEF Book, UserReads, WorkerReads, Actors, UserKinds, Unlocked, Locked
<1>10. /\ DOMAIN lock' = Debts
       /\ \A e \in Debts, r \in Actors : lock[e] = r => lock'[e] = r
       /\ Locked(kind) => lock'[d] = s /\ lock[d] = Free
  BY <1>2, DebtAssumption DEF AcquireLock, Book, Numbers
<1>11. \A r \in Actors : r # s /\ Busy(r) => session[r].debt # d
  <2> SUFFICES ASSUME NEW r \in Actors, Busy(r), session[r].debt = d PROVE FALSE
    OBVIOUS
  <2>1. lock[d] = r /\ r # Free
    BY <1>9, DebtAssumption DEF Book, OneDebtEach
  <2> QED BY <1>5, <1>8, <1>10, <2>1
<1>12. Exact(View(d), d)
  BY DEF Exact, View, TemplatesSeen
<1>13. Begins(s, new)
  BY <1>1, <1>2, <1>3, <1>7, <1>10, <1>11 DEF Begins, Inv, Typed
<1>14. InputTyped(new)
  BY <1>1 DEF InputTyped, UserKinds, Unlocked
<1>15. s \notin Workers
  BY DebtAssumption
<1> QED BY <1>1, <1>2, <1>4, <1>5, <1>6, <1>12, <1>13, <1>14, <1>15, BeginBook

\* The worker reads all operations, and the rest as its pass tracks it.
LEMMA ReadOccurrenceBook ==
    ASSUME Bounded, Inv, Inv', Book, NEW w \in Workers, NEW d \in Debts, NEW t, NEW amount \in Int,
           ReadOccurrence(w, d, t, amount)
    PROVE  Book' /\ Lives /\ Covered
<1> PICK view : view = TrackedView(w, d)
  OBVIOUS
<1> PICK new : new = [at |-> "read", kind |-> "Automatic", debt |-> d,
                      input |-> [template |-> t, amount |-> amount], read |-> view]
  OBVIOUS
<1>1. new.kind = "Automatic" /\ new.debt = d /\ new.input.amount = amount /\ new.read = view
  OBVIOUS
<1>2. /\ w \in Actors /\ session[w] = Resting /\ Exists(d) /\ AcquireLock(w, d, "Automatic")
      /\ session' = [session EXCEPT ![w] = new]
      /\ pass' = [pass EXCEPT ![w].left = @ - 1]
      /\ \A s \in Users : session[s] # Resting => session[s].kind \notin Alone
      /\ UNCHANGED <<debt, template, operations, initial, recorded>>
  BY DEF ReadOccurrence, Actors
<1>3. /\ \A r \in Actors : session'[r] = IF r = w THEN new ELSE session[r]
      /\ DOMAIN pass' = Workers
      /\ \A x \in Workers : pass'[x].tracked = pass[x].tracked
  BY <1>2 DEF Inv, Typed
<1>4. \A r \in Users : Busy(r) => session[r].kind \notin Unlocked
  BY <1>2 DEF Bounded, Unlocked, Book, UserReads, Busy
<1>5. \A r \in Actors : Busy(r) => Locked(session[r].kind)
  BY <1>4 DEF Book, UserReads, WorkerReads, Actors, UserKinds, Unlocked, Locked
<1>6. /\ DOMAIN lock' = Debts
      /\ \A e \in Debts, r \in Actors : lock[e] = r => lock'[e] = r
      /\ lock'[d] = w /\ lock[d] = Free
  BY <1>2, DebtAssumption DEF AcquireLock, Locked, Book, Numbers
<1>7. \A r \in Actors : r # w /\ Busy(r) => session[r].debt # d
  <2> SUFFICES ASSUME NEW r \in Actors, Busy(r), session[r].debt = d PROVE FALSE
    OBVIOUS
  <2>1. lock[d] = r /\ r # Free
    BY <1>5, DebtAssumption DEF Book, OneDebtEach
  <2> QED BY <1>6, <2>1
<1>8. Begins(w, new)
  BY <1>1, <1>2, <1>3, <1>4, <1>6, <1>7 DEF Begins
<1>9. Sees(view, d) /\ view.operations = operations[d]
  <2>1. CASE \E v \in pass[w].tracked : v.debt = d
    <3> PICK v : v = CHOOSE k \in pass[w].tracked : k.debt = d
      OBVIOUS
    <3>1. v \in pass[w].tracked /\ v.debt = d
      BY <2>1
    <3>2. IsView(v.view) /\ Sees(v.view, d)
      BY <1>2, <3>1 DEF Inv, Typed, Book, Tracks
    <3>3. view = [v.view EXCEPT !.operations = @ \cup
                    {op \in operations[d] : op.id \notin Ids(v.view.operations)}]
      BY <2>1 DEF TrackedView
    <3>4. /\ view.original = v.view.original /\ view.status = v.view.status
          /\ view.templates = v.view.templates
          /\ view.operations = v.view.operations \cup
               {op \in operations[d] : op.id \notin Ids(v.view.operations)}
      BY <3>2, <3>3 DEF IsView
    <3>5. view.operations = operations[d]
      <4>1. v.view.operations \subseteq operations[d]
        BY <3>2 DEF Sees
      <4>2. \A p, q \in operations[d] : p.id = q.id => p = q
        BY DEF Book, Numbers
      <4>3. \A op \in operations[d] : op.id \in Ids(v.view.operations) => op \in v.view.operations
        BY <4>1, <4>2 DEF Ids
      <4> QED BY <3>4, <4>1, <4>3
    <3> QED BY <3>2, <3>4, <3>5 DEF Sees, TemplatesSeen
  <2>2. CASE ~\E v \in pass[w].tracked : v.debt = d
    <3>1. view = View(d)
      BY <2>2 DEF TrackedView
    <3>2. debt[d].original \in Int
      BY DEF Book, Numbers
    <3> QED BY <3>1, <3>2 DEF View, Sees, TemplatesSeen
  <2> QED BY <2>1, <2>2
<1>10. InputTyped(new)
  BY <1>1 DEF InputTyped
<1>11. w \notin Users
  BY DebtAssumption
<1> QED BY <1>1, <1>2, <1>8, <1>9, <1>10, <1>11, BeginBook

\* What the worker posts it posts on an active debt, which it sees as it is: on a closed one
\* nothing remains.
LEMMA PostOccurrenceBook ==
    ASSUME Inv, Inv', Book, NEW w \in Workers, PostOccurrence(w)
    PROVE  Book' /\ Lives /\ Covered
<1> PICK d, read : d = session[w].debt /\ read = session[w].read
  OBVIOUS
<1> PICK remaining : remaining = CalculateRemaining(read.original, read.operations)
  OBVIOUS
<1> PICK in : in = AutomaticInput(d, session[w].input.amount, remaining)
  OBVIOUS
<1> PICK write : write = WithOperation(read, remaining, in)
  OBVIOUS
<1>1. /\ w \in Actors /\ Busy(w) /\ session[w].kind = "Automatic"
      /\ Accepts(d, read, remaining, in) /\ Saved(w, read, write, {}, Added(write))
      /\ pass' = [pass EXCEPT ![w].tracked =
             {v \in @ : v.debt # d} \cup {[debt |-> d, view |-> write]}]
      /\ End(w)
  BY DEF PostOccurrence, Busy, Working, Resting, Actors
<1>2. d \in Debts /\ IsView(read) /\ Exists(d)
  BY <1>1 DEF Inv, Typed, Busy, Book, OneDebtEach
<1>3. Sees(read, d) /\ read.operations = operations[d] /\ session[w].input.amount \in Int
  BY <1>1 DEF Book, WorkerReads, InputTyped
<1>4. /\ debt[d].original \in Int /\ Amounted(operations[d]) /\ recorded \in Nat
      /\ \A op \in operations[d] : op.id \in 1..recorded
  BY <1>2 DEF Book, Numbers
<1>5. read.original \in Int /\ remaining \in Int
  BY <1>3, <1>4, RemainingInt DEF Sees
<1>6. in.amount \in Int /\ in.amount <= remaining /\ in.resolution = "None" /\ in.amount > 0
  BY <1>1, <1>3, <1>5 DEF AutomaticInput, Accepts
<1>7. debt[d].status = "Active"
  <2> SUFFICES ASSUME debt[d].status = "Closed" PROVE FALSE
    BY <1>2 DEF Exists
  <2>1. Remaining(d) = 0
    BY <1>2 DEF Book, ClosedMeansRepaid
  <2>2. remaining = Remaining(d) + read.original - debt[d].original
    BY <1>3, <1>4, <1>5, RemainingShift DEF Remaining
  <2>3. read.original <= debt[d].original
    BY <1>3 DEF Sees
  <2> QED BY <1>4, <1>5, <1>6, <2>1, <2>2, <2>3
<1>8. Exact(read, d)
  BY <1>3, <1>7 DEF Sees, Exact
<1>9. AmountsAllowed(Added(write)) /\ read.status = "Active"
  BY <1>1 DEF Saved, Accepts
<1>10. Amounted(read.operations) /\ \A op \in read.operations : op.id \in 1..recorded
  BY <1>3, <1>4
<1>11. Records(read, write, in)
  BY <1>1, <1>2, <1>4, <1>5, <1>6, <1>9, <1>10, OperationResult
<1>12. IsView(write) /\ OnlyOff(read, write) /\ write.status \in {"Active", "Closed"}
  BY <1>2, OperationSwitchesOff
<1>13. \A x \in Workers : \A v \in pass'[x].tracked :
          v \in pass[x].tracked \/ v = [debt |-> d, view |-> write]
  BY <1>1 DEF Inv, Typed
<1> QED BY <1>1, <1>8, <1>9, <1>11, <1>12, <1>13, RecordKeepsBook

-----------------------------------------------------------------------------
(* The theorems.                                                           *)

\* So are those of the inputs.
LEMMA AskedAmounts == (\A x \in Amounts : x \in Int) /\ (\A x \in Originals : x \in Nat /\ x \in Int)
<1>1. (\A x \in Amounts : x \in Nat) /\ (\A x \in Originals : x \in Nat)
  BY DebtAssumption
<1>2. \A x \in Nat : x \in Int
  OBVIOUS
<1> QED BY <1>1, <1>2

\* Every step keeps the book; only the deletion of an operation uncovers a debt, and only the
\* deletion of a debt ends it and moves the initial balance.
LEMMA StepBook ==
    ASSUME Bounded, Inv, Book, [Next]_vars
    PROVE  /\ Inv' /\ Book'
           /\ Covered \/ \E s \in Users : DeleteOperation(s)
           /\ Lives \/ \E s \in Users : Delete(s)
<1>1. Inv'
  BY StepKeeps DEF Bounded, UpdateIsAlone
<1>2. CASE UNCHANGED vars
  BY <1>1, <1>2, LessSteps
<1>3. ASSUME NEW s \in Users, UserNext(s)
      PROVE  /\ Book'
             /\ Covered \/ \E r \in Users : DeleteOperation(r)
             /\ Lives \/ \E r \in Users : Delete(r)
  <2>1. ASSUME NEW d \in Debts, NEW in \in DebtInputs, Create(s, d, in.original, in.payment)
        PROVE  Book' /\ Lives /\ Covered
    <3>1. in.original \in Nat
      BY <2>1, DebtAssumption DEF DebtInputs
    <3> QED BY <1>1, <2>1, <3>1, CreateBook
  <2>2. ASSUME NEW d \in Debts, NEW in \in OperationInputs, Read(s, d, "AddOperation", in)
        PROVE  Book' /\ Lives /\ Covered
    <3>1. in.amount \in Amounts
      BY <2>2 DEF OperationInputs
    <3>2. in.amount \in Int
      BY <3>1, AskedAmounts
    <3> QED BY <1>1, <2>2, <3>2, ReadBook DEF UserKinds, Unlocked
  <2>3. ASSUME NEW d \in Debts, NEW in \in ReplaceInputs(d), Read(s, d, "UpdateOperation", in)
        PROVE  Book' /\ Lives /\ Covered
    <3>1. in.amount \in Amounts
      <4>1. PICK op \in operations[d], x \in OperationInputs : in.amount = x.amount
        BY <2>3 DEF ReplaceInputs
      <4> QED BY <4>1 DEF OperationInputs
    <3>2. in.amount \in Int
      BY <3>1, AskedAmounts
    <3> QED BY <1>1, <2>3, <3>2, ReadBook DEF UserKinds, Unlocked
  <2>4. ASSUME NEW d \in Debts, NEW kind \in {"DeleteOperation", "Close", "Reopen", "Delete"}, NEW in,
               Read(s, d, kind, in)
        PROVE  Book' /\ Lives /\ Covered
    BY <1>1, <2>4, ReadBook DEF UserKinds, Unlocked
  <2>5. ASSUME NEW d \in Debts, NEW in \in DebtInputs, Read(s, d, "Update", in)
        PROVE  Book' /\ Lives /\ Covered
    <3>1. in.original \in Originals
      BY <2>5 DEF DebtInputs
    <3>2. in.original \in Int
      BY <3>1, AskedAmounts
    <3> QED BY <1>1, <2>5, <3>2, ReadBook DEF UserKinds, Unlocked
  <2>6. CASE Fail(s) \/ \E d \in Debts, t \in Templates : DeleteTemplate(s, d, t)
    BY <2>6, LessSteps
  <2>7. CASE AddOperation(s)
    BY <1>1, <2>7, AddOperationBook
  <2>8. CASE UpdateOperation(s)
    BY <1>1, <2>8, UpdateOperationBook
  <2>9. CASE DeleteOperation(s)
    BY <1>1, <2>9, DeleteOperationBook
  <2>10. CASE Close(s) \/ Reopen(s)
    BY <1>1, <2>10, CloseBook
  <2>11. CASE Update(s)
    BY <1>1, <2>11, UpdateBook
  <2>12. CASE Delete(s)
    BY <1>1, <2>12, DeleteBook
  <2> QED
    BY <1>3, <2>1, <2>2, <2>3, <2>4, <2>5, <2>6, <2>7, <2>8, <2>9, <2>10, <2>11, <2>12 DEF UserNext
<1>4. ASSUME NEW w \in Workers, WorkerNext(w) PROVE Book' /\ Lives /\ Covered
  <2>1. CASE StartPass(w) \/ EndPass(w) \/ FailOccurrence(w)
    BY <2>1, LessSteps
  <2>2. ASSUME NEW d \in Debts, NEW t \in Templates, NEW amount \in Amounts,
               ReadOccurrence(w, d, t, amount)
        PROVE  Book' /\ Lives /\ Covered
    <3>1. amount \in Int
      BY <2>2, AskedAmounts
    <3> QED BY <1>1, <2>2, <3>1, ReadOccurrenceBook
  <2>3. CASE PostOccurrence(w)
    BY <1>1, <2>3, PostOccurrenceBook
  <2> QED BY <1>4, <2>1, <2>2, <2>3 DEF WorkerNext
<1> QED BY <1>1, <1>2, <1>3, <1>4 DEF Next

\* There is nothing in the book at first.
LEMMA StartsBook == Init => Book
<1> SUFFICES ASSUME Init PROVE Book
  OBVIOUS
<1>1. Numbers /\ Statuses
  BY FS_EmptySet DEF Init, Numbers, Statuses, Amounted, Exists
<1>2. OneDebtEach /\ UserReads /\ WorkerReads /\ Tracks
  BY DEF Init, OneDebtEach, UserReads, WorkerReads, Tracks, Busy, Actors, NoPass
<1>3. ClosedMeansRepaid /\ ClosedStopsAutomation
  BY DEF Init, ClosedMeansRepaid, ClosedStopsAutomation
<1> QED BY <1>1, <1>2, <1>3 DEF Book

\* The book is kept.
LEMMA BookHolds == Bounded => (Spec => [](Inv /\ Book))
<1> SUFFICES ASSUME Bounded PROVE Spec => [](Inv /\ Book)
  OBVIOUS
<1>1. Init => Inv /\ Book
  BY Starts, StartsBook
<1>2. Inv /\ Book /\ [Next]_vars => Inv' /\ Book'
  BY StepBook
<1> QED BY <1>1, <1>2, PTL DEF Spec

\* CloseAsync and ApplyAutomaticStatus close repaid debts only, and no request or payment that
\* overlaps with another leaves a closed debt with an amount remaining.
THEOREM ClosedIsRepaid == Bounded => (Spec => []ClosedMeansRepaid)
<1>1. Book => ClosedMeansRepaid
  BY DEF Book
<1> QED BY <1>1, BookHolds, PTL

\* ApplyAutomaticStatus switches the automatic payments of a closed debt off, and none that
\* overlaps comes on again.
THEOREM ClosedPaysNoMore == Bounded => (Spec => []ClosedStopsAutomation)
<1>1. Book => ClosedStopsAutomation
  BY DEF Book
<1> QED BY <1>1, BookHolds, PTL

\* AddOperationCoreAsync, for requests and the worker, never exceeds what remains: only the
\* deletion of an operation leaves a debt repaid by more than is owed.
THEOREM DeletionOnlyOverpays == Bounded => (Spec => OnlyDeletionOverpays)
<1> SUFFICES ASSUME Bounded PROVE Spec => OnlyDeletionOverpays
  OBVIOUS
<1>1. Inv /\ Book /\ [Next]_vars =>
        [\A d \in Debts : Exists(d) /\ Remaining(d) >= 0 /\ Exists(d)' /\ Remaining(d)' < 0 =>
          \E s \in Users : session[s] # session'[s] /\ session[s].kind = "DeleteOperation"]_vars
  <2> SUFFICES ASSUME Inv, Book, [Next]_vars,
                      NEW d \in Debts, Exists(d), Remaining(d) >= 0, Exists(d)', Remaining(d)' < 0
               PROVE  \E s \in Users : session[s] # session'[s] /\ session[s].kind = "DeleteOperation"
    OBVIOUS
  <2>1. Remaining(d)' \in Int
    <3>1. Book'
      BY StepBook
    <3>2. debt'[d].original \in Int /\ Amounted(operations'[d])
      BY <3>1 DEF Book, Numbers
    <3> QED BY <3>2, RemainingInt DEF Remaining
  <2>2. ~Covered
    BY <2>1 DEF Covered
  <2>3. PICK s \in Users : DeleteOperation(s)
    BY <2>2, StepBook
  <2>4. session'[s] = Resting /\ session[s] # Resting /\ session[s].kind = "DeleteOperation"
    <3>1. s \in Actors /\ End(s) /\ session[s].kind = "DeleteOperation" /\ Working(s)
      BY <2>3 DEF DeleteOperation, Actors
    <3>2. session'[s] = Resting
      BY <3>1, Ended DEF Inv
    <3> QED BY <3>1, <3>2 DEF Working, Resting
  <2> QED BY <2>4
<1> QED BY <1>1, BookHolds, PTL DEF Spec, OnlyDeletionOverpays

\* Where operations are not deleted, no debt is ever overpaid.
THEOREM NothingOverpaid == Bounded /\ "DeleteOperation" \notin Kinds => (Spec => []NeverOverpaid)
<1> SUFFICES ASSUME Bounded, "DeleteOperation" \notin Kinds PROVE Spec => []NeverOverpaid
  OBVIOUS
<1>1. Init => NeverOverpaid
  BY DEF Init, NeverOverpaid, Exists
<1>2. Inv /\ Book /\ NeverOverpaid /\ [Next]_vars => NeverOverpaid'
  <2> SUFFICES ASSUME Inv, Book, NeverOverpaid, [Next]_vars PROVE NeverOverpaid'
    OBVIOUS
  <2>1. Covered
    <3>1. ~\E s \in Users : DeleteOperation(s)
      <4> SUFFICES ASSUME NEW s \in Users, DeleteOperation(s) PROVE FALSE
        OBVIOUS
      <4>1. Busy(s) /\ session[s].kind = "DeleteOperation"
        BY DEF DeleteOperation, Busy, Working, Resting
      <4> QED BY <4>1 DEF Book, UserReads
    <3> QED BY <3>1, StepBook
  <2> QED BY <2>1 DEF Covered, NeverOverpaid
<1> QED BY <1>1, <1>2, BookHolds, PTL DEF Spec

-----------------------------------------------------------------------------
(* The balance.                                                            *)

\* What operations do to the account is a sum over a function too.
LEMMA SumOfChanges ==
    ASSUME NEW ops
    PROVE  AccountChanges(ops) = Total([op \in ops |-> AccountChange(op)], ops)
<1> DEFINE f == [op \in ops |-> AccountChange(op)]
           R(g) == g = [s \in SUBSET ops |-> IF s = {} THEN 0
                                            ELSE AccountChange(Pick(s)) + g[s \ {Pick(s)}]]
<1>1. AccountChanges(ops) = (CHOOSE g : R(g))[ops]
  BY DEF AccountChanges, MapThenSumSet, MapThenFoldSet, Pick
<1>2. \A g : R(g) <=> Solves(g, f, ops)
  <2>1. \A s \in SUBSET ops : s # {} => f[Pick(s)] = AccountChange(Pick(s))
    BY PickIn
  <2> HIDE DEF f
  <2> QED BY <2>1 DEF Solves
<1> HIDE DEF R, f
<1>3. (CHOOSE g : R(g)) = (CHOOSE g : Solves(g, f, ops))
  BY <1>2, Zenon
<1> QED BY <1>1, <1>3, SumIs DEF f

\* What operations do to the account is a number.
LEMMA ChangesInt == \A ops : Amounted(ops) => AccountChanges(ops) \in Int
<1> SUFFICES ASSUME NEW ops, Amounted(ops) PROVE AccountChanges(ops) \in Int
  OBVIOUS
<1> DEFINE f == [op \in ops |-> AccountChange(op)]
<1>1. \A op \in ops : f[op] \in Int
  BY DEF AccountChange, Amounted
<1>2. AccountChanges(ops) = Total(f, ops)
  BY SumOfChanges
<1> HIDE DEF f
<1> QED BY <1>1, <1>2, SumInt DEF Amounted

\* No operations do nothing.
LEMMA NoChanges == AccountChanges({}) = 0
<1>1. \A f : Total(f, {}) = 0
  BY SumEquation, FS_EmptySet
<1> QED BY <1>1, SumOfChanges

\* The balance, as a function of the rows.
BalanceOf(base, ops) == base + MapThenSumSet(LAMBDA d : AccountChanges(ops[d]), Debts)

\* So is the balance.
LEMMA SumOfBalance ==
    ASSUME NEW base, NEW ops
    PROVE  BalanceOf(base, ops) = base + Total([d \in Debts |-> AccountChanges(ops[d])], Debts)
<1> DEFINE f == [d \in Debts |-> AccountChanges(ops[d])]
           R(g) == g = [s \in SUBSET Debts |-> IF s = {} THEN 0
                                              ELSE AccountChanges(ops[Pick(s)]) + g[s \ {Pick(s)}]]
<1>1. BalanceOf(base, ops) = base + (CHOOSE g : R(g))[Debts]
  BY DEF BalanceOf, MapThenSumSet, MapThenFoldSet, Pick
<1>2. \A g : R(g) <=> Solves(g, f, Debts)
  <2>1. \A s \in SUBSET Debts : s # {} => f[Pick(s)] = AccountChanges(ops[Pick(s)])
    BY PickIn
  <2> HIDE DEF f
  <2> QED BY <2>1 DEF Solves
<1> HIDE DEF R, f
<1>3. (CHOOSE g : R(g)) = (CHOOSE g : Solves(g, f, Debts))
  BY <1>2, Zenon
<1> QED BY <1>1, <1>3, SumIs DEF f

\* Clearing a debt and adding what its operations did to the initial balance leaves it the same.
LEMMA BalanceStays ==
    ASSUME NEW base \in Int, NEW ops, \A d \in Debts : Amounted(ops[d]),
           NEW d \in Debts, NEW cleared, cleared[d] = {}, \A e \in Debts \ {d} : cleared[e] = ops[e]
    PROVE  BalanceOf(base + AccountChanges(ops[d]), cleared) = BalanceOf(base, ops)
<1> DEFINE f == [e \in Debts |-> AccountChanges(ops[e])]
           g == [e \in Debts |-> AccountChanges(cleared[e])]
           rest == Debts \ {d}
<1>1. IsFiniteSet(Debts)
  BY DebtAssumption
<1>2. /\ \A e \in Debts : f[e] \in Int
      /\ f[d] = AccountChanges(ops[d]) /\ f[d] \in Int
  BY ChangesInt
<1>3. /\ g[d] = 0 /\ \A e \in rest : f[e] = g[e]
      /\ \A e \in Debts : g[e] \in Int
  <2>1. cleared[d] = {} /\ \A e \in rest : cleared[e] = ops[e]
    OBVIOUS
  <2>2. g[d] = 0 /\ \A e \in rest : f[e] = g[e]
    BY <2>1, NoChanges
  <2> HIDE DEF f, g
  <2> QED BY <1>2, <2>2
<1>4. /\ BalanceOf(base, ops) = base + Total(f, Debts)
      /\ BalanceOf(base + AccountChanges(ops[d]), cleared) = base + AccountChanges(ops[d]) + Total(g, Debts)
  BY SumOfBalance
<1>5. Debts \in SUBSET Debts /\ rest \in SUBSET rest /\ rest \in SUBSET Debts /\ IsFiniteSet(rest)
  BY <1>1, FS_Subset
<1> HIDE DEF f, g
<1>6. Total(f, Debts) = f[d] + Total(f, rest) /\ Total(g, Debts) = g[d] + Total(g, rest)
  BY <1>1, <1>2, <1>3, <1>5, SumRemove
<1>7. Total(f, rest) = Total(g, rest)
  <2> HIDE DEF rest
  <2> QED BY <1>3, <1>5, SumSame
<1>8. Total(f, rest) \in Int
  BY <1>1, <1>2, <1>5, SumInt
<1> QED BY <1>2, <1>3, <1>4, <1>6, <1>7, <1>8

\* The bound under which the deletions of two debts of one account do not overlap.
OneDeletion == "Delete" \in Alone \/ \A d, e \in Debts : d = e

\* A deletion has read the initial balance as it is, and is alone with its account.
InitialSeen ==
    /\ initial \in Int
    /\ \A s \in Users : Busy(s) /\ session[s].kind = "Delete" =>
          /\ session[s].read.initial = initial
          /\ \A r \in Actors : r # s => ~Busy(r)

\* No step takes the balance from a deletion that has read it.
LEMMA InitialKept ==
    ASSUME Bounded, OneDeletion, Inv, Book, InitialSeen, [Next]_vars
    PROVE  InitialSeen'
<1> USE DEF Busy
<1>1. /\ Inv' /\ Book'
      /\ Lives \/ \E s \in Users : Delete(s)
  BY StepBook
<1>2. CASE \E s \in Users : Delete(s)
  <2> PICK s \in Users : Delete(s) BY <1>2
  <2> PICK d : d = session[s].debt
    OBVIOUS
  <2>1. /\ s \in Actors /\ End(s) /\ session[s] # Resting /\ session[s].kind = "Delete"
        /\ initial' = initial \/ initial' = session[s].read.initial + AccountChanges(session[s].read.operations)
    BY DEF Delete, Working, Resting, Actors
  <2>2. \A r \in Actors : session'[r] = Resting
    BY <2>1, Ended DEF Inv, InitialSeen
  <2>3. initial' \in Int
    <3>1. session[s].read.initial \in Int
      BY <2>1 DEF InitialSeen
    <3>2. Amounted(session[s].read.operations)
      BY <2>1, UserKnows
    <3> QED BY <2>1, <3>1, <3>2, ChangesInt DEF InitialSeen
  <2> QED BY <2>2, <2>3 DEF InitialSeen, Actors
<1>3. CASE Lives
  <2>1. initial' = initial
    BY <1>3 DEF Lives
  <2>2. \/ \A r \in Actors : session'[r] \in {session[r], Resting}
        \/ \E s \in Users, d \in Debts : \E kind, input : Read(s, d, kind, input)
        \/ \E w \in Workers, d \in Debts : \E t, amount : ReadOccurrence(w, d, t, amount)
    <3>1. CASE session' = session
      BY <3>1
    <3>2. CASE \E s \in Actors : End(s)
      BY <3>2, Ended DEF Inv
    <3>3. CASE \E s \in Users : UserNext(s)
      <4>1. PICK s \in Users : UserNext(s)
        BY <3>3
      <4>2. s \in Actors
        BY DEF Actors
      <4>3. \/ session' = session \/ End(s)
            \/ \E d \in Debts : \E kind, input : Read(s, d, kind, input)
        BY <4>1 DEF UserNext, Create, DeleteTemplate, AddOperation, UpdateOperation, DeleteOperation,
                    Close, Reopen, Update, Delete, Fail
      <4> QED BY <3>1, <3>2, <4>2, <4>3
    <3>4. CASE \E w \in Workers : WorkerNext(w)
      <4>1. PICK w \in Workers : WorkerNext(w)
        BY <3>4
      <4>2. w \in Actors
        BY DEF Actors
      <4>3. \/ session' = session \/ End(w)
            \/ \E d \in Debts : \E t, amount : ReadOccurrence(w, d, t, amount)
        BY <4>1 DEF WorkerNext, StartPass, PostOccurrence, FailOccurrence, EndPass
      <4> QED BY <3>1, <3>2, <4>2, <4>3
    <3> QED BY <3>1, <3>3, <3>4 DEF Next, vars
  <2>3. CASE \A r \in Actors : session'[r] \in {session[r], Resting}
    BY <2>1, <2>3 DEF InitialSeen, Actors
  <2>4. ASSUME NEW s \in Users, NEW d \in Debts, NEW kind, NEW input, Read(s, d, kind, input)
        PROVE  InitialSeen'
    <3> PICK new : new = [at |-> "read", kind |-> kind, debt |-> d, input |-> input, read |-> View(d)]
      OBVIOUS
    <3>1. new.kind = kind /\ new.debt = d /\ new.read.initial = initial
      BY DEF View
    <3>2. /\ s \in Actors /\ Permitted(kind) /\ session[s] = Resting
          /\ session' = [session EXCEPT ![s] = new]
      BY <2>4 DEF Read, Actors
    <3>3. \A r \in Actors : session'[r] = IF r = s THEN new ELSE session[r]
      BY <3>2 DEF Inv, Typed
    <3>4. \A r \in Actors : session[r] # Resting => kind \notin Alone /\ session[r].kind \notin Alone
      BY <3>2 DEF Permitted
    <3>5. \A r \in Users : session'[r] # Resting /\ session'[r].kind = "Delete" =>
            session'[r].read.initial = initial
      BY <3>1, <3>3 DEF InitialSeen, Actors
    <3>6. \A r \in Users : session'[r] # Resting /\ session'[r].kind = "Delete" =>
            \A x \in Actors : x # r => session'[x] = Resting
      <4>1. CASE "Delete" \in Alone
        BY <3>1, <3>2, <3>3, <3>4, <4>1 DEF InitialSeen, Actors
      <4>2. CASE \A e, f \in Debts : e = f
        BY <1>1, <4>2 DEF Inv, Typed, Book, OneDebtEach, Actors
      <4> QED BY <4>1, <4>2 DEF OneDeletion
    <3> QED BY <2>1, <3>5, <3>6 DEF InitialSeen
  <2>5. ASSUME NEW w \in Workers, NEW d \in Debts, NEW t, NEW amount, ReadOccurrence(w, d, t, amount)
        PROVE  InitialSeen'
    <3>1. PICK new : /\ w \in Actors /\ session[w] = Resting
                     /\ session' = [session EXCEPT ![w] = new]
                     /\ \A s \in Users : session[s] # Resting => session[s].kind \notin Alone
      BY <2>5 DEF ReadOccurrence, Actors
    <3>2. w \notin Users
      BY DebtAssumption
    <3>3. \A r \in Users : session'[r] = session[r]
      BY <3>1, <3>2 DEF Inv, Typed
    <3>4. \A r \in Users : session'[r] # Resting /\ session'[r].kind = "Delete" =>
            \A x \in Actors : x # r => session'[x] = Resting
      <4>1. CASE "Delete" \in Alone
        BY <3>1, <3>3, <4>1
      <4>2. CASE \A e, f \in Debts : e = f
        BY <1>1, <4>2 DEF Inv, Typed, Book, OneDebtEach, Actors
      <4> QED BY <4>1, <4>2 DEF OneDeletion
    <3> QED BY <2>1, <3>3, <3>4 DEF InitialSeen
  <2> QED BY <2>2, <2>3, <2>4, <2>5
<1> QED BY <1>1, <1>2, <1>3

\* DeleteAsync leaves the balance of the account as it is, when it runs beside no other deletion
\* of the account's debts: what it removes it adds to the initial balance.
THEOREM BalanceKept == Bounded /\ OneDeletion => (Spec => DeletionKeepsBalance)
<1> SUFFICES ASSUME Bounded, OneDeletion PROVE Spec => DeletionKeepsBalance
  OBVIOUS
<1>1. Init => InitialSeen
  BY DEF Init, InitialSeen, Busy, Actors
<1>2. Inv /\ Book /\ InitialSeen /\ [Next]_vars => InitialSeen'
  BY InitialKept
<1>3. Inv /\ Book /\ InitialSeen /\ [Next]_vars =>
        [(\E d \in Debts : Exists(d) /\ debt'[d].status = "deleted") => Balance' = Balance]_vars
  <2> SUFFICES ASSUME Inv, Book, InitialSeen, [Next]_vars,
                      NEW e \in Debts, Exists(e), debt'[e].status = "deleted"
               PROVE  Balance' = Balance
    OBVIOUS
  <2>1. ~Lives
    BY DEF Lives, Exists
  <2>2. PICK s \in Users : Delete(s)
    BY <2>1, StepBook
  <2> PICK d, read : d = session[s].debt /\ read = session[s].read
    OBVIOUS
  <2>3. /\ Busy(s) /\ session[s].kind = "Delete" /\ operations' = [operations EXCEPT ![d] = {}]
        /\ initial' = IF AccountChanges(read.operations) = 0 THEN initial
                      ELSE read.initial + AccountChanges(read.operations)
    BY <2>2 DEF Delete, Busy, Working, Resting
  <2>4. d \in Debts /\ read.operations = operations[d] /\ read.initial = initial
    BY <2>3, UserKnows DEF Exact, InitialSeen
  <2>5. /\ initial \in Int /\ DOMAIN operations = Debts
        /\ \A x \in Debts : Amounted(operations[x])
    BY DEF InitialSeen, Book, Numbers
  <2>6. initial' = initial + AccountChanges(operations[d])
    BY <2>3, <2>4, <2>5
  <2>7. BalanceOf(initial', operations') = BalanceOf(initial, operations)
    <3>1. operations'[d] = {} /\ \A x \in Debts \ {d} : operations'[x] = operations[x]
      BY <2>3, <2>4, <2>5
    <3>2. BalanceOf(initial + AccountChanges(operations[d]), operations') = BalanceOf(initial, operations)
      <4> PICK base, before, after : base = initial /\ before = operations /\ after = operations'
        OBVIOUS
      <4>1. /\ base \in Int /\ \A x \in Debts : Amounted(before[x])
            /\ after[d] = {} /\ \A x \in Debts \ {d} : after[x] = before[x]
        BY <2>5, <3>1
      <4>2. BalanceOf(base + AccountChanges(before[d]), after) = BalanceOf(base, before)
        BY <2>4, <4>1, BalanceStays
      <4> QED BY <4>2
    <3> QED BY <2>6, <3>2
  <2>8. Balance = BalanceOf(initial, operations) /\ Balance' = BalanceOf(initial', operations')
    BY DEF Balance, BalanceOf, MapThenSumSet, MapThenFoldSet
  <2> QED BY <2>7, <2>8
<1> QED BY <1>1, <1>2, <1>3, BookHolds, PTL DEF Spec, DeletionKeepsBalance

=============================================================================
