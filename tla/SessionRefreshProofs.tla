------------------------ MODULE SessionRefreshProofs ------------------------
(***************************************************************************)
(* SessionRefreshCoordinator is one lock for each session, for any number  *)
(* of requests, sessions and entry objects.                                *)
(***************************************************************************)
EXTENDS SessionRefreshCoordinator, FiniteSetTheorems, TLAPS

LEMMA UsersFinite ==
    ASSUME NEW e \in Entries
    PROVE  /\ IsFiniteSet(UsersOf(e))
           /\ Cardinality(UsersOf(e)) \in Nat
BY CoordinatorAssumption, FS_Subset, FS_CardinalityType DEF UsersOf

\* A step that changes no set of users and no counter keeps the counts.
LEMMA SameCounts ==
    ASSUME Counted,
           UNCHANGED <<references, retired, entries>>,
           \A e \in Entries : UsersOf(e)' = UsersOf(e)
    PROVE  Counted'
BY DEF Counted

LEMMA SamePermits ==
    ASSUME OnePermit, UNCHANGED permits,
           \A e \in Entries : HoldersOf(e)' = HoldersOf(e)
    PROVE  OnePermit'
BY DEF OnePermit

LEMMA InitInv == Init => Inv
<1> SUFFICES ASSUME Init PROVE Inv
  OBVIOUS
<1>1. TypeOK
  BY DEF Init, TypeOK, Places
<1>2. \A e \in Entries : UsersOf(e) = {} /\ HoldersOf(e) = {}
  BY DEF Init, UsersOf, HoldersOf, Using
<1>3. Cardinality({}) = 0
  BY FS_EmptySet
<1>4. Counted
  BY <1>2, <1>3 DEF Init, Counted
<1>5. OnePermit
  BY <1>2 DEF Init, OnePermit
<1>6. Placed /\ OneKey /\ NoLeak
  BY DEF Init, Placed, OneKey, NoLeak, Using
<1> QED BY <1>1, <1>4, <1>5, <1>6 DEF Inv

-----------------------------------------------------------------------------
(* One lemma for each action.                                              *)

LEMMA AskInv ==
    ASSUME Inv, NEW p \in Requests, NEW k \in Keys, Ask(p, k)
    PROVE  Inv'
<1> USE DEF Inv, Ask
<1>1. TypeOK'
  BY DEF TypeOK, Places
<1>2. mine[p] = NoEntry
  BY DEF TypeOK, Placed
<1>3. \A e \in Entries : UsersOf(e)' = UsersOf(e) /\ HoldersOf(e)' = HoldersOf(e)
  BY <1>2, CoordinatorAssumption DEF TypeOK, UsersOf, HoldersOf, Using
<1>4. Placed'
  BY <1>2 DEF TypeOK, Placed, Using
<1>5. Counted' /\ OnePermit'
  BY <1>3, SameCounts, SamePermits
<1>6. OneKey'
  BY DEF OneKey
<1>7. NoLeak'
  BY <1>2, CoordinatorAssumption DEF NoLeak, TypeOK
<1> QED BY <1>1, <1>4, <1>5, <1>6, <1>7

LEMMA GetInv ==
    ASSUME Inv, NEW p \in Requests, Get(p)
    PROVE  Inv'
<1> USE DEF Inv, Get
<1>1. TypeOK'
  BY DEF TypeOK, Places
<1>2. mine[p] = NoEntry
  BY DEF TypeOK, Placed
<1>3. \A e \in Entries : UsersOf(e)' = UsersOf(e) /\ HoldersOf(e)' = HoldersOf(e)
  BY <1>2, CoordinatorAssumption DEF TypeOK, UsersOf, HoldersOf, Using
<1>4. Placed'
  BY <1>2 DEF TypeOK, Placed, Using
<1>5. Counted' /\ OnePermit'
  BY <1>3, SameCounts, SamePermits
<1>6. OneKey'
  BY DEF OneKey
<1>7. NoLeak'
  BY <1>2, CoordinatorAssumption DEF NoLeak, TypeOK
<1> QED BY <1>1, <1>4, <1>5, <1>6, <1>7

LEMMA AddInv ==
    ASSUME Inv, NEW p \in Requests, NEW e \in Entries, Add(p, e)
    PROVE  Inv'
<1> USE DEF Inv, Add
<1>1. TypeOK'
  BY DEF TypeOK, Places
<1>2. mine[p] = NoEntry /\ \A q \in Requests : mine[q] # e
  BY DEF TypeOK, Placed, Fresh
<1>3. \A x \in Entries : UsersOf(x)' = UsersOf(x) /\ HoldersOf(x)' = HoldersOf(x)
  BY <1>2, CoordinatorAssumption DEF TypeOK, UsersOf, HoldersOf, Using
<1>4. UsersOf(e) = {} /\ HoldersOf(e) = {}
  BY <1>2 DEF UsersOf, HoldersOf
<1>5. Placed'
  <2> SUFFICES ASSUME NEW q \in Requests
               PROVE  /\ mine'[q] = NoEntry <=> at'[q] \in {"out", "getting"}
                      /\ at'[q] = "entering" => entries'[key'[q]] = mine'[q] \/ retired'[mine'[q]]
                      /\ at'[q] \in Using => entries'[key'[q]] = mine'[q]
    BY DEF Placed
  <2>1. CASE q = p
    BY <2>1, <1>1, CoordinatorAssumption DEF TypeOK, Using
  <2>2. CASE q # p
    <3>1. mine'[q] = mine[q] /\ at'[q] = at[q] /\ key'[q] = key[q] /\ mine[q] # e
      BY <2>2, <1>2 DEF TypeOK
    <3>2. mine[q] # NoEntry /\ entries[key[q]] = mine[q] => entries'[key[q]] = mine[q]
      BY DEF TypeOK
    <3>3. mine[q] \in Entries => retired'[mine[q]] = retired[mine[q]]
      BY <3>1 DEF TypeOK
    <3> QED BY <3>1, <3>2, <3>3 DEF Placed, TypeOK, Using
  <2> QED BY <2>1, <2>2
<1>6. Counted'
  <2>1. Cardinality({}) = 0
    BY FS_EmptySet
  <2> QED BY <1>3, <1>4, <2>1 DEF Counted, TypeOK
<1>7. OnePermit'
  BY <1>3, <1>4 DEF OnePermit, TypeOK
<1>8. OneKey'
  BY DEF OneKey, TypeOK, Fresh
<1>9. NoLeak'
  BY <1>2, CoordinatorAssumption DEF NoLeak, TypeOK
<1> QED BY <1>1, <1>5, <1>6, <1>7, <1>8, <1>9

LEMMA EnterInv ==
    ASSUME Inv, NEW p \in Requests, Enter(p)
    PROVE  Inv'
<1> USE DEF Inv, Enter
<1>1. mine[p] \in Entries /\ references[mine[p]] \in Nat
  BY DEF TypeOK, Placed
<1>2. TypeOK'
  BY <1>1 DEF TypeOK, Places
<1>3. UsersOf(mine[p])' = UsersOf(mine[p]) \cup {p} /\ p \notin UsersOf(mine[p])
  BY DEF TypeOK, UsersOf, Using
<1>4. \A x \in Entries \ {mine[p]} : UsersOf(x)' = UsersOf(x)
  BY DEF TypeOK, UsersOf, Using
<1>5. \A x \in Entries : HoldersOf(x)' = HoldersOf(x)
  BY DEF TypeOK, HoldersOf
<1>6. Placed'
  BY DEF TypeOK, Placed, Using
<1>7. Counted'
  <2>1. Cardinality(UsersOf(mine[p]) \cup {p}) = Cardinality(UsersOf(mine[p])) + 1
    BY <1>1, <1>3, UsersFinite, FS_AddElement
  <2> QED BY <2>1, <1>1, <1>3, <1>4 DEF Counted, TypeOK
<1>8. OnePermit'
  BY <1>5, SamePermits
<1>9. OneKey' /\ NoLeak'
  BY DEF OneKey, NoLeak
<1> QED BY <1>2, <1>6, <1>7, <1>8, <1>9

LEMMA RetryInv ==
    ASSUME Inv, NEW p \in Requests, Retry(p)
    PROVE  Inv'
<1> USE DEF Inv, Retry
<1>1. mine[p] \in Entries /\ \A k \in Keys : entries[k] # mine[p]
  BY DEF TypeOK, Placed, Counted
<1>2. TypeOK'
  BY DEF TypeOK, Places
<1>3. \A e \in Entries : UsersOf(e)' = UsersOf(e) /\ HoldersOf(e)' = HoldersOf(e)
  BY CoordinatorAssumption DEF TypeOK, UsersOf, HoldersOf, Using
<1>4. Placed'
  BY DEF TypeOK, Placed, Using
<1>5. Counted' /\ OnePermit'
  BY <1>3, SameCounts, SamePermits
<1>6. OneKey'
  BY DEF OneKey
<1>7. NoLeak'
  BY <1>1 DEF NoLeak, TypeOK
<1> QED BY <1>2, <1>4, <1>5, <1>6, <1>7

LEMMA WaitInv ==
    ASSUME Inv, NEW p \in Requests, Wait(p)
    PROVE  Inv'
<1> USE DEF Inv, Wait
<1>1. mine[p] \in Entries /\ permits[mine[p]] = 1
  BY DEF TypeOK, Placed
<1>2. TypeOK'
  BY <1>1 DEF TypeOK, Places
<1>3. \A e \in Entries : UsersOf(e)' = UsersOf(e)
  BY DEF TypeOK, UsersOf, Using
<1>4. HoldersOf(mine[p]) = {} /\ HoldersOf(mine[p])' = {p}
  BY <1>1 DEF TypeOK, OnePermit, HoldersOf
<1>5. \A x \in Entries \ {mine[p]} : HoldersOf(x)' = HoldersOf(x) /\ permits'[x] = permits[x]
  BY DEF TypeOK, HoldersOf
<1>6. permits'[mine[p]] = 0
  BY <1>1 DEF TypeOK
<1>7. OnePermit'
  BY <1>4, <1>5, <1>6 DEF OnePermit
<1>8. Placed'
  BY DEF TypeOK, Placed, Using
<1>9. Counted' /\ OneKey' /\ NoLeak'
  BY <1>3, SameCounts DEF OneKey, NoLeak
<1> QED BY <1>2, <1>7, <1>8, <1>9

LEMMA CancelInv ==
    ASSUME Inv, NEW p \in Requests, Cancel(p)
    PROVE  Inv'
<1> USE DEF Inv, Cancel
<1>1. TypeOK'
  BY DEF TypeOK, Places
<1>2. \A e \in Entries : UsersOf(e)' = UsersOf(e) /\ HoldersOf(e)' = HoldersOf(e)
  BY DEF TypeOK, UsersOf, HoldersOf, Using
<1>3. Placed'
  BY DEF TypeOK, Placed, Using
<1>4. Counted' /\ OnePermit'
  BY <1>2, SameCounts, SamePermits
<1>5. OneKey' /\ NoLeak'
  BY DEF OneKey, NoLeak
<1> QED BY <1>1, <1>3, <1>4, <1>5

LEMMA ReleaseInv ==
    ASSUME Inv, NEW p \in Requests, Release(p)
    PROVE  Inv'
<1> USE DEF Inv, Release
<1>1. mine[p] \in Entries /\ p \in HoldersOf(mine[p])
  BY DEF TypeOK, Placed, HoldersOf
<1>2. permits[mine[p]] = 0
  BY <1>1 DEF OnePermit
<1>3. TypeOK'
  BY <1>1, <1>2 DEF TypeOK, Places
<1>4. \A e \in Entries : UsersOf(e)' = UsersOf(e)
  BY DEF TypeOK, UsersOf, Using
<1>5. HoldersOf(mine[p])' = {}
  BY <1>1 DEF TypeOK, HoldersOf, OnePermit
<1>6. \A x \in Entries \ {mine[p]} : HoldersOf(x)' = HoldersOf(x) /\ permits'[x] = permits[x]
  BY DEF TypeOK, HoldersOf
<1>7. permits'[mine[p]] = 1
  BY <1>1, <1>2 DEF TypeOK
<1>8. OnePermit'
  BY <1>5, <1>6, <1>7 DEF OnePermit
<1>9. Placed'
  BY DEF TypeOK, Placed, Using
<1>10. Counted' /\ OneKey' /\ NoLeak'
  BY <1>4, SameCounts DEF OneKey, NoLeak
<1> QED BY <1>3, <1>8, <1>9, <1>10

LEMMA DropInv ==
    ASSUME Inv, NEW p \in Requests, Drop(p)
    PROVE  Inv'
<1>0. PICK e \in Entries : e = mine[p]
  BY DEF Inv, TypeOK, Placed, Drop
<1>1. /\ entries[key[p]] = e /\ key[p] \in Keys
      /\ at[p] = "dropping" /\ p \in UsersOf(e) /\ mine[p] = e
  BY <1>0 DEF Inv, TypeOK, Placed, Drop, UsersOf, Using
<1>2. /\ references' = [references EXCEPT ![e] = @ - 1]
      /\ at' = [at EXCEPT ![p] = "out"]
      /\ mine' = [mine EXCEPT ![p] = NoEntry]
      /\ permits' = permits /\ key' = key
  BY <1>0 DEF Drop
<1>3. UsersOf(e)' = UsersOf(e) \ {p}
  BY <1>1, <1>2, CoordinatorAssumption DEF Inv, TypeOK, UsersOf, Using
<1>4. \A x \in Entries \ {e} : UsersOf(x)' = UsersOf(x)
  BY <1>1, <1>2, CoordinatorAssumption DEF Inv, TypeOK, UsersOf, Using
<1>5. \A x \in Entries : HoldersOf(x)' = HoldersOf(x)
  BY <1>1, <1>2, CoordinatorAssumption DEF Inv, TypeOK, HoldersOf
<1>6. /\ Cardinality(UsersOf(e) \ {p}) = Cardinality(UsersOf(e)) - 1
      /\ Cardinality(UsersOf(e)) = references[e]
      /\ IsFiniteSet(UsersOf(e) \ {p})
      /\ references[e] \in Nat
  <2>1. IsFiniteSet(UsersOf(e)) /\ Cardinality(UsersOf(e)) \in Nat
    BY <1>1, UsersFinite
  <2>2. Cardinality(UsersOf(e) \ {p}) = Cardinality(UsersOf(e)) - 1 /\ IsFiniteSet(UsersOf(e) \ {p})
    BY <1>1, <2>1, FS_RemoveElement
  <2> QED BY <1>1, <2>1, <2>2 DEF Inv, Counted
<1>7. references[e] - 1 \in Nat
  BY <1>6, FS_CardinalityType
<1>8. (references[e] = 1) <=> (UsersOf(e) \ {p} = {})
  BY <1>6, FS_EmptySet
<1>9. \/ references[e] # 1 /\ entries' = entries /\ retired' = retired
      \/ /\ references[e] = 1
         /\ retired' = [retired EXCEPT ![e] = TRUE]
         /\ entries' = [entries EXCEPT ![key[p]] = NoEntry]
  BY <1>1 DEF Drop, Inv, TypeOK
<1>10. TypeOK'
  BY <1>1, <1>2, <1>7, <1>9 DEF Inv, TypeOK, Places
<1>11. \A k \in Keys : entries[k] = e => k = key[p]
  BY <1>1, CoordinatorAssumption DEF Inv, OneKey
<1>12. \A k \in Keys : entries'[k] = entries[k] \/ (k = key[p] /\ entries'[k] = NoEntry /\ references[e] = 1)
  BY <1>1, <1>9 DEF Inv, TypeOK
<1>13. OneKey'
  BY <1>12 DEF Inv, OneKey
<1>14. Placed'
  <2> SUFFICES ASSUME NEW q \in Requests, q # p
               PROVE  /\ mine[q] = NoEntry <=> at[q] \in {"out", "getting"}
                      /\ at[q] = "entering" => entries'[key[q]] = mine[q] \/ retired'[mine[q]]
                      /\ at[q] \in Using => entries'[key[q]] = mine[q]
    BY <1>1, <1>2 DEF Inv, TypeOK, Placed, Using
  <2>1. mine[q] = NoEntry <=> at[q] \in {"out", "getting"}
    BY DEF Inv, Placed
  <2>2. ASSUME at[q] = "entering"
        PROVE  entries'[key[q]] = mine[q] \/ retired'[mine[q]]
    BY <2>2, <1>1, <1>9, <1>11 DEF Inv, Placed, TypeOK
  <2>3. ASSUME at[q] \in Using
        PROVE  entries'[key[q]] = mine[q]
    <3>1. entries[key[q]] = mine[q] /\ key[q] \in Keys
      BY <2>3 DEF Inv, Placed, TypeOK
    <3>2. CASE key[q] # key[p]
      BY <3>1, <3>2, <1>12
    <3>3. CASE key[q] = key[p]
      <4>1. q \in UsersOf(e) \ {p}
        BY <3>1, <3>3, <2>3, <1>1 DEF UsersOf
      <4> QED BY <4>1, <3>1, <1>8, <1>12
    <3> QED BY <3>2, <3>3
  <2> QED BY <2>1, <2>2, <2>3
<1>15. Counted'
  <2>1. \A x \in Entries : references'[x] = Cardinality(UsersOf(x)')
    BY <1>1, <1>2, <1>3, <1>4, <1>6 DEF Inv, TypeOK, Counted
  <2>2. \A x \in Entries : retired'[x] => \A k \in Keys : entries'[k] # x
    BY <1>1, <1>9, <1>11, CoordinatorAssumption DEF Inv, TypeOK, Counted
  <2> QED BY <2>1, <2>2 DEF Counted
<1>16. OnePermit'
  BY <1>2, <1>5, SamePermits DEF Inv
<1>17. NoLeak'
  <2> SUFFICES ASSUME NEW k \in Keys, entries'[k] # NoEntry
               PROVE  \E q \in Requests : key'[q] = k /\ mine'[q] = entries'[k]
    BY DEF NoLeak
  <2>1. entries'[k] = entries[k] /\ (k = key[p] => references[e] # 1)
    BY <1>1, <1>9, <1>12 DEF Inv, TypeOK
  <2>2. CASE k = key[p]
    <3>1. PICK q \in UsersOf(e) : q # p
      BY <2>1, <2>2, <1>8
    <3>2. q \in Requests /\ mine[q] = e /\ entries[key[q]] = e /\ key[q] \in Keys
      BY <3>1 DEF UsersOf, Inv, Placed, TypeOK
    <3>3. key[q] = k
      BY <3>2, <2>2, <1>11
    <3> QED BY <3>1, <3>2, <3>3, <2>1, <2>2, <1>1, <1>2 DEF Inv, TypeOK
  <2>3. CASE k # key[p]
    <3>1. PICK q \in Requests : key[q] = k /\ mine[q] = entries[k]
      BY <2>1 DEF Inv, NoLeak
    <3> QED BY <3>1, <2>3, <2>1, <1>2 DEF Inv, TypeOK
  <2> QED BY <2>2, <2>3
<1> QED BY <1>10, <1>13, <1>14, <1>15, <1>16, <1>17 DEF Inv

LEMMA NextInv == Inv /\ [Next]_vars => Inv'
<1> SUFFICES ASSUME Inv, [Next]_vars PROVE Inv'
  OBVIOUS
<1>1. CASE UNCHANGED vars
  <2>1. \A e \in Entries : UsersOf(e)' = UsersOf(e) /\ HoldersOf(e)' = HoldersOf(e)
    BY <1>1 DEF vars, UsersOf, HoldersOf
  <2>2. Counted' /\ OnePermit'
    BY <1>1, <2>1, SameCounts, SamePermits DEF Inv, vars
  <2>3. TypeOK' /\ Placed' /\ OneKey' /\ NoLeak'
    BY <1>1 DEF vars, Inv, TypeOK, Placed, OneKey, NoLeak
  <2> QED BY <2>2, <2>3 DEF Inv
<1>2. CASE Next
  BY <1>2, AskInv, GetInv, AddInv, EnterInv, RetryInv, WaitInv, CancelInv, ReleaseInv, DropInv
     DEF Next, Step
<1> QED BY <1>1, <1>2

\* The invariant holds of every behaviour of the coordinator.
THEOREM Invariance == Spec => []Inv
<1>1. Init => Inv
  BY InitInv
<1>2. Inv /\ [Next]_vars => Inv'
  BY NextInv
<1> QED BY <1>1, <1>2, PTL DEF Spec

\* Two holders of one key hold one entry, and it has one permit.
LEMMA InvMutex == Inv => MutualExclusion
BY CoordinatorAssumption DEF Inv, TypeOK, Placed, OnePermit, HoldersOf, MutualExclusion, Using

\* Two requests never refresh the tokens of one session at the same time,
\* whatever is cancelled and retired in between (AcquireAsync).
THEOREM OneRefreshAtATime == Spec => []MutualExclusion
BY Invariance, InvMutex, PTL

\* The dictionary only keeps entries of sessions that a request is working on
\* (ReleaseReference).
THEOREM NothingLeaks == Spec => []NoLeak
<1>1. Inv => NoLeak
  BY DEF Inv
<1> QED BY <1>1, Invariance, PTL

-----------------------------------------------------------------------------
(* The refinement.                                                         *)

LEMMA InitRefines == Init => Lock!Init
BY DEF Init, Lock!Init, Stages, Stage

LEMMA StepRefines == Inv /\ Inv' /\ [Next]_vars => [Lock!Next]_<<Stages, key>>
<1> SUFFICES ASSUME Inv, Inv', [Next]_vars PROVE [Lock!Next]_<<Stages, key>>
  OBVIOUS
<1>1. CASE UNCHANGED vars
  BY <1>1 DEF vars, Stages, Stage
<1>2. ASSUME NEW p \in Requests, NEW k \in Keys, Ask(p, k)
      PROVE  Lock!Ask(p, k)
  <2>1. Stages[p] = "out" /\ Stages' = [Stages EXCEPT ![p] = "waits"]
    BY <1>2 DEF Ask, Stages, Stage, Inv, TypeOK
  <2> QED BY <1>2, <2>1 DEF Ask, Lock!Ask
<1>3. ASSUME NEW p \in Requests,
             Get(p) \/ (\E e \in Entries : Add(p, e)) \/ Enter(p) \/ Retry(p) \/ Drop(p)
      PROVE  UNCHANGED <<Stages, key>>
  BY <1>3 DEF Get, Add, Enter, Retry, Drop, Stages, Stage, Inv, TypeOK
<1>4. ASSUME NEW p \in Requests, Wait(p)
      PROVE  Lock!Acquire(p)
  <2>1. Stages[p] = "waits" /\ Stages' = [Stages EXCEPT ![p] = "holds"] /\ key' = key
    BY <1>4 DEF Wait, Stages, Stage, Inv, TypeOK
  <2>2. MutualExclusion' /\ at'[p] = "holding"
    BY <1>4, InvMutex DEF Wait, Inv, TypeOK, MutualExclusion, Placed, OnePermit, HoldersOf, Using
  <2>3. ~Lock!Held(key[p])
    <3> SUFFICES ASSUME NEW q \in Requests, Stages[q] = "holds", key[q] = key[p]
                 PROVE  FALSE
      BY DEF Lock!Held
    <3>1. at[q] = "holding" /\ q # p
      BY <1>4 DEF Stages, Stage, Wait
    <3>2. at'[q] = "holding" /\ key'[q] = key'[p]
      BY <3>1, <2>1, <1>4 DEF Wait, Inv, TypeOK
    <3> QED BY <3>1, <3>2, <2>2 DEF MutualExclusion
  <2> QED BY <2>1, <2>3 DEF Lock!Acquire
<1>5. ASSUME NEW p \in Requests, Cancel(p) \/ Release(p)
      PROVE  Lock!Leave(p)
  <2>1. Stages[p] # "out" /\ Stages' = [Stages EXCEPT ![p] = "out"] /\ key' = key
    BY <1>5 DEF Cancel, Release, Stages, Stage, Inv, TypeOK
  <2> QED BY <2>1 DEF Lock!Leave
<1>6. CASE Next
  BY <1>6, <1>2, <1>3, <1>4, <1>5 DEF Next, Step, Lock!Next
<1> QED BY <1>1, <1>6

\* The coordinator implements one lock for each session: every step is a step
\* of SessionLock or leaves it alone (AcquireAsync, Release).
THEOREM CoordinatorIsLock == Spec => IsSessionLock
<1>1. Init => Lock!Init
  BY InitRefines
<1>2. Inv /\ Inv' /\ [Next]_vars => [Lock!Next]_<<Stages, key>>
  BY StepRefines
<1> QED BY <1>1, <1>2, Invariance, PTL DEF Spec, IsSessionLock, Lock!Spec
=============================================================================
