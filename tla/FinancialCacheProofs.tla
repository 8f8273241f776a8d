------------------------ MODULE FinancialCacheProofs ------------------------
(***************************************************************************)
(* The cache never serves or keeps overwritten data under the current      *)
(* revision, for any number of requests, operations, tables and commits.   *)
(***************************************************************************)
EXTENDS FinancialCache, TLAPS

LEMMA InitInv == Init => Inv
<1> SUFFICES ASSUME Init PROVE Inv
  OBVIOUS
<1>1. NoCall \in Calls
  <2>1. (CHOOSE op \in Operations : TRUE) \in Operations
    BY CacheAssumption
  <2> QED BY <2>1, CacheAssumption DEF NoCall, Calls, CallStates, Commits
<1>2. TypeOK
  BY <1>1, CacheAssumption DEF Init, TypeOK, Commits, None
<1>3. RevisionBorn
  BY CacheAssumption DEF Init, RevisionBorn, None
<1>4. EntriesFresh
  BY DEF Init, EntriesFresh
<1>5. CallsFresh
  BY CacheAssumption DEF Init, CallsFresh, CallFresh, InnerInOuter, NoCall, Levels
<1> QED BY <1>2, <1>3, <1>4, <1>5 DEF Inv

\* A step that gives one call a new value and changes nothing else keeps the
\* invariant when the new value does.
LEMMA SetCallInv ==
    ASSUME Inv, NEW c \in Callers, NEW l \in Levels, NEW k \in Calls,
           SetCall(c, l, k), UNCHANGED <<commits, revision, born, store>>,
           CallFresh(k),
           l = "outer" => InnerInOuter(k, call[c]["inner"]),
           l = "inner" => InnerInOuter(call[c]["outer"], k)
    PROVE  Inv'
<1>1. TypeOK'
  BY DEF Inv, TypeOK, SetCall
<1>2. RevisionBorn' /\ EntriesFresh'
  BY DEF Inv, RevisionBorn, EntriesFresh
<1>3. CallsFresh'
  <2> SUFFICES ASSUME NEW d \in Callers
               PROVE  /\ \A m \in Levels : CallFresh(call'[d][m])
                      /\ InnerInOuter(call'[d]["outer"], call'[d]["inner"])
    BY DEF CallsFresh, CallFresh, InnerInOuter
  <2>1. \A m \in Levels : call'[d][m] = IF d = c /\ m = l THEN k ELSE call[d][m]
    BY DEF Inv, TypeOK, SetCall
  <2>2. \A m \in Levels : CallFresh(call[d][m])
    BY DEF Inv, CallsFresh
  <2>3. InnerInOuter(call[d]["outer"], call[d]["inner"])
    BY DEF Inv, CallsFresh
  <2> QED BY <2>1, <2>2, <2>3 DEF Levels
<1> QED BY <1>1, <1>2, <1>3 DEF Inv

LEMMA CommitInv == Inv /\ Commit => Inv'
<1> SUFFICES ASSUME Inv, Commit PROVE Inv'
  OBVIOUS
<1> USE DEF Inv
<1>1. PICK r \in Revisions :
          /\ born[r] = None
          /\ revision' = r
          /\ born' = [born EXCEPT ![r] = commits + 1]
  BY DEF Commit
<1>2. commits \in Nat /\ commits' = commits + 1 /\ commits' \in Commits
  BY CacheAssumption DEF Commit, TypeOK, Commits
<1>3. store' = store /\ call' = call
  BY DEF Commit
<1>4. TypeOK'
  BY <1>1, <1>2, <1>3 DEF TypeOK, Commits
<1>5. \A x \in Revisions : born'[x] = IF x = r THEN commits + 1 ELSE born[x]
  BY <1>1 DEF TypeOK
<1>6. \A x \in Revisions : born[x] \in Nat /\ (born[x] <= commits => x # r)
  BY <1>1, CacheAssumption DEF TypeOK, Commits, None
<1>7. RevisionBorn'
  BY <1>1, <1>2, <1>5, <1>6 DEF RevisionBorn, None
<1>8. EntriesFresh'
  <2> SUFFICES ASSUME NEW x \in Revisions, NEW op \in Operations, NEW n \in store[x][op]
               PROVE  born'[x] <= n /\ n <= commits'
    BY <1>3 DEF EntriesFresh
  <2>1. n \in Nat /\ born[x] <= n /\ n <= commits
    BY CacheAssumption DEF EntriesFresh, TypeOK, Commits
  <2>2. born'[x] = born[x]
    BY <2>1, <1>2, <1>5, <1>6
  <2> QED BY <2>1, <2>2, <1>2
<1>9. CallsFresh'
  <2> SUFFICES ASSUME NEW c \in Callers
               PROVE  /\ \A l \in Levels : CallFresh(call[c][l])'
                      /\ InnerInOuter(call[c]["outer"], call[c]["inner"])'
    BY DEF CallsFresh
  <2>1. ASSUME NEW l \in Levels, call[c][l].cached
        PROVE  born'[call[c][l].key] = born[call[c][l].key]
    <3>1. CallFresh(call[c][l]) /\ call[c][l] \in Calls
      BY DEF CallsFresh, TypeOK
    <3>2. call[c][l].key \in Revisions /\ born[call[c][l].key] <= commits
      BY <3>1, <2>1 DEF CallFresh, Calls
    <3> QED BY <3>2, <1>5, <1>6
  <2>2. ASSUME NEW l \in Levels PROVE CallFresh(call[c][l])'
    <3>1. CallFresh(call[c][l]) /\ call[c][l] \in Calls
      BY DEF CallsFresh, TypeOK
    <3>2. call[c][l].began \in Nat /\ call[c][l].seen \subseteq Nat /\ call[c][l].key \in Revisions
      BY <3>1 DEF Calls, Commits
    <3> QED BY <3>1, <3>2, <2>1, <1>2, <1>3, <1>6 DEF CallFresh
  <2>3. InnerInOuter(call[c]["outer"], call[c]["inner"])'
    BY <2>1, <1>3 DEF InnerInOuter, CallsFresh, Levels
  <2> QED BY <2>2, <2>3
<1> QED BY <1>4, <1>7, <1>8, <1>9

LEMMA CallStepInv ==
    ASSUME Inv, NEW c \in Callers, NEW l \in Levels,
           \/ Bypass(c, l)
           \/ ReadRevision(c, l)
           \/ Hit(c, l)
           \/ Miss(c, l)
           \/ LookupFails(c, l)
           \/ \E t \in Tables : Query(c, l, t)
           \/ ReturnUnstored(c, l)
    PROVE  Inv'
<1> DEFINE k == call[c][l]
<1>1. /\ k \in Calls
      /\ CallFresh(k)
      /\ InnerInOuter(call[c]["outer"], call[c]["inner"])
  BY DEF Inv, TypeOK, CallsFresh
<1>2. call[c]["inner"] \in Calls /\ call[c]["outer"] \in Calls
  BY DEF Inv, TypeOK, Levels
<1>3. /\ commits \in Commits /\ commits \in Nat
      /\ revision \in Revisions /\ born[revision] = commits
      /\ \A r \in Revisions : born[r] \in Nat
  BY CacheAssumption DEF Inv, TypeOK, RevisionBorn, Commits, None
<1>4. CASE Bypass(c, l)
  <2> DEFINE v == [k EXCEPT !.at = "reading"]
  <2>1. v \in Calls /\ CallFresh(v)
    BY <1>1, <1>4 DEF Bypass, CallFresh, Calls, CallStates
  <2>2. /\ l = "outer" => InnerInOuter(v, call[c]["inner"])
        /\ l = "inner" => InnerInOuter(call[c]["outer"], v)
    BY <1>1, <1>4 DEF Bypass, InnerInOuter, Calls
  <2> HIDE DEF v
  <2>3. SetCall(c, l, v) /\ UNCHANGED <<commits, revision, born, store>>
    BY <1>4 DEF Bypass, v
  <2> QED BY <2>1, <2>2, <2>3, SetCallInv
<1>5. CASE ReadRevision(c, l)
  <2> DEFINE v == [k EXCEPT !.at = "lookup", !.key = revision, !.cached = TRUE]
  <2>1. v \in Calls
    BY <1>1, <1>3 DEF Calls, CallStates
  <2>2. CallFresh(v)
    BY <1>1, <1>3, <1>5 DEF ReadRevision, CallFresh, Calls
  <2>3. /\ l = "outer" => InnerInOuter(v, call[c]["inner"])
        /\ l = "inner" => InnerInOuter(call[c]["outer"], v)
    BY <1>1, <1>5 DEF ReadRevision, InnerInOuter, Calls
  <2> HIDE DEF v
  <2>4. SetCall(c, l, v) /\ UNCHANGED <<commits, revision, born, store>>
    BY <1>5 DEF ReadRevision, v
  <2> QED BY <2>1, <2>2, <2>3, <2>4, SetCallInv
<1>6. CASE Hit(c, l)
  <2> DEFINE v == Done(k, Entry(c, l))
  <2>1. /\ Entry(c, l) \subseteq Commits
        /\ Entry(c, l) # {}
        /\ \A n \in Entry(c, l) : born[k.key] <= n /\ n <= commits
    BY <1>1, <1>6 DEF Hit, Entry, Inv, TypeOK, EntriesFresh, Calls
  <2>2. v \in Calls
    BY <1>1, <2>1, CacheAssumption DEF Done, Calls, CallStates
  <2>3. k.began <= born[k.key] /\ k.began \in Nat /\ k.key \in Revisions
    BY <1>1, <1>6 DEF Hit, CallFresh, Calls, Commits
  <2>4. \A n \in Entry(c, l) : k.began <= n /\ n <= commits
    BY <1>3, <2>1, <2>3 DEF Commits
  <2>5. CallFresh(v)
    BY <1>1, <2>1, <2>4 DEF Done, CallFresh, Calls
  <2>6. /\ l = "outer" => InnerInOuter(v, call[c]["inner"])
        /\ l = "inner" => InnerInOuter(call[c]["outer"], v)
    BY <1>1, <1>6 DEF Hit, Done, InnerInOuter, Calls
  <2> HIDE DEF v
  <2>7. SetCall(c, l, v) /\ UNCHANGED <<commits, revision, born, store>>
    BY <1>6 DEF Hit, v
  <2> QED BY <2>2, <2>5, <2>6, <2>7, SetCallInv
<1>7. CASE Miss(c, l)
  <2> DEFINE v == [k EXCEPT !.at = "reading"]
  <2>1. v \in Calls /\ CallFresh(v)
    BY <1>1, <1>7 DEF Miss, CallFresh, Calls, CallStates
  <2>2. /\ l = "outer" => InnerInOuter(v, call[c]["inner"])
        /\ l = "inner" => InnerInOuter(call[c]["outer"], v)
    BY <1>1, <1>7 DEF Miss, InnerInOuter, Calls
  <2> HIDE DEF v
  <2>3. SetCall(c, l, v) /\ UNCHANGED <<commits, revision, born, store>>
    BY <1>7 DEF Miss, v
  <2> QED BY <2>1, <2>2, <2>3, SetCallInv
<1>8. CASE LookupFails(c, l)
  <2> DEFINE v == [k EXCEPT !.at = "reading", !.key = Empty, !.cached = FALSE]
  <2>1. v \in Calls
    BY <1>1, CacheAssumption DEF Calls, CallStates
  <2>2. CallFresh(v)
    BY <1>1, <1>8 DEF LookupFails, CallFresh, Calls
  <2>3. /\ l = "outer" => InnerInOuter(v, call[c]["inner"])
        /\ l = "inner" => InnerInOuter(call[c]["outer"], v)
    BY <1>1, <1>8 DEF LookupFails, InnerInOuter, Calls
  <2> HIDE DEF v
  <2>4. SetCall(c, l, v) /\ UNCHANGED <<commits, revision, born, store>>
    BY <1>8 DEF LookupFails, v
  <2> QED BY <2>1, <2>2, <2>3, <2>4, SetCallInv
<1>9. ASSUME NEW t \in Tables, Query(c, l, t) PROVE Inv'
  <2> DEFINE v == [k EXCEPT !.todo = @ \ {t}, !.seen = @ \cup {commits}]
  <2>1. v \in Calls
    BY <1>1, <1>3 DEF Calls
  <2>2. CallFresh(v)
    <3>1. /\ v.at = "reading" /\ v.seen = k.seen \cup {commits}
          /\ v.began = k.began /\ v.key = k.key /\ v.cached = k.cached
      BY <1>1, <1>9 DEF Query, Calls
    <3>2. k.began <= commits /\ commits <= commits
      BY <1>1, <1>3 DEF CallFresh
    <3>3. k.cached => k.began <= born[k.key] /\ born[k.key] <= commits
      BY <1>1 DEF CallFresh
    <3> HIDE DEF v
    <3> QED BY <1>1, <3>1, <3>2, <3>3 DEF CallFresh
  <2>3. /\ l = "outer" => InnerInOuter(v, call[c]["inner"])
        /\ l = "inner" => InnerInOuter(call[c]["outer"], v)
    BY <1>1, <1>2, <1>9, CacheAssumption DEF Query, InnerInOuter, Calls
  <2> HIDE DEF v
  <2>4. SetCall(c, l, v) /\ UNCHANGED <<commits, revision, born, store>>
    BY <1>9 DEF Query, v
  <2> QED BY <2>1, <2>2, <2>3, <2>4, SetCallInv
<1>10. CASE ReturnUnstored(c, l)
  <2> DEFINE v == Done(k, k.seen)
  <2>1. v \in Calls
    BY <1>1, CacheAssumption DEF Done, Calls, CallStates
  <2>2. CallFresh(v)
    BY <1>1, <1>10, CacheAssumption DEF ReturnUnstored, ReadIsOver, Done, CallFresh, Calls
  <2>3. /\ l = "outer" => InnerInOuter(v, call[c]["inner"])
        /\ l = "inner" => InnerInOuter(call[c]["outer"], v)
    BY <1>1, <1>10 DEF ReturnUnstored, ReadIsOver, Done, InnerInOuter, Calls
  <2> HIDE DEF v
  <2>4. SetCall(c, l, v) /\ UNCHANGED <<commits, revision, born, store>>
    BY <1>10 DEF ReturnUnstored, v
  <2> QED BY <2>1, <2>2, <2>3, <2>4, SetCallInv
<1> QED BY <1>4, <1>5, <1>6, <1>7, <1>8, <1>9, <1>10

\* The inner call starts, and its result is merged into the outer call's.
LEMMA UseInv == ASSUME Inv, NEW c \in Callers, NEW op \in Operations, Use(c, op)
                PROVE  Inv'
<1>1. /\ CallFresh(call[c]["outer"])
      /\ commits \in Commits /\ commits \in Nat
      /\ call[c]["outer"] \in Calls
  BY CacheAssumption DEF Inv, TypeOK, CallsFresh, Levels, Commits
<1>2. NewCall(op) \in Calls
  BY <1>1, CacheAssumption DEF NewCall, Calls, CallStates
<1>3. CallFresh(NewCall(op))
  BY <1>1 DEF NewCall, CallFresh
<1>4. InnerInOuter(call[c]["outer"], NewCall(op))
  BY <1>1 DEF Use, NewCall, InnerInOuter, CallFresh
<1>5. SetCall(c, "inner", NewCall(op)) /\ UNCHANGED <<commits, revision, born, store>>
  BY DEF Use
<1> HIDE DEF NewCall
<1> QED BY <1>2, <1>3, <1>4, <1>5, SetCallInv DEF Levels

LEMMA AskInv == ASSUME Inv, NEW c \in Callers, NEW op \in Operations, Ask(c, op)
                PROVE  Inv'
<1>1. /\ commits \in Commits /\ commits \in Nat
      /\ InnerInOuter(call[c]["outer"], call[c]["inner"])
  BY CacheAssumption DEF Inv, TypeOK, CallsFresh, Levels, Commits
<1>2. NewCall(op) \in Calls
  BY <1>1, CacheAssumption DEF NewCall, Calls, CallStates
<1>3. CallFresh(NewCall(op))
  BY <1>1 DEF NewCall, CallFresh
<1>4. InnerInOuter(NewCall(op), call[c]["inner"])
  BY <1>1 DEF Ask, InnerInOuter
<1>5. SetCall(c, "outer", NewCall(op)) /\ UNCHANGED <<commits, revision, born, store>>
  BY DEF Ask
<1> QED BY <1>2, <1>3, <1>4, <1>5, SetCallInv DEF Levels

\* A step that replaces both calls of one request.
LEMMA BothCallsInv ==
    ASSUME Inv, NEW c \in Callers, NEW outer \in Calls, NEW inner \in Calls,
           call' = [call EXCEPT ![c] = [l \in Levels |-> IF l = "outer" THEN outer ELSE inner]],
           UNCHANGED <<commits, revision, born, store>>,
           CallFresh(outer), CallFresh(inner), InnerInOuter(outer, inner)
    PROVE  Inv'
<1>1. \A d \in Callers, l \in Levels :
          call'[d][l] = IF d = c THEN (IF l = "outer" THEN outer ELSE inner) ELSE call[d][l]
  BY DEF Inv, TypeOK
<1>2. TypeOK'
  BY DEF Inv, TypeOK
<1>3. RevisionBorn' /\ EntriesFresh'
  BY DEF Inv, RevisionBorn, EntriesFresh
<1>4. CallsFresh'
  <2> SUFFICES ASSUME NEW d \in Callers
               PROVE  /\ \A l \in Levels : CallFresh(call'[d][l])
                      /\ InnerInOuter(call'[d]["outer"], call'[d]["inner"])
    BY DEF CallsFresh, CallFresh, InnerInOuter
  <2>1. /\ \A l \in Levels : CallFresh(call[d][l])
        /\ InnerInOuter(call[d]["outer"], call[d]["inner"])
    BY DEF Inv, CallsFresh
  <2> QED BY <1>1, <2>1 DEF Levels
<1> QED BY <1>2, <1>3, <1>4 DEF Inv

LEMMA NoCallOK == ASSUME Inv PROVE NoCall \in Calls /\ CallFresh(NoCall)
<1>1. (CHOOSE op \in Operations : TRUE) \in Operations
  BY CacheAssumption
<1> QED BY <1>1, CacheAssumption DEF Inv, TypeOK, NoCall, Calls, CallStates, Commits, CallFresh

LEMMA UsedInv == ASSUME Inv, NEW c \in Callers, Used(c) PROVE Inv'
<1> DEFINE outer == call[c]["outer"]
           inner == call[c]["inner"]
           v == [outer EXCEPT !.todo = @ \ {inner.op}, !.seen = @ \cup inner.seen]
<1>1. /\ outer \in Calls /\ inner \in Calls
      /\ CallFresh(outer) /\ CallFresh(inner) /\ InnerInOuter(outer, inner)
      /\ inner.at = "done"
  BY DEF Inv, TypeOK, CallsFresh, Levels, Used
<1>2. v \in Calls
  BY <1>1 DEF Calls
<1>3. /\ v.at = "reading" /\ v.seen = outer.seen \cup inner.seen
      /\ v.began = outer.began /\ v.key = outer.key /\ v.cached = outer.cached
      /\ inner.seen # {}
  BY <1>1 DEF Calls, InnerInOuter, CallFresh
<1>4. \A n \in inner.seen : /\ outer.began <= n /\ n <= commits
                            /\ outer.cached => born[outer.key] <= n
  <2>1. /\ outer.began \in Nat /\ inner.began \in Nat /\ inner.seen \subseteq Nat
        /\ born[outer.key] \in Nat
    BY <1>1, CacheAssumption DEF Calls, Inv, TypeOK, Commits, None
  <2> QED BY <1>1, <2>1 DEF InnerInOuter, CallFresh
<1>5. CallFresh(v)
  <2> HIDE DEF v
  <2> QED BY <1>1, <1>3, <1>4 DEF CallFresh
<1>6. InnerInOuter(v, NoCall)
  BY DEF InnerInOuter, NoCall
<1>7. /\ call' = [call EXCEPT ![c] = [l \in Levels |-> IF l = "outer" THEN v ELSE NoCall]]
      /\ UNCHANGED <<commits, revision, born, store>>
  <2>1. [outer |-> v, inner |-> NoCall] = [l \in Levels |-> IF l = "outer" THEN v ELSE NoCall]
    BY DEF Levels
  <2> QED BY <2>1 DEF Used
<1> HIDE DEF v
<1> QED BY <1>2, <1>5, <1>6, <1>7, NoCallOK, BothCallsInv

LEMMA LeaveInv == ASSUME Inv, NEW c \in Callers, Leave(c) PROVE Inv'
<1>1. InnerInOuter(NoCall, NoCall)
  BY DEF InnerInOuter, NoCall
<1>2. /\ call' = [call EXCEPT ![c] = [l \in Levels |-> IF l = "outer" THEN NoCall ELSE NoCall]]
      /\ UNCHANGED <<commits, revision, born, store>>
  BY DEF Leave
<1> QED BY <1>1, <1>2, NoCallOK, BothCallsInv

LEMMA FillInv == ASSUME Inv, NEW c \in Callers, NEW l \in Levels, Fill(c, l) PROVE Inv'
<1> DEFINE k == call[c][l]
           v == Done(k, k.seen)
<1>1. /\ k \in Calls
      /\ CallFresh(k)
      /\ InnerInOuter(call[c]["outer"], call[c]["inner"])
      /\ k.at = "reading" /\ k.todo = {} /\ k.cached
  BY DEF Inv, TypeOK, CallsFresh, Fill, ReadIsOver
<1>2. /\ call' = [call EXCEPT ![c][l] = v]
      /\ store' = [store EXCEPT ![k.key][k.op] = k.seen]
      /\ UNCHANGED <<commits, revision, born>>
  BY DEF Fill, SetCall
<1>3. k.key \in Revisions /\ k.op \in Operations /\ k.seen \subseteq Commits /\ k.seen # {}
  BY <1>1, CacheAssumption DEF Calls, CallFresh
<1>4. v \in Calls
  BY <1>1, CacheAssumption DEF Done, Calls, CallStates
<1>5. TypeOK'
  BY <1>2, <1>3, <1>4 DEF Inv, TypeOK
<1>6. RevisionBorn'
  BY <1>2 DEF Inv, RevisionBorn
<1>7. EntriesFresh'
  <2> SUFFICES ASSUME NEW r \in Revisions, NEW op \in Operations, NEW n \in store'[r][op]
               PROVE  born[r] <= n /\ n <= commits
    BY <1>2 DEF EntriesFresh
  <2>1. CASE r = k.key /\ op = k.op
    <3>1. n \in k.seen
      BY <1>2, <1>3, <2>1 DEF Inv, TypeOK
    <3> QED BY <1>1, <2>1, <3>1 DEF CallFresh
  <2>2. CASE ~(r = k.key /\ op = k.op)
    <3>1. n \in store[r][op]
      BY <1>2, <1>3, <2>2 DEF Inv, TypeOK
    <3> QED BY <3>1 DEF Inv, EntriesFresh
  <2> QED BY <2>1, <2>2
<1>8. CallsFresh'
  <2>1. CallFresh(v)
    BY <1>1, <1>3 DEF Done, CallFresh, Calls
  <2>2. /\ l = "outer" => InnerInOuter(v, call[c]["inner"])
        /\ l = "inner" => InnerInOuter(call[c]["outer"], v)
    BY <1>1 DEF Done, InnerInOuter, Calls
  <2> HIDE DEF v
  <2> SUFFICES ASSUME NEW d \in Callers
               PROVE  /\ \A m \in Levels : CallFresh(call'[d][m])
                      /\ InnerInOuter(call'[d]["outer"], call'[d]["inner"])
    BY <1>2 DEF CallsFresh, CallFresh, InnerInOuter
  <2>3. \A m \in Levels : call'[d][m] = IF d = c /\ m = l THEN v ELSE call[d][m]
    BY <1>2 DEF Inv, TypeOK
  <2>4. /\ \A m \in Levels : CallFresh(call[d][m])
        /\ InnerInOuter(call[d]["outer"], call[d]["inner"])
    BY DEF Inv, CallsFresh
  <2> QED BY <2>1, <2>2, <2>3, <2>4 DEF Levels
<1> QED BY <1>5, <1>6, <1>7, <1>8 DEF Inv

LEMMA ExpireInv == ASSUME Inv, NEW r \in Revisions, NEW op \in Operations, Expire(r, op)
                   PROVE  Inv'
<1>1. TypeOK'
  BY DEF Inv, TypeOK, Expire
<1>2. RevisionBorn' /\ CallsFresh'
  BY DEF Inv, Expire, RevisionBorn, CallsFresh, CallFresh, InnerInOuter
<1>3. EntriesFresh'
  BY DEF Inv, TypeOK, Expire, EntriesFresh
<1> QED BY <1>1, <1>2, <1>3 DEF Inv

LEMMA NextInv == Inv /\ [Next]_vars => Inv'
<1> SUFFICES ASSUME Inv, [Next]_vars PROVE Inv'
  OBVIOUS
<1>1. CASE Commit
  BY <1>1, CommitInv
<1>2. CASE \E c \in Callers, op \in Operations : Ask(c, op) \/ Use(c, op)
  BY <1>2, AskInv, UseInv
<1>3. ASSUME NEW c \in Callers, NEW l \in Levels,
             \/ Bypass(c, l) \/ ReadRevision(c, l)
             \/ Hit(c, l) \/ Miss(c, l) \/ LookupFails(c, l)
             \/ \E t \in Tables : Query(c, l, t)
             \/ Fill(c, l) \/ ReturnUnstored(c, l)
      PROVE  Inv'
  BY <1>3, CallStepInv, FillInv
<1>4. CASE \E c \in Callers : Used(c) \/ Leave(c)
  BY <1>4, UsedInv, LeaveInv
<1>5. CASE \E r \in Revisions, op \in Operations : Expire(r, op)
  BY <1>5, ExpireInv
<1>6. CASE UNCHANGED vars
  BY <1>6 DEF vars, Inv, TypeOK, RevisionBorn, EntriesFresh, CallsFresh, CallFresh, InnerInOuter
<1> QED BY <1>1, <1>2, <1>3, <1>4, <1>5, <1>6 DEF Next

\* Every reachable state has the types declared for it and satisfies the
\* inductive invariant.
THEOREM Invariance == Spec => []Inv
<1> QED BY InitInv, NextInv, PTL DEF Spec

THEOREM TypeCorrect == Spec => []TypeOK
<1>1. Inv => TypeOK
  BY DEF Inv
<1> QED BY Invariance, <1>1, PTL

\* No entry stored under the current revision shows an overwritten commit,
\* whichever fills raced whichever commits.
THEOREM NoPoisonedEntry == Spec => []CurrentEntryIsCurrent
<1>1. Inv => CurrentEntryIsCurrent
  <2> SUFFICES ASSUME Inv, NEW op \in Operations, NEW n \in store[revision][op]
               PROVE  n = commits
    BY DEF CurrentEntryIsCurrent
  <2>1. revision \in Revisions /\ commits \in Nat /\ n \in Nat
    BY CacheAssumption DEF Inv, TypeOK, Commits
  <2>2. born[revision] = commits /\ born[revision] <= n /\ n <= commits
    BY <2>1 DEF Inv, RevisionBorn, EntriesFresh
  <2> QED BY <2>1, <2>2
<1> QED BY Invariance, <1>1, PTL

\* No answer contains data a commit had overwritten before the call began.
THEOREM FreshAnswers == Spec => []AnswerIsFresh
<1>1. Inv => AnswerIsFresh
  BY DEF Inv, CallsFresh, CallFresh, AnswerIsFresh, Levels
<1> QED BY Invariance, <1>1, PTL

-----------------------------------------------------------------------------
(* The cached read implements the plain one.                               *)

\* What a step on one outer call looks like to the callers.
LEMMA RequestsUpdate ==
    ASSUME Inv, NEW c \in Callers, NEW k,
           \A d \in Callers : call'[d]["outer"] = IF d = c THEN k ELSE call[d]["outer"]
    PROVE  Requests' = [Requests EXCEPT ![c] = Request(k)]
BY DEF Requests, Request

\* A step that leaves what its caller sees of a call alone is a stuttering step.
LEMMA HiddenStep ==
    ASSUME Inv, commits' = commits,
           \A d \in Callers : Request(call'[d]["outer"]) = Request(call[d]["outer"])
    PROVE  UNCHANGED <<commits, Requests>>
BY DEF Requests, Request

LEMMA OuterOfSetCall ==
    ASSUME Inv, NEW c \in Callers, NEW l \in Levels, NEW k, SetCall(c, l, k)
    PROVE  \A d \in Callers : call'[d]["outer"] =
               IF d = c /\ l = "outer" THEN k ELSE call[d]["outer"]
BY DEF Inv, TypeOK, SetCall, Levels

\* Finishing an outer call with a fresh, non-empty answer is Reads!Answer.
LEMMA AnswerStep ==
    ASSUME Inv, NEW c \in Callers, NEW l \in Levels, NEW answer \in SUBSET Commits,
           call[c][l].at \in {"lookup", "reading"}, answer # {},
           \A n \in answer : call[c][l].began <= n /\ n <= commits,
           SetCall(c, l, Done(call[c][l], answer)), commits' = commits
    PROVE  [Reads!Next]_<<commits, Requests>>
<1> DEFINE k == call[c][l]
           v == Done(k, answer)
<1>1. k \in Calls /\ v.at = "done" /\ v.began = k.began /\ v.seen = answer
  BY DEF Inv, TypeOK, Done, Calls
<1>2. \A d \in Callers : call'[d]["outer"] = IF d = c /\ l = "outer" THEN v ELSE call[d]["outer"]
  BY OuterOfSetCall
<1> HIDE DEF v
<1>3. CASE l = "outer"
  <2>1. Requests' = [Requests EXCEPT ![c] = Request(v)]
    BY <1>2, <1>3, RequestsUpdate
  <2>2. /\ Requests[c] = [state |-> "asked", began |-> k.began, answer |-> {}]
        /\ Request(v) = [state |-> "answered", began |-> k.began, answer |-> answer]
    BY <1>1, <1>3 DEF Requests, Request
  <2>3. answer \in Reads!Snapshots(Requests[c].began, commits)
    <3>1. k.began \in Nat /\ commits \in Nat /\ answer \subseteq Nat
      BY <1>1, CacheAssumption DEF Inv, TypeOK, Calls, Commits
    <3>2. answer \subseteq k.began..commits
      BY <3>1
    <3>3. Requests[c].began = k.began
      BY <2>2
    <3> QED BY <3>2, <3>3 DEF Reads!Snapshots
  <2>4. Request(v) = [state |-> "answered", began |-> Requests[c].began, answer |-> answer]
    BY <2>2
  <2>5. Requests[c].state = "asked"
    BY <2>2
  <2>6. Requests' = [Requests EXCEPT
           ![c] = [state |-> "answered", began |-> Requests[c].began, answer |-> answer]]
    BY <2>1, <2>4, Zenon
  <2>7. Reads!Answer(c)
    BY <2>3, <2>5, <2>6 DEF Reads!Answer
  <2> QED BY <2>7 DEF Reads!Next
<1>4. CASE l # "outer"
  BY <1>2, <1>4, HiddenStep
<1> QED BY <1>3, <1>4

LEMMA StepRefines == Inv /\ [Next]_vars => [Reads!Next]_<<commits, Requests>>
<1> SUFFICES ASSUME Inv, [Next]_vars PROVE [Reads!Next]_<<commits, Requests>>
  OBVIOUS
<1>1. CASE Commit
  <2>1. commits < MaxCommits /\ commits' = commits + 1 /\ call' = call
    BY <1>1 DEF Commit
  <2>2. Requests' = Requests
    BY <2>1 DEF Requests, Request
  <2> QED BY <2>1, <2>2 DEF Reads!Next, Reads!Write
<1>2. ASSUME NEW c \in Callers, NEW op \in Operations, Ask(c, op)
      PROVE  [Reads!Next]_<<commits, Requests>>
  <2>1. \A d \in Callers : call'[d]["outer"] = IF d = c THEN NewCall(op) ELSE call[d]["outer"]
    BY <1>2, OuterOfSetCall DEF Ask, Levels
  <2>2. Requests' = [Requests EXCEPT ![c] = Request(NewCall(op))]
    BY <2>1, RequestsUpdate
  <2>3. Request(NewCall(op)) = [state |-> "asked", began |-> commits, answer |-> {}]
    BY DEF Request, NewCall
  <2>4. Requests[c].state = "idle" /\ commits' = commits
    BY <1>2 DEF Ask, Requests, Request
  <2> QED BY <2>2, <2>3, <2>4 DEF Reads!Next, Reads!Ask
<1>3. ASSUME NEW c \in Callers, NEW op \in Operations, Use(c, op)
      PROVE  [Reads!Next]_<<commits, Requests>>
  <2>1. \A d \in Callers : call'[d]["outer"] = call[d]["outer"]
    BY <1>3, OuterOfSetCall DEF Use, Levels
  <2> QED BY <1>3, <2>1, HiddenStep DEF Use
<1>4. ASSUME NEW c \in Callers, NEW l \in Levels,
             Bypass(c, l) \/ ReadRevision(c, l) \/ Miss(c, l) \/ LookupFails(c, l)
      PROVE  [Reads!Next]_<<commits, Requests>>
  <2>1. PICK k : /\ SetCall(c, l, k)
                 /\ k.at \in {"lookup", "reading"} /\ k.began = call[c][l].began
                 /\ call[c][l].at \in {"asked", "lookup"}
    <3>1. call[c][l] \in Calls
      BY DEF Inv, TypeOK
    <3> QED BY <1>4, <3>1 DEF Bypass, ReadRevision, Miss, LookupFails, Calls
  <2>2. \A d \in Callers : call'[d]["outer"] = IF d = c /\ l = "outer" THEN k ELSE call[d]["outer"]
    BY <2>1, OuterOfSetCall
  <2>3. \A d \in Callers : Request(call'[d]["outer"]) = Request(call[d]["outer"])
    BY <2>1, <2>2 DEF Request
  <2> QED BY <1>4, <2>3, HiddenStep DEF Bypass, ReadRevision, Miss, LookupFails
<1>5. ASSUME NEW c \in Callers, NEW l \in Levels, Hit(c, l)
      PROVE  [Reads!Next]_<<commits, Requests>>
  <2> DEFINE k == call[c][l]
  <2>1. k \in Calls /\ CallFresh(k)
    BY DEF Inv, TypeOK, CallsFresh
  <2>2. /\ Entry(c, l) \in SUBSET Commits /\ Entry(c, l) # {}
        /\ \A n \in Entry(c, l) : born[k.key] <= n /\ n <= commits
    BY <1>5, <2>1 DEF Hit, Entry, Inv, TypeOK, EntriesFresh, Calls
  <2>3. /\ k.began <= born[k.key] /\ k.began \in Nat /\ born[k.key] \in Nat
    BY <1>5, <2>1, CacheAssumption DEF Hit, CallFresh, Calls, Commits, Inv, TypeOK, None
  <2>4. \A n \in Entry(c, l) : k.began <= n /\ n <= commits
    BY <2>2, <2>3 DEF Commits
  <2> QED BY <1>5, <2>2, <2>4, AnswerStep DEF Hit
<1>6. ASSUME NEW c \in Callers, NEW l \in Levels, Fill(c, l) \/ ReturnUnstored(c, l)
      PROVE  [Reads!Next]_<<commits, Requests>>
  <2> DEFINE k == call[c][l]
  <2>1. k \in Calls /\ CallFresh(k) /\ k.at = "reading" /\ k.todo = {}
    BY <1>6 DEF Inv, TypeOK, CallsFresh, Fill, ReturnUnstored, ReadIsOver
  <2>2. /\ k.seen \in SUBSET Commits /\ k.seen # {}
        /\ \A n \in k.seen : k.began <= n /\ n <= commits
    BY <2>1, CacheAssumption DEF CallFresh, Calls
  <2> QED BY <1>6, <2>1, <2>2, AnswerStep DEF Fill, ReturnUnstored
<1>7. ASSUME NEW c \in Callers, NEW l \in Levels, NEW t \in Tables, Query(c, l, t)
      PROVE  [Reads!Next]_<<commits, Requests>>
  <2> DEFINE k == [call[c][l] EXCEPT !.todo = @ \ {t}, !.seen = @ \cup {commits}]
  <2>1. /\ call[c][l] \in Calls /\ call[c][l].at = "reading"
        /\ k.at = "reading" /\ k.began = call[c][l].began
    BY <1>7 DEF Inv, TypeOK, Query, Calls
  <2>2. \A d \in Callers : call'[d]["outer"] = IF d = c /\ l = "outer" THEN k ELSE call[d]["outer"]
    BY <1>7, OuterOfSetCall DEF Query
  <2> HIDE DEF k
  <2>3. \A d \in Callers : Request(call'[d]["outer"]) = Request(call[d]["outer"])
    BY <2>1, <2>2 DEF Request
  <2> QED BY <1>7, <2>3, HiddenStep DEF Query
<1>8. ASSUME NEW c \in Callers, Used(c)
      PROVE  [Reads!Next]_<<commits, Requests>>
  <2> DEFINE outer == call[c]["outer"]
             k == [outer EXCEPT !.todo = @ \ {call[c]["inner"].op},
                                !.seen = @ \cup call[c]["inner"].seen]
  <2>1. /\ outer \in Calls /\ outer.at = "reading"
        /\ k.at = "reading" /\ k.began = outer.began
    BY <1>8 DEF Used, Inv, TypeOK, CallsFresh, InnerInOuter, Levels, Calls
  <2>2. \A d \in Callers : call'[d]["outer"] = IF d = c THEN k ELSE call[d]["outer"]
    BY <1>8 DEF Used, Inv, TypeOK
  <2> HIDE DEF k
  <2>3. \A d \in Callers : Request(call'[d]["outer"]) = Request(call[d]["outer"])
    BY <2>1, <2>2 DEF Request
  <2> QED BY <1>8, <2>3, HiddenStep DEF Used
<1>9. ASSUME NEW c \in Callers, Leave(c)
      PROVE  [Reads!Next]_<<commits, Requests>>
  <2>1. \A d \in Callers : call'[d]["outer"] = IF d = c THEN NoCall ELSE call[d]["outer"]
    BY <1>9 DEF Leave, Inv, TypeOK, Levels
  <2>2. Requests' = [Requests EXCEPT ![c] = Request(NoCall)]
    BY <2>1, RequestsUpdate
  <2>3. Request(NoCall) = Reads!Idle
    BY DEF Request, NoCall, Reads!Idle
  <2>4. Requests[c].state # "idle" /\ commits' = commits
    BY <1>9 DEF Leave, Requests, Request
  <2> QED BY <2>2, <2>3, <2>4 DEF Reads!Next, Reads!Leave
<1>10. CASE \E r \in Revisions, op \in Operations : Expire(r, op)
  BY <1>10, HiddenStep DEF Expire
<1>11. CASE UNCHANGED vars
  BY <1>11, HiddenStep DEF vars
<1> QED BY <1>1, <1>2, <1>3, <1>4, <1>5, <1>6, <1>7, <1>8, <1>9, <1>10, <1>11 DEF Next

\* GetOrCreateAsync implements a read without a cache: every answer it gives,
\* hit or miss, with Redis up or failing, is one a plain read could give.
THEOREM CacheImplementsReads == Spec => CacheIsInvisible
<1>1. Init => Reads!Init
  BY DEF Init, Reads!Init, Requests, Request, NoCall, Reads!Idle, Levels
<1> QED BY <1>1, StepRefines, Invariance, PTL DEF CacheIsInvisible, Spec, Reads!Spec
=============================================================================
