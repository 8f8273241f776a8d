------------------------ MODULE AccessBlockingProofs ------------------------
(***************************************************************************)
(* Inv is inductive; BlockHolds and DeletedIsRejected follow from it, for  *)
(* any users, administrators, delays and bounds.                           *)
(***************************************************************************)
EXTENDS AccessBlocking, TLAPS

-----------------------------------------------------------------------------
(* Records.                                                                *)

\* A new call is well formed.
LEMMA NewCall ==
    ASSUME NEW c \in Callers, NEW kind \in Kinds, NEW users \in SUBSET Users
    PROVE  /\ Call(c, kind, users) \in Calls
           /\ Call(c, kind, users).by = c /\ Call(c, kind, users).kind = kind
           /\ Call(c, kind, users).users = users /\ Call(c, kind, users).awaited
           /\ Call(c, kind, users).age = 0 /\ Call(c, kind, users).clock = 0
           /\ Call(c, kind, users).remove = {} /\ Call(c, kind, users).add = {}
BY AccessAssumption DEF Call, Calls, Kinds

\* A resting caller is well formed and waits for nothing.
LEMMA Resting ==
    /\ Rest \in Requests
    /\ Rest.op = "none" /\ Rest.step = "none" /\ Rest.users = {}
BY AccessAssumption DEF Rest, Requests, Kinds

\* A caller that goes on to a step keeps its operation and users.
LEMMA GoesOn ==
    ASSUME NEW r \in Requests, NEW step \in Kinds \cup {"none", "last"}
    PROVE  LET n == [r EXCEPT !.step = step]
           IN n \in Requests /\ n.op = r.op /\ n.step = step /\ n.users = r.users
BY DEF Requests

-----------------------------------------------------------------------------
(* What an answer, a failure and a step of a call leave in place.          *)

\* A call that carries no plan for the rows.
Fresh(call) == /\ call.kind \in {"revoke", "erase"}
               /\ call.remove = {} /\ call.add = {} /\ call.age = 0 /\ call.clock = 0

\* The users a caller or a call knows were known before.
UsersKept == \A u \in Users :
    (\A call \in calls : u \notin call.users) /\ (\A c \in Callers : u \notin caller[c].users) =>
        (\A call \in calls' : u \notin call.users) /\ (\A c \in Callers : u \notin caller'[c].users)

\* The users a call has blocked when it is answered.
Blocked(call) == IF call.kind = "block" THEN call.users ELSE {}

\* A deletion is past its first call only if it was, or if its user is in done.
DeletionsGoOn(done) == \A c \in Callers :
    /\ caller'[c].step \in {"erase", "last"} => caller'[c].op = "Delete"
    /\ caller'[c].op = "Delete" => caller'[c].step \in {"block", "revoke", "erase", "last"}
    /\ caller'[c].op = "Delete" /\ caller'[c].step # "block" =>
          /\ caller[c].op = "Delete" /\ caller'[c].users = caller[c].users
          /\ caller[c].step # "block" \/ caller[c].users \subseteq done

\* An answered call leaves, and its caller's next call has no plan.
LEMMA AnswerKeeps ==
    ASSUME Inv, NEW call \in calls, Answer(call)
    PROVE  /\ calls' \subseteq Calls /\ caller' \in [Callers -> Requests]
           /\ \A d \in calls' : d \in calls \/ Fresh(d)
           /\ OneAwaited' /\ UsersKept /\ DeletionsGoOn(Blocked(call))
<1> DEFINE c == call.by
           step == After(caller[c].op, call.kind)
           moved == [caller[c] EXCEPT !.step = step]
           next == Call(c, step, caller[c].users)
<1>1. call \in Calls /\ c \in Callers /\ caller \in [Callers -> Requests] /\ calls \subseteq Calls
      BY DEF Inv, TypeOK, Calls
<1>2. step \in {"revoke", "erase", "last", "none"}
      BY DEF After
<1>3. step \in Kinds \cup {"none", "last"} /\ (step \in Kinds => step \in {"revoke", "erase"})
      BY <1>2 DEF Kinds
<1>4. moved \in Requests /\ moved.op = caller[c].op /\ moved.step = step /\ moved.users = caller[c].users
      BY <1>1, <1>3, GoesOn
<1>5. step \in Kinds => /\ next \in Calls /\ next.by = c /\ next.kind = step
                        /\ next.users = caller[c].users /\ next.awaited /\ Fresh(next)
      <2>1. caller[c].users \in SUBSET Users
            BY <1>1 DEF Requests
      <2>2. QED  BY <1>1, <1>3, <2>1, NewCall DEF Fresh
<1>6. call.awaited => /\ caller[c].step = call.kind /\ caller[c].users = call.users
                      /\ \A other \in calls : other.awaited /\ other.by = c => other = call
      BY DEF Inv, OneAwaited
<1>7. /\ step = "erase" => call.kind = "revoke" /\ caller[c].op = "Delete"
      /\ step = "last" => call.kind = "erase"
      /\ step = "revoke" => call.kind \in {"block", "sync"}
      /\ step = "none" => call.kind \notin {"block", "erase"}
      BY DEF After
<1>8. call.kind \in Kinds
      BY <1>1 DEF Calls
<1>9. CASE ~call.awaited
      <2>1. calls' = calls \ {call} /\ caller' = caller
            BY <1>9 DEF Answer
      <2>2. OneAwaited'
            BY <2>1 DEF Inv, OneAwaited
      <2>3. UsersKept
            BY <2>1 DEF UsersKept
      <2>4. DeletionsGoOn(Blocked(call))
            BY <2>1 DEF DeletionsGoOn, Inv, DeletionBlocked
      <2>5. QED  BY <1>1, <2>1, <2>2, <2>3, <2>4
<1>10. CASE call.awaited
      <2>1. /\ caller' = [caller EXCEPT ![c] = IF step = "none" THEN Rest ELSE moved]
            /\ calls' = (calls \ {call}) \cup (IF step \in Kinds THEN {next} ELSE {})
            BY <1>10 DEF Answer, SetCaller
      <2> HIDE DEF moved, next
      <2>2. caller' \in [Callers -> Requests]
            BY <1>1, <1>4, <2>1, Resting
      <2>3. /\ caller'[c] = IF step = "none" THEN Rest ELSE moved
            /\ \A b \in Callers : b # c => caller'[b] = caller[b]
            BY <1>1, <2>1
      <2>4. \A d \in calls' : \/ d \in calls /\ d # call
                              \/ d = next /\ step \in Kinds
            BY <2>1
      <2>5. calls' \subseteq Calls /\ \A d \in calls' : d \in calls \/ Fresh(d)
            BY <1>1, <1>5, <2>4
      <2>6. OneAwaited'
            <3> SUFFICES ASSUME NEW d \in calls', d.awaited
                         PROVE  /\ caller'[d.by].step = d.kind
                                /\ caller'[d.by].users = d.users
                                /\ \A other \in calls' : other.awaited /\ other.by = d.by => other = d
                BY DEF OneAwaited
            <3>1. CASE d \in calls /\ d # call
                  <4>1. d.by # c /\ d.by \in Callers
                        BY <1>1, <1>6, <1>10, <3>1 DEF Calls
                  <4>2. caller'[d.by] = caller[d.by]
                        BY <2>3, <4>1
                  <4>3. /\ caller[d.by].step = d.kind /\ caller[d.by].users = d.users
                        /\ \A other \in calls : other.awaited /\ other.by = d.by => other = d
                        BY <3>1 DEF Inv, OneAwaited
                  <4>4. \A other \in calls' : other.by = d.by => other \in calls
                        BY <1>5, <2>4, <4>1
                  <4>5. QED  BY <4>2, <4>3, <4>4
            <3>2. CASE d = next /\ step \in Kinds
                  <4>1. d.by = c /\ d.kind = step /\ d.users = caller[c].users
                        BY <1>5, <3>2
                  <4>2. step # "none"
                        BY <1>3, <3>2
                  <4>3. caller'[c] = moved
                        BY <2>3, <4>2
                  <4>4. ASSUME NEW other \in calls', other.awaited, other.by = c
                        PROVE  other = d
                        <5>1. ~(other \in calls /\ other # call)
                              BY <1>6, <1>10, <4>4
                        <5>2. QED  BY <2>4, <3>2, <5>1
                  <4>5. QED  BY <1>4, <4>1, <4>3, <4>4
            <3>3. QED  BY <2>4, <3>1, <3>2
      <2>7. UsersKept
            <3> SUFFICES ASSUME NEW u \in Users, \A d \in calls : u \notin d.users,
                                \A b \in Callers : u \notin caller[b].users
                         PROVE  /\ \A d \in calls' : u \notin d.users
                                /\ \A b \in Callers : u \notin caller'[b].users
                BY DEF UsersKept
            <3>1. \A d \in calls' : u \notin d.users
                  BY <1>1, <1>5, <2>4
            <3>2. \A b \in Callers : u \notin caller'[b].users
                  BY <1>1, <1>4, <2>3, Resting
            <3>3. QED  BY <3>1, <3>2
      <2>8. DeletionsGoOn(Blocked(call))
            <3> SUFFICES ASSUME NEW b \in Callers
                         PROVE  /\ caller'[b].step \in {"erase", "last"} => caller'[b].op = "Delete"
                                /\ caller'[b].op = "Delete" => caller'[b].step \in {"block", "revoke", "erase", "last"}
                                /\ caller'[b].op = "Delete" /\ caller'[b].step # "block" =>
                                      /\ caller[b].op = "Delete" /\ caller'[b].users = caller[b].users
                                      /\ caller[b].step # "block" \/ caller[b].users \subseteq Blocked(call)
                BY DEF DeletionsGoOn
            <3>0. /\ caller[b].step \in {"erase", "last"} => caller[b].op = "Delete"
                  /\ caller[b].op = "Delete" => caller[b].step \in {"block", "revoke", "erase", "last"}
                  BY DEF Inv, DeletionBlocked
            <3>1. CASE b # c
                  BY <2>3, <3>0, <3>1
            <3>2. CASE b = c /\ step = "none"
                  BY <2>3, <3>2, Resting
            <3>3. CASE b = c /\ step # "none"
                  BY <1>2, <1>4, <1>6, <1>7, <1>10, <2>3, <3>0, <3>3 DEF Blocked
            <3>4. QED  BY <3>1, <3>2, <3>3
      <2>9. QED  BY <2>2, <2>5, <2>6, <2>7, <2>8
<1>11. QED  BY <1>9, <1>10

\* A call that failed leaves, and its caller rests.
LEMMA FailKeeps ==
    ASSUME Inv, NEW call \in calls, Fail(call)
    PROVE  /\ calls' \subseteq calls /\ caller' \in [Callers -> Requests]
           /\ OneAwaited' /\ UsersKept /\ DeletionsGoOn({})
<1>1. call \in Calls /\ call.by \in Callers /\ caller \in [Callers -> Requests]
      BY DEF Inv, TypeOK, Calls
<1>2. calls' = calls \ {call}
      BY DEF Fail
<1>3. /\ caller' \in [Callers -> Requests]
      /\ call.awaited => caller'[call.by] = Rest
      /\ ~call.awaited => caller' = caller
      /\ \A b \in Callers : b # call.by => caller'[b] = caller[b]
      BY <1>1, Resting DEF Fail, SetCaller
<1>4. OneAwaited'
      <2> SUFFICES ASSUME NEW d \in calls', d.awaited
                   PROVE  caller'[d.by] = caller[d.by]
          BY <1>2 DEF OneAwaited, Inv
      <2>1. d.by \in Callers
            BY <1>2 DEF Inv, TypeOK, Calls
      <2>2. call.awaited => d.by # call.by
            BY <1>2 DEF Inv, OneAwaited
      <2>3. QED  BY <1>3, <2>1, <2>2
<1>5. UsersKept
      BY <1>1, <1>2, <1>3, Resting DEF UsersKept
<1>6. DeletionsGoOn({})
      BY <1>1, <1>3, Resting DEF DeletionsGoOn, Inv, DeletionBlocked
<1>7. QED  BY <1>2, <1>3, <1>4, <1>5, <1>6

\* A call that moves on stays the call its caller waits for.
LEMMA ReplaceKeeps ==
    ASSUME Inv, NEW call \in calls, NEW value \in Calls, Replace(call, value), caller' = caller,
           value.by = call.by, value.kind = call.kind, value.users = call.users,
           value.awaited = call.awaited
    PROVE  /\ calls' \subseteq Calls
           /\ OneAwaited' /\ UsersKept /\ DeletionsGoOn({})
<1>1. calls' = (calls \ {call}) \cup {value}
      BY DEF Replace
<1>2. OneAwaited'
      BY <1>1 DEF Inv, OneAwaited
<1>3. UsersKept
      BY <1>1 DEF UsersKept
<1>4. DeletionsGoOn({})
      BY DEF DeletionsGoOn, Inv, DeletionBlocked
<1>5. QED  BY <1>1, <1>2, <1>3, <1>4 DEF Inv, TypeOK

-----------------------------------------------------------------------------
(* A step of a call, or the loss of one.                                   *)

\* What became of a call: it is for the same users, as old, and plans no removal
\* of the row of a user who was never unblocked.
Same(d, call) == /\ d.kind = call.kind /\ d.users = call.users /\ d.age = call.age
                 /\ d.remove \subseteq unblocked /\ d.add \subseteq d.users /\ d.clock <= d.age

\* What such a step may do to the rows, done being the users it has blocked.
RowsKept(done) == \A u \in Users \ unblocked :
    /\ row[u] # NoRow => row'[u] # NoRow
    /\ u \in done => row'[u] # NoRow
    /\ row'[u] # NoRow => \/ row'[u] = row[u]
                          \/ /\ \E d \in calls : u \in d.users
                             /\ \A d \in calls : d.kind = "sync" /\ u \notin d.users => row'[u] <= d.age

LEMMA CallInv ==
    ASSUME Inv, NEW call \in calls, NEW done, TypeOK', UNCHANGED <<account, unblocked>>,
           \A d \in calls' : d \in calls \/ Fresh(d) \/ Same(d, call),
           OneAwaited', UsersKept, DeletionsGoOn(done), RowsKept(done)
    PROVE  Inv'
<1> USE DEF RowsKept
<1>1. NothingEarly'
      BY DEF NothingEarly, UsersKept, Inv
<1>2. OlderThanRow'
      <2> SUFFICES ASSUME NEW d \in calls'
                   PROVE  /\ d.kind = "unblock" => d.users \subseteq unblocked
                          /\ d.remove \subseteq unblocked
                          /\ d.add \subseteq d.users
                          /\ d.clock <= d.age
                          /\ d.kind = "sync" => \A u \in Users \ (unblocked \cup d.users) :
                                /\ row'[u] # NoRow => row'[u] <= d.age
                                /\ \A other \in calls' : other.kind = "sync" /\ u \in other.users => other.age <= d.age
          BY DEF OlderThanRow
      <2>1. CASE Fresh(d)
            BY <2>1 DEF Fresh
      <2>2. ASSUME NEW e \in calls', ~Fresh(e)
            PROVE  \E o \in calls : o.kind = e.kind /\ o.users = e.users /\ o.age = e.age
            BY <2>2 DEF Same
      <2>3. CASE ~Fresh(d)
            <3>1. PICK o \in calls : o.kind = d.kind /\ o.users = d.users /\ o.age = d.age
                  BY <2>2, <2>3
            <3>2. /\ d.kind = "unblock" => d.users \subseteq unblocked
                  /\ d.remove \subseteq unblocked /\ d.add \subseteq d.users /\ d.clock <= d.age
                  BY <2>3, <3>1 DEF Same, Inv, OlderThanRow
            <3>3. ASSUME d.kind = "sync", NEW u \in Users \ (unblocked \cup d.users)
                  PROVE  row'[u] # NoRow => row'[u] <= d.age
                  BY <3>1, <3>3 DEF Inv, OlderThanRow
            <3>4. ASSUME d.kind = "sync", NEW u \in Users \ (unblocked \cup d.users),
                         NEW other \in calls', other.kind = "sync", u \in other.users
                  PROVE  other.age <= d.age
                  <4>1. ~Fresh(other)
                        BY <3>4 DEF Fresh
                  <4>2. PICK p \in calls : p.kind = other.kind /\ p.users = other.users /\ p.age = other.age
                        BY <2>2, <4>1
                  <4>3. QED  BY <3>1, <3>4, <4>2 DEF Inv, OlderThanRow
            <3>5. QED  BY <3>2, <3>3, <3>4
      <2>4. QED  BY <2>1, <2>3
<1>3. DeletionBlocked'
      <2> SUFFICES ASSUME NEW c \in Callers
                   PROVE  /\ caller'[c].step \in {"erase", "last"} => caller'[c].op = "Delete"
                          /\ caller'[c].op = "Delete" => caller'[c].step \in {"block", "revoke", "erase", "last"}
                          /\ caller'[c].op = "Delete" /\ caller'[c].step # "block" =>
                                \A u \in caller'[c].users \ unblocked : row'[u] # NoRow
          BY DEF DeletionBlocked
      <2>1. ASSUME caller'[c].op = "Delete", caller'[c].step # "block", NEW u \in caller'[c].users \ unblocked
            PROVE  row'[u] # NoRow
            <3>1. /\ caller[c].op = "Delete" /\ caller'[c].users = caller[c].users
                  /\ caller[c].step # "block" \/ caller[c].users \subseteq done
                  BY <2>1 DEF DeletionsGoOn
            <3>2. u \in Users
                  BY <2>1 DEF TypeOK, Requests
            <3>3. caller[c].step # "block" => row[u] # NoRow
                  BY <2>1, <3>1 DEF Inv, DeletionBlocked
            <3>4. QED  BY <2>1, <3>1, <3>2, <3>3
      <2>2. QED  BY <2>1 DEF DeletionsGoOn
<1>4. DeletedIsRejected'
      BY DEF DeletedIsRejected, Inv
<1>5. QED  BY <1>1, <1>2, <1>3, <1>4 DEF Inv

-----------------------------------------------------------------------------
(* The steps of calls.                                                     *)

\* The types of what a call's step changes are enough.
LEMMA CallTypes ==
    ASSUME Inv, UNCHANGED <<account, stamp, unblocked, writing, signing>>,
           calls' \subseteq Calls, caller' \in [Callers -> Requests], row' \in [Users -> 0..NoRow],
           sessions' \subseteq sessions, data' \subseteq data
    PROVE  TypeOK'
BY DEF Inv, TypeOK

\* A step that leaves the rows alone keeps them.
LEMMA RowsUnchanged ==
    ASSUME Inv, row' = row, NEW done, done = {}
    PROVE  RowsKept(done) /\ row' \in [Users -> 0..NoRow]
BY DEF RowsKept, Inv, TypeOK

\* Adding the missing rows of a call's users keeps the rows.
LEMMA RowsAdded ==
    ASSUME Inv, NEW call \in calls, row' = WithRows(call.users)
    PROVE  RowsKept(call.users) /\ RowsKept({}) /\ row' \in [Users -> 0..NoRow]
<1>1. row \in [Users -> 0..NoRow] /\ NoRow \in Nat /\ NoRow # 0 /\ calls \subseteq Calls
      BY AccessAssumption DEF Inv, TypeOK, NoRow
<1>2. row' \in [Users -> 0..NoRow]
      BY <1>1 DEF WithRows
<1>3. ASSUME NEW u \in Users
      PROVE  /\ row[u] # NoRow => row'[u] = row[u]
             /\ u \in call.users => row'[u] # NoRow
             /\ row'[u] # row[u] => row'[u] = 0 /\ u \in call.users
      BY <1>1 DEF WithRows
<1>4. \A d \in calls : 0 <= d.age
      BY <1>1 DEF Calls
<1>5. RowsKept(call.users)
      BY <1>3, <1>4 DEF RowsKept
<1>6. RowsKept({})
      BY <1>3, <1>4 DEF RowsKept
<1>7. QED  BY <1>2, <1>5, <1>6

LEMMA LoseInv ==
    ASSUME Inv, NEW call \in calls, Lose(call)
    PROVE  Inv'
<1>1. Fail(call) /\ UNCHANGED <<identity, row, finance, web>>
      BY DEF Lose
<1>2. /\ calls' \subseteq calls /\ caller' \in [Callers -> Requests]
      /\ OneAwaited' /\ UsersKept /\ DeletionsGoOn({})
      BY <1>1, FailKeeps
<1>3. RowsKept({}) /\ row' \in [Users -> 0..NoRow]
      BY <1>1, RowsUnchanged
<1>4. calls' \subseteq Calls 
      BY <1>1, <1>2 DEF Inv, TypeOK
<1>5. TypeOK'
      BY <1>1, <1>2, <1>3, <1>4, CallTypes DEF identity, finance, web
<1>6. QED  BY <1>1, <1>2, <1>3, <1>5, CallInv DEF identity

LEMMA GiveUpInv ==
    ASSUME Inv, NEW call \in calls, GiveUp(call)
    PROVE  Inv'
<1> DEFINE value == [call EXCEPT !.awaited = FALSE]
<1>1. call \in Calls /\ call.by \in Callers /\ caller \in [Callers -> Requests] /\ calls \subseteq Calls
      BY DEF Inv, TypeOK, Calls
<1>2. /\ value \in Calls /\ value.kind = call.kind /\ value.users = call.users /\ ~value.awaited
      /\ value.age = call.age /\ value.remove = call.remove /\ value.add = call.add
      /\ value.clock = call.clock
      BY <1>1 DEF Calls
<1>3. /\ calls' = (calls \ {call}) \cup {value}
      /\ caller' = [caller EXCEPT ![call.by] = Rest]
      /\ call.awaited
      /\ UNCHANGED <<identity, row, finance, web>>
      BY DEF GiveUp, Replace, SetCaller
<1> HIDE DEF value
<1>4. /\ caller'[call.by] = Rest
      /\ \A b \in Callers : b # call.by => caller'[b] = caller[b]
      /\ caller' \in [Callers -> Requests]
      BY <1>1, <1>3, Resting
<1>5. OneAwaited'
      <2> SUFFICES ASSUME NEW d \in calls', d.awaited
                   PROVE  d \in calls /\ caller'[d.by] = caller[d.by]
          BY <1>2, <1>3 DEF OneAwaited, Inv
      <2>1. d \in calls /\ d # call /\ d.by \in Callers
            BY <1>1, <1>2, <1>3 DEF Calls
      <2>2. d.by # call.by
            BY <1>3, <2>1 DEF Inv, OneAwaited
      <2>3. QED  BY <1>4, <2>1, <2>2
<1>6. UsersKept
      BY <1>1, <1>2, <1>3, <1>4, Resting DEF UsersKept
<1>7. DeletionsGoOn({})
      BY <1>1, <1>4, Resting DEF DeletionsGoOn, Inv, DeletionBlocked
<1>8. \A d \in calls' : d \in calls \/ Same(d, call)
      BY <1>2, <1>3 DEF Same, Inv, OlderThanRow
<1>9. RowsKept({}) /\ row' \in [Users -> 0..NoRow]
      BY <1>3, RowsUnchanged
<1>10. calls' \subseteq Calls
      BY <1>1, <1>2, <1>3 DEF Inv, TypeOK
<1>11. TypeOK'
      BY <1>3, <1>4, <1>9, <1>10, CallTypes DEF identity, finance, web
<1>12. QED  BY <1>3, <1>5, <1>6, <1>7, <1>8, <1>9, <1>11, CallInv DEF identity

LEMMA BlockUserInv ==
    ASSUME Inv, NEW call \in calls, BlockUser(call)
    PROVE  Inv'
<1>1. /\ call.kind = "block" /\ row' = WithRows(call.users) /\ Answer(call)
      /\ UNCHANGED <<identity, finance, web>>
      BY DEF BlockUser
<1>2. /\ calls' \subseteq Calls /\ caller' \in [Callers -> Requests]
      /\ \A d \in calls' : d \in calls \/ Fresh(d)
      /\ OneAwaited' /\ UsersKept /\ DeletionsGoOn(call.users)
      BY <1>1, AnswerKeeps DEF Blocked
<1>3. RowsKept(call.users) /\ row' \in [Users -> 0..NoRow]
      BY <1>1, RowsAdded
<1>4. TypeOK'
      BY <1>1, <1>2, <1>3, CallTypes DEF identity, finance, web
<1>5. QED  BY <1>1, <1>2, <1>3, <1>4, CallInv DEF identity

LEMMA UnblockUserInv ==
    ASSUME Inv, NEW call \in calls, UnblockUser(call)
    PROVE  Inv'
<1>1. /\ call.kind = "unblock" /\ Answer(call)
      /\ row' = [u \in Users |-> IF u \in call.users THEN NoRow ELSE row[u]]
      /\ UNCHANGED <<identity, finance, web>>
      BY DEF UnblockUser
<1>2. /\ calls' \subseteq Calls /\ caller' \in [Callers -> Requests]
      /\ \A d \in calls' : d \in calls \/ Fresh(d)
      /\ OneAwaited' /\ UsersKept /\ DeletionsGoOn({})
      BY <1>1, AnswerKeeps DEF Blocked
<1>3. call.users \subseteq unblocked
      BY <1>1 DEF Inv, OlderThanRow
<1>4. RowsKept({}) /\ row' \in [Users -> 0..NoRow]
      BY <1>1, <1>3, AccessAssumption DEF RowsKept, Inv, TypeOK, NoRow
<1>5. TypeOK'
      BY <1>1, <1>2, <1>4, CallTypes DEF identity, finance, web
<1>6. QED  BY <1>1, <1>2, <1>4, <1>5, CallInv DEF identity

LEMMA SyncReadInv ==
    ASSUME Inv, NEW call \in calls, SyncRead(call)
    PROVE  Inv'
<1> DEFINE add == {u \in call.users : row[u] = NoRow}
           value == [call EXCEPT !.at = "read", !.clock = call.age, !.remove = Removable(call), !.add = add]
<1>1. call \in Calls
      BY DEF Inv, TypeOK
<1>2. Removable(call) \subseteq Users /\ add \subseteq call.users /\ call.users \subseteq Users
      BY <1>1 DEF Removable, Calls
<1>3. /\ value \in Calls
      /\ value.by = call.by /\ value.kind = call.kind /\ value.users = call.users
      /\ value.awaited = call.awaited /\ value.age = call.age /\ value.clock = call.age
      /\ value.remove = Removable(call) /\ value.add = add
      <2> HIDE DEF add
      <2>1. /\ value.by = call.by /\ value.kind = call.kind /\ value.users = call.users
            /\ value.awaited = call.awaited /\ value.age = call.age /\ value.clock = call.age
            /\ value.remove = Removable(call) /\ value.add = add
            BY <1>1 DEF Calls
      <2>2. add \subseteq Users
            BY <1>2
      <2>3. value \in Calls
            BY <1>1, <1>2, <2>2 DEF Calls
      <2>4. QED  BY <2>1, <2>3
<1>4. call.kind = "sync" /\ Replace(call, value) /\ UNCHANGED <<identity, caller, row, finance, web>>
      BY DEF SyncRead
<1> HIDE DEF value, add
<1>5. /\ calls' \subseteq Calls
      /\ OneAwaited' /\ UsersKept /\ DeletionsGoOn({})
      BY <1>3, <1>4, ReplaceKeeps
<1>6. Removable(call) \subseteq unblocked
      <2> SUFFICES ASSUME NEW u \in Removable(call), u \notin unblocked
                   PROVE  FALSE
          OBVIOUS
      <2>1. u \in Users \ (unblocked \cup call.users) /\ row[u] # NoRow /\ row[u] >= Grace
            BY DEF Removable
      <2>2. row[u] <= call.age
            BY <1>4, <2>1 DEF Inv, OlderThanRow
      <2>3. call.age \in 0..MaxDelay /\ row[u] \in 0..NoRow
            BY <1>1, <2>1 DEF Calls, Inv, TypeOK
      <2>4. QED  BY <2>1, <2>2, <2>3, AccessAssumption DEF NoRow
<1>7. \A d \in calls' : d \in calls \/ Same(d, call)
      <2>1. call.age <= call.age
            BY <1>1, AccessAssumption DEF Calls
      <2>2. Same(value, call)
            BY <1>2, <1>3, <1>6, <2>1 DEF Same
      <2>3. QED  BY <1>4, <2>2 DEF Replace
<1>8. RowsKept({}) /\ row' \in [Users -> 0..NoRow]
      BY <1>4, RowsUnchanged
<1>9. TypeOK'
      <2>1. caller' = caller /\ UNCHANGED <<account, stamp, unblocked, data, writing, signing, sessions>>
            BY DEF SyncRead, identity, finance, web
      <2>2. caller' \in [Callers -> Requests]
            BY <2>1 DEF Inv, TypeOK
      <2>3. QED  BY <1>5, <1>8, <2>1, <2>2, CallTypes
<1>10. QED  BY <1>4, <1>5, <1>7, <1>8, <1>9, CallInv DEF identity

LEMMA SyncSaveInv ==
    ASSUME Inv, NEW call \in calls, SyncSave(call)
    PROVE  Inv'
<1>1. /\ call.kind = "sync" /\ Answer(call)
      /\ row' = [u \in Users |-> CASE u \in call.remove -> NoRow
                                   [] u \in call.add -> call.age - call.clock
                                   [] OTHER -> row[u]]
      /\ UNCHANGED <<identity, finance, web>>
      BY DEF SyncSave
<1>2. /\ calls' \subseteq Calls /\ caller' \in [Callers -> Requests]
      /\ \A d \in calls' : d \in calls \/ Fresh(d)
      /\ OneAwaited' /\ UsersKept /\ DeletionsGoOn({})
      BY <1>1, AnswerKeeps DEF Blocked
<1>3. /\ call.remove \subseteq unblocked /\ call.add \subseteq call.users
      /\ call.clock <= call.age /\ call.age \in 0..MaxDelay /\ call.clock \in 0..MaxDelay
      BY DEF Inv, TypeOK, Calls, OlderThanRow
<1>4. call.age - call.clock \in 0..NoRow /\ call.age - call.clock # NoRow /\ call.age - call.clock <= call.age
      BY <1>3, AccessAssumption DEF NoRow
<1>5. row' \in [Users -> 0..NoRow]
      BY <1>1, <1>4, AccessAssumption DEF Inv, TypeOK, NoRow
<1>6. RowsKept({})
      <2> SUFFICES ASSUME NEW u \in Users \ unblocked
                   PROVE  /\ row[u] # NoRow => row'[u] # NoRow
                          /\ row'[u] # NoRow => \/ row'[u] = row[u]
                                                \/ /\ \E d \in calls : u \in d.users
                                                   /\ \A d \in calls : d.kind = "sync" /\ u \notin d.users => row'[u] <= d.age
          BY DEF RowsKept
      <2>1. row'[u] = IF u \in call.add THEN call.age - call.clock ELSE row[u]
            BY <1>1, <1>3
      <2>2. CASE u \in call.add
            <3>1. u \in call.users
                  BY <1>3, <2>2
            <3>2. \A d \in calls : d.kind = "sync" /\ u \notin d.users => call.age <= d.age
                  BY <1>1, <3>1 DEF Inv, OlderThanRow
            <3>3. \A d \in calls : d.age \in Nat
                  BY AccessAssumption DEF Inv, TypeOK, Calls
            <3>4. \A d \in calls : d.kind = "sync" /\ u \notin d.users => call.age - call.clock <= d.age
                  BY <1>3, <3>2, <3>3, AccessAssumption
            <3>5. QED  BY <1>4, <2>1, <2>2, <3>1, <3>4
      <2>3. CASE u \notin call.add
            BY <2>1, <2>3
      <2>4. QED  BY <2>2, <2>3
<1>7. TypeOK'
      BY <1>1, <1>2, <1>5, CallTypes DEF identity, finance, web
<1>8. QED  BY <1>1, <1>2, <1>6, <1>7, CallInv DEF identity

LEMMA SyncRetryInv ==
    ASSUME Inv, NEW call \in calls, SyncRetry(call)
    PROVE  Inv'
<1> DEFINE new == Call(call.by, "sync", call.users)
           value == [new EXCEPT !.awaited = call.awaited, !.age = call.age, !.attempt = call.attempt + 1]
<1>1. call \in Calls /\ call.kind = "sync"
      BY DEF Inv, TypeOK, SyncRetry
<1>2. UNCHANGED <<account, stamp, unblocked, row, data, writing, signing, sessions>>
      BY DEF SyncRetry, identity, finance, web
<1>3. CASE call.attempt = 3
      <2>1. Fail(call)
            BY <1>3 DEF SyncRetry
      <2>2. Lose(call)
            BY <1>2, <2>1 DEF Lose, identity, finance, web
      <2>3. QED  BY <2>2, LoseInv
<1>4. CASE call.attempt # 3
      <2>1. Replace(call, value) /\ caller' = caller
            BY <1>4 DEF SyncRetry
      <2>2. /\ value \in Calls
            /\ value.by = call.by /\ value.kind = call.kind /\ value.users = call.users
            /\ value.awaited = call.awaited /\ value.age = call.age /\ value.clock = 0
            /\ value.remove = {} /\ value.add = {}
            <3>1. /\ new \in Calls /\ new.by = call.by /\ new.kind = "sync" /\ new.users = call.users
                  /\ new.clock = 0 /\ new.remove = {} /\ new.add = {}
                  <4>1. call.by \in Callers /\ call.users \in SUBSET Users /\ "sync" \in Kinds
                        BY <1>1 DEF Calls, Kinds
                  <4>2. QED  BY <4>1, NewCall
            <3>2. call.awaited \in BOOLEAN /\ call.age \in 0..MaxDelay /\ call.attempt + 1 \in 1..3
                  BY <1>1, <1>4 DEF Calls
            <3> HIDE DEF new
            <3>3. value \in Calls
                  BY <3>1, <3>2 DEF Calls
            <3>4. /\ value.by = new.by /\ value.kind = new.kind /\ value.users = new.users
                  /\ value.awaited = call.awaited /\ value.age = call.age /\ value.clock = new.clock
                  /\ value.remove = new.remove /\ value.add = new.add
                  BY <3>1 DEF Calls
            <3>5. QED  BY <1>1, <3>1, <3>3, <3>4
      <2> HIDE DEF value
      <2>3. calls' \subseteq Calls /\ OneAwaited' /\ UsersKept /\ DeletionsGoOn({})
            BY <2>1, <2>2, ReplaceKeeps
      <2>4. \A d \in calls' : d \in calls \/ Same(d, call)
            <3>1. 0 <= call.age
                  BY <1>1 DEF Calls
            <3>2. Same(value, call)
                  BY <2>2, <3>1 DEF Same
            <3>3. QED  BY <2>1, <3>2 DEF Replace
      <2>5. RowsKept({}) /\ row' \in [Users -> 0..NoRow]
            BY <1>2, RowsUnchanged
      <2>6. TypeOK'
            <3>1. caller' \in [Callers -> Requests]
                  BY <2>1 DEF Inv, TypeOK
            <3>2. QED  BY <1>2, <2>3, <2>5, <3>1, CallTypes
      <2>7. QED  BY <1>2, <2>3, <2>4, <2>5, <2>6, CallInv
<1>5. QED  BY <1>3, <1>4

LEMMA EraseBlocksInv ==
    ASSUME Inv, NEW call \in calls, EraseBlocks(call)
    PROVE  Inv'
<1> DEFINE value == [call EXCEPT !.at = "read"]
<1>1. call \in Calls
      BY DEF Inv, TypeOK
<1>2. /\ value \in Calls
      /\ value.by = call.by /\ value.kind = call.kind /\ value.users = call.users
      /\ value.awaited = call.awaited /\ value.age = call.age /\ value.clock = call.clock
      /\ value.remove = call.remove /\ value.add = call.add
      BY <1>1 DEF Calls
<1>3. /\ row' = WithRows(call.users) /\ Replace(call, value) /\ caller' = caller
      /\ UNCHANGED <<account, stamp, unblocked, data, writing, signing, sessions>>
      BY DEF EraseBlocks, identity, finance, web
<1> HIDE DEF value
<1>4. calls' \subseteq Calls /\ OneAwaited' /\ UsersKept /\ DeletionsGoOn({})
      BY <1>2, <1>3, ReplaceKeeps
<1>5. \A d \in calls' : d \in calls \/ Same(d, call)
      BY <1>2, <1>3 DEF Same, Replace, Inv, OlderThanRow
<1>6. RowsKept({}) /\ row' \in [Users -> 0..NoRow]
      BY <1>3, RowsAdded
<1>7. TypeOK'
      <2>1. caller' \in [Callers -> Requests]
            BY <1>3 DEF Inv, TypeOK
      <2>2. QED  BY <1>3, <1>4, <1>6, <2>1, CallTypes
<1>8. QED  BY <1>3, <1>4, <1>5, <1>6, <1>7, CallInv

\* The end of an erasure and a revocation leave the rows alone.
LEMMA EraseOrRevokeInv ==
    ASSUME Inv, NEW call \in calls, Erase(call) \/ RevokeSessions(call)
    PROVE  Inv'
<1>1. /\ call.kind # "block" /\ Answer(call)
      /\ UNCHANGED <<account, stamp, unblocked, row, writing, signing>>
      /\ data' \subseteq data /\ sessions' \subseteq sessions
      BY DEF Erase, RevokeSessions, identity, finance, web
<1>2. /\ calls' \subseteq Calls /\ caller' \in [Callers -> Requests]
      /\ \A d \in calls' : d \in calls \/ Fresh(d)
      /\ OneAwaited' /\ UsersKept /\ DeletionsGoOn({})
      BY <1>1, AnswerKeeps DEF Blocked
<1>3. RowsKept({}) /\ row' \in [Users -> 0..NoRow]
      BY <1>1, RowsUnchanged
<1>4. TypeOK'
      BY <1>1, <1>2, <1>3, CallTypes
<1>5. QED  BY <1>1, <1>2, <1>3, <1>4, CallInv

-----------------------------------------------------------------------------
(* The steps of Identity and of time.                                      *)

\* A caller that rests starts: it waits for the call it makes, and no other call
\* of its is awaited.
LEMMA StartKeeps ==
    ASSUME Inv, NEW c \in Callers, caller[c] = Rest, NEW r \in Requests, NEW new \in Calls,
           caller' = [caller EXCEPT ![c] = r], calls' = calls \cup {new},
           new.by = c, new.awaited, new.kind = r.step, new.users = r.users
    PROVE  /\ calls' \subseteq Calls /\ caller' \in [Callers -> Requests]
           /\ caller'[c] = r /\ \A b \in Callers : b # c => caller'[b] = caller[b]
           /\ OneAwaited'
<1>1. caller \in [Callers -> Requests] /\ calls \subseteq Calls
      BY DEF Inv, TypeOK
<1>2. /\ calls' \subseteq Calls /\ caller' \in [Callers -> Requests]
      /\ caller'[c] = r /\ \A b \in Callers : b # c => caller'[b] = caller[b]
      BY <1>1
<1>3. \A d \in calls : d.awaited => d.by # c
      BY <1>1, Resting DEF Inv, OneAwaited, Calls, Kinds
<1>4. OneAwaited'
      <2> SUFFICES ASSUME NEW d \in calls', d.awaited
                   PROVE  /\ caller'[d.by].step = d.kind
                          /\ caller'[d.by].users = d.users
                          /\ \A other \in calls' : other.awaited /\ other.by = d.by => other = d
          BY DEF OneAwaited
      <2>1. CASE d = new
            BY <1>2, <1>3, <2>1
      <2>2. CASE d \in calls
            <3>1. d.by # c /\ d.by \in Callers
                  BY <1>1, <1>3, <2>2 DEF Calls
            <3>2. /\ caller[d.by].step = d.kind /\ caller[d.by].users = d.users
                  /\ \A other \in calls : other.awaited /\ other.by = d.by => other = d
                  BY <2>2 DEF Inv, OneAwaited
            <3>3. QED  BY <1>2, <3>1, <3>2
      <2>3. QED  BY <2>1, <2>2
<1>5. QED  BY <1>2, <1>4

LEMMA ChangeInv ==
    ASSUME Inv, NEW a \in Admins, NEW u \in Users, Block(a, u) \/ Unblock(a, u) \/ Delete(a, u)
    PROVE  Inv'
<1>1. PICK op \in {"Block", "Unblock", "Delete"}, status \in {"active", "blocked"}, kind \in {"block", "unblock"} :
          /\ Change(a, u, op, status, kind)
          /\ op = "Unblock" <=> status = "active"
          /\ op = "Unblock" <=> kind = "unblock"
          /\ unblocked' = IF op = "Unblock" THEN unblocked \cup {u} ELSE unblocked
      BY DEF Block, Unblock, Delete
<1> DEFINE r == [op |-> op, step |-> kind, users |-> {u}, stamp |-> stamp[u] + 1]
           new == Call(a, kind, {u})
<1>2. /\ caller[a] = Rest /\ stamp[u] < MaxChanges
      /\ account' = [account EXCEPT ![u] = status]
      /\ stamp' = [stamp EXCEPT ![u] = @ + 1]
      /\ caller' = [caller EXCEPT ![a] = r] /\ calls' = calls \cup {new}
      /\ UNCHANGED <<row, data, writing, signing, sessions>>
      BY <1>1 DEF Change, SetCaller, finance, web
<1>3. a \in Callers
      BY DEF Callers
<1>4. stamp[u] \in 0..MaxChanges /\ stamp[u] + 1 \in 0..MaxChanges
      BY <1>2, AccessAssumption DEF Inv, TypeOK
<1>5. r \in Requests /\ r.op = op /\ r.step = kind /\ r.users = {u}
      BY <1>4 DEF Requests, Kinds
<1>6. /\ new \in Calls /\ new.by = a /\ new.kind = kind /\ new.users = {u} /\ new.awaited
      /\ new.age = 0 /\ new.clock = 0 /\ new.remove = {} /\ new.add = {}
      <2>1. kind \in Kinds /\ {u} \in SUBSET Users
            BY DEF Kinds
      <2>2. QED  BY <1>3, <2>1, NewCall
<1> HIDE DEF r, new
<1>7. /\ calls' \subseteq Calls /\ caller' \in [Callers -> Requests]
      /\ caller'[a] = r /\ \A b \in Callers : b # a => caller'[b] = caller[b]
      /\ OneAwaited'
      BY <1>2, <1>3, <1>5, <1>6, StartKeeps
<1>8. TypeOK'
      BY <1>1, <1>2, <1>4, <1>7 DEF Inv, TypeOK
<1>9. unblocked \subseteq unblocked' /\ (status = "active" => u \in unblocked')
      BY <1>1
<1>10. NothingEarly'
       BY <1>2, <1>5, <1>6, <1>7, <1>9 DEF NothingEarly, Inv, TypeOK
<1>11. OlderThanRow'
       <2>1. new.kind # "sync" /\ (new.kind = "unblock" => new.users \subseteq unblocked')
             BY <1>1, <1>6, <1>9
       <2>2. QED  BY <1>2, <1>6, <1>9, <2>1 DEF OlderThanRow, Inv
<1>12. DeletionBlocked'
       BY <1>1, <1>2, <1>5, <1>7, <1>9 DEF DeletionBlocked, Inv
<1>13. DeletedIsRejected'
       BY <1>2, <1>9 DEF DeletedIsRejected, Inv, TypeOK
<1>14. QED  BY <1>7, <1>8, <1>10, <1>11, <1>12, <1>13 DEF Inv

LEMMA SynchronizeInv ==
    ASSUME Inv, Synchronize
    PROVE  Inv'
<1> DEFINE r == [op |-> "Synchronize", step |-> "sync", users |-> Rejected, stamp |-> 0]
           new == Call(Synchronizer, "sync", Rejected)
<1>1. /\ caller[Synchronizer] = Rest
      /\ caller' = [caller EXCEPT ![Synchronizer] = r] /\ calls' = calls \cup {new}
      /\ UNCHANGED <<account, stamp, unblocked, row, data, writing, signing, sessions>>
      BY DEF Synchronize, SetCaller, identity, finance, web
<1>2. Synchronizer \in Callers /\ Rejected \in SUBSET Users /\ "sync" \in Kinds
      BY DEF Callers, Rejected, Kinds
<1>3. r \in Requests /\ r.op = "Synchronize" /\ r.step = "sync" /\ r.users = Rejected
      BY <1>2, AccessAssumption DEF Requests
<1>4. /\ new \in Calls /\ new.by = Synchronizer /\ new.kind = "sync" /\ new.users = Rejected /\ new.awaited
      /\ new.age = 0 /\ new.clock = 0 /\ new.remove = {} /\ new.add = {}
      BY <1>2, NewCall
<1> HIDE DEF r, new
<1>5. /\ calls' \subseteq Calls /\ caller' \in [Callers -> Requests]
      /\ caller'[Synchronizer] = r /\ \A b \in Callers : b # Synchronizer => caller'[b] = caller[b]
      /\ OneAwaited'
      BY <1>1, <1>2, <1>3, <1>4, StartKeeps
<1>6. TypeOK'
      BY <1>1, <1>5 DEF Inv, TypeOK
<1>7. NothingEarly'
      BY <1>1, <1>3, <1>4, <1>5 DEF NothingEarly, Inv, Rejected
<1>8. OlderThanRow'
      <2>1. \A d \in calls' : d \in calls \/ d = new
            BY <1>1
      <2>2. \A d \in calls' : 0 <= d.age
            BY <1>5 DEF Calls
      <2>3. ASSUME NEW u \in Users \ unblocked, u \notin Rejected
            PROVE  row[u] = NoRow /\ \A d \in calls : u \notin d.users
            BY <2>3 DEF Rejected, Inv, NothingEarly
      <2> SUFFICES ASSUME NEW d \in calls'
                   PROVE  /\ d.kind = "unblock" => d.users \subseteq unblocked
                          /\ d.remove \subseteq unblocked /\ d.add \subseteq d.users /\ d.clock <= d.age
                          /\ d.kind = "sync" => \A u \in Users \ (unblocked \cup d.users) :
                                /\ row[u] # NoRow => row[u] <= d.age
                                /\ \A other \in calls' : other.kind = "sync" /\ u \in other.users => other.age <= d.age
          BY <1>1 DEF OlderThanRow
      <2>4. CASE d = new
            <3>1. ASSUME NEW u \in Users \ (unblocked \cup d.users)
                  PROVE  row[u] = NoRow /\ \A other \in calls' : u \notin other.users
                  BY <1>4, <2>1, <2>3, <2>4, <3>1
            <3>2. QED  BY <1>4, <2>4, <3>1
      <2>5. CASE d \in calls
            <3>1. ASSUME d.kind = "sync", NEW u \in Users \ (unblocked \cup d.users),
                         NEW other \in calls', other.kind = "sync", u \in other.users
                  PROVE  other.age <= d.age
                  <4>1. CASE other = new
                        BY <1>4, <2>2, <4>1
                  <4>2. CASE other \in calls
                        BY <2>5, <3>1, <4>2 DEF Inv, OlderThanRow
                  <4>3. QED  BY <2>1, <4>1, <4>2
            <3>2. QED  BY <2>5, <3>1 DEF Inv, OlderThanRow
      <2>6. QED  BY <2>1, <2>4, <2>5
<1>9. DeletionBlocked'
      BY <1>1, <1>3, <1>5 DEF DeletionBlocked, Inv
<1>10. DeletedIsRejected'
       BY <1>1 DEF DeletedIsRejected, Inv
<1>11. QED  BY <1>5, <1>6, <1>7, <1>8, <1>9, <1>10 DEF Inv

\* A caller at its last step waits for no call.
LEMMA RemoveInv ==
    ASSUME Inv, NEW a \in Admins, Remove(a) \/ RemoveFails(a)
    PROVE  Inv'
<1>1. /\ caller[a].step = "last"
      /\ caller' = [caller EXCEPT ![a] = Rest]
      /\ UNCHANGED <<stamp, unblocked, calls, row, data, writing, signing, sessions>>
      /\ account' \in [Users -> {"active", "blocked", "deleted"}]
      /\ \A u \in Users : account'[u] = account[u] \/ (account'[u] = "deleted" /\ u \in caller[a].users)
      BY DEF Remove, RemoveFails, SetCaller, identity, finance, web, Inv, TypeOK
<1>2. a \in Callers /\ caller \in [Callers -> Requests] /\ calls \subseteq Calls
      BY DEF Callers, Inv, TypeOK
<1>3. /\ caller' \in [Callers -> Requests] /\ caller'[a] = Rest
      /\ \A b \in Callers : b # a => caller'[b] = caller[b]
      BY <1>1, <1>2, Resting
<1>4. TypeOK'
      BY <1>1, <1>3 DEF Inv, TypeOK
<1>5. \A d \in calls : d.awaited => d.by # a /\ d.by \in Callers
      BY <1>1, <1>2 DEF Inv, OneAwaited, Calls, Kinds
<1>6. OneAwaited'
      BY <1>1, <1>3, <1>5 DEF Inv, OneAwaited
<1>7. NothingEarly'
      BY <1>1, <1>3, Resting DEF Inv, NothingEarly
<1>8. OlderThanRow'
      BY <1>1 DEF Inv, OlderThanRow
<1>9. DeletionBlocked'
      BY <1>1, <1>3, Resting DEF Inv, DeletionBlocked
<1>10. DeletedIsRejected'
       <2>1. \A u \in caller[a].users \ unblocked : row[u] # NoRow
             BY <1>1, <1>2 DEF Inv, DeletionBlocked
       <2>2. QED  BY <1>1, <2>1 DEF Inv, DeletedIsRejected
<1>11. QED  BY <1>4, <1>6, <1>7, <1>8, <1>9, <1>10 DEF Inv

LEMMA UserInv ==
    ASSUME Inv, NEW u \in Users, Check(u) \/ Write(u) \/ Issue(u) \/ Store(u) \/ SignOut(u)
    PROVE  Inv'
<1>1. /\ UNCHANGED <<account, stamp, unblocked, caller, calls, row>>
      /\ data' \subseteq Users /\ writing' \subseteq Users /\ signing' \subseteq Users /\ sessions' \subseteq Users
      BY DEF Check, Write, Issue, Store, SignOut, identity, finance, web, Inv, TypeOK
<1>2. TypeOK'
      BY <1>1 DEF Inv, TypeOK
<1>3. NothingEarly' /\ OlderThanRow' /\ OneAwaited' /\ DeletionBlocked' /\ DeletedIsRejected'
      BY <1>1 DEF Inv, NothingEarly, OlderThanRow, OneAwaited, DeletionBlocked, DeletedIsRejected
<1>4. QED  BY <1>2, <1>3 DEF Inv

\* Calls and rows grow old together.
LEMMA TickInv ==
    ASSUME Inv, Tick
    PROVE  Inv'
<1> DEFINE Older(call) == [call EXCEPT !.age = @ + 1]
<1>1. /\ \A call \in calls : call.age < MaxDelay
      /\ calls' = {Older(call) : call \in calls}
      /\ row' = [u \in Users |-> IF row[u] < Grace THEN row[u] + 1 ELSE row[u]]
      /\ UNCHANGED <<account, stamp, unblocked, caller, data, writing, signing, sessions>>
      BY DEF Tick, identity, finance, web
<1>2. calls \subseteq Calls /\ row \in [Users -> 0..NoRow]
      BY DEF Inv, TypeOK
<1>3. ASSUME NEW call \in calls
      PROVE  /\ Older(call) \in Calls
             /\ Older(call).by = call.by /\ Older(call).kind = call.kind /\ Older(call).users = call.users
             /\ Older(call).awaited = call.awaited /\ Older(call).clock = call.clock
             /\ Older(call).remove = call.remove /\ Older(call).add = call.add
             /\ Older(call).age = call.age + 1 /\ call.age \in Nat /\ call.clock \in Nat
      <2>1. call.age + 1 \in 0..MaxDelay /\ call \in Calls
            BY <1>1, <1>2, AccessAssumption DEF Calls
      <2>2. QED  BY <2>1, AccessAssumption DEF Calls
<1>4. ASSUME NEW u \in Users
      PROVE  /\ row'[u] # NoRow <=> row[u] # NoRow
             /\ row[u] # NoRow => row'[u] <= row[u] + 1
             /\ row'[u] \in 0..NoRow /\ row[u] \in Nat
      BY <1>1, <1>2, AccessAssumption DEF NoRow
<1>5. \A d \in calls' : \E call \in calls : d = Older(call)
      BY <1>1
<1> HIDE DEF Older
<1>6. TypeOK'
      <2>1. calls' \subseteq Calls
            BY <1>3, <1>5
      <2>2. row' \in [Users -> 0..NoRow]
            BY <1>1, <1>4
      <2>3. QED  BY <1>1, <2>1, <2>2 DEF Inv, TypeOK
<1>7. NothingEarly'
      BY <1>1, <1>3, <1>4, <1>5 DEF Inv, NothingEarly
<1>8. OneAwaited'
      BY <1>1, <1>3, <1>5 DEF Inv, OneAwaited
<1>9. OlderThanRow'
      <2> SUFFICES ASSUME NEW d \in calls'
                   PROVE  /\ d.kind = "unblock" => d.users \subseteq unblocked
                          /\ d.remove \subseteq unblocked /\ d.add \subseteq d.users /\ d.clock <= d.age
                          /\ d.kind = "sync" => \A u \in Users \ (unblocked \cup d.users) :
                                /\ row'[u] # NoRow => row'[u] <= d.age
                                /\ \A other \in calls' : other.kind = "sync" /\ u \in other.users => other.age <= d.age
          BY <1>1 DEF OlderThanRow
      <2>1. PICK call \in calls : d = Older(call)
            BY <1>5
      <2>2. /\ call.kind = "unblock" => call.users \subseteq unblocked
            /\ call.remove \subseteq unblocked /\ call.add \subseteq call.users /\ call.clock <= call.age
            BY DEF Inv, OlderThanRow
      <2>3. ASSUME d.kind = "sync", NEW u \in Users \ (unblocked \cup d.users), row'[u] # NoRow
            PROVE  row'[u] <= d.age
            <3>1. row[u] # NoRow /\ row'[u] <= row[u] + 1 /\ row[u] \in Nat /\ row'[u] \in 0..NoRow
                  BY <1>4, <2>3
            <3>2. row[u] <= call.age
                  BY <1>3, <2>1, <2>3, <3>1 DEF Inv, OlderThanRow
            <3>3. QED  BY <1>3, <2>1, <3>1, <3>2, AccessAssumption DEF NoRow
      <2>4. ASSUME d.kind = "sync", NEW u \in Users \ (unblocked \cup d.users),
                   NEW other \in calls', other.kind = "sync", u \in other.users
            PROVE  other.age <= d.age
            <3>1. PICK o \in calls : other = Older(o)
                  BY <1>5
            <3>2. o.age <= call.age
                  BY <1>3, <2>1, <2>4, <3>1 DEF Inv, OlderThanRow
            <3>3. QED  BY <1>3, <2>1, <3>1, <3>2
      <2>5. d.clock <= d.age
            BY <1>3, <2>1, <2>2
      <2>6. QED  BY <1>3, <2>1, <2>2, <2>3, <2>4, <2>5
<1>10. DeletionBlocked'
       <2>1. ASSUME NEW c \in Callers, NEW u \in caller[c].users PROVE u \in Users
             BY <2>1 DEF Inv, TypeOK, Requests
       <2>2. QED  BY <1>1, <1>4, <2>1 DEF Inv, DeletionBlocked
<1>11. DeletedIsRejected'
       BY <1>1, <1>4 DEF Inv, DeletedIsRejected
<1>12. QED  BY <1>6, <1>7, <1>8, <1>9, <1>10, <1>11 DEF Inv

-----------------------------------------------------------------------------
\* The inductive invariant, for any users, administrators, delays and bounds.
THEOREM Invariance == Spec => []Inv
<1>1. Init => Inv
      <2> SUFFICES ASSUME Init PROVE Inv
          OBVIOUS
      <2>1. /\ account = [u \in Users |-> "active"] /\ calls = {} /\ unblocked = {}
            /\ caller = [c \in Callers |-> Rest] /\ row = [u \in Users |-> NoRow]
            BY DEF Init
      <2>2. TypeOK
            BY <2>1, Resting, AccessAssumption DEF Init, TypeOK, NoRow
      <2>3. NothingEarly /\ OlderThanRow /\ OneAwaited /\ DeletionBlocked /\ DeletedIsRejected
            BY <2>1, Resting DEF NothingEarly, OlderThanRow, OneAwaited, DeletionBlocked, DeletedIsRejected
      <2>4. QED  BY <2>2, <2>3 DEF Inv
<1>2. Inv /\ [Next]_vars => Inv'
      <2> SUFFICES ASSUME Inv, [Next]_vars PROVE Inv'
          OBVIOUS
      <2>1. CASE \E a \in Admins, u \in Users : Block(a, u) \/ Unblock(a, u) \/ Delete(a, u)
            BY <2>1, ChangeInv
      <2>2. CASE \E a \in Admins : Remove(a) \/ RemoveFails(a)
            BY <2>2, RemoveInv
      <2>3. CASE Synchronize
            BY <2>3, SynchronizeInv
      <2>4. CASE \E call \in calls : CallStep(call) \/ Lose(call) \/ GiveUp(call)
            <3>1. PICK call \in calls : CallStep(call) \/ Lose(call) \/ GiveUp(call)
                  BY <2>4
            <3>2. QED  BY <3>1, BlockUserInv, UnblockUserInv, SyncReadInv, SyncSaveInv, SyncRetryInv,
                          EraseBlocksInv, EraseOrRevokeInv, LoseInv, GiveUpInv DEF CallStep
      <2>5. CASE \E u \in Users : Check(u) \/ Write(u) \/ Issue(u) \/ Store(u) \/ SignOut(u)
            BY <2>5, UserInv
      <2>6. CASE Tick
            BY <2>6, TickInv
      <2>7. CASE UNCHANGED vars
            <3>1. TypeOK'
                  BY <2>7 DEF vars, Inv, TypeOK
            <3>2. NothingEarly' /\ OlderThanRow' /\ OneAwaited' /\ DeletionBlocked' /\ DeletedIsRejected'
                  BY <2>7 DEF vars, Inv, NothingEarly, OlderThanRow, OneAwaited, DeletionBlocked, DeletedIsRejected
            <3>3. QED  BY <3>1, <3>2 DEF Inv
      <2>8. QED  BY <2>1, <2>2, <2>3, <2>4, <2>5, <2>6, <2>7 DEF Next
<1>3. QED  BY <1>1, <1>2, PTL DEF Spec

\* A user who was never unblocked stays rejected by the API once the account is
\* deleted (UserAccountDeletionService.DeleteAsync).
THEOREM DeletedStaysRejected == Spec => []DeletedIsRejected
<1>1. Inv => DeletedIsRejected
      BY DEF Inv
<1>2. QED  BY <1>1, Invariance, PTL

\* For a user who was never unblocked the API never loses a block, however late
\* an older list arrives (BlockedUserService.SynchronizationGracePeriod).
THEOREM BlocksStay == Spec => BlockHolds
<1>1. ASSUME Inv, [Next]_vars, NEW u \in Users \ unblocked, row[u] # NoRow
      PROVE  row'[u] # NoRow
      <2>0. row \in [Users -> 0..NoRow] /\ NoRow \in Nat /\ NoRow # 0 /\ calls \subseteq Calls
            BY <1>1, AccessAssumption DEF Inv, TypeOK, NoRow
      <2>1. CASE \E call \in calls : BlockUser(call) \/ EraseBlocks(call)
            BY <1>1, <2>1 DEF BlockUser, EraseBlocks, WithRows
      <2>2. CASE \E call \in calls : UnblockUser(call)
            BY <1>1, <2>2 DEF UnblockUser, Inv, OlderThanRow
      <2>3. CASE \E call \in calls : SyncSave(call)
            <3>1. PICK call \in calls : SyncSave(call)
                  BY <2>3
            <3>2. u \notin call.remove /\ call.age \in 0..MaxDelay /\ call.clock \in 0..MaxDelay
                  BY <1>1, <2>0 DEF Inv, OlderThanRow, Calls
            <3>3. row'[u] = row[u] \/ row'[u] = call.age - call.clock
                  BY <3>1, <3>2 DEF SyncSave
            <3>4. call.age - call.clock # NoRow
                  BY <3>2, AccessAssumption DEF NoRow
            <3>5. QED  BY <1>1, <3>3, <3>4
      <2>4. CASE Tick
            BY <1>1, <2>0, <2>4, AccessAssumption DEF Tick, NoRow
      <2>5. CASE row' = row
            BY <1>1, <2>5
      <2>6. QED
            BY <1>1, <2>1, <2>2, <2>3, <2>4, <2>5
            DEF Next, CallStep, Block, Unblock, Delete, Change, Remove, RemoveFails, Synchronize, Lose, GiveUp,
                SyncRead, SyncRetry, Erase, RevokeSessions, Check, Write, Issue, Store, SignOut, vars
<1>2. Inv /\ [Next]_vars => [\A u \in Users \ unblocked : row[u] # NoRow => row'[u] # NoRow]_vars
      BY <1>1
<1>3. QED  BY <1>2, Invariance, PTL DEF Spec, BlockHolds
=============================================================================
