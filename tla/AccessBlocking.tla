---------------------------- MODULE AccessBlocking ----------------------------
(***************************************************************************)
(* Blocking, unblocking and deleting users: the IsAccessBlocked flag of    *)
(* Identity is the source of truth, the API keeps a blocked_users row for  *)
(* each rejected user and the Web keeps the sessions.  Identity pushes a   *)
(* change to both when it happens, and its synchronizer sends the list of  *)
(* blocked and deleted users again every 30 seconds.                       *)
(*                                                                         *)
(* Every push is one HTTP call: it may be lost, and its caller may give up *)
(* on it while it is still on its way.  Time is a tick; a call is over     *)
(* MaxDelay ticks after it was made (the clients' timeout, 10 s), a row is *)
(* removed by a synchronization only after Grace ticks (2 min).            *)
(***************************************************************************)
EXTENDS Naturals, FiniteSets

CONSTANTS
    Users,
    Admins,        \* concurrent requests that block, unblock or delete
    Synchronizer,  \* Identity's background service
    Grace,         \* SynchronizationGracePeriod
    MaxDelay,      \* a call is handled or lost within this time
    MaxChanges,    \* bound on the changes of one account
    MaxCalls       \* bound on the calls under way at once

ASSUME AccessAssumption ==
    /\ Synchronizer \notin Admins
    /\ Grace \in Nat /\ MaxDelay \in Nat /\ MaxChanges \in Nat /\ MaxCalls \in Nat
    /\ MaxDelay < Grace

VARIABLES
    account,    \* account[u]: the account in Identity, a tombstone if "deleted"
    stamp,      \* stamp[u]: its concurrency stamp, a number
    unblocked,  \* users that were unblocked some time
    caller,     \* caller[c]: the request or synchronization c is making
    calls,      \* HTTP calls to the API and the Web under way
    row,        \* row[u]: the age of u's blocked_users row, or NoRow
    data,       \* users with rows in the finance database
    writing,    \* users with an API request that passed the block check
    signing,    \* users with a sign-in that Identity accepted and Web has not stored
    sessions    \* users with a live session in the Web

identity == <<account, stamp, unblocked>>
finance == <<data, writing>>
web == <<signing, sessions>>
vars == <<account, stamp, unblocked, caller, calls, row, data, writing, signing, sessions>>

Callers == Admins \cup {Synchronizer}
NoRow == Grace + 1
Kinds == {"block", "unblock", "sync", "revoke", "erase"}

\* A call: "sync" and "erase" take two steps, and what the first has read or
\* planned is in clock, remove and add.
Calls == [by : Callers, kind : Kinds, users : SUBSET Users, awaited : BOOLEAN, age : 0..MaxDelay,
          at : {"sent", "read"}, attempt : 1..3, clock : 0..MaxDelay,
          remove : SUBSET Users, add : SUBSET Users]

\* What a caller waits for: the answer to a call of that kind, or the last step of a deletion.
Requests == [op : {"none", "Block", "Unblock", "Delete", "Synchronize"},
             step : Kinds \cup {"none", "last"}, users : SUBSET Users, stamp : 0..MaxChanges]

TypeOK == /\ account \in [Users -> {"active", "blocked", "deleted"}]
          /\ stamp \in [Users -> 0..MaxChanges]
          /\ unblocked \subseteq Users
          /\ caller \in [Callers -> Requests]
          /\ calls \subseteq Calls
          /\ row \in [Users -> 0..NoRow]
          /\ data \subseteq Users /\ writing \subseteq Users
          /\ signing \subseteq Users /\ sessions \subseteq Users

-----------------------------------------------------------------------------
(* Calls and their answers.                                                *)

Call(c, kind, users) == [by |-> c, kind |-> kind, users |-> users, awaited |-> TRUE, age |-> 0,
                         at |-> "sent", attempt |-> 1, clock |-> 0, remove |-> {}, add |-> {}]

Rest == [op |-> "none", step |-> "none", users |-> {}, stamp |-> 0]

SetCaller(c, value) == caller' = [caller EXCEPT ![c] = value]

\* The step after the answer to a call.
After(op, kind) ==
    CASE kind \in {"block", "sync"} -> "revoke"
      [] kind = "revoke" /\ op = "Delete" -> "erase"
      [] kind = "erase" -> "last"
      [] OTHER -> "none"

\* A call succeeded.  Its caller, if it still waits, goes on.
Answer(call) ==
    LET c == call.by
        step == After(caller[c].op, call.kind)
    IN IF ~call.awaited
       THEN calls' = calls \ {call} /\ UNCHANGED caller
       ELSE /\ SetCaller(c, IF step = "none" THEN Rest ELSE [caller[c] EXCEPT !.step = step])
            /\ calls' = (calls \ {call}) \cup
                  (IF step \in Kinds THEN {Call(c, step, caller[c].users)} ELSE {})

\* A call failed at its receiver, or was lost.
Fail(call) ==
    /\ calls' = calls \ {call}
    /\ IF call.awaited THEN SetCaller(call.by, Rest) ELSE UNCHANGED caller

Replace(call, value) == calls' = (calls \ {call}) \cup {value}

Lose(call) == Fail(call) /\ UNCHANGED <<identity, row, finance, web>>

\* Mutant: a deletion goes on although its call timed out.
GiveUpAndGoOn(call) ==
    /\ call.awaited
    /\ Answer(call)
    /\ UNCHANGED <<identity, row, finance, web>>

\* The client's timeout, or the end of its process: the caller warns or throws,
\* the call may still arrive.  (A late revocation does no more than SignOut.)
GiveUp(call) ==
    /\ call.awaited /\ call.kind # "revoke"
    /\ Replace(call, [call EXCEPT !.awaited = FALSE])
    /\ SetCaller(call.by, Rest)
    /\ UNCHANGED <<identity, row, finance, web>>

-----------------------------------------------------------------------------
(* Identity.                                                               *)

\* A request changes the account, if its concurrency stamp is still the one it
\* read, and then makes its first call.
Change(a, u, op, status, kind) ==
    /\ caller[a] = Rest
    /\ account[u] # "deleted"
    /\ stamp[u] < MaxChanges /\ Cardinality(calls) < MaxCalls
    /\ account' = [account EXCEPT ![u] = status]
    /\ stamp' = [stamp EXCEPT ![u] = @ + 1]
    /\ SetCaller(a, [op |-> op, step |-> kind, users |-> {u}, stamp |-> stamp[u] + 1])
    /\ calls' = calls \cup {Call(a, kind, {u})}
    /\ UNCHANGED <<row, finance, web>>

Block(a, u) == Change(a, u, "Block", "blocked", "block") /\ UNCHANGED unblocked

Unblock(a, u) == Change(a, u, "Unblock", "active", "unblock") /\ unblocked' = unblocked \cup {u}

Delete(a, u) == Change(a, u, "Delete", "blocked", "block") /\ UNCHANGED unblocked

\* The transaction that deletes the user and adds the tombstone fails if the
\* user was changed since the deletion blocked it.
Remove(a) ==
    /\ caller[a].step = "last"
    /\ account' = [u \in Users |-> IF u \in caller[a].users /\ stamp[u] = caller[a].stamp
                                   THEN "deleted" ELSE account[u]]
    /\ SetCaller(a, Rest)
    /\ UNCHANGED <<stamp, unblocked, calls, row, finance, web>>

RemoveFails(a) ==
    /\ caller[a].step = "last"
    /\ SetCaller(a, Rest)
    /\ UNCHANGED <<identity, calls, row, finance, web>>

\* Mutant: the list has the blocked users only.
WithoutTombstones == {u \in Users : account[u] = "blocked"}

\* The users the synchronizer finds blocked, and the tombstones.
Rejected == {u \in Users : account[u] # "active"}

Synchronize ==
    /\ caller[Synchronizer] = Rest /\ Cardinality(calls) < MaxCalls
    /\ SetCaller(Synchronizer, [op |-> "Synchronize", step |-> "sync", users |-> Rejected, stamp |-> 0])
    /\ calls' = calls \cup {Call(Synchronizer, "sync", Rejected)}
    /\ UNCHANGED <<identity, row, finance, web>>

-----------------------------------------------------------------------------
(* The API.                                                                *)

\* The rows after the users' rows were added where they were missing.
WithRows(users) == [u \in Users |-> IF u \in users /\ row[u] = NoRow THEN 0 ELSE row[u]]

BlockUser(call) == /\ call.kind = "block"
                   /\ row' = WithRows(call.users)
                   /\ Answer(call)
                   /\ UNCHANGED <<identity, finance, web>>

UnblockUser(call) == /\ call.kind = "unblock"
                     /\ row' = [u \in Users |-> IF u \in call.users THEN NoRow ELSE row[u]]
                     /\ Answer(call)
                     /\ UNCHANGED <<identity, finance, web>>

\* Mutant: rows of any age are removed.
AnyAge(call) == {u \in Users \ call.users : row[u] # NoRow}

\* Mutant: the comparison with the grace period is the wrong way round.
Younger(call) == {u \in Users \ call.users : row[u] # NoRow /\ row[u] < Grace}

\* Rows of users that are not in the list, and old enough.
Removable(call) == {u \in Users \ call.users : row[u] # NoRow /\ row[u] >= Grace}

\* One attempt of SynchronizeAsync reads the rows ...
SyncRead(call) ==
    /\ call.kind = "sync" /\ call.at = "sent"
    /\ Replace(call, [call EXCEPT !.at = "read", !.clock = call.age, !.remove = Removable(call),
                                  !.add = {u \in call.users : row[u] = NoRow}])
    /\ UNCHANGED <<identity, caller, row, finance, web>>

\* ... and saves its changes, unless a row it removes is gone or one it adds is
\* there; it then tries again, three times in all.
Conflict(call) == \/ \E u \in call.remove : row[u] = NoRow
                  \/ \E u \in call.add : row[u] # NoRow

SyncSave(call) ==
    /\ call.kind = "sync" /\ call.at = "read"
    /\ ~Conflict(call)
    /\ row' = [u \in Users |-> CASE u \in call.remove -> NoRow
                                 [] u \in call.add -> call.age - call.clock
                                 [] OTHER -> row[u]]
    /\ Answer(call)
    /\ UNCHANGED <<identity, finance, web>>

SyncRetry(call) ==
    /\ call.kind = "sync" /\ call.at = "read"
    /\ Conflict(call)
    /\ IF call.attempt = 3 THEN Fail(call)
       ELSE /\ Replace(call, [Call(call.by, "sync", call.users) EXCEPT
                  !.awaited = call.awaited, !.age = call.age, !.attempt = call.attempt + 1])
            /\ UNCHANGED caller
    /\ UNCHANGED <<identity, row, finance, web>>

\* The deletion of the finance data blocks the user again first.
EraseBlocks(call) ==
    /\ call.kind = "erase" /\ call.at = "sent"
    /\ row' = WithRows(call.users)
    /\ Replace(call, [call EXCEPT !.at = "read"])
    /\ UNCHANGED <<identity, caller, finance, web>>

Erase(call) ==
    /\ call.kind = "erase" /\ call.at = "read"
    /\ data' = data \ call.users
    /\ Answer(call)
    /\ UNCHANGED <<identity, row, writing, web>>

\* A request of the user passes the middleware, and writes later.
Check(u) == /\ row[u] = NoRow
            /\ writing' = writing \cup {u}
            /\ UNCHANGED <<identity, caller, calls, row, data, web>>

Write(u) == /\ u \in writing
            /\ writing' = writing \ {u}
            /\ data' = data \cup {u}
            /\ UNCHANGED <<identity, caller, calls, row, web>>

-----------------------------------------------------------------------------
(* The Web.                                                                *)

\* Identity answers the token request of a sign-in.
Issue(u) == /\ account[u] = "active"
            /\ signing' = signing \cup {u}
            /\ UNCHANGED <<identity, caller, calls, row, finance, sessions>>

\* The callback stores the session.
Store(u) == /\ u \in signing
            /\ signing' = signing \ {u}
            /\ sessions' = sessions \cup {u}
            /\ UNCHANGED <<identity, caller, calls, row, finance>>

SignOut(u) == /\ u \in sessions
              /\ sessions' = sessions \ {u}
              /\ UNCHANGED <<identity, caller, calls, row, finance, signing>>

RevokeSessions(call) == /\ call.kind = "revoke"
                        /\ sessions' = sessions \ call.users
                        /\ Answer(call)
                        /\ UNCHANGED <<identity, row, finance, signing>>

-----------------------------------------------------------------------------
Tick == /\ \A call \in calls : call.age < MaxDelay
        /\ calls' = {[call EXCEPT !.age = @ + 1] : call \in calls}
        /\ row' = [u \in Users |-> IF row[u] < Grace THEN row[u] + 1 ELSE row[u]]
        /\ UNCHANGED <<identity, caller, finance, web>>

Init == /\ account = [u \in Users |-> "active"]
        /\ stamp = [u \in Users |-> 0]
        /\ unblocked = {}
        /\ caller = [c \in Callers |-> Rest]
        /\ calls = {}
        /\ row = [u \in Users |-> NoRow]
        /\ data = {} /\ writing = {} /\ signing = {} /\ sessions = {}

CallStep(call) ==
    \/ BlockUser(call) \/ UnblockUser(call)
    \/ SyncRead(call) \/ SyncSave(call) \/ SyncRetry(call)
    \/ EraseBlocks(call) \/ Erase(call)
    \/ RevokeSessions(call)

Next == \/ \E a \in Admins, u \in Users : Block(a, u) \/ Unblock(a, u) \/ Delete(a, u)
        \/ \E a \in Admins : Remove(a) \/ RemoveFails(a)
        \/ Synchronize
        \/ \E call \in calls : CallStep(call) \/ Lose(call) \/ GiveUp(call)
        \/ \E u \in Users : Check(u) \/ Write(u) \/ Issue(u) \/ Store(u) \/ SignOut(u)
        \/ Tick

Spec == Init /\ [][Next]_vars

-----------------------------------------------------------------------------
\* The synchronizer's loop runs, its calls are not lost for ever, calls time
\* out, and a sign-in ends.
Synchronized(Step(_)) == \E call \in calls : call.by = Synchronizer /\ call.awaited /\ Step(call)

FairSpec ==
    /\ Spec
    /\ WF_vars(Tick) /\ WF_vars(Synchronize)
    /\ WF_vars(\E call \in calls : call.age = MaxDelay /\ (CallStep(call) \/ Lose(call)))
    /\ SF_vars(Synchronized(SyncRead)) /\ SF_vars(Synchronized(SyncSave))
    /\ SF_vars(Synchronized(RevokeSessions))
    /\ \A u \in Users : WF_vars(Store(u))

-----------------------------------------------------------------------------
(* Properties.                                                             *)

\* For a user who was never unblocked, a block in the API stays, whatever older
\* lists of the synchronizer still arrive (SynchronizationGracePeriod: "a
\* snapshot taken just before an admin block could undo that block").
BlockHolds == [][\A u \in Users \ unblocked : row[u] # NoRow => row'[u] # NoRow]_vars

\* When the account of such a user is deleted the API rejects the user, then and
\* ever after (UserAccountDeletionService: "Deletion only continues once the
\* API rejects the user's tokens").
DeletedIsRejected ==
    \A u \in Users \ unblocked : account[u] = "deleted" => row[u] # NoRow

\* A user who stays blocked or deleted is rejected by the API and has no session
\* in the end, whatever was lost or came late (UserAccessBlockSynchronizer: a
\* lost push "can never leave a blocked user with working tokens or sessions").
BlockArrives == \A u \in Users :
    <>[](account[u] # "active") => <>[](row[u] # NoRow /\ u \notin sessions)

\* A user who stays unblocked is not rejected in the end.
UnblockArrives == \A u \in Users : <>[](account[u] = "active") => <>[](row[u] = NoRow)

\* Nothing is written for a deleted user afterwards (InternalAdminUsersController).
NothingWrittenAfterDeletion ==
    \A u \in Users : account[u] = "deleted" => u \notin data

-----------------------------------------------------------------------------
(* Why BlockHolds and DeletedIsRejected hold.                              *)

\* A user who was neither blocked nor unblocked yet is in no call and no row.
NothingEarly == \A u \in Users \ unblocked : account[u] = "active" =>
    /\ row[u] = NoRow
    /\ \A call \in calls : u \notin call.users
    /\ \A c \in Callers : u \notin caller[c].users

\* A list without a user who was never unblocked is from before the block: it is
\* older than the user's row and than every list with the user, so it plans no
\* removal of the row.
OlderThanRow == \A call \in calls :
    /\ call.kind = "unblock" => call.users \subseteq unblocked
    /\ call.remove \subseteq unblocked
    /\ call.add \subseteq call.users
    /\ call.clock <= call.age
    /\ call.kind = "sync" => \A u \in Users \ (unblocked \cup call.users) :
          /\ row[u] # NoRow => row[u] <= call.age
          /\ \A other \in calls : other.kind = "sync" /\ u \in other.users => other.age <= call.age

\* A caller waits for one call.
OneAwaited == \A call \in calls : call.awaited =>
    /\ caller[call.by].step = call.kind
    /\ caller[call.by].users = call.users
    /\ \A other \in calls : other.awaited /\ other.by = call.by => other = call

\* A deletion that got past its first call has the row it needs.
DeletionBlocked == \A c \in Callers :
    /\ caller[c].step \in {"erase", "last"} => caller[c].op = "Delete"
    /\ caller[c].op = "Delete" => caller[c].step \in {"block", "revoke", "erase", "last"}
    /\ caller[c].op = "Delete" /\ caller[c].step # "block" =>
          \A u \in caller[c].users \ unblocked : row[u] # NoRow

Inv == /\ TypeOK
       /\ NothingEarly
       /\ OlderThanRow
       /\ OneAwaited
       /\ DeletionBlocked
       /\ DeletedIsRejected
=============================================================================
