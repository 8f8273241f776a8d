--------------------------- MODULE FinancialCache ---------------------------
(***************************************************************************)
(* The revision-keyed Redis cache in front of the financial reads, for one *)
(* user (the user id is part of every key, so users never share a key).    *)
(*                                                                         *)
(* PostgreSQL keeps one revision row per user.  Statement triggers on the  *)
(* six financial tables replace it by a fresh random uuid inside the       *)
(* writing transaction.  GetOrCreateAsync reads the revision, looks the    *)
(* entry up under (revision, operation), otherwise runs the queries one    *)
(* by one and stores the result under the revision it read at the start.   *)
(*                                                                         *)
(* The content of a query result is abstracted to the number of commits    *)
(* the database had when the query ran.                                    *)
(***************************************************************************)
EXTENDS Naturals, FiniteSets

CONSTANTS
    Callers,      \* concurrent requests of the user
    Operations,   \* the cached read operations, dimensions included
    Tables,       \* the tables the operations query
    Queries,      \* Queries[op]: the tables op queries, each on its own
    Uses,         \* Uses[op]: the cached operations op calls while it reads
    Revisions,    \* the uuids gen_random_uuid() may return, and Empty
    Empty,        \* Guid.Empty: no revision row exists yet
    MaxCommits    \* bound on the number of financial commits

\* An operation that another one uses calls no further cached operation, and
\* every operation reads something itself.
ASSUME CacheAssumption ==
    /\ MaxCommits \in Nat
    /\ Empty \in Revisions
    /\ Tables \cap Operations = {}
    /\ Queries \in [Operations -> SUBSET Tables]
    /\ Uses \in [Operations -> SUBSET Operations]
    /\ Operations # {}
    /\ \A op \in Operations : Queries[op] # {}
    /\ \A op \in Operations : \A used \in Uses[op] : Uses[used] = {}

VARIABLES
    commits,      \* committed financial writes so far: names the database state
    revision,     \* the committed revision row of the user
    born,         \* born[r]: the commit that made r the revision, None if none did
    store,        \* store[r][op]: the commits a stored result was read at, {} if none
    call          \* call[c][level]: progress of a GetOrCreateAsync call

vars == <<commits, revision, born, store, call>>

None == MaxCommits + 1

Commits == 0..MaxCommits

\* "outer" is the call a request makes, "inner" the cached operation that the
\* outer one uses while it reads (CalculateMainBalance and GetSummary both
\* call the cached balances).
Levels == {"outer", "inner"}

CallStates == {"idle", "asked", "lookup", "reading", "done"}

NoCall == [at |-> "idle", op |-> CHOOSE op \in Operations : TRUE, key |-> Empty,
           cached |-> FALSE, began |-> 0, todo |-> {}, seen |-> {}]

Calls == [at : CallStates, op : Operations, key : Revisions, cached : BOOLEAN,
          began : Commits, todo : SUBSET (Tables \cup Operations),
          seen : SUBSET Commits]

TypeOK == /\ commits \in Commits
          /\ revision \in Revisions
          /\ born \in [Revisions -> Commits \cup {None}]
          /\ store \in [Revisions -> [Operations -> SUBSET Commits]]
          /\ call \in [Callers -> [Levels -> Calls]]

Init == /\ commits = 0
        /\ revision = Empty
        /\ born = [r \in Revisions |-> IF r = Empty THEN 0 ELSE None]
        /\ store = [r \in Revisions |-> [op \in Operations |-> {}]]
        /\ call = [c \in Callers |-> [l \in Levels |-> NoCall]]

-----------------------------------------------------------------------------
(* Writers.  A financial transaction commits its rows and, through the     *)
(* triggers, a revision no transaction used before.                        *)

\* Mutant: one table has no trigger, the write leaves the revision alone.
CommitWithoutTrigger ==
    /\ commits < MaxCommits
    /\ commits' = commits + 1
    /\ UNCHANGED <<revision, born, store, call>>

Commit == /\ commits < MaxCommits
          /\ commits' = commits + 1
          /\ \E r \in {x \in Revisions : born[x] = None} :
                /\ revision' = r
                /\ born' = [born EXCEPT ![r] = commits + 1]
          /\ UNCHANGED <<store, call>>

-----------------------------------------------------------------------------
(* One GetOrCreateAsync call.                                              *)

SetCall(c, l, value) == call' = [call EXCEPT ![c][l] = value]

NewCall(op) == [at |-> "asked", op |-> op, key |-> Empty, cached |-> FALSE,
                began |-> commits, todo |-> Queries[op] \cup Uses[op], seen |-> {}]

Ask(c, op) == /\ call[c]["outer"].at = "idle"
              /\ SetCall(c, "outer", NewCall(op))
              /\ UNCHANGED <<commits, revision, born, store>>

\* No connection string, no user, inside a transaction or no data key: the
\* result is read and nothing is stored.
Bypass(c, l) == /\ call[c][l].at = "asked"
                /\ SetCall(c, l, [call[c][l] EXCEPT !.at = "reading"])
                /\ UNCHANGED <<commits, revision, born, store>>

\* Mutant: the key leaves the revision out.
ReadNoRevision(c, l) ==
    /\ call[c][l].at = "asked"
    /\ SetCall(c, l, [call[c][l] EXCEPT !.at = "lookup", !.key = Empty, !.cached = TRUE])
    /\ UNCHANGED <<commits, revision, born, store>>

ReadRevision(c, l) ==
    /\ call[c][l].at = "asked"
    /\ SetCall(c, l, [call[c][l] EXCEPT !.at = "lookup", !.key = revision, !.cached = TRUE])
    /\ UNCHANGED <<commits, revision, born, store>>

\* A finished call knows its answer and forgets its key.
Done(k, answer) == [k EXCEPT !.at = "done", !.key = Empty, !.cached = FALSE,
                             !.todo = {}, !.seen = answer]

Entry(c, l) == store[call[c][l].key][call[c][l].op]

Hit(c, l) ==
    /\ call[c][l].at = "lookup"
    /\ Entry(c, l) # {}
    /\ SetCall(c, l, Done(call[c][l], Entry(c, l)))
    /\ UNCHANGED <<commits, revision, born, store>>

Miss(c, l) == /\ call[c][l].at = "lookup"
              /\ Entry(c, l) = {}
              /\ SetCall(c, l, [call[c][l] EXCEPT !.at = "reading"])
              /\ UNCHANGED <<commits, revision, born, store>>

\* Redis, JSON or decryption failed: read() is returned and not stored.
LookupFails(c, l) ==
    /\ call[c][l].at = "lookup"
    /\ SetCall(c, l, [call[c][l] EXCEPT !.at = "reading", !.key = Empty, !.cached = FALSE])
    /\ UNCHANGED <<commits, revision, born, store>>

\* One of the read's queries, on the database of this moment.
Query(c, l, t) ==
    /\ call[c][l].at = "reading"
    /\ t \in call[c][l].todo \cap Tables
    /\ SetCall(c, l, [call[c][l] EXCEPT !.todo = @ \ {t}, !.seen = @ \cup {commits}])
    /\ UNCHANGED <<commits, revision, born, store>>

\* The read calls another cached operation and awaits it.
Use(c, op) == /\ call[c]["outer"].at = "reading"
              /\ op \in call[c]["outer"].todo \cap Operations
              /\ call[c]["inner"].at = "idle"
              /\ SetCall(c, "inner", NewCall(op))
              /\ UNCHANGED <<commits, revision, born, store>>

\* Mutant: the revision is read again when the nested read returns.
UsedRereads(c) ==
    /\ call[c]["inner"].at = "done"
    /\ call' = [call EXCEPT
          ![c] = [outer |-> [call[c]["outer"] EXCEPT
                               !.key = revision,
                               !.todo = @ \ {call[c]["inner"].op},
                               !.seen = @ \cup call[c]["inner"].seen],
                  inner |-> NoCall]]
    /\ UNCHANGED <<commits, revision, born, store>>

Used(c) == /\ call[c]["inner"].at = "done"
           /\ call' = [call EXCEPT
                 ![c] = [outer |-> [call[c]["outer"] EXCEPT
                                      !.todo = @ \ {call[c]["inner"].op},
                                      !.seen = @ \cup call[c]["inner"].seen],
                         inner |-> NoCall]]
           /\ UNCHANGED <<commits, revision, born, store>>

ReadIsOver(c, l) == call[c][l].at = "reading" /\ call[c][l].todo = {}

\* Mutant: the result is stored under the revision of the moment.
FillUnderCurrent(c, l) ==
    /\ ReadIsOver(c, l)
    /\ call[c][l].cached
    /\ store' = [store EXCEPT ![revision][call[c][l].op] = call[c][l].seen]
    /\ SetCall(c, l, Done(call[c][l], call[c][l].seen))
    /\ UNCHANGED <<commits, revision, born>>

Fill(c, l) == /\ ReadIsOver(c, l)
              /\ call[c][l].cached
              /\ store' = [store EXCEPT ![call[c][l].key][call[c][l].op] = call[c][l].seen]
              /\ SetCall(c, l, Done(call[c][l], call[c][l].seen))
              /\ UNCHANGED <<commits, revision, born>>

\* The result was not to be stored, or storing it failed and was logged.
ReturnUnstored(c, l) ==
    /\ ReadIsOver(c, l)
    /\ SetCall(c, l, Done(call[c][l], call[c][l].seen))
    /\ UNCHANGED <<commits, revision, born, store>>

\* The request ends: its answer is sent, or it is cancelled or fails anywhere.
Leave(c) == /\ call[c]["outer"].at # "idle"
            /\ call' = [call EXCEPT ![c] = [l \in Levels |-> NoCall]]
            /\ UNCHANGED <<commits, revision, born, store>>

\* The entry's lifetime ends, or Redis evicts it or restarts.
Expire(r, op) == /\ store[r][op] # {}
                 /\ store' = [store EXCEPT ![r][op] = {}]
                 /\ UNCHANGED <<commits, revision, born, call>>

Next == \/ Commit
        \/ \E c \in Callers :
              \/ \E op \in Operations : Ask(c, op) \/ Use(c, op)
              \/ \E l \in Levels : \/ Bypass(c, l) \/ ReadRevision(c, l)
                                   \/ Hit(c, l) \/ Miss(c, l) \/ LookupFails(c, l)
                                   \/ \E t \in Tables : Query(c, l, t)
                                   \/ Fill(c, l) \/ ReturnUnstored(c, l)
              \/ Used(c)
              \/ Leave(c)
        \/ \E r \in Revisions, op \in Operations : Expire(r, op)

Spec == Init /\ [][Next]_vars

-----------------------------------------------------------------------------
(* Properties.                                                             *)

\* A result stored under the revision that is current is the database as it is
\* now, every part of it: whatever filled it raced no commit it does not show
\* (FinancialCache.GetOrCreateAsync, "cannot poison subsequent reads").
CurrentEntryIsCurrent ==
    \A op \in Operations : store[revision][op] \subseteq {commits}

\* No part of an answer was overwritten by a commit that the request could
\* already see when it began: a user reads their own writes through the cache.
AnswerIsFresh ==
    \A c \in Callers : call[c]["outer"].at = "done" =>
        /\ call[c]["outer"].seen # {}
        /\ \A n \in call[c]["outer"].seen : call[c]["outer"].began <= n

\* What a request looks like to its caller.
Request(k) ==
    CASE k.at = "idle" -> [state |-> "idle", began |-> 0, answer |-> {}]
      [] k.at = "done" -> [state |-> "answered", began |-> k.began, answer |-> k.seen]
      [] OTHER -> [state |-> "asked", began |-> k.began, answer |-> {}]

Requests == [c \in Callers |-> Request(call[c]["outer"])]

\* A caller of the cached read sees nothing a caller of the plain read could not
\* see: GetOrCreateAsync implements FreshReads.
Reads == INSTANCE FreshReads WITH request <- Requests

CacheIsInvisible == Reads!Spec

-----------------------------------------------------------------------------
(* Why CurrentEntryIsCurrent and AnswerIsFresh hold: everything a call or  *)
(* an entry knows under key r was read at or after the commit that made r  *)
(* the revision.                                                           *)

RevisionBorn ==
    /\ born[revision] = commits
    /\ \A r \in Revisions : born[r] = None \/ born[r] <= commits

EntriesFresh ==
    \A r \in Revisions, op \in Operations : \A n \in store[r][op] :
        born[r] <= n /\ n <= commits

\* What is known of one call.
CallFresh(k) ==
    /\ k.began <= commits
    /\ \A n \in k.seen : k.began <= n /\ n <= commits
    /\ k.at = "lookup" => k.cached
    /\ k.cached => /\ k.began <= born[k.key]
                   /\ born[k.key] <= commits
                   /\ \A n \in k.seen : born[k.key] <= n
    /\ k.at = "asked" => ~k.cached
    /\ k.at \in {"asked", "lookup"} => k.seen = {} /\ Queries[k.op] \subseteq k.todo
    /\ k.at = "reading" => k.seen # {} \/ Queries[k.op] \subseteq k.todo
    /\ k.at = "done" => k.seen # {}

\* The inner call began after its caller read the revision it will store under.
InnerInOuter(outer, inner) ==
    inner.at # "idle" =>
        /\ outer.at = "reading"
        /\ inner.op \in outer.todo
        /\ outer.began <= inner.began
        /\ outer.cached => born[outer.key] <= inner.began

CallsFresh == \A c \in Callers :
    /\ \A l \in Levels : CallFresh(call[c][l])
    /\ InnerInOuter(call[c]["outer"], call[c]["inner"])

\* The inductive invariant: the types and the four facts above.
Inv == /\ TypeOK
       /\ RevisionBorn
       /\ EntriesFresh
       /\ CallsFresh
=============================================================================
