---------------------- MODULE SessionRefreshCoordinator ----------------------
(***************************************************************************)
(* SessionRefreshCoordinator: a lock for each session key, built from a    *)
(* concurrent dictionary of reference-counted entries that each hold a     *)
(* semaphore.  An entry whose last reference goes is retired and removed;  *)
(* a request that found it just before tries again with a new one.         *)
(*                                                                         *)
(* A step is one call of the dictionary, one critical section of an        *)
(* entry's SyncRoot, or one operation of its semaphore.                    *)
(***************************************************************************)
EXTENDS Integers, FiniteSets

CONSTANTS
    Requests,     \* concurrent HTTP requests
    Keys,         \* session keys
    Entries,      \* identities of Entry objects
    NoEntry

ASSUME CoordinatorAssumption ==
    /\ IsFiniteSet(Requests)
    /\ NoEntry \notin Entries

VARIABLES
    entries,      \* the dictionary: entries[k] is the entry of k, or NoEntry
    references,   \* references[e]: ReferenceCount
    retired,      \* retired[e]: Retired
    permits,      \* permits[e]: the semaphore's count
    at,           \* at[p]: where request p is in AcquireAsync or Release
    key,          \* key[p]: its session key
    mine          \* mine[p]: the entry it found

vars == <<entries, references, retired, permits, at, key, mine>>

Places == {"out", "getting", "entering", "waiting", "holding", "dropping"}

TypeOK == /\ entries \in [Keys -> Entries \cup {NoEntry}]
          /\ references \in [Entries -> Nat]
          /\ retired \in [Entries -> BOOLEAN]
          /\ permits \in [Entries -> {0, 1}]
          /\ at \in [Requests -> Places]
          /\ key \in [Requests -> Keys]
          /\ mine \in [Requests -> Entries \cup {NoEntry}]

Init == /\ entries = [k \in Keys |-> NoEntry]
        /\ references = [e \in Entries |-> 0]
        /\ retired = [e \in Entries |-> FALSE]
        /\ permits = [e \in Entries |-> 1]
        /\ at = [p \in Requests |-> "out"]
        /\ key \in [Requests -> Keys]
        /\ mine = [p \in Requests |-> NoEntry]

Ask(p, k) == /\ at[p] = "out"
             /\ at' = [at EXCEPT ![p] = "getting"]
             /\ key' = [key EXCEPT ![p] = k]
             /\ UNCHANGED <<entries, references, retired, permits, mine>>

\* entries.GetOrAdd finds an entry of the key.
Get(p) == /\ at[p] = "getting"
          /\ entries[key[p]] # NoEntry
          /\ at' = [at EXCEPT ![p] = "entering"]
          /\ mine' = [mine EXCEPT ![p] = entries[key[p]]]
          /\ UNCHANGED <<entries, references, retired, permits, key>>

\* No entry the dictionary or a request still refers to: a new object.
Fresh(e) == /\ \A k \in Keys : entries[k] # e
            /\ \A q \in Requests : mine[q] # e

\* entries.GetOrAdd adds one.
Add(p, e) == /\ at[p] = "getting"
             /\ entries[key[p]] = NoEntry
             /\ Fresh(e)
             /\ entries' = [entries EXCEPT ![key[p]] = e]
             /\ references' = [references EXCEPT ![e] = 0]
             /\ retired' = [retired EXCEPT ![e] = FALSE]
             /\ permits' = [permits EXCEPT ![e] = 1]
             /\ at' = [at EXCEPT ![p] = "entering"]
             /\ mine' = [mine EXCEPT ![p] = e]
             /\ UNCHANGED key

\* Mutant: a retired entry is used like any other.
EnterRetired(p) ==
    /\ at[p] = "entering"
    /\ references' = [references EXCEPT ![mine[p]] = @ + 1]
    /\ at' = [at EXCEPT ![p] = "waiting"]
    /\ UNCHANGED <<entries, retired, permits, key, mine>>

\* The reference is counted under SyncRoot, unless the entry was retired.
Enter(p) == /\ at[p] = "entering"
            /\ ~retired[mine[p]]
            /\ references' = [references EXCEPT ![mine[p]] = @ + 1]
            /\ at' = [at EXCEPT ![p] = "waiting"]
            /\ UNCHANGED <<entries, retired, permits, key, mine>>

Retry(p) == /\ at[p] = "entering"
            /\ retired[mine[p]]
            /\ at' = [at EXCEPT ![p] = "getting"]
            /\ mine' = [mine EXCEPT ![p] = NoEntry]
            /\ UNCHANGED <<entries, references, retired, permits, key>>

\* Semaphore.WaitAsync completes.
Wait(p) == /\ at[p] = "waiting"
           /\ permits[mine[p]] > 0
           /\ permits' = [permits EXCEPT ![mine[p]] = @ - 1]
           /\ at' = [at EXCEPT ![p] = "holding"]
           /\ UNCHANGED <<entries, references, retired, key, mine>>

\* Mutant: a cancelled wait keeps its reference.
CancelLeaks(p) == /\ at[p] = "waiting"
                  /\ at' = [at EXCEPT ![p] = "out"]
                  /\ mine' = [mine EXCEPT ![p] = NoEntry]
                  /\ UNCHANGED <<entries, references, retired, permits, key>>

\* Semaphore.WaitAsync throws: the request was aborted.
Cancel(p) == /\ at[p] = "waiting"
             /\ at' = [at EXCEPT ![p] = "dropping"]
             /\ UNCHANGED <<entries, references, retired, permits, key, mine>>

\* Mutant: the semaphore is not released.
ReleaseForgets(p) == /\ at[p] = "holding"
                     /\ at' = [at EXCEPT ![p] = "dropping"]
                     /\ UNCHANGED <<entries, references, retired, permits, key, mine>>

\* The lock is disposed of: the semaphore first.
Release(p) == /\ at[p] = "holding"
              /\ permits' = [permits EXCEPT ![mine[p]] = @ + 1]
              /\ at' = [at EXCEPT ![p] = "dropping"]
              /\ UNCHANGED <<entries, references, retired, key, mine>>

\* ReleaseReference, under SyncRoot; TryRemove takes this very entry only.
Drop(p) ==
    LET e == mine[p] IN
    /\ at[p] = "dropping"
    /\ references' = [references EXCEPT ![e] = @ - 1]
    /\ \/ /\ references[e] # 1
          /\ UNCHANGED <<entries, retired>>
       \/ /\ references[e] = 1
          /\ retired' = [retired EXCEPT ![e] = TRUE]
          /\ entries' = [entries EXCEPT ![key[p]] = IF @ = e THEN NoEntry ELSE @]
    /\ at' = [at EXCEPT ![p] = "out"]
    /\ mine' = [mine EXCEPT ![p] = NoEntry]
    /\ UNCHANGED <<permits, key>>

Step(p) == \/ Get(p) \/ (\E e \in Entries : Add(p, e))
           \/ Enter(p) \/ Retry(p) \/ Wait(p) \/ Release(p) \/ Drop(p)

Next == \E p \in Requests : (\E k \in Keys : Ask(p, k)) \/ Step(p) \/ Cancel(p)

Spec == Init /\ [][Next]_vars

\* Threads run, the refresh under the lock ends (HttpClient has a timeout), and
\* the semaphore hands its permit to its waiters in turn.
FairSpec == /\ Spec
            /\ \A p \in Requests : WF_vars(Step(p)) /\ SF_vars(Wait(p))

-----------------------------------------------------------------------------
(* Properties.                                                             *)

\* Two requests never refresh the tokens of one session at the same time
\* (AccessTokenHandler.GetRefreshedAccessTokenAsync).
MutualExclusion ==
    \A p, q \in Requests :
        at[p] = "holding" /\ at[q] = "holding" /\ key[p] = key[q] => p = q

\* The dictionary keeps an entry no longer than a request of its session is in
\* AcquireAsync or holds the lock (ReleaseReference; TrackedSessionCount).
NoLeak == \A k \in Keys : entries[k] # NoEntry =>
              \E p \in Requests : key[p] = k /\ mine[p] = entries[k]

\* A request that waits gets the lock or is cancelled: no permit is lost.
WaitersProceed == \A p \in Requests : at[p] = "waiting" ~> at[p] # "waiting"

Stage(p) == CASE at[p] \in {"out", "dropping"} -> "out"
              [] at[p] = "holding" -> "holds"
              [] OTHER -> "waits"

Stages == [p \in Requests |-> Stage(p)]

\* The coordinator implements one lock for each session.
Lock == INSTANCE SessionLock WITH stage <- Stages

IsSessionLock == Lock!Spec

-----------------------------------------------------------------------------
(* Why they hold: an entry in use is the one the dictionary has for the    *)
(* key, so two requests of a session meet at one semaphore.                *)

Using == {"waiting", "holding", "dropping"}

UsersOf(e) == {p \in Requests : mine[p] = e /\ at[p] \in Using}

HoldersOf(e) == {p \in Requests : mine[p] = e /\ at[p] = "holding"}

\* Where a request has an entry, and which.
Placed == \A p \in Requests :
    /\ mine[p] = NoEntry <=> at[p] \in {"out", "getting"}
    /\ at[p] = "entering" => entries[key[p]] = mine[p] \/ retired[mine[p]]
    /\ at[p] \in Using => entries[key[p]] = mine[p]

\* Every reference is counted, and a retired entry has none and is out of the
\* dictionary.
Counted == \A e \in Entries :
    /\ references[e] = Cardinality(UsersOf(e))
    /\ retired[e] => \A k \in Keys : entries[k] # e

\* No entry serves two keys.
OneKey == \A k, l \in Keys : entries[k] = entries[l] /\ entries[k] # NoEntry => k = l

\* A permit is out exactly while one request holds the entry.
OnePermit == \A e \in Entries :
    /\ permits[e] = 0 <=> HoldersOf(e) # {}
    /\ \A p, q \in HoldersOf(e) : p = q

Inv == TypeOK /\ Placed /\ Counted /\ OneKey /\ OnePermit /\ NoLeak
=============================================================================
