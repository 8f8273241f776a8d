----------------------------- MODULE FreshReads -----------------------------
(***************************************************************************)
(* What a read of the user's financial data promises its caller, whether   *)
(* or not a cache sits in between: every part of the answer is the         *)
(* database as it was at some commit between the start of the call and its *)
(* end.  The queries of one read run in READ COMMITTED, so two parts of    *)
(* one answer may come from two different commits; none may come from a    *)
(* commit that was already overwritten when the call began.                *)
(***************************************************************************)
EXTENDS Naturals

CONSTANTS
    Callers,      \* concurrent requests of one user
    MaxCommits    \* bound on the number of financial commits

VARIABLES
    commits,      \* the number of committed financial writes of the user
    request       \* request[c]: where caller c stands

Idle == [state |-> "idle", began |-> 0, answer |-> {}]

\* Every non-empty set of commits out of lo..hi.
Snapshots(lo, hi) == (SUBSET (lo..hi)) \ {{}}

Init == /\ commits = 0
        /\ request = [c \in Callers |-> Idle]

Write == /\ commits < MaxCommits
         /\ commits' = commits + 1
         /\ UNCHANGED request

Ask(c) == /\ request[c].state = "idle"
          /\ request' = [request EXCEPT
                ![c] = [state |-> "asked", began |-> commits, answer |-> {}]]
          /\ UNCHANGED commits

Answer(c) == /\ request[c].state = "asked"
             /\ \E s \in Snapshots(request[c].began, commits) :
                   request' = [request EXCEPT
                      ![c] = [state |-> "answered", began |-> request[c].began, answer |-> s]]
             /\ UNCHANGED commits

\* The answer is handed over, or the request is aborted.
Leave(c) == /\ request[c].state # "idle"
            /\ request' = [request EXCEPT ![c] = Idle]
            /\ UNCHANGED commits

Next == Write \/ \E c \in Callers : Ask(c) \/ Answer(c) \/ Leave(c)

Spec == Init /\ [][Next]_<<commits, request>>
=============================================================================
