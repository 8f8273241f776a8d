----------------------------- MODULE SessionLock -----------------------------
(***************************************************************************)
(* What AcquireAsync promises the requests that refresh a session's        *)
(* tokens: one lock for each session, and no effect of one session on      *)
(* another.                                                                *)
(***************************************************************************)
CONSTANTS
    Requests,
    Keys          \* session keys

VARIABLES
    stage,        \* stage[p]: "out", "waits" or "holds"
    key           \* key[p]: the session of p's last call

Held(k) == \E q \in Requests : stage[q] = "holds" /\ key[q] = k

Init == /\ stage = [p \in Requests |-> "out"]
        /\ key \in [Requests -> Keys]

Ask(p, k) == /\ stage[p] = "out"
             /\ stage' = [stage EXCEPT ![p] = "waits"]
             /\ key' = [key EXCEPT ![p] = k]

Acquire(p) == /\ stage[p] = "waits"
              /\ ~Held(key[p])
              /\ stage' = [stage EXCEPT ![p] = "holds"]
              /\ UNCHANGED key

\* The wait is cancelled, or the lock is given back.
Leave(p) == /\ stage[p] # "out"
            /\ stage' = [stage EXCEPT ![p] = "out"]
            /\ UNCHANGED key

Next == \E p \in Requests : (\E k \in Keys : Ask(p, k)) \/ Acquire(p) \/ Leave(p)

Spec == Init /\ [][Next]_<<stage, key>>
=============================================================================
