----------------------------- MODULE BffSessions -----------------------------
(***************************************************************************)
(* The Web application's sessions: the rows of bff_sessions                *)
(* (DatabaseTicketStore), the requests that carry a session cookie and     *)
(* refresh its tokens (AccessTokenHandler), sign-in, sign-out, and the     *)
(* revocation of a user's sessions by Identity.                            *)
(*                                                                         *)
(* A ticket stands for what the row protects: an access token, the refresh *)
(* token issued with it, and the expiry of the sign-in it descends from.   *)
(* Refreshes of a session exclude each other by SessionLock, which         *)
(* SessionRefreshCoordinator implements.  RenewAsync and                   *)
(* RevokeUserSessionsAsync read the rows and save them later; Entity       *)
(* Framework writes the columns that were assigned, and throws when a row  *)
(* it updates is gone.                                                     *)
(***************************************************************************)
EXTENDS Naturals, FiniteSets

CONSTANTS
    Sessions,     \* session keys, each used once (Guid.NewGuid)
    Users,
    Requests,     \* concurrent HTTP requests
    Revocations,  \* concurrent calls of Identity
    MaxTickets    \* bound on tickets ever issued

ASSUME SessionsAssumption == MaxTickets \in Nat

VARIABLES
    row,          \* row[s]: the row of session s
    issued,       \* tickets issued by Identity; numbers them
    origin,       \* origin[n]: the sign-in that ticket n descends from
    stale,        \* tickets whose access token expires within a minute
    over,         \* sign-ins more than eight hours ago
    redeemed,     \* tickets whose refresh token Identity has redeemed
    lost,         \* redeemed tickets whose successor was never received or saved
    request,      \* request[p]: the request p is serving
    revocation,   \* revocation[a]: the rows a revocation has read
    stage, key    \* SessionLock: the refresh lock

rows == <<row, revocation>>
tokens == <<issued, origin, redeemed, lost>>
clock == <<stale, over>>
lock == <<stage, key>>

vars == <<row, issued, origin, stale, over, redeemed, lost, request, revocation, stage, key>>

Lock == INSTANCE SessionLock WITH Keys <- Sessions

Tickets == 1..MaxTickets
Wiped == 0

\* The protected ticket, ExpiresAtUtc (as the sign-in that determines it) and
\* RevokedAtUtc of a stored row.
Rows == [state : {"free", "stored", "removed"}, user : Users, ticket : Tickets \cup {Wiped},
         expires : Tickets \cup {Wiped}, revoked : BOOLEAN]

Places == {"idle", "serving", "waiting", "locked", "posting", "renewing", "saving", "expired"}

AllRequests == [at : Places, session : Sessions, ticket : Tickets \cup {Wiped}, next : Tickets \cup {Wiped}]

NoRequest(s) == [at |-> "idle", session |-> s, ticket |-> Wiped, next |-> Wiped]

TypeOK == /\ row \in [Sessions -> Rows]
          /\ issued \in 0..MaxTickets
          /\ origin \in [Tickets -> Tickets]
          /\ stale \subseteq Tickets
          /\ over \subseteq Tickets
          /\ redeemed \subseteq Tickets
          /\ lost \subseteq Tickets
          /\ request \in [Requests -> AllRequests]
          /\ revocation \in [Revocations -> [busy : BOOLEAN, found : SUBSET Sessions]]
          /\ stage \in [Requests -> {"out", "waits", "holds"}]
          /\ key \in [Requests -> Sessions]

-----------------------------------------------------------------------------
(* Helpers.                                                                *)

\* RetrieveAsync returns a ticket.
Retrievable(s) == /\ row[s].state = "stored"
                  /\ row[s].expires \notin over
                  /\ ~row[s].revoked

SetRequest(p, value) == request' = [request EXCEPT ![p] = value]

At(p, place) == request[p].at = place

Move(p, place) == SetRequest(p, [request[p] EXCEPT !.at = place])

\* The using block of GetRefreshedAccessTokenAsync ends.
Unlock(p) == IF stage[p] = "out" THEN UNCHANGED lock ELSE Lock!Leave(p)

\* Identity issues a ticket that descends from sign-in o, or a new sign-in.
Issue(o) == /\ issued < MaxTickets
            /\ issued' = issued + 1
            /\ origin' = [origin EXCEPT ![issued + 1] = o]

-----------------------------------------------------------------------------
(* Time.                                                                   *)

GoStale(n) == /\ n \in 1..issued /\ n \notin stale
              /\ stale' = stale \cup {n}
              /\ UNCHANGED <<rows, tokens, over, request, lock>>

GoOver(n) == /\ n \in 1..issued /\ origin[n] = n /\ n \notin over
             /\ over' = over \cup {n}
             /\ UNCHANGED <<rows, tokens, stale, request, lock>>

-----------------------------------------------------------------------------
(* Sign-in, sign-out and the life of a request.                            *)

\* The callback of a sign-in without a session stores a row.
SignIn(p, s, u) ==
    /\ At(p, "idle")
    /\ row[s].state = "free"
    /\ Issue(issued + 1)
    /\ row' = [row EXCEPT ![s] = [state |-> "stored", user |-> u, ticket |-> issued + 1,
                                  expires |-> issued + 1, revoked |-> FALSE]]
    /\ UNCHANGED <<revocation, redeemed, lost, clock, request, lock>>

\* The cookie handler retrieves the ticket of the cookie's session once.
Authenticate(p, s) ==
    /\ At(p, "idle")
    /\ Retrievable(s)
    /\ SetRequest(p, [at |-> "serving", session |-> s, ticket |-> row[s].ticket, next |-> Wiped])
    /\ UNCHANGED <<rows, tokens, clock, lock>>

\* The callback of a sign-in that carries a session's cookie renews that
\* session, without the refresh lock.
SignInAgain(p) ==
    /\ At(p, "serving")
    /\ Issue(issued + 1)
    /\ SetRequest(p, [request[p] EXCEPT !.at = "renewing", !.ticket = Wiped, !.next = issued + 1])
    /\ UNCHANGED <<rows, redeemed, lost, clock, lock>>

\* RemoveAsync, from the sign-out of a request.
Remove(p) == /\ row' = [row EXCEPT ![request[p].session].state = "removed"]
             /\ SetRequest(p, NoRequest(request[p].session))
             /\ UNCHANGED <<revocation, tokens, clock, lock>>

Logout(p) == At(p, "serving") /\ Remove(p)

\* BffSessionExpiredMiddleware signs the session out.
SignOutExpired(p) == At(p, "expired") /\ Remove(p)

Finish(p) == /\ At(p, "serving")
             /\ SetRequest(p, NoRequest(request[p].session))
             /\ UNCHANGED <<rows, tokens, clock, lock>>

-----------------------------------------------------------------------------
(* AccessTokenHandler: an API call with an access token about to expire.   *)

AskLock(p) == /\ At(p, "serving")
              /\ request[p].ticket \in stale
              /\ Lock!Ask(p, request[p].session)
              /\ Move(p, "waiting")
              /\ UNCHANGED <<rows, tokens, clock>>

TakeLock(p) == /\ At(p, "waiting")
               /\ Lock!Acquire(p)
               /\ Move(p, "locked")
               /\ UNCHANGED <<rows, tokens, clock>>

\* Mutant: the ticket the request came with is refreshed.
RereadNothing(p) ==
    /\ At(p, "locked")
    /\ Move(p, "posting")
    /\ UNCHANGED <<rows, tokens, clock, lock>>

\* Under the lock the ticket is read again.  The session may be gone, or
\* another request may have refreshed it.
Reread(p) ==
    LET s == request[p].session IN
    /\ At(p, "locked")
    /\ \/ /\ ~Retrievable(s)
          /\ Move(p, "expired")
          /\ Unlock(p)
       \/ /\ Retrievable(s) /\ row[s].ticket \notin stale
          /\ Move(p, "serving")
          /\ Unlock(p)
       \/ /\ Retrievable(s) /\ row[s].ticket \in stale
          /\ SetRequest(p, [request[p] EXCEPT !.at = "posting", !.ticket = row[s].ticket])
          /\ UNCHANGED lock
    /\ UNCHANGED <<rows, tokens, clock>>

\* Identity redeems the refresh token and answers with new tokens.
Redeem(p) ==
    /\ At(p, "posting")
    /\ Issue(origin[request[p].ticket])
    /\ redeemed' = redeemed \cup {request[p].ticket}
    /\ SetRequest(p, [request[p] EXCEPT !.at = "renewing", !.next = issued + 1])
    /\ UNCHANGED <<rows, lost, clock, lock>>

\* invalid_grant
Refuse(p) == /\ At(p, "posting")
             /\ Move(p, "expired")
             /\ Unlock(p)
             /\ UNCHANGED <<rows, tokens, clock>>

\* The request fails or is cancelled.  What it had redeemed is lost: the answer
\* of Identity did not arrive, or was not saved.
Fail(p) ==
    /\ ~At(p, "idle") /\ ~At(p, "expired")
    /\ \E answered \in BOOLEAN :
          LET n == request[p].ticket
              gone == IF n # Wiped /\ (request[p].at \in {"renewing", "saving"} \/ (At(p, "posting") /\ answered))
                      THEN {n} ELSE {}
          IN redeemed' = redeemed \cup gone /\ lost' = lost \cup gone
    /\ SetRequest(p, NoRequest(request[p].session))
    /\ Unlock(p)
    /\ UNCHANGED <<rows, issued, origin, clock>>

\* RenewAsync reads the row and gives up on one that is gone or revoked.
RenewRead(p) ==
    LET s == request[p].session IN
    /\ At(p, "renewing")
    /\ \/ /\ row[s].state = "stored" /\ ~row[s].revoked
          /\ Move(p, "saving")
          /\ UNCHANGED lock
       \/ /\ ~(row[s].state = "stored" /\ ~row[s].revoked)
          /\ Move(p, "serving")
          /\ Unlock(p)
    /\ UNCHANGED <<rows, tokens, clock>>

\* Mutant: the whole row is written, whatever became of it.
SaveWholeRow(p) ==
    /\ At(p, "saving")
    /\ row' = [row EXCEPT ![request[p].session] =
          [state |-> "stored", user |-> @.user, ticket |-> request[p].next,
           expires |-> origin[request[p].next], revoked |-> FALSE]]
    /\ Move(p, "serving")
    /\ Unlock(p)
    /\ UNCHANGED <<revocation, tokens, clock>>

\* It saves the ticket and its expiry; a row that is gone fails the request.
RenewSave(p) ==
    LET s == request[p].session IN
    /\ At(p, "saving")
    /\ row[s].state = "stored"
    /\ row' = [row EXCEPT ![s].ticket = request[p].next, ![s].expires = origin[request[p].next]]
    /\ Move(p, "serving")
    /\ Unlock(p)
    /\ UNCHANGED <<revocation, tokens, clock>>

-----------------------------------------------------------------------------
(* RevokeUserSessionsAsync.                                                *)

NoRevocation == [busy |-> FALSE, found |-> {}]

RevokeRead(a, users) ==
    /\ ~revocation[a].busy
    /\ revocation' = [revocation EXCEPT ![a] =
          [busy |-> TRUE, found |-> {s \in Sessions : /\ row[s].state = "stored" /\ ~row[s].revoked
                                                      /\ row[s].user \in users}]]
    /\ UNCHANGED <<row, tokens, clock, request, lock>>

\* Every row it found is wiped and marked, or none is.
RevokeSave(a) ==
    LET found == revocation[a].found IN
    /\ revocation[a].busy
    /\ \A s \in found : row[s].state = "stored"
    /\ row' = [s \in Sessions |-> IF s \in found
                                  THEN [row[s] EXCEPT !.ticket = Wiped, !.revoked = TRUE] ELSE row[s]]
    /\ revocation' = [revocation EXCEPT ![a] = NoRevocation]
    /\ UNCHANGED <<tokens, clock, request, lock>>

\* A row it found was removed, or the call was lost: Identity repeats it.
RevokeFail(a) == /\ revocation[a].busy
                 /\ revocation' = [revocation EXCEPT ![a] = NoRevocation]
                 /\ UNCHANGED <<row, tokens, clock, request, lock>>

-----------------------------------------------------------------------------
Init == /\ row \in [Sessions -> {r \in Rows : r.state = "free" /\ r.ticket = Wiped
                                              /\ r.expires = Wiped /\ ~r.revoked}]
        /\ issued = 0
        /\ origin = [n \in Tickets |-> n]
        /\ stale = {} /\ over = {} /\ redeemed = {} /\ lost = {}
        /\ revocation = [a \in Revocations |-> NoRevocation]
        /\ Lock!Init
        /\ request = [p \in Requests |-> NoRequest(key[p])]

RequestStep(p) ==
    \/ \E s \in Sessions : Authenticate(p, s) \/ (\E u \in Users : SignIn(p, s, u))
    \/ SignInAgain(p) \/ Logout(p) \/ SignOutExpired(p) \/ Finish(p)
    \/ AskLock(p) \/ TakeLock(p) \/ Reread(p)
    \/ Redeem(p) \/ Refuse(p) \/ RenewRead(p) \/ RenewSave(p)
    \/ Fail(p)

RevocationStep(a) == (\E users \in SUBSET Users : RevokeRead(a, users)) \/ RevokeSave(a) \/ RevokeFail(a)

Next == \/ \E n \in Tickets : GoStale(n) \/ GoOver(n)
        \/ \E p \in Requests : RequestStep(p)
        \/ \E a \in Revocations : RevocationStep(a)

Spec == Init /\ [][Next]_vars

-----------------------------------------------------------------------------
(* Properties.                                                             *)

Ended(s) == row[s].state = "removed" \/ (row[s].state = "stored" /\ row[s].revoked)

\* A session that was signed out or revoked never serves a request again, even if
\* a refresh of it was under way (DatabaseTicketStore.RenewAsync: "must never be
\* brought back to life by a request that was already in flight").
EndedStaysEnded == [][\A s \in Sessions : Ended(s) => ~Retrievable(s)']_vars

\* Identity sees a refresh token twice only if the request that redeemed it
\* failed before the successor was saved (the lock and the second read of
\* GetRefreshedAccessTokenAsync).
RefreshedOnce ==
    \A p \in Requests : At(p, "posting") /\ request[p].ticket \in redeemed => request[p].ticket \in lost

-----------------------------------------------------------------------------
(* Why RefreshedOnce holds: a refresh token is in one session only, and    *)
(* what a session's row holds is unused unless the holder of its lock is   *)
(* replacing it.                                                           *)

Refreshing(p) == request[p].at \in {"renewing", "saving"} /\ request[p].ticket # Wiped

\* Who presents a refresh token or has just done so, under the lock.
InHand(p) == At(p, "posting") \/ Refreshing(p)

Pending(p) == request[p].at \in {"renewing", "saving"}

LockHeld == \A p \in Requests :
    /\ stage[p] # "out" => key[p] = request[p].session
    /\ stage[p] = "holds" <=> At(p, "locked") \/ InHand(p)
    /\ stage[p] = "waits" <=> At(p, "waiting")
    /\ \A q \in Requests : stage[p] = "holds" /\ stage[q] = "holds" /\ key[p] = key[q] => p = q

AllIssued == /\ \A s \in Sessions : row[s].ticket <= issued
             /\ \A n \in redeemed : n <= issued
             /\ \A p \in Requests : request[p].ticket <= issued /\ request[p].next <= issued

\* A successor that is not saved yet is known to its request only.
NextFresh == \A p \in Requests : Pending(p) =>
    /\ request[p].next # Wiped
    /\ request[p].next \notin redeemed
    /\ \A s \in Sessions : row[s].ticket # request[p].next
    /\ \A q \in Requests : /\ request[q].ticket # request[p].next
                           /\ Pending(q) /\ request[q].next = request[p].next => p = q

OneSession ==
    /\ \A s, t \in Sessions : row[s].ticket = row[t].ticket /\ row[s].ticket # Wiped => s = t
    /\ \A p \in Requests : InHand(p) =>
          /\ request[p].ticket # Wiped
          /\ \A s \in Sessions : row[s].ticket = request[p].ticket => s = request[p].session
          /\ \A q \in Requests : InHand(q) /\ request[q].ticket = request[p].ticket =>
                request[q].session = request[p].session

StoredUnused == \A s \in Sessions : Retrievable(s) /\ row[s].ticket \in redeemed =>
    \/ row[s].ticket \in lost
    \/ \E p \in Requests : Refreshing(p) /\ request[p].session = s /\ request[p].ticket = row[s].ticket

Inv == TypeOK /\ LockHeld /\ AllIssued /\ NextFresh /\ OneSession /\ StoredUnused /\ RefreshedOnce
=============================================================================
